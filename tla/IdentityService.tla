-------------------------- MODULE IdentityService ---------------------------
(***************************************************************************)
(* The Identity Service: accounts, login with its rate limit and lockout,  *)
(* refresh sessions that rotate within a family, logout, and roles.        *)
(*                                                                         *)
(* Requests are database transactions at READ COMMITTED. A row is locked   *)
(* from SELECT ... FOR UPDATE to the commit, and a transaction that locked *)
(* its last row runs to the commit in one step: what it writes is seen by  *)
(* the others only then. An UPDATE over several rows works on the rows its *)
(* statement saw when it began, waits for those another transaction holds, *)
(* and looks at them again; rows committed meanwhile are not among them.   *)
(***************************************************************************)
EXTENDS Naturals, FiniteSets, FiniteSetsExt

CONSTANTS
    Users,             \* accounts, named by their normalized e-mail
    Callers,           \* concurrent requests
    None,              \* a model value
    LockoutThreshold,  \* failed logins that lock an account
    RateLimit,         \* logins per window and bucket
    MaxSessions,       \* refresh sessions ever created
    MaxRequests,       \* requests ever begun
    MaxVersion         \* bound on token_version

IdentityAssumption ==
    /\ {LockoutThreshold, RateLimit, MaxSessions, MaxRequests, MaxVersion} \subseteq Nat \ {0}
    /\ None \notin Users \cup Callers /\ IsFiniteSet(Callers)

VARIABLES
    users,     \* the users and user_roles tables
    buckets,   \* auth_rate_limits: one row per account and address
    sessions,  \* refresh_sessions: [1..n -> session]
    tokens,    \* the access tokens that were issued
    calls,     \* calls[c]: the transaction caller c runs
    ended,     \* families a logout or a detected reuse answered as revoked
    guesses,   \* guesses[u]: wrong passwords answered since the count began
    begun      \* how many requests were begun

vars == <<users, buckets, sessions, tokens, calls, ended, guesses, begun>>

Roles == {"CUSTOMER", "ADMIN"}

NoUser == [exists |-> FALSE, roles |-> {}, version |-> 1, failed |-> 0,
           locked |-> "no", status |-> "ACTIVE"]

\* row: whether a committed or a fresh row is there; owner: who locked it.
NoBucket == [row |-> FALSE, fresh |-> FALSE, owner |-> None, attempts |-> 0,
             blocked |-> FALSE, elapsed |-> FALSE]

NoCall == [op |-> "none", phase |-> "idle", user |-> None, session |-> 0, right |-> FALSE,
           rows |-> {}, actor |-> None, answer |-> "none"]

Init ==
    /\ users = [u \in Users |-> NoUser]
    /\ buckets = [u \in Users |-> NoBucket]
    /\ sessions = <<>>
    /\ tokens = {}
    /\ calls = [c \in Callers |-> NoCall]
    /\ ended = {}
    /\ guesses = [u \in Users |-> 0]
    /\ begun = 0

Begin(c, call) ==
    /\ calls[c].phase = "idle"
    /\ begun < MaxRequests
    /\ begun' = begun + 1
    /\ calls' = [calls EXCEPT ![c] = call]

UnderWay(op) == {c \in Callers : calls[c].op = op /\ calls[c].phase # "idle"}

\* The bounds on sessions and versions are kept when a request begins, so that
\* none is stopped half way.
HasSessionRoom ==
    Cardinality(DOMAIN sessions) + Cardinality(UnderWay("login")) + Cardinality(UnderWay("refresh"))
        < MaxSessions

HasVersionRoom(u) == users[u].version + Cardinality(UnderWay("change_role")) < MaxVersion

\* The transaction ends; the caller may send its next request.
Answer(c, answer) == [calls EXCEPT ![c] = [NoCall EXCEPT !.op = calls[c].op, !.answer = answer]]

-----------------------------------------------------------------------------
(* Registration and the administrator's bootstrap. *)

\* The unique e-mail decides between two registrations; a second one is told
\* EMAIL_ALREADY_EXISTS whether it read the row or met the constraint.
Register(u) ==
    /\ ~users[u].exists
    /\ users' = [users EXCEPT ![u] = [NoUser EXCEPT !.exists = TRUE, !.roles = {"CUSTOMER"}]]
    /\ UNCHANGED <<buckets, sessions, tokens, calls, ended, guesses, begun>>

\* bootstrap_admin registers the account when needed, in a transaction of its
\* own, and then grants ADMIN.
BootstrapAdmin(u) ==
    /\ users[u].exists
    /\ "ADMIN" \notin users[u].roles
    /\ HasVersionRoom(u)
    /\ users' = [users EXCEPT ![u].roles = @ \cup {"ADMIN"}, ![u].version = @ + 1]
    /\ UNCHANGED <<buckets, sessions, tokens, calls, ended, guesses, begun>>

-----------------------------------------------------------------------------
(* TokenSessionIssuer.issue: one refresh session and one access token. *)

NewSession(u, family, parent) ==
    [user |-> u, family |-> family, parent |-> parent, replaced |-> 0,
     revoked |-> "no", expired |-> FALSE]

NextSession == Cardinality(DOMAIN sessions) + 1

AddSession(f, s) == [i \in DOMAIN f \cup {NextSession} |-> IF i \in DOMAIN f THEN f[i] ELSE s]

AccessToken(u) == [user |-> u, version |-> users[u].version, roles |-> users[u].roles]

IsActive(i) == sessions[i].revoked = "no"

Family(f) == {i \in DOMAIN sessions : sessions[i].family = f}

-----------------------------------------------------------------------------
(* AuthenticationUseCase.login. *)

\* LoginRateLimitRepository.consume inserts the bucket unless it is there. A
\* row another transaction inserted and did not commit makes it wait.
BeginLogin(c, u, right) ==
    /\ ~buckets[u].fresh
    /\ HasSessionRoom
    /\ Begin(c, [NoCall EXCEPT !.op = "login", !.user = u, !.right = right,
                   !.phase = IF buckets[u].row THEN "select" ELSE "checked"])
    /\ buckets' = IF buckets[u].row THEN buckets
                  ELSE [buckets EXCEPT ![u] = [NoBucket EXCEPT !.row = TRUE, !.fresh = TRUE,
                                                               !.owner = c]]
    /\ UNCHANGED <<users, sessions, tokens, ended, guesses>>

\* Mutant: a row that is gone is waited for.
WaitForBucket(c) ==
    LET u == calls[c].user IN
    /\ calls[c].phase = "select"
    /\ buckets[u].owner = None
    /\ buckets[u].row
    /\ buckets' = [buckets EXCEPT ![u].owner = c]
    /\ calls' = [calls EXCEPT ![c].phase = "checked"]
    /\ UNCHANGED <<users, sessions, tokens, ended, guesses, begun>>

\* ... and then selects it FOR UPDATE: when the transaction that held it
\* deleted it, there is no row any more, and consume raises.
SelectBucket(c) ==
    LET u == calls[c].user IN
    /\ calls[c].phase = "select"
    /\ buckets[u].owner = None
    /\ IF buckets[u].row
       THEN /\ buckets' = [buckets EXCEPT ![u].owner = c]
            /\ calls' = [calls EXCEPT ![c].phase = "checked"]
       ELSE /\ buckets' = buckets
            /\ calls' = Answer(c, "INTERNAL_ERROR")
    /\ UNCHANGED <<users, sessions, tokens, ended, guesses, begun>>

\* The bucket after consume: a new window when the old one is over.
Counted(b) ==
    LET fresh == IF b.elapsed THEN [b EXCEPT !.attempts = 0, !.blocked = FALSE, !.elapsed = FALSE]
                 ELSE b
    IN  IF fresh.blocked THEN fresh
        ELSE [fresh EXCEPT !.attempts = @ + 1, !.blocked = fresh.attempts + 1 > RateLimit]

Committed(b) == [b EXCEPT !.fresh = FALSE, !.owner = None]

\* Clears a lockout whose time is over.
Unlocked(user) == IF user.locked = "past" THEN [user EXCEPT !.locked = "no", !.failed = 0]
                  ELSE user

\* Mutant: a login that fails keeps its bucket's lock.
FailLoginHolding(c, user, answer) ==
    LET u == calls[c].user IN
    /\ users' = [users EXCEPT ![u] = user]
    /\ buckets' = [buckets EXCEPT ![u] = [Counted(@) EXCEPT !.fresh = FALSE]]
    /\ calls' = Answer(c, answer)
    /\ UNCHANGED <<sessions, tokens, ended, begun>>

\* A refused login commits what it counted.
FailLogin(c, user, answer) ==
    LET u == calls[c].user IN
    /\ users' = [users EXCEPT ![u] = user]
    /\ buckets' = [buckets EXCEPT ![u] = Committed(Counted(@))]
    /\ calls' = Answer(c, answer)
    /\ UNCHANGED <<sessions, tokens, ended, begun>>

\* Mutant: a wrong password is raised inside the transaction, which rolls back.
RollBackWrongPassword(c) ==
    LET u == calls[c].user IN
    /\ ~calls[c].right
    /\ Unlocked(users[u]).locked = "no"
    /\ guesses' = [guesses EXCEPT ![u] = @ + 1]
    /\ FailLogin(c, users[u], "INVALID_CREDENTIALS")

\* The failure is counted and committed; at the threshold the account locks.
WrongPassword(c) ==
    LET u == calls[c].user
        user == Unlocked(users[u])
    IN  /\ ~calls[c].right
        /\ user.locked = "no"
        /\ guesses' = [guesses EXCEPT ![u] = IF users[u].locked = "past" THEN 1 ELSE @ + 1]
        /\ FailLogin(c, [user EXCEPT !.failed = @ + 1,
                                     !.locked = IF user.failed + 1 >= LockoutThreshold
                                                THEN "yes" ELSE "no"], "INVALID_CREDENTIALS")

LockedOut(c) ==
    /\ users[calls[c].user].locked = "yes"
    /\ guesses' = guesses
    /\ FailLogin(c, users[calls[c].user], "ACCOUNT_LOCKED")

Disabled(c) ==
    LET u == calls[c].user
        user == Unlocked(users[u])
    IN
    /\ calls[c].right
    /\ user.locked = "no"
    /\ user.status # "ACTIVE"
    /\ guesses' = [guesses EXCEPT ![u] = IF users[u].locked = "past" THEN 0 ELSE @]
    /\ FailLogin(c, user, "ACCOUNT_DISABLED")

\* Success deletes the bucket and starts a new session family.
LoggedIn(c) ==
    LET u == calls[c].user IN
    /\ calls[c].right
    /\ users[u].status = "ACTIVE"
    /\ users[u].locked # "yes"
    /\ users' = [users EXCEPT ![u].failed = 0, ![u].locked = "no"]
    /\ buckets' = [buckets EXCEPT ![u] = NoBucket]
    /\ sessions' = AddSession(sessions, NewSession(u, NextSession, 0))
    /\ tokens' = tokens \cup {AccessToken(u)}
    /\ guesses' = [guesses EXCEPT ![u] = 0]
    /\ calls' = Answer(c, "SUCCESS")
    /\ UNCHANGED <<ended, begun>>

IsRateLimited(u) == Counted(buckets[u]).blocked

\* An unknown e-mail fails like a wrong password.
FinishLogin(c) ==
    /\ calls[c].op = "login"
    /\ calls[c].phase = "checked"
    /\ LET u == calls[c].user IN
        \/ /\ IsRateLimited(u)
           /\ guesses' = guesses
           /\ FailLogin(c, users[u], "RATE_LIMITED")
        \/ /\ ~IsRateLimited(u)
           /\ ~users[u].exists
           /\ guesses' = guesses
           /\ FailLogin(c, users[u], "INVALID_CREDENTIALS")
        \/ /\ ~IsRateLimited(u)
           /\ users[u].exists
           /\ LockedOut(c) \/ WrongPassword(c) \/ Disabled(c) \/ LoggedIn(c)

-----------------------------------------------------------------------------
(* SessionManagementUseCase. *)

LockedSessions == {calls[c].session : c \in {d \in Callers : calls[d].phase \in {"held", "revoking"}}}

\* Mutant: the session is read without FOR UPDATE.
ReadSession(c, op, i) ==
    /\ i \in DOMAIN sessions
    /\ op = "refresh" => HasSessionRoom
    /\ Begin(c, [NoCall EXCEPT !.op = op, !.session = i, !.phase = "held",
                   !.rows = IF IsActive(i) THEN {i} ELSE {}])
    /\ UNCHANGED <<users, buckets, sessions, tokens, ended, guesses>>

\* find_by_token_hash(for_update=True): waits for a transaction that holds it.
\* rows remembers whether the row read is the live one.
LockSession(c, op, i) ==
    /\ i \in DOMAIN sessions
    /\ i \notin LockedSessions
    /\ op = "refresh" => HasSessionRoom
    /\ Begin(c, [NoCall EXCEPT !.op = op, !.session = i, !.phase = "held",
                   !.rows = IF IsActive(i) THEN {i} ELSE {}])
    /\ UNCHANGED <<users, buckets, sessions, tokens, ended, guesses>>

IsReuse(i) == sessions[i].replaced # 0 \/ sessions[i].revoked \in {"ROTATED", "REUSE_DETECTED"}

\* The session is live: its user is locked and read, a successor is added and
\* the session marked rotated.
Rotate(c) ==
    LET i == calls[c].session
        u == sessions[i].user
    IN  /\ calls[c].op = "refresh" /\ calls[c].phase = "held"
        /\ i \in calls[c].rows
        /\ ~sessions[i].expired
        /\ users[u].status = "ACTIVE"
        /\ sessions' = AddSession([sessions EXCEPT ![i].replaced = NextSession,
                                                   ![i].revoked = "ROTATED"],
                                  NewSession(u, sessions[i].family, i))
        /\ tokens' = tokens \cup {AccessToken(u)}
        /\ calls' = Answer(c, "SUCCESS")
        /\ UNCHANGED <<users, buckets, ended, guesses, begun>>

\* An expired session is marked so; one that was revoked otherwise is refused.
RefuseRefresh(c) ==
    LET i == calls[c].session IN
    /\ calls[c].op = "refresh" /\ calls[c].phase = "held"
    /\ ~IsReuse(i)
    /\ i \notin calls[c].rows \/ sessions[i].expired
    /\ sessions' = IF IsActive(i) THEN [sessions EXCEPT ![i].revoked = "EXPIRED"] ELSE sessions
    /\ calls' = Answer(c, "INVALID_REFRESH_TOKEN")
    /\ UNCHANGED <<users, buckets, tokens, ended, guesses, begun>>

RevokeReason(c) ==
    LET i == calls[c].session IN
    IF calls[c].op = "logout" THEN "LOGOUT"
    ELSE IF i \notin calls[c].rows /\ IsReuse(i) THEN "REUSE_DETECTED"
    ELSE IF i \in calls[c].rows /\ ~sessions[i].expired
            /\ users[sessions[i].user].status # "ACTIVE" THEN "ACCOUNT_DISABLED"
    ELSE "none"

\* revoke_family, on a logout, a reuse or a disabled account: the statement
\* takes the live sessions of the family it can see ...
StartRevoke(c) ==
    /\ calls[c].phase = "held"
    /\ RevokeReason(c) # "none"
    /\ calls' = [calls EXCEPT ![c].phase = "revoking",
                              ![c].answer = RevokeReason(c),
                              ![c].rows = {i \in Family(sessions[calls[c].session].family) :
                                                IsActive(i)}]
    /\ UNCHANGED <<users, buckets, sessions, tokens, ended, guesses, begun>>

HeldByOthers(c) ==
    {calls[d].session : d \in {x \in Callers \ {c} : calls[x].phase \in {"held", "revoking"}}}

\* ... and revokes those that are still live once nobody else holds them.
FinishRevoke(c) ==
    /\ calls[c].phase = "revoking"
    /\ calls[c].rows \cap HeldByOthers(c) = {}
    /\ sessions' = [i \in DOMAIN sessions |->
                        IF i \in calls[c].rows /\ IsActive(i)
                        THEN [sessions[i] EXCEPT !.revoked = calls[c].answer]
                        ELSE sessions[i]]
    /\ ended' = ended \cup {sessions[calls[c].session].family}
    /\ calls' = Answer(c, calls[c].answer)
    /\ UNCHANGED <<users, buckets, tokens, guesses, begun>>

-----------------------------------------------------------------------------
(* Access tokens and roles. *)

\* authenticate_access_token: the account is active and neither its version
\* nor its roles changed since the token was issued.
Accepts(t) ==
    /\ users[t.user].status = "ACTIVE"
    /\ users[t.user].version = t.version
    /\ users[t.user].roles = t.roles

\* admin_principal, before the use case begins its transaction.
Authorize(c, t, u) ==
    /\ t \in tokens
    /\ Accepts(t)
    /\ "ADMIN" \in t.roles
    /\ users[u].exists
    /\ HasVersionRoom(u)
    /\ Begin(c, [NoCall EXCEPT !.op = "change_role", !.user = u, !.actor = t.user,
                               !.phase = "authorized"])
    /\ UNCHANGED <<users, buckets, sessions, tokens, ended, guesses>>

IsSelfAdminRevoke(actor, target, role, action) ==
    action = "REVOKE" /\ role = "ADMIN" /\ actor = target

Reassigned(roles, role, action) ==
    IF action = "ASSIGN" THEN roles \cup {role} ELSE roles \ {role}

\* Mutant: the token version stays when a role is revoked.
ChangeRoleOnly(c, role, action) ==
    LET u == calls[c].user
        next == Reassigned(users[u].roles, role, action)
    IN  /\ calls[c].phase = "authorized"
        /\ ~IsSelfAdminRevoke(calls[c].actor, u, role, action)
        /\ users' = [users EXCEPT ![u].roles = next,
                                  ![u].version = IF action = "ASSIGN" /\ next # users[u].roles
                                                 THEN @ + 1 ELSE @]
        /\ calls' = Answer(c, "SUCCESS")
        /\ UNCHANGED <<buckets, sessions, tokens, ended, guesses, begun>>

\* change_role, under the target's row lock: a change invalidates the target's
\* access tokens by its version.
ChangeRole(c, role, action) ==
    LET u == calls[c].user
        next == Reassigned(users[u].roles, role, action)
    IN  /\ calls[c].phase = "authorized"
        /\ ~IsSelfAdminRevoke(calls[c].actor, u, role, action)
        /\ users' = [users EXCEPT ![u].roles = next,
                                  ![u].version = IF next # users[u].roles THEN @ + 1 ELSE @]
        /\ calls' = Answer(c, IF next # users[u].roles THEN "SUCCESS" ELSE "NO_CHANGE")
        /\ UNCHANGED <<buckets, sessions, tokens, ended, guesses, begun>>

RefuseSelfRevoke(c) ==
    /\ calls[c].phase = "authorized"
    /\ IsSelfAdminRevoke(calls[c].actor, calls[c].user, "ADMIN", "REVOKE")
    /\ calls' = Answer(c, "FORBIDDEN")
    /\ UNCHANGED <<users, buckets, sessions, tokens, ended, guesses, begun>>

-----------------------------------------------------------------------------
(* Time, and the operator who disables an account in the database. *)

LockoutPasses(u) ==
    /\ users[u].locked = "yes"
    /\ users' = [users EXCEPT ![u].locked = "past"]
    /\ UNCHANGED <<buckets, sessions, tokens, calls, ended, guesses, begun>>

WindowPasses(u) ==
    /\ buckets[u].row /\ ~buckets[u].elapsed /\ buckets[u].owner = None
    /\ buckets' = [buckets EXCEPT ![u].elapsed = TRUE]
    /\ UNCHANGED <<users, sessions, tokens, calls, ended, guesses, begun>>

SessionExpires(i) ==
    /\ i \in DOMAIN sessions
    /\ ~sessions[i].expired
    /\ i \notin LockedSessions
    /\ sessions' = [sessions EXCEPT ![i].expired = TRUE]
    /\ UNCHANGED <<users, buckets, tokens, calls, ended, guesses, begun>>

DisableAccount(u) ==
    /\ users[u].exists /\ users[u].status = "ACTIVE"
    /\ users' = [users EXCEPT ![u].status = "DISABLED"]
    /\ UNCHANGED <<buckets, sessions, tokens, calls, ended, guesses, begun>>

-----------------------------------------------------------------------------
(* The specification. *)

Login == \E c \in Callers :
    \/ \E u \in Users, right \in BOOLEAN : BeginLogin(c, u, right)
    \/ SelectBucket(c)
    \/ FinishLogin(c)

Refresh == \E c \in Callers :
    \/ \E i \in DOMAIN sessions : LockSession(c, "refresh", i)
    \/ Rotate(c)
    \/ RefuseRefresh(c)

Logout == \E c \in Callers :
    \/ \E i \in DOMAIN sessions : LockSession(c, "logout", i)
    \/ StartRevoke(c)
    \/ FinishRevoke(c)

Administer == \E c \in Callers :
    \/ \E t \in tokens, u \in Users : Authorize(c, t, u)
    \/ \E role \in Roles, action \in {"ASSIGN", "REVOKE"} : ChangeRole(c, role, action)
    \/ RefuseSelfRevoke(c)

Environment ==
    \/ \E u \in Users : Register(u) \/ BootstrapAdmin(u)
    \/ \E u \in Users : LockoutPasses(u) \/ WindowPasses(u) \/ DisableAccount(u)
    \/ \E i \in DOMAIN sessions : SessionExpires(i)

Next == Login \/ Refresh \/ Logout \/ Administer \/ Environment

\* A transaction that can go on does: PostgreSQL grants a free lock.
Progress(c) ==
    \/ SelectBucket(c)
    \/ FinishLogin(c)
    \/ Rotate(c)
    \/ RefuseRefresh(c)
    \/ StartRevoke(c)
    \/ FinishRevoke(c)
    \/ RefuseSelfRevoke(c)
    \/ \E role \in Roles, action \in {"ASSIGN", "REVOKE"} : ChangeRole(c, role, action)

Fairness == \A c \in Callers : WF_vars(Progress(c))

Spec == Init /\ [][Next]_vars

FairSpec == Spec /\ Fairness

-----------------------------------------------------------------------------
(* Properties. *)

Sessions == [user : Users, family : 1..MaxSessions, parent : 0..MaxSessions,
             replaced : 0..MaxSessions, expired : BOOLEAN,
             revoked : {"no", "ROTATED", "REUSE_DETECTED", "EXPIRED", "ACCOUNT_DISABLED",
                        "LOGOUT"}]

\* Rows have the shape the models' check constraints and enumerations give
\* them, and a locked bucket belongs to a transaction that is under way.
TypeOK ==
    /\ \A u \in Users :
        /\ users[u].roles \subseteq Roles
        /\ users[u].version \in 1..MaxVersion
        /\ users[u].failed \in Nat
        /\ buckets[u].owner # None => calls[buckets[u].owner].phase = "checked"
    /\ DOMAIN sessions = 1..Cardinality(DOMAIN sessions)
    /\ \A i \in DOMAIN sessions : sessions[i] \in Sessions
    /\ \A t \in tokens : t.user \in Users /\ t.roles \subseteq Roles

\* A family has at most one live session: of two refreshes with one token only
\* one rotates it, and the other is a reuse.
OneLiveSession ==
    \A i, j \in DOMAIN sessions :
        sessions[i].family = sessions[j].family /\ IsActive(i) /\ IsActive(j) => i = j

\* Access tokens of an account's current version all carry its current roles:
\* a role change never leaves a token of the old roles with a version that is
\* still accepted, although tokens are issued while roles change.
VersionDeterminesRoles ==
    \A t \in tokens : t.version = users[t.user].version => t.roles = users[t.user].roles

\* No more wrong passwords are answered than the lockout threshold allows
\* until a login succeeds or the lockout's time is over, however many requests
\* try at once.
LockoutHolds ==
    \A u \in Users : guesses[u] <= LockoutThreshold

\* Every request comes to an answer: no transactions wait for each other.
RequestsEnd ==
    \A c \in Callers : calls[c].phase # "idle" ~> calls[c].phase = "idle"

\* Login never runs into the error the rate limiter raises for a bucket that
\* it has just made sure of.
BucketIsThere ==
    \A c \in Callers : calls[c].answer # "INTERNAL_ERROR"

\* After a logout or a detected reuse was answered, no session of the family
\* is live.
EndedFamilyIsRevoked ==
    \A i \in DOMAIN sessions : sessions[i].family \in ended => ~IsActive(i)

\* Only an administrator changes roles.
RoleChangeRequiresAdmin ==
    [][\A c \in Callers :
        /\ calls[c].phase = "authorized"
        /\ calls'[c].answer = "SUCCESS"
        => "ADMIN" \in users[calls[c].actor].roles]_vars

=============================================================================
