--------------------------- MODULE MCTransactions ---------------------------
(* The services whose transactions interleave statement by statement, for     *)
(* TLC. A behaviour explores one part: "locking", seat commands and sweepers; *)
(* "sessions", two requests to Identity Service; "customers", two customers   *)
(* and one caller that may crash; "mappings", two callers that edit and link  *)
(* one customer; "events", two administrators of one event. The parts share   *)
(* no state, but for "customers" and "mappings": a part that does not move    *)
(* keeps its initial state.                                                   *)
EXTENDS SeatTransactions, TLC

CONSTANTS
  None,
  Users, Clients, LockoutThreshold, RateLimit, MaxSessions, MaxAttempts,
  MaxVersion,                                                            \* IdentityService
  Agents, Mailboxes, Subjects, Keys, MaxCustomers, MaxCalls,             \* CustomerService
  Lead,                       \* the agent that moves where one caller does
  MaxLinkCalls,               \* calls where several callers link one customer
  Editors, MaxEvents, MaxChanges                                          \* EventService

VARIABLES
  part,                                                                  \* the part that moves
  users, buckets, sessions, tokens, logins, ended, guesses, attempts,    \* IdentityService
  customers, mappings, consents, calls, asked, writes, links, results,   \* CustomerService
  events, onTime, edits, changes, versions                               \* EventService

identityVars == <<users, buckets, sessions, tokens, logins, ended, guesses, attempts>>
customerVars == <<customers, mappings, consents, calls, asked, writes, links, results>>
eventVars == <<events, onTime, edits, changes, versions>>

Identity == INSTANCE IdentityService WITH
  Callers <- Clients, MaxRequests <- MaxAttempts, calls <- logins, begun <- attempts

Customers == INSTANCE CustomerService WITH
  Callers <- Agents, MaxRequests <- MaxCalls, begun <- asked

Administrators == INSTANCE EventService WITH
  Callers <- Editors, MaxRequests <- MaxChanges,
  calls <- edits, begun <- changes, writes <- versions

ASSUME ConstantsAssumption ==
  /\ TransactionAssumption /\ Identity!IdentityAssumption /\ Customers!CustomerAssumption
  /\ Administrators!EventAssumption /\ Lead \in Agents

MCInit ==
  /\ part \in {"locking", "sessions", "customers", "mappings", "events"}
  /\ Init /\ Identity!Init /\ Customers!Init /\ Administrators!Init

OneCaller == \A c \in Agents \ {Lead} : calls'[c] = calls[c]

OneCustomer == DOMAIN customers' \subseteq {1} /\ asked' <= MaxLinkCalls

MCNext ==
  /\ UNCHANGED part
  /\ \/ part = "locking" /\ Next /\ UNCHANGED <<identityVars, customerVars, eventVars>>
     \/ part = "sessions" /\ Identity!Next /\ UNCHANGED <<vars, customerVars, eventVars>>
     \/ part = "customers" /\ Customers!Next /\ OneCaller /\ UNCHANGED <<vars, identityVars, eventVars>>
     \/ part = "mappings" /\ Customers!Next /\ OneCustomer /\ UNCHANGED <<vars, identityVars, eventVars>>
     \/ part = "events" /\ Administrators!Next /\ UNCHANGED <<vars, identityVars, customerVars>>

MCSpec == MCInit /\ [][MCNext]_<<part, vars, identityVars, customerVars, eventVars>>

\* Which command, sweeper, request to Identity Service, mailbox or subject is which
\* does not matter. The parts share no state, so that one value may stand for a
\* command, a client and a mailbox, another for a sweeper and a subject.
Symmetry == Permutations(Commands) \cup Permutations(Sweepers)

-----------------------------------------------------------------------------
(* The properties of the components.                                         *)

\* Concurrent requests to Identity Service leave one live session in a family of
\* refresh tokens, roles that follow the version access tokens carry, and no more
\* wrong passwords answered than the lockout threshold allows.
AccountsAreGuarded ==
  part = "sessions" =>
    /\ Identity!TypeOK /\ Identity!OneLiveSession /\ Identity!VersionDeterminesRoles
    /\ Identity!LockoutHolds

\* A link that was answered resolves to its customer until it is unlinked, where
\* one caller moves; a customer has at most one mapping row, also when two callers
\* link it; and an event has the list of ticket types its last writer saved, also
\* beside a second administrator, unless both saved one version of it.
RowsHaveOneOwner ==
  /\ part \in {"customers", "mappings"} => Customers!TypeOK /\ Customers!CustomerHasOneMapping
  /\ part = "customers" => Customers!LinkIsKept
  /\ part = "events" => Administrators!TypeOK /\ Administrators!OneTicketTypeList

\* Statuses move as they may although every save is made from a copy that a second
\* caller may have overtaken since: a deactivated customer stays deactivated, and
\* an event's status changes as its transition table allows, unless two writers
\* saved one version of the row.
StatusesMoveAsAllowed ==
  /\ [][Customers!StaysDeactivated]_customerVars
  /\ Administrators!StatusMovesAllowed

=============================================================================
