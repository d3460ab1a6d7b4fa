-------------------------- MODULE CustomerService ---------------------------
(***************************************************************************)
(* The Customer Service: profiles, consents, and the mapping of identity   *)
(* subjects to customers.                                                  *)
(*                                                                         *)
(* Every repository method is a transaction of its own at READ COMMITTED,  *)
(* and no row is locked: a command reads the entity, checks If-Match,      *)
(* changes its copy and saves it later. Saving loads the row again and     *)
(* flushes the columns that differ. The process may stop in between.       *)
(***************************************************************************)
EXTENDS Naturals, FiniteSets, UnitOfWork

CONSTANTS
    Callers,       \* concurrent requests
    Mailboxes,     \* e-mail addresses up to the case of their letters
    Subjects,      \* identity subjects
    Keys,          \* Idempotency-Keys of create requests
    None,          \* a model value
    MaxCustomers,  \* customers ever created
    MaxRequests    \* requests ever begun

CustomerAssumption ==
    /\ {MaxCustomers, MaxRequests} \subseteq Nat \ {0}
    /\ None \notin Callers \cup Subjects /\ IsFiniteSet(Callers)
    /\ None \notin [customer : Nat, status : {"ACTIVE", "UNLINKED"}, version : Nat]

VARIABLES
    customers,  \* the customers table: [1..n -> row]
    mappings,   \* identity_mappings: [Subjects -> row or None]
    consents,   \* customer_consents of one channel
    calls,      \* calls[c]: the request caller c runs
    begun,      \* how many requests were begun
    writes,     \* which request made a version of a customer into the next
    links,      \* links that were answered and not unlinked since
    results     \* what creations were answered

vars == <<customers, mappings, consents, calls, begun, writes, links, results>>

Emails == [box : Mailboxes, upper : BOOLEAN]

\* email.lower() of two addresses is the same.
SameMailbox(e, f) == e.box = f.box

NoCall == [op |-> "none", phase |-> "idle", id |-> 0, subject |-> None, key |-> None,
           from |-> 0, number |-> 0, entity |-> None, loaded |-> None, answer |-> "none"]

Init ==
    /\ customers = <<>>
    /\ mappings = [s \in Subjects |-> None]
    /\ consents = [i \in 1..MaxCustomers |-> FALSE]
    /\ calls = [c \in Callers |-> NoCall]
    /\ begun = 0
    /\ writes = {}
    /\ links = {}
    /\ results = {}

Exists(i) == i \in DOMAIN customers

Begin(c, call) ==
    /\ calls[c].phase = "idle"
    /\ begun < MaxRequests
    /\ begun' = begun + 1
    /\ calls' = [calls EXCEPT ![c] = [call EXCEPT !.number = begun + 1]]

Answer(c, answer) == [calls EXCEPT ![c] = [NoCall EXCEPT !.op = calls[c].op, !.answer = answer]]

Refused(op, answer) == [NoCall EXCEPT !.op = op, !.answer = answer]

-----------------------------------------------------------------------------
(* create_customer. *)

IsTaken(email) == \E i \in DOMAIN customers : SameMailbox(customers[i].email, email)

Result(key, email, answer, id) == [key |-> key, email |-> email, answer |-> answer, id |-> id]

\* ensure_email_unique over list_all. The Idempotency-Key is required and not
\* used.
BeginCreate(c, key, email) ==
    /\ Cardinality(DOMAIN customers) + Cardinality({d \in Callers : calls[d].phase = "adding"})
           < MaxCustomers
    /\ Begin(c, IF IsTaken(email) THEN Refused("create", "DUPLICATE_EMAIL")
                ELSE [NoCall EXCEPT !.op = "create", !.phase = "adding", !.key = key,
                                    !.entity = [email |-> email, status |-> "ACTIVE",
                                                version |-> 1]])
    /\ results' = IF IsTaken(email) THEN results \cup {Result(key, email, "DUPLICATE_EMAIL", 0)}
                  ELSE results
    /\ UNCHANGED <<customers, mappings, consents, writes, links>>

\* The unique constraint compares the addresses as they are written.
Violates(i, email) == \E j \in DOMAIN customers \ {i} : customers[j].email = email

\* next_id and add.
AddCustomer(c) ==
    LET id == Cardinality(DOMAIN customers) + 1
        entity == calls[c].entity
        answer == IF Violates(id, entity.email) THEN "DUPLICATE_EMAIL" ELSE "SUCCESS"
    IN  /\ calls[c].phase = "adding"
        /\ customers' = IF answer # "SUCCESS" THEN customers
                        ELSE [i \in DOMAIN customers \cup {id} |->
                                IF i = id THEN entity ELSE customers[i]]
        /\ calls' = Answer(c, answer)
        /\ results' = results \cup {Result(calls[c].key, entity.email, answer,
                                           IF answer = "SUCCESS" THEN id ELSE 0)}
        /\ UNCHANGED <<mappings, consents, begun, writes, links>>

-----------------------------------------------------------------------------
(* Commands under If-Match: replace, deactivate and the consent update. *)

\* Mutant: the consent update does not move the version.
ChangedSilently(op, customer, email) ==
    [customer EXCEPT !.email = IF op = "replace" THEN email ELSE @,
                     !.status = IF op = "deactivate" THEN "INACTIVE" ELSE @,
                     !.version = IF op = "consent" THEN @ ELSE @ + 1]

Changed(op, customer, email) ==
    [customer EXCEPT !.email = IF op = "replace" THEN email ELSE @,
                     !.status = IF op = "deactivate" THEN "INACTIVE" ELSE @,
                     !.version = @ + 1]

\* Mutant: the version in If-Match is not compared.
BeginUnconditional(c, op, i, version, email) ==
    /\ Exists(i)
    /\ Begin(c, [NoCall EXCEPT !.op = op, !.id = i, !.from = version,
                                !.phase = IF op = "consent" THEN "consenting" ELSE "loading",
                                !.entity = Changed(op, customers[i], email)])
    /\ UNCHANGED <<customers, mappings, consents, writes, links, results>>

\* The entity is read and its version compared.
BeginCommand(c, op, i, version, email) ==
    /\ Exists(i)
    /\ Begin(c, IF customers[i].version # version THEN Refused(op, "PRECONDITION_FAILED")
                ELSE [NoCall EXCEPT !.op = op, !.id = i, !.from = version,
                                    !.phase = IF op = "consent" THEN "consenting" ELSE "loading",
                                    !.entity = Changed(op, customers[i], email)])
    /\ UNCHANGED <<customers, mappings, consents, writes, links, results>>

\* save_consent commits before the customer's version moves.
SaveConsent(c) ==
    /\ calls[c].phase = "consenting"
    /\ consents' = [consents EXCEPT ![calls[c].id] = ~@]
    /\ calls' = [calls EXCEPT ![c].phase = "loading"]
    /\ UNCHANGED <<customers, mappings, begun, writes, links, results>>

\* update: session.get ...
LoadCustomer(c) ==
    /\ calls[c].phase = "loading"
    /\ calls' = [calls EXCEPT ![c].phase = "flushing", ![c].loaded = customers[calls[c].id]]
    /\ UNCHANGED <<customers, mappings, consents, begun, writes, links, results>>

\* Mutant: saving a customer makes it active again.
FlushActive(c) ==
    LET i == calls[c].id
        row == Flushed(customers[i], calls[c].loaded,
                       [calls[c].entity EXCEPT !.status = IF calls[c].op = "consent"
                                                          THEN "ACTIVE" ELSE @])
    IN  /\ calls[c].phase = "flushing"
        /\ customers' = [customers EXCEPT ![i] = row]
        /\ writes' = writes \cup {[id |-> i, from |-> calls[c].from, by |-> calls[c].number]}
        /\ calls' = Answer(c, "SUCCESS")
        /\ UNCHANGED <<mappings, consents, begun, links, results>>

\* ... and the flush at its commit.
FlushCustomer(c) ==
    LET i == calls[c].id
        row == Flushed(customers[i], calls[c].loaded, calls[c].entity)
        answer == IF Violates(i, row.email) THEN "DUPLICATE_EMAIL" ELSE "SUCCESS"
    IN  /\ calls[c].phase = "flushing"
        /\ customers' = IF answer = "SUCCESS" THEN [customers EXCEPT ![i] = row] ELSE customers
        /\ writes' = IF answer # "SUCCESS" THEN writes
                     ELSE writes \cup {[id |-> i, from |-> calls[c].from, by |-> calls[c].number]}
        /\ calls' = Answer(c, answer)
        /\ UNCHANGED <<mappings, consents, begun, links, results>>

-----------------------------------------------------------------------------
(* The identity mapping. *)

\* link_identity: the customer is read and its version compared ...
BeginLink(c, i, s, version) ==
    /\ Exists(i)
    /\ Begin(c, IF customers[i].version # version THEN Refused("link", "PRECONDITION_FAILED")
                ELSE [NoCall EXCEPT !.op = "link", !.id = i, !.subject = s,
                                    !.phase = "subject"])
    /\ UNCHANGED <<customers, mappings, consents, writes, links, results>>

\* ... then the mapping of the subject ...
ReadSubject(c) ==
    /\ calls[c].phase = "subject"
    /\ calls' = [calls EXCEPT ![c].phase = "customer", ![c].entity = mappings[calls[c].subject]]
    /\ UNCHANGED <<customers, mappings, consents, begun, writes, links, results>>

MappedTo(i) == {s \in Subjects : mappings[s] # None /\ mappings[s].customer = i}

LinkedMapping(mapping, i) ==
    IF mapping = None THEN [customer |-> i, status |-> "ACTIVE", version |-> 1]
    ELSE [customer |-> i, status |-> "ACTIVE", version |-> mapping.version + 1]

\* Mutant: only the customer's own mapping is looked at.
CheckCustomerOnly(c) ==
    LET i == calls[c].id
        s == calls[c].subject
        conflict == \E t \in MappedTo(i) \ {s} : mappings[t].status # "UNLINKED"
    IN  /\ calls[c].phase = "customer"
        /\ calls' = IF conflict THEN Answer(c, "IDENTITY_CONFLICT")
                    ELSE [calls EXCEPT ![c].phase = "mapping",
                                       ![c].entity = LinkedMapping(@, i)]
        /\ UNCHANGED <<customers, mappings, consents, begun, writes, links, results>>

\* ... and the mapping of the customer; either may be in the way.
CheckLink(c) ==
    LET i == calls[c].id
        s == calls[c].subject
        found == calls[c].entity
        conflict == \/ found # None /\ found.customer # i /\ found.status # "UNLINKED"
                    \/ \E t \in MappedTo(i) \ {s} : mappings[t].status # "UNLINKED"
    IN  /\ calls[c].phase = "customer"
        /\ calls' = IF conflict THEN Answer(c, "IDENTITY_CONFLICT")
                    ELSE [calls EXCEPT ![c].phase = "mapping",
                                       ![c].entity = LinkedMapping(found, i)]
        /\ UNCHANGED <<customers, mappings, consents, begun, writes, links, results>>

\* unlink_identity, under the mapping's own version.
BeginUnlink(c, i, s, version) ==
    /\ s \in MappedTo(i)
    /\ Begin(c, IF mappings[s].version # version THEN Refused("unlink", "PRECONDITION_FAILED")
                ELSE [NoCall EXCEPT !.op = "unlink", !.id = i, !.subject = s,
                                    !.phase = "mapping",
                                    !.entity = [mappings[s] EXCEPT !.status = "UNLINKED",
                                                                   !.version = @ + 1]])
    /\ UNCHANGED <<customers, mappings, consents, writes, links, results>>

\* save_identity_mapping: session.get ...
LoadMapping(c) ==
    /\ calls[c].phase = "mapping"
    /\ calls' = [calls EXCEPT ![c].phase = "saving", ![c].loaded = mappings[calls[c].subject]]
    /\ UNCHANGED <<customers, mappings, consents, begun, writes, links, results>>

MappingRow(c) ==
    IF calls[c].loaded = None THEN calls[c].entity
    ELSE Flushed(mappings[calls[c].subject], calls[c].loaded, calls[c].entity)

\* Mutant: the table has no unique constraint on the customer.
OnlySubjectUnique(c) == calls[c].loaded = None /\ mappings[calls[c].subject] # None

\* A second row of the subject, or of the customer, violates a constraint.
MappingViolates(c) ==
    \/ calls[c].loaded = None /\ mappings[calls[c].subject] # None
    \/ \E t \in Subjects \ {calls[c].subject} :
            mappings[t] # None /\ mappings[t].customer = MappingRow(c).customer

\* ... and the insert or flush at its commit.
FlushMapping(c) ==
    LET s == calls[c].subject
        others == {l \in links : l.subject # s}
    IN  /\ calls[c].phase = "saving"
        /\ IF MappingViolates(c)
           THEN /\ calls' = Answer(c, "IDENTITY_CONFLICT")
                /\ UNCHANGED <<mappings, links>>
           ELSE /\ mappings' = [mappings EXCEPT ![s] = MappingRow(c)]
                /\ links' = IF calls[c].op = "unlink" THEN others
                            ELSE links \cup {[subject |-> s, id |-> calls[c].id]}
                /\ calls' = Answer(c, "SUCCESS")
        /\ UNCHANGED <<customers, consents, begun, writes, results>>

\* resolve_identity: the customer a subject stands for.
Resolve(s) == IF mappings[s] = None \/ mappings[s].status = "UNLINKED" THEN None
              ELSE mappings[s].customer

-----------------------------------------------------------------------------
(* The specification. *)

\* The process stops, or the connection is lost, between two transactions.
Crash(c) ==
    /\ calls[c].phase # "idle"
    /\ calls' = [calls EXCEPT ![c] = NoCall]
    /\ UNCHANGED <<customers, mappings, consents, begun, writes, links, results>>

Create(c) ==
    \/ \E k \in Keys, e \in Emails : BeginCreate(c, k, e)
    \/ AddCustomer(c)

Command(c) ==
    \/ \E op \in {"replace", "deactivate", "consent"}, i \in DOMAIN customers, e \in Emails :
        /\ op # "replace" => e = customers[i].email
        /\ \E version \in 1..customers[i].version : BeginCommand(c, op, i, version, e)
    \/ SaveConsent(c)
    \/ LoadCustomer(c)
    \/ FlushCustomer(c)

ManageMapping(c) ==
    \/ \E i \in DOMAIN customers, s \in Subjects :
        \/ \E version \in 1..customers[i].version : BeginLink(c, i, s, version)
        \/ s \in MappedTo(i) /\ \E version \in 1..mappings[s].version : BeginUnlink(c, i, s, version)
    \/ ReadSubject(c)
    \/ CheckLink(c)
    \/ LoadMapping(c)
    \/ FlushMapping(c)

Next == \E c \in Callers : Create(c) \/ Command(c) \/ ManageMapping(c) \/ Crash(c)

Spec == Init /\ [][Next]_vars

-----------------------------------------------------------------------------
(* Properties. *)

\* Rows have the columns of their models, and what a request is to save has
\* passed the version it was created with.
TypeOK ==
    /\ \A i \in DOMAIN customers :
        customers[i] \in [email : Emails, status : {"ACTIVE", "INACTIVE"},
                          version : 1..(MaxRequests + 1)]
    /\ \A s \in Subjects : mappings[s] # None =>
        mappings[s] \in [customer : DOMAIN customers, status : {"ACTIVE", "UNLINKED"},
                         version : 1..(MaxRequests + 1)]
    /\ \A c \in Callers : calls[c].phase \in {"loading", "flushing"} =>
        Exists(calls[c].id) /\ calls[c].entity.version > 1

\* No two requests are answered to have changed the same version of a
\* customer: what If-Match is for.
VersionHasOneWriter ==
    \A v, w \in writes : v.id = w.id /\ v.from = w.from => v = w

\* Two requests were answered to have changed the same version of customer i.
HasRivals(i) ==
    \E v, w \in writes : v.id = i /\ w.id = i /\ v.from = w.from /\ v # w

\* There is no command that activates a customer. One that was deactivated is
\* active again only when rivals saved it, each from the copy it had read; a copy
\* whose version is still the stored one changes no more than its command says.
StaysDeactivated ==
    \A i \in DOMAIN customers :
        customers[i].status = "INACTIVE" => customers'[i].status = "INACTIVE" \/ HasRivals(i)'

\* A deactivated customer stays deactivated, whatever is saved later.
DeactivationIsFinal ==
    [][\A i \in DOMAIN customers :
        customers[i].status = "INACTIVE" => customers'[i].status = "INACTIVE"]_vars

\* A link that was answered resolves to its customer until it is unlinked: no
\* other link takes the subject away.
LinkIsKept == \A l \in links : Resolve(l.subject) = l.id

\* A customer has at most one mapping row, so that the query by customer,
\* which raises when it finds two, never fails.
CustomerHasOneMapping == \A i \in DOMAIN customers : Cardinality(MappedTo(i)) <= 1

\* A link is refused only when the subject or the customer is linked: an
\* unlinked mapping is not in the way.
UnlinkedIsFree ==
    [][\A c \in Callers :
        calls[c].op = "link" /\ calls[c].phase = "saving" /\ calls'[c].answer = "IDENTITY_CONFLICT"
        => \E s \in Subjects : /\ s = calls[c].subject \/ s \in MappedTo(calls[c].id)
                               /\ Resolve(s) # None]_vars

\* No two customers have the same address up to the case of its letters, so
\* that the lookup by e-mail finds one customer.
MailboxIsUnique ==
    \A i, j \in DOMAIN customers : SameMailbox(customers[i].email, customers[j].email) => i = j

\* Creations with one key and one payload are answered the same.
SameKeySameResult ==
    \A r, q \in results : r.key = q.key /\ r.email = q.email => r = q
=============================================================================
