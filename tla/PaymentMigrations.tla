------------------------- MODULE PaymentMigrations -------------------------
(***************************************************************************)
(* The migrations of the Payment Service: 0001, 0002, which brings UNKNOWN *)
(* payments and the ledger of provider events, and 0003, which repairs     *)
(* databases that ran an earlier edition of 0002. A database is its schema *)
(* and one payment. "alembic upgrade head" is one transaction, and the     *)
(* service starts once the job has succeeded.                              *)
(***************************************************************************)
EXTENDS Naturals

VARIABLES
    stored,   \* the committed database
    work,     \* the database inside the migration's transaction
    result    \* how the last migration or write ended

vars == <<stored, work, result>>

OldStatuses == {"PENDING", "AUTHORIZED", "CAPTURED", "FAILED", "CANCELLED",
                "PARTIALLY_REFUNDED", "REFUNDED"}

\* columns, unknownCheck: the columns and checks 0002 adds are there;
\* statusCheck: which statuses ck_payment_status and ck_payment_state_consistency
\* allow; evidence: last_stable_status, pending_operation and unknown_since.
Database ==
    [revision : 0..3, columns : BOOLEAN, statusCheck : {"v1", "v2"}, unknownCheck : BOOLEAN,
     ledger : {"none", "foreign", "complete"},
     status : OldStatuses \cup {"UNKNOWN"}, evidence : BOOLEAN]

\* The payment satisfies the checks the database has.
Passes(db) ==
    /\ db.statusCheck = "v1" => db.status # "UNKNOWN"
    /\ db.unknownCheck => (db.status = "UNKNOWN") = db.evidence

\* 0001.
FirstSchema(status) ==
    [revision |-> 1, columns |-> FALSE, statusCheck |-> "v1", unknownCheck |-> FALSE,
     ledger |-> "none", status |-> status, evidence |-> FALSE]

\* The earlier edition of 0002, as far as 0003 says what it lacks; a table of
\* the ledger's name may be there, with the right columns or not.
EarlierEdition(status, ledger) ==
    [FirstSchema(status) EXCEPT !.revision = 2, !.ledger = ledger]

NoWork == [FirstSchema("PENDING") EXCEPT !.revision = 0]

Init ==
    /\ stored \in {FirstSchema(s) : s \in OldStatuses}
           \cup {EarlierEdition(s, l) : s \in OldStatuses, l \in {"none", "foreign", "complete"}}
    /\ work = NoWork
    /\ result = "none"

Running == work.revision # 0

Begin ==
    /\ ~Running
    /\ work' = stored
    /\ result' = "running"
    /\ UNCHANGED stored

Revise(db, possible) ==
    /\ IF possible /\ Passes(db)
       THEN work' = db /\ result' = result
       ELSE work' = NoWork /\ result' = "aborted"
    /\ UNCHANGED stored

\* Mutant: the statuses that are allowed stay the old ones.
Checks0002Partly(db) == [db EXCEPT !.unknownCheck = TRUE]

\* The checks of 0002; ADD COLUMN and CREATE TABLE fail where they exist.
Checks0002(db) == [db EXCEPT !.statusCheck = "v2", !.unknownCheck = TRUE]

Upgrade0002 ==
    /\ work.revision = 1
    /\ Revise([Checks0002(work) EXCEPT !.revision = 2, !.columns = TRUE, !.ledger = "complete"],
              ~work.columns /\ work.ledger = "none")

\* Mutant: the repair creates the checks only.
RepairedChecks(db) == [db EXCEPT !.unknownCheck = TRUE]

\* _repair_payments_columns and _repair_payments_constraints: what is absent by
\* name is created.
Repaired(db) == [db EXCEPT !.columns = TRUE, !.unknownCheck = TRUE]

\* _create_provider_events.
LedgerRepaired(ledger) == IF ledger = "none" THEN "complete" ELSE ledger

\* Mutant: the ledger's columns are not looked at.
LedgerUnverified(ledger) == TRUE

\* _verify_provider_events.
LedgerVerified(ledger) == ledger # "foreign"

Upgrade0003 ==
    /\ work.revision = 2
    /\ Revise([Repaired(work) EXCEPT !.revision = 3, !.ledger = LedgerRepaired(@)],
              LedgerVerified(work.ledger))

Downgrade0003 ==
    /\ work.revision = 3
    /\ Revise([work EXCEPT !.revision = 2], TRUE)

\* Mutant: an unknown payment is made one the old checks accept.
Undone0002Unchecked(db) ==
    [FirstSchema(IF db.status = "UNKNOWN" THEN "PENDING" ELSE db.status) EXCEPT !.revision = 1]

\* 0002's downgrade creates the checks of 0001 and drops the columns.
Undone0002(db) == FirstSchema(db.status)

Downgrade0002 ==
    /\ work.revision = 2
    /\ Revise(Undone0002(work), work.columns /\ work.unknownCheck /\ work.ledger # "none")

Commit ==
    /\ Running
    /\ stored' = work
    /\ work' = NoWork
    /\ result' = "committed"

Crash ==
    /\ Running
    /\ work' = NoWork
    /\ result' = "crashed"
    /\ UNCHANGED stored

\* database_ready: the tables exist.
Ready(db) == db.revision = 3 /\ db.ledger # "none"

\* The service saves a payment as the current aggregate has it.
Save(status) ==
    /\ ~Running /\ Ready(stored)
    /\ LET db == [stored EXCEPT !.status = status, !.evidence = (status = "UNKNOWN")] IN
       IF Passes(db) THEN stored' = db /\ result' = "saved"
       ELSE stored' = stored /\ result' = "refused"
    /\ UNCHANGED work

Upgrade == Upgrade0002 \/ Upgrade0003

Downgrade == Downgrade0003 \/ Downgrade0002

Next ==
    \/ Begin \/ Upgrade \/ Downgrade \/ Commit \/ Crash
    \/ \E status \in OldStatuses \cup {"UNKNOWN"} : Save(status)

Spec == Init /\ [][Next]_vars

-----------------------------------------------------------------------------
(* Properties. *)

\* Both databases have the columns of their checks, and a payment that
\* satisfies them.
TypeOK ==
    /\ {stored, work} \subseteq Database
    /\ \A db \in {stored, work} : Passes(db) /\ (db.unknownCheck => db.columns)

\* Whatever edition of 0002 a database ran, at the last revision it has the
\* columns, the checks and the ledger the service writes to.
LastRevisionIsWhole ==
    stored.revision = 3 => stored.columns /\ stored.unknownCheck /\ stored.ledger = "complete"

\* A payment whose outcome is unknown is not taken for another by undoing a
\* revision: the migration changes no status.
MigrationKeepsStatus == [][Running /\ stored' # stored => stored'.status = stored.status]_vars

\* "Where an object exists but does not match what the current schema
\* requires, it raises rather than silently continuing": a database that was
\* migrated to the last revision stores what the service saves.
RepairedTakesWrites == [][\A s \in OldStatuses \cup {"UNKNOWN"} : Save(s) => result' # "refused"]_vars
=============================================================================
