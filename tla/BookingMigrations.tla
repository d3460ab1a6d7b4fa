------------------------- MODULE BookingMigrations -------------------------
(***************************************************************************)
(* The migrations of the bookings table, 0001 to 0004, as what they do to  *)
(* a row: the columns they add, the values they rewrite and the checks     *)
(* every row must pass. Rows do not influence each other, except that one  *)
(* row that fails a check aborts the whole run, so the table has one row.  *)
(*                                                                         *)
(* "alembic upgrade head" runs all pending revisions in one transaction:   *)
(* work is the database inside it and stored the one that is committed.    *)
(* An optional column is TRUE when it is not null. Columns a revision does *)
(* not have yet hold Absent.                                               *)
(***************************************************************************)
EXTENDS BookingAggregate

VARIABLES
    stored,   \* the committed database: its revision, edition and row
    work,     \* the database inside the migration's transaction
    first,    \* the row the old service had written
    result    \* how the last migration ended

vars == <<stored, work, first, result>>

Absent == "absent"

\* What the Payment Service calls its states, which v1 stored.
PaymentVocabulary == {"PENDING", "AUTHORIZED", "CAPTURED", "FAILED", "CANCELLED",
                      "PARTIALLY_REFUNDED", "REFUNDED"}

Row ==
    [status : BookingStatus,
     paymentStatus : PaymentStatus \cup PaymentVocabulary,
     reservationStatus : ReservationEvidenceStatus \cup {Absent},
     compensationStatus : CompensationStatus \cup {Absent},
     reservationId : BOOLEAN, paymentId : BOOLEAN, tickets : BOOLEAN, confirmedAt : BOOLEAN,
     failureCode : BOOLEAN, failureReason : BOOLEAN,
     cancellationReason : BOOLEAN, cancelledAt : BOOLEAN]

\* The rows of a table without compensation columns.
RowsOf(statuses, payments, reservations, reservationIds, tickets) ==
    [status : statuses, paymentStatus : payments, reservationStatus : reservations,
     compensationStatus : {Absent}, reservationId : reservationIds,
     paymentId : BOOLEAN, tickets : tickets, confirmedAt : BOOLEAN,
     failureCode : BOOLEAN, failureReason : BOOLEAN,
     cancellationReason : BOOLEAN, cancelledAt : BOOLEAN]

-----------------------------------------------------------------------------
(* The checks of each revision. *)

V1Statuses == {"PENDING", "CONFIRMED", "FAILED", "CANCELLED"}

IsFailed(r) == r.failureCode /\ r.failureReason

IsCancelled(r) == r.cancellationReason /\ r.cancelledAt

\* OLD_STATE_CONSISTENCY_SQL.
Checks0001(r) ==
    /\ r.paymentStatus \in {"PENDING", "SUCCEEDED", "FAILED", "REFUNDED"}
    /\ \/ r.status = "PENDING" /\ r.paymentStatus = "PENDING" /\ ~r.paymentId
       \/ r.status = "CONFIRMED" /\ r.paymentStatus = "SUCCEEDED" /\ r.paymentId /\ r.confirmedAt
       \/ r.status = "FAILED" /\ r.paymentStatus = "FAILED" /\ IsFailed(r)
       \/ r.status = "CANCELLED" /\ IsCancelled(r) /\ r.paymentStatus # "SUCCEEDED"

IsConfirmed(r) ==
    /\ r.reservationStatus = "CONFIRMED" /\ r.paymentStatus = "SUCCEEDED"
    /\ r.paymentId /\ r.confirmedAt /\ r.tickets

\* NEW_STATE_CONSISTENCY_SQL.
Checks0002(r) ==
    /\ r.paymentStatus \in {"PENDING", "PROCESSING", "SUCCEEDED", "FAILED", "REFUNDED"}
    /\ r.reservationStatus \in {"RESERVED", "CONFIRMED", "RELEASED"}
    /\ \/ /\ r.status = "PENDING" /\ r.reservationStatus # "RELEASED"
          /\ \/ r.paymentStatus = "PENDING" /\ ~r.paymentId
             \/ r.paymentStatus \in {"PROCESSING", "SUCCEEDED", "FAILED"} /\ r.paymentId
       \/ r.status = "CONFIRMED" /\ IsConfirmed(r)
       \/ r.status = "FAILED" /\ r.paymentStatus = "FAILED" /\ IsFailed(r)
       \/ r.status = "CANCELLED" /\ r.reservationStatus = "RELEASED" /\ IsCancelled(r)
          /\ r.paymentStatus # "SUCCEEDED"

\* No migrated booking is COMPENSATION_PENDING, so its check says nothing here.
Checks0003(r) ==
    /\ r.status \in BookingStatus
    /\ r.paymentStatus \in PaymentStatus
    /\ r.reservationStatus \in ReservationEvidenceStatus
    /\ r.status = "CONFIRMED" => IsConfirmed(r)
    /\ r.status = "FAILED" => IsFailed(r) /\ r.compensationStatus \in {"NOT_REQUIRED", "COMPLETED"}
    /\ r.status = "CANCELLED" =>
         IsCancelled(r) /\ r.compensationStatus \in {"NOT_REQUIRED", "COMPLETED"}

HoldsSeats(r) == r.reservationId /\ r.reservationStatus \in {"RESERVED", "CONFIRMED"}

\* Mutant: a booking in payment is not checked.
Checks0004Partly(r) ==
    /\ r.status = "PENDING" =>
         /\ r.reservationStatus = "PENDING" /\ r.paymentStatus = "PENDING"
         /\ ~r.paymentId /\ ~r.tickets
    /\ r.status = "SEAT_RESERVED" =>
         HoldsSeats(r) /\ r.paymentStatus = "PENDING" /\ ~r.paymentId /\ ~r.tickets

Checks0004(r) ==
    /\ r.status = "PENDING" =>
         /\ r.reservationStatus = "PENDING" /\ r.paymentStatus = "PENDING"
         /\ ~r.paymentId /\ ~r.tickets
    /\ r.status = "SEAT_RESERVED" =>
         HoldsSeats(r) /\ r.paymentStatus = "PENDING" /\ ~r.paymentId /\ ~r.tickets
    /\ r.status = "PAYMENT_PROCESSING" =>
         /\ HoldsSeats(r) /\ r.paymentId
         /\ r.paymentStatus \in {"PROCESSING", "SUCCEEDED", "FAILED", "UNKNOWN"}

-----------------------------------------------------------------------------
(* What the revisions make of a row. *)

\* 0002: the new columns with their server defaults.
Columns0002(r) == [r EXCEPT !.reservationStatus = "RESERVED", !.tickets = FALSE]

\* Mutant: an authorised payment is taken for a captured one.
TranslatedGenerously(status) ==
    CASE status \in {"CAPTURED", "AUTHORIZED"} -> "SUCCEEDED"
      [] status = "CANCELLED" -> "FAILED"
      [] status = "PARTIALLY_REFUNDED" -> "REFUND_PENDING"
      [] OTHER -> status

\* LEGACY_PAYMENT_STATUS.
Translated(status) ==
    CASE status = "CAPTURED" -> "SUCCEEDED"
      [] status = "AUTHORIZED" -> "PROCESSING"
      [] status = "CANCELLED" -> "FAILED"
      [] status = "PARTIALLY_REFUNDED" -> "REFUND_PENDING"
      [] OTHER -> status

\* _apply_legacy_0002_compatibility: the column the earlier edition lacks.
Compatible(r) == IF r.reservationStatus = Absent THEN [r EXCEPT !.reservationStatus = "RESERVED"]
                 ELSE r

\* Mutant: whatever did not come to a confirmation is said to be released.
BackfilledFailed(r) ==
    LET payment == Translated(r.paymentStatus) IN
    [r EXCEPT !.paymentStatus = payment,
              !.reservationStatus = IF r.status \in {"FAILED", "CANCELLED"} THEN "RELEASED" ELSE @]

\* _backfill_legacy_v1_rows.
Backfilled(r) ==
    LET payment == Translated(r.paymentStatus) IN
    [r EXCEPT
        !.paymentStatus = IF r.status = "PAYMENT_PROCESSING" /\ r.paymentId /\ payment = "PENDING"
                          THEN "PROCESSING" ELSE payment,
        !.reservationStatus = IF ~r.reservationId THEN @
                              ELSE IF r.status = "CONFIRMED" THEN "CONFIRMED"
                              ELSE IF r.status = "CANCELLED" THEN "RELEASED"
                              ELSE @,
        !.failureReason = @ \/ r.status = "FAILED"]

\* The two updates that follow: a PENDING row goes to the state its evidence
\* supports.
Converted(r) ==
    [r EXCEPT
        !.reservationStatus = IF r.reservationId THEN @ ELSE "PENDING",
        !.status = IF r.status # "PENDING" THEN @
                   ELSE IF r.paymentId \/ r.paymentStatus \in {"PROCESSING", "SUCCEEDED", "FAILED"}
                        THEN "PAYMENT_PROCESSING"
                   ELSE IF r.reservationId THEN "SEAT_RESERVED"
                   ELSE "PENDING"]

\* Mutant: the compensation columns get no default.
Columns0003Empty(r) == Compatible(r)

Columns0003(r) == [Compatible(r) EXCEPT !.compensationStatus = "NOT_REQUIRED"]

Row0003(r) == Converted(Backfilled(Columns0003(r)))

\* The checks 0003's downgrade creates; the columns become NOT NULL again.
ChecksBefore0003(r) ==
    /\ r.reservationId
    /\ r.status \in V1Statuses
    /\ r.paymentStatus \in {"PENDING", "PROCESSING", "SUCCEEDED", "FAILED", "REFUNDED"}
    /\ r.reservationStatus \in {"RESERVED", "CONFIRMED", "RELEASED"}
    /\ r.status = "CONFIRMED" => IsConfirmed(r)
    /\ r.status = "FAILED" => IsFailed(r)
    /\ r.status = "CANCELLED" => IsCancelled(r)

-----------------------------------------------------------------------------
(* The migration. *)

NoWork == [revision |-> 0, edition |-> "none", row |-> first]

Rows0001 ==
    {r \in RowsOf(V1Statuses, PaymentStatus, {Absent}, {TRUE}, {FALSE}) : Checks0001(r)}

Rows0002 ==
    {r \in RowsOf(V1Statuses, PaymentStatus, ReservationEvidenceStatus, {TRUE}, BOOLEAN) :
        Checks0002(r)}

\* The earlier edition of 0002, as far as 0003 describes what it left.
RowsLegacy0002 ==
    RowsOf(V1Statuses \cup {"PAYMENT_PROCESSING"}, PaymentVocabulary, {Absent}, BOOLEAN, BOOLEAN)

Init ==
    /\ stored \in [revision : {1}, edition : {"current"}, row : Rows0001]
              \cup [revision : {2}, edition : {"current"}, row : Rows0002]
              \cup [revision : {2}, edition : {"legacy"}, row : RowsLegacy0002]
    /\ first = stored.row
    /\ work = NoWork
    /\ result = "none"

Running == work.revision # 0

Begin ==
    /\ ~Running
    /\ work' = stored
    /\ result' = "running"
    /\ UNCHANGED <<stored, first>>

\* A revision rewrites the rows and creates its checks, or the run aborts.
Revise(to, edition, row, passes) ==
    /\ IF passes
       THEN work' = [revision |-> to, edition |-> edition, row |-> row] /\ result' = result
       ELSE work' = NoWork /\ result' = "aborted"
    /\ UNCHANGED <<stored, first>>

Upgrade0002 ==
    /\ work.revision = 1
    /\ Revise(2, "current", Columns0002(work.row), Checks0002(Columns0002(work.row)))

Upgrade0003 ==
    /\ work.revision = 2
    /\ Revise(3, work.edition, Row0003(work.row), Checks0003(Row0003(work.row)))

Upgrade0004 ==
    /\ work.revision = 3
    /\ Revise(4, work.edition, work.row, Checks0004(work.row))

Downgrade0004 ==
    /\ work.revision = 4
    /\ Revise(3, work.edition, work.row, TRUE)

Downgrade0003 ==
    /\ work.revision = 3
    /\ LET row == [work.row EXCEPT !.compensationStatus = Absent] IN
       Revise(2, "current", row, ChecksBefore0003(row))

Downgrade0002 ==
    /\ work.revision = 2 /\ work.edition = "current"
    /\ LET row == [work.row EXCEPT !.reservationStatus = Absent, !.tickets = FALSE] IN
       Revise(1, "current", row, Checks0001(row))

Commit ==
    /\ Running
    /\ stored' = work
    /\ work' = NoWork
    /\ result' = "committed"
    /\ UNCHANGED first

\* The job is killed; PostgreSQL rolls the transaction back.
Crash ==
    /\ Running
    /\ work' = NoWork
    /\ result' = "crashed"
    /\ UNCHANGED <<stored, first>>

Upgrade == Upgrade0002 \/ Upgrade0003 \/ Upgrade0004

Downgrade == Downgrade0004 \/ Downgrade0003 \/ Downgrade0002

Next == Begin \/ Upgrade \/ Downgrade \/ Commit \/ Crash

Spec == Init /\ [][Next]_vars

-----------------------------------------------------------------------------
(* Properties. *)

Database == [revision : 0..4, edition : {"none", "current", "legacy"}, row : Row]

\* Both databases have the schema of their revision: its columns and its
\* values, also after revisions were undone and applied again.
TypeOK ==
    /\ {stored, work} \subseteq Database
    /\ \A db \in {stored, work} :
         /\ db.revision = 1 => db.row.reservationStatus = Absent
         /\ db.revision = 2 /\ db.edition = "current" =>
              db.row.reservationStatus \in {"RESERVED", "CONFIRMED", "RELEASED"}
         /\ db.revision \in {3, 4} => Absent \notin {db.row.reservationStatus,
                                                     db.row.compensationStatus}

\* "Nothing is promoted to a better outcome than the row already recorded":
\* no migration makes a booking confirmed or paid that was not.
NothingPromoted ==
    /\ stored.row.status = "CONFIRMED" => first.status = "CONFIRMED"
    /\ stored.row.paymentStatus = "SUCCEEDED" => first.paymentStatus \in {"SUCCEEDED", "CAPTURED"}

\* On a database of the current 0002 revision 0003 moves PENDING bookings to
\* their new states and leaves all evidence as it is.
CurrentEvidenceKept ==
    [][work.revision = 2 /\ work'.revision = 3 /\ work.edition = "current" =>
         work'.row = [work.row EXCEPT !.status = work'.row.status,
                                      !.compensationStatus = "NOT_REQUIRED"]]_vars

\* The booking the service reads from a migrated row.
AsBooking(r) ==
    [FromRequest(CHOOSE d \in Details : TRUE, None) EXCEPT
        !.status = r.status, !.paymentStatus = r.paymentStatus,
        !.reservationStatus = r.reservationStatus,
        !.compensationStatus = r.compensationStatus,
        !.reservationId = IF r.reservationId THEN CHOOSE i \in ReservationIds : TRUE ELSE None,
        !.paymentId = IF r.paymentId THEN CHOOSE p \in PaymentIds : TRUE ELSE None,
        !.ticketIds = IF r.tickets THEN TicketIds ELSE {}]

Released == [resolvedPaymentStatus |-> None, reservationReleased |-> TRUE,
             paymentRefunded |-> FALSE]

\* The step the reconciliation query recommends for b is one the aggregate takes.
StepAccepted(b) ==
    LET action == RecoveryAction(b)
        v == b.resourceVersion
    IN  /\ action \in {"QUERY_PAYMENT", "RECONCILE_PAYMENT"} =>
             CanRecordPayment(b, [expectedVersion |-> v, paymentId |-> b.paymentId,
                                  paymentStatus |-> "FAILED"])
        /\ action = "RELEASE_RESERVATION_AND_FAIL" =>
             CanFail(b, [expectedVersion |-> v, reason |-> CHOOSE x \in Reasons : TRUE,
                         compensationStatus |-> "COMPLETED", evidence |-> Released])
        /\ action = "CONFIRM_RESERVATION" =>
             CanConfirmReservation(b, [expectedVersion |-> v, reservationId |-> b.reservationId])
        /\ action = "ISSUE_TICKETS" =>
             CanAttachTickets(b, [expectedVersion |-> v, ticketIds |-> TicketIds])
        /\ action = "CONFIRM_BOOKING" => CanConfirm(b, [expectedVersion |-> v])
        /\ action = "START_PAYMENT" => CanStartPayment(b, [expectedVersion |-> v], 0)

\* A booking that was under way when the database was migrated can be carried
\* on by the current service, although it never wrote it.
MigratedCanGoOn ==
    stored.revision = 4 /\ stored.row.status \in ActiveBookingStatuses =>
        StepAccepted(AsBooking(stored.row))

\* "The new migrations extend the schema so as to keep existing data
\* compatible": no upgrade of a database is refused for what a booking holds.
UpgradeCommits == [][Upgrade => result' # "aborted"]_vars
=============================================================================
