--------------------------- MODULE BookingService ---------------------------
(***************************************************************************)
(* Booking Service: the command pipeline around the booking aggregate.     *)
(* Every command runs in one database transaction that looks the           *)
(* idempotency key up, recognises a command whose outcome is already       *)
(* recorded, otherwise applies it, and writes the booking, its audit row,  *)
(* its outbox event and the replayable answer together.                    *)
(*                                                                         *)
(* A transaction is one action.  The advisory lock on (scope, key), the    *)
(* advisory lock on the reservation and the row lock on the booking        *)
(* serialise the transactions that touch the same rows.  A transaction     *)
(* that raises, is aborted or loses its connection rolls back and changes  *)
(* nothing, and so does a replay: those are stuttering steps.              *)
(***************************************************************************)
EXTENDS BookingRequests

CONSTANTS
  Keys,      \* idempotency keys
  TTL,       \* idempotency_ttl_seconds
  Offered    \* the requests callers make

CreateBookingRequest ==
  [details : Details, reservationId : ReservationIds \cup {None}]

Requests ==
  UNION {CreateBookingRequest, AttachReservationRequest(Versions), ConfirmReservationRequest(Versions),
         StartPaymentRequest(Versions), RecordPaymentRequest(Versions), AttachTicketsRequest(Versions),
         ConfirmBookingRequest(Versions), FailBookingRequest(Versions), CancelBookingRequest(Versions),
         RecordCompensationRequest(Versions)}

TTLPositive == TTL \in Nat \ {0}
OfferedAreRequests == \A r \in Offered : r \in Requests

Scopes == {"CreateBooking", "AttachReservation", "ConfirmReservation", "StartPayment",
           "RecordPayment", "AttachTickets", "ConfirmBooking", "FailBooking",
           "CancelBooking", "RecordCompensation"}

EventType == {"booking.created", "booking.confirmed", "booking.failed",
              "booking.cancelled"}

VARIABLES
  bookings,      \* table bookings
  idempotency,   \* table idempotency_records, by scope and key
  audit,         \* table booking_audit
  outbox,        \* table outbox_events
  now            \* the database clock

vars == <<bookings, idempotency, audit, outbox, now>>

\* request stands for request_hash, response for response_body.
IdempotencyRecord ==
  [request : Requests, bookingId : BookingIds, response : Booking, expiresAt : Nat]

AuditRow ==
  [bookingId : BookingIds, resourceVersion : Nat \ {0}, operation : Scopes,
   previousStatus : BookingStatus \cup {None}, newStatus : BookingStatus,
   key : Keys, occurredAt : Nat]

OutboxEvent ==
  [bookingId : BookingIds, version : Nat \ {0}, type : EventType]

\* What the instances of this module are given: a lifetime, and an absent record
\* that is no record.
ServiceAssumption == TTLPositive /\ None \notin IdempotencyRecord

TypeOK ==
  /\ bookings \in [BookingIds -> Booking \cup {None}]
  /\ idempotency \in [Scopes \X Keys -> IdempotencyRecord \cup {None}]
  /\ audit \subseteq AuditRow
  /\ outbox \subseteq OutboxEvent
  /\ now \in Nat

Init ==
  /\ bookings = [id \in BookingIds |-> None]
  /\ idempotency = [sk \in Scopes \X Keys |-> None]
  /\ audit = {}
  /\ outbox = {}
  /\ now = 0

Exists(id) == bookings[id] # None

Owners(rid) == {id \in BookingIds : Exists(id) /\ bookings[id].reservationId = rid}

-----------------------------------------------------------------------------
(* The pipeline. *)

\* Mutation: a live record does not stop the command.
IgnoresRecord(scope, key) == TRUE

\* replay_or_lock finds no answer to replay: no record, or an expired one,
\* which it deletes.  A live record ends the transaction, with the recorded
\* answer or with IdempotencyConflict.
NothingToReplay(scope, key) ==
  LET record == idempotency[<<scope, key>>]
  IN  record # None => record.expiresAt <= now

\* Mutation: the lifetime is stored as if it were the expiry time.
SavesLifetimeAsExpiry(scope, key, r, id, b) ==
  idempotency' = [idempotency EXCEPT ![<<scope, key>>] =
                    [request |-> r, bookingId |-> id, response |-> b, expiresAt |-> TTL]]

SaveReplay(scope, key, r, id, b) ==
  idempotency' = [idempotency EXCEPT ![<<scope, key>>] =
                    [request |-> r, bookingId |-> id, response |-> b,
                     expiresAt |-> now + TTL]]

\* Mutation: the previous status is read after the command was applied.
AuditRowTooLate(scope, key, id, previous, b) ==
  [bookingId |-> id, resourceVersion |-> b.resourceVersion, operation |-> scope,
   previousStatus |-> IF previous = None THEN None ELSE b.status,
   newStatus |-> b.status, key |-> key, occurredAt |-> now]

AuditRowFor(scope, key, id, previous, b) ==
  [bookingId |-> id, resourceVersion |-> b.resourceVersion, operation |-> scope,
   previousStatus |-> previous, newStatus |-> b.status, key |-> key, occurredAt |-> now]

\* _apply_and_record, and its counterpart _open_booking: the row, its audit
\* entry and its events are written together.
Record(scope, key, id, previous, b, events) ==
  /\ b.resourceVersion <= MaxVersion
  /\ bookings' = [bookings EXCEPT ![id] = b]
  /\ audit' = audit \cup {AuditRowFor(scope, key, id, previous, b)}
  /\ outbox' = outbox \cup {[bookingId |-> id, version |-> b.resourceVersion, type |-> e] :
                              e \in events}

\* The command is already recorded: the current booking becomes the answer.
AnswerAsApplied(scope, key, r, id) ==
  /\ UNCHANGED <<bookings, audit, outbox>>
  /\ SaveReplay(scope, key, r, id, bookings[id])

\* Mutation: the aggregate's guard is skipped.
ExecuteUnchecked(scope, key, r, id, conflicts, applied, accepted, after, events) ==
  /\ ~conflicts
  /\ \/ applied /\ AnswerAsApplied(scope, key, r, id)
     \/ /\ ~applied
        /\ Record(scope, key, id, bookings[id].status, after, events)
        /\ SaveReplay(scope, key, r, id, after)
  /\ UNCHANGED now

\* execute_transition.  conflicts: the command raises because the booking
\* records another outcome for this step; applied: it is already recorded;
\* accepted and after: the aggregate's guard and the booking it leaves.
Execute(scope, key, r, id, conflicts, applied, accepted, after, events) ==
  /\ ~conflicts
  /\ \/ applied /\ AnswerAsApplied(scope, key, r, id)
     \/ /\ ~applied /\ accepted
        /\ Record(scope, key, id, bookings[id].status, after, events)
        /\ SaveReplay(scope, key, r, id, after)
  /\ UNCHANGED now

-----------------------------------------------------------------------------
(* The commands. *)

\* Mutation: the creation payload is not compared with the owner's.
AnyOwner(id, r) == TRUE

\* The owner of the reservation was created by the same payload.
SameCreation(id, r) == bookings[id].details = r.details

\* A reservation that already has a booking with the same creation payload
\* answers with that booking; with another payload it is a conflict.
CreateBooking(key, r) ==
  LET scope == "CreateBooking"
      claimed == IF r.reservationId = None THEN {} ELSE Owners(r.reservationId)
  IN  /\ NothingToReplay(scope, key)
      /\ \/ \E id \in claimed : SameCreation(id, r) /\ AnswerAsApplied(scope, key, r, id)
         \/ /\ claimed = {}
            /\ \E id \in BookingIds :
                 /\ ~Exists(id)
                 /\ LET b == FromRequest(r.details, r.reservationId)
                    IN  /\ Record(scope, key, id, None, b, {"booking.created"})
                        /\ SaveReplay(scope, key, r, id, b)
      /\ UNCHANGED now

\* Mutation: another booking's claim on the reservation is not looked up.
ClaimsBlindly(id, rid) == TRUE

MayClaim(id, rid) == Owners(rid) \subseteq {id}

AttachReservation(id, key, r) ==
  LET b == bookings[id]
  IN  /\ NothingToReplay("AttachReservation", key) /\ Exists(id)
      /\ MayClaim(id, r.reservationId)
      /\ Execute("AttachReservation", key, r, id,
                 AttachReservationConflicts(b, r), AttachReservationApplied(b, r),
                 CanAttachReservation(b, r, now), AttachReservationTo(b, r), {})

ConfirmReservation(id, key, r) ==
  LET b == bookings[id]
  IN  /\ NothingToReplay("ConfirmReservation", key) /\ Exists(id)
      /\ Execute("ConfirmReservation", key, r, id,
                 ConfirmReservationConflicts(b, r), ConfirmReservationApplied(b, r),
                 CanConfirmReservation(b, r), ConfirmReservationOf(b, r), {})

StartPayment(id, key, r) ==
  LET b == bookings[id]
  IN  /\ NothingToReplay("StartPayment", key) /\ Exists(id)
      /\ Execute("StartPayment", key, r, id,
                 StartPaymentConflicts(b, r), StartPaymentApplied(b, r),
                 CanStartPayment(b, r, now), StartPaymentOf(b, r), {})

RecordPayment(id, key, r) ==
  LET b == bookings[id]
  IN  /\ NothingToReplay("RecordPayment", key) /\ Exists(id)
      /\ Execute("RecordPayment", key, r, id,
                 RecordPaymentConflicts(b, r), RecordPaymentApplied(b, r),
                 CanRecordPayment(b, r), RecordPaymentOf(b, r), {})

AttachTickets(id, key, r) ==
  LET b == bookings[id]
  IN  /\ NothingToReplay("AttachTickets", key) /\ Exists(id)
      /\ Execute("AttachTickets", key, r, id,
                 AttachTicketsConflicts(b, r), AttachTicketsApplied(b, r),
                 CanAttachTickets(b, r), AttachTicketsTo(b, r), {})

ConfirmBooking(id, key, r) ==
  LET b == bookings[id]
  IN  /\ NothingToReplay("ConfirmBooking", key) /\ Exists(id)
      /\ Execute("ConfirmBooking", key, r, id,
                 ~ConfirmEvidenceMatches(b, r), b.status = "CONFIRMED",
                 CanConfirm(b, r), ConfirmOf(b), {"booking.confirmed"})

FailBooking(id, key, r) ==
  LET b == bookings[id]
  IN  /\ NothingToReplay("FailBooking", key) /\ Exists(id)
      /\ Execute("FailBooking", key, r, id,
                 FailBookingConflicts(b, r), FailBookingApplied(b, r),
                 CanFail(b, r), FailOf(b, r), ClosingEvents(FailOf(b, r)))

CancelBooking(id, key, r) ==
  LET b == bookings[id]
  IN  /\ NothingToReplay("CancelBooking", key) /\ Exists(id)
      /\ Execute("CancelBooking", key, r, id,
                 CancelBookingConflicts(b, r), CancelBookingApplied(b, r),
                 CanCancel(b, r), CancelOf(b, r), ClosingEvents(CancelOf(b, r)))

RecordCompensation(id, key, r) ==
  LET b == bookings[id]
  IN  /\ NothingToReplay("RecordCompensation", key) /\ Exists(id)
      /\ Execute("RecordCompensation", key, r, id,
                 FALSE, RecordCompensationApplied(b, r),
                 CanRecordCompensation(b, r), RecordCompensationOf(b, r),
                 ClosingEvents(RecordCompensationOf(b, r)))

Tick ==
  /\ now < MaxNow
  /\ now' = now + 1
  /\ UNCHANGED <<bookings, idempotency, audit, outbox>>

Command(id, key) ==
  \/ \E r \in Offered \cap AttachReservationRequest(Versions) : AttachReservation(id, key, r)
  \/ \E r \in Offered \cap ConfirmReservationRequest(Versions) : ConfirmReservation(id, key, r)
  \/ \E r \in Offered \cap StartPaymentRequest(Versions) : StartPayment(id, key, r)
  \/ \E r \in Offered \cap RecordPaymentRequest(Versions) : RecordPayment(id, key, r)
  \/ \E r \in Offered \cap AttachTicketsRequest(Versions) : AttachTickets(id, key, r)
  \/ \E r \in Offered \cap ConfirmBookingRequest(Versions) : ConfirmBooking(id, key, r)
  \/ \E r \in Offered \cap FailBookingRequest(Versions) : FailBooking(id, key, r)
  \/ \E r \in Offered \cap CancelBookingRequest(Versions) : CancelBooking(id, key, r)
  \/ \E r \in Offered \cap RecordCompensationRequest(Versions) : RecordCompensation(id, key, r)

Next ==
  \/ Tick
  \/ \E key \in Keys :
       \/ \E r \in Offered \cap CreateBookingRequest : CreateBooking(key, r)
       \/ \E id \in BookingIds : Command(id, key)

Spec == Init /\ [][Next]_vars

-----------------------------------------------------------------------------
(* Properties. *)

\* The promise about bookings that the pipeline keeps: retries, replays, key
\* expiry and "already applied" answers never change a booking in a way the
\* aggregate alone would not.
Lifecycle == INSTANCE BookingLifecycle WITH bookings <- bookings, now <- now

ImplementsLifecycle == Lifecycle!Spec

\* Two bookings never hold the same reservation (uq_booking_reservation), although
\* it can be claimed by CreateBooking and by AttachReservation, under any keys.
ReservationHasOneOwner == \A rid \in ReservationIds : Cardinality(Owners(rid)) <= 1

Rows(id) == {row \in audit : row.bookingId = id}

\* The audit trail of a booking is complete and linear: one row per version from
\* 1 to the current one, each starting from the status the previous one left, the
\* last leaving the booking's status (uq_booking_audit_version; README BKG-12).
AuditIsTheHistory ==
  \A id \in BookingIds :
    IF Exists(id)
      THEN /\ \A v \in 1 .. bookings[id].resourceVersion :
                Cardinality({row \in Rows(id) : row.resourceVersion = v}) = 1
           /\ \A row \in Rows(id) :
                /\ row.resourceVersion <= bookings[id].resourceVersion
                /\ row.resourceVersion = 1 <=> row.previousStatus = None
                /\ row.resourceVersion = bookings[id].resourceVersion =>
                     row.newStatus = bookings[id].status
                /\ \A next \in Rows(id) :
                     next.resourceVersion = row.resourceVersion + 1 =>
                       next.previousStatus = row.newStatus
      ELSE Rows(id) = {}

\* Consumers learn of every outcome exactly once: an event of each kind is written
\* in the very transaction that moves the booking into that status, whichever of
\* the three closing commands does it, and never again by a retry.
EventsAnnounceOutcomes ==
  \A id \in BookingIds :
    LET announced(type) == {e \in outbox : e.bookingId = id /\ e.type = type}
        entered(status) == {row \in Rows(id) : /\ row.newStatus = status
                                               /\ row.previousStatus # status}
        inStep(type, status) ==
          /\ Cardinality(announced(type)) <= 1
          /\ {e.version : e \in announced(type)}
               = {row.resourceVersion : row \in entered(status)}
    IN  /\ inStep("booking.created", "PENDING")
        /\ inStep("booking.confirmed", "CONFIRMED")
        /\ inStep("booking.failed", "FAILED")
        /\ inStep("booking.cancelled", "CANCELLED")

\* A key takes effect at most once within its lifetime: two changes made under the
\* same operation and idempotency key lie at least TTL apart.
KeyTakesEffectOnce ==
  \A first, second \in audit :
    /\ first # second
    /\ first.operation = second.operation
    /\ first.key = second.key
    => \/ second.occurredAt >= first.occurredAt + TTL
       \/ first.occurredAt >= second.occurredAt + TTL

\* Every replayable answer is a booking that was really committed under that
\* version, never a state that was rolled back or is still to come.
AnswersWereCommitted ==
  \A sk \in Scopes \X Keys :
    LET record == idempotency[sk]
    IN  record # None =>
          /\ Exists(record.bookingId)
          /\ \E row \in Rows(record.bookingId) :
               /\ row.resourceVersion = record.response.resourceVersion
               /\ row.newStatus = record.response.status
               /\ row.occurredAt + TTL <= record.expiresAt

\* A successful answer shows what the command asked for, also when the command
\* was answered as already applied: its reservation, its payment, its outcome, its
\* tickets, its reason.  (The confirmation of a reservation is stated apart.)
AnswerReflects(scope, record) ==
  LET r == record.request
      b == record.response
  IN  CASE scope = "CreateBooking" ->
             /\ b.details = r.details
             /\ r.reservationId # None => b.reservationId = r.reservationId
        [] scope = "AttachReservation" ->
             /\ b.reservationId = r.reservationId
             /\ b.reservationStatus # "PENDING"
             /\ r.expiresAt # None => b.reservationExpiresAt = r.expiresAt
        [] scope = "StartPayment" ->
             b.paymentId = r.paymentId /\ b.paymentStatus # "PENDING"
        [] scope = "RecordPayment" ->
             /\ b.paymentId = r.paymentId
             /\ \/ b.paymentStatus = r.paymentStatus
                \/ r.paymentStatus = "SUCCEEDED" /\ b.paymentStatus = "REFUND_PENDING"
        [] scope = "AttachTickets" -> b.ticketIds = r.ticketIds
        [] scope = "ConfirmBooking" -> b.status = "CONFIRMED"
        [] scope = "FailBooking" ->
             /\ b.failureReason = r.reason
             /\ "FAILED" \in {b.status, b.intendedTerminalStatus}
        [] scope = "CancelBooking" ->
             /\ b.cancellationReason = r.reason
             /\ "CANCELLED" \in {b.status, b.intendedTerminalStatus}
        [] scope = "RecordCompensation" ->
             /\ EvidenceIsRecorded(b, [r EXCEPT !.evidence.resolvedPaymentStatus = None])
             /\ r.compensationStatus = "COMPLETED" => b.status \in {"FAILED", "CANCELLED"}
        [] OTHER -> TRUE

AnswersReflectRequests ==
  \A sk \in Scopes \X Keys :
    idempotency[sk] # None => AnswerReflects(sk[1], idempotency[sk])

\* BookingTransition.is_already_applied: "Return True when this exact command is
\* already recorded."  A ConfirmReservation that succeeded has recorded the
\* confirmation of the reservation.
ConfirmedAnswersAreConfirmed ==
  \A key \in Keys :
    LET record == idempotency[<<"ConfirmReservation", key>>]
    IN  record # None => record.response.reservationConfirmed
=============================================================================
