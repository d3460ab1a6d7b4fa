-------------------------- MODULE BookingLifecycle --------------------------
(***************************************************************************)
(* What Booking Service promises about bookings, whoever calls it and      *)
(* however often: at every step at most one booking changes, by one        *)
(* command of the aggregate whose conditions held at that moment.          *)
(* Idempotency, audit and outbox are left out; BookingService adds them    *)
(* and is shown to implement this specification.                           *)
(*                                                                         *)
(* The callers are arbitrary: any command with any arguments may arrive at *)
(* any time, in any order.  A rejected command changes nothing, so it is   *)
(* an action that is not enabled.                                          *)
(***************************************************************************)
EXTENDS BookingRequests

VARIABLES
  bookings,   \* table bookings: the aggregate stored under each booking id
  now         \* the database clock

vars == <<bookings, now>>

-----------------------------------------------------------------------------
TypeOK ==
  /\ bookings \in [BookingIds -> Booking \cup {None}]
  /\ now \in Nat

Init ==
  /\ bookings = [id \in BookingIds |-> None]
  /\ now = 0

Exists(id) == bookings[id] # None

\* The bookings that hold the reservation; the column is unique.
Owners(rid) == {id \in BookingIds : Exists(id) /\ bookings[id].reservationId = rid}

\* One aggregate is written; MaxVersion bounds the number of writes.
Store(id, b) ==
  /\ b.resourceVersion <= MaxVersion
  /\ bookings' = [bookings EXCEPT ![id] = b]

CreateBooking(id, details, rid) ==
  /\ ~Exists(id)
  /\ rid # None => Owners(rid) = {}
  /\ Store(id, FromRequest(details, rid))
  /\ UNCHANGED now

AttachReservation(id, r) ==
  /\ Exists(id)
  /\ Owners(r.reservationId) \subseteq {id}
  /\ CanAttachReservation(bookings[id], r, now)
  /\ Store(id, AttachReservationTo(bookings[id], r))
  /\ UNCHANGED now

ConfirmReservation(id, r) ==
  /\ Exists(id)
  /\ CanConfirmReservation(bookings[id], r)
  /\ Store(id, ConfirmReservationOf(bookings[id], r))
  /\ UNCHANGED now

StartPayment(id, r) ==
  /\ Exists(id)
  /\ CanStartPayment(bookings[id], r, now)
  /\ Store(id, StartPaymentOf(bookings[id], r))
  /\ UNCHANGED now

RecordPayment(id, r) ==
  /\ Exists(id)
  /\ CanRecordPayment(bookings[id], r)
  /\ Store(id, RecordPaymentOf(bookings[id], r))
  /\ UNCHANGED now

AttachTickets(id, r) ==
  /\ Exists(id)
  /\ CanAttachTickets(bookings[id], r)
  /\ Store(id, AttachTicketsTo(bookings[id], r))
  /\ UNCHANGED now

ConfirmBooking(id, r) ==
  /\ Exists(id)
  /\ ConfirmEvidenceMatches(bookings[id], r)
  /\ CanConfirm(bookings[id], r)
  /\ Store(id, ConfirmOf(bookings[id]))
  /\ UNCHANGED now

FailBooking(id, r) ==
  /\ Exists(id)
  /\ CanFail(bookings[id], r)
  /\ Store(id, FailOf(bookings[id], r))
  /\ UNCHANGED now

CancelBooking(id, r) ==
  /\ Exists(id)
  /\ CanCancel(bookings[id], r)
  /\ Store(id, CancelOf(bookings[id], r))
  /\ UNCHANGED now

RecordCompensation(id, r) ==
  /\ Exists(id)
  /\ CanRecordCompensation(bookings[id], r)
  /\ Store(id, RecordCompensationOf(bookings[id], r))
  /\ UNCHANGED now

\* Time passes, and with it reservations expire.
Tick ==
  /\ now < MaxNow
  /\ now' = now + 1
  /\ UNCHANGED bookings

\* A command at another version than the current one is a VersionConflict, and
\* one for a booking that does not exist is BookingNotFound.
CurrentVersion(id) == IF Exists(id) THEN {bookings[id].resourceVersion} ELSE {}

Command(id) ==
  LET vs == CurrentVersion(id)
  IN  \/ \E r \in AttachReservationRequest(vs) : AttachReservation(id, r)
      \/ \E r \in ConfirmReservationRequest(vs) : ConfirmReservation(id, r)
      \/ \E r \in StartPaymentRequest(vs) : StartPayment(id, r)
      \/ \E r \in RecordPaymentRequest(vs) : RecordPayment(id, r)
      \/ \E r \in AttachTicketsRequest(vs) : AttachTickets(id, r)
      \/ \E r \in ConfirmBookingRequest(vs) : ConfirmBooking(id, r)
      \/ \E r \in FailBookingRequest(vs) : FailBooking(id, r)
      \/ \E r \in CancelBookingRequest(vs) : CancelBooking(id, r)
      \/ \E r \in RecordCompensationRequest(vs) : RecordCompensation(id, r)

Next ==
  \/ Tick
  \/ \E id \in BookingIds :
       \/ \E d \in Details, rid \in ReservationIds \cup {None} : CreateBooking(id, d, rid)
       \/ Command(id)

Spec == Init /\ [][Next]_vars

-----------------------------------------------------------------------------
(* Safety: what holds of every stored booking. *)

\* Every row satisfies the CHECK constraints of table bookings.
ConstraintsHold == \A id \in BookingIds : Exists(id) => EvidenceFitsStatus(bookings[id])

\* No stored booking hides compensation work from its recorded action.
NoHiddenCompensation == \A id \in BookingIds : Exists(id) => OwedWorkIsRecorded(bookings[id])

\* No stored booking is closed with money captured or seats held.
NoUnsettledClosing == \A id \in BookingIds : Exists(id) => ClosedIsSettled(bookings[id])

-----------------------------------------------------------------------------
(* Recovery: what is stored never blocks the commands that finish it. *)

\* Some evidence lets RecordCompensation close the booking now.
CanComplete(b) ==
  \E e \in Evidence :
    CanRecordCompensation(b, [expectedVersion    |-> b.resourceVersion,
                              reason             |-> None,
                              compensationStatus |-> "COMPLETED",
                              evidence           |-> e])

\* A refund is owed and no payment is named: no evidence of a refund is accepted.
RefundLacksPayment(b) == b.paymentId = None /\ "PAYMENT_REFUND" \in MissingCompensation(b)

\* Which pending compensations can still be closed: all but those whose refund has
\* no payment to name.
CompensationStopsOnlyForRefund ==
  \A id \in BookingIds :
    Exists(id) /\ bookings[id].status = "COMPENSATION_PENDING" =>
      (CanComplete(bookings[id]) <=> ~RefundLacksPayment(bookings[id]))

\* README of Booking Service, state machine: from COMPENSATION_PENDING,
\* RecordCompensationResult leads to FAILED or CANCELLED.
CompensationCanComplete ==
  \A id \in BookingIds :
    Exists(id) /\ bookings[id].status = "COMPENSATION_PENDING" => CanComplete(bookings[id])

\* README of Booking Service, compensation table: payment PROCESSING or UNKNOWN
\* leaves RECONCILE_PAYMENT to do.  The reconciliation query is what reports it.
UnsettledPaymentIsReconciledFirst ==
  \A id \in BookingIds :
    /\ Exists(id)
    /\ bookings[id].status = "COMPENSATION_PENDING"
    /\ bookings[id].paymentStatus \in UnsettledPayment
    => RecoveryAction(bookings[id]) = "RECONCILE_PAYMENT"

\* The aggregate accepts the recommended recovery step now, with the evidence
\* reported missing and no other.
AdviceIsAccepted(b) ==
  LET action == RecoveryAction(b)
      v      == b.resourceVersion
      done   == [resolvedPaymentStatus |-> None,
                 reservationReleased   |-> "RESERVATION_RELEASE" \in MissingCompensation(b),
                 paymentRefunded       |-> "PAYMENT_REFUND" \in MissingCompensation(b)]
  IN  /\ action = "ATTACH_RESERVATION" =>
           \E r \in AttachReservationRequest({v}) : CanAttachReservation(b, r, now)
      /\ action = "START_PAYMENT" =>
           \A p \in PaymentIds :
             CanStartPayment(b, [expectedVersion |-> v, paymentId |-> p], now)
      /\ action \in {"QUERY_PAYMENT", "RECONCILE_PAYMENT"} =>
           \E p \in PaymentIds : \A s \in {"SUCCEEDED", "FAILED", "UNKNOWN"} :
             CanRecordPayment(b, [expectedVersion |-> v, paymentId |-> p,
                                  paymentStatus |-> s])
      /\ action = "RELEASE_RESERVATION_AND_FAIL" =>
           \A reason \in Reasons :
             CanFail(b, [expectedVersion |-> v, reason |-> reason,
                         compensationStatus |-> "COMPLETED",
                         evidence |-> [resolvedPaymentStatus |-> None,
                                       reservationReleased |-> TRUE,
                                       paymentRefunded |-> FALSE]])
      /\ action = "CONFIRM_RESERVATION" =>
           CanConfirmReservation(b, [expectedVersion |-> v,
                                     reservationId |-> b.reservationId,
                                     reservationVersion |-> None])
      /\ action = "ISSUE_TICKETS" =>
           \A t \in SUBSET TicketIds : Cardinality(t) = ItemCount =>
             CanAttachTickets(b, [expectedVersion |-> v, ticketIds |-> t])
      /\ action = "CONFIRM_BOOKING" => CanConfirm(b, [expectedVersion |-> v])
      /\ action = "COMPLETE_COMPENSATION" =>
           CanRecordCompensation(b, [expectedVersion |-> v, reason |-> None,
                                     compensationStatus |-> "COMPLETED",
                                     evidence |-> done])

\* The bookings whose advice the aggregate refuses: a payment is to be started on a
\* hold that ran out; a payment is to be reconciled that has no identifier; a
\* compensation is to be completed while the payment is open (see
\* UnsettledPaymentIsReconciledFirst) or while its refund names no payment.
AdviceIsRefused(b) ==
  \/ /\ RecoveryAction(b) = "START_PAYMENT"
     /\ b.reservationStatus = "RESERVED"
     /\ b.reservationExpiresAt # None /\ b.reservationExpiresAt <= now
  \/ RecoveryAction(b) = "RECONCILE_PAYMENT" /\ b.paymentId = None
  \/ /\ RecoveryAction(b) = "COMPLETE_COMPENSATION"
     /\ b.paymentStatus = "PROCESSING" \/ RefundLacksPayment(b)

\* The reconciliation query recommends a step that is refused to these bookings,
\* and to no other.
AdviceFailsOnlyAsListed ==
  \A id \in BookingIds :
    Exists(id) => (AdviceIsAccepted(bookings[id]) <=> ~AdviceIsRefused(bookings[id]))

-----------------------------------------------------------------------------
(* Action properties: what no command may do to a booking. *)

\* Payment evidence never regresses: a settled outcome is never replaced by an
\* open or a contradicting one, whichever of the five commands carries it.
PaymentEvidenceNeverRegresses ==
  [][\A id \in BookingIds : Exists(id) =>
       LET was == bookings[id].paymentStatus
           is  == bookings'[id].paymentStatus
       IN  is = was \/ is \in PaymentMayBecome[was]]_vars

\* Evidence, once recorded, is never exchanged: a booking keeps its reservation,
\* its payment, its tickets and its release, and its version counts its changes.
EvidenceIsKept ==
  [][\A id \in BookingIds : Exists(id) =>
       LET was == bookings[id]
           is  == bookings'[id]
       IN  /\ is = was \/ is.resourceVersion = was.resourceVersion + 1
           /\ was.reservationId # None => is.reservationId = was.reservationId
           /\ was.paymentId # None => is.paymentId = was.paymentId
           /\ was.ticketIds # {} => is.ticketIds = was.ticketIds
           /\ was.reservationStatus = "RELEASED" => is.reservationStatus = "RELEASED"]_vars

\* A booking under compensation ends the way it was meant to, and a closed
\* booking stays as it is: a cancelled purchase is never reported as failed.
IntentIsKept ==
  [][\A id \in BookingIds : Exists(id) =>
       LET was == bookings[id]
           is  == bookings'[id]
       IN  /\ was.status = "COMPENSATION_PENDING" =>
                \/ /\ is.status = "COMPENSATION_PENDING"
                   /\ is.intendedTerminalStatus = was.intendedTerminalStatus
                \/ is.status = was.intendedTerminalStatus
           /\ was.status = "CONFIRMED" /\ is # was =>
                "CANCELLED" \in {is.status, is.intendedTerminalStatus}
           /\ was.status \in {"FAILED", "CANCELLED"} => is = was]_vars

\* Which bookings are stuck, exactly.  A pending compensation can be closed unless
\* its refund names no payment, and the step that reconcileBookings recommends is
\* accepted unless the booking is one of AdviceIsRefused.
OnlyListedAreStuck == CompensationStopsOnlyForRefund /\ AdviceFailsOnlyAsListed

\* No command, in whatever order it comes, takes back what a booking already
\* records: payment outcomes, identifiers and tickets, or how it is meant to end.
NothingIsUndone == PaymentEvidenceNeverRegresses /\ EvidenceIsKept /\ IntentIsKept

=============================================================================
