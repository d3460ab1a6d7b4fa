--------------------------- MODULE BookingCommands ---------------------------
(***************************************************************************)
(* What each command of Booking Service decides before it touches the      *)
(* aggregate: whether the booking already records the command's outcome    *)
(* (it answers with the booking as it stands) or records another one (it   *)
(* raises), and which event closes a booking.  XConflicts(b, r): command X *)
(* raises; XApplied(b, r): its is_already_applied returns True.            *)
(***************************************************************************)
EXTENDS BookingAggregate

\* The reported reservation version is ahead of the recorded one.
VersionAhead(b, r) ==
  /\ r.reservationVersion # None
  /\ b.reservationVersion = None \/ b.reservationVersion < r.reservationVersion

AttachmentRecorded(b, r) ==
  b.reservationStatus \in {"CONFIRMED", "RELEASE_PENDING", "RELEASED"}
                          \cup (IF r.confirmed THEN {} ELSE {"RESERVED"})

AttachReservationConflicts(b, r) ==
  IF b.reservationId # r.reservationId
    THEN b.reservationId # None
    ELSE /\ AttachmentRecorded(b, r)
         /\ \/ r.expiresAt # None /\ b.reservationExpiresAt # r.expiresAt
            \/ VersionAhead(b, r)

AttachReservationApplied(b, r) ==
  b.reservationId = r.reservationId /\ AttachmentRecorded(b, r)

ConfirmReservationApplied(b, r) ==
  b.reservationStatus \in {"CONFIRMED", "RELEASE_PENDING", "RELEASED"}

ConfirmReservationConflicts(b, r) ==
  \/ b.reservationId # r.reservationId
  \/ ConfirmReservationApplied(b, r) /\ VersionAhead(b, r)

StartPaymentConflicts(b, r) == b.paymentStatus # "PENDING" /\ b.paymentId # r.paymentId

StartPaymentApplied(b, r) == b.paymentStatus # "PENDING"

RecordPaymentConflicts(b, r) ==
  b.paymentStatus \notin {"PROCESSING", "PENDING"} /\ b.paymentId # r.paymentId

\* Mutation: any recorded outcome counts as this one.
AnyOutcomeApplied(b, r) == b.paymentStatus \notin {"PROCESSING", "PENDING"}

RecordPaymentApplied(b, r) ==
  /\ b.paymentStatus \notin {"PROCESSING", "PENDING"}
  /\ b.paymentStatus = r.paymentStatus

AttachTicketsConflicts(b, r) == b.ticketIds \notin {{}, r.ticketIds}

AttachTicketsApplied(b, r) == b.ticketIds # {}

FailBookingConflicts(b, r) ==
  b.status \in {"FAILED", "COMPENSATION_PENDING"} /\ b.failureReason # r.reason

FailBookingApplied(b, r) ==
  /\ b.status \in {"FAILED", "COMPENSATION_PENDING"}
  /\ r.compensationStatus \in {None, b.compensationStatus}

CancelBookingConflicts(b, r) ==
  b.status \in {"CANCELLED", "COMPENSATION_PENDING"} /\ b.cancellationReason # r.reason

CancelBookingApplied(b, r) ==
  /\ b.status \in {"CANCELLED", "COMPENSATION_PENDING"}
  /\ r.compensationStatus \in {None, b.compensationStatus}

EvidenceIsRecorded(b, r) ==
  /\ r.evidence.reservationReleased => b.reservationStatus = "RELEASED"
  /\ r.evidence.paymentRefunded => b.paymentStatus = "REFUNDED"
  /\ r.evidence.resolvedPaymentStatus \in {None, b.paymentStatus}
  /\ r.reason \in {None, b.compensationReason}

RecordCompensationApplied(b, r) ==
  /\ \/ b.status \in {"FAILED", "CANCELLED"} /\ r.compensationStatus = "COMPLETED"
     \/ /\ b.status = "COMPENSATION_PENDING"
        /\ b.compensationStatus = r.compensationStatus
  /\ EvidenceIsRecorded(b, r)

\* Mutation: the outcome is announced when compensation begins.
AnnouncesIntent(b) ==
  CASE "FAILED" \in {b.status, b.intendedTerminalStatus}    -> {"booking.failed"}
    [] "CANCELLED" \in {b.status, b.intendedTerminalStatus} -> {"booking.cancelled"}
    [] OTHER -> {}

\* The event a terminal status is announced by.
ClosingEvents(b) ==
  CASE b.status = "FAILED"    -> {"booking.failed"}
    [] b.status = "CANCELLED" -> {"booking.cancelled"}
    [] OTHER                  -> {}

ConfirmEvidenceMatches(b, r) ==
  /\ r.reservationId \in {None, b.reservationId}
  /\ r.paymentId \in {None, b.paymentId}
  /\ r.paymentStatus \in {None, b.paymentStatus}
  /\ r.ticketIds \in {{}, b.ticketIds}
==============================================================================
