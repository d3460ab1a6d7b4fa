-------------------------- MODULE BookingAggregate --------------------------
(***************************************************************************)
(* The booking aggregate of Booking Service: what each domain command      *)
(* accepts and what it makes of the booking.  A booking is a record, a     *)
(* command is a guard (its conditions and early raises) and the booking it *)
(* leaves.  Nothing here has state: BookingService runs these operators in *)
(* its transactions and the saga model calls them across the network.      *)
(*                                                                         *)
(* Abstractions.  Identifiers and reasons are opaque values.  A failure    *)
(* code and its reason are one value.  Timestamps the code only stores are *)
(* dropped; those a decision reads are kept, as times (reservation expiry) *)
(* or as "has been set" flags.  Provider references are dropped: one       *)
(* payment has one reference.                                              *)
(***************************************************************************)
EXTENDS Naturals, FiniteSets

CONSTANTS
  None,              \* the absent optional value
  Details,           \* what a creation request fixes: customer, event, items, price
  ReservationIds, PaymentIds, TicketIds, Reasons,
  ItemCount          \* how many seats a booking has

ASSUME NoneIsNoValue ==
  /\ None \notin ReservationIds \cup PaymentIds \cup TicketIds \cup Reasons
  /\ None \notin STRING
  /\ None \notin Nat

ASSUME ItemCountPositive == ItemCount \in Nat \ {0}

BookingStatus == {"PENDING", "SEAT_RESERVED", "PAYMENT_PROCESSING", "CONFIRMED",
                  "FAILED", "CANCELLED", "COMPENSATION_PENDING"}
PaymentStatus == {"PENDING", "PROCESSING", "SUCCEEDED", "FAILED", "UNKNOWN",
                  "REFUND_PENDING", "REFUNDED"}
\* Part of NoneIsNoValue, spelled out for the provers.
ASSUME NoneIsNoPaymentStatus == None \notin PaymentStatus
ASSUME NoneIsNoBookingStatus == None \notin BookingStatus

ReservationEvidenceStatus == {"PENDING", "RESERVED", "CONFIRMED",
                              "RELEASE_PENDING", "RELEASED", "UNKNOWN"}
CompensationStatus == {"NOT_REQUIRED", "PENDING", "COMPLETED", "FAILED"}
CompensationAction == {"NONE", "RELEASE_RESERVATION", "REFUND_PAYMENT",
                       "RELEASE_AND_REFUND", "RECONCILE_PAYMENT"}

Booking ==
  [details                : Details,
   status                 : BookingStatus,
   paymentStatus          : PaymentStatus,
   reservationStatus      : ReservationEvidenceStatus,
   compensationStatus     : CompensationStatus,
   compensationAction     : CompensationAction,
   intendedTerminalStatus : {"FAILED", "CANCELLED", None},
   resourceVersion        : Nat \ {0},
   reservationId          : ReservationIds \cup {None},
   reservationVersion     : Nat \cup {None},
   reservationExpiresAt   : Nat \cup {None},
   reservationConfirmed   : BOOLEAN,   \* reservation_confirmed_at is set
   paymentId              : PaymentIds \cup {None},
   paymentRecorded        : BOOLEAN,   \* payment_recorded_at is set
   ticketIds              : SUBSET TicketIds,
   failureReason          : Reasons \cup {None},
   cancellationReason     : Reasons \cup {None},
   compensationReason     : Reasons \cup {None}]

\* What a compensation command may claim: the settled payment outcome, the
\* released reservation, the refunded payment.
Evidence ==
  [resolvedPaymentStatus : {"SUCCEEDED", "FAILED", "UNKNOWN", "REFUNDED", None},
   reservationReleased   : BOOLEAN,
   paymentRefunded       : BOOLEAN]

ActiveBookingStatuses == {"PENDING", "SEAT_RESERVED", "PAYMENT_PROCESSING"}

UnsettledPayment == {"PROCESSING", "UNKNOWN"}

AllowedTransitions ==
  [s \in BookingStatus |->
     CASE s = "PENDING"              -> {"SEAT_RESERVED", "FAILED", "CANCELLED",
                                         "COMPENSATION_PENDING"}
       [] s = "SEAT_RESERVED"        -> {"PAYMENT_PROCESSING", "FAILED",
                                         "CANCELLED", "COMPENSATION_PENDING"}
       [] s = "PAYMENT_PROCESSING"   -> {"CONFIRMED", "FAILED",
                                         "COMPENSATION_PENDING"}
       [] s = "CONFIRMED"            -> {"CANCELLED", "COMPENSATION_PENDING"}
       [] s = "COMPENSATION_PENDING" -> {"FAILED", "CANCELLED"}
       [] OTHER                      -> {}]

-----------------------------------------------------------------------------
(* Creation and the forward commands. *)

FromRequest(details, rid) ==
  [details                |-> details,
   status                 |-> "PENDING",
   paymentStatus          |-> "PENDING",
   reservationStatus      |-> "PENDING",
   compensationStatus     |-> "NOT_REQUIRED",
   compensationAction     |-> "NONE",
   intendedTerminalStatus |-> None,
   resourceVersion        |-> 1,
   reservationId          |-> rid,
   reservationVersion     |-> None,
   reservationExpiresAt   |-> None,
   reservationConfirmed   |-> FALSE,
   paymentId              |-> None,
   paymentRecorded        |-> FALSE,
   ticketIds              |-> {},
   failureReason          |-> None,
   cancellationReason     |-> None,
   compensationReason     |-> None]

\* The last line of every command: _touch.
Touch(b) == [b EXCEPT !.resourceVersion = @ + 1]

CanAttachReservation(b, r, now) ==
  /\ b.resourceVersion = r.expectedVersion
  /\ b.status \in {"PENDING", "SEAT_RESERVED"}
  /\ b.reservationId \in {None, r.reservationId}
  /\ r.expiresAt # None => r.expiresAt > now
  /\ r.confirmed \/ r.expiresAt # None \/ b.reservationExpiresAt # None

AttachReservationTo(b, r) ==
  Touch([b EXCEPT
    !.reservationId        = r.reservationId,
    !.reservationExpiresAt = IF r.expiresAt # None THEN r.expiresAt ELSE @,
    !.reservationVersion   = IF r.reservationVersion # None
                               THEN r.reservationVersion ELSE @,
    !.reservationStatus    = IF r.confirmed THEN "CONFIRMED" ELSE "RESERVED",
    !.reservationConfirmed = @ \/ r.confirmed,
    !.status               = "SEAT_RESERVED"])

CanConfirmReservation(b, r) ==
  /\ b.resourceVersion = r.expectedVersion
  /\ b.status = "PAYMENT_PROCESSING"
  /\ b.paymentStatus = "SUCCEEDED"
  /\ b.reservationId = r.reservationId
  /\ b.reservationStatus \in {"RESERVED", "UNKNOWN", "CONFIRMED"}

ConfirmReservationOf(b, r) ==
  Touch([b EXCEPT
    !.reservationVersion   = IF r.reservationVersion # None
                               THEN r.reservationVersion ELSE @,
    !.reservationStatus    = "CONFIRMED",
    !.reservationConfirmed = TRUE])

CanStartPayment(b, r, now) ==
  /\ b.resourceVersion = r.expectedVersion
  /\ b.status = "SEAT_RESERVED"
  /\ b.reservationStatus \in {"RESERVED", "CONFIRMED"}
  /\ ~(/\ b.reservationStatus = "RESERVED"
       /\ b.reservationExpiresAt # None
       /\ b.reservationExpiresAt <= now)
  /\ b.paymentStatus = "PENDING"
  /\ "PAYMENT_PROCESSING" \in AllowedTransitions[b.status]

StartPaymentOf(b, r) ==
  Touch([b EXCEPT !.paymentId     = r.paymentId,
                  !.paymentStatus = "PROCESSING",
                  !.status        = "PAYMENT_PROCESSING"])

\* Mutation: other tickets replace the recorded ones.
AttachTicketsAnyway(b, r) ==
  /\ b.resourceVersion = r.expectedVersion
  /\ b.status = "PAYMENT_PROCESSING"
  /\ b.paymentStatus = "SUCCEEDED"
  /\ b.reservationStatus = "CONFIRMED"
  /\ Cardinality(r.ticketIds) = ItemCount

CanAttachTickets(b, r) ==
  /\ b.resourceVersion = r.expectedVersion
  /\ b.status = "PAYMENT_PROCESSING"
  /\ b.paymentStatus = "SUCCEEDED"
  /\ b.reservationStatus = "CONFIRMED"
  /\ Cardinality(r.ticketIds) = ItemCount
  /\ b.ticketIds \in {{}, r.ticketIds}

AttachTicketsTo(b, r) == Touch([b EXCEPT !.ticketIds = r.ticketIds])

\* Mutation: the tickets are not counted.
ConfirmWithoutTickets(b, r) ==
  /\ b.resourceVersion = r.expectedVersion
  /\ "CONFIRMED" \in AllowedTransitions[b.status]
  /\ b.reservationStatus = "CONFIRMED"
  /\ b.paymentStatus = "SUCCEEDED" /\ b.paymentId # None

CanConfirm(b, r) ==
  /\ b.resourceVersion = r.expectedVersion
  /\ "CONFIRMED" \in AllowedTransitions[b.status]
  /\ b.reservationStatus = "CONFIRMED"
  /\ b.paymentStatus = "SUCCEEDED" /\ b.paymentId # None
  /\ Cardinality(b.ticketIds) = ItemCount

ConfirmOf(b) ==
  Touch([b EXCEPT !.status                 = "CONFIRMED",
                  !.compensationStatus     = "NOT_REQUIRED",
                  !.compensationAction     = "NONE",
                  !.intendedTerminalStatus = None])

-----------------------------------------------------------------------------
(* Compensation: what is owed, what evidence settles, when it is done. *)

RequiredCompensationAction(b) ==
  LET release == b.reservationStatus \in {"RESERVED", "CONFIRMED",
                                          "RELEASE_PENDING", "UNKNOWN"}
      refund  == b.paymentStatus \in {"SUCCEEDED", "REFUND_PENDING"}
  IN  CASE b.paymentStatus \in UnsettledPayment -> "RECONCILE_PAYMENT"
        [] OTHER -> CASE release /\ refund   -> "RELEASE_AND_REFUND"
                      [] release /\ ~refund  -> "RELEASE_RESERVATION"
                      [] ~release /\ refund  -> "REFUND_PAYMENT"
                      [] OTHER               -> "NONE"

ReleaseActions == {"RELEASE_RESERVATION", "RELEASE_AND_REFUND"}
RefundActions  == {"REFUND_PAYMENT", "RELEASE_AND_REFUND"}

ResolvedPayment(b, e) ==
  IF e.resolvedPaymentStatus # None THEN e.resolvedPaymentStatus
                                    ELSE b.paymentStatus

\* Mutation: a settled payment outcome may be overwritten.
OverwritesOutcome(b, e) ==
  /\ e.reservationReleased => b.reservationId # None
  /\ e.paymentRefunded =>
       /\ b.paymentId # None
       /\ ResolvedPayment(b, e) \in {"SUCCEEDED", "REFUND_PENDING", "REFUNDED"}

\* Mutation: a refund that is already under way is not accepted as done.
RefundsOnlyCaptured(b, e) ==
  /\ e.resolvedPaymentStatus # None =>
       b.paymentStatus \in UnsettledPayment \cup {e.resolvedPaymentStatus}
  /\ e.reservationReleased => b.reservationId # None
  /\ e.paymentRefunded => b.paymentId # None /\ ResolvedPayment(b, e) = "SUCCEEDED"

EvidenceAccepted(b, e) ==
  /\ e.resolvedPaymentStatus # None =>
       b.paymentStatus \in UnsettledPayment \cup {e.resolvedPaymentStatus}
  /\ e.reservationReleased => b.reservationId # None
  /\ e.paymentRefunded =>
       /\ b.paymentId # None
       /\ ResolvedPayment(b, e) \in {"SUCCEEDED", "REFUND_PENDING", "REFUNDED"}

ApplyCompensationEvidence(b, e) ==
  [b EXCEPT
    !.paymentStatus     = IF e.paymentRefunded THEN "REFUNDED"
                                               ELSE ResolvedPayment(b, e),
    !.paymentRecorded   = @ \/ e.resolvedPaymentStatus # None,
    !.reservationStatus = IF e.reservationReleased THEN "RELEASED" ELSE @]

MarkCompensationPending(b, action) ==
  [b EXCEPT
    !.reservationStatus = IF action \in ReleaseActions /\ @ # "RELEASED"
                            THEN "RELEASE_PENDING" ELSE @,
    !.paymentStatus     = IF action \in RefundActions /\ @ # "REFUNDED"
                            THEN "REFUND_PENDING" ELSE @]

\* Mutation: the refund is not demanded.
SatisfiedWithoutRefund(b, action) ==
  /\ action = "RECONCILE_PAYMENT" => b.paymentStatus \notin UnsettledPayment
  /\ action \in ReleaseActions => b.reservationStatus = "RELEASED"

CompensationRequirementsSatisfied(b, action) ==
  /\ action = "RECONCILE_PAYMENT" => b.paymentStatus \notin UnsettledPayment
  /\ action \in ReleaseActions => b.reservationStatus = "RELEASED"
  /\ action \in RefundActions => b.paymentStatus = "REFUNDED"

\* The obligation a terminal command carries: computed before the evidence is
\* applied, and again after it only when the payment had to be reconciled.
TerminalAction(b, e) ==
  IF RequiredCompensationAction(b) = "RECONCILE_PAYMENT"
    THEN RequiredCompensationAction(ApplyCompensationEvidence(b, e))
    ELSE RequiredCompensationAction(b)

RequestedCompensation(b, r) ==
  LET satisfied == CompensationRequirementsSatisfied(
                     ApplyCompensationEvidence(b, r.evidence),
                     TerminalAction(b, r.evidence))
  IN  CASE r.compensationStatus = None -> IF satisfied THEN "COMPLETED" ELSE "PENDING"
        [] r.compensationStatus = "NOT_REQUIRED" -> "COMPLETED"
        [] OTHER -> r.compensationStatus

CanBeginTerminalTransition(b, r, target) ==
  /\ EvidenceAccepted(b, r.evidence)
  /\ r.compensationStatus = "NOT_REQUIRED" => TerminalAction(b, r.evidence) = "NONE"
  /\ IF RequestedCompensation(b, r) = "COMPLETED"
       THEN /\ CompensationRequirementsSatisfied(
                 ApplyCompensationEvidence(b, r.evidence),
                 TerminalAction(b, r.evidence))
            /\ target \in AllowedTransitions[b.status]
       ELSE "COMPENSATION_PENDING" \in AllowedTransitions[b.status]

BeginOrCompleteTerminalTransition(b, r, target) ==
  LET action == TerminalAction(b, r.evidence)
      after  == ApplyCompensationEvidence(b, r.evidence)
  IN  IF RequestedCompensation(b, r) = "COMPLETED"
        THEN Touch([after EXCEPT
               !.status                 = target,
               !.compensationStatus     = IF action = "NONE" THEN "NOT_REQUIRED"
                                                             ELSE "COMPLETED",
               !.compensationAction     = action,
               !.intendedTerminalStatus = None])
        ELSE Touch(MarkCompensationPending([after EXCEPT
               !.status                 = "COMPENSATION_PENDING",
               !.compensationStatus     = RequestedCompensation(b, r),
               !.compensationAction     = action,
               !.intendedTerminalStatus = target], action))

-----------------------------------------------------------------------------
(* Payment outcome, failure, cancellation and the compensation result. *)

CanRecordPayment(b, r) ==
  /\ b.resourceVersion = r.expectedVersion
  /\ b.status \in {"PAYMENT_PROCESSING", "COMPENSATION_PENDING"}
  /\ b.paymentStatus \in UnsettledPayment
  /\ b.paymentId = r.paymentId
  /\ r.paymentStatus \in {"SUCCEEDED", "FAILED", "UNKNOWN"}

ApplyPaymentOutcome(b, r) ==
  [b EXCEPT !.paymentStatus = r.paymentStatus, !.paymentRecorded = TRUE]

\* Mutation: the owed action is not derived again when the outcome arrives.
RecordPaymentOnly(b, r) == Touch(ApplyPaymentOutcome(b, r))

RecordPaymentOf(b, r) ==
  LET paid   == ApplyPaymentOutcome(b, r)
      action == RequiredCompensationAction(paid)
  IN  IF b.status = "COMPENSATION_PENDING"
        THEN Touch(MarkCompensationPending(
                     [paid EXCEPT !.compensationAction = action], action))
        ELSE Touch(paid)

WithFailureReason(b, r) == [b EXCEPT !.failureReason = r.reason]

\* Mutation: the active-status guard is dropped.
CanFailAnytime(b, r) ==
  /\ b.resourceVersion = r.expectedVersion
  /\ CanBeginTerminalTransition(WithFailureReason(b, r), r, "FAILED")

CanFail(b, r) ==
  /\ b.resourceVersion = r.expectedVersion
  /\ b.status \in ActiveBookingStatuses
  /\ CanBeginTerminalTransition(WithFailureReason(b, r), r, "FAILED")

FailOf(b, r) ==
  BeginOrCompleteTerminalTransition(WithFailureReason(b, r), r, "FAILED")

CancelPaymentStatusAllowed ==
  [s \in PaymentStatus |->
     CASE s = "PENDING"        -> {"PENDING", "FAILED", "UNKNOWN"}
       [] s = "PROCESSING"     -> {"FAILED", "UNKNOWN"}
       [] s = "UNKNOWN"        -> {"UNKNOWN", "FAILED", "SUCCEEDED", "REFUNDED"}
       [] s = "SUCCEEDED"      -> {"SUCCEEDED", "REFUND_PENDING", "REFUNDED"}
       [] s = "FAILED"         -> {"FAILED"}
       [] s = "REFUND_PENDING" -> {"REFUND_PENDING", "REFUNDED"}
       [] s = "REFUNDED"       -> {"REFUNDED"}]

ApplyCancelPaymentStatus(b, r) ==
  [b EXCEPT
    !.cancellationReason = r.reason,
    !.paymentStatus      = IF r.paymentStatus # None THEN r.paymentStatus ELSE @,
    !.paymentRecorded    = @ \/ r.paymentStatus # None]

CanCancel(b, r) ==
  /\ b.resourceVersion = r.expectedVersion
  /\ b.status \in {"PENDING", "SEAT_RESERVED", "CONFIRMED"}
  /\ r.paymentStatus # None =>
       r.paymentStatus \in CancelPaymentStatusAllowed[b.paymentStatus]
  /\ CanBeginTerminalTransition(ApplyCancelPaymentStatus(b, r), r, "CANCELLED")

CancelOf(b, r) ==
  BeginOrCompleteTerminalTransition(ApplyCancelPaymentStatus(b, r), r, "CANCELLED")

\* The action whose requirements decide: the one recorded when compensation
\* began, re-derived only while the payment was still to be reconciled.
ResultAction(b, e) ==
  IF b.compensationAction = "RECONCILE_PAYMENT"
    THEN RequiredCompensationAction(ApplyCompensationEvidence(b, e))
    ELSE b.compensationAction

CompensatedBy(b, r) ==
  MarkCompensationPending(
    [ApplyCompensationEvidence(b, r.evidence) EXCEPT
       !.compensationReason = IF r.reason # None THEN r.reason ELSE @,
       !.compensationAction = ResultAction(b, r.evidence)],
    ResultAction(b, r.evidence))

CanRecordCompensation(b, r) ==
  /\ b.resourceVersion = r.expectedVersion
  /\ b.status = "COMPENSATION_PENDING"
  /\ r.compensationStatus \in {"COMPLETED", "FAILED", "PENDING"}
  /\ EvidenceAccepted(b, r.evidence)
  /\ r.compensationStatus = "COMPLETED" =>
       /\ CompensationRequirementsSatisfied(CompensatedBy(b, r),
                                            ResultAction(b, r.evidence))
       /\ b.intendedTerminalStatus \in AllowedTransitions[b.status]

\* Mutation: the intended status is cleared before it is read.
ClearsIntentFirst(b, r) ==
  LET c == [CompensatedBy(b, r) EXCEPT
              !.compensationStatus     = r.compensationStatus,
              !.intendedTerminalStatus = IF r.compensationStatus = "COMPLETED"
                                           THEN None ELSE @]
  IN  Touch(IF r.compensationStatus = "COMPLETED"
              THEN [c EXCEPT !.status = c.intendedTerminalStatus] ELSE c)

RecordCompensationOf(b, r) ==
  Touch(IF r.compensationStatus = "COMPLETED"
          THEN [CompensatedBy(b, r) EXCEPT
                  !.status                 = b.intendedTerminalStatus,
                  !.compensationStatus     = "COMPLETED",
                  !.intendedTerminalStatus = None]
          ELSE [CompensatedBy(b, r) EXCEPT
                  !.compensationStatus = r.compensationStatus])

-----------------------------------------------------------------------------
(* The reconciliation query: the step it recommends for a stuck booking and *)
(* the evidence it reports missing.                                         *)

\* Mutation: tickets are asked for before the reservation is confirmed.
TicketsFirst(b) ==
  CASE b.paymentStatus \in {"PENDING", "PROCESSING"} -> "QUERY_PAYMENT"
    [] b.paymentStatus = "UNKNOWN" -> "RECONCILE_PAYMENT"
    [] b.paymentStatus = "FAILED"  -> "RELEASE_RESERVATION_AND_FAIL"
    [] b.paymentStatus = "SUCCEEDED" ->
         (CASE b.ticketIds = {} -> "ISSUE_TICKETS"
            [] b.ticketIds # {} /\ b.reservationStatus # "CONFIRMED" -> "CONFIRM_RESERVATION"
            [] OTHER -> "CONFIRM_BOOKING")
    [] OTHER -> "NO_ACTION"

PaymentRecovery(b) ==
  CASE b.paymentStatus \in {"PENDING", "PROCESSING"} -> "QUERY_PAYMENT"
    [] b.paymentStatus = "UNKNOWN" -> "RECONCILE_PAYMENT"
    [] b.paymentStatus = "FAILED"  -> "RELEASE_RESERVATION_AND_FAIL"
    [] b.paymentStatus = "SUCCEEDED" ->
         (CASE b.reservationStatus # "CONFIRMED" -> "CONFIRM_RESERVATION"
            [] b.reservationStatus = "CONFIRMED" /\ b.ticketIds = {} -> "ISSUE_TICKETS"
            [] OTHER -> "CONFIRM_BOOKING")
    [] OTHER -> "NO_ACTION"

RecoveryAction(b) ==
  CASE b.status = "COMPENSATION_PENDING" ->
         (IF b.paymentStatus = "UNKNOWN" THEN "RECONCILE_PAYMENT"
                                         ELSE "COMPLETE_COMPENSATION")
    [] b.status = "PENDING" -> "ATTACH_RESERVATION"
    [] b.status = "SEAT_RESERVED" ->
         (IF b.reservationStatus \in {"RESERVED", "CONFIRMED"}
            THEN "START_PAYMENT" ELSE "ATTACH_RESERVATION")
    [] b.status = "PAYMENT_PROCESSING" -> PaymentRecovery(b)
    [] OTHER -> "NO_ACTION"

\* The part of missing_evidence that is reported beside COMPLETE_COMPENSATION.
MissingCompensation(b) ==
  {m \in {"RESERVATION_RELEASE", "PAYMENT_REFUND"} :
     \/ /\ m = "RESERVATION_RELEASE"
        /\ b.compensationAction \in ReleaseActions /\ b.reservationStatus # "RELEASED"
     \/ /\ m = "PAYMENT_REFUND"
        /\ b.compensationAction \in RefundActions /\ b.paymentStatus # "REFUNDED"}

-----------------------------------------------------------------------------
(* What the properties of the modules that run the aggregate say of a booking. *)

\* The CHECK constraints of table bookings: the evidence a row carries fits
\* its status.  The database would abort a transaction that broke one, so the
\* aggregate's commands must never produce such a row.
EvidenceFitsStatus(b) ==
  /\ b.status = "PENDING" =>
       /\ b.reservationStatus = "PENDING" /\ b.paymentStatus = "PENDING"
       /\ b.paymentId = None /\ b.ticketIds = {}
  /\ b.status = "SEAT_RESERVED" =>
       /\ b.reservationId # None
       /\ b.reservationStatus \in {"RESERVED", "CONFIRMED"}
       /\ b.paymentStatus = "PENDING" /\ b.paymentId = None /\ b.ticketIds = {}
  /\ b.status = "PAYMENT_PROCESSING" =>
       /\ b.reservationId # None
       /\ b.reservationStatus \in {"RESERVED", "CONFIRMED"}
       /\ b.paymentStatus \in {"PROCESSING", "SUCCEEDED", "FAILED", "UNKNOWN"}
       /\ b.paymentId # None
  /\ b.status = "CONFIRMED" =>
       /\ b.reservationStatus = "CONFIRMED" /\ b.paymentStatus = "SUCCEEDED"
       /\ b.paymentId # None /\ b.ticketIds # {}
  /\ b.status = "FAILED" =>
       b.failureReason # None /\ b.compensationStatus \in {"NOT_REQUIRED", "COMPLETED"}
  /\ b.status = "CANCELLED" =>
       b.cancellationReason # None /\ b.compensationStatus \in {"NOT_REQUIRED", "COMPLETED"}
  /\ b.status = "COMPENSATION_PENDING" =>
       /\ b.compensationStatus \in {"PENDING", "FAILED"}
       /\ b.intendedTerminalStatus \in {"FAILED", "CANCELLED"}

\* While compensation is pending, the recorded action names all the work that
\* the evidence says is still owed: the unsettled payment to reconcile, or else
\* the release and the refund.  Completion is judged by the recorded action,
\* so work missing from it would never be demanded.
OwedWorkIsRecorded(b) ==
  b.status = "COMPENSATION_PENDING" =>
    LET owed == RequiredCompensationAction(b)
    IN  /\ owed = "RECONCILE_PAYMENT" <=> b.compensationAction = "RECONCILE_PAYMENT"
        /\ owed \in ReleaseActions => b.compensationAction \in ReleaseActions
        /\ owed \in RefundActions => b.compensationAction \in RefundActions

\* A booking closed as FAILED or CANCELLED owes nothing: no seat is held, no
\* money is captured, no payment outcome is open.  A payment that still counts
\* as not started has no payment behind it.
ClosedIsSettled(b) ==
  b.status \in {"FAILED", "CANCELLED"} =>
    /\ RequiredCompensationAction(b) = "NONE"
    /\ b.paymentStatus = "PENDING" => b.paymentId = None

\* What the three rest on: a payment not yet started has no identifier, and
\* the reason a pending compensation will close with is already recorded.
ClosingIsPrepared(b) ==
  /\ b.paymentStatus = "PENDING" => b.paymentId = None
  /\ b.status = "COMPENSATION_PENDING" =>
       /\ b.intendedTerminalStatus = "FAILED" => b.failureReason # None
       /\ b.intendedTerminalStatus = "CANCELLED" => b.cancellationReason # None

\* Which payment evidence may replace which.
PaymentMayBecome ==
  [s \in PaymentStatus |->
     CASE s = "PENDING" -> PaymentStatus
       [] s \in UnsettledPayment -> PaymentStatus \ {"PENDING", "PROCESSING"}
       [] s = "SUCCEEDED" -> {"REFUND_PENDING", "REFUNDED"}
       [] s = "REFUND_PENDING" -> {"REFUNDED"}
       [] OTHER -> {}]
=============================================================================
