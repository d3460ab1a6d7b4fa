-------------------------- MODULE PaymentAggregate --------------------------
(***************************************************************************)
(* The payment aggregate of Payment Service and the rules that turn a      *)
(* provider's outcome into a step of it.  As in BookingAggregate, a        *)
(* command is a guard (Can...) and the payment it leaves (...Of).          *)
(*                                                                         *)
(* Abstractions.  Amounts are natural numbers of minor units.  A failure   *)
(* code and its reason are one value.  Customer, currency, method and      *)
(* booking evidence are fixed by creation and are one value, the booking.  *)
(* Timestamps the code only stores are dropped; reconciliation_due_at is   *)
(* kept.                                                                   *)
(***************************************************************************)
EXTENDS Naturals, FiniteSets

CONSTANTS
  None,             \* the absent optional value
  Bookings,         \* what a creation request fixes: booking, customer, method
  ProviderRefs,     \* the provider's references of payments
  RefundRefs,       \* the provider's references of refunds
  Reasons,
  MaxAmount         \* bound on an amount

ASSUME NoneIsNoPaymentValue ==
  /\ None \notin ProviderRefs \cup RefundRefs \cup Reasons \cup Bookings
  /\ None \notin STRING
  /\ None \notin Nat

ASSUME AmountPositive == MaxAmount \in Nat \ {0}

PaymentStatus == {"PENDING", "AUTHORIZED", "CAPTURED", "UNKNOWN", "FAILED",
                  "CANCELLED", "PARTIALLY_REFUNDED", "REFUNDED"}
ProviderOperation == {"AUTHORIZE", "CAPTURE", "CANCEL", "REFUND"}
ReconciliationStatus == {"NOT_REQUIRED", "PENDING", "IN_PROGRESS", "COMPLETED", "FAILED"}
Scenarios == {"SUCCESS", "DECLINE", "TIMEOUT", "MANUAL"}

Payment ==
  [booking              : Bookings,
   amount               : 1 .. MaxAmount,
   scenario             : Scenarios,        \* the mock provider's behaviour
   status               : PaymentStatus,
   lastStableStatus     : PaymentStatus \cup {None},
   pendingOperation     : ProviderOperation \cup {None},
   reconciliationStatus : ReconciliationStatus,
   attempts             : Nat,              \* reconciliation_attempts
   dueAt                : Nat \cup {None},  \* reconciliation_due_at
   providerReference    : ProviderRefs \cup {None},
   capturedAmount       : 0 .. MaxAmount,
   refundedAmount       : 0 .. MaxAmount,
   failure              : Reasons \cup {None},
   cancellationReason   : Reasons \cup {None},
   resourceVersion      : Nat \ {0}]

\* What a provider reports: by callback, by a command's caller, by the mock
\* gateway or found again among the stored provider events.
ProviderOutcome ==
  [status           : PaymentStatus,
   operation        : ProviderOperation,
   reference        : ProviderRefs \cup {None},
   refundReference  : RefundRefs \cup {None},
   refunded         : 0 .. MaxAmount \cup {None},   \* observed_refunded_amount
   reason           : Reasons \cup {None}]

\* Parts of what None is not, spelled out for the provers.
ASSUME NoneIsNoPayment ==
  /\ None \notin PaymentStatus \cup ProviderOperation
  /\ None \notin Payment

RefundStates == {"PARTIALLY_REFUNDED", "REFUNDED"}
CapturedOrLater == {"CAPTURED"} \cup RefundStates
AuthorizedOrLater == {"AUTHORIZED"} \cup CapturedOrLater
FinalProviderStatuses == PaymentStatus \ {"PENDING", "UNKNOWN"}

AllowedTransitions ==
  [s \in PaymentStatus |->
     CASE s = "PENDING"            -> {"AUTHORIZED", "CAPTURED", "UNKNOWN", "FAILED",
                                       "CANCELLED"}
       [] s = "AUTHORIZED"         -> {"CAPTURED", "UNKNOWN", "FAILED", "CANCELLED"}
       [] s = "CAPTURED"           -> {"UNKNOWN"} \cup RefundStates
       [] s = "UNKNOWN"            -> FinalProviderStatuses
       [] s = "PARTIALLY_REFUNDED" -> {"UNKNOWN"} \cup RefundStates
       [] OTHER                    -> {}]

OperationOutcomes ==
  [o \in ProviderOperation |->
     CASE o = "AUTHORIZE" -> {"AUTHORIZED", "FAILED"}
       [] o = "CAPTURE"   -> {"CAPTURED", "FAILED"}
       [] o = "CANCEL"    -> {"CANCELLED"}
       [] o = "REFUND"    -> RefundStates]

-----------------------------------------------------------------------------
(* The aggregate. *)

NewPayment(booking, amount, scenario) ==
  [booking              |-> booking,
   amount               |-> amount,
   scenario             |-> scenario,
   status               |-> "PENDING",
   lastStableStatus     |-> None,
   pendingOperation     |-> None,
   reconciliationStatus |-> "NOT_REQUIRED",
   attempts             |-> 0,
   dueAt                |-> None,
   providerReference    |-> None,
   capturedAmount       |-> 0,
   refundedAmount       |-> 0,
   failure              |-> None,
   cancellationReason   |-> None,
   resourceVersion      |-> 1]

Advance(p) == [p EXCEPT !.resourceVersion = @ + 1]

\* The status an outcome is applied to: the last stable one of an UNKNOWN
\* payment, otherwise the current one.
Current(p) == IF p.status = "UNKNOWN" THEN p.lastStableStatus ELSE p.status

CanPrepareResolution(p, version, operation, reconciled) ==
  /\ p.resourceVersion = version
  /\ p.status = "UNKNOWN" =>
       /\ reconciled
       /\ operation = None \/ p.pendingOperation \in {None, operation}
       /\ p.lastStableStatus # None

\* _set_provider_reference does not raise.
ReferenceFits(p, reference) ==
  reference # None => p.providerReference \in {None, reference}

WithReference(p, reference) ==
  [p EXCEPT !.providerReference = IF reference # None THEN reference ELSE @]

\* Mutation: the pending operation outlives its outcome.
CompleteKeepsPending(p, reconciled) ==
  Advance([p EXCEPT !.reconciliationStatus = "COMPLETED", !.lastStableStatus = None,
                    !.dueAt = None])

CompleteOutcome(p, reconciled) ==
  LET resolving == reconciled \/ p.pendingOperation # None
  IN  Advance([p EXCEPT
        !.reconciliationStatus = IF resolving THEN "COMPLETED" ELSE "NOT_REQUIRED",
        !.attempts             = IF resolving THEN @ + 1 ELSE @,
        !.lastStableStatus     = None,
        !.pendingOperation     = None,
        !.dueAt                = None])

CanAuthorize(p, reference, version, reconciled) ==
  /\ CanPrepareResolution(p, version, "AUTHORIZE", reconciled)
  /\ "AUTHORIZED" \in AllowedTransitions[Current(p)]
  /\ ReferenceFits(p, reference)

AuthorizeOf(p, reference, reconciled) ==
  CompleteOutcome([WithReference(p, reference) EXCEPT !.status = "AUTHORIZED"], reconciled)

\* Mutation: a late capture reopens a failed payment.
CapturesFailed(p, reference, version, reconciled) ==
  /\ CanPrepareResolution(p, version, "CAPTURE", reconciled)
  /\ Current(p) \in {"PENDING", "AUTHORIZED", "FAILED"}
  /\ ReferenceFits(p, reference)

CanCapture(p, reference, version, reconciled) ==
  /\ CanPrepareResolution(p, version, "CAPTURE", reconciled)
  /\ "CAPTURED" \in AllowedTransitions[Current(p)]
  /\ ReferenceFits(p, reference)

CaptureOf(p, reference, reconciled) ==
  CompleteOutcome([WithReference(p, reference) EXCEPT
                     !.status = "CAPTURED", !.capturedAmount = p.amount], reconciled)

CanFail(p, outcome, version, reconciled) ==
  /\ CanPrepareResolution(p, version, outcome.operation, reconciled)
  /\ "FAILED" \in AllowedTransitions[Current(p)]
  /\ ReferenceFits(p, outcome.reference)

FailOf(p, outcome, reconciled) ==
  CompleteOutcome([WithReference(p, outcome.reference) EXCEPT
                     !.status = "FAILED", !.failure = outcome.reason], reconciled)

CanCancel(p, reference, version, reconciled) ==
  /\ CanPrepareResolution(p, version, "CANCEL", reconciled)
  /\ "CANCELLED" \in AllowedTransitions[Current(p)]
  /\ ReferenceFits(p, reference)

CancelOf(p, outcome, reconciled) ==
  CompleteOutcome([WithReference(p, outcome.reference) EXCEPT
                     !.status = "CANCELLED", !.cancellationReason = outcome.reason],
                  reconciled)

\* Mutation: the version is not compared.
MarksAnyVersion(p, operation, reference, version) ==
  IF p.status = "UNKNOWN"
    THEN p.pendingOperation = operation
    ELSE "UNKNOWN" \in AllowedTransitions[p.status] /\ ReferenceFits(p, reference)

\* mark_unknown on a payment that already waits for this operation returns
\* without a change: not even the version moves.
CanMarkUnknown(p, operation, reference, version) ==
  /\ p.resourceVersion = version
  /\ IF p.status = "UNKNOWN"
       THEN p.pendingOperation = operation
       ELSE /\ "UNKNOWN" \in AllowedTransitions[p.status]
            /\ ReferenceFits(p, reference)

\* Mutation: the last stable status and the pending operation are swapped.
MarksSwapped(p, operation, reference, now) ==
  IF p.status = "UNKNOWN" THEN p
  ELSE Advance([WithReference(p, reference) EXCEPT
         !.status = "UNKNOWN", !.lastStableStatus = operation,
         !.pendingOperation = p.status, !.reconciliationStatus = "PENDING", !.dueAt = now])

MarkUnknownOf(p, operation, reference, now) ==
  IF p.status = "UNKNOWN" THEN p
  ELSE Advance([WithReference(p, reference) EXCEPT
         !.status               = "UNKNOWN",
         !.lastStableStatus     = p.status,
         !.pendingOperation     = operation,
         !.reconciliationStatus = "PENDING",
         !.dueAt                = now])

CanRecordReconciliationFailure(p, version) ==
  p.resourceVersion = version /\ p.status = "UNKNOWN"

RecordReconciliationFailureOf(p, nextDueAt) ==
  Advance([p EXCEPT !.reconciliationStatus = "FAILED",
                    !.attempts             = @ + 1,
                    !.dueAt                = nextDueAt])

Remaining(p) == p.capturedAmount - p.refundedAmount

RefundTarget(p, amount) ==
  IF amount = Remaining(p) THEN "REFUNDED" ELSE "PARTIALLY_REFUNDED"

CanRefund(p, amount, version, reconciled) ==
  /\ CanPrepareResolution(p, version, "REFUND", reconciled)
  /\ Current(p) \in {"CAPTURED", "PARTIALLY_REFUNDED"}
  /\ amount \in 1 .. Remaining(p)

RefundOf(p, amount, reconciled) ==
  CompleteOutcome([p EXCEPT !.refundedAmount = @ + amount,
                            !.status         = RefundTarget(p, amount)], reconciled)

-----------------------------------------------------------------------------
(* Provider outcomes: which are well formed, which change nothing, what the  *)
(* others do.                                                                *)

\* validate_outcome_fields
OutcomeFieldsValid(o) ==
  /\ o.status \in {"AUTHORIZED", "CAPTURED"} =>
       o.reference # None /\ o.refundReference = None /\ o.refunded = None /\ o.reason = None
  /\ o.status = "FAILED" =>
       o.reason # None /\ o.refundReference = None /\ o.refunded = None
  /\ o.status = "CANCELLED" =>
       o.reason # None /\ o.refundReference = None /\ o.refunded = None
  /\ o.status \in RefundStates => o.refundReference # None /\ o.refunded # None

\* normalize_outcome does not raise.
OutcomeIsNormal(o) ==
  /\ o.status \in FinalProviderStatuses
  /\ o.status \in OperationOutcomes[o.operation]
  /\ OutcomeFieldsValid(o)

\* The branch of is_noop an outcome takes.
IsAhead(p, o) ==
  \/ o.status = "AUTHORIZED" /\ p.status \in AuthorizedOrLater
  \/ o.status = "CAPTURED" /\ p.status \in CapturedOrLater

\* is_noop raises: the payment records a contradicting outcome.
NoopConflicts(p, o) ==
  \/ IsAhead(p, o) /\ p.providerReference # o.reference
  \/ /\ o.status = p.status /\ o.status = "FAILED"
     /\ \/ p.failure # o.reason
        \/ o.reference # None /\ p.providerReference # o.reference
  \/ /\ o.status = p.status /\ o.status = "CANCELLED"
     /\ \/ p.cancellationReason # o.reason
        \/ o.reference # None /\ p.providerReference # o.reference

\* is_noop returns True.
IsNoop(p, o) ==
  \/ IsAhead(p, o)
  \/ /\ o.status = p.status
     /\ o.status \in RefundStates => o.refunded = p.refundedAmount

\* The guard and the result of apply_provider_outcome, once is_noop has
\* answered False.
CanApplyOutcome(p, o, version, reconciled) ==
  CASE o.status = "AUTHORIZED" -> CanAuthorize(p, o.reference, version, reconciled)
    [] o.status = "CAPTURED"   -> CanCapture(p, o.reference, version, reconciled)
    [] o.status = "FAILED"     -> CanFail(p, o, version, reconciled)
    [] o.status = "CANCELLED"  -> CanCancel(p, o.reference, version, reconciled)
    [] OTHER ->
         /\ o.reference \in {None, p.providerReference}
         /\ o.refunded > p.refundedAmount
         /\ CanRefund(p, o.refunded - p.refundedAmount, version, reconciled)
         /\ RefundTarget(p, o.refunded - p.refundedAmount) = o.status

ApplyOutcome(p, o, reconciled) ==
  CASE o.status = "AUTHORIZED" -> AuthorizeOf(p, o.reference, reconciled)
    [] o.status = "CAPTURED"   -> CaptureOf(p, o.reference, reconciled)
    [] o.status = "FAILED"     -> FailOf(p, o, reconciled)
    [] o.status = "CANCELLED"  -> CancelOf(p, o, reconciled)
    [] OTHER                   -> RefundOf(p, o.refunded - p.refundedAmount, reconciled)
=============================================================================
