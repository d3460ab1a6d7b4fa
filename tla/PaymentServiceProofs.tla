------------------------ MODULE PaymentServiceProofs ------------------------
(***************************************************************************)
(* Proofs about PaymentService, for every value of its constants, and what *)
(* they and TicketServiceProofs say of the services that MCServices puts   *)
(* side by side.                                                           *)
(***************************************************************************)
EXTENDS MCServices, FiniteSetTheorems, SequenceTheorems, WellFoundedInduction, TLAPS

-----------------------------------------------------------------------------
(* The aggregate. *)

Stable == {"PENDING", "AUTHORIZED", "CAPTURED", "PARTIALLY_REFUNDED"}

\* RowsAreConsistent of one payment, made inductive: what is said of a status is
\* said of the status an UNKNOWN payment had before.
WellFormed(p) ==
  /\ p.refundedAmount <= p.capturedAmount /\ p.capturedAmount <= p.amount
  /\ IF p.status = "UNKNOWN"
       THEN /\ p.lastStableStatus \in Stable /\ p.pendingOperation \in ProviderOperation
            /\ p.reconciliationStatus \in {"PENDING", "FAILED"}
       ELSE p.lastStableStatus = None /\ p.pendingOperation = None
  /\ Current(p) \in {"PENDING", "AUTHORIZED", "FAILED", "CANCELLED"} => p.capturedAmount = 0
  /\ Current(p) \in CapturedOrLater => p.capturedAmount = p.amount
  /\ Current(p) \in {"AUTHORIZED", "CAPTURED"} => p.providerReference # None
  /\ Current(p) = "CAPTURED" => p.refundedAmount = 0
  /\ Current(p) = "PARTIALLY_REFUNDED" => p.refundedAmount \in 1 .. p.amount - 1
  /\ p.status = "REFUNDED" => p.refundedAmount = p.amount
  /\ p.status = "FAILED" => p.failure # None
  /\ p.status = "CANCELLED" => p.cancellationReason # None

\* What NoRegression says of one payment.
Forward(p, q) ==
  /\ p.status \in {"FAILED", "CANCELLED", "REFUNDED"} => q = p
  /\ q.capturedAmount >= p.capturedAmount /\ q.refundedAmount >= p.refundedAmount
  /\ p.providerReference # None => q.providerReference = p.providerReference
  /\ Current(p) # "PENDING" => Current(q) # "PENDING"

\* A change of an existing payment: a version further, in no way back.
Follows(p, q) ==
  /\ q \in Payment /\ WellFormed(q)
  /\ q.booking = p.booking /\ q.resourceVersion = p.resourceVersion + 1
  /\ Forward(p, q)

\* CompleteOutcome leaves the fields an outcome is about alone, and leaves nothing
\* pending.
LEMMA CompleteOutcomeIs ==
  ASSUME NEW p \in Payment, NEW reconciled \in BOOLEAN,
         NEW q, q = CompleteOutcome(p, reconciled)
  PROVE  /\ q \in Payment
         /\ q.booking = p.booking /\ q.resourceVersion = p.resourceVersion + 1
         /\ q.amount = p.amount /\ q.status = p.status
         /\ q.providerReference = p.providerReference
         /\ q.capturedAmount = p.capturedAmount /\ q.refundedAmount = p.refundedAmount
         /\ q.failure = p.failure /\ q.cancellationReason = p.cancellationReason
         /\ q.lastStableStatus = None /\ q.pendingOperation = None
<1> DEFINE resolving == reconciled \/ p.pendingOperation # None
<1>1. q = [p EXCEPT
        !.reconciliationStatus = IF resolving THEN "COMPLETED" ELSE "NOT_REQUIRED",
        !.attempts             = IF resolving THEN @ + 1 ELSE @,
        !.lastStableStatus     = None,
        !.pendingOperation     = None,
        !.dueAt                = None,
        !.resourceVersion      = @ + 1]
  BY DEF CompleteOutcome, Advance, Payment
<1> DEFINE status == IF resolving THEN "COMPLETED" ELSE "NOT_REQUIRED"
           attempts == IF resolving THEN p.attempts + 1 ELSE p.attempts
<1>2. status \in ReconciliationStatus /\ attempts \in Nat
      /\ p.resourceVersion + 1 \in Nat \ {0}
  BY DEF Payment, ReconciliationStatus
<1>3. q = [p EXCEPT !.reconciliationStatus = status, !.attempts = attempts,
                    !.lastStableStatus = None, !.pendingOperation = None, !.dueAt = None,
                    !.resourceVersion = p.resourceVersion + 1]
  BY <1>1 DEF Payment
<1> HIDE DEF resolving, status, attempts
<1> QED BY ZenonT(60), <1>2, <1>3 DEF Payment

\* Which statuses may move to which, as far as the proofs need it.
LEMMA TransitionsAre ==
  ASSUME NEW s \in PaymentStatus
  PROVE  /\ "AUTHORIZED" \in AllowedTransitions[s] => s \in {"PENDING", "UNKNOWN"}
         /\ \A t \in {"CAPTURED", "FAILED", "CANCELLED"} :
              t \in AllowedTransitions[s] => s \in {"PENDING", "AUTHORIZED", "UNKNOWN"}
         /\ "UNKNOWN" \in AllowedTransitions[s] => s \in Stable
  BY DEF AllowedTransitions, PaymentStatus, Stable, RefundStates, FinalProviderStatuses

\* The status a payment's outcome is applied to is never UNKNOWN, and a command
\* that expects no reconciliation finds no UNKNOWN payment.
LEMMA ResolutionIs ==
  ASSUME NEW p \in Payment, WellFormed(p), NEW version, NEW operation \in ProviderOperation,
         NEW reconciled \in BOOLEAN, CanPrepareResolution(p, version, operation, reconciled)
  PROVE  /\ version = p.resourceVersion
         /\ Current(p) \in PaymentStatus \ {"UNKNOWN"}
         /\ p.status = "UNKNOWN" =>
              reconciled /\ p.pendingOperation = operation /\ Current(p) \in Stable
         /\ p.status # "UNKNOWN" => Current(p) = p.status
<1> USE NoneIsNoPayment
<1> QED BY DEF WellFormed, CanPrepareResolution, Current, Payment, Stable, PaymentStatus

\* A provider's outcome that applies takes the payment to the status it reports,
\* from the version that was expected, and never back.  (provider_outcomes.py)
LEMMA AppliedOutcomeFollows ==
  ASSUME NEW p \in Payment, WellFormed(p), NEW o \in ProviderOutcome,
         NEW version, NEW reconciled \in BOOLEAN, OutcomeIsNormal(o),
         CanApplyOutcome(p, o, version, reconciled),
         NEW q, q = ApplyOutcome(p, o, reconciled)
  PROVE  /\ Follows(p, q)
         /\ version = p.resourceVersion /\ q.status = o.status
         /\ p.status = "UNKNOWN" => reconciled /\ p.pendingOperation = o.operation
         /\ IF o.status \in RefundStates
              THEN /\ o.refunded \in Nat /\ o.refunded > p.refundedAmount
                   /\ q.refundedAmount = o.refunded
              ELSE q.refundedAmount = p.refundedAmount
<1> USE NoneIsNoPayment, NoneIsNoPaymentValue, AmountPositive
<1>0. /\ o.operation \in ProviderOperation /\ o.status \in FinalProviderStatuses
      /\ o.status \in PaymentStatus /\ o.status \in OperationOutcomes[o.operation]
      /\ o.reference \in ProviderRefs \cup {None} /\ o.reason \in Reasons \cup {None}
      /\ o.refunded \in 0 .. MaxAmount \cup {None}
      /\ OutcomeFieldsValid(o)
  BY DEF ProviderOutcome, OutcomeIsNormal
<1> HIDE DEF OutcomeFieldsValid
<1>1. CASE o.status = "AUTHORIZED"
  <2> DEFINE x == [WithReference(p, o.reference) EXCEPT !.status = "AUTHORIZED"]
  <2>1. /\ CanPrepareResolution(p, version, "AUTHORIZE", reconciled)
        /\ "AUTHORIZED" \in AllowedTransitions[Current(p)]
        /\ ReferenceFits(p, o.reference)
        /\ q = CompleteOutcome(x, reconciled)
    BY <1>1 DEF CanApplyOutcome, ApplyOutcome, CanAuthorize, AuthorizeOf
  <2>2. /\ version = p.resourceVersion /\ Current(p) = "PENDING"
        /\ o.operation = "AUTHORIZE"
        /\ p.status = "UNKNOWN" => reconciled /\ p.pendingOperation = o.operation
    <3>1. "AUTHORIZE" \in ProviderOperation
      BY DEF ProviderOperation
    <3>2. o.operation = "AUTHORIZE"
      BY <1>0, <1>1 DEF ProviderOperation, OperationOutcomes, RefundStates
    <3> QED BY <1>0, <1>1, <2>1, <3>1, <3>2, ResolutionIs, TransitionsAre
  <2>3. o.reference # None
    BY <1>0, <1>1 DEF OutcomeFieldsValid
  <2>4. /\ x \in Payment /\ x.status = "AUTHORIZED" /\ x.providerReference = o.reference
        /\ x = [p EXCEPT !.status = x.status, !.providerReference = o.reference]
    BY ZenonT(60), <1>0, <2>3 DEF Payment, WithReference, PaymentStatus
  <2> HIDE DEF x
  <2>5. /\ q \in Payment
        /\ q.booking = p.booking /\ q.resourceVersion = p.resourceVersion + 1
        /\ q.amount = p.amount /\ q.status = "AUTHORIZED"
        /\ q.providerReference = o.reference
        /\ q.capturedAmount = p.capturedAmount /\ q.refundedAmount = p.refundedAmount
        /\ q.lastStableStatus = None /\ q.pendingOperation = None
    <3>1. x.booking = p.booking /\ x.resourceVersion = p.resourceVersion
          /\ x.amount = p.amount
          /\ x.capturedAmount = p.capturedAmount /\ x.refundedAmount = p.refundedAmount
      BY <2>4 DEF Payment
    <3>2. x \in Payment /\ q = CompleteOutcome(x, reconciled)
      BY <2>1, <2>4
    <3>3. /\ q \in Payment
          /\ q.booking = x.booking /\ q.resourceVersion = x.resourceVersion + 1
          /\ q.amount = x.amount /\ q.status = x.status
          /\ q.providerReference = x.providerReference
          /\ q.capturedAmount = x.capturedAmount /\ q.refundedAmount = x.refundedAmount
          /\ q.lastStableStatus = None /\ q.pendingOperation = None
      BY <3>2, CompleteOutcomeIs
    <3> QED BY <2>4, <3>1, <3>3
  <2>6. p.status \in {"PENDING", "UNKNOWN"} /\ Current(q) = "AUTHORIZED"
    BY <2>2, <2>5 DEF Current
  <2>7. WellFormed(q)
    BY <2>2, <2>3, <2>5, <2>6 DEF WellFormed, CapturedOrLater, RefundStates
  <2>8. Forward(p, q)
    BY <2>1, <2>2, <2>3, <2>5, <2>6 DEF Forward, ReferenceFits, Payment
  <2> QED BY <1>1, <2>2, <2>5, <2>7, <2>8 DEF Follows, RefundStates
<1>2. CASE o.status = "CAPTURED"
  <2> DEFINE x == [WithReference(p, o.reference) EXCEPT
                     !.status = "CAPTURED", !.capturedAmount = p.amount]
  <2>1. /\ CanPrepareResolution(p, version, "CAPTURE", reconciled)
        /\ "CAPTURED" \in AllowedTransitions[Current(p)]
        /\ ReferenceFits(p, o.reference)
        /\ q = CompleteOutcome(x, reconciled)
    BY <1>2 DEF CanApplyOutcome, ApplyOutcome, CanCapture, CaptureOf
  <2>2. /\ version = p.resourceVersion /\ Current(p) \in {"PENDING", "AUTHORIZED"}
        /\ p.status = "UNKNOWN" => reconciled /\ p.pendingOperation = o.operation
        /\ p.status # "UNKNOWN" => Current(p) = p.status
    <3>1. "CAPTURE" \in ProviderOperation
      BY DEF ProviderOperation
    <3>2. o.operation = "CAPTURE"
      BY <1>0, <1>2 DEF ProviderOperation, OperationOutcomes, RefundStates
    <3> QED BY <1>0, <1>2, <2>1, <3>1, <3>2, ResolutionIs, TransitionsAre
  <2>3. o.reference # None
    BY <1>0, <1>2 DEF OutcomeFieldsValid
  <2>4. /\ x \in Payment
        /\ x = [p EXCEPT !.status = "CAPTURED", !.providerReference = o.reference,
                         !.capturedAmount = p.amount]
    <3>1. x = [p EXCEPT !.status = "CAPTURED", !.providerReference = o.reference,
                       !.capturedAmount = p.amount]
      BY <1>0, <2>3 DEF Payment, WithReference
    <3>2. "CAPTURED" \in PaymentStatus /\ p.amount \in 0 .. MaxAmount
      BY <1>0 DEF Payment, PaymentStatus
    <3> HIDE DEF x
    <3> QED BY <1>0, <3>1, <3>2 DEF Payment
  <2> HIDE DEF x
  <2>5. /\ q \in Payment
        /\ q.booking = p.booking /\ q.resourceVersion = p.resourceVersion + 1
        /\ q.amount = p.amount /\ q.status = "CAPTURED"
        /\ q.providerReference = o.reference
        /\ q.capturedAmount = p.amount /\ q.refundedAmount = p.refundedAmount
        /\ q.lastStableStatus = None /\ q.pendingOperation = None
    <3>1. /\ x.booking = p.booking /\ x.resourceVersion = p.resourceVersion
          /\ x.amount = p.amount /\ x.status = "CAPTURED"
          /\ x.providerReference = o.reference
          /\ x.capturedAmount = p.amount /\ x.refundedAmount = p.refundedAmount
      BY <2>4 DEF Payment
    <3>2. q = CompleteOutcome(x, reconciled) /\ x \in Payment
      BY <2>1, <2>4
    <3> QED BY <3>1, <3>2, CompleteOutcomeIs
  <2>6. /\ Current(q) = "CAPTURED"
        /\ p.status \in {"PENDING", "AUTHORIZED", "UNKNOWN"}
    BY <2>2, <2>5 DEF Current
  <2>7. p.capturedAmount = 0 /\ p.refundedAmount = 0 /\ p.amount >= 1
    BY <2>2 DEF WellFormed, Payment
  <2>8. WellFormed(q)
    BY <2>3, <2>5, <2>6, <2>7 DEF WellFormed, CapturedOrLater, RefundStates, Payment
  <2>9. Forward(p, q)
    BY <2>1, <2>3, <2>5, <2>6, <2>7 DEF Forward, ReferenceFits, Payment
  <2> QED BY <1>2, <2>2, <2>5, <2>8, <2>9 DEF Follows, RefundStates
<1>3. CASE o.status = "FAILED"
  <2> DEFINE x == [WithReference(p, o.reference) EXCEPT
                     !.status = "FAILED", !.failure = o.reason]
  <2>1. /\ CanPrepareResolution(p, version, o.operation, reconciled)
        /\ "FAILED" \in AllowedTransitions[Current(p)]
        /\ ReferenceFits(p, o.reference)
        /\ q = CompleteOutcome(x, reconciled)
    BY <1>3 DEF CanApplyOutcome, ApplyOutcome, CanFail, FailOf
  <2>2. /\ version = p.resourceVersion /\ Current(p) \in {"PENDING", "AUTHORIZED"}
        /\ p.status = "UNKNOWN" => reconciled /\ p.pendingOperation = o.operation
        /\ p.status # "UNKNOWN" => Current(p) = p.status
    BY <1>0, <1>3, <2>1, ResolutionIs, TransitionsAre
  <2>3. o.reason # None
    BY <1>0, <1>3 DEF OutcomeFieldsValid
  <2> DEFINE reference == IF o.reference # None THEN o.reference ELSE p.providerReference
  <2>4. /\ x \in Payment
        /\ x = [p EXCEPT !.status = "FAILED", !.providerReference = reference,
                         !.failure = o.reason]
    <3>1. x = [p EXCEPT !.status = "FAILED", !.providerReference = reference,
                       !.failure = o.reason]
      BY <1>0, <2>3 DEF Payment, WithReference
    <3>2. "FAILED" \in PaymentStatus /\ reference \in ProviderRefs \cup {None}
      BY <1>0 DEF Payment, PaymentStatus
    <3> HIDE DEF x, reference
    <3> QED BY <1>0, <3>1, <3>2 DEF Payment
  <2> HIDE DEF x
  <2>5. /\ q \in Payment
        /\ q.booking = p.booking /\ q.resourceVersion = p.resourceVersion + 1
        /\ q.amount = p.amount /\ q.status = "FAILED"
        /\ q.providerReference = reference /\ q.failure = o.reason
        /\ q.capturedAmount = p.capturedAmount /\ q.refundedAmount = p.refundedAmount
        /\ q.lastStableStatus = None /\ q.pendingOperation = None
    <3> HIDE DEF reference
    <3>1. /\ x.booking = p.booking /\ x.resourceVersion = p.resourceVersion
          /\ x.amount = p.amount /\ x.status = "FAILED"
          /\ x.providerReference = reference /\ x.failure = o.reason
          /\ x.capturedAmount = p.capturedAmount /\ x.refundedAmount = p.refundedAmount
      BY <2>4 DEF Payment
    <3>2. q = CompleteOutcome(x, reconciled) /\ x \in Payment
      BY <2>1, <2>4
    <3> QED BY <3>1, <3>2, CompleteOutcomeIs
  <2>6. /\ Current(q) = "FAILED"
        /\ p.status \in {"PENDING", "AUTHORIZED", "UNKNOWN"}
    BY <2>2, <2>5 DEF Current
  <2>7. p.capturedAmount = 0 /\ p.refundedAmount = 0 /\ p.amount >= 1
    BY <2>2 DEF WellFormed, Payment
  <2>8. WellFormed(q)
    BY <2>3, <2>5, <2>6, <2>7 DEF WellFormed, CapturedOrLater, RefundStates, Payment
  <2>9. Forward(p, q)
    BY <2>1, <2>5, <2>6, <2>7 DEF Forward, ReferenceFits, Payment
  <2> QED BY <1>3, <2>2, <2>5, <2>8, <2>9 DEF Follows, RefundStates
<1>4. CASE o.status = "CANCELLED"
  <2> DEFINE x == [WithReference(p, o.reference) EXCEPT
                     !.status = "CANCELLED", !.cancellationReason = o.reason]
  <2>1. /\ CanPrepareResolution(p, version, "CANCEL", reconciled)
        /\ "CANCELLED" \in AllowedTransitions[Current(p)]
        /\ ReferenceFits(p, o.reference)
        /\ q = CompleteOutcome(x, reconciled)
    BY <1>4 DEF CanApplyOutcome, ApplyOutcome, CanCancel, CancelOf
  <2>2. /\ version = p.resourceVersion /\ Current(p) \in {"PENDING", "AUTHORIZED"}
        /\ p.status = "UNKNOWN" => reconciled /\ p.pendingOperation = o.operation
        /\ p.status # "UNKNOWN" => Current(p) = p.status
    <3>1. "CANCEL" \in ProviderOperation
      BY DEF ProviderOperation
    <3>2. o.operation = "CANCEL"
      BY <1>0, <1>4 DEF ProviderOperation, OperationOutcomes, RefundStates
    <3> QED BY <1>0, <1>4, <2>1, <3>1, <3>2, ResolutionIs, TransitionsAre
  <2>3. o.reason # None
    BY <1>0, <1>4 DEF OutcomeFieldsValid
  <2> DEFINE reference == IF o.reference # None THEN o.reference ELSE p.providerReference
  <2>4. /\ x \in Payment
        /\ x = [p EXCEPT !.status = "CANCELLED", !.providerReference = reference,
                         !.cancellationReason = o.reason]
    <3>1. x = [p EXCEPT !.status = "CANCELLED", !.providerReference = reference,
                       !.cancellationReason = o.reason]
      BY <1>0, <2>3 DEF Payment, WithReference
    <3>2. "CANCELLED" \in PaymentStatus /\ reference \in ProviderRefs \cup {None}
      BY <1>0 DEF Payment, PaymentStatus
    <3> HIDE DEF x, reference
    <3> QED BY <1>0, <3>1, <3>2 DEF Payment
  <2> HIDE DEF x
  <2>5. /\ q \in Payment
        /\ q.booking = p.booking /\ q.resourceVersion = p.resourceVersion + 1
        /\ q.amount = p.amount /\ q.status = "CANCELLED"
        /\ q.providerReference = reference /\ q.cancellationReason = o.reason
        /\ q.capturedAmount = p.capturedAmount /\ q.refundedAmount = p.refundedAmount
        /\ q.lastStableStatus = None /\ q.pendingOperation = None
    <3> HIDE DEF reference
    <3>1. /\ x.booking = p.booking /\ x.resourceVersion = p.resourceVersion
          /\ x.amount = p.amount /\ x.status = "CANCELLED"
          /\ x.providerReference = reference /\ x.cancellationReason = o.reason
          /\ x.capturedAmount = p.capturedAmount /\ x.refundedAmount = p.refundedAmount
      BY <2>4 DEF Payment
    <3>2. q = CompleteOutcome(x, reconciled) /\ x \in Payment
      BY <2>1, <2>4
    <3> QED BY <3>1, <3>2, CompleteOutcomeIs
  <2>6. /\ Current(q) = "CANCELLED"
        /\ p.status \in {"PENDING", "AUTHORIZED", "UNKNOWN"}
    BY <2>2, <2>5 DEF Current
  <2>7. p.capturedAmount = 0 /\ p.refundedAmount = 0 /\ p.amount >= 1
    BY <2>2 DEF WellFormed, Payment
  <2>8. WellFormed(q)
    BY <2>3, <2>5, <2>6, <2>7 DEF WellFormed, CapturedOrLater, RefundStates, Payment
  <2>9. Forward(p, q)
    BY <2>1, <2>5, <2>6, <2>7 DEF Forward, ReferenceFits, Payment
  <2> QED BY <1>4, <2>2, <2>5, <2>8, <2>9 DEF Follows, RefundStates
<1>5. CASE o.status \in RefundStates
  <2> DEFINE amount == o.refunded - p.refundedAmount
             x == [p EXCEPT !.refundedAmount = @ + amount, !.status = RefundTarget(p, amount)]
  <2>1. /\ CanPrepareResolution(p, version, "REFUND", reconciled)
        /\ Current(p) \in {"CAPTURED", "PARTIALLY_REFUNDED"}
        /\ amount \in 1 .. Remaining(p)
        /\ RefundTarget(p, amount) = o.status
        /\ q = CompleteOutcome(x, reconciled)
    BY <1>5 DEF CanApplyOutcome, ApplyOutcome, CanRefund, RefundOf, RefundStates
  <2>2. /\ version = p.resourceVersion
        /\ p.status = "UNKNOWN" => reconciled /\ p.pendingOperation = o.operation
        /\ p.status # "UNKNOWN" => Current(p) = p.status
    <3>1. "REFUND" \in ProviderOperation
      BY DEF ProviderOperation
    <3>2. o.operation = "REFUND"
      BY <1>0, <1>5 DEF ProviderOperation, OperationOutcomes, RefundStates
    <3> QED BY <1>0, <2>1, <3>1, <3>2, ResolutionIs
  <2>3. /\ o.refunded \in Nat /\ o.refunded > p.refundedAmount
        /\ p.refundedAmount + amount = o.refunded
        /\ o.refunded <= p.capturedAmount
        /\ p.capturedAmount = p.amount /\ p.amount \in 1 .. MaxAmount
        /\ o.status = "REFUNDED" <=> o.refunded = p.amount
    <3>1. o.refunded # None
      BY <1>0, <1>5 DEF OutcomeFieldsValid, RefundStates
    <3>2. o.refunded \in 0 .. MaxAmount /\ p.refundedAmount \in 0 .. MaxAmount
          /\ p.capturedAmount \in 0 .. MaxAmount /\ p.amount \in 1 .. MaxAmount
      BY <1>0, <3>1 DEF Payment
    <3>3. p.capturedAmount = p.amount
      BY <2>1 DEF WellFormed, CapturedOrLater, RefundStates
    <3>4. Remaining(p) = p.capturedAmount - p.refundedAmount
      BY DEF Remaining
    <3>5. o.status = "REFUNDED" <=> amount = Remaining(p)
      BY <2>1 DEF RefundTarget
    <3> QED BY <2>1, <3>2, <3>3, <3>4, <3>5
  <2>4. /\ x \in Payment
        /\ x = [p EXCEPT !.refundedAmount = o.refunded, !.status = o.status]
    <3>1. x = [p EXCEPT !.refundedAmount = o.refunded, !.status = o.status]
      BY <2>1, <2>3 DEF Payment
    <3>2. o.refunded \in 0 .. MaxAmount
      BY <2>3
    <3> HIDE DEF x
    <3> QED BY <1>0, <3>1, <3>2 DEF Payment
  <2> HIDE DEF x, amount
  <2>5. /\ q \in Payment
        /\ q.booking = p.booking /\ q.resourceVersion = p.resourceVersion + 1
        /\ q.amount = p.amount /\ q.status = o.status
        /\ q.providerReference = p.providerReference
        /\ q.capturedAmount = p.capturedAmount /\ q.refundedAmount = o.refunded
        /\ q.lastStableStatus = None /\ q.pendingOperation = None
    <3>1. /\ x.booking = p.booking /\ x.resourceVersion = p.resourceVersion
          /\ x.amount = p.amount /\ x.status = o.status
          /\ x.providerReference = p.providerReference
          /\ x.capturedAmount = p.capturedAmount /\ x.refundedAmount = o.refunded
      BY <2>4 DEF Payment
    <3>2. q = CompleteOutcome(x, reconciled) /\ x \in Payment
      BY <2>1, <2>4
    <3> QED BY <3>1, <3>2, CompleteOutcomeIs
  <2>6. Current(q) = o.status /\ o.status \in {"PARTIALLY_REFUNDED", "REFUNDED"}
        /\ p.status \in {"CAPTURED", "PARTIALLY_REFUNDED", "UNKNOWN"}
    BY <1>5, <2>1, <2>2, <2>5 DEF Current, RefundStates
  <2>7. WellFormed(q)
    BY <2>3, <2>5, <2>6 DEF WellFormed, CapturedOrLater, RefundStates, Payment
  <2>8. Forward(p, q)
    BY <2>3, <2>5, <2>6 DEF Forward, Payment
  <2> QED BY <1>5, <2>2, <2>3, <2>5, <2>7, <2>8 DEF Follows
<1> QED BY <1>0, <1>1, <1>2, <1>3, <1>4, <1>5
    DEF FinalProviderStatuses, PaymentStatus, RefundStates

\* mark_unknown of a payment that is not UNKNOWN yet leaves one that remembers the
\* status it had and the operation it waits for.  (entities.py, mark_unknown)
LEMMA MarkedFollows ==
  ASSUME NEW p \in Payment, WellFormed(p), p.status # "UNKNOWN",
         NEW operation \in ProviderOperation, NEW reference \in ProviderRefs \cup {None},
         NEW version, NEW time \in Nat \cup {None},
         CanMarkUnknown(p, operation, reference, version),
         NEW q, q = MarkUnknownOf(p, operation, reference, time)
  PROVE  /\ Follows(p, q) /\ version = p.resourceVersion
         /\ q.status = "UNKNOWN" /\ q.refundedAmount = p.refundedAmount
<1> DEFINE kept == IF reference # None THEN reference ELSE p.providerReference
<1>1. /\ version = p.resourceVersion /\ ReferenceFits(p, reference) /\ p.status \in Stable
  BY TransitionsAre DEF CanMarkUnknown, Payment
<1>2. q = [p EXCEPT !.providerReference = kept, !.status = "UNKNOWN",
                    !.lastStableStatus = p.status, !.pendingOperation = operation,
                    !.reconciliationStatus = "PENDING", !.dueAt = time,
                    !.resourceVersion = p.resourceVersion + 1]
  BY DEF MarkUnknownOf, Advance, WithReference, Payment
<1>3. kept \in ProviderRefs \cup {None} /\ p.resourceVersion + 1 \in Nat \ {0}
      /\ "UNKNOWN" \in PaymentStatus /\ "PENDING" \in ReconciliationStatus
      /\ p.status \in PaymentStatus
  BY DEF Payment, PaymentStatus, ReconciliationStatus
<1>4. p.providerReference # None => kept = p.providerReference
  BY <1>1 DEF ReferenceFits
<1> HIDE DEF kept
<1>5. q \in Payment
  <2> DEFINE x == [p EXCEPT !.providerReference = kept, !.status = "UNKNOWN",
                            !.lastStableStatus = p.status, !.pendingOperation = operation]
  <2>1. x \in Payment
    BY <1>3 DEF Payment
  <2>2. q = [x EXCEPT !.reconciliationStatus = "PENDING", !.dueAt = time,
                      !.resourceVersion = p.resourceVersion + 1]
    BY <1>2 DEF Payment
  <2> HIDE DEF x
  <2> QED BY <1>3, <2>1, <2>2, ZenonT(60) DEF Payment
<1>6. /\ q.booking = p.booking /\ q.amount = p.amount
      /\ q.capturedAmount = p.capturedAmount /\ q.refundedAmount = p.refundedAmount
      /\ q.status = "UNKNOWN" /\ q.lastStableStatus = p.status
      /\ q.pendingOperation = operation /\ q.reconciliationStatus = "PENDING"
      /\ q.providerReference = kept /\ q.resourceVersion = p.resourceVersion + 1
  BY <1>2 DEF Payment
<1>7. Current(p) = p.status /\ Current(q) = p.status
  BY <1>6 DEF Current
<1>8. WellFormed(q)
  BY <1>1, <1>4, <1>6, <1>7, NoneIsNoPayment DEF WellFormed, Stable
<1>9. Forward(p, q)
  BY <1>1, <1>4, <1>6, <1>7 DEF Forward, Payment, Stable
<1> QED BY <1>1, <1>5, <1>6, <1>8, <1>9 DEF Follows

\* An attempt that found nothing leaves the payment UNKNOWN, as it was.
\* (entities.py, record_reconciliation_failure)
LEMMA RetriedFollows ==
  ASSUME NEW p \in Payment, WellFormed(p), NEW version,
         CanRecordReconciliationFailure(p, version), NEW dueAt \in Nat \cup {None},
         NEW q, q = RecordReconciliationFailureOf(p, dueAt)
  PROVE  /\ Follows(p, q) /\ version = p.resourceVersion
         /\ q.status = "UNKNOWN" /\ q.refundedAmount = p.refundedAmount
<1>1. version = p.resourceVersion /\ p.status = "UNKNOWN"
  BY DEF CanRecordReconciliationFailure
<1>2. q = [p EXCEPT !.reconciliationStatus = "FAILED", !.attempts = p.attempts + 1,
                    !.dueAt = dueAt, !.resourceVersion = p.resourceVersion + 1]
  BY DEF RecordReconciliationFailureOf, Advance, Payment
<1>3. p.resourceVersion + 1 \in Nat \ {0} /\ p.attempts + 1 \in Nat
      /\ "FAILED" \in ReconciliationStatus
  BY DEF Payment, ReconciliationStatus
<1>4. q \in Payment
  BY <1>2, <1>3, ZenonT(60) DEF Payment
<1>5. /\ q.booking = p.booking /\ q.amount = p.amount
      /\ q.capturedAmount = p.capturedAmount /\ q.refundedAmount = p.refundedAmount
      /\ q.status = "UNKNOWN" /\ q.lastStableStatus = p.lastStableStatus
      /\ q.pendingOperation = p.pendingOperation /\ q.reconciliationStatus = "FAILED"
      /\ q.providerReference = p.providerReference
      /\ q.resourceVersion = p.resourceVersion + 1
  BY <1>1, <1>2 DEF Payment
<1>6. Current(q) = Current(p)
  BY <1>1, <1>5 DEF Current
<1>7. WellFormed(q) /\ Forward(p, q)
  BY <1>1, <1>5, <1>6 DEF WellFormed, Forward, Payment
<1> QED BY <1>1, <1>4, <1>5, <1>7 DEF Follows

\* A created payment.
LEMMA NewPaymentIs ==
  ASSUME NEW booking \in Bookings, NEW amount \in 1 .. MaxAmount, NEW scenario \in Scenarios,
         NEW q, q = NewPayment(booking, amount, scenario)
  PROVE  /\ q \in Payment /\ WellFormed(q)
         /\ q.booking = booking /\ q.resourceVersion = 1 /\ q.refundedAmount = 0
<1>1. q \in Payment
  BY AmountPositive DEF NewPayment, Payment, PaymentStatus, ReconciliationStatus
<1>2. Current(q) = "PENDING" /\ q.status = "PENDING"
  BY DEF NewPayment, Current
<1> QED BY <1>1, <1>2 DEF NewPayment, WellFormed, CapturedOrLater, RefundStates

-----------------------------------------------------------------------------
(* Sums of refunds. *)

\* FoldSet unfolds one member at a time; which one, and what it adds.  AddsUp says
\* that g is the function by which it does so.
Picked(s) == CHOOSE x \in s : TRUE
Amounts(g, s) == IF s = {} THEN 0 ELSE Picked(s).amount + g[s \ {Picked(s)}]
AddsUp(S, g) == g = [s \in SUBSET S |-> Amounts(g, s)]

\* A set of natural numbers has a least member: the induction the sums of refunds need.
LEMMA LeastNatural ==
  ASSUME NEW T, T \subseteq Nat, T # {}
  PROVE  \E n \in T : \A m \in T : n <= m
<1>1. \E n \in T : \A m \in T : ~(<<m, n>> \in OpToRel(<, Nat))
  BY NatLessThanWellFounded, WFMin
<1>2. \A m, n \in T : m < n => <<m, n>> \in OpToRel(<, Nat)
  BY DEF OpToRel
<1>3. \E n \in T : \A m \in T : ~(m < n)
  BY <1>1, <1>2
<1> QED BY <1>3

\* The member that is picked is one.
LEMMA PickedIsMember ==
  ASSUME NEW s, s # {}
  PROVE  Picked(s) \in s
  BY DEF Picked

\* Without one of its members, a finite set has one member less.
LEMMA SmallerWithout ==
  ASSUME NEW s, IsFiniteSet(s), NEW x \in s
  PROVE  /\ IsFiniteSet(s \ {x})
         /\ Cardinality(s \ {x}) \in Nat
         /\ Cardinality(s) = Cardinality(s \ {x}) + 1
<1>1. IsFiniteSet(s \ {x}) /\ Cardinality(s \ {x}) = Cardinality(s) - 1
  BY FS_RemoveElement
<1>2. Cardinality(s) \in Nat /\ Cardinality(s \ {x}) \in Nat
  BY <1>1, FS_CardinalityType
<1> QED BY <1>1, <1>2

\* Over a finite set of refunds there is a function that adds up its subsets: the sum
\* of the refund rows is defined by CHOOSE, and something is there to be chosen.
LEMMA TotalsExist ==
  ASSUME NEW S, IsFiniteSet(S)
  PROVE  \E g : AddsUp(S, g)
<1> DEFINE Upto(g, n) == \A s \in SUBSET S : Cardinality(s) <= n => g[s] = Amounts(g, s)
           Bad == {n \in Nat : ~ \E g : Upto(g, n)}
<1>1. \A s \in SUBSET S : IsFiniteSet(s) /\ Cardinality(s) \in Nat
                          /\ Cardinality(s) <= Cardinality(S)
  BY FS_Subset, FS_CardinalityType
<1>2. ASSUME NEW n \in Nat, NEW g, Upto(g, n)
      PROVE  Upto([s \in SUBSET S |-> Amounts(g, s)], n + 1)
  <2> DEFINE h == [s \in SUBSET S |-> Amounts(g, s)]
  <2> SUFFICES ASSUME NEW s \in SUBSET S, Cardinality(s) <= n + 1
               PROVE  h[s] = Amounts(h, s)
    OBVIOUS
  <2>1. CASE s = {}
    BY <2>1 DEF Amounts
  <2>2. CASE s # {}
    <3> DEFINE r == s \ {Picked(s)}
    <3>1. r \in SUBSET S /\ Cardinality(r) <= n
      BY <1>1, <2>2, PickedIsMember, SmallerWithout
    <3>2. g[r] = Amounts(g, r)
      BY <1>2, <3>1
    <3>3. h[r] = g[r]
      BY <3>1, <3>2
    <3> QED BY <2>2, <3>3 DEF Amounts
  <2> QED BY <2>1, <2>2
<1>3. Upto([s \in SUBSET S |-> 0], 0)
  BY <1>1, FS_EmptySet DEF Amounts
<1>4. Bad = {}
  <2> SUFFICES ASSUME Bad # {} PROVE FALSE
    OBVIOUS
  <2>1. PICK n \in Bad : \A m \in Bad : n <= m
    BY LeastNatural
  <2>2. n # 0
    BY <1>3
  <2>3. n - 1 \in Nat /\ n - 1 \notin Bad
    BY <2>1, <2>2
  <2>4. PICK g : Upto(g, n - 1)
    BY <2>3
  <2>5. Upto([s \in SUBSET S |-> Amounts(g, s)], (n - 1) + 1)
    <3> HIDE DEF Upto
    <3> QED BY <1>2, <2>3, <2>4
  <2> HIDE DEF Upto
  <2> QED BY <2>1, <2>3, <2>5
<1>5. PICK g : Upto(g, Cardinality(S))
  BY <1>1, <1>4
<1>6. \A s \in SUBSET S : g[s] = Amounts(g, s)
  BY <1>1, <1>5
<1>7. AddsUp(S, [s \in SUBSET S |-> g[s]])
  <2> DEFINE h == [s \in SUBSET S |-> g[s]]
  <2>1. ASSUME NEW s \in SUBSET S PROVE Amounts(h, s) = h[s]
    BY <1>6, PickedIsMember DEF Amounts
  <2> QED BY <2>1 DEF AddsUp
<1> QED BY <1>7

\* Two such functions give the same sum to the rows both are about.
LEMMA TotalsAgree ==
  ASSUME NEW S, NEW R, IsFiniteSet(S), NEW g, NEW h, AddsUp(S, g), AddsUp(R, h),
         NEW t, t \subseteq S, t \subseteq R
  PROVE  g[t] = h[t]
<1> DEFINE Bad == {n \in Nat : \E s \in SUBSET (S \cap R) :
                                 Cardinality(s) = n /\ g[s] # h[s]}
<1>1. \A s \in SUBSET (S \cap R) : IsFiniteSet(s) /\ Cardinality(s) \in Nat
  BY FS_Subset, FS_CardinalityType
<1>2. Bad = {}
  <2> SUFFICES ASSUME Bad # {} PROVE FALSE
    OBVIOUS
  <2>1. PICK n \in Bad : \A m \in Bad : n <= m
    BY LeastNatural
  <2>2. PICK s \in SUBSET (S \cap R) : Cardinality(s) = n /\ g[s] # h[s]
    BY <2>1
  <2>3. g[s] = Amounts(g, s) /\ h[s] = Amounts(h, s)
    BY DEF AddsUp
  <2>4. s # {}
    BY <2>2, <2>3 DEF Amounts
  <2> DEFINE r == s \ {Picked(s)}
  <2>5. r \in SUBSET (S \cap R) /\ Cardinality(r) \in Nat /\ Cardinality(r) < n
    BY <1>1, <2>2, <2>4, PickedIsMember, SmallerWithout
  <2>6. g[r] = h[r]
    BY <2>1, <2>5
  <2> QED BY <2>2, <2>3, <2>4, <2>6 DEF Amounts
<1> QED BY <1>1, <1>2

\* The sum of some refund rows is what any function that adds up the whole table says.
LEMMA TotalIs ==
  ASSUME NEW S, IsFiniteSet(S)
  PROVE  \E g : AddsUp(S, g) /\ \A t \in SUBSET S : Total(t) = g[t]
<1>1. PICK g : AddsUp(S, g)
  BY TotalsExist
<1>2. ASSUME NEW t \in SUBSET S PROVE Total(t) = g[t]
  <2>1. Total(t) = (CHOOSE h : AddsUp(t, h))[t]
    BY DEF Total, FoldSet, MapThenFoldSet, AddsUp, Amounts, Picked
  <2>2. IsFiniteSet(t)
    BY FS_Subset
  <2>3. PICK h : h = (CHOOSE f : AddsUp(t, f))
    OBVIOUS
  <2>4. AddsUp(t, h)
    BY <2>2, <2>3, TotalsExist
  <2>5. h[t] = g[t]
    BY <1>1, <2>2, <2>4, TotalsAgree
  <2> QED BY <2>1, <2>3, <2>5
<1> QED BY <1>1, <1>2

\* The sum of refund rows is the amount of one of them and the sum of the others.
LEMMA TotalUnfolds ==
  ASSUME NEW S, IsFiniteSet(S)
  PROVE  Total(S) = IF S = {} THEN 0
                    ELSE Picked(S).amount + Total(S \ {Picked(S)})
<1>1. PICK g : AddsUp(S, g) /\ \A t \in SUBSET S : Total(t) = g[t]
  BY TotalIs
<1>2. g[S] = Amounts(g, S)
  BY <1>1 DEF AddsUp
<1>3. Total(S) = g[S] /\ Total(S \ {Picked(S)}) = g[S \ {Picked(S)}]
  BY <1>1
<1> QED BY <1>2, <1>3 DEF Amounts

\* A refund row that is added adds its amount to the sum, whatever order the rows are
\* added up in.  (append_refund)
LEMMA TotalAdds ==
  ASSUME NEW U, IsFiniteSet(U), \A f \in U : f.amount \in Nat
  PROVE  \A s \in SUBSET U : /\ Total(s) \in Nat
                             /\ \A x \in U \ s : Total(s \cup {x}) = Total(s) + x.amount
<1> DEFINE Right(s) == /\ Total(s) \in Nat
                       /\ \A x \in U \ s : Total(s \cup {x}) = Total(s) + x.amount
           Bad == {n \in Nat : \E s \in SUBSET U : Cardinality(s) = n /\ ~Right(s)}
<1>1. \A s \in SUBSET U : IsFiniteSet(s) /\ Cardinality(s) \in Nat
  BY FS_Subset, FS_CardinalityType
<1>2. Bad = {}
  <2> SUFFICES ASSUME Bad # {} PROVE FALSE
    OBVIOUS
  <2>1. PICK n \in Bad : \A m \in Bad : n <= m
    BY LeastNatural
  <2>2. PICK s \in SUBSET U : Cardinality(s) = n /\ ~Right(s)
    BY <2>1
  <2>3. ASSUME NEW y \in s
        PROVE  /\ Total(s \ {y}) \in Nat
               /\ \A x \in U \ (s \ {y}) :
                    Total((s \ {y}) \cup {x}) = Total(s \ {y}) + x.amount
    <3>1. s \ {y} \in SUBSET U /\ Cardinality(s \ {y}) \in Nat /\ Cardinality(s \ {y}) < n
      BY <1>1, <2>2, SmallerWithout
    <3>2. Cardinality(s \ {y}) \notin Bad
      <4> HIDE DEF Bad
      <4>1. Bad \subseteq Nat
        BY DEF Bad
      <4> QED BY <2>1, <3>1, <4>1
    <3>3. Right(s \ {y})
      BY <3>1, <3>2
    <3> QED BY <3>3
  <2>4. Total(s) \in Nat
    <3> HIDE DEF Right
    <3>1. Total(s) = IF s = {} THEN 0 ELSE Picked(s).amount + Total(s \ {Picked(s)})
      BY <1>1, TotalUnfolds
    <3>2. s # {} => /\ Picked(s) \in s /\ Picked(s).amount \in Nat
                    /\ Total(s \ {Picked(s)}) \in Nat
      BY <2>3, PickedIsMember
    <3> QED BY <3>1, <3>2
  <2>5. ASSUME NEW x \in U \ s
        PROVE  Total(s \cup {x}) = Total(s) + x.amount
    <3> DEFINE t == s \cup {x}
               y == Picked(t)
    <3>1. y \in t /\ t # {} /\ t \in SUBSET U
      BY PickedIsMember
    <3>2. Total(t) = y.amount + Total(t \ {y})
      BY <1>1, <3>1, TotalUnfolds
    <3> HIDE DEF y, Right
    <3>3. CASE y = x
      <4>1. t \ {y} = s
        BY <3>3
      <4>2. Total(t) = x.amount + Total(s)
        BY <3>2, <3>3, <4>1
      <4>3. x.amount \in Nat
        OBVIOUS
      <4> QED BY <2>4, <4>2, <4>3
    <3>4. CASE y # x
      <4>1. y \in s /\ t \ {y} = (s \ {y}) \cup {x} /\ s = (s \ {y}) \cup {y}
            /\ x \in U \ (s \ {y}) /\ y \in U \ (s \ {y})
        BY <3>1, <3>4
      <4>2. Total((s \ {y}) \cup {x}) = Total(s \ {y}) + x.amount
        BY <2>3, <4>1
      <4>3. Total((s \ {y}) \cup {y}) = Total(s \ {y}) + y.amount
        BY <2>3, <4>1
      <4>4. Total(s \ {y}) \in Nat /\ x.amount \in Nat /\ y.amount \in Nat
        BY <2>3, <4>1
      <4>5. Total(t) = y.amount + (Total(s \ {y}) + x.amount)
        BY <3>2, <4>1, <4>2
      <4>6. Total(s) = Total(s \ {y}) + y.amount
        BY <4>1, <4>3
      <4> QED BY <4>4, <4>5, <4>6
    <3> QED BY <3>3, <3>4
  <2> QED BY <2>2, <2>4, <2>5
<1> QED BY <1>1, <1>2

-----------------------------------------------------------------------------
(* The inductive invariant. *)

\* A row of the ledger, with the bound the clock gives its time.
LedgerEvent ==
  [outcome : ProviderOutcome, eventId : Keys \cup {None}, occurredAt : 0 .. MaxNow]

LedgerTyped == ledger \in [Bookings -> Seq(LedgerEvent)]

\* The worker's list names payments, and payments are never deleted.
BatchNamesPayments == \A entry \in batch : payments[entry[1]] # None

PaymentsWellFormed ==
  \A b \in Bookings : payments[b] # None =>
    /\ payments[b].booking = b /\ payments[b].resourceVersion <= MaxVersion
    /\ WellFormed(payments[b])

\* AuditIsTheHistory, made inductive: there is one row of a version.
AuditTrail ==
  /\ AuditIsTheHistory
  /\ \A a \in audit : payments[a.booking] # None
  /\ \A a, c \in audit : a.booking = c.booking /\ a.version = c.version => a = c

\* What makes a request take effect once: its row has the version the request
\* names, or its event id is in the ledger.
RowsNameRequests ==
  \A a \in audit :
    /\ a.request.scope = a.scope /\ a.request.booking = a.booking
    /\ a.scope = "CreatePayment" => a.version = 1
    /\ a.scope \notin {"CreatePayment", "HandleProviderCallback"} =>
         a.version = a.request.version + 1
    /\ a.scope = "HandleProviderCallback" =>
         \E i \in DOMAIN ledger[a.booking] : ledger[a.booking][i].eventId = a.key

\* What was refunded was refunded of a payment.
RefundsNamePayments == \A f \in refunds : payments[f.booking] # None

PaymentInv ==
  /\ TypeOK
  /\ LedgerTyped
  /\ BatchNamesPayments
  /\ PaymentsWellFormed
  /\ AuditTrail
  /\ RowsNameRequests
  /\ RequestTakesEffectOnce
  /\ IsFiniteSet(refunds)
  /\ RefundsNamePayments
  /\ RefundsAddUp

-----------------------------------------------------------------------------
(* What a command does, whichever it is. *)

\* The ledger is only appended to.
LedgerGrows ==
  /\ LedgerTyped'
  /\ \A b \in Bookings : \A i \in DOMAIN ledger[b] :
       i \in DOMAIN ledger'[b] /\ ledger'[b][i] = ledger[b][i]

\* A change writes a refund exactly when the payment says it refunded more.
RefundsFollow(b, before, q) ==
  \/ refunds' = refunds /\ q.refundedAmount = before
  \/ \E f \in RefundRow :
       /\ f.booking = b /\ \A g \in refunds : g.reference # f.reference
       /\ refunds' = refunds \cup {f}
       /\ q.refundedAmount = before + f.amount

\* The ledger holds the outcome that settles an UNKNOWN payment.
EvidenceOf(p, q) ==
  p.status = "UNKNOWN" /\ q.status # "UNKNOWN" =>
    \E i \in DOMAIN ledger'[p.booking] :
      /\ ledger'[p.booking][i].outcome.operation = p.pendingOperation
      /\ ledger'[p.booking][i].outcome.status = q.status

Created(r, key, q) ==
  /\ payments[r.booking] = None /\ r.scope = "CreatePayment"
  /\ q \in Payment /\ WellFormed(q) /\ q.booking = r.booking /\ q.resourceVersion = 1
  /\ \E type \in PaymentEventType : Record(r, key, None, q, type)
  /\ RefundsFollow(r.booking, 0, q)

Changed(r, key, p, q) ==
  /\ r.scope # "CreatePayment" /\ Follows(p, q)
  /\ \E type \in PaymentEventType : Record(r, key, p.status, q, type)
  /\ r.scope # "HandleProviderCallback" => r.version = p.resourceVersion
  /\ r.scope = "HandleProviderCallback" =>
       /\ \E i \in DOMAIN ledger'[p.booking] : ledger'[p.booking][i].eventId = key
       /\ \A b \in Bookings : \A i \in DOMAIN ledger[b] : ledger[b][i].eventId # key
  /\ RefundsFollow(p.booking, p.refundedAmount, q)
  /\ EvidenceOf(p, q)

Handled(r, key) ==
  LET p == payments[r.booking]
  IN  /\ LedgerGrows
      /\ \/ p # None /\ Replay(r, key, p)
         \/ \E q : Created(r, key, q)
         \/ p # None /\ \E q : Changed(r, key, p, q)

\* The fields of a request, by its scope.
LEMMA RequestsAre ==
  ASSUME NEW r \in Requests
  PROVE  /\ r.booking \in Bookings /\ r.scope \in Scopes
         /\ r.scope = "CreatePayment" => r \in CreateRequest
         /\ r.scope = "AuthorizePayment" => r \in AuthorizeRequest
         /\ r.scope = "CapturePayment" => r \in CaptureRequest
         /\ r.scope = "CancelPayment" => r \in CancelRequest
         /\ r.scope = "RefundPayment" => r \in RefundRequest
         /\ r.scope = "ReconcilePayment" => r \in ReconcileRequest
         /\ r.scope = "HandleProviderCallback" => r \in CallbackRequest
<1> USE DEF Scopes
<1>1. CASE r \in CreateRequest
  BY <1>1 DEF CreateRequest
<1>2. CASE r \in AuthorizeRequest
  BY <1>2 DEF AuthorizeRequest
<1>3. CASE r \in CaptureRequest
  BY <1>3 DEF CaptureRequest
<1>4. CASE r \in CancelRequest
  BY <1>4 DEF CancelRequest
<1>5. CASE r \in RefundRequest
  BY <1>5 DEF RefundRequest
<1>6. CASE r \in ReconcileRequest
  BY <1>6 DEF ReconcileRequest
<1>7. CASE r \in CallbackRequest
  BY <1>7 DEF CallbackRequest
<1> QED BY <1>1, <1>2, <1>3, <1>4, <1>5, <1>6, <1>7 DEF Requests

\* Appending to the ledger of one payment only adds to it.
LEMMA AppendingGrows ==
  ASSUME LedgerTyped, NEW b \in Bookings, NEW more \in Seq(LedgerEvent),
         ledger' = [ledger EXCEPT ![b] = @ \o more]
  PROVE  /\ LedgerGrows
         /\ \A i \in DOMAIN more :
              /\ Len(ledger[b]) + i \in DOMAIN ledger'[b]
              /\ ledger'[b][Len(ledger[b]) + i] = more[i]
<1>1. ledger[b] \in Seq(LedgerEvent) /\ ledger'[b] = ledger[b] \o more
      /\ ledger'[b] \in Seq(LedgerEvent)
  BY DEF LedgerTyped
<1>2. LedgerTyped'
  BY <1>1 DEF LedgerTyped
<1>3. \A i \in DOMAIN ledger[b] : i \in DOMAIN ledger'[b] /\ ledger'[b][i] = ledger[b][i]
  BY <1>1
<1>4. \A c \in Bookings \ {b} : ledger'[c] = ledger[c]
  BY DEF LedgerTyped
<1>5. \A i \in DOMAIN more : /\ Len(ledger[b]) + i \in DOMAIN ledger'[b]
                             /\ ledger'[b][Len(ledger[b]) + i] = more[i]
  BY <1>1
<1> QED BY <1>2, <1>3, <1>4, <1>5 DEF LedgerGrows

\* AppendEvent puts its event last, under an event id the ledger did not have.
LEMMA AppendEventGrows ==
  ASSUME LedgerTyped, NEW b \in Bookings, NEW o \in ProviderOutcome,
         NEW eventId \in Keys \cup {None}, NEW occurredAt \in 0 .. MaxNow,
         AppendEvent(b, o, eventId, occurredAt)
  PROVE  /\ LedgerGrows
         /\ \E i \in DOMAIN ledger'[b] :
              ledger'[b][i].outcome = o /\ ledger'[b][i].eventId = eventId
         /\ eventId # None => \A c \in Bookings : \A i \in DOMAIN ledger[c] :
                                ledger[c][i].eventId # eventId
<1> DEFINE event == [outcome |-> o, eventId |-> eventId, occurredAt |-> occurredAt]
<1>1. event \in LedgerEvent
  BY DEF LedgerEvent
<1>2. event.outcome = o /\ event.eventId = eventId
  OBVIOUS
<1>3. ledger' = [ledger EXCEPT ![b] = Append(@, event)]
  BY DEF AppendEvent
<1> HIDE DEF event
<1>4. ledger' = [ledger EXCEPT ![b] = @ \o <<event>>]
  <2>1. ledger[b] \in Seq(LedgerEvent)
    BY DEF LedgerTyped
  <2>2. Append(ledger[b], event) = ledger[b] \o <<event>>
    BY <1>1, <2>1, AppendIsConcat
  <2> QED BY <1>3, <2>2
<1> DEFINE more == <<event>>
<1>5. more \in Seq(LedgerEvent) /\ 1 \in DOMAIN more /\ more[1] = event
  BY <1>1
<1> HIDE DEF more
<1>6. LedgerGrows /\ \E i \in DOMAIN ledger'[b] : ledger'[b][i] = event
  <2>1. ledger' = [ledger EXCEPT ![b] = @ \o more]
    BY <1>4 DEF more
  <2>2. /\ LedgerGrows
        /\ \A i \in DOMAIN more :
             /\ Len(ledger[b]) + i \in DOMAIN ledger'[b]
             /\ ledger'[b][Len(ledger[b]) + i] = more[i]
    BY <1>5, <2>1, AppendingGrows
  <2> QED BY <1>5, <2>2
<1> QED BY <1>2, <1>6 DEF AppendEvent

\* The newest final outcome of an operation is one of the ledger's.
\* (repositories.py, latest_final_provider_event)
LEMMA LatestFinalIsFinal ==
  ASSUME LedgerTyped, MaxNow \in Nat, NEW b \in Bookings, NEW operation,
         FinalEvents(b, operation) # {}
  PROVE  LatestFinal(b, operation) \in FinalEvents(b, operation)
<1> DEFINE F == FinalEvents(b, operation)
           time(i) == ledger[b][i].occurredAt
<1>1. F \subseteq 1 .. Len(ledger[b]) /\ Len(ledger[b]) \in Nat
  BY DEF FinalEvents, LedgerTyped
<1>2. \A i \in F : time(i) \in 0 .. MaxNow
  <2>1. \A i \in 1 .. Len(ledger[b]) : ledger[b][i] \in LedgerEvent
    BY DEF LedgerTyped
  <2> HIDE DEF F
  <2> QED BY <1>1, <2>1 DEF LedgerEvent
<1> HIDE DEF F, time
<1> DEFINE ages == {MaxNow - time(i) : i \in F}
<1>3. ages \subseteq Nat /\ ages # {}
  BY <1>2 DEF F
<1>4. PICK i \in F : \A j \in F : MaxNow - time(i) <= MaxNow - time(j)
  <2>1. PICK n \in ages : \A m \in ages : n <= m
    <3> HIDE DEF ages
    <3> QED BY <1>3, LeastNatural
  <2> QED BY <2>1
<1>5. \A j \in F : time(j) <= time(i)
  BY <1>2, <1>4
<1> DEFINE newest == {j \in F : time(j) = time(i)}
           ranks == {Len(ledger[b]) - j : j \in newest}
<1>6. ranks \subseteq Nat /\ ranks # {}
  BY <1>1
<1>7. PICK k \in newest : \A j \in newest : Len(ledger[b]) - k <= Len(ledger[b]) - j
  <2>1. PICK n \in ranks : \A m \in ranks : n <= m
    <3> HIDE DEF ranks
    <3> QED BY <1>6, LeastNatural
  <2> QED BY <2>1
<1>8. \A j \in newest : j <= k
  BY <1>1, <1>7
<1>9. k \in F /\ \A j \in F : time(j) < time(k) \/ (time(j) = time(k) /\ j <= k)
  BY <1>2, <1>5, <1>8
<1> QED BY <1>9 DEF LatestFinal, F, time

\* The payment a request is about, while the invariant holds.
LEMMA PaymentIs ==
  ASSUME PaymentInv, NEW b \in Bookings, payments[b] # None
  PROVE  /\ payments[b] \in Payment /\ WellFormed(payments[b])
         /\ payments[b].booking = b
  BY DEF PaymentInv, TypeOK, PaymentsWellFormed

\* An outcome that applies, with the refund row, the audit row and the ledger entry
\* the commands write with it.  (apply_provider_outcome, append_refund)
LEMMA SettlingIsHandled ==
  ASSUME PaymentInv, NEW r \in Requests, NEW key \in Keys \cup WorkerKeys,
         r.scope # "CreatePayment",
         NEW p, p = payments[r.booking], p # None,
         NEW o \in ProviderOutcome, NEW version, NEW reconciled \in BOOLEAN,
         OutcomeApplies(p, o, version, reconciled),
         Record(r, key, p.status, ApplyOutcome(p, o, reconciled), EventTypeForStatus(o.status)),
         AppendRefund(p, o, key), LedgerGrows,
         r.scope # "HandleProviderCallback" => version = r.version,
         r.scope = "HandleProviderCallback" =>
           /\ \E i \in DOMAIN ledger'[p.booking] : ledger'[p.booking][i].eventId = key
           /\ \A b \in Bookings : \A i \in DOMAIN ledger[b] : ledger[b][i].eventId # key,
         reconciled => \E i \in DOMAIN ledger'[p.booking] : ledger'[p.booking][i].outcome = o
  PROVE  Handled(r, key)
<1>1. r.booking \in Bookings
  BY RequestsAre
<1>2. p \in Payment /\ WellFormed(p) /\ p.booking = r.booking
  BY <1>1, PaymentIs
<1> DEFINE q == ApplyOutcome(p, o, reconciled)
<1>3. OutcomeIsNormal(o) /\ CanApplyOutcome(p, o, version, reconciled)
  BY DEF OutcomeApplies
<1>4. /\ Follows(p, q)
      /\ version = p.resourceVersion /\ q.status = o.status
      /\ p.status = "UNKNOWN" => reconciled /\ p.pendingOperation = o.operation
      /\ IF o.status \in RefundStates
           THEN /\ o.refunded \in Nat /\ o.refunded > p.refundedAmount
                /\ q.refundedAmount = o.refunded
           ELSE q.refundedAmount = p.refundedAmount
  BY <1>2, <1>3, AppliedOutcomeFollows
<1>5. EventTypeForStatus(o.status) \in PaymentEventType
  BY <1>3 DEF OutcomeIsNormal, EventTypeForStatus, FinalProviderStatuses, PaymentStatus,
              PaymentEventType, RefundStates
<1> HIDE DEF q
<1>6. \E type \in PaymentEventType : Record(r, key, p.status, q, type)
  BY <1>5 DEF q
<1>7. RefundsFollow(p.booking, p.refundedAmount, q)
  <2>1. CASE o.status \notin RefundStates
    BY <1>4, <2>1 DEF AppendRefund, RefundsFollow
  <2>2. CASE o.status \in RefundStates
    <3> DEFINE f == [booking |-> p.booking, reference |-> o.refundReference,
                     amount |-> o.refunded - p.refundedAmount,
                     reason |-> IF o.reason # None THEN o.reason ELSE DefaultReason,
                     key |-> key]
    <3>1. /\ \A g \in refunds : g.reference # o.refundReference
          /\ refunds' = refunds \cup {f}
      BY <2>2 DEF AppendRefund
    <3>2. /\ o.refundReference \in RefundRefs
          /\ o.refunded - p.refundedAmount \in 1 .. MaxAmount
          /\ p.refundedAmount + (o.refunded - p.refundedAmount) = o.refunded
      <4>1. o.refundReference # None /\ o.refunded # None
        BY <1>3, <2>2 DEF OutcomeIsNormal, OutcomeFieldsValid
      <4>2. o.refunded \in 0 .. MaxAmount /\ o.refundReference \in RefundRefs
        BY <4>1 DEF ProviderOutcome
      <4>3. p.refundedAmount \in 0 .. MaxAmount
        BY <1>2 DEF Payment
      <4> QED BY <1>4, <2>2, <4>2, <4>3, AmountPositive
    <3>3. (IF o.reason # None THEN o.reason ELSE DefaultReason) \in Reasons
      BY MockReferencesDistinct DEF ProviderOutcome
    <3>4. f \in RefundRow
      BY <1>1, <1>2, <3>2, <3>3 DEF RefundRow
    <3>5. f.booking = p.booking /\ f.reference = o.refundReference
          /\ f.amount = o.refunded - p.refundedAmount
      OBVIOUS
    <3> HIDE DEF f
    <3> QED BY <1>4, <2>2, <3>1, <3>2, <3>4, <3>5 DEF RefundsFollow
  <2> QED BY <2>1, <2>2
<1>8. EvidenceOf(p, q)
  BY <1>4 DEF EvidenceOf
<1>9. Changed(r, key, p, q)
  BY <1>4, <1>6, <1>7, <1>8 DEF Changed
<1> QED BY <1>9 DEF Handled

\* The unknown branch of a command.  A payment that already waits for the operation
\* is not marked again: its audit row of this version exists.
LEMMA MarkingIsHandled ==
  ASSUME PaymentInv, NEW r \in Requests, NEW key \in Keys \cup WorkerKeys,
         r.scope \notin {"CreatePayment", "HandleProviderCallback"},
         NEW p, p = payments[r.booking], p # None,
         NEW operation \in ProviderOperation, NEW reference \in ProviderRefs \cup {None},
         NEW reason \in Reasons \cup {None}, NEW committed, committed \in Seq(LedgerEvent),
         MarkUnknown(r, key, p, operation, reference, reason, committed)
  PROVE  Handled(r, key)
<1>1. r.booking \in Bookings
  BY RequestsAre
<1>2. p \in Payment /\ WellFormed(p) /\ p.booking = r.booking
  BY <1>1, PaymentIs
<1>3. now \in 0 .. MaxNow /\ now \in Nat /\ LedgerTyped
  BY BackoffPositive DEF PaymentInv, TypeOK
<1> DEFINE marked == MarkUnknownOf(p, operation, reference, now)
           marker == [outcome |-> UnknownOutcome(operation, reference, reason),
                      eventId |-> None, occurredAt |-> now]
           more == committed \o <<marker>>
<1>4. /\ CanMarkUnknown(p, operation, reference, r.version)
      /\ Record(r, key, p.status, marked, "UNKNOWN")
      /\ ledger' = [ledger EXCEPT ![p.booking] = @ \o committed \o <<marker>>]
      /\ UNCHANGED refunds
  BY DEF MarkUnknown
<1>5. p.status # "UNKNOWN"
  <2> SUFFICES ASSUME p.status = "UNKNOWN" PROVE FALSE
    OBVIOUS
  <2>1. marked = p
    BY DEF MarkUnknownOf
  <2>2. \A a \in audit : ~(a.booking = p.booking /\ a.version = p.resourceVersion)
    BY <1>4, <2>1 DEF Record, AppendAudit
  <2>3. {a.version : a \in {c \in audit : c.booking = r.booking}} = 1 .. p.resourceVersion
    BY <1>1 DEF PaymentInv, AuditTrail, AuditIsTheHistory
  <2>4. p.resourceVersion \in 1 .. p.resourceVersion
    BY <1>2 DEF Payment
  <2> QED BY <1>2, <2>2, <2>3, <2>4
<1>6. /\ Follows(p, marked) /\ r.version = p.resourceVersion
      /\ marked.status = "UNKNOWN" /\ marked.refundedAmount = p.refundedAmount
  <2>1. CanMarkUnknown(p, operation, reference, r.version) /\ now \in Nat
    BY <1>3, <1>4
  <2>2. marked = MarkUnknownOf(p, operation, reference, now)
    OBVIOUS
  <2> QED BY ONLY <1>2, <1>5, <2>1, <2>2, MarkedFollows
<1>7. more \in Seq(LedgerEvent)
  <2>1. UnknownOutcome(operation, reference, reason) \in ProviderOutcome
    BY DEF UnknownOutcome, ProviderOutcome, PaymentStatus
  <2>2. marker \in LedgerEvent
    BY <1>3, <2>1 DEF LedgerEvent
  <2> HIDE DEF marker
  <2> QED BY <2>2
<1>8. ledger' = [ledger EXCEPT ![p.booking] = @ \o more]
  <2>1. marker \in LedgerEvent
    <3>1. UnknownOutcome(operation, reference, reason) \in ProviderOutcome
      BY DEF UnknownOutcome, ProviderOutcome, PaymentStatus
    <3> QED BY <1>3, <3>1 DEF LedgerEvent
  <2> HIDE DEF marker
  <2> DEFINE last == <<marker>>
             before == ledger[p.booking]
  <2>2. before \in Seq(LedgerEvent) /\ last \in Seq(LedgerEvent)
    BY <1>1, <1>2, <1>3, <2>1 DEF LedgerTyped
  <2>3. (before \o committed) \o last = before \o (committed \o last)
    <3> HIDE DEF before, last
    <3> QED BY <2>2, ConcatAssociative
  <2> QED BY <1>4, <2>3 DEF marker
<1> HIDE DEF more, marker, marked
<1>9. LedgerGrows
  BY <1>1, <1>2, <1>3, <1>7, <1>8, AppendingGrows
<1>10. RefundsFollow(p.booking, p.refundedAmount, marked) /\ EvidenceOf(p, marked)
  BY <1>4, <1>6 DEF RefundsFollow, EvidenceOf
<1>11. \E type \in PaymentEventType : Record(r, key, p.status, marked, type)
  BY <1>4 DEF PaymentEventType
<1>12. Changed(r, key, p, marked)
  BY <1>6, <1>10, <1>11 DEF Changed
<1> QED BY <1>9, <1>12 DEF Handled

\* A replay, with the ledger as it was.
LEMMA ReplayIsHandled ==
  ASSUME PaymentInv, NEW r \in Requests, NEW key,
         NEW p, p = payments[r.booking], p # None,
         Replay(r, key, p), UNCHANGED ledger
  PROVE  Handled(r, key)
<1>1. LedgerGrows
  BY DEF LedgerGrows, PaymentInv, LedgerTyped
<1> QED BY <1>1 DEF Handled

\* CreatePayment writes version 1 of a booking's payment, or answers with the payment
\* the booking already has.  (create_payment.py)
LEMMA CreateIsHandled ==
  ASSUME PaymentInv, NEW r \in Requests, NEW key \in Keys \cup WorkerKeys,
         r.scope = "CreatePayment", Create(r, key)
  PROVE  Handled(r, key)
<1>1. r.booking \in Bookings /\ r \in CreateRequest
  BY RequestsAre
<1>2. CASE payments[r.booking] = None
  <2> DEFINE q == NewPayment(r.booking, r.amount, r.scenario)
  <2>1. Record(r, key, None, q, "CREATED") /\ UNCHANGED <<refunds, ledger>>
    BY <1>2 DEF Create
  <2>2. r.amount \in 1 .. MaxAmount /\ r.scenario \in Scenarios
    BY <1>1 DEF CreateRequest
  <2>3. /\ q \in Payment /\ WellFormed(q)
        /\ q.booking = r.booking /\ q.resourceVersion = 1 /\ q.refundedAmount = 0
    BY <1>1, <2>2, NewPaymentIs
  <2> HIDE DEF q
  <2>4. Created(r, key, q)
    BY <1>2, <2>1, <2>3 DEF Created, RefundsFollow, PaymentEventType
  <2>5. LedgerGrows
    BY <2>1 DEF LedgerGrows, PaymentInv, LedgerTyped
  <2> QED BY <2>4, <2>5 DEF Handled
<1>3. CASE payments[r.booking] # None
  <2> QED BY <1>3, ReplayIsHandled DEF Create
<1> QED BY <1>2, <1>3

\* The tail of AuthorizePayment, CapturePayment and CancelPayment.
LEMMA CommandOutcomeIsHandled ==
  ASSUME PaymentInv, NEW r \in Requests, NEW key \in Keys \cup WorkerKeys,
         r.scope \notin {"CreatePayment", "HandleProviderCallback"},
         NEW p, p = payments[r.booking], p # None,
         NEW o \in ProviderOutcome, o.status \notin RefundStates,
         ApplyCommandOutcome(r, key, p, o)
  PROVE  Handled(r, key)
<1>1. r.booking \in Bookings /\ p.booking = r.booking
  BY RequestsAre, PaymentIs
<1>2. CASE IsNoop(p, o)
  BY <1>2, ReplayIsHandled DEF ApplyCommandOutcome
<1>3. CASE ~IsNoop(p, o)
  <2>1. /\ OutcomeApplies(p, o, r.version, FALSE)
        /\ AppendEvent(p.booking, o, None, now)
        /\ Record(r, key, p.status, ApplyOutcome(p, o, FALSE), EventTypeForStatus(o.status))
        /\ UNCHANGED refunds
    BY <1>3 DEF ApplyCommandOutcome
  <2>2. AppendRefund(p, o, key)
    BY <2>1 DEF AppendRefund
  <2>3. LedgerGrows
    BY <1>1, <2>1, AppendEventGrows DEF PaymentInv, TypeOK
  <2> QED BY <2>1, <2>2, <2>3, SettlingIsHandled
<1> QED BY <1>2, <1>3

\* The outcome a caller reports or the mock provider answers with.
LEMMA CommandOutcomeIs ==
  ASSUME NEW p \in Payment, NEW r \in AuthorizeRequest \cup CaptureRequest,
         r.providerStatus # "UNKNOWN",
         NEW operation \in {"AUTHORIZE", "CAPTURE"}, NEW success \in {"AUTHORIZED", "CAPTURED"},
         NEW o, o = CommandOutcome(p, r, operation, success)
  PROVE  o \in ProviderOutcome /\ o.status \notin RefundStates
<1> DEFINE reference == IF operation = "CAPTURE" /\ p.providerReference # None
                          THEN p.providerReference ELSE MockReference[p.booking, operation]
           reason == IF r.providerStatus = "FAILED" /\ r.reason = None
                       THEN DefaultReason ELSE r.reason
           answer == IF p.scenario = "DECLINE" THEN "FAILED" ELSE success
           why == IF p.scenario = "DECLINE" THEN DefaultReason ELSE None
<1>1. /\ r.providerStatus \in {None, "AUTHORIZED", "CAPTURED", "FAILED"}
      /\ r.reference \in ProviderRefs \cup {None} /\ r.reason \in Reasons \cup {None}
  BY DEF AuthorizeRequest, CaptureRequest
<1>2. MockReference[p.booking, operation] \in ProviderRefs
  BY MockReferencesDistinct, ZenonT(60) DEF Payment
<1>3. /\ reference \in ProviderRefs \cup {None}
      /\ reason \in Reasons \cup {None} /\ why \in Reasons \cup {None}
      /\ answer \in {"AUTHORIZED", "CAPTURED", "FAILED"}
  BY <1>1, <1>2, MockReferencesDistinct, ZenonT(60) DEF Payment
<1>4. operation \in ProviderOperation
  BY DEF ProviderOperation
<1>5. o = IF r.providerStatus = None
            THEN [status |-> answer, operation |-> operation, reference |-> reference,
                  refundReference |-> None, refunded |-> None, reason |-> why]
            ELSE [status |-> r.providerStatus, operation |-> operation,
                  reference |-> r.reference, refundReference |-> None, refunded |-> None,
                  reason |-> reason]
  <2> DEFINE reported == [status |-> r.providerStatus, operation |-> operation,
                          reference |-> r.reference, refundReference |-> None,
                          refunded |-> None, reason |-> reason]
  <2>1. o = IF r.providerStatus = None
              THEN [reported EXCEPT !.reference = reference, !.status = answer,
                                    !.reason = why]
              ELSE reported
    BY DEF CommandOutcome
  <2> HIDE DEF reference, reason, answer, why
  <2>2. [reported EXCEPT !.reference = reference, !.status = answer, !.reason = why] =
          [status |-> answer, operation |-> operation, reference |-> reference,
           refundReference |-> None, refunded |-> None, reason |-> why]
    <3> DEFINE x == [reported EXCEPT !.reference = reference]
               y == [x EXCEPT !.status = answer]
    <3>1. x = [status |-> r.providerStatus, operation |-> operation,
               reference |-> reference,
               refundReference |-> None, refunded |-> None, reason |-> reason]
      OBVIOUS
    <3>2. [reported EXCEPT !.reference = reference, !.status = answer, !.reason = why] =
            [y EXCEPT !.reason = why]
      OBVIOUS
    <3> HIDE DEF x
    <3>3. y = [status |-> answer, operation |-> operation, reference |-> reference,
               refundReference |-> None, refunded |-> None, reason |-> reason]
      BY <3>1
    <3> HIDE DEF y
    <3> QED BY <3>2, <3>3
  <2> QED BY <2>1, <2>2
<1> HIDE DEF reference, reason, answer, why
<1> QED BY <1>1, <1>3, <1>4, <1>5 DEF ProviderOutcome, PaymentStatus, RefundStates

\* AuthorizePayment.  (authorize_payment.py)
LEMMA AuthorizeIsHandled ==
  ASSUME PaymentInv, NEW r \in Requests, NEW key \in Keys \cup WorkerKeys,
         r.scope = "AuthorizePayment",
         NEW p, p = payments[r.booking], p # None, Authorize(r, key, p)
  PROVE  Handled(r, key)
<1>1. r.booking \in Bookings /\ p \in Payment /\ r \in AuthorizeRequest
  BY RequestsAre, PaymentIs
<1>2. CASE r.providerStatus = "UNKNOWN"
  <2> DEFINE reason == IF r.reason # None THEN r.reason ELSE DefaultReason
  <2>1. reason \in Reasons \cup {None} /\ r.reference \in ProviderRefs \cup {None}
        /\ "AUTHORIZE" \in ProviderOperation /\ <<>> \in Seq(LedgerEvent)
    BY <1>1, MockReferencesDistinct DEF AuthorizeRequest, ProviderOperation
  <2>2. MarkUnknown(r, key, p, "AUTHORIZE", r.reference, reason, <<>>)
    BY <1>2 DEF Authorize
  <2> HIDE DEF reason
  <2> QED BY <2>1, <2>2, MarkingIsHandled
<1>3. CASE r.providerStatus # "UNKNOWN"
  <2> DEFINE o == CommandOutcome(p, r, "AUTHORIZE", "AUTHORIZED")
  <2>1. ApplyCommandOutcome(r, key, p, o)
    BY <1>3 DEF Authorize
  <2>2. o \in ProviderOutcome /\ o.status \notin RefundStates
    BY <1>1, <1>3, CommandOutcomeIs
  <2> HIDE DEF o
  <2> QED BY <2>1, <2>2, CommandOutcomeIsHandled
<1> QED BY <1>2, <1>3

\* CapturePayment, with the capture whose answer is lost.  (capture_payment.py)
LEMMA CaptureIsHandled ==
  ASSUME PaymentInv, NEW r \in Requests, NEW key \in Keys \cup WorkerKeys,
         r.scope = "CapturePayment",
         NEW p, p = payments[r.booking], p # None, Capture(r, key, p)
  PROVE  Handled(r, key)
<1>1. r.booking \in Bookings /\ p \in Payment /\ r \in CaptureRequest
  BY RequestsAre, PaymentIs
<1> DEFINE o == CommandOutcome(p, r, "CAPTURE", "CAPTURED")
           reason == IF r.reason # None THEN r.reason ELSE DefaultReason
           event == [outcome |-> o, eventId |-> None, occurredAt |-> now]
<1>2. r.providerStatus # "UNKNOWN" => o \in ProviderOutcome /\ o.status \notin RefundStates
  BY <1>1, CommandOutcomeIs
<1>3. /\ reason \in Reasons \cup {None} /\ r.reference \in ProviderRefs \cup {None}
      /\ DefaultReason \in Reasons \cup {None}
      /\ "CAPTURE" \in ProviderOperation
  BY <1>1, MockReferencesDistinct DEF CaptureRequest, ProviderOperation
<1>4. \/ /\ r.providerStatus = "UNKNOWN"
         /\ MarkUnknown(r, key, p, "CAPTURE", r.reference, reason, <<>>)
      \/ /\ r.providerStatus = None
         /\ MarkUnknown(r, key, p, "CAPTURE", o.reference, DefaultReason, <<event>>)
      \/ r.providerStatus # "UNKNOWN" /\ ApplyCommandOutcome(r, key, p, o)
  BY DEF Capture, CaptureTimesOut
<1> HIDE DEF o, reason
<1>5. CASE /\ r.providerStatus = "UNKNOWN"
           /\ MarkUnknown(r, key, p, "CAPTURE", r.reference, reason, <<>>)
  <2>1. <<>> \in Seq(LedgerEvent)
    OBVIOUS
  <2> QED BY <1>3, <1>5, <2>1, MarkingIsHandled
<1>6. CASE /\ r.providerStatus = None
           /\ MarkUnknown(r, key, p, "CAPTURE", o.reference, DefaultReason, <<event>>)
  <2>1. o \in ProviderOutcome /\ o.reference \in ProviderRefs \cup {None}
    BY <1>2, <1>6, NoneIsNoPaymentValue, NoneIsNoPayment DEF ProviderOutcome, PaymentStatus
  <2>2. event \in LedgerEvent
    BY <2>1 DEF LedgerEvent, PaymentInv, TypeOK
  <2> HIDE DEF event
  <2>3. <<event>> \in Seq(LedgerEvent)
    BY <2>2
  <2> QED BY <1>3, <1>6, <2>1, <2>3, MarkingIsHandled
<1>7. CASE r.providerStatus # "UNKNOWN" /\ ApplyCommandOutcome(r, key, p, o)
  BY <1>2, <1>7, CommandOutcomeIsHandled
<1> QED BY <1>4, <1>5, <1>6, <1>7

\* CancelPayment.  (cancel_payment.py)
LEMMA CancelIsHandled ==
  ASSUME PaymentInv, NEW r \in Requests, NEW key \in Keys \cup WorkerKeys,
         r.scope = "CancelPayment",
         NEW p, p = payments[r.booking], p # None, Cancel(r, key, p)
  PROVE  Handled(r, key)
<1>1. r.booking \in Bookings /\ p \in Payment /\ r \in CancelRequest
  BY RequestsAre, PaymentIs
<1>2. r.reason \in Reasons \cup {None} /\ r.reference \in ProviderRefs \cup {None}
      /\ "CANCEL" \in ProviderOperation
  BY <1>1 DEF CancelRequest, ProviderOperation
<1>3. CASE r.providerStatus = "UNKNOWN"
  <2>1. <<>> \in Seq(LedgerEvent)
    OBVIOUS
  <2> QED BY <1>2, <1>3, <2>1, MarkingIsHandled DEF Cancel
<1>4. CASE r.providerStatus # "UNKNOWN"
  <2> DEFINE o == [status |-> "CANCELLED", operation |-> "CANCEL", reference |-> r.reference,
                   refundReference |-> None, refunded |-> None, reason |-> r.reason]
  <2>1. ApplyCommandOutcome(r, key, p, o)
    BY <1>4 DEF Cancel
  <2>2. o \in ProviderOutcome /\ o.status \notin RefundStates
    BY <1>2 DEF ProviderOutcome, PaymentStatus, RefundStates
  <2> HIDE DEF o
  <2> QED BY <2>1, <2>2, CommandOutcomeIsHandled
<1> QED BY <1>3, <1>4

\* RefundPayment: the outcome it writes is one apply_provider_outcome would accept.
\* (refund_payment.py)
LEMMA RefundIsHandled ==
  ASSUME PaymentInv, NEW r \in Requests, NEW key \in Keys \cup WorkerKeys,
         r.scope = "RefundPayment",
         NEW p, p = payments[r.booking], p # None, Refund(r, key, p)
  PROVE  Handled(r, key)
<1>1. r.booking \in Bookings /\ p \in Payment /\ WellFormed(p) /\ p.booking = r.booking
      /\ r \in RefundRequest
  BY RequestsAre, PaymentIs
<1>2. /\ r.amount \in 1 .. MaxAmount /\ r.reason \in Reasons
      /\ r.providerStatus # "UNKNOWN" =>
           r.refundReference # None /\ r.refundReference \in RefundRefs
  BY <1>1 DEF RefundRequest
<1> DEFINE o == [status |-> RefundTarget(p, r.amount), operation |-> "REFUND",
                 reference |-> p.providerReference, refundReference |-> r.refundReference,
                 refunded |-> p.refundedAmount + r.amount, reason |-> r.reason]
<1>3. \/ /\ r.providerStatus = "UNKNOWN"
         /\ MarkUnknown(r, key, p, "REFUND", p.providerReference, r.reason, <<>>)
      \/ Replay(r, key, p) /\ UNCHANGED ledger
      \/ /\ r.providerStatus # "UNKNOWN"
         /\ CanRefund(p, r.amount, r.version, FALSE)
         /\ AppendRefund(p, o, key)
         /\ AppendEvent(p.booking, o, None, now)
         /\ Record(r, key, p.status, RefundOf(p, r.amount, FALSE), "REFUNDED")
  BY DEF Refund
<1>4. CASE /\ r.providerStatus = "UNKNOWN"
           /\ MarkUnknown(r, key, p, "REFUND", p.providerReference, r.reason, <<>>)
  <2>1. <<>> \in Seq(LedgerEvent)
    OBVIOUS
  <2>2. "REFUND" \in ProviderOperation /\ r.reason \in Reasons \cup {None}
        /\ p.providerReference \in ProviderRefs \cup {None}
    BY <1>1, <1>2 DEF ProviderOperation, Payment
  <2> QED BY <1>4, <2>1, <2>2, MarkingIsHandled
<1>5. CASE Replay(r, key, p) /\ UNCHANGED ledger
  BY <1>5, ReplayIsHandled
<1>6. CASE /\ r.providerStatus # "UNKNOWN"
           /\ CanRefund(p, r.amount, r.version, FALSE)
           /\ AppendRefund(p, o, key)
           /\ AppendEvent(p.booking, o, None, now)
           /\ Record(r, key, p.status, RefundOf(p, r.amount, FALSE), "REFUNDED")
  <2>1. /\ r.version = p.resourceVersion
        /\ r.amount \in 1 .. Remaining(p)
    BY <1>6 DEF CanRefund, CanPrepareResolution
  <2>2. /\ p.refundedAmount \in Nat /\ p.capturedAmount \in 0 .. MaxAmount
        /\ p.refundedAmount + r.amount \in 0 .. MaxAmount
        /\ p.refundedAmount + r.amount > p.refundedAmount
        /\ (p.refundedAmount + r.amount) - p.refundedAmount = r.amount
    BY <1>1, <1>2, <2>1, AmountPositive DEF Payment, Remaining
  <2>3. RefundTarget(p, r.amount) \in RefundStates
    BY DEF RefundTarget, RefundStates
  <2> DEFINE status == RefundTarget(p, r.amount)
             refunded == p.refundedAmount + r.amount
  <2>4. /\ o.status = status /\ o.operation = "REFUND"
        /\ o.reference = p.providerReference /\ o.refundReference = r.refundReference
        /\ o.refunded = refunded /\ o.reason = r.reason
    OBVIOUS
  <2>5. o \in ProviderOutcome
    <3>1. p.providerReference \in ProviderRefs \cup {None} /\ "REFUND" \in ProviderOperation
          /\ status \in PaymentStatus
      BY <1>1, <2>3 DEF Payment, ProviderOperation, PaymentStatus, RefundStates
    <3>2. refunded \in 0 .. MaxAmount /\ r.refundReference \in RefundRefs
          /\ r.reason \in Reasons
      BY <1>2, <1>6, <2>2
    <3>3. o = [status |-> status, operation |-> "REFUND",
               reference |-> p.providerReference, refundReference |-> r.refundReference,
               refunded |-> refunded, reason |-> r.reason]
      OBVIOUS
    <3> HIDE DEF o, status, refunded
    <3> QED BY <3>1, <3>2, <3>3 DEF ProviderOutcome
  <2> HIDE DEF o, status, refunded
  <2>6. refunded # None
    BY <2>2, NoneIsNoPaymentValue DEF refunded
  <2>7. OutcomeIsNormal(o)
    <3>1. OutcomeFieldsValid(o)
      BY <1>2, <1>6, <2>3, <2>4, <2>6 DEF OutcomeFieldsValid, RefundStates, status
    <3>2. o.status \in FinalProviderStatuses /\ o.status \in OperationOutcomes[o.operation]
      BY <2>3, <2>4 DEF FinalProviderStatuses, PaymentStatus, OperationOutcomes,
                        ProviderOperation, RefundStates, status
    <3> QED BY <3>1, <3>2 DEF OutcomeIsNormal
  <2>8. o.refunded - p.refundedAmount = r.amount
    BY <2>2, <2>4 DEF refunded
  <2>9. CanApplyOutcome(p, o, r.version, FALSE)
    <3>1. /\ o.reference \in {None, p.providerReference}
          /\ o.refunded > p.refundedAmount
          /\ CanRefund(p, o.refunded - p.refundedAmount, r.version, FALSE)
          /\ RefundTarget(p, o.refunded - p.refundedAmount) = o.status
      BY <1>6, <2>2, <2>4, <2>8 DEF status, refunded
    <3>2. o.status \notin {"AUTHORIZED", "CAPTURED", "FAILED", "CANCELLED"}
      BY <2>3, <2>4 DEF RefundStates, status
    <3> QED BY <3>1, <3>2 DEF CanApplyOutcome
  <2>10. ApplyOutcome(p, o, FALSE) = RefundOf(p, r.amount, FALSE)
         /\ EventTypeForStatus(o.status) = "REFUNDED"
    BY <2>3, <2>4, <2>8 DEF ApplyOutcome, EventTypeForStatus, RefundStates, status
  <2>11. ReferenceAvailable(p, o.reference)
    <3> DEFINE q == RefundOf(p, r.amount, FALSE)
    <3>1. Follows(p, q)
      <4>1. q = ApplyOutcome(p, o, FALSE)
        BY <2>10
      <4> HIDE DEF q
      <4> QED BY <1>1, <2>5, <2>7, <2>9, <4>1, AppliedOutcomeFollows
    <3>2. ReferenceAvailable(q, q.providerReference)
      BY <1>6 DEF Record
    <3> HIDE DEF q
    <3> QED BY <2>4, <3>1, <3>2 DEF ReferenceAvailable, Follows, Forward
  <2>12. RefundReferenceFits(p, o)
    BY <1>6, <2>3, <2>4 DEF RefundReferenceFits, AppendRefund, status
  <2>13. OutcomeApplies(p, o, r.version, FALSE)
    BY <2>7, <2>9, <2>11, <2>12 DEF OutcomeApplies
  <2>14. LedgerGrows
    BY <1>1, <1>6, <2>5, AppendEventGrows DEF PaymentInv, TypeOK
  <2> QED BY <1>6, <2>5, <2>10, <2>13, <2>14, SettlingIsHandled
<1> HIDE DEF o
<1> QED BY <1>3, <1>4, <1>5, <1>6

\* A provider's callback.  (handle_provider_callback.py)
LEMMA CallbackIsHandled ==
  ASSUME PaymentInv, NEW r \in Requests, NEW key \in Keys,
         r.scope = "HandleProviderCallback",
         NEW p, p = payments[r.booking], p # None, ApplyCallback(r, key, p)
  PROVE  Handled(r, key)
<1>1. r.booking \in Bookings /\ p.booking = r.booking /\ r \in CallbackRequest
  BY RequestsAre, PaymentIs
<1> DEFINE o == r.outcome
           reconciled == p.status = "UNKNOWN"
<1>2. o \in ProviderOutcome /\ r.occurredAt \in 0 .. MaxNow
  BY <1>1 DEF CallbackRequest
<1>3. /\ AppendEvent(p.booking, o, key, r.occurredAt)
      /\ IF IsNoop(p, o)
           THEN Replay(r, key, p)
           ELSE /\ OutcomeApplies(p, o, p.resourceVersion, reconciled)
                /\ AppendRefund(p, o, key)
                /\ Record(r, key, p.status, ApplyOutcome(p, o, reconciled),
                          EventTypeForStatus(o.status))
  BY DEF ApplyCallback
<1> HIDE DEF o
<1>4. /\ LedgerGrows
      /\ \E i \in DOMAIN ledger'[p.booking] : ledger'[p.booking][i].outcome = o
                                             /\ ledger'[p.booking][i].eventId = key
      /\ \A c \in Bookings : \A i \in DOMAIN ledger[c] : ledger[c][i].eventId # key
  BY <1>1, <1>2, <1>3, AppendEventGrows, KeysArePresent DEF PaymentInv
<1>5. CASE IsNoop(p, o)
  BY <1>3, <1>4, <1>5 DEF Handled
<1>6. CASE ~IsNoop(p, o)
  <2>1. /\ OutcomeApplies(p, o, p.resourceVersion, reconciled)
        /\ AppendRefund(p, o, key)
        /\ Record(r, key, p.status, ApplyOutcome(p, o, reconciled),
                  EventTypeForStatus(o.status))
    BY <1>3, <1>6
  <2>2. reconciled \in BOOLEAN /\ key \in Keys \cup WorkerKeys
    OBVIOUS
  <2> HIDE DEF reconciled
  <2> QED BY <1>2, <1>4, <2>1, <2>2, SettlingIsHandled
<1> QED BY <1>5, <1>6

\* The part of _reconcile after an outcome is found: reported now, or found in the
\* ledger.  (reconcile_payment.py)
LEMMA ResolvingIsHandled ==
  ASSUME PaymentInv, NEW r \in Requests, NEW key \in Keys \cup WorkerKeys,
         r.scope = "ReconcilePayment",
         NEW p, p = payments[r.booking], p # None,
         NEW o \in ProviderOutcome, NEW alreadyRecorded \in BOOLEAN,
         alreadyRecorded =>
           \E i \in DOMAIN ledger[p.booking] : ledger[p.booking][i].outcome = o,
         ResolveWith(r, key, p, o, alreadyRecorded)
  PROVE  Handled(r, key)
<1>1. r.booking \in Bookings /\ p.booking = r.booking
  BY RequestsAre, PaymentIs
<1>2. CASE IsNoop(p, o)
  BY <1>2, ReplayIsHandled DEF ResolveWith
<1>3. CASE ~IsNoop(p, o)
  <2> DEFINE reconciled == p.status = "UNKNOWN"
  <2>1. /\ OutcomeApplies(p, o, r.version, reconciled)
        /\ AppendRefund(p, o, key)
        /\ Record(r, key, p.status, ApplyOutcome(p, o, reconciled),
                  EventTypeForStatus(o.status))
        /\ IF alreadyRecorded THEN UNCHANGED ledger
           ELSE AppendEvent(p.booking, o, None, now)
    BY <1>3 DEF ResolveWith
  <2>2. LedgerGrows /\ \E i \in DOMAIN ledger'[p.booking] : ledger'[p.booking][i].outcome = o
    <3>1. CASE alreadyRecorded
      <4>1. ledger' = ledger
        BY <2>1, <3>1
      <4>2. LedgerGrows
        BY <4>1 DEF LedgerGrows, PaymentInv, LedgerTyped
      <4> QED BY <3>1, <4>1, <4>2
    <3>2. CASE ~alreadyRecorded
      <4>1. now \in 0 .. MaxNow /\ LedgerTyped /\ None \in Keys \cup {None}
        BY DEF PaymentInv, TypeOK
      <4>2. AppendEvent(p.booking, o, None, now)
        BY <2>1, <3>2
      <4> HIDE DEF reconciled
      <4> QED BY ONLY <1>1, <4>1, <4>2, AppendEventGrows
    <3> QED BY <3>1, <3>2
  <2>3. reconciled \in BOOLEAN
    OBVIOUS
  <2> HIDE DEF reconciled
  <2> QED BY <2>1, <2>2, <2>3, SettlingIsHandled
<1> QED BY <1>2, <1>3

\* The time of the next attempt is a time, or there is none.
LEMMA NextDueAtIs ==
  ASSUME PaymentInv, NEW p \in Payment
  PROVE  NextDueAt(p) \in Nat \cup {None}
<1>1. now \in Nat /\ MaxNow \in Nat /\ MaxAttempts \in Nat /\ MaxDelay \in Nat
      /\ p.attempts \in Nat
  BY BackoffPositive DEF PaymentInv, TypeOK, Payment
<1>2. CASE p.attempts + 1 >= MaxAttempts
  BY <1>2 DEF NextDueAt
<1>3. CASE ~(p.attempts + 1 >= MaxAttempts)
  <2> DEFINE d == InitialDelay * 2^p.attempts
  <2>1. p.attempts \in 0 .. MaxAttempts
    BY <1>1, <1>3
  <2>2. d \in Nat
    BY <2>1, BackoffIsNumber
  <2>3. Delay(p.attempts) = IF d < MaxDelay THEN d ELSE MaxDelay
    BY DEF Delay
  <2> HIDE DEF d
  <2>4. Delay(p.attempts) \in Nat
    BY <1>1, <2>2, <2>3
  <2>5. NextDueAt(p) = UpToEnd(now + Delay(p.attempts))
    BY <1>3 DEF NextDueAt
  <2> QED BY <1>1, <2>4, <2>5 DEF UpToEnd
<1> QED BY <1>2, <1>3

\* ReconcilePayment, of an operator or of the worker.  (reconcile_payment.py)
LEMMA ReconcileIsHandled ==
  ASSUME PaymentInv, NEW r \in Requests, NEW key \in Keys \cup WorkerKeys,
         r.scope = "ReconcilePayment",
         NEW p, p = payments[r.booking], p # None, Reconcile(r, key, p)
  PROVE  Handled(r, key)
<1>1. r.booking \in Bookings /\ p \in Payment /\ WellFormed(p) /\ p.booking = r.booking
      /\ r \in ReconcileRequest
  BY RequestsAre, PaymentIs
<1> DEFINE reported ==
             [status |-> r.providerStatus, operation |-> OperationFor(p, r.providerStatus),
              reference |-> r.reference, refundReference |-> r.refundReference,
              refunded |-> r.refunded, reason |-> r.reason]
           found == ledger[p.booking][LatestFinal(p.booking, p.pendingOperation)].outcome
<1>2. \/ r.providerStatus # None /\ ResolveWith(r, key, p, reported, FALSE)
      \/ Replay(r, key, p) /\ UNCHANGED ledger
      \/ /\ CanRecordReconciliationFailure(p, r.version)
         /\ Record(r, key, p.status, RecordReconciliationFailureOf(p, NextDueAt(p)), "UNKNOWN")
         /\ UNCHANGED <<refunds, ledger>>
      \/ /\ FinalEvents(p.booking, p.pendingOperation) # {}
         /\ ResolveWith(r, key, p, found, TRUE)
  BY DEF Reconcile
<1>3. CASE r.providerStatus # None /\ ResolveWith(r, key, p, reported, FALSE)
  <2>1. OperationFor(p, r.providerStatus) \in ProviderOperation
    BY <1>1 DEF OperationFor, ProviderOperation, Payment
  <2>2. /\ r.providerStatus \in PaymentStatus
        /\ r.reference \in ProviderRefs \cup {None}
        /\ r.refundReference \in RefundRefs \cup {None}
        /\ r.refunded \in 0 .. MaxAmount \cup {None} /\ r.reason \in Reasons \cup {None}
    BY <1>1, <1>3 DEF ReconcileRequest, FinalProviderStatuses
  <2>3. reported \in ProviderOutcome
    BY <2>1, <2>2 DEF ProviderOutcome
  <2> HIDE DEF reported
  <2> QED BY <1>3, <2>3, ResolvingIsHandled
<1>4. CASE Replay(r, key, p) /\ UNCHANGED ledger
  BY <1>4, ReplayIsHandled
<1>5. CASE /\ CanRecordReconciliationFailure(p, r.version)
           /\ Record(r, key, p.status, RecordReconciliationFailureOf(p, NextDueAt(p)),
                     "UNKNOWN")
           /\ UNCHANGED <<refunds, ledger>>
  <2> DEFINE q == RecordReconciliationFailureOf(p, NextDueAt(p))
  <2>1. /\ Follows(p, q) /\ r.version = p.resourceVersion
        /\ q.status = "UNKNOWN" /\ q.refundedAmount = p.refundedAmount
    <3> DEFINE dueAt == NextDueAt(p)
    <3>1. dueAt \in Nat \cup {None}
      BY <1>1, NextDueAtIs
    <3>2. CanRecordReconciliationFailure(p, r.version)
          /\ q = RecordReconciliationFailureOf(p, dueAt)
      BY <1>5
    <3> HIDE DEF dueAt, q
    <3> QED BY ONLY <1>1, <3>1, <3>2, RetriedFollows
  <2>2. Record(r, key, p.status, q, "UNKNOWN") /\ UNCHANGED <<refunds, ledger>>
    BY <1>5
  <2> HIDE DEF q
  <2>3. Changed(r, key, p, q)
    BY <2>1, <2>2 DEF Changed, RefundsFollow, EvidenceOf, PaymentEventType
  <2>4. LedgerGrows
    BY <2>2 DEF LedgerGrows, PaymentInv, LedgerTyped
  <2> QED BY <2>3, <2>4 DEF Handled
<1>6. CASE /\ FinalEvents(p.booking, p.pendingOperation) # {}
           /\ ResolveWith(r, key, p, found, TRUE)
  <2> DEFINE i == LatestFinal(p.booking, p.pendingOperation)
  <2>1. i \in FinalEvents(p.booking, p.pendingOperation)
    BY <1>1, <1>6, LatestFinalIsFinal, BackoffPositive DEF PaymentInv
  <2>2. i \in DOMAIN ledger[p.booking] /\ ledger[p.booking][i] \in LedgerEvent
    BY <1>1, <2>1 DEF FinalEvents, PaymentInv, LedgerTyped
  <2>3. found \in ProviderOutcome /\ ledger[p.booking][i].outcome = found
    BY <2>2 DEF LedgerEvent
  <2> HIDE DEF found, i
  <2> QED BY <1>6, <2>2, <2>3, ResolvingIsHandled
<1> HIDE DEF found, reported
<1> QED BY <1>2, <1>3, <1>4, <1>5, <1>6

\* Every request, under a key of the kind its caller uses.  (common.py, run_command)
LEMMA CommandIsHandled ==
  ASSUME PaymentInv, NEW r \in Offered, NEW key \in Keys, Command(r, key)
  PROVE  Handled(r, key) /\ r \in Requests /\ UNCHANGED <<batch, now>>
<1>1. r \in Requests /\ key \in Keys \cup WorkerKeys
  BY OfferedAreRequests
<1>2. r.scope \in Scopes
  BY <1>1, RequestsAre
<1> DEFINE p == payments[r.booking]
<1>3. CASE r.scope = "CreatePayment"
  BY <1>1, <1>3, CreateIsHandled DEF Command
<1>4. CASE r.scope = "AuthorizePayment"
  BY <1>1, <1>4, AuthorizeIsHandled DEF Command
<1>5. CASE r.scope = "CapturePayment"
  BY <1>1, <1>5, CaptureIsHandled DEF Command
<1>6. CASE r.scope = "CancelPayment"
  BY <1>1, <1>6, CancelIsHandled DEF Command
<1>7. CASE r.scope = "RefundPayment"
  BY <1>1, <1>7, RefundIsHandled DEF Command
<1>8. CASE r.scope = "ReconcilePayment"
  BY <1>1, <1>8, ReconcileIsHandled DEF Command
<1>9. CASE r.scope = "HandleProviderCallback"
  BY <1>1, <1>9, CallbackIsHandled DEF Command
<1>10. UNCHANGED <<batch, now>>
  BY DEF Command
<1> QED BY <1>1, <1>2, <1>3, <1>4, <1>5, <1>6, <1>7, <1>8, <1>9, <1>10 DEF Scopes

\* The worker's reconciliation is an ordinary one.  (provider_reconciliation.py)
LEMMA ReconcileDueIsHandled ==
  ASSUME PaymentInv, NEW entry \in batch, ReconcileDue(entry)
  PROVE  /\ WorkerRequest(entry[1], entry[2]) \in Requests /\ entry \in WorkerKeys
         /\ Handled(WorkerRequest(entry[1], entry[2]), entry)
         /\ batch' \subseteq batch /\ UNCHANGED now
<1> DEFINE r == WorkerRequest(entry[1], entry[2])
<1>1. entry \in WorkerKeys /\ entry[1] \in Bookings /\ entry[2] \in Versions
  BY DEF PaymentInv, TypeOK, WorkerKeys
<1>2. r \in ReconcileRequest
  BY <1>1 DEF WorkerRequest, ReconcileRequest
<1>3. r \in Requests /\ r.scope = "ReconcilePayment" /\ r.booking = entry[1]
  BY <1>2 DEF Requests, WorkerRequest
<1>4. payments[entry[1]] # None
  BY DEF PaymentInv, BatchNamesPayments
<1>5. Reconcile(r, entry, payments[entry[1]]) /\ batch' \subseteq batch /\ UNCHANGED now
  BY DEF ReconcileDue
<1> HIDE DEF r
<1>6. Handled(r, entry)
  BY <1>1, <1>3, <1>4, <1>5, ReconcileIsHandled
<1> QED BY <1>1, <1>3, <1>5, <1>6 DEF r

-----------------------------------------------------------------------------
(* The invariant is kept. *)

VersionOf(p) == IF p = None THEN 0 ELSE p.resourceVersion
StatusOf(p) == IF p = None THEN None ELSE p.status
RefundedOf(p) == IF p = None THEN 0 ELSE p.refundedAmount

\* What Created and Changed have in common.
Recorded(r, key, q) ==
  LET p == payments[r.booking]
  IN  /\ q \in Payment /\ WellFormed(q) /\ q.booking = r.booking
      /\ q.resourceVersion = VersionOf(p) + 1
      /\ \E type \in PaymentEventType : Record(r, key, StatusOf(p), q, type)
      /\ RefundsFollow(r.booking, RefundedOf(p), q)
      /\ r.scope = "CreatePayment" => q.resourceVersion = 1
      /\ r.scope \notin {"CreatePayment", "HandleProviderCallback"} =>
           q.resourceVersion = r.version + 1
      /\ r.scope = "HandleProviderCallback" =>
           /\ \E i \in DOMAIN ledger'[r.booking] : ledger'[r.booking][i].eventId = key
           /\ \A b \in Bookings : \A i \in DOMAIN ledger[b] : ledger[b][i].eventId # key

\* A command answers from a payment, or records the payment's next version.
LEMMA HandledRecords ==
  ASSUME PaymentInv, NEW r \in Requests, NEW key, Handled(r, key)
  PROVE  /\ LedgerGrows
         /\ \/ payments[r.booking] # None /\ Replay(r, key, payments[r.booking])
            \/ \E q : Recorded(r, key, q)
<1> DEFINE p == payments[r.booking]
<1>1. r.booking \in Bookings
  BY RequestsAre
<1>2. CASE p # None /\ Replay(r, key, p)
  BY <1>2 DEF Handled
<1>3. ASSUME NEW q, Created(r, key, q) PROVE Recorded(r, key, q)
  <2>1. p = None /\ VersionOf(p) = 0 /\ StatusOf(p) = None /\ RefundedOf(p) = 0
    BY <1>3 DEF Created, VersionOf, StatusOf, RefundedOf
  <2> QED BY <1>3, <2>1 DEF Created, Recorded
<1>4. ASSUME p # None, NEW q, Changed(r, key, p, q) PROVE Recorded(r, key, q)
  <2>1. VersionOf(p) = p.resourceVersion /\ StatusOf(p) = p.status
        /\ RefundedOf(p) = p.refundedAmount
    BY <1>4 DEF VersionOf, StatusOf, RefundedOf
  <2>2. p.booking = r.booking
    BY <1>1, <1>4, PaymentIs
  <2> QED BY <1>4, <2>1, <2>2 DEF Changed, Recorded, Follows
<1> QED BY <1>2, <1>3, <1>4 DEF Handled

\* What is true of a record is true of its parts.
LEMMA RecordedIs ==
  ASSUME PaymentInv, NEW r \in Requests, NEW key \in Keys \cup WorkerKeys,
         NEW q, Recorded(r, key, q)
  PROVE  /\ q.resourceVersion <= MaxVersion
         /\ payments' = [payments EXCEPT ![r.booking] = q]
         /\ audit' = audit \cup
              {[booking |-> r.booking, version |-> q.resourceVersion, scope |-> r.scope,
                key |-> key, request |-> r, previous |-> StatusOf(payments[r.booking]),
                status |-> q.status]}
         /\ SaveReplay(r, key, q)
         /\ \E type \in PaymentEventType :
              outbox' = outbox \cup
                {[booking |-> r.booking, version |-> q.resourceVersion, type |-> type]}
  BY DEF Recorded, Record, AppendAudit

\* The record of an answer is one that the table of records may hold.  (save_replay)
LEMMA SaveReplayKeepsType ==
  ASSUME idempotency \subseteq IdempotencyRecord, now \in Nat, TTL \in Nat,
         NEW r \in Requests, NEW key \in Keys \cup WorkerKeys, NEW q \in Payment,
         SaveReplay(r, key, q)
  PROVE  idempotency' \subseteq IdempotencyRecord
<1>1. r.scope \in Scopes
  BY RequestsAre
<1> DEFINE record == [scope |-> r.scope, key |-> key, request |-> r, response |-> q,
                      expiresAt |-> now + TTL]
<1>2. record \in IdempotencyRecord
  BY <1>1 DEF IdempotencyRecord
<1>3. idempotency' = (idempotency \ RecordsOf(r.scope, key)) \cup {record}
  BY DEF SaveReplay
<1> HIDE DEF record
<1> QED BY <1>2, <1>3

\* A command keeps the types.
LEMMA HandledKeepsType ==
  ASSUME PaymentInv, NEW r \in Requests, NEW key \in Keys \cup WorkerKeys,
         Handled(r, key), batch' \subseteq batch, UNCHANGED now
  PROVE  TypeOK' /\ LedgerTyped' /\ IsFiniteSet(refunds)'
<1>1. r.booking \in Bookings /\ r.scope \in Scopes
  BY RequestsAre
<1>2. LedgerTyped'
  BY HandledRecords DEF LedgerGrows
<1>3. \A b \in Bookings : \A i \in DOMAIN ledger'[b] : ledger'[b][i] \in ProviderEvent
  <2>1. \A b \in Bookings : \A i \in DOMAIN ledger'[b] : ledger'[b][i] \in LedgerEvent
    BY <1>2 DEF LedgerTyped
  <2>2. 0 .. MaxNow \subseteq Nat
    OBVIOUS
  <2> QED BY <2>1, <2>2 DEF LedgerEvent, ProviderEvent
<1>4. /\ payments \in [Bookings -> Payment \cup {None}]
      /\ refunds \subseteq RefundRow /\ audit \subseteq AuditRow /\ outbox \subseteq OutboxEvent
      /\ idempotency \subseteq IdempotencyRecord
      /\ batch \subseteq Bookings \X Versions /\ now \in 0 .. MaxNow /\ IsFiniteSet(refunds)
      /\ now \in Nat /\ TTL \in Nat
  BY BackoffPositive DEF PaymentInv, TypeOK
<1>5. CASE payments[r.booking] # None /\ Replay(r, key, payments[r.booking])
  <2>1. payments[r.booking] \in Payment
    BY <1>1, <1>5, PaymentIs
  <2>2. idempotency' \subseteq IdempotencyRecord
    BY <1>4, <1>5, <2>1, SaveReplayKeepsType DEF Replay
  <2> QED BY <1>2, <1>3, <1>4, <1>5, <2>2 DEF Replay, TypeOK
<1>6. ASSUME NEW q, Recorded(r, key, q) PROVE TypeOK' /\ IsFiniteSet(refunds)'
  <2>1. q \in Payment /\ q.resourceVersion \in Nat \ {0} /\ q.status \in PaymentStatus
    BY <1>6 DEF Recorded, Payment
  <2>2. payments' \in [Bookings -> Payment \cup {None}]
    BY <1>4, <1>6, <2>1, RecordedIs
  <2>3. audit' \subseteq AuditRow
    <3> DEFINE previous == StatusOf(payments[r.booking])
    <3>1. previous \in PaymentStatus \cup {None}
      BY <1>1, <1>4 DEF StatusOf, Payment
    <3> HIDE DEF previous
    <3> DEFINE row == [booking |-> r.booking, version |-> q.resourceVersion, scope |-> r.scope,
                       key |-> key, request |-> r, previous |-> previous, status |-> q.status]
    <3>2. row \in AuditRow
      BY <1>1, <2>1, <3>1 DEF AuditRow
    <3>3. audit' = audit \cup {row}
      BY <1>6, RecordedIs DEF previous
    <3> HIDE DEF row
    <3> QED BY <1>4, <3>2, <3>3
  <2>4. outbox' \subseteq OutboxEvent
    BY <1>1, <1>4, <1>6, <2>1, RecordedIs DEF OutboxEvent
  <2>5. idempotency' \subseteq IdempotencyRecord
    BY <1>4, <1>6, <2>1, RecordedIs, SaveReplayKeepsType
  <2>6. refunds' \subseteq RefundRow /\ IsFiniteSet(refunds')
    BY <1>4, <1>6, FS_AddElement DEF Recorded, RefundsFollow
  <2> QED BY <1>3, <1>4, <2>2, <2>3, <2>4, <2>5, <2>6 DEF TypeOK
<1> QED BY <1>2, <1>5, <1>6, HandledRecords

\* A command keeps what is said of the payments.
LEMMA HandledKeepsPayments ==
  ASSUME PaymentInv, NEW r \in Requests, NEW key \in Keys \cup WorkerKeys,
         Handled(r, key), batch' \subseteq batch
  PROVE  PaymentsWellFormed' /\ BatchNamesPayments'
<1>1. r.booking \in Bookings
  BY RequestsAre
<1>2. payments \in [Bookings -> Payment \cup {None}] /\ PaymentsWellFormed
      /\ BatchNamesPayments /\ batch \subseteq Bookings \X Versions
  BY DEF PaymentInv, TypeOK
<1>3. CASE Replay(r, key, payments[r.booking])
  BY <1>2, <1>3 DEF Replay, PaymentsWellFormed, BatchNamesPayments
<1>4. ASSUME NEW q, Recorded(r, key, q) PROVE PaymentsWellFormed' /\ BatchNamesPayments'
  <2>1. q \in Payment /\ WellFormed(q) /\ q.booking = r.booking /\ q # None
        /\ q.resourceVersion <= MaxVersion
        /\ payments' = [payments EXCEPT ![r.booking] = q]
    BY <1>4, RecordedIs, NoneIsNoPayment DEF Recorded
  <2> QED BY <1>1, <1>2, <2>1 DEF PaymentsWellFormed, BatchNamesPayments
<1> QED BY <1>3, <1>4, HandledRecords

\* A command keeps the audit trail: its row has the version after the last one, and
\* starts where that one ended.
LEMMA HandledKeepsTrail ==
  ASSUME PaymentInv, NEW r \in Requests, NEW key \in Keys \cup WorkerKeys, Handled(r, key)
  PROVE  AuditTrail'
<1> DEFINE b == r.booking
           p == payments[b]
<1>1. b \in Bookings
  BY RequestsAre
<1>2. payments \in [Bookings -> Payment \cup {None}] /\ AuditTrail /\ AuditIsTheHistory
      /\ audit \subseteq AuditRow
  BY DEF PaymentInv, TypeOK, AuditTrail
<1>3. CASE Replay(r, key, p)
  BY <1>2, <1>3 DEF Replay, AuditTrail, AuditIsTheHistory
<1>4. ASSUME NEW q, Recorded(r, key, q) PROVE AuditTrail'
  <2> DEFINE n == VersionOf(p)
             row == [booking |-> b, version |-> q.resourceVersion, scope |-> r.scope,
                     key |-> key, request |-> r, previous |-> StatusOf(p),
                     status |-> q.status]
  <2>1. /\ q \in Payment /\ q # None /\ q.resourceVersion = n + 1
        /\ payments' = [payments EXCEPT ![b] = q]
        /\ audit' = audit \cup {row}
    BY <1>4, RecordedIs, NoneIsNoPayment DEF Recorded
  <2>2. /\ row.booking = b /\ row.version = n + 1 /\ row.previous = StatusOf(p)
        /\ row.status = q.status
    BY <2>1
  <2>3. n \in Nat
    BY <1>1, <1>2 DEF VersionOf, Payment
  <2> HIDE DEF row
  <2>4. /\ {a.version : a \in {c \in audit : c.booking = b}} = 1 .. n
        /\ \A a \in audit : a.booking = b /\ a.version = n => a.status = StatusOf(p)
    <3>1. CASE p = None
      <4>1. {c \in audit : c.booking = b} = {} /\ n = 0
        BY <1>2, <3>1 DEF AuditTrail, VersionOf
      <4>2. 1 .. n = {}
        BY <4>1
      <4> QED BY <4>1, <4>2
    <3>2. CASE p # None
      <4>1. n = p.resourceVersion /\ StatusOf(p) = p.status
        BY <3>2 DEF VersionOf, StatusOf
      <4> QED BY <1>1, <1>2, <3>2, <4>1 DEF AuditIsTheHistory
    <3> QED BY <3>1, <3>2
  <2> HIDE DEF n
  <2>5. \A a \in audit : a.booking = b => a.version \in 1 .. n
    BY <2>4
  <2>6. \A a \in audit' : payments'[a.booking] # None
    BY <1>1, <1>2, <2>1, <2>2 DEF AuditTrail, AuditRow
  <2>7. \A a, c \in audit' : a.booking = c.booking /\ a.version = c.version => a = c
    BY <1>2, <2>1, <2>2, <2>3, <2>5 DEF AuditTrail
  <2>8. AuditIsTheHistory'
    <3> SUFFICES ASSUME NEW c \in Bookings, payments'[c] # None
                 PROVE  LET rows == {a \in audit' : a.booking = c}
                        IN  /\ {a.version : a \in rows} = 1 .. payments'[c].resourceVersion
                            /\ \A a \in rows : a.version = payments'[c].resourceVersion =>
                                 a.status = payments'[c].status
                            /\ \A a, d \in rows : d.version = a.version + 1 =>
                                 d.previous = a.status
      BY DEF AuditIsTheHistory
    <3>1. CASE c # b
      <4>1. payments'[c] = payments[c]
            /\ {a \in audit' : a.booking = c} = {a \in audit : a.booking = c}
        BY <1>1, <1>2, <2>1, <2>2, <3>1
      <4> QED BY <1>2, <4>1 DEF AuditIsTheHistory
    <3>2. CASE c = b
      <4>1. payments'[c] = q
        BY <1>1, <1>2, <2>1, <3>2
      <4>2. {a.version : a \in {d \in audit' : d.booking = c}} = 1 .. n + 1
        <5>1. {a.version : a \in {d \in audit' : d.booking = c}} =
                {a.version : a \in {d \in audit : d.booking = b}} \cup {n + 1}
          BY <2>1, <2>2, <3>2
        <5>2. (1 .. n) \cup {n + 1} = 1 .. n + 1
          BY <2>3
        <5> QED BY <2>4, <5>1, <5>2
      <4>3. \A a \in audit' : a.booking = c /\ a.version = n + 1 => a.status = q.status
        BY <2>1, <2>2, <2>3, <2>5, <3>2
      <4>4. \A a, d \in audit' :
              a.booking = c /\ d.booking = c /\ d.version = a.version + 1 =>
                d.previous = a.status
        <5>1. \A a, d \in audit :
                a.booking = b /\ d.booking = b /\ d.version = a.version + 1 =>
                  d.previous = a.status
          <6>1. CASE p = None
            BY <1>2, <6>1 DEF AuditTrail
          <6>2. CASE p # None
            BY <1>1, <1>2, <6>2 DEF AuditIsTheHistory
          <6> QED BY <6>1, <6>2
        <5>2. \A a \in audit : a.booking = b /\ row.version = a.version + 1 =>
                row.previous = a.status
          BY <2>2, <2>3, <2>4, <2>5
        <5>3. \A d \in audit' : d.booking = b => d.version \in 1 .. n + 1
          BY <2>1, <2>2, <2>3, <2>5
        <5> QED BY <2>1, <2>2, <2>3, <3>2, <5>1, <5>2, <5>3
      <4> QED BY <2>1, <4>1, <4>2, <4>3, <4>4
    <3> QED BY <3>1, <3>2
  <2> QED BY <2>6, <2>7, <2>8 DEF AuditTrail
<1> QED BY <1>3, <1>4, HandledRecords

\* A command's audit row is the first of its request under its key: the version the
\* request names, or the event id in the ledger, tells them apart.
LEMMA HandledKeepsRequests ==
  ASSUME PaymentInv, NEW r \in Requests, NEW key \in Keys \cup WorkerKeys, Handled(r, key)
  PROVE  RowsNameRequests' /\ RequestTakesEffectOnce'
<1> DEFINE b == r.booking
           p == payments[b]
<1>1. b \in Bookings
  BY RequestsAre
<1>2. RowsNameRequests /\ RequestTakesEffectOnce /\ audit \subseteq AuditRow
  BY DEF PaymentInv, TypeOK
<1>3. \A a \in audit : a.booking \in Bookings
  BY <1>2 DEF AuditRow
<1>4. \A k : \A c \in Bookings :
        (\E i \in DOMAIN ledger[c] : ledger[c][i].eventId = k) =>
          \E i \in DOMAIN ledger'[c] : ledger'[c][i].eventId = k
  BY HandledRecords DEF LedgerGrows
<1>5. CASE Replay(r, key, p)
  <2>1. audit' = audit
    BY <1>5 DEF Replay
  <2> QED BY <1>2, <1>3, <1>4, <2>1 DEF RowsNameRequests, RequestTakesEffectOnce
<1>6. ASSUME NEW q, Recorded(r, key, q) PROVE RowsNameRequests' /\ RequestTakesEffectOnce'
  <2> DEFINE row == [booking |-> b, version |-> q.resourceVersion, scope |-> r.scope,
                     key |-> key, request |-> r, previous |-> StatusOf(p),
                     status |-> q.status]
  <2>1. audit' = audit \cup {row}
    BY <1>6, RecordedIs
  <2>2. /\ row.booking = b /\ row.version = q.resourceVersion /\ row.scope = r.scope
        /\ row.key = key /\ row.request = r
    OBVIOUS
  <2>3. row \in audit' /\ \A a \in audit' : a \in audit \/ a = row
    BY <2>1
  <2>4. \A a \in audit : ~(a.booking = b /\ a.version = q.resourceVersion)
    BY <1>6 DEF Recorded, Record, AppendAudit
  <2> HIDE DEF row
  <2>5. /\ r.scope = "CreatePayment" => q.resourceVersion = 1
        /\ r.scope \notin {"CreatePayment", "HandleProviderCallback"} =>
             q.resourceVersion = r.version + 1
        /\ r.scope = "HandleProviderCallback" =>
             /\ \E i \in DOMAIN ledger'[b] : ledger'[b][i].eventId = key
             /\ \A c \in Bookings : \A i \in DOMAIN ledger[c] : ledger[c][i].eventId # key
    BY <1>6 DEF Recorded
  <2>6. RowsNameRequests'
    <3>1. r.scope = row.scope /\ r.booking = row.booking /\ row.request = r
      BY <2>2
    <3>2. /\ row.request.scope = row.scope /\ row.request.booking = row.booking
          /\ row.scope = "CreatePayment" => row.version = 1
          /\ row.scope \notin {"CreatePayment", "HandleProviderCallback"} =>
               row.version = row.request.version + 1
          /\ row.scope = "HandleProviderCallback" =>
               \E i \in DOMAIN ledger'[row.booking] : ledger'[row.booking][i].eventId = row.key
      BY <2>2, <2>5, <3>1
    <3>3. ASSUME NEW a \in audit
          PROVE  /\ a.request.scope = a.scope /\ a.request.booking = a.booking
                 /\ a.scope = "CreatePayment" => a.version = 1
                 /\ a.scope \notin {"CreatePayment", "HandleProviderCallback"} =>
                      a.version = a.request.version + 1
                 /\ a.scope = "HandleProviderCallback" =>
                      \E i \in DOMAIN ledger'[a.booking] :
                        ledger'[a.booking][i].eventId = a.key
      BY <1>2, <1>3, <1>4 DEF RowsNameRequests
    <3> QED BY <2>3, <3>2, <3>3 DEF RowsNameRequests
  <2>7. \A a \in audit : ~(a.scope = r.scope /\ a.key = key /\ a.request = r)
    <3> SUFFICES ASSUME NEW a \in audit, a.scope = r.scope, a.key = key, a.request = r
                 PROVE  FALSE
      OBVIOUS
    <3>1. CASE r.scope = "HandleProviderCallback"
      BY <1>2, <1>3, <2>5, <3>1 DEF RowsNameRequests
    <3>2. CASE r.scope # "HandleProviderCallback"
      <4>1. a.booking = b /\ a.version = q.resourceVersion
        BY <1>2, <2>5, <3>2 DEF RowsNameRequests
      <4> QED BY <2>4, <4>1
    <3> QED BY <3>1, <3>2
  <2>8. RequestTakesEffectOnce'
    BY <1>2, <2>2, <2>3, <2>7 DEF RequestTakesEffectOnce
  <2> QED BY <2>6, <2>8
<1> QED BY <1>5, <1>6, HandledRecords

\* A command keeps the sums of the refunds: it adds one row, for what it adds to the
\* payment, or neither.
LEMMA HandledKeepsRefunds ==
  ASSUME PaymentInv, NEW r \in Requests, NEW key \in Keys \cup WorkerKeys, Handled(r, key)
  PROVE  RefundsAddUp' /\ RefundsNamePayments'
<1> DEFINE b == r.booking
           p == payments[b]
<1>1. b \in Bookings
  BY RequestsAre
<1>2. /\ payments \in [Bookings -> Payment \cup {None}] /\ RefundsAddUp
      /\ RefundsNamePayments /\ refunds \subseteq RefundRow /\ IsFiniteSet(refunds)
  BY DEF PaymentInv, TypeOK
<1>3. CASE Replay(r, key, p)
  BY <1>2, <1>3 DEF Replay, RefundsAddUp, RefundsNamePayments, RefundsOf
<1>4. ASSUME NEW q, Recorded(r, key, q) PROVE RefundsAddUp' /\ RefundsNamePayments'
  <2>1. /\ q \in Payment /\ q # None
        /\ payments' = [payments EXCEPT ![b] = q]
        /\ RefundsFollow(b, RefundedOf(p), q)
    BY <1>4, RecordedIs, NoneIsNoPayment DEF Recorded
  <2>2. RefundedOf(p) = Total(RefundsOf(b))
    <3>1. CASE p = None
      <4>1. RefundsOf(b) = {}
        BY <1>2, <3>1 DEF RefundsNamePayments, RefundsOf
      <4>2. Total({}) = 0
        BY TotalUnfolds, FS_EmptySet
      <4> QED BY <3>1, <4>1, <4>2 DEF RefundedOf
    <3>2. CASE p # None
      BY <1>1, <1>2, <3>2 DEF RefundedOf, RefundsAddUp
    <3> QED BY <3>1, <3>2
  <2>3. \A c \in Bookings \ {b} : payments'[c] = payments[c]
    BY <2>1, <1>2
  <2>4. payments'[b] = q
    BY <1>1, <1>2, <2>1
  <2>5. CASE refunds' = refunds /\ q.refundedAmount = RefundedOf(p)
    <3>1. \A c \in Bookings : RefundsOf(c)' = RefundsOf(c)
      BY <2>5 DEF RefundsOf
    <3>2. RefundsNamePayments'
      BY <1>2, <2>1, <2>3, <2>4, <2>5 DEF RefundsNamePayments, RefundRow
    <3>3. ASSUME NEW c \in Bookings, payments'[c] # None
          PROVE  payments'[c].refundedAmount = Total(RefundsOf(c)')
      BY <1>2, <2>2, <2>3, <2>4, <2>5, <3>1, <3>3 DEF RefundsAddUp
    <3>4. \A f, g \in refunds' : f.reference = g.reference => f = g
      BY <1>2, <2>5 DEF RefundsAddUp
    <3> QED BY <3>2, <3>3, <3>4 DEF RefundsAddUp
  <2>6. ASSUME NEW f \in RefundRow, f.booking = b,
               \A g \in refunds : g.reference # f.reference,
               refunds' = refunds \cup {f}, q.refundedAmount = RefundedOf(p) + f.amount
        PROVE  RefundsAddUp' /\ RefundsNamePayments'
    <3>1. f \notin refunds
      BY <2>6
    <3>2. \A c \in Bookings \ {b} : RefundsOf(c)' = RefundsOf(c)
      BY <2>6 DEF RefundsOf
    <3>3. RefundsOf(b)' = RefundsOf(b) \cup {f}
      BY <2>6 DEF RefundsOf
    <3>4. RefundsNamePayments'
      <4>1. \A g \in refunds' : g.booking \in Bookings
        BY <1>2, <2>6 DEF RefundRow
      <4> QED BY <1>2, <2>1, <2>3, <2>4, <2>6, <4>1 DEF RefundsNamePayments
    <3>5. Total(RefundsOf(b)') = Total(RefundsOf(b)) + f.amount
      <4> DEFINE U == refunds \cup {f}
      <4>1. IsFiniteSet(U)
        BY <1>2, FS_AddElement
      <4>2. \A g \in U : g.amount \in Nat
        BY <1>2, AmountPositive DEF RefundRow
      <4>3. RefundsOf(b) \in SUBSET U /\ f \in U \ RefundsOf(b)
        BY <3>1 DEF RefundsOf
      <4> HIDE DEF U
      <4>4. \A s \in SUBSET U : \A x \in U \ s : Total(s \cup {x}) = Total(s) + x.amount
        BY ONLY <4>1, <4>2, TotalAdds
      <4> QED BY <3>3, <4>3, <4>4
    <3>6. ASSUME NEW c \in Bookings, payments'[c] # None
          PROVE  payments'[c].refundedAmount = Total(RefundsOf(c)')
      <4>1. CASE c = b
        BY <2>2, <2>4, <2>6, <3>5, <4>1
      <4>2. CASE c # b
        BY <1>2, <2>3, <3>2, <3>6, <4>2 DEF RefundsAddUp
      <4> QED BY <4>1, <4>2
    <3>7. \A g, h \in refunds' : g.reference = h.reference => g = h
      BY <1>2, <2>6 DEF RefundsAddUp
    <3> QED BY <3>4, <3>6, <3>7 DEF RefundsAddUp
  <2> QED BY <2>1, <2>5, <2>6 DEF RefundsFollow
<1> QED BY <1>3, <1>4, HandledRecords

\* A command keeps the invariant.
LEMMA HandledKeepsInv ==
  ASSUME PaymentInv, NEW r \in Requests, NEW key \in Keys \cup WorkerKeys,
         Handled(r, key), batch' \subseteq batch, UNCHANGED now
  PROVE  PaymentInv'
BY HandledKeepsType, HandledKeepsPayments, HandledKeepsTrail, HandledKeepsRequests,
   HandledKeepsRefunds DEF PaymentInv

\* The tables and the worker's list start empty.
LEMMA InitIsFine == Init => PaymentInv
<1> SUFFICES ASSUME Init PROVE PaymentInv
  OBVIOUS
<1>1. /\ payments = [b \in Bookings |-> None] /\ refunds = {} /\ audit = {} /\ outbox = {}
      /\ idempotency = {} /\ batch = {} /\ now = 0
      /\ ledger = [b \in Bookings |-> <<>>]
  BY DEF Init
<1>2. TypeOK
  BY <1>1, BackoffPositive DEF TypeOK
<1>3. LedgerTyped
  BY <1>1 DEF LedgerTyped
<1>4. BatchNamesPayments /\ PaymentsWellFormed /\ AuditTrail
  BY <1>1 DEF BatchNamesPayments, PaymentsWellFormed, AuditTrail, AuditIsTheHistory
<1>5. RowsNameRequests /\ RequestTakesEffectOnce
  BY <1>1 DEF RowsNameRequests, RequestTakesEffectOnce
<1>6. IsFiniteSet(refunds) /\ RefundsNamePayments /\ RefundsAddUp
  BY <1>1, FS_EmptySet DEF RefundsNamePayments, RefundsAddUp
<1> QED BY <1>2, <1>3, <1>4, <1>5, <1>6 DEF PaymentInv

\* What leaves the tables alone keeps the invariant, when the worker's list still
\* names payments and the clock is in its bound.
LEMMA TablesUnchangedKeepInv ==
  ASSUME PaymentInv, UNCHANGED tables, batch' \subseteq Bookings \X Versions,
         \A entry \in batch' : payments[entry[1]] # None, now' \in 0 .. MaxNow
  PROVE  PaymentInv'
<1>1. /\ payments' = payments /\ refunds' = refunds /\ ledger' = ledger /\ audit' = audit
      /\ outbox' = outbox /\ idempotency' = idempotency
  BY DEF tables
<1>2. TypeOK'
  BY <1>1 DEF PaymentInv, TypeOK
<1>3. LedgerTyped' /\ BatchNamesPayments' /\ PaymentsWellFormed'
  BY <1>1 DEF PaymentInv, LedgerTyped, BatchNamesPayments, PaymentsWellFormed
<1>4. AuditTrail' /\ RowsNameRequests' /\ RequestTakesEffectOnce'
  BY <1>1 DEF PaymentInv, AuditTrail, AuditIsTheHistory, RowsNameRequests,
       RequestTakesEffectOnce
<1>5. IsFiniteSet(refunds)' /\ RefundsNamePayments' /\ RefundsAddUp'
  BY <1>1 DEF PaymentInv, RefundsNamePayments, RefundsAddUp, RefundsOf
<1> QED BY <1>2, <1>3, <1>4, <1>5 DEF PaymentInv

\* The worker lists payments that are there, within the bound of their versions.
LEMMA ListDueKeepsInv ==
  ASSUME PaymentInv, ListDue
  PROVE  PaymentInv'
<1>1. \A c \in Bookings : payments[c] # None =>
        payments[c].resourceVersion \in Versions
  <2>1. ASSUME NEW c \in Bookings, payments[c] # None
        PROVE  payments[c].resourceVersion \in Versions
    <3>1. payments[c] \in Payment /\ payments[c].resourceVersion <= MaxVersion
      BY <2>1 DEF PaymentInv, TypeOK, PaymentsWellFormed
    <3>2. payments[c].resourceVersion \in Nat \ {0} /\ MaxVersion \in Nat
      BY <3>1, BackoffPositive DEF Payment
    <3> QED BY <3>1, <3>2 DEF Versions
  <2> QED BY <2>1
<1>2. ASSUME NEW entry \in batch'
      PROVE  entry \in Bookings \X Versions /\ payments[entry[1]] # None
  <2>1. PICK c \in Bookings : Due(c) /\ entry = <<c, payments[c].resourceVersion>>
    BY DEF ListDue
  <2> QED BY <1>1, <2>1 DEF Due
<1>3. UNCHANGED tables /\ now' = now /\ now \in 0 .. MaxNow
  BY DEF ListDue, PaymentInv, TypeOK
<1> QED BY <1>2, <1>3, TablesUnchangedKeepInv

\* Every step keeps the invariant.
LEMMA NextKeepsInv ==
  ASSUME PaymentInv, [Next]_vars
  PROVE  PaymentInv'
<1>1. batch \subseteq Bookings \X Versions /\ now \in 0 .. MaxNow /\ BatchNamesPayments
  BY DEF PaymentInv, TypeOK
<1>2. ASSUME NEW r \in Offered, NEW key \in Keys, Command(r, key) PROVE PaymentInv'
  <2>1. Handled(r, key) /\ r \in Requests /\ batch' = batch /\ now' = now
    BY <1>2, CommandIsHandled
  <2> QED BY <2>1, HandledKeepsInv
<1>3. CASE ListDue
  BY <1>3, ListDueKeepsInv
<1>4. ASSUME NEW entry \in batch, ReconcileDue(entry) PROVE PaymentInv'
  <2> DEFINE r == WorkerRequest(entry[1], entry[2])
  <2>1. r \in Requests /\ entry \in WorkerKeys /\ Handled(r, entry) /\ batch' \subseteq batch
        /\ UNCHANGED now
    BY <1>4, ReconcileDueIsHandled
  <2> HIDE DEF r
  <2> QED BY <2>1, HandledKeepsInv
<1>5. ASSUME NEW entry \in batch, SkipDue(entry) PROVE PaymentInv'
  <2>1. UNCHANGED tables /\ now' = now /\ batch' \subseteq batch
    BY <1>5 DEF SkipDue
  <2> QED BY <1>1, <2>1, TablesUnchangedKeepInv DEF BatchNamesPayments
<1>6. CASE Tick
  <2>1. UNCHANGED tables /\ batch' = batch /\ now' \in 0 .. MaxNow
    BY <1>1, <1>6, BackoffPositive DEF Tick
  <2> QED BY <1>1, <2>1, TablesUnchangedKeepInv DEF BatchNamesPayments
<1>7. CASE UNCHANGED vars
  <2>1. UNCHANGED tables /\ batch' = batch /\ now' = now
    BY <1>7 DEF vars, tables
  <2> QED BY <1>1, <2>1, TablesUnchangedKeepInv DEF BatchNamesPayments
<1> QED BY <1>2, <1>3, <1>4, <1>5, <1>6, <1>7 DEF Next, Worker

\* The inductive invariant holds of every reachable state.
LEMMA PaymentInvHolds == Spec => []PaymentInv
<1>1. Init => PaymentInv
  BY InitIsFine
<1>2. PaymentInv /\ [Next]_vars => PaymentInv'
  BY NextKeepsInv
<1> QED BY <1>1, <1>2, PTL DEF Spec

\* Rows, refunds and audit trail of a payment tell one story: no row breaks what the
\* table's check constraints say, the audit rows are the payment's history and no
\* request took effect twice, however often it is sent, even after its idempotency
\* record has expired.  (common.py, run_command and CommandScope.record)
THEOREM RecordsAlwaysAgree == Spec => []RecordsAgree
<1>1. PaymentInv => RecordsAgree
  <2> SUFFICES ASSUME PaymentInv PROVE RecordsAgree
    OBVIOUS
  <2>1. RowsAreConsistent
    <3> SUFFICES ASSUME NEW b \in Bookings, payments[b] # None
                 PROVE  LET p == payments[b]
                        IN  /\ p.refundedAmount <= p.capturedAmount
                            /\ p.capturedAmount <= p.amount
                            /\ IF p.status = "UNKNOWN"
                                 THEN /\ None \notin {p.lastStableStatus, p.pendingOperation}
                                      /\ p.reconciliationStatus \in {"PENDING", "FAILED"}
                                 ELSE {p.lastStableStatus, p.pendingOperation} = {None}
                            /\ p.status \in {"PENDING", "AUTHORIZED", "FAILED", "CANCELLED"} =>
                                 p.capturedAmount = 0
                            /\ p.status \in CapturedOrLater => p.capturedAmount = p.amount
                            /\ p.status \in {"AUTHORIZED", "CAPTURED"} =>
                                 p.providerReference # None
                            /\ p.status = "CAPTURED" => p.refundedAmount = 0
                            /\ p.status = "PARTIALLY_REFUNDED" =>
                                 p.refundedAmount \in 1 .. p.amount - 1
                            /\ p.status = "REFUNDED" => p.refundedAmount = p.amount
                            /\ p.status = "FAILED" => p.failure # None
                            /\ p.status = "CANCELLED" => p.cancellationReason # None
      BY DEF RowsAreConsistent
    <3> DEFINE p == payments[b]
    <3>1. WellFormed(p)
      BY DEF PaymentInv, PaymentsWellFormed
    <3>2. p.status = "UNKNOWN" => None \notin {p.lastStableStatus, p.pendingOperation}
      BY <3>1, NoneIsNoPayment DEF WellFormed, Stable, PaymentStatus
    <3>3. p.status # "UNKNOWN" => Current(p) = p.status
      BY DEF Current
    <3> HIDE DEF p
    <3>4. "UNKNOWN" \notin CapturedOrLater
      BY DEF CapturedOrLater, RefundStates
    <3> QED BY <3>1, <3>2, <3>3, <3>4 DEF WellFormed, p
  <2> QED BY <2>1 DEF PaymentInv, AuditTrail, RecordsAgree
<1> QED BY <1>1, PaymentInvHolds, PTL

\* What a payment says was refunded is the sum of its refund rows, and no refund
\* reference of the provider is paid out twice, whichever of command, callback and
\* reconciliation wrote them.  (refund_payment.py, apply_refund_outcome)
THEOREM RefundsAlwaysAddUp == Spec => []RefundsAddUp
<1>1. PaymentInv => RefundsAddUp
  BY DEF PaymentInv
<1> QED BY <1>1, PaymentInvHolds, PTL

\* What a step does to a payment that is there: nothing, or a change that takes it
\* forward and settles it only by evidence.
LEMMA StepFollows ==
  ASSUME PaymentInv, [Next]_vars, NEW b \in Bookings, payments[b] # None
  PROVE  \/ payments'[b] = payments[b]
         \/ Follows(payments[b], payments'[b]) /\ EvidenceOf(payments[b], payments'[b])
<1>1. payments \in [Bookings -> Payment \cup {None}]
  BY DEF PaymentInv, TypeOK
<1>2. ASSUME NEW r \in Requests, NEW key, Handled(r, key)
      PROVE  \/ payments'[b] = payments[b]
             \/ Follows(payments[b], payments'[b]) /\ EvidenceOf(payments[b], payments'[b])
  <2> DEFINE p == payments[r.booking]
  <2>1. r.booking \in Bookings
    BY RequestsAre
  <2>2. CASE Replay(r, key, p)
    BY <2>2 DEF Replay
  <2>3. ASSUME NEW q, Created(r, key, q) PROVE payments'[b] = payments[b]
    <3>1. payments' = [payments EXCEPT ![r.booking] = q] /\ payments[r.booking] = None
      BY <2>3 DEF Created, Record
    <3> QED BY <1>1, <2>1, <3>1
  <2>4. ASSUME p # None, NEW q, Changed(r, key, p, q)
        PROVE  \/ payments'[b] = payments[b]
               \/ Follows(payments[b], payments'[b]) /\ EvidenceOf(payments[b], payments'[b])
    <3>1. p.booking = r.booking
      BY <2>1, <2>4, PaymentIs
    <3>2. payments' = [payments EXCEPT ![r.booking] = q] /\ Follows(p, q) /\ EvidenceOf(p, q)
      BY <2>4, <3>1 DEF Changed, Record, Follows
    <3> QED BY <1>1, <2>1, <3>2
  <2> QED BY <1>2, <2>2, <2>3, <2>4 DEF Handled
<1>3. ASSUME NEW r \in Offered, NEW key \in Keys, Command(r, key)
      PROVE  Handled(r, key) /\ r \in Requests
  BY <1>3, CommandIsHandled
<1>4. ASSUME NEW entry \in batch, ReconcileDue(entry)
      PROVE  \E r \in Requests : Handled(r, entry)
  BY <1>4, ReconcileDueIsHandled
<1>5. CASE UNCHANGED payments
  BY <1>5
<1> QED BY <1>2, <1>3, <1>4, <1>5 DEF Next, Worker, ListDue, SkipDue, Tick, vars, tables

\* Nothing that arrives late or again moves a payment back: captured and refunded
\* amounts never shrink, a closed payment is never written again, a provider reference
\* never changes; and only a final outcome in the ledger, of the operation that is
\* pending, settles a payment whose outcome is unknown.  (entities.py,
\* provider_outcomes.py; README: no state regression)
THEOREM PaymentsAlwaysMoveForward == Spec => PaymentsMoveForward
<1> DEFINE Onward ==
      \A b \in Bookings : payments[b] # None =>
       LET p == payments[b]
           q == payments'[b]
       IN  /\ p.status \in {"FAILED", "CANCELLED", "REFUNDED"} => q = p
           /\ q.capturedAmount >= p.capturedAmount /\ q.refundedAmount >= p.refundedAmount
           /\ p.providerReference # None => q.providerReference = p.providerReference
           /\ Current(p) # "PENDING" => Current(q) # "PENDING"
           Settled ==
      \A b \in Bookings :
       payments[b] # None /\ payments[b].status = "UNKNOWN"
         /\ payments'[b].status # "UNKNOWN" =>
       \E i \in DOMAIN ledger'[b] :
         /\ ledger'[b][i].outcome.operation = payments[b].pendingOperation
         /\ ledger'[b][i].outcome.status = payments'[b].status
<1>1. PaymentInv /\ [Next]_vars => Onward /\ Settled
  <2> SUFFICES ASSUME PaymentInv, [Next]_vars PROVE Onward /\ Settled
    OBVIOUS
  <2>1. ASSUME NEW b \in Bookings, payments[b] # None
        PROVE  payments[b].booking = b /\ payments[b].capturedAmount \in Nat
               /\ payments[b].refundedAmount \in Nat
    <3>1. payments[b] \in Payment /\ payments[b].booking = b
      BY <2>1, PaymentIs
    <3> QED BY <3>1, AmountPositive DEF Payment
  <2>2. Onward
    <3> SUFFICES ASSUME NEW b \in Bookings, payments[b] # None
                 PROVE  Forward(payments[b], payments'[b])
      BY DEF Forward
    <3>1. CASE payments'[b] = payments[b]
      BY <2>1, <3>1 DEF Forward
    <3> QED BY <3>1, StepFollows DEF Follows
  <2>3. Settled
    <3> SUFFICES ASSUME NEW b \in Bookings, payments[b] # None,
                        payments[b].status = "UNKNOWN", payments'[b].status # "UNKNOWN"
                 PROVE  \E i \in DOMAIN ledger'[b] :
                          /\ ledger'[b][i].outcome.operation = payments[b].pendingOperation
                          /\ ledger'[b][i].outcome.status = payments'[b].status
      OBVIOUS
    <3>1. payments'[b] # payments[b]
      OBVIOUS
    <3>2. EvidenceOf(payments[b], payments'[b])
      BY <3>1, StepFollows
    <3> QED BY <2>1, <3>2 DEF EvidenceOf
  <2> QED BY <2>2, <2>3
<1> HIDE DEF Onward, Settled
<1>2. Spec => [][Onward]_vars /\ [][Settled]_vars
  BY <1>1, PaymentInvHolds, PTL DEF Spec
<1> QED BY <1>2 DEF PaymentsMoveForward, NoRegression, SettledByEvidence, Onward, Settled

-----------------------------------------------------------------------------
(* The tickets of MCServices: what TicketServiceProofs proves of any tickets  *)
(* is proved of the parts "issuing" and "checkin", whatever values their      *)
(* bookings, seats and keys have. IssuingProofs and CheckInProofs are that    *)
(* module at the constants of the parts; the lemmas say that it is about the  *)
(* same steps and the same properties there.                                  *)

IssuingProofs == INSTANCE TicketServiceProofs WITH
  Bookings <- {b1, b2}, Seats <- {s1, s2}, Gates <- {}, Keys <- {k1, k2},
  IssueRequests <- {[booking |-> b1, seats |-> {s1, s2}], [booking |-> b1, seats |-> {s1}],
                    [booking |-> b2, seats |-> {s1}]},
  TTL <- 1, MaxTickets <- 3, MaxVersion <- 3, MaxScans <- 0, MaxFaults <- 0, MaxNow <- 1,
  audit <- ticketAudit, outbox <- ticketOutbox, faults <- losses, now <- ticketClock

CheckInProofs == INSTANCE TicketServiceProofs WITH
  Bookings <- {b1, b2}, Seats <- {s1, s2}, Gates <- {"west", "east"}, Keys <- {k1},
  IssueRequests <- {[booking |-> b1, seats |-> {s1}]},
  TTL <- 1, MaxTickets <- 1, MaxVersion <- 4, MaxScans <- 1, MaxFaults <- 1, MaxNow <- 2,
  audit <- ticketAudit, outbox <- ticketOutbox, faults <- losses, now <- ticketClock

\* The two are about the same behaviours.
LEMMA IssuingSpecified == IssuingProofs!Spec <=> Issuing!Spec
<1> USE DEF IssuingProofs!AllowedTransitions, IssuingProofs!CancelReason,
            IssuingProofs!Caller, IssuingProofs!Ids, IssuingProofs!IssuedTicket,
            IssuingProofs!Advanced, IssuingProofs!CheckedIn, IssuingProofs!CancelledTicket,
            IssuingProofs!WithNewQr, IssuingProofs!MayChange, IssuingProofs!Stored,
            IssuingProofs!Unused, IssuingProofs!Replays, IssuingProofs!SaveReplay,
            IssuingProofs!AuditRow, IssuingProofs!OutboxRow, IssuingProofs!Change,
            IssuingProofs!Keep, IssuingProofs!Unscanned, IssuingProofs!TicketsOfBooking,
            IssuingProofs!ActiveTicketsOfSeat, IssuingProofs!SameDefinition,
            IssuingProofs!SeatOrder, IssuingProofs!Idle, IssuingProofs!ScanKey,
            IssuingProofs!Unissued, IssuingProofs!Told, IssuingProofs!Cardinality,
            Issuing!AllowedTransitions, Issuing!CancelReason, Issuing!Caller, Issuing!Ids,
            Issuing!IssuedTicket, Issuing!Advanced, Issuing!CheckedIn,
            Issuing!CancelledTicket, Issuing!WithNewQr, Issuing!MayChange, Issuing!Stored,
            Issuing!Unused, Issuing!Replays, Issuing!SaveReplay, Issuing!AuditRow,
            Issuing!OutboxRow, Issuing!Change, Issuing!Keep, Issuing!Unscanned,
            Issuing!TicketsOfBooking, Issuing!ActiveTicketsOfSeat, Issuing!SameDefinition,
            Issuing!SeatOrder, Issuing!Idle, Issuing!ScanKey, Issuing!Unissued,
            Issuing!Told, Issuing!Cardinality
<1>1. ASSUME NEW key, NEW request
     PROVE  IssuingProofs!IssueTickets(key, request)
              <=> Issuing!IssueTickets(key, request)
  BY DEF IssuingProofs!IssueTickets, Issuing!IssueTickets
<1>2. ASSUME NEW key, NEW id, NEW expected
     PROVE  IssuingProofs!CancelTicket(key, id, expected)
              <=> Issuing!CancelTicket(key, id, expected)
  BY DEF IssuingProofs!CancelTicket, Issuing!CancelTicket
<1>3. ASSUME NEW key, NEW id, NEW expected
     PROVE  IssuingProofs!RegenerateQr(key, id, expected)
              <=> Issuing!RegenerateQr(key, id, expected)
  BY DEF IssuingProofs!RegenerateQr, Issuing!RegenerateQr
<1>4. ASSUME NEW g, NEW id, NEW qr
     PROVE  IssuingProofs!Scan(g, id, qr) <=> Issuing!Scan(g, id, qr)
  BY DEF IssuingProofs!Scan, Issuing!Scan
<1>5. ASSUME NEW g PROVE IssuingProofs!Revalidate(g) <=> Issuing!Revalidate(g)
  BY DEF IssuingProofs!Revalidate, Issuing!Revalidate
<1>6. ASSUME NEW g PROVE IssuingProofs!SignToken(g) <=> Issuing!SignToken(g)
  BY DEF IssuingProofs!SignToken, Issuing!SignToken
<1>7. ASSUME NEW g PROVE IssuingProofs!CheckInTicket(g) <=> Issuing!CheckInTicket(g)
  BY DEF IssuingProofs!CheckInTicket, Issuing!CheckInTicket
<1>8. IssuingProofs!Tick <=> Issuing!Tick
  BY DEF IssuingProofs!Tick, Issuing!Tick
<1>9. IssuingProofs!Next <=> Issuing!Next
  BY <1>1, <1>2, <1>3, <1>4, <1>5, <1>6, <1>7, <1>8 DEF IssuingProofs!Next, Issuing!Next
<1>10. IssuingProofs!Init <=> Issuing!Init
  BY DEF IssuingProofs!Init, Issuing!Init
<1>11. [IssuingProofs!Next]_(IssuingProofs!vars) <=> [Issuing!Next]_(Issuing!vars)
  BY <1>9 DEF IssuingProofs!vars, Issuing!vars
<1> QED BY <1>10, <1>11, PTL DEF IssuingProofs!Spec, Issuing!Spec

LEMMA IssuingAssumed == IssuingProofs!TicketAssumption
BY TicketAssumptions DEF IssuingProofs!TicketAssumption, IssuingProofs!TicketBounds,
     IssuingProofs!Caller, IssuingProofs!CancelReason, IssuingProofs!IsFiniteSet,
     Issuing!TicketAssumption, Issuing!TicketBounds, Issuing!Caller, Issuing!CancelReason,
     Issuing!IsFiniteSet

LEMMA IssuingStated ==
  /\ IssuingProofs!TypeOK <=> Issuing!TypeOK
  /\ IssuingProofs!OneTicketPerSeat <=> Issuing!OneTicketPerSeat
  /\ IssuingProofs!IssuedTogether <=> Issuing!IssuedTogether
  /\ IssuingProofs!EffectOncePerRequest <=> Issuing!EffectOncePerRequest
  /\ IssuingProofs!AuditIsTheHistory <=> Issuing!AuditIsTheHistory
<1> USE DEF IssuingProofs!Ids, IssuingProofs!Caller, IssuingProofs!CancelReason,
            Issuing!Ids, Issuing!Caller, Issuing!CancelReason
<1>1. IssuingProofs!TypeOK <=> Issuing!TypeOK
  BY DEF IssuingProofs!TypeOK, IssuingProofs!Ticket, IssuingProofs!Statuses,
         IssuingProofs!StateConsistent, IssuingProofs!IsIdempotencyRecord,
         IssuingProofs!IsAuditRow, IssuingProofs!IsOutboxEvent, IssuingProofs!Scopes,
         Issuing!TypeOK, Issuing!Ticket, Issuing!Statuses, Issuing!StateConsistent,
         Issuing!IsIdempotencyRecord, Issuing!IsAuditRow, Issuing!IsOutboxEvent,
         Issuing!Scopes
<1>2. IssuingProofs!OneTicketPerSeat <=> Issuing!OneTicketPerSeat
  BY DEF IssuingProofs!OneTicketPerSeat, Issuing!OneTicketPerSeat
<1>3. IssuingProofs!IssuedTogether <=> Issuing!IssuedTogether
  BY DEF IssuingProofs!IssuedTogether, IssuingProofs!TicketsOfBooking,
         Issuing!IssuedTogether, Issuing!TicketsOfBooking
<1>4. IssuingProofs!EffectOncePerRequest <=> Issuing!EffectOncePerRequest
  BY DEF IssuingProofs!EffectOncePerRequest, Issuing!EffectOncePerRequest
<1>5. IssuingProofs!AuditIsTheHistory <=> Issuing!AuditIsTheHistory
  BY DEF IssuingProofs!AuditIsTheHistory, IssuingProofs!Cardinality,
         Issuing!AuditIsTheHistory, Issuing!Cardinality
<1> QED BY <1>1, <1>2, <1>3, <1>4, <1>5

\* Issuing, cancelling and issuing again, by two bookings that want one seat and under two
\* keys, leaves a seat at most one ticket that is not cancelled, a booking all or none of its
\* tickets, a request one effect, and a ticket its whole history: TicketsAreUnique, the
\* property of the run, whatever the bookings, the seats and the keys are.
THEOREM IssuedTicketsStayUnique == Parts => []TicketsAreUnique
<1>1. Parts /\ part = "issuing" => Issuing!Spec
  <2>1. PartsInit /\ part = "issuing" => Issuing!Init
    BY DEF PartsInit
  <2>2. part = "issuing" /\ [PartsNext]_<<part, vars, ticketVars, schemaVars>>
          => (part = "issuing")' /\ [Issuing!Next]_(Issuing!vars)
    BY DEF PartsNext, ticketVars, Issuing!vars
  <2> QED BY <2>1, <2>2, PTL DEF Parts, Issuing!Spec
<1>2. Parts /\ ~(part = "issuing") => []~(part = "issuing")
  <2>1. ~(part = "issuing") /\ [PartsNext]_<<part, vars, ticketVars, schemaVars>>
          => (~(part = "issuing"))'
    BY DEF PartsNext
  <2> QED BY <2>1, PTL DEF Parts
<1>3. IssuingProofs!Spec => []IssuingProofs!TypeOK
  BY IssuingAssumed, IssuingProofs!TypeCorrect
<1>4. IssuingProofs!Spec
        => [](IssuingProofs!OneTicketPerSeat /\ IssuingProofs!IssuedTogether
                /\ IssuingProofs!EffectOncePerRequest)
  BY IssuingAssumed, IssuingProofs!TicketsStayUnique
<1>5. IssuingProofs!Spec => []IssuingProofs!AuditIsTheHistory
  BY IssuingAssumed, IssuingProofs!HistoryIsComplete
<1>6. /\ Issuing!TypeOK /\ Issuing!OneTicketPerSeat /\ Issuing!IssuedTogether
      /\ Issuing!EffectOncePerRequest /\ Issuing!AuditIsTheHistory
      => TicketsAreUnique
  BY DEF TicketsAreUnique
<1>7. ~(part = "issuing") => TicketsAreUnique
  BY DEF TicketsAreUnique
<1> QED BY <1>1, <1>2, <1>3, <1>4, <1>5, <1>6, <1>7, IssuingSpecified, IssuingStated, PTL

\* The two are about the same behaviours.
LEMMA CheckInSpecified == CheckInProofs!Spec <=> CheckIn!Spec
<1> USE DEF CheckInProofs!AllowedTransitions, CheckInProofs!CancelReason,
            CheckInProofs!Caller, CheckInProofs!Ids, CheckInProofs!IssuedTicket,
            CheckInProofs!Advanced, CheckInProofs!CheckedIn, CheckInProofs!CancelledTicket,
            CheckInProofs!WithNewQr, CheckInProofs!MayChange, CheckInProofs!Stored,
            CheckInProofs!Unused, CheckInProofs!Replays, CheckInProofs!SaveReplay,
            CheckInProofs!AuditRow, CheckInProofs!OutboxRow, CheckInProofs!Change,
            CheckInProofs!Keep, CheckInProofs!Unscanned, CheckInProofs!TicketsOfBooking,
            CheckInProofs!ActiveTicketsOfSeat, CheckInProofs!SameDefinition,
            CheckInProofs!SeatOrder, CheckInProofs!Idle, CheckInProofs!ScanKey,
            CheckInProofs!Unissued, CheckInProofs!Told, CheckInProofs!Cardinality,
            CheckIn!AllowedTransitions, CheckIn!CancelReason, CheckIn!Caller, CheckIn!Ids,
            CheckIn!IssuedTicket, CheckIn!Advanced, CheckIn!CheckedIn,
            CheckIn!CancelledTicket, CheckIn!WithNewQr, CheckIn!MayChange, CheckIn!Stored,
            CheckIn!Unused, CheckIn!Replays, CheckIn!SaveReplay, CheckIn!AuditRow,
            CheckIn!OutboxRow, CheckIn!Change, CheckIn!Keep, CheckIn!Unscanned,
            CheckIn!TicketsOfBooking, CheckIn!ActiveTicketsOfSeat, CheckIn!SameDefinition,
            CheckIn!SeatOrder, CheckIn!Idle, CheckIn!ScanKey, CheckIn!Unissued,
            CheckIn!Told, CheckIn!Cardinality
<1>1. ASSUME NEW key, NEW request
     PROVE  CheckInProofs!IssueTickets(key, request)
              <=> CheckIn!IssueTickets(key, request)
  BY DEF CheckInProofs!IssueTickets, CheckIn!IssueTickets
<1>2. ASSUME NEW key, NEW id, NEW expected
     PROVE  CheckInProofs!CancelTicket(key, id, expected)
              <=> CheckIn!CancelTicket(key, id, expected)
  BY DEF CheckInProofs!CancelTicket, CheckIn!CancelTicket
<1>3. ASSUME NEW key, NEW id, NEW expected
     PROVE  CheckInProofs!RegenerateQr(key, id, expected)
              <=> CheckIn!RegenerateQr(key, id, expected)
  BY DEF CheckInProofs!RegenerateQr, CheckIn!RegenerateQr
<1>4. ASSUME NEW g, NEW id, NEW qr
     PROVE  CheckInProofs!Scan(g, id, qr) <=> CheckIn!Scan(g, id, qr)
  BY DEF CheckInProofs!Scan, CheckIn!Scan
<1>5. ASSUME NEW g PROVE CheckInProofs!Revalidate(g) <=> CheckIn!Revalidate(g)
  BY DEF CheckInProofs!Revalidate, CheckIn!Revalidate
<1>6. ASSUME NEW g PROVE CheckInProofs!SignToken(g) <=> CheckIn!SignToken(g)
  BY DEF CheckInProofs!SignToken, CheckIn!SignToken
<1>7. ASSUME NEW g PROVE CheckInProofs!CheckInTicket(g) <=> CheckIn!CheckInTicket(g)
  BY DEF CheckInProofs!CheckInTicket, CheckIn!CheckInTicket
<1>8. CheckInProofs!Tick <=> CheckIn!Tick
  BY DEF CheckInProofs!Tick, CheckIn!Tick
<1>9. CheckInProofs!Next <=> CheckIn!Next
  BY <1>1, <1>2, <1>3, <1>4, <1>5, <1>6, <1>7, <1>8 DEF CheckInProofs!Next, CheckIn!Next
<1>10. CheckInProofs!Init <=> CheckIn!Init
  BY DEF CheckInProofs!Init, CheckIn!Init
<1>11. [CheckInProofs!Next]_(CheckInProofs!vars) <=> [CheckIn!Next]_(CheckIn!vars)
  BY <1>9 DEF CheckInProofs!vars, CheckIn!vars
<1> QED BY <1>10, <1>11, PTL DEF CheckInProofs!Spec, CheckIn!Spec

LEMMA CheckInAssumed == CheckInProofs!TicketAssumption
BY TicketAssumptions DEF CheckInProofs!TicketAssumption, CheckInProofs!TicketBounds,
     CheckInProofs!Caller, CheckInProofs!CancelReason, CheckInProofs!IsFiniteSet,
     CheckIn!TicketAssumption, CheckIn!TicketBounds, CheckIn!Caller, CheckIn!CancelReason,
     CheckIn!IsFiniteSet

LEMMA CheckInStated ==
  /\ CheckInProofs!TypeOK <=> CheckIn!TypeOK
  /\ CheckInProofs!CheckInIsCurrent <=> CheckIn!CheckInIsCurrent
<1> USE DEF CheckInProofs!Ids, CheckInProofs!Caller, CheckInProofs!CancelReason,
            CheckIn!Ids, CheckIn!Caller, CheckIn!CancelReason
<1>1. CheckInProofs!TypeOK <=> CheckIn!TypeOK
  BY DEF CheckInProofs!TypeOK, CheckInProofs!Ticket, CheckInProofs!Statuses,
         CheckInProofs!StateConsistent, CheckInProofs!IsIdempotencyRecord,
         CheckInProofs!IsAuditRow, CheckInProofs!IsOutboxEvent, CheckInProofs!Scopes,
         CheckIn!TypeOK, CheckIn!Ticket, CheckIn!Statuses, CheckIn!StateConsistent,
         CheckIn!IsIdempotencyRecord, CheckIn!IsAuditRow, CheckIn!IsOutboxEvent,
         CheckIn!Scopes
<1>2. CheckInProofs!CheckInIsCurrent <=> CheckIn!CheckInIsCurrent
  BY DEF CheckInProofs!CheckInIsCurrent, CheckInProofs!CheckInsOf, CheckIn!CheckInIsCurrent,
         CheckIn!CheckInsOf
<1> QED BY <1>1, <1>2

\* Whatever is cancelled, regenerated, lost or called again between a scan and its check-in,
\* a gate admits on a checked-in ticket only, and the ticket was checked in with its newest
\* QR code: CheckInIsCurrent, the property of the run.
THEOREM ScannedCheckInsStayCurrent == Parts => []CheckInIsCurrent
<1>1. Parts /\ part = "checkin" => CheckIn!Spec
  <2>1. PartsInit /\ part = "checkin" => CheckIn!Init
    BY DEF PartsInit
  <2>2. part = "checkin" /\ [PartsNext]_<<part, vars, ticketVars, schemaVars>>
          => (part = "checkin")' /\ [CheckIn!Next]_(CheckIn!vars)
    BY DEF PartsNext, ticketVars, CheckIn!vars
  <2> QED BY <2>1, <2>2, PTL DEF Parts, CheckIn!Spec
<1>2. Parts /\ ~(part = "checkin") => []~(part = "checkin")
  <2>1. ~(part = "checkin") /\ [PartsNext]_<<part, vars, ticketVars, schemaVars>>
          => (~(part = "checkin"))'
    BY DEF PartsNext
  <2> QED BY <2>1, PTL DEF Parts
<1>3. CheckInProofs!Spec => []CheckInProofs!TypeOK
  BY CheckInAssumed, CheckInProofs!TypeCorrect
<1>4. CheckInProofs!Spec => []CheckInProofs!CheckInIsCurrent
  BY CheckInAssumed, CheckInProofs!CheckInsStayCurrent
<1>5. CheckIn!TypeOK /\ CheckIn!CheckInIsCurrent => CheckInIsCurrent
  BY DEF CheckInIsCurrent
<1>6. ~(part = "checkin") => CheckInIsCurrent
  BY DEF CheckInIsCurrent
<1> QED BY <1>1, <1>2, <1>3, <1>4, <1>5, <1>6, CheckInSpecified, CheckInStated, PTL
=============================================================================
