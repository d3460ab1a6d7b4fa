--------------------------- MODULE PaymentService ---------------------------
(***************************************************************************)
(* Payment Service: the commands, the provider callback, the ledger of     *)
(* provider events and the reconciliation worker around the payment        *)
(* aggregate.                                                              *)
(*                                                                         *)
(* A command is one transaction and one action: run_command takes the      *)
(* advisory lock of (scope, key), the handler locks the payment's row.  A  *)
(* command that raises rolls everything back, and a replay writes nothing: *)
(* those are stuttering steps.  A booking has at most one payment          *)
(* (uq_payment_booking), so a payment is named by its booking.             *)
(***************************************************************************)
EXTENDS PaymentAggregate, Sequences, SequencesExt

CONSTANTS
  Keys,            \* idempotency keys of callers; event ids of callbacks
  Offered,         \* the requests callers and the provider make
  MockReference,   \* _reference: the mock provider's reference by booking and operation
  DefaultReason,   \* the reason filled in where a caller gives none
  TTL,             \* idempotency_ttl_seconds
  MaxAttempts,     \* provider_reconciliation_max_attempts
  InitialDelay,    \* provider_reconciliation_initial_delay_seconds
  MaxDelay,        \* provider_reconciliation_max_delay_seconds
  MaxVersion,      \* bound on resource_version
  LastRequestAt,   \* bound: callers and the provider are silent after this time
  MaxNow           \* bound on the clock

Versions == 1 .. MaxVersion
Scopes == {"CreatePayment", "AuthorizePayment", "CapturePayment", "CancelPayment",
           "RefundPayment", "ReconcilePayment", "HandleProviderCallback"}

CreateRequest ==
  [scope : {"CreatePayment"}, booking : Bookings, amount : 1 .. MaxAmount,
   scenario : Scenarios]

\* approved and providerStatus are two spellings of one field; the requests
\* are those _validate_request accepts.
AuthorizeRequest ==
  [scope : {"AuthorizePayment"}, booking : Bookings, version : Versions,
   providerStatus : {None, "AUTHORIZED", "FAILED", "UNKNOWN"},
   reference : ProviderRefs \cup {None}, reason : Reasons \cup {None}]

CaptureRequest ==
  [scope : {"CapturePayment"}, booking : Bookings, version : Versions,
   providerStatus : {None, "CAPTURED", "FAILED", "UNKNOWN"},
   reference : ProviderRefs \cup {None}, reason : Reasons \cup {None}]

CancelRequest ==
  [scope : {"CancelPayment"}, booking : Bookings, version : Versions,
   providerStatus : {None, "CANCELLED", "UNKNOWN"},
   reference : ProviderRefs \cup {None}, reason : Reasons]

RefundRequest ==
  {r \in [scope : {"RefundPayment"}, booking : Bookings, version : Versions,
          providerStatus : {None, "UNKNOWN"} \cup RefundStates, amount : 1 .. MaxAmount,
          refundReference : RefundRefs \cup {None}, reason : Reasons] :
     r.providerStatus # "UNKNOWN" => r.refundReference # None}

ReconcileRequest ==
  [scope : {"ReconcilePayment"}, booking : Bookings, version : Versions,
   providerStatus : FinalProviderStatuses \cup {None},
   reference : ProviderRefs \cup {None}, refundReference : RefundRefs \cup {None},
   refunded : 0 .. MaxAmount \cup {None}, reason : Reasons \cup {None}]

CallbackRequest ==
  [scope : {"HandleProviderCallback"}, booking : Bookings,
   outcome : ProviderOutcome, amount : 1 .. MaxAmount \cup {None},
   occurredAt : 0 .. MaxNow]

Requests == UNION {CreateRequest, AuthorizeRequest, CaptureRequest, CancelRequest,
                   RefundRequest, ReconcileRequest, CallbackRequest}

ASSUME OfferedAreRequests == \A r \in Offered : r \in Requests
ASSUME BackoffPositive ==
  /\ {TTL, MaxAttempts, InitialDelay, MaxDelay, MaxVersion} \subseteq Nat \ {0}
  /\ MaxNow \in Nat /\ LastRequestAt \in 0 .. MaxNow
\* Arithmetic, spelled out for the provers, which know nothing of powers.
ASSUME BackoffIsNumber == \A n \in 0 .. MaxAttempts : InitialDelay * 2^n \in Nat
ASSUME KeysArePresent == None \notin Keys
ASSUME MockReferencesDistinct ==
  /\ DefaultReason \in Reasons
  /\ MockReference \in [Bookings \X {"AUTHORIZE", "CAPTURE"} -> ProviderRefs]
  /\ \A x, y \in DOMAIN MockReference : MockReference[x] = MockReference[y] => x = y

VARIABLES
  payments,      \* table payments, by booking
  refunds,       \* table refunds
  ledger,        \* table provider_events, by booking, in order of receipt
  audit,         \* table payment_audit
  outbox,        \* table outbox_events
  idempotency,   \* table idempotency_records
  batch,         \* what the reconciliation worker listed and has not handled
  now            \* the database clock

tables == <<payments, refunds, ledger, audit, outbox, idempotency>>
vars == <<payments, refunds, ledger, audit, outbox, idempotency, batch, now>>

\* The key of the worker's reconciliation: f"reconcile-{payment_id}-{version}".
WorkerKeys == Bookings \X Versions

RefundRow ==
  [booking : Bookings, reference : RefundRefs, amount : 1 .. MaxAmount,
   reason : Reasons, key : Keys \cup WorkerKeys]

\* A provider event: the outcome it reports, the id a callback gave it and
\* the time the provider says it happened.
ProviderEvent ==
  [outcome : ProviderOutcome, eventId : Keys \cup {None}, occurredAt : Nat]

AuditRow ==
  [booking : Bookings, version : Nat \ {0}, scope : Scopes, key : Keys \cup WorkerKeys,
   request : Requests, previous : PaymentStatus \cup {None}, status : PaymentStatus]

PaymentEventType == {"CREATED", "AUTHORIZED", "SUCCEEDED", "UNKNOWN", "FAILED",
                     "CANCELLED", "REFUNDED"}

OutboxEvent == [booking : Bookings, version : Nat \ {0}, type : PaymentEventType]

IdempotencyRecord ==
  [scope : Scopes, key : Keys \cup WorkerKeys, request : Requests, response : Payment,
   expiresAt : Nat]

TypeOK ==
  /\ payments \in [Bookings -> Payment \cup {None}]
  /\ refunds \subseteq RefundRow
  /\ \A b \in Bookings : \A i \in DOMAIN ledger[b] : ledger[b][i] \in ProviderEvent
  /\ audit \subseteq AuditRow
  /\ outbox \subseteq OutboxEvent
  /\ idempotency \subseteq IdempotencyRecord
  /\ batch \subseteq Bookings \X Versions
  /\ now \in 0 .. MaxNow

Init ==
  /\ payments = [b \in Bookings |-> None]
  /\ refunds = {}
  /\ ledger = [b \in Bookings |-> <<>>]
  /\ audit = {}
  /\ outbox = {}
  /\ idempotency = {}
  /\ batch = {}
  /\ now = 0

-----------------------------------------------------------------------------
(* The transaction around a command. *)

RecordsOf(scope, key) == {i \in idempotency : i.scope = scope /\ i.key = key}

\* replay_or_lock returns None: no record, or an expired one, which is deleted.
NothingToReplay(scope, key) == \A i \in RecordsOf(scope, key) : i.expiresAt <= now

SaveReplay(r, key, p) ==
  idempotency' = (idempotency \ RecordsOf(r.scope, key)) \cup
    {[scope |-> r.scope, key |-> key, request |-> r, response |-> p,
      expiresAt |-> now + TTL]}

\* CommandScope.replay: the payment stays, the key gets its answer.
Replay(r, key, p) ==
  /\ SaveReplay(r, key, p)
  /\ UNCHANGED <<payments, refunds, audit, outbox>>

EventTypeForStatus(status) ==
  CASE status = "CAPTURED"     -> "SUCCEEDED"
    [] status \in RefundStates -> "REFUNDED"
    [] OTHER                   -> status

\* Mutation: the previous status is read after the command was applied.
AuditsAfterwards(r, key, previous, p) ==
  audit' = audit \cup
    {[booking |-> p.booking, version |-> p.resourceVersion, scope |-> r.scope,
      key |-> key, request |-> r, previous |-> p.status, status |-> p.status]}

\* append_audit: uq_payment_audit_version refuses a second row of a version.
AppendAudit(r, key, previous, p) ==
  /\ \A a \in audit : ~(a.booking = p.booking /\ a.version = p.resourceVersion)
  /\ audit' = audit \cup
       {[booking |-> p.booking, version |-> p.resourceVersion, scope |-> r.scope,
         key |-> key, request |-> r, previous |-> previous, status |-> p.status]}

\* ensure_payment_provider_reference_available, and uq_payment_provider_reference
\* behind it.
ReferenceAvailable(p, reference) ==
  reference # None => \A b \in Bookings :
    payments[b] # None /\ payments[b].providerReference = reference => b = p.booking

\* CommandScope.record, with the payment's row it follows.
Record(r, key, previous, p, eventType) ==
  /\ p.resourceVersion <= MaxVersion
  /\ ReferenceAvailable(p, p.providerReference)
  /\ payments' = [payments EXCEPT ![p.booking] = p]
  /\ AppendAudit(r, key, previous, p)
  /\ outbox' = outbox \cup
       {[booking |-> p.booking, version |-> p.resourceVersion, type |-> eventType]}
  /\ SaveReplay(r, key, p)

\* record_outcome_event: event_id is the table's primary key.
AppendEvent(b, outcome, eventId, occurredAt) ==
  /\ eventId # None => \A c \in Bookings : \A i \in DOMAIN ledger[c] :
                         ledger[c][i].eventId # eventId
  /\ ledger' = [ledger EXCEPT ![b] = Append(@, [outcome |-> outcome, eventId |-> eventId,
                                                occurredAt |-> occurredAt])]

UnknownOutcome(operation, reference, reason) ==
  [status |-> "UNKNOWN", operation |-> operation, reference |-> reference,
   refundReference |-> None, refunded |-> None, reason |-> reason]

\* The unknown branch of every command: mark_unknown, the UNKNOWN marker in
\* the ledger behind what is already there, and the record.
MarkUnknown(r, key, p, operation, reference, reason, committed) ==
  LET marker == [outcome |-> UnknownOutcome(operation, reference, reason),
                 eventId |-> None, occurredAt |-> now]
  IN  /\ CanMarkUnknown(p, operation, reference, r.version)
      /\ Record(r, key, p.status, MarkUnknownOf(p, operation, reference, now), "UNKNOWN")
      /\ ledger' = [ledger EXCEPT ![p.booking] = @ \o committed \o <<marker>>]
      /\ UNCHANGED refunds

\* guard_refund_outcome, beside the reference check CanApplyOutcome makes.
RefundReferenceFits(p, o) ==
  o.status \in RefundStates =>
    \A f \in refunds : f.reference = o.refundReference =>
      f.booking = p.booking /\ o.refunded = p.refundedAmount

\* apply_provider_outcome does not raise.
OutcomeApplies(p, o, version, reconciled) ==
  /\ OutcomeIsNormal(o)
  /\ ReferenceAvailable(p, o.reference)
  /\ RefundReferenceFits(p, o)
  /\ CanApplyOutcome(p, o, version, reconciled)

\* Mutation: the row keeps what was refunded so far, not what this refund added.
AppendsTheTotal(p, o, key) ==
  IF o.status \notin RefundStates THEN UNCHANGED refunds
  ELSE /\ \A f \in refunds : f.reference # o.refundReference /\
                             ~(f.booking = p.booking /\ f.key = key)
       /\ refunds' = refunds \cup
            {[booking |-> p.booking, reference |-> o.refundReference, amount |-> o.refunded,
              reason |-> IF o.reason # None THEN o.reason ELSE DefaultReason,
              key |-> key]}

\* append_refund for the refund apply_provider_outcome returned.
\* uq_refund_payment_key and uq_refund_provider_reference are the guards.
AppendRefund(p, o, key) ==
  IF o.status \notin RefundStates THEN UNCHANGED refunds
  ELSE /\ \A f \in refunds : f.reference # o.refundReference /\
                             ~(f.booking = p.booking /\ f.key = key)
       /\ refunds' = refunds \cup
            {[booking |-> p.booking, reference |-> o.refundReference,
              amount |-> o.refunded - p.refundedAmount,
              reason |-> IF o.reason # None THEN o.reason ELSE DefaultReason,
              key |-> key]}

\* The outcome a command's caller reports, or the mock provider's.
CommandOutcome(p, r, operation, success) ==
  LET reported == [status |-> r.providerStatus, operation |-> operation,
                   reference |-> r.reference, refundReference |-> None, refunded |-> None,
                   reason |-> IF r.providerStatus = "FAILED" /\ r.reason = None
                                THEN DefaultReason ELSE r.reason]
      reference == IF operation = "CAPTURE" /\ p.providerReference # None
                     THEN p.providerReference ELSE MockReference[p.booking, operation]
      mock == [reported EXCEPT
                 !.reference = reference,
                 !.status    = IF p.scenario = "DECLINE" THEN "FAILED" ELSE success,
                 !.reason    = IF p.scenario = "DECLINE" THEN DefaultReason ELSE None]
  IN  IF r.providerStatus = None THEN mock ELSE reported

\* The caller reported an outcome the mock gateway or _outcome does not refuse.
CommandOutcomeValid(p, r, success) ==
  IF r.providerStatus = None THEN p.scenario # "MANUAL"
  ELSE r.providerStatus = success => r.reference # None /\ r.reason = None

\* The tail of AuthorizePayment, CapturePayment and CancelPayment.
ApplyCommandOutcome(r, key, p, o) ==
  /\ ~NoopConflicts(p, o)
  /\ IF IsNoop(p, o)
       THEN Replay(r, key, p) /\ UNCHANGED ledger
       ELSE /\ OutcomeApplies(p, o, r.version, FALSE)
            /\ AppendEvent(p.booking, o, None, now)
            /\ Record(r, key, p.status, ApplyOutcome(p, o, FALSE),
                      EventTypeForStatus(o.status))
            /\ UNCHANGED refunds

-----------------------------------------------------------------------------
(* The commands. *)

Create(r, key) ==
  LET p == payments[r.booking]
  IN  IF p = None
        THEN /\ Record(r, key, None, NewPayment(r.booking, r.amount, r.scenario), "CREATED")
             /\ UNCHANGED <<refunds, ledger>>
        ELSE /\ p.amount = r.amount /\ p.scenario = r.scenario
             /\ Replay(r, key, p)
             /\ UNCHANGED ledger

Authorize(r, key, p) ==
  IF r.providerStatus = "UNKNOWN"
    THEN MarkUnknown(r, key, p, "AUTHORIZE", r.reference,
                     IF r.reason # None THEN r.reason ELSE DefaultReason, <<>>)
    ELSE /\ CommandOutcomeValid(p, r, "AUTHORIZED")
         /\ ApplyCommandOutcome(r, key, p, CommandOutcome(p, r, "AUTHORIZE", "AUTHORIZED"))

\* The mock provider's TIMEOUT: it captures, and its answer is lost.  The
\* event is kept, the payment waits.
CaptureTimesOut(p, r) == r.providerStatus = None /\ p.scenario = "TIMEOUT"

Capture(r, key, p) ==
  LET o == CommandOutcome(p, r, "CAPTURE", "CAPTURED")
  IN  \/ /\ r.providerStatus = "UNKNOWN"
         /\ MarkUnknown(r, key, p, "CAPTURE", r.reference,
                        IF r.reason # None THEN r.reason ELSE DefaultReason, <<>>)
      \/ /\ CaptureTimesOut(p, r)
         /\ MarkUnknown(r, key, p, "CAPTURE", o.reference, DefaultReason,
                        <<[outcome |-> o, eventId |-> None, occurredAt |-> now]>>)
      \/ /\ r.providerStatus # "UNKNOWN" /\ ~CaptureTimesOut(p, r)
         /\ CommandOutcomeValid(p, r, "CAPTURED")
         /\ ApplyCommandOutcome(r, key, p, o)

Cancel(r, key, p) ==
  IF r.providerStatus = "UNKNOWN"
    THEN MarkUnknown(r, key, p, "CANCEL", r.reference, r.reason, <<>>)
    ELSE ApplyCommandOutcome(r, key, p,
           [status |-> "CANCELLED", operation |-> "CANCEL", reference |-> r.reference,
            refundReference |-> None, refunded |-> None, reason |-> r.reason])

\* The row that already carries the provider's refund reference.
SameReference(r) == {f \in refunds : f.reference = r.refundReference}

Refund(r, key, p) ==
  LET o == [status |-> RefundTarget(p, r.amount), operation |-> "REFUND",
            reference |-> p.providerReference, refundReference |-> r.refundReference,
            refunded |-> p.refundedAmount + r.amount, reason |-> r.reason]
  IN  \/ /\ r.providerStatus = "UNKNOWN"
         /\ MarkUnknown(r, key, p, "REFUND", p.providerReference, r.reason, <<>>)
      \/ /\ r.providerStatus # "UNKNOWN"
         /\ SameReference(r) # {}
         /\ \A f \in SameReference(r) :
              f.booking = p.booking /\ f.amount = r.amount /\ f.reason = r.reason
         /\ Replay(r, key, p)
         /\ UNCHANGED ledger
      \/ /\ r.providerStatus # "UNKNOWN"
         /\ SameReference(r) = {}
         /\ CanRefund(p, r.amount, r.version, FALSE)
         /\ r.providerStatus \in {None, o.status}
         /\ AppendRefund(p, o, key)
         /\ AppendEvent(p.booking, o, None, now)
         /\ Record(r, key, p.status, RefundOf(p, r.amount, FALSE), "REFUNDED")

\* _assert_money_matches and _assert_operation_matches_unknown
CallbackFits(p, r) ==
  /\ r.amount \in {None, p.amount}
  /\ p.status = "UNKNOWN" => p.pendingOperation = r.outcome.operation

\* The event id is the idempotency key of a callback.
ApplyCallback(r, key, p) ==
  LET o == r.outcome
      reconciled == p.status = "UNKNOWN"
  IN  /\ CallbackFits(p, r)
      /\ OutcomeIsNormal(o)
      /\ AppendEvent(p.booking, o, key, r.occurredAt)
      /\ ~NoopConflicts(p, o)
      /\ IF IsNoop(p, o)
           THEN Replay(r, key, p)
           ELSE /\ OutcomeApplies(p, o, p.resourceVersion, reconciled)
                /\ AppendRefund(p, o, key)
                /\ Record(r, key, p.status, ApplyOutcome(p, o, reconciled),
                          EventTypeForStatus(o.status))

-----------------------------------------------------------------------------
(* Reconciliation. *)

\* _operation_for
OperationFor(p, status) ==
  IF p.pendingOperation # None THEN p.pendingOperation
  ELSE CASE status = "AUTHORIZED"   -> "AUTHORIZE"
         [] status = "CANCELLED"    -> "CANCEL"
         [] status \in RefundStates -> "REFUND"
         [] OTHER                   -> "CAPTURE"

\* latest_final_provider_event: the final outcomes of the operation.
FinalEvents(b, operation) ==
  {i \in DOMAIN ledger[b] : /\ ledger[b][i].outcome.status \in FinalProviderStatuses
                            /\ ledger[b][i].outcome.operation = operation}

\* The newest by occurrence, then by receipt.
LatestFinal(b, operation) ==
  CHOOSE i \in FinalEvents(b, operation) : \A j \in FinalEvents(b, operation) :
    \/ ledger[b][j].occurredAt < ledger[b][i].occurredAt
    \/ ledger[b][j].occurredAt = ledger[b][i].occurredAt /\ j <= i

\* reconciliation_delay_seconds
Delay(attempts) ==
  LET d == InitialDelay * 2^attempts IN IF d < MaxDelay THEN d ELSE MaxDelay

\* Bound: what is due after the end of the clock is due at its end.
UpToEnd(time) == IF time < MaxNow THEN time ELSE MaxNow

\* Mutation: the last attempt schedules another one.
NextDueForEver(p) == UpToEnd(now + Delay(p.attempts))

NextDueAt(p) ==
  IF p.attempts + 1 >= MaxAttempts THEN None ELSE UpToEnd(now + Delay(p.attempts))

\* Mutation: the outcome an operator reports is applied and not kept.
ResolvesUnrecorded(r, key, p, o, alreadyRecorded) ==
  /\ OutcomeApplies(p, o, r.version, p.status = "UNKNOWN")
  /\ AppendRefund(p, o, key)
  /\ Record(r, key, p.status, ApplyOutcome(p, o, p.status = "UNKNOWN"),
            EventTypeForStatus(o.status))
  /\ UNCHANGED ledger

\* The part of _reconcile after an outcome is found.
ResolveWith(r, key, p, o, alreadyRecorded) ==
  /\ OutcomeIsNormal(o)
  /\ ~NoopConflicts(p, o)
  /\ IF IsNoop(p, o)
       THEN Replay(r, key, p) /\ UNCHANGED ledger
       ELSE /\ OutcomeApplies(p, o, r.version, p.status = "UNKNOWN")
            /\ AppendRefund(p, o, key)
            /\ Record(r, key, p.status, ApplyOutcome(p, o, p.status = "UNKNOWN"),
                      EventTypeForStatus(o.status))
            /\ IF alreadyRecorded THEN UNCHANGED ledger
               ELSE AppendEvent(p.booking, o, None, now)

\* _resolve_outcome answers that nothing is to be looked up yet, or any more.
NotDue(p) == p.attempts >= MaxAttempts \/ (p.dueAt # None /\ p.dueAt > now)

Reconcile(r, key, p) ==
  \/ /\ r.providerStatus # None
     /\ ResolveWith(r, key, p,
          [status |-> r.providerStatus, operation |-> OperationFor(p, r.providerStatus),
           reference |-> r.reference, refundReference |-> r.refundReference,
           refunded |-> r.refunded, reason |-> r.reason], FALSE)
  \/ /\ r.providerStatus = None /\ p.status = "UNKNOWN"
     /\ NotDue(p)
     /\ Replay(r, key, p) /\ UNCHANGED ledger
  \/ /\ r.providerStatus = None /\ p.status = "UNKNOWN"
     /\ ~NotDue(p) /\ FinalEvents(p.booking, p.pendingOperation) = {}
     /\ CanRecordReconciliationFailure(p, r.version)
     /\ Record(r, key, p.status, RecordReconciliationFailureOf(p, NextDueAt(p)), "UNKNOWN")
     /\ UNCHANGED <<refunds, ledger>>
  \/ /\ r.providerStatus = None /\ p.status = "UNKNOWN"
     /\ ~NotDue(p) /\ FinalEvents(p.booking, p.pendingOperation) # {}
     /\ ResolveWith(r, key, p,
          ledger[p.booking][LatestFinal(p.booking, p.pendingOperation)].outcome, TRUE)

\* run_command: one request under one key.
Command(r, key) ==
  LET p == payments[r.booking]
  IN  /\ NothingToReplay(r.scope, key)
      /\ r.scope # "CreatePayment" => p # None
      /\ CASE r.scope = "CreatePayment"    -> Create(r, key)
           [] r.scope = "AuthorizePayment" -> Authorize(r, key, p)
           [] r.scope = "CapturePayment"   -> Capture(r, key, p)
           [] r.scope = "CancelPayment"    -> Cancel(r, key, p)
           [] r.scope = "RefundPayment"    -> Refund(r, key, p)
           [] r.scope = "ReconcilePayment" -> Reconcile(r, key, p)
           [] OTHER                        -> ApplyCallback(r, key, p)
      /\ UNCHANGED <<batch, now>>

-----------------------------------------------------------------------------
(* The reconciliation worker. *)

\* list_due_unknown_payments
Due(b) ==
  /\ payments[b] # None /\ payments[b].status = "UNKNOWN"
  /\ payments[b].dueAt # None /\ payments[b].dueAt <= now

\* The worker lists the due payments with their versions, then handles the
\* list without holding any lock.
ListDue ==
  /\ batch = {}
  /\ \E b \in Bookings : Due(b)
  /\ batch' = {<<b, payments[b].resourceVersion>> : b \in {c \in Bookings : Due(c)}}
  /\ UNCHANGED <<tables, now>>

WorkerRequest(b, version) ==
  [scope |-> "ReconcilePayment", booking |-> b, version |-> version,
   providerStatus |-> None, reference |-> None, refundReference |-> None,
   refunded |-> None, reason |-> None]

\* The worker's command takes effect ...
ReconcileDue(entry) ==
  /\ NothingToReplay("ReconcilePayment", entry)
  /\ Reconcile(WorkerRequest(entry[1], entry[2]), entry, payments[entry[1]])
  /\ batch' = batch \ {entry}
  /\ UNCHANGED now

\* ... or it raises or replays, and the worker goes on with the next entry.
SkipDue(entry) ==
  /\ ~ENABLED ReconcileDue(entry)
  /\ batch' = batch \ {entry}
  /\ UNCHANGED <<tables, now>>

Worker == ListDue \/ \E entry \in batch : ReconcileDue(entry) \/ SkipDue(entry)

Tick == now < MaxNow /\ now' = now + 1 /\ UNCHANGED <<tables, batch>>

Next ==
  \/ \E r \in Offered, key \in Keys : now <= LastRequestAt /\ Command(r, key)
  \/ Worker
  \/ Tick

Spec == Init /\ [][Next]_vars

\* The worker is a process of its own that polls for ever, and time passes.
FairSpec == Spec /\ WF_vars(Worker) /\ WF_vars(Tick)

-----------------------------------------------------------------------------
(* Properties. *)

RefundsOf(b) == {f \in refunds : f.booking = b}
Total(rows) == FoldSet(LAMBDA f, sum : f.amount + sum, 0, rows)

\* What a payment says was refunded is what its refund rows add up to, whichever
\* of command, callback or reconciliation wrote them, and no refund reference of
\* the provider is paid out twice.  (refund_payment.py, apply_refund_outcome)
RefundsAddUp ==
  /\ \A b \in Bookings : payments[b] # None =>
       payments[b].refundedAmount = Total(RefundsOf(b))
  /\ \A f, g \in refunds : f.reference = g.reference => f = g

\* The aggregate never leaves a row that the table's check constraints would
\* refuse: what they say of amounts, of an UNKNOWN payment's evidence and of each
\* status.  (models.py, ck_payment_*)
RowsAreConsistent ==
  \A b \in Bookings : payments[b] # None =>
    LET p == payments[b]
    IN  /\ p.refundedAmount <= p.capturedAmount /\ p.capturedAmount <= p.amount
        /\ IF p.status = "UNKNOWN"
             THEN /\ None \notin {p.lastStableStatus, p.pendingOperation}
                  /\ p.reconciliationStatus \in {"PENDING", "FAILED"}
             ELSE {p.lastStableStatus, p.pendingOperation} = {None}
        /\ p.status \in {"PENDING", "AUTHORIZED", "FAILED", "CANCELLED"} =>
             p.capturedAmount = 0
        /\ p.status \in CapturedOrLater => p.capturedAmount = p.amount
        /\ p.status \in {"AUTHORIZED", "CAPTURED"} => p.providerReference # None
        /\ p.status = "CAPTURED" => p.refundedAmount = 0
        /\ p.status = "PARTIALLY_REFUNDED" => p.refundedAmount \in 1 .. p.amount - 1
        /\ p.status = "REFUNDED" => p.refundedAmount = p.amount
        /\ p.status = "FAILED" => p.failure # None
        /\ p.status = "CANCELLED" => p.cancellationReason # None

\* The audit rows of a payment are its history: one for every version, each
\* starting where the one before ended, the last one in its current status.
\* (common.py, CommandScope.record)
AuditIsTheHistory ==
  \A b \in Bookings : payments[b] # None =>
    LET rows == {a \in audit : a.booking = b}
    IN  /\ {a.version : a \in rows} = 1 .. payments[b].resourceVersion
        /\ \A a \in rows : a.version = payments[b].resourceVersion =>
             a.status = payments[b].status
        /\ \A a, c \in rows : c.version = a.version + 1 => c.previous = a.status

\* A request takes effect at most once, even when its idempotency record has
\* expired and it is sent again: the version it expects, the event id or the
\* refund reference stops it.  (common.py, replay_or_lock)
RequestTakesEffectOnce ==
  \A a, c \in audit :
    a.scope = c.scope /\ a.key = c.key /\ a.request = c.request => a = c

\* Money reported captured stays captured and a closed payment stays closed,
\* whatever is repeated or arrives late.  (README: callbacks repeated or out of
\* order cause no state regression)
NoRegression ==
  [][\A b \in Bookings : payments[b] # None =>
       LET p == payments[b]
           q == payments'[b]
       IN  /\ p.status \in {"FAILED", "CANCELLED", "REFUNDED"} => q = p
           /\ q.capturedAmount >= p.capturedAmount /\ q.refundedAmount >= p.refundedAmount
           /\ p.providerReference # None => q.providerReference = p.providerReference
           /\ Current(p) # "PENDING" => Current(q) # "PENDING"]_vars

\* An UNKNOWN payment is settled only by a final outcome of the operation it
\* waits for, and that outcome is in the ledger of provider events.
\* (entities.py, _prepare_resolution)
SettledByEvidence ==
  [][\A b \in Bookings :
       payments[b] # None /\ payments[b].status = "UNKNOWN"
         /\ payments'[b].status # "UNKNOWN" =>
       \E i \in DOMAIN ledger'[b] :
         /\ ledger'[b][i].outcome.operation = payments[b].pendingOperation
         /\ ledger'[b][i].outcome.status = payments'[b].status]_vars

\* Rows, refunds and audit trail of a payment tell one story, in which every
\* request happened at most once.
RecordsAgree == TypeOK /\ RowsAreConsistent /\ AuditIsTheHistory /\ RequestTakesEffectOnce

\* Nothing that arrives late or again moves a payment back, and only evidence
\* settles one whose outcome is unknown.
PaymentsMoveForward == NoRegression /\ SettledByEvidence

\* A capture command that takes effect had an authorised payment before it.
\* (README.md: capture only after authorize)
CaptureFollowsAuthorize ==
  \A a \in audit : a.scope = "CapturePayment" /\ a.status = "CAPTURED" =>
    a.previous = "AUTHORIZED"

\* The worker is done with every UNKNOWN payment after finitely many attempts:
\* the payment is settled or its attempts are exhausted.  (reconcile_payment.py;
\* README: bounded exponential backoff and a limited number of attempts)
ReconciliationEnds ==
  \A b \in Bookings : Due(b) ~>
    payments[b] # None /\ (payments[b].status # "UNKNOWN" \/ payments[b].dueAt = None)
=============================================================================
