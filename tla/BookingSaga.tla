----------------------------- MODULE BookingSaga -----------------------------
(***************************************************************************)
(* The booking saga of the gateway: one purchase, driven by the client's   *)
(* request and by the reconciliation worker across Booking, Seat           *)
(* Inventory, Payment and Ticket Service.                                  *)
(*                                                                         *)
(* Every remote call is one action.  It is answered, is rejected, or is    *)
(* lost: with the bound MaxFaults a call fails with a retryable error      *)
(* although it took no effect, or although it did.  Saving the workflow    *)
(* row is an action of its own, so that a crash or another actor can come  *)
(* between a call and the save that remembers it.  A crash stops an actor  *)
(* wherever it is, and what it had not saved is gone.                      *)
(*                                                                         *)
(* The four services are what their own modules show of them, reduced to   *)
(* one booking: Booking Service is the aggregate behind its idempotency    *)
(* records, the others a status and a version.                             *)
(***************************************************************************)
EXTENDS BookingCommands

CONSTANTS
  Clients,       \* the requests that may carry the purchase's idempotency key
  Worker,        \* the reconciliation worker
  Scenarios,     \* what the payment provider may do: SUCCESS, DECLINE, TIMEOUT, MANUAL
  Overlap,       \* whether the actors may drive the workflow at the same time
  HoldMayEnd,    \* whether the seat hold may run out
  MaxCrashes,    \* bound on crashes
  MaxFaults      \* bound on calls that are lost

SagaBounds ==
  /\ Worker \notin Clients
  /\ Scenarios \subseteq {"SUCCESS", "DECLINE", "TIMEOUT", "MANUAL"}
  /\ Overlap \in BOOLEAN /\ HoldMayEnd \in BOOLEAN
  /\ MaxCrashes \in Nat /\ MaxFaults \in Nat

Actors == Clients \cup {Worker}

TheReservation == CHOOSE r \in ReservationIds : TRUE
ThePayment == CHOOSE p \in PaymentIds : TRUE
TheDetails == CHOOSE d \in Details : TRUE
HoldEnds == 1    \* when the hold of the seats runs out

WorkflowStatus == {"STARTED", "SEAT_RESERVED", "PAYMENT_PROCESSING", "PAYMENT_UNKNOWN",
                   "SEAT_CONFIRMED", "TICKETS_ISSUED", "CONFIRMED", "FAILED",
                   "CANCELLED", "COMPENSATION_PENDING"}
TerminalWorkflowStatuses == {"CONFIRMED", "FAILED", "CANCELLED"}
\* Mutation: only unknown outcomes are polled for.
UnknownOnly == {"PAYMENT_UNKNOWN", "COMPENSATION_PENDING"}
ReconcilableStatuses == {"PAYMENT_UNKNOWN", "PAYMENT_PROCESSING", "SEAT_CONFIRMED",
                         "TICKETS_ISSUED", "COMPENSATION_PENDING"}

GatewayPaymentStatus == {"PENDING", "AUTHORIZED", "CAPTURED", "UNKNOWN", "FAILED",
                         "CANCELLED", "PARTIALLY_REFUNDED", "REFUNDED"}
\* What the saga sees of a reservation and of a payment.
SagaReservation ==
  [status : {"ACTIVE", "CONFIRMED", "RELEASED", "EXPIRED"}, version : Nat]
SagaPayment == [status : GatewayPaymentStatus, version : Nat]

\* The bounds hold, a purchase has a reservation, a payment and details to name, and
\* None is neither a run nor a row of the services nor a recorded answer.
ASSUME SagaAssumption ==
  /\ SagaBounds
  /\ ReservationIds # {} /\ PaymentIds # {} /\ Details # {}
  /\ {"Payment was not captured", "A post-capture workflow step failed",
      "Booking workflow failed before payment capture", "BOOKING_WORKFLOW_FAILED"}
       \subseteq Reasons
  /\ None \notin {"place", "resume", "reconcile", "compensate"}
  /\ None \notin Booking \cup SagaReservation \cup SagaPayment
  /\ None # [request |-> None, value |-> 1]

IsPending(status) == status \in {"PENDING", "UNKNOWN"}
IsFailed(status) == status \in {"FAILED", "CANCELLED"}
\* Mutation: an authorized payment counts as captured.
AuthorizedIsCaptured(status) == status \in {"AUTHORIZED", "CAPTURED"}
IsCaptured(status) == status = "CAPTURED"

\* completedSteps of the workflow's evidence, in their order.
CompletedSteps == {"paymentRecorded", "seatConfirmed", "reservationEvidenceConfirmed",
                   "ticketsIssued", "ticketsAttached", "bookingConfirmed"}

\* The suffixes of the workflow's key, one per remote command; the last four belong
\* to cancellations (CancellationSaga).
StepKeys == {"booking", "booking-reservation", "booking-payment-start",
             "booking-payment-result", "booking-payment-failed", "booking-payment-unknown",
             "booking-seat-confirmed", "booking-tickets", "booking-confirm", "booking-fail",
             "pre-capture-fail", "mark-compensation-pending", "compensation-result",
             "payment-create", "authorize", "capture",
             "first:accept", "first:result", "second:accept", "second:result"}

VARIABLES
  row,      \* the gateway's workflow row, None before the request
  actors,   \* what each actor is doing, with its copy of the workflow
  remote,   \* the state of the four services
  outbox,   \* how many booking.confirmed messages the gateway wrote
  now,      \* 0, and HoldEnds once the hold has run out
  crashes, faults

vars == <<row, actors, remote, outbox, now, crashes, faults>>

Workflow ==
  [status : WorkflowStatus, paymentStatus : GatewayPaymentStatus,
   bookingId : BOOLEAN,          \* booking_id is set; so for the other ids
   version : Nat \cup {None}, reservationId : BOOLEAN,
   reservationVersion : Nat \cup {None}, paymentId : BOOLEAN,
   ticketIds : SUBSET TicketIds, steps : SUBSET CompletedSteps,
   response : {None, 201, 202, 402, 409}]

NewWorkflow ==
  [status |-> "STARTED", paymentStatus |-> "PENDING", bookingId |-> FALSE, version |-> None,
   reservationId |-> FALSE, reservationVersion |-> None, paymentId |-> FALSE,
   ticketIds |-> {}, steps |-> {}, response |-> None]

Idle ==
  [pc |-> "idle", run |-> None, wf |-> None, dirty |-> FALSE, seen |-> None,
   complete |-> TRUE, released |-> FALSE, refunded |-> FALSE, listed |-> None]

TypeOK ==
  /\ row \in Workflow \cup {None}
  /\ \A a \in Actors :
       /\ actors[a].wf \in Workflow \cup {None}
       /\ actors[a].listed \in Workflow \cup {None}
       /\ actors[a].run \in {"place", "resume", "reconcile", "compensate", None}
       /\ actors[a].pc # "idle" => actors[a].run # None
  /\ remote.booking \in Booking \cup {None}
  /\ remote.payment \in SagaPayment \cup {None}
  /\ remote.reservation \in SagaReservation \cup {None}
  /\ remote.tickets \in {"NONE", "VALID", "CANCELLED"}
  /\ outbox \in Nat /\ now \in {0, HoldEnds}
  /\ crashes \in 0 .. MaxCrashes /\ faults \in 0 .. MaxFaults

Init ==
  /\ row = None
  /\ actors = [a \in Actors |-> Idle]
  /\ \E s \in Scenarios :
       remote = [booking |-> None, replies |-> [k \in StepKeys |-> None],
                 reservation |-> None, payment |-> None, scenario |-> s, tickets |-> "NONE"]
  /\ outbox = 0 /\ now = 0
  /\ crashes = 0 /\ faults = 0

-----------------------------------------------------------------------------
(* The services.  An answer is [ok, value, remote]: whether the call is     *)
(* accepted, what it returns, and the services after it.                    *)

Refused == [ok |-> FALSE, value |-> None, remote |-> remote]
Accepted(value, after) == [ok |-> TRUE, value |-> value, remote |-> after]

\* What Booking Service decides about a command on the booking b.
Decision(scope, b, r) ==
  CASE scope = "AttachReservation" ->
         [conflicts |-> AttachReservationConflicts(b, r),
          applied |-> AttachReservationApplied(b, r),
          accepted |-> CanAttachReservation(b, r, now), after |-> AttachReservationTo(b, r)]
    [] scope = "ConfirmReservation" ->
         [conflicts |-> ConfirmReservationConflicts(b, r),
          applied |-> ConfirmReservationApplied(b, r),
          accepted |-> CanConfirmReservation(b, r), after |-> ConfirmReservationOf(b, r)]
    [] scope = "StartPayment" ->
         [conflicts |-> StartPaymentConflicts(b, r), applied |-> StartPaymentApplied(b, r),
          accepted |-> CanStartPayment(b, r, now), after |-> StartPaymentOf(b, r)]
    [] scope = "RecordPayment" ->
         [conflicts |-> RecordPaymentConflicts(b, r), applied |-> RecordPaymentApplied(b, r),
          accepted |-> CanRecordPayment(b, r), after |-> RecordPaymentOf(b, r)]
    [] scope = "AttachTickets" ->
         [conflicts |-> AttachTicketsConflicts(b, r), applied |-> AttachTicketsApplied(b, r),
          accepted |-> CanAttachTickets(b, r), after |-> AttachTicketsTo(b, r)]
    [] scope = "ConfirmBooking" ->
         [conflicts |-> ~ConfirmEvidenceMatches(b, r), applied |-> b.status = "CONFIRMED",
          accepted |-> CanConfirm(b, r), after |-> ConfirmOf(b)]
    [] scope = "FailBooking" ->
         [conflicts |-> FailBookingConflicts(b, r), applied |-> FailBookingApplied(b, r),
          accepted |-> CanFail(b, r), after |-> FailOf(b, r)]
    [] scope = "CancelBooking" ->
         [conflicts |-> CancelBookingConflicts(b, r), applied |-> CancelBookingApplied(b, r),
          accepted |-> CanCancel(b, r), after |-> CancelOf(b, r)]
    [] scope = "RecordCompensation" ->
         [conflicts |-> FALSE, applied |-> RecordCompensationApplied(b, r),
          accepted |-> CanRecordCompensation(b, r), after |-> RecordCompensationOf(b, r)]

\* A recorded key answers again, or refuses another request.
Replayed(key, r) ==
  IF remote.replies[key].request = r THEN Accepted(remote.replies[key].value, remote)
                                     ELSE Refused

\* A command of Booking Service answers with the booking's version.
BookingAnswer(key, scope, r) ==
  LET b == remote.booking
      d == Decision(scope, b, r)
      recorded(after) ==
        Accepted(after.resourceVersion,
                 [remote EXCEPT !.booking = after,
                                !.replies[key] = [request |-> r, value |-> after.resourceVersion]])
  IN  CASE remote.replies[key] # None -> Replayed(key, r)
        [] remote.replies[key] = None /\ ~d.conflicts /\ d.applied -> recorded(b)
        [] remote.replies[key] = None /\ ~d.conflicts /\ ~d.applied /\ d.accepted ->
             recorded(d.after)
        [] OTHER -> Refused

CreateBookingAnswer ==
  IF remote.replies["booking"] # None THEN Accepted(1, remote)
  ELSE Accepted(1, [remote EXCEPT !.booking = FromRequest(TheDetails, None),
                                  !.replies["booking"] = [request |-> None, value |-> 1]])

\* A command of Payment Service answers with the payment as it leaves it.
PaymentAnswer(key, version, from, to) ==
  LET p == remote.payment
      after == [status |-> to, version |-> p.version + 1]
  IN  CASE remote.replies[key] # None -> Replayed(key, version)
        [] remote.replies[key] = None /\ p.status \in from /\ p.version = version ->
             Accepted(after, [remote EXCEPT !.payment = after,
                                            !.replies[key] = [request |-> version, value |-> after]])
        [] OTHER -> Refused

CreatePaymentAnswer ==
  LET p == [status |-> "PENDING", version |-> 1]
  IN  IF remote.payment # None THEN Accepted(remote.replies["payment-create"].value, remote)
      ELSE Accepted(p, [remote EXCEPT !.payment = p,
                          !.replies["payment-create"] = [request |-> None, value |-> p]])

\* The gateway names no provider outcome, so the mock provider decides.
AuthorizeAnswer(version) ==
  CASE remote.scenario = "MANUAL"  -> Refused
    [] remote.scenario = "DECLINE" -> PaymentAnswer("authorize", version, {"PENDING"}, "FAILED")
    [] OTHER -> PaymentAnswer("authorize", version, {"PENDING"}, "AUTHORIZED")

CaptureAnswer(version) ==
  PaymentAnswer("capture", version, {"AUTHORIZED"},
                IF remote.scenario = "TIMEOUT" THEN "UNKNOWN" ELSE "CAPTURED")

CancelPaymentAnswer(version) ==
  LET p == remote.payment
  IN  IF p.status \in {"PENDING", "AUTHORIZED"} /\ p.version = version
        THEN Accepted(None, [remote EXCEPT
               !.payment = [status |-> "CANCELLED", version |-> version + 1]])
        ELSE Refused

\* RefundPaymentRequest.resolved_amount and refund_payment: an amount and, for
\* a success, the provider's refund reference are required.
RefundAnswer(r) ==
  LET p == remote.payment
  IN  IF /\ r.amount # None /\ r.refundReference # None
         /\ p.status \in {"CAPTURED", "PARTIALLY_REFUNDED"} /\ p.version = r.version
        THEN Accepted(None, [remote EXCEPT
               !.payment = [status |-> "REFUNDED", version |-> r.version + 1]])
        ELSE Refused

ReserveAnswer ==
  IF remote.reservation # None
    THEN Accepted(1, remote)
    ELSE Accepted(1, [remote EXCEPT !.reservation = [status |-> "ACTIVE", version |-> 1]])

ConfirmSeatsAnswer(version) ==
  LET s == remote.reservation
      after == [status |-> "CONFIRMED", version |-> s.version + 1]
  IN  CASE s.status = "CONFIRMED" -> Accepted(s.version, remote)
        [] s.status = "ACTIVE" /\ now < HoldEnds /\ s.version = version ->
             Accepted(after.version, [remote EXCEPT !.reservation = after])
        [] OTHER -> Refused

ReleaseSeatsAnswer ==
  LET s == remote.reservation
  IN  CASE s.status \in {"RELEASED", "EXPIRED"} -> Accepted(None, remote)
        [] s.status = "ACTIVE" ->
             Accepted(None, [remote EXCEPT
               !.reservation = [status |-> "RELEASED", version |-> s.version + 1]])
        [] OTHER -> Refused

IssueTicketsAnswer ==
  Accepted(TicketIds, IF remote.tickets = "NONE" THEN [remote EXCEPT !.tickets = "VALID"]
                                                 ELSE remote)

KnownTickets == IF remote.tickets = "NONE" THEN {} ELSE TicketIds

-----------------------------------------------------------------------------
(* Calls, saves and exceptions. *)

\* An actor is at a step when it has saved what it had to save before it.
At(a, step) == actors[a].pc = step /\ ~actors[a].dirty
Busy(a) == actors[a].pc # "idle" \/ actors[a].dirty

Becomes(a, x) == actors' = [actors EXCEPT ![a] = x]

\* A remote call with the answer o: the caller goes on as good, as rejected,
\* or, when the call is lost, as lost.
Call(a, o, good, rejected, lost) ==
  /\ \/ o.ok /\ remote' = o.remote /\ Becomes(a, good) /\ UNCHANGED faults
     \/ ~o.ok /\ Becomes(a, rejected) /\ UNCHANGED <<remote, faults>>
     \/ /\ faults < MaxFaults /\ faults' = faults + 1
        /\ remote' \in {remote, o.remote} /\ Becomes(a, lost)
  /\ UNCHANGED <<row, outbox, now, crashes>>

\* A reply that may be used, with nothing changed remotely.
Query(value) == Accepted(value, remote)

GoTo(x, step) == [x EXCEPT !.pc = step]
SaveAndGoTo(x, step) == [x EXCEPT !.pc = step, !.dirty = TRUE]

\* Where an actor whose run ends with an exception goes: a request has its
\* error, the worker writes down what it listed.
RaisedTo(x) == IF x.run \in {"reconcile", "compensate"} THEN "saveListed" ELSE "idle"
\* Mutation: the listed row is gone when the exception arrives.
ForgetsListed(x) == IF RaisedTo(x) = "idle" THEN Idle ELSE GoTo(Idle, "saveListed")
Propagates(x) == IF RaisedTo(x) = "idle" THEN Idle ELSE GoTo(x, "saveListed")

\* workflows.save
Save(a) ==
  /\ actors[a].dirty
  /\ row' = actors[a].wf
  /\ Becomes(a, IF actors[a].pc = "idle" THEN Idle ELSE [actors[a] EXCEPT !.dirty = FALSE])
  /\ UNCHANGED <<remote, outbox, now, crashes, faults>>

\* The steps that take resources back, shared by _fail_pre_capture_workflow and
\* compensate: payment, seats, then the booking.
ClosingStep(x) == IF x.run = "compensate" THEN "recordCompensation" ELSE "failPreCapture"

\* Mutation: the workflow closes although something is still to be taken back.
ClosesAnyway(x) == SaveAndGoTo([x EXCEPT !.wf.status = "FAILED"], RaisedTo(x))

\* _fail_pre_capture_workflow ends: complete says what the row becomes.
PreCaptureEnds(x) ==
  SaveAndGoTo([x EXCEPT !.wf.status = IF x.complete THEN "FAILED" ELSE "COMPENSATION_PENDING"],
              RaisedTo(x))

AfterMoney(x) ==
  CASE x.wf.reservationId -> GoTo(x, "releaseSeats")
    [] ~x.wf.reservationId /\ x.wf.bookingId -> GoTo(x, ClosingStep(x))
    [] OTHER -> PreCaptureEnds(x)

UndoResources(x) ==
  IF x.wf.paymentId THEN GoTo(x, "queryPayment") ELSE AfterMoney(x)

\* _handle_unexpected_failure
Unexpected(x) ==
  CASE x.wf.paymentStatus \in {"CAPTURED", "UNKNOWN"} ->
         GoTo([x EXCEPT !.wf.status = "COMPENSATION_PENDING"], "markPending")
    [] /\ x.wf.paymentStatus \notin {"CAPTURED", "UNKNOWN"}
       /\ x.wf.status \notin TerminalWorkflowStatuses ->
         UndoResources([x EXCEPT !.complete = TRUE])
    [] OTHER -> SaveAndGoTo(x, RaisedTo(x))

\* An exception in _start or _payment_failed: place handles it, the resumed
\* request and the worker do not.
Raised(x) == IF x.run = "place" THEN Unexpected(x) ELSE Propagates(x)

\* An exception in _after_payment_captured: place and reconcile handle it.
RaisedAfterCapture(x) == IF x.run = "resume" THEN Propagates(x) ELSE Unexpected(x)

\* PaymentUnknown: place keeps it, the resumed request does not.
RaisedUnknown(x) ==
  IF x.run = "resume" THEN Propagates(x)
  ELSE GoTo([x EXCEPT !.wf.paymentStatus = "UNKNOWN"], "persistUnknown")

-----------------------------------------------------------------------------
(* After the capture: the first step that completedSteps does not show. *)

\* Mutation: the later steps are tested first.
TicketsBeforeSeats(w) ==
  IF "paymentRecorded" \notin w.steps THEN "recordPayment"
  ELSE IF "ticketsIssued" \notin w.steps THEN "issueTickets"
  ELSE IF "seatConfirmed" \notin w.steps THEN "confirmSeats"
  ELSE IF "reservationEvidenceConfirmed" \notin w.steps THEN "confirmReservation"
  ELSE IF "ticketsAttached" \notin w.steps THEN "attachTickets"
  ELSE IF "bookingConfirmed" \notin w.steps THEN "confirmBooking"
  ELSE "finish"

\* Mutation: an attached ticket counts as the booking's confirmation.
SkipsConfirmation(w) ==
  IF "paymentRecorded" \notin w.steps THEN "recordPayment"
  ELSE IF "seatConfirmed" \notin w.steps THEN "confirmSeats"
  ELSE IF "reservationEvidenceConfirmed" \notin w.steps THEN "confirmReservation"
  ELSE IF "ticketsIssued" \notin w.steps THEN "issueTickets"
  ELSE IF "ticketsAttached" \notin w.steps THEN "attachTickets"
  ELSE "finish"

\* (The row never shows tickets as issued without their ids, so the lookup of
\* missing ids between issueTickets and attachTickets has no step.)
FirstMissingStep(w) ==
  IF "paymentRecorded" \notin w.steps THEN "recordPayment"
  ELSE IF "seatConfirmed" \notin w.steps THEN "confirmSeats"
  ELSE IF "reservationEvidenceConfirmed" \notin w.steps THEN "confirmReservation"
  ELSE IF "ticketsIssued" \notin w.steps THEN "issueTickets"
  ELSE IF "ticketsAttached" \notin w.steps THEN "attachTickets"
  ELSE IF "bookingConfirmed" \notin w.steps THEN "confirmBooking"
  ELSE "finish"

Forward(x) == GoTo(x, FirstMissingStep(x.wf))

\* A step succeeded: it is remembered, saved, and the next one follows.
Completed(x, step) ==
  LET y == [x EXCEPT !.wf.steps = @ \cup {step}]
  IN  SaveAndGoTo(y, FirstMissingStep(y.wf))

StepsShownByStatus(w) ==
  (IF w.status \in {"SEAT_CONFIRMED", "TICKETS_ISSUED", "CONFIRMED"}
     THEN {"paymentRecorded", "seatConfirmed"} ELSE {})
  \cup (IF w.status \in {"TICKETS_ISSUED", "CONFIRMED"}
          THEN {"reservationEvidenceConfirmed", "ticketsIssued"} ELSE {})
  \cup (IF w.ticketIds # {} THEN {"ticketsIssued"} ELSE {})

\* The head of _after_payment_captured.
AfterPaymentCaptured(x) ==
  IF x.wf.reservationId /\ x.wf.reservationVersion # None
    THEN Forward([x EXCEPT !.wf.steps = @ \cup StepsShownByStatus(x.wf)])
    ELSE RaisedAfterCapture(x)

-----------------------------------------------------------------------------
(* _start: from the selection to the captured payment. *)

Free(a) == ~Busy(a) /\ (Overlap \/ \A other \in Actors : ~Busy(other))

\* place without a row: the workflow is stored before the first call.
Place(c) ==
  /\ Free(c) /\ row = None
  /\ row' = NewWorkflow
  /\ Becomes(c, [Idle EXCEPT !.run = "place", !.pc = "create", !.wf = NewWorkflow])
  /\ UNCHANGED <<remote, outbox, now, crashes, faults>>

\* place with a row that has neither an answer nor a booking runs _start again.
\* Every other row is answered from what is stored.
Resume(c) ==
  /\ Free(c) /\ row # None
  /\ row.response = None
  /\ ~row.bookingId \/ row.version = None
  /\ Becomes(c, [Idle EXCEPT !.run = "resume", !.pc = "create", !.wf = row])
  /\ UNCHANGED <<row, remote, outbox, now, crashes, faults>>

\* _selection only reads; the event may not be on sale, a seat not be offered.
SelectionFails(c) ==
  /\ At(c, "create") /\ remote.booking = None
  /\ Becomes(c, Raised(actors[c]))
  /\ UNCHANGED <<row, remote, outbox, now, crashes, faults>>

CreateBooking(c) ==
  LET x == actors[c]
      o == CreateBookingAnswer
  IN  /\ At(c, "create")
      /\ Call(c, o, SaveAndGoTo([x EXCEPT !.wf.bookingId = TRUE, !.wf.version = o.value], "reserve"),
              Raised(x), Raised(x))

\* check_availability, or reserve, finds a seat taken.
SeatsAreTaken(c) ==
  /\ At(c, "reserve") /\ remote.reservation = None
  /\ Becomes(c, Raised(actors[c]))
  /\ UNCHANGED <<row, remote, outbox, now, crashes, faults>>

ReserveSeats(c) ==
  LET x == actors[c]
      o == ReserveAnswer
  IN  /\ At(c, "reserve")
      /\ Call(c, o, GoTo([x EXCEPT !.wf.reservationId = TRUE, !.wf.reservationVersion = o.value,
                                   !.wf.status = "SEAT_RESERVED"], "attachReservation"),
              Raised(x), Raised(x))

AttachReservation(c) ==
  LET x == actors[c]
      o == BookingAnswer("booking-reservation", "AttachReservation",
             [expectedVersion |-> x.wf.version, reservationId |-> TheReservation,
              expiresAt |-> HoldEnds, reservationVersion |-> x.wf.reservationVersion,
              confirmed |-> FALSE])
  IN  /\ At(c, "attachReservation")
      /\ Call(c, o, SaveAndGoTo([x EXCEPT !.wf.version = o.value], "createPayment"),
              Raised(x), Raised(x))

CreatePayment(c) ==
  LET x == actors[c]
      o == CreatePaymentAnswer
  IN  /\ At(c, "createPayment")
      /\ Call(c, o, GoTo([x EXCEPT !.wf.paymentId = TRUE, !.seen = o.value], "startPayment"),
              Raised(x), Raised(x))

\* Mutation: the row is not saved before the provider is asked for money.
StartsPaymentUnsaved(c) ==
  LET x == actors[c]
      o == BookingAnswer("booking-payment-start", "StartPayment",
             [expectedVersion |-> x.wf.version, paymentId |-> ThePayment])
  IN  /\ At(c, "startPayment")
      /\ Call(c, o, GoTo([x EXCEPT !.wf.version = o.value,
                                   !.wf.status = "PAYMENT_PROCESSING"], "authorize"),
              Raised(x), Raised(x))

\* Mutation: the booking's refusal to start the payment is not noticed.
ChargesAnyway(c) ==
  LET x == actors[c]
      o == BookingAnswer("booking-payment-start", "StartPayment",
             [expectedVersion |-> x.wf.version, paymentId |-> ThePayment])
      goes(v) == SaveAndGoTo([x EXCEPT !.wf.version = v,
                                       !.wf.status = "PAYMENT_PROCESSING"], "authorize")
  IN  /\ At(c, "startPayment")
      /\ Call(c, o, goes(o.value), goes(x.wf.version), Raised(x))

StartPayment(c) ==
  LET x == actors[c]
      o == BookingAnswer("booking-payment-start", "StartPayment",
             [expectedVersion |-> x.wf.version, paymentId |-> ThePayment])
  IN  /\ At(c, "startPayment")
      /\ Call(c, o, SaveAndGoTo([x EXCEPT !.wf.version = o.value,
                                          !.wf.status = "PAYMENT_PROCESSING"], "authorize"),
              Raised(x), Raised(x))

FailedPayment(x) == GoTo([x EXCEPT !.wf.paymentStatus = "FAILED"], "paymentFailed")

AuthorizePayment(c) ==
  LET x == actors[c]
      o == AuthorizeAnswer(x.seen.version)
  IN  /\ At(c, "authorize")
      /\ Call(c, o, CASE IsFailed(o.value.status)  -> FailedPayment(x)
                      [] IsPending(o.value.status) -> RaisedUnknown(x)
                      [] OTHER -> GoTo([x EXCEPT !.seen = o.value], "capture"),
              Raised(x), RaisedUnknown(x))

CapturePayment(c) ==
  LET x == actors[c]
      o == CaptureAnswer(x.seen.version)
  IN  /\ At(c, "capture")
      /\ Call(c, o, CASE IsPending(o.value.status) -> RaisedUnknown(x)
                      [] IsFailed(o.value.status)  -> FailedPayment(x)
                      [] IsCaptured(o.value.status) ->
                           [AfterPaymentCaptured([x EXCEPT !.wf.paymentStatus = "CAPTURED"])
                              EXCEPT !.dirty = TRUE]
                      [] OTHER -> [Raised([x EXCEPT !.wf.paymentStatus = "UNKNOWN"])
                                     EXCEPT !.dirty = TRUE],
              Raised(x), RaisedUnknown(x))

-----------------------------------------------------------------------------
(* _after_payment_captured, step by step. *)

RecordPayment(a) ==
  LET x == actors[a]
      o == BookingAnswer("booking-payment-result", "RecordPayment",
             [expectedVersion |-> x.wf.version, paymentId |-> ThePayment,
              paymentStatus |-> "SUCCEEDED"])
  IN  /\ At(a, "recordPayment")
      /\ Call(a, o, Completed([x EXCEPT !.wf.version = o.value], "paymentRecorded"),
              RaisedAfterCapture(x), RaisedAfterCapture(x))

ConfirmSeats(a) ==
  LET x == actors[a]
      o == ConfirmSeatsAnswer(x.wf.reservationVersion)
  IN  /\ At(a, "confirmSeats")
      /\ Call(a, o, Completed([x EXCEPT !.wf.reservationVersion = o.value,
                                        !.wf.status = "SEAT_CONFIRMED"], "seatConfirmed"),
              RaisedAfterCapture(x), RaisedAfterCapture(x))

ConfirmReservation(a) ==
  LET x == actors[a]
      o == BookingAnswer("booking-seat-confirmed", "ConfirmReservation",
             [expectedVersion |-> x.wf.version, reservationId |-> TheReservation,
              reservationVersion |-> x.wf.reservationVersion])
  IN  /\ At(a, "confirmReservation")
      /\ Call(a, o, Completed([x EXCEPT !.wf.version = o.value], "reservationEvidenceConfirmed"),
              RaisedAfterCapture(x), RaisedAfterCapture(x))

IssueTickets(a) ==
  LET x == actors[a]
      o == IssueTicketsAnswer
  IN  /\ At(a, "issueTickets")
      /\ Call(a, o, Completed([x EXCEPT !.wf.ticketIds = o.value,
                                        !.wf.status = "TICKETS_ISSUED"], "ticketsIssued"),
              RaisedAfterCapture(x), RaisedAfterCapture(x))

AttachTickets(a) ==
  LET x == actors[a]
      o == BookingAnswer("booking-tickets", "AttachTickets",
             [expectedVersion |-> x.wf.version, ticketIds |-> x.wf.ticketIds])
  IN  /\ At(a, "attachTickets")
      /\ Call(a, o, Completed([x EXCEPT !.wf.version = o.value], "ticketsAttached"),
              RaisedAfterCapture(x), RaisedAfterCapture(x))

\* The last step is remembered only by the save that closes the workflow.
ConfirmBooking(a) ==
  LET x == actors[a]
      o == BookingAnswer("booking-confirm", "ConfirmBooking",
             [expectedVersion |-> x.wf.version, reservationId |-> TheReservation,
              paymentId |-> ThePayment, paymentStatus |-> "SUCCEEDED",
              ticketIds |-> x.wf.ticketIds])
  IN  /\ At(a, "confirmBooking")
      /\ Call(a, o, [Completed([x EXCEPT !.wf.version = o.value], "bookingConfirmed")
                       EXCEPT !.dirty = FALSE],
              RaisedAfterCapture(x), RaisedAfterCapture(x))

\* save_with_outbox: the closed row and its messages in one transaction.
Finish(a) ==
  /\ At(a, "finish")
  /\ row' = [actors[a].wf EXCEPT !.status = "CONFIRMED", !.response = 201]
  /\ outbox' = outbox + 1
  /\ Becomes(a, Idle)
  /\ UNCHANGED <<remote, now, crashes, faults>>

-----------------------------------------------------------------------------
(* A payment that failed, or whose outcome is not known. *)

RecordFailedPayment(a) ==
  LET x == actors[a]
      o == BookingAnswer("booking-payment-failed", "RecordPayment",
             [expectedVersion |-> x.wf.version, paymentId |-> ThePayment,
              paymentStatus |-> "FAILED"])
  IN  /\ At(a, "paymentFailed")
      /\ Call(a, o, GoTo([x EXCEPT !.wf.version = o.value], "releaseFailed"),
              Raised(x), Raised(x))

ReleaseAfterFailedPayment(a) ==
  LET x == actors[a]
      o == ReleaseSeatsAnswer
  IN  /\ At(a, "releaseFailed")
      /\ Call(a, o, GoTo([x EXCEPT !.released = TRUE], "failBooking"),
              GoTo(x, "failBooking"), GoTo(x, "failBooking"))

NoEvidence == [resolvedPaymentStatus |-> None, reservationReleased |-> FALSE,
               paymentRefunded |-> FALSE]

FailBooking(a) ==
  LET x == actors[a]
      o == BookingAnswer("booking-fail", "FailBooking",
             [expectedVersion |-> x.wf.version, reason |-> "Payment was not captured",
              compensationStatus |-> IF x.released THEN "COMPLETED" ELSE "PENDING",
              evidence |-> [NoEvidence EXCEPT !.reservationReleased = x.released]])
  IN  /\ At(a, "failBooking")
      /\ Call(a, o, SaveAndGoTo([x EXCEPT
                      !.wf.status = IF x.released THEN "FAILED" ELSE "COMPENSATION_PENDING",
                      !.wf.response = 402], "idle"),
              Raised(x), Raised(x))

\* _persist_payment_unknown; an error of Booking Service is swallowed.
PersistPaymentUnknown(a) ==
  LET x == [actors[a] EXCEPT !.wf.status = "PAYMENT_UNKNOWN", !.wf.response = 202]
      o == BookingAnswer("booking-payment-unknown", "RecordPayment",
             [expectedVersion |-> x.wf.version, paymentId |-> ThePayment,
              paymentStatus |-> "UNKNOWN"])
  IN  /\ At(a, "persistUnknown")
      /\ Call(a, o, SaveAndGoTo([x EXCEPT !.wf.version = o.value], "idle"),
              SaveAndGoTo(x, "idle"), SaveAndGoTo(x, "idle"))

-----------------------------------------------------------------------------
(* Taking resources back. *)

\* _mark_booking_compensation_pending; an error is swallowed.
MarkCompensationPendingAt(a) ==
  LET x == actors[a]
      o == BookingAnswer("mark-compensation-pending", "FailBooking",
             [expectedVersion |-> x.wf.version, reason |-> "A post-capture workflow step failed",
              compensationStatus |-> "PENDING", evidence |-> NoEvidence])
  IN  /\ At(a, "markPending")
      /\ Call(a, o, SaveAndGoTo([x EXCEPT !.wf.version = o.value], RaisedTo(x)),
              SaveAndGoTo(x, RaisedTo(x)), SaveAndGoTo(x, RaisedTo(x)))

Incomplete(x) == [x EXCEPT !.complete = FALSE]

\* _compensate_payment asks for the payment first ...
QueryPayment(a) ==
  LET x == [actors[a] EXCEPT !.seen = remote.payment]
      status == remote.payment.status
  IN  /\ At(a, "queryPayment")
      /\ Call(a, Query(remote.payment),
              CASE status \in {"CAPTURED", "PARTIALLY_REFUNDED"} -> GoTo(x, "refund")
                [] status \in {"PENDING", "AUTHORIZED"} -> GoTo(x, "cancelPayment")
                [] status \in {"REFUNDED", "CANCELLED", "FAILED"} ->
                     AfterMoney([x EXCEPT !.refunded = status = "REFUNDED"])
                [] OTHER -> AfterMoney(Incomplete(x)),
              AfterMoney(Incomplete(x)), AfterMoney(Incomplete(x)))

\* ... then refunds it: the request names neither amount nor provider reference.
RefundPayment(a) ==
  LET x == actors[a]
      o == RefundAnswer([version |-> x.seen.version, amount |-> None, refundReference |-> None])
  IN  /\ At(a, "refund")
      /\ Call(a, o, AfterMoney([x EXCEPT !.refunded = TRUE]),
              AfterMoney(Incomplete(x)), AfterMoney(Incomplete(x)))

CancelPayment(a) ==
  LET x == actors[a]
      o == CancelPaymentAnswer(x.seen.version)
  IN  /\ At(a, "cancelPayment")
      /\ Call(a, o, AfterMoney(x), AfterMoney(Incomplete(x)), AfterMoney(Incomplete(x)))

ReleaseSeats(a) ==
  LET x == actors[a]
      o == ReleaseSeatsAnswer
  IN  /\ At(a, "releaseSeats")
      /\ Call(a, o, GoTo([x EXCEPT !.released = TRUE], ClosingStep(x)),
              GoTo(Incomplete(x), ClosingStep(x)), GoTo(Incomplete(x), ClosingStep(x)))

FailPreCapture(a) ==
  LET x == actors[a]
      required == x.wf.paymentId \/ x.wf.reservationId
      o == BookingAnswer("pre-capture-fail", "FailBooking",
             [expectedVersion |-> x.wf.version,
              reason |-> "Booking workflow failed before payment capture",
              compensationStatus |-> CASE ~required -> "NOT_REQUIRED"
                                       [] required /\ x.complete -> "COMPLETED"
                                       [] OTHER -> "PENDING",
              evidence |-> [NoEvidence EXCEPT !.reservationReleased = x.released]])
  IN  /\ At(a, "failPreCapture")
      /\ Call(a, o, PreCaptureEnds([x EXCEPT !.wf.version = o.value]),
              PreCaptureEnds(Incomplete(x)), PreCaptureEnds(Incomplete(x)))

-----------------------------------------------------------------------------
(* The reconciliation worker: reconcile and compensate. *)

\* run_once lists the rows whose status it knows, without a lease.
ListWorkflow ==
  /\ Free(Worker) /\ row # None
  /\ row.status \in ReconcilableStatuses
  /\ Becomes(Worker, [Idle EXCEPT !.pc = "begin", !.listed = row,
        !.run = IF row.status = "COMPENSATION_PENDING" THEN "compensate" ELSE "reconcile"])
  /\ UNCHANGED <<row, remote, outbox, now, crashes, faults>>

\* reconcile and compensate read the row again.
Begin(a) ==
  LET x == [actors[a] EXCEPT !.wf = row]
      compensates == [x EXCEPT !.run = "compensate"]
  IN  /\ At(a, "begin")
      /\ Becomes(a,
           CASE /\ x.run = "compensate" /\ row.status # "COMPENSATION_PENDING" -> Idle
             [] row.status = "COMPENSATION_PENDING" ->
                  IF row.bookingId THEN GoTo(compensates, "getBooking") ELSE Propagates(x)
             [] /\ x.run = "reconcile" /\ row.response # None
                /\ row.status \in TerminalWorkflowStatuses -> Idle
             [] OTHER -> IF row.paymentId THEN GoTo(x, "getPayment") ELSE Propagates(x))
      /\ UNCHANGED <<row, remote, outbox, now, crashes, faults>>

GetPayment(a) ==
  LET x == actors[a]
      status == remote.payment.status
  IN  /\ At(a, "getPayment")
      /\ Call(a, Query(status),
              CASE IsPending(status) -> GoTo([x EXCEPT !.wf.paymentStatus = "UNKNOWN"], "persistUnknown")
                [] IsFailed(status)  -> FailedPayment(x)
                [] IsCaptured(status) -> GoTo([x EXCEPT !.wf.paymentStatus = "CAPTURED"], "refresh")
                [] OTHER -> Propagates(x),
              Propagates(x), Propagates(x))

\* Mutation: what the booking records is not looked at.
NothingShown(b) == {}

\* The steps the booking shows as done.
StepsShownByBooking(b) ==
  (IF b.paymentStatus = "SUCCEEDED" \/ b.paymentRecorded THEN {"paymentRecorded"} ELSE {})
  \cup (IF b.reservationStatus = "CONFIRMED" \/ b.reservationConfirmed
          THEN {"seatConfirmed", "reservationEvidenceConfirmed"} ELSE {})
  \cup (IF b.ticketIds # {} THEN {"ticketsIssued", "ticketsAttached"} ELSE {})
  \cup (IF b.status = "CONFIRMED" THEN {"bookingConfirmed"} ELSE {})

RefreshBookingVersion(a) ==
  LET x == actors[a]
      b == remote.booking
      y == [x EXCEPT !.wf.version = b.resourceVersion,
                     !.wf.steps = @ \cup StepsShownByBooking(b),
                     !.wf.ticketIds = IF b.ticketIds # {} THEN b.ticketIds ELSE @,
                     !.wf.reservationVersion = IF b.reservationVersion # None
                                                 THEN b.reservationVersion ELSE @]
  IN  /\ At(a, "refresh")
      /\ Call(a, Query(b), [AfterPaymentCaptured(y) EXCEPT !.dirty = TRUE],
              Propagates(x), Propagates(x))

\* compensate starts from the booking's current version.
GetBooking(a) ==
  LET x == actors[a]
  IN  /\ At(a, "getBooking")
      /\ Call(a, Query(remote.booking),
              GoTo([x EXCEPT !.wf.version = remote.booking.resourceVersion], "listTickets"),
              Propagates(x), Propagates(x))

\* _authoritative_ticket_ids: a failed lookup is swallowed.
ListTickets(a) ==
  LET x == actors[a]
      found(ids) ==
        IF ids # {} THEN GoTo([x EXCEPT !.wf.ticketIds = ids], "cancelTickets")
                    ELSE UndoResources(x)
  IN  /\ At(a, "listTickets")
      /\ Call(a, Query(KnownTickets), found(x.wf.ticketIds \cup KnownTickets),
              found(x.wf.ticketIds), found(x.wf.ticketIds))

CancelTickets(a) ==
  LET x == actors[a]
  IN  /\ At(a, "cancelTickets")
      /\ Call(a, Accepted(None, [remote EXCEPT !.tickets = "CANCELLED"]),
              UndoResources(x), UndoResources(Incomplete(x)), UndoResources(Incomplete(x)))

RecordCompensation(a) ==
  LET x == actors[a]
      o == BookingAnswer("compensation-result", "RecordCompensation",
             [expectedVersion |-> x.wf.version, reason |-> "BOOKING_WORKFLOW_FAILED",
              compensationStatus |-> IF x.complete THEN "COMPLETED" ELSE "PENDING",
              evidence |-> [NoEvidence EXCEPT !.reservationReleased = x.released,
                                              !.paymentRefunded = x.refunded]])
  IN  /\ At(a, "recordCompensation")
      /\ Call(a, o, SaveAndGoTo([x EXCEPT !.wf.version = o.value,
                      !.wf.status = IF x.complete THEN "FAILED" ELSE "COMPENSATION_PENDING",
                      !.wf.response = IF x.complete THEN 409 ELSE 202], "idle"),
              Propagates(x), Propagates(x))

\* An exception reached run_once: the row becomes what was listed, with an error code.
SaveListed(a) ==
  /\ At(a, "saveListed")
  /\ row' = actors[a].listed
  /\ Becomes(a, Idle)
  /\ UNCHANGED <<remote, outbox, now, crashes, faults>>

-----------------------------------------------------------------------------
(* The environment. *)

Crash(a) ==
  /\ crashes < MaxCrashes /\ Busy(a)
  /\ crashes' = crashes + 1
  /\ Becomes(a, Idle)
  /\ UNCHANGED <<row, remote, outbox, now, faults>>

\* Payment Service learns what became of a payment it had marked UNKNOWN.
ProviderSettles ==
  /\ remote.payment # None /\ remote.payment.status = "UNKNOWN"
  /\ \E status \in {"CAPTURED", "FAILED"} :
       remote' = [remote EXCEPT !.payment = [status |-> status, version |-> @.version + 1]]
  /\ UNCHANGED <<row, actors, outbox, now, crashes, faults>>

HoldRunsOut ==
  /\ HoldMayEnd /\ now = 0 /\ remote.reservation # None
  /\ now' = HoldEnds
  /\ UNCHANGED <<row, actors, remote, outbox, crashes, faults>>

SweepHold ==
  /\ now = HoldEnds
  /\ remote.reservation # None /\ remote.reservation.status = "ACTIVE"
  /\ remote' = [remote EXCEPT !.reservation = [status |-> "EXPIRED", version |-> @.version + 1]]
  /\ UNCHANGED <<row, actors, outbox, now, crashes, faults>>

\* The next step of a request or of the worker.
Step(a) ==
  \/ Save(a)
  \/ CreateBooking(a) \/ ReserveSeats(a) \/ AttachReservation(a) \/ CreatePayment(a)
  \/ StartPayment(a) \/ AuthorizePayment(a) \/ CapturePayment(a)
  \/ RecordPayment(a) \/ ConfirmSeats(a) \/ ConfirmReservation(a) \/ IssueTickets(a)
  \/ AttachTickets(a) \/ ConfirmBooking(a) \/ Finish(a)
  \/ RecordFailedPayment(a) \/ ReleaseAfterFailedPayment(a) \/ FailBooking(a)
  \/ PersistPaymentUnknown(a) \/ MarkCompensationPendingAt(a)
  \/ QueryPayment(a) \/ RefundPayment(a) \/ CancelPayment(a) \/ ReleaseSeats(a)
  \/ FailPreCapture(a)
  \/ Begin(a) \/ GetPayment(a) \/ RefreshBookingVersion(a)
  \/ GetBooking(a) \/ ListTickets(a) \/ CancelTickets(a) \/ RecordCompensation(a)
  \/ SaveListed(a)

Next ==
  \/ \E c \in Clients : Place(c) \/ Resume(c) \/ SelectionFails(c) \/ SeatsAreTaken(c)
  \/ \E a \in Actors : Step(a) \/ Crash(a)
  \/ ListWorkflow
  \/ ProviderSettles \/ HoldRunsOut \/ SweepHold

Spec == Init /\ [][Next]_vars

\* A live actor goes on, the worker keeps polling, and Payment Service settles
\* an unknown outcome.  Nobody promises a retry by the client.
FairSpec ==
  /\ Spec
  /\ \A a \in Actors : WF_vars(Step(a))
  /\ WF_vars(ListWorkflow)
  /\ WF_vars(ProviderSettles)

-----------------------------------------------------------------------------
(* Properties. *)

\* No ticket exists before Seat Inventory has confirmed the seats, on any path:
\* the request's, a resumed one's or the worker's (booking.py: "P0 invariant:
\* Ticket Service must not be called before Seat confirmation").
TicketsFollowSeats ==
  remote.tickets # "NONE" => remote.reservation.status = "CONFIRMED"

\* A workflow that closes as confirmed sold something: the booking is confirmed,
\* the money captured, the seats sold, the tickets issued and the news written.
ConfirmedIsSold ==
  row # None /\ row.status = "CONFIRMED" =>
    /\ remote.booking.status = "CONFIRMED"
    /\ remote.payment.status = "CAPTURED"
    /\ remote.reservation.status = "CONFIRMED"
    /\ remote.tickets # "NONE"
    /\ outbox > 0

\* And it is delivered: its tickets stay valid, and the news is written once.
ConfirmedIsDelivered ==
  row # None /\ row.status = "CONFIRMED" => remote.tickets = "VALID" /\ outbox = 1

\* A workflow that closes as failed leaves nothing behind that it knows of: the
\* money is not held, the seats are not sold, no ticket is valid, and the booking
\* is failed.  (A workflow that failed before it had a booking keeps no answer, so a
\* retry starts it again: its row still says FAILED while the retry sets out.)
FailedIsSettled ==
  row # None /\ row.status = "FAILED" =>
    /\ row.bookingId => \/ remote.booking.status = "FAILED"
                        \/ /\ row.response = None /\ ~row.reservationId
                           /\ remote.booking.status \in {"PENDING", "SEAT_RESERVED"}
    /\ remote.payment # None => remote.payment.status \in {"PENDING", "FAILED", "CANCELLED", "REFUNDED"}
    /\ row.paymentId => remote.payment.status # "PENDING"
    /\ remote.reservation # None => remote.reservation.status # "CONFIRMED"
    /\ row.reservationId => remote.reservation.status \in {"RELEASED", "EXPIRED"}
    /\ remote.tickets # "VALID"

\* Money is never forgotten: once nobody is driving the purchase any more, a
\* captured or undecided payment belongs to a row the worker picks up, or to a
\* confirmed one.
MoneyIsRemembered ==
  /\ remote.payment # None /\ remote.payment.status \in {"AUTHORIZED", "CAPTURED", "UNKNOWN"}
  /\ \A a \in Actors : ~Busy(a)
  => row.status \in ReconcilableStatuses \cup {"CONFIRMED"}

\* The purchase the four services make up, as the customer sees it.
PurchaseOrder ==
  CASE remote.booking = None -> "NONE"
    [] OTHER -> CASE remote.booking.status \in {"CONFIRMED", "FAILED"} -> remote.booking.status
                  [] remote.booking.status = "COMPENSATION_PENDING" -> "CLOSING"
                  [] OTHER -> "OPEN"

PurchaseSeats ==
  CASE remote.reservation = None -> "FREE"
    [] OTHER -> CASE remote.reservation.status = "ACTIVE" -> "HELD"
                  [] remote.reservation.status = "CONFIRMED" -> "SOLD"
                  [] OTHER -> "FREE"

PurchaseMoney ==
  CASE remote.payment = None -> "NONE"
    [] OTHER -> CASE remote.payment.status \in {"AUTHORIZED", "UNKNOWN"} -> "UNDECIDED"
                  [] remote.payment.status = "CAPTURED" -> "TAKEN"
                  [] remote.payment.status = "REFUNDED" -> "RETURNED"
                  [] OTHER -> "NONE"

PurchaseOfSaga == INSTANCE Purchase WITH order <- PurchaseOrder, seats <- PurchaseSeats,
                                         money <- PurchaseMoney, tickets <- remote.tickets

\* Requests, retries, the worker, crashes and lost calls together never do more
\* than a purchase may: see Purchase.
ImplementsPurchase == PurchaseOfSaga!Spec

\* What a confirmed booking sold stays sold: no compensation run of the same
\* workflow cancels its tickets.
ConfirmedKeepsTickets ==
  remote.booking # None /\ remote.booking.status = "CONFIRMED" => remote.tickets = "VALID"

\* A purchase is announced once (fails when the worker listed the workflow before
\* the request closed it: both write the message with the closed row).
AnnouncedOnce == outbox <= 1

\* A workflow that has to be compensated is compensated: it leaves
\* COMPENSATION_PENDING only as failed.
CompensationIsNotForgotten ==
  [][row # None /\ row.status = "COMPENSATION_PENDING" =>
       row'.status \in {"COMPENSATION_PENDING", "FAILED"}]_vars

\* A purchase whose money was captured is delivered, wherever a crash stopped it:
\* the worker finds the row, learns which steps were done from the booking and does
\* the rest.
CapturedIsDelivered ==
  (remote.payment # None /\ remote.payment.status = "CAPTURED")
    ~> (row # None /\ row.status = "CONFIRMED")

\* A purchase whose payment was declined is closed and its seats are free again.
DeclinedIsClosed ==
  (remote.payment # None /\ remote.payment.status = "FAILED")
    ~> /\ row # None /\ row.status = "FAILED"
       /\ remote.reservation # None /\ remote.reservation.status \in {"RELEASED", "EXPIRED"}

\* Compensation comes to an end.
CompensationEnds ==
  (row # None /\ row.status = "COMPENSATION_PENDING") ~> (row # None /\ row.status = "FAILED")
==============================================================================
