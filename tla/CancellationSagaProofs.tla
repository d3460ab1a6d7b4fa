----------------------- MODULE CancellationSagaProofs -----------------------
(***************************************************************************)
(* Proofs about CancellationSaga, the purchase and its cancellations, for  *)
(* every value of its constants: any number of requests that drive it, with*)
(* the worker or one after the other, any number of crashes and lost calls,*)
(* cancellations at any time.                                              *)
(***************************************************************************)
EXTENDS CancellationSaga, TLAPS

\* The steps of an actor and what may set it off.
Pcs == {"idle", "begin", "saveListed", "create", "reserve", "attachReservation",
        "createPayment", "startPayment", "authorize", "capture", "recordPayment",
        "confirmSeats", "confirmReservation", "issueTickets", "attachTickets",
        "confirmBooking", "finish", "paymentFailed", "releaseFailed", "failBooking",
        "persistUnknown", "markPending", "queryPayment", "refund", "cancelPayment",
        "releaseSeats", "failPreCapture", "getPayment", "refresh", "getBooking",
        "listTickets", "cancelTickets", "recordCompensation"}
Runs == {"place", "resume", "reconcile", "compensate"}
WorkerRuns == {"reconcile", "compensate"}

\* The keys under which Booking Service remembers its answers.
BookingKeys == StepKeys \ {"booking", "payment-create", "authorize", "capture"}
PaymentKeys == {"authorize", "capture"}

-----------------------------------------------------------------------------
(* The invariant. *)

\* What the services show: the booking exists, the seats are held or were, the money
\* was asked for, the seats are sold.  None of the four is ever taken back.
HasBooking(s) == s.booking \in Booking
HasSeats(s)   == s.reservation \in SagaReservation
HasPayment(s) == s.payment \in SagaPayment
Sold(s)       == HasSeats(s) /\ s.reservation.status = "CONFIRMED"

\* The booking says that its seats are confirmed or its tickets issued.
SaysSold(b) == b.reservationStatus = "CONFIRMED" \/ b.reservationConfirmed \/ b.ticketIds # {}

\* The four services agree about the seats, and the answers they recorded are answers
\* they gave.
ServicesOK(s) ==
  /\ s = [booking |-> s.booking, replies |-> s.replies, reservation |-> s.reservation,
          payment |-> s.payment, scenario |-> s.scenario, tickets |-> s.tickets]
  /\ s.booking \in Booking \cup {None}
  /\ s.reservation \in SagaReservation \cup {None}
  /\ s.payment \in SagaPayment \cup {None}
  /\ s.tickets \in {"NONE", "VALID", "CANCELLED"}
  /\ s.replies = [k \in StepKeys |-> s.replies[k]]
  /\ \A k \in BookingKeys :
       s.replies[k] # None =>
         HasBooking(s) /\ s.replies[k].value \in 1 .. s.booking.resourceVersion
  /\ \A k \in PaymentKeys : s.replies[k] # None => s.replies[k].value \in SagaPayment
  /\ s.replies["capture"] # None =>
       s.replies["capture"].value.status \in {"UNKNOWN", "CAPTURED"}
  /\ HasBooking(s) <=> s.replies["booking"] # None
  /\ HasPayment(s) => s.replies["payment-create"].value \in SagaPayment
  /\ HasBooking(s) /\ SaysSold(s.booking) => Sold(s)
  /\ HasBooking(s) /\ s.booking.reservationId # None => HasSeats(s)
  /\ s.tickets # "NONE" => Sold(s)

\* What a workflow remembers of the services is so.
WorkflowOK(w, s) ==
  /\ w \in Workflow
  /\ w.paymentStatus # "PENDING" => w.bookingId
  /\ w.bookingId => HasBooking(s)
  /\ w.reservationId => w.bookingId /\ w.reservationVersion # None /\ HasSeats(s)
  /\ w.paymentId => w.reservationId /\ HasPayment(s)
  /\ w.ticketIds # {} => Sold(s)
  /\ "seatConfirmed" \in w.steps => Sold(s)
  /\ w.status \in {"SEAT_CONFIRMED", "TICKETS_ISSUED", "CONFIRMED"} => Sold(s)

\* What a workflow knows when an actor is at a step of it.
NeedsBooking == Pcs \ {"idle", "begin", "saveListed", "create", "getPayment", "refresh",
                       "queryPayment", "refund", "cancelPayment", "releaseSeats"}
NeedsSeats   == {"attachReservation", "createPayment", "startPayment", "authorize", "capture",
                 "recordPayment", "confirmSeats", "confirmReservation", "issueTickets",
                 "attachTickets", "confirmBooking", "finish", "paymentFailed",
                 "releaseFailed", "releaseSeats"}
NeedsPayment == {"startPayment", "authorize", "capture", "paymentFailed", "getPayment",
                 "refresh", "queryPayment", "refund", "cancelPayment"}
NeedsSold    == {"confirmReservation", "issueTickets", "attachTickets", "confirmBooking",
                 "finish"}

Knows(w, pc) ==
  /\ pc \in NeedsBooking => w.bookingId
  /\ pc \in NeedsSeats => w.reservationId
  /\ pc \in NeedsPayment => w.paymentId
  /\ pc \in NeedsSold => "seatConfirmed" \in w.steps
  /\ pc = "cancelTickets" => w.ticketIds # {}

Actor ==
  [pc : Pcs, run : Runs \cup {None}, wf : Workflow \cup {None}, dirty : BOOLEAN,
   seen : SagaPayment \cup {None}, complete : BOOLEAN, released : BOOLEAN,
   refunded : BOOLEAN, listed : Workflow \cup {None}]

\* An actor with a workflow: it can go on, close it or fall back to what it listed.
Driving(x, s) ==
  /\ x \in Actor
  /\ x.run \in Runs
  /\ WorkflowOK(x.wf, s)
  /\ x.run \in WorkerRuns => WorkflowOK(x.listed, s)

ActorOK(x, s, w) ==
  /\ x \in Actor
  /\ x.pc # "idle" => x.run \in Runs
  /\ x.pc \notin {"idle", "begin", "saveListed"} \/ x.dirty =>
       Driving(x, s) /\ Knows(x.wf, x.pc)
  /\ x.pc \in {"begin", "saveListed", "getPayment", "refresh"} =>
       x.run \in WorkerRuns /\ WorkflowOK(x.listed, s)
  /\ x.pc = "begin" => WorkflowOK(w, s)

CancelRequest ==
  [pc : {"idle", "accept", "listTickets", "cancelTickets", "queryPayment", "refund",
         "release", "result"},
   key : CancelKeys \cup {None}, booking : Booking \cup {None}, version : Nat \cup {None},
   payment : SagaPayment \cup {None}, ticketIds : SUBSET TicketIds, complete : BOOLEAN,
   released : BOOLEAN, refunded : BOOLEAN]

\* A cancellation takes back what the booking named.
CancelOK(x, s) ==
  /\ x \in CancelRequest
  /\ x.pc # "idle" =>
       /\ x.key \in CancelKeys /\ x.booking \in Booking /\ HasBooking(s)
       /\ x.booking.reservationId # None => HasSeats(s)
       /\ x.ticketIds # {} => Sold(s)
  /\ x.pc \notin {"idle", "accept"} => x.version \in 1 .. s.booking.resourceVersion
  /\ x.pc = "cancelTickets" => x.ticketIds # {}
  /\ x.pc = "release" => x.booking.reservationId # None

RowOK == row \in Workflow \cup {None} /\ (row # None => WorkflowOK(row, remote))

CountersOK ==
  /\ outbox \in Nat /\ now \in {0, HoldEnds}
  /\ crashes \in 0 .. MaxCrashes /\ faults \in 0 .. MaxFaults
  /\ cancels \in 0 .. MaxCancels

SagaInv ==
  /\ ServicesOK(remote)
  /\ RowOK
  /\ actors = [a \in Actors |-> actors[a]]
  /\ \A a \in Actors : ActorOK(actors[a], remote, row)
  /\ CancelOK(cancel, remote)
  /\ CountersOK

-----------------------------------------------------------------------------
(* What one command makes of the booking.                                   *)

\* The booking c, made of b, is its next version, and says that seats are sold or names a
\* reservation only if b did or the services show it.
Follows(b, c, s) ==
  /\ c \in Booking
  /\ c.resourceVersion = b.resourceVersion + 1
  /\ SaysSold(c) => SaysSold(b) \/ Sold(s)
  /\ c.reservationId # None => b.reservationId # None \/ HasSeats(s)

\* The same, before _touch counts the version.
Prepares(b, c, s) ==
  /\ c \in Booking
  /\ c.resourceVersion = b.resourceVersion
  /\ SaysSold(c) => SaysSold(b) \/ Sold(s)
  /\ c.reservationId # None => b.reservationId # None \/ HasSeats(s)

\* Touch counts the version and changes nothing else.
LEMMA TouchFollows ==
  ASSUME NEW b \in Booking, NEW d, NEW s, Prepares(b, d, s)
  PROVE  Follows(b, Touch(d), s)
<1>1. d \in Booking /\ d.resourceVersion = b.resourceVersion
  BY DEF Prepares
<1>2. /\ Touch(d) \in Booking
      /\ Touch(d).resourceVersion = d.resourceVersion + 1
      /\ Touch(d).reservationStatus = d.reservationStatus
      /\ Touch(d).reservationConfirmed = d.reservationConfirmed
      /\ Touch(d).ticketIds = d.ticketIds
      /\ Touch(d).reservationId = d.reservationId
  BY <1>1 DEF Touch, Booking
<1> QED BY <1>1, <1>2 DEF Prepares, Follows, SaysSold

\* AttachReservation names the reservation the gateway holds, as not yet confirmed.
LEMMA AttachReservationFollows ==
  ASSUME NEW b \in Booking, NEW s, HasSeats(s), NEW r, r.reservationId \in ReservationIds,
         r.expiresAt \in Nat, r.reservationVersion \in Nat \cup {None}, r.confirmed = FALSE
  PROVE  Follows(b, AttachReservationTo(b, r), s)
<1> DEFINE expires == IF r.expiresAt # None THEN r.expiresAt ELSE b.reservationExpiresAt
           version == IF r.reservationVersion # None
                        THEN r.reservationVersion ELSE b.reservationVersion
           d       == [b EXCEPT !.reservationId        = r.reservationId,
                                !.reservationExpiresAt = expires,
                                !.reservationVersion   = version,
                                !.reservationStatus    = "RESERVED",
                                !.reservationConfirmed = b.reservationConfirmed,
                                !.status               = "SEAT_RESERVED"]
<1>1. expires \in Nat \cup {None} /\ version \in Nat \cup {None}
  BY DEF Booking
<1>2. b.reservationConfirmed \in BOOLEAN
  BY DEF Booking
<1>3. (b.reservationConfirmed \/ r.confirmed) = b.reservationConfirmed
  BY <1>2
<1>4. AttachReservationTo(b, r) = Touch(d)
  BY <1>3 DEF AttachReservationTo, Booking
<1> HIDE DEF expires, version
<1>5. d \in Booking
  BY ZenonT(60), <1>1, <1>2 DEF Booking, BookingStatus, ReservationEvidenceStatus
<1>6. /\ d.resourceVersion = b.resourceVersion /\ d.reservationStatus = "RESERVED"
      /\ d.reservationConfirmed = b.reservationConfirmed /\ d.ticketIds = b.ticketIds
  BY DEF Booking
<1> HIDE DEF d
<1>7. Prepares(b, d, s)
  BY <1>5, <1>6 DEF Prepares, SaysSold
<1> QED BY <1>4, <1>7, TouchFollows

\* ConfirmReservation is sent when the seats are sold.
LEMMA ConfirmReservationFollows ==
  ASSUME NEW b \in Booking, NEW s, Sold(s), NEW r, r.reservationVersion \in Nat \cup {None}
  PROVE  Follows(b, ConfirmReservationOf(b, r), s)
<1> DEFINE version == IF r.reservationVersion # None
                        THEN r.reservationVersion ELSE b.reservationVersion
           d       == [b EXCEPT !.reservationVersion   = version,
                                !.reservationStatus    = "CONFIRMED",
                                !.reservationConfirmed = TRUE]
<1>1. version \in Nat \cup {None}
  BY DEF Booking
<1>2. ConfirmReservationOf(b, r) = Touch(d)
  BY DEF ConfirmReservationOf, Booking
<1> HIDE DEF version
<1>3. d \in Booking
  BY <1>1 DEF Booking, ReservationEvidenceStatus
<1>4. d.resourceVersion = b.resourceVersion /\ d.reservationId = b.reservationId
  BY DEF Booking
<1> HIDE DEF d
<1>5. Prepares(b, d, s)
  BY <1>3, <1>4 DEF Prepares
<1> QED BY <1>2, <1>5, TouchFollows

\* StartPayment leaves the evidence of the seats alone.
LEMMA StartPaymentFollows ==
  ASSUME NEW b \in Booking, NEW s, NEW r, r.paymentId \in PaymentIds
  PROVE  Follows(b, StartPaymentOf(b, r), s)
<1> DEFINE d == [b EXCEPT !.paymentId     = r.paymentId,
                          !.paymentStatus = "PROCESSING",
                          !.status        = "PAYMENT_PROCESSING"]
<1>1. StartPaymentOf(b, r) = Touch(d)
  BY DEF StartPaymentOf
<1>2. d \in Booking
  BY DEF Booking, BookingStatus, PaymentStatus
<1>3. /\ d.resourceVersion = b.resourceVersion /\ d.reservationStatus = b.reservationStatus
      /\ d.reservationConfirmed = b.reservationConfirmed /\ d.ticketIds = b.ticketIds
      /\ d.reservationId = b.reservationId
  BY DEF Booking
<1> HIDE DEF d
<1>4. Prepares(b, d, s)
  BY <1>2, <1>3 DEF Prepares, SaysSold
<1> QED BY <1>1, <1>4, TouchFollows

\* AttachTickets is sent when the seats are sold.
LEMMA AttachTicketsFollows ==
  ASSUME NEW b \in Booking, NEW s, Sold(s), NEW r, r.ticketIds \subseteq TicketIds
  PROVE  Follows(b, AttachTicketsTo(b, r), s)
<1> DEFINE d == [b EXCEPT !.ticketIds = r.ticketIds]
<1>1. AttachTicketsTo(b, r) = Touch(d)
  BY DEF AttachTicketsTo
<1>2. /\ d \in Booking /\ d.resourceVersion = b.resourceVersion
      /\ d.reservationId = b.reservationId
  BY DEF Booking
<1> HIDE DEF d
<1>3. Prepares(b, d, s)
  BY <1>2 DEF Prepares
<1> QED BY <1>1, <1>3, TouchFollows

\* ConfirmBooking leaves the evidence of the seats alone.
LEMMA ConfirmBookingFollows ==
  ASSUME NEW b \in Booking, NEW s
  PROVE  Follows(b, ConfirmOf(b), s)
<1> DEFINE d == [b EXCEPT !.status                 = "CONFIRMED",
                          !.compensationStatus     = "NOT_REQUIRED",
                          !.compensationAction     = "NONE",
                          !.intendedTerminalStatus = None]
<1>1. ConfirmOf(b) = Touch(d)
  BY DEF ConfirmOf
<1>2. d \in Booking
  BY ZenonT(60) DEF Booking, BookingStatus, CompensationStatus, CompensationAction
<1>3. /\ d.resourceVersion = b.resourceVersion /\ d.reservationStatus = b.reservationStatus
      /\ d.reservationConfirmed = b.reservationConfirmed /\ d.ticketIds = b.ticketIds
      /\ d.reservationId = b.reservationId
  BY DEF Booking
<1> HIDE DEF d
<1>4. Prepares(b, d, s)
  BY <1>2, <1>3 DEF Prepares, SaysSold
<1> QED BY <1>1, <1>4, TouchFollows

\* required_compensation_action names an action.
LEMMA RequiredIsAction ==
  ASSUME NEW b
  PROVE  RequiredCompensationAction(b) \in CompensationAction
BY DEF RequiredCompensationAction, CompensationAction, UnsettledPayment

\* _mark_compensation_pending can only take back what the booking says.
LEMMA MarkPrepares ==
  ASSUME NEW b \in Booking, NEW c, NEW s, Prepares(b, c, s), NEW action
  PROVE  Prepares(b, MarkCompensationPending(c, action), s)
<1> DEFINE held == IF action \in ReleaseActions /\ c.reservationStatus # "RELEASED"
                     THEN "RELEASE_PENDING" ELSE c.reservationStatus
           paid == IF action \in RefundActions /\ c.paymentStatus # "REFUNDED"
                     THEN "REFUND_PENDING" ELSE c.paymentStatus
           d    == [c EXCEPT !.reservationStatus = held, !.paymentStatus = paid]
<1>1. c \in Booking
  BY DEF Prepares
<1>2. /\ held \in ReservationEvidenceStatus /\ paid \in PaymentStatus
      /\ held = "CONFIRMED" => c.reservationStatus = "CONFIRMED"
  BY <1>1 DEF Booking, PaymentStatus, ReservationEvidenceStatus
<1>3. MarkCompensationPending(c, action) = d
  BY <1>1 DEF MarkCompensationPending, Booking
<1> HIDE DEF held, paid
<1>4. d \in Booking
  BY ZenonT(60), <1>1, <1>2 DEF Booking
<1>5. /\ d.resourceVersion = c.resourceVersion /\ d.reservationStatus = held
      /\ d.reservationConfirmed = c.reservationConfirmed /\ d.ticketIds = c.ticketIds
      /\ d.reservationId = c.reservationId
  BY <1>1 DEF Booking
<1> HIDE DEF d
<1> QED BY <1>2, <1>3, <1>4, <1>5 DEF Prepares, SaysSold

\* A booking with other evidence is a booking.
LEMMA EvidenceFields ==
  ASSUME NEW c \in Booking, NEW p \in PaymentStatus, NEW f \in BOOLEAN,
         NEW h \in ReservationEvidenceStatus
  PROVE  [c EXCEPT !.paymentStatus = p, !.paymentRecorded = f, !.reservationStatus = h]
           \in Booking
BY DEF Booking

\* _apply_compensation_evidence likewise.
LEMMA EvidencePrepares ==
  ASSUME NEW b \in Booking, NEW c, NEW s, Prepares(b, c, s), NEW e \in Evidence
  PROVE  Prepares(b, ApplyCompensationEvidence(c, e), s)
<1> DEFINE paid == IF e.paymentRefunded THEN "REFUNDED" ELSE ResolvedPayment(c, e)
           flag == c.paymentRecorded \/ e.resolvedPaymentStatus # None
           held == IF e.reservationReleased THEN "RELEASED" ELSE c.reservationStatus
           d    == [c EXCEPT !.paymentStatus = paid, !.paymentRecorded = flag,
                             !.reservationStatus = held]
<1>1. c \in Booking
  BY DEF Prepares
<1>2. /\ paid \in PaymentStatus /\ held \in ReservationEvidenceStatus
      /\ held = "CONFIRMED" => c.reservationStatus = "CONFIRMED"
  BY <1>1 DEF ResolvedPayment, Evidence, Booking, PaymentStatus, ReservationEvidenceStatus
<1>3. flag \in BOOLEAN
  OBVIOUS
<1>4. ApplyCompensationEvidence(c, e) = d
  BY <1>1 DEF ApplyCompensationEvidence, Booking
<1> HIDE DEF paid, flag, held
<1>5. d \in Booking
  BY <1>1, <1>2, <1>3, EvidenceFields
<1>6. /\ d.resourceVersion = c.resourceVersion /\ d.reservationStatus = held
      /\ d.reservationConfirmed = c.reservationConfirmed /\ d.ticketIds = c.ticketIds
      /\ d.reservationId = c.reservationId
  BY <1>1 DEF Booking
<1> HIDE DEF d
<1> QED BY <1>2, <1>4, <1>5, <1>6 DEF Prepares, SaysSold

\* A booking with another status and other compensation fields is a booking.
LEMMA ClosingFields ==
  ASSUME NEW c \in Booking, NEW st \in BookingStatus, NEW k \in CompensationStatus,
         NEW a \in CompensationAction, NEW t \in {"FAILED", "CANCELLED", None}
  PROVE  [c EXCEPT !.status = st, !.compensationStatus = k,
                   !.compensationAction = a, !.intendedTerminalStatus = t] \in Booking
BY DEF Booking

\* _begin_or_complete_terminal_transition, from a booking that carries the reason.
LEMMA TerminalFollows ==
  ASSUME NEW b \in Booking, NEW c, NEW s, Prepares(b, c, s), NEW r, r.evidence \in Evidence,
         r.compensationStatus \in CompensationStatus, NEW target \in {"FAILED", "CANCELLED"}
  PROVE  Follows(b, BeginOrCompleteTerminalTransition(c, r, target), s)
<1> DEFINE action == TerminalAction(c, r.evidence)
           after  == ApplyCompensationEvidence(c, r.evidence)
           asked  == RequestedCompensation(c, r)
           result == IF action = "NONE" THEN "NOT_REQUIRED" ELSE "COMPLETED"
           done   == [after EXCEPT !.status = target, !.compensationStatus = result,
                                   !.compensationAction = action,
                                   !.intendedTerminalStatus = None]
           begun  == [after EXCEPT !.status = "COMPENSATION_PENDING",
                                   !.compensationStatus = asked,
                                   !.compensationAction = action,
                                   !.intendedTerminalStatus = target]
<1>1. Prepares(b, after, s)
  BY EvidencePrepares
<1>2. action \in CompensationAction
  BY RequiredIsAction DEF TerminalAction
<1>3. asked \in CompensationStatus /\ result \in CompensationStatus
  BY DEF RequestedCompensation, CompensationStatus
<1>4. BeginOrCompleteTerminalTransition(c, r, target)
        = IF asked = "COMPLETED" THEN Touch(done)
                                 ELSE Touch(MarkCompensationPending(begun, action))
  BY DEF BeginOrCompleteTerminalTransition
<1> HIDE DEF action, after, asked, result
<1>5. after \in Booking
  BY <1>1 DEF Prepares
<1>6. done \in Booking /\ begun \in Booking
  <2>1. target \in BookingStatus
    BY DEF BookingStatus
  <2>2. done \in Booking
    BY <1>2, <1>3, <1>5, <2>1, ClosingFields
  <2>3. "COMPENSATION_PENDING" \in BookingStatus
    BY DEF BookingStatus
  <2>4. begun \in Booking
    BY <1>2, <1>3, <1>5, <2>3, ClosingFields
  <2> QED BY <2>2, <2>4
<1>7. /\ done.resourceVersion = after.resourceVersion
      /\ done.reservationStatus = after.reservationStatus
      /\ done.reservationConfirmed = after.reservationConfirmed
      /\ done.ticketIds = after.ticketIds /\ done.reservationId = after.reservationId
  BY <1>5 DEF Booking
<1>8. /\ begun.resourceVersion = after.resourceVersion
      /\ begun.reservationStatus = after.reservationStatus
      /\ begun.reservationConfirmed = after.reservationConfirmed
      /\ begun.ticketIds = after.ticketIds /\ begun.reservationId = after.reservationId
  BY <1>5 DEF Booking
<1> HIDE DEF done, begun
<1>9. Prepares(b, done, s) /\ Prepares(b, begun, s)
  BY <1>1, <1>6, <1>7, <1>8 DEF Prepares, SaysSold
<1>10. Prepares(b, MarkCompensationPending(begun, action), s)
  BY <1>9, MarkPrepares
<1> QED BY <1>4, <1>9, <1>10, TouchFollows

\* FailBooking leaves no more evidence of the seats than there was.
LEMMA FailBookingFollows ==
  ASSUME NEW b \in Booking, NEW s, NEW r, r.reason \in Reasons, r.evidence \in Evidence,
         r.compensationStatus \in CompensationStatus
  PROVE  Follows(b, FailOf(b, r), s)
<1> DEFINE c == WithFailureReason(b, r)
<1>1. c \in Booking
  BY DEF WithFailureReason, Booking
<1>2. /\ c.resourceVersion = b.resourceVersion /\ c.reservationStatus = b.reservationStatus
      /\ c.reservationConfirmed = b.reservationConfirmed /\ c.ticketIds = b.ticketIds
      /\ c.reservationId = b.reservationId
  BY DEF WithFailureReason, Booking
<1> HIDE DEF c
<1>3. Prepares(b, c, s)
  BY <1>1, <1>2 DEF Prepares, SaysSold
<1>4. Follows(b, BeginOrCompleteTerminalTransition(c, r, "FAILED"), s)
  BY <1>3, TerminalFollows
<1> QED BY <1>4 DEF FailOf, c

\* CancelBooking likewise.
LEMMA CancelBookingFollows ==
  ASSUME NEW b \in Booking, NEW s, NEW r, r.reason \in Reasons, r.evidence \in Evidence,
         r.compensationStatus \in CompensationStatus, r.paymentStatus \in PaymentStatus
  PROVE  Follows(b, CancelOf(b, r), s)
<1> DEFINE flag == b.paymentRecorded \/ r.paymentStatus # None
           c    == [b EXCEPT !.cancellationReason = r.reason,
                             !.paymentStatus = r.paymentStatus, !.paymentRecorded = flag]
<1>1. flag \in BOOLEAN
  OBVIOUS
<1>2. ApplyCancelPaymentStatus(b, r) = c
  BY NoneIsNoPaymentStatus DEF ApplyCancelPaymentStatus, Booking
<1> HIDE DEF flag
<1>3. c \in Booking
  BY <1>1 DEF Booking
<1>4. /\ c.resourceVersion = b.resourceVersion /\ c.reservationStatus = b.reservationStatus
      /\ c.reservationConfirmed = b.reservationConfirmed /\ c.ticketIds = b.ticketIds
      /\ c.reservationId = b.reservationId
  BY DEF Booking
<1> HIDE DEF c
<1>5. Prepares(b, c, s)
  BY <1>3, <1>4 DEF Prepares, SaysSold
<1>6. Follows(b, BeginOrCompleteTerminalTransition(c, r, "CANCELLED"), s)
  BY <1>5, TerminalFollows
<1> QED BY <1>2, <1>6 DEF CancelOf

\* RecordPayment records an outcome; during compensation it marks what is owed.
LEMMA RecordPaymentFollows ==
  ASSUME NEW b \in Booking, NEW s, NEW r, r.paymentStatus \in PaymentStatus
  PROVE  Follows(b, RecordPaymentOf(b, r), s)
<1> DEFINE paid   == ApplyPaymentOutcome(b, r)
           action == RequiredCompensationAction(paid)
           owing  == [paid EXCEPT !.compensationAction = action]
<1>1. paid \in Booking
  BY DEF ApplyPaymentOutcome, Booking
<1>2. /\ paid.resourceVersion = b.resourceVersion
      /\ paid.reservationStatus = b.reservationStatus
      /\ paid.reservationConfirmed = b.reservationConfirmed
      /\ paid.ticketIds = b.ticketIds /\ paid.reservationId = b.reservationId
  BY DEF ApplyPaymentOutcome, Booking
<1>3. action \in CompensationAction
  BY RequiredIsAction
<1>4. RecordPaymentOf(b, r) = IF b.status = "COMPENSATION_PENDING"
                                THEN Touch(MarkCompensationPending(owing, action))
                                ELSE Touch(paid)
  BY DEF RecordPaymentOf
<1> HIDE DEF paid, action
<1>5. owing \in Booking
  BY <1>1, <1>3 DEF Booking
<1>6. /\ owing.resourceVersion = paid.resourceVersion
      /\ owing.reservationStatus = paid.reservationStatus
      /\ owing.reservationConfirmed = paid.reservationConfirmed
      /\ owing.ticketIds = paid.ticketIds /\ owing.reservationId = paid.reservationId
  BY <1>1 DEF Booking
<1> HIDE DEF owing
<1>7. Prepares(b, paid, s) /\ Prepares(b, owing, s)
  BY <1>1, <1>2, <1>5, <1>6 DEF Prepares, SaysSold
<1>8. Prepares(b, MarkCompensationPending(owing, action), s)
  BY <1>7, MarkPrepares
<1> QED BY <1>4, <1>7, <1>8, TouchFollows

\* RecordCompensation applies the evidence and closes the booking when it is complete.
LEMMA RecordCompensationFollows ==
  ASSUME NEW b \in Booking, NEW s, NEW r, r.reason \in Reasons, r.evidence \in Evidence,
         r.compensationStatus \in {"COMPLETED", "PENDING"}, CanRecordCompensation(b, r)
  PROVE  Follows(b, RecordCompensationOf(b, r), s)
<1> DEFINE action  == ResultAction(b, r.evidence)
           applied == ApplyCompensationEvidence(b, r.evidence)
           reasons == IF r.reason # None THEN r.reason ELSE applied.compensationReason
           named   == [applied EXCEPT !.compensationReason = reasons,
                                      !.compensationAction = action]
           c       == MarkCompensationPending(named, action)
           closed  == [c EXCEPT !.status = b.intendedTerminalStatus,
                                !.compensationStatus = "COMPLETED",
                                !.intendedTerminalStatus = None]
           open    == [c EXCEPT !.compensationStatus = r.compensationStatus]
<1>1. Prepares(b, b, s)
  BY DEF Prepares
<1>2. Prepares(b, applied, s)
  BY <1>1, EvidencePrepares
<1>3. action \in CompensationAction
  BY RequiredIsAction DEF ResultAction, Booking
<1>4. reasons \in Reasons
  BY NoneIsNoValue
<1>5. CompensatedBy(b, r) = c
  <2>1. applied \in Booking
    BY <1>2 DEF Prepares
  <2> QED BY <2>1 DEF CompensatedBy, Booking
<1>6. RecordCompensationOf(b, r)
        = Touch(IF r.compensationStatus = "COMPLETED" THEN closed ELSE open)
  BY <1>5 DEF RecordCompensationOf
<1>7. r.compensationStatus = "COMPLETED" => b.intendedTerminalStatus \in BookingStatus
  BY DEF CanRecordCompensation, AllowedTransitions, BookingStatus
<1> HIDE DEF action, applied, reasons
<1>8. applied \in Booking
  BY <1>2 DEF Prepares
<1>9. named \in Booking
  BY ZenonT(60), <1>3, <1>4, <1>8 DEF Booking
<1>10. /\ named.resourceVersion = applied.resourceVersion
       /\ named.reservationStatus = applied.reservationStatus
       /\ named.reservationConfirmed = applied.reservationConfirmed
       /\ named.ticketIds = applied.ticketIds /\ named.reservationId = applied.reservationId
  BY <1>8 DEF Booking
<1> HIDE DEF named
<1>11. Prepares(b, named, s)
  BY <1>2, <1>9, <1>10 DEF Prepares, SaysSold
<1>12. Prepares(b, c, s)
  BY <1>11, MarkPrepares
<1> HIDE DEF c
<1>13. c \in Booking
  BY <1>12 DEF Prepares
<1>14. Prepares(b, open, s)
  <2>1. open \in Booking
    BY <1>13 DEF Booking, CompensationStatus
  <2>2. /\ open.resourceVersion = c.resourceVersion
        /\ open.reservationStatus = c.reservationStatus
        /\ open.reservationConfirmed = c.reservationConfirmed
        /\ open.ticketIds = c.ticketIds /\ open.reservationId = c.reservationId
    BY <1>13 DEF Booking
  <2> HIDE DEF open
  <2> QED BY <1>12, <2>1, <2>2 DEF Prepares, SaysSold
<1>15. r.compensationStatus = "COMPLETED" => Prepares(b, closed, s)
  <2> HAVE r.compensationStatus = "COMPLETED"
  <2>1. closed \in Booking
    <3>1. b.intendedTerminalStatus \in BookingStatus
      BY <1>7
    <3>2. closed = [c EXCEPT !.status = b.intendedTerminalStatus,
                             !.compensationStatus = "COMPLETED",
                             !.compensationAction = c.compensationAction,
                             !.intendedTerminalStatus = None]
      BY <1>13 DEF Booking
    <3>3. "COMPLETED" \in CompensationStatus /\ c.compensationAction \in CompensationAction
      BY <1>13 DEF Booking, CompensationStatus
    <3> HIDE DEF closed
    <3> QED BY <1>13, <3>1, <3>2, <3>3, ClosingFields
  <2>2. /\ closed.resourceVersion = c.resourceVersion
        /\ closed.reservationStatus = c.reservationStatus
        /\ closed.reservationConfirmed = c.reservationConfirmed
        /\ closed.ticketIds = c.ticketIds /\ closed.reservationId = c.reservationId
    BY <1>13 DEF Booking
  <2> HIDE DEF closed
  <2> QED BY <1>12, <2>1, <2>2 DEF Prepares, SaysSold
<1> HIDE DEF open, closed
<1> QED BY <1>6, <1>14, <1>15, TouchFollows

-----------------------------------------------------------------------------
(* What one call makes of the services.                                     *)

\* What t shows of the booking, the seats and the payment is no less than what s shows.
Extends(s, t) ==
  /\ HasBooking(s) => HasBooking(t) /\ s.booking.resourceVersion <= t.booking.resourceVersion
  /\ HasSeats(s) => HasSeats(t)
  /\ HasPayment(s) => HasPayment(t)
  /\ Sold(s) => Sold(t)

\* An answer leaves the services as they may be.
GoodAnswer(o) == ServicesOK(o.remote) /\ Extends(remote, o.remote)

\* Nothing is lost where nothing happens.
LEMMA ExtendsItself ==
  ASSUME NEW s
  PROVE  Extends(s, s)
BY DEF Extends, HasBooking, Booking

\* The booking's next version is recorded with its answer.
LEMMA BookingMoves ==
  ASSUME NEW s, ServicesOK(s), HasBooking(s), NEW c, c = s.booking \/ Follows(s.booking, c, s),
         NEW key \in BookingKeys, NEW r
  PROVE  LET t == [s EXCEPT !.booking = c,
                            !.replies[key] = [request |-> r, value |-> c.resourceVersion]]
         IN  ServicesOK(t) /\ Extends(s, t)
<1> DEFINE reply == [request |-> r, value |-> c.resourceVersion]
           t == [s EXCEPT !.booking = c, !.replies[key] = reply]
<1>1. /\ t = [booking |-> c, replies |-> [s.replies EXCEPT ![key] = reply],
              reservation |-> s.reservation, payment |-> s.payment, scenario |-> s.scenario,
              tickets |-> s.tickets]
      /\ t.booking = c /\ t.reservation = s.reservation /\ t.payment = s.payment
      /\ t.scenario = s.scenario /\ t.tickets = s.tickets
      /\ t.replies = [s.replies EXCEPT ![key] = reply]
  <2>1. PICK bk, rp, rv, py, sc, tk :
          s = [booking |-> bk, replies |-> rp, reservation |-> rv, payment |-> py,
               scenario |-> sc, tickets |-> tk]
    BY DEF ServicesOK
  <2> DEFINE given == [s.replies EXCEPT ![key] = reply]
  <2> HIDE DEF reply
  <2>2. t = [s EXCEPT !.booking = c, !.replies = given]
    BY ONLY <2>1 DEF t, given
  <2> HIDE DEF t, given
  <2>3. /\ t = [booking |-> c, replies |-> given, reservation |-> s.reservation,
               payment |-> s.payment, scenario |-> s.scenario, tickets |-> s.tickets]
        /\ t.booking = c /\ t.reservation = s.reservation /\ t.payment = s.payment
        /\ t.scenario = s.scenario /\ t.tickets = s.tickets /\ t.replies = given
    BY ONLY <2>1, <2>2
  <2> QED BY ONLY <2>3 DEF given
<1>2. reply.value = c.resourceVersion
  OBVIOUS
<1>3. /\ c \in Booking /\ s.booking \in Booking
      /\ s.booking.resourceVersion <= c.resourceVersion
      /\ s.booking.resourceVersion \in Nat /\ c.resourceVersion \in Nat \ {0}
  BY DEF Follows, HasBooking, Booking
<1>4. key \in StepKeys /\ key # "booking" /\ key # "payment-create" /\ key # "authorize"
      /\ key # "capture"
  BY DEF BookingKeys
<1> HIDE DEF t, reply
<1>5. /\ t.replies = [k \in StepKeys |-> t.replies[k]]
      /\ t.replies[key] = reply
      /\ \A k \in StepKeys \ {key} : t.replies[k] = s.replies[k]
  BY <1>1, <1>4 DEF ServicesOK
<1>6. "booking" \in StepKeys /\ "payment-create" \in StepKeys /\ "capture" \in StepKeys
      /\ PaymentKeys \subseteq StepKeys \ {key}
  BY <1>4 DEF StepKeys, PaymentKeys
<1>7. HasBooking(t) /\ (HasSeats(s) <=> HasSeats(t)) /\ (HasPayment(s) <=> HasPayment(t))
      /\ (Sold(s) <=> Sold(t))
  BY <1>1, <1>3 DEF HasBooking, HasSeats, HasPayment, Sold
<1>8. \A k \in BookingKeys : t.replies[k] # None =>
        t.replies[k].value \in 1 .. t.booking.resourceVersion
  <2> TAKE k \in BookingKeys
  <2>1. CASE k = key
    BY <2>1, <1>1, <1>2, <1>3, <1>5
  <2>2. CASE k # key
    <3>1. t.replies[k] = s.replies[k]
      BY <2>2, <1>5 DEF BookingKeys
    <3>2. s.replies[k] # None => s.replies[k].value \in 1 .. s.booking.resourceVersion
      BY DEF ServicesOK
    <3> QED BY <3>1, <3>2, <1>1, <1>3
  <2> QED BY <2>1, <2>2
<1>9. \A k \in PaymentKeys : t.replies[k] = s.replies[k]
  BY <1>5, <1>6
<1>10. t.replies["booking"] = s.replies["booking"]
       /\ t.replies["payment-create"] = s.replies["payment-create"]
       /\ t.replies["capture"] = s.replies["capture"]
  BY <1>4, <1>5, <1>6
<1>11. (SaysSold(c) => Sold(s)) /\ (c.reservationId # None => HasSeats(s))
  BY DEF ServicesOK, Follows
<1>12. ServicesOK(t)
  BY <1>1, <1>3, <1>5, <1>7, <1>8, <1>9, <1>10, <1>11 DEF ServicesOK
<1>13. Extends(s, t)
  BY <1>1, <1>3, <1>7 DEF Extends
<1> QED BY <1>12, <1>13 DEF t, reply

\* The payment's next state is recorded with its answer.
LEMMA PaymentMoves ==
  ASSUME NEW s, ServicesOK(s), NEW p \in SagaPayment,
         NEW key \in PaymentKeys \cup {"payment-create"}, NEW r,
         HasPayment(s) \/ key = "payment-create",
         key = "capture" => p.status \in {"UNKNOWN", "CAPTURED"}
  PROVE  LET t == [s EXCEPT !.payment = p, !.replies[key] = [request |-> r, value |-> p]]
         IN  ServicesOK(t) /\ Extends(s, t) /\ HasPayment(t)
<1> DEFINE reply == [request |-> r, value |-> p]
           t == [s EXCEPT !.payment = p, !.replies[key] = reply]
           given == [s.replies EXCEPT ![key] = reply]
<1>1. /\ t = [booking |-> s.booking, replies |-> given, reservation |-> s.reservation,
              payment |-> p, scenario |-> s.scenario, tickets |-> s.tickets]
      /\ t.booking = s.booking /\ t.reservation = s.reservation /\ t.payment = p
      /\ t.scenario = s.scenario /\ t.tickets = s.tickets /\ t.replies = given
  <2>1. PICK bk, rp, rv, py, sc, tk :
          s = [booking |-> bk, replies |-> rp, reservation |-> rv, payment |-> py,
               scenario |-> sc, tickets |-> tk]
    BY DEF ServicesOK
  <2> HIDE DEF reply
  <2>2. t = [s EXCEPT !.payment = p, !.replies = given]
    BY ONLY <2>1 DEF t, given
  <2> HIDE DEF t, given
  <2> QED BY ONLY <2>1, <2>2
<1>2. reply.value = p
  OBVIOUS
<1>3. key \in StepKeys /\ key \notin BookingKeys /\ key # "booking"
  BY DEF BookingKeys, PaymentKeys, StepKeys
<1> HIDE DEF t, reply
<1>4. /\ t.replies = [k \in StepKeys |-> t.replies[k]]
      /\ t.replies[key] = reply
      /\ \A k \in StepKeys \ {key} : t.replies[k] = s.replies[k]
  BY <1>1, <1>3 DEF ServicesOK
<1> HIDE DEF given
<1>5. /\ "booking" \in StepKeys \ {key} /\ "payment-create" \in StepKeys
      /\ "capture" \in StepKeys /\ PaymentKeys \subseteq StepKeys
      /\ BookingKeys \subseteq StepKeys \ {key}
  BY <1>3 DEF StepKeys, PaymentKeys, BookingKeys
<1>6. HasPayment(t) /\ (HasBooking(t) <=> HasBooking(s)) /\ (HasSeats(s) <=> HasSeats(t))
      /\ (Sold(s) <=> Sold(t))
  BY <1>1 DEF HasBooking, HasSeats, HasPayment, Sold
<1>7. \A k \in BookingKeys : t.replies[k] = s.replies[k]
  BY <1>4, <1>5
<1>8. \A k \in PaymentKeys : t.replies[k] # None => t.replies[k].value \in SagaPayment
  <2> TAKE k \in PaymentKeys
  <2>1. CASE k = key
    BY <2>1, <1>2, <1>4
  <2>2. CASE k # key
    BY <2>2, <1>4, <1>5 DEF ServicesOK
  <2> QED BY <2>1, <2>2
<1>9. t.replies["capture"] # None =>
        t.replies["capture"].value.status \in {"UNKNOWN", "CAPTURED"}
  <2>1. CASE key = "capture"
    BY <2>1, <1>2, <1>4
  <2>2. CASE key # "capture"
    BY <2>2, <1>4, <1>5 DEF ServicesOK
  <2> QED BY <2>1, <2>2
<1>10. t.replies["payment-create"].value \in SagaPayment
  <2>1. CASE key = "payment-create"
    BY <2>1, <1>2, <1>4
  <2>2. CASE key # "payment-create"
    BY <2>2, <1>4, <1>5 DEF ServicesOK
  <2> QED BY <2>1, <2>2
<1>11. t.replies["booking"] = s.replies["booking"]
  BY <1>4, <1>5
<1>12. ServicesOK(t)
  BY <1>1, <1>4, <1>6, <1>7, <1>8, <1>9, <1>10, <1>11 DEF ServicesOK
<1>13. Extends(s, t)
  BY <1>1, <1>6 DEF Extends, HasBooking, Booking
<1> QED BY <1>6, <1>12, <1>13 DEF t, reply

\* The payment moves on without a recorded answer.
LEMMA PaymentChanges ==
  ASSUME NEW s, ServicesOK(s), HasPayment(s), NEW p \in SagaPayment
  PROVE  LET t == [s EXCEPT !.payment = p] IN ServicesOK(t) /\ Extends(s, t)
<1> DEFINE t == [s EXCEPT !.payment = p]
<1>1. /\ t = [booking |-> s.booking, replies |-> s.replies, reservation |-> s.reservation,
              payment |-> p, scenario |-> s.scenario, tickets |-> s.tickets]
      /\ t.booking = s.booking /\ t.reservation = s.reservation /\ t.payment = p
      /\ t.scenario = s.scenario /\ t.tickets = s.tickets /\ t.replies = s.replies
  <2>1. PICK bk, rp, rv, py, sc, tk :
          s = [booking |-> bk, replies |-> rp, reservation |-> rv, payment |-> py,
               scenario |-> sc, tickets |-> tk]
    BY DEF ServicesOK
  <2> QED BY ONLY <2>1 DEF t
<1> HIDE DEF t
<1>2. HasPayment(t) /\ (HasBooking(t) <=> HasBooking(s)) /\ (HasSeats(s) <=> HasSeats(t))
      /\ (Sold(s) <=> Sold(t))
  BY <1>1 DEF HasBooking, HasSeats, HasPayment, Sold
<1>3. ServicesOK(t)
  BY <1>1, <1>2 DEF ServicesOK
<1>4. Extends(s, t)
  BY <1>1, <1>2 DEF Extends, HasBooking, Booking
<1> QED BY <1>3, <1>4 DEF t

\* The reservation moves on, and a sold one stays sold.
LEMMA SeatsChange ==
  ASSUME NEW s, ServicesOK(s), NEW v \in SagaReservation,
         Sold(s) => v.status = "CONFIRMED"
  PROVE  LET t == [s EXCEPT !.reservation = v]
         IN  ServicesOK(t) /\ Extends(s, t) /\ HasSeats(t)
             /\ (v.status = "CONFIRMED" => Sold(t))
<1> DEFINE t == [s EXCEPT !.reservation = v]
<1>1. /\ t = [booking |-> s.booking, replies |-> s.replies, reservation |-> v,
              payment |-> s.payment, scenario |-> s.scenario, tickets |-> s.tickets]
      /\ t.booking = s.booking /\ t.reservation = v /\ t.payment = s.payment
      /\ t.scenario = s.scenario /\ t.tickets = s.tickets /\ t.replies = s.replies
  <2>1. PICK bk, rp, rv, py, sc, tk :
          s = [booking |-> bk, replies |-> rp, reservation |-> rv, payment |-> py,
               scenario |-> sc, tickets |-> tk]
    BY DEF ServicesOK
  <2> QED BY ONLY <2>1 DEF t
<1> HIDE DEF t
<1>2. /\ (HasPayment(t) <=> HasPayment(s)) /\ (HasBooking(t) <=> HasBooking(s)) /\ HasSeats(t)
      /\ Sold(s) => Sold(t)
      /\ v.status = "CONFIRMED" => Sold(t)
  BY <1>1 DEF HasBooking, HasSeats, HasPayment, Sold
<1>3. ServicesOK(t)
  BY <1>1, <1>2 DEF ServicesOK
<1>4. Extends(s, t)
  BY <1>1, <1>2 DEF Extends, HasBooking, Booking
<1> QED BY <1>2, <1>3, <1>4 DEF t

\* Tickets are issued, or cancelled, for sold seats.
LEMMA TicketsChange ==
  ASSUME NEW s, ServicesOK(s), Sold(s), NEW v \in {"VALID", "CANCELLED"}
  PROVE  LET t == [s EXCEPT !.tickets = v] IN ServicesOK(t) /\ Extends(s, t)
<1> DEFINE t == [s EXCEPT !.tickets = v]
<1>1. /\ t = [booking |-> s.booking, replies |-> s.replies, reservation |-> s.reservation,
              payment |-> s.payment, scenario |-> s.scenario, tickets |-> v]
      /\ t.booking = s.booking /\ t.reservation = s.reservation /\ t.payment = s.payment
      /\ t.scenario = s.scenario /\ t.tickets = v /\ t.replies = s.replies
  <2>1. PICK bk, rp, rv, py, sc, tk :
          s = [booking |-> bk, replies |-> rp, reservation |-> rv, payment |-> py,
               scenario |-> sc, tickets |-> tk]
    BY DEF ServicesOK
  <2> QED BY ONLY <2>1 DEF t
<1> HIDE DEF t
<1>2. /\ (HasPayment(t) <=> HasPayment(s)) /\ (HasBooking(t) <=> HasBooking(s))
      /\ (HasSeats(s) <=> HasSeats(t)) /\ Sold(t)
  BY <1>1 DEF HasBooking, HasSeats, HasPayment, Sold
<1>3. ServicesOK(t)
  BY <1>1, <1>2 DEF ServicesOK
<1>4. Extends(s, t)
  BY <1>1, <1>2 DEF Extends, HasBooking, Booking
<1> QED BY <1>3, <1>4 DEF t

-----------------------------------------------------------------------------
(* The answers of the services are good.                                    *)

\* A query changes nothing.
LEMMA QueryIsGood ==
  ASSUME ServicesOK(remote), NEW value
  PROVE  GoodAnswer(Query(value)) /\ Query(value).remote = remote /\ Query(value).ok
BY ExtendsItself DEF GoodAnswer, Query, Accepted

\* So does a refusal.
LEMMA RefusalIsGood ==
  ASSUME ServicesOK(remote)
  PROVE  GoodAnswer(Refused) /\ ~Refused.ok /\ Refused.remote = remote
BY ExtendsItself DEF GoodAnswer, Refused

\* create_booking answers with the booking's first version, however often it is called.
LEMMA CreateBookingIsGood ==
  ASSUME ServicesOK(remote)
  PROVE  /\ GoodAnswer(CreateBookingAnswer) /\ HasBooking(CreateBookingAnswer.remote)
         /\ CreateBookingAnswer.value = 1
<1>1. CASE remote.replies["booking"] # None
  <2>1. CreateBookingAnswer = [ok |-> TRUE, value |-> 1, remote |-> remote]
    BY <1>1 DEF CreateBookingAnswer, Accepted
  <2>2. HasBooking(remote)
    BY <1>1 DEF ServicesOK
  <2> QED BY <2>1, <2>2, ExtendsItself DEF GoodAnswer
<1>2. CASE remote.replies["booking"] = None
  <2> DEFINE b == FromRequest(TheDetails, None)
             reply == [request |-> None, value |-> 1]
             given == [remote.replies EXCEPT !["booking"] = reply]
             t == [remote EXCEPT !.booking = b, !.replies["booking"] = reply]
  <2>1. CreateBookingAnswer = [ok |-> TRUE, value |-> 1, remote |-> t]
    BY <1>2 DEF CreateBookingAnswer, Accepted
  <2>2. /\ t = [booking |-> b, replies |-> given, reservation |-> remote.reservation,
                payment |-> remote.payment, scenario |-> remote.scenario,
                tickets |-> remote.tickets]
        /\ t.booking = b /\ t.reservation = remote.reservation /\ t.payment = remote.payment
        /\ t.scenario = remote.scenario /\ t.tickets = remote.tickets /\ t.replies = given
    <3>1. PICK bk, rp, rv, py, sc, tk :
            remote = [booking |-> bk, replies |-> rp, reservation |-> rv, payment |-> py,
                      scenario |-> sc, tickets |-> tk]
      BY DEF ServicesOK
    <3> HIDE DEF b, reply
    <3>2. t = [remote EXCEPT !.booking = b, !.replies = given]
      BY ONLY <3>1 DEF t, given
    <3> HIDE DEF t, given
    <3> QED BY ONLY <3>1, <3>2
  <2>3. /\ b \in Booking /\ b.reservationStatus = "PENDING" /\ ~b.reservationConfirmed
        /\ b.ticketIds = {} /\ b.reservationId = None
    <3>1. TheDetails \in Details
      BY SagaAssumption DEF TheDetails
    <3> QED BY <3>1 DEF FromRequest, Booking, BookingStatus, PaymentStatus,
                      ReservationEvidenceStatus, CompensationStatus, CompensationAction
  <2>4. reply # None
    BY SagaAssumption
  <2> HIDE DEF t, reply, b
  <2>5. "booking" \in StepKeys /\ "payment-create" \in StepKeys \ {"booking"}
        /\ "capture" \in StepKeys \ {"booking"} /\ PaymentKeys \subseteq StepKeys \ {"booking"}
        /\ BookingKeys \subseteq StepKeys \ {"booking"}
    BY DEF StepKeys, PaymentKeys, BookingKeys
  <2>6. /\ t.replies = [k \in StepKeys |-> t.replies[k]]
        /\ t.replies["booking"] = reply
        /\ \A k \in StepKeys \ {"booking"} : t.replies[k] = remote.replies[k]
    BY <2>2, <2>5 DEF ServicesOK
  <2> HIDE DEF given
  <2>7. ~HasBooking(remote)
    BY <1>2 DEF ServicesOK
  <2>8. HasBooking(t) /\ (HasPayment(t) <=> HasPayment(remote))
        /\ (HasSeats(t) <=> HasSeats(remote)) /\ (Sold(t) <=> Sold(remote))
    BY <2>2, <2>3 DEF HasBooking, HasSeats, HasPayment, Sold
  <2>9. \A k \in BookingKeys : t.replies[k] = None
    BY <2>5, <2>6, <2>7 DEF ServicesOK
  <2>10. \A k \in PaymentKeys : t.replies[k] = remote.replies[k]
    BY <2>5, <2>6
  <2>11. /\ t.replies["payment-create"] = remote.replies["payment-create"]
         /\ t.replies["capture"] = remote.replies["capture"]
    BY <2>5, <2>6
  <2>12. ~SaysSold(b)
    BY <2>3 DEF SaysSold
  <2>13. ServicesOK(t)
    BY <2>2, <2>3, <2>4, <2>6, <2>8, <2>9, <2>10, <2>11, <2>12 DEF ServicesOK
  <2>14. Extends(remote, t)
    BY <2>7, <2>8 DEF Extends
  <2> QED BY <2>1, <2>8, <2>13, <2>14 DEF GoodAnswer
<1> QED BY <1>1, <1>2

\* A command of Booking Service, and the version it answers with, when what it decides
\* follows from the booking.
LEMMA BookingAnswerIsGood ==
  ASSUME ServicesOK(remote), HasBooking(remote), NEW key \in BookingKeys, NEW scope, NEW r,
         Decision(scope, remote.booking, r).accepted =>
           Follows(remote.booking, Decision(scope, remote.booking, r).after, remote)
  PROVE  LET o == BookingAnswer(key, scope, r)
         IN  /\ GoodAnswer(o)
             /\ o.ok => o.value \in 1 .. o.remote.booking.resourceVersion
<1> DEFINE b == remote.booking
           d == Decision(scope, b, r)
           moved(c) == [remote EXCEPT !.booking = c,
                          !.replies[key] = [request |-> r, value |-> c.resourceVersion]]
           recorded(c) == [ok |-> TRUE, value |-> c.resourceVersion, remote |-> moved(c)]
           o == BookingAnswer(key, scope, r)
<1>1. \/ remote.replies[key] # None /\ o = Replayed(key, r)
      \/ o = recorded(b)
      \/ d.accepted /\ o = recorded(d.after)
      \/ o = Refused
  BY DEF BookingAnswer, Accepted
<1>2. ASSUME NEW c, c = b \/ Follows(b, c, remote), o = recorded(c)
      PROVE  GoodAnswer(o) /\ o.value \in 1 .. o.remote.booking.resourceVersion
  <2>1. ServicesOK(moved(c)) /\ Extends(remote, moved(c))
    BY <1>2, BookingMoves
  <2>2. c \in Booking
    BY <1>2 DEF Follows, HasBooking
  <2>3. c.resourceVersion \in 1 .. c.resourceVersion
    BY <2>2 DEF Booking
  <2>4. moved(c).booking = c
    <3>1. PICK bk, rp, rv, py, sc, tk :
            remote = [booking |-> bk, replies |-> rp, reservation |-> rv, payment |-> py,
                      scenario |-> sc, tickets |-> tk]
      BY DEF ServicesOK
    <3> QED BY ONLY <3>1 DEF moved
  <2>5. o.remote = moved(c) /\ o.value = c.resourceVersion
    BY <1>2
  <2> QED BY <2>1, <2>3, <2>4, <2>5 DEF GoodAnswer
<1>3. CASE remote.replies[key] # None /\ o = Replayed(key, r)
  <2>1. o = Refused \/ o = Accepted(remote.replies[key].value, remote)
    BY <1>3 DEF Replayed
  <2>2. remote.replies[key].value \in 1 .. remote.booking.resourceVersion
    BY <1>3 DEF ServicesOK
  <2> HIDE DEF o
  <2>3. CASE o = Refused
    BY <2>3, RefusalIsGood DEF o
  <2>4. CASE o = Accepted(remote.replies[key].value, remote)
    <3>1. o.remote = remote /\ o.value = remote.replies[key].value
      BY <2>4 DEF Accepted
    <3> QED BY <2>2, <3>1, ExtendsItself DEF GoodAnswer, o
  <2> QED BY <2>1, <2>3, <2>4 DEF o
<1>4. CASE o = recorded(b)
  BY <1>2, <1>4
<1>5. CASE d.accepted /\ o = recorded(d.after)
  BY <1>2, <1>5
<1>6. CASE o = Refused
  BY <1>6, RefusalIsGood
<1> QED BY <1>1, <1>3, <1>4, <1>5, <1>6

\* A command of Payment Service that is accepted answers with a payment.
LEMMA PaymentAnswerIsGood ==
  ASSUME ServicesOK(remote), HasPayment(remote), NEW key \in PaymentKeys, NEW version,
         NEW from, NEW to \in GatewayPaymentStatus,
         key = "capture" => to \in {"UNKNOWN", "CAPTURED"}
  PROVE  LET o == PaymentAnswer(key, version, from, to)
         IN  /\ GoodAnswer(o)
             /\ o.ok => /\ o.value \in SagaPayment
                        /\ key = "capture" => o.value.status \in {"UNKNOWN", "CAPTURED"}
<1> DEFINE p == remote.payment
           after == [status |-> to, version |-> p.version + 1]
           moved == [remote EXCEPT !.payment = after,
                       !.replies[key] = [request |-> version, value |-> after]]
           o == PaymentAnswer(key, version, from, to)
<1>1. \/ remote.replies[key] # None /\ o = Accepted(remote.replies[key].value, remote)
      \/ o = Accepted(after, moved)
      \/ o = Refused
  BY DEF PaymentAnswer, Replayed
<1>2. after \in SagaPayment /\ after.status = to
  BY DEF HasPayment, SagaPayment
<1>3. ServicesOK(moved) /\ Extends(remote, moved)
  <2> HIDE DEF after
  <2> QED BY <1>2, PaymentMoves
<1> HIDE DEF after, moved, o
<1>4. CASE remote.replies[key] # None /\ o = Accepted(remote.replies[key].value, remote)
  <2>1. o.remote = remote /\ o.value = remote.replies[key].value
    BY <1>4 DEF Accepted
  <2>2. /\ remote.replies[key].value \in SagaPayment
        /\ key = "capture" => remote.replies[key].value.status \in {"UNKNOWN", "CAPTURED"}
    BY <1>4 DEF ServicesOK
  <2> QED BY <2>1, <2>2, ExtendsItself DEF GoodAnswer, o
<1>5. CASE o = Accepted(after, moved)
  <2>1. o.remote = moved /\ o.value = after
    BY <1>5 DEF Accepted
  <2> QED BY <1>2, <1>3, <2>1 DEF GoodAnswer, o
<1>6. CASE o = Refused
  BY <1>6, RefusalIsGood DEF o
<1> QED BY <1>1, <1>4, <1>5, <1>6

\* create_payment answers with the payment it made, however often it is called.
LEMMA CreatePaymentIsGood ==
  ASSUME ServicesOK(remote)
  PROVE  /\ GoodAnswer(CreatePaymentAnswer) /\ HasPayment(CreatePaymentAnswer.remote)
         /\ CreatePaymentAnswer.value \in SagaPayment
<1>1. CASE remote.payment # None
  <2>1. HasPayment(remote)
    BY <1>1 DEF ServicesOK, HasPayment
  <2>2. remote.replies["payment-create"].value \in SagaPayment
    BY <2>1 DEF ServicesOK
  <2>3. /\ CreatePaymentAnswer.remote = remote
        /\ CreatePaymentAnswer.value = remote.replies["payment-create"].value
    BY <1>1 DEF CreatePaymentAnswer, Accepted
  <2> QED BY <2>1, <2>2, <2>3, ExtendsItself DEF GoodAnswer
<1>2. CASE remote.payment = None
  <2> DEFINE p == [status |-> "PENDING", version |-> 1]
             t == [remote EXCEPT !.payment = p,
                     !.replies["payment-create"] = [request |-> None, value |-> p]]
  <2>1. p \in SagaPayment
    BY DEF SagaPayment, GatewayPaymentStatus
  <2>2. ServicesOK(t) /\ Extends(remote, t) /\ HasPayment(t)
    <3> HIDE DEF p
    <3> QED BY <2>1, PaymentMoves
  <2>3. CreatePaymentAnswer.remote = t /\ CreatePaymentAnswer.value = p
    BY <1>2 DEF CreatePaymentAnswer, Accepted
  <2> QED BY <2>1, <2>2, <2>3 DEF GoodAnswer
<1> QED BY <1>1, <1>2

\* authorize answers with a payment.
LEMMA AuthorizeIsGood ==
  ASSUME ServicesOK(remote), HasPayment(remote), NEW version
  PROVE  LET o == AuthorizeAnswer(version) IN GoodAnswer(o) /\ (o.ok => o.value \in SagaPayment)
<1> DEFINE failed == PaymentAnswer("authorize", version, {"PENDING"}, "FAILED")
           done   == PaymentAnswer("authorize", version, {"PENDING"}, "AUTHORIZED")
<1>1. "authorize" \in PaymentKeys /\ {"FAILED", "AUTHORIZED"} \subseteq GatewayPaymentStatus
  BY DEF PaymentKeys, GatewayPaymentStatus
<1>2. GoodAnswer(failed) /\ (failed.ok => failed.value \in SagaPayment)
  BY <1>1, PaymentAnswerIsGood
<1>3. GoodAnswer(done) /\ (done.ok => done.value \in SagaPayment)
  BY <1>1, PaymentAnswerIsGood
<1>4. AuthorizeAnswer(version) \in {Refused, failed, done}
  BY DEF AuthorizeAnswer
<1> HIDE DEF failed, done
<1> QED BY <1>2, <1>3, <1>4, RefusalIsGood

\* capture answers with a payment that is captured or of unknown outcome.
LEMMA CaptureIsGood ==
  ASSUME ServicesOK(remote), HasPayment(remote), NEW version
  PROVE  LET o == CaptureAnswer(version)
         IN  /\ GoodAnswer(o)
             /\ o.ok => o.value \in SagaPayment /\ o.value.status \in {"UNKNOWN", "CAPTURED"}
<1> DEFINE to == IF remote.scenario = "TIMEOUT" THEN "UNKNOWN" ELSE "CAPTURED"
<1>1. "capture" \in PaymentKeys /\ to \in GatewayPaymentStatus /\ to \in {"UNKNOWN", "CAPTURED"}
  BY DEF PaymentKeys, GatewayPaymentStatus
<1>2. CaptureAnswer(version) = PaymentAnswer("capture", version, {"AUTHORIZED"}, to)
  BY DEF CaptureAnswer
<1> HIDE DEF to
<1> QED BY <1>1, <1>2, PaymentAnswerIsGood

\* The payment is cancelled at the version the caller has seen, or not at all.
LEMMA CancelPaymentIsGood ==
  ASSUME ServicesOK(remote), HasPayment(remote), NEW version
  PROVE  GoodAnswer(CancelPaymentAnswer(version))
<1> DEFINE p == [status |-> "CANCELLED", version |-> version + 1]
           t == [remote EXCEPT !.payment = p]
           o == CancelPaymentAnswer(version)
<1>1. CASE /\ remote.payment.status \in {"PENDING", "AUTHORIZED"}
           /\ remote.payment.version = version
  <2>1. p \in SagaPayment
    BY <1>1 DEF SagaPayment, GatewayPaymentStatus, HasPayment
  <2>2. ServicesOK(t) /\ Extends(remote, t)
    <3> HIDE DEF p
    <3> QED BY <2>1, PaymentChanges
  <2>3. o.remote = t
    BY <1>1 DEF CancelPaymentAnswer, Accepted
  <2> QED BY <2>2, <2>3 DEF GoodAnswer
<1>2. CASE ~(remote.payment.status \in {"PENDING", "AUTHORIZED"}
             /\ remote.payment.version = version)
  BY <1>2, RefusalIsGood DEF CancelPaymentAnswer
<1> QED BY <1>1, <1>2

\* A refund that names no amount is refused.
LEMMA RefundIsGood ==
  ASSUME ServicesOK(remote), NEW r, r.amount = None
  PROVE  GoodAnswer(RefundAnswer(r))
<1>1. RefundAnswer(r) = Refused
  BY DEF RefundAnswer
<1> QED BY <1>1, RefusalIsGood

\* reserve answers with the reservation's first version.
LEMMA ReserveIsGood ==
  ASSUME ServicesOK(remote)
  PROVE  GoodAnswer(ReserveAnswer) /\ HasSeats(ReserveAnswer.remote) /\ ReserveAnswer.value = 1
<1>1. CASE remote.reservation # None
  <2>1. HasSeats(remote)
    BY <1>1 DEF ServicesOK, HasSeats
  <2>2. ReserveAnswer.remote = remote /\ ReserveAnswer.value = 1
    BY <1>1 DEF ReserveAnswer, Accepted
  <2> QED BY <2>1, <2>2, ExtendsItself DEF GoodAnswer
<1>2. CASE remote.reservation = None
  <2> DEFINE v == [status |-> "ACTIVE", version |-> 1]
             t == [remote EXCEPT !.reservation = v]
  <2>1. v \in SagaReservation
    BY DEF SagaReservation
  <2>2. ~Sold(remote)
    BY <1>2, SagaAssumption DEF Sold, HasSeats
  <2>3. ServicesOK(t) /\ Extends(remote, t) /\ HasSeats(t)
    <3> HIDE DEF v
    <3> QED BY <2>1, <2>2, SeatsChange
  <2>4. ReserveAnswer.remote = t /\ ReserveAnswer.value = 1
    BY <1>2 DEF ReserveAnswer, Accepted
  <2> QED BY <2>3, <2>4 DEF GoodAnswer
<1> QED BY <1>1, <1>2

\* Seats that Seat Inventory says are confirmed are sold.
LEMMA ConfirmSeatsIsGood ==
  ASSUME ServicesOK(remote), HasSeats(remote), NEW version
  PROVE  LET o == ConfirmSeatsAnswer(version)
         IN  GoodAnswer(o) /\ (o.ok => Sold(o.remote) /\ o.value \in Nat)
<1> DEFINE s == remote.reservation
           v == [status |-> "CONFIRMED", version |-> s.version + 1]
           t == [remote EXCEPT !.reservation = v]
           o == ConfirmSeatsAnswer(version)
<1>1. s \in SagaReservation /\ s.version \in Nat
  BY DEF HasSeats, SagaReservation
<1>2. CASE s.status = "CONFIRMED"
  <2>1. o.remote = remote /\ o.value = s.version
    BY <1>2 DEF ConfirmSeatsAnswer, Accepted
  <2>2. Sold(remote)
    BY <1>2 DEF Sold
  <2> QED BY <1>1, <2>1, <2>2, ExtendsItself DEF GoodAnswer
<1>3. CASE s.status = "ACTIVE" /\ now < HoldEnds /\ s.version = version
  <2>1. v \in SagaReservation /\ v.status = "CONFIRMED" /\ v.version \in Nat
    BY <1>1 DEF SagaReservation
  <2>2. ServicesOK(t) /\ Extends(remote, t) /\ Sold(t)
    <3> HIDE DEF v
    <3> QED BY <2>1, SeatsChange
  <2>3. o.remote = t /\ o.value = v.version
    BY <1>3 DEF ConfirmSeatsAnswer, Accepted
  <2> QED BY <2>1, <2>2, <2>3 DEF GoodAnswer
<1>4. CASE o = Refused
  BY <1>4, RefusalIsGood
<1>5. \/ s.status = "CONFIRMED" \/ o = Refused
      \/ s.status = "ACTIVE" /\ now < HoldEnds /\ s.version = version
  BY DEF ConfirmSeatsAnswer
<1> QED BY <1>2, <1>3, <1>4, <1>5

\* Sold seats are not released.
LEMMA ReleaseSeatsIsGood ==
  ASSUME ServicesOK(remote), HasSeats(remote)
  PROVE  GoodAnswer(ReleaseSeatsAnswer)
<1> DEFINE s == remote.reservation
           v == [status |-> "RELEASED", version |-> s.version + 1]
           t == [remote EXCEPT !.reservation = v]
<1>1. CASE s.status \in {"RELEASED", "EXPIRED"}
  <2>1. ReleaseSeatsAnswer.remote = remote
    BY <1>1 DEF ReleaseSeatsAnswer, Accepted
  <2> QED BY <2>1, ExtendsItself DEF GoodAnswer
<1>2. CASE s.status = "ACTIVE"
  <2>1. v \in SagaReservation
    BY DEF SagaReservation, HasSeats
  <2>2. ~Sold(remote)
    BY <1>2 DEF Sold
  <2>3. ServicesOK(t) /\ Extends(remote, t)
    <3> HIDE DEF v
    <3> QED BY <2>1, <2>2, SeatsChange
  <2>4. ReleaseSeatsAnswer.remote = t
    BY <1>2 DEF ReleaseSeatsAnswer, Accepted
  <2> QED BY <2>3, <2>4 DEF GoodAnswer
<1>3. CASE s.status \notin {"RELEASED", "EXPIRED", "ACTIVE"}
  BY <1>3, RefusalIsGood DEF ReleaseSeatsAnswer
<1> QED BY <1>1, <1>2, <1>3

\* Tickets are issued for sold seats only.
LEMMA IssueTicketsIsGood ==
  ASSUME ServicesOK(remote), Sold(remote)
  PROVE  GoodAnswer(IssueTicketsAnswer) /\ IssueTicketsAnswer.value = TicketIds
<1> DEFINE t == [remote EXCEPT !.tickets = "VALID"]
<1>1. ServicesOK(t) /\ Extends(remote, t)
  BY TicketsChange
<1>2. IssueTicketsAnswer.remote \in {remote, t} /\ IssueTicketsAnswer.value = TicketIds
  BY DEF IssueTicketsAnswer, Accepted
<1> HIDE DEF t
<1> QED BY <1>1, <1>2, ExtendsItself DEF GoodAnswer

\* Only tickets that were issued are cancelled.
LEMMA CancelTicketsIsGood ==
  ASSUME ServicesOK(remote), Sold(remote)
  PROVE  GoodAnswer(Accepted(None, [remote EXCEPT !.tickets = "CANCELLED"]))
<1> DEFINE t == [remote EXCEPT !.tickets = "CANCELLED"]
<1>1. ServicesOK(t) /\ Extends(remote, t)
  BY TicketsChange
<1>2. Accepted(None, t).remote = t
  BY DEF Accepted
<1> HIDE DEF t
<1>3. GoodAnswer(Accepted(None, t))
  BY <1>1, <1>2 DEF GoodAnswer
<1> QED BY <1>3 DEF t

-----------------------------------------------------------------------------
(* Where an actor goes next.                                                *)

\* An idle actor is what it should be.
LEMMA IdleIsOK ==
  ASSUME NEW s, NEW w
  PROVE  ActorOK(Idle, s, w)
BY DEF Idle, ActorOK, Actor, Pcs

\* An actor with another workflow drives that one.
LEMMA DrivesOther ==
  ASSUME NEW s, NEW x, Driving(x, s), NEW w, WorkflowOK(w, s)
  PROVE  LET y == [x EXCEPT !.wf = w] IN Driving(y, s) /\ y.wf = w /\ y.run = x.run
<1> DEFINE y == [x EXCEPT !.wf = w]
<1>1. x \in Actor /\ w \in Workflow
  BY DEF Driving, WorkflowOK
<1>2. y \in Actor /\ y.wf = w /\ y.run = x.run /\ y.listed = x.listed
  BY <1>1 DEF Actor
<1> HIDE DEF y
<1>3. Driving(y, s)
  BY <1>2 DEF Driving
<1> QED BY <1>2, <1>3 DEF y

\* What an actor notes about its own run changes nothing else.
LEMMA DrivesOn ==
  ASSUME NEW s, NEW x, Driving(x, s), NEW p \in SagaPayment \cup {None}
  PROVE  /\ LET y == [x EXCEPT !.seen = p] IN Driving(y, s) /\ y.wf = x.wf /\ y.run = x.run
         /\ \A flag \in BOOLEAN :
              /\ LET y == [x EXCEPT !.complete = flag]
                 IN  Driving(y, s) /\ y.wf = x.wf /\ y.run = x.run
              /\ LET y == [x EXCEPT !.released = flag]
                 IN  Driving(y, s) /\ y.wf = x.wf /\ y.run = x.run
              /\ LET y == [x EXCEPT !.refunded = flag]
                 IN  Driving(y, s) /\ y.wf = x.wf /\ y.run = x.run
<1>1. x \in Actor
  BY DEF Driving
<1>2. ASSUME NEW y \in Actor, y.wf = x.wf, y.run = x.run, y.listed = x.listed
      PROVE  Driving(y, s) /\ y.wf = x.wf /\ y.run = x.run
  BY <1>2 DEF Driving
<1>3. LET y == [x EXCEPT !.seen = p]
      IN  y \in Actor /\ y.wf = x.wf /\ y.run = x.run /\ y.listed = x.listed
  BY <1>1 DEF Actor
<1>4. ASSUME NEW flag \in BOOLEAN
      PROVE  /\ LET y == [x EXCEPT !.complete = flag]
                IN  y \in Actor /\ y.wf = x.wf /\ y.run = x.run /\ y.listed = x.listed
             /\ LET y == [x EXCEPT !.released = flag]
                IN  y \in Actor /\ y.wf = x.wf /\ y.run = x.run /\ y.listed = x.listed
             /\ LET y == [x EXCEPT !.refunded = flag]
                IN  y \in Actor /\ y.wf = x.wf /\ y.run = x.run /\ y.listed = x.listed
  BY <1>1 DEF Actor
<1> QED BY <1>2, <1>3, <1>4

\* An actor may go on to a step whose needs its workflow meets.
LEMMA MovesTo ==
  ASSUME NEW s, NEW x, Driving(x, s), NEW w, NEW step \in Pcs \ {"begin"}, Knows(x.wf, step),
         step \in {"saveListed", "getPayment", "refresh"} => x.run \in WorkerRuns
  PROVE  ActorOK(GoTo(x, step), s, w) /\ ActorOK(SaveAndGoTo(x, step), s, w)
<1>1. x \in Actor
  BY DEF Driving
<1>2. ASSUME NEW y \in Actor, y.pc = step, y.wf = x.wf, y.run = x.run, y.listed = x.listed
      PROVE  ActorOK(y, s, w)
  <2>1. Driving(y, s)
    BY <1>2 DEF Driving
  <2> QED BY <1>2, <2>1 DEF ActorOK, Driving
<1>3. LET y == GoTo(x, step) IN /\ y \in Actor /\ y.pc = step /\ y.wf = x.wf /\ y.run = x.run
                                /\ y.listed = x.listed
  BY <1>1 DEF GoTo, Actor
<1>4. LET y == SaveAndGoTo(x, step)
      IN  y \in Actor /\ y.pc = step /\ y.wf = x.wf /\ y.run = x.run /\ y.listed = x.listed
  BY <1>1 DEF SaveAndGoTo, Actor
<1> QED BY <1>2, <1>3, <1>4

\* So is one that notes that its workflow has to be saved first.
LEMMA MarksDirty ==
  ASSUME NEW s, NEW w, NEW y, ActorOK(y, s, w), Driving(y, s), Knows(y.wf, y.pc)
  PROVE  ActorOK([y EXCEPT !.dirty = TRUE], s, w)
<1> DEFINE z == [y EXCEPT !.dirty = TRUE]
<1>1. /\ z \in Actor /\ z.pc = y.pc /\ z.wf = y.wf /\ z.run = y.run /\ z.listed = y.listed
  BY DEF ActorOK, Actor
<1> HIDE DEF z
<1>2. Driving(z, s)
  BY <1>1 DEF Driving
<1>3. ActorOK(z, s, w)
  BY <1>1, <1>2 DEF ActorOK
<1> QED BY <1>3 DEF z

\* An exception ends the run of a request; the worker falls back to what it listed.
LEMMA PropagatesIsOK ==
  ASSUME NEW s, NEW x, Driving(x, s), NEW w
  PROVE  ActorOK(Propagates(x), s, w)
<1>1. CASE x.run \in WorkerRuns
  <2>1. Propagates(x) = GoTo(x, "saveListed")
    BY <1>1 DEF Propagates, RaisedTo, WorkerRuns
  <2>2. "saveListed" \in Pcs \ {"begin"} /\ Knows(x.wf, "saveListed")
    BY DEF Pcs, Knows, NeedsBooking, NeedsSeats, NeedsPayment, NeedsSold
  <2> QED BY <1>1, <2>1, <2>2, MovesTo
<1>2. CASE x.run \notin WorkerRuns
  <2>1. Propagates(x) = Idle
    BY <1>2 DEF Propagates, RaisedTo, WorkerRuns
  <2> QED BY <2>1, IdleIsOK
<1> QED BY <1>1, <1>2

\* The last save of a run.
LEMMA SavesLast ==
  ASSUME NEW s, NEW x, Driving(x, s), NEW w
  PROVE  ActorOK(SaveAndGoTo(x, RaisedTo(x)), s, w) /\ ActorOK(SaveAndGoTo(x, "idle"), s, w)
<1>1. /\ RaisedTo(x) \in {"saveListed", "idle"}
      /\ RaisedTo(x) = "saveListed" => x.run \in WorkerRuns
  BY DEF RaisedTo, WorkerRuns
<1>2. /\ {"saveListed", "idle"} \subseteq Pcs \ {"begin"}
      /\ Knows(x.wf, "saveListed") /\ Knows(x.wf, "idle")
  BY DEF Pcs, Knows, NeedsBooking, NeedsSeats, NeedsPayment, NeedsSold
<1> QED BY <1>1, <1>2, MovesTo

-----------------------------------------------------------------------------
(* What a workflow may come to remember.                                    *)

\* A status that says that the seats are sold needs them to be.
LEMMA StatusIsOK ==
  ASSUME NEW s, NEW w, WorkflowOK(w, s), NEW status \in WorkflowStatus,
         status \in {"SEAT_CONFIRMED", "TICKETS_ISSUED", "CONFIRMED"} => Sold(s)
  PROVE  LET u == [w EXCEPT !.status = status]
         IN  /\ WorkflowOK(u, s) /\ u.bookingId = w.bookingId
             /\ u.reservationId = w.reservationId /\ u.paymentId = w.paymentId
             /\ u.steps = w.steps /\ u.ticketIds = w.ticketIds
             /\ u.paymentStatus = w.paymentStatus
<1> DEFINE u == [w EXCEPT !.status = status]
<1>1. w \in Workflow
  BY DEF WorkflowOK
<1>2. u \in Workflow
  BY <1>1 DEF Workflow
<1>3. /\ u.status = status /\ u.paymentStatus = w.paymentStatus /\ u.bookingId = w.bookingId
      /\ u.version = w.version /\ u.reservationId = w.reservationId
      /\ u.reservationVersion = w.reservationVersion /\ u.paymentId = w.paymentId
      /\ u.ticketIds = w.ticketIds /\ u.steps = w.steps
  BY <1>1 DEF Workflow
<1> HIDE DEF u
<1> QED BY <1>2, <1>3 DEF WorkflowOK, u

\* An outcome of the payment belongs to a booking.
LEMMA PaymentStatusIsOK ==
  ASSUME NEW s, NEW w, WorkflowOK(w, s), w.bookingId, NEW status \in GatewayPaymentStatus
  PROVE  LET u == [w EXCEPT !.paymentStatus = status]
         IN  /\ WorkflowOK(u, s) /\ u.bookingId = w.bookingId
             /\ u.reservationId = w.reservationId /\ u.paymentId = w.paymentId
             /\ u.steps = w.steps /\ u.ticketIds = w.ticketIds
             /\ u.paymentStatus = status
<1> DEFINE u == [w EXCEPT !.paymentStatus = status]
<1>1. w \in Workflow
  BY DEF WorkflowOK
<1>2. u \in Workflow
  BY <1>1 DEF Workflow
<1>3. /\ u.status = w.status /\ u.paymentStatus = status /\ u.bookingId = w.bookingId
      /\ u.version = w.version /\ u.reservationId = w.reservationId
      /\ u.reservationVersion = w.reservationVersion /\ u.paymentId = w.paymentId
      /\ u.ticketIds = w.ticketIds /\ u.steps = w.steps
  BY <1>1 DEF Workflow
<1> HIDE DEF u
<1> QED BY <1>2, <1>3 DEF WorkflowOK, u

\* The step that sells the seats is remembered when they are sold.
LEMMA StepsAreOK ==
  ASSUME NEW s, NEW w, WorkflowOK(w, s), NEW more \in SUBSET CompletedSteps,
         "seatConfirmed" \in more => Sold(s)
  PROVE  LET u == [w EXCEPT !.steps = @ \cup more]
         IN  /\ WorkflowOK(u, s) /\ u.bookingId = w.bookingId
             /\ u.reservationId = w.reservationId /\ u.paymentId = w.paymentId
             /\ u.steps = w.steps \cup more
             /\ u.paymentStatus = w.paymentStatus
<1> DEFINE u == [w EXCEPT !.steps = @ \cup more]
<1>1. w \in Workflow /\ w.steps \cup more \in SUBSET CompletedSteps
  BY DEF WorkflowOK, Workflow
<1>2. u \in Workflow
  BY <1>1 DEF Workflow
<1>3. /\ u.status = w.status /\ u.paymentStatus = w.paymentStatus /\ u.bookingId = w.bookingId
      /\ u.version = w.version /\ u.reservationId = w.reservationId
      /\ u.reservationVersion = w.reservationVersion /\ u.paymentId = w.paymentId
      /\ u.ticketIds = w.ticketIds /\ u.steps = w.steps \cup more
  BY <1>1 DEF Workflow
<1> HIDE DEF u
<1> QED BY <1>2, <1>3 DEF WorkflowOK, u

\* Any version of the booking may be remembered.
LEMMA VersionIsOK ==
  ASSUME NEW s, NEW w, WorkflowOK(w, s), NEW v \in Nat
  PROVE  LET u == [w EXCEPT !.version = v]
         IN  /\ WorkflowOK(u, s) /\ u.bookingId = w.bookingId
             /\ u.reservationId = w.reservationId /\ u.paymentId = w.paymentId
             /\ u.steps = w.steps /\ u.ticketIds = w.ticketIds
             /\ u.paymentStatus = w.paymentStatus
<1> DEFINE u == [w EXCEPT !.version = v]
<1>1. w \in Workflow
  BY DEF WorkflowOK
<1>2. u \in Workflow
  BY <1>1 DEF Workflow
<1>3. /\ u.status = w.status /\ u.paymentStatus = w.paymentStatus /\ u.bookingId = w.bookingId
      /\ u.reservationId = w.reservationId
      /\ u.reservationVersion = w.reservationVersion /\ u.paymentId = w.paymentId
      /\ u.ticketIds = w.ticketIds /\ u.steps = w.steps
  BY <1>1 DEF Workflow
<1> HIDE DEF u
<1> QED BY <1>2, <1>3 DEF WorkflowOK, u

\* So may any version of the reservation.
LEMMA ReservationVersionIsOK ==
  ASSUME NEW s, NEW w, WorkflowOK(w, s), NEW v \in Nat
  PROVE  LET u == [w EXCEPT !.reservationVersion = v]
         IN  /\ WorkflowOK(u, s) /\ u.bookingId = w.bookingId
             /\ u.reservationId = w.reservationId /\ u.paymentId = w.paymentId
             /\ u.steps = w.steps /\ u.ticketIds = w.ticketIds
             /\ u.paymentStatus = w.paymentStatus
<1> DEFINE u == [w EXCEPT !.reservationVersion = v]
<1>1. w \in Workflow /\ v # None
  BY NoneIsNoValue DEF WorkflowOK
<1>2. u \in Workflow
  BY <1>1 DEF Workflow
<1>3. /\ u.status = w.status /\ u.paymentStatus = w.paymentStatus /\ u.bookingId = w.bookingId
      /\ u.reservationId = w.reservationId
      /\ u.reservationVersion = v /\ u.paymentId = w.paymentId
      /\ u.ticketIds = w.ticketIds /\ u.steps = w.steps
  BY <1>1 DEF Workflow
<1> HIDE DEF u
<1> QED BY <1>1, <1>2, <1>3 DEF WorkflowOK, u

\* Tickets are remembered when the seats are sold.
LEMMA TicketIdsAreOK ==
  ASSUME NEW s, NEW w, WorkflowOK(w, s), NEW ids \in SUBSET TicketIds, ids # {} => Sold(s)
  PROVE  LET u == [w EXCEPT !.ticketIds = ids]
         IN  /\ WorkflowOK(u, s) /\ u.bookingId = w.bookingId
             /\ u.reservationId = w.reservationId /\ u.paymentId = w.paymentId
             /\ u.steps = w.steps /\ u.ticketIds = ids
             /\ u.paymentStatus = w.paymentStatus
<1> DEFINE u == [w EXCEPT !.ticketIds = ids]
<1>1. w \in Workflow
  BY DEF WorkflowOK
<1>2. u \in Workflow
  BY <1>1 DEF Workflow
<1>3. /\ u.status = w.status /\ u.paymentStatus = w.paymentStatus /\ u.bookingId = w.bookingId
      /\ u.reservationId = w.reservationId
      /\ u.reservationVersion = w.reservationVersion /\ u.paymentId = w.paymentId
      /\ u.ticketIds = ids /\ u.steps = w.steps
  BY <1>1 DEF Workflow
<1> HIDE DEF u
<1> QED BY <1>2, <1>3 DEF WorkflowOK, u

\* So is any answer to the customer.
Responses == {None, 201, 202, 402, 409}

\* A workflow that answers the customer is as it was.
LEMMA ResponseIsOK ==
  ASSUME NEW s, NEW w, WorkflowOK(w, s), NEW code \in Responses
  PROVE  LET u == [w EXCEPT !.response = code]
         IN  /\ WorkflowOK(u, s) /\ u.bookingId = w.bookingId
             /\ u.reservationId = w.reservationId /\ u.paymentId = w.paymentId
             /\ u.steps = w.steps /\ u.ticketIds = w.ticketIds
             /\ u.paymentStatus = w.paymentStatus
<1> DEFINE u == [w EXCEPT !.response = code]
<1>1. w \in Workflow
  BY DEF WorkflowOK
<1>2. u \in Workflow
  BY <1>1 DEF Workflow, Responses
<1>3. /\ u.status = w.status /\ u.paymentStatus = w.paymentStatus /\ u.bookingId = w.bookingId
      /\ u.reservationId = w.reservationId
      /\ u.reservationVersion = w.reservationVersion /\ u.paymentId = w.paymentId
      /\ u.ticketIds = w.ticketIds /\ u.steps = w.steps
  BY <1>1 DEF Workflow
<1> HIDE DEF u
<1> QED BY <1>2, <1>3 DEF WorkflowOK, u

-----------------------------------------------------------------------------
(* Longer ways on.                                                          *)

\* _fail_pre_capture_workflow ends with a saved status.
LEMMA PreCaptureEndsIsOK ==
  ASSUME NEW s, NEW x, Driving(x, s), NEW w
  PROVE  ActorOK(PreCaptureEnds(x), s, w)
<1> DEFINE status == IF x.complete THEN "FAILED" ELSE "COMPENSATION_PENDING"
           u == [x.wf EXCEPT !.status = status]
           y == [x EXCEPT !.wf = u]
<1>1. WorkflowOK(u, s)
  BY StatusIsOK DEF Driving, WorkflowStatus
<1> HIDE DEF u
<1>2. Driving(y, s) /\ y.run = x.run
  BY <1>1, DrivesOther
<1>3. PreCaptureEnds(x) = SaveAndGoTo(y, RaisedTo(y))
  <2>1. RaisedTo(y) = RaisedTo(x)
    BY <1>2 DEF RaisedTo
  <2>2. [x EXCEPT !.wf.status = status] = y
    BY DEF u
  <2> QED BY <2>1, <2>2 DEF PreCaptureEnds
<1> HIDE DEF y
<1> QED BY <1>2, <1>3, SavesLast

\* After the payment: the seats, the booking, or nothing.
LEMMA AfterMoneyIsOK ==
  ASSUME NEW s, NEW x, Driving(x, s), NEW w
  PROVE  ActorOK(AfterMoney(x), s, w)
<1>1. WorkflowOK(x.wf, s)
  BY DEF Driving
<1>2. x.wf.reservationId => x.wf.bookingId
  BY <1>1 DEF WorkflowOK
<1>3. CASE x.wf.reservationId
  <2>1. AfterMoney(x) = GoTo(x, "releaseSeats")
    BY <1>3 DEF AfterMoney
  <2>2. "releaseSeats" \in Pcs \ {"begin"} /\ Knows(x.wf, "releaseSeats")
    BY <1>3 DEF Pcs, Knows, NeedsBooking, NeedsSeats, NeedsPayment, NeedsSold
  <2> QED BY <2>1, <2>2, MovesTo
<1>4. CASE ~x.wf.reservationId /\ x.wf.bookingId
  <2>1. AfterMoney(x) = GoTo(x, ClosingStep(x))
    BY <1>4 DEF AfterMoney
  <2>2. /\ ClosingStep(x) \in Pcs \ {"begin", "saveListed", "getPayment", "refresh"}
        /\ Knows(x.wf, ClosingStep(x))
    BY <1>4 DEF Pcs, Knows, NeedsBooking, NeedsSeats, NeedsPayment, NeedsSold, ClosingStep
  <2> QED BY <2>1, <2>2, MovesTo
<1>5. CASE ~x.wf.reservationId /\ ~x.wf.bookingId
  <2>1. AfterMoney(x) = PreCaptureEnds(x)
    BY <1>5 DEF AfterMoney
  <2> QED BY <2>1, PreCaptureEndsIsOK
<1> QED BY <1>3, <1>4, <1>5

\* Taking back starts with the payment there is.
LEMMA UndoIsOK ==
  ASSUME NEW s, NEW x, Driving(x, s), NEW w
  PROVE  ActorOK(UndoResources(x), s, w)
<1>1. CASE x.wf.paymentId
  <2>1. UndoResources(x) = GoTo(x, "queryPayment")
    BY <1>1 DEF UndoResources
  <2>2. "queryPayment" \in Pcs \ {"begin"} /\ Knows(x.wf, "queryPayment")
    BY <1>1 DEF Pcs, Knows, NeedsBooking, NeedsSeats, NeedsPayment, NeedsSold
  <2> QED BY <2>1, <2>2, MovesTo
<1>2. CASE ~x.wf.paymentId
  BY <1>2, AfterMoneyIsOK DEF UndoResources
<1> QED BY <1>1, <1>2

\* _handle_unexpected_failure, whose result is driven on.
LEMMA UnexpectedIsOK ==
  ASSUME NEW s, NEW x, Driving(x, s), NEW w
  PROVE  ActorOK(Unexpected(x), s, w)
<1>1. WorkflowOK(x.wf, s)
  BY DEF Driving
<1>2. CASE x.wf.paymentStatus \in {"CAPTURED", "UNKNOWN"}
  <2> DEFINE u == [x.wf EXCEPT !.status = "COMPENSATION_PENDING"]
             y == [x EXCEPT !.wf = u]
  <2>1. WorkflowOK(u, s) /\ u.bookingId = x.wf.bookingId
    BY <1>1, StatusIsOK DEF WorkflowStatus
  <2>2. x.wf.bookingId
    BY <1>1, <1>2 DEF WorkflowOK
  <2>3. Unexpected(x) = GoTo(y, "markPending")
    BY <1>2 DEF Unexpected
  <2> HIDE DEF u
  <2>4. Driving(y, s) /\ y.wf = u
    BY <2>1, DrivesOther
  <2> HIDE DEF y
  <2>5. "markPending" \in Pcs \ {"begin"} /\ Knows(y.wf, "markPending")
    BY <2>1, <2>2, <2>4 DEF Pcs, Knows, NeedsBooking, NeedsSeats, NeedsPayment, NeedsSold
  <2> QED BY <2>3, <2>4, <2>5, MovesTo
<1>3. CASE /\ x.wf.paymentStatus \notin {"CAPTURED", "UNKNOWN"}
           /\ x.wf.status \notin TerminalWorkflowStatuses
  <2> DEFINE y == [x EXCEPT !.complete = TRUE]
  <2>1. Unexpected(x) = UndoResources(y)
    BY <1>3 DEF Unexpected
  <2>2. Driving(y, s)
    BY DrivesOn
  <2> HIDE DEF y
  <2> QED BY <2>1, <2>2, UndoIsOK
<1>4. CASE /\ x.wf.paymentStatus \notin {"CAPTURED", "UNKNOWN"}
           /\ x.wf.status \in TerminalWorkflowStatuses
  <2>1. Unexpected(x) = SaveAndGoTo(x, RaisedTo(x))
    BY <1>4 DEF Unexpected
  <2> QED BY <2>1, SavesLast
<1> QED BY <1>2, <1>3, <1>4

\* An exception, before the capture or after it.
LEMMA RaisedIsOK ==
  ASSUME NEW s, NEW x, Driving(x, s), NEW w
  PROVE  ActorOK(Raised(x), s, w) /\ ActorOK(RaisedAfterCapture(x), s, w)
BY UnexpectedIsOK, PropagatesIsOK DEF Raised, RaisedAfterCapture

\* A payment of unknown outcome belongs to a booking.
LEMMA RaisedUnknownIsOK ==
  ASSUME NEW s, NEW x, Driving(x, s), x.wf.bookingId, NEW w
  PROVE  ActorOK(RaisedUnknown(x), s, w)
<1>1. CASE x.run = "resume"
  BY <1>1, PropagatesIsOK DEF RaisedUnknown
<1>2. CASE x.run # "resume"
  <2> DEFINE u == [x.wf EXCEPT !.paymentStatus = "UNKNOWN"]
             y == [x EXCEPT !.wf = u]
  <2>1. WorkflowOK(u, s) /\ u.bookingId
    <3>1. WorkflowOK(x.wf, s) /\ "UNKNOWN" \in GatewayPaymentStatus
      BY DEF Driving, GatewayPaymentStatus
    <3> QED BY <3>1, PaymentStatusIsOK
  <2>2. RaisedUnknown(x) = GoTo(y, "persistUnknown")
    BY <1>2 DEF RaisedUnknown
  <2> HIDE DEF u
  <2>3. Driving(y, s) /\ y.wf = u
    BY <2>1, DrivesOther
  <2> HIDE DEF y
  <2>4. "persistUnknown" \in Pcs \ {"begin"} /\ Knows(y.wf, "persistUnknown")
    BY <2>1, <2>3 DEF Pcs, Knows, NeedsBooking, NeedsSeats, NeedsPayment, NeedsSold
  <2> QED BY <2>2, <2>3, <2>4, MovesTo
<1> QED BY <1>1, <1>2

\* A failed payment, which the booking is told of.
LEMMA FailedPaymentIsOK ==
  ASSUME NEW s, NEW x, Driving(x, s), x.wf.paymentId, NEW w
  PROVE  ActorOK(FailedPayment(x), s, w)
<1> DEFINE u == [x.wf EXCEPT !.paymentStatus = "FAILED"]
           y == [x EXCEPT !.wf = u]
<1>1. WorkflowOK(x.wf, s) /\ x.wf.reservationId /\ x.wf.bookingId
  BY DEF Driving, WorkflowOK
<1>2. WorkflowOK(u, s) /\ u.bookingId /\ u.reservationId /\ u.paymentId
  <2>1. "FAILED" \in GatewayPaymentStatus
    BY DEF GatewayPaymentStatus
  <2> QED BY <1>1, <2>1, PaymentStatusIsOK
<1>3. FailedPayment(x) = GoTo(y, "paymentFailed")
  BY DEF FailedPayment
<1> HIDE DEF u
<1>4. Driving(y, s) /\ y.wf = u
  BY <1>2, DrivesOther
<1> HIDE DEF y
<1>5. "paymentFailed" \in Pcs \ {"begin"} /\ Knows(y.wf, "paymentFailed")
  BY <1>2, <1>4 DEF Pcs, Knows, NeedsBooking, NeedsSeats, NeedsPayment, NeedsSold
<1> QED BY <1>3, <1>4, <1>5, MovesTo

\* The first step that is missing asks for no more than the workflow knows: tickets are not
\* issued before the seats are confirmed.
LEMMA FirstMissingIsKnown ==
  ASSUME NEW w, w.reservationId, w.bookingId
  PROVE  /\ FirstMissingStep(w) \in Pcs \ {"begin", "saveListed", "getPayment", "refresh"}
         /\ Knows(w, FirstMissingStep(w))
<1> DEFINE step == FirstMissingStep(w)
<1>1. /\ step \in {"recordPayment", "confirmSeats", "confirmReservation", "issueTickets",
                   "attachTickets", "confirmBooking", "finish"}
      /\ step \notin {"recordPayment", "confirmSeats"} => "seatConfirmed" \in w.steps
  <2>1. CASE "paymentRecorded" \notin w.steps
    BY <2>1 DEF FirstMissingStep
  <2>2. CASE "paymentRecorded" \in w.steps /\ "seatConfirmed" \notin w.steps
    BY <2>2 DEF FirstMissingStep
  <2>3. CASE "paymentRecorded" \in w.steps /\ "seatConfirmed" \in w.steps
    <3>1. step \in {"confirmReservation", "issueTickets", "attachTickets", "confirmBooking",
                   "finish"}
      BY <2>3 DEF FirstMissingStep
    <3> QED BY <2>3, <3>1
  <2> QED BY <2>1, <2>2, <2>3
<1> HIDE DEF step
<1>2. /\ step \in Pcs \ {"begin", "saveListed", "getPayment", "refresh", "cancelTickets"}
      /\ step \notin NeedsPayment
      /\ step \in NeedsSold => "seatConfirmed" \in w.steps
  BY <1>1 DEF Pcs, NeedsPayment, NeedsSold
<1> QED BY <1>2 DEF Knows, step

\* A finished step is remembered, and the next one follows.
LEMMA CompletedIsOK ==
  ASSUME NEW s, NEW x, Driving(x, s), x.wf.reservationId, NEW step \in CompletedSteps,
         step = "seatConfirmed" => Sold(s), NEW w
  PROVE  ActorOK(Completed(x, step), s, w)
<1> DEFINE u == [x.wf EXCEPT !.steps = @ \cup {step}]
           y == [x EXCEPT !.wf = u]
<1>1. WorkflowOK(x.wf, s) /\ x.wf.bookingId
  BY DEF Driving, WorkflowOK
<1>2. WorkflowOK(u, s) /\ u.bookingId /\ u.reservationId
  <2> DEFINE more == {step}
  <2>1. more \in SUBSET CompletedSteps /\ ("seatConfirmed" \in more => Sold(s))
    OBVIOUS
  <2>2. u = [x.wf EXCEPT !.steps = @ \cup more]
    OBVIOUS
  <2> HIDE DEF more, u
  <2> QED BY <1>1, <2>1, <2>2, StepsAreOK
<1>3. Completed(x, step) = SaveAndGoTo(y, FirstMissingStep(y.wf))
  BY DEF Completed
<1> HIDE DEF u
<1>4. Driving(y, s) /\ y.wf = u
  BY <1>2, DrivesOther
<1> HIDE DEF y
<1> QED BY <1>2, <1>3, <1>4, FirstMissingIsKnown, MovesTo

\* The head of _after_payment_captured, for a workflow with a payment.
LEMMA AfterCaptureIsOK ==
  ASSUME NEW s, NEW x, Driving(x, s), x.wf.paymentId, NEW w
  PROVE  LET y == AfterPaymentCaptured(x)
         IN  ActorOK(y, s, w) /\ ActorOK([y EXCEPT !.dirty = TRUE], s, w)
<1> DEFINE shown == StepsShownByStatus(x.wf)
           u == [x.wf EXCEPT !.steps = @ \cup shown]
           y == [x EXCEPT !.wf = u]
           z == GoTo(y, FirstMissingStep(y.wf))
<1>1. /\ WorkflowOK(x.wf, s) /\ x.wf.reservationId /\ x.wf.bookingId
      /\ x.wf.reservationVersion # None
  BY DEF Driving, WorkflowOK
<1>2. AfterPaymentCaptured(x) = z
  BY <1>1 DEF AfterPaymentCaptured, Forward
<1>3. shown \in SUBSET CompletedSteps /\ ("seatConfirmed" \in shown => Sold(s))
  BY <1>1 DEF StepsShownByStatus, CompletedSteps, WorkflowOK
<1> HIDE DEF shown
<1>4. WorkflowOK(u, s) /\ u.bookingId /\ u.reservationId
  BY <1>1, <1>3, StepsAreOK
<1> HIDE DEF u
<1>5. Driving(y, s) /\ y.wf = u
  BY <1>4, DrivesOther
<1> HIDE DEF y
<1>6. /\ FirstMissingStep(y.wf) \in Pcs \ {"begin", "saveListed", "getPayment", "refresh"}
      /\ Knows(y.wf, FirstMissingStep(y.wf))
  BY <1>4, <1>5, FirstMissingIsKnown
<1>7. ActorOK(z, s, w)
  BY <1>5, <1>6, MovesTo
<1>8. Driving(z, s) /\ Knows(z.wf, z.pc)
  <2>1. y \in Actor
    BY <1>5 DEF Driving
  <2>2. /\ z \in Actor /\ z.wf = y.wf /\ z.run = y.run /\ z.listed = y.listed
        /\ z.pc = FirstMissingStep(y.wf)
    BY <1>6, <2>1 DEF GoTo, Actor
  <2> HIDE DEF z
  <2> QED BY <1>5, <1>6, <2>2 DEF Driving
<1> HIDE DEF z
<1>9. ActorOK([z EXCEPT !.dirty = TRUE], s, w)
  BY <1>7, <1>8, MarksDirty
<1> QED BY <1>2, <1>7, <1>9

-----------------------------------------------------------------------------
(* What one step does to the invariant.                                     *)

\* A workflow, an actor and a cancellation that are as they should be stay so when the
\* services show more.
LEMMA WorkflowStays ==
  ASSUME NEW s, NEW t, Extends(s, t), NEW w, WorkflowOK(w, s)
  PROVE  WorkflowOK(w, t)
BY DEF Extends, WorkflowOK

\* So does an actor that drives a workflow ...
LEMMA DrivingStays ==
  ASSUME NEW s, NEW t, Extends(s, t), NEW x, Driving(x, s)
  PROVE  Driving(x, t)
BY WorkflowStays DEF Driving

\* ... any actor, also when the row is one that is as it should be ...
LEMMA ActorStays ==
  ASSUME NEW s, NEW t, Extends(s, t), NEW x, NEW w, NEW v, ActorOK(x, s, w),
         WorkflowOK(w, s) => WorkflowOK(v, t)
  PROVE  ActorOK(x, t, v)
BY WorkflowStays, DrivingStays DEF ActorOK

\* ... and a cancellation, whose booking only gets newer.
LEMMA CancelStays ==
  ASSUME NEW s, NEW t, ServicesOK(s), ServicesOK(t), Extends(s, t), NEW x, CancelOK(x, s)
  PROVE  CancelOK(x, t)
<1>1. CASE x.pc = "idle"
  BY <1>1 DEF CancelOK
<1>2. CASE x.pc # "idle"
  <2>1. /\ HasBooking(s) /\ HasBooking(t)
        /\ s.booking.resourceVersion <= t.booking.resourceVersion
        /\ s.booking.resourceVersion \in Nat /\ t.booking.resourceVersion \in Nat
    BY <1>2 DEF CancelOK, Extends, HasBooking, Booking
  <2>2. x.pc # "accept" => x.version \in 1 .. t.booking.resourceVersion
    BY <1>2, <2>1 DEF CancelOK
  <2> QED BY <1>2, <2>1, <2>2 DEF CancelOK, Extends
<1> QED BY <1>1, <1>2

\* A call of an actor keeps the invariant when its answer is good and each of the three
\* ways it can go on is.
LEMMA CallKeeps ==
  ASSUME SagaInv, NEW a \in Actors, NEW o, NEW good, NEW rejected, NEW lost,
         Call(a, o, good, rejected, lost), UNCHANGED <<cancel, cancels>>, GoodAnswer(o),
         o.ok => ActorOK(good, o.remote, row),
         ActorOK(rejected, remote, row), ActorOK(lost, remote, row)
  PROVE  SagaInv'
<1>1. /\ row' = row /\ outbox' = outbox /\ now' = now /\ crashes' = crashes
      /\ cancel' = cancel /\ cancels' = cancels
  BY DEF Call
<1>2. faults' \in 0 .. MaxFaults
  <2>1. faults \in 0 .. MaxFaults /\ MaxFaults \in Nat
    BY SagaAssumption DEF SagaInv, CountersOK, SagaBounds
  <2>2. faults' = faults \/ (faults < MaxFaults /\ faults' = faults + 1)
    BY DEF Call
  <2> QED BY <2>1, <2>2
<1>3. ServicesOK(remote') /\ Extends(remote, remote')
  BY ExtendsItself DEF Call, GoodAnswer, SagaInv
<1>0. WorkflowOK(row, remote) => WorkflowOK(row, remote')
  BY <1>3, WorkflowStays
<1>4. PICK y : /\ actors' = [actors EXCEPT ![a] = y]
               /\ ActorOK(y, remote', row)
  <2>1. CASE o.ok /\ remote' = o.remote /\ Becomes(a, good)
    BY <2>1 DEF Becomes
  <2>2. CASE ~o.ok /\ Becomes(a, rejected) /\ remote' = remote
    BY <2>2 DEF Becomes
  <2>3. CASE remote' \in {remote, o.remote} /\ Becomes(a, lost)
    <3>1. ActorOK(lost, remote', row)
      BY <1>0, <1>3, ActorStays
    <3> QED BY <2>3, <3>1 DEF Becomes
  <2> QED BY <2>1, <2>2, <2>3 DEF Call
<1>5. RowOK'
  BY <1>1, <1>3, WorkflowStays DEF SagaInv, RowOK
<1>6. actors' = [b \in Actors |-> actors'[b]]
  BY <1>4 DEF SagaInv
<1>7. ASSUME NEW b \in Actors PROVE ActorOK(actors'[b], remote', row)
  <2>1. CASE b = a
    BY <1>4, <2>1 DEF SagaInv
  <2>2. CASE b # a
    <3>1. ActorOK(actors[b], remote, row) /\ actors'[b] = actors[b]
      BY <1>4, <2>2 DEF SagaInv
    <3> QED BY <1>0, <1>3, <3>1, ActorStays
  <2> QED BY <2>1, <2>2
<1>8. CancelOK(cancel', remote')
  BY <1>1, <1>3, CancelStays DEF SagaInv
<1>9. CountersOK'
  BY <1>1, <1>2 DEF SagaInv, CountersOK
<1> QED BY <1>1, <1>3, <1>5, <1>6, <1>7, <1>8, <1>9 DEF SagaInv

\* So does a step of an actor on its own, which may save a workflow and count a crash or a
\* message.
LEMMA ActsAlone ==
  ASSUME SagaInv, NEW a \in Actors, NEW y, Becomes(a, y),
         remote' = remote, now' = now, faults' = faults, UNCHANGED <<cancel, cancels>>,
         outbox' \in Nat, crashes' \in 0 .. MaxCrashes,
         row' = row \/ WorkflowOK(row', remote), ActorOK(y, remote, row')
  PROVE  SagaInv'
<1>0. WorkflowOK(row, remote) => WorkflowOK(row', remote)
  OBVIOUS
<1>1. RowOK'
  BY DEF SagaInv, RowOK, WorkflowOK
<1>2. actors' = [actors EXCEPT ![a] = y]
  BY DEF Becomes
<1>3. actors' = [b \in Actors |-> actors'[b]]
  BY <1>2 DEF SagaInv
<1>4. ASSUME NEW b \in Actors PROVE ActorOK(actors'[b], remote', row')
  <2>1. CASE b = a
    BY <1>2, <2>1 DEF SagaInv
  <2>2. CASE b # a
    <3>1. ActorOK(actors[b], remote, row) /\ actors'[b] = actors[b]
      BY <1>2, <2>2 DEF SagaInv
    <3> QED BY <1>0, <3>1, ExtendsItself, ActorStays
  <2> QED BY <2>1, <2>2
<1>5. CountersOK'
  BY DEF SagaInv, CountersOK
<1> QED BY <1>1, <1>3, <1>4, <1>5 DEF SagaInv

-----------------------------------------------------------------------------
(* The commands the two sagas send to Booking Service.                      *)

\* What Booking Service decides about each command.
LEMMA DecisionsAfter ==
  ASSUME NEW b, NEW r
  PROVE  /\ Decision("AttachReservation", b, r).after = AttachReservationTo(b, r)
         /\ Decision("ConfirmReservation", b, r).after = ConfirmReservationOf(b, r)
         /\ Decision("StartPayment", b, r).after = StartPaymentOf(b, r)
         /\ Decision("RecordPayment", b, r).after = RecordPaymentOf(b, r)
         /\ Decision("AttachTickets", b, r).after = AttachTicketsTo(b, r)
         /\ Decision("ConfirmBooking", b, r).after = ConfirmOf(b)
         /\ Decision("FailBooking", b, r).after = FailOf(b, r)
         /\ Decision("CancelBooking", b, r).after = CancelOf(b, r)
         /\ Decision("RecordCompensation", b, r).after = RecordCompensationOf(b, r)
         /\ Decision("RecordCompensation", b, r).accepted = CanRecordCompensation(b, r)
BY DEF Decision

\* A command whose answer is a version of the booking.
Versioned(o) == GoodAnswer(o) /\ (o.ok => o.value \in 1 .. o.remote.booking.resourceVersion)

\* Each command the sagas send is answered with a version of the booking.
LEMMA AttachReservationIsVersioned ==
  ASSUME ServicesOK(remote), HasBooking(remote), HasSeats(remote), NEW key \in BookingKeys,
         NEW v, NEW u \in Nat \cup {None}
  PROVE  Versioned(BookingAnswer(key, "AttachReservation",
           [expectedVersion |-> v, reservationId |-> TheReservation, expiresAt |-> HoldEnds,
            reservationVersion |-> u, confirmed |-> FALSE]))
<1> DEFINE r == [expectedVersion |-> v, reservationId |-> TheReservation,
                 expiresAt |-> HoldEnds, reservationVersion |-> u, confirmed |-> FALSE]
<1>1. TheReservation \in ReservationIds /\ HoldEnds \in Nat
  BY SagaAssumption DEF TheReservation, HoldEnds
<1>2. /\ r.reservationId \in ReservationIds /\ r.expiresAt \in Nat
      /\ r.reservationVersion \in Nat \cup {None} /\ r.confirmed = FALSE
  BY <1>1
<1> HIDE DEF r
<1>3. Follows(remote.booking, Decision("AttachReservation", remote.booking, r).after, remote)
  <2>1. remote.booking \in Booking
    BY DEF HasBooking
  <2>2. Follows(remote.booking, AttachReservationTo(remote.booking, r), remote)
    BY <1>2, <2>1, AttachReservationFollows, Zenon
  <2>3. Decision("AttachReservation", remote.booking, r).after
          = AttachReservationTo(remote.booking, r)
    BY DecisionsAfter
  <2> QED BY <2>2, <2>3
<1>4. Versioned(BookingAnswer(key, "AttachReservation", r))
  BY <1>3, BookingAnswerIsGood DEF Versioned
<1> QED BY <1>4 DEF r

\* Confirming the reservation, once the seats are sold.
LEMMA ConfirmReservationIsVersioned ==
  ASSUME ServicesOK(remote), HasBooking(remote), Sold(remote), NEW key \in BookingKeys,
         NEW v, NEW u \in Nat \cup {None}
  PROVE  Versioned(BookingAnswer(key, "ConfirmReservation",
           [expectedVersion |-> v, reservationId |-> TheReservation,
            reservationVersion |-> u]))
<1> DEFINE r == [expectedVersion |-> v, reservationId |-> TheReservation,
                 reservationVersion |-> u]
<1>1. r.reservationVersion \in Nat \cup {None}
  OBVIOUS
<1> HIDE DEF r
<1>2. Follows(remote.booking, Decision("ConfirmReservation", remote.booking, r).after, remote)
  BY <1>1, DecisionsAfter, ConfirmReservationFollows DEF HasBooking
<1>3. Versioned(BookingAnswer(key, "ConfirmReservation", r))
  BY <1>2, BookingAnswerIsGood DEF Versioned
<1> QED BY <1>3 DEF r

\* Starting the payment.
LEMMA StartPaymentIsVersioned ==
  ASSUME ServicesOK(remote), HasBooking(remote), NEW key \in BookingKeys, NEW v
  PROVE  Versioned(BookingAnswer(key, "StartPayment",
           [expectedVersion |-> v, paymentId |-> ThePayment]))
<1> DEFINE r == [expectedVersion |-> v, paymentId |-> ThePayment]
<1>1. r.paymentId \in PaymentIds
  BY SagaAssumption DEF ThePayment
<1> HIDE DEF r
<1>2. Follows(remote.booking, Decision("StartPayment", remote.booking, r).after, remote)
  BY <1>1, DecisionsAfter, StartPaymentFollows DEF HasBooking
<1>3. Versioned(BookingAnswer(key, "StartPayment", r))
  BY <1>2, BookingAnswerIsGood DEF Versioned
<1> QED BY <1>3 DEF r

\* Recording its outcome.
LEMMA RecordPaymentIsVersioned ==
  ASSUME ServicesOK(remote), HasBooking(remote), NEW key \in BookingKeys, NEW v,
         NEW status \in {"SUCCEEDED", "FAILED", "UNKNOWN"}
  PROVE  Versioned(BookingAnswer(key, "RecordPayment",
           [expectedVersion |-> v, paymentId |-> ThePayment, paymentStatus |-> status]))
<1> DEFINE r == [expectedVersion |-> v, paymentId |-> ThePayment, paymentStatus |-> status]
<1>1. r.paymentStatus \in PaymentStatus
  BY DEF PaymentStatus
<1> HIDE DEF r
<1>2. Follows(remote.booking, Decision("RecordPayment", remote.booking, r).after, remote)
  BY <1>1, DecisionsAfter, RecordPaymentFollows DEF HasBooking
<1>3. Versioned(BookingAnswer(key, "RecordPayment", r))
  BY <1>2, BookingAnswerIsGood DEF Versioned
<1> QED BY <1>3 DEF r

\* Attaching the tickets, once the seats are sold.
LEMMA AttachTicketsIsVersioned ==
  ASSUME ServicesOK(remote), HasBooking(remote), Sold(remote), NEW key \in BookingKeys,
         NEW v, NEW ids \in SUBSET TicketIds
  PROVE  Versioned(BookingAnswer(key, "AttachTickets",
           [expectedVersion |-> v, ticketIds |-> ids]))
<1> DEFINE r == [expectedVersion |-> v, ticketIds |-> ids]
<1>1. r.ticketIds \subseteq TicketIds
  OBVIOUS
<1> HIDE DEF r
<1>2. Follows(remote.booking, Decision("AttachTickets", remote.booking, r).after, remote)
  BY <1>1, DecisionsAfter, AttachTicketsFollows DEF HasBooking
<1>3. Versioned(BookingAnswer(key, "AttachTickets", r))
  BY <1>2, BookingAnswerIsGood DEF Versioned
<1> QED BY <1>3 DEF r

\* Confirming the booking.
LEMMA ConfirmBookingIsVersioned ==
  ASSUME ServicesOK(remote), HasBooking(remote), NEW key \in BookingKeys, NEW r
  PROVE  Versioned(BookingAnswer(key, "ConfirmBooking", r))
<1>1. Follows(remote.booking, Decision("ConfirmBooking", remote.booking, r).after, remote)
  BY DecisionsAfter, ConfirmBookingFollows DEF HasBooking
<1> QED BY <1>1, BookingAnswerIsGood DEF Versioned

\* Failing it, before or after compensation.
LEMMA FailBookingIsVersioned ==
  ASSUME ServicesOK(remote), HasBooking(remote), NEW key \in BookingKeys, NEW v,
         NEW reason \in Reasons, NEW k \in {"NOT_REQUIRED", "COMPLETED", "PENDING"},
         NEW e \in Evidence
  PROVE  Versioned(BookingAnswer(key, "FailBooking",
           [expectedVersion |-> v, reason |-> reason, compensationStatus |-> k,
            evidence |-> e]))
<1> DEFINE r == [expectedVersion |-> v, reason |-> reason, compensationStatus |-> k,
                 evidence |-> e]
<1>1. /\ r.reason \in Reasons /\ r.evidence \in Evidence
      /\ r.compensationStatus \in CompensationStatus
  BY DEF CompensationStatus
<1> HIDE DEF r
<1>2. Follows(remote.booking, Decision("FailBooking", remote.booking, r).after, remote)
  BY <1>1, DecisionsAfter, FailBookingFollows DEF HasBooking
<1>3. Versioned(BookingAnswer(key, "FailBooking", r))
  BY <1>2, BookingAnswerIsGood DEF Versioned
<1> QED BY <1>3 DEF r

\* Cancelling it.
LEMMA CancelBookingIsVersioned ==
  ASSUME ServicesOK(remote), HasBooking(remote), NEW key \in BookingKeys, NEW v,
         NEW reason \in Reasons, NEW p \in PaymentStatus, NEW k \in {"NOT_REQUIRED", "PENDING"},
         NEW e \in Evidence
  PROVE  Versioned(BookingAnswer(key, "CancelBooking",
           [expectedVersion |-> v, reason |-> reason, paymentStatus |-> p,
            compensationStatus |-> k, evidence |-> e]))
<1> DEFINE r == [expectedVersion |-> v, reason |-> reason, paymentStatus |-> p,
                 compensationStatus |-> k, evidence |-> e]
<1>1. /\ r.reason \in Reasons /\ r.evidence \in Evidence /\ r.paymentStatus \in PaymentStatus
      /\ r.compensationStatus \in CompensationStatus
  BY DEF CompensationStatus
<1> HIDE DEF r
<1>2. Follows(remote.booking, Decision("CancelBooking", remote.booking, r).after, remote)
  BY <1>1, DecisionsAfter, CancelBookingFollows DEF HasBooking
<1>3. Versioned(BookingAnswer(key, "CancelBooking", r))
  BY <1>2, BookingAnswerIsGood DEF Versioned
<1> QED BY <1>3 DEF r

\* Recording what was given back.
LEMMA RecordCompensationIsVersioned ==
  ASSUME ServicesOK(remote), HasBooking(remote), NEW key \in BookingKeys, NEW v,
         NEW reason \in Reasons, NEW k \in {"COMPLETED", "PENDING"}, NEW e \in Evidence
  PROVE  Versioned(BookingAnswer(key, "RecordCompensation",
           [expectedVersion |-> v, reason |-> reason, compensationStatus |-> k,
            evidence |-> e]))
<1> DEFINE r == [expectedVersion |-> v, reason |-> reason, compensationStatus |-> k,
                 evidence |-> e]
<1>1. /\ r.reason \in Reasons /\ r.evidence \in Evidence
      /\ r.compensationStatus \in {"COMPLETED", "PENDING"}
  OBVIOUS
<1> HIDE DEF r
<1>2. Decision("RecordCompensation", remote.booking, r).accepted =>
        Follows(remote.booking, Decision("RecordCompensation", remote.booking, r).after, remote)
  BY <1>1, DecisionsAfter, RecordCompensationFollows DEF HasBooking
<1>3. Versioned(BookingAnswer(key, "RecordCompensation", r))
  BY <1>2, BookingAnswerIsGood DEF Versioned
<1> QED BY <1>3 DEF r

-----------------------------------------------------------------------------
(* The steps of an actor keep the invariant.                                *)

\* What an actor at a step has.
LEMMA AtStep ==
  ASSUME SagaInv, NEW a \in Actors, NEW step \in Pcs \ {"idle", "begin", "saveListed"},
         At(a, step)
  PROVE  /\ Driving(actors[a], remote) /\ Knows(actors[a].wf, step)
         /\ actors[a].wf \in Workflow /\ WorkflowOK(actors[a].wf, remote)
         /\ step \in {"getPayment", "refresh"} => actors[a].run \in WorkerRuns
BY DEF SagaInv, ActorOK, At, Driving, WorkflowOK

\* y drives what x drove, with another version of the booking at most.
SameDrive(x, y, s) ==
  /\ Driving(y, s) /\ y.run = x.run
  /\ y.wf.bookingId = x.wf.bookingId /\ y.wf.reservationId = x.wf.reservationId
  /\ y.wf.paymentId = x.wf.paymentId /\ y.wf.steps = x.wf.steps
  /\ y.wf.ticketIds = x.wf.ticketIds /\ y.wf.paymentStatus = x.wf.paymentStatus

\* The version an answer brought is remembered.
LEMMA RemembersVersion ==
  ASSUME NEW s, NEW x, Driving(x, s), NEW v \in Nat
  PROVE  SameDrive(x, [x EXCEPT !.wf.version = v], s)
<1> DEFINE u == [x.wf EXCEPT !.version = v]
           y == [x EXCEPT !.wf = u]
<1>1. x \in Actor /\ WorkflowOK(x.wf, s)
  BY DEF Driving
<1>2. [x EXCEPT !.wf.version = v] = y
  BY <1>1 DEF Actor
<1>3. /\ WorkflowOK(u, s) /\ u.bookingId = x.wf.bookingId
      /\ u.reservationId = x.wf.reservationId /\ u.paymentId = x.wf.paymentId
      /\ u.steps = x.wf.steps /\ u.ticketIds = x.wf.ticketIds
      /\ u.paymentStatus = x.wf.paymentStatus
  BY <1>1, VersionIsOK
<1> HIDE DEF u
<1>4. Driving(y, s) /\ y.wf = u /\ y.run = x.run
  BY <1>3, DrivesOther
<1> HIDE DEF y
<1> QED BY <1>2, <1>3, <1>4 DEF SameDrive

\* What a step needs depends on what is the same.
LEMMA SameKnows ==
  ASSUME NEW s, NEW x, NEW y, SameDrive(x, y, s), NEW step
  PROVE  Knows(y.wf, step) <=> Knows(x.wf, step)
BY DEF SameDrive, Knows

\* The answer of a call, after which the actor drives on what it drove.
LEMMA DrivesAfterCall ==
  ASSUME SagaInv, NEW o, GoodAnswer(o), NEW x, Driving(x, remote)
  PROVE  Driving(x, o.remote)
BY DrivingStays DEF GoodAnswer

\* After a versioned answer the actor goes on with the version.
LEMMA GoesOnWithVersion ==
  ASSUME SagaInv, NEW o, Versioned(o), o.ok, NEW x, Driving(x, remote), x.wf.bookingId
  PROVE  SameDrive(x, [x EXCEPT !.wf.version = o.value], o.remote)
<1>1. Driving(x, o.remote) /\ ServicesOK(o.remote)
  BY DrivesAfterCall DEF Versioned, GoodAnswer
<1>2. o.value \in Nat
  <2>1. o.remote.booking \in Booking
    BY <1>1 DEF Driving, WorkflowOK, HasBooking
  <2>2. o.remote.booking.resourceVersion \in Nat
    BY <2>1 DEF Booking
  <2> QED BY <2>2 DEF Versioned
<1> QED BY <1>1, <1>2, RemembersVersion

\* workflows.save
LEMMA SaveKeeps ==
  ASSUME SagaInv, NEW a \in Actors, Save(a), UNCHANGED <<cancel, cancels>>
  PROVE  SagaInv'
<1> DEFINE x == actors[a]
           y == IF x.pc = "idle" THEN Idle ELSE [x EXCEPT !.dirty = FALSE]
<1>1. /\ x.dirty /\ row' = x.wf /\ Becomes(a, y)
      /\ UNCHANGED <<remote, outbox, now, crashes, faults>>
  BY DEF Save
<1>2. ActorOK(x, remote, row) /\ Driving(x, remote) /\ Knows(x.wf, x.pc)
  BY <1>1 DEF SagaInv, ActorOK
<1>3. WorkflowOK(row', remote) /\ row' \in Workflow
  BY <1>1, <1>2 DEF Driving, WorkflowOK
<1>4. ActorOK(y, remote, row')
  <2>1. CASE x.pc = "idle"
    BY <2>1, IdleIsOK
  <2>2. CASE x.pc # "idle"
    <3> DEFINE z == [x EXCEPT !.dirty = FALSE]
    <3>1. x \in Actor
      BY <1>2 DEF Driving
    <3>2. /\ z \in Actor /\ z.pc = x.pc /\ z.run = x.run /\ z.wf = x.wf
          /\ z.listed = x.listed /\ ~z.dirty
      BY <3>1 DEF Actor
    <3> HIDE DEF z
    <3>3. Driving(z, remote) /\ Knows(z.wf, z.pc)
      BY <1>2, <3>2 DEF Driving
    <3>4. ActorOK(z, remote, row')
      BY <1>2, <1>3, <3>2, <3>3 DEF ActorOK, Driving
    <3> QED BY <2>2, <3>4 DEF z
  <2> QED BY <2>1, <2>2
<1> HIDE DEF y
<1>5. outbox' \in Nat /\ crashes' \in 0 .. MaxCrashes
  BY <1>1 DEF SagaInv, CountersOK
<1> QED BY <1>1, <1>3, <1>4, <1>5, ActsAlone

\* place without a row.
LEMMA PlaceKeeps ==
  ASSUME SagaInv, NEW c \in Clients, Place(c), UNCHANGED <<cancel, cancels>>
  PROVE  SagaInv'
<1> DEFINE y == [Idle EXCEPT !.run = "place", !.pc = "create", !.wf = NewWorkflow]
<1>1. /\ row' = NewWorkflow /\ Becomes(c, y)
      /\ UNCHANGED <<remote, outbox, now, crashes, faults>>
  BY DEF Place
<1>2. NewWorkflow \in Workflow
  BY DEF NewWorkflow, Workflow, WorkflowStatus, GatewayPaymentStatus
<1>3. WorkflowOK(NewWorkflow, remote)
  BY <1>2 DEF NewWorkflow, WorkflowOK
<1>4. /\ y \in Actor /\ y.run = "place" /\ y.pc = "create" /\ y.wf = NewWorkflow
  BY <1>2 DEF Idle, Actor, Pcs, Runs
<1> HIDE DEF y
<1>5. ActorOK(y, remote, row')
  BY <1>3, <1>4 DEF ActorOK, Driving, Runs, WorkerRuns, Knows, NeedsBooking, NeedsSeats,
                    NeedsPayment, NeedsSold
<1>6. outbox' \in Nat /\ crashes' \in 0 .. MaxCrashes
  BY <1>1 DEF SagaInv, CountersOK
<1> QED BY <1>1, <1>3, <1>5, <1>6, ActsAlone DEF Actors

\* place with a row that has neither an answer nor a booking.
LEMMA ResumeKeeps ==
  ASSUME SagaInv, NEW c \in Clients, Resume(c), UNCHANGED <<cancel, cancels>>
  PROVE  SagaInv'
<1> DEFINE y == [Idle EXCEPT !.run = "resume", !.pc = "create", !.wf = row]
<1>1. /\ row # None /\ Becomes(c, y)
      /\ UNCHANGED <<row, remote, outbox, now, crashes, faults>>
  BY DEF Resume
<1>2. row \in Workflow /\ WorkflowOK(row, remote)
  BY <1>1 DEF SagaInv, RowOK
<1>3. /\ y \in Actor /\ y.run = "resume" /\ y.pc = "create" /\ y.wf = row
  BY <1>2 DEF Idle, Actor, Pcs, Runs
<1> HIDE DEF y
<1>4. ActorOK(y, remote, row')
  BY <1>2, <1>3 DEF ActorOK, Driving, Runs, WorkerRuns, Knows, NeedsBooking, NeedsSeats,
                    NeedsPayment, NeedsSold
<1>5. outbox' \in Nat /\ crashes' \in 0 .. MaxCrashes
  BY <1>1 DEF SagaInv, CountersOK
<1> QED BY <1>1, <1>4, <1>5, ActsAlone DEF Actors

\* The selection cannot be bought, or a seat is taken.
LEMMA RefusalsKeep ==
  ASSUME SagaInv, NEW c \in Clients, SelectionFails(c) \/ SeatsAreTaken(c),
         UNCHANGED <<cancel, cancels>>
  PROVE  SagaInv'
<1>1. /\ At(c, "create") \/ At(c, "reserve")
      /\ Becomes(c, Raised(actors[c]))
      /\ UNCHANGED <<row, remote, outbox, now, crashes, faults>>
  BY DEF SelectionFails, SeatsAreTaken
<1>2. c \in Actors
  BY DEF Actors
<1>3. /\ "create" \in Pcs \ {"idle", "begin", "saveListed"}
      /\ "reserve" \in Pcs \ {"idle", "begin", "saveListed"}
  BY DEF Pcs
<1>4. Driving(actors[c], remote)
  BY <1>1, <1>2, <1>3, AtStep
<1>5. ActorOK(Raised(actors[c]), remote, row')
  BY <1>4, RaisedIsOK
<1>6. outbox' \in Nat /\ crashes' \in 0 .. MaxCrashes
  BY <1>1 DEF SagaInv, CountersOK
<1> QED BY <1>1, <1>2, <1>5, <1>6, ActsAlone

\* A crash stops an actor wherever it is.
LEMMA CrashKeeps ==
  ASSUME SagaInv, NEW a \in Actors, Crash(a), UNCHANGED <<cancel, cancels>>
  PROVE  SagaInv'
<1>1. /\ crashes < MaxCrashes /\ crashes' = crashes + 1 /\ Becomes(a, Idle)
      /\ UNCHANGED <<row, remote, outbox, now, faults>>
  BY DEF Crash
<1>2. ActorOK(Idle, remote, row')
  BY IdleIsOK
<1>3. crashes \in 0 .. MaxCrashes /\ MaxCrashes \in Nat /\ outbox \in Nat
  BY SagaAssumption DEF SagaInv, CountersOK, SagaBounds
<1>4. outbox' \in Nat /\ crashes' \in 0 .. MaxCrashes
  BY <1>1, <1>3
<1> QED BY <1>1, <1>2, <1>4, ActsAlone

\* run_once lists a row it can reconcile.
LEMMA ListWorkflowKeeps ==
  ASSUME SagaInv, ListWorkflow, UNCHANGED <<cancel, cancels>>
  PROVE  SagaInv'
<1> DEFINE run == IF row.status = "COMPENSATION_PENDING" THEN "compensate" ELSE "reconcile"
           y == [Idle EXCEPT !.pc = "begin", !.listed = row, !.run = run]
<1>1. /\ row # None /\ Becomes(Worker, y)
      /\ UNCHANGED <<row, remote, outbox, now, crashes, faults>>
  BY DEF ListWorkflow
<1>2. row \in Workflow /\ WorkflowOK(row, remote)
  BY <1>1 DEF SagaInv, RowOK
<1>3. run \in WorkerRuns /\ run \in Runs
  BY DEF WorkerRuns, Runs
<1> HIDE DEF run
<1>4. /\ y \in Actor /\ y.run = run /\ y.pc = "begin" /\ y.listed = row /\ ~y.dirty
  BY <1>2, <1>3 DEF Idle, Actor, Pcs
<1> HIDE DEF y
<1>5. ActorOK(y, remote, row')
  BY <1>1, <1>2, <1>3, <1>4 DEF ActorOK
<1>6. outbox' \in Nat /\ crashes' \in 0 .. MaxCrashes
  BY <1>1 DEF SagaInv, CountersOK
<1> QED BY <1>1, <1>5, <1>6, ActsAlone DEF Actors

\* An exception reached run_once.
LEMMA SaveListedKeeps ==
  ASSUME SagaInv, NEW a \in Actors, SaveListed(a), UNCHANGED <<cancel, cancels>>
  PROVE  SagaInv'
<1>1. /\ At(a, "saveListed") /\ row' = actors[a].listed /\ Becomes(a, Idle)
      /\ UNCHANGED <<remote, outbox, now, crashes, faults>>
  BY DEF SaveListed
<1>2. WorkflowOK(row', remote)
  BY <1>1 DEF SagaInv, ActorOK, At
<1>3. ActorOK(Idle, remote, row')
  BY IdleIsOK
<1>4. outbox' \in Nat /\ crashes' \in 0 .. MaxCrashes
  BY <1>1 DEF SagaInv, CountersOK
<1> QED BY <1>1, <1>2, <1>3, <1>4, ActsAlone

\* save_with_outbox closes the workflow.
LEMMA FinishKeeps ==
  ASSUME SagaInv, NEW a \in Actors, Finish(a), UNCHANGED <<cancel, cancels>>
  PROVE  SagaInv'
<1> DEFINE w == actors[a].wf
           closed == [w EXCEPT !.status = "CONFIRMED"]
<1>1. /\ At(a, "finish") /\ row' = [closed EXCEPT !.response = 201] /\ outbox' = outbox + 1
      /\ Becomes(a, Idle) /\ UNCHANGED <<remote, now, crashes, faults>>
  BY DEF Finish
<1>2. "finish" \in Pcs \ {"idle", "begin", "saveListed"} /\ "finish" \in NeedsSold
  BY DEF Pcs, NeedsSold
<1>3. WorkflowOK(w, remote) /\ "seatConfirmed" \in w.steps
  BY <1>1, <1>2, AtStep DEF Knows
<1>4. Sold(remote) /\ "CONFIRMED" \in WorkflowStatus
  BY <1>3 DEF WorkflowOK, WorkflowStatus
<1>5. WorkflowOK(closed, remote)
  BY <1>3, <1>4, StatusIsOK
<1> HIDE DEF closed
<1>6. WorkflowOK(row', remote)
  <2>1. PICK code \in Responses : code = 201
    BY DEF Responses
  <2>2. WorkflowOK([closed EXCEPT !.response = code], remote)
    BY <1>5, ResponseIsOK
  <2> QED BY <1>1, <2>1, <2>2
<1>7. ActorOK(Idle, remote, row')
  BY IdleIsOK
<1>8. outbox' \in Nat /\ crashes' \in 0 .. MaxCrashes
  BY <1>1 DEF SagaInv, CountersOK
<1> QED BY <1>1, <1>6, <1>7, <1>8, ActsAlone

\* A workflow with another id or version is a workflow.
LEMMA PaymentIdField ==
  ASSUME NEW w \in Workflow, NEW t \in BOOLEAN
  PROVE  [w EXCEPT !.paymentId = t] \in Workflow
BY SMTT(60) DEF Workflow

\* So is one with a reservation, its version and another status.
LEMMA ReservationFields ==
  ASSUME NEW w \in Workflow, NEW t \in BOOLEAN, NEW v \in Nat \cup {None},
         NEW status \in WorkflowStatus
  PROVE  [w EXCEPT !.reservationId = t, !.reservationVersion = v, !.status = status]
           \in Workflow
<1> DEFINE w1 == [w EXCEPT !.reservationId = t]
           w2 == [w1 EXCEPT !.reservationVersion = v]
<1>1. w1 \in Workflow
  BY SMTT(60) DEF Workflow
<1> HIDE DEF w1
<1>2. w2 \in Workflow
  BY <1>1, SMTT(60) DEF Workflow
<1> HIDE DEF w2
<1>3. [w2 EXCEPT !.status = status] \in Workflow
  BY <1>2, SMTT(60) DEF Workflow
<1> QED BY <1>3 DEF w1, w2

\* create_booking: the workflow has its booking.
LEMMA CreateBookingKeeps ==
  ASSUME SagaInv, NEW c \in Actors, CreateBooking(c), UNCHANGED <<cancel, cancels>>
  PROVE  SagaInv'
<1> DEFINE x == actors[c]
           o == CreateBookingAnswer
           good == SaveAndGoTo([x EXCEPT !.wf.bookingId = TRUE, !.wf.version = o.value],
                               "reserve")
<1>1. At(c, "create") /\ Call(c, o, good, Raised(x), Raised(x)) /\ c \in Actors
  BY DEF CreateBooking, Actors
<1>2. "create" \in Pcs \ {"idle", "begin", "saveListed"}
  BY DEF Pcs
<1>3. Driving(x, remote)
  BY <1>1, <1>2, AtStep
<1>4. ActorOK(Raised(x), remote, row)
  BY <1>3, RaisedIsOK
<1>5. GoodAnswer(o) /\ HasBooking(o.remote) /\ o.value = 1
  BY CreateBookingIsGood DEF SagaInv
<1> HIDE DEF o
<1>6. ActorOK(good, o.remote, row)
  <2> DEFINE u == [x.wf EXCEPT !.bookingId = TRUE, !.version = 1]
             y == [x EXCEPT !.wf = u]
  <2>1. Driving(x, o.remote) /\ x \in Actor /\ WorkflowOK(x.wf, o.remote)
    BY <1>3, <1>5, DrivesAfterCall DEF Driving
  <2>2. x.wf \in Workflow
    BY <2>1 DEF WorkflowOK
  <2>3. /\ u \in Workflow /\ u.bookingId /\ u.status = x.wf.status
        /\ u.reservationId = x.wf.reservationId /\ u.paymentId = x.wf.paymentId
        /\ u.reservationVersion = x.wf.reservationVersion
        /\ u.ticketIds = x.wf.ticketIds /\ u.steps = x.wf.steps
    <3>1. u \in Workflow
      BY <2>2, ZenonT(60) DEF Workflow
    <3> QED BY <2>2, <3>1, SMTT(60) DEF Workflow
  <2>4. [x EXCEPT !.wf.bookingId = TRUE, !.wf.version = o.value] = y
    BY <1>5, <2>1 DEF Actor
  <2> HIDE DEF u
  <2>5. WorkflowOK(u, o.remote)
    BY <1>5, <2>1, <2>3 DEF WorkflowOK
  <2>6. Driving(y, o.remote) /\ y.wf = u
    BY <2>1, <2>5, DrivesOther
  <2> HIDE DEF y
  <2>7. "reserve" \in Pcs \ {"begin", "saveListed", "getPayment", "refresh"}
    BY DEF Pcs
  <2>8. Knows(y.wf, "reserve")
    BY <2>3, <2>6 DEF Knows, NeedsSeats, NeedsPayment, NeedsSold
  <2> QED BY <2>4, <2>6, <2>7, <2>8, MovesTo
<1> HIDE DEF x, good
<1> QED BY <1>1, <1>4, <1>5, <1>6, CallKeeps

\* reserve: the workflow has its seats.
LEMMA ReserveSeatsKeeps ==
  ASSUME SagaInv, NEW c \in Actors, ReserveSeats(c), UNCHANGED <<cancel, cancels>>
  PROVE  SagaInv'
<1> DEFINE x == actors[c]
           o == ReserveAnswer
           good == GoTo([x EXCEPT !.wf.reservationId = TRUE,
                                  !.wf.reservationVersion = o.value,
                                  !.wf.status = "SEAT_RESERVED"], "attachReservation")
<1>1. At(c, "reserve") /\ Call(c, o, good, Raised(x), Raised(x)) /\ c \in Actors
  BY DEF ReserveSeats, Actors
<1>2. "reserve" \in Pcs \ {"idle", "begin", "saveListed"} /\ "reserve" \in NeedsBooking
  BY DEF Pcs, NeedsBooking
<1>3. Driving(x, remote) /\ x.wf.bookingId
  BY <1>1, <1>2, AtStep DEF Knows
<1>4. ActorOK(Raised(x), remote, row)
  BY <1>3, RaisedIsOK
<1>5. GoodAnswer(o) /\ HasSeats(o.remote) /\ o.value = 1
  BY ReserveIsGood DEF SagaInv
<1> HIDE DEF o
<1>6. ActorOK(good, o.remote, row)
  <2> DEFINE u == [x.wf EXCEPT !.reservationId = TRUE, !.reservationVersion = 1,
                               !.status = "SEAT_RESERVED"]
             y == [x EXCEPT !.wf = u]
  <2>1. Driving(x, o.remote) /\ x \in Actor /\ WorkflowOK(x.wf, o.remote)
    BY <1>3, <1>5, DrivesAfterCall DEF Driving
  <2>2. x.wf \in Workflow /\ 1 # None
    BY <2>1, NoneIsNoValue DEF WorkflowOK
  <2>3. u \in Workflow
    <3>1. TRUE \in BOOLEAN /\ 1 \in Nat \cup {None} /\ "SEAT_RESERVED" \in WorkflowStatus
      BY DEF WorkflowStatus
    <3> QED BY <2>2, <3>1, ReservationFields
  <2>9. /\ u.bookingId = x.wf.bookingId /\ u.status = "SEAT_RESERVED"
        /\ u.reservationId /\ u.paymentId = x.wf.paymentId
        /\ u.reservationVersion = 1 /\ u.paymentStatus = x.wf.paymentStatus
        /\ u.ticketIds = x.wf.ticketIds /\ u.steps = x.wf.steps
    BY <2>2 DEF Workflow
  <2>4. [x EXCEPT !.wf.reservationId = TRUE, !.wf.reservationVersion = o.value,
                  !.wf.status = "SEAT_RESERVED"] = y
    BY <1>5, <2>1 DEF Actor
  <2> HIDE DEF u
  <2>5. WorkflowOK(u, o.remote)
    BY <1>3, <1>5, <2>1, <2>2, <2>3, <2>9 DEF WorkflowOK
  <2>6. Driving(y, o.remote) /\ y.wf = u
    BY <2>1, <2>5, DrivesOther
  <2> HIDE DEF y
  <2>7. "attachReservation" \in Pcs \ {"begin", "saveListed", "getPayment", "refresh"}
    BY DEF Pcs
  <2>8. Knows(y.wf, "attachReservation")
    BY <1>3, <2>6, <2>9 DEF Knows, NeedsPayment, NeedsSold
  <2> QED BY <2>4, <2>6, <2>7, <2>8, MovesTo
<1> HIDE DEF x, good
<1> QED BY <1>1, <1>4, <1>5, <1>6, CallKeeps

\* create_payment: the workflow has its payment.
LEMMA CreatePaymentKeeps ==
  ASSUME SagaInv, NEW c \in Actors, CreatePayment(c), UNCHANGED <<cancel, cancels>>
  PROVE  SagaInv'
<1> DEFINE x == actors[c]
           o == CreatePaymentAnswer
           good == GoTo([x EXCEPT !.wf.paymentId = TRUE, !.seen = o.value], "startPayment")
<1>1. At(c, "createPayment") /\ Call(c, o, good, Raised(x), Raised(x)) /\ c \in Actors
  BY DEF CreatePayment, Actors
<1>2. /\ "createPayment" \in Pcs \ {"idle", "begin", "saveListed"}
      /\ "createPayment" \in NeedsBooking \cap NeedsSeats
  BY DEF Pcs, NeedsBooking, NeedsSeats
<1>3. Driving(x, remote) /\ x.wf.bookingId /\ x.wf.reservationId
  BY <1>1, <1>2, AtStep DEF Knows
<1>4. ActorOK(Raised(x), remote, row)
  BY <1>3, RaisedIsOK
<1>5. GoodAnswer(o) /\ HasPayment(o.remote) /\ o.value \in SagaPayment
  BY CreatePaymentIsGood DEF SagaInv
<1> HIDE DEF o
<1>6. ActorOK(good, o.remote, row)
  <2> DEFINE u == [x.wf EXCEPT !.paymentId = TRUE]
             z == [x EXCEPT !.wf = u]
             y == [z EXCEPT !.seen = o.value]
  <2>1. Driving(x, o.remote) /\ x \in Actor /\ WorkflowOK(x.wf, o.remote)
    BY <1>3, <1>5, DrivesAfterCall DEF Driving
  <2>2. x.wf \in Workflow
    BY <2>1 DEF WorkflowOK
  <2>3. u \in Workflow
    BY <2>2, PaymentIdField
  <2>10. /\ u.bookingId = x.wf.bookingId /\ u.status = x.wf.status
        /\ u.reservationId = x.wf.reservationId /\ u.paymentId
        /\ u.reservationVersion = x.wf.reservationVersion
        /\ u.paymentStatus = x.wf.paymentStatus
        /\ u.ticketIds = x.wf.ticketIds /\ u.steps = x.wf.steps
    BY <2>2 DEF Workflow
  <2>4. [x EXCEPT !.wf.paymentId = TRUE, !.seen = o.value] = y
    BY <2>1 DEF Actor
  <2> HIDE DEF u
  <2>5. WorkflowOK(u, o.remote)
    BY <1>3, <1>5, <2>1, <2>2, <2>3, <2>10 DEF WorkflowOK
  <2>6. Driving(z, o.remote) /\ z.wf = u
    BY <2>1, <2>5, DrivesOther
  <2> HIDE DEF z
  <2>7. Driving(y, o.remote) /\ y.wf = u
    BY <1>5, <2>6, DrivesOn
  <2> HIDE DEF y
  <2>8. "startPayment" \in Pcs \ {"begin", "saveListed", "getPayment", "refresh"}
    BY DEF Pcs
  <2>9. Knows(y.wf, "startPayment")
    BY <1>3, <2>7, <2>10 DEF Knows, NeedsSold
  <2> QED BY <2>4, <2>7, <2>8, <2>9, MovesTo
<1> HIDE DEF x, good
<1> QED BY <1>1, <1>4, <1>5, <1>6, CallKeeps

\* The booking's answer is not Booking Service's last word about the seats or the money, so
\* the actor knows afterwards what it knew.
LEMMA KnowsAfterAnswer ==
  ASSUME SagaInv, NEW o, Versioned(o), o.ok, NEW x, Driving(x, remote), x.wf.bookingId,
         NEW step \in Pcs \ {"begin", "saveListed", "getPayment", "refresh"},
         Knows(x.wf, step), NEW w
  PROVE  LET y == [x EXCEPT !.wf.version = o.value]
         IN  ActorOK(GoTo(y, step), o.remote, w) /\ ActorOK(SaveAndGoTo(y, step), o.remote, w)
<1> DEFINE y == [x EXCEPT !.wf.version = o.value]
<1>1. SameDrive(x, y, o.remote)
  BY GoesOnWithVersion
<1> HIDE DEF y
<1>2. Driving(y, o.remote) /\ Knows(y.wf, step)
  BY <1>1, SameKnows DEF SameDrive
<1>3. ActorOK(GoTo(y, step), o.remote, w) /\ ActorOK(SaveAndGoTo(y, step), o.remote, w)
  BY <1>2, MovesTo
<1> QED BY <1>3 DEF y

\* attach_reservation
LEMMA AttachReservationKeeps ==
  ASSUME SagaInv, NEW c \in Actors, AttachReservation(c), UNCHANGED <<cancel, cancels>>
  PROVE  SagaInv'
<1> DEFINE x == actors[c]
           o == BookingAnswer("booking-reservation", "AttachReservation",
                  [expectedVersion |-> x.wf.version, reservationId |-> TheReservation,
                   expiresAt |-> HoldEnds, reservationVersion |-> x.wf.reservationVersion,
                   confirmed |-> FALSE])
           good == SaveAndGoTo([x EXCEPT !.wf.version = o.value], "createPayment")
<1>1. /\ At(c, "attachReservation") /\ Call(c, o, good, Raised(x), Raised(x))
      /\ c \in Actors
  BY DEF AttachReservation, Actors
<1>2. /\ "attachReservation" \in Pcs \ {"idle", "begin", "saveListed"}
      /\ "attachReservation" \in NeedsBooking \cap NeedsSeats
  BY DEF Pcs, NeedsBooking, NeedsSeats
<1>3. /\ Driving(x, remote) /\ x.wf.bookingId /\ x.wf.reservationId
      /\ WorkflowOK(x.wf, remote) /\ x.wf \in Workflow
  BY <1>1, <1>2, AtStep DEF Knows
<1>4. ActorOK(Raised(x), remote, row)
  BY <1>3, RaisedIsOK
<1>5. /\ ServicesOK(remote) /\ HasBooking(remote) /\ HasSeats(remote)
      /\ x.wf.reservationVersion \in Nat \cup {None}
  BY <1>3 DEF SagaInv, WorkflowOK, Workflow
<1>6. "booking-reservation" \in BookingKeys
  BY DEF BookingKeys, StepKeys
<1>7. Versioned(o)
  BY <1>5, <1>6, AttachReservationIsVersioned
<1> HIDE DEF o
<1>8. ASSUME o.ok PROVE ActorOK(good, o.remote, row)
  <2>1. /\ "createPayment" \in Pcs \ {"begin", "saveListed", "getPayment", "refresh"}
        /\ Knows(x.wf, "createPayment")
    BY <1>3 DEF Pcs, Knows, NeedsPayment, NeedsSold
  <2> QED BY <1>3, <1>7, <1>8, <2>1, KnowsAfterAnswer
<1> HIDE DEF x, good
<1> QED BY <1>1, <1>4, <1>7, <1>8, CallKeeps DEF Versioned

\* start_payment: the row is saved before the provider is asked for money.
LEMMA StartPaymentKeeps ==
  ASSUME SagaInv, NEW c \in Actors, StartPayment(c), UNCHANGED <<cancel, cancels>>
  PROVE  SagaInv'
<1> DEFINE x == actors[c]
           o == BookingAnswer("booking-payment-start", "StartPayment",
                  [expectedVersion |-> x.wf.version, paymentId |-> ThePayment])
           good == SaveAndGoTo([x EXCEPT !.wf.version = o.value,
                                         !.wf.status = "PAYMENT_PROCESSING"], "authorize")
<1>1. /\ At(c, "startPayment") /\ Call(c, o, good, Raised(x), Raised(x))
      /\ c \in Actors
  BY DEF StartPayment, Actors
<1>2. /\ "startPayment" \in Pcs \ {"idle", "begin", "saveListed"}
      /\ "startPayment" \in NeedsBooking \cap NeedsSeats \cap NeedsPayment
  BY DEF Pcs, NeedsBooking, NeedsSeats, NeedsPayment
<1>3. /\ Driving(x, remote) /\ x.wf.bookingId /\ x.wf.reservationId /\ x.wf.paymentId
      /\ WorkflowOK(x.wf, remote)
  BY <1>1, <1>2, AtStep DEF Knows
<1>4. ActorOK(Raised(x), remote, row)
  BY <1>3, RaisedIsOK
<1>5. ServicesOK(remote) /\ HasBooking(remote)
  BY <1>3 DEF SagaInv, WorkflowOK
<1>6. "booking-payment-start" \in BookingKeys
  BY DEF BookingKeys, StepKeys
<1>7. Versioned(o)
  BY <1>5, <1>6, StartPaymentIsVersioned
<1> HIDE DEF o
<1>8. ASSUME o.ok PROVE ActorOK(good, o.remote, row)
  <2> DEFINE y == [x EXCEPT !.wf.version = o.value]
             u == [y.wf EXCEPT !.status = "PAYMENT_PROCESSING"]
             z == [y EXCEPT !.wf = u]
  <2>1. SameDrive(x, y, o.remote)
    BY <1>3, <1>7, <1>8, GoesOnWithVersion
  <2>8. x \in Actor
    BY <1>3 DEF Driving
  <2>2. [x EXCEPT !.wf.version = o.value, !.wf.status = "PAYMENT_PROCESSING"] = z
    BY <2>8 DEF Actor
  <2> HIDE DEF y
  <2>3. "PAYMENT_PROCESSING" \in WorkflowStatus
    BY DEF WorkflowStatus
  <2>4. /\ WorkflowOK(u, o.remote) /\ u.bookingId = y.wf.bookingId
        /\ u.reservationId = y.wf.reservationId /\ u.paymentId = y.wf.paymentId
    BY <2>1, <2>3, StatusIsOK DEF SameDrive, Driving
  <2> HIDE DEF u
  <2>5. Driving(z, o.remote) /\ z.wf = u
    BY <2>1, <2>4, DrivesOther DEF SameDrive
  <2> HIDE DEF z
  <2>6. "authorize" \in Pcs \ {"begin", "saveListed", "getPayment", "refresh"}
    BY DEF Pcs
  <2>7. Knows(z.wf, "authorize")
    BY <1>3, <2>1, <2>4, <2>5 DEF Knows, NeedsSold, SameDrive
  <2> QED BY <2>2, <2>5, <2>6, <2>7, MovesTo
<1> HIDE DEF x, good
<1> QED BY <1>1, <1>4, <1>7, <1>8, CallKeeps DEF Versioned

\* authorize: captured next, or the payment failed, or nobody knows.
LEMMA AuthorizePaymentKeeps ==
  ASSUME SagaInv, NEW c \in Actors, AuthorizePayment(c), UNCHANGED <<cancel, cancels>>
  PROVE  SagaInv'
<1> DEFINE x == actors[c]
           o == AuthorizeAnswer(x.seen.version)
           good == CASE IsFailed(o.value.status)  -> FailedPayment(x)
                     [] IsPending(o.value.status) -> RaisedUnknown(x)
                     [] OTHER -> GoTo([x EXCEPT !.seen = o.value], "capture")
<1>1. /\ At(c, "authorize") /\ Call(c, o, good, Raised(x), RaisedUnknown(x))
      /\ c \in Actors
  BY DEF AuthorizePayment, Actors
<1>2. /\ "authorize" \in Pcs \ {"idle", "begin", "saveListed"}
      /\ "authorize" \in NeedsBooking \cap NeedsSeats \cap NeedsPayment
  BY DEF Pcs, NeedsBooking, NeedsSeats, NeedsPayment
<1>3. /\ Driving(x, remote) /\ x.wf.bookingId /\ x.wf.reservationId /\ x.wf.paymentId
      /\ WorkflowOK(x.wf, remote)
  BY <1>1, <1>2, AtStep DEF Knows
<1>4. ActorOK(Raised(x), remote, row) /\ ActorOK(RaisedUnknown(x), remote, row)
  BY <1>3, RaisedIsOK, RaisedUnknownIsOK
<1>5. ServicesOK(remote) /\ HasPayment(remote)
  BY <1>3 DEF SagaInv, WorkflowOK
<1>6. GoodAnswer(o) /\ (o.ok => o.value \in SagaPayment)
  BY <1>5, AuthorizeIsGood
<1> HIDE DEF o
<1>7. ASSUME o.ok PROVE ActorOK(good, o.remote, row)
  <2>1. Driving(x, o.remote)
    BY <1>3, <1>6, DrivesAfterCall
  <2>2. ActorOK(FailedPayment(x), o.remote, row) /\ ActorOK(RaisedUnknown(x), o.remote, row)
    BY <1>3, <2>1, FailedPaymentIsOK, RaisedUnknownIsOK
  <2>3. ActorOK(GoTo([x EXCEPT !.seen = o.value], "capture"), o.remote, row)
    <3> DEFINE y == [x EXCEPT !.seen = o.value]
    <3>1. Driving(y, o.remote) /\ y.wf = x.wf
      BY <1>6, <1>7, <2>1, DrivesOn
    <3> HIDE DEF y
    <3>2. "capture" \in Pcs \ {"begin", "saveListed", "getPayment", "refresh"}
      BY DEF Pcs
    <3>3. Knows(y.wf, "capture")
      BY <1>3, <3>1 DEF Knows, NeedsSold
    <3>4. ActorOK(GoTo(y, "capture"), o.remote, row)
      BY <3>1, <3>2, <3>3, MovesTo
    <3> QED BY <3>4 DEF y
  <2> QED BY <2>2, <2>3
<1> HIDE DEF x, good
<1> QED BY <1>1, <1>4, <1>6, <1>7, CallKeeps

\* The outcome of the payment is remembered.
LEMMA RemembersOutcome ==
  ASSUME NEW s, NEW x, Driving(x, s), x.wf.bookingId, NEW status \in GatewayPaymentStatus
  PROVE  LET y == [x EXCEPT !.wf.paymentStatus = status]
         IN  /\ Driving(y, s) /\ y.run = x.run /\ y.wf.bookingId
             /\ x.wf.paymentId => y.wf.paymentId
<1> DEFINE u == [x.wf EXCEPT !.paymentStatus = status]
           y == [x EXCEPT !.wf = u]
<1>1. x \in Actor /\ WorkflowOK(x.wf, s)
  BY DEF Driving
<1>2. [x EXCEPT !.wf.paymentStatus = status] = y
  BY <1>1 DEF Actor
<1>3. /\ WorkflowOK(u, s) /\ u.bookingId
      /\ x.wf.paymentId => u.paymentId
  BY <1>1, PaymentStatusIsOK
<1> HIDE DEF u
<1>4. Driving(y, s) /\ y.wf = u /\ y.run = x.run
  BY <1>3, DrivesOther
<1> HIDE DEF y
<1> QED BY <1>2, <1>3, <1>4

\* capture: the payment is captured, or nobody knows.
LEMMA CapturePaymentKeeps ==
  ASSUME SagaInv, NEW c \in Actors, CapturePayment(c), UNCHANGED <<cancel, cancels>>
  PROVE  SagaInv'
<1> DEFINE x == actors[c]
           o == CaptureAnswer(x.seen.version)
           y == [x EXCEPT !.wf.paymentStatus = "CAPTURED"]
           captured == [AfterPaymentCaptured(y) EXCEPT !.dirty = TRUE]
           other == [Raised([x EXCEPT !.wf.paymentStatus = "UNKNOWN"]) EXCEPT !.dirty = TRUE]
           good == CASE IsPending(o.value.status) -> RaisedUnknown(x)
                     [] IsFailed(o.value.status)  -> FailedPayment(x)
                     [] IsCaptured(o.value.status) -> captured
                     [] OTHER -> other
<1>1. /\ At(c, "capture") /\ Call(c, o, good, Raised(x), RaisedUnknown(x))
      /\ c \in Actors
  BY DEF CapturePayment, Actors
<1>2. /\ "capture" \in Pcs \ {"idle", "begin", "saveListed"}
      /\ "capture" \in NeedsBooking \cap NeedsSeats \cap NeedsPayment
  BY DEF Pcs, NeedsBooking, NeedsSeats, NeedsPayment
<1>3. /\ Driving(x, remote) /\ x.wf.bookingId /\ x.wf.reservationId /\ x.wf.paymentId
      /\ WorkflowOK(x.wf, remote)
  BY <1>1, <1>2, AtStep DEF Knows
<1>4. ActorOK(Raised(x), remote, row) /\ ActorOK(RaisedUnknown(x), remote, row)
  BY <1>3, RaisedIsOK, RaisedUnknownIsOK
<1>5. ServicesOK(remote) /\ HasPayment(remote)
  BY <1>3 DEF SagaInv, WorkflowOK
<1>6. GoodAnswer(o) /\ (o.ok => o.value.status \in {"UNKNOWN", "CAPTURED"})
  BY <1>5, CaptureIsGood
<1> HIDE DEF o
<1>7. ASSUME o.ok PROVE ActorOK(good, o.remote, row)
  <2>1. Driving(x, o.remote)
    BY <1>3, <1>6, DrivesAfterCall
  <2>2. CASE o.value.status = "UNKNOWN"
    <3>1. good = RaisedUnknown(x)
      BY <2>2 DEF IsPending, IsFailed, IsCaptured
    <3> HIDE DEF good
    <3> QED BY <1>3, <2>1, <3>1, RaisedUnknownIsOK
  <2>3. CASE o.value.status = "CAPTURED"
    <3>1. good = captured
      BY <2>3 DEF IsPending, IsFailed, IsCaptured
    <3>2. "CAPTURED" \in GatewayPaymentStatus
      BY DEF GatewayPaymentStatus
    <3>3. Driving(y, o.remote) /\ y.wf.paymentId
      BY <1>3, <2>1, <3>2, RemembersOutcome
    <3> HIDE DEF y, good
    <3>4. ActorOK(captured, o.remote, row)
      BY <3>3, AfterCaptureIsOK
    <3> QED BY <3>1, <3>4
  <2> QED BY <1>6, <1>7, <2>2, <2>3
<1> HIDE DEF x, good
<1> QED BY <1>1, <1>4, <1>6, <1>7, CallKeeps

\* After a versioned answer a finished step is remembered with the version.
LEMMA CompletedWithVersion ==
  ASSUME SagaInv, NEW o, Versioned(o), o.ok, NEW x, Driving(x, remote), x.wf.reservationId,
         NEW step \in CompletedSteps, step # "seatConfirmed", NEW w
  PROVE  ActorOK(Completed([x EXCEPT !.wf.version = o.value], step), o.remote, w)
<1> DEFINE y == [x EXCEPT !.wf.version = o.value]
<1>1. x.wf.bookingId
  BY DEF Driving, WorkflowOK
<1>2. SameDrive(x, y, o.remote)
  BY <1>1, GoesOnWithVersion
<1> HIDE DEF y
<1>3. Driving(y, o.remote) /\ y.wf.reservationId
  BY <1>2 DEF SameDrive
<1>4. ActorOK(Completed(y, step), o.remote, w)
  BY <1>3, CompletedIsOK
<1> QED BY <1>4 DEF y

\* record_payment
LEMMA RecordPaymentKeeps ==
  ASSUME SagaInv, NEW a \in Actors, RecordPayment(a), UNCHANGED <<cancel, cancels>>
  PROVE  SagaInv'
<1> DEFINE x == actors[a]
           o == BookingAnswer("booking-payment-result", "RecordPayment",
                  [expectedVersion |-> x.wf.version, paymentId |-> ThePayment,
                   paymentStatus |-> "SUCCEEDED"])
           good == Completed([x EXCEPT !.wf.version = o.value], "paymentRecorded")
           raised == RaisedAfterCapture(x)
<1>1. At(a, "recordPayment") /\ Call(a, o, good, raised, raised)
  BY DEF RecordPayment
<1>2. /\ "recordPayment" \in Pcs \ {"idle", "begin", "saveListed"}
      /\ "recordPayment" \in NeedsBooking \cap NeedsSeats
  BY DEF Pcs, NeedsBooking, NeedsSeats
<1>3. /\ Driving(x, remote) /\ x.wf.bookingId /\ x.wf.reservationId
      /\ WorkflowOK(x.wf, remote)
  BY <1>1, <1>2, AtStep DEF Knows
<1>4. ActorOK(raised, remote, row)
  BY <1>3, RaisedIsOK
<1>5. ServicesOK(remote) /\ HasBooking(remote)
  BY <1>3 DEF SagaInv, WorkflowOK
<1>6. "booking-payment-result" \in BookingKeys /\ "paymentRecorded" \in CompletedSteps
  BY DEF BookingKeys, StepKeys, CompletedSteps
<1>7. Versioned(o)
  BY <1>5, <1>6, RecordPaymentIsVersioned
<1> HIDE DEF o
<1>8. ASSUME o.ok PROVE ActorOK(good, o.remote, row)
  BY <1>3, <1>6, <1>7, <1>8, CompletedWithVersion
<1> HIDE DEF x, good, raised
<1> QED BY <1>1, <1>4, <1>7, <1>8, CallKeeps DEF Versioned

\* confirm: from here on the seats are sold.
LEMMA ConfirmSeatsKeeps ==
  ASSUME SagaInv, NEW a \in Actors, ConfirmSeats(a), UNCHANGED <<cancel, cancels>>
  PROVE  SagaInv'
<1> DEFINE x == actors[a]
           o == ConfirmSeatsAnswer(x.wf.reservationVersion)
           z == [x EXCEPT !.wf.reservationVersion = o.value, !.wf.status = "SEAT_CONFIRMED"]
           good == Completed(z, "seatConfirmed")
           raised == RaisedAfterCapture(x)
<1>1. At(a, "confirmSeats") /\ Call(a, o, good, raised, raised)
  BY DEF ConfirmSeats
<1>2. /\ "confirmSeats" \in Pcs \ {"idle", "begin", "saveListed"}
      /\ "confirmSeats" \in NeedsBooking \cap NeedsSeats
  BY DEF Pcs, NeedsBooking, NeedsSeats
<1>3. /\ Driving(x, remote) /\ x.wf.bookingId /\ x.wf.reservationId
      /\ WorkflowOK(x.wf, remote)
  BY <1>1, <1>2, AtStep DEF Knows
<1>4. ActorOK(raised, remote, row)
  BY <1>3, RaisedIsOK
<1>5. ServicesOK(remote) /\ HasSeats(remote)
  BY <1>3 DEF SagaInv, WorkflowOK
<1>6. GoodAnswer(o) /\ (o.ok => Sold(o.remote) /\ o.value \in Nat)
  BY <1>5, ConfirmSeatsIsGood
<1> HIDE DEF o
<1>7. ASSUME o.ok PROVE ActorOK(good, o.remote, row)
  <2> DEFINE u == [x.wf EXCEPT !.reservationVersion = o.value]
             v == [u EXCEPT !.status = "SEAT_CONFIRMED"]
             y == [x EXCEPT !.wf = v]
  <2>1. Driving(x, o.remote) /\ x \in Actor /\ WorkflowOK(x.wf, o.remote)
    BY <1>3, <1>6, DrivesAfterCall DEF Driving
  <2>2. z = y
    BY <2>1 DEF Actor
  <2>3. WorkflowOK(u, o.remote) /\ u.reservationId = x.wf.reservationId
    BY <1>6, <1>7, <2>1, ReservationVersionIsOK
  <2> HIDE DEF u
  <2>4. "SEAT_CONFIRMED" \in WorkflowStatus
    BY DEF WorkflowStatus
  <2>5. WorkflowOK(v, o.remote) /\ v.reservationId = u.reservationId
    BY <1>6, <1>7, <2>3, <2>4, StatusIsOK
  <2> HIDE DEF v
  <2>6. Driving(y, o.remote) /\ y.wf.reservationId
    <3>1. v.reservationId
      BY <1>3, <2>3, <2>5
    <3>2. Driving(y, o.remote) /\ y.wf = v
      BY <2>1, <2>5, DrivesOther
    <3> QED BY <3>1, <3>2
  <2> HIDE DEF y
  <2>7. "seatConfirmed" \in CompletedSteps
    BY DEF CompletedSteps
  <2> HIDE DEF z
  <2> QED BY <1>6, <1>7, <2>2, <2>6, <2>7, CompletedIsOK
<1> HIDE DEF x, good, raised
<1> QED BY <1>1, <1>4, <1>6, <1>7, CallKeeps

\* confirm_reservation, which only an actor that knows the seats to be sold sends.
LEMMA ConfirmReservationKeeps ==
  ASSUME SagaInv, NEW a \in Actors, ConfirmReservation(a), UNCHANGED <<cancel, cancels>>
  PROVE  SagaInv'
<1> DEFINE x == actors[a]
           o == BookingAnswer("booking-seat-confirmed", "ConfirmReservation",
                  [expectedVersion |-> x.wf.version, reservationId |-> TheReservation,
                   reservationVersion |-> x.wf.reservationVersion])
           good == Completed([x EXCEPT !.wf.version = o.value],
                             "reservationEvidenceConfirmed")
           raised == RaisedAfterCapture(x)
<1>1. At(a, "confirmReservation") /\ Call(a, o, good, raised, raised)
  BY DEF ConfirmReservation
<1>2. /\ "confirmReservation" \in Pcs \ {"idle", "begin", "saveListed"}
      /\ "confirmReservation" \in NeedsBooking \cap NeedsSeats \cap NeedsSold
  BY DEF Pcs, NeedsBooking, NeedsSeats, NeedsSold
<1>3. /\ Driving(x, remote) /\ x.wf.bookingId /\ x.wf.reservationId
      /\ "seatConfirmed" \in x.wf.steps
      /\ WorkflowOK(x.wf, remote) /\ x.wf \in Workflow
  BY <1>1, <1>2, AtStep DEF Knows
<1>4. ActorOK(raised, remote, row)
  BY <1>3, RaisedIsOK
<1>5. /\ ServicesOK(remote) /\ HasBooking(remote) /\ Sold(remote)
      /\ x.wf.reservationVersion \in Nat \cup {None}
  BY <1>3 DEF SagaInv, WorkflowOK, Workflow
<1>6. /\ "booking-seat-confirmed" \in BookingKeys
      /\ "reservationEvidenceConfirmed" \in CompletedSteps
  BY DEF BookingKeys, StepKeys, CompletedSteps
<1>7. Versioned(o)
  BY <1>5, <1>6, ConfirmReservationIsVersioned
<1> HIDE DEF o
<1>8. ASSUME o.ok PROVE ActorOK(good, o.remote, row)
  BY <1>3, <1>6, <1>7, <1>8, CompletedWithVersion
<1> HIDE DEF x, good, raised
<1> QED BY <1>1, <1>4, <1>7, <1>8, CallKeeps DEF Versioned

\* issue, which only an actor that knows the seats to be sold sends.
LEMMA IssueTicketsKeeps ==
  ASSUME SagaInv, NEW a \in Actors, IssueTickets(a), UNCHANGED <<cancel, cancels>>
  PROVE  SagaInv'
<1> DEFINE x == actors[a]
           o == IssueTicketsAnswer
           z == [x EXCEPT !.wf.ticketIds = o.value, !.wf.status = "TICKETS_ISSUED"]
           good == Completed(z, "ticketsIssued")
           raised == RaisedAfterCapture(x)
<1>1. At(a, "issueTickets") /\ Call(a, o, good, raised, raised)
  BY DEF IssueTickets
<1>2. /\ "issueTickets" \in Pcs \ {"idle", "begin", "saveListed"}
      /\ "issueTickets" \in NeedsBooking \cap NeedsSeats \cap NeedsSold
  BY DEF Pcs, NeedsBooking, NeedsSeats, NeedsSold
<1>3. /\ Driving(x, remote) /\ x.wf.bookingId /\ x.wf.reservationId
      /\ "seatConfirmed" \in x.wf.steps /\ WorkflowOK(x.wf, remote)
  BY <1>1, <1>2, AtStep DEF Knows
<1>4. ActorOK(raised, remote, row)
  BY <1>3, RaisedIsOK
<1>5. ServicesOK(remote) /\ Sold(remote)
  BY <1>3 DEF SagaInv, WorkflowOK
<1>6. GoodAnswer(o) /\ o.value = TicketIds /\ Sold(o.remote)
  BY <1>5, IssueTicketsIsGood DEF GoodAnswer, Extends
<1> HIDE DEF o
<1>7. ActorOK(good, o.remote, row)
  <2> DEFINE u == [x.wf EXCEPT !.ticketIds = o.value]
             v == [u EXCEPT !.status = "TICKETS_ISSUED"]
             y == [x EXCEPT !.wf = v]
  <2>1. Driving(x, o.remote) /\ x \in Actor /\ WorkflowOK(x.wf, o.remote)
    BY <1>3, <1>6, DrivesAfterCall DEF Driving
  <2>2. z = y
    BY <2>1 DEF Actor
  <2>3. WorkflowOK(u, o.remote) /\ u.reservationId = x.wf.reservationId
    BY <1>6, <2>1, TicketIdsAreOK
  <2> HIDE DEF u
  <2>4. "TICKETS_ISSUED" \in WorkflowStatus
    BY DEF WorkflowStatus
  <2>5. WorkflowOK(v, o.remote) /\ v.reservationId = u.reservationId
    BY <1>6, <2>3, <2>4, StatusIsOK
  <2> HIDE DEF v
  <2>6. Driving(y, o.remote) /\ y.wf.reservationId
    <3>1. v.reservationId
      BY <1>3, <2>3, <2>5
    <3>2. Driving(y, o.remote) /\ y.wf = v
      BY <2>1, <2>5, DrivesOther
    <3> QED BY <3>1, <3>2
  <2> HIDE DEF y
  <2>7. "ticketsIssued" \in CompletedSteps
    BY DEF CompletedSteps
  <2> HIDE DEF z
  <2> QED BY <1>6, <2>2, <2>6, <2>7, CompletedIsOK
<1> HIDE DEF x, good, raised
<1> QED BY <1>1, <1>4, <1>6, <1>7, CallKeeps

\* attach_tickets
LEMMA AttachTicketsKeeps ==
  ASSUME SagaInv, NEW a \in Actors, AttachTickets(a), UNCHANGED <<cancel, cancels>>
  PROVE  SagaInv'
<1> DEFINE x == actors[a]
           o == BookingAnswer("booking-tickets", "AttachTickets",
                  [expectedVersion |-> x.wf.version, ticketIds |-> x.wf.ticketIds])
           good == Completed([x EXCEPT !.wf.version = o.value], "ticketsAttached")
           raised == RaisedAfterCapture(x)
<1>1. At(a, "attachTickets") /\ Call(a, o, good, raised, raised)
  BY DEF AttachTickets
<1>2. /\ "attachTickets" \in Pcs \ {"idle", "begin", "saveListed"}
      /\ "attachTickets" \in NeedsBooking \cap NeedsSeats \cap NeedsSold
  BY DEF Pcs, NeedsBooking, NeedsSeats, NeedsSold
<1>3. /\ Driving(x, remote) /\ x.wf.bookingId /\ x.wf.reservationId
      /\ "seatConfirmed" \in x.wf.steps
      /\ WorkflowOK(x.wf, remote) /\ x.wf \in Workflow
  BY <1>1, <1>2, AtStep DEF Knows
<1>4. ActorOK(raised, remote, row)
  BY <1>3, RaisedIsOK
<1>5. /\ ServicesOK(remote) /\ HasBooking(remote) /\ Sold(remote)
      /\ x.wf.ticketIds \in SUBSET TicketIds
  BY <1>3 DEF SagaInv, WorkflowOK, Workflow
<1>6. "booking-tickets" \in BookingKeys /\ "ticketsAttached" \in CompletedSteps
  BY DEF BookingKeys, StepKeys, CompletedSteps
<1>7. Versioned(o)
  BY <1>5, <1>6, AttachTicketsIsVersioned
<1> HIDE DEF o
<1>8. ASSUME o.ok PROVE ActorOK(good, o.remote, row)
  BY <1>3, <1>6, <1>7, <1>8, CompletedWithVersion
<1> HIDE DEF x, good, raised
<1> QED BY <1>1, <1>4, <1>7, <1>8, CallKeeps DEF Versioned

\* confirm: the last step is remembered by the save that closes the workflow.
LEMMA ConfirmBookingKeeps ==
  ASSUME SagaInv, NEW a \in Actors, ConfirmBooking(a), UNCHANGED <<cancel, cancels>>
  PROVE  SagaInv'
<1> DEFINE x == actors[a]
           o == BookingAnswer("booking-confirm", "ConfirmBooking",
                  [expectedVersion |-> x.wf.version, reservationId |-> TheReservation,
                   paymentId |-> ThePayment, paymentStatus |-> "SUCCEEDED",
                   ticketIds |-> x.wf.ticketIds])
           y == Completed([x EXCEPT !.wf.version = o.value], "bookingConfirmed")
           good == [y EXCEPT !.dirty = FALSE]
           raised == RaisedAfterCapture(x)
<1>1. At(a, "confirmBooking") /\ Call(a, o, good, raised, raised)
  BY DEF ConfirmBooking
<1>2. /\ "confirmBooking" \in Pcs \ {"idle", "begin", "saveListed"}
      /\ "confirmBooking" \in NeedsBooking \cap NeedsSeats
  BY DEF Pcs, NeedsBooking, NeedsSeats
<1>3. /\ Driving(x, remote) /\ x.wf.bookingId /\ x.wf.reservationId
      /\ WorkflowOK(x.wf, remote)
  BY <1>1, <1>2, AtStep DEF Knows
<1>4. ActorOK(raised, remote, row)
  BY <1>3, RaisedIsOK
<1>5. ServicesOK(remote) /\ HasBooking(remote)
  BY <1>3 DEF SagaInv, WorkflowOK
<1>6. "booking-confirm" \in BookingKeys /\ "bookingConfirmed" \in CompletedSteps
  BY DEF BookingKeys, StepKeys, CompletedSteps
<1>7. Versioned(o)
  BY <1>5, <1>6, ConfirmBookingIsVersioned
<1> HIDE DEF o
<1>8. ASSUME o.ok PROVE ActorOK(good, o.remote, row)
  <2>1. ActorOK(y, o.remote, row)
    BY <1>3, <1>6, <1>7, <1>8, CompletedWithVersion
  <2> HIDE DEF y
  <2>2. y \in Actor
    BY <2>1 DEF ActorOK
  <2>3. /\ good \in Actor /\ good.pc = y.pc /\ good.run = y.run /\ good.wf = y.wf
        /\ good.listed = y.listed /\ ~good.dirty
    BY <2>2 DEF Actor
  <2> HIDE DEF good
  <2> QED BY <2>1, <2>3 DEF ActorOK, Driving
<1> HIDE DEF x, good, raised
<1> QED BY <1>1, <1>4, <1>7, <1>8, CallKeeps DEF Versioned

\* The evidence a saga reports.
LEMMA EvidenceIsEvidence ==
  ASSUME NEW released \in BOOLEAN, NEW refunded \in BOOLEAN
  PROVE  /\ NoEvidence \in Evidence
         /\ [NoEvidence EXCEPT !.reservationReleased = released] \in Evidence
         /\ [NoEvidence EXCEPT !.reservationReleased = released, !.paymentRefunded = refunded]
              \in Evidence
<1>1. NoEvidence \in Evidence
  BY DEF NoEvidence, Evidence
<1>2. ASSUME NEW e \in Evidence
      PROVE  [e EXCEPT !.reservationReleased = released] \in Evidence
  BY DEF Evidence
<1>3. ASSUME NEW e \in Evidence
      PROVE  [e EXCEPT !.paymentRefunded = refunded] \in Evidence
  BY DEF Evidence
<1>4. [NoEvidence EXCEPT !.reservationReleased = released] \in Evidence
  BY <1>1, <1>2
<1> QED BY <1>1, <1>3, <1>4

\* The booking is told that the payment failed.
LEMMA RecordFailedPaymentKeeps ==
  ASSUME SagaInv, NEW a \in Actors, RecordFailedPayment(a), UNCHANGED <<cancel, cancels>>
  PROVE  SagaInv'
<1> DEFINE x == actors[a]
           o == BookingAnswer("booking-payment-failed", "RecordPayment",
                  [expectedVersion |-> x.wf.version, paymentId |-> ThePayment,
                   paymentStatus |-> "FAILED"])
           good == GoTo([x EXCEPT !.wf.version = o.value], "releaseFailed")
<1>1. At(a, "paymentFailed") /\ Call(a, o, good, Raised(x), Raised(x))
  BY DEF RecordFailedPayment
<1>2. /\ "paymentFailed" \in Pcs \ {"idle", "begin", "saveListed"}
      /\ "paymentFailed" \in NeedsBooking \cap NeedsSeats
  BY DEF Pcs, NeedsBooking, NeedsSeats
<1>3. /\ Driving(x, remote) /\ x.wf.bookingId /\ x.wf.reservationId
      /\ WorkflowOK(x.wf, remote)
  BY <1>1, <1>2, AtStep DEF Knows
<1>4. ActorOK(Raised(x), remote, row)
  BY <1>3, RaisedIsOK
<1>5. ServicesOK(remote) /\ HasBooking(remote)
  BY <1>3 DEF SagaInv, WorkflowOK
<1>6. "booking-payment-failed" \in BookingKeys
  BY DEF BookingKeys, StepKeys
<1>7. Versioned(o)
  BY <1>5, <1>6, RecordPaymentIsVersioned
<1> HIDE DEF o
<1>8. ASSUME o.ok PROVE ActorOK(good, o.remote, row)
  <2>1. /\ "releaseFailed" \in Pcs \ {"begin", "saveListed", "getPayment", "refresh"}
        /\ Knows(x.wf, "releaseFailed")
    BY <1>3 DEF Pcs, Knows, NeedsPayment, NeedsSold
  <2> QED BY <1>3, <1>7, <1>8, <2>1, KnowsAfterAnswer
<1> HIDE DEF x, good
<1> QED BY <1>1, <1>4, <1>7, <1>8, CallKeeps DEF Versioned

\* The seats of a failed payment are released, or left to their deadline.
LEMMA ReleaseAfterFailedPaymentKeeps ==
  ASSUME SagaInv, NEW a \in Actors, ReleaseAfterFailedPayment(a), UNCHANGED <<cancel, cancels>>
  PROVE  SagaInv'
<1> DEFINE x == actors[a]
           o == ReleaseSeatsAnswer
           y == [x EXCEPT !.released = TRUE]
           good == GoTo(y, "failBooking")
           bad == GoTo(x, "failBooking")
<1>1. At(a, "releaseFailed") /\ Call(a, o, good, bad, bad)
  BY DEF ReleaseAfterFailedPayment
<1>2. /\ "releaseFailed" \in Pcs \ {"idle", "begin", "saveListed"}
      /\ "releaseFailed" \in NeedsBooking \cap NeedsSeats
  BY DEF Pcs, NeedsBooking, NeedsSeats
<1>3. /\ Driving(x, remote) /\ x.wf.bookingId /\ x.wf.reservationId
      /\ WorkflowOK(x.wf, remote)
  BY <1>1, <1>2, AtStep DEF Knows
<1>4. ServicesOK(remote) /\ HasSeats(remote)
  BY <1>3 DEF SagaInv, WorkflowOK
<1>5. GoodAnswer(o)
  BY <1>4, ReleaseSeatsIsGood
<1> HIDE DEF o
<1>6. /\ "failBooking" \in Pcs \ {"begin", "saveListed", "getPayment", "refresh"}
      /\ Knows(x.wf, "failBooking")
  BY <1>3 DEF Pcs, Knows, NeedsSeats, NeedsPayment, NeedsSold
<1>7. ActorOK(bad, remote, row)
  BY <1>3, <1>6, MovesTo
<1>8. ActorOK(good, o.remote, row)
  <2>1. Driving(x, o.remote) /\ TRUE \in BOOLEAN
    BY <1>3, <1>5, DrivesAfterCall
  <2>2. Driving(y, o.remote) /\ y.wf = x.wf
    BY <2>1, DrivesOn DEF SagaPayment
  <2> HIDE DEF y
  <2> QED BY <1>6, <2>2, MovesTo
<1> HIDE DEF x, good, bad
<1> QED BY <1>1, <1>5, <1>7, <1>8, CallKeeps

\* The booking fails; the workflow is closed, or is to be compensated.
LEMMA FailBookingKeeps ==
  ASSUME SagaInv, NEW a \in Actors, FailBooking(a), UNCHANGED <<cancel, cancels>>
  PROVE  SagaInv'
<1> DEFINE x == actors[a]
           k == IF x.released THEN "COMPLETED" ELSE "PENDING"
           e == [NoEvidence EXCEPT !.reservationReleased = x.released]
           status == IF x.released THEN "FAILED" ELSE "COMPENSATION_PENDING"
           o == BookingAnswer("booking-fail", "FailBooking",
                  [expectedVersion |-> x.wf.version, reason |-> "Payment was not captured",
                   compensationStatus |-> k, evidence |-> e])
           z == [x EXCEPT !.wf.status = status, !.wf.response = 402]
           good == SaveAndGoTo(z, "idle")
<1>1. At(a, "failBooking") /\ Call(a, o, good, Raised(x), Raised(x))
  BY DEF FailBooking
<1>2. /\ "failBooking" \in Pcs \ {"idle", "begin", "saveListed"}
      /\ "failBooking" \in NeedsBooking
  BY DEF Pcs, NeedsBooking
<1>3. Driving(x, remote) /\ x.wf.bookingId /\ WorkflowOK(x.wf, remote) /\ x \in Actor
  BY <1>1, <1>2, AtStep DEF Knows, Driving
<1>4. ActorOK(Raised(x), remote, row)
  BY <1>3, RaisedIsOK
<1>5. ServicesOK(remote) /\ HasBooking(remote)
  BY <1>3 DEF SagaInv, WorkflowOK
<1>6. /\ "booking-fail" \in BookingKeys /\ "Payment was not captured" \in Reasons
      /\ k \in {"NOT_REQUIRED", "COMPLETED", "PENDING"}
  BY SagaAssumption DEF BookingKeys, StepKeys
<1>7. e \in Evidence
  <2>1. x.released \in BOOLEAN /\ FALSE \in BOOLEAN
    BY <1>3 DEF Actor
  <2> QED BY <2>1, EvidenceIsEvidence
<1>8. status \in WorkflowStatus \ {"SEAT_CONFIRMED", "TICKETS_ISSUED", "CONFIRMED"}
  BY DEF WorkflowStatus
<1> HIDE DEF k, e, status
<1>9. Versioned(o)
  BY <1>5, <1>6, <1>7, FailBookingIsVersioned
<1> HIDE DEF o
<1>10. ActorOK(good, o.remote, row)
  <2> DEFINE u == [x.wf EXCEPT !.status = status]
             v == [u EXCEPT !.response = 402]
             y == [x EXCEPT !.wf = v]
  <2>1. Driving(x, o.remote) /\ WorkflowOK(x.wf, o.remote)
    BY <1>3, <1>9, DrivesAfterCall DEF Driving, Versioned
  <2>2. z = y
    BY <2>1, ZenonT(60) DEF Driving, Actor
  <2>3. WorkflowOK(u, o.remote)
    BY <1>8, <2>1, StatusIsOK
  <2> HIDE DEF u
  <2>4. WorkflowOK(v, o.remote)
    <3>1. PICK code \in Responses : code = 402
      BY DEF Responses
    <3>2. WorkflowOK([u EXCEPT !.response = code], o.remote)
      BY <2>3, ResponseIsOK
    <3> QED BY <3>1, <3>2
  <2> HIDE DEF v
  <2>5. Driving(y, o.remote)
    BY <2>1, <2>4, DrivesOther
  <2> HIDE DEF y, z
  <2> QED BY <2>2, <2>5, SavesLast
<1> HIDE DEF x, good
<1> QED BY <1>1, <1>4, <1>9, <1>10, CallKeeps DEF Versioned

\* After a versioned answer the run may also end with a save.
LEMMA EndsWithVersion ==
  ASSUME SagaInv, NEW o, Versioned(o), o.ok, NEW x, Driving(x, remote), x.wf.bookingId, NEW w
  PROVE  LET y == [x EXCEPT !.wf.version = o.value]
         IN  /\ ActorOK(SaveAndGoTo(y, "idle"), o.remote, w)
             /\ ActorOK(SaveAndGoTo(y, RaisedTo(x)), o.remote, w)
             /\ ActorOK(PreCaptureEnds(y), o.remote, w)
<1> DEFINE y == [x EXCEPT !.wf.version = o.value]
<1>1. SameDrive(x, y, o.remote)
  BY GoesOnWithVersion
<1> HIDE DEF y
<1>2. Driving(y, o.remote) /\ RaisedTo(y) = RaisedTo(x)
  BY <1>1 DEF SameDrive, RaisedTo
<1>3. /\ ActorOK(SaveAndGoTo(y, "idle"), o.remote, w)
      /\ ActorOK(SaveAndGoTo(y, RaisedTo(x)), o.remote, w)
      /\ ActorOK(PreCaptureEnds(y), o.remote, w)
  BY <1>2, SavesLast, PreCaptureEndsIsOK
<1> QED BY <1>3 DEF y

\* _persist_payment_unknown
LEMMA PersistPaymentUnknownKeeps ==
  ASSUME SagaInv, NEW a \in Actors, PersistPaymentUnknown(a), UNCHANGED <<cancel, cancels>>
  PROVE  SagaInv'
<1> DEFINE x0 == actors[a]
           x == [x0 EXCEPT !.wf.status = "PAYMENT_UNKNOWN", !.wf.response = 202]
           o == BookingAnswer("booking-payment-unknown", "RecordPayment",
                  [expectedVersion |-> x.wf.version, paymentId |-> ThePayment,
                   paymentStatus |-> "UNKNOWN"])
           good == SaveAndGoTo([x EXCEPT !.wf.version = o.value], "idle")
           bad == SaveAndGoTo(x, "idle")
<1>1. At(a, "persistUnknown") /\ Call(a, o, good, bad, bad)
  BY DEF PersistPaymentUnknown
<1>2. /\ "persistUnknown" \in Pcs \ {"idle", "begin", "saveListed"}
      /\ "persistUnknown" \in NeedsBooking
  BY DEF Pcs, NeedsBooking
<1>3. /\ Driving(x0, remote) /\ x0.wf.bookingId /\ WorkflowOK(x0.wf, remote)
      /\ x0 \in Actor
  BY <1>1, <1>2, AtStep DEF Knows, Driving
<1>4. Driving(x, remote) /\ x.wf.bookingId
  <2> DEFINE u == [x0.wf EXCEPT !.status = "PAYMENT_UNKNOWN"]
             v == [u EXCEPT !.response = 202]
             y == [x0 EXCEPT !.wf = v]
  <2>1. x = y
    BY <1>3 DEF Actor
  <2>2. "PAYMENT_UNKNOWN" \in WorkflowStatus
    BY DEF WorkflowStatus
  <2>3. WorkflowOK(u, remote) /\ u.bookingId
    BY <1>3, <2>2, StatusIsOK
  <2> HIDE DEF u
  <2>4. WorkflowOK(v, remote) /\ v.bookingId
    <3>1. PICK code \in Responses : code = 202
      BY DEF Responses
    <3> DEFINE t == [u EXCEPT !.response = code]
    <3>2. WorkflowOK(t, remote) /\ t.bookingId
      BY <2>3, ResponseIsOK
    <3> QED BY <3>1, <3>2
  <2> HIDE DEF v
  <2>5. Driving(y, remote) /\ y.wf = v
    BY <1>3, <2>4, DrivesOther
  <2> HIDE DEF y, x
  <2> QED BY <2>1, <2>4, <2>5
<1> HIDE DEF x
<1>5. ServicesOK(remote) /\ HasBooking(remote)
  BY <1>4 DEF SagaInv, WorkflowOK, Driving
<1>6. "booking-payment-unknown" \in BookingKeys
  BY DEF BookingKeys, StepKeys
<1>7. Versioned(o)
  BY <1>5, <1>6, RecordPaymentIsVersioned
<1> HIDE DEF o
<1>8. ASSUME o.ok PROVE ActorOK(good, o.remote, row)
  BY <1>4, <1>7, <1>8, EndsWithVersion
<1>9. ActorOK(bad, remote, row)
  BY <1>4, SavesLast
<1> HIDE DEF good, bad
<1> QED BY <1>1, <1>7, <1>8, <1>9, CallKeeps DEF Versioned

\* _mark_booking_compensation_pending
LEMMA MarkCompensationPendingKeeps ==
  ASSUME SagaInv, NEW a \in Actors, MarkCompensationPendingAt(a), UNCHANGED <<cancel, cancels>>
  PROVE  SagaInv'
<1> DEFINE x == actors[a]
           o == BookingAnswer("mark-compensation-pending", "FailBooking",
                  [expectedVersion |-> x.wf.version,
                   reason |-> "A post-capture workflow step failed",
                   compensationStatus |-> "PENDING", evidence |-> NoEvidence])
           good == SaveAndGoTo([x EXCEPT !.wf.version = o.value], RaisedTo(x))
           bad == SaveAndGoTo(x, RaisedTo(x))
<1>1. At(a, "markPending") /\ Call(a, o, good, bad, bad)
  BY DEF MarkCompensationPendingAt
<1>2. /\ "markPending" \in Pcs \ {"idle", "begin", "saveListed"}
      /\ "markPending" \in NeedsBooking
  BY DEF Pcs, NeedsBooking
<1>3. Driving(x, remote) /\ x.wf.bookingId
  BY <1>1, <1>2, AtStep DEF Knows
<1>4. ServicesOK(remote) /\ HasBooking(remote)
  BY <1>3 DEF SagaInv, WorkflowOK, Driving
<1>5. /\ "mark-compensation-pending" \in BookingKeys
      /\ "A post-capture workflow step failed" \in Reasons /\ NoEvidence \in Evidence
  BY SagaAssumption DEF BookingKeys, StepKeys, NoEvidence, Evidence
<1>6. Versioned(o)
  BY <1>4, <1>5, FailBookingIsVersioned
<1> HIDE DEF o
<1>7. ASSUME o.ok PROVE ActorOK(good, o.remote, row)
  BY <1>3, <1>6, <1>7, EndsWithVersion
<1>8. ActorOK(bad, remote, row)
  BY <1>3, SavesLast
<1> HIDE DEF x, good, bad
<1> QED BY <1>1, <1>6, <1>7, <1>8, CallKeeps DEF Versioned

\* What the actor could not take back is noted.
LEMMA IncompleteDrives ==
  ASSUME NEW s, NEW x, Driving(x, s)
  PROVE  LET y == Incomplete(x) IN Driving(y, s) /\ y.wf = x.wf /\ y.run = x.run
BY DrivesOn DEF Incomplete

\* _compensate_payment asks for the payment ...
LEMMA QueryPaymentKeeps ==
  ASSUME SagaInv, NEW a \in Actors, QueryPayment(a), UNCHANGED <<cancel, cancels>>
  PROVE  SagaInv'
<1> DEFINE x0 == actors[a]
           x == [x0 EXCEPT !.seen = remote.payment]
           status == remote.payment.status
           settled == [x EXCEPT !.refunded = status = "REFUNDED"]
           good == CASE status \in {"CAPTURED", "PARTIALLY_REFUNDED"} -> GoTo(x, "refund")
                     [] status \in {"PENDING", "AUTHORIZED"} -> GoTo(x, "cancelPayment")
                     [] status \in {"REFUNDED", "CANCELLED", "FAILED"} -> AfterMoney(settled)
                     [] OTHER -> AfterMoney(Incomplete(x))
           bad == AfterMoney(Incomplete(x))
           o == Query(remote.payment)
<1>1. At(a, "queryPayment") /\ Call(a, o, good, bad, bad)
  BY DEF QueryPayment
<1>2. /\ "queryPayment" \in Pcs \ {"idle", "begin", "saveListed"}
      /\ "queryPayment" \in NeedsPayment
  BY DEF Pcs, NeedsPayment
<1>3. Driving(x0, remote) /\ x0.wf.paymentId /\ WorkflowOK(x0.wf, remote)
  BY <1>1, <1>2, AtStep DEF Knows
<1>4. x0.wf.bookingId /\ x0.wf.reservationId /\ HasPayment(remote) /\ ServicesOK(remote)
  BY <1>3 DEF WorkflowOK, SagaInv
<1>5. Driving(x, remote) /\ x.wf = x0.wf
  BY <1>3, <1>4, DrivesOn DEF HasPayment
<1> HIDE DEF x, x0
<1>6. GoodAnswer(o) /\ o.remote = remote
  BY <1>4, QueryIsGood
<1> HIDE DEF o
<1>7. ActorOK(bad, remote, row)
  BY <1>5, IncompleteDrives, AfterMoneyIsOK
<1>8. ActorOK(AfterMoney(settled), remote, row)
  <2>1. (status = "REFUNDED") \in BOOLEAN
    OBVIOUS
  <2>2. Driving(settled, remote)
    BY <1>5, <2>1, DrivesOn
  <2> HIDE DEF settled
  <2> QED BY <2>2, AfterMoneyIsOK
<1>9. ActorOK(GoTo(x, "refund"), remote, row) /\ ActorOK(GoTo(x, "cancelPayment"), remote, row)
  <2>1. \A step \in {"refund", "cancelPayment"} :
          /\ step \in Pcs \ {"begin", "saveListed", "getPayment", "refresh"}
          /\ Knows(x.wf, step)
    BY <1>3, <1>4, <1>5 DEF Pcs, Knows, NeedsBooking, NeedsSeats, NeedsSold
  <2> QED BY <1>5, <2>1, MovesTo
<1> HIDE DEF status, settled
<1>10. ActorOK(good, remote, row)
  BY <1>7, <1>8, <1>9
<1> HIDE DEF good, bad
<1> QED BY <1>1, <1>6, <1>7, <1>10, CallKeeps

\* ... then refunds it ...
LEMMA RefundPaymentKeeps ==
  ASSUME SagaInv, NEW a \in Actors, RefundPayment(a), UNCHANGED <<cancel, cancels>>
  PROVE  SagaInv'
<1> DEFINE x == actors[a]
           r == [version |-> x.seen.version, amount |-> None, refundReference |-> None]
           o == RefundAnswer(r)
           y == [x EXCEPT !.refunded = TRUE]
           good == AfterMoney(y)
           bad == AfterMoney(Incomplete(x))
<1>1. At(a, "refund") /\ Call(a, o, good, bad, bad)
  BY DEF RefundPayment
<1>2. "refund" \in Pcs \ {"idle", "begin", "saveListed"}
  BY DEF Pcs
<1>3. Driving(x, remote)
  BY <1>1, <1>2, AtStep
<1>4. r.amount = None /\ ServicesOK(remote)
  BY DEF SagaInv
<1> HIDE DEF r
<1>5. GoodAnswer(o)
  BY <1>4, RefundIsGood
<1> HIDE DEF o
<1>6. ActorOK(bad, remote, row)
  BY <1>3, IncompleteDrives, AfterMoneyIsOK
<1>7. ActorOK(good, o.remote, row)
  <2>1. Driving(x, o.remote) /\ TRUE \in BOOLEAN
    BY <1>3, <1>5, DrivesAfterCall
  <2>2. Driving(y, o.remote)
    BY <2>1, DrivesOn DEF SagaPayment
  <2> HIDE DEF y
  <2> QED BY <2>2, AfterMoneyIsOK
<1> HIDE DEF x, good, bad
<1> QED BY <1>1, <1>5, <1>6, <1>7, CallKeeps

\* ... or cancels it.
LEMMA CancelPaymentKeeps ==
  ASSUME SagaInv, NEW a \in Actors, CancelPayment(a), UNCHANGED <<cancel, cancels>>
  PROVE  SagaInv'
<1> DEFINE x == actors[a]
           o == CancelPaymentAnswer(x.seen.version)
           good == AfterMoney(x)
           bad == AfterMoney(Incomplete(x))
<1>1. At(a, "cancelPayment") /\ Call(a, o, good, bad, bad)
  BY DEF CancelPayment
<1>2. /\ "cancelPayment" \in Pcs \ {"idle", "begin", "saveListed"}
      /\ "cancelPayment" \in NeedsPayment
  BY DEF Pcs, NeedsPayment
<1>3. Driving(x, remote) /\ x.wf.paymentId /\ WorkflowOK(x.wf, remote)
  BY <1>1, <1>2, AtStep DEF Knows
<1>4. ServicesOK(remote) /\ HasPayment(remote)
  BY <1>3 DEF SagaInv, WorkflowOK
<1>5. GoodAnswer(o)
  BY <1>4, CancelPaymentIsGood
<1> HIDE DEF o
<1>6. ActorOK(bad, remote, row)
  BY <1>3, IncompleteDrives, AfterMoneyIsOK
<1>7. ActorOK(good, o.remote, row)
  BY <1>3, <1>5, DrivesAfterCall, AfterMoneyIsOK
<1> HIDE DEF x, good, bad
<1> QED BY <1>1, <1>5, <1>6, <1>7, CallKeeps

\* The seats follow, and then the booking.
LEMMA ReleaseSeatsKeeps ==
  ASSUME SagaInv, NEW a \in Actors, ReleaseSeats(a), UNCHANGED <<cancel, cancels>>
  PROVE  SagaInv'
<1> DEFINE x == actors[a]
           o == ReleaseSeatsAnswer
           step == ClosingStep(x)
           y == [x EXCEPT !.released = TRUE]
           good == GoTo(y, step)
           bad == GoTo(Incomplete(x), step)
<1>1. At(a, "releaseSeats") /\ Call(a, o, good, bad, bad)
  BY DEF ReleaseSeats
<1>2. /\ "releaseSeats" \in Pcs \ {"idle", "begin", "saveListed"}
      /\ "releaseSeats" \in NeedsSeats
  BY DEF Pcs, NeedsSeats
<1>3. Driving(x, remote) /\ x.wf.reservationId /\ WorkflowOK(x.wf, remote)
  BY <1>1, <1>2, AtStep DEF Knows
<1>4. ServicesOK(remote) /\ HasSeats(remote) /\ x.wf.bookingId
  BY <1>3 DEF SagaInv, WorkflowOK
<1>5. GoodAnswer(o)
  BY <1>4, ReleaseSeatsIsGood
<1> HIDE DEF o
<1>6. /\ step \in Pcs \ {"begin", "saveListed", "getPayment", "refresh"}
      /\ Knows(x.wf, step)
  BY <1>4 DEF Pcs, Knows, NeedsSeats, NeedsPayment, NeedsSold, ClosingStep
<1> HIDE DEF step
<1>7. ActorOK(bad, remote, row)
  <2>1. Driving(Incomplete(x), remote) /\ Incomplete(x).wf = x.wf
    BY <1>3, IncompleteDrives
  <2> QED BY <1>6, <2>1, MovesTo
<1>8. ActorOK(good, o.remote, row)
  <2>1. Driving(x, o.remote) /\ TRUE \in BOOLEAN
    BY <1>3, <1>5, DrivesAfterCall
  <2>2. Driving(y, o.remote) /\ y.wf = x.wf
    BY <2>1, DrivesOn DEF SagaPayment
  <2> HIDE DEF y
  <2> QED BY <1>6, <2>2, MovesTo
<1> HIDE DEF x, good, bad
<1> QED BY <1>1, <1>5, <1>7, <1>8, CallKeeps

\* _fail_pre_capture_workflow tells the booking and ends.
LEMMA FailPreCaptureKeeps ==
  ASSUME SagaInv, NEW a \in Actors, FailPreCapture(a), UNCHANGED <<cancel, cancels>>
  PROVE  SagaInv'
<1> DEFINE x == actors[a]
           required == x.wf.paymentId \/ x.wf.reservationId
           k == CASE ~required -> "NOT_REQUIRED"
                  [] required /\ x.complete -> "COMPLETED"
                  [] OTHER -> "PENDING"
           e == [NoEvidence EXCEPT !.reservationReleased = x.released]
           o == BookingAnswer("pre-capture-fail", "FailBooking",
                  [expectedVersion |-> x.wf.version,
                   reason |-> "Booking workflow failed before payment capture",
                   compensationStatus |-> k, evidence |-> e])
           good == PreCaptureEnds([x EXCEPT !.wf.version = o.value])
           bad == PreCaptureEnds(Incomplete(x))
<1>1. At(a, "failPreCapture") /\ Call(a, o, good, bad, bad)
  BY DEF FailPreCapture
<1>2. /\ "failPreCapture" \in Pcs \ {"idle", "begin", "saveListed"}
      /\ "failPreCapture" \in NeedsBooking
  BY DEF Pcs, NeedsBooking
<1>3. Driving(x, remote) /\ x.wf.bookingId /\ WorkflowOK(x.wf, remote) /\ x \in Actor
  BY <1>1, <1>2, AtStep DEF Knows, Driving
<1>4. ServicesOK(remote) /\ HasBooking(remote)
  BY <1>3 DEF SagaInv, WorkflowOK
<1>5. /\ "pre-capture-fail" \in BookingKeys
      /\ "Booking workflow failed before payment capture" \in Reasons
      /\ k \in {"NOT_REQUIRED", "COMPLETED", "PENDING"}
  BY SagaAssumption DEF BookingKeys, StepKeys
<1>6. e \in Evidence
  <2>1. x.released \in BOOLEAN /\ FALSE \in BOOLEAN
    BY <1>3 DEF Actor
  <2> QED BY <2>1, EvidenceIsEvidence
<1> HIDE DEF k, e
<1>7. Versioned(o)
  BY <1>4, <1>5, <1>6, FailBookingIsVersioned
<1> HIDE DEF o
<1>8. ASSUME o.ok PROVE ActorOK(good, o.remote, row)
  BY <1>3, <1>7, <1>8, EndsWithVersion
<1>9. ActorOK(bad, remote, row)
  BY <1>3, IncompleteDrives, PreCaptureEndsIsOK
<1> HIDE DEF x, good, bad
<1> QED BY <1>1, <1>7, <1>8, <1>9, CallKeeps DEF Versioned

\* reconcile and compensate read the row again.
LEMMA BeginKeeps ==
  ASSUME SagaInv, NEW a \in Actors, Begin(a), UNCHANGED <<cancel, cancels>>
  PROVE  SagaInv'
<1> DEFINE x0 == actors[a]
           x == [x0 EXCEPT !.wf = row]
           z == [x EXCEPT !.run = "compensate"]
           next == CASE /\ x.run = "compensate" /\ row.status # "COMPENSATION_PENDING" -> Idle
                     [] row.status = "COMPENSATION_PENDING" ->
                          IF row.bookingId THEN GoTo(z, "getBooking") ELSE Propagates(x)
                     [] /\ x.run = "reconcile" /\ row.response # None
                        /\ row.status \in TerminalWorkflowStatuses -> Idle
                     [] OTHER -> IF row.paymentId THEN GoTo(x, "getPayment")
                                                  ELSE Propagates(x)
<1>1. /\ At(a, "begin") /\ Becomes(a, next)
      /\ UNCHANGED <<row, remote, outbox, now, crashes, faults>>
  BY DEF Begin
<1>2. /\ x0 \in Actor /\ x0.run \in WorkerRuns /\ WorkflowOK(x0.listed, remote)
      /\ WorkflowOK(row, remote)
  BY <1>1 DEF SagaInv, ActorOK, At
<1>3. row \in Workflow
  BY <1>2 DEF WorkflowOK
<1>5. /\ x \in Actor /\ x.run = x0.run /\ x.wf = row /\ x.listed = x0.listed
  BY <1>2, <1>3 DEF Actor
<1> HIDE DEF x
<1>6. Driving(x, remote)
  BY <1>2, <1>5 DEF Driving, WorkerRuns, Runs
<1>7. /\ z \in Actor /\ z.run = "compensate" /\ z.wf = row /\ z.listed = x0.listed
  BY <1>5 DEF Actor, Runs
<1> HIDE DEF z
<1>8. Driving(z, remote)
  BY <1>2, <1>7 DEF Driving, WorkerRuns, Runs
<1>9. ActorOK(Idle, remote, row) /\ ActorOK(Propagates(x), remote, row)
  BY <1>6, IdleIsOK, PropagatesIsOK
<1>10. row.bookingId => ActorOK(GoTo(z, "getBooking"), remote, row)
  <2>1. HAVE row.bookingId
  <2>2. /\ "getBooking" \in Pcs \ {"begin", "saveListed", "getPayment", "refresh"}
        /\ Knows(z.wf, "getBooking")
    BY <1>7, <2>1 DEF Pcs, Knows, NeedsSeats, NeedsPayment, NeedsSold
  <2> QED BY <1>8, <2>2, MovesTo
<1>11. row.paymentId => ActorOK(GoTo(x, "getPayment"), remote, row)
  <2>1. HAVE row.paymentId
  <2>2. "getPayment" \in Pcs \ {"begin"} /\ Knows(x.wf, "getPayment") /\ x.run \in WorkerRuns
    BY <1>2, <1>5, <2>1 DEF Pcs, Knows, NeedsBooking, NeedsSeats, NeedsSold
  <2> QED BY <1>6, <2>2, MovesTo
<1>12. ActorOK(next, remote, row')
  BY <1>1, <1>9, <1>10, <1>11
<1>13. outbox' \in Nat /\ crashes' \in 0 .. MaxCrashes
  BY <1>1 DEF SagaInv, CountersOK
<1> HIDE DEF next
<1> QED BY <1>1, <1>12, <1>13, ActsAlone

\* The payment decides how the worker goes on.
LEMMA GetPaymentKeeps ==
  ASSUME SagaInv, NEW a \in Actors, GetPayment(a), UNCHANGED <<cancel, cancels>>
  PROVE  SagaInv'
<1> DEFINE x == actors[a]
           status == remote.payment.status
           unknown == [x EXCEPT !.wf.paymentStatus = "UNKNOWN"]
           captured == [x EXCEPT !.wf.paymentStatus = "CAPTURED"]
           o == Query(status)
           good == CASE IsPending(status) -> GoTo(unknown, "persistUnknown")
                     [] IsFailed(status)  -> FailedPayment(x)
                     [] IsCaptured(status) -> GoTo(captured, "refresh")
                     [] OTHER -> Propagates(x)
<1>1. At(a, "getPayment") /\ Call(a, o, good, Propagates(x), Propagates(x))
  BY DEF GetPayment
<1>2. /\ "getPayment" \in Pcs \ {"idle", "begin", "saveListed"}
      /\ "getPayment" \in NeedsPayment
  BY DEF Pcs, NeedsPayment
<1>3. /\ Driving(x, remote) /\ x.wf.paymentId /\ WorkflowOK(x.wf, remote)
      /\ x.run \in WorkerRuns
  BY <1>1, <1>2, AtStep DEF Knows
<1>4. x.wf.bookingId /\ ServicesOK(remote)
  BY <1>3 DEF WorkflowOK, SagaInv
<1>5. GoodAnswer(o) /\ o.remote = remote
  BY <1>4, QueryIsGood
<1> HIDE DEF o
<1>6. ActorOK(Propagates(x), remote, row) /\ ActorOK(FailedPayment(x), remote, row)
  BY <1>3, PropagatesIsOK, FailedPaymentIsOK
<1>7. "UNKNOWN" \in GatewayPaymentStatus /\ "CAPTURED" \in GatewayPaymentStatus
  BY DEF GatewayPaymentStatus
<1>8. Driving(unknown, remote) /\ unknown.wf.bookingId
  BY <1>3, <1>4, <1>7, RemembersOutcome
<1>9. /\ Driving(captured, remote) /\ captured.wf.paymentId /\ captured.run \in WorkerRuns
  BY <1>3, <1>4, <1>7, RemembersOutcome
<1> HIDE DEF unknown, captured
<1>10. ActorOK(GoTo(unknown, "persistUnknown"), remote, row)
  <2>1. /\ "persistUnknown" \in Pcs \ {"begin", "saveListed", "getPayment", "refresh"}
        /\ Knows(unknown.wf, "persistUnknown")
    BY <1>8 DEF Pcs, Knows, NeedsSeats, NeedsPayment, NeedsSold
  <2> QED BY <1>8, <2>1, MovesTo
<1>11. ActorOK(GoTo(captured, "refresh"), remote, row)
  <2>1. "refresh" \in Pcs \ {"begin"} /\ Knows(captured.wf, "refresh")
    BY <1>9 DEF Pcs, Knows, NeedsBooking, NeedsSeats, NeedsSold
  <2> QED BY <1>9, <2>1, MovesTo
<1>12. ActorOK(good, remote, row)
  BY <1>6, <1>10, <1>11
<1> HIDE DEF x, good
<1> QED BY <1>1, <1>5, <1>6, <1>12, CallKeeps

\* compensate starts from the booking's current version.
LEMMA GetBookingKeeps ==
  ASSUME SagaInv, NEW a \in Actors, GetBooking(a), UNCHANGED <<cancel, cancels>>
  PROVE  SagaInv'
<1> DEFINE x == actors[a]
           o == Query(remote.booking)
           y == [x EXCEPT !.wf.version = remote.booking.resourceVersion]
           good == GoTo(y, "listTickets")
<1>1. At(a, "getBooking") /\ Call(a, o, good, Propagates(x), Propagates(x))
  BY DEF GetBooking
<1>2. /\ "getBooking" \in Pcs \ {"idle", "begin", "saveListed"}
      /\ "getBooking" \in NeedsBooking
  BY DEF Pcs, NeedsBooking
<1>3. Driving(x, remote) /\ x.wf.bookingId /\ WorkflowOK(x.wf, remote)
  BY <1>1, <1>2, AtStep DEF Knows
<1>4. ServicesOK(remote) /\ remote.booking.resourceVersion \in Nat
  BY <1>3 DEF WorkflowOK, SagaInv, HasBooking, Booking
<1>5. GoodAnswer(o) /\ o.remote = remote
  BY <1>4, QueryIsGood
<1> HIDE DEF o
<1>6. ActorOK(Propagates(x), remote, row)
  BY <1>3, PropagatesIsOK
<1>7. SameDrive(x, y, remote)
  BY <1>3, <1>4, RemembersVersion
<1> HIDE DEF y
<1>8. /\ "listTickets" \in Pcs \ {"begin", "saveListed", "getPayment", "refresh"}
      /\ Knows(y.wf, "listTickets")
  BY <1>3, <1>7 DEF Pcs, Knows, NeedsSeats, NeedsPayment, NeedsSold, SameDrive
<1>9. ActorOK(good, remote, row)
  BY <1>7, <1>8, MovesTo DEF SameDrive
<1> HIDE DEF x, good
<1> QED BY <1>1, <1>5, <1>6, <1>9, CallKeeps

\* What the booking shows is so: it says that seats are confirmed only when they are sold.
LEMMA RefreshBookingVersionKeeps ==
  ASSUME SagaInv, NEW a \in Actors, RefreshBookingVersion(a), UNCHANGED <<cancel, cancels>>
  PROVE  SagaInv'
<1> DEFINE x == actors[a]
           b == remote.booking
           shown == StepsShownByBooking(b)
           ids == IF b.ticketIds # {} THEN b.ticketIds ELSE x.wf.ticketIds
           version == IF b.reservationVersion # None
                        THEN b.reservationVersion ELSE x.wf.reservationVersion
           y == [x EXCEPT !.wf.version = b.resourceVersion,
                          !.wf.steps = @ \cup StepsShownByBooking(b),
                          !.wf.ticketIds = IF b.ticketIds # {} THEN b.ticketIds ELSE @,
                          !.wf.reservationVersion = IF b.reservationVersion # None
                                                      THEN b.reservationVersion ELSE @]
           o == Query(b)
           good == [AfterPaymentCaptured(y) EXCEPT !.dirty = TRUE]
<1>1. At(a, "refresh") /\ Call(a, o, good, Propagates(x), Propagates(x))
  BY DEF RefreshBookingVersion
<1>2. /\ "refresh" \in Pcs \ {"idle", "begin", "saveListed"} /\ "refresh" \in NeedsPayment
  BY DEF Pcs, NeedsPayment
<1>3. /\ Driving(x, remote) /\ x.wf.paymentId /\ WorkflowOK(x.wf, remote)
      /\ x \in Actor /\ x.wf \in Workflow
  BY <1>1, <1>2, AtStep DEF Knows, Driving
<1>4. x.wf.bookingId /\ x.wf.reservationId /\ ServicesOK(remote) /\ b \in Booking
  BY <1>3 DEF WorkflowOK, SagaInv, HasBooking
<1>5. GoodAnswer(o) /\ o.remote = remote
  BY <1>4, QueryIsGood
<1> HIDE DEF o
<1>6. ActorOK(Propagates(x), remote, row)
  BY <1>3, PropagatesIsOK
<1>7. SaysSold(b) => Sold(remote)
  BY <1>4 DEF ServicesOK, HasBooking
<1>8. /\ b.resourceVersion \in Nat /\ ids \in SUBSET TicketIds
      /\ version \in Nat \cup {None}
  BY <1>3, <1>4 DEF Booking, Workflow
<1>9. ids # {} => Sold(remote)
  BY <1>3, <1>7 DEF SaysSold, WorkflowOK
<1>10. shown \in SUBSET CompletedSteps /\ ("seatConfirmed" \in shown => Sold(remote))
  BY <1>7 DEF StepsShownByBooking, CompletedSteps, SaysSold
<1>11. version # None
  BY <1>3, <1>4 DEF WorkflowOK
<1> DEFINE u1 == [x.wf EXCEPT !.version = b.resourceVersion]
           u2 == [u1 EXCEPT !.steps = @ \cup shown]
           u3 == [u2 EXCEPT !.ticketIds = ids]
           u4 == [u3 EXCEPT !.reservationVersion = version]
           z == [x EXCEPT !.wf = u4]
<1>12. y = z
  BY ZenonT(60), <1>3 DEF Actor, Workflow
<1> HIDE DEF y, shown, ids, version
<1>13. WorkflowOK(u1, remote) /\ (x.wf.paymentId => u1.paymentId)
  BY <1>3, <1>8, VersionIsOK
<1> HIDE DEF u1
<1>14. WorkflowOK(u2, remote) /\ (u1.paymentId => u2.paymentId)
  BY <1>10, <1>13, StepsAreOK
<1> HIDE DEF u2
<1>15. WorkflowOK(u3, remote) /\ (u2.paymentId => u3.paymentId)
  BY <1>8, <1>9, <1>14, TicketIdsAreOK
<1> HIDE DEF u3
<1>16. version \in Nat
  BY <1>8, <1>11
<1>17. WorkflowOK(u4, remote) /\ (u3.paymentId => u4.paymentId)
  BY <1>15, <1>16, ReservationVersionIsOK
<1> HIDE DEF u4
<1>18. Driving(z, remote) /\ z.wf = u4
  BY <1>3, <1>17, DrivesOther
<1>19. Driving(y, remote) /\ y.wf.paymentId
  BY <1>3, <1>12, <1>13, <1>14, <1>15, <1>17, <1>18
<1>20. ActorOK(good, remote, row)
  BY <1>19, AfterCaptureIsOK
<1> HIDE DEF x, good
<1> QED BY <1>1, <1>5, <1>6, <1>20, CallKeeps

\* The tickets that are known are looked up ...
LEMMA ListTicketsKeeps ==
  ASSUME SagaInv, NEW a \in Actors, ListTickets(a), UNCHANGED <<cancel, cancels>>
  PROVE  SagaInv'
<1> DEFINE x == actors[a]
           found(ids) ==
             IF ids # {} THEN GoTo([x EXCEPT !.wf.ticketIds = ids], "cancelTickets")
                         ELSE UndoResources(x)
           o == Query(KnownTickets)
           good == found(x.wf.ticketIds \cup KnownTickets)
           bad == found(x.wf.ticketIds)
<1>1. At(a, "listTickets") /\ Call(a, o, good, bad, bad)
  BY DEF ListTickets
<1>2. /\ "listTickets" \in Pcs \ {"idle", "begin", "saveListed"}
      /\ "listTickets" \in NeedsBooking
  BY DEF Pcs, NeedsBooking
<1>3. /\ Driving(x, remote) /\ x.wf.bookingId /\ WorkflowOK(x.wf, remote)
      /\ x \in Actor /\ x.wf \in Workflow
  BY <1>1, <1>2, AtStep DEF Knows, Driving
<1>4. ServicesOK(remote)
  BY DEF SagaInv
<1>5. GoodAnswer(o) /\ o.remote = remote
  BY <1>4, QueryIsGood
<1> HIDE DEF o
<1>6. ASSUME NEW ids \in SUBSET TicketIds, ids # {} => Sold(remote)
      PROVE  ActorOK(found(ids), remote, row)
  <2>1. CASE ids = {}
    BY <1>3, <2>1, UndoIsOK
  <2>2. CASE ids # {}
    <3> DEFINE u == [x.wf EXCEPT !.ticketIds = ids]
               y == [x EXCEPT !.wf = u]
    <3>1. [x EXCEPT !.wf.ticketIds = ids] = y
      BY <1>3 DEF Actor
    <3>2. WorkflowOK(u, remote) /\ u.ticketIds = ids /\ (x.wf.bookingId => u.bookingId)
      BY <1>3, <1>6, TicketIdsAreOK
    <3> HIDE DEF u
    <3>3. Driving(y, remote) /\ y.wf = u
      BY <1>3, <3>2, DrivesOther
    <3> HIDE DEF y
    <3>4. /\ "cancelTickets" \in Pcs \ {"begin", "saveListed", "getPayment", "refresh"}
          /\ Knows(y.wf, "cancelTickets")
      BY <1>3, <2>2, <3>2, <3>3 DEF Pcs, Knows, NeedsSeats, NeedsPayment, NeedsSold
    <3>5. ActorOK(GoTo(y, "cancelTickets"), remote, row)
      BY <3>3, <3>4, MovesTo
    <3> QED BY <2>2, <3>1, <3>5
  <2> QED BY <2>1, <2>2
<1>7. /\ x.wf.ticketIds \in SUBSET TicketIds
      /\ x.wf.ticketIds # {} => Sold(remote)
  BY <1>3 DEF Workflow, WorkflowOK
<1>8. KnownTickets \in SUBSET TicketIds /\ (KnownTickets # {} => Sold(remote))
  BY <1>4 DEF KnownTickets, ServicesOK
<1>9. /\ (x.wf.ticketIds \cup KnownTickets) \in SUBSET TicketIds
      /\ (x.wf.ticketIds \cup KnownTickets) # {} => Sold(remote)
  BY <1>7, <1>8
<1> HIDE DEF found
<1>10. ActorOK(good, remote, row) /\ ActorOK(bad, remote, row)
  BY <1>6, <1>7, <1>9
<1> HIDE DEF x, good, bad
<1> QED BY <1>1, <1>5, <1>10, CallKeeps

\* ... and cancelled.
LEMMA CancelTicketsKeeps ==
  ASSUME SagaInv, NEW a \in Actors, CancelTickets(a), UNCHANGED <<cancel, cancels>>
  PROVE  SagaInv'
<1> DEFINE x == actors[a]
           o == Accepted(None, [remote EXCEPT !.tickets = "CANCELLED"])
           good == UndoResources(x)
           bad == UndoResources(Incomplete(x))
<1>1. At(a, "cancelTickets") /\ Call(a, o, good, bad, bad)
  BY DEF CancelTickets
<1>2. "cancelTickets" \in Pcs \ {"idle", "begin", "saveListed"}
  BY DEF Pcs
<1>3. Driving(x, remote) /\ x.wf.ticketIds # {} /\ WorkflowOK(x.wf, remote)
  BY <1>1, <1>2, AtStep DEF Knows
<1>4. ServicesOK(remote) /\ Sold(remote)
  BY <1>3 DEF SagaInv, WorkflowOK
<1>5. GoodAnswer(o)
  BY <1>4, CancelTicketsIsGood
<1> HIDE DEF o
<1>6. ActorOK(bad, remote, row)
  BY <1>3, IncompleteDrives, UndoIsOK
<1>7. ActorOK(good, o.remote, row)
  BY <1>3, <1>5, DrivesAfterCall, UndoIsOK
<1> HIDE DEF x, good, bad
<1> QED BY <1>1, <1>5, <1>6, <1>7, CallKeeps

\* compensate reports what it took back.
LEMMA RecordCompensationKeeps ==
  ASSUME SagaInv, NEW a \in Actors, RecordCompensation(a), UNCHANGED <<cancel, cancels>>
  PROVE  SagaInv'
<1> DEFINE x == actors[a]
           k == IF x.complete THEN "COMPLETED" ELSE "PENDING"
           e == [NoEvidence EXCEPT !.reservationReleased = x.released,
                                   !.paymentRefunded = x.refunded]
           status == IF x.complete THEN "FAILED" ELSE "COMPENSATION_PENDING"
           code == IF x.complete THEN 409 ELSE 202
           o == BookingAnswer("compensation-result", "RecordCompensation",
                  [expectedVersion |-> x.wf.version, reason |-> "BOOKING_WORKFLOW_FAILED",
                   compensationStatus |-> k, evidence |-> e])
           z == [x EXCEPT !.wf.version = o.value, !.wf.status = status,
                          !.wf.response = code]
           good == SaveAndGoTo(z, "idle")
<1>1. At(a, "recordCompensation") /\ Call(a, o, good, Propagates(x), Propagates(x))
  BY DEF RecordCompensation
<1>2. /\ "recordCompensation" \in Pcs \ {"idle", "begin", "saveListed"}
      /\ "recordCompensation" \in NeedsBooking
  BY DEF Pcs, NeedsBooking
<1>3. Driving(x, remote) /\ x.wf.bookingId /\ WorkflowOK(x.wf, remote) /\ x \in Actor
  BY <1>1, <1>2, AtStep DEF Knows, Driving
<1>4. ServicesOK(remote) /\ HasBooking(remote)
  BY <1>3 DEF SagaInv, WorkflowOK
<1>5. /\ "compensation-result" \in BookingKeys /\ "BOOKING_WORKFLOW_FAILED" \in Reasons
      /\ k \in {"COMPLETED", "PENDING"}
  BY SagaAssumption DEF BookingKeys, StepKeys
<1>6. e \in Evidence
  <2>1. x.released \in BOOLEAN /\ x.refunded \in BOOLEAN
    BY <1>3 DEF Actor
  <2> QED BY <2>1, EvidenceIsEvidence
<1>7. status \in WorkflowStatus \ {"SEAT_CONFIRMED", "TICKETS_ISSUED", "CONFIRMED"}
  BY DEF WorkflowStatus
<1>8. code \in Responses
  BY DEF Responses
<1> HIDE DEF k, e, status, code
<1>9. Versioned(o)
  BY <1>4, <1>5, <1>6, RecordCompensationIsVersioned
<1>10. ActorOK(Propagates(x), remote, row)
  BY <1>3, PropagatesIsOK
<1> HIDE DEF o
<1>11. ASSUME o.ok PROVE ActorOK(good, o.remote, row)
  <2> DEFINE y == [x EXCEPT !.wf.version = o.value]
             u == [y.wf EXCEPT !.status = status]
             v == [u EXCEPT !.response = code]
             t == [y EXCEPT !.wf = v]
  <2>1. SameDrive(x, y, o.remote)
    BY <1>3, <1>9, <1>11, GoesOnWithVersion
  <2>2. z = t
    BY <1>3 DEF Actor
  <2> HIDE DEF y
  <2>3. WorkflowOK(u, o.remote)
    BY <1>7, <2>1, StatusIsOK DEF SameDrive, Driving
  <2> HIDE DEF u
  <2>4. WorkflowOK(v, o.remote)
    BY <1>8, <2>3, ResponseIsOK
  <2> HIDE DEF v
  <2>5. Driving(t, o.remote)
    BY <2>1, <2>4, DrivesOther DEF SameDrive
  <2> HIDE DEF t, z
  <2> QED BY <2>2, <2>5, SavesLast
<1> HIDE DEF x, good
<1> QED BY <1>1, <1>9, <1>10, <1>11, CallKeeps DEF Versioned

-----------------------------------------------------------------------------
(* The environment and the cancellation keep the invariant.                 *)

\* A step of something else than an actor, after which the services show no less.
LEMMA OthersKeep ==
  ASSUME SagaInv, UNCHANGED <<row, actors>>, ServicesOK(remote'), Extends(remote, remote'),
         CancelOK(cancel', remote'), CountersOK'
  PROVE  SagaInv'
<1>1. RowOK'
  BY WorkflowStays DEF SagaInv, RowOK
<1>2. WorkflowOK(row, remote) => WorkflowOK(row, remote')
  BY WorkflowStays
<1>3. ASSUME NEW a \in Actors PROVE ActorOK(actors[a], remote', row)
  <2>1. ActorOK(actors[a], remote, row)
    BY DEF SagaInv
  <2> QED BY <1>2, <2>1, ActorStays
<1> QED BY <1>1, <1>3 DEF SagaInv

\* Payment Service learns of an outcome, the hold runs out, its seats are swept.
LEMMA EnvironmentKeeps ==
  ASSUME SagaInv, ProviderSettles \/ HoldRunsOut \/ SweepHold, UNCHANGED <<cancel, cancels>>
  PROVE  SagaInv'
<1>1. ServicesOK(remote)
  BY DEF SagaInv
<1>2. CASE ProviderSettles
  <2>1. PICK status \in {"CAPTURED", "FAILED"} :
          remote' = [remote EXCEPT !.payment = [status |-> status, version |-> @.version + 1]]
    BY <1>2 DEF ProviderSettles
  <2> DEFINE p == [status |-> status, version |-> remote.payment.version + 1]
  <2>2. HasPayment(remote)
    BY <1>1, <1>2 DEF ProviderSettles, ServicesOK, HasPayment
  <2>3. p \in SagaPayment
    BY <2>2 DEF HasPayment, SagaPayment, GatewayPaymentStatus
  <2>4. remote' = [remote EXCEPT !.payment = p]
    BY <2>1
  <2> HIDE DEF p
  <2>5. ServicesOK(remote') /\ Extends(remote, remote')
    BY <1>1, <2>2, <2>3, <2>4, PaymentChanges
  <2>6. CancelOK(cancel', remote') /\ CountersOK'
    BY <1>1, <1>2, <2>5, CancelStays DEF SagaInv, CountersOK, ProviderSettles
  <2>7. UNCHANGED <<row, actors>>
    BY <1>2 DEF ProviderSettles
  <2> QED BY <2>5, <2>6, <2>7, OthersKeep
<1>3. CASE HoldRunsOut
  <2>1. UNCHANGED <<row, actors, remote, outbox, crashes, faults>> /\ now' = HoldEnds
    BY <1>3 DEF HoldRunsOut
  <2>2. CancelOK(cancel', remote') /\ CountersOK'
    BY <2>1 DEF SagaInv, CountersOK
  <2> QED BY <1>1, <2>1, <2>2, ExtendsItself, OthersKeep
<1>4. CASE SweepHold
  <2> DEFINE v == [status |-> "EXPIRED", version |-> remote.reservation.version + 1]
  <2>1. /\ HasSeats(remote) /\ ~Sold(remote)
        /\ UNCHANGED <<row, actors, outbox, now, crashes, faults>>
    BY <1>1, <1>4 DEF SweepHold, ServicesOK, HasSeats, Sold
  <2>2. v \in SagaReservation
    BY <2>1 DEF HasSeats, SagaReservation
  <2>3. remote' = [remote EXCEPT !.reservation = v]
    BY <1>4 DEF SweepHold
  <2> HIDE DEF v
  <2>4. ServicesOK(remote') /\ Extends(remote, remote')
    BY <1>1, <2>1, <2>2, <2>3, SeatsChange
  <2>5. CancelOK(cancel', remote') /\ CountersOK'
    BY <1>1, <2>1, <2>4, CancelStays DEF SagaInv, CountersOK
  <2> QED BY <2>1, <2>4, <2>5, OthersKeep
<1> QED BY <1>2, <1>3, <1>4

\* A call of a cancellation, whose request goes on or ends.
LEMMA CancelCallKeeps ==
  ASSUME SagaInv, NEW o, NEW good, NEW bad, CancelCall(o, good, bad), GoodAnswer(o),
         o.ok => CancelOK(good, o.remote), CancelOK(bad, remote)
  PROVE  SagaInv'
<1>1. UNCHANGED <<row, actors, outbox, now, crashes, cancels>>
  BY DEF CancelCall
<1>2. ServicesOK(remote) /\ ServicesOK(remote') /\ Extends(remote, remote')
  BY ExtendsItself DEF CancelCall, GoodAnswer, SagaInv
<1>3. CancelOK(bad, remote')
  BY <1>2, CancelStays
<1>4. CancelOK(cancel', remote')
  BY <1>3 DEF CancelCall
<1>5. CountersOK'
  <2>1. faults \in 0 .. MaxFaults /\ MaxFaults \in Nat
    BY SagaAssumption DEF SagaInv, CountersOK, SagaBounds
  <2>2. faults' = faults \/ (faults < MaxFaults /\ faults' = faults + 1)
    BY DEF CancelCall
  <2>3. faults' \in 0 .. MaxFaults
    BY <2>1, <2>2
  <2> QED BY <1>1, <2>3 DEF SagaInv, CountersOK
<1> QED BY <1>1, <1>2, <1>4, <1>5, OthersKeep

\* No request is being served.
LEMMA NoCancelIsOK ==
  ASSUME NEW s
  PROVE  CancelOK(NoCancel, s)
BY DEF NoCancel, CancelOK, CancelRequest

\* booking.get, or a crash.
LEMMA CancelBeginsOrStops ==
  ASSUME SagaInv, (\E k \in CancelKeys : RequestCancel(k)) \/ CancelCrash
  PROVE  SagaInv'
<1>1. ServicesOK(remote)
  BY DEF SagaInv
<1>2. CASE CancelCrash
  <2>1. /\ crashes < MaxCrashes /\ crashes' = crashes + 1 /\ cancel' = NoCancel
        /\ UNCHANGED <<row, actors, remote, outbox, now, faults, cancels>>
    BY <1>2 DEF CancelCrash
  <2>2. crashes \in 0 .. MaxCrashes /\ MaxCrashes \in Nat
    BY SagaAssumption DEF SagaInv, CountersOK, SagaBounds
  <2>3. crashes' \in 0 .. MaxCrashes
    BY <2>1, <2>2
  <2>4. CountersOK'
    BY <2>1, <2>3 DEF SagaInv, CountersOK
  <2>5. CancelOK(cancel', remote')
    BY <2>1, NoCancelIsOK
  <2> QED BY <1>1, <2>1, <2>4, <2>5, ExtendsItself, OthersKeep
<1>3. ASSUME NEW k \in CancelKeys, RequestCancel(k) PROVE SagaInv'
  <2> DEFINE b == remote.booking
             y == [NoCancel EXCEPT !.pc = "accept", !.key = k, !.booking = b,
                                   !.ticketIds = b.ticketIds]
  <2>1. /\ cancels < MaxCancels /\ cancels' = cancels + 1 /\ cancel' = y /\ b # None
        /\ UNCHANGED <<row, actors, remote, outbox, now, crashes, faults>>
    BY <1>3 DEF RequestCancel
  <2>2. cancels \in 0 .. MaxCancels /\ MaxCancels \in Nat
    BY CancelAssumption DEF SagaInv, CountersOK, CancelBounds
  <2>3. cancels' \in 0 .. MaxCancels
    BY <2>1, <2>2
  <2>4. CountersOK'
    BY <2>1, <2>3 DEF SagaInv, CountersOK
  <2>5. /\ HasBooking(remote) /\ b \in Booking /\ b.ticketIds \in SUBSET TicketIds
        /\ b.ticketIds # {} => Sold(remote)
        /\ b.reservationId # None => HasSeats(remote)
    BY <1>1, <2>1 DEF ServicesOK, HasBooking, SaysSold, Booking
  <2>6. /\ y \in CancelRequest /\ y.pc = "accept" /\ y.key = k /\ y.booking = b
        /\ y.ticketIds = b.ticketIds
    BY <2>5 DEF NoCancel, CancelRequest
  <2> HIDE DEF y
  <2>7. CancelOK(y, remote)
    BY <2>5, <2>6 DEF CancelOK
  <2> QED BY <1>1, <2>1, <2>4, <2>7, ExtendsItself, OthersKeep
<1> QED BY <1>2, <1>3

\* A cancellation that Booking Service accepted and that goes on.
CancelDrives(x, s) ==
  /\ x \in CancelRequest /\ x.key \in CancelKeys /\ x.booking \in Booking /\ HasBooking(s)
  /\ x.booking.reservationId # None => HasSeats(s)
  /\ x.ticketIds # {} => Sold(s)
  /\ x.version \in 1 .. s.booking.resourceVersion

\* A cancellation past its first step was accepted ...
LEMMA CancelAtStep ==
  ASSUME NEW s, NEW x, CancelOK(x, s), x.pc \notin {"idle", "accept"}
  PROVE  CancelDrives(x, s)
BY DEF CancelOK, CancelDrives

\* ... and goes on when the services show more.
LEMMA CancelDrivesStays ==
  ASSUME NEW s, NEW t, ServicesOK(s), ServicesOK(t), Extends(s, t), NEW x, CancelDrives(x, s)
  PROVE  CancelDrives(x, t)
<1>1. /\ HasBooking(s) /\ HasBooking(t)
      /\ s.booking.resourceVersion <= t.booking.resourceVersion
      /\ s.booking.resourceVersion \in Nat /\ t.booking.resourceVersion \in Nat
  BY DEF CancelDrives, Extends, HasBooking, Booking
<1>2. x.version \in 1 .. t.booking.resourceVersion
  BY <1>1 DEF CancelDrives
<1> QED BY <1>1, <1>2 DEF CancelDrives, Extends

\* It may go on to a step whose needs it meets.
LEMMA GoesIsOK ==
  ASSUME NEW s, NEW x, CancelDrives(x, s),
         NEW step \in {"listTickets", "cancelTickets", "queryPayment", "refund", "release",
                       "result"},
         step = "cancelTickets" => x.ticketIds # {},
         step = "release" => x.booking.reservationId # None
  PROVE  CancelOK(Goes(x, step), s)
<1> DEFINE y == Goes(x, step)
<1>1. x \in CancelRequest
  BY DEF CancelDrives
<1>2. /\ y \in CancelRequest /\ y.pc = step /\ y.key = x.key /\ y.booking = x.booking
      /\ y.version = x.version /\ y.ticketIds = x.ticketIds
  BY <1>1 DEF Goes, CancelRequest
<1> HIDE DEF y
<1>3. CancelOK(y, s)
  BY <1>2 DEF CancelOK, CancelDrives
<1> QED BY <1>3 DEF y

\* What it notes about its own run changes nothing else.
LEMMA CancelDrivesOn ==
  ASSUME NEW s, NEW x, CancelDrives(x, s)
  PROVE  /\ CancelDrives(Missed(x), s) /\ Missed(x).ticketIds = x.ticketIds
         /\ Missed(x).booking = x.booking
         /\ \A flag \in BOOLEAN :
              /\ CancelDrives([x EXCEPT !.released = flag], s)
              /\ CancelDrives([x EXCEPT !.refunded = flag], s)
         /\ \A p \in SagaPayment \cup {None} : CancelDrives([x EXCEPT !.payment = p], s)
         /\ \A ids \in SUBSET TicketIds :
              (ids # {} => Sold(s)) =>
                LET y == [x EXCEPT !.ticketIds = ids]
                IN  CancelDrives(y, s) /\ y.ticketIds = ids /\ y.booking = x.booking
<1>1. x \in CancelRequest
  BY DEF CancelDrives
<1>2. ASSUME NEW y \in CancelRequest, y.key = x.key, y.booking = x.booking,
             y.version = x.version, y.ticketIds # {} => Sold(s)
      PROVE  CancelDrives(y, s)
  BY <1>2 DEF CancelDrives
<1>3. x.ticketIds # {} => Sold(s)
  BY DEF CancelDrives
<1>4. ASSUME NEW flag \in BOOLEAN
      PROVE  /\ LET y == [x EXCEPT !.complete = flag]
                IN  CancelDrives(y, s) /\ y.ticketIds = x.ticketIds /\ y.booking = x.booking
             /\ CancelDrives([x EXCEPT !.released = flag], s)
             /\ CancelDrives([x EXCEPT !.refunded = flag], s)
  <2>1. LET y == [x EXCEPT !.complete = flag]
        IN  /\ y \in CancelRequest /\ y.key = x.key /\ y.booking = x.booking
            /\ y.version = x.version /\ y.ticketIds = x.ticketIds
    BY <1>1 DEF CancelRequest
  <2>2. LET y == [x EXCEPT !.released = flag]
        IN  /\ y \in CancelRequest /\ y.key = x.key /\ y.booking = x.booking
            /\ y.version = x.version /\ y.ticketIds = x.ticketIds
    BY <1>1 DEF CancelRequest
  <2>3. LET y == [x EXCEPT !.refunded = flag]
        IN  /\ y \in CancelRequest /\ y.key = x.key /\ y.booking = x.booking
            /\ y.version = x.version /\ y.ticketIds = x.ticketIds
    BY <1>1 DEF CancelRequest
  <2> QED BY <1>2, <1>3, <2>1, <2>2, <2>3
<1>5. ASSUME NEW p \in SagaPayment \cup {None}
      PROVE  CancelDrives([x EXCEPT !.payment = p], s)
  <2>1. LET y == [x EXCEPT !.payment = p]
        IN  /\ y \in CancelRequest /\ y.key = x.key /\ y.booking = x.booking
            /\ y.version = x.version /\ y.ticketIds = x.ticketIds
    BY <1>1 DEF CancelRequest
  <2> QED BY <1>2, <1>3, <2>1
<1>6. ASSUME NEW ids \in SUBSET TicketIds, ids # {} => Sold(s)
      PROVE  LET y == [x EXCEPT !.ticketIds = ids]
             IN  CancelDrives(y, s) /\ y.ticketIds = ids /\ y.booking = x.booking
  <2>1. LET y == [x EXCEPT !.ticketIds = ids]
        IN  /\ y \in CancelRequest /\ y.key = x.key /\ y.booking = x.booking
            /\ y.version = x.version /\ y.ticketIds = ids
    BY <1>1 DEF CancelRequest
  <2> QED BY <1>2, <1>6, <2>1
<1>7. /\ CancelDrives(Missed(x), s) /\ Missed(x).ticketIds = x.ticketIds
      /\ Missed(x).booking = x.booking
  BY <1>4 DEF Missed
<1> QED BY <1>4, <1>5, <1>6, <1>7

\* The payment, the seats or the result come next.
LEMMA AfterTicketsIsOK ==
  ASSUME NEW s, NEW x, CancelDrives(x, s)
  PROVE  CancelOK(AfterTickets(x), s) /\ CancelOK(AfterPayment(x), s)
<1>1. x.booking.reservationId # None => CancelOK(Goes(x, "release"), s)
  BY GoesIsOK
<1>2. CancelOK(Goes(x, "queryPayment"), s) /\ CancelOK(Goes(x, "result"), s)
  BY GoesIsOK
<1> QED BY <1>1, <1>2 DEF AfterTickets, AfterPayment

\* The keys of a cancellation are keys of Booking Service.
LEMMA CancelKeysAreKeys ==
  ASSUME NEW k \in CancelKeys
  PROVE  AcceptKey[k] \in BookingKeys /\ ResultKey[k] \in BookingKeys
<1>1. k = "first" \/ k = "second"
  BY CancelAssumption DEF CancelBounds
<1>2. CASE k = "first"
  <2>1. AcceptKey[k] = "first:accept" /\ ResultKey[k] = "first:result"
    BY <1>2 DEF AcceptKey, ResultKey
  <2> QED BY <2>1 DEF BookingKeys, StepKeys
<1>3. CASE k = "second"
  <2>1. AcceptKey[k] = "second:accept" /\ ResultKey[k] = "second:result"
    BY <1>3 DEF AcceptKey, ResultKey
  <2> QED BY <2>1 DEF BookingKeys, StepKeys
<1> QED BY <1>1, <1>2, <1>3

\* The booking decides first.
LEMMA AcceptCancellationKeeps ==
  ASSUME SagaInv, AcceptCancellation
  PROVE  SagaInv'
<1> DEFINE x == cancel
           o == AcceptanceOf(x)
           good == Goes([x EXCEPT !.version = o.value], "listTickets")
           b == x.booking
           k == IF NeedsCompensation(b) THEN "PENDING" ELSE "NOT_REQUIRED"
<1>1. x.pc = "accept" /\ CancelCall(o, good, NoCancel)
  BY DEF AcceptCancellation
<1>2. /\ x \in CancelRequest /\ x.key \in CancelKeys /\ b \in Booking /\ HasBooking(remote)
      /\ b.reservationId # None => HasSeats(remote)
      /\ x.ticketIds # {} => Sold(remote)
      /\ ServicesOK(remote)
  BY <1>1 DEF SagaInv, CancelOK
<1>3. AcceptKey[x.key] \in BookingKeys
  BY <1>2, CancelKeysAreKeys
<1>4. /\ "USER_REQUEST" \in Reasons /\ b.paymentStatus \in PaymentStatus
      /\ k \in {"NOT_REQUIRED", "PENDING"} /\ NoEvidence \in Evidence
  BY <1>2, CancelAssumption DEF Booking, NoEvidence, Evidence
<1>5. o = BookingAnswer(AcceptKey[x.key], "CancelBooking",
            [expectedVersion |-> b.resourceVersion, reason |-> "USER_REQUEST",
             paymentStatus |-> b.paymentStatus, compensationStatus |-> k,
             evidence |-> NoEvidence])
  BY DEF AcceptanceOf
<1> HIDE DEF o, k
<1>6. Versioned(o)
  BY <1>2, <1>3, <1>4, <1>5, CancelBookingIsVersioned
<1>7. ASSUME o.ok PROVE CancelOK(good, o.remote)
  <2> DEFINE y == [x EXCEPT !.version = o.value]
  <2>1. /\ ServicesOK(o.remote) /\ Extends(remote, o.remote)
        /\ o.value \in 1 .. o.remote.booking.resourceVersion
    BY <1>6, <1>7 DEF Versioned, GoodAnswer
  <2>2. HasBooking(o.remote) /\ o.value \in Nat
    BY <1>2, <2>1 DEF Extends, HasBooking, Booking
  <2>3. /\ y \in CancelRequest /\ y.key = x.key /\ y.booking = x.booking
        /\ y.version = o.value /\ y.ticketIds = x.ticketIds
    BY <1>2, <2>2 DEF CancelRequest
  <2> HIDE DEF y
  <2>4. CancelDrives(y, o.remote)
    BY <1>2, <2>1, <2>2, <2>3 DEF CancelDrives, Extends
  <2> HIDE DEF x
  <2>5. CancelOK(Goes(y, "listTickets"), o.remote)
    BY <2>4, GoesIsOK
  <2> QED BY <2>5 DEF y
<1> HIDE DEF good
<1> QED BY <1>1, <1>6, <1>7, NoCancelIsOK, CancelCallKeeps DEF Versioned

\* What a later call of a cancellation needs.
LEMMA CancelStepHas ==
  ASSUME SagaInv, cancel.pc \notin {"idle", "accept"}
  PROVE  /\ ServicesOK(remote) /\ CancelDrives(cancel, remote)
         /\ \A o : GoodAnswer(o) => CancelDrives(cancel, o.remote)
<1>1. ServicesOK(remote) /\ CancelDrives(cancel, remote)
  BY CancelAtStep DEF SagaInv
<1>2. ASSUME NEW o, GoodAnswer(o) PROVE CancelDrives(cancel, o.remote)
  BY <1>1, <1>2, CancelDrivesStays DEF GoodAnswer
<1> QED BY <1>1, <1>2

\* The tickets are looked up.
LEMMA FindTicketsToCancelKeeps ==
  ASSUME SagaInv, FindTicketsToCancel
  PROVE  SagaInv'
<1> DEFINE x == cancel
           found(y) == IF y.ticketIds # {} THEN Goes(y, "cancelTickets") ELSE AfterTickets(y)
           ids == x.ticketIds \cup KnownTickets
           y1 == [x EXCEPT !.ticketIds = ids]
           o == Query(KnownTickets)
           good == found(y1)
           bad == found(Missed(x))
<1>1. /\ x.pc = "listTickets"
      /\ CancelCall(o, found([x EXCEPT !.ticketIds = @ \cup KnownTickets]), bad)
  BY DEF FindTicketsToCancel
<1>2. ServicesOK(remote) /\ CancelDrives(x, remote)
  BY <1>1, CancelStepHas
<1>3. GoodAnswer(o) /\ o.remote = remote
  BY <1>2, QueryIsGood
<1> HIDE DEF o
<1>4. ASSUME NEW y, CancelDrives(y, remote) PROVE CancelOK(found(y), remote)
  BY <1>4, GoesIsOK, AfterTicketsIsOK
<1> HIDE DEF found
<1>5. CancelOK(bad, remote)
  BY <1>2, <1>4, CancelDrivesOn
<1>6. KnownTickets \in SUBSET TicketIds /\ (KnownTickets # {} => Sold(remote))
  BY <1>2 DEF KnownTickets, ServicesOK
<1>7. ids \in SUBSET TicketIds /\ (ids # {} => Sold(remote))
  BY <1>2, <1>6 DEF CancelDrives, CancelRequest
<1>8. [x EXCEPT !.ticketIds = @ \cup KnownTickets] = y1
  OBVIOUS
<1> HIDE DEF ids
<1>9. CancelDrives(y1, remote)
  BY <1>2, <1>7, CancelDrivesOn
<1>10. CancelOK(good, remote) /\ CancelCall(o, good, bad)
  BY <1>1, <1>4, <1>8, <1>9
<1> HIDE DEF good, bad
<1> QED BY <1>3, <1>5, <1>10, CancelCallKeeps

\* They are cancelled: there are some only when the seats were sold.
LEMMA CancelBookedTicketsKeeps ==
  ASSUME SagaInv, CancelBookedTickets
  PROVE  SagaInv'
<1> DEFINE x == cancel
           o == Accepted(None, [remote EXCEPT !.tickets = "CANCELLED"])
           good == AfterTickets(x)
           bad == AfterTickets(Missed(x))
<1>1. x.pc = "cancelTickets" /\ CancelCall(o, good, bad)
  BY DEF CancelBookedTickets
<1>2. /\ ServicesOK(remote) /\ CancelDrives(x, remote)
      /\ \A p : GoodAnswer(p) => CancelDrives(x, p.remote)
  BY <1>1, CancelStepHas
<1>3. Sold(remote)
  BY <1>1, <1>2 DEF SagaInv, CancelOK, CancelDrives
<1>4. GoodAnswer(o)
  BY <1>2, <1>3, CancelTicketsIsGood
<1> HIDE DEF o
<1>5. CancelOK(good, o.remote)
  BY <1>2, <1>4, AfterTicketsIsOK
<1>6. CancelOK(bad, remote)
  BY <1>2, CancelDrivesOn, AfterTicketsIsOK
<1> HIDE DEF good, bad
<1> QED BY <1>1, <1>4, <1>5, <1>6, CancelCallKeeps

\* The payment is looked up ...
LEMMA FindPaymentToReturnKeeps ==
  ASSUME SagaInv, FindPaymentToReturn
  PROVE  SagaInv'
<1> DEFINE x0 == cancel
           x == [x0 EXCEPT !.payment = remote.payment]
           status == remote.payment.status
           settled == [x EXCEPT !.refunded = status = "REFUNDED"]
           o == Query(remote.payment)
           good == CASE status \in {"CAPTURED", "PARTIALLY_REFUNDED"} -> Goes(x, "refund")
                     [] status \in {"REFUNDED", "CANCELLED", "FAILED"} -> AfterPayment(settled)
                     [] OTHER -> AfterPayment(Missed(x))
           bad == AfterPayment(Missed(x))
<1>1. x0.pc = "queryPayment" /\ CancelCall(o, good, bad)
  BY DEF FindPaymentToReturn
<1>2. ServicesOK(remote) /\ CancelDrives(x0, remote)
  BY <1>1, CancelStepHas
<1>3. GoodAnswer(o) /\ o.remote = remote
  BY <1>2, QueryIsGood
<1> HIDE DEF o
<1>4. remote.payment \in SagaPayment \cup {None}
  BY <1>2 DEF ServicesOK
<1>5. CancelDrives(x, remote)
  BY <1>2, <1>4, CancelDrivesOn
<1> HIDE DEF x, x0
<1>6. CancelOK(bad, remote)
  BY <1>5, CancelDrivesOn, AfterTicketsIsOK
<1>7. CancelOK(AfterPayment(settled), remote)
  <2>1. (status = "REFUNDED") \in BOOLEAN
    OBVIOUS
  <2>2. CancelDrives(settled, remote)
    BY <1>5, <2>1, CancelDrivesOn
  <2> HIDE DEF settled
  <2> QED BY <2>2, AfterTicketsIsOK
<1>8. CancelOK(Goes(x, "refund"), remote)
  BY <1>5, GoesIsOK
<1> HIDE DEF settled, status
<1>9. CancelOK(good, remote)
  BY <1>6, <1>7, <1>8
<1> HIDE DEF good, bad
<1> QED BY <1>1, <1>3, <1>6, <1>9, CancelCallKeeps

\* ... and refunded.
LEMMA RefundCancelledKeeps ==
  ASSUME SagaInv, RefundCancelled
  PROVE  SagaInv'
<1> DEFINE x == cancel
           r == [version |-> x.payment.version, amount |-> None, refundReference |-> None]
           o == RefundAnswer(r)
           y == [x EXCEPT !.refunded = TRUE]
           good == AfterPayment(y)
           bad == AfterPayment(Missed(x))
<1>1. x.pc = "refund" /\ CancelCall(o, good, bad)
  BY DEF RefundCancelled
<1>2. /\ ServicesOK(remote) /\ CancelDrives(x, remote)
      /\ \A p : GoodAnswer(p) => CancelDrives(x, p.remote)
  BY <1>1, CancelStepHas
<1>3. r.amount = None
  OBVIOUS
<1> HIDE DEF r
<1>4. GoodAnswer(o)
  BY <1>2, <1>3, RefundIsGood
<1> HIDE DEF o
<1>5. CancelOK(good, o.remote)
  <2>1. CancelDrives(x, o.remote) /\ TRUE \in BOOLEAN
    BY <1>2, <1>4
  <2>2. CancelDrives(y, o.remote)
    BY <2>1, CancelDrivesOn
  <2> HIDE DEF y
  <2> QED BY <2>2, AfterTicketsIsOK
<1>6. CancelOK(bad, remote)
  BY <1>2, CancelDrivesOn, AfterTicketsIsOK
<1> HIDE DEF good, bad
<1> QED BY <1>1, <1>4, <1>5, <1>6, CancelCallKeeps

\* The seats are released.
LEMMA ReleaseCancelledKeeps ==
  ASSUME SagaInv, ReleaseCancelled
  PROVE  SagaInv'
<1> DEFINE x == cancel
           o == ReleaseSeatsAnswer
           y == [x EXCEPT !.released = TRUE]
           good == Goes(y, "result")
           bad == Goes(Missed(x), "result")
<1>1. x.pc = "release" /\ CancelCall(o, good, bad)
  BY DEF ReleaseCancelled
<1>2. /\ ServicesOK(remote) /\ CancelDrives(x, remote)
      /\ \A p : GoodAnswer(p) => CancelDrives(x, p.remote)
  BY <1>1, CancelStepHas
<1>3. HasSeats(remote)
  BY <1>1, <1>2 DEF SagaInv, CancelOK
<1>4. GoodAnswer(o)
  BY <1>2, <1>3, ReleaseSeatsIsGood
<1> HIDE DEF o
<1>5. CancelOK(good, o.remote)
  <2>1. CancelDrives(x, o.remote) /\ TRUE \in BOOLEAN
    BY <1>2, <1>4
  <2>2. CancelDrives(y, o.remote)
    BY <2>1, CancelDrivesOn
  <2> HIDE DEF y
  <2> QED BY <2>2, GoesIsOK
<1>6. CancelOK(bad, remote)
  BY <1>2, CancelDrivesOn, GoesIsOK
<1> HIDE DEF good, bad
<1> QED BY <1>1, <1>4, <1>5, <1>6, CancelCallKeeps

\* The result is reported.
LEMMA ReportCancellationKeeps ==
  ASSUME SagaInv, ReportCancellation
  PROVE  SagaInv'
<1> DEFINE x == cancel
           k == IF x.complete THEN "COMPLETED" ELSE "PENDING"
           e == [NoEvidence EXCEPT !.reservationReleased = x.released,
                                   !.paymentRefunded = x.refunded]
           o == BookingAnswer(ResultKey[x.key], "RecordCompensation",
                  [expectedVersion |-> x.version, reason |-> "BOOKING_CANCELLED",
                   compensationStatus |-> k, evidence |-> e])
<1>1. x.pc = "result" /\ CancelCall(o, NoCancel, NoCancel)
  BY DEF ReportCancellation
<1>2. ServicesOK(remote) /\ CancelDrives(x, remote)
  BY <1>1, CancelStepHas
<1>3. HasBooking(remote) /\ x \in CancelRequest /\ x.key \in CancelKeys
  BY <1>2 DEF CancelDrives
<1>4. /\ ResultKey[x.key] \in BookingKeys /\ "BOOKING_CANCELLED" \in Reasons
      /\ k \in {"COMPLETED", "PENDING"}
  BY <1>3, CancelKeysAreKeys, CancelAssumption
<1>5. e \in Evidence
  <2>1. x.released \in BOOLEAN /\ x.refunded \in BOOLEAN
    BY <1>3 DEF CancelRequest
  <2> QED BY <2>1, EvidenceIsEvidence
<1> HIDE DEF k, e
<1>6. Versioned(o)
  BY <1>2, <1>3, <1>4, <1>5, RecordCompensationIsVersioned
<1> HIDE DEF o
<1> QED BY <1>1, <1>6, NoCancelIsOK, CancelCallKeeps DEF Versioned

-----------------------------------------------------------------------------
(* The theorems.                                                            *)

\* At first nothing is there.
LEMMA InitHolds ==
  ASSUME CancelInit
  PROVE  SagaInv
<1>1. /\ row = None /\ actors = [a \in Actors |-> Idle]
      /\ outbox = 0 /\ now = 0 /\ crashes = 0 /\ faults = 0
      /\ cancel = NoCancel /\ cancels = 0
  BY DEF CancelInit, Init
<1>2. PICK s \in Scenarios :
        remote = [booking |-> None, replies |-> [k \in StepKeys |-> None],
                  reservation |-> None, payment |-> None, scenario |-> s, tickets |-> "NONE"]
  BY DEF CancelInit, Init
<1>3. /\ remote.booking = None /\ remote.reservation = None /\ remote.payment = None
      /\ remote.tickets = "NONE" /\ remote.replies = [k \in StepKeys |-> None]
      /\ remote.scenario = s
  BY <1>2
<1>4. /\ ~HasBooking(remote) /\ ~HasPayment(remote)
  <2>1. None \notin Booking
    BY SagaAssumption
  <2>2. None \notin SagaPayment
    BY SagaAssumption
  <2> QED BY <1>3, <2>1, <2>2 DEF HasBooking, HasPayment
<1>5. \A k \in StepKeys : remote.replies[k] = None
  BY <1>3
<1>6. ServicesOK(remote)
  <2>1. /\ "booking" \in StepKeys /\ "capture" \in StepKeys
        /\ BookingKeys \subseteq StepKeys /\ PaymentKeys \subseteq StepKeys
    BY DEF StepKeys, BookingKeys, PaymentKeys
  <2>2. remote.replies = [k \in StepKeys |-> remote.replies[k]]
    BY <1>3
  <2>3. remote = [booking |-> remote.booking, replies |-> remote.replies,
                  reservation |-> remote.reservation, payment |-> remote.payment,
                  scenario |-> remote.scenario, tickets |-> remote.tickets]
    BY <1>2
  <2> QED BY <1>3, <1>4, <1>5, <2>1, <2>2, <2>3 DEF ServicesOK
<1>7. \A a \in Actors : ActorOK(actors[a], remote, row)
  BY <1>1, IdleIsOK
<1>8. CancelOK(cancel, remote)
  BY <1>1, NoCancelIsOK
<1>9. CountersOK
  <2>1. MaxCrashes \in Nat /\ MaxFaults \in Nat /\ MaxCancels \in Nat
    BY SagaAssumption, CancelAssumption DEF SagaBounds, CancelBounds
  <2> QED BY <1>1, <2>1 DEF CountersOK
<1> QED BY <1>1, <1>6, <1>7, <1>8, <1>9 DEF SagaInv, RowOK

\* Every step of a request or of the worker.
LEMMA StepKeeps ==
  ASSUME SagaInv, NEW a \in Actors, Step(a), UNCHANGED <<cancel, cancels>>
  PROVE  SagaInv'
<1>1. CASE \/ Save(a) \/ SaveListed(a) \/ Finish(a)
           \/ CreateBooking(a) \/ ReserveSeats(a) \/ AttachReservation(a)
           \/ CreatePayment(a) \/ StartPayment(a) \/ AuthorizePayment(a)
           \/ CapturePayment(a)
  BY <1>1, SaveKeeps, SaveListedKeeps, FinishKeeps, CreateBookingKeeps, ReserveSeatsKeeps,
     AttachReservationKeeps, CreatePaymentKeeps, StartPaymentKeeps, AuthorizePaymentKeeps,
     CapturePaymentKeeps
<1>2. CASE \/ RecordPayment(a) \/ ConfirmSeats(a) \/ ConfirmReservation(a)
           \/ IssueTickets(a) \/ AttachTickets(a) \/ ConfirmBooking(a)
           \/ RecordFailedPayment(a) \/ ReleaseAfterFailedPayment(a) \/ FailBooking(a)
           \/ PersistPaymentUnknown(a) \/ MarkCompensationPendingAt(a)
  BY <1>2, RecordPaymentKeeps, ConfirmSeatsKeeps, ConfirmReservationKeeps, IssueTicketsKeeps,
     AttachTicketsKeeps, ConfirmBookingKeeps, RecordFailedPaymentKeeps,
     ReleaseAfterFailedPaymentKeeps, FailBookingKeeps, PersistPaymentUnknownKeeps,
     MarkCompensationPendingKeeps
<1>3. CASE \/ QueryPayment(a) \/ RefundPayment(a) \/ CancelPayment(a) \/ ReleaseSeats(a)
           \/ FailPreCapture(a) \/ Begin(a) \/ GetPayment(a) \/ RefreshBookingVersion(a)
           \/ GetBooking(a) \/ ListTickets(a) \/ CancelTickets(a) \/ RecordCompensation(a)
  BY <1>3, QueryPaymentKeeps, RefundPaymentKeeps, CancelPaymentKeeps, ReleaseSeatsKeeps,
     FailPreCaptureKeeps, BeginKeeps, GetPaymentKeeps, RefreshBookingVersionKeeps,
     GetBookingKeeps, ListTicketsKeeps, CancelTicketsKeeps, RecordCompensationKeeps
<1> QED BY <1>1, <1>2, <1>3 DEF Step

\* Every step of a purchase: of a client, of the worker, or of the services by themselves.
LEMMA PurchaseStepKeeps ==
  ASSUME SagaInv, PurchaseStep
  PROVE  SagaInv'
<1>1. Next /\ UNCHANGED <<cancel, cancels>>
  BY DEF PurchaseStep
<1>2. CASE \E c \in Clients : Place(c) \/ Resume(c) \/ SelectionFails(c) \/ SeatsAreTaken(c)
  BY <1>1, <1>2, PlaceKeeps, ResumeKeeps, RefusalsKeep
<1>3. CASE \E a \in Actors : Step(a) \/ Crash(a)
  BY <1>1, <1>3, StepKeeps, CrashKeeps
<1>4. CASE ListWorkflow
  BY <1>1, <1>4, ListWorkflowKeeps
<1>5. CASE ProviderSettles \/ HoldRunsOut \/ SweepHold
  BY <1>1, <1>5, EnvironmentKeeps
<1> QED BY <1>1, <1>2, <1>3, <1>4, <1>5 DEF Next

\* Every step of a cancellation.
LEMMA CancellationKeeps ==
  ASSUME SagaInv, Cancellation
  PROVE  SagaInv'
<1>1. CASE (\E k \in CancelKeys : RequestCancel(k)) \/ CancelCrash
  BY <1>1, CancelBeginsOrStops
<1>2. CASE CancelStep
  BY <1>2, AcceptCancellationKeeps, FindTicketsToCancelKeeps, CancelBookedTicketsKeeps,
     FindPaymentToReturnKeeps, RefundCancelledKeeps, ReleaseCancelledKeeps,
     ReportCancellationKeeps
     DEF CancelStep
<1> QED BY <1>1, <1>2 DEF Cancellation

\* A step that changes nothing.
LEMMA StutterKeeps ==
  ASSUME SagaInv, UNCHANGED cvars
  PROVE  SagaInv'
<1>1. UNCHANGED <<row, actors, remote, outbox, now, crashes, faults, cancel, cancels>>
  BY DEF cvars, vars
<1> QED BY <1>1 DEF SagaInv, RowOK, CountersOK

\* The invariant says what the property says.
LEMMA SagaInvSays ==
  ASSUME SagaInv
  PROVE  TicketsNeedSeats
<1>1. TypeOK
  <2>1. ASSUME NEW a \in Actors
        PROVE  /\ actors[a].wf \in Workflow \cup {None}
               /\ actors[a].listed \in Workflow \cup {None}
               /\ actors[a].run \in {"place", "resume", "reconcile", "compensate", None}
               /\ actors[a].pc # "idle" => actors[a].run # None
    <3>1. ActorOK(actors[a], remote, row)
      BY DEF SagaInv
    <3>2. None \notin Runs
      BY SagaAssumption DEF Runs, WorkerRuns
    <3> QED BY <3>1, <3>2 DEF ActorOK, Actor, Runs, WorkerRuns
  <2> QED BY <2>1 DEF TypeOK, SagaInv, ServicesOK, RowOK, CountersOK
<1>2. CancelTypeOK
  <2>1. CancelOK(cancel, remote) /\ cancels \in 0 .. MaxCancels
    BY DEF SagaInv, CountersOK
  <2>2. cancel \in CancelRequest
    BY <2>1 DEF CancelOK
  <2> QED BY <2>1, <2>2 DEF CancelTypeOK, CancelOK, CancelRequest
<1>3. TicketsFollowSeats
  BY DEF TicketsFollowSeats, SagaInv, ServicesOK, Sold
<1> QED BY <1>1, <1>2, <1>3 DEF TicketsNeedSeats

\* Whatever the clients, the worker and a cancellation do, in any order and any number at a
\* time, with calls lost and processes killed, Ticket Service is asked for tickets only when
\* the seats are confirmed, and the seats are not given back once it was (booking.py and
\* reconciliation.py, every path that reaches issue_tickets).
THEOREM TicketsAlwaysNeedSeats == CancelSpec => []TicketsNeedSeats
<1>1. CancelInit => SagaInv
  BY InitHolds
<1>2. SagaInv /\ [CancelNext]_cvars => SagaInv'
  BY PurchaseStepKeeps, CancellationKeeps, StutterKeeps DEF CancelNext
<1>3. SagaInv => TicketsNeedSeats
  BY SagaInvSays
<1> QED BY <1>1, <1>2, <1>3, PTL DEF CancelSpec

=============================================================================
