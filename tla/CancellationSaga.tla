-------------------------- MODULE CancellationSaga --------------------------
(***************************************************************************)
(* The cancellation saga of the gateway, beside the booking saga of the    *)
(* same purchase.  The customer cancels whenever the booking exists, also  *)
(* while the purchase is still being driven; Booking Service decides first *)
(* (it accepts PENDING, SEAT_RESERVED and CONFIRMED bookings), then tickets,*)
(* payment and seats are taken back one call at a time, and the result is  *)
(* reported.  Nothing is stored in the gateway: a crash or a lost answer   *)
(* ends the attempt, and only another request goes on.                     *)
(***************************************************************************)
EXTENDS BookingSaga

CONSTANTS
  CancelKeys,    \* the idempotency keys of the cancellations, out of "first", "second"
  MaxCancels     \* bound on requests to cancel

CancelBounds ==
  /\ CancelKeys \subseteq {"first", "second"}
  /\ MaxCancels \in Nat

ASSUME CancelAssumption ==
  CancelBounds /\ {"USER_REQUEST", "BOOKING_CANCELLED"} \subseteq Reasons

AcceptKey == [first |-> "first:accept", second |-> "second:accept"]
ResultKey == [first |-> "first:result", second |-> "second:result"]

VARIABLES
  cancel,       \* the request being served
  cancels       \* how many requests there were

cvars == <<row, actors, remote, outbox, now, crashes, faults, cancel, cancels>>

NoCancel ==
  [pc |-> "idle", key |-> None, booking |-> None, version |-> None, payment |-> None,
   ticketIds |-> {}, complete |-> TRUE, released |-> FALSE, refunded |-> FALSE]

CancelTypeOK ==
  /\ cancel.pc \in {"idle", "accept", "listTickets", "cancelTickets", "queryPayment", "refund",
                    "release", "result"}
  /\ cancel.key \in CancelKeys \cup {None}
  /\ cancel.pc # "idle" => cancel.booking \in Booking
  /\ cancel.pc \notin {"idle", "accept"} => cancel.version \in 1 .. remote.booking.resourceVersion
  /\ cancels \in 0 .. MaxCancels

CancelInit == Init /\ cancel = NoCancel /\ cancels = 0

\* A call of the cancellation: answered, refused, or lost.
CancelCall(o, good, bad) ==
  /\ \/ o.ok /\ remote' = o.remote /\ cancel' = good /\ UNCHANGED faults
     \/ ~o.ok /\ cancel' = bad /\ UNCHANGED <<remote, faults>>
     \/ /\ faults < MaxFaults /\ faults' = faults + 1
        /\ remote' \in {remote, o.remote} /\ cancel' = bad
  /\ UNCHANGED <<row, actors, outbox, now, crashes, cancels>>

Goes(x, step) == [x EXCEPT !.pc = step]
Missed(x) == [x EXCEPT !.complete = FALSE]

\* booking.get: what it shows decides what will be taken back.
RequestCancel(k) ==
  /\ cancel.pc = "idle" /\ cancels < MaxCancels
  /\ remote.booking # None
  /\ cancels' = cancels + 1
  /\ cancel' = [NoCancel EXCEPT !.pc = "accept", !.key = k, !.booking = remote.booking,
                                !.ticketIds = remote.booking.ticketIds]
  /\ UNCHANGED <<row, actors, remote, outbox, now, crashes, faults>>

NeedsCompensation(b) == b.paymentId # None \/ b.reservationId # None \/ b.ticketIds # {}

\* The booking is cancelled first: the public request names no version, so the
\* version just read is the expected one.
AcceptanceOf(x) ==
  BookingAnswer(AcceptKey[x.key], "CancelBooking",
    [expectedVersion |-> x.booking.resourceVersion, reason |-> "USER_REQUEST",
     paymentStatus |-> x.booking.paymentStatus,
     compensationStatus |-> IF NeedsCompensation(x.booking) THEN "PENDING" ELSE "NOT_REQUIRED",
     evidence |-> NoEvidence])

\* Mutation: a refused cancellation goes on.
TakesBackAnyway ==
  LET o == AcceptanceOf(cancel)
  IN  /\ cancel.pc = "accept"
      /\ CancelCall(o, Goes([cancel EXCEPT !.version = o.value], "listTickets"),
                    Goes([cancel EXCEPT !.version = cancel.booking.resourceVersion], "listTickets"))

\* Mutation: the accepted version is not kept.
ForgetsVersion ==
  /\ cancel.pc = "accept"
  /\ CancelCall(AcceptanceOf(cancel), Goes(cancel, "listTickets"), NoCancel)

AcceptCancellation ==
  LET o == AcceptanceOf(cancel)
  IN  /\ cancel.pc = "accept"
      /\ CancelCall(o, Goes([cancel EXCEPT !.version = o.value], "listTickets"), NoCancel)

\* Mutation: seats are given back only with a payment.
SkipsSeats(x) ==
  IF x.booking.paymentId # None THEN Goes(x, "queryPayment") ELSE Goes(x, "result")

AfterTickets(x) ==
  CASE x.booking.paymentId # None -> Goes(x, "queryPayment")
    [] x.booking.paymentId = None /\ x.booking.reservationId # None -> Goes(x, "release")
    [] OTHER -> Goes(x, "result")

FindTicketsToCancel ==
  LET x == cancel
      found(y) == IF y.ticketIds # {} THEN Goes(y, "cancelTickets") ELSE AfterTickets(y)
  IN  /\ x.pc = "listTickets"
      /\ CancelCall(Query(KnownTickets), found([x EXCEPT !.ticketIds = @ \cup KnownTickets]),
                    found(Missed(x)))

\* Ticket Service accepts the cancellation of a cancelled ticket again, whoever
\* cancelled it: its endpoint records one constant reason.
CancelBookedTickets ==
  LET x == cancel
  IN  /\ x.pc = "cancelTickets"
      /\ CancelCall(Accepted(None, [remote EXCEPT !.tickets = "CANCELLED"]),
                    AfterTickets(x), AfterTickets(Missed(x)))

AfterPayment(x) ==
  Goes(x, IF x.booking.reservationId # None THEN "release" ELSE "result")

\* (A booking that accepts a cancellation has a payment only once it is confirmed, so
\* the branch that cancels a PENDING or AUTHORIZED payment has no step here.)
FindPaymentToReturn ==
  LET x == [cancel EXCEPT !.payment = remote.payment]
      status == remote.payment.status
  IN  /\ x.pc = "queryPayment"
      /\ CancelCall(Query(remote.payment),
           CASE status \in {"CAPTURED", "PARTIALLY_REFUNDED"} -> Goes(x, "refund")
             [] status \in {"REFUNDED", "CANCELLED", "FAILED"} ->
                  AfterPayment([x EXCEPT !.refunded = status = "REFUNDED"])
             [] OTHER -> AfterPayment(Missed(x)),
           AfterPayment(Missed(x)))

\* The request names neither amount nor provider reference.
RefundCancelled ==
  LET x == cancel
      o == RefundAnswer([version |-> x.payment.version, amount |-> None, refundReference |-> None])
  IN  /\ x.pc = "refund"
      /\ CancelCall(o, AfterPayment([x EXCEPT !.refunded = TRUE]), AfterPayment(Missed(x)))

ReleaseCancelled ==
  LET x == cancel
      o == ReleaseSeatsAnswer
  IN  /\ x.pc = "release"
      /\ CancelCall(o, Goes([x EXCEPT !.released = TRUE], "result"), Goes(Missed(x), "result"))

\* record_compensation, with the version the acceptance returned.
ReportCancellation ==
  LET x == cancel
      o == BookingAnswer(ResultKey[x.key], "RecordCompensation",
             [expectedVersion |-> x.version, reason |-> "BOOKING_CANCELLED",
              compensationStatus |-> IF x.complete THEN "COMPLETED" ELSE "PENDING",
              evidence |-> [NoEvidence EXCEPT !.reservationReleased = x.released,
                                              !.paymentRefunded = x.refunded]])
  IN  /\ x.pc = "result"
      /\ CancelCall(o, NoCancel, NoCancel)

CancelCrash ==
  /\ crashes < MaxCrashes /\ cancel.pc # "idle"
  /\ crashes' = crashes + 1
  /\ cancel' = NoCancel
  /\ UNCHANGED <<row, actors, remote, outbox, now, faults, cancels>>

CancelStep ==
  \/ AcceptCancellation \/ FindTicketsToCancel \/ CancelBookedTickets
  \/ FindPaymentToReturn \/ RefundCancelled
  \/ ReleaseCancelled \/ ReportCancellation

PurchaseStep == Next /\ UNCHANGED <<cancel, cancels>>

Cancellation ==
  \/ \E k \in CancelKeys : RequestCancel(k)
  \/ CancelStep \/ CancelCrash

CancelNext == PurchaseStep \/ Cancellation

CancelSpec == CancelInit /\ [][CancelNext]_cvars

\* A live request goes on, of either kind, and the worker polls.
CancelFairSpec ==
  /\ CancelSpec
  /\ \A a \in Actors : WF_cvars(PurchaseStep /\ Step(a))
  /\ WF_cvars(PurchaseStep /\ ListWorkflow)
  /\ WF_cvars(CancelStep)

-----------------------------------------------------------------------------
(* Properties. *)

\* No ticket exists before Seat Inventory has confirmed the seats, and they stay sold for as
\* long as a ticket was issued: whoever drives the purchase, whatever is lost, and also
\* while it is being cancelled.  The row, the copies of it that the actors hold, the four
\* services and the request to cancel are what their types say.
TicketsNeedSeats == TypeOK /\ CancelTypeOK /\ TicketsFollowSeats

\* A cancelled booking costs nothing and admits nobody, also when the purchase was
\* still being driven when it was cancelled: no payment of it is authorized or
\* captured, no ticket of it is valid, its seats are not sold.
CancelledIsTakenBack ==
  remote.booking # None /\ remote.booking.status = "CANCELLED" =>
    /\ remote.payment # None => remote.payment.status \in {"PENDING", "FAILED", "CANCELLED", "REFUNDED"}
    /\ remote.tickets # "VALID"
    /\ remote.reservation # None => remote.reservation.status # "CONFIRMED"

\* Nothing is taken back unless Booking Service accepted the cancellation
\* (cancellation.py: "If Booking rejects the transition, no Ticket, Payment or Seat
\* side effect has happened").
RefusedTakesNothingBack ==
  [][cancel.pc # "idle"
     /\ <<remote.tickets, remote.payment, remote.reservation>>'
          # <<remote.tickets, remote.payment, remote.reservation>>
     /\ actors' = actors /\ now' = now /\ cancel' # cancel
     => remote.booking.status \in {"COMPENSATION_PENDING", "CANCELLED"}]_cvars

\* A cancellation that Booking Service accepted comes to its end.
AcceptedIsCancelled ==
  (remote.booking # None /\ remote.booking.status = "COMPENSATION_PENDING"
     /\ remote.booking.intendedTerminalStatus = "CANCELLED")
    ~> (remote.booking # None /\ remote.booking.status = "CANCELLED")

\* A cancellation accepted before the payment was started comes to its end, although
\* the purchase may be on its way and undoes its own part at the same time.
UnpaidIsCancelled ==
  (remote.booking # None /\ remote.booking.status = "COMPENSATION_PENDING"
     /\ remote.booking.intendedTerminalStatus = "CANCELLED"
     /\ remote.booking.paymentStatus = "PENDING")
    ~> (remote.booking # None /\ remote.booking.status = "CANCELLED")
=============================================================================
