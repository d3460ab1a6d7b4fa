-------------------------- MODULE BookingRequests ---------------------------
(***************************************************************************)
(* The commands of Booking Service as callers send them: the argument sets *)
(* of the request schemas, with the bounds that make them finite.          *)
(***************************************************************************)
EXTENDS BookingCommands

CONSTANTS
  BookingIds,
  Times,                 \* the reservation expiries callers report
  ReservationVersions,   \* the reservation versions callers report
  MaxVersion,            \* bound on a booking's resourceVersion
  MaxNow                 \* bound on the clock

ASSUME NoneIsNoBooking == None \notin Booking

ASSUME BoundsAreNaturals ==
  /\ MaxVersion \in Nat /\ MaxNow \in Nat
  /\ Times \subseteq Nat
  /\ ReservationVersions \subseteq Nat \ {0}

Versions == 1 .. MaxVersion

-----------------------------------------------------------------------------
(* The requests: what each command receives beside the booking id.  The     *)
(* expected version is taken from vs.                                       *)

AttachReservationRequest(vs) ==
  [expectedVersion : vs, reservationId : ReservationIds,
   expiresAt : Times \cup {None}, reservationVersion : ReservationVersions \cup {None},
   confirmed : BOOLEAN]

ConfirmReservationRequest(vs) ==
  [expectedVersion : vs, reservationId : ReservationIds,
   reservationVersion : ReservationVersions \cup {None}]

StartPaymentRequest(vs) == [expectedVersion : vs, paymentId : PaymentIds]

RecordPaymentRequest(vs) ==
  [expectedVersion : vs, paymentId : PaymentIds, paymentStatus : PaymentStatus]

AttachTicketsRequest(vs) ==
  [expectedVersion : vs, ticketIds : (SUBSET TicketIds) \ {{}}]

\* The evidence a confirmation repeats is optional, and checked when present
\* (a present ticket list is never empty, so {} is the absent one).
ConfirmBookingRequest(vs) ==
  [expectedVersion : vs, reservationId : ReservationIds \cup {None},
   paymentId : PaymentIds \cup {None}, paymentStatus : PaymentStatus \cup {None},
   ticketIds : SUBSET TicketIds]

FailBookingRequest(vs) ==
  [expectedVersion : vs, reason : Reasons,
   compensationStatus : CompensationStatus \cup {None}, evidence : Evidence]

CancelBookingRequest(vs) ==
  [expectedVersion : vs, reason : Reasons,
   paymentStatus : PaymentStatus \cup {None},
   compensationStatus : CompensationStatus \cup {None}, evidence : Evidence]

RecordCompensationRequest(vs) ==
  [expectedVersion : vs, reason : Reasons \cup {None},
   compensationStatus : CompensationStatus, evidence : Evidence]
=============================================================================
