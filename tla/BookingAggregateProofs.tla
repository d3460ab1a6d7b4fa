----------------------- MODULE BookingAggregateProofs -----------------------
(***************************************************************************)
(* Proofs about the booking aggregate: what every command of it preserves, *)
(* wherever it is run.  A booking it leaves is sound (Sound) and continues *)
(* the booking it was given (Continues).  BookingLifecycleProofs and       *)
(* BookingServiceProofs rest on these lemmas.                              *)
(***************************************************************************)
EXTENDS BookingRequests, FiniteSetTheorems, TLAPS

\* The inductive invariant of one booking.
Sound(b) ==
  /\ b \in Booking
  /\ EvidenceFitsStatus(b)
  /\ OwedWorkIsRecorded(b)
  /\ ClosedIsSettled(b)
  /\ ClosingIsPrepared(b)

-----------------------------------------------------------------------------
(* The operators the aggregate is built from. *)

\* required_compensation_action, read as what each answer means.
LEMMA RequiredMeans ==
  ASSUME NEW b \in Booking
  PROVE  LET owed == RequiredCompensationAction(b)
             held == b.reservationStatus \in {"RESERVED", "CONFIRMED",
                                              "RELEASE_PENDING", "UNKNOWN"}
             paid == b.paymentStatus \in {"SUCCEEDED", "REFUND_PENDING"}
         IN  /\ owed \in CompensationAction
             /\ owed = "RECONCILE_PAYMENT" <=> b.paymentStatus \in UnsettledPayment
             /\ owed \in ReleaseActions <=> held /\ b.paymentStatus \notin UnsettledPayment
             /\ owed \in RefundActions <=> paid
             /\ owed = "NONE" <=> ~held /\ ~paid /\ b.paymentStatus \notin UnsettledPayment
BY DEF RequiredCompensationAction, CompensationAction, UnsettledPayment, ReleaseActions,
       RefundActions, Booking

\* Touch changes the version and nothing the invariant reads.
LEMMA TouchKeeps ==
  ASSUME NEW b \in Booking
  PROVE  /\ Touch(b) \in Booking
         /\ Touch(b).resourceVersion = b.resourceVersion + 1
         /\ EvidenceFitsStatus(b) => EvidenceFitsStatus(Touch(b))
         /\ OwedWorkIsRecorded(b) => OwedWorkIsRecorded(Touch(b))
         /\ ClosedIsSettled(b) => ClosedIsSettled(Touch(b))
         /\ ClosingIsPrepared(b) => ClosingIsPrepared(Touch(b))
<1> DEFINE c == Touch(b)
<1>1. c \in Booking /\ c.resourceVersion = b.resourceVersion + 1
  BY DEF Touch, Booking
<1>2. /\ c.status = b.status /\ c.paymentStatus = b.paymentStatus
      /\ c.reservationStatus = b.reservationStatus
      /\ c.compensationStatus = b.compensationStatus
      /\ c.compensationAction = b.compensationAction
      /\ c.intendedTerminalStatus = b.intendedTerminalStatus
      /\ c.reservationId = b.reservationId /\ c.paymentId = b.paymentId
      /\ c.ticketIds = b.ticketIds /\ c.failureReason = b.failureReason
      /\ c.cancellationReason = b.cancellationReason
  BY DEF Touch, Booking
<1> HIDE DEF c
<1>3. RequiredCompensationAction(c) = RequiredCompensationAction(b)
  BY <1>2 DEF RequiredCompensationAction
<1>4. /\ EvidenceFitsStatus(b) => EvidenceFitsStatus(c)
      /\ OwedWorkIsRecorded(b) => OwedWorkIsRecorded(c)
      /\ ClosedIsSettled(b) => ClosedIsSettled(c)
      /\ ClosingIsPrepared(b) => ClosingIsPrepared(c)
  BY <1>2, <1>3 DEF EvidenceFitsStatus, OwedWorkIsRecorded, ClosedIsSettled, ClosingIsPrepared
<1> QED BY <1>1, <1>4 DEF c

\* So a command preserves soundness when the booking it touches last is sound.
LEMMA TouchSound ==
  ASSUME NEW b, Sound(b)
  PROVE  Sound(Touch(b))
BY TouchKeeps DEF Sound

\* _apply_compensation_evidence: what accepted evidence makes of a booking.
LEMMA EvidenceMakes ==
  ASSUME NEW b \in Booking, NEW e \in Evidence, EvidenceAccepted(b, e)
  PROVE  LET c == ApplyCompensationEvidence(b, e)
         IN  /\ c \in Booking
             /\ c.status = b.status /\ c.resourceVersion = b.resourceVersion
             /\ c.compensationAction = b.compensationAction
             /\ c.compensationStatus = b.compensationStatus
             /\ c.intendedTerminalStatus = b.intendedTerminalStatus
             /\ c.reservationId = b.reservationId /\ c.paymentId = b.paymentId
             /\ c.ticketIds = b.ticketIds /\ c.failureReason = b.failureReason
             /\ c.cancellationReason = b.cancellationReason
             /\ c.reservationStatus \in {b.reservationStatus, "RELEASED"}
             /\ b.paymentStatus \notin UnsettledPayment =>
                  \/ c.paymentStatus = b.paymentStatus
                  \/ /\ c.paymentStatus = "REFUNDED"
                     /\ b.paymentStatus \in {"SUCCEEDED", "REFUND_PENDING", "REFUNDED"}
             /\ b.paymentStatus \in UnsettledPayment =>
                  c.paymentStatus \in {b.paymentStatus, "SUCCEEDED", "FAILED", "UNKNOWN",
                                       "REFUNDED"}
<1> DEFINE paid == IF e.paymentRefunded THEN "REFUNDED" ELSE ResolvedPayment(b, e)
           flag == b.paymentRecorded \/ e.resolvedPaymentStatus # None
           held == IF e.reservationReleased THEN "RELEASED" ELSE b.reservationStatus
           c    == ApplyCompensationEvidence(b, e)
           d    == [b EXCEPT !.paymentStatus = paid, !.paymentRecorded = flag,
                             !.reservationStatus = held]
<1>1. paid \in PaymentStatus /\ held \in ReservationEvidenceStatus
  BY DEF ResolvedPayment, Evidence, Booking, PaymentStatus, ReservationEvidenceStatus
<1>2. flag \in BOOLEAN
  OBVIOUS
<1>3. c = d
  BY DEF ApplyCompensationEvidence, Booking
<1>4. /\ held \in {b.reservationStatus, "RELEASED"}
      /\ b.paymentStatus \notin UnsettledPayment =>
           \/ paid = b.paymentStatus
           \/ /\ paid = "REFUNDED"
              /\ b.paymentStatus \in {"SUCCEEDED", "REFUND_PENDING", "REFUNDED"}
      /\ b.paymentStatus \in UnsettledPayment =>
           paid \in {b.paymentStatus, "SUCCEEDED", "FAILED", "UNKNOWN", "REFUNDED"}
  BY DEF EvidenceAccepted, ResolvedPayment, Evidence, UnsettledPayment
<1> HIDE DEF paid, flag, held, c
<1>5. d \in Booking
  BY <1>1, <1>2 DEF Booking
<1>6. /\ d.status = b.status /\ d.resourceVersion = b.resourceVersion
      /\ d.compensationAction = b.compensationAction
      /\ d.compensationStatus = b.compensationStatus
      /\ d.intendedTerminalStatus = b.intendedTerminalStatus
      /\ d.reservationId = b.reservationId /\ d.paymentId = b.paymentId
      /\ d.ticketIds = b.ticketIds /\ d.failureReason = b.failureReason
      /\ d.cancellationReason = b.cancellationReason
      /\ d.reservationStatus = held /\ d.paymentStatus = paid
  BY DEF Booking
<1> HIDE DEF d
<1> QED BY <1>3, <1>4, <1>5, <1>6 DEF c

\* _mark_compensation_pending touches the two evidence statuses only.
LEMMA MarkMakes ==
  ASSUME NEW b \in Booking, NEW action
  PROVE  LET c == MarkCompensationPending(b, action)
         IN  /\ c \in Booking
             /\ c.status = b.status /\ c.resourceVersion = b.resourceVersion
             /\ c.compensationAction = b.compensationAction
             /\ c.compensationStatus = b.compensationStatus
             /\ c.intendedTerminalStatus = b.intendedTerminalStatus
             /\ c.reservationId = b.reservationId /\ c.paymentId = b.paymentId
             /\ c.ticketIds = b.ticketIds /\ c.failureReason = b.failureReason
             /\ c.cancellationReason = b.cancellationReason
             /\ c.reservationStatus =
                  IF action \in ReleaseActions /\ b.reservationStatus # "RELEASED"
                    THEN "RELEASE_PENDING" ELSE b.reservationStatus
             /\ c.paymentStatus =
                  IF action \in RefundActions /\ b.paymentStatus # "REFUNDED"
                    THEN "REFUND_PENDING" ELSE b.paymentStatus
<1> DEFINE held == IF action \in ReleaseActions /\ b.reservationStatus # "RELEASED"
                     THEN "RELEASE_PENDING" ELSE b.reservationStatus
           paid == IF action \in RefundActions /\ b.paymentStatus # "REFUNDED"
                     THEN "REFUND_PENDING" ELSE b.paymentStatus
           c    == MarkCompensationPending(b, action)
           d    == [b EXCEPT !.reservationStatus = held, !.paymentStatus = paid]
<1>1. held \in ReservationEvidenceStatus /\ paid \in PaymentStatus
  BY DEF Booking, PaymentStatus, ReservationEvidenceStatus
<1>2. c = d
  BY DEF MarkCompensationPending, Booking
<1> HIDE DEF held, paid, c
<1>3. d \in Booking
  BY <1>1 DEF Booking
<1>4. /\ d.status = b.status /\ d.resourceVersion = b.resourceVersion
      /\ d.compensationAction = b.compensationAction
      /\ d.compensationStatus = b.compensationStatus
      /\ d.intendedTerminalStatus = b.intendedTerminalStatus
      /\ d.reservationId = b.reservationId /\ d.paymentId = b.paymentId
      /\ d.ticketIds = b.ticketIds /\ d.failureReason = b.failureReason
      /\ d.cancellationReason = b.cancellationReason
      /\ d.reservationStatus = held /\ d.paymentStatus = paid
  BY DEF Booking
<1> HIDE DEF d
<1> QED BY <1>2, <1>3, <1>4 DEF c, held, paid

-----------------------------------------------------------------------------
(* The forward commands preserve soundness. *)

\* A new booking is sound.
LEMMA FromRequestSound ==
  ASSUME NEW d \in Details, NEW rid \in ReservationIds \cup {None}
  PROVE  Sound(FromRequest(d, rid))
BY DEF FromRequest, Sound, Booking, EvidenceFitsStatus, OwedWorkIsRecorded,
       ClosedIsSettled, ClosingIsPrepared, BookingStatus, PaymentStatus,
       ReservationEvidenceStatus, CompensationStatus, CompensationAction

\* AttachReservation preserves soundness.
LEMMA AttachReservationSound ==
  ASSUME NEW b, Sound(b), NEW vs, NEW r \in AttachReservationRequest(vs),
         NEW t, CanAttachReservation(b, r, t)
  PROVE  Sound(AttachReservationTo(b, r))
<1> DEFINE expires == IF r.expiresAt # None THEN r.expiresAt ELSE b.reservationExpiresAt
           version == IF r.reservationVersion # None
                        THEN r.reservationVersion ELSE b.reservationVersion
           held    == IF r.confirmed THEN "CONFIRMED" ELSE "RESERVED"
           flag    == b.reservationConfirmed \/ r.confirmed
           d       == [b EXCEPT !.reservationId        = r.reservationId,
                                !.reservationExpiresAt = expires,
                                !.reservationVersion   = version,
                                !.reservationStatus    = held,
                                !.reservationConfirmed = flag,
                                !.status               = "SEAT_RESERVED"]
<1>1. b \in Booking
  BY DEF Sound
<1>2. /\ expires \in Nat \cup {None} /\ version \in Nat \cup {None}
      /\ held \in {"RESERVED", "CONFIRMED"}
      /\ r.reservationId \in ReservationIds
  BY <1>1, BoundsAreNaturals DEF AttachReservationRequest, Booking
<1>3. flag \in BOOLEAN
  OBVIOUS
<1>4. AttachReservationTo(b, r) = Touch(d)
  BY <1>1 DEF AttachReservationTo, Booking
<1> HIDE DEF expires, version, held, flag
<1>5. d \in Booking
  BY ZenonT(60), <1>1, <1>2, <1>3 DEF Booking, BookingStatus, ReservationEvidenceStatus
<1>6. /\ d.status = "SEAT_RESERVED" /\ d.reservationId = r.reservationId
      /\ d.reservationStatus = held /\ d.paymentStatus = b.paymentStatus
      /\ d.paymentId = b.paymentId /\ d.ticketIds = b.ticketIds
  BY <1>1 DEF Booking
<1>7. b.paymentStatus = "PENDING" /\ b.paymentId = None /\ b.ticketIds = {}
  BY DEF Sound, CanAttachReservation, EvidenceFitsStatus
<1> HIDE DEF d
<1>8. Sound(d)
  BY <1>2, <1>5, <1>6, <1>7, NoneIsNoValue
     DEF Sound, EvidenceFitsStatus, OwedWorkIsRecorded, ClosedIsSettled, ClosingIsPrepared
<1> QED BY <1>4, <1>8, TouchSound

\* ConfirmReservation preserves soundness.
LEMMA ConfirmReservationSound ==
  ASSUME NEW b, Sound(b), NEW vs, NEW r \in ConfirmReservationRequest(vs),
         CanConfirmReservation(b, r)
  PROVE  Sound(ConfirmReservationOf(b, r))
<1> DEFINE version == IF r.reservationVersion # None
                        THEN r.reservationVersion ELSE b.reservationVersion
           d       == [b EXCEPT !.reservationVersion   = version,
                                !.reservationStatus    = "CONFIRMED",
                                !.reservationConfirmed = TRUE]
<1>1. b \in Booking
  BY DEF Sound
<1>2. version \in Nat \cup {None}
  BY <1>1, BoundsAreNaturals DEF ConfirmReservationRequest, Booking
<1>3. ConfirmReservationOf(b, r) = Touch(d)
  BY <1>1 DEF ConfirmReservationOf, Booking
<1> HIDE DEF version
<1>4. d \in Booking
  BY <1>1, <1>2 DEF Booking, ReservationEvidenceStatus
<1>5. /\ d.status = b.status /\ d.reservationId = b.reservationId
      /\ d.reservationStatus = "CONFIRMED" /\ d.paymentStatus = b.paymentStatus
      /\ d.paymentId = b.paymentId
  BY <1>1 DEF Booking
<1> HIDE DEF d
<1>6. Sound(d)
  BY <1>4, <1>5
     DEF CanConfirmReservation, Sound, EvidenceFitsStatus, OwedWorkIsRecorded,
         ClosedIsSettled, ClosingIsPrepared
<1> QED BY <1>3, <1>6, TouchSound

\* StartPayment preserves soundness.
LEMMA StartPaymentSound ==
  ASSUME NEW b, Sound(b), NEW vs, NEW r \in StartPaymentRequest(vs),
         NEW t, CanStartPayment(b, r, t)
  PROVE  Sound(StartPaymentOf(b, r))
<1> DEFINE d == [b EXCEPT !.paymentId     = r.paymentId,
                          !.paymentStatus = "PROCESSING",
                          !.status        = "PAYMENT_PROCESSING"]
<1>1. b \in Booking /\ r.paymentId \in PaymentIds
  BY DEF Sound, StartPaymentRequest
<1>2. StartPaymentOf(b, r) = Touch(d)
  BY DEF StartPaymentOf
<1>3. d \in Booking
  BY <1>1 DEF Booking, BookingStatus, PaymentStatus
<1>4. /\ d.status = "PAYMENT_PROCESSING" /\ d.reservationId = b.reservationId
      /\ d.reservationStatus = b.reservationStatus /\ d.paymentStatus = "PROCESSING"
      /\ d.paymentId = r.paymentId
  BY <1>1 DEF Booking
<1> HIDE DEF d
<1>5. Sound(d)
  BY <1>1, <1>3, <1>4, NoneIsNoValue
     DEF CanStartPayment, Sound, EvidenceFitsStatus, OwedWorkIsRecorded,
         ClosedIsSettled, ClosingIsPrepared
<1> QED BY <1>2, <1>5, TouchSound

\* AttachTickets preserves soundness.
LEMMA AttachTicketsSound ==
  ASSUME NEW b, Sound(b), NEW vs, NEW r \in AttachTicketsRequest(vs), CanAttachTickets(b, r)
  PROVE  Sound(AttachTicketsTo(b, r))
<1> DEFINE d == [b EXCEPT !.ticketIds = r.ticketIds]
<1>1. b \in Booking /\ r.ticketIds \in SUBSET TicketIds
  BY DEF Sound, AttachTicketsRequest
<1>2. AttachTicketsTo(b, r) = Touch(d)
  BY DEF AttachTicketsTo
<1>3. d \in Booking
  BY <1>1 DEF Booking
<1>4. /\ d.status = b.status /\ d.reservationId = b.reservationId
      /\ d.reservationStatus = b.reservationStatus /\ d.paymentStatus = b.paymentStatus
      /\ d.paymentId = b.paymentId
  BY <1>1 DEF Booking
<1> HIDE DEF d
<1>5. Sound(d)
  BY <1>3, <1>4
     DEF CanAttachTickets, Sound, EvidenceFitsStatus, OwedWorkIsRecorded,
         ClosedIsSettled, ClosingIsPrepared
<1> QED BY <1>2, <1>5, TouchSound

\* ConfirmBooking preserves soundness: ItemCount tickets are at least one.
LEMMA ConfirmBookingSound ==
  ASSUME NEW b, Sound(b), NEW r, CanConfirm(b, r)
  PROVE  Sound(ConfirmOf(b))
<1> DEFINE d == [b EXCEPT !.status                 = "CONFIRMED",
                          !.compensationStatus     = "NOT_REQUIRED",
                          !.compensationAction     = "NONE",
                          !.intendedTerminalStatus = None]
<1>1. b \in Booking
  BY DEF Sound
<1>2. ConfirmOf(b) = Touch(d)
  BY DEF ConfirmOf
<1>3. d \in Booking
  <2>1. /\ "CONFIRMED" \in BookingStatus /\ "NOT_REQUIRED" \in CompensationStatus
        /\ "NONE" \in CompensationAction
    BY DEF BookingStatus, CompensationStatus, CompensationAction
  <2> QED BY <1>1, <2>1, ZenonT(60) DEF Booking
<1>4. /\ d.status = "CONFIRMED" /\ d.reservationStatus = b.reservationStatus
      /\ d.paymentStatus = b.paymentStatus /\ d.paymentId = b.paymentId
      /\ d.ticketIds = b.ticketIds
  BY <1>1 DEF Booking
<1>5. b.ticketIds # {}
  <2>1. Cardinality({}) = 0
    BY FS_EmptySet
  <2> QED BY <2>1, ItemCountPositive DEF CanConfirm
<1> HIDE DEF d
<1>6. Sound(d)
  BY <1>3, <1>4, <1>5
     DEF CanConfirm, Sound, EvidenceFitsStatus, OwedWorkIsRecorded,
         ClosedIsSettled, ClosingIsPrepared
<1> QED BY <1>2, <1>6, TouchSound

-----------------------------------------------------------------------------
(* Payment outcomes, closing and compensation preserve soundness. *)

\* RecordPayment preserves soundness: during compensation it derives the owed
\* work anew from the outcome.
LEMMA RecordPaymentSound ==
  ASSUME NEW b, Sound(b), NEW vs, NEW r \in RecordPaymentRequest(vs), CanRecordPayment(b, r)
  PROVE  Sound(RecordPaymentOf(b, r))
<1> DEFINE paid   == [b EXCEPT !.paymentStatus = r.paymentStatus, !.paymentRecorded = TRUE]
           action == RequiredCompensationAction(paid)
           owing  == [paid EXCEPT !.compensationAction = action]
           marked == MarkCompensationPending(owing, action)
<1>1. b \in Booking /\ r.paymentStatus \in {"SUCCEEDED", "FAILED", "UNKNOWN"}
  BY DEF Sound, CanRecordPayment
<1>2. paid \in Booking
  BY <1>1 DEF Booking, PaymentStatus
<1>3. /\ paid.status = b.status /\ paid.reservationStatus = b.reservationStatus
      /\ paid.compensationStatus = b.compensationStatus
      /\ paid.intendedTerminalStatus = b.intendedTerminalStatus
      /\ paid.reservationId = b.reservationId /\ paid.paymentId = b.paymentId
      /\ paid.ticketIds = b.ticketIds /\ paid.failureReason = b.failureReason
      /\ paid.cancellationReason = b.cancellationReason
      /\ paid.paymentStatus = r.paymentStatus
  BY <1>1 DEF Booking
<1>4. RecordPaymentOf(b, r) = IF b.status = "COMPENSATION_PENDING"
                                THEN Touch(marked) ELSE Touch(paid)
  BY DEF RecordPaymentOf, ApplyPaymentOutcome
<1> HIDE DEF paid
<1>5. CASE b.status # "COMPENSATION_PENDING"
  <2>1. Sound(paid)
    BY <1>1, <1>2, <1>3, <1>5
       DEF CanRecordPayment, Sound, EvidenceFitsStatus, OwedWorkIsRecorded,
           ClosedIsSettled, ClosingIsPrepared
  <2> QED BY <1>4, <1>5, <2>1, TouchSound
<1>6. CASE b.status = "COMPENSATION_PENDING"
  <2>1. action \in CompensationAction
    BY <1>2, RequiredMeans
  <2> HIDE DEF action
  <2>2. owing \in Booking
    BY <1>2, <2>1 DEF Booking
  <2>3. /\ owing.status = paid.status /\ owing.reservationStatus = paid.reservationStatus
        /\ owing.compensationStatus = paid.compensationStatus
        /\ owing.compensationAction = action
        /\ owing.intendedTerminalStatus = paid.intendedTerminalStatus
        /\ owing.reservationId = paid.reservationId /\ owing.paymentId = paid.paymentId
        /\ owing.ticketIds = paid.ticketIds /\ owing.failureReason = paid.failureReason
        /\ owing.cancellationReason = paid.cancellationReason
        /\ owing.paymentStatus = paid.paymentStatus
    BY <1>2 DEF Booking
  <2> HIDE DEF owing
  <2>4. /\ marked \in Booking
        /\ marked.status = owing.status
        /\ marked.compensationAction = owing.compensationAction
        /\ marked.compensationStatus = owing.compensationStatus
        /\ marked.intendedTerminalStatus = owing.intendedTerminalStatus
        /\ marked.failureReason = owing.failureReason
        /\ marked.cancellationReason = owing.cancellationReason
        /\ marked.reservationStatus =
             IF action \in ReleaseActions /\ owing.reservationStatus # "RELEASED"
               THEN "RELEASE_PENDING" ELSE owing.reservationStatus
        /\ marked.paymentStatus =
             IF action \in RefundActions /\ owing.paymentStatus # "REFUNDED"
               THEN "REFUND_PENDING" ELSE owing.paymentStatus
    BY <2>2, MarkMakes
  <2> HIDE DEF marked
  <2>5. OwedWorkIsRecorded(marked)
    <3>1. /\ action = "RECONCILE_PAYMENT" <=> paid.paymentStatus \in UnsettledPayment
          /\ action \in ReleaseActions <=>
               /\ paid.reservationStatus \in {"RESERVED", "CONFIRMED", "RELEASE_PENDING",
                                              "UNKNOWN"}
               /\ paid.paymentStatus \notin UnsettledPayment
          /\ action \in RefundActions <=>
               paid.paymentStatus \in {"SUCCEEDED", "REFUND_PENDING"}
      BY <1>2, RequiredMeans DEF action
    <3>2. LET owed == RequiredCompensationAction(marked)
          IN  /\ owed = "RECONCILE_PAYMENT" <=> marked.paymentStatus \in UnsettledPayment
              /\ owed \in ReleaseActions <=>
                   /\ marked.reservationStatus \in {"RESERVED", "CONFIRMED",
                                                    "RELEASE_PENDING", "UNKNOWN"}
                   /\ marked.paymentStatus \notin UnsettledPayment
              /\ owed \in RefundActions <=>
                   marked.paymentStatus \in {"SUCCEEDED", "REFUND_PENDING"}
      BY <2>4, RequiredMeans
    <3> QED
      BY <3>1, <3>2, <2>3, <2>4 DEF OwedWorkIsRecorded, UnsettledPayment
  <2>6. Sound(marked)
    BY <1>1, <1>3, <1>6, <2>3, <2>4, <2>5
       DEF Sound, EvidenceFitsStatus, ClosedIsSettled, ClosingIsPrepared
  <2> QED BY <1>4, <1>6, <2>6, TouchSound
<1> QED BY <1>5, <1>6

\* A booking with the four fields a terminal command decides.
LEMMA ClosingFields ==
  ASSUME NEW b \in Booking, NEW s \in BookingStatus, NEW c \in CompensationStatus,
         NEW a \in CompensationAction, NEW t \in {"FAILED", "CANCELLED", None}
  PROVE  [b EXCEPT !.status = s, !.compensationStatus = c,
                   !.compensationAction = a, !.intendedTerminalStatus = t] \in Booking
BY DEF Booking

\* _begin_or_complete_terminal_transition leaves a sound booking, whatever the
\* evidence and the requested compensation status, if the reason is recorded.
LEMMA TerminalSound ==
  ASSUME NEW b \in Booking, b.paymentStatus = "PENDING" => b.paymentId = None,
         NEW r, r.evidence \in Evidence,
         r.compensationStatus \in CompensationStatus \cup {None},
         NEW target \in {"FAILED", "CANCELLED"},
         target = "FAILED" => b.failureReason # None,
         target = "CANCELLED" => b.cancellationReason # None,
         CanBeginTerminalTransition(b, r, target)
  PROVE  Sound(BeginOrCompleteTerminalTransition(b, r, target))
<1> DEFINE action == TerminalAction(b, r.evidence)
           after  == ApplyCompensationEvidence(b, r.evidence)
           wanted == RequestedCompensation(b, r)
           owed   == RequiredCompensationAction(after)
<1>1. EvidenceAccepted(b, r.evidence)
  BY DEF CanBeginTerminalTransition
<1>2. /\ after \in Booking
      /\ after.paymentId = b.paymentId /\ after.failureReason = b.failureReason
      /\ after.cancellationReason = b.cancellationReason
      /\ after.reservationStatus \in {b.reservationStatus, "RELEASED"}
      /\ b.paymentStatus \notin UnsettledPayment =>
           \/ after.paymentStatus = b.paymentStatus
           \/ /\ after.paymentStatus = "REFUNDED"
              /\ b.paymentStatus \in {"SUCCEEDED", "REFUND_PENDING", "REFUNDED"}
      /\ b.paymentStatus \in UnsettledPayment =>
           after.paymentStatus \in {b.paymentStatus, "SUCCEEDED", "FAILED", "UNKNOWN",
                                    "REFUNDED"}
  BY <1>1, EvidenceMakes
<1>3. /\ action \in CompensationAction
      /\ action = "RECONCILE_PAYMENT" <=> after.paymentStatus \in UnsettledPayment
      /\ owed = "RECONCILE_PAYMENT" <=> after.paymentStatus \in UnsettledPayment
      /\ owed \in ReleaseActions => action \in ReleaseActions
      /\ owed \in RefundActions => action \in RefundActions
  <2>1. CASE RequiredCompensationAction(b) = "RECONCILE_PAYMENT"
    BY <2>1, <1>2, RequiredMeans DEF TerminalAction
  <2>2. CASE RequiredCompensationAction(b) # "RECONCILE_PAYMENT"
    <3>1. action = RequiredCompensationAction(b)
      BY <2>2 DEF TerminalAction
    <3> HIDE DEF after
    <3> QED BY <2>2, <3>1, <1>2, RequiredMeans DEF UnsettledPayment
  <2> QED BY <2>1, <2>2
<1>4. wanted \in {"COMPLETED", "PENDING", "FAILED"}
  BY DEF RequestedCompensation, CompensationStatus
<1>5. CASE wanted = "COMPLETED"
  <2> DEFINE status == IF action = "NONE" THEN "NOT_REQUIRED" ELSE "COMPLETED"
             d      == [after EXCEPT !.status                 = target,
                                     !.compensationStatus     = status,
                                     !.compensationAction     = action,
                                     !.intendedTerminalStatus = None]
  <2>1. BeginOrCompleteTerminalTransition(b, r, target) = Touch(d)
    BY <1>5 DEF BeginOrCompleteTerminalTransition
  <2>2. CompensationRequirementsSatisfied(after, action)
    BY <1>5 DEF CanBeginTerminalTransition
  <2> HIDE DEF after, action
  <2>3. RequiredCompensationAction(after) = "NONE"
    <3>1. /\ after.paymentStatus \notin UnsettledPayment
          /\ action \in ReleaseActions => after.reservationStatus = "RELEASED"
          /\ action \in RefundActions => after.paymentStatus = "REFUNDED"
      BY <1>3, <2>2 DEF CompensationRequirementsSatisfied
    <3> QED
      BY <3>1, <1>2, <1>3, RequiredMeans
  <2>4. d \in Booking
    <3>1. target \in BookingStatus /\ status \in CompensationStatus
      BY DEF BookingStatus, CompensationStatus
    <3>2. after \in Booking
      BY <1>2
    <3>3. action \in CompensationAction
      BY <1>3
    <3> QED BY <3>1, <3>2, <3>3, ClosingFields
  <2>5. /\ d.status = target /\ d.compensationStatus \in {"NOT_REQUIRED", "COMPLETED"}
        /\ d.paymentStatus = after.paymentStatus
        /\ d.reservationStatus = after.reservationStatus
        /\ d.paymentId = after.paymentId /\ d.failureReason = after.failureReason
        /\ d.cancellationReason = after.cancellationReason
    BY <1>2 DEF Booking
  <2> HIDE DEF d
  <2>6. RequiredCompensationAction(d) = "NONE"
    BY <2>3, <2>5 DEF RequiredCompensationAction
  <2>7. d.paymentStatus = "PENDING" => d.paymentId = None
    BY <1>2, <2>5 DEF UnsettledPayment
  <2>8. Sound(d)
    BY <1>2, <2>4, <2>5, <2>6, <2>7
       DEF Sound, EvidenceFitsStatus, OwedWorkIsRecorded, ClosedIsSettled, ClosingIsPrepared
  <2> QED BY <2>1, <2>8, TouchSound
<1>6. CASE wanted # "COMPLETED"
  <2> DEFINE owing  == [after EXCEPT !.status                 = "COMPENSATION_PENDING",
                                     !.compensationStatus     = wanted,
                                     !.compensationAction     = action,
                                     !.intendedTerminalStatus = target]
             marked == MarkCompensationPending(owing, action)
  <2>1. BeginOrCompleteTerminalTransition(b, r, target) = Touch(marked)
    BY <1>6 DEF BeginOrCompleteTerminalTransition
  <2> HIDE DEF after, action, wanted
  <2>2. owing \in Booking
    <3>1. wanted \in CompensationStatus /\ target \in {"FAILED", "CANCELLED", None}
      BY <1>4 DEF CompensationStatus
    <3>2. after \in Booking
      BY <1>2
    <3>3. action \in CompensationAction
      BY <1>3
    <3>4. "COMPENSATION_PENDING" \in BookingStatus
      BY DEF BookingStatus
    <3> QED BY <3>1, <3>2, <3>3, <3>4, ClosingFields
  <2>3. /\ owing.status = "COMPENSATION_PENDING" /\ owing.compensationStatus = wanted
        /\ owing.compensationAction = action /\ owing.intendedTerminalStatus = target
        /\ owing.paymentStatus = after.paymentStatus
        /\ owing.reservationStatus = after.reservationStatus
        /\ owing.paymentId = after.paymentId /\ owing.failureReason = after.failureReason
        /\ owing.cancellationReason = after.cancellationReason
    BY <1>2 DEF Booking
  <2> HIDE DEF owing
  <2>4. /\ marked \in Booking /\ marked.status = owing.status
        /\ marked.compensationAction = owing.compensationAction
        /\ marked.compensationStatus = owing.compensationStatus
        /\ marked.intendedTerminalStatus = owing.intendedTerminalStatus
        /\ marked.paymentId = owing.paymentId
        /\ marked.failureReason = owing.failureReason
        /\ marked.cancellationReason = owing.cancellationReason
        /\ marked.reservationStatus =
             IF action \in ReleaseActions /\ owing.reservationStatus # "RELEASED"
               THEN "RELEASE_PENDING" ELSE owing.reservationStatus
        /\ marked.paymentStatus =
             IF action \in RefundActions /\ owing.paymentStatus # "REFUNDED"
               THEN "REFUND_PENDING" ELSE owing.paymentStatus
    BY <2>2, MarkMakes
  <2> HIDE DEF marked
  <2>5. OwedWorkIsRecorded(marked)
    <3>1. LET due == RequiredCompensationAction(marked)
          IN  /\ due = "RECONCILE_PAYMENT" <=> marked.paymentStatus \in UnsettledPayment
              /\ due \in ReleaseActions <=>
                   /\ marked.reservationStatus \in {"RESERVED", "CONFIRMED",
                                                    "RELEASE_PENDING", "UNKNOWN"}
                   /\ marked.paymentStatus \notin UnsettledPayment
              /\ due \in RefundActions <=>
                   marked.paymentStatus \in {"SUCCEEDED", "REFUND_PENDING"}
      BY <2>4, RequiredMeans
    <3>2. /\ owed \in ReleaseActions <=>
               /\ after.reservationStatus \in {"RESERVED", "CONFIRMED",
                                               "RELEASE_PENDING", "UNKNOWN"}
               /\ after.paymentStatus \notin UnsettledPayment
          /\ owed \in RefundActions <=>
               after.paymentStatus \in {"SUCCEEDED", "REFUND_PENDING"}
      BY <1>2, RequiredMeans
    <3> HIDE DEF owed
    <3>3. action \in RefundActions => action # "RECONCILE_PAYMENT"
      BY DEF RefundActions
    <3> QED
      BY <3>1, <3>2, <3>3, <2>3, <2>4, <1>3 DEF OwedWorkIsRecorded, UnsettledPayment
  <2>6. marked.paymentStatus = "PENDING" => marked.paymentId = None
    BY <1>2, <2>3, <2>4 DEF UnsettledPayment
  <2>7. Sound(marked)
    BY <1>2, <1>4, <1>6, <2>3, <2>4, <2>5, <2>6
       DEF Sound, EvidenceFitsStatus, ClosedIsSettled, ClosingIsPrepared
  <2> QED BY <2>1, <2>7, TouchSound
<1> QED BY <1>5, <1>6

\* FailBooking preserves soundness.
LEMMA FailBookingSound ==
  ASSUME NEW b, Sound(b), NEW vs, NEW r \in FailBookingRequest(vs), CanFail(b, r)
  PROVE  Sound(FailOf(b, r))
<1> DEFINE d == WithFailureReason(b, r)
<1>1. /\ b \in Booking /\ r.reason \in Reasons /\ r.evidence \in Evidence
      /\ r.compensationStatus \in CompensationStatus \cup {None}
  BY DEF Sound, FailBookingRequest
<1>2. d \in Booking
  BY <1>1 DEF WithFailureReason, Booking
<1>3. /\ d.paymentStatus = b.paymentStatus /\ d.paymentId = b.paymentId
      /\ d.failureReason = r.reason
  BY <1>1 DEF WithFailureReason, Booking
<1>4. CanBeginTerminalTransition(d, r, "FAILED")
  BY DEF CanFail
<1>5. FailOf(b, r) = BeginOrCompleteTerminalTransition(d, r, "FAILED")
  BY DEF FailOf
<1>6. d.failureReason # None /\ (d.paymentStatus = "PENDING" => d.paymentId = None)
  BY <1>1, <1>3, NoneIsNoValue DEF Sound, ClosingIsPrepared
<1> HIDE DEF d
<1> QED BY <1>1, <1>2, <1>4, <1>5, <1>6, TerminalSound

\* CancelBooking preserves soundness, with the payment status it may report.
LEMMA CancelBookingSound ==
  ASSUME NEW b, Sound(b), NEW vs, NEW r \in CancelBookingRequest(vs), CanCancel(b, r)
  PROVE  Sound(CancelOf(b, r))
<1> DEFINE d    == ApplyCancelPaymentStatus(b, r)
           paid == IF r.paymentStatus # None THEN r.paymentStatus ELSE b.paymentStatus
           flag == b.paymentRecorded \/ r.paymentStatus # None
           c    == [b EXCEPT !.cancellationReason = r.reason, !.paymentStatus = paid,
                             !.paymentRecorded = flag]
<1>1. /\ b \in Booking /\ r.reason \in Reasons /\ r.evidence \in Evidence
      /\ r.compensationStatus \in CompensationStatus \cup {None}
      /\ r.paymentStatus \in PaymentStatus \cup {None}
  BY DEF Sound, CancelBookingRequest
<1>2. paid \in PaymentStatus /\ flag \in BOOLEAN
  <2>1. paid \in PaymentStatus
    BY <1>1 DEF Booking
  <2>2. flag \in BOOLEAN
    OBVIOUS
  <2> QED BY <2>1, <2>2
<1>3. d = c
  BY <1>1 DEF ApplyCancelPaymentStatus, Booking
<1>4. paid = "PENDING" => b.paymentStatus = "PENDING"
  BY <1>1 DEF CanCancel, CancelPaymentStatusAllowed, PaymentStatus, Booking
<1> HIDE DEF paid, flag
<1>5. c \in Booking
  BY <1>1, <1>2 DEF Booking
<1>6. /\ c.paymentStatus = paid /\ c.paymentId = b.paymentId
      /\ c.cancellationReason = r.reason
  BY <1>1 DEF Booking
<1>7. CanBeginTerminalTransition(d, r, "CANCELLED")
  BY DEF CanCancel
<1>8. CancelOf(b, r) = BeginOrCompleteTerminalTransition(d, r, "CANCELLED")
  BY DEF CancelOf
<1>9. c.cancellationReason # None /\ (c.paymentStatus = "PENDING" => c.paymentId = None)
  BY <1>1, <1>4, <1>6, NoneIsNoValue DEF Sound, ClosingIsPrepared
<1> HIDE DEF c, d
<1> QED BY <1>1, <1>3, <1>5, <1>7, <1>8, <1>9, TerminalSound

\* RecordCompensation preserves soundness: what it completes owes nothing more.
LEMMA RecordCompensationSound ==
  ASSUME NEW b, Sound(b), NEW vs, NEW r \in RecordCompensationRequest(vs),
         CanRecordCompensation(b, r)
  PROVE  Sound(RecordCompensationOf(b, r))
<1> DEFINE after  == ApplyCompensationEvidence(b, r.evidence)
           action == ResultAction(b, r.evidence)
           reason == IF r.reason # None THEN r.reason ELSE b.compensationReason
           owing  == [after EXCEPT !.compensationReason = reason,
                                   !.compensationAction = action]
           marked == MarkCompensationPending(owing, action)
           owed   == RequiredCompensationAction(after)
<1>1. /\ b \in Booking /\ r.reason \in Reasons \cup {None} /\ r.evidence \in Evidence
      /\ r.compensationStatus \in {"COMPLETED", "FAILED", "PENDING"}
      /\ EvidenceAccepted(b, r.evidence) /\ b.status = "COMPENSATION_PENDING"
      /\ b.intendedTerminalStatus \in {"FAILED", "CANCELLED"}
  BY DEF Sound, RecordCompensationRequest, CanRecordCompensation, EvidenceFitsStatus
<1>2. /\ after \in Booking
      /\ after.status = b.status
      /\ after.compensationStatus = b.compensationStatus
      /\ after.intendedTerminalStatus = b.intendedTerminalStatus
      /\ after.paymentId = b.paymentId /\ after.failureReason = b.failureReason
      /\ after.cancellationReason = b.cancellationReason
      /\ after.reservationStatus \in {b.reservationStatus, "RELEASED"}
      /\ b.paymentStatus \notin UnsettledPayment =>
           \/ after.paymentStatus = b.paymentStatus
           \/ /\ after.paymentStatus = "REFUNDED"
              /\ b.paymentStatus \in {"SUCCEEDED", "REFUND_PENDING", "REFUNDED"}
      /\ b.paymentStatus \in UnsettledPayment =>
           after.paymentStatus \in {b.paymentStatus, "SUCCEEDED", "FAILED", "UNKNOWN",
                                    "REFUNDED"}
      /\ after.compensationReason = b.compensationReason
  <2>1. after.compensationReason = b.compensationReason
    BY <1>1 DEF ApplyCompensationEvidence, Booking
  <2> QED BY <1>1, <2>1, EvidenceMakes
<1>3. /\ action \in CompensationAction
      /\ action = "RECONCILE_PAYMENT" <=> after.paymentStatus \in UnsettledPayment
      /\ owed = "RECONCILE_PAYMENT" <=> after.paymentStatus \in UnsettledPayment
      /\ owed \in ReleaseActions => action \in ReleaseActions
      /\ owed \in RefundActions => action \in RefundActions
  <2>1. OwedWorkIsRecorded(b) /\ b.compensationAction \in CompensationAction
    BY <1>1 DEF Sound, Booking
  <2>2. CASE b.compensationAction = "RECONCILE_PAYMENT"
    BY <2>2, <1>2, RequiredMeans DEF ResultAction
  <2>3. CASE b.compensationAction # "RECONCILE_PAYMENT"
    <3>1. action = b.compensationAction
      BY <2>3 DEF ResultAction
    <3>2. /\ b.paymentStatus \notin UnsettledPayment
          /\ RequiredCompensationAction(b) \in ReleaseActions => action \in ReleaseActions
          /\ RequiredCompensationAction(b) \in RefundActions => action \in RefundActions
      BY <1>1, <2>1, <2>3, <3>1, RequiredMeans DEF OwedWorkIsRecorded
    <3> HIDE DEF after
    <3> QED BY <2>1, <2>3, <3>1, <3>2, <1>1, <1>2, RequiredMeans DEF UnsettledPayment
  <2> QED BY <2>2, <2>3
<1>4. CompensatedBy(b, r) = marked
  <2>1. [after EXCEPT !.compensationReason = IF r.reason # None THEN r.reason ELSE @,
                      !.compensationAction = action] = owing
    BY <1>2 DEF Booking
  <2> QED BY <2>1 DEF CompensatedBy
<1>5. reason \in Reasons \cup {None}
  BY <1>1 DEF Booking
<1>6. CompensationRequirementsSatisfied(marked, action) \/ r.compensationStatus # "COMPLETED"
  BY <1>4 DEF CanRecordCompensation
<1>7. RecordCompensationOf(b, r) =
        Touch(IF r.compensationStatus = "COMPLETED"
                THEN [marked EXCEPT !.status                 = b.intendedTerminalStatus,
                                    !.compensationStatus     = "COMPLETED",
                                    !.intendedTerminalStatus = None]
                ELSE [marked EXCEPT !.compensationStatus = r.compensationStatus])
  BY <1>4 DEF RecordCompensationOf
<1> HIDE DEF after, action, reason
<1>8. owing \in Booking
  BY <1>2, <1>3, <1>5 DEF Booking
<1>9. /\ owing.status = after.status /\ owing.compensationAction = action
      /\ owing.paymentStatus = after.paymentStatus
      /\ owing.reservationStatus = after.reservationStatus
      /\ owing.intendedTerminalStatus = after.intendedTerminalStatus
      /\ owing.paymentId = after.paymentId /\ owing.failureReason = after.failureReason
      /\ owing.cancellationReason = after.cancellationReason
  BY <1>2 DEF Booking
<1> HIDE DEF owing
<1>10. /\ marked \in Booking /\ marked.status = owing.status
       /\ marked.compensationAction = owing.compensationAction
       /\ marked.intendedTerminalStatus = owing.intendedTerminalStatus
       /\ marked.paymentId = owing.paymentId
       /\ marked.failureReason = owing.failureReason
       /\ marked.cancellationReason = owing.cancellationReason
       /\ marked.reservationStatus =
            IF action \in ReleaseActions /\ owing.reservationStatus # "RELEASED"
              THEN "RELEASE_PENDING" ELSE owing.reservationStatus
       /\ marked.paymentStatus =
            IF action \in RefundActions /\ owing.paymentStatus # "REFUNDED"
              THEN "REFUND_PENDING" ELSE owing.paymentStatus
  BY <1>8, MarkMakes
<1> HIDE DEF marked
<1>11. LET due == RequiredCompensationAction(marked)
       IN  /\ due = "RECONCILE_PAYMENT" <=> action = "RECONCILE_PAYMENT"
           /\ due \in ReleaseActions => action \in ReleaseActions
           /\ due \in RefundActions => action \in RefundActions
  <2>1. LET due == RequiredCompensationAction(marked)
        IN  /\ due = "RECONCILE_PAYMENT" <=> marked.paymentStatus \in UnsettledPayment
            /\ due \in ReleaseActions <=>
                 /\ marked.reservationStatus \in {"RESERVED", "CONFIRMED",
                                                  "RELEASE_PENDING", "UNKNOWN"}
                 /\ marked.paymentStatus \notin UnsettledPayment
            /\ due \in RefundActions <=>
                 marked.paymentStatus \in {"SUCCEEDED", "REFUND_PENDING"}
    BY <1>10, RequiredMeans
  <2>2. /\ owed \in ReleaseActions <=>
             /\ after.reservationStatus \in {"RESERVED", "CONFIRMED",
                                             "RELEASE_PENDING", "UNKNOWN"}
             /\ after.paymentStatus \notin UnsettledPayment
        /\ owed \in RefundActions <=>
             after.paymentStatus \in {"SUCCEEDED", "REFUND_PENDING"}
    BY <1>2, RequiredMeans
  <2> HIDE DEF owed
  <2>3. action \in RefundActions => action # "RECONCILE_PAYMENT"
    BY DEF RefundActions
  <2> QED
    BY <2>1, <2>2, <2>3, <1>3, <1>9, <1>10 DEF UnsettledPayment
<1>12. marked.paymentStatus = "PENDING" => marked.paymentId = None
  BY <1>1, <1>2, <1>9, <1>10 DEF Sound, ClosingIsPrepared, UnsettledPayment
<1>13. CASE r.compensationStatus = "COMPLETED"
  <2> DEFINE d == [marked EXCEPT !.status                 = b.intendedTerminalStatus,
                                 !.compensationStatus     = "COMPLETED",
                                 !.intendedTerminalStatus = None]
  <2>1. d \in Booking
    <3>1. b.intendedTerminalStatus \in BookingStatus
      BY <1>1 DEF BookingStatus
    <3> QED BY <3>1, <1>10 DEF Booking, CompensationStatus
  <2>2. /\ d.status = b.intendedTerminalStatus /\ d.compensationStatus = "COMPLETED"
        /\ d.paymentStatus = marked.paymentStatus
        /\ d.reservationStatus = marked.reservationStatus
        /\ d.paymentId = marked.paymentId /\ d.failureReason = marked.failureReason
        /\ d.cancellationReason = marked.cancellationReason
    BY <1>10 DEF Booking
  <2>3. RecordCompensationOf(b, r) = Touch(d)
    BY <1>7, <1>13
  <2> HIDE DEF d
  <2>4. RequiredCompensationAction(marked) = "NONE"
    <3>1. /\ action = "RECONCILE_PAYMENT" => marked.paymentStatus \notin UnsettledPayment
          /\ action \in ReleaseActions => marked.reservationStatus = "RELEASED"
          /\ action \in RefundActions => marked.paymentStatus = "REFUNDED"
      BY <1>6, <1>13 DEF CompensationRequirementsSatisfied
    <3> QED BY <3>1, <1>10, <1>11, RequiredMeans
  <2>5. RequiredCompensationAction(d) = "NONE"
    BY <2>2, <2>4 DEF RequiredCompensationAction
  <2>6. /\ b.intendedTerminalStatus = "FAILED" => b.failureReason # None
        /\ b.intendedTerminalStatus = "CANCELLED" => b.cancellationReason # None
    BY <1>1 DEF Sound, ClosingIsPrepared
  <2>7. Sound(d)
    BY <1>1, <1>2, <1>9, <1>10, <1>12, <2>1, <2>2, <2>5, <2>6
       DEF Sound, EvidenceFitsStatus, OwedWorkIsRecorded, ClosedIsSettled, ClosingIsPrepared
  <2> QED BY <2>3, <2>7, TouchSound
<1>14. CASE r.compensationStatus # "COMPLETED"
  <2> DEFINE d == [marked EXCEPT !.compensationStatus = r.compensationStatus]
  <2>1. d \in Booking
    BY <1>1, <1>10 DEF Booking, CompensationStatus
  <2>2. /\ d.status = marked.status /\ d.compensationStatus = r.compensationStatus
        /\ d.paymentStatus = marked.paymentStatus
        /\ d.reservationStatus = marked.reservationStatus
        /\ d.compensationAction = marked.compensationAction
        /\ d.intendedTerminalStatus = marked.intendedTerminalStatus
        /\ d.paymentId = marked.paymentId /\ d.failureReason = marked.failureReason
        /\ d.cancellationReason = marked.cancellationReason
    BY <1>10 DEF Booking
  <2>3. RecordCompensationOf(b, r) = Touch(d)
    BY <1>7, <1>14
  <2> HIDE DEF d
  <2>4. RequiredCompensationAction(d) = RequiredCompensationAction(marked)
    BY <2>2 DEF RequiredCompensationAction
  <2>5. OwedWorkIsRecorded(d)
    BY <1>9, <1>10, <1>11, <2>2, <2>4 DEF OwedWorkIsRecorded
  <2>6. Sound(d)
    BY <1>1, <1>2, <1>9, <1>10, <1>12, <1>14, <2>1, <2>2, <2>5
       DEF Sound, EvidenceFitsStatus, ClosedIsSettled, ClosingIsPrepared
  <2> QED BY <2>3, <2>6, TouchSound
<1> QED BY <1>13, <1>14

-----------------------------------------------------------------------------
(* What becomes of a booking.  Every command continues it.                  *)

\* _mark_compensation_pending has been applied: while a refund is owed the payment
\* says so.  Without it a later compensation result could turn a payment that is
\* settled otherwise into REFUND_PENDING.
RefundIsMarked(b) ==
  /\ b.status = "COMPENSATION_PENDING"
  /\ b.compensationAction \in RefundActions
  => b.paymentStatus \in {"REFUND_PENDING", "REFUNDED"}

\* The payment status y may follow x.
MayFollow(x, y) == y = x \/ y \in PaymentMayBecome[x]

\* What becomes of a stored booking when a command is applied to it.
Continues(was, is) ==
  /\ MayFollow(was.paymentStatus, is.paymentStatus)
  /\ is.resourceVersion = was.resourceVersion + 1
  /\ was.reservationId # None => is.reservationId = was.reservationId
  /\ was.paymentId # None => is.paymentId = was.paymentId
  /\ was.ticketIds # {} => is.ticketIds = was.ticketIds
  /\ was.reservationStatus = "RELEASED" => is.reservationStatus = "RELEASED"
  /\ was.status = "COMPENSATION_PENDING" =>
       \/ /\ is.status = "COMPENSATION_PENDING"
          /\ is.intendedTerminalStatus = was.intendedTerminalStatus
       \/ is.status = was.intendedTerminalStatus
  /\ was.status = "CONFIRMED" => "CANCELLED" \in {is.status, is.intendedTerminalStatus}
  /\ was.status \notin {"FAILED", "CANCELLED"}
  /\ RefundIsMarked(is)

-----------------------------------------------------------------------------
(* The forward commands. *)

\* AttachReservation meets no reservation but its own, and none that was released.
LEMMA AttachReservationContinues ==
  ASSUME NEW b, Sound(b), NEW r, NEW t, CanAttachReservation(b, r, t)
  PROVE  Continues(b, AttachReservationTo(b, r))
BY NoneIsNoValue, SMTT(30) DEF CanAttachReservation, AttachReservationTo, Touch, Sound,
       ClosingIsPrepared, EvidenceFitsStatus, Continues, MayFollow, RefundIsMarked,
       PaymentMayBecome, UnsettledPayment, PaymentStatus, Booking

\* ConfirmReservation touches the reservation alone.
LEMMA ConfirmReservationContinues ==
  ASSUME NEW b, Sound(b), NEW r, CanConfirmReservation(b, r)
  PROVE  Continues(b, ConfirmReservationOf(b, r))
BY NoneIsNoValue, SMTT(30) DEF CanConfirmReservation, ConfirmReservationOf, Touch,
       Sound, ClosingIsPrepared, EvidenceFitsStatus, Continues, MayFollow,
       RefundIsMarked, PaymentMayBecome, UnsettledPayment, PaymentStatus, Booking

\* StartPayment meets a booking without a payment.
LEMMA StartPaymentContinues ==
  ASSUME NEW b, Sound(b), NEW r, NEW t, CanStartPayment(b, r, t)
  PROVE  Continues(b, StartPaymentOf(b, r))
BY NoneIsNoValue, SMTT(30) DEF CanStartPayment, StartPaymentOf, Touch, Sound,
       ClosingIsPrepared, EvidenceFitsStatus, Continues, MayFollow, RefundIsMarked,
       PaymentMayBecome, UnsettledPayment, PaymentStatus, Booking

\* AttachTickets meets a booking without tickets, or with the same.
LEMMA AttachTicketsContinues ==
  ASSUME NEW b, Sound(b), NEW r, CanAttachTickets(b, r)
  PROVE  Continues(b, AttachTicketsTo(b, r))
BY NoneIsNoValue, SMTT(30) DEF CanAttachTickets, AttachTicketsTo, Touch, Sound,
       ClosingIsPrepared, EvidenceFitsStatus, Continues, MayFollow, RefundIsMarked,
       PaymentMayBecome, UnsettledPayment, PaymentStatus, Booking

\* ConfirmBooking changes no evidence.
LEMMA ConfirmBookingContinues ==
  ASSUME NEW b, Sound(b), NEW r, CanConfirm(b, r)
  PROVE  Continues(b, ConfirmOf(b))
BY NoneIsNoValue, SMTT(30) DEF CanConfirm, ConfirmOf, AllowedTransitions, BookingStatus,
       Touch, Sound, ClosingIsPrepared, EvidenceFitsStatus, Continues, MayFollow,
       RefundIsMarked, PaymentMayBecome, UnsettledPayment, PaymentStatus, Booking

\* RecordPayment settles a payment that was open, or leaves it UNKNOWN.
LEMMA RecordPaymentContinues ==
  ASSUME NEW b, Sound(b), NEW r, CanRecordPayment(b, r)
  PROVE  Continues(b, RecordPaymentOf(b, r))
BY NoneIsNoValue, SMTT(90) DEF CanRecordPayment, RecordPaymentOf, ApplyPaymentOutcome,
       MarkCompensationPending, RequiredCompensationAction, ReleaseActions,
       RefundActions, Touch, Sound, ClosingIsPrepared, EvidenceFitsStatus, Continues,
       MayFollow, RefundIsMarked, PaymentMayBecome, UnsettledPayment, PaymentStatus,
       Booking

-----------------------------------------------------------------------------
(* Failure, cancellation and the compensation result. *)

\* One payment status after another, and after that a third.
LEMMA MayFollowTwice ==
  ASSUME NEW x \in PaymentStatus, NEW y \in PaymentStatus, NEW z \in PaymentStatus,
         MayFollow(x, y), MayFollow(y, z)
  PROVE  MayFollow(x, z)
BY DEF MayFollow, PaymentMayBecome, PaymentStatus, UnsettledPayment

\* Accepted evidence keeps the identifiers and what is settled.
LEMMA EvidenceFollows ==
  ASSUME NEW b \in Booking, NEW e \in Evidence, EvidenceAccepted(b, e)
  PROVE  LET c == ApplyCompensationEvidence(b, e)
         IN  /\ MayFollow(b.paymentStatus, c.paymentStatus)
             /\ b.reservationStatus = "RELEASED" => c.reservationStatus = "RELEASED"
<1> DEFINE c == ApplyCompensationEvidence(b, e)
<1>1. /\ c \in Booking
      /\ c.reservationStatus \in {b.reservationStatus, "RELEASED"}
      /\ b.paymentStatus \notin UnsettledPayment =>
           \/ c.paymentStatus = b.paymentStatus
           \/ /\ c.paymentStatus = "REFUNDED"
              /\ b.paymentStatus \in {"SUCCEEDED", "REFUND_PENDING", "REFUNDED"}
      /\ b.paymentStatus \in UnsettledPayment =>
           c.paymentStatus \in {b.paymentStatus, "SUCCEEDED", "FAILED", "UNKNOWN", "REFUNDED"}
  BY EvidenceMakes
<1> HIDE DEF c
<1>2. b.paymentStatus \in PaymentStatus /\ c.paymentStatus \in PaymentStatus
  BY <1>1 DEF Booking
<1>3. MayFollow(b.paymentStatus, c.paymentStatus)
  BY <1>1, <1>2 DEF MayFollow, PaymentMayBecome, PaymentStatus, UnsettledPayment
<1> QED BY <1>1, <1>3 DEF c

\* So does the mark of pending compensation, if a refund is owed only for money
\* that was captured.
LEMMA MarkFollows ==
  ASSUME NEW b \in Booking, NEW action,
         action \in RefundActions =>
           b.paymentStatus \in {"SUCCEEDED", "REFUND_PENDING", "REFUNDED"}
  PROVE  LET c == MarkCompensationPending(b, action)
         IN  /\ MayFollow(b.paymentStatus, c.paymentStatus)
             /\ b.reservationStatus = "RELEASED" => c.reservationStatus = "RELEASED"
             /\ action \in RefundActions => c.paymentStatus \in {"REFUND_PENDING", "REFUNDED"}
<1> DEFINE c == MarkCompensationPending(b, action)
<1>1. /\ c \in Booking
      /\ c.reservationStatus = IF action \in ReleaseActions /\ b.reservationStatus # "RELEASED"
                                THEN "RELEASE_PENDING" ELSE b.reservationStatus
      /\ c.paymentStatus = IF action \in RefundActions /\ b.paymentStatus # "REFUNDED"
                             THEN "REFUND_PENDING" ELSE b.paymentStatus
  BY MarkMakes
<1> HIDE DEF c
<1>2. b.paymentStatus \in PaymentStatus
  BY DEF Booking
<1>3. MayFollow(b.paymentStatus, c.paymentStatus)
  BY <1>1, <1>2 DEF MayFollow, PaymentMayBecome, PaymentStatus, UnsettledPayment
<1> QED BY <1>1, <1>3 DEF c

\* _begin_or_complete_terminal_transition heads for its target and keeps the rest.
LEMMA TerminalFollows ==
  ASSUME NEW b \in Booking, NEW r, r.evidence \in Evidence,
         r.compensationStatus \in CompensationStatus \cup {None},
         NEW target \in {"FAILED", "CANCELLED"},
         CanBeginTerminalTransition(b, r, target)
  PROVE  LET c == BeginOrCompleteTerminalTransition(b, r, target)
         IN  /\ MayFollow(b.paymentStatus, c.paymentStatus)
             /\ c.resourceVersion = b.resourceVersion + 1
             /\ c.reservationId = b.reservationId /\ c.paymentId = b.paymentId
             /\ c.ticketIds = b.ticketIds
             /\ b.reservationStatus = "RELEASED" => c.reservationStatus = "RELEASED"
             /\ target \in {c.status, c.intendedTerminalStatus}
             /\ RefundIsMarked(c)
<1> DEFINE action == TerminalAction(b, r.evidence)
           after  == ApplyCompensationEvidence(b, r.evidence)
           wanted == RequestedCompensation(b, r)
           c      == BeginOrCompleteTerminalTransition(b, r, target)
<1>1. EvidenceAccepted(b, r.evidence)
  BY DEF CanBeginTerminalTransition
<1>2. /\ after \in Booking
      /\ after.resourceVersion = b.resourceVersion
      /\ after.reservationId = b.reservationId /\ after.paymentId = b.paymentId
      /\ after.ticketIds = b.ticketIds
      /\ MayFollow(b.paymentStatus, after.paymentStatus)
      /\ b.reservationStatus = "RELEASED" => after.reservationStatus = "RELEASED"
  BY <1>1, EvidenceMakes, EvidenceFollows
<1>3. /\ action \in CompensationAction
      /\ action \in RefundActions =>
           after.paymentStatus \in {"SUCCEEDED", "REFUND_PENDING", "REFUNDED"}
  <2>1. CASE RequiredCompensationAction(b) = "RECONCILE_PAYMENT"
    BY <2>1, <1>2, RequiredMeans DEF TerminalAction
  <2>2. CASE RequiredCompensationAction(b) # "RECONCILE_PAYMENT"
    <3>1. action = RequiredCompensationAction(b)
      BY <2>2 DEF TerminalAction
    <3>2. action \in RefundActions => b.paymentStatus \in {"SUCCEEDED", "REFUND_PENDING"}
      BY <3>1, RequiredMeans
    <3>3. b.paymentStatus \in {"SUCCEEDED", "REFUND_PENDING"} =>
            after.paymentStatus \in {"SUCCEEDED", "REFUND_PENDING", "REFUNDED"}
      BY <1>2 DEF MayFollow, PaymentMayBecome, PaymentStatus, UnsettledPayment
    <3> QED BY <3>1, <3>2, <3>3, RequiredMeans
  <2> QED BY <2>1, <2>2
<1>4. wanted \in CompensationStatus
  BY DEF RequestedCompensation, CompensationStatus
<1>5. CASE wanted = "COMPLETED"
  <2> DEFINE status == IF action = "NONE" THEN "NOT_REQUIRED" ELSE "COMPLETED"
             d      == [after EXCEPT !.status                 = target,
                                     !.compensationStatus     = status,
                                     !.compensationAction     = action,
                                     !.intendedTerminalStatus = None]
  <2>1. c = Touch(d)
    BY <1>5 DEF BeginOrCompleteTerminalTransition
  <2> HIDE DEF after, action, c
  <2>2. /\ d.status = target /\ d.paymentStatus = after.paymentStatus
        /\ d.resourceVersion = after.resourceVersion
        /\ d.reservationStatus = after.reservationStatus
        /\ d.reservationId = after.reservationId /\ d.paymentId = after.paymentId
        /\ d.ticketIds = after.ticketIds
    BY <1>2 DEF Booking
  <2>3. d \in Booking
    <3>1. target \in BookingStatus /\ status \in CompensationStatus
      BY DEF BookingStatus, CompensationStatus
    <3> QED BY <3>1, <1>2, <1>3, ClosingFields
  <2> HIDE DEF d
  <2>4. /\ c.status = target /\ c.paymentStatus = d.paymentStatus
        /\ c.resourceVersion = d.resourceVersion + 1
        /\ c.reservationStatus = d.reservationStatus
        /\ c.reservationId = d.reservationId /\ c.paymentId = d.paymentId
        /\ c.ticketIds = d.ticketIds
    BY <2>1, <2>2, <2>3 DEF Touch, Booking
  <2> QED BY <1>2, <2>2, <2>4 DEF c, RefundIsMarked
<1>6. CASE wanted # "COMPLETED"
  <2> DEFINE owing  == [after EXCEPT !.status                 = "COMPENSATION_PENDING",
                                     !.compensationStatus     = wanted,
                                     !.compensationAction     = action,
                                     !.intendedTerminalStatus = target]
             marked == MarkCompensationPending(owing, action)
  <2>1. c = Touch(marked)
    BY <1>6 DEF BeginOrCompleteTerminalTransition
  <2> HIDE DEF after, action, wanted, c
  <2>2. owing \in Booking
    <3>1. "COMPENSATION_PENDING" \in BookingStatus /\ target \in {"FAILED", "CANCELLED", None}
      BY DEF BookingStatus
    <3> QED BY <3>1, <1>2, <1>3, <1>4, ClosingFields
  <2>3. /\ owing.intendedTerminalStatus = target /\ owing.compensationAction = action
        /\ owing.paymentStatus = after.paymentStatus
        /\ owing.resourceVersion = after.resourceVersion
        /\ owing.reservationStatus = after.reservationStatus
        /\ owing.reservationId = after.reservationId /\ owing.paymentId = after.paymentId
        /\ owing.ticketIds = after.ticketIds
    BY <1>2 DEF Booking
  <2> HIDE DEF owing
  <2>4. /\ marked \in Booking
        /\ marked.intendedTerminalStatus = target /\ marked.compensationAction = action
        /\ marked.resourceVersion = owing.resourceVersion
        /\ marked.reservationId = owing.reservationId /\ marked.paymentId = owing.paymentId
        /\ marked.ticketIds = owing.ticketIds
    BY <2>2, <2>3, MarkMakes
  <2>5. /\ MayFollow(owing.paymentStatus, marked.paymentStatus)
        /\ owing.reservationStatus = "RELEASED" => marked.reservationStatus = "RELEASED"
        /\ action \in RefundActions => marked.paymentStatus \in {"REFUND_PENDING", "REFUNDED"}
    BY <2>2, <2>3, <1>3, MarkFollows
  <2> HIDE DEF marked
  <2>6. /\ c.intendedTerminalStatus = target /\ c.compensationAction = action
        /\ c.paymentStatus = marked.paymentStatus
        /\ c.resourceVersion = marked.resourceVersion + 1
        /\ c.reservationStatus = marked.reservationStatus
        /\ c.reservationId = marked.reservationId /\ c.paymentId = marked.paymentId
        /\ c.ticketIds = marked.ticketIds
    BY <2>1, <2>4 DEF Touch, Booking
  <2>7. MayFollow(b.paymentStatus, c.paymentStatus)
    <3>1. /\ b.paymentStatus \in PaymentStatus /\ after.paymentStatus \in PaymentStatus
          /\ marked.paymentStatus \in PaymentStatus
      BY <1>2, <2>4 DEF Booking
    <3> QED BY <3>1, <1>2, <2>3, <2>5, <2>6, MayFollowTwice
  <2> QED BY <1>2, <2>3, <2>4, <2>5, <2>6, <2>7 DEF c, RefundIsMarked
<1> QED BY <1>5, <1>6

\* FailBooking meets no booking that is confirmed, closing or closed.
LEMMA FailBookingContinues ==
  ASSUME NEW b, Sound(b), NEW vs, NEW r \in FailBookingRequest(vs), CanFail(b, r)
  PROVE  Continues(b, FailOf(b, r))
<1> DEFINE d == WithFailureReason(b, r)
<1>1. /\ b \in Booking /\ r.reason \in Reasons /\ r.evidence \in Evidence
      /\ r.compensationStatus \in CompensationStatus \cup {None}
      /\ b.status \in ActiveBookingStatuses
  BY DEF Sound, FailBookingRequest, CanFail
<1>2. /\ d \in Booking /\ d.paymentStatus = b.paymentStatus /\ d.paymentId = b.paymentId
      /\ d.resourceVersion = b.resourceVersion /\ d.reservationId = b.reservationId
      /\ d.ticketIds = b.ticketIds /\ d.reservationStatus = b.reservationStatus
  BY <1>1 DEF WithFailureReason, Booking
<1>3. CanBeginTerminalTransition(d, r, "FAILED")
  BY DEF CanFail
<1>4. FailOf(b, r) = BeginOrCompleteTerminalTransition(d, r, "FAILED")
  BY DEF FailOf
<1> HIDE DEF d
<1> QED BY <1>1, <1>2, <1>3, <1>4, TerminalFollows DEF Continues, ActiveBookingStatuses

\* CancelBooking may report a payment status, but only one that follows.
LEMMA CancelBookingContinues ==
  ASSUME NEW b, Sound(b), NEW vs, NEW r \in CancelBookingRequest(vs), CanCancel(b, r)
  PROVE  Continues(b, CancelOf(b, r))
<1> DEFINE d    == ApplyCancelPaymentStatus(b, r)
           paid == IF r.paymentStatus # None THEN r.paymentStatus ELSE b.paymentStatus
           flag == b.paymentRecorded \/ r.paymentStatus # None
           e    == [b EXCEPT !.cancellationReason = r.reason, !.paymentStatus = paid,
                             !.paymentRecorded = flag]
           c    == CancelOf(b, r)
<1>1. /\ b \in Booking /\ r.reason \in Reasons /\ r.evidence \in Evidence
      /\ r.compensationStatus \in CompensationStatus \cup {None}
      /\ r.paymentStatus \in PaymentStatus \cup {None}
      /\ b.status \in {"PENDING", "SEAT_RESERVED", "CONFIRMED"}
  BY DEF Sound, CancelBookingRequest, CanCancel
<1>2. paid \in PaymentStatus
  BY <1>1 DEF Booking
<1>3. flag \in BOOLEAN
  OBVIOUS
<1>4. d = e
  BY <1>1 DEF ApplyCancelPaymentStatus, Booking
<1>5. MayFollow(b.paymentStatus, paid)
  <2>1. b.paymentStatus \in PaymentStatus
    BY <1>1 DEF Booking
  <2> QED
    BY <1>1, <2>1 DEF CanCancel, CancelPaymentStatusAllowed, MayFollow, PaymentMayBecome,
                      PaymentStatus, UnsettledPayment
<1> HIDE DEF paid, flag
<1>6. e \in Booking
  BY <1>1, <1>2, <1>3 DEF Booking
<1>7. /\ e.paymentStatus = paid /\ e.paymentId = b.paymentId
      /\ e.resourceVersion = b.resourceVersion /\ e.reservationId = b.reservationId
      /\ e.ticketIds = b.ticketIds /\ e.reservationStatus = b.reservationStatus
  BY <1>1 DEF Booking
<1>8. CanBeginTerminalTransition(d, r, "CANCELLED")
  BY DEF CanCancel
<1>9. c = BeginOrCompleteTerminalTransition(d, r, "CANCELLED")
  BY DEF CancelOf
<1>10. Sound(c)
  BY CancelBookingSound
<1> HIDE DEF d, e, c
<1>11. /\ MayFollow(e.paymentStatus, c.paymentStatus)
       /\ c.resourceVersion = e.resourceVersion + 1
       /\ c.reservationId = e.reservationId /\ c.paymentId = e.paymentId
       /\ c.ticketIds = e.ticketIds
       /\ e.reservationStatus = "RELEASED" => c.reservationStatus = "RELEASED"
       /\ "CANCELLED" \in {c.status, c.intendedTerminalStatus}
       /\ RefundIsMarked(c)
  BY <1>1, <1>4, <1>6, <1>8, <1>9, TerminalFollows
<1>12. MayFollow(b.paymentStatus, c.paymentStatus)
  <2>1. b.paymentStatus \in PaymentStatus /\ c.paymentStatus \in PaymentStatus
    BY <1>1, <1>10 DEF Sound, Booking
  <2> QED BY <2>1, <1>2, <1>5, <1>7, <1>11, MayFollowTwice
<1> QED BY <1>1, <1>7, <1>11, <1>12 DEF Continues, c

\* RecordCompensation closes the booking as intended, or leaves it pending; the
\* refund that its action demands is marked already.
LEMMA RecordCompensationContinues ==
  ASSUME NEW b, Sound(b), RefundIsMarked(b), NEW vs,
         NEW r \in RecordCompensationRequest(vs), CanRecordCompensation(b, r)
  PROVE  Continues(b, RecordCompensationOf(b, r))
<1> DEFINE after  == ApplyCompensationEvidence(b, r.evidence)
           action == ResultAction(b, r.evidence)
           reason == IF r.reason # None THEN r.reason ELSE b.compensationReason
           owing  == [after EXCEPT !.compensationReason = reason,
                                   !.compensationAction = action]
           marked == MarkCompensationPending(owing, action)
           closed == [marked EXCEPT !.status                 = b.intendedTerminalStatus,
                                    !.compensationStatus     = "COMPLETED",
                                    !.intendedTerminalStatus = None]
           open   == [marked EXCEPT !.compensationStatus = r.compensationStatus]
           c      == RecordCompensationOf(b, r)
<1>1. /\ b \in Booking /\ r.reason \in Reasons \cup {None} /\ r.evidence \in Evidence
      /\ r.compensationStatus \in {"COMPLETED", "FAILED", "PENDING"}
      /\ EvidenceAccepted(b, r.evidence) /\ b.status = "COMPENSATION_PENDING"
      /\ b.intendedTerminalStatus \in {"FAILED", "CANCELLED"}
  BY DEF Sound, RecordCompensationRequest, CanRecordCompensation, EvidenceFitsStatus
<1>2. /\ after \in Booking
      /\ after.status = b.status
      /\ after.intendedTerminalStatus = b.intendedTerminalStatus
      /\ after.resourceVersion = b.resourceVersion
      /\ after.reservationId = b.reservationId /\ after.paymentId = b.paymentId
      /\ after.ticketIds = b.ticketIds
      /\ MayFollow(b.paymentStatus, after.paymentStatus)
      /\ b.reservationStatus = "RELEASED" => after.reservationStatus = "RELEASED"
  BY <1>1, EvidenceMakes, EvidenceFollows
<1>3. after.compensationReason = b.compensationReason
  BY <1>1 DEF ApplyCompensationEvidence, Booking
<1>4. /\ action \in CompensationAction
      /\ action \in RefundActions =>
           after.paymentStatus \in {"SUCCEEDED", "REFUND_PENDING", "REFUNDED"}
  <2>1. CASE b.compensationAction = "RECONCILE_PAYMENT"
    BY <2>1, <1>2, RequiredMeans DEF ResultAction
  <2>2. CASE b.compensationAction # "RECONCILE_PAYMENT"
    <3>1. action = b.compensationAction
      BY <2>2 DEF ResultAction
    <3>2. action \in RefundActions => b.paymentStatus \in {"REFUND_PENDING", "REFUNDED"}
      BY <1>1, <3>1 DEF RefundIsMarked
    <3>3. b.paymentStatus \in {"REFUND_PENDING", "REFUNDED"} =>
            after.paymentStatus \in {"REFUND_PENDING", "REFUNDED"}
      BY <1>2 DEF MayFollow, PaymentMayBecome, PaymentStatus, UnsettledPayment
    <3>4. b.compensationAction \in CompensationAction
      BY <1>1 DEF Booking
    <3> QED BY <3>1, <3>2, <3>3, <3>4
  <2> QED BY <2>1, <2>2
<1>5. [after EXCEPT !.compensationReason = IF r.reason # None THEN r.reason ELSE @,
                    !.compensationAction = action] = owing
  BY <1>2, <1>3 DEF Booking
<1>6. CompensatedBy(b, r) = marked
  BY <1>5 DEF CompensatedBy
<1>7. c = Touch(IF r.compensationStatus = "COMPLETED" THEN closed ELSE open)
  BY <1>6 DEF RecordCompensationOf
<1>8. reason \in Reasons \cup {None}
  BY <1>1 DEF Booking
<1> HIDE DEF after, action, reason, c
<1>9. owing \in Booking
  BY <1>2, <1>4, <1>8 DEF Booking
<1>10. /\ owing.status = b.status
       /\ owing.intendedTerminalStatus = b.intendedTerminalStatus
       /\ owing.compensationAction = action
       /\ owing.paymentStatus = after.paymentStatus
       /\ owing.resourceVersion = b.resourceVersion
       /\ owing.reservationStatus = after.reservationStatus
       /\ owing.reservationId = b.reservationId /\ owing.paymentId = b.paymentId
       /\ owing.ticketIds = b.ticketIds
  BY <1>2 DEF Booking
<1> HIDE DEF owing
<1>11. /\ marked \in Booking /\ marked.status = b.status
       /\ marked.intendedTerminalStatus = b.intendedTerminalStatus
       /\ marked.compensationAction = action
       /\ marked.resourceVersion = b.resourceVersion
       /\ marked.reservationId = b.reservationId /\ marked.paymentId = b.paymentId
       /\ marked.ticketIds = b.ticketIds
  BY <1>9, <1>10, MarkMakes
<1>12. /\ MayFollow(owing.paymentStatus, marked.paymentStatus)
       /\ owing.reservationStatus = "RELEASED" => marked.reservationStatus = "RELEASED"
       /\ action \in RefundActions => marked.paymentStatus \in {"REFUND_PENDING", "REFUNDED"}
  BY <1>4, <1>9, <1>10, MarkFollows
<1> HIDE DEF marked
<1>13. MayFollow(b.paymentStatus, marked.paymentStatus)
  <2>1. /\ b.paymentStatus \in PaymentStatus /\ after.paymentStatus \in PaymentStatus
        /\ marked.paymentStatus \in PaymentStatus
    BY <1>1, <1>2, <1>11 DEF Booking
  <2> QED BY <2>1, <1>2, <1>10, <1>12, MayFollowTwice
<1>14. /\ c.paymentStatus = marked.paymentStatus
       /\ c.resourceVersion = marked.resourceVersion + 1
       /\ c.reservationStatus = marked.reservationStatus
       /\ c.reservationId = marked.reservationId /\ c.paymentId = marked.paymentId
       /\ c.ticketIds = marked.ticketIds
       /\ c.compensationAction = marked.compensationAction
  BY <1>7, <1>11 DEF Touch, Booking
<1>15. \/ /\ c.status = "COMPENSATION_PENDING"
          /\ c.intendedTerminalStatus = b.intendedTerminalStatus
       \/ c.status = b.intendedTerminalStatus
  BY <1>1, <1>7, <1>11 DEF Touch, Booking
<1> QED
  BY <1>1, <1>2, <1>10, <1>11, <1>12, <1>13, <1>14, <1>15 DEF Continues, RefundIsMarked, c

-----------------------------------------------------------------------------
(* Where a command leads, and what it leaves of the reasons and the claim. *)

\* Only a booking that fails has a failure reason, only one that is cancelled has
\* a cancellation reason.
ReasonsFit(b) ==
  /\ b.failureReason # None =>
       \/ b.status = "FAILED"
       \/ b.status = "COMPENSATION_PENDING" /\ b.intendedTerminalStatus = "FAILED"
  /\ b.cancellationReason # None =>
       \/ b.status = "CANCELLED"
       \/ b.status = "COMPENSATION_PENDING" /\ b.intendedTerminalStatus = "CANCELLED"

\* A booking is PENDING only when it is new, becomes CONFIRMED only from
\* PAYMENT_PROCESSING, and leaves CONFIRMED and COMPENSATION_PENDING for good.
Moves(was, is) ==
  /\ is.status # "PENDING"
  /\ is.status = "CONFIRMED" => was.status = "PAYMENT_PROCESSING"
  /\ was.status = "CONFIRMED" => is.status \in {"COMPENSATION_PENDING", "CANCELLED"}
  /\ was.status = "COMPENSATION_PENDING" =>
       is.status \in {"COMPENSATION_PENDING", "FAILED", "CANCELLED"}
  /\ ReasonsFit(is)

\* AttachReservation leads to SEAT_RESERVED.
LEMMA AttachReservationMoves ==
  ASSUME NEW b \in Booking, ReasonsFit(b), NEW r, NEW t, CanAttachReservation(b, r, t)
  PROVE  /\ Moves(b, AttachReservationTo(b, r))
         /\ AttachReservationTo(b, r).reservationId = r.reservationId
         /\ AttachReservationTo(b, r).status = "SEAT_RESERVED"
BY SMTT(30) DEF CanAttachReservation, AttachReservationTo, Touch, Moves, ReasonsFit, Booking

\* ConfirmReservation leaves the status.
LEMMA ConfirmReservationMoves ==
  ASSUME NEW b \in Booking, ReasonsFit(b), NEW r, CanConfirmReservation(b, r)
  PROVE  /\ Moves(b, ConfirmReservationOf(b, r))
         /\ ConfirmReservationOf(b, r).reservationId = b.reservationId
         /\ ConfirmReservationOf(b, r).status = "PAYMENT_PROCESSING"
BY SMTT(30) DEF CanConfirmReservation, ConfirmReservationOf, Touch, Moves, ReasonsFit, Booking

\* StartPayment leads to PAYMENT_PROCESSING.
LEMMA StartPaymentMoves ==
  ASSUME NEW b \in Booking, ReasonsFit(b), NEW r, NEW t, CanStartPayment(b, r, t)
  PROVE  /\ Moves(b, StartPaymentOf(b, r))
         /\ StartPaymentOf(b, r).reservationId = b.reservationId
         /\ StartPaymentOf(b, r).status = "PAYMENT_PROCESSING"
BY SMTT(30) DEF CanStartPayment, StartPaymentOf, Touch, Moves, ReasonsFit, Booking

\* RecordPayment leaves the status, also of a booking under compensation.
LEMMA RecordPaymentMoves ==
  ASSUME NEW b \in Booking, ReasonsFit(b), NEW r, CanRecordPayment(b, r)
  PROVE  /\ Moves(b, RecordPaymentOf(b, r))
         /\ RecordPaymentOf(b, r).reservationId = b.reservationId
         /\ RecordPaymentOf(b, r).status \in {"PAYMENT_PROCESSING", "COMPENSATION_PENDING"}
         /\ RecordPaymentOf(b, r).paymentId = r.paymentId
         /\ \/ RecordPaymentOf(b, r).paymentStatus = r.paymentStatus
            \/ /\ r.paymentStatus = "SUCCEEDED"
               /\ RecordPaymentOf(b, r).paymentStatus = "REFUND_PENDING"
<1> DEFINE paid   == ApplyPaymentOutcome(b, r)
           action == RequiredCompensationAction(paid)
           owing  == [paid EXCEPT !.compensationAction = action]
           marked == MarkCompensationPending(owing, action)
           c      == IF b.status = "COMPENSATION_PENDING" THEN marked ELSE paid
<1>1. RecordPaymentOf(b, r) = Touch(c)
  BY DEF RecordPaymentOf
<1>2. /\ paid.status = b.status /\ paid.reservationId = b.reservationId
      /\ paid.paymentId = b.paymentId /\ paid.paymentStatus = r.paymentStatus
      /\ paid.failureReason = b.failureReason
      /\ paid.cancellationReason = b.cancellationReason
      /\ paid.intendedTerminalStatus = b.intendedTerminalStatus
      /\ DOMAIN paid = DOMAIN b
  BY DEF ApplyPaymentOutcome, Booking
<1>3. action \in RefundActions => paid.paymentStatus \in {"SUCCEEDED", "REFUND_PENDING"}
  BY DEF RequiredCompensationAction, RefundActions
<1> HIDE DEF paid, action
<1>4. /\ c.status = b.status /\ c.reservationId = b.reservationId
      /\ c.paymentId = b.paymentId
      /\ c.failureReason = b.failureReason
      /\ c.cancellationReason = b.cancellationReason
      /\ c.intendedTerminalStatus = b.intendedTerminalStatus
      /\ \/ c.paymentStatus = r.paymentStatus
         \/ r.paymentStatus = "SUCCEEDED" /\ c.paymentStatus = "REFUND_PENDING"
      /\ DOMAIN c = DOMAIN b
  BY <1>2, <1>3 DEF MarkCompensationPending, CanRecordPayment, Booking
<1> HIDE DEF c
<1>5. /\ Touch(c).status = c.status /\ Touch(c).reservationId = c.reservationId
      /\ Touch(c).paymentId = c.paymentId /\ Touch(c).paymentStatus = c.paymentStatus
      /\ Touch(c).failureReason = c.failureReason
      /\ Touch(c).cancellationReason = c.cancellationReason
      /\ Touch(c).intendedTerminalStatus = c.intendedTerminalStatus
  BY <1>4 DEF Touch, Booking
<1> QED BY <1>1, <1>4, <1>5 DEF CanRecordPayment, Moves, ReasonsFit

\* AttachTickets leaves the status.
LEMMA AttachTicketsMoves ==
  ASSUME NEW b \in Booking, ReasonsFit(b), NEW r, CanAttachTickets(b, r)
  PROVE  /\ Moves(b, AttachTicketsTo(b, r))
         /\ AttachTicketsTo(b, r).reservationId = b.reservationId
         /\ AttachTicketsTo(b, r).status = "PAYMENT_PROCESSING"
BY SMTT(30) DEF CanAttachTickets, AttachTicketsTo, Touch, Moves, ReasonsFit, Booking

\* ConfirmBooking leads to CONFIRMED, from PAYMENT_PROCESSING alone.
LEMMA ConfirmBookingMoves ==
  ASSUME NEW b \in Booking, ReasonsFit(b), NEW r, CanConfirm(b, r)
  PROVE  /\ Moves(b, ConfirmOf(b))
         /\ ConfirmOf(b).reservationId = b.reservationId
         /\ ConfirmOf(b).status = "CONFIRMED"
BY SMTT(30) DEF CanConfirm, ConfirmOf, AllowedTransitions, BookingStatus, Touch, Moves,
       ReasonsFit, Booking

\* _begin_or_complete_terminal_transition leads to its target, or to a compensation
\* that is meant to end there.
LEMMA TerminalMoves ==
  ASSUME NEW b \in Booking, NEW r, r.evidence \in Evidence,
         r.compensationStatus \in CompensationStatus \cup {None},
         NEW target \in {"FAILED", "CANCELLED"},
         CanBeginTerminalTransition(b, r, target)
  PROVE  LET c == BeginOrCompleteTerminalTransition(b, r, target)
         IN  /\ \/ c.status = target
                \/ /\ c.status = "COMPENSATION_PENDING"
                   /\ c.intendedTerminalStatus = target
             /\ c.reservationId = b.reservationId
             /\ c.failureReason = b.failureReason
             /\ c.cancellationReason = b.cancellationReason
<1> DEFINE action == TerminalAction(b, r.evidence)
           after  == ApplyCompensationEvidence(b, r.evidence)
           wanted == RequestedCompensation(b, r)
           c      == BeginOrCompleteTerminalTransition(b, r, target)
<1>1. /\ after \in Booking
      /\ after.reservationId = b.reservationId
      /\ after.failureReason = b.failureReason
      /\ after.cancellationReason = b.cancellationReason
  <2>1. EvidenceAccepted(b, r.evidence)
    BY DEF CanBeginTerminalTransition
  <2> QED BY <2>1, EvidenceMakes
<1>2. action \in CompensationAction
  BY <1>1, RequiredMeans DEF TerminalAction
<1>3. wanted \in CompensationStatus
  BY DEF RequestedCompensation, CompensationStatus
<1>4. CASE wanted = "COMPLETED"
  <2> DEFINE status == IF action = "NONE" THEN "NOT_REQUIRED" ELSE "COMPLETED"
             d      == [after EXCEPT !.status                 = target,
                                     !.compensationStatus     = status,
                                     !.compensationAction     = action,
                                     !.intendedTerminalStatus = None]
  <2>1. c = Touch(d)
    BY <1>4 DEF BeginOrCompleteTerminalTransition
  <2> HIDE DEF after, action, c, status
  <2> QED BY <1>1, <2>1 DEF c, Touch, Booking
<1>5. CASE wanted # "COMPLETED"
  <2> DEFINE owing  == [after EXCEPT !.status                 = "COMPENSATION_PENDING",
                                     !.compensationStatus     = wanted,
                                     !.compensationAction     = action,
                                     !.intendedTerminalStatus = target]
             marked == MarkCompensationPending(owing, action)
  <2>1. c = Touch(marked)
    BY <1>5 DEF BeginOrCompleteTerminalTransition
  <2> HIDE DEF after, action, wanted, c
  <2>2. owing \in Booking
    <3>1. "COMPENSATION_PENDING" \in BookingStatus /\ target \in {"FAILED", "CANCELLED", None}
      BY DEF BookingStatus
    <3> QED BY <3>1, <1>1, <1>2, <1>3, ClosingFields
  <2>3. /\ owing.status = "COMPENSATION_PENDING" /\ owing.intendedTerminalStatus = target
        /\ owing.reservationId = after.reservationId
        /\ owing.failureReason = after.failureReason
        /\ owing.cancellationReason = after.cancellationReason
    BY <1>1 DEF Booking
  <2> HIDE DEF owing
  <2>4. /\ marked \in Booking
        /\ marked.status = "COMPENSATION_PENDING" /\ marked.intendedTerminalStatus = target
        /\ marked.reservationId = owing.reservationId
        /\ marked.failureReason = owing.failureReason
        /\ marked.cancellationReason = owing.cancellationReason
    BY <2>2, <2>3, MarkMakes
  <2> HIDE DEF marked
  <2> QED BY <1>1, <2>1, <2>3, <2>4 DEF c, Touch, Booking
<1> QED BY <1>4, <1>5

\* FailBooking leads to FAILED, at once or through compensation.
LEMMA FailBookingMoves ==
  ASSUME NEW b \in Booking, ReasonsFit(b), NEW vs, NEW r \in FailBookingRequest(vs),
         CanFail(b, r)
  PROVE  /\ Moves(b, FailOf(b, r))
         /\ FailOf(b, r).reservationId = b.reservationId
         /\ FailOf(b, r).status \in {"FAILED", "COMPENSATION_PENDING"}
         /\ FailOf(b, r).failureReason = r.reason
         /\ "FAILED" \in {FailOf(b, r).status, FailOf(b, r).intendedTerminalStatus}
<1> DEFINE d == WithFailureReason(b, r)
           c == FailOf(b, r)
<1>1. /\ r.reason \in Reasons /\ r.evidence \in Evidence
      /\ r.compensationStatus \in CompensationStatus \cup {None}
      /\ b.status \in ActiveBookingStatuses
  BY DEF FailBookingRequest, CanFail
<1>2. /\ d \in Booking /\ d.failureReason = r.reason
      /\ d.cancellationReason = b.cancellationReason /\ d.reservationId = b.reservationId
  BY <1>1 DEF WithFailureReason, Booking
<1>3. CanBeginTerminalTransition(d, r, "FAILED") /\ c = BeginOrCompleteTerminalTransition(d, r, "FAILED")
  BY DEF CanFail, FailOf
<1> HIDE DEF d, c
<1>4. /\ \/ c.status = "FAILED"
         \/ c.status = "COMPENSATION_PENDING" /\ c.intendedTerminalStatus = "FAILED"
      /\ c.reservationId = b.reservationId /\ c.failureReason = r.reason
      /\ c.cancellationReason = b.cancellationReason
  BY <1>1, <1>2, <1>3, TerminalMoves
<1> QED BY <1>1, <1>4 DEF Moves, ReasonsFit, ActiveBookingStatuses, c

\* CancelBooking leads to CANCELLED, at once or through compensation.
LEMMA CancelBookingMoves ==
  ASSUME NEW b \in Booking, ReasonsFit(b), NEW vs, NEW r \in CancelBookingRequest(vs),
         CanCancel(b, r)
  PROVE  /\ Moves(b, CancelOf(b, r))
         /\ CancelOf(b, r).reservationId = b.reservationId
         /\ CancelOf(b, r).status \in {"CANCELLED", "COMPENSATION_PENDING"}
         /\ CancelOf(b, r).cancellationReason = r.reason
         /\ "CANCELLED" \in {CancelOf(b, r).status, CancelOf(b, r).intendedTerminalStatus}
<1> DEFINE d    == ApplyCancelPaymentStatus(b, r)
           paid == IF r.paymentStatus # None THEN r.paymentStatus ELSE b.paymentStatus
           flag == b.paymentRecorded \/ r.paymentStatus # None
           e    == [b EXCEPT !.cancellationReason = r.reason, !.paymentStatus = paid,
                             !.paymentRecorded = flag]
           c    == CancelOf(b, r)
<1>1. /\ r.reason \in Reasons /\ r.evidence \in Evidence
      /\ r.compensationStatus \in CompensationStatus \cup {None}
      /\ r.paymentStatus \in PaymentStatus \cup {None}
      /\ b.status \in {"PENDING", "SEAT_RESERVED", "CONFIRMED"}
  BY DEF CancelBookingRequest, CanCancel
<1>2. d = e
  BY DEF ApplyCancelPaymentStatus, Booking
<1>3. paid \in PaymentStatus
  BY <1>1 DEF Booking
<1>4. flag \in BOOLEAN
  OBVIOUS
<1> HIDE DEF paid, flag
<1>5. e \in Booking
  BY <1>1, <1>3, <1>4 DEF Booking
<1>6. /\ e.cancellationReason = r.reason /\ e.failureReason = b.failureReason
      /\ e.reservationId = b.reservationId
  BY DEF Booking
<1>7. CanBeginTerminalTransition(d, r, "CANCELLED") /\ c = BeginOrCompleteTerminalTransition(d, r, "CANCELLED")
  BY DEF CanCancel, CancelOf
<1> HIDE DEF d, e, c
<1>8. /\ \/ c.status = "CANCELLED"
         \/ c.status = "COMPENSATION_PENDING" /\ c.intendedTerminalStatus = "CANCELLED"
      /\ c.reservationId = b.reservationId /\ c.cancellationReason = r.reason
      /\ c.failureReason = b.failureReason
  BY <1>1, <1>2, <1>5, <1>6, <1>7, TerminalMoves
<1> QED BY <1>1, <1>8 DEF Moves, ReasonsFit, c

\* RecordCompensation leads to the intended status or leaves the booking pending,
\* and records the evidence it was given.
LEMMA RecordCompensationMoves ==
  ASSUME NEW b, Sound(b), ReasonsFit(b), NEW vs, NEW r \in RecordCompensationRequest(vs),
         CanRecordCompensation(b, r)
  PROVE  LET c == RecordCompensationOf(b, r)
         IN  /\ Moves(b, c)
             /\ c.reservationId = b.reservationId
             /\ c.status \in {"COMPENSATION_PENDING", "FAILED", "CANCELLED"}
             /\ r.compensationStatus = "COMPLETED" => c.status \in {"FAILED", "CANCELLED"}
             /\ r.evidence.reservationReleased => c.reservationStatus = "RELEASED"
             /\ r.evidence.paymentRefunded => c.paymentStatus = "REFUNDED"
             /\ r.reason # None => c.compensationReason = r.reason
<1> DEFINE after  == ApplyCompensationEvidence(b, r.evidence)
           action == ResultAction(b, r.evidence)
           reason == IF r.reason # None THEN r.reason ELSE b.compensationReason
           owing  == [after EXCEPT !.compensationReason = reason,
                                   !.compensationAction = action]
           marked == MarkCompensationPending(owing, action)
           closed == [marked EXCEPT !.status                 = b.intendedTerminalStatus,
                                    !.compensationStatus     = "COMPLETED",
                                    !.intendedTerminalStatus = None]
           open   == [marked EXCEPT !.compensationStatus = r.compensationStatus]
           c      == RecordCompensationOf(b, r)
<1>1. /\ b \in Booking /\ r.reason \in Reasons \cup {None} /\ r.evidence \in Evidence
      /\ EvidenceAccepted(b, r.evidence) /\ b.status = "COMPENSATION_PENDING"
      /\ b.intendedTerminalStatus \in {"FAILED", "CANCELLED"}
  BY DEF Sound, RecordCompensationRequest, CanRecordCompensation, EvidenceFitsStatus
<1>2. /\ after \in Booking
      /\ after.status = b.status
      /\ after.intendedTerminalStatus = b.intendedTerminalStatus
      /\ after.reservationId = b.reservationId
      /\ after.failureReason = b.failureReason
      /\ after.cancellationReason = b.cancellationReason
  BY <1>1, EvidenceMakes
<1>3. /\ after.compensationReason = b.compensationReason
      /\ r.evidence.reservationReleased => after.reservationStatus = "RELEASED"
      /\ r.evidence.paymentRefunded => after.paymentStatus = "REFUNDED"
  BY <1>1 DEF ApplyCompensationEvidence, Booking
<1>4. action \in CompensationAction
  BY <1>1, <1>2, RequiredMeans DEF ResultAction, Booking
<1>5. [after EXCEPT !.compensationReason = IF r.reason # None THEN r.reason ELSE @,
                    !.compensationAction = action] = owing
  BY <1>2, <1>3 DEF Booking
<1>6. CompensatedBy(b, r) = marked
  BY <1>5 DEF CompensatedBy
<1>7. c = Touch(IF r.compensationStatus = "COMPLETED" THEN closed ELSE open)
  BY <1>6 DEF RecordCompensationOf
<1>8. reason \in Reasons \cup {None} /\ (r.reason # None => reason = r.reason)
  BY <1>1 DEF Booking
<1> HIDE DEF after, action, reason, c
<1>9. owing \in Booking
  BY <1>2, <1>4, <1>8 DEF Booking
<1>10. /\ owing.status = b.status
       /\ owing.intendedTerminalStatus = b.intendedTerminalStatus
       /\ owing.paymentStatus = after.paymentStatus
       /\ owing.reservationStatus = after.reservationStatus
       /\ owing.reservationId = b.reservationId
       /\ owing.failureReason = b.failureReason
       /\ owing.cancellationReason = b.cancellationReason
       /\ owing.compensationReason = reason
  BY <1>2 DEF Booking
<1> HIDE DEF owing
<1>11. /\ marked \in Booking /\ marked.status = b.status
       /\ marked.intendedTerminalStatus = b.intendedTerminalStatus
       /\ marked.reservationId = b.reservationId
       /\ marked.failureReason = b.failureReason
       /\ marked.cancellationReason = b.cancellationReason
       /\ owing.reservationStatus = "RELEASED" => marked.reservationStatus = "RELEASED"
       /\ owing.paymentStatus = "REFUNDED" => marked.paymentStatus = "REFUNDED"
  BY <1>9, <1>10, MarkMakes
<1>12. marked.compensationReason = reason
  BY <1>9, <1>10 DEF MarkCompensationPending, Booking
<1> HIDE DEF marked
<1>13. /\ c.paymentStatus = marked.paymentStatus
       /\ c.reservationStatus = marked.reservationStatus
       /\ c.reservationId = marked.reservationId
       /\ c.failureReason = marked.failureReason
       /\ c.cancellationReason = marked.cancellationReason
       /\ c.compensationReason = marked.compensationReason
  BY <1>7, <1>11 DEF Touch, Booking
<1>14. /\ \/ /\ c.status = "COMPENSATION_PENDING"
             /\ c.intendedTerminalStatus = b.intendedTerminalStatus
          \/ c.status = b.intendedTerminalStatus
       /\ r.compensationStatus = "COMPLETED" => c.status = b.intendedTerminalStatus
  BY <1>1, <1>7, <1>11 DEF Touch, Booking
<1>15. ReasonsFit(c)
  BY <1>1, <1>11, <1>13, <1>14 DEF ReasonsFit
<1> QED
  BY <1>1, <1>3, <1>8, <1>10, <1>11, <1>12, <1>13, <1>14, <1>15 DEF Moves, c

=============================================================================
