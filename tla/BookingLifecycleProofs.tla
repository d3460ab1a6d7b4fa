----------------------- MODULE BookingLifecycleProofs -----------------------
(***************************************************************************)
(* Proofs about BookingLifecycle, for every value of its constants: its    *)
(* invariants, its history (no command takes back what a booking already   *)
(* records) and its recovery (what a booking records never blocks the      *)
(* commands that finish it).                                               *)
(*                                                                         *)
(* Recovery rests on more than the CHECK constraints: that the evidence    *)
(* statuses were marked when compensation began (RefundIsMarked and its    *)
(* counterpart for releases in Prepared), so that the evidence the         *)
(* reconciliation query asks for is evidence the aggregate accepts.        *)
(*                                                                         *)
(* The last section says what BookingServiceProofs says of the service     *)
(* that MCBooking puts beside the lifecycle.                               *)
(***************************************************************************)
EXTENDS MCBooking, BookingAggregateProofs

-----------------------------------------------------------------------------
(* The invariants of the specification. *)

\* Every stored booking is sound.  TypeOK, ConstraintsHold, NoHiddenCompensation
\* and NoUnsettledClosing are not inductive one by one: a booking closes well
\* because its recorded action was complete and its reason recorded before.
Inv ==
  /\ TypeOK
  /\ \A id \in BookingIds : Exists(id) => Sound(bookings[id])

\* Storing a sound booking keeps the invariant.
LEMMA StoreKeepsInv ==
  ASSUME Inv, NEW id \in BookingIds, NEW b, Sound(b), Store(id, b), UNCHANGED now
  PROVE  Inv'
<1>1. /\ bookings' = [bookings EXCEPT ![id] = b] /\ now' = now
      /\ bookings \in [BookingIds -> Booking \cup {None}] /\ now \in Nat
      /\ b \in Booking
  BY DEF Inv, TypeOK, Store, Sound
<1>2. TypeOK'
  BY <1>1 DEF TypeOK
<1>3. ASSUME NEW x \in BookingIds, bookings'[x] # None
      PROVE  Sound(bookings'[x])
  <2>1. CASE x = id
    BY <1>1, <2>1
  <2>2. CASE x # id
    BY <1>1, <1>3, <2>2 DEF Inv, Exists
  <2> QED BY <2>1, <2>2
<1> QED BY <1>2, <1>3 DEF Inv, Exists

\* Every step keeps the invariant: one case per command.
LEMMA NextKeepsInv ==
  ASSUME Inv, [Next]_vars
  PROVE  Inv'
<1>1. CASE UNCHANGED vars
  BY <1>1 DEF vars, Inv, TypeOK, Exists
<1>2. CASE Tick
  BY <1>2 DEF Tick, Inv, TypeOK, Exists
<1>3. ASSUME NEW id \in BookingIds, NEW d \in Details,
             NEW rid \in ReservationIds \cup {None}, CreateBooking(id, d, rid)
      PROVE  Inv'
  BY <1>3, FromRequestSound, StoreKeepsInv DEF CreateBooking
<1>4. ASSUME NEW id \in BookingIds, Command(id)
      PROVE  Inv'
  <2> DEFINE b  == bookings[id]
             vs == CurrentVersion(id)
  <2> SUFFICES ASSUME Exists(id)
               PROVE  Inv'
    BY <1>4 DEF Command, AttachReservation, ConfirmReservation, StartPayment, RecordPayment,
                AttachTickets, ConfirmBooking, FailBooking, CancelBooking, RecordCompensation
  <2>1. Sound(b)
    BY DEF Inv
  <2> HIDE DEF b, vs
  <2>2. ASSUME NEW r \in AttachReservationRequest(vs), AttachReservation(id, r)
        PROVE  Inv'
    BY <2>1, <2>2, AttachReservationSound, StoreKeepsInv DEF AttachReservation, b
  <2>3. ASSUME NEW r \in ConfirmReservationRequest(vs), ConfirmReservation(id, r)
        PROVE  Inv'
    BY <2>1, <2>3, ConfirmReservationSound, StoreKeepsInv DEF ConfirmReservation, b
  <2>4. ASSUME NEW r \in StartPaymentRequest(vs), StartPayment(id, r)
        PROVE  Inv'
    BY <2>1, <2>4, StartPaymentSound, StoreKeepsInv DEF StartPayment, b
  <2>5. ASSUME NEW r \in RecordPaymentRequest(vs), RecordPayment(id, r)
        PROVE  Inv'
    BY <2>1, <2>5, RecordPaymentSound, StoreKeepsInv DEF RecordPayment, b
  <2>6. ASSUME NEW r \in AttachTicketsRequest(vs), AttachTickets(id, r)
        PROVE  Inv'
    BY <2>1, <2>6, AttachTicketsSound, StoreKeepsInv DEF AttachTickets, b
  <2>7. ASSUME NEW r \in ConfirmBookingRequest(vs), ConfirmBooking(id, r)
        PROVE  Inv'
    BY <2>1, <2>7, ConfirmBookingSound, StoreKeepsInv DEF ConfirmBooking, b
  <2>8. ASSUME NEW r \in FailBookingRequest(vs), FailBooking(id, r)
        PROVE  Inv'
    BY <2>1, <2>8, FailBookingSound, StoreKeepsInv DEF FailBooking, b
  <2>9. ASSUME NEW r \in CancelBookingRequest(vs), CancelBooking(id, r)
        PROVE  Inv'
    BY <2>1, <2>9, CancelBookingSound, StoreKeepsInv DEF CancelBooking, b
  <2>10. ASSUME NEW r \in RecordCompensationRequest(vs), RecordCompensation(id, r)
         PROVE  Inv'
    BY <2>1, <2>10, RecordCompensationSound, StoreKeepsInv DEF RecordCompensation, b
  <2> QED
    BY <1>4, <2>2, <2>3, <2>4, <2>5, <2>6, <2>7, <2>8, <2>9, <2>10 DEF Command, vs
<1> QED BY <1>1, <1>2, <1>3, <1>4 DEF Next

\* Inv holds in every reachable state.
LEMMA InvHolds == Spec => []Inv
<1>1. Init => Inv
  BY DEF Init, Inv, TypeOK, Exists
<1>2. Inv /\ [Next]_vars => Inv'
  BY NextKeepsInv
<1> QED BY <1>1, <1>2, PTL DEF Spec

\* Every command leaves a well-formed row: the fields of a booking keep their
\* types through creation, transition and compensation.
THEOREM TypeCorrect == Spec => []TypeOK
<1>1. Inv => TypeOK
  BY DEF Inv
<1> QED BY <1>1, InvHolds, PTL

\* No sequence of commands, in any order and with any evidence, makes a row the
\* CHECK constraints of table bookings would refuse.
THEOREM ConstraintsAlwaysHold == Spec => []ConstraintsHold
<1>1. Inv => ConstraintsHold
  BY DEF Inv, Sound, ConstraintsHold
<1> QED BY <1>1, InvHolds, PTL

\* The action recorded with a pending compensation always names everything that
\* is still owed.
THEOREM CompensationIsNeverHidden == Spec => []NoHiddenCompensation
<1>1. Inv => NoHiddenCompensation
  BY DEF Inv, Sound, NoHiddenCompensation
<1> QED BY <1>1, InvHolds, PTL

\* A booking is FAILED or CANCELLED only once nothing is owed for it.
THEOREM ClosingIsSettled == Spec => []NoUnsettledClosing
<1>1. Inv => NoUnsettledClosing
  BY DEF Inv, Sound, NoUnsettledClosing
<1> QED BY <1>1, InvHolds, PTL
-----------------------------------------------------------------------------
(* The history of a booking. *)

\* Every stored booking is sound, and its refund is marked while it is owed.
HistoryInv ==
  /\ Inv
  /\ \A id \in BookingIds : Exists(id) => RefundIsMarked(bookings[id])

\* One command on a stored booking continues it.
LEMMA CommandContinues ==
  ASSUME HistoryInv, NEW id \in BookingIds, Command(id)
  PROVE  \E b : Exists(id) /\ Store(id, b) /\ UNCHANGED now /\ Continues(bookings[id], b)
<1> DEFINE b  == bookings[id]
           vs == CurrentVersion(id)
<1> SUFFICES ASSUME Exists(id)
             PROVE  \E n : Store(id, n) /\ UNCHANGED now /\ Continues(b, n)
  BY DEF Command, AttachReservation, ConfirmReservation, StartPayment, RecordPayment,
         AttachTickets, ConfirmBooking, FailBooking, CancelBooking, RecordCompensation
<1>1. Sound(b) /\ RefundIsMarked(b)
  BY DEF HistoryInv, Inv
<1> HIDE DEF b, vs
<1>2. ASSUME NEW r \in AttachReservationRequest(vs), AttachReservation(id, r)
      PROVE  \E n : Store(id, n) /\ UNCHANGED now /\ Continues(b, n)
  BY <1>1, <1>2, AttachReservationContinues DEF AttachReservation, b
<1>3. ASSUME NEW r \in ConfirmReservationRequest(vs), ConfirmReservation(id, r)
      PROVE  \E n : Store(id, n) /\ UNCHANGED now /\ Continues(b, n)
  BY <1>1, <1>3, ConfirmReservationContinues DEF ConfirmReservation, b
<1>4. ASSUME NEW r \in StartPaymentRequest(vs), StartPayment(id, r)
      PROVE  \E n : Store(id, n) /\ UNCHANGED now /\ Continues(b, n)
  BY <1>1, <1>4, StartPaymentContinues DEF StartPayment, b
<1>5. ASSUME NEW r \in RecordPaymentRequest(vs), RecordPayment(id, r)
      PROVE  \E n : Store(id, n) /\ UNCHANGED now /\ Continues(b, n)
  BY <1>1, <1>5, RecordPaymentContinues DEF RecordPayment, b
<1>6. ASSUME NEW r \in AttachTicketsRequest(vs), AttachTickets(id, r)
      PROVE  \E n : Store(id, n) /\ UNCHANGED now /\ Continues(b, n)
  BY <1>1, <1>6, AttachTicketsContinues DEF AttachTickets, b
<1>7. ASSUME NEW r \in ConfirmBookingRequest(vs), ConfirmBooking(id, r)
      PROVE  \E n : Store(id, n) /\ UNCHANGED now /\ Continues(b, n)
  BY <1>1, <1>7, ConfirmBookingContinues DEF ConfirmBooking, b
<1>8. ASSUME NEW r \in FailBookingRequest(vs), FailBooking(id, r)
      PROVE  \E n : Store(id, n) /\ UNCHANGED now /\ Continues(b, n)
  BY <1>1, <1>8, FailBookingContinues DEF FailBooking, b
<1>9. ASSUME NEW r \in CancelBookingRequest(vs), CancelBooking(id, r)
      PROVE  \E n : Store(id, n) /\ UNCHANGED now /\ Continues(b, n)
  BY <1>1, <1>9, CancelBookingContinues DEF CancelBooking, b
<1>10. ASSUME NEW r \in RecordCompensationRequest(vs), RecordCompensation(id, r)
       PROVE  \E n : Store(id, n) /\ UNCHANGED now /\ Continues(b, n)
  BY <1>1, <1>10, RecordCompensationContinues DEF RecordCompensation, b
<1> QED
  BY <1>2, <1>3, <1>4, <1>5, <1>6, <1>7, <1>8, <1>9, <1>10 DEF Command, vs

\* What a step does to any one stored booking.
StepContinues(id) ==
  Exists(id) => \/ bookings'[id] = bookings[id]
                \/ Continues(bookings[id], bookings'[id])

\* Every step leaves a stored booking as it is or continues it, and keeps the
\* invariant.
LEMMA NextContinues ==
  ASSUME HistoryInv, [Next]_vars
  PROVE  /\ HistoryInv'
         /\ \A id \in BookingIds : StepContinues(id)
<1>1. Inv'
  BY NextKeepsInv DEF HistoryInv
<1>2. bookings \in [BookingIds -> Booking \cup {None}]
  BY DEF HistoryInv, Inv, TypeOK
<1>3. CASE bookings' = bookings
  BY <1>1, <1>3 DEF HistoryInv, StepContinues, Exists
<1>4. ASSUME NEW id \in BookingIds, NEW d \in Details,
             NEW rid \in ReservationIds \cup {None}, CreateBooking(id, d, rid)
      PROVE  /\ HistoryInv'
             /\ \A x \in BookingIds : StepContinues(x)
  <2>1. /\ bookings' = [bookings EXCEPT ![id] = FromRequest(d, rid)]
        /\ RefundIsMarked(FromRequest(d, rid)) /\ ~Exists(id)
    BY <1>4 DEF CreateBooking, Store, FromRequest, RefundIsMarked
  <2> QED BY <1>1, <1>2, <2>1 DEF HistoryInv, StepContinues, Exists
<1>5. ASSUME NEW id \in BookingIds, Command(id)
      PROVE  /\ HistoryInv'
             /\ \A x \in BookingIds : StepContinues(x)
  <2>1. PICK b : /\ bookings' = [bookings EXCEPT ![id] = b]
                 /\ Exists(id) /\ Continues(bookings[id], b)
    BY <1>5, CommandContinues DEF Store
  <2>2. RefundIsMarked(b)
    BY <2>1 DEF Continues
  <2> QED BY <1>1, <1>2, <2>1, <2>2 DEF HistoryInv, StepContinues, Exists
<1> QED BY <1>3, <1>4, <1>5 DEF Next, Tick, vars

\* HistoryInv holds in every reachable state.
LEMMA HistoryInvHolds == Spec => []HistoryInv
<1>1. Init => HistoryInv
  BY DEF Init, HistoryInv, Inv, TypeOK, Exists
<1>2. HistoryInv /\ [Next]_vars => HistoryInv'
  BY NextContinues
<1> QED BY <1>1, <1>2, PTL DEF Spec

\* Whichever commands carry it, payment evidence never regresses, recorded
\* identifiers are never exchanged and a closing booking ends as intended.
THEOREM NothingIsEverUndone == Spec => NothingIsUndone
<1> DEFINE Payment == \A id \in BookingIds : Exists(id) =>
                        LET was == bookings[id].paymentStatus
                            is  == bookings'[id].paymentStatus
                        IN  is = was \/ is \in PaymentMayBecome[was]
           Kept    == \A id \in BookingIds : Exists(id) =>
                        LET was == bookings[id]
                            is  == bookings'[id]
                        IN  /\ is = was \/ is.resourceVersion = was.resourceVersion + 1
                            /\ was.reservationId # None => is.reservationId = was.reservationId
                            /\ was.paymentId # None => is.paymentId = was.paymentId
                            /\ was.ticketIds # {} => is.ticketIds = was.ticketIds
                            /\ was.reservationStatus = "RELEASED" =>
                                 is.reservationStatus = "RELEASED"
           Intent  == \A id \in BookingIds : Exists(id) =>
                        LET was == bookings[id]
                            is  == bookings'[id]
                        IN  /\ was.status = "COMPENSATION_PENDING" =>
                                 \/ /\ is.status = "COMPENSATION_PENDING"
                                    /\ is.intendedTerminalStatus = was.intendedTerminalStatus
                                 \/ is.status = was.intendedTerminalStatus
                            /\ was.status = "CONFIRMED" /\ is # was =>
                                 "CANCELLED" \in {is.status, is.intendedTerminalStatus}
                            /\ was.status \in {"FAILED", "CANCELLED"} => is = was
<1>1. HistoryInv /\ [Next]_vars => Payment /\ Kept /\ Intent
  <2> SUFFICES ASSUME HistoryInv, [Next]_vars
               PROVE  Payment /\ Kept /\ Intent
    OBVIOUS
  <2>1. \A id \in BookingIds : StepContinues(id)
    BY NextContinues
  <2>2. Payment
    BY <2>1 DEF StepContinues, Continues, MayFollow
  <2>3. Kept
    BY <2>1 DEF StepContinues, Continues
  <2>4. Intent
    BY <2>1 DEF StepContinues, Continues
  <2> QED BY <2>2, <2>3, <2>4
<1>2. Spec => [][Payment]_vars /\ [][Kept]_vars /\ [][Intent]_vars
  <2> HIDE DEF Payment, Kept, Intent
  <2> QED BY <1>1, HistoryInvHolds, PTL DEF Spec
<1> QED
  BY <1>2 DEF NothingIsUndone, PaymentEvidenceNeverRegresses, EvidenceIsKept, IntentIsKept

-----------------------------------------------------------------------------
(* Recovery. *)

\* What recovery rests on: while a release is owed the reservation says so, only a
\* reservation that was named has an evidence status, and tickets are attached all
\* at once.
Prepared(b) ==
  /\ RefundIsMarked(b)
  /\ b.status = "COMPENSATION_PENDING" /\ b.compensationAction \in ReleaseActions =>
       b.reservationStatus \in {"RELEASE_PENDING", "RELEASED"}
  /\ b.reservationStatus # "PENDING" => b.reservationId # None
  /\ b.ticketIds # {} => Cardinality(b.ticketIds) = ItemCount

\* A new booking is prepared.
LEMMA FromRequestPrepared ==
  ASSUME NEW d, NEW rid
  PROVE  Prepared(FromRequest(d, rid))
BY DEF FromRequest, Prepared, RefundIsMarked

\* The forward commands take a booking that no compensation has begun for.
LEMMA ForwardPrepared ==
  ASSUME NEW b, Sound(b), Prepared(b), NEW vs, NEW t
  PROVE  /\ \A r \in AttachReservationRequest(vs) :
              CanAttachReservation(b, r, t) => Prepared(AttachReservationTo(b, r))
         /\ \A r \in ConfirmReservationRequest(vs) :
              CanConfirmReservation(b, r) => Prepared(ConfirmReservationOf(b, r))
         /\ \A r \in StartPaymentRequest(vs) :
              CanStartPayment(b, r, t) => Prepared(StartPaymentOf(b, r))
         /\ \A r \in AttachTicketsRequest(vs) :
              CanAttachTickets(b, r) => Prepared(AttachTicketsTo(b, r))
         /\ \A r \in ConfirmBookingRequest(vs) :
              CanConfirm(b, r) => Prepared(ConfirmOf(b))
<1>1. ASSUME NEW r \in AttachReservationRequest(vs), CanAttachReservation(b, r, t)
      PROVE  Prepared(AttachReservationTo(b, r))
  BY <1>1, NoneIsNoValue, SMTT(30)
     DEF Sound, Prepared, RefundIsMarked, AttachReservationRequest, CanAttachReservation,
         AttachReservationTo, Touch, Booking
<1>2. ASSUME NEW r \in ConfirmReservationRequest(vs), CanConfirmReservation(b, r)
      PROVE  Prepared(ConfirmReservationOf(b, r))
  BY <1>2, SMTT(30)
     DEF Sound, Prepared, RefundIsMarked, CanConfirmReservation, ConfirmReservationOf,
         Touch, Booking
<1>3. ASSUME NEW r \in StartPaymentRequest(vs), CanStartPayment(b, r, t)
      PROVE  Prepared(StartPaymentOf(b, r))
  BY <1>3, SMTT(30)
     DEF Sound, Prepared, RefundIsMarked, CanStartPayment, StartPaymentOf, Touch, Booking
<1>4. ASSUME NEW r \in AttachTicketsRequest(vs), CanAttachTickets(b, r)
      PROVE  Prepared(AttachTicketsTo(b, r))
  BY <1>4, SMTT(30)
     DEF Sound, Prepared, RefundIsMarked, CanAttachTickets, AttachTicketsTo, Touch, Booking
<1>5. ASSUME NEW r \in ConfirmBookingRequest(vs), CanConfirm(b, r)
      PROVE  Prepared(ConfirmOf(b))
  BY <1>5, SMTT(30)
     DEF Sound, Prepared, RefundIsMarked, CanConfirm, ConfirmOf, Touch, Booking
<1> QED BY <1>1, <1>2, <1>3, <1>4, <1>5

\* RecordPayment marks what the outcome makes owed.
LEMMA RecordPaymentPrepared ==
  ASSUME NEW b, Sound(b), Prepared(b), NEW r, CanRecordPayment(b, r)
  PROVE  Prepared(RecordPaymentOf(b, r))
<1> DEFINE paid   == ApplyPaymentOutcome(b, r)
           action == RequiredCompensationAction(paid)
           owing  == [paid EXCEPT !.compensationAction = action]
           marked == MarkCompensationPending(owing, action)
           c      == RecordPaymentOf(b, r)
<1>1. b \in Booking /\ r.paymentStatus \in PaymentStatus
  BY DEF Sound, CanRecordPayment, PaymentStatus
<1>2. /\ paid \in Booking /\ paid.reservationStatus = b.reservationStatus
      /\ paid.reservationId = b.reservationId /\ paid.ticketIds = b.ticketIds
      /\ paid.status = b.status
  <2>1. paid \in Booking
    BY <1>1, ZenonT(60) DEF ApplyPaymentOutcome, Booking
  <2> QED BY <1>1, <2>1 DEF ApplyPaymentOutcome, Booking
<1>3. c = Touch(IF b.status = "COMPENSATION_PENDING" THEN marked ELSE paid)
  BY DEF RecordPaymentOf
<1>4. RefundIsMarked(c)
  BY RecordPaymentContinues DEF Continues
<1> HIDE DEF paid, c
<1>5. CASE b.status # "COMPENSATION_PENDING"
  BY <1>2, <1>3, <1>4, <1>5 DEF c, Prepared, Touch, Booking
<1>6. CASE b.status = "COMPENSATION_PENDING"
  <2>1. /\ action \in CompensationAction
        /\ action \in ReleaseActions => paid.reservationStatus # "PENDING"
    BY <1>2, RequiredMeans
  <2> HIDE DEF action
  <2>2. /\ owing \in Booking /\ owing.reservationStatus = b.reservationStatus
        /\ owing.reservationId = b.reservationId /\ owing.ticketIds = b.ticketIds
        /\ owing.compensationAction = action
    BY <1>2, <2>1 DEF Booking
  <2> HIDE DEF owing
  <2>3. /\ marked \in Booking /\ marked.reservationId = b.reservationId
        /\ marked.ticketIds = b.ticketIds /\ marked.compensationAction = action
        /\ marked.reservationStatus =
             IF action \in ReleaseActions /\ b.reservationStatus # "RELEASED"
               THEN "RELEASE_PENDING" ELSE b.reservationStatus
    BY <2>2, MarkMakes
  <2> HIDE DEF marked
  <2>4. /\ c.reservationId = b.reservationId /\ c.ticketIds = b.ticketIds
        /\ c.compensationAction = action /\ c.reservationStatus = marked.reservationStatus
    BY <1>3, <1>6, <2>3 DEF Touch, Booking
  <2> QED BY <1>2, <1>4, <2>1, <2>3, <2>4 DEF c, Prepared
<1> QED BY <1>5, <1>6

\* Evidence that is accepted releases no reservation that was never named.
LEMMA EvidenceNamesReservation ==
  ASSUME NEW b \in Booking, NEW e \in Evidence, EvidenceAccepted(b, e),
         b.reservationStatus # "PENDING" => b.reservationId # None
  PROVE  ApplyCompensationEvidence(b, e).reservationStatus # "PENDING" =>
           b.reservationId # None
BY DEF EvidenceAccepted, ApplyCompensationEvidence, Booking

\* _begin_or_complete_terminal_transition marks the release that it leaves owed.
LEMMA TerminalPrepared ==
  ASSUME NEW b \in Booking, NEW r, r.evidence \in Evidence,
         r.compensationStatus \in CompensationStatus \cup {None},
         NEW target \in {"FAILED", "CANCELLED"},
         CanBeginTerminalTransition(b, r, target),
         b.reservationStatus # "PENDING" => b.reservationId # None,
         b.ticketIds # {} => Cardinality(b.ticketIds) = ItemCount
  PROVE  Prepared(BeginOrCompleteTerminalTransition(b, r, target))
<1> DEFINE action == TerminalAction(b, r.evidence)
           after  == ApplyCompensationEvidence(b, r.evidence)
           wanted == RequestedCompensation(b, r)
           c      == BeginOrCompleteTerminalTransition(b, r, target)
<1>1. EvidenceAccepted(b, r.evidence)
  BY DEF CanBeginTerminalTransition
<1>2. /\ after \in Booking /\ after.reservationId = b.reservationId
      /\ after.ticketIds = b.ticketIds
      /\ after.reservationStatus \in {b.reservationStatus, "RELEASED"}
      /\ after.reservationStatus # "PENDING" => b.reservationId # None
  BY <1>1, EvidenceMakes, EvidenceNamesReservation
<1>3. /\ action \in CompensationAction
      /\ action \in ReleaseActions => after.reservationStatus # "PENDING"
  <2>1. CASE RequiredCompensationAction(b) = "RECONCILE_PAYMENT"
    BY <2>1, <1>2, RequiredMeans DEF TerminalAction
  <2>2. CASE RequiredCompensationAction(b) # "RECONCILE_PAYMENT"
    BY <2>2, <1>2, RequiredMeans DEF TerminalAction
  <2> QED BY <2>1, <2>2
<1>4. wanted \in CompensationStatus
  BY DEF RequestedCompensation, CompensationStatus
<1>5. RefundIsMarked(c) /\ c.reservationId = b.reservationId /\ c.ticketIds = b.ticketIds
  BY TerminalFollows
<1>6. CASE wanted = "COMPLETED"
  <2> DEFINE status == IF action = "NONE" THEN "NOT_REQUIRED" ELSE "COMPLETED"
             d      == [after EXCEPT !.status                 = target,
                                     !.compensationStatus     = status,
                                     !.compensationAction     = action,
                                     !.intendedTerminalStatus = None]
  <2>1. c = Touch(d)
    BY <1>6 DEF BeginOrCompleteTerminalTransition
  <2> HIDE DEF after, action, c
  <2>2. d.status = target /\ d.reservationStatus = after.reservationStatus
    BY <1>2 DEF Booking
  <2>3. d \in Booking
    <3>1. target \in BookingStatus /\ status \in CompensationStatus
      BY DEF BookingStatus, CompensationStatus
    <3> QED BY <3>1, <1>2, <1>3, ClosingFields
  <2> HIDE DEF d
  <2>4. c.status = target /\ c.reservationStatus = after.reservationStatus
    BY <2>1, <2>2, <2>3 DEF Touch, Booking
  <2> QED BY <1>2, <1>5, <2>4 DEF c, Prepared
<1>7. CASE wanted # "COMPLETED"
  <2> DEFINE owing  == [after EXCEPT !.status                 = "COMPENSATION_PENDING",
                                     !.compensationStatus     = wanted,
                                     !.compensationAction     = action,
                                     !.intendedTerminalStatus = target]
             marked == MarkCompensationPending(owing, action)
  <2>1. c = Touch(marked)
    BY <1>7 DEF BeginOrCompleteTerminalTransition
  <2> HIDE DEF after, action, wanted, c
  <2>2. owing \in Booking
    <3>1. "COMPENSATION_PENDING" \in BookingStatus /\ target \in {"FAILED", "CANCELLED", None}
      BY DEF BookingStatus
    <3> QED BY <3>1, <1>2, <1>3, <1>4, ClosingFields
  <2>3. owing.compensationAction = action /\ owing.reservationStatus = after.reservationStatus
    BY <1>2 DEF Booking
  <2> HIDE DEF owing
  <2>4. /\ marked \in Booking /\ marked.compensationAction = action
        /\ marked.reservationStatus =
             IF action \in ReleaseActions /\ after.reservationStatus # "RELEASED"
               THEN "RELEASE_PENDING" ELSE after.reservationStatus
    BY <2>2, <2>3, MarkMakes
  <2> HIDE DEF marked
  <2>5. c.compensationAction = action /\ c.reservationStatus = marked.reservationStatus
    BY <2>1, <2>4 DEF Touch, Booking
  <2> QED BY <1>2, <1>3, <1>5, <2>4, <2>5 DEF c, Prepared
<1> QED BY <1>6, <1>7

\* FailBooking leaves a prepared booking.
LEMMA FailBookingPrepared ==
  ASSUME NEW b, Sound(b), Prepared(b), NEW vs, NEW r \in FailBookingRequest(vs),
         CanFail(b, r)
  PROVE  Prepared(FailOf(b, r))
<1> DEFINE d == WithFailureReason(b, r)
<1>1. /\ b \in Booking /\ r.reason \in Reasons /\ r.evidence \in Evidence
      /\ r.compensationStatus \in CompensationStatus \cup {None}
  BY DEF Sound, FailBookingRequest
<1>2. /\ d \in Booking /\ d.reservationId = b.reservationId /\ d.ticketIds = b.ticketIds
      /\ d.reservationStatus = b.reservationStatus
  BY <1>1 DEF WithFailureReason, Booking
<1>3. CanBeginTerminalTransition(d, r, "FAILED")
  BY DEF CanFail
<1>4. FailOf(b, r) = BeginOrCompleteTerminalTransition(d, r, "FAILED")
  BY DEF FailOf
<1> HIDE DEF d
<1> QED BY <1>1, <1>2, <1>3, <1>4, TerminalPrepared DEF Prepared

\* CancelBooking leaves a prepared booking.
LEMMA CancelBookingPrepared ==
  ASSUME NEW b, Sound(b), Prepared(b), NEW vs, NEW r \in CancelBookingRequest(vs),
         CanCancel(b, r)
  PROVE  Prepared(CancelOf(b, r))
<1> DEFINE d    == ApplyCancelPaymentStatus(b, r)
           paid == IF r.paymentStatus # None THEN r.paymentStatus ELSE b.paymentStatus
           flag == b.paymentRecorded \/ r.paymentStatus # None
           e    == [b EXCEPT !.cancellationReason = r.reason, !.paymentStatus = paid,
                             !.paymentRecorded = flag]
<1>1. /\ b \in Booking /\ r.reason \in Reasons /\ r.evidence \in Evidence
      /\ r.compensationStatus \in CompensationStatus \cup {None}
      /\ r.paymentStatus \in PaymentStatus \cup {None}
  BY DEF Sound, CancelBookingRequest
<1>2. paid \in PaymentStatus
  BY <1>1 DEF Booking
<1>3. flag \in BOOLEAN
  OBVIOUS
<1>4. d = e
  BY <1>1 DEF ApplyCancelPaymentStatus, Booking
<1> HIDE DEF paid, flag
<1>5. e \in Booking
  BY <1>1, <1>2, <1>3 DEF Booking
<1>6. /\ e.reservationId = b.reservationId /\ e.ticketIds = b.ticketIds
      /\ e.reservationStatus = b.reservationStatus
  BY <1>1 DEF Booking
<1>7. CanBeginTerminalTransition(d, r, "CANCELLED")
  BY DEF CanCancel
<1>8. CancelOf(b, r) = BeginOrCompleteTerminalTransition(d, r, "CANCELLED")
  BY DEF CancelOf
<1> HIDE DEF d, e
<1> QED BY <1>1, <1>4, <1>5, <1>6, <1>7, <1>8, TerminalPrepared DEF Prepared

\* RecordCompensation marks the release again when the action was re-derived.
LEMMA RecordCompensationPrepared ==
  ASSUME NEW b, Sound(b), Prepared(b), NEW vs,
         NEW r \in RecordCompensationRequest(vs), CanRecordCompensation(b, r)
  PROVE  Prepared(RecordCompensationOf(b, r))
<1> DEFINE after  == ApplyCompensationEvidence(b, r.evidence)
           action == ResultAction(b, r.evidence)
           reason == IF r.reason # None THEN r.reason ELSE b.compensationReason
           owing  == [after EXCEPT !.compensationReason = reason,
                                   !.compensationAction = action]
           marked == MarkCompensationPending(owing, action)
           closed == [marked EXCEPT !.status                 = b.intendedTerminalStatus,
                                    !.compensationStatus     = "COMPLETED",
                                    !.intendedTerminalStatus = None]
           open   == [marked EXCEPT !.compensationStatus = r.compensationStatus]
           c      == RecordCompensationOf(b, r)
<1>1. /\ b \in Booking /\ r.reason \in Reasons \cup {None} /\ r.evidence \in Evidence
      /\ EvidenceAccepted(b, r.evidence) /\ b.status = "COMPENSATION_PENDING"
  BY DEF Sound, RecordCompensationRequest, CanRecordCompensation
<1>2. /\ after \in Booking /\ after.reservationId = b.reservationId
      /\ after.ticketIds = b.ticketIds
      /\ after.reservationStatus \in {b.reservationStatus, "RELEASED"}
      /\ after.reservationStatus # "PENDING" => b.reservationId # None
  BY <1>1, EvidenceMakes, EvidenceNamesReservation DEF Prepared
<1>3. after.compensationReason = b.compensationReason
  BY <1>1 DEF ApplyCompensationEvidence, Booking
<1>4. /\ action \in CompensationAction
      /\ action \in ReleaseActions => after.reservationStatus # "PENDING"
  <2>1. CASE b.compensationAction = "RECONCILE_PAYMENT"
    BY <2>1, <1>2, RequiredMeans DEF ResultAction
  <2>2. CASE b.compensationAction # "RECONCILE_PAYMENT"
    <3>1. action = b.compensationAction
      BY <2>2 DEF ResultAction
    <3> QED BY <3>1, <1>1, <1>2 DEF Prepared, Booking
  <2> QED BY <2>1, <2>2
<1>5. [after EXCEPT !.compensationReason = IF r.reason # None THEN r.reason ELSE @,
                    !.compensationAction = action] = owing
  BY <1>2, <1>3 DEF Booking
<1>6. CompensatedBy(b, r) = marked
  BY <1>5 DEF CompensatedBy
<1>7. c = Touch(IF r.compensationStatus = "COMPLETED" THEN closed ELSE open)
  BY <1>6 DEF RecordCompensationOf
<1>8. reason \in Reasons \cup {None}
  BY <1>1 DEF Booking
<1>9. RefundIsMarked(c)
  BY RecordCompensationContinues DEF Prepared, Continues
<1> HIDE DEF after, action, reason, c
<1>10. /\ owing \in Booking /\ owing.compensationAction = action
       /\ owing.reservationStatus = after.reservationStatus
       /\ owing.reservationId = b.reservationId /\ owing.ticketIds = b.ticketIds
  BY ZenonT(60), <1>2, <1>4, <1>8 DEF Booking
<1> HIDE DEF owing
<1>11. /\ marked \in Booking /\ marked.compensationAction = action
       /\ marked.reservationId = b.reservationId /\ marked.ticketIds = b.ticketIds
       /\ marked.reservationStatus =
            IF action \in ReleaseActions /\ after.reservationStatus # "RELEASED"
              THEN "RELEASE_PENDING" ELSE after.reservationStatus
  BY <1>10, MarkMakes
<1> HIDE DEF marked
<1>12. /\ c.compensationAction = action /\ c.reservationStatus = marked.reservationStatus
       /\ c.reservationId = b.reservationId /\ c.ticketIds = b.ticketIds
  BY <1>7, <1>11 DEF Touch, Booking
<1> QED BY <1>2, <1>4, <1>9, <1>11, <1>12 DEF Prepared, c

\* The inductive invariant for recovery.
RecoveryInv ==
  /\ HistoryInv
  /\ \A id \in BookingIds : Exists(id) => Prepared(bookings[id])

\* Every command leaves a prepared booking.
LEMMA CommandPrepares ==
  ASSUME RecoveryInv, NEW id \in BookingIds, Command(id)
  PROVE  \E b : Store(id, b) /\ Prepared(b)
<1> DEFINE b  == bookings[id]
           vs == CurrentVersion(id)
<1> SUFFICES ASSUME Exists(id) PROVE \E n : Store(id, n) /\ Prepared(n)
  BY DEF Command, AttachReservation, ConfirmReservation, StartPayment, RecordPayment,
         AttachTickets, ConfirmBooking, FailBooking, CancelBooking, RecordCompensation
<1>1. Sound(b) /\ Prepared(b)
  BY DEF RecoveryInv, HistoryInv, Inv
<1> HIDE DEF b, vs
<1>2. ASSUME NEW r \in AttachReservationRequest(vs), AttachReservation(id, r)
      PROVE  \E n : Store(id, n) /\ Prepared(n)
  BY <1>1, <1>2, ForwardPrepared DEF AttachReservation, b
<1>3. ASSUME NEW r \in ConfirmReservationRequest(vs), ConfirmReservation(id, r)
      PROVE  \E n : Store(id, n) /\ Prepared(n)
  BY <1>1, <1>3, ForwardPrepared DEF ConfirmReservation, b
<1>4. ASSUME NEW r \in StartPaymentRequest(vs), StartPayment(id, r)
      PROVE  \E n : Store(id, n) /\ Prepared(n)
  BY <1>1, <1>4, ForwardPrepared DEF StartPayment, b
<1>5. ASSUME NEW r \in RecordPaymentRequest(vs), RecordPayment(id, r)
      PROVE  \E n : Store(id, n) /\ Prepared(n)
  BY <1>1, <1>5, RecordPaymentPrepared DEF RecordPayment, b
<1>6. ASSUME NEW r \in AttachTicketsRequest(vs), AttachTickets(id, r)
      PROVE  \E n : Store(id, n) /\ Prepared(n)
  BY <1>1, <1>6, ForwardPrepared DEF AttachTickets, b
<1>7. ASSUME NEW r \in ConfirmBookingRequest(vs), ConfirmBooking(id, r)
      PROVE  \E n : Store(id, n) /\ Prepared(n)
  BY <1>1, <1>7, ForwardPrepared DEF ConfirmBooking, b
<1>8. ASSUME NEW r \in FailBookingRequest(vs), FailBooking(id, r)
      PROVE  \E n : Store(id, n) /\ Prepared(n)
  BY <1>1, <1>8, FailBookingPrepared DEF FailBooking, b
<1>9. ASSUME NEW r \in CancelBookingRequest(vs), CancelBooking(id, r)
      PROVE  \E n : Store(id, n) /\ Prepared(n)
  BY <1>1, <1>9, CancelBookingPrepared DEF CancelBooking, b
<1>10. ASSUME NEW r \in RecordCompensationRequest(vs), RecordCompensation(id, r)
       PROVE  \E n : Store(id, n) /\ Prepared(n)
  BY <1>1, <1>10, RecordCompensationPrepared DEF RecordCompensation, b
<1> QED
  BY <1>2, <1>3, <1>4, <1>5, <1>6, <1>7, <1>8, <1>9, <1>10 DEF Command, vs

\* RecoveryInv holds in every reachable state.
LEMMA RecoveryInvHolds == Spec => []RecoveryInv
<1>1. Init => RecoveryInv
  BY DEF Init, RecoveryInv, HistoryInv, Inv, TypeOK, Exists
<1>2. RecoveryInv /\ [Next]_vars => RecoveryInv'
  <2> SUFFICES ASSUME RecoveryInv, [Next]_vars PROVE RecoveryInv'
    OBVIOUS
  <2>1. HistoryInv' /\ bookings \in [BookingIds -> Booking \cup {None}]
    BY NextContinues DEF RecoveryInv, HistoryInv, Inv, TypeOK
  <2>2. CASE bookings' = bookings
    BY <2>1, <2>2 DEF RecoveryInv, Exists
  <2>3. ASSUME NEW id \in BookingIds, NEW b, Store(id, b), Prepared(b)
        PROVE  RecoveryInv'
    BY <2>1, <2>3 DEF RecoveryInv, Store, Exists
  <2>4. ASSUME NEW id \in BookingIds, NEW d \in Details,
               NEW rid \in ReservationIds \cup {None}, CreateBooking(id, d, rid)
        PROVE  RecoveryInv'
    BY <2>3, <2>4, FromRequestPrepared DEF CreateBooking
  <2>5. ASSUME NEW id \in BookingIds, Command(id) PROVE RecoveryInv'
    BY <2>3, <2>5, CommandPrepares
  <2> QED BY <2>2, <2>4, <2>5 DEF Next, Tick, vars
<1> QED BY <1>1, <1>2, PTL DEF Spec

\* Evidence that settles everything owed completes the compensation.
LEMMA EvidenceCompletes ==
  ASSUME NEW b, Sound(b), Prepared(b), b.status = "COMPENSATION_PENDING",
         NEW e \in Evidence, EvidenceAccepted(b, e),
         b.compensationAction = "RECONCILE_PAYMENT" =>
           RequiredCompensationAction(ApplyCompensationEvidence(b, e)) = "NONE",
         b.compensationAction \in ReleaseActions =>
           e.reservationReleased \/ b.reservationStatus = "RELEASED",
         b.compensationAction \in RefundActions =>
           e.paymentRefunded \/ b.paymentStatus = "REFUNDED"
  PROVE  CanRecordCompensation(b, [expectedVersion    |-> b.resourceVersion,
                                   reason             |-> None,
                                   compensationStatus |-> "COMPLETED",
                                   evidence           |-> e])
<1> DEFINE r      == [expectedVersion    |-> b.resourceVersion, reason |-> None,
                      compensationStatus |-> "COMPLETED", evidence |-> e]
           after  == ApplyCompensationEvidence(b, e)
           action == ResultAction(b, e)
           owing  == [after EXCEPT !.compensationReason = @, !.compensationAction = action]
           marked == MarkCompensationPending(owing, action)
<1>1. b \in Booking /\ b.intendedTerminalStatus \in {"FAILED", "CANCELLED"}
  BY DEF Sound, EvidenceFitsStatus
<1>2. after \in Booking
  BY <1>1, EvidenceMakes
<1>3. /\ after.reservationStatus =
           IF e.reservationReleased THEN "RELEASED" ELSE b.reservationStatus
      /\ after.paymentStatus =
           IF e.paymentRefunded THEN "REFUNDED" ELSE ResolvedPayment(b, e)
  BY <1>1 DEF ApplyCompensationEvidence, Booking
<1>4. action \in CompensationAction
  BY <1>1, <1>2, RequiredMeans DEF ResultAction, Booking
<1>5. CompensatedBy(b, r) = marked
  BY DEF CompensatedBy
<1>6. /\ action # "RECONCILE_PAYMENT"
      /\ action \in ReleaseActions => after.reservationStatus = "RELEASED"
      /\ action \in RefundActions => after.paymentStatus = "REFUNDED"
  <2>1. CASE b.compensationAction = "RECONCILE_PAYMENT"
    BY <2>1 DEF ResultAction, ReleaseActions, RefundActions
  <2>2. CASE b.compensationAction # "RECONCILE_PAYMENT"
    <3>1. action = b.compensationAction
      BY <2>2 DEF ResultAction
    <3>2. b.paymentStatus = "REFUNDED" => ResolvedPayment(b, e) = "REFUNDED"
      BY DEF EvidenceAccepted, ResolvedPayment, UnsettledPayment
    <3> QED BY <1>3, <2>2, <3>1, <3>2
  <2> QED BY <2>1, <2>2
<1> HIDE DEF after, action
<1>7. /\ owing \in Booking /\ owing.paymentStatus = after.paymentStatus
      /\ owing.reservationStatus = after.reservationStatus
  BY ZenonT(60), <1>2, <1>4 DEF Booking
<1> HIDE DEF owing
<1>8. /\ marked.reservationStatus =
           IF action \in ReleaseActions /\ owing.reservationStatus # "RELEASED"
             THEN "RELEASE_PENDING" ELSE owing.reservationStatus
      /\ marked.paymentStatus =
           IF action \in RefundActions /\ owing.paymentStatus # "REFUNDED"
             THEN "REFUND_PENDING" ELSE owing.paymentStatus
  BY <1>7, MarkMakes
<1> HIDE DEF marked
<1>9. CompensationRequirementsSatisfied(marked, action)
  BY <1>6, <1>7, <1>8 DEF CompensationRequirementsSatisfied
<1>10. b.intendedTerminalStatus \in AllowedTransitions[b.status]
  BY <1>1 DEF AllowedTransitions, BookingStatus
<1>11. CompensationRequirementsSatisfied(CompensatedBy(b, r), ResultAction(b, r.evidence))
  BY <1>5, <1>9 DEF action
<1> QED BY <1>10, <1>11 DEF CanRecordCompensation

\* A pending compensation can be completed unless its refund names no payment: by
\* evidence that the open payment failed, or that the captured one was refunded.
LEMMA CompensationCompletes ==
  ASSUME NEW b, Sound(b), Prepared(b), b.status = "COMPENSATION_PENDING",
         ~RefundLacksPayment(b)
  PROVE  CanComplete(b)
<1>1. b \in Booking
  BY DEF Sound
<1>2. CASE b.paymentStatus \in UnsettledPayment
  <2> DEFINE e == [resolvedPaymentStatus |-> "FAILED",
                   reservationReleased   |-> b.reservationId # None,
                   paymentRefunded       |-> FALSE]
             after == ApplyCompensationEvidence(b, e)
  <2>1. e \in Evidence
    BY DEF Evidence
  <2>2. EvidenceAccepted(b, e)
    BY <1>2 DEF EvidenceAccepted
  <2>3. after.paymentStatus = "FAILED" /\ after.reservationStatus \in {"RELEASED", "PENDING"}
    <3>1. /\ e.resolvedPaymentStatus = "FAILED" /\ ~e.paymentRefunded
          /\ e.reservationReleased <=> b.reservationId # None
      OBVIOUS
    <3> HIDE DEF e
    <3>2. "FAILED" # None
      BY NoneIsNoPaymentStatus DEF PaymentStatus
    <3>3. ResolvedPayment(b, e) = "FAILED"
      BY <3>1, <3>2 DEF ResolvedPayment
    <3> QED BY <1>1, <3>1, <3>3 DEF ApplyCompensationEvidence, Prepared, Booking
  <2>4. RequiredCompensationAction(after) = "NONE"
    BY <2>3 DEF RequiredCompensationAction, UnsettledPayment
  <2>5. b.compensationAction = "RECONCILE_PAYMENT"
    BY <1>1, <1>2, RequiredMeans DEF Sound, OwedWorkIsRecorded
  <2> HIDE DEF e
  <2> QED BY <2>1, <2>2, <2>4, <2>5, EvidenceCompletes
       DEF CanComplete, ReleaseActions, RefundActions
<1>3. CASE b.paymentStatus \notin UnsettledPayment
  <2> DEFINE e == [resolvedPaymentStatus |-> None,
                   reservationReleased   |-> b.compensationAction \in ReleaseActions,
                   paymentRefunded       |-> /\ b.compensationAction \in RefundActions
                                             /\ b.paymentStatus # "REFUNDED"]
  <2>1. e \in Evidence
    BY DEF Evidence
  <2>2. /\ e.resolvedPaymentStatus = None
        /\ e.reservationReleased <=> b.compensationAction \in ReleaseActions
        /\ e.paymentRefunded <=> /\ b.compensationAction \in RefundActions
                                 /\ b.paymentStatus # "REFUNDED"
    OBVIOUS
  <2> HIDE DEF e
  <2>3. e.paymentRefunded => b.paymentId # None
    BY <2>2 DEF RefundLacksPayment, MissingCompensation
  <2>4. EvidenceAccepted(b, e)
    BY <2>2, <2>3 DEF EvidenceAccepted, ResolvedPayment, Prepared, RefundIsMarked
  <2>5. b.compensationAction # "RECONCILE_PAYMENT"
    BY <1>1, <1>3, RequiredMeans DEF Sound, OwedWorkIsRecorded
  <2> QED BY <2>1, <2>2, <2>4, <2>5, EvidenceCompletes DEF CanComplete
<1> QED BY <1>2, <1>3

\* And it cannot while the refund names no payment, whatever evidence is brought:
\* the refund is marked, so nothing but a refund settles it, and a refund without
\* a payment is not accepted.
LEMMA RefundWithoutPaymentStops ==
  ASSUME NEW b, Sound(b), Prepared(b), b.status = "COMPENSATION_PENDING",
         RefundLacksPayment(b), NEW e \in Evidence
  PROVE  ~CanRecordCompensation(b, [expectedVersion    |-> b.resourceVersion,
                                    reason             |-> None,
                                    compensationStatus |-> "COMPLETED",
                                    evidence           |-> e])
<1> DEFINE r == [expectedVersion    |-> b.resourceVersion, reason |-> None,
                 compensationStatus |-> "COMPLETED", evidence |-> e]
           after == ApplyCompensationEvidence(b, e)
           owing == [after EXCEPT !.compensationReason = @,
                                  !.compensationAction = b.compensationAction]
<1>1. /\ b \in Booking /\ b.paymentId = None
      /\ b.compensationAction \in RefundActions /\ b.paymentStatus = "REFUND_PENDING"
  BY DEF Sound, RefundLacksPayment, MissingCompensation, Prepared, RefundIsMarked
<1> SUFFICES ASSUME CanRecordCompensation(b, r) PROVE FALSE
  OBVIOUS
<1>2. /\ EvidenceAccepted(b, e)
      /\ CompensationRequirementsSatisfied(CompensatedBy(b, r), ResultAction(b, e))
  BY DEF CanRecordCompensation
<1>3. ResultAction(b, e) = b.compensationAction
  BY <1>1 DEF ResultAction, RefundActions
<1>4. ~e.paymentRefunded /\ e.resolvedPaymentStatus = None
  BY <1>1, <1>2 DEF EvidenceAccepted, Evidence, UnsettledPayment
<1>5. after \in Booking /\ after.paymentStatus = "REFUND_PENDING"
  <2>1. after \in Booking
    BY <1>1, <1>2, EvidenceMakes
  <2> QED BY <1>1, <1>4, <2>1 DEF ApplyCompensationEvidence, ResolvedPayment, Booking
<1>6. CompensatedBy(b, r) = MarkCompensationPending(owing, b.compensationAction)
  BY <1>3 DEF CompensatedBy
<1> HIDE DEF after
<1>7. b.compensationAction \in CompensationAction
  BY <1>1 DEF Booking
<1>8. owing \in Booking /\ owing.paymentStatus = "REFUND_PENDING"
  BY ZenonT(60), <1>5, <1>7 DEF Booking
<1> HIDE DEF owing
<1>9. MarkCompensationPending(owing, b.compensationAction).paymentStatus = "REFUND_PENDING"
  BY <1>1, <1>8, MarkMakes
<1> QED BY <1>1, <1>2, <1>3, <1>6, <1>9 DEF CompensationRequirementsSatisfied

\* The step that the reconciliation query recommends is accepted, but for the
\* bookings listed.
LEMMA AdviceAccepted ==
  ASSUME NEW b, Sound(b), Prepared(b), now \in Nat, ReservationIds # {},
         ~AdviceIsRefused(b)
  PROVE  AdviceIsAccepted(b)
<1> DEFINE v == b.resourceVersion
<1>1. b \in Booking /\ EvidenceFitsStatus(b) /\ OwedWorkIsRecorded(b) /\ v \in Nat
  BY DEF Sound, Booking
<1>2. ASSUME RecoveryAction(b) = "ATTACH_RESERVATION"
      PROVE  \E r \in AttachReservationRequest({v}) : CanAttachReservation(b, r, now)
  <2>1. b.status \in {"PENDING", "SEAT_RESERVED"}
    BY <1>1, <1>2 DEF RecoveryAction, PaymentRecovery, Booking, BookingStatus
  <2>2. PICK rid \in ReservationIds : b.reservationId \in {None, rid}
    BY <1>1 DEF Booking
  <2> DEFINE r == [expectedVersion |-> v, reservationId |-> rid, expiresAt |-> None,
                   reservationVersion |-> None, confirmed |-> TRUE]
  <2>3. r \in AttachReservationRequest({v})
    BY DEF AttachReservationRequest
  <2>4. CanAttachReservation(b, r, now)
    BY <2>1, <2>2 DEF CanAttachReservation
  <2> QED BY <2>3, <2>4
<1>3. ASSUME RecoveryAction(b) = "START_PAYMENT", NEW p \in PaymentIds
      PROVE  CanStartPayment(b, [expectedVersion |-> v, paymentId |-> p], now)
  <2>1. b.status = "SEAT_RESERVED"
    BY <1>1, <1>3 DEF RecoveryAction, PaymentRecovery, Booking, BookingStatus
  <2>2. /\ b.paymentStatus = "PENDING"
        /\ b.reservationStatus \in {"RESERVED", "CONFIRMED"}
    BY <1>1, <2>1 DEF EvidenceFitsStatus
  <2>3. ~(/\ b.reservationStatus = "RESERVED" /\ b.reservationExpiresAt # None
          /\ b.reservationExpiresAt <= now)
    BY <1>3 DEF AdviceIsRefused
  <2>4. "PAYMENT_PROCESSING" \in AllowedTransitions["SEAT_RESERVED"]
    BY DEF AllowedTransitions, BookingStatus
  <2> QED BY <1>3, <2>1, <2>2, <2>3, <2>4 DEF CanStartPayment
<1>4. ASSUME RecoveryAction(b) \in {"QUERY_PAYMENT", "RECONCILE_PAYMENT"}
      PROVE  \E p \in PaymentIds : \A s \in {"SUCCEEDED", "FAILED", "UNKNOWN"} :
               CanRecordPayment(b, [expectedVersion |-> v, paymentId |-> p,
                                    paymentStatus |-> s])
  <2>1. /\ b.status \in {"PAYMENT_PROCESSING", "COMPENSATION_PENDING"}
        /\ b.paymentStatus \in UnsettledPayment
    BY <1>1, <1>4
       DEF RecoveryAction, PaymentRecovery, Booking, BookingStatus, EvidenceFitsStatus,
           UnsettledPayment
  <2>2. RecoveryAction(b) = "QUERY_PAYMENT" => b.status = "PAYMENT_PROCESSING"
    BY <1>1 DEF RecoveryAction, PaymentRecovery, Booking, BookingStatus
  <2>3. b.paymentId \in PaymentIds
    BY <1>1, <1>4, <2>2 DEF EvidenceFitsStatus, AdviceIsRefused, Booking
  <2>4. ASSUME NEW s \in {"SUCCEEDED", "FAILED", "UNKNOWN"}
        PROVE  CanRecordPayment(b, [expectedVersion |-> v, paymentId |-> b.paymentId,
                                    paymentStatus |-> s])
    BY <2>1 DEF CanRecordPayment
  <2> QED BY <2>3, <2>4
<1>5. ASSUME RecoveryAction(b) = "RELEASE_RESERVATION_AND_FAIL", NEW reason \in Reasons
      PROVE  CanFail(b, [expectedVersion |-> v, reason |-> reason,
                         compensationStatus |-> "COMPLETED",
                         evidence |-> [resolvedPaymentStatus |-> None,
                                       reservationReleased |-> TRUE,
                                       paymentRefunded |-> FALSE]])
  <2> DEFINE e == [resolvedPaymentStatus |-> None, reservationReleased |-> TRUE,
                   paymentRefunded |-> FALSE]
             r == [expectedVersion |-> v, reason |-> reason,
                   compensationStatus |-> "COMPLETED", evidence |-> e]
             d == WithFailureReason(b, r)
  <2>1. b.status = "PAYMENT_PROCESSING" /\ b.paymentStatus = "FAILED"
    BY <1>1, <1>5 DEF RecoveryAction, PaymentRecovery, Booking, BookingStatus
  <2>2. b.reservationId # None /\ b.reservationStatus \in {"RESERVED", "CONFIRMED"}
    BY <1>1, <2>1 DEF EvidenceFitsStatus
  <2>3. /\ d.status = b.status /\ d.paymentStatus = "FAILED"
        /\ d.reservationStatus = b.reservationStatus /\ d.reservationId = b.reservationId
        /\ d \in Booking
    BY <1>1, <2>1 DEF WithFailureReason, Booking
  <2>4. e.resolvedPaymentStatus = None /\ e.reservationReleased /\ ~e.paymentRefunded
    OBVIOUS
  <2> HIDE DEF d, e
  <2>5. EvidenceAccepted(d, e)
    BY <2>2, <2>3, <2>4 DEF EvidenceAccepted
  <2>6. TerminalAction(d, e) = "RELEASE_RESERVATION"
    BY <2>2, <2>3 DEF TerminalAction, RequiredCompensationAction, UnsettledPayment
  <2>7. ApplyCompensationEvidence(d, e).reservationStatus = "RELEASED"
    BY <2>3, <2>4 DEF ApplyCompensationEvidence, Booking
  <2>8. CompensationRequirementsSatisfied(ApplyCompensationEvidence(d, e),
                                          TerminalAction(d, e))
    BY <2>6, <2>7 DEF CompensationRequirementsSatisfied, RefundActions
  <2>9. "FAILED" \in AllowedTransitions[d.status]
    BY <2>1, <2>3 DEF AllowedTransitions, BookingStatus
  <2>10. r.evidence = e /\ r.compensationStatus = "COMPLETED" /\ r.expectedVersion = v
    OBVIOUS
  <2>11. RequestedCompensation(d, r) = "COMPLETED"
    BY <2>8, <2>10 DEF RequestedCompensation
  <2>12. CanBeginTerminalTransition(d, r, "FAILED")
    BY <2>5, <2>8, <2>9, <2>10, <2>11 DEF CanBeginTerminalTransition
  <2>13. CanFail(b, r)
    BY <2>1, <2>10, <2>12 DEF CanFail, ActiveBookingStatuses, d
  <2> QED BY <2>13 DEF e
<1>6. ASSUME RecoveryAction(b) = "CONFIRM_RESERVATION"
      PROVE  CanConfirmReservation(b, [expectedVersion |-> v,
                                       reservationId |-> b.reservationId,
                                       reservationVersion |-> None])
  <2>1. b.status = "PAYMENT_PROCESSING" /\ b.paymentStatus = "SUCCEEDED"
    BY <1>1, <1>6 DEF RecoveryAction, PaymentRecovery, Booking, BookingStatus
  <2> QED BY <1>1, <2>1 DEF EvidenceFitsStatus, CanConfirmReservation
<1>7. ASSUME RecoveryAction(b) = "ISSUE_TICKETS",
             NEW t \in SUBSET TicketIds, Cardinality(t) = ItemCount
      PROVE  CanAttachTickets(b, [expectedVersion |-> v, ticketIds |-> t])
  <2>1. /\ b.status = "PAYMENT_PROCESSING" /\ b.paymentStatus = "SUCCEEDED"
        /\ b.reservationStatus = "CONFIRMED" /\ b.ticketIds = {}
    BY <1>1, <1>7 DEF RecoveryAction, PaymentRecovery, Booking, BookingStatus
  <2> QED BY <1>7, <2>1 DEF CanAttachTickets
<1>8. ASSUME RecoveryAction(b) = "CONFIRM_BOOKING"
      PROVE  CanConfirm(b, [expectedVersion |-> v])
  <2>1. /\ b.status = "PAYMENT_PROCESSING" /\ b.paymentStatus = "SUCCEEDED"
        /\ b.reservationStatus = "CONFIRMED" /\ b.ticketIds # {}
    BY <1>1, <1>8 DEF RecoveryAction, PaymentRecovery, Booking, BookingStatus
  <2>2. "CONFIRMED" \in AllowedTransitions["PAYMENT_PROCESSING"]
    BY DEF AllowedTransitions, BookingStatus
  <2> QED BY <1>1, <2>1, <2>2 DEF EvidenceFitsStatus, Prepared, CanConfirm
<1>9. ASSUME RecoveryAction(b) = "COMPLETE_COMPENSATION"
      PROVE  CanRecordCompensation(b,
               [expectedVersion |-> v, reason |-> None, compensationStatus |-> "COMPLETED",
                evidence |->
                  [resolvedPaymentStatus |-> None,
                   reservationReleased   |-> "RESERVATION_RELEASE" \in MissingCompensation(b),
                   paymentRefunded       |-> "PAYMENT_REFUND" \in MissingCompensation(b)]])
  <2> DEFINE e == [resolvedPaymentStatus |-> None,
                   reservationReleased   |-> "RESERVATION_RELEASE" \in MissingCompensation(b),
                   paymentRefunded       |-> "PAYMENT_REFUND" \in MissingCompensation(b)]
  <2>1. b.status = "COMPENSATION_PENDING" /\ b.paymentStatus \notin UnsettledPayment
    BY <1>1, <1>9
       DEF RecoveryAction, PaymentRecovery, Booking, BookingStatus, UnsettledPayment,
           AdviceIsRefused
  <2>2. /\ e.resolvedPaymentStatus = None /\ e \in Evidence
        /\ e.reservationReleased <=> /\ b.compensationAction \in ReleaseActions
                                     /\ b.reservationStatus # "RELEASED"
        /\ e.paymentRefunded <=> /\ b.compensationAction \in RefundActions
                                 /\ b.paymentStatus # "REFUNDED"
    <3>1. /\ e.reservationReleased <=> "RESERVATION_RELEASE" \in MissingCompensation(b)
          /\ e.paymentRefunded <=> "PAYMENT_REFUND" \in MissingCompensation(b)
          /\ e.resolvedPaymentStatus = None
      OBVIOUS
    <3>2. e \in Evidence
      BY DEF Evidence
    <3> HIDE DEF e
    <3> QED BY <3>1, <3>2 DEF MissingCompensation
  <2>3. e.paymentRefunded => b.paymentId # None
    BY <1>9 DEF AdviceIsRefused, RefundLacksPayment
  <2> HIDE DEF e
  <2>4. EvidenceAccepted(b, e)
    BY <2>1, <2>2, <2>3 DEF EvidenceAccepted, ResolvedPayment, Prepared, RefundIsMarked
  <2>5. b.compensationAction # "RECONCILE_PAYMENT"
    BY <1>1, <2>1, RequiredMeans DEF OwedWorkIsRecorded
  <2>6. CanRecordCompensation(b, [expectedVersion |-> v, reason |-> None,
                                  compensationStatus |-> "COMPLETED", evidence |-> e])
    BY <2>1, <2>2, <2>4, <2>5, EvidenceCompletes
  <2> QED BY <2>6 DEF e
<1> QED BY <1>2, <1>3, <1>4, <1>5, <1>6, <1>7, <1>8, <1>9 DEF AdviceIsAccepted

\* And to the bookings listed it is refused.
LEMMA AdviceRefused ==
  ASSUME NEW b, Sound(b), Prepared(b), PaymentIds # {}, AdviceIsRefused(b)
  PROVE  ~AdviceIsAccepted(b)
<1>1. b \in Booking
  BY DEF Sound
<1>2. CASE /\ RecoveryAction(b) = "START_PAYMENT"
           /\ b.reservationStatus = "RESERVED"
           /\ b.reservationExpiresAt # None /\ b.reservationExpiresAt <= now
  <2>1. \A p : ~CanStartPayment(b, [expectedVersion |-> b.resourceVersion, paymentId |-> p],
                                now)
    BY <1>2 DEF CanStartPayment
  <2> QED BY <1>2, <2>1 DEF AdviceIsAccepted
<1>3. CASE RecoveryAction(b) = "RECONCILE_PAYMENT" /\ b.paymentId = None
  <2>1. \A p \in PaymentIds : p # None
    BY NoneIsNoValue
  <2>2. \A p \in PaymentIds :
          ~CanRecordPayment(b, [expectedVersion |-> b.resourceVersion, paymentId |-> p,
                                paymentStatus |-> "UNKNOWN"])
    BY <1>3, <2>1 DEF CanRecordPayment
  <2> QED BY <1>3, <2>2 DEF AdviceIsAccepted
<1>4. CASE /\ RecoveryAction(b) = "COMPLETE_COMPENSATION"
           /\ b.paymentStatus = "PROCESSING" \/ RefundLacksPayment(b)
  <2> DEFINE e == [resolvedPaymentStatus |-> None,
                   reservationReleased   |-> "RESERVATION_RELEASE" \in MissingCompensation(b),
                   paymentRefunded       |-> "PAYMENT_REFUND" \in MissingCompensation(b)]
             r == [expectedVersion |-> b.resourceVersion, reason |-> None,
                   compensationStatus |-> "COMPLETED", evidence |-> e]
  <2>1. b.status = "COMPENSATION_PENDING"
    BY <1>1, <1>4 DEF RecoveryAction, PaymentRecovery, Booking, BookingStatus
  <2>2. AdviceIsAccepted(b) => CanRecordCompensation(b, r)
    BY <1>4 DEF AdviceIsAccepted
  <2>3. e \in Evidence
    BY DEF Evidence
  <2>4. /\ e.resolvedPaymentStatus = None
        /\ e.reservationReleased <=> "RESERVATION_RELEASE" \in MissingCompensation(b)
        /\ e.paymentRefunded <=> "PAYMENT_REFUND" \in MissingCompensation(b)
    OBVIOUS
  <2> HIDE DEF e
  <2>5. CASE RefundLacksPayment(b)
    BY <2>1, <2>2, <2>3, <2>5, RefundWithoutPaymentStops
  <2>6. CASE b.paymentStatus = "PROCESSING"
    <3>1. b.compensationAction = "RECONCILE_PAYMENT"
      BY <1>1, <2>1, <2>6, RequiredMeans DEF Sound, OwedWorkIsRecorded, UnsettledPayment
    <3>2. ~e.reservationReleased /\ ~e.paymentRefunded
      BY <2>4, <3>1 DEF MissingCompensation, ReleaseActions, RefundActions
    <3> DEFINE after == ApplyCompensationEvidence(b, e)
               owing == [after EXCEPT !.compensationReason = @,
                                      !.compensationAction = "RECONCILE_PAYMENT"]
    <3>3. after \in Booking /\ after.paymentStatus = "PROCESSING"
      <4>1. EvidenceAccepted(b, e)
        BY <2>4, <3>2 DEF EvidenceAccepted
      <4>2. after \in Booking
        BY <1>1, <2>3, <4>1, EvidenceMakes
      <4> QED BY <1>1, <2>4, <2>6, <3>2, <4>2
           DEF ApplyCompensationEvidence, ResolvedPayment, Booking
    <3>4. ResultAction(b, e) = "RECONCILE_PAYMENT"
      BY <3>1, <3>3, RequiredMeans DEF ResultAction, UnsettledPayment
    <3>5. CompensatedBy(b, r) = MarkCompensationPending(owing, "RECONCILE_PAYMENT")
      BY <3>4 DEF CompensatedBy
    <3> HIDE DEF after
    <3>6. owing \in Booking /\ owing.paymentStatus = "PROCESSING"
      BY ZenonT(60), <3>3 DEF Booking, CompensationAction
    <3> HIDE DEF owing
    <3>7. MarkCompensationPending(owing, "RECONCILE_PAYMENT").paymentStatus = "PROCESSING"
      BY <3>6, MarkMakes DEF RefundActions, CompensationAction
    <3>8. ~CompensationRequirementsSatisfied(CompensatedBy(b, r), ResultAction(b, e))
      BY <3>4, <3>5, <3>7 DEF CompensationRequirementsSatisfied, UnsettledPayment
    <3> QED BY <2>2, <3>8 DEF CanRecordCompensation
  <2> QED BY <1>4, <2>5, <2>6
<1> QED BY <1>2, <1>3, <1>4 DEF AdviceIsRefused

\* Which bookings are stuck, exactly: a pending compensation whose refund names no
\* payment, and the bookings whose advice is listed as refused.  Without
\* identifiers there is nothing to attach or to start, so some exist.
THEOREM StuckBookingsAreKnown ==
  ASSUME ReservationIds # {}, PaymentIds # {}
  PROVE  Spec => []OnlyListedAreStuck
<1>1. RecoveryInv => OnlyListedAreStuck
  <2> SUFFICES ASSUME RecoveryInv PROVE OnlyListedAreStuck
    OBVIOUS
  <2>1. /\ now \in Nat
        /\ \A id \in BookingIds : Exists(id) => Sound(bookings[id]) /\ Prepared(bookings[id])
    BY DEF RecoveryInv, HistoryInv, Inv, TypeOK
  <2>2. ASSUME NEW b, Sound(b), Prepared(b), b.status = "COMPENSATION_PENDING"
        PROVE  CanComplete(b) <=> ~RefundLacksPayment(b)
    BY <2>2, CompensationCompletes, RefundWithoutPaymentStops DEF CanComplete
  <2>3. CompensationStopsOnlyForRefund
    BY <2>1, <2>2 DEF CompensationStopsOnlyForRefund
  <2>4. ASSUME NEW b, Sound(b), Prepared(b)
        PROVE  AdviceIsAccepted(b) <=> ~AdviceIsRefused(b)
    BY <2>1, <2>4, AdviceAccepted, AdviceRefused
  <2>5. AdviceFailsOnlyAsListed
    BY <2>1, <2>4 DEF AdviceFailsOnlyAsListed
  <2> QED BY <2>3, <2>5 DEF OnlyListedAreStuck
<1> QED BY <1>1, RecoveryInvHolds, PTL

-----------------------------------------------------------------------------
(* The service in MCBooking: what BookingServiceProofs proves of any service *)
(* is proved of the parts "service" and "claims", whatever values their      *)
(* bookings, reservations and keys have. ServiceProofs and ClaimsProofs are  *)
(* that module at the constants of the parts; the lemmas say that it is      *)
(* about the same steps and the same properties there.                       *)

ServiceProofs == INSTANCE BookingServiceProofs WITH
  BookingIds <- {b1}, Details <- {d1}, ReservationIds <- {r1}, PaymentIds <- {p1},
  TicketIds <- {t1}, Keys <- {k1}, TTL <- 1, Offered <- SagaRequests,
  bookings <- stored, now <- clock

ClaimsProofs == INSTANCE BookingServiceProofs WITH
  BookingIds <- {b1, b2}, Details <- {d1, d2}, ReservationIds <- {r1, r2}, PaymentIds <- {p1},
  TicketIds <- {t1}, Keys <- {k1, k2}, TTL <- 1, MaxVersion <- 2, Offered <- ClaimRequests,
  bookings <- stored, now <- clock

\* ServiceProofs is about the behaviours of Service.
LEMMA ServiceSpecified == ServiceProofs!Spec <=> Service!Spec
<1> USE DEF ServiceProofs!PaymentStatus, ServiceProofs!BookingStatus,
            ServiceProofs!UnsettledPayment, ServiceProofs!Touch, ServiceProofs!Exists,
            ServiceProofs!NothingToReplay, ServiceProofs!SaveReplay, ServiceProofs!Record,
            ServiceProofs!AuditRowFor, ServiceProofs!AnswerAsApplied, ServiceProofs!Execute,
            ServiceProofs!Owners, Service!PaymentStatus, Service!BookingStatus,
            Service!UnsettledPayment, Service!Touch, Service!Exists,
            Service!NothingToReplay, Service!SaveReplay, Service!Record,
            Service!AuditRowFor, Service!AnswerAsApplied, Service!Execute, Service!Owners
<1>1. ASSUME NEW b
     PROVE  ServiceProofs!RequiredCompensationAction(b)
              = Service!RequiredCompensationAction(b)
  BY DEF ServiceProofs!RequiredCompensationAction, Service!RequiredCompensationAction
<1>2. ASSUME NEW b, NEW e
     PROVE  ServiceProofs!ApplyCompensationEvidence(b, e)
              = Service!ApplyCompensationEvidence(b, e)
  BY DEF ServiceProofs!ResolvedPayment, ServiceProofs!ApplyCompensationEvidence,
         Service!ResolvedPayment, Service!ApplyCompensationEvidence
<1>3. ASSUME NEW b, NEW action
     PROVE  ServiceProofs!MarkCompensationPending(b, action)
              = Service!MarkCompensationPending(b, action)
  BY DEF ServiceProofs!ReleaseActions, ServiceProofs!RefundActions,
         ServiceProofs!MarkCompensationPending, Service!ReleaseActions,
         Service!RefundActions, Service!MarkCompensationPending
<1>4. ASSUME NEW b, NEW action
     PROVE  ServiceProofs!CompensationRequirementsSatisfied(b, action)
              <=> Service!CompensationRequirementsSatisfied(b, action)
  BY DEF ServiceProofs!ReleaseActions, ServiceProofs!RefundActions,
         ServiceProofs!CompensationRequirementsSatisfied, Service!ReleaseActions,
         Service!RefundActions, Service!CompensationRequirementsSatisfied
<1>5. ASSUME NEW b, NEW e
     PROVE  ServiceProofs!TerminalAction(b, e) = Service!TerminalAction(b, e)
  BY <1>1, <1>2 DEF ServiceProofs!TerminalAction, Service!TerminalAction
<1>6. ASSUME NEW b, NEW r
     PROVE  ServiceProofs!RequestedCompensation(b, r) = Service!RequestedCompensation(b, r)
  BY <1>5, <1>2, <1>4 DEF ServiceProofs!RequestedCompensation, Service!RequestedCompensation
<1>7. ASSUME NEW b, NEW r, NEW target
     PROVE  ServiceProofs!CanBeginTerminalTransition(b, r, target)
              <=> Service!CanBeginTerminalTransition(b, r, target)
  BY <1>6, <1>5, <1>2, <1>4 DEF ServiceProofs!AllowedTransitions,
         ServiceProofs!ResolvedPayment, ServiceProofs!EvidenceAccepted,
         ServiceProofs!CanBeginTerminalTransition, Service!AllowedTransitions,
         Service!ResolvedPayment, Service!EvidenceAccepted,
         Service!CanBeginTerminalTransition
<1>8. ASSUME NEW b, NEW r, NEW target
     PROVE  ServiceProofs!BeginOrCompleteTerminalTransition(b, r, target)
              = Service!BeginOrCompleteTerminalTransition(b, r, target)
  BY <1>6, <1>5, <1>2, <1>3 DEF ServiceProofs!BeginOrCompleteTerminalTransition,
         Service!BeginOrCompleteTerminalTransition
<1>9. ASSUME NEW b, NEW r PROVE ServiceProofs!CanFail(b, r) <=> Service!CanFail(b, r)
  BY <1>7 DEF ServiceProofs!ActiveBookingStatuses, ServiceProofs!WithFailureReason,
         ServiceProofs!CanFail, Service!ActiveBookingStatuses, Service!WithFailureReason,
         Service!CanFail
<1>10. ASSUME NEW b, NEW r PROVE ServiceProofs!FailOf(b, r) = Service!FailOf(b, r)
  BY <1>8 DEF ServiceProofs!WithFailureReason, ServiceProofs!FailOf,
         Service!WithFailureReason, Service!FailOf
<1>11. ASSUME NEW b, NEW r PROVE ServiceProofs!CanCancel(b, r) <=> Service!CanCancel(b, r)
  BY <1>7 DEF ServiceProofs!CancelPaymentStatusAllowed,
         ServiceProofs!ApplyCancelPaymentStatus, ServiceProofs!CanCancel,
         Service!CancelPaymentStatusAllowed, Service!ApplyCancelPaymentStatus,
         Service!CanCancel
<1>12. ASSUME NEW b, NEW r PROVE ServiceProofs!CancelOf(b, r) = Service!CancelOf(b, r)
  BY <1>8 DEF ServiceProofs!ApplyCancelPaymentStatus, ServiceProofs!CancelOf,
         Service!ApplyCancelPaymentStatus, Service!CancelOf
<1>13. ASSUME NEW b, NEW e
     PROVE  ServiceProofs!ResultAction(b, e) = Service!ResultAction(b, e)
  BY <1>1, <1>2 DEF ServiceProofs!ResultAction, Service!ResultAction
<1>14. ASSUME NEW b, NEW r
     PROVE  ServiceProofs!CompensatedBy(b, r) = Service!CompensatedBy(b, r)
  BY <1>13, <1>2, <1>3 DEF ServiceProofs!CompensatedBy, Service!CompensatedBy
<1>15. ASSUME NEW b, NEW r
     PROVE  ServiceProofs!CanRecordCompensation(b, r)
              <=> Service!CanRecordCompensation(b, r)
  BY <1>13, <1>14, <1>4 DEF ServiceProofs!AllowedTransitions, ServiceProofs!ResolvedPayment,
         ServiceProofs!EvidenceAccepted, ServiceProofs!CanRecordCompensation,
         Service!AllowedTransitions, Service!ResolvedPayment, Service!EvidenceAccepted,
         Service!CanRecordCompensation
<1>16. ASSUME NEW b, NEW r
     PROVE  ServiceProofs!RecordCompensationOf(b, r) = Service!RecordCompensationOf(b, r)
  BY <1>14 DEF ServiceProofs!RecordCompensationOf, Service!RecordCompensationOf
<1>17. ASSUME NEW key, NEW r
     PROVE  ServiceProofs!CreateBooking(key, r) <=> Service!CreateBooking(key, r)
  BY DEF ServiceProofs!FromRequest, ServiceProofs!SameCreation, ServiceProofs!CreateBooking,
         Service!FromRequest, Service!SameCreation, Service!CreateBooking
<1>18. ASSUME NEW id, NEW key, NEW r
     PROVE  ServiceProofs!AttachReservation(id, key, r)
              <=> Service!AttachReservation(id, key, r)
  BY DEF ServiceProofs!CanAttachReservation, ServiceProofs!AttachReservationTo,
         ServiceProofs!VersionAhead, ServiceProofs!AttachmentRecorded,
         ServiceProofs!AttachReservationConflicts, ServiceProofs!AttachReservationApplied,
         ServiceProofs!MayClaim, ServiceProofs!AttachReservation,
         Service!CanAttachReservation, Service!AttachReservationTo, Service!VersionAhead,
         Service!AttachmentRecorded, Service!AttachReservationConflicts,
         Service!AttachReservationApplied, Service!MayClaim, Service!AttachReservation
<1>19. ASSUME NEW id, NEW key, NEW r
     PROVE  ServiceProofs!ConfirmReservation(id, key, r)
              <=> Service!ConfirmReservation(id, key, r)
  BY DEF ServiceProofs!CanConfirmReservation, ServiceProofs!ConfirmReservationOf,
         ServiceProofs!VersionAhead, ServiceProofs!ConfirmReservationApplied,
         ServiceProofs!ConfirmReservationConflicts, ServiceProofs!ConfirmReservation,
         Service!CanConfirmReservation, Service!ConfirmReservationOf, Service!VersionAhead,
         Service!ConfirmReservationApplied, Service!ConfirmReservationConflicts,
         Service!ConfirmReservation
<1>20. ASSUME NEW id, NEW key, NEW r
     PROVE  ServiceProofs!StartPayment(id, key, r) <=> Service!StartPayment(id, key, r)
  BY DEF ServiceProofs!AllowedTransitions, ServiceProofs!CanStartPayment,
         ServiceProofs!StartPaymentOf, ServiceProofs!StartPaymentConflicts,
         ServiceProofs!StartPaymentApplied, ServiceProofs!StartPayment,
         Service!AllowedTransitions, Service!CanStartPayment, Service!StartPaymentOf,
         Service!StartPaymentConflicts, Service!StartPaymentApplied, Service!StartPayment
<1>21. ASSUME NEW b, NEW r
     PROVE  ServiceProofs!RecordPaymentOf(b, r) = Service!RecordPaymentOf(b, r)
  BY <1>1, <1>3 DEF ServiceProofs!ApplyPaymentOutcome, ServiceProofs!RecordPaymentOf,
         Service!ApplyPaymentOutcome, Service!RecordPaymentOf
<1>22. ASSUME NEW id, NEW key, NEW r
     PROVE  ServiceProofs!RecordPayment(id, key, r) <=> Service!RecordPayment(id, key, r)
  BY <1>21 DEF ServiceProofs!CanRecordPayment, ServiceProofs!RecordPaymentConflicts,
         ServiceProofs!RecordPaymentApplied, ServiceProofs!RecordPayment,
         Service!CanRecordPayment, Service!RecordPaymentConflicts,
         Service!RecordPaymentApplied, Service!RecordPayment
<1>23. ASSUME NEW id, NEW key, NEW r
     PROVE  ServiceProofs!AttachTickets(id, key, r) <=> Service!AttachTickets(id, key, r)
  BY DEF ServiceProofs!Cardinality, ServiceProofs!CanAttachTickets,
         ServiceProofs!AttachTicketsTo, ServiceProofs!AttachTicketsConflicts,
         ServiceProofs!AttachTicketsApplied, ServiceProofs!AttachTickets,
         Service!Cardinality, Service!CanAttachTickets, Service!AttachTicketsTo,
         Service!AttachTicketsConflicts, Service!AttachTicketsApplied, Service!AttachTickets
<1>24. ASSUME NEW id, NEW key, NEW r
     PROVE  ServiceProofs!ConfirmBooking(id, key, r) <=> Service!ConfirmBooking(id, key, r)
  BY DEF ServiceProofs!Cardinality, ServiceProofs!AllowedTransitions,
         ServiceProofs!CanConfirm, ServiceProofs!ConfirmOf,
         ServiceProofs!ConfirmEvidenceMatches, ServiceProofs!ConfirmBooking,
         Service!Cardinality, Service!AllowedTransitions, Service!CanConfirm,
         Service!ConfirmOf, Service!ConfirmEvidenceMatches, Service!ConfirmBooking
<1>25. ASSUME NEW id, NEW key, NEW r
     PROVE  ServiceProofs!FailBooking(id, key, r) <=> Service!FailBooking(id, key, r)
  BY <1>9, <1>10 DEF ServiceProofs!FailBookingConflicts, ServiceProofs!FailBookingApplied,
         ServiceProofs!ClosingEvents, ServiceProofs!FailBooking,
         Service!FailBookingConflicts, Service!FailBookingApplied, Service!ClosingEvents,
         Service!FailBooking
<1>26. ASSUME NEW id, NEW key, NEW r
     PROVE  ServiceProofs!CancelBooking(id, key, r) <=> Service!CancelBooking(id, key, r)
  BY <1>11, <1>12 DEF ServiceProofs!CancelBookingConflicts,
         ServiceProofs!CancelBookingApplied, ServiceProofs!ClosingEvents,
         ServiceProofs!CancelBooking, Service!CancelBookingConflicts,
         Service!CancelBookingApplied, Service!ClosingEvents, Service!CancelBooking
<1>27. ASSUME NEW id, NEW key, NEW r
     PROVE  ServiceProofs!RecordCompensation(id, key, r)
              <=> Service!RecordCompensation(id, key, r)
  BY <1>15, <1>16 DEF ServiceProofs!EvidenceIsRecorded,
         ServiceProofs!RecordCompensationApplied, ServiceProofs!ClosingEvents,
         ServiceProofs!RecordCompensation, Service!EvidenceIsRecorded,
         Service!RecordCompensationApplied, Service!ClosingEvents,
         Service!RecordCompensation
<1>28. ASSUME NEW id, NEW key
     PROVE  ServiceProofs!Command(id, key) <=> Service!Command(id, key)
  BY <1>18, <1>19, <1>20, <1>22, <1>23, <1>24, <1>25, <1>26, <1>27
  DEF ServiceProofs!CompensationStatus, ServiceProofs!Evidence, ServiceProofs!Versions,
      ServiceProofs!AttachReservationRequest, ServiceProofs!ConfirmReservationRequest,
      ServiceProofs!StartPaymentRequest, ServiceProofs!RecordPaymentRequest,
      ServiceProofs!AttachTicketsRequest, ServiceProofs!ConfirmBookingRequest,
      ServiceProofs!FailBookingRequest, ServiceProofs!CancelBookingRequest,
      ServiceProofs!RecordCompensationRequest, ServiceProofs!Command,
      Service!CompensationStatus, Service!Evidence, Service!Versions,
      Service!AttachReservationRequest, Service!ConfirmReservationRequest,
      Service!StartPaymentRequest, Service!RecordPaymentRequest,
      Service!AttachTicketsRequest, Service!ConfirmBookingRequest,
      Service!FailBookingRequest, Service!CancelBookingRequest,
      Service!RecordCompensationRequest, Service!Command
<1>29. ServiceProofs!Tick <=> Service!Tick
  BY DEF ServiceProofs!Tick, Service!Tick
<1>30. ServiceProofs!Next <=> Service!Next
  BY <1>17, <1>28, <1>29 DEF ServiceProofs!CreateBookingRequest, ServiceProofs!Next,
         Service!CreateBookingRequest, Service!Next
<1>31. ServiceProofs!Init <=> Service!Init
  BY DEF ServiceProofs!Init, ServiceProofs!Scopes, Service!Init, Service!Scopes
<1>32. [ServiceProofs!Next]_(ServiceProofs!vars) <=> [Service!Next]_(Service!vars)
  BY <1>30 DEF ServiceProofs!vars, Service!vars
<1> QED BY <1>31, <1>32, PTL DEF ServiceProofs!Spec, Service!Spec

\* It states the properties of Service.
LEMMA ServiceStated ==
  /\ ServiceProofs!TypeOK <=> Service!TypeOK
  /\ ServiceProofs!AuditIsTheHistory <=> Service!AuditIsTheHistory
  /\ ServiceProofs!EventsAnnounceOutcomes <=> Service!EventsAnnounceOutcomes
  /\ ServiceProofs!AnswersWereCommitted <=> Service!AnswersWereCommitted
  /\ ServiceProofs!AnswersReflectRequests <=> Service!AnswersReflectRequests
  /\ ServiceProofs!KeyTakesEffectOnce <=> Service!KeyTakesEffectOnce
<1>1. ServiceProofs!TypeOK <=> Service!TypeOK
  BY DEF ServiceProofs!BookingStatus, ServiceProofs!PaymentStatus,
         ServiceProofs!ReservationEvidenceStatus, ServiceProofs!CompensationStatus,
         ServiceProofs!CompensationAction, ServiceProofs!Booking, ServiceProofs!Evidence,
         ServiceProofs!Versions, ServiceProofs!AttachReservationRequest,
         ServiceProofs!ConfirmReservationRequest, ServiceProofs!StartPaymentRequest,
         ServiceProofs!RecordPaymentRequest, ServiceProofs!AttachTicketsRequest,
         ServiceProofs!ConfirmBookingRequest, ServiceProofs!FailBookingRequest,
         ServiceProofs!CancelBookingRequest, ServiceProofs!RecordCompensationRequest,
         ServiceProofs!CreateBookingRequest, ServiceProofs!Requests, ServiceProofs!Scopes,
         ServiceProofs!EventType, ServiceProofs!IdempotencyRecord, ServiceProofs!AuditRow,
         ServiceProofs!OutboxEvent, ServiceProofs!TypeOK, Service!BookingStatus,
         Service!PaymentStatus, Service!ReservationEvidenceStatus,
         Service!CompensationStatus, Service!CompensationAction, Service!Booking,
         Service!Evidence, Service!Versions, Service!AttachReservationRequest,
         Service!ConfirmReservationRequest, Service!StartPaymentRequest,
         Service!RecordPaymentRequest, Service!AttachTicketsRequest,
         Service!ConfirmBookingRequest, Service!FailBookingRequest,
         Service!CancelBookingRequest, Service!RecordCompensationRequest,
         Service!CreateBookingRequest, Service!Requests, Service!Scopes, Service!EventType,
         Service!IdempotencyRecord, Service!AuditRow, Service!OutboxEvent, Service!TypeOK
<1>2. ServiceProofs!AuditIsTheHistory <=> Service!AuditIsTheHistory
  BY DEF ServiceProofs!Cardinality, ServiceProofs!Exists, ServiceProofs!Rows,
         ServiceProofs!AuditIsTheHistory, Service!Cardinality, Service!Exists, Service!Rows,
         Service!AuditIsTheHistory
<1>3. ServiceProofs!EventsAnnounceOutcomes <=> Service!EventsAnnounceOutcomes
  BY DEF ServiceProofs!Cardinality, ServiceProofs!Rows,
         ServiceProofs!EventsAnnounceOutcomes, Service!Cardinality, Service!Rows,
         Service!EventsAnnounceOutcomes
<1>4. ServiceProofs!AnswersWereCommitted <=> Service!AnswersWereCommitted
  BY DEF ServiceProofs!Scopes, ServiceProofs!Exists, ServiceProofs!Rows,
         ServiceProofs!AnswersWereCommitted, Service!Scopes, Service!Exists, Service!Rows,
         Service!AnswersWereCommitted
<1>5. ServiceProofs!AnswersReflectRequests <=> Service!AnswersReflectRequests
  BY DEF ServiceProofs!EvidenceIsRecorded, ServiceProofs!Scopes,
         ServiceProofs!AnswerReflects, ServiceProofs!AnswersReflectRequests,
         Service!EvidenceIsRecorded, Service!Scopes, Service!AnswerReflects,
         Service!AnswersReflectRequests
<1>6. ServiceProofs!KeyTakesEffectOnce <=> Service!KeyTakesEffectOnce
  BY DEF ServiceProofs!KeyTakesEffectOnce, Service!KeyTakesEffectOnce
<1> QED BY <1>1, <1>2, <1>3, <1>4, <1>5, <1>6

\* The constants of the part are such as the theorems are about.
LEMMA ServiceAssumed ==
  /\ None \notin {r1} \cup {p1} \cup {t1} \cup Reasons
  /\ None \notin STRING /\ None \notin Nat
  /\ None \notin ServiceProofs!PaymentStatus /\ None \notin ServiceProofs!BookingStatus
  /\ None \notin ServiceProofs!Booking
  /\ ServiceProofs!ServiceAssumption
<1>1. ServiceProofs!Booking = Service!Booking
  BY DEF ServiceProofs!Booking, ServiceProofs!BookingStatus, ServiceProofs!PaymentStatus,
         ServiceProofs!ReservationEvidenceStatus, ServiceProofs!CompensationStatus,
         ServiceProofs!CompensationAction, Service!Booking, Service!BookingStatus,
         Service!PaymentStatus, Service!ReservationEvidenceStatus,
         Service!CompensationStatus, Service!CompensationAction
<1>2. ServiceProofs!IdempotencyRecord = Service!IdempotencyRecord
  <2>1. ServiceProofs!Requests = Service!Requests
    BY DEF ServiceProofs!PaymentStatus, ServiceProofs!CompensationStatus,
           ServiceProofs!Evidence, ServiceProofs!Versions,
           ServiceProofs!AttachReservationRequest, ServiceProofs!ConfirmReservationRequest,
           ServiceProofs!StartPaymentRequest, ServiceProofs!RecordPaymentRequest,
           ServiceProofs!AttachTicketsRequest, ServiceProofs!ConfirmBookingRequest,
           ServiceProofs!FailBookingRequest, ServiceProofs!CancelBookingRequest,
           ServiceProofs!RecordCompensationRequest, ServiceProofs!CreateBookingRequest,
           ServiceProofs!Requests, Service!PaymentStatus, Service!CompensationStatus,
           Service!Evidence, Service!Versions, Service!AttachReservationRequest,
           Service!ConfirmReservationRequest, Service!StartPaymentRequest,
           Service!RecordPaymentRequest, Service!AttachTicketsRequest,
           Service!ConfirmBookingRequest, Service!FailBookingRequest,
           Service!CancelBookingRequest, Service!RecordCompensationRequest,
           Service!CreateBookingRequest, Service!Requests
  <2> QED BY <1>1, <2>1 DEF ServiceProofs!IdempotencyRecord, Service!IdempotencyRecord
<1>3. ServiceProofs!ServiceAssumption
  BY ServiceAssumptions, <1>2
  DEF ServiceProofs!ServiceAssumption, Service!ServiceAssumption,
      ServiceProofs!TTLPositive, Service!TTLPositive
<1>4. None \notin ServiceProofs!PaymentStatus /\ None \notin ServiceProofs!BookingStatus
  BY NoneIsNoPaymentStatus, NoneIsNoBookingStatus
  DEF ServiceProofs!PaymentStatus, ServiceProofs!BookingStatus, PaymentStatus, BookingStatus
<1> QED BY ServiceAssumptions, NoneIsNoValue, <1>1, <1>3, <1>4

\* What the theorems about the service say of the part "service".
LEMMA ServiceIsCorrect ==
  Parts => [](part = "service" =>
              /\ Service!TypeOK
              /\ Service!AuditIsTheHistory
              /\ Service!EventsAnnounceOutcomes
              /\ Service!AnswersWereCommitted
              /\ Service!AnswersReflectRequests
              /\ Service!KeyTakesEffectOnce)
<1>1. Parts /\ part = "service" => Service!Spec
  <2>1. PartsInit /\ part = "service" => Service!Init
    BY DEF PartsInit
  <2>2. part = "service" /\ [PartsNext]_<<part, vars, database, migration>>
          => (part = "service")' /\ [Service!Next]_(Service!vars)
    BY DEF PartsNext, database, Service!vars
  <2> QED BY <2>1, <2>2, PTL DEF Parts, Service!Spec
<1>2. Parts /\ ~(part = "service") => []~(part = "service")
  <2>1. ~(part = "service") /\ [PartsNext]_<<part, vars, database, migration>>
          => (~(part = "service"))'
    BY DEF PartsNext
  <2> QED BY <2>1, PTL DEF Parts
<1>3. ServiceProofs!Spec => []ServiceProofs!TypeOK
  BY ServiceAssumed, ItemCountPositive, BoundsAreNaturals,
     ServiceProofs!TypeCorrect
<1>4. ServiceProofs!Spec => []ServiceProofs!AuditIsTheHistory
  BY ServiceAssumed, ItemCountPositive, BoundsAreNaturals,
     ServiceProofs!AuditIsComplete
<1>5. ServiceProofs!Spec => []ServiceProofs!EventsAnnounceOutcomes
  BY ServiceAssumed, ItemCountPositive, BoundsAreNaturals,
     ServiceProofs!OutcomesAreAnnouncedOnce
<1>6. ServiceProofs!Spec => []ServiceProofs!AnswersWereCommitted
  BY ServiceAssumed, ItemCountPositive, BoundsAreNaturals,
     ServiceProofs!AnswersAreCommitted
<1>7. ServiceProofs!Spec => []ServiceProofs!AnswersReflectRequests
  BY ServiceAssumed, ItemCountPositive, BoundsAreNaturals,
     ServiceProofs!AnswersFitRequests
<1>8. ServiceProofs!Spec => []ServiceProofs!KeyTakesEffectOnce
  BY ServiceAssumed, ItemCountPositive, BoundsAreNaturals,
     ServiceProofs!KeysTakeEffectOnce
<1> QED BY <1>1, <1>2, <1>3, <1>4, <1>5, <1>6, <1>7, <1>8,
           ServiceSpecified, ServiceStated, PTL

\* ClaimsProofs is about the behaviours of Claims.
LEMMA ClaimsSpecified == ClaimsProofs!Spec <=> Claims!Spec
<1> USE DEF ClaimsProofs!PaymentStatus, ClaimsProofs!BookingStatus,
            ClaimsProofs!UnsettledPayment, ClaimsProofs!Touch, ClaimsProofs!Exists,
            ClaimsProofs!NothingToReplay, ClaimsProofs!SaveReplay, ClaimsProofs!Record,
            ClaimsProofs!AuditRowFor, ClaimsProofs!AnswerAsApplied, ClaimsProofs!Execute,
            ClaimsProofs!Owners, Claims!PaymentStatus, Claims!BookingStatus,
            Claims!UnsettledPayment, Claims!Touch, Claims!Exists, Claims!NothingToReplay,
            Claims!SaveReplay, Claims!Record, Claims!AuditRowFor, Claims!AnswerAsApplied,
            Claims!Execute, Claims!Owners
<1>1. ASSUME NEW b
     PROVE  ClaimsProofs!RequiredCompensationAction(b)
              = Claims!RequiredCompensationAction(b)
  BY DEF ClaimsProofs!RequiredCompensationAction, Claims!RequiredCompensationAction
<1>2. ASSUME NEW b, NEW e
     PROVE  ClaimsProofs!ApplyCompensationEvidence(b, e)
              = Claims!ApplyCompensationEvidence(b, e)
  BY DEF ClaimsProofs!ResolvedPayment, ClaimsProofs!ApplyCompensationEvidence,
         Claims!ResolvedPayment, Claims!ApplyCompensationEvidence
<1>3. ASSUME NEW b, NEW action
     PROVE  ClaimsProofs!MarkCompensationPending(b, action)
              = Claims!MarkCompensationPending(b, action)
  BY DEF ClaimsProofs!ReleaseActions, ClaimsProofs!RefundActions,
         ClaimsProofs!MarkCompensationPending, Claims!ReleaseActions, Claims!RefundActions,
         Claims!MarkCompensationPending
<1>4. ASSUME NEW b, NEW action
     PROVE  ClaimsProofs!CompensationRequirementsSatisfied(b, action)
              <=> Claims!CompensationRequirementsSatisfied(b, action)
  BY DEF ClaimsProofs!ReleaseActions, ClaimsProofs!RefundActions,
         ClaimsProofs!CompensationRequirementsSatisfied, Claims!ReleaseActions,
         Claims!RefundActions, Claims!CompensationRequirementsSatisfied
<1>5. ASSUME NEW b, NEW e
     PROVE  ClaimsProofs!TerminalAction(b, e) = Claims!TerminalAction(b, e)
  BY <1>1, <1>2 DEF ClaimsProofs!TerminalAction, Claims!TerminalAction
<1>6. ASSUME NEW b, NEW r
     PROVE  ClaimsProofs!RequestedCompensation(b, r) = Claims!RequestedCompensation(b, r)
  BY <1>5, <1>2, <1>4 DEF ClaimsProofs!RequestedCompensation, Claims!RequestedCompensation
<1>7. ASSUME NEW b, NEW r, NEW target
     PROVE  ClaimsProofs!CanBeginTerminalTransition(b, r, target)
              <=> Claims!CanBeginTerminalTransition(b, r, target)
  BY <1>6, <1>5, <1>2, <1>4 DEF ClaimsProofs!AllowedTransitions,
         ClaimsProofs!ResolvedPayment, ClaimsProofs!EvidenceAccepted,
         ClaimsProofs!CanBeginTerminalTransition, Claims!AllowedTransitions,
         Claims!ResolvedPayment, Claims!EvidenceAccepted, Claims!CanBeginTerminalTransition
<1>8. ASSUME NEW b, NEW r, NEW target
     PROVE  ClaimsProofs!BeginOrCompleteTerminalTransition(b, r, target)
              = Claims!BeginOrCompleteTerminalTransition(b, r, target)
  BY <1>6, <1>5, <1>2, <1>3 DEF ClaimsProofs!BeginOrCompleteTerminalTransition,
         Claims!BeginOrCompleteTerminalTransition
<1>9. ASSUME NEW b, NEW r PROVE ClaimsProofs!CanFail(b, r) <=> Claims!CanFail(b, r)
  BY <1>7 DEF ClaimsProofs!ActiveBookingStatuses, ClaimsProofs!WithFailureReason,
         ClaimsProofs!CanFail, Claims!ActiveBookingStatuses, Claims!WithFailureReason,
         Claims!CanFail
<1>10. ASSUME NEW b, NEW r PROVE ClaimsProofs!FailOf(b, r) = Claims!FailOf(b, r)
  BY <1>8 DEF ClaimsProofs!WithFailureReason, ClaimsProofs!FailOf, Claims!WithFailureReason,
         Claims!FailOf
<1>11. ASSUME NEW b, NEW r PROVE ClaimsProofs!CanCancel(b, r) <=> Claims!CanCancel(b, r)
  BY <1>7 DEF ClaimsProofs!CancelPaymentStatusAllowed,
         ClaimsProofs!ApplyCancelPaymentStatus, ClaimsProofs!CanCancel,
         Claims!CancelPaymentStatusAllowed, Claims!ApplyCancelPaymentStatus,
         Claims!CanCancel
<1>12. ASSUME NEW b, NEW r PROVE ClaimsProofs!CancelOf(b, r) = Claims!CancelOf(b, r)
  BY <1>8 DEF ClaimsProofs!ApplyCancelPaymentStatus, ClaimsProofs!CancelOf,
         Claims!ApplyCancelPaymentStatus, Claims!CancelOf
<1>13. ASSUME NEW b, NEW e PROVE ClaimsProofs!ResultAction(b, e) = Claims!ResultAction(b, e)
  BY <1>1, <1>2 DEF ClaimsProofs!ResultAction, Claims!ResultAction
<1>14. ASSUME NEW b, NEW r
     PROVE  ClaimsProofs!CompensatedBy(b, r) = Claims!CompensatedBy(b, r)
  BY <1>13, <1>2, <1>3 DEF ClaimsProofs!CompensatedBy, Claims!CompensatedBy
<1>15. ASSUME NEW b, NEW r
     PROVE  ClaimsProofs!CanRecordCompensation(b, r) <=> Claims!CanRecordCompensation(b, r)
  BY <1>13, <1>14, <1>4 DEF ClaimsProofs!AllowedTransitions, ClaimsProofs!ResolvedPayment,
         ClaimsProofs!EvidenceAccepted, ClaimsProofs!CanRecordCompensation,
         Claims!AllowedTransitions, Claims!ResolvedPayment, Claims!EvidenceAccepted,
         Claims!CanRecordCompensation
<1>16. ASSUME NEW b, NEW r
     PROVE  ClaimsProofs!RecordCompensationOf(b, r) = Claims!RecordCompensationOf(b, r)
  BY <1>14 DEF ClaimsProofs!RecordCompensationOf, Claims!RecordCompensationOf
<1>17. ASSUME NEW key, NEW r
     PROVE  ClaimsProofs!CreateBooking(key, r) <=> Claims!CreateBooking(key, r)
  BY DEF ClaimsProofs!FromRequest, ClaimsProofs!SameCreation, ClaimsProofs!CreateBooking,
         Claims!FromRequest, Claims!SameCreation, Claims!CreateBooking
<1>18. ASSUME NEW id, NEW key, NEW r
     PROVE  ClaimsProofs!AttachReservation(id, key, r)
              <=> Claims!AttachReservation(id, key, r)
  BY DEF ClaimsProofs!CanAttachReservation, ClaimsProofs!AttachReservationTo,
         ClaimsProofs!VersionAhead, ClaimsProofs!AttachmentRecorded,
         ClaimsProofs!AttachReservationConflicts, ClaimsProofs!AttachReservationApplied,
         ClaimsProofs!MayClaim, ClaimsProofs!AttachReservation, Claims!CanAttachReservation,
         Claims!AttachReservationTo, Claims!VersionAhead, Claims!AttachmentRecorded,
         Claims!AttachReservationConflicts, Claims!AttachReservationApplied,
         Claims!MayClaim, Claims!AttachReservation
<1>19. ASSUME NEW id, NEW key, NEW r
     PROVE  ClaimsProofs!ConfirmReservation(id, key, r)
              <=> Claims!ConfirmReservation(id, key, r)
  BY DEF ClaimsProofs!CanConfirmReservation, ClaimsProofs!ConfirmReservationOf,
         ClaimsProofs!VersionAhead, ClaimsProofs!ConfirmReservationApplied,
         ClaimsProofs!ConfirmReservationConflicts, ClaimsProofs!ConfirmReservation,
         Claims!CanConfirmReservation, Claims!ConfirmReservationOf, Claims!VersionAhead,
         Claims!ConfirmReservationApplied, Claims!ConfirmReservationConflicts,
         Claims!ConfirmReservation
<1>20. ASSUME NEW id, NEW key, NEW r
     PROVE  ClaimsProofs!StartPayment(id, key, r) <=> Claims!StartPayment(id, key, r)
  BY DEF ClaimsProofs!AllowedTransitions, ClaimsProofs!CanStartPayment,
         ClaimsProofs!StartPaymentOf, ClaimsProofs!StartPaymentConflicts,
         ClaimsProofs!StartPaymentApplied, ClaimsProofs!StartPayment,
         Claims!AllowedTransitions, Claims!CanStartPayment, Claims!StartPaymentOf,
         Claims!StartPaymentConflicts, Claims!StartPaymentApplied, Claims!StartPayment
<1>21. ASSUME NEW b, NEW r
     PROVE  ClaimsProofs!RecordPaymentOf(b, r) = Claims!RecordPaymentOf(b, r)
  BY <1>1, <1>3 DEF ClaimsProofs!ApplyPaymentOutcome, ClaimsProofs!RecordPaymentOf,
         Claims!ApplyPaymentOutcome, Claims!RecordPaymentOf
<1>22. ASSUME NEW id, NEW key, NEW r
     PROVE  ClaimsProofs!RecordPayment(id, key, r) <=> Claims!RecordPayment(id, key, r)
  BY <1>21 DEF ClaimsProofs!CanRecordPayment, ClaimsProofs!RecordPaymentConflicts,
         ClaimsProofs!RecordPaymentApplied, ClaimsProofs!RecordPayment,
         Claims!CanRecordPayment, Claims!RecordPaymentConflicts,
         Claims!RecordPaymentApplied, Claims!RecordPayment
<1>23. ASSUME NEW id, NEW key, NEW r
     PROVE  ClaimsProofs!AttachTickets(id, key, r) <=> Claims!AttachTickets(id, key, r)
  BY DEF ClaimsProofs!Cardinality, ClaimsProofs!CanAttachTickets,
         ClaimsProofs!AttachTicketsTo, ClaimsProofs!AttachTicketsConflicts,
         ClaimsProofs!AttachTicketsApplied, ClaimsProofs!AttachTickets, Claims!Cardinality,
         Claims!CanAttachTickets, Claims!AttachTicketsTo, Claims!AttachTicketsConflicts,
         Claims!AttachTicketsApplied, Claims!AttachTickets
<1>24. ASSUME NEW id, NEW key, NEW r
     PROVE  ClaimsProofs!ConfirmBooking(id, key, r) <=> Claims!ConfirmBooking(id, key, r)
  BY DEF ClaimsProofs!Cardinality, ClaimsProofs!AllowedTransitions, ClaimsProofs!CanConfirm,
         ClaimsProofs!ConfirmOf, ClaimsProofs!ConfirmEvidenceMatches,
         ClaimsProofs!ConfirmBooking, Claims!Cardinality, Claims!AllowedTransitions,
         Claims!CanConfirm, Claims!ConfirmOf, Claims!ConfirmEvidenceMatches,
         Claims!ConfirmBooking
<1>25. ASSUME NEW id, NEW key, NEW r
     PROVE  ClaimsProofs!FailBooking(id, key, r) <=> Claims!FailBooking(id, key, r)
  BY <1>9, <1>10 DEF ClaimsProofs!FailBookingConflicts, ClaimsProofs!FailBookingApplied,
         ClaimsProofs!ClosingEvents, ClaimsProofs!FailBooking, Claims!FailBookingConflicts,
         Claims!FailBookingApplied, Claims!ClosingEvents, Claims!FailBooking
<1>26. ASSUME NEW id, NEW key, NEW r
     PROVE  ClaimsProofs!CancelBooking(id, key, r) <=> Claims!CancelBooking(id, key, r)
  BY <1>11, <1>12 DEF ClaimsProofs!CancelBookingConflicts,
         ClaimsProofs!CancelBookingApplied, ClaimsProofs!ClosingEvents,
         ClaimsProofs!CancelBooking, Claims!CancelBookingConflicts,
         Claims!CancelBookingApplied, Claims!ClosingEvents, Claims!CancelBooking
<1>27. ASSUME NEW id, NEW key, NEW r
     PROVE  ClaimsProofs!RecordCompensation(id, key, r)
              <=> Claims!RecordCompensation(id, key, r)
  BY <1>15, <1>16 DEF ClaimsProofs!EvidenceIsRecorded,
         ClaimsProofs!RecordCompensationApplied, ClaimsProofs!ClosingEvents,
         ClaimsProofs!RecordCompensation, Claims!EvidenceIsRecorded,
         Claims!RecordCompensationApplied, Claims!ClosingEvents, Claims!RecordCompensation
<1>28. ASSUME NEW id, NEW key
     PROVE  ClaimsProofs!Command(id, key) <=> Claims!Command(id, key)
  BY <1>18, <1>19, <1>20, <1>22, <1>23, <1>24, <1>25, <1>26, <1>27
  DEF ClaimsProofs!CompensationStatus, ClaimsProofs!Evidence, ClaimsProofs!Versions,
      ClaimsProofs!AttachReservationRequest, ClaimsProofs!ConfirmReservationRequest,
      ClaimsProofs!StartPaymentRequest, ClaimsProofs!RecordPaymentRequest,
      ClaimsProofs!AttachTicketsRequest, ClaimsProofs!ConfirmBookingRequest,
      ClaimsProofs!FailBookingRequest, ClaimsProofs!CancelBookingRequest,
      ClaimsProofs!RecordCompensationRequest, ClaimsProofs!Command,
      Claims!CompensationStatus, Claims!Evidence, Claims!Versions,
      Claims!AttachReservationRequest, Claims!ConfirmReservationRequest,
      Claims!StartPaymentRequest, Claims!RecordPaymentRequest, Claims!AttachTicketsRequest,
      Claims!ConfirmBookingRequest, Claims!FailBookingRequest, Claims!CancelBookingRequest,
      Claims!RecordCompensationRequest, Claims!Command
<1>29. ClaimsProofs!Tick <=> Claims!Tick
  BY DEF ClaimsProofs!Tick, Claims!Tick
<1>30. ClaimsProofs!Next <=> Claims!Next
  BY <1>17, <1>28, <1>29 DEF ClaimsProofs!CreateBookingRequest, ClaimsProofs!Next,
         Claims!CreateBookingRequest, Claims!Next
<1>31. ClaimsProofs!Init <=> Claims!Init
  BY DEF ClaimsProofs!Init, ClaimsProofs!Scopes, Claims!Init, Claims!Scopes
<1>32. [ClaimsProofs!Next]_(ClaimsProofs!vars) <=> [Claims!Next]_(Claims!vars)
  BY <1>30 DEF ClaimsProofs!vars, Claims!vars
<1> QED BY <1>31, <1>32, PTL DEF ClaimsProofs!Spec, Claims!Spec

\* It states the properties of Claims.
LEMMA ClaimsStated ==
  /\ ClaimsProofs!AnswersReflectRequests <=> Claims!AnswersReflectRequests
  /\ ClaimsProofs!ReservationHasOneOwner <=> Claims!ReservationHasOneOwner
<1>1. ClaimsProofs!AnswersReflectRequests <=> Claims!AnswersReflectRequests
  BY DEF ClaimsProofs!EvidenceIsRecorded, ClaimsProofs!Scopes, ClaimsProofs!AnswerReflects,
         ClaimsProofs!AnswersReflectRequests, Claims!EvidenceIsRecorded, Claims!Scopes,
         Claims!AnswerReflects, Claims!AnswersReflectRequests
<1>2. ClaimsProofs!ReservationHasOneOwner <=> Claims!ReservationHasOneOwner
  BY DEF ClaimsProofs!Cardinality, ClaimsProofs!Exists, ClaimsProofs!Owners,
         ClaimsProofs!ReservationHasOneOwner, Claims!Cardinality, Claims!Exists,
         Claims!Owners, Claims!ReservationHasOneOwner
<1> QED BY <1>1, <1>2

\* The constants of the part are such as the theorems are about.
LEMMA ClaimsAssumed ==
  /\ None \notin {r1, r2} \cup {p1} \cup {t1} \cup Reasons
  /\ None \notin STRING /\ None \notin Nat
  /\ None \notin ClaimsProofs!PaymentStatus /\ None \notin ClaimsProofs!BookingStatus
  /\ None \notin ClaimsProofs!Booking
  /\ ClaimsProofs!ServiceAssumption
<1>1. ClaimsProofs!Booking = Claims!Booking
  BY DEF ClaimsProofs!Booking, ClaimsProofs!BookingStatus, ClaimsProofs!PaymentStatus,
         ClaimsProofs!ReservationEvidenceStatus, ClaimsProofs!CompensationStatus,
         ClaimsProofs!CompensationAction, Claims!Booking, Claims!BookingStatus,
         Claims!PaymentStatus, Claims!ReservationEvidenceStatus, Claims!CompensationStatus,
         Claims!CompensationAction
<1>2. ClaimsProofs!IdempotencyRecord = Claims!IdempotencyRecord
  <2>1. ClaimsProofs!Requests = Claims!Requests
    BY DEF ClaimsProofs!PaymentStatus, ClaimsProofs!CompensationStatus,
           ClaimsProofs!Evidence, ClaimsProofs!Versions,
           ClaimsProofs!AttachReservationRequest, ClaimsProofs!ConfirmReservationRequest,
           ClaimsProofs!StartPaymentRequest, ClaimsProofs!RecordPaymentRequest,
           ClaimsProofs!AttachTicketsRequest, ClaimsProofs!ConfirmBookingRequest,
           ClaimsProofs!FailBookingRequest, ClaimsProofs!CancelBookingRequest,
           ClaimsProofs!RecordCompensationRequest, ClaimsProofs!CreateBookingRequest,
           ClaimsProofs!Requests, Claims!PaymentStatus, Claims!CompensationStatus,
           Claims!Evidence, Claims!Versions, Claims!AttachReservationRequest,
           Claims!ConfirmReservationRequest, Claims!StartPaymentRequest,
           Claims!RecordPaymentRequest, Claims!AttachTicketsRequest,
           Claims!ConfirmBookingRequest, Claims!FailBookingRequest,
           Claims!CancelBookingRequest, Claims!RecordCompensationRequest,
           Claims!CreateBookingRequest, Claims!Requests
  <2> QED BY <1>1, <2>1 DEF ClaimsProofs!IdempotencyRecord, Claims!IdempotencyRecord
<1>3. ClaimsProofs!ServiceAssumption
  BY ServiceAssumptions, <1>2
  DEF ClaimsProofs!ServiceAssumption, Claims!ServiceAssumption,
      ClaimsProofs!TTLPositive, Claims!TTLPositive
<1>4. None \notin ClaimsProofs!PaymentStatus /\ None \notin ClaimsProofs!BookingStatus
  BY NoneIsNoPaymentStatus, NoneIsNoBookingStatus
  DEF ClaimsProofs!PaymentStatus, ClaimsProofs!BookingStatus, PaymentStatus, BookingStatus
<1> QED BY ServiceAssumptions, NoneIsNoValue, <1>1, <1>3, <1>4

\* What the theorems about the service say of the part "claims".
LEMMA ClaimsAreCorrect ==
  Parts => [](part = "claims" =>
              /\ Claims!AnswersReflectRequests
              /\ Claims!ReservationHasOneOwner)
<1>1. Parts /\ part = "claims" => Claims!Spec
  <2>1. PartsInit /\ part = "claims" => Claims!Init
    BY DEF PartsInit
  <2>2. part = "claims" /\ [PartsNext]_<<part, vars, database, migration>>
          => (part = "claims")' /\ [Claims!Next]_(Claims!vars)
    BY DEF PartsNext, database, Claims!vars
  <2> QED BY <2>1, <2>2, PTL DEF Parts, Claims!Spec
<1>2. Parts /\ ~(part = "claims") => []~(part = "claims")
  <2>1. ~(part = "claims") /\ [PartsNext]_<<part, vars, database, migration>>
          => (~(part = "claims"))'
    BY DEF PartsNext
  <2> QED BY <2>1, PTL DEF Parts
<1>3. ClaimsProofs!Spec => []ClaimsProofs!AnswersReflectRequests
  BY ClaimsAssumed, ItemCountPositive, BoundsAreNaturals,
     ClaimsProofs!AnswersFitRequests
<1>4. ClaimsProofs!Spec => []ClaimsProofs!ReservationHasOneOwner
  BY ClaimsAssumed, ItemCountPositive, BoundsAreNaturals,
     ClaimsProofs!ReservationsKeepOneOwner
<1> QED BY <1>1, <1>2, <1>3, <1>4,
           ClaimsSpecified, ClaimsStated, PTL

\* Retries, replays, key expiry and commands that compete leave no gap in the audit trail,
\* no outcome announced twice or never, and no answer that was not committed or does not show
\* what was asked: RecordsAreTrue, the property of the run.
THEOREM RecordsStayTrue == Parts => []RecordsAreTrue
<1> QED BY ServiceIsCorrect, ClaimsAreCorrect, PTL DEF RecordsAreTrue

\* A key changes a booking once while its record is kept, and two bookings never hold one
\* reservation, although it is claimed by creation and by attachment: EffectsAreUnique, the
\* property of the run.
THEOREM EffectsStayUnique == Parts => []EffectsAreUnique
<1> QED BY ServiceIsCorrect, ClaimsAreCorrect, PTL DEF EffectsAreUnique
=============================================================================
