------------------------ MODULE BookingServiceProofs ------------------------
(***************************************************************************)
(* Proofs about BookingService, for every value of its constants: it       *)
(* implements BookingLifecycle, whose module is instantiated as Lifecycle, *)
(* and what it records, announces and answers is what it committed.        *)
(***************************************************************************)
EXTENDS BookingService, BookingAggregateProofs

\* The aggregate of the abstract specification is the service's.
LEMMA SameAggregate ==
  ASSUME NEW b, NEW r
  PROVE  /\ Lifecycle!CanAttachReservation(b, r, now) = CanAttachReservation(b, r, now)
         /\ Lifecycle!AttachReservationTo(b, r) = AttachReservationTo(b, r)
         /\ Lifecycle!CanConfirmReservation(b, r) = CanConfirmReservation(b, r)
         /\ Lifecycle!ConfirmReservationOf(b, r) = ConfirmReservationOf(b, r)
         /\ Lifecycle!CanStartPayment(b, r, now) = CanStartPayment(b, r, now)
         /\ Lifecycle!StartPaymentOf(b, r) = StartPaymentOf(b, r)
         /\ Lifecycle!CanRecordPayment(b, r) = CanRecordPayment(b, r)
         /\ Lifecycle!RecordPaymentOf(b, r) = RecordPaymentOf(b, r)
         /\ Lifecycle!CanAttachTickets(b, r) = CanAttachTickets(b, r)
         /\ Lifecycle!AttachTicketsTo(b, r) = AttachTicketsTo(b, r)
         /\ Lifecycle!CanConfirm(b, r) = CanConfirm(b, r)
         /\ Lifecycle!ConfirmOf(b) = ConfirmOf(b)
         /\ Lifecycle!CanFail(b, r) = CanFail(b, r)
         /\ Lifecycle!FailOf(b, r) = FailOf(b, r)
         /\ Lifecycle!CanCancel(b, r) = CanCancel(b, r)
         /\ Lifecycle!CancelOf(b, r) = CancelOf(b, r)
         /\ Lifecycle!CanRecordCompensation(b, r) = CanRecordCompensation(b, r)
         /\ Lifecycle!RecordCompensationOf(b, r) = RecordCompensationOf(b, r)
         /\ Lifecycle!ConfirmEvidenceMatches(b, r) = ConfirmEvidenceMatches(b, r)
<1>a. Lifecycle!AllowedTransitions = AllowedTransitions
  BY DEF AllowedTransitions, Lifecycle!AllowedTransitions, BookingStatus,
         Lifecycle!BookingStatus
<1>b. Lifecycle!UnsettledPayment = UnsettledPayment
  BY DEF UnsettledPayment, Lifecycle!UnsettledPayment
<1>c. ASSUME NEW S PROVE Lifecycle!Cardinality(S) = Cardinality(S)
  BY DEF Cardinality, Lifecycle!Cardinality
<1>d. ASSUME NEW x
      PROVE  /\ Lifecycle!ApplyCompensationEvidence(x, r.evidence)
                   = ApplyCompensationEvidence(x, r.evidence)
             /\ Lifecycle!RequiredCompensationAction(x) = RequiredCompensationAction(x)
             /\ \A action : /\ Lifecycle!MarkCompensationPending(x, action)
                                 = MarkCompensationPending(x, action)
                            /\ Lifecycle!CompensationRequirementsSatisfied(x, action)
                                 = CompensationRequirementsSatisfied(x, action)
             /\ Lifecycle!Touch(x) = Touch(x)
  <2>1. Lifecycle!ApplyCompensationEvidence(x, r.evidence)
          = ApplyCompensationEvidence(x, r.evidence)
    BY DEF ApplyCompensationEvidence, Lifecycle!ApplyCompensationEvidence,
           ResolvedPayment, Lifecycle!ResolvedPayment
  <2>2. Lifecycle!RequiredCompensationAction(x) = RequiredCompensationAction(x)
    BY <1>b DEF RequiredCompensationAction, Lifecycle!RequiredCompensationAction
  <2>3. ASSUME NEW action
        PROVE  /\ Lifecycle!MarkCompensationPending(x, action)
                     = MarkCompensationPending(x, action)
               /\ Lifecycle!CompensationRequirementsSatisfied(x, action)
                     = CompensationRequirementsSatisfied(x, action)
    BY <1>b DEF MarkCompensationPending, Lifecycle!MarkCompensationPending,
                CompensationRequirementsSatisfied,
                Lifecycle!CompensationRequirementsSatisfied, ReleaseActions,
                Lifecycle!ReleaseActions, RefundActions, Lifecycle!RefundActions
  <2>4. Lifecycle!Touch(x) = Touch(x)
    BY DEF Touch, Lifecycle!Touch
  <2> QED BY <2>1, <2>2, <2>3, <2>4
<1>e. ASSUME NEW x
      PROVE  /\ Lifecycle!TerminalAction(x, r.evidence) = TerminalAction(x, r.evidence)
             /\ Lifecycle!RequestedCompensation(x, r) = RequestedCompensation(x, r)
  <2>1. Lifecycle!TerminalAction(x, r.evidence) = TerminalAction(x, r.evidence)
    BY <1>d DEF TerminalAction, Lifecycle!TerminalAction
  <2> QED BY <1>d, <2>1 DEF RequestedCompensation, Lifecycle!RequestedCompensation
<1>f. ASSUME NEW x, NEW target
      PROVE  Lifecycle!BeginOrCompleteTerminalTransition(x, r, target)
               = BeginOrCompleteTerminalTransition(x, r, target)
  <2> DEFINE action  == TerminalAction(x, r.evidence)
             after   == ApplyCompensationEvidence(x, r.evidence)
             done    == [after EXCEPT
                           !.status                 = target,
                           !.compensationStatus     = IF action = "NONE" THEN "NOT_REQUIRED"
                                                                         ELSE "COMPLETED",
                           !.compensationAction     = action,
                           !.intendedTerminalStatus = None]
             pending == [after EXCEPT
                           !.status                 = "COMPENSATION_PENDING",
                           !.compensationStatus     = RequestedCompensation(x, r),
                           !.compensationAction     = action,
                           !.intendedTerminalStatus = target]
  <2>1. BeginOrCompleteTerminalTransition(x, r, target)
          = IF RequestedCompensation(x, r) = "COMPLETED"
              THEN Touch(done) ELSE Touch(MarkCompensationPending(pending, action))
    BY DEF BeginOrCompleteTerminalTransition
  <2>2. Lifecycle!BeginOrCompleteTerminalTransition(x, r, target)
          = IF RequestedCompensation(x, r) = "COMPLETED"
              THEN Lifecycle!Touch(done)
              ELSE Lifecycle!Touch(Lifecycle!MarkCompensationPending(pending, action))
    <3>1. /\ Lifecycle!ApplyCompensationEvidence(x, r.evidence) = after
          /\ Lifecycle!TerminalAction(x, r.evidence) = action
          /\ Lifecycle!RequestedCompensation(x, r) = RequestedCompensation(x, r)
      BY <1>d, <1>e
    <3> QED BY <3>1, Zenon DEF Lifecycle!BeginOrCompleteTerminalTransition
  <2> HIDE DEF done, pending, action
  <2> QED BY <1>d, <2>1, <2>2
<1>g. ASSUME NEW x, NEW target
      PROVE  Lifecycle!CanBeginTerminalTransition(x, r, target)
               = CanBeginTerminalTransition(x, r, target)
  BY <1>a, <1>b, <1>d, <1>e
     DEF CanBeginTerminalTransition, Lifecycle!CanBeginTerminalTransition,
         EvidenceAccepted, Lifecycle!EvidenceAccepted, ResolvedPayment,
         Lifecycle!ResolvedPayment
<1>1. Lifecycle!CanAttachReservation(b, r, now) = CanAttachReservation(b, r, now)
  BY DEF CanAttachReservation, Lifecycle!CanAttachReservation
<1>2. Lifecycle!AttachReservationTo(b, r) = AttachReservationTo(b, r)
  BY DEF AttachReservationTo, Lifecycle!AttachReservationTo, Touch, Lifecycle!Touch
<1>3. Lifecycle!CanConfirmReservation(b, r) = CanConfirmReservation(b, r)
  BY DEF CanConfirmReservation, Lifecycle!CanConfirmReservation
<1>4. Lifecycle!ConfirmReservationOf(b, r) = ConfirmReservationOf(b, r)
  BY DEF ConfirmReservationOf, Lifecycle!ConfirmReservationOf, Touch,
         Lifecycle!Touch
<1>5. Lifecycle!CanStartPayment(b, r, now) = CanStartPayment(b, r, now)
  BY <1>a DEF CanStartPayment, Lifecycle!CanStartPayment
<1>6. Lifecycle!StartPaymentOf(b, r) = StartPaymentOf(b, r)
  BY DEF StartPaymentOf, Lifecycle!StartPaymentOf, Touch, Lifecycle!Touch
<1>7. Lifecycle!CanRecordPayment(b, r) = CanRecordPayment(b, r)
  BY <1>b DEF CanRecordPayment, Lifecycle!CanRecordPayment
<1>8. Lifecycle!RecordPaymentOf(b, r) = RecordPaymentOf(b, r)
  BY <1>b DEF RecordPaymentOf, Lifecycle!RecordPaymentOf, Touch, Lifecycle!Touch,
         RequiredCompensationAction, Lifecycle!RequiredCompensationAction,
         MarkCompensationPending, Lifecycle!MarkCompensationPending, ReleaseActions,
         Lifecycle!ReleaseActions, RefundActions, Lifecycle!RefundActions,
         ApplyPaymentOutcome, Lifecycle!ApplyPaymentOutcome
<1>9. Lifecycle!CanAttachTickets(b, r) = CanAttachTickets(b, r)
  BY <1>c DEF CanAttachTickets, Lifecycle!CanAttachTickets
<1>10. Lifecycle!AttachTicketsTo(b, r) = AttachTicketsTo(b, r)
  BY DEF AttachTicketsTo, Lifecycle!AttachTicketsTo, Touch, Lifecycle!Touch
<1>11. Lifecycle!CanConfirm(b, r) = CanConfirm(b, r)
  BY <1>a, <1>c DEF CanConfirm, Lifecycle!CanConfirm
<1>12. Lifecycle!ConfirmOf(b) = ConfirmOf(b)
  BY DEF ConfirmOf, Lifecycle!ConfirmOf, Touch, Lifecycle!Touch
<1>13. Lifecycle!CanFail(b, r) = CanFail(b, r)
  BY <1>g DEF CanFail, Lifecycle!CanFail, ActiveBookingStatuses,
         Lifecycle!ActiveBookingStatuses, WithFailureReason,
         Lifecycle!WithFailureReason
<1>14. Lifecycle!FailOf(b, r) = FailOf(b, r)
  BY <1>f DEF FailOf, Lifecycle!FailOf, WithFailureReason,
         Lifecycle!WithFailureReason
<1>15. Lifecycle!CanCancel(b, r) = CanCancel(b, r)
  BY <1>g DEF CanCancel, Lifecycle!CanCancel, CancelPaymentStatusAllowed,
         Lifecycle!CancelPaymentStatusAllowed, PaymentStatus,
         Lifecycle!PaymentStatus, ApplyCancelPaymentStatus,
         Lifecycle!ApplyCancelPaymentStatus
<1>16. Lifecycle!CancelOf(b, r) = CancelOf(b, r)
  BY <1>f DEF CancelOf, Lifecycle!CancelOf, ApplyCancelPaymentStatus,
         Lifecycle!ApplyCancelPaymentStatus
<1>h. /\ Lifecycle!ResultAction(b, r.evidence) = ResultAction(b, r.evidence)
      /\ Lifecycle!CompensatedBy(b, r) = CompensatedBy(b, r)
  BY <1>d, ZenonT(60) DEF ResultAction, Lifecycle!ResultAction, CompensatedBy, Lifecycle!CompensatedBy
<1>17. Lifecycle!CanRecordCompensation(b, r) = CanRecordCompensation(b, r)
  BY <1>a, <1>b, <1>d, <1>h
     DEF CanRecordCompensation, Lifecycle!CanRecordCompensation,
         EvidenceAccepted, Lifecycle!EvidenceAccepted, ResolvedPayment,
         Lifecycle!ResolvedPayment
<1>18. Lifecycle!RecordCompensationOf(b, r) = RecordCompensationOf(b, r)
  BY <1>d, <1>h, ZenonT(60) DEF RecordCompensationOf, Lifecycle!RecordCompensationOf
<1>19. Lifecycle!ConfirmEvidenceMatches(b, r) = ConfirmEvidenceMatches(b, r)
  BY DEF ConfirmEvidenceMatches, Lifecycle!ConfirmEvidenceMatches
<1> QED BY <1>1, <1>2, <1>3, <1>4, <1>5, <1>6, <1>7, <1>8, <1>9, <1>10, <1>11, <1>12,
         <1>13, <1>14, <1>15, <1>16, <1>17, <1>18, <1>19, Zenon

\* What every command of the service does to the table: nothing, when it answers
\* as already applied, or one write that the aggregate accepted.
LEMMA ExecuteWrites ==
  ASSUME NEW scope, NEW key, NEW r, NEW id, NEW conflicts, NEW applied, NEW accepted,
         NEW after, NEW events,
         Execute(scope, key, r, id, conflicts, applied, accepted, after, events)
  PROVE  /\ now' = now
         /\ ~conflicts
         /\ \/ bookings' = bookings
            \/ accepted /\ Lifecycle!Store(id, after)
BY DEF Execute, AnswerAsApplied, Record, Lifecycle!Store

\* A request that names the booking's version is one the abstract command takes.
LEMMA SameRequests ==
  ASSUME NEW v, NEW r, r.expectedVersion = v
  PROVE  /\ r \in AttachReservationRequest(Versions) =>
             r \in Lifecycle!AttachReservationRequest({v})
         /\ r \in ConfirmReservationRequest(Versions) =>
             r \in Lifecycle!ConfirmReservationRequest({v})
         /\ r \in StartPaymentRequest(Versions) =>
             r \in Lifecycle!StartPaymentRequest({v})
         /\ r \in RecordPaymentRequest(Versions) =>
             r \in Lifecycle!RecordPaymentRequest({v})
         /\ r \in AttachTicketsRequest(Versions) =>
             r \in Lifecycle!AttachTicketsRequest({v})
         /\ r \in ConfirmBookingRequest(Versions) =>
             r \in Lifecycle!ConfirmBookingRequest({v})
         /\ r \in FailBookingRequest(Versions) =>
             r \in Lifecycle!FailBookingRequest({v})
         /\ r \in CancelBookingRequest(Versions) =>
             r \in Lifecycle!CancelBookingRequest({v})
         /\ r \in RecordCompensationRequest(Versions) =>
             r \in Lifecycle!RecordCompensationRequest({v})
<1>1. r \in AttachReservationRequest(Versions) =>
             r \in Lifecycle!AttachReservationRequest({v})
  BY DEF AttachReservationRequest, Lifecycle!AttachReservationRequest
<1>2. r \in ConfirmReservationRequest(Versions) =>
             r \in Lifecycle!ConfirmReservationRequest({v})
  BY DEF ConfirmReservationRequest, Lifecycle!ConfirmReservationRequest
<1>3. r \in StartPaymentRequest(Versions) =>
             r \in Lifecycle!StartPaymentRequest({v})
  BY DEF StartPaymentRequest, Lifecycle!StartPaymentRequest
<1>4. r \in RecordPaymentRequest(Versions) =>
             r \in Lifecycle!RecordPaymentRequest({v})
  BY DEF RecordPaymentRequest, Lifecycle!RecordPaymentRequest, PaymentStatus,
         Lifecycle!PaymentStatus
<1>5. r \in AttachTicketsRequest(Versions) =>
             r \in Lifecycle!AttachTicketsRequest({v})
  BY DEF AttachTicketsRequest, Lifecycle!AttachTicketsRequest
<1>6. r \in ConfirmBookingRequest(Versions) =>
             r \in Lifecycle!ConfirmBookingRequest({v})
  BY DEF ConfirmBookingRequest, Lifecycle!ConfirmBookingRequest, PaymentStatus,
         Lifecycle!PaymentStatus
<1>7. r \in FailBookingRequest(Versions) =>
             r \in Lifecycle!FailBookingRequest({v})
  BY DEF FailBookingRequest, Lifecycle!FailBookingRequest, CompensationStatus,
         Lifecycle!CompensationStatus, Evidence, Lifecycle!Evidence
<1>8. r \in CancelBookingRequest(Versions) =>
             r \in Lifecycle!CancelBookingRequest({v})
  BY DEF CancelBookingRequest, Lifecycle!CancelBookingRequest, PaymentStatus,
         Lifecycle!PaymentStatus, CompensationStatus, Lifecycle!CompensationStatus,
         Evidence, Lifecycle!Evidence
<1>9. r \in RecordCompensationRequest(Versions) =>
             r \in Lifecycle!RecordCompensationRequest({v})
  BY DEF RecordCompensationRequest, Lifecycle!RecordCompensationRequest,
         CompensationStatus, Lifecycle!CompensationStatus, Evidence, Lifecycle!Evidence
<1> QED BY <1>1, <1>2, <1>3, <1>4, <1>5, <1>6, <1>7, <1>8, <1>9

\* Every command of the service is the abstract command with the same arguments,
\* or leaves the bookings alone.
LEMMA CommandRefines ==
  ASSUME NEW id \in BookingIds, NEW key, Command(id, key)
  PROVE  Lifecycle!Command(id) \/ UNCHANGED <<bookings, now>>
<1> USE DEF Lifecycle!Command, Lifecycle!CurrentVersion, Lifecycle!Exists, Exists
<1>1. ASSUME NEW r \in AttachReservationRequest(Versions), AttachReservation(id, key, r)
      PROVE  Lifecycle!Command(id) \/ UNCHANGED <<bookings, now>>
  <2>1. /\ Exists(id) /\ now' = now
        /\ \/ bookings' = bookings
           \/ /\ CanAttachReservation(bookings[id], r, now)
              /\ Lifecycle!Store(id, AttachReservationTo(bookings[id], r))
    BY <1>1, ExecuteWrites DEF AttachReservation
  <2>2. Lifecycle!Owners(r.reservationId) \subseteq {id}
    BY <1>1 DEF AttachReservation, MayClaim, Owners, Lifecycle!Owners
  <2>3. CASE bookings' # bookings
    <3>1. r.expectedVersion = bookings[id].resourceVersion
      BY <2>1, <2>3 DEF CanAttachReservation
    <3>2. r \in Lifecycle!AttachReservationRequest(Lifecycle!CurrentVersion(id))
      BY <2>1, <3>1, SameRequests
    <3>3. Lifecycle!AttachReservation(id, r)
      BY <2>1, <2>2, <2>3, SameAggregate DEF Lifecycle!AttachReservation
    <3> QED BY <3>2, <3>3
  <2> QED BY <2>1, <2>3
<1>2. ASSUME NEW r \in ConfirmReservationRequest(Versions), ConfirmReservation(id, key, r)
      PROVE  Lifecycle!Command(id) \/ UNCHANGED <<bookings, now>>
  <2>1. /\ Exists(id) /\ now' = now
        /\ \/ bookings' = bookings
           \/ /\ CanConfirmReservation(bookings[id], r)
              /\ Lifecycle!Store(id, ConfirmReservationOf(bookings[id], r))
    BY <1>2, ExecuteWrites DEF ConfirmReservation
  <2>3. CASE bookings' # bookings
    <3>1. r.expectedVersion = bookings[id].resourceVersion
      BY <2>1, <2>3 DEF CanConfirmReservation
    <3>2. r \in Lifecycle!ConfirmReservationRequest(Lifecycle!CurrentVersion(id))
      BY <2>1, <3>1, SameRequests
    <3>3. Lifecycle!ConfirmReservation(id, r)
      BY <2>1, <2>3, SameAggregate DEF Lifecycle!ConfirmReservation
    <3> QED BY <3>2, <3>3
  <2> QED BY <2>1, <2>3
<1>3. ASSUME NEW r \in StartPaymentRequest(Versions), StartPayment(id, key, r)
      PROVE  Lifecycle!Command(id) \/ UNCHANGED <<bookings, now>>
  <2>1. /\ Exists(id) /\ now' = now
        /\ \/ bookings' = bookings
           \/ /\ CanStartPayment(bookings[id], r, now)
              /\ Lifecycle!Store(id, StartPaymentOf(bookings[id], r))
    BY <1>3, ExecuteWrites DEF StartPayment
  <2>3. CASE bookings' # bookings
    <3>1. r.expectedVersion = bookings[id].resourceVersion
      BY <2>1, <2>3 DEF CanStartPayment
    <3>2. r \in Lifecycle!StartPaymentRequest(Lifecycle!CurrentVersion(id))
      BY <2>1, <3>1, SameRequests
    <3>3. Lifecycle!StartPayment(id, r)
      BY <2>1, <2>3, SameAggregate DEF Lifecycle!StartPayment
    <3> QED BY <3>2, <3>3
  <2> QED BY <2>1, <2>3
<1>4. ASSUME NEW r \in RecordPaymentRequest(Versions), RecordPayment(id, key, r)
      PROVE  Lifecycle!Command(id) \/ UNCHANGED <<bookings, now>>
  <2>1. /\ Exists(id) /\ now' = now
        /\ \/ bookings' = bookings
           \/ /\ CanRecordPayment(bookings[id], r)
              /\ Lifecycle!Store(id, RecordPaymentOf(bookings[id], r))
    BY <1>4, ExecuteWrites DEF RecordPayment
  <2>3. CASE bookings' # bookings
    <3>1. r.expectedVersion = bookings[id].resourceVersion
      BY <2>1, <2>3 DEF CanRecordPayment
    <3>2. r \in Lifecycle!RecordPaymentRequest(Lifecycle!CurrentVersion(id))
      BY <2>1, <3>1, SameRequests
    <3>3. Lifecycle!RecordPayment(id, r)
      BY <2>1, <2>3, SameAggregate DEF Lifecycle!RecordPayment
    <3> QED BY <3>2, <3>3
  <2> QED BY <2>1, <2>3
<1>5. ASSUME NEW r \in AttachTicketsRequest(Versions), AttachTickets(id, key, r)
      PROVE  Lifecycle!Command(id) \/ UNCHANGED <<bookings, now>>
  <2>1. /\ Exists(id) /\ now' = now
        /\ \/ bookings' = bookings
           \/ /\ CanAttachTickets(bookings[id], r)
              /\ Lifecycle!Store(id, AttachTicketsTo(bookings[id], r))
    BY <1>5, ExecuteWrites DEF AttachTickets
  <2>3. CASE bookings' # bookings
    <3>1. r.expectedVersion = bookings[id].resourceVersion
      BY <2>1, <2>3 DEF CanAttachTickets
    <3>2. r \in Lifecycle!AttachTicketsRequest(Lifecycle!CurrentVersion(id))
      BY <2>1, <3>1, SameRequests
    <3>3. Lifecycle!AttachTickets(id, r)
      BY <2>1, <2>3, SameAggregate DEF Lifecycle!AttachTickets
    <3> QED BY <3>2, <3>3
  <2> QED BY <2>1, <2>3
<1>6. ASSUME NEW r \in ConfirmBookingRequest(Versions), ConfirmBooking(id, key, r)
      PROVE  Lifecycle!Command(id) \/ UNCHANGED <<bookings, now>>
  <2>1. /\ Exists(id) /\ now' = now
        /\ \/ bookings' = bookings
           \/ /\ CanConfirm(bookings[id], r)
              /\ Lifecycle!Store(id, ConfirmOf(bookings[id]))
    BY <1>6, ExecuteWrites DEF ConfirmBooking
  <2>2. Lifecycle!ConfirmEvidenceMatches(bookings[id], r)
    BY <1>6, ExecuteWrites, SameAggregate DEF ConfirmBooking
  <2>3. CASE bookings' # bookings
    <3>1. r.expectedVersion = bookings[id].resourceVersion
      BY <2>1, <2>3 DEF CanConfirm
    <3>2. r \in Lifecycle!ConfirmBookingRequest(Lifecycle!CurrentVersion(id))
      BY <2>1, <3>1, SameRequests
    <3>3. Lifecycle!ConfirmBooking(id, r)
      BY <2>1, <2>2, <2>3, SameAggregate DEF Lifecycle!ConfirmBooking
    <3> QED BY <3>2, <3>3
  <2> QED BY <2>1, <2>3
<1>7. ASSUME NEW r \in FailBookingRequest(Versions), FailBooking(id, key, r)
      PROVE  Lifecycle!Command(id) \/ UNCHANGED <<bookings, now>>
  <2>1. /\ Exists(id) /\ now' = now
        /\ \/ bookings' = bookings
           \/ /\ CanFail(bookings[id], r)
              /\ Lifecycle!Store(id, FailOf(bookings[id], r))
    BY <1>7, ExecuteWrites DEF FailBooking
  <2>3. CASE bookings' # bookings
    <3>1. r.expectedVersion = bookings[id].resourceVersion
      BY <2>1, <2>3 DEF CanFail
    <3>2. r \in Lifecycle!FailBookingRequest(Lifecycle!CurrentVersion(id))
      BY <2>1, <3>1, SameRequests
    <3>3. Lifecycle!FailBooking(id, r)
      BY <2>1, <2>3, SameAggregate DEF Lifecycle!FailBooking
    <3> QED BY <3>2, <3>3
  <2> QED BY <2>1, <2>3
<1>8. ASSUME NEW r \in CancelBookingRequest(Versions), CancelBooking(id, key, r)
      PROVE  Lifecycle!Command(id) \/ UNCHANGED <<bookings, now>>
  <2>1. /\ Exists(id) /\ now' = now
        /\ \/ bookings' = bookings
           \/ /\ CanCancel(bookings[id], r)
              /\ Lifecycle!Store(id, CancelOf(bookings[id], r))
    BY <1>8, ExecuteWrites DEF CancelBooking
  <2>3. CASE bookings' # bookings
    <3>1. r.expectedVersion = bookings[id].resourceVersion
      BY <2>1, <2>3 DEF CanCancel
    <3>2. r \in Lifecycle!CancelBookingRequest(Lifecycle!CurrentVersion(id))
      BY <2>1, <3>1, SameRequests
    <3>3. Lifecycle!CancelBooking(id, r)
      BY <2>1, <2>3, SameAggregate DEF Lifecycle!CancelBooking
    <3> QED BY <3>2, <3>3
  <2> QED BY <2>1, <2>3
<1>9. ASSUME NEW r \in RecordCompensationRequest(Versions), RecordCompensation(id, key, r)
      PROVE  Lifecycle!Command(id) \/ UNCHANGED <<bookings, now>>
  <2>1. /\ Exists(id) /\ now' = now
        /\ \/ bookings' = bookings
           \/ /\ CanRecordCompensation(bookings[id], r)
              /\ Lifecycle!Store(id, RecordCompensationOf(bookings[id], r))
    BY <1>9, ExecuteWrites DEF RecordCompensation
  <2>3. CASE bookings' # bookings
    <3>1. r.expectedVersion = bookings[id].resourceVersion
      BY <2>1, <2>3 DEF CanRecordCompensation
    <3>2. r \in Lifecycle!RecordCompensationRequest(Lifecycle!CurrentVersion(id))
      BY <2>1, <3>1, SameRequests
    <3>3. Lifecycle!RecordCompensation(id, r)
      BY <2>1, <2>3, SameAggregate DEF Lifecycle!RecordCompensation
    <3> QED BY <3>2, <3>3
  <2> QED BY <2>1, <2>3
<1> QED BY <1>1, <1>2, <1>3, <1>4, <1>5, <1>6, <1>7, <1>8, <1>9 DEF Command

\* CreateBooking stores a new booking that claims a free reservation, or answers
\* with one that is already stored.
LEMMA CreateBookingRefines ==
  ASSUME NEW key, NEW r \in CreateBookingRequest, CreateBooking(key, r)
  PROVE  \/ UNCHANGED <<bookings, now>>
         \/ \E id \in BookingIds, d \in Details, rid \in ReservationIds \cup {None} :
              Lifecycle!CreateBooking(id, d, rid)
<1> DEFINE claimed == IF r.reservationId = None THEN {} ELSE Owners(r.reservationId)
<1>1. CASE bookings' = bookings
  BY <1>1 DEF CreateBooking
<1>2. CASE bookings' # bookings
  <2>1. PICK id \in BookingIds :
          /\ claimed = {} /\ ~Exists(id)
          /\ Record("CreateBooking", key, id, None, FromRequest(r.details, r.reservationId),
                    {"booking.created"})
    BY <1>2 DEF CreateBooking, AnswerAsApplied
  <2>2. Lifecycle!FromRequest(r.details, r.reservationId)
          = FromRequest(r.details, r.reservationId)
    BY DEF FromRequest, Lifecycle!FromRequest
  <2>3. Lifecycle!Store(id, Lifecycle!FromRequest(r.details, r.reservationId))
    BY <2>1, <2>2 DEF Record, Lifecycle!Store
  <2>4. r.reservationId # None => Lifecycle!Owners(r.reservationId) = {}
    BY <2>1 DEF Owners, Exists, Lifecycle!Owners, Lifecycle!Exists
  <2>5. Lifecycle!CreateBooking(id, r.details, r.reservationId)
    BY <2>1, <2>3, <2>4 DEF CreateBooking, Lifecycle!CreateBooking, Exists, Lifecycle!Exists
  <2>6. r.details \in Details /\ r.reservationId \in ReservationIds \cup {None}
    BY DEF CreateBookingRequest
  <2> QED BY <2>5, <2>6
<1> QED BY <1>1, <1>2

\* Whatever keys expire, whatever is replayed or answered as already applied, the
\* bookings change only as the aggregate alone would change them: execute_transition
\* and _open_booking implement the lifecycle.
THEOREM ServiceImplementsLifecycle == Spec => ImplementsLifecycle
<1>1. Init => Lifecycle!Init
  BY DEF Init, Lifecycle!Init
<1>2. [Next]_vars => [Lifecycle!Next]_(Lifecycle!vars)
  <2> SUFFICES ASSUME [Next]_vars PROVE [Lifecycle!Next]_(Lifecycle!vars)
    OBVIOUS
  <2> USE DEF Lifecycle!vars
  <2>1. CASE Tick
    BY <2>1 DEF Tick, Lifecycle!Tick, Lifecycle!Next
  <2>2. ASSUME NEW key \in Keys, NEW r \in Offered \cap CreateBookingRequest,
               CreateBooking(key, r)
        PROVE  [Lifecycle!Next]_(Lifecycle!vars)
    BY <2>2, CreateBookingRefines DEF Lifecycle!Next
  <2>3. ASSUME NEW key \in Keys, NEW id \in BookingIds, Command(id, key)
        PROVE  [Lifecycle!Next]_(Lifecycle!vars)
    BY <2>3, CommandRefines DEF Lifecycle!Next
  <2>4. CASE UNCHANGED vars
    BY <2>4 DEF vars
  <2> QED BY <2>1, <2>2, <2>3, <2>4 DEF Next
<1> QED BY <1>1, <1>2, PTL DEF Spec, ImplementsLifecycle, Lifecycle!Spec

-----------------------------------------------------------------------------
(* What a transaction does. *)

\* What every stored booking satisfies, whichever command left it.
Fit(b) == Sound(b) /\ RefundIsMarked(b) /\ ReasonsFit(b)

\* The tables are well formed, and so is every booking in them.
StoredInv ==
  /\ TypeOK
  /\ \A id \in BookingIds : Exists(id) => Fit(bookings[id])

\* The record that SaveReplay stores.
Saved(r, id, b, t) == [request |-> r, bookingId |-> id, response |-> b, expiresAt |-> t]

\* The events a command announces with the status it leaves.
Announces(b) ==
  IF b.status = "CONFIRMED" THEN {"booking.confirmed"} ELSE ClosingEvents(b)

\* The transaction answers with the booking as it stands.
Answers(scope, key, r, id) ==
  /\ Exists(id)
  /\ AnswerAsApplied(scope, key, r, id)
  /\ UNCHANGED now
  /\ AnswerReflects(scope, Saved(r, id, bookings[id], now + TTL))

\* The transaction writes the booking b: a new one, or what a command made of it.
Opens(id, previous, b, events) ==
  /\ ~Exists(id)
  /\ previous = None
  /\ b.resourceVersion = 1 /\ b.status = "PENDING"
  /\ events = {"booking.created"}

Proceeds(id, previous, b, events) ==
  /\ Exists(id)
  /\ previous = bookings[id].status
  /\ Continues(bookings[id], b) /\ Moves(bookings[id], b)
  /\ events = Announces(b)

Claims(id, b) ==
  \/ b.reservationId = None
  \/ Exists(id) /\ b.reservationId = bookings[id].reservationId
  \/ Owners(b.reservationId) \subseteq {id}

Writes(scope, key, r, id, previous, b, events) ==
  /\ Record(scope, key, id, previous, b, events)
  /\ SaveReplay(scope, key, r, id, b)
  /\ UNCHANGED now
  /\ Fit(b) /\ Claims(id, b)
  /\ Opens(id, previous, b, events) \/ Proceeds(id, previous, b, events)
  /\ AnswerReflects(scope, Saved(r, id, b, now + TTL))

\* Time passes, or nothing happens.
Waits ==
  /\ UNCHANGED <<bookings, idempotency, audit, outbox>>
  /\ now' \in Nat /\ now' >= now

\* One transaction under a key, after nothing was found to replay.
Transaction(scope, key, r, id) ==
  /\ NothingToReplay(scope, key)
  /\ \/ Answers(scope, key, r, id)
     \/ \E previous, b, events : Writes(scope, key, r, id, previous, b, events)

\* Every request a command receives is one of the requests.
LEMMA RequestsContain ==
  ASSUME NEW r
  PROVE  /\ r \in CreateBookingRequest => r \in Requests
         /\ r \in AttachReservationRequest(Versions) => r \in Requests
         /\ r \in ConfirmReservationRequest(Versions) => r \in Requests
         /\ r \in StartPaymentRequest(Versions) => r \in Requests
         /\ r \in RecordPaymentRequest(Versions) => r \in Requests
         /\ r \in AttachTicketsRequest(Versions) => r \in Requests
         /\ r \in ConfirmBookingRequest(Versions) => r \in Requests
         /\ r \in FailBookingRequest(Versions) => r \in Requests
         /\ r \in CancelBookingRequest(Versions) => r \in Requests
         /\ r \in RecordCompensationRequest(Versions) => r \in Requests
BY DEF Requests

\* A command of execute_transition is a transaction, once the booking it leaves
\* and the two answers it may give are known to be right.
LEMMA ExecuteIs ==
  ASSUME NEW scope, NEW key, NEW r, NEW id, NEW conflicts, NEW applied, NEW accepted,
         NEW after, NEW events,
         Exists(id), NothingToReplay(scope, key),
         Execute(scope, key, r, id, conflicts, applied, accepted, after, events),
         ~conflicts /\ applied => AnswerReflects(scope, Saved(r, id, bookings[id], now + TTL)),
         accepted => /\ Fit(after) /\ Claims(id, after)
                     /\ Continues(bookings[id], after) /\ Moves(bookings[id], after)
                     /\ events = Announces(after)
                     /\ AnswerReflects(scope, Saved(r, id, after, now + TTL))
  PROVE  Transaction(scope, key, r, id)
<1>1. CASE applied /\ AnswerAsApplied(scope, key, r, id)
  BY <1>1 DEF Execute, Transaction, Answers
<1>2. CASE /\ accepted
           /\ Record(scope, key, id, bookings[id].status, after, events)
           /\ SaveReplay(scope, key, r, id, after)
  <2>1. Writes(scope, key, r, id, bookings[id].status, after, events)
    BY <1>2 DEF Execute, Writes, Proceeds
  <2> QED BY <2>1 DEF Transaction
<1> QED BY <1>1, <1>2 DEF Execute

\* CreateBooking opens a new booking on a free reservation, or answers with the
\* booking that owns the reservation and was created by the same payload.
LEMMA CreateBookingIs ==
  ASSUME NEW key, NEW r \in CreateBookingRequest, CreateBooking(key, r)
  PROVE  \E id \in BookingIds : Transaction("CreateBooking", key, r, id)
<1> DEFINE claimed == IF r.reservationId = None THEN {} ELSE Owners(r.reservationId)
<1>1. NothingToReplay("CreateBooking", key)
  BY DEF CreateBooking
<1>2. ASSUME NEW id \in claimed, SameCreation(id, r),
             AnswerAsApplied("CreateBooking", key, r, id), UNCHANGED now
      PROVE  id \in BookingIds /\ Transaction("CreateBooking", key, r, id)
  <2>1. /\ id \in BookingIds /\ Exists(id)
        /\ bookings[id].reservationId = r.reservationId
    BY <1>2 DEF Owners
  <2>2. AnswerReflects("CreateBooking", Saved(r, id, bookings[id], now + TTL))
    BY <1>2, <2>1 DEF AnswerReflects, Saved, SameCreation
  <2> QED BY <1>1, <1>2, <2>1, <2>2 DEF Transaction, Answers
<1>3. ASSUME claimed = {}, NEW id \in BookingIds, ~Exists(id), UNCHANGED now,
             Record("CreateBooking", key, id, None, FromRequest(r.details, r.reservationId),
                    {"booking.created"}),
             SaveReplay("CreateBooking", key, r, id, FromRequest(r.details, r.reservationId))
      PROVE  Transaction("CreateBooking", key, r, id)
  <2> DEFINE b == FromRequest(r.details, r.reservationId)
  <2>1. r.details \in Details /\ r.reservationId \in ReservationIds \cup {None}
    BY DEF CreateBookingRequest
  <2>2. /\ b.resourceVersion = 1 /\ b.status = "PENDING" /\ b.details = r.details
        /\ b.reservationId = r.reservationId
        /\ b.failureReason = None /\ b.cancellationReason = None
    BY DEF FromRequest
  <2>3. Sound(b)
    BY <2>1, FromRequestSound
  <2> HIDE DEF b
  <2>4. Fit(b)
    BY <2>2, <2>3 DEF Fit, RefundIsMarked, ReasonsFit
  <2>5. Claims(id, b)
    BY <1>3, <2>2 DEF Claims
  <2>6. AnswerReflects("CreateBooking", Saved(r, id, b, now + TTL))
    BY <2>2 DEF AnswerReflects, Saved
  <2>7. Writes("CreateBooking", key, r, id, None, b, {"booking.created"})
    BY <1>3, <2>2, <2>4, <2>5, <2>6 DEF Writes, Opens, b
  <2> QED BY <1>1, <2>7 DEF Transaction
<1> QED BY <1>2, <1>3 DEF CreateBooking

\* What the answer of each command shows, when it is answered as already applied
\* and when it is applied.
LEMMA AttachReservationAnswers ==
  ASSUME NEW id, NEW b \in Booking, NEW r \in AttachReservationRequest(Versions), NEW t
  PROVE  /\ ~AttachReservationConflicts(b, r) /\ AttachReservationApplied(b, r) =>
              AnswerReflects("AttachReservation", Saved(r, id, b, t))
         /\ AnswerReflects("AttachReservation", Saved(r, id, AttachReservationTo(b, r), t))
BY DEF AttachReservationConflicts, AttachReservationApplied, AttachmentRecorded,
       AttachReservationTo, Touch, AnswerReflects, Saved, Booking

\* Both statuses of a started payment count.
LEMMA StartPaymentAnswers ==
  ASSUME NEW id, NEW b \in Booking, NEW r \in StartPaymentRequest(Versions), NEW t
  PROVE  /\ ~StartPaymentConflicts(b, r) /\ StartPaymentApplied(b, r) =>
              AnswerReflects("StartPayment", Saved(r, id, b, t))
         /\ AnswerReflects("StartPayment", Saved(r, id, StartPaymentOf(b, r), t))
BY DEF StartPaymentConflicts, StartPaymentApplied, StartPaymentOf, Touch, AnswerReflects,
       Saved, Booking

\* A confirmation answers nothing of its own here: the confirmation of the seats is
\* what ConfirmedAnswersAreConfirmed is about.
LEMMA ConfirmReservationAnswers ==
  ASSUME NEW record
  PROVE  AnswerReflects("ConfirmReservation", record)
BY DEF AnswerReflects

\* The recorded outcome is the reported one; SUCCEEDED may stand as REFUND_PENDING.
LEMMA RecordPaymentAnswers ==
  ASSUME NEW id, NEW b \in Booking, ReasonsFit(b), NEW r \in RecordPaymentRequest(Versions),
         NEW t
  PROVE  /\ ~RecordPaymentConflicts(b, r) /\ RecordPaymentApplied(b, r) =>
              AnswerReflects("RecordPayment", Saved(r, id, b, t))
         /\ CanRecordPayment(b, r) =>
              AnswerReflects("RecordPayment", Saved(r, id, RecordPaymentOf(b, r), t))
<1>1. ~RecordPaymentConflicts(b, r) /\ RecordPaymentApplied(b, r) =>
        AnswerReflects("RecordPayment", Saved(r, id, b, t))
  BY DEF RecordPaymentConflicts, RecordPaymentApplied, AnswerReflects, Saved
<1>2. CanRecordPayment(b, r) =>
        AnswerReflects("RecordPayment", Saved(r, id, RecordPaymentOf(b, r), t))
  BY RecordPaymentMoves DEF AnswerReflects, Saved
<1> QED BY <1>1, <1>2

\* The tickets are the ones that were sent.
LEMMA AttachTicketsAnswers ==
  ASSUME NEW id, NEW b \in Booking, NEW r \in AttachTicketsRequest(Versions), NEW t
  PROVE  /\ ~AttachTicketsConflicts(b, r) /\ AttachTicketsApplied(b, r) =>
              AnswerReflects("AttachTickets", Saved(r, id, b, t))
         /\ AnswerReflects("AttachTickets", Saved(r, id, AttachTicketsTo(b, r), t))
BY DEF AttachTicketsConflicts, AttachTicketsApplied, AttachTicketsTo, Touch,
       AnswerReflects, Saved, Booking

\* The booking is CONFIRMED.
LEMMA ConfirmBookingAnswers ==
  ASSUME NEW id, NEW b \in Booking, ReasonsFit(b), NEW r, NEW t
  PROVE  /\ b.status = "CONFIRMED" => AnswerReflects("ConfirmBooking", Saved(r, id, b, t))
         /\ CanConfirm(b, r) => AnswerReflects("ConfirmBooking", Saved(r, id, ConfirmOf(b), t))
BY ConfirmBookingMoves DEF AnswerReflects, Saved

\* The booking fails for the reason that was sent.  A booking under compensation
\* that records this reason is meant to fail: ReasonsFit.
LEMMA FailBookingAnswers ==
  ASSUME NEW id, NEW b \in Booking, ReasonsFit(b), NEW r \in FailBookingRequest(Versions),
         NEW t
  PROVE  /\ ~FailBookingConflicts(b, r) /\ FailBookingApplied(b, r) =>
              AnswerReflects("FailBooking", Saved(r, id, b, t))
         /\ CanFail(b, r) => AnswerReflects("FailBooking", Saved(r, id, FailOf(b, r), t))
<1>1. r.reason # None
  BY NoneIsNoValue DEF FailBookingRequest
<1>2. ~FailBookingConflicts(b, r) /\ FailBookingApplied(b, r) =>
        AnswerReflects("FailBooking", Saved(r, id, b, t))
  BY <1>1 DEF FailBookingConflicts, FailBookingApplied, ReasonsFit, AnswerReflects, Saved
<1>3. CanFail(b, r) => AnswerReflects("FailBooking", Saved(r, id, FailOf(b, r), t))
  BY FailBookingMoves DEF AnswerReflects, Saved
<1> QED BY <1>2, <1>3

\* The booking is cancelled for the reason that was sent.
LEMMA CancelBookingAnswers ==
  ASSUME NEW id, NEW b \in Booking, ReasonsFit(b), NEW r \in CancelBookingRequest(Versions),
         NEW t
  PROVE  /\ ~CancelBookingConflicts(b, r) /\ CancelBookingApplied(b, r) =>
              AnswerReflects("CancelBooking", Saved(r, id, b, t))
         /\ CanCancel(b, r) => AnswerReflects("CancelBooking", Saved(r, id, CancelOf(b, r), t))
<1>1. r.reason # None
  BY NoneIsNoValue DEF CancelBookingRequest
<1>2. ~CancelBookingConflicts(b, r) /\ CancelBookingApplied(b, r) =>
        AnswerReflects("CancelBooking", Saved(r, id, b, t))
  BY <1>1 DEF CancelBookingConflicts, CancelBookingApplied, ReasonsFit, AnswerReflects, Saved
<1>3. CanCancel(b, r) => AnswerReflects("CancelBooking", Saved(r, id, CancelOf(b, r), t))
  BY CancelBookingMoves DEF AnswerReflects, Saved
<1> QED BY <1>2, <1>3

\* The evidence that was sent is recorded, and a completed compensation has closed
\* the booking: a booking under compensation never counts it as completed.
LEMMA RecordCompensationAnswers ==
  ASSUME NEW id, NEW b, Fit(b), NEW r \in RecordCompensationRequest(Versions), NEW t
  PROVE  /\ RecordCompensationApplied(b, r) =>
              AnswerReflects("RecordCompensation", Saved(r, id, b, t))
         /\ CanRecordCompensation(b, r) =>
              AnswerReflects("RecordCompensation", Saved(r, id, RecordCompensationOf(b, r), t))
<1> DEFINE q == [r EXCEPT !.evidence.resolvedPaymentStatus = None]
<1>1. /\ q.evidence.reservationReleased = r.evidence.reservationReleased
      /\ q.evidence.paymentRefunded = r.evidence.paymentRefunded
      /\ q.evidence.resolvedPaymentStatus = None /\ q.reason = r.reason
  BY DEF RecordCompensationRequest, Evidence
<1> HIDE DEF q
<1>2. ASSUME RecordCompensationApplied(b, r)
      PROVE  /\ EvidenceIsRecorded(b, q)
             /\ r.compensationStatus = "COMPLETED" => b.status \in {"FAILED", "CANCELLED"}
  BY <1>1, <1>2 DEF RecordCompensationApplied, EvidenceIsRecorded, Fit, Sound, EvidenceFitsStatus
<1>3. ASSUME CanRecordCompensation(b, r)
      PROVE  /\ EvidenceIsRecorded(RecordCompensationOf(b, r), q)
             /\ r.compensationStatus = "COMPLETED" =>
                  RecordCompensationOf(b, r).status \in {"FAILED", "CANCELLED"}
  BY <1>1, <1>3, RecordCompensationMoves DEF EvidenceIsRecorded, Fit
<1> QED BY <1>2, <1>3 DEF AnswerReflects, Saved, q

\* Every command on a stored booking is a transaction of its own scope.
LEMMA CommandIs ==
  ASSUME StoredInv, NEW id \in BookingIds, NEW key, Command(id, key)
  PROVE  \E scope \in Scopes, r \in Requests : Transaction(scope, key, r, id)
<1> DEFINE b == bookings[id]
<1> SUFFICES ASSUME Exists(id)
             PROVE  \E scope \in Scopes, r \in Requests : Transaction(scope, key, r, id)
  BY DEF Command, AttachReservation, ConfirmReservation, StartPayment, RecordPayment,
         AttachTickets, ConfirmBooking, FailBooking, CancelBooking, RecordCompensation
<1>0. Fit(b) /\ b \in Booking /\ Sound(b) /\ RefundIsMarked(b) /\ ReasonsFit(b)
  BY DEF StoredInv, Fit, Sound
<1> HIDE DEF b
<1>1. ASSUME NEW r \in AttachReservationRequest(Versions), AttachReservation(id, key, r)
      PROVE  Transaction("AttachReservation", key, r, id)
  <2> DEFINE c == AttachReservationTo(b, r)
  <2>1. CanAttachReservation(b, r, now) =>
          /\ Sound(c) /\ Continues(b, c) /\ Moves(b, c)
          /\ c.reservationId = r.reservationId /\ c.status = "SEAT_RESERVED"
    BY <1>0, AttachReservationSound, AttachReservationContinues, AttachReservationMoves
  <2>2. CanAttachReservation(b, r, now) => Fit(c) /\ Claims(id, c) /\ {} = Announces(c)
    BY <1>1, <2>1 DEF AttachReservation, MayClaim, Claims, Fit, Continues, Moves, Announces,
                      ClosingEvents
  <2>3. /\ ~AttachReservationConflicts(b, r) /\ AttachReservationApplied(b, r) =>
             AnswerReflects("AttachReservation", Saved(r, id, b, now + TTL))
        /\ AnswerReflects("AttachReservation", Saved(r, id, c, now + TTL))
    BY <1>0, AttachReservationAnswers
  <2> HIDE DEF c
  <2> QED BY <1>1, <2>1, <2>2, <2>3, ExecuteIs DEF AttachReservation, b, c
<1>2. ASSUME NEW r \in ConfirmReservationRequest(Versions), ConfirmReservation(id, key, r)
      PROVE  Transaction("ConfirmReservation", key, r, id)
  <2> DEFINE c == ConfirmReservationOf(b, r)
  <2>1. CanConfirmReservation(b, r) =>
          /\ Sound(c) /\ Continues(b, c) /\ Moves(b, c)
          /\ c.reservationId = b.reservationId /\ c.status = "PAYMENT_PROCESSING"
    BY <1>0, ConfirmReservationSound, ConfirmReservationContinues, ConfirmReservationMoves
  <2>2. CanConfirmReservation(b, r) => Fit(c) /\ Claims(id, c) /\ {} = Announces(c)
    BY <2>1 DEF Claims, Fit, Continues, Moves, Announces, ClosingEvents, b
  <2> HIDE DEF c
  <2> QED BY <1>2, <2>1, <2>2, ConfirmReservationAnswers, ExecuteIs
          DEF ConfirmReservation, b, c
<1>3. ASSUME NEW r \in StartPaymentRequest(Versions), StartPayment(id, key, r)
      PROVE  Transaction("StartPayment", key, r, id)
  <2> DEFINE c == StartPaymentOf(b, r)
  <2>1. CanStartPayment(b, r, now) =>
          /\ Sound(c) /\ Continues(b, c) /\ Moves(b, c)
          /\ c.reservationId = b.reservationId /\ c.status = "PAYMENT_PROCESSING"
    BY <1>0, StartPaymentSound, StartPaymentContinues, StartPaymentMoves
  <2>2. CanStartPayment(b, r, now) => Fit(c) /\ Claims(id, c) /\ {} = Announces(c)
    BY <2>1 DEF Claims, Fit, Continues, Moves, Announces, ClosingEvents, b
  <2>3. /\ ~StartPaymentConflicts(b, r) /\ StartPaymentApplied(b, r) =>
             AnswerReflects("StartPayment", Saved(r, id, b, now + TTL))
        /\ AnswerReflects("StartPayment", Saved(r, id, c, now + TTL))
    BY <1>0, StartPaymentAnswers
  <2> HIDE DEF c
  <2> QED BY <1>3, <2>1, <2>2, <2>3, ExecuteIs DEF StartPayment, b, c
<1>4. ASSUME NEW r \in RecordPaymentRequest(Versions), RecordPayment(id, key, r)
      PROVE  Transaction("RecordPayment", key, r, id)
  <2> DEFINE c == RecordPaymentOf(b, r)
  <2>1. CanRecordPayment(b, r) =>
          /\ Sound(c) /\ Continues(b, c) /\ Moves(b, c)
          /\ c.reservationId = b.reservationId
          /\ c.status \in {"PAYMENT_PROCESSING", "COMPENSATION_PENDING"}
    BY <1>0, RecordPaymentSound, RecordPaymentContinues, RecordPaymentMoves
  <2>2. CanRecordPayment(b, r) => Fit(c) /\ Claims(id, c) /\ {} = Announces(c)
    BY <2>1 DEF Claims, Fit, Continues, Moves, Announces, ClosingEvents, b
  <2>3. /\ ~RecordPaymentConflicts(b, r) /\ RecordPaymentApplied(b, r) =>
             AnswerReflects("RecordPayment", Saved(r, id, b, now + TTL))
        /\ CanRecordPayment(b, r) =>
             AnswerReflects("RecordPayment", Saved(r, id, c, now + TTL))
    BY <1>0, RecordPaymentAnswers
  <2> HIDE DEF c
  <2> QED BY <1>4, <2>1, <2>2, <2>3, ExecuteIs DEF RecordPayment, b, c
<1>5. ASSUME NEW r \in AttachTicketsRequest(Versions), AttachTickets(id, key, r)
      PROVE  Transaction("AttachTickets", key, r, id)
  <2> DEFINE c == AttachTicketsTo(b, r)
  <2>1. CanAttachTickets(b, r) =>
          /\ Sound(c) /\ Continues(b, c) /\ Moves(b, c)
          /\ c.reservationId = b.reservationId /\ c.status = "PAYMENT_PROCESSING"
    BY <1>0, AttachTicketsSound, AttachTicketsContinues, AttachTicketsMoves
  <2>2. CanAttachTickets(b, r) => Fit(c) /\ Claims(id, c) /\ {} = Announces(c)
    BY <2>1 DEF Claims, Fit, Continues, Moves, Announces, ClosingEvents, b
  <2>3. /\ ~AttachTicketsConflicts(b, r) /\ AttachTicketsApplied(b, r) =>
             AnswerReflects("AttachTickets", Saved(r, id, b, now + TTL))
        /\ AnswerReflects("AttachTickets", Saved(r, id, c, now + TTL))
    BY <1>0, AttachTicketsAnswers
  <2> HIDE DEF c
  <2> QED BY <1>5, <2>1, <2>2, <2>3, ExecuteIs DEF AttachTickets, b, c
<1>6. ASSUME NEW r \in ConfirmBookingRequest(Versions), ConfirmBooking(id, key, r)
      PROVE  Transaction("ConfirmBooking", key, r, id)
  <2> DEFINE c == ConfirmOf(b)
  <2>1. CanConfirm(b, r) =>
          /\ Sound(c) /\ Continues(b, c) /\ Moves(b, c)
          /\ c.reservationId = b.reservationId /\ c.status = "CONFIRMED"
    BY <1>0, ConfirmBookingSound, ConfirmBookingContinues, ConfirmBookingMoves
  <2>2. CanConfirm(b, r) =>
          Fit(c) /\ Claims(id, c) /\ {"booking.confirmed"} = Announces(c)
    BY <2>1 DEF Claims, Fit, Continues, Moves, Announces, b
  <2>3. /\ b.status = "CONFIRMED" =>
             AnswerReflects("ConfirmBooking", Saved(r, id, b, now + TTL))
        /\ CanConfirm(b, r) =>
             AnswerReflects("ConfirmBooking", Saved(r, id, c, now + TTL))
    BY <1>0, ConfirmBookingAnswers
  <2> HIDE DEF c
  <2> QED BY <1>6, <2>1, <2>2, <2>3, ExecuteIs DEF ConfirmBooking, b, c
<1>7. ASSUME NEW r \in FailBookingRequest(Versions), FailBooking(id, key, r)
      PROVE  Transaction("FailBooking", key, r, id)
  <2> DEFINE c == FailOf(b, r)
  <2>1. CanFail(b, r) =>
          /\ Sound(c) /\ Continues(b, c) /\ Moves(b, c)
          /\ c.reservationId = b.reservationId
          /\ c.status \in {"FAILED", "COMPENSATION_PENDING"}
    BY <1>0, FailBookingSound, FailBookingContinues, FailBookingMoves
  <2>2. CanFail(b, r) => Fit(c) /\ Claims(id, c) /\ ClosingEvents(c) = Announces(c)
    BY <2>1 DEF Claims, Fit, Continues, Moves, Announces, b
  <2>3. /\ ~FailBookingConflicts(b, r) /\ FailBookingApplied(b, r) =>
             AnswerReflects("FailBooking", Saved(r, id, b, now + TTL))
        /\ CanFail(b, r) => AnswerReflects("FailBooking", Saved(r, id, c, now + TTL))
    BY <1>0, FailBookingAnswers
  <2> HIDE DEF c
  <2> QED BY <1>7, <2>1, <2>2, <2>3, ExecuteIs DEF FailBooking, b, c
<1>8. ASSUME NEW r \in CancelBookingRequest(Versions), CancelBooking(id, key, r)
      PROVE  Transaction("CancelBooking", key, r, id)
  <2> DEFINE c == CancelOf(b, r)
  <2>1. CanCancel(b, r) =>
          /\ Sound(c) /\ Continues(b, c) /\ Moves(b, c)
          /\ c.reservationId = b.reservationId
          /\ c.status \in {"CANCELLED", "COMPENSATION_PENDING"}
    BY <1>0, CancelBookingSound, CancelBookingContinues, CancelBookingMoves
  <2>2. CanCancel(b, r) => Fit(c) /\ Claims(id, c) /\ ClosingEvents(c) = Announces(c)
    BY <2>1 DEF Claims, Fit, Continues, Moves, Announces, b
  <2>3. /\ ~CancelBookingConflicts(b, r) /\ CancelBookingApplied(b, r) =>
             AnswerReflects("CancelBooking", Saved(r, id, b, now + TTL))
        /\ CanCancel(b, r) => AnswerReflects("CancelBooking", Saved(r, id, c, now + TTL))
    BY <1>0, CancelBookingAnswers
  <2> HIDE DEF c
  <2> QED BY <1>8, <2>1, <2>2, <2>3, ExecuteIs DEF CancelBooking, b, c
<1>9. ASSUME NEW r \in RecordCompensationRequest(Versions), RecordCompensation(id, key, r)
      PROVE  Transaction("RecordCompensation", key, r, id)
  <2> DEFINE c == RecordCompensationOf(b, r)
  <2>1. CanRecordCompensation(b, r) =>
          /\ Sound(c) /\ Continues(b, c) /\ Moves(b, c)
          /\ c.reservationId = b.reservationId
          /\ c.status \in {"COMPENSATION_PENDING", "FAILED", "CANCELLED"}
    BY <1>0, RecordCompensationSound, RecordCompensationContinues, RecordCompensationMoves
  <2>2. CanRecordCompensation(b, r) =>
          Fit(c) /\ Claims(id, c) /\ ClosingEvents(c) = Announces(c)
    BY <2>1 DEF Claims, Fit, Continues, Moves, Announces, b
  <2>3. /\ RecordCompensationApplied(b, r) =>
             AnswerReflects("RecordCompensation", Saved(r, id, b, now + TTL))
        /\ CanRecordCompensation(b, r) =>
             AnswerReflects("RecordCompensation", Saved(r, id, c, now + TTL))
    BY <1>0, RecordCompensationAnswers
  <2> HIDE DEF c
  <2> QED BY <1>9, <2>1, <2>2, <2>3, ExecuteIs DEF RecordCompensation, b, c
<1> QED
  BY <1>1, <1>2, <1>3, <1>4, <1>5, <1>6, <1>7, <1>8, <1>9, RequestsContain
     DEF Command, Scopes

\* Every step waits or is one transaction.
LEMMA NextIs ==
  ASSUME StoredInv, [Next]_vars
  PROVE  \/ Waits
         \/ \E scope \in Scopes, key \in Keys, r \in Requests, id \in BookingIds :
              Transaction(scope, key, r, id)
<1>1. CASE Tick \/ UNCHANGED vars
  BY <1>1 DEF Tick, vars, Waits, StoredInv, TypeOK
<1>2. ASSUME NEW key \in Keys, NEW r \in Offered \cap CreateBookingRequest,
             CreateBooking(key, r)
      PROVE  \E scope \in Scopes, q \in Requests, id \in BookingIds :
               Transaction(scope, key, q, id)
  BY <1>2, CreateBookingIs, RequestsContain DEF Scopes
<1>3. ASSUME NEW key \in Keys, NEW id \in BookingIds, Command(id, key)
      PROVE  \E scope \in Scopes, r \in Requests : Transaction(scope, key, r, id)
  BY <1>3, CommandIs
<1> QED BY <1>1, <1>2, <1>3 DEF Next

-----------------------------------------------------------------------------
(* The tables keep their types and their bookings stay fit. *)

\* What a transaction stores under its key.
LEMMA SavesOne ==
  ASSUME ServiceAssumption, StoredInv, NEW scope \in Scopes, NEW key \in Keys,
         NEW r \in Requests, NEW id \in BookingIds, NEW b \in Booking,
         SaveReplay(scope, key, r, id, b)
  PROVE  /\ idempotency' = [idempotency EXCEPT ![<<scope, key>>] = Saved(r, id, b, now + TTL)]
         /\ Saved(r, id, b, now + TTL) \in IdempotencyRecord
         /\ Saved(r, id, b, now + TTL) # None
         /\ idempotency'[<<scope, key>>] = Saved(r, id, b, now + TTL)
         /\ \A sk \in Scopes \X Keys : sk # <<scope, key>> => idempotency'[sk] = idempotency[sk]
         /\ idempotency' \in [Scopes \X Keys -> IdempotencyRecord \cup {None}]
<1> DEFINE saved == Saved(r, id, b, now + TTL)
<1>1. idempotency \in [Scopes \X Keys -> IdempotencyRecord \cup {None}]
  BY DEF StoredInv, TypeOK
<1>2. idempotency' = [idempotency EXCEPT ![<<scope, key>>] = saved]
  BY DEF SaveReplay, Saved
<1>3. saved \in IdempotencyRecord
  <2>1. now + TTL \in Nat
    BY DEF ServiceAssumption, TTLPositive, StoredInv, TypeOK
  <2> QED BY <2>1 DEF Saved, IdempotencyRecord
<1>4. saved # None
  BY <1>3 DEF ServiceAssumption
<1>5. <<scope, key>> \in Scopes \X Keys
  OBVIOUS
<1> HIDE DEF saved
<1> QED BY <1>1, <1>2, <1>3, <1>4, <1>5 DEF saved

\* What a transaction that writes a booking leaves in the other tables.
LEMMA WriteMakes ==
  ASSUME ServiceAssumption, StoredInv, NEW scope \in Scopes, NEW key \in Keys,
         NEW r \in Requests, NEW id \in BookingIds, NEW previous, NEW b, NEW events,
         Writes(scope, key, r, id, previous, b, events)
  PROVE  LET row == AuditRowFor(scope, key, id, previous, b)
         IN  /\ b \in Booking /\ b # None
             /\ bookings' = [bookings EXCEPT ![id] = b]
             /\ bookings'[id] = b
             /\ \A x \in BookingIds : x # id => bookings'[x] = bookings[x]
             /\ audit' = audit \cup {row}
             /\ row \in AuditRow
             /\ row.bookingId = id /\ row.resourceVersion = b.resourceVersion
             /\ row.operation = scope /\ row.key = key
             /\ row.previousStatus = previous /\ row.newStatus = b.status
             /\ row.occurredAt = now
             /\ outbox' = outbox \cup {[bookingId |-> id, version |-> b.resourceVersion,
                                        type |-> e] : e \in events}
             /\ events \subseteq EventType
             /\ now' = now
<1> DEFINE row == AuditRowFor(scope, key, id, previous, b)
<1>1. b \in Booking /\ b # None
  BY NoneIsNoBooking DEF Writes, Fit, Sound
<1>2. /\ bookings \in [BookingIds -> Booking \cup {None}] /\ now \in Nat
  BY DEF StoredInv, TypeOK
<1>3. bookings' = [bookings EXCEPT ![id] = b] /\ audit' = audit \cup {row} /\ now' = now
  BY DEF Writes, Record
<1>4. outbox' = outbox \cup {[bookingId |-> id, version |-> b.resourceVersion, type |-> e] :
                               e \in events}
  BY DEF Writes, Record
<1>5. previous \in BookingStatus \cup {None} /\ events \subseteq EventType
  <2>1. CASE Opens(id, previous, b, events)
    BY <2>1 DEF Opens, EventType
  <2>2. CASE Proceeds(id, previous, b, events)
    <3>1. bookings[id] \in Booking
      BY <1>2, <2>2 DEF Proceeds, Exists
    <3>2. Announces(b) \subseteq EventType
      BY DEF Announces, ClosingEvents, EventType
    <3> QED BY <2>2, <3>1, <3>2 DEF Proceeds, Booking
  <2> QED BY <2>1, <2>2 DEF Writes
<1>6. /\ row.bookingId = id /\ row.resourceVersion = b.resourceVersion
      /\ row.operation = scope /\ row.key = key
      /\ row.previousStatus = previous /\ row.newStatus = b.status /\ row.occurredAt = now
  BY DEF AuditRowFor
<1>7. row \in AuditRow
  BY <1>1, <1>2, <1>5 DEF AuditRowFor, AuditRow, Booking
<1> HIDE DEF row
<1>8. /\ bookings'[id] = b
      /\ \A x \in BookingIds : x # id => bookings'[x] = bookings[x]
  BY <1>2, <1>3
<1> QED BY <1>1, <1>3, <1>4, <1>5, <1>6, <1>7, <1>8 DEF row

\* What a transaction that answers as already applied does: it stores the answer.
LEMMA AnswerMakes ==
  ASSUME ServiceAssumption, StoredInv, NEW scope \in Scopes, NEW key \in Keys,
         NEW r \in Requests, NEW id \in BookingIds, Answers(scope, key, r, id)
  PROVE  /\ UNCHANGED <<bookings, audit, outbox, now>>
         /\ bookings[id] \in Booking
         /\ SaveReplay(scope, key, r, id, bookings[id])
BY DEF Answers, AnswerAsApplied, StoredInv, Fit, Sound

\* Every transaction keeps the types and leaves fit bookings.
LEMMA NextKeepsStored ==
  ASSUME ServiceAssumption, StoredInv, [Next]_vars
  PROVE  StoredInv'
<1> SUFFICES ASSUME NEW scope \in Scopes, NEW key \in Keys, NEW r \in Requests,
                    NEW id \in BookingIds, Transaction(scope, key, r, id)
             PROVE  StoredInv'
  BY NextIs DEF Waits, StoredInv, TypeOK, Exists
<1>1. CASE Answers(scope, key, r, id)
  <2>1. /\ UNCHANGED <<bookings, audit, outbox, now>>
        /\ bookings[id] \in Booking /\ SaveReplay(scope, key, r, id, bookings[id])
    BY <1>1, AnswerMakes
  <2>2. idempotency' \in [Scopes \X Keys -> IdempotencyRecord \cup {None}]
    BY <2>1, SavesOne
  <2> QED BY <2>1, <2>2 DEF StoredInv, TypeOK, Exists
<1>2. ASSUME NEW previous, NEW b, NEW events,
             Writes(scope, key, r, id, previous, b, events)
      PROVE  StoredInv'
  <2> DEFINE row == AuditRowFor(scope, key, id, previous, b)
  <2>1. /\ b \in Booking /\ bookings' = [bookings EXCEPT ![id] = b] /\ bookings'[id] = b
        /\ \A x \in BookingIds : x # id => bookings'[x] = bookings[x]
        /\ audit' = audit \cup {row} /\ row \in AuditRow /\ now' = now
        /\ outbox' = outbox \cup {[bookingId |-> id, version |-> b.resourceVersion,
                                   type |-> e] : e \in events}
        /\ events \subseteq EventType
    BY <1>2, WriteMakes
  <2> HIDE DEF row
  <2>2. Fit(b) /\ SaveReplay(scope, key, r, id, b)
    BY <1>2 DEF Writes
  <2>3. idempotency' \in [Scopes \X Keys -> IdempotencyRecord \cup {None}]
    BY <2>1, <2>2, SavesOne
  <2>4. outbox' \subseteq OutboxEvent
    <3>1. \A e \in events : [bookingId |-> id, version |-> b.resourceVersion, type |-> e]
                              \in OutboxEvent
      BY <2>1 DEF OutboxEvent, Booking
    <3> QED BY <2>1, <3>1 DEF StoredInv, TypeOK
  <2>5. /\ bookings' \in [BookingIds -> Booking \cup {None}]
        /\ audit' \subseteq AuditRow /\ now' \in Nat
    BY <2>1 DEF StoredInv, TypeOK
  <2>6. \A x \in BookingIds : bookings'[x] # None => Fit(bookings'[x])
    BY <2>1, <2>2 DEF StoredInv, Exists
  <2> QED BY <2>3, <2>4, <2>5, <2>6 DEF StoredInv, TypeOK, Exists
<1> QED BY <1>1, <1>2 DEF Transaction

\* StoredInv holds in every reachable state.
LEMMA StoredInvHolds == ASSUME ServiceAssumption PROVE Spec => []StoredInv
<1>1. Init => StoredInv
  BY DEF Init, StoredInv, TypeOK, Exists
<1>2. StoredInv /\ [Next]_vars => StoredInv'
  BY NextKeepsStored
<1> QED BY <1>1, <1>2, PTL DEF Spec

\* The pipeline writes well-formed bookings, answers, audit rows and events.
THEOREM TypeCorrect == ASSUME ServiceAssumption PROVE Spec => []TypeOK
<1>1. StoredInv => TypeOK
  BY DEF StoredInv
<1> QED BY <1>1, StoredInvHolds, PTL

-----------------------------------------------------------------------------
(* One booking per reservation. *)

\* A set whose members are all equal has at most one.
LEMMA AtMostOne ==
  ASSUME NEW S, \A x, y \in S : x = y
  PROVE  Cardinality(S) \in Nat /\ Cardinality(S) <= 1
<1>1. CASE S = {}
  BY <1>1, FS_EmptySet
<1>2. CASE S # {}
  <2>1. PICK x \in S : S = {x}
    BY <1>2
  <2> QED BY <2>1, FS_Singleton
<1> QED BY <1>1, <1>2

\* Two bookings that name the same reservation are the same.
OneOwner ==
  \A x, y \in BookingIds :
    /\ Exists(x) /\ Exists(y)
    /\ bookings[x].reservationId # None
    /\ bookings[x].reservationId = bookings[y].reservationId
    => x = y

\* Every command that claims a reservation has looked the others up.
LEMMA NextKeepsOwners ==
  ASSUME ServiceAssumption, StoredInv, OneOwner, [Next]_vars
  PROVE  OneOwner'
<1> SUFFICES ASSUME NEW scope \in Scopes, NEW key \in Keys, NEW r \in Requests,
                    NEW id \in BookingIds, Transaction(scope, key, r, id)
             PROVE  OneOwner'
  BY NextIs DEF Waits, OneOwner, Exists
<1>1. CASE Answers(scope, key, r, id)
  BY <1>1, AnswerMakes DEF OneOwner, Exists
<1>2. ASSUME NEW previous, NEW b, NEW events,
             Writes(scope, key, r, id, previous, b, events)
      PROVE  OneOwner'
  <2>1. /\ b # None /\ bookings'[id] = b
        /\ \A x \in BookingIds : x # id => bookings'[x] = bookings[x]
    BY <1>2, WriteMakes
  <2>2. ASSUME NEW x \in BookingIds, x # id, Exists(x), b.reservationId # None,
               bookings[x].reservationId = b.reservationId
        PROVE  FALSE
    <3>1. CASE Exists(id) /\ b.reservationId = bookings[id].reservationId
      BY <2>2, <3>1 DEF OneOwner
    <3>2. CASE Owners(b.reservationId) \subseteq {id}
      BY <2>2, <3>2 DEF Owners
    <3> QED BY <1>2, <2>2, <3>1, <3>2 DEF Writes, Claims
  <2>3. ASSUME NEW x \in BookingIds, NEW y \in BookingIds,
               bookings'[x] # None, bookings'[y] # None,
               bookings'[x].reservationId # None,
               bookings'[x].reservationId = bookings'[y].reservationId
        PROVE  x = y
    BY <2>1, <2>2, <2>3 DEF OneOwner, Exists
  <2> QED BY <2>3 DEF OneOwner, Exists
<1> QED BY <1>1, <1>2 DEF Transaction

\* uq_booking_reservation: no reservation is held by two bookings, although it can
\* be claimed by CreateBooking and by AttachReservation, under any keys.
THEOREM ReservationsKeepOneOwner ==
  ASSUME ServiceAssumption PROVE Spec => []ReservationHasOneOwner
<1>1. Init => OneOwner
  BY DEF Init, OneOwner, Exists
<1>2. StoredInv /\ OneOwner /\ [Next]_vars => OneOwner'
  BY NextKeepsOwners
<1>3. OneOwner => ReservationHasOneOwner
  <2> SUFFICES ASSUME OneOwner, NEW rid \in ReservationIds
               PROVE  Cardinality(Owners(rid)) <= 1
    BY DEF ReservationHasOneOwner
  <2>1. rid # None
    BY NoneIsNoValue
  <2>2. \A x, y \in Owners(rid) : x = y
    BY <2>1 DEF OneOwner, Owners
  <2> QED BY <2>2, AtMostOne
<1> QED BY <1>1, <1>2, <1>3, StoredInvHolds, PTL DEF Spec

-----------------------------------------------------------------------------
(* The audit trail is the history. *)

\* The rows of a booking are told apart by their version.
RowsAreOne ==
  \A x, y \in audit :
    x.bookingId = y.bookingId /\ x.resourceVersion = y.resourceVersion => x = y

\* A row is about a version its booking has reached, and the last row leaves the
\* status the booking has.
RowsAreReached ==
  \A row \in audit :
    /\ Exists(row.bookingId)
    /\ row.resourceVersion <= bookings[row.bookingId].resourceVersion
    /\ row.resourceVersion = bookings[row.bookingId].resourceVersion =>
         row.newStatus = bookings[row.bookingId].status
    /\ row.resourceVersion = 1 <=> row.previousStatus = None
    /\ row.occurredAt <= now

VersionsHaveRows ==
  \A id \in BookingIds : Exists(id) =>
    \A v \in 1 .. bookings[id].resourceVersion :
      \E row \in audit : row.bookingId = id /\ row.resourceVersion = v

RowsAreLinked ==
  \A x, y \in audit :
    x.bookingId = y.bookingId /\ y.resourceVersion = x.resourceVersion + 1 =>
      y.previousStatus = x.newStatus

TrailInv == RowsAreOne /\ RowsAreReached /\ VersionsHaveRows /\ RowsAreLinked

\* A write appends the row of the next version of its booking.
LEMMA WriteExtends ==
  ASSUME ServiceAssumption, StoredInv, TrailInv, NEW scope \in Scopes, NEW key \in Keys,
         NEW r \in Requests, NEW id \in BookingIds, NEW previous, NEW b, NEW events,
         Writes(scope, key, r, id, previous, b, events)
  PROVE  /\ b.resourceVersion \in Nat \ {0}
         /\ Exists(id) => /\ bookings[id].resourceVersion \in Nat \ {0}
                          /\ b.resourceVersion = bookings[id].resourceVersion + 1
                          /\ previous = bookings[id].status /\ previous # None
         /\ ~Exists(id) => b.resourceVersion = 1 /\ previous = None
         /\ \A x \in audit : x.bookingId = id => Exists(id) /\ x.resourceVersion < b.resourceVersion
<1>1. b \in Booking /\ audit \subseteq AuditRow
  BY WriteMakes DEF StoredInv, TypeOK
<1>2. CASE Opens(id, previous, b, events)
  BY <1>1, <1>2 DEF Opens, Booking, TrailInv, RowsAreReached
<1>3. CASE Proceeds(id, previous, b, events)
  <2>1. bookings[id] \in Booking /\ bookings[id].status # None
    <3>1. bookings[id] \in Booking
      BY <1>3 DEF Proceeds, StoredInv, Fit, Sound
    <3> QED BY <3>1, NoneIsNoBookingStatus DEF Booking
  <2>2. bookings[id].resourceVersion \in Nat \ {0} /\ b.resourceVersion \in Nat \ {0}
    BY <1>1, <2>1 DEF Booking
  <2>3. b.resourceVersion = bookings[id].resourceVersion + 1
    BY <1>3 DEF Proceeds, Continues
  <2>4. \A x \in audit : x.bookingId = id =>
          /\ x.resourceVersion \in Nat
          /\ x.resourceVersion <= bookings[id].resourceVersion
    BY <1>1 DEF AuditRow, TrailInv, RowsAreReached
  <2> QED BY <1>3, <2>1, <2>2, <2>3, <2>4 DEF Proceeds
<1> QED BY <1>2, <1>3 DEF Writes

\* Every step keeps the trail.
LEMMA NextKeepsTrail ==
  ASSUME ServiceAssumption, StoredInv, TrailInv, [Next]_vars
  PROVE  TrailInv'
<1>0. CASE Waits
  <2>1. \A row \in audit : row.occurredAt \in Nat
    BY DEF StoredInv, TypeOK, AuditRow
  <2>2. RowsAreReached'
    BY <1>0, <2>1 DEF Waits, StoredInv, TypeOK, TrailInv, RowsAreReached, Exists
  <2> QED BY <1>0, <2>2 DEF Waits, TrailInv, RowsAreOne, VersionsHaveRows, RowsAreLinked, Exists
<1> SUFFICES ASSUME NEW scope \in Scopes, NEW key \in Keys, NEW r \in Requests,
                    NEW id \in BookingIds, Transaction(scope, key, r, id)
             PROVE  TrailInv'
  BY <1>0, NextIs
<1>1. CASE Answers(scope, key, r, id)
  BY <1>1, AnswerMakes
     DEF TrailInv, RowsAreOne, RowsAreReached, VersionsHaveRows, RowsAreLinked, Exists
<1>2. ASSUME NEW previous, NEW b, NEW events,
             Writes(scope, key, r, id, previous, b, events)
      PROVE  TrailInv'
  <2> DEFINE row == AuditRowFor(scope, key, id, previous, b)
  <2>1. /\ b # None /\ bookings'[id] = b
        /\ \A x \in BookingIds : x # id => bookings'[x] = bookings[x]
        /\ audit' = audit \cup {row}
        /\ row.bookingId = id /\ row.resourceVersion = b.resourceVersion
        /\ row.previousStatus = previous /\ row.newStatus = b.status
        /\ row.occurredAt = now /\ now' = now
    BY <1>2, WriteMakes
  <2> HIDE DEF row
  <2>2. /\ b.resourceVersion \in Nat \ {0}
        /\ Exists(id) => /\ bookings[id].resourceVersion \in Nat \ {0}
                         /\ b.resourceVersion = bookings[id].resourceVersion + 1
                         /\ previous = bookings[id].status /\ previous # None
        /\ ~Exists(id) => b.resourceVersion = 1 /\ previous = None
        /\ \A x \in audit : x.bookingId = id =>
             Exists(id) /\ x.resourceVersion < b.resourceVersion
    BY <1>2, WriteExtends
  <2>3. /\ \A x \in audit : x.bookingId \in BookingIds /\ x.resourceVersion \in Nat
        /\ now \in Nat
    BY DEF StoredInv, TypeOK, AuditRow
  <2>4. RowsAreOne'
    BY <2>1, <2>2, <2>3 DEF TrailInv, RowsAreOne
  <2>5. RowsAreReached'
    <3>1. ASSUME NEW x \in audit', x # row
          PROVE  /\ bookings'[x.bookingId] # None
                 /\ x.resourceVersion <= bookings'[x.bookingId].resourceVersion
                 /\ x.resourceVersion = bookings'[x.bookingId].resourceVersion =>
                      x.newStatus = bookings'[x.bookingId].status
                 /\ x.resourceVersion = 1 <=> x.previousStatus = None
                 /\ x.occurredAt <= now'
      BY <2>1, <2>2, <2>3, <3>1 DEF TrailInv, RowsAreReached, Exists
    <3>2. /\ bookings'[row.bookingId] # None
          /\ row.resourceVersion <= bookings'[row.bookingId].resourceVersion
          /\ row.resourceVersion = bookings'[row.bookingId].resourceVersion =>
               row.newStatus = bookings'[row.bookingId].status
          /\ row.resourceVersion = 1 <=> row.previousStatus = None
          /\ row.occurredAt <= now'
      BY <2>1, <2>2, <2>3
    <3> QED BY <3>1, <3>2 DEF RowsAreReached, Exists
  <2>6. VersionsHaveRows'
    <3>1. ASSUME NEW x \in BookingIds, bookings'[x] # None, x # id,
                 NEW v \in 1 .. bookings'[x].resourceVersion
          PROVE  \E y \in audit' : y.bookingId = x /\ y.resourceVersion = v
      BY <2>1, <3>1 DEF TrailInv, VersionsHaveRows, Exists
    <3>2. ASSUME NEW v \in 1 .. b.resourceVersion
          PROVE  \E y \in audit' : y.bookingId = id /\ y.resourceVersion = v
      <4>1. CASE v = b.resourceVersion
        BY <2>1, <4>1
      <4>2. CASE v # b.resourceVersion
        <5>1. Exists(id) /\ v \in 1 .. bookings[id].resourceVersion
          BY <2>2, <4>2
        <5> QED BY <2>1, <5>1 DEF TrailInv, VersionsHaveRows
      <4> QED BY <4>1, <4>2
    <3> QED BY <2>1, <3>1, <3>2 DEF VersionsHaveRows, Exists
  <2>7. RowsAreLinked'
    <3>1. ASSUME NEW x \in audit, x.bookingId = id, b.resourceVersion = x.resourceVersion + 1
          PROVE  previous = x.newStatus
      <4>1. Exists(id) /\ x.resourceVersion = bookings[id].resourceVersion
        BY <2>2, <2>3, <3>1
      <4> QED BY <2>2, <3>1, <4>1 DEF TrailInv, RowsAreReached
    <3>2. ASSUME NEW x \in audit', NEW y \in audit', x.bookingId = y.bookingId,
                 y.resourceVersion = x.resourceVersion + 1
          PROVE  y.previousStatus = x.newStatus
      <4>1. CASE x \in audit /\ y \in audit
        BY <3>2, <4>1 DEF TrailInv, RowsAreLinked
      <4>2. CASE x \in audit /\ y = row
        BY <2>1, <3>1, <3>2, <4>2
      <4>3. CASE x = row
        BY <2>1, <2>2, <2>3, <3>2, <4>3
      <4> QED BY <2>1, <3>2, <4>1, <4>2, <4>3
    <3> QED BY <3>2 DEF RowsAreLinked
  <2> QED BY <2>4, <2>5, <2>6, <2>7 DEF TrailInv
<1> QED BY <1>1, <1>2 DEF Transaction

\* TrailInv holds in every reachable state.
LEMMA TrailInvHolds == ASSUME ServiceAssumption PROVE Spec => []TrailInv
<1>1. Init => TrailInv
  BY DEF Init, TrailInv, RowsAreOne, RowsAreReached, VersionsHaveRows, RowsAreLinked, Exists
<1>2. StoredInv /\ TrailInv /\ [Next]_vars => TrailInv'
  BY NextKeepsTrail
<1> QED BY <1>1, <1>2, StoredInvHolds, PTL DEF Spec

\* uq_booking_audit_version: the audit trail of a booking is complete and linear,
\* whatever was replayed, retried or answered as already applied in between.
THEOREM AuditIsComplete == ASSUME ServiceAssumption PROVE Spec => []AuditIsTheHistory
<1>1. StoredInv /\ TrailInv => AuditIsTheHistory
  <2> SUFFICES ASSUME StoredInv, TrailInv, NEW id \in BookingIds
               PROVE  IF Exists(id)
                        THEN /\ \A v \in 1 .. bookings[id].resourceVersion :
                                  Cardinality({row \in Rows(id) : row.resourceVersion = v}) = 1
                             /\ \A row \in Rows(id) :
                                  /\ row.resourceVersion <= bookings[id].resourceVersion
                                  /\ row.resourceVersion = 1 <=> row.previousStatus = None
                                  /\ row.resourceVersion = bookings[id].resourceVersion =>
                                       row.newStatus = bookings[id].status
                                  /\ \A next \in Rows(id) :
                                       next.resourceVersion = row.resourceVersion + 1 =>
                                         next.previousStatus = row.newStatus
                        ELSE Rows(id) = {}
    BY DEF AuditIsTheHistory
  <2>1. \A row \in Rows(id) : row \in audit /\ row.bookingId = id
    BY DEF Rows
  <2>2. CASE ~Exists(id)
    BY <2>1, <2>2 DEF TrailInv, RowsAreReached
  <2>3. CASE Exists(id)
    <3>1. ASSUME NEW v \in 1 .. bookings[id].resourceVersion
          PROVE  Cardinality({row \in Rows(id) : row.resourceVersion = v}) = 1
      <4>1. PICK x \in audit : x.bookingId = id /\ x.resourceVersion = v
        BY <2>3, <3>1 DEF TrailInv, VersionsHaveRows
      <4>2. {row \in Rows(id) : row.resourceVersion = v} = {x}
        BY <4>1 DEF Rows, TrailInv, RowsAreOne
      <4> QED BY <4>2, FS_Singleton
    <3>2. ASSUME NEW row \in Rows(id)
          PROVE  /\ row.resourceVersion <= bookings[id].resourceVersion
                 /\ row.resourceVersion = 1 <=> row.previousStatus = None
                 /\ row.resourceVersion = bookings[id].resourceVersion =>
                      row.newStatus = bookings[id].status
                 /\ \A next \in Rows(id) :
                      next.resourceVersion = row.resourceVersion + 1 =>
                        next.previousStatus = row.newStatus
      BY <2>1, <3>2 DEF TrailInv, RowsAreReached, RowsAreLinked
    <3> QED BY <2>3, <3>1, <3>2
  <2> QED BY <2>2, <2>3
<1> QED BY <1>1, StoredInvHolds, TrailInvHolds, PTL

-----------------------------------------------------------------------------
(* A key takes effect once within its lifetime. *)

\* The record of the key that made a row outlives the row by TTL, however often the
\* key was answered or used again since.
RecordsOutlive ==
  \A row \in audit :
    /\ idempotency[<<row.operation, row.key>>] # None
    /\ idempotency[<<row.operation, row.key>>].expiresAt >= row.occurredAt + TTL

KeyInv == RecordsOutlive /\ KeyTakesEffectOnce

\* Under the key of a transaction nothing has happened for TTL: its record, if there
\* is one, has expired.
LEMMA KeyIsFree ==
  ASSUME ServiceAssumption, StoredInv, KeyInv, NEW scope \in Scopes, NEW key \in Keys,
         NothingToReplay(scope, key)
  PROVE  \A row \in audit : row.operation = scope /\ row.key = key =>
           row.occurredAt + TTL <= now
<1> SUFFICES ASSUME NEW row \in audit, row.operation = scope, row.key = key
             PROVE  row.occurredAt + TTL <= now
  OBVIOUS
<1> DEFINE record == idempotency[<<scope, key>>]
<1>1. record # None /\ record.expiresAt >= row.occurredAt + TTL
  BY DEF KeyInv, RecordsOutlive
<1>2. record.expiresAt <= now
  BY <1>1 DEF NothingToReplay
<1>3. record.expiresAt \in Nat
  <2>1. record \in IdempotencyRecord \cup {None}
    BY DEF StoredInv, TypeOK
  <2> HIDE DEF record
  <2> QED BY <1>1, <2>1 DEF IdempotencyRecord
<1>4. row.occurredAt \in Nat /\ TTL \in Nat /\ now \in Nat
  BY DEF StoredInv, TypeOK, AuditRow, ServiceAssumption, TTLPositive
<1> HIDE DEF record
<1> QED BY <1>1, <1>2, <1>3, <1>4

\* Every transaction renews the record of its key; the others stay.
LEMMA SaveOutlives ==
  ASSUME ServiceAssumption, StoredInv, TrailInv, KeyInv, NEW scope \in Scopes,
         NEW key \in Keys, NEW r \in Requests, NEW id \in BookingIds, NEW b \in Booking,
         SaveReplay(scope, key, r, id, b), NEW row \in audit
  PROVE  /\ idempotency'[<<row.operation, row.key>>] # None
         /\ idempotency'[<<row.operation, row.key>>].expiresAt >= row.occurredAt + TTL
<1>1. /\ row.operation \in Scopes /\ row.key \in Keys /\ row.occurredAt \in Nat
      /\ TTL \in Nat /\ now \in Nat /\ row.occurredAt <= now
  BY DEF StoredInv, TypeOK, AuditRow, ServiceAssumption, TTLPositive, TrailInv, RowsAreReached
<1>2. /\ Saved(r, id, b, now + TTL) # None
      /\ idempotency'[<<scope, key>>] = Saved(r, id, b, now + TTL)
      /\ \A sk \in Scopes \X Keys : sk # <<scope, key>> => idempotency'[sk] = idempotency[sk]
  BY SavesOne
<1>3. CASE <<row.operation, row.key>> = <<scope, key>>
  <2>1. Saved(r, id, b, now + TTL).expiresAt = now + TTL
    BY DEF Saved
  <2> QED BY <1>1, <1>2, <1>3, <2>1
<1>4. CASE <<row.operation, row.key>> # <<scope, key>>
  <2>1. idempotency'[<<row.operation, row.key>>] = idempotency[<<row.operation, row.key>>]
    BY <1>1, <1>2, <1>4
  <2> QED BY <2>1 DEF KeyInv, RecordsOutlive
<1> QED BY <1>3, <1>4

\* Every step keeps the records and the distance of the effects.
LEMMA NextKeepsKeys ==
  ASSUME ServiceAssumption, StoredInv, TrailInv, KeyInv, [Next]_vars
  PROVE  KeyInv'
<1>0. CASE Waits
  BY <1>0 DEF Waits, KeyInv, RecordsOutlive, KeyTakesEffectOnce
<1> SUFFICES ASSUME NEW scope \in Scopes, NEW key \in Keys, NEW r \in Requests,
                    NEW id \in BookingIds, Transaction(scope, key, r, id)
             PROVE  KeyInv'
  BY <1>0, NextIs
<1>1. CASE Answers(scope, key, r, id)
  <2>1. /\ audit' = audit /\ bookings[id] \in Booking
        /\ SaveReplay(scope, key, r, id, bookings[id])
    BY <1>1, AnswerMakes
  <2>2. RecordsOutlive'
    BY <2>1, SaveOutlives DEF RecordsOutlive
  <2> QED BY <2>1, <2>2 DEF KeyInv, KeyTakesEffectOnce
<1>2. ASSUME NEW previous, NEW b, NEW events,
             Writes(scope, key, r, id, previous, b, events)
      PROVE  KeyInv'
  <2> DEFINE row == AuditRowFor(scope, key, id, previous, b)
  <2>1. /\ b \in Booking /\ audit' = audit \cup {row}
        /\ row.operation = scope /\ row.key = key /\ row.occurredAt = now
    BY <1>2, WriteMakes
  <2> HIDE DEF row
  <2>2. SaveReplay(scope, key, r, id, b)
    BY <1>2 DEF Writes
  <2>3. RecordsOutlive'
    <3>1. /\ idempotency'[<<row.operation, row.key>>] # None
          /\ idempotency'[<<row.operation, row.key>>].expiresAt >= row.occurredAt + TTL
      <4>1. /\ Saved(r, id, b, now + TTL) # None
            /\ idempotency'[<<scope, key>>] = Saved(r, id, b, now + TTL)
        BY <2>1, <2>2, SavesOne
      <4>2. Saved(r, id, b, now + TTL).expiresAt = now + TTL /\ now + TTL \in Nat
        BY DEF Saved, StoredInv, TypeOK, ServiceAssumption, TTLPositive
      <4> QED BY <2>1, <4>1, <4>2
    <3> QED BY <2>1, <2>2, <3>1, SaveOutlives DEF RecordsOutlive
  <2>4. KeyTakesEffectOnce'
    <3>1. NothingToReplay(scope, key)
      BY DEF Transaction
    <3>2. \A x \in audit : x.operation = row.operation /\ x.key = row.key =>
            row.occurredAt >= x.occurredAt + TTL
      <4>1. \A x \in audit : x.operation = scope /\ x.key = key => x.occurredAt + TTL <= now
        BY <3>1, KeyIsFree
      <4>2. /\ \A x \in audit : x.occurredAt \in Nat
            /\ now \in Nat /\ TTL \in Nat
        BY DEF StoredInv, TypeOK, AuditRow, ServiceAssumption, TTLPositive
      <4> QED BY <2>1, <4>1, <4>2
    <3> QED BY <2>1, <3>2 DEF KeyInv, KeyTakesEffectOnce
  <2> QED BY <2>3, <2>4 DEF KeyInv
<1> QED BY <1>1, <1>2 DEF Transaction

\* An idempotency key changes a booking at most once while its record is kept, and
\* a change under a key that expired comes at least TTL after the one before.
THEOREM KeysTakeEffectOnce == ASSUME ServiceAssumption PROVE Spec => []KeyTakesEffectOnce
<1>1. Init => KeyInv
  BY DEF Init, KeyInv, RecordsOutlive, KeyTakesEffectOnce
<1>2. StoredInv /\ TrailInv /\ KeyInv /\ [Next]_vars => KeyInv'
  BY NextKeepsKeys
<1>3. KeyInv => KeyTakesEffectOnce
  BY DEF KeyInv
<1> QED BY <1>1, <1>2, <1>3, StoredInvHolds, TrailInvHolds, PTL DEF Spec

-----------------------------------------------------------------------------
(* An answer was committed and shows what was asked for. *)

\* A record is backed by the audit row of the version it answers with.
Backed(record) ==
  /\ Exists(record.bookingId)
  /\ \E row \in Rows(record.bookingId) :
       /\ row.resourceVersion = record.response.resourceVersion
       /\ row.newStatus = record.response.status
       /\ row.occurredAt + TTL <= record.expiresAt

AnswersInv ==
  \A sk \in Scopes \X Keys :
    idempotency[sk] # None => Backed(idempotency[sk]) /\ AnswerReflects(sk[1], idempotency[sk])

\* What backed a record backs it for good: bookings and audit rows stay.
LEMMA BackingStays ==
  ASSUME NEW record \in IdempotencyRecord, Backed(record), audit \subseteq audit',
         \A x \in BookingIds : Exists(x) => bookings'[x] # None
  PROVE  Backed(record)'
BY DEF Backed, Exists, Rows, IdempotencyRecord

\* The answer that a transaction stores is backed, and so are the others.
LEMMA SaveKeepsAnswers ==
  ASSUME ServiceAssumption, StoredInv, AnswersInv, NEW scope \in Scopes, NEW key \in Keys,
         NEW r \in Requests, NEW id \in BookingIds, NEW b \in Booking,
         SaveReplay(scope, key, r, id, b),
         AnswerReflects(scope, Saved(r, id, b, now + TTL)),
         audit \subseteq audit',
         \A x \in BookingIds : Exists(x) => bookings'[x] # None,
         bookings'[id] # None,
         \E row \in audit' : /\ row.bookingId = id
                             /\ row.resourceVersion = b.resourceVersion
                             /\ row.newStatus = b.status
                             /\ row.occurredAt <= now
                             /\ row.occurredAt \in Nat
  PROVE  AnswersInv'
<1> DEFINE saved == Saved(r, id, b, now + TTL)
<1>1. /\ idempotency'[<<scope, key>>] = saved
      /\ \A sk \in Scopes \X Keys : sk # <<scope, key>> => idempotency'[sk] = idempotency[sk]
  BY SavesOne
<1>2. /\ saved.bookingId = id /\ saved.response = b /\ saved.expiresAt = now + TTL
      /\ now \in Nat /\ TTL \in Nat
  BY DEF Saved, StoredInv, TypeOK, ServiceAssumption, TTLPositive
<1>3. AnswerReflects(scope, saved)
  OBVIOUS
<1>4. ASSUME NEW record, record = saved
      PROVE  Backed(record)'
  <2>1. record.bookingId = id /\ record.response = b /\ record.expiresAt = now + TTL
    BY <1>2, <1>4
  <2>2. PICK row \in audit' : /\ row.bookingId = id
                              /\ row.resourceVersion = b.resourceVersion
                              /\ row.newStatus = b.status
                              /\ row.occurredAt <= now /\ row.occurredAt \in Nat
    OBVIOUS
  <2> HIDE DEF saved
  <2>3. row.occurredAt + TTL <= record.expiresAt
    BY <1>2, <2>1, <2>2
  <2> QED BY <2>1, <2>2, <2>3 DEF Backed, Exists, Rows
<1>5. ASSUME NEW sk \in Scopes \X Keys, sk # <<scope, key>>, idempotency[sk] # None,
             NEW record, record = idempotency[sk]
      PROVE  Backed(record)' /\ AnswerReflects(sk[1], record)
  <2>1. record \in IdempotencyRecord /\ Backed(record) /\ AnswerReflects(sk[1], record)
    BY <1>5 DEF StoredInv, TypeOK, AnswersInv
  <2> QED BY <2>1, BackingStays
<1> HIDE DEF saved
<1>6. ASSUME NEW sk \in Scopes \X Keys, idempotency'[sk] # None
      PROVE  Backed(idempotency[sk])' /\ AnswerReflects(sk[1], idempotency'[sk])
  <2>1. CASE sk = <<scope, key>>
    <3>1. idempotency'[sk] = saved /\ sk[1] = scope
      BY <1>1, <2>1
    <3> QED BY <1>3, <1>4, <3>1 DEF Backed, Exists, Rows
  <2>2. CASE sk # <<scope, key>>
    <3>1. idempotency'[sk] = idempotency[sk]
      BY <1>1, <2>2
    <3> QED BY <1>5, <1>6, <2>2, <3>1 DEF Backed, Exists, Rows
  <2> QED BY <2>1, <2>2
<1> QED BY <1>6 DEF AnswersInv

\* Every step keeps the answers.
LEMMA NextKeepsAnswers ==
  ASSUME ServiceAssumption, StoredInv, TrailInv, AnswersInv, [Next]_vars
  PROVE  AnswersInv'
<1>0. CASE Waits
  BY <1>0 DEF Waits, AnswersInv, Backed, Exists, Rows
<1> SUFFICES ASSUME NEW scope \in Scopes, NEW key \in Keys, NEW r \in Requests,
                    NEW id \in BookingIds, Transaction(scope, key, r, id)
             PROVE  AnswersInv'
  BY <1>0, NextIs
<1>1. CASE Answers(scope, key, r, id)
  <2>1. /\ audit' = audit /\ bookings' = bookings /\ bookings[id] \in Booking
        /\ SaveReplay(scope, key, r, id, bookings[id])
    BY <1>1, AnswerMakes
  <2>2. Exists(id) /\ AnswerReflects(scope, Saved(r, id, bookings[id], now + TTL))
    BY <1>1 DEF Answers
  <2>3. \E row \in audit : /\ row.bookingId = id
                           /\ row.resourceVersion = bookings[id].resourceVersion
                           /\ row.newStatus = bookings[id].status
                           /\ row.occurredAt <= now /\ row.occurredAt \in Nat
    <3>1. bookings[id].resourceVersion \in 1 .. bookings[id].resourceVersion
      BY <2>1 DEF Booking
    <3>2. PICK row \in audit : row.bookingId = id
                               /\ row.resourceVersion = bookings[id].resourceVersion
      BY <2>2, <3>1 DEF TrailInv, VersionsHaveRows
    <3>3. row.newStatus = bookings[id].status /\ row.occurredAt <= now
      BY <3>2 DEF TrailInv, RowsAreReached
    <3> QED BY <3>2, <3>3 DEF StoredInv, TypeOK, AuditRow
  <2> QED BY <2>1, <2>2, <2>3, SaveKeepsAnswers DEF Exists
<1>2. ASSUME NEW previous, NEW b, NEW events,
             Writes(scope, key, r, id, previous, b, events)
      PROVE  AnswersInv'
  <2> DEFINE row == AuditRowFor(scope, key, id, previous, b)
  <2>1. /\ b \in Booking /\ b # None /\ bookings'[id] = b
        /\ \A x \in BookingIds : x # id => bookings'[x] = bookings[x]
        /\ audit' = audit \cup {row}
        /\ row.bookingId = id /\ row.resourceVersion = b.resourceVersion
        /\ row.newStatus = b.status /\ row.occurredAt = now
    BY <1>2, WriteMakes
  <2> HIDE DEF row
  <2>2. /\ SaveReplay(scope, key, r, id, b)
        /\ AnswerReflects(scope, Saved(r, id, b, now + TTL))
    BY <1>2 DEF Writes
  <2>3. /\ audit \subseteq audit' /\ bookings'[id] # None
        /\ \A x \in BookingIds : Exists(x) => bookings'[x] # None
    BY <2>1 DEF Exists
  <2>4. row \in audit' /\ row.occurredAt <= now /\ row.occurredAt \in Nat
    BY <2>1 DEF StoredInv, TypeOK
  <2> QED BY <2>1, <2>2, <2>3, <2>4, SaveKeepsAnswers
<1> QED BY <1>1, <1>2 DEF Transaction

\* AnswersInv holds in every reachable state.
LEMMA AnswersInvHolds == ASSUME ServiceAssumption PROVE Spec => []AnswersInv
<1>1. Init => AnswersInv
  BY DEF Init, AnswersInv
<1>2. StoredInv /\ TrailInv /\ AnswersInv /\ [Next]_vars => AnswersInv'
  BY NextKeepsAnswers
<1> QED BY <1>1, <1>2, StoredInvHolds, TrailInvHolds, PTL DEF Spec

\* Every replayable answer is a booking that was committed under that version, and
\* expires no sooner than TTL after that.
THEOREM AnswersAreCommitted == ASSUME ServiceAssumption PROVE Spec => []AnswersWereCommitted
<1>1. AnswersInv => AnswersWereCommitted
  BY DEF AnswersInv, AnswersWereCommitted, Backed
<1> QED BY <1>1, AnswersInvHolds, PTL

\* A successful answer shows what the command asked for, also when the command was
\* answered as already applied.
THEOREM AnswersFitRequests == ASSUME ServiceAssumption PROVE Spec => []AnswersReflectRequests
<1>1. AnswersInv => AnswersReflectRequests
  BY DEF AnswersInv, AnswersReflectRequests
<1> QED BY <1>1, AnswersInvHolds, PTL

-----------------------------------------------------------------------------
(* Every outcome is announced once. *)

\* The statuses that are announced, and the event of each.
Outcomes == {"PENDING", "CONFIRMED", "FAILED", "CANCELLED"}

EventOf(s) ==
  IF s = "PENDING" THEN "booking.created"
    ELSE IF s = "CONFIRMED" THEN "booking.confirmed"
      ELSE IF s = "FAILED" THEN "booking.failed" ELSE "booking.cancelled"

\* A booking enters each of them at most once: it is PENDING only when new, and
\* what a row of the others says limits what the booking can still become.
OutcomesAreEntered ==
  \A row \in audit :
    /\ row.newStatus \in Outcomes => row.previousStatus # row.newStatus
    /\ row.newStatus = "PENDING" => row.resourceVersion = 1
    /\ row.newStatus = "CONFIRMED" =>
         bookings[row.bookingId].status
           \in {"CONFIRMED", "COMPENSATION_PENDING", "FAILED", "CANCELLED"}
    /\ row.newStatus \in {"FAILED", "CANCELLED"} =>
         bookings[row.bookingId].status = row.newStatus

OutcomesAreOne ==
  \A x, y \in audit :
    x.bookingId = y.bookingId /\ x.newStatus = y.newStatus /\ x.newStatus \in Outcomes =>
      x = y

\* The outbox holds the events of the rows that enter an outcome, and no others.
EventsHaveRows ==
  \A e \in outbox : \E row \in audit :
    /\ row.bookingId = e.bookingId /\ row.resourceVersion = e.version
    /\ row.newStatus \in Outcomes /\ e.type = EventOf(row.newStatus)

RowsHaveEvents ==
  \A row \in audit : row.newStatus \in Outcomes =>
    [bookingId |-> row.bookingId, version |-> row.resourceVersion,
     type |-> EventOf(row.newStatus)] \in outbox

EventsInv == OutcomesAreEntered /\ OutcomesAreOne /\ EventsHaveRows /\ RowsHaveEvents

\* The events of a kind that a booking has in the outbox, and the rows in which it
\* entered a status.
Announced(id, type) == {e \in outbox : e.bookingId = id /\ e.type = type}
Entered(id, status) == {row \in Rows(id) : /\ row.newStatus = status
                                           /\ row.previousStatus # status}
InStep(id, type, status) ==
  /\ Cardinality(Announced(id, type)) <= 1
  /\ {e.version : e \in Announced(id, type)} = {row.resourceVersion : row \in Entered(id, status)}

\* A write enters an outcome that no row of the booking entered before, and announces
\* exactly that.
LEMMA WriteAnnounces ==
  ASSUME ServiceAssumption, StoredInv, TrailInv, EventsInv, NEW scope \in Scopes,
         NEW key \in Keys, NEW r \in Requests, NEW id \in BookingIds, NEW previous,
         NEW b, NEW events, Writes(scope, key, r, id, previous, b, events)
  PROVE  /\ events = IF b.status \in Outcomes THEN {EventOf(b.status)} ELSE {}
         /\ b.status \in Outcomes => previous # b.status
         /\ b.status = "PENDING" => b.resourceVersion = 1
         /\ \A x \in audit : x.bookingId = id =>
              /\ x.newStatus \in Outcomes => x.newStatus # b.status
              /\ x.newStatus = "CONFIRMED" =>
                   b.status \in {"COMPENSATION_PENDING", "FAILED", "CANCELLED"}
              /\ x.newStatus \notin {"FAILED", "CANCELLED"}
<1>1. CASE Opens(id, previous, b, events)
  <2>1. \A x \in audit : x.bookingId # id
    BY <1>1 DEF Opens, TrailInv, RowsAreReached
  <2>2. b.status = "PENDING" /\ previous # b.status /\ b.resourceVersion = 1
    BY <1>1, NoneIsNoBookingStatus DEF Opens, BookingStatus
  <2> QED BY <1>1, <2>1, <2>2 DEF Opens, Outcomes, EventOf
<1>2. CASE Proceeds(id, previous, b, events)
  <2> DEFINE was == bookings[id]
  <2>1. /\ previous = was.status /\ Continues(was, b) /\ Moves(was, b)
        /\ events = Announces(b) /\ Exists(id)
    BY <1>2 DEF Proceeds
  <2>2. was.status \notin {"FAILED", "CANCELLED"}
    BY <2>1 DEF Continues
  <2>3. /\ b.status # "PENDING"
        /\ b.status = "CONFIRMED" => was.status = "PAYMENT_PROCESSING"
        /\ was.status = "CONFIRMED" => b.status \in {"COMPENSATION_PENDING", "CANCELLED"}
        /\ was.status = "COMPENSATION_PENDING" =>
             b.status \in {"COMPENSATION_PENDING", "FAILED", "CANCELLED"}
    BY <2>1 DEF Moves
  <2>4. events = IF b.status \in Outcomes THEN {EventOf(b.status)} ELSE {}
    BY <2>1, <2>3 DEF Announces, ClosingEvents, Outcomes, EventOf
  <2>5. \A x \in audit : x.bookingId = id =>
          /\ x.newStatus = "CONFIRMED" =>
               was.status \in {"CONFIRMED", "COMPENSATION_PENDING", "FAILED", "CANCELLED"}
          /\ x.newStatus \in {"FAILED", "CANCELLED"} => was.status = x.newStatus
    BY DEF EventsInv, OutcomesAreEntered
  <2> HIDE DEF was
  <2> QED BY <2>1, <2>2, <2>3, <2>4, <2>5 DEF Outcomes
<1> QED BY <1>1, <1>2 DEF Writes

\* Every step keeps the announcements.
LEMMA NextKeepsEvents ==
  ASSUME ServiceAssumption, StoredInv, TrailInv, EventsInv, [Next]_vars
  PROVE  EventsInv'
<1> SUFFICES ASSUME NEW scope \in Scopes, NEW key \in Keys, NEW r \in Requests,
                    NEW id \in BookingIds, NEW previous, NEW b, NEW events,
                    Writes(scope, key, r, id, previous, b, events)
             PROVE  EventsInv'
  <2>1. CASE UNCHANGED <<bookings, audit, outbox>>
    BY <2>1 DEF EventsInv, OutcomesAreEntered, OutcomesAreOne, EventsHaveRows, RowsHaveEvents
  <2>2. CASE Waits
    BY <2>1, <2>2 DEF Waits
  <2>3. ASSUME NEW scope \in Scopes, NEW key \in Keys, NEW r \in Requests,
               NEW id \in BookingIds, Answers(scope, key, r, id)
        PROVE  EventsInv'
    BY <2>1, <2>3, AnswerMakes
  <2> QED BY <2>2, <2>3, NextIs DEF Transaction
<1> DEFINE row == AuditRowFor(scope, key, id, previous, b)
<1>1. /\ bookings'[id] = b
      /\ \A x \in BookingIds : x # id => bookings'[x] = bookings[x]
      /\ audit' = audit \cup {row} /\ row \in AuditRow
      /\ row.bookingId = id /\ row.resourceVersion = b.resourceVersion
      /\ row.previousStatus = previous /\ row.newStatus = b.status
      /\ outbox' = outbox \cup {[bookingId |-> id, version |-> b.resourceVersion,
                                 type |-> e] : e \in events}
  BY WriteMakes
<1> HIDE DEF row
<1>2. /\ events = IF b.status \in Outcomes THEN {EventOf(b.status)} ELSE {}
      /\ b.status \in Outcomes => previous # b.status
      /\ b.status = "PENDING" => b.resourceVersion = 1
      /\ \A x \in audit : x.bookingId = id =>
           /\ x.newStatus \in Outcomes => x.newStatus # b.status
           /\ x.newStatus = "CONFIRMED" =>
                b.status \in {"COMPENSATION_PENDING", "FAILED", "CANCELLED"}
           /\ x.newStatus \notin {"FAILED", "CANCELLED"}
  BY WriteAnnounces
<1>3. \A x \in audit : x.bookingId \in BookingIds
  BY DEF StoredInv, TypeOK, AuditRow
<1>4. OutcomesAreEntered'
  <2>1. ASSUME NEW x \in audit
        PROVE  /\ x.newStatus \in Outcomes => x.previousStatus # x.newStatus
               /\ x.newStatus = "PENDING" => x.resourceVersion = 1
               /\ x.newStatus = "CONFIRMED" =>
                    bookings'[x.bookingId].status
                      \in {"CONFIRMED", "COMPENSATION_PENDING", "FAILED", "CANCELLED"}
               /\ x.newStatus \in {"FAILED", "CANCELLED"} =>
                    bookings'[x.bookingId].status = x.newStatus
    <3>1. CASE x.bookingId = id
      BY <1>1, <1>2, <2>1, <3>1 DEF EventsInv, OutcomesAreEntered
    <3>2. CASE x.bookingId # id
      BY <1>1, <1>3, <2>1, <3>2 DEF EventsInv, OutcomesAreEntered
    <3> QED BY <3>1, <3>2
  <2> QED BY <1>1, <1>2, <2>1 DEF OutcomesAreEntered
<1>5. OutcomesAreOne'
  BY <1>1, <1>2 DEF EventsInv, OutcomesAreOne
<1>6. EventsHaveRows'
  <2>1. ASSUME NEW e \in outbox'
        PROVE  \E x \in audit' :
                 /\ x.bookingId = e.bookingId /\ x.resourceVersion = e.version
                 /\ x.newStatus \in Outcomes /\ e.type = EventOf(x.newStatus)
    <3>1. CASE e \in outbox
      BY <1>1, <2>1, <3>1 DEF EventsInv, EventsHaveRows
    <3>2. ASSUME NEW t \in events,
                 e = [bookingId |-> id, version |-> b.resourceVersion, type |-> t]
          PROVE  /\ row.bookingId = e.bookingId /\ row.resourceVersion = e.version
                 /\ row.newStatus \in Outcomes /\ e.type = EventOf(row.newStatus)
      BY <1>1, <1>2, <3>2
    <3> QED BY <1>1, <2>1, <3>1, <3>2
  <2> QED BY <2>1 DEF EventsHaveRows
<1>7. RowsHaveEvents'
  <2>1. row.newStatus \in Outcomes =>
          [bookingId |-> row.bookingId, version |-> row.resourceVersion,
           type |-> EventOf(row.newStatus)] \in outbox'
    BY <1>1, <1>2
  <2> QED BY <1>1, <2>1 DEF EventsInv, RowsHaveEvents
<1> QED BY <1>4, <1>5, <1>6, <1>7 DEF EventsInv

\* EventsInv holds in every reachable state.
LEMMA EventsInvHolds == ASSUME ServiceAssumption PROVE Spec => []EventsInv
<1>1. Init => EventsInv
  BY DEF Init, EventsInv, OutcomesAreEntered, OutcomesAreOne, EventsHaveRows, RowsHaveEvents
<1>2. StoredInv /\ TrailInv /\ EventsInv /\ [Next]_vars => EventsInv'
  BY NextKeepsEvents
<1> QED BY <1>1, <1>2, StoredInvHolds, TrailInvHolds, PTL DEF Spec

\* Consumers learn of every outcome exactly once, in the transaction that moves the
\* booking into that status, whichever of the closing commands does it.
THEOREM OutcomesAreAnnouncedOnce ==
  ASSUME ServiceAssumption PROVE Spec => []EventsAnnounceOutcomes
<1>1. ASSUME StoredInv, TrailInv, EventsInv, NEW id \in BookingIds, NEW status \in Outcomes,
             NEW type, type = EventOf(status)
      PROVE  InStep(id, type, status)
  <2> DEFINE announced == {e \in outbox : e.bookingId = id /\ e.type = type}
             entered == {row \in Rows(id) : /\ row.newStatus = status
                                            /\ row.previousStatus # status}
  <2>1. \A s, t \in Outcomes : EventOf(s) = EventOf(t) => s = t
    BY DEF Outcomes, EventOf
  <2>2. ASSUME NEW e \in announced
        PROVE  \E row \in entered : row.resourceVersion = e.version
    <3>1. PICK row \in audit : /\ row.bookingId = e.bookingId /\ row.resourceVersion = e.version
                               /\ row.newStatus \in Outcomes /\ e.type = EventOf(row.newStatus)
      BY <1>1, <2>2 DEF EventsInv, EventsHaveRows
    <3>2. row.newStatus = status
      BY <1>1, <2>1, <2>2, <3>1
    <3>3. row.previousStatus # status
      BY <1>1, <3>1, <3>2 DEF EventsInv, OutcomesAreEntered
    <3> QED BY <2>2, <3>1, <3>2, <3>3 DEF Rows
  <2>3. ASSUME NEW row \in entered
        PROVE  \E e \in announced : e.version = row.resourceVersion
    <3>1. row \in audit /\ row.bookingId = id /\ row.newStatus = status
      BY <2>3 DEF Rows
    <3>2. [bookingId |-> id, version |-> row.resourceVersion, type |-> type] \in outbox
      BY <1>1, <3>1 DEF EventsInv, RowsHaveEvents
    <3> QED BY <3>2
  <2>4. \A e, f \in announced : e = f
    <3> SUFFICES ASSUME NEW e \in announced, NEW f \in announced
                 PROVE  e = f
      OBVIOUS
    <3>1. PICK x \in entered : x.resourceVersion = e.version
      BY <2>2
    <3>2. PICK y \in entered : y.resourceVersion = f.version
      BY <2>2
    <3>3. x = y
      BY <1>1 DEF Rows, EventsInv, OutcomesAreOne
    <3>4. e \in OutboxEvent /\ f \in OutboxEvent
      BY <1>1 DEF StoredInv, TypeOK
    <3>5. e.bookingId = f.bookingId /\ e.version = f.version /\ e.type = f.type
      BY <3>1, <3>2, <3>3
    <3> QED BY <3>4, <3>5 DEF OutboxEvent
  <2>5. Cardinality(announced) <= 1
    BY <2>4, AtMostOne
  <2>6. {e.version : e \in announced} = {row.resourceVersion : row \in entered}
    <3> HIDE DEF announced, entered
    <3> QED BY <2>2, <2>3
  <2> QED BY <2>5, <2>6 DEF InStep, Announced, Entered
<1>2. StoredInv /\ TrailInv /\ EventsInv => EventsAnnounceOutcomes
  <2> SUFFICES ASSUME StoredInv, TrailInv, EventsInv
               PROVE  EventsAnnounceOutcomes
    OBVIOUS
  <2>1. ASSUME NEW id \in BookingIds
        PROVE  /\ InStep(id, "booking.created", "PENDING")
               /\ InStep(id, "booking.confirmed", "CONFIRMED")
               /\ InStep(id, "booking.failed", "FAILED")
               /\ InStep(id, "booking.cancelled", "CANCELLED")
    <3>1. /\ "PENDING" \in Outcomes /\ EventOf("PENDING") = "booking.created"
          /\ "CONFIRMED" \in Outcomes /\ EventOf("CONFIRMED") = "booking.confirmed"
          /\ "FAILED" \in Outcomes /\ EventOf("FAILED") = "booking.failed"
          /\ "CANCELLED" \in Outcomes /\ EventOf("CANCELLED") = "booking.cancelled"
      BY DEF Outcomes, EventOf
    <3> QED BY <1>1, <2>1, <3>1
  <2> QED BY <2>1, Zenon DEF EventsAnnounceOutcomes, InStep, Announced, Entered
<1> QED BY <1>2, StoredInvHolds, TrailInvHolds, EventsInvHolds, PTL

=============================================================================
