------------------------ MODULE SeatInventoryProofs ------------------------
(***************************************************************************)
(* Proofs about Seat Inventory Service, for any sets of events, seats,     *)
(* bookings, reservations and keys and any settings: the tables stay well  *)
(* typed, seat rows and reservation rows agree, no seat is sold twice,     *)
(* outcomes are final, the audit rows of a seat are its history without    *)
(* gaps, and a successful answer, stored and replayed ones included, is    *)
(* true when the caller gets it.                                           *)
(*                                                                         *)
(* HoldsAgree and NoDoubleSale are inductive only together: that a free    *)
(* seat belongs to no standing reservation is what lets a new hold take    *)
(* it, and that standing reservations share no seat is what lets one end   *)
(* without touching the others.                                            *)
(***************************************************************************)
EXTENDS SeatInventory, TLAPS

\* The idempotency table has one place per scope and key.
Records == idempotency = [sk \in Scopes \X Keys |-> idempotency[sk]]

Typed == TypeOK /\ Records

SeatsTyped == seats \in [Seats -> Seat \cup {None}]
AuditTyped == audit \in [Seats -> Seq(AuditRow)]
ReservationsTyped == reservations \in [ReservationIds -> Reservation \cup {None}]
RecordsTyped ==
  \A scope \in Scopes, key \in Keys :
    LET record == idempotency[<<scope, key>>]
    IN  record # None => /\ record.request \in Requests[scope]
                         /\ record.response \in Response
                         /\ record.expiresAt \in Nat
AnswerTyped == answer # None => answer.scope \in Scopes /\ answer.response \in Response

\* The names of the commands.
LEMMA ScopesAre ==
  Scopes = {"ReserveSeats", "ConfirmSeats", "ReleaseSeats", "ExtendReservation",
            "ConfigureInventory"}
BY DEF Scopes, Requests

\* The requests of each command.
LEMMA RequestsAre ==
  /\ Requests["ReserveSeats"] = ReserveSeatsRequest
  /\ Requests["ConfirmSeats"] = ConfirmSeatsRequest
  /\ Requests["ReleaseSeats"] = ReleaseSeatsRequest
  /\ Requests["ExtendReservation"] = ExtendReservationRequest
  /\ Requests["ConfigureInventory"] = ConfigureInventoryRequest
BY DEF Requests

\* The type invariant, table by table.
LEMMA TypedIs ==
  Typed <=> /\ SeatsTyped /\ AuditTyped /\ ReservationsTyped /\ RecordsTyped /\ Records
            /\ AnswerTyped /\ now \in Nat
            /\ inventoryVersion \in [Events -> InventoryVersions \cup {0}]
BY DEF Typed, TypeOK, SeatsTyped, AuditTyped, ReservationsTyped, RecordsTyped, AnswerTyped

\* save_replay stores and answers values of the right types.
LEMMA AnswerKeepsTypes ==
  ASSUME Records, RecordsTyped, now \in Nat,
         NEW scope \in Scopes, NEW key \in Keys, NEW r \in Requests[scope],
         NEW response \in Response, Answer(scope, key, r, response)
  PROVE  Records' /\ RecordsTyped' /\ AnswerTyped'
<1>1. now + TTL \in Nat
  BY SettingsArePositive
<1>2. \A sc \in Scopes, k \in Keys :
        idempotency'[<<sc, k>>] =
          IF sc = scope /\ k = key
            THEN [request |-> r, response |-> response, expiresAt |-> now + TTL]
            ELSE idempotency[<<sc, k>>]
  BY DEF Answer, Records
<1>3. Records'
  BY DEF Answer, Records
<1>4. RecordsTyped'
  BY <1>1, <1>2 DEF RecordsTyped
<1>5. AnswerTyped'
  BY DEF Answer, AnswerTyped
<1> QED BY <1>3, <1>4, <1>5

\* A replay answers with what is stored.
LEMMA ReplayKeepsTypes ==
  ASSUME Typed, NEW scope \in Scopes, NEW key \in Keys, NEW r, Replay(scope, key, r)
  PROVE  Typed'
<1>1. AnswerTyped'
  BY DEF Typed, TypeOK, AnswerTyped, Replay, Recorded
<1>2. /\ SeatsTyped' /\ AuditTyped' /\ ReservationsTyped' /\ RecordsTyped' /\ Records'
      /\ now' \in Nat /\ inventoryVersion' \in [Events -> InventoryVersions \cup {0}]
  BY TypedIs DEF Replay, SeatsTyped, AuditTyped, ReservationsTyped, RecordsTyped, Records
<1> QED BY <1>1, <1>2 DEF Typed, TypeOK, SeatsTyped, AuditTyped, ReservationsTyped,
                          RecordsTyped, AnswerTyped

\* What Reallocate makes of a seat.
InHands(seat, newStatus, newOwner) ==
  [seat EXCEPT !.status = newStatus, !.reservationId = newOwner, !.resourceVersion = @ + 1]

\* A seat that changes hands is a seat, with the status and the owner given.
LEMMA ChangedSeat ==
  ASSUME NEW seat \in Seat, NEW newStatus \in SeatStatus,
         NEW newOwner \in ReservationIds \cup {None}
  PROVE  /\ InHands(seat, newStatus, newOwner) \in Seat
         /\ InHands(seat, newStatus, newOwner) # None
         /\ InHands(seat, newStatus, newOwner).status = newStatus
         /\ InHands(seat, newStatus, newOwner).reservationId = newOwner
<1>1. seat.resourceVersion + 1 \in Nat \ {0}
  BY DEF Seat
<1>2. InHands(seat, newStatus, newOwner) \in Seat
  BY <1>1 DEF Seat, InHands
<1>3. /\ InHands(seat, newStatus, newOwner).status = newStatus
      /\ InHands(seat, newStatus, newOwner).reservationId = newOwner
  BY DEF Seat, InHands
<1> QED BY <1>2, <1>3, NoneIsNoValue

\* Seats that exist change hands within their types, and so does their audit.
LEMMA ReallocateKeepsTypes ==
  ASSUME SeatsTyped, AuditTyped,
         NEW changing, \A s \in changing : s \in Seats /\ seats[s] # None,
         NEW newStatus \in SeatStatus, NEW newOwner \in ReservationIds \cup {None},
         NEW operation \in Scopes \cup {"ExpireReservations"},
         Reallocate(changing, newStatus, newOwner, operation)
  PROVE  SeatsTyped' /\ AuditTyped'
<1>1. ASSUME NEW s \in changing
      PROVE  /\ [seats[s] EXCEPT !.status = newStatus, !.reservationId = newOwner,
                                 !.resourceVersion = @ + 1] \in Seat
             /\ AuditRowFor(s, operation, newStatus, newOwner) \in AuditRow
  <2>1. seats[s] \in Seat
    BY <1>1 DEF SeatsTyped
  <2>2. /\ seats[s].status \in SeatStatus /\ seats[s].resourceVersion + 1 \in Nat \ {0}
        /\ seats[s].reservationId \in ReservationIds \cup {None}
    BY <2>1 DEF Seat
  <2>3. [seats[s] EXCEPT !.status = newStatus, !.reservationId = newOwner,
                         !.resourceVersion = @ + 1] \in Seat
    BY <2>1, ChangedSeat DEF InHands
  <2>4. AuditRowFor(s, operation, newStatus, newOwner) \in AuditRow
    BY <2>2 DEF AuditRowFor, AuditRow
  <2> QED BY <2>3, <2>4
<1>2. SeatsTyped'
  BY <1>1 DEF SeatsTyped, Reallocate
<1>3. ASSUME NEW s \in Seats
      PROVE  (IF s \in changing
                THEN Append(audit[s], AuditRowFor(s, operation, newStatus, newOwner))
                ELSE audit[s]) \in Seq(AuditRow)
  <2>1. audit[s] \in Seq(AuditRow)
    BY <1>3 DEF AuditTyped
  <2>2. ASSUME NEW row \in AuditRow PROVE Append(audit[s], row) \in Seq(AuditRow)
    BY <2>1
  <2> QED BY <2>1, <2>2, <1>1
<1>4. AuditTyped'
  BY <1>3 DEF AuditTyped, Reallocate
<1> QED BY <1>2, <1>4

-----------------------------------------------------------------------------
(* Types. *)

\* A reported reservation is a response.
LEMMA ViewIsResponse ==
  ASSUME NEW rid \in ReservationIds, NEW reservation \in Reservation
  PROVE  View(rid, reservation) \in Response
BY DEF View, Response, ReservationView

\* A new hold is a reservation.
LEMMA NewHoldIsReservation ==
  ASSUME NEW r \in ReserveSeatsRequest, now \in Nat
  PROVE  NewHold(r) \in Reservation
<1>1. r.holdSeconds \in Nat
  BY SettingsArePositive DEF ReserveSeatsRequest
<1>2. now + r.holdSeconds \in Nat
  BY <1>1
<1> QED BY <1>2 DEF ReserveSeatsRequest, NewHold, Reservation, ReservationStatus

\* What the last command stored keeps every table typed when each one does.
LEMMA TypedParts ==
  ASSUME SeatsTyped', AuditTyped', ReservationsTyped', RecordsTyped', Records', AnswerTyped',
         now' \in Nat, inventoryVersion' \in [Events -> InventoryVersions \cup {0}]
  PROVE  Typed'
BY DEF Typed, TypeOK, SeatsTyped, AuditTyped, ReservationsTyped, RecordsTyped, AnswerTyped

\* ReserveSeats keeps the tables typed.
LEMMA ReserveSeatsKeepsTypes ==
  ASSUME Typed, NEW key \in Keys, NEW r \in ReserveSeatsRequest, ReserveSeats(key, r)
  PROVE  Typed'
<1>1. CASE ReplayHold(key, r)
  BY <1>1, ReplayKeepsTypes, ScopesAre DEF ReplayHold
<1>2. ASSUME AnswerWithExistingHold(key, r), UNCHANGED <<inventoryVersion, now>>
      PROVE  Typed'
  <2>1. PICK rid \in OwnedBy(r.bookingId) :
          /\ Answer("ReserveSeats", key, r, View(rid, reservations[rid]))
          /\ UNCHANGED <<seats, reservations, audit>>
    BY <1>2 DEF AnswerWithExistingHold
  <2>2. rid \in ReservationIds /\ reservations[rid] \in Reservation
    BY <2>1, TypedIs DEF OwnedBy, ReservationsTyped
  <2>3. Records' /\ RecordsTyped' /\ AnswerTyped'
    BY <2>1, <2>2, TypedIs, ViewIsResponse, AnswerKeepsTypes, ScopesAre, RequestsAre
  <2>4. SeatsTyped' /\ AuditTyped' /\ ReservationsTyped'
    BY <2>1, TypedIs DEF SeatsTyped, AuditTyped, ReservationsTyped
  <2>5. now' \in Nat /\ inventoryVersion' \in [Events -> InventoryVersions \cup {0}]
    BY <1>2, TypedIs
  <2> QED BY <2>3, <2>4, <2>5, TypedParts
<1>3. ASSUME HoldSeats(key, r), UNCHANGED <<inventoryVersion, now>>
      PROVE  Typed'
  <2>1. PICK rid \in ReservationIds :
          /\ reservations' = [reservations EXCEPT ![rid] = NewHold(r)]
          /\ Reallocate(Items(r), "HELD", rid, "ReserveSeats")
          /\ Answer("ReserveSeats", key, r, View(rid, NewHold(r)))
    BY <1>3 DEF HoldSeats
  <2>2. NewHold(r) \in Reservation
    BY NewHoldIsReservation, TypedIs
  <2>3. Records' /\ RecordsTyped' /\ AnswerTyped'
    BY <2>1, <2>2, TypedIs, ViewIsResponse, AnswerKeepsTypes, ScopesAre, RequestsAre
  <2>4. ReservationsTyped'
    BY <2>1, <2>2, TypedIs DEF ReservationsTyped
  <2>5. \A s \in Items(r) : s \in Seats /\ seats[s] # None
    BY <1>3 DEF HoldSeats, Free, Items, Seats, ReserveSeatsRequest
  <2>6. SeatsTyped' /\ AuditTyped'
    BY <2>1, <2>5, TypedIs, ScopesAre, ReallocateKeepsTypes DEF SeatStatus
  <2>7. now' \in Nat /\ inventoryVersion' \in [Events -> InventoryVersions \cup {0}]
    BY <1>3, TypedIs
  <2> QED BY <2>3, <2>4, <2>6, <2>7, TypedParts
<1> QED BY <1>1, <1>2, <1>3 DEF ReserveSeats

\* A reservation that ends, or is extended, stays a reservation.
LEMMA ChangedReservation ==
  ASSUME NEW reservation \in Reservation, NEW outcome \in ReservationStatus,
         NEW seconds \in Nat
  PROVE  /\ [reservation EXCEPT !.status = outcome, !.resourceVersion = @ + 1] \in Reservation
         /\ [reservation EXCEPT !.expiresAt = @ + seconds, !.extendCount = @ + 1,
                                !.resourceVersion = @ + 1] \in Reservation
<1>1. /\ reservation.resourceVersion + 1 \in Nat \ {0}
      /\ reservation.expiresAt + seconds \in Nat
      /\ reservation.extendCount + 1 \in Nat
  BY DEF Reservation
<1>2. [reservation EXCEPT !.status = outcome, !.resourceVersion = @ + 1] \in Reservation
  BY <1>1 DEF Reservation
<1>3. [reservation EXCEPT !.expiresAt = @ + seconds, !.extendCount = @ + 1,
                          !.resourceVersion = @ + 1] \in Reservation
  BY <1>1 DEF Reservation
<1> QED BY <1>2, <1>3

\* A reservation that ends lets its seats go within their types.
LEMMA ConcludeKeepsTypes ==
  ASSUME Typed, NEW rid \in ReservationIds, reservations[rid] # None,
         NEW outcome \in ReservationStatus, NEW newStatus \in SeatStatus,
         NEW operation \in Scopes, Conclude(rid, outcome, newStatus, operation)
  PROVE  SeatsTyped' /\ AuditTyped' /\ ReservationsTyped' /\ reservations'[rid] \in Reservation
<1>1. reservations[rid] \in Reservation
  BY TypedIs DEF ReservationsTyped
<1>2. [reservations[rid] EXCEPT !.status = outcome, !.resourceVersion = @ + 1] \in Reservation
  BY <1>1, ChangedReservation, SettingsArePositive
<1>3. reservations' = [reservations EXCEPT ![rid] =
        [reservations[rid] EXCEPT !.status = outcome, !.resourceVersion = @ + 1]]
  BY TypedIs DEF Conclude, ReservationsTyped
<1>4. ReservationsTyped' /\ reservations'[rid] \in Reservation
  BY <1>2, <1>3, TypedIs DEF ReservationsTyped
<1>5. \A s \in ReservedSeats(rid) : s \in Seats /\ seats[s] # None
  BY <1>1 DEF ReservedSeats, Items, Seats, Reservation
<1>6. SeatsTyped' /\ AuditTyped'
  BY <1>5, TypedIs, ReallocateKeepsTypes DEF Conclude
<1> QED BY <1>4, <1>6

\* ConfirmSeats keeps the tables typed.
LEMMA ConfirmSeatsKeepsTypes ==
  ASSUME Typed, NEW key \in Keys, NEW r \in ConfirmSeatsRequest, ConfirmSeats(key, r)
  PROVE  Typed'
<1> DEFINE rid == r.reservationId
<1>1. CASE Replay("ConfirmSeats", key, r)
  BY <1>1, ReplayKeepsTypes, ScopesAre
<1>2. CASE ~Replay("ConfirmSeats", key, r)
  <2>1. /\ reservations[rid] # None
        /\ \/ UNCHANGED <<seats, reservations, audit>>
           \/ Conclude(rid, "CONFIRMED", "SOLD", "ConfirmSeats")
        /\ Answer("ConfirmSeats", key, r, View(rid, reservations'[rid]))
        /\ UNCHANGED <<inventoryVersion, now>>
    BY <1>2 DEF ConfirmSeats
  <2>2. rid \in ReservationIds /\ reservations[rid] \in Reservation
    BY <2>1, TypedIs DEF ConfirmSeatsRequest, ReservationsTyped
  <2> HIDE DEF rid
  <2>3. SeatsTyped' /\ AuditTyped' /\ ReservationsTyped' /\ reservations'[rid] \in Reservation
    <3>1. CASE UNCHANGED <<seats, reservations, audit>>
      BY <3>1, <2>2, TypedIs DEF SeatsTyped, AuditTyped, ReservationsTyped
    <3>2. CASE Conclude(rid, "CONFIRMED", "SOLD", "ConfirmSeats")
      BY <3>2, <2>1, <2>2, ConcludeKeepsTypes, ScopesAre DEF ReservationStatus, SeatStatus
    <3> QED BY <2>1, <3>1, <3>2
  <2>4. Records' /\ RecordsTyped' /\ AnswerTyped'
    BY <2>1, <2>2, <2>3, TypedIs, ViewIsResponse, AnswerKeepsTypes, ScopesAre, RequestsAre
  <2>5. now' \in Nat /\ inventoryVersion' \in [Events -> InventoryVersions \cup {0}]
    BY <2>1, TypedIs
  <2> QED BY <2>3, <2>4, <2>5, TypedParts
<1> QED BY <1>1, <1>2

\* ReleaseSeats keeps the tables typed.
LEMMA ReleaseSeatsKeepsTypes ==
  ASSUME Typed, NEW key \in Keys, NEW r \in ReleaseSeatsRequest, ReleaseSeats(key, r)
  PROVE  Typed'
<1> DEFINE rid == r.reservationId
<1>1. CASE Replay("ReleaseSeats", key, r)
  BY <1>1, ReplayKeepsTypes, ScopesAre
<1>2. CASE ~Replay("ReleaseSeats", key, r)
  <2>1. /\ reservations[rid] # None
        /\ \/ UNCHANGED <<seats, reservations, audit>>
           \/ Conclude(rid, "RELEASED", "AVAILABLE", "ReleaseSeats")
        /\ Answer("ReleaseSeats", key, r, View(rid, reservations'[rid]))
        /\ UNCHANGED <<inventoryVersion, now>>
    BY <1>2 DEF ReleaseSeats
  <2>2. rid \in ReservationIds /\ reservations[rid] \in Reservation
    BY <2>1, TypedIs DEF ReleaseSeatsRequest, ReservationsTyped
  <2> HIDE DEF rid
  <2>3. SeatsTyped' /\ AuditTyped' /\ ReservationsTyped' /\ reservations'[rid] \in Reservation
    <3>1. CASE UNCHANGED <<seats, reservations, audit>>
      BY <3>1, <2>2, TypedIs DEF SeatsTyped, AuditTyped, ReservationsTyped
    <3>2. CASE Conclude(rid, "RELEASED", "AVAILABLE", "ReleaseSeats")
      BY <3>2, <2>1, <2>2, ConcludeKeepsTypes, ScopesAre DEF ReservationStatus, SeatStatus
    <3> QED BY <2>1, <3>1, <3>2
  <2>4. Records' /\ RecordsTyped' /\ AnswerTyped'
    BY <2>1, <2>2, <2>3, TypedIs, ViewIsResponse, AnswerKeepsTypes, ScopesAre, RequestsAre
  <2>5. now' \in Nat /\ inventoryVersion' \in [Events -> InventoryVersions \cup {0}]
    BY <2>1, TypedIs
  <2> QED BY <2>3, <2>4, <2>5, TypedParts
<1> QED BY <1>1, <1>2

\* ExtendReservation keeps the tables typed.
LEMMA ExtendReservationKeepsTypes ==
  ASSUME Typed, NEW key \in Keys, NEW r \in ExtendReservationRequest,
         ExtendReservation(key, r)
  PROVE  Typed'
<1> DEFINE rid     == r.reservationId
           changed == [reservations[rid] EXCEPT !.expiresAt = @ + r.extensionSeconds,
                                                !.extendCount = @ + 1,
                                                !.resourceVersion = @ + 1]
<1>1. CASE Replay("ExtendReservation", key, r)
  BY <1>1, ReplayKeepsTypes, ScopesAre
<1>2. CASE ~Replay("ExtendReservation", key, r)
  <2>1. /\ reservations[rid] # None
        /\ reservations' = [reservations EXCEPT ![rid].expiresAt = @ + r.extensionSeconds,
                                                ![rid].extendCount = @ + 1,
                                                ![rid].resourceVersion = @ + 1]
        /\ Answer("ExtendReservation", key, r, View(rid, reservations'[rid]))
        /\ UNCHANGED <<seats, inventoryVersion, audit, now>>
    BY <1>2 DEF ExtendReservation
  <2>2. rid \in ReservationIds /\ reservations[rid] \in Reservation
    BY <2>1, TypedIs DEF ExtendReservationRequest, ReservationsTyped
  <2>3. r.extensionSeconds \in Nat
    BY SettingsArePositive DEF ExtendReservationRequest
  <2>4. changed \in Reservation
    BY <2>2, <2>3, ChangedReservation DEF ReservationStatus
  <2>5. reservations' = [reservations EXCEPT ![rid] = changed]
    BY <2>1, TypedIs DEF ReservationsTyped
  <2> HIDE DEF rid, changed
  <2>6. ReservationsTyped' /\ reservations'[rid] \in Reservation
    BY <2>2, <2>4, <2>5, TypedIs DEF ReservationsTyped
  <2>7. Records' /\ RecordsTyped' /\ AnswerTyped'
    BY <2>1, <2>2, <2>6, TypedIs, ViewIsResponse, AnswerKeepsTypes, ScopesAre, RequestsAre
  <2>8. SeatsTyped' /\ AuditTyped'
    BY <2>1, TypedIs DEF SeatsTyped, AuditTyped
  <2>9. now' \in Nat /\ inventoryVersion' \in [Events -> InventoryVersions \cup {0}]
    BY <2>1, TypedIs
  <2> QED BY <2>6, <2>7, <2>8, <2>9, TypedParts
<1> QED BY <1>1, <1>2

\* What a definition makes of a seat is a seat, or none.
LEMMA ConfiguredIsSeat ==
  ASSUME SeatsTyped, NEW s \in Seats, NEW definition \in SeatDefinition \cup {None}
  PROVE  Configured(s, definition) \in Seat \cup {None}
<1>1. seats[s] \in Seat \cup {None}
  BY DEF SeatsTyped
<1>2. CASE seats[s] = None /\ definition # None
  <2>1. definition.status \in SeatStatus /\ definition.layout \in Layouts
    BY <1>2 DEF SeatDefinition, SeatStatus
  <2>2. [status |-> definition.status, layout |-> definition.layout,
         reservationId |-> None, resourceVersion |-> 1] \in Seat
    BY <2>1 DEF Seat
  <2> QED BY <1>2, <2>2 DEF Configured, Configurable
<1>3. CASE /\ Configurable(s) /\ definition # None
           /\ <<seats[s].layout, seats[s].status>> # <<definition.layout, definition.status>>
  <2>1. seats[s] \in Seat /\ definition \in SeatDefinition /\ seats[s] # None
    BY <1>1, <1>3 DEF Configurable
  <2>2. /\ seats[s].resourceVersion + 1 \in Nat \ {0} /\ definition.layout \in Layouts
        /\ definition.status \in SeatStatus
    BY <2>1 DEF Seat, SeatDefinition, SeatStatus
  <2>3. [seats[s] EXCEPT !.layout = definition.layout, !.status = definition.status,
                         !.resourceVersion = @ + 1] \in Seat
    BY <2>1, <2>2 DEF Seat
  <2> QED BY <1>3, <2>1, <2>3 DEF Configured
<1>4. CASE Configurable(s) /\ definition = None
  BY <1>4 DEF Configured, Configurable
<1> QED BY <1>1, <1>2, <1>3, <1>4 DEF Configured

\* ConfigureInventory keeps the tables typed.
LEMMA ConfigureInventoryKeepsTypes ==
  ASSUME Typed, NEW key \in Keys, NEW r \in ConfigureInventoryRequest,
         ConfigureInventory(key, r)
  PROVE  Typed'
<1>1. CASE Replay("ConfigureInventory", key, r)
  BY <1>1, ReplayKeepsTypes, ScopesAre
<1>2. CASE ~Replay("ConfigureInventory", key, r)
  <2> DEFINE row(s) ==
        [operation |-> "ConfigureInventory", reservationId |-> None,
         previousStatus |-> StatusOf(seats[s]), newStatus |-> StatusOf(seats'[s]),
         resourceVersion |-> VersionOf(seats[s]) + 1]
  <2>1. /\ inventoryVersion' = [inventoryVersion EXCEPT ![r.eventId] = r.inventoryVersion]
        /\ seats' = [s \in Seats |->
             IF s[1] = r.eventId THEN Configured(s, r.seats[s[2]]) ELSE seats[s]]
        /\ audit' = [s \in Seats |->
             IF seats'[s] = seats[s] THEN audit[s] ELSE Append(audit[s], row(s))]
        /\ Answer("ConfigureInventory", key, r,
                  [eventId |-> r.eventId, inventoryVersion |-> r.inventoryVersion])
        /\ UNCHANGED <<reservations, now>>
    BY <1>2 DEF ConfigureInventory
  <2>2. /\ r.eventId \in Events /\ r.inventoryVersion \in InventoryVersions
        /\ r.seats \in [SeatIds -> SeatDefinition \cup {None}]
    BY DEF ConfigureInventoryRequest
  <2>3. ASSUME NEW s \in Seats
        PROVE  (IF s[1] = r.eventId THEN Configured(s, r.seats[s[2]]) ELSE seats[s])
                 \in Seat \cup {None}
    <3>1. r.seats[s[2]] \in SeatDefinition \cup {None}
      BY <2>2 DEF Seats
    <3>2. Configured(s, r.seats[s[2]]) \in Seat \cup {None}
      BY <3>1, TypedIs, ConfiguredIsSeat
    <3>3. seats[s] \in Seat \cup {None}
      BY TypedIs DEF SeatsTyped
    <3> QED BY <3>2, <3>3
  <2>4. SeatsTyped'
    BY <2>1, <2>3 DEF SeatsTyped
  <2>5. ASSUME NEW s \in Seats PROVE row(s) \in AuditRow
    <3>1. seats[s] \in Seat \cup {None} /\ seats'[s] \in Seat \cup {None}
      BY <2>4, TypedIs DEF SeatsTyped
    <3>2. StatusOf(seats[s]) \in SeatStatus \cup {None} /\ StatusOf(seats'[s]) \in SeatStatus \cup {None}
      BY <3>1 DEF StatusOf, Seat
    <3>3. VersionOf(seats[s]) + 1 \in Nat \ {0}
      BY <3>1 DEF VersionOf, Seat
    <3> QED BY <3>2, <3>3, ScopesAre DEF AuditRow
  <2> HIDE DEF row
  <2>6. ASSUME NEW s \in Seats
        PROVE  (IF seats'[s] = seats[s] THEN audit[s] ELSE Append(audit[s], row(s)))
                 \in Seq(AuditRow)
    <3>1. audit[s] \in Seq(AuditRow)
      BY TypedIs DEF AuditTyped
    <3>2. ASSUME NEW x \in AuditRow PROVE Append(audit[s], x) \in Seq(AuditRow)
      BY <3>1
    <3> QED BY <3>1, <3>2, <2>5
  <2>7. AuditTyped'
    BY <2>1, <2>6 DEF AuditTyped
  <2>8. ReservationsTyped' /\ now' \in Nat
    BY <2>1, TypedIs DEF ReservationsTyped
  <2>9. inventoryVersion' \in [Events -> InventoryVersions \cup {0}]
    BY <2>1, <2>2, TypedIs
  <2>10. [eventId |-> r.eventId, inventoryVersion |-> r.inventoryVersion] \in Response
    BY <2>2 DEF Response, ConfigureInventoryResult
  <2>11. Records' /\ RecordsTyped' /\ AnswerTyped'
    BY <2>1, <2>10, TypedIs, AnswerKeepsTypes, ScopesAre, RequestsAre
  <2> QED BY <2>4, <2>7, <2>8, <2>9, <2>11, TypedParts
<1> QED BY <1>1, <1>2

\* The sweeper keeps the tables typed.
LEMMA SweepKeepsTypes ==
  ASSUME Typed, NEW locked, Sweep(locked)
  PROVE  Typed'
<1>1. PICK batch \in Batches(locked) :
        LET expired == {rid \in batch : HoldIsConsistent(rid)}
            freed   == UNION {ReservedSeats(rid) : rid \in expired}
        IN  /\ reservations' = [rid \in ReservationIds |->
                 IF rid \in expired
                   THEN [reservations[rid] EXCEPT !.status = "EXPIRED",
                                                  !.resourceVersion = @ + 1]
                   ELSE reservations[rid]]
            /\ Reallocate(freed, "AVAILABLE", None, "ExpireReservations")
            /\ idempotency' = [sk \in Scopes \X Keys |->
                 IF idempotency[sk] # None /\ idempotency[sk].expiresAt <= now
                   THEN None ELSE idempotency[sk]]
            /\ answer' = None
            /\ UNCHANGED <<inventoryVersion, now>>
  BY DEF Sweep
<1> DEFINE expired == {rid \in batch : HoldIsConsistent(rid)}
           freed   == UNION {ReservedSeats(rid) : rid \in expired}
<1>2. \A rid \in expired : rid \in ReservationIds /\ reservations[rid] # None
  BY DEF Batches, Due
<1>3. \A rid \in ReservationIds : reservations[rid] \in Reservation \cup {None}
  BY TypedIs DEF ReservationsTyped
<1>4. \A s \in freed : s \in Seats /\ seats[s] # None
  <2> SUFFICES ASSUME NEW rid \in expired, NEW s \in ReservedSeats(rid)
               PROVE  s \in Seats /\ seats[s] # None
    OBVIOUS
  <2> QED BY <1>2, <1>3 DEF ReservedSeats, Items, Seats, Reservation
<1>5. \A rid \in expired :
        [reservations[rid] EXCEPT !.status = "EXPIRED", !.resourceVersion = @ + 1] \in Reservation
  BY <1>2, <1>3, ChangedReservation DEF ReservationStatus
<1> HIDE DEF expired, freed
<1>6. ReservationsTyped'
  BY <1>1, <1>3, <1>5 DEF ReservationsTyped, expired
<1>7. Reallocate(freed, "AVAILABLE", None, "ExpireReservations")
  BY <1>1 DEF expired, freed
<1>8. SeatsTyped' /\ AuditTyped'
  BY <1>4, <1>7, TypedIs, ReallocateKeepsTypes DEF SeatStatus
<1>9. /\ idempotency' = [sk \in Scopes \X Keys |->
           IF idempotency[sk] # None /\ idempotency[sk].expiresAt <= now
             THEN None ELSE idempotency[sk]]
      /\ answer' = None /\ UNCHANGED <<inventoryVersion, now>>
  BY <1>1
<1>10. Records' /\ RecordsTyped' /\ AnswerTyped'
  BY <1>9, TypedIs DEF Records, RecordsTyped, AnswerTyped
<1>11. now' \in Nat /\ inventoryVersion' \in [Events -> InventoryVersions \cup {0}]
  BY <1>9, TypedIs
<1> QED BY <1>6, <1>8, <1>10, <1>11, TypedParts

\* Every step keeps the tables typed.
LEMMA NextKeepsTypes == Typed /\ [Next]_vars => Typed'
<1> SUFFICES ASSUME Typed, [Next]_vars PROVE Typed'
  OBVIOUS
<1>1. CASE UNCHANGED vars
  BY <1>1, TypedIs, TypedParts
     DEF vars, SeatsTyped, AuditTyped, ReservationsTyped, RecordsTyped, Records, AnswerTyped
<1>2. CASE Tick
  <2>1. now' \in Nat
    BY <1>2, TypedIs DEF Tick
  <2>2. /\ SeatsTyped' /\ AuditTyped' /\ ReservationsTyped' /\ RecordsTyped' /\ Records'
        /\ AnswerTyped' /\ inventoryVersion' \in [Events -> InventoryVersions \cup {0}]
    BY <1>2, TypedIs
       DEF Tick, SeatsTyped, AuditTyped, ReservationsTyped, RecordsTyped, Records, AnswerTyped
  <2> QED BY <2>1, <2>2, TypedParts
<1>3. CASE ExpireReservations
  BY <1>3, SweepKeepsTypes DEF ExpireReservations
<1>4. ASSUME NEW key \in Keys, Command(key) PROVE Typed'
  <2>1. ASSUME NEW r \in ReserveSeatsRequest, ReserveSeats(key, r) PROVE Typed'
    BY <2>1, ReserveSeatsKeepsTypes
  <2>2. ASSUME NEW rid \in ReservationIds, NEW v \in KnownVersions,
               ConfirmSeats(key, [reservationId |-> rid, expectedVersion |-> v])
        PROVE  Typed'
    <3>1. [reservationId |-> rid, expectedVersion |-> v] \in ConfirmSeatsRequest
      BY SettingsArePositive DEF KnownVersions, ConfirmSeatsRequest
    <3> QED BY <2>2, <3>1, ConfirmSeatsKeepsTypes
  <2>3. ASSUME NEW r \in ReleaseSeatsRequest, ReleaseSeats(key, r) PROVE Typed'
    BY <2>3, ReleaseSeatsKeepsTypes
  <2>4. ASSUME NEW rid \in ReservationIds, NEW v \in KnownVersions,
               NEW x \in ExtensionSeconds,
               ExtendReservation(key, [reservationId |-> rid, expectedVersion |-> v,
                                       extensionSeconds |-> x])
        PROVE  Typed'
    <3>1. [reservationId |-> rid, expectedVersion |-> v, extensionSeconds |-> x]
            \in ExtendReservationRequest
      BY SettingsArePositive DEF KnownVersions, ExtendReservationRequest
    <3> QED BY <2>4, <3>1, ExtendReservationKeepsTypes
  <2>5. ASSUME NEW r \in ConfigureInventoryRequest, ConfigureInventory(key, r) PROVE Typed'
    BY <2>5, ConfigureInventoryKeepsTypes
  <2> QED BY <1>4, <2>1, <2>2, <2>3, <2>4, <2>5 DEF Command
<1> QED BY <1>1, <1>2, <1>3, <1>4 DEF Next

\* The empty tables are typed.
LEMMA InitIsTyped == Init => Typed
BY DEF Init, Typed, TypeOK, Records

\* In every behaviour of the service the tables and answers stay well typed.
THEOREM TypeCorrect == Spec => []TypeOK
<1>1. Spec => []Typed
  BY InitIsTyped, NextKeepsTypes, PTL DEF Spec
<1>2. Typed => TypeOK
  BY DEF Typed
<1> QED BY <1>1, <1>2, PTL

-----------------------------------------------------------------------------
(* Holds and sales. *)

\* A reservation row whose status is status.
Is(rid, status) == reservations[rid] # None /\ reservations[rid].status = status

\* HoldsAgree and NoDoubleSale depend on these facts of the tables only.
LEMMA SameStory ==
  ASSUME HoldsAgree, NoDoubleSale, seats' = seats,
         \A rid \in ReservationIds :
           /\ reservations'[rid] = None <=> reservations[rid] = None
           /\ reservations[rid] # None =>
                /\ reservations'[rid].status = reservations[rid].status
                /\ Items(reservations'[rid]) = Items(reservations[rid])
  PROVE  HoldsAgree' /\ NoDoubleSale'
<1>1. HoldsAgree'
  BY DEF HoldsAgree
<1>2. NoDoubleSale'
  BY DEF NoDoubleSale, Stands
<1> QED BY <1>1, <1>2

\* A new hold on free seats: no standing reservation has any of them.
LEMMA HoldKeepsStory ==
  ASSUME Typed, HoldsAgree, NoDoubleSale, NEW key \in Keys, NEW r \in ReserveSeatsRequest,
         HoldSeats(key, r)
  PROVE  HoldsAgree' /\ NoDoubleSale'
<1>1. PICK new \in ReservationIds :
        /\ reservations[new] = None
        /\ reservations' = [reservations EXCEPT ![new] = NewHold(r)]
        /\ Reallocate(Items(r), "HELD", new, "ReserveSeats")
  BY DEF HoldSeats
<1>2. \A s \in Items(r) : s \in Seats /\ seats[s] \in Seat /\ seats[s].status = "AVAILABLE"
  BY TypedIs DEF HoldSeats, Free, Items, Seats, ReserveSeatsRequest, SeatsTyped
<1>3. /\ NewHold(r) # None /\ NewHold(r).status = "ACTIVE" /\ Items(NewHold(r)) = Items(r)
  <2>1. NewHold(r) \in Reservation
    BY NewHoldIsReservation, TypedIs
  <2> QED BY <2>1, NoneIsNoValue DEF NewHold, Items
<1>4. /\ reservations'[new] = NewHold(r)
      /\ \A rid \in ReservationIds : rid # new => reservations'[rid] = reservations[rid]
  BY <1>1, TypedIs DEF ReservationsTyped
<1>5. \A s \in Seats :
        /\ s \in Items(r) => /\ seats'[s] # None /\ seats'[s].status = "HELD"
                             /\ seats'[s].reservationId = new
        /\ s \notin Items(r) => seats'[s] = seats[s]
  <2>1. ASSUME NEW s \in Items(r)
        PROVE  /\ seats'[s] # None /\ seats'[s].status = "HELD"
               /\ seats'[s].reservationId = new
    <3>1. seats'[s] = InHands(seats[s], "HELD", new)
      BY <1>1, <1>2, <2>1 DEF Reallocate, InHands
    <3>2. seats[s] \in Seat /\ "HELD" \in SeatStatus
      BY <1>2, <2>1 DEF SeatStatus
    <3> QED BY <3>1, <3>2, ChangedSeat
  <2> QED BY <1>1, <2>1 DEF Reallocate
<1>6. ASSUME NEW rid \in ReservationIds, Stands(rid), NEW s \in Items(reservations[rid])
      PROVE  s \notin Items(r)
  BY <1>2, <1>6 DEF Stands, HoldsAgree, NoDoubleSale
<1>7. HoldsAgree'
  <2>1. ASSUME NEW rid \in ReservationIds,
               reservations'[rid] # None, reservations'[rid].status = "ACTIVE",
               NEW s \in Items(reservations'[rid])
        PROVE  /\ seats'[s] # None /\ seats'[s].status = "HELD"
               /\ seats'[s].reservationId = rid
    <3>1. CASE rid = new
      BY <1>2, <1>3, <1>4, <1>5, <2>1, <3>1
    <3>2. CASE rid # new
      <4>1. s \in Seats
        BY <1>4, <2>1, <3>2, TypedIs DEF ReservationsTyped, Reservation, Items, Seats
      <4> QED BY <1>4, <1>5, <1>6, <2>1, <3>2, <4>1 DEF HoldsAgree, Stands
    <3> QED BY <3>1, <3>2
  <2>2. ASSUME NEW s \in Seats, seats'[s] # None
        PROVE  IF seats'[s].status = "HELD"
                 THEN \E rid \in ReservationIds :
                        /\ seats'[s].reservationId = rid /\ reservations'[rid] # None
                        /\ reservations'[rid].status = "ACTIVE" /\ s \in Items(reservations'[rid])
                 ELSE seats'[s].reservationId = None
    <3>1. CASE s \in Items(r)
      BY <1>3, <1>4, <1>5, <3>1
    <3>2. CASE s \notin Items(r)
      BY <1>1, <1>4, <1>5, <2>2, <3>2 DEF HoldsAgree
    <3> QED BY <3>1, <3>2
  <2> QED BY <2>1, <2>2 DEF HoldsAgree
<1>8. NoDoubleSale'
  <2>1. \A rid \in ReservationIds : Stands(rid)' <=> rid = new \/ Stands(rid)
    BY <1>1, <1>3, <1>4 DEF Stands
  <2>2. \A r1, r2 \in ReservationIds :
          Stands(r1)' /\ Stands(r2)' /\ r1 # r2 =>
            Items(reservations'[r1]) \cap Items(reservations'[r2]) = {}
    BY <1>1, <1>3, <1>4, <1>6, <2>1 DEF NoDoubleSale
  <2>3. \A s \in Seats :
          (seats'[s] # None /\ seats'[s].status = "SOLD") <=>
             seats[s] # None /\ seats[s].status = "SOLD"
    BY <1>2, <1>5
  <2>4. \A rid \in ReservationIds :
          /\ reservations'[rid] # None /\ reservations'[rid].status = "CONFIRMED"
          <=> reservations[rid] # None /\ reservations[rid].status = "CONFIRMED"
    BY <1>1, <1>3, <1>4
  <2>5. \A rid \in ReservationIds :
          reservations[rid] # None => Items(reservations'[rid]) = Items(reservations[rid])
    BY <1>1, <1>4
  <2> QED BY <2>2, <2>3, <2>4, <2>5 DEF NoDoubleSale
<1> QED BY <1>7, <1>8

\* Reservations that end: their seats are held for them and for no other, so
\* letting them go touches no other reservation.
LEMMA EndingKeepsStory ==
  ASSUME Typed, HoldsAgree, NoDoubleSale,
         NEW ended, \A rid \in ended : rid \in ReservationIds /\ Is(rid, "ACTIVE"),
         NEW outcome, NEW newStatus, NEW operation,
         \/ outcome = "CONFIRMED" /\ newStatus = "SOLD"
         \/ outcome \in {"RELEASED", "EXPIRED"} /\ newStatus = "AVAILABLE",
         reservations' = [rid \in ReservationIds |->
           IF rid \in ended
             THEN [reservations[rid] EXCEPT !.status = outcome, !.resourceVersion = @ + 1]
             ELSE reservations[rid]],
         Reallocate(UNION {ReservedSeats(rid) : rid \in ended}, newStatus, None, operation)
  PROVE  HoldsAgree' /\ NoDoubleSale'
<1> DEFINE freed == UNION {ReservedSeats(rid) : rid \in ended}
<1>1. \A rid \in ReservationIds :
        reservations[rid] # None =>
          reservations[rid] \in Reservation /\ Items(reservations[rid]) \subseteq Seats
  BY TypedIs DEF ReservationsTyped, Reservation, Items, Seats
<1>2. \A s \in Seats : s \in freed <=> \E rid \in ended : s \in Items(reservations[rid])
  <2>1. ASSUME NEW rid \in ended PROVE ReservedSeats(rid) = Items(reservations[rid])
    <3>1. rid \in ReservationIds /\ Is(rid, "ACTIVE")
      OBVIOUS
    <3>2. \A s \in Items(reservations[rid]) : seats[s] # None
      BY <3>1 DEF HoldsAgree, Is
    <3> QED BY ONLY <3>2 DEF ReservedSeats
  <2> QED BY <2>1
<1>3. \A s \in freed : s \in Seats /\ seats[s] \in Seat /\ seats[s].status = "HELD"
                       /\ seats[s].reservationId \in ended
  <2> SUFFICES ASSUME NEW rid \in ended, NEW s \in ReservedSeats(rid)
               PROVE  s \in Seats /\ seats[s] \in Seat /\ seats[s].status = "HELD"
                        /\ seats[s].reservationId \in ended
    OBVIOUS
  <2>1. s \in Items(reservations[rid]) /\ s \in Seats
    BY <1>1 DEF ReservedSeats, Is
  <2>2. seats[s] # None /\ seats[s].status = "HELD" /\ seats[s].reservationId = rid
    BY <2>1 DEF HoldsAgree, Is
  <2> QED BY <2>1, <2>2, TypedIs DEF SeatsTyped
<1>4. \A s \in Seats :
        /\ s \in freed => /\ seats'[s] # None /\ seats'[s].status = newStatus
                          /\ seats'[s].reservationId = None
        /\ s \notin freed => seats'[s] = seats[s]
  <2>1. ASSUME NEW s \in freed
        PROVE  /\ seats'[s] # None /\ seats'[s].status = newStatus
               /\ seats'[s].reservationId = None
    <3>1. seats'[s] = InHands(seats[s], newStatus, None)
      BY <1>3, <2>1 DEF Reallocate, InHands
    <3>2. seats[s] \in Seat /\ newStatus \in SeatStatus /\ None \in ReservationIds \cup {None}
      BY <1>3, <2>1 DEF SeatStatus
    <3> HIDE DEF freed
    <3> QED BY ONLY <3>1, <3>2, ChangedSeat
  <2> QED BY <2>1 DEF Reallocate
<1>5. \A rid \in ReservationIds :
        /\ rid \in ended => /\ reservations'[rid] # None /\ reservations'[rid].status = outcome
                            /\ Items(reservations'[rid]) = Items(reservations[rid])
        /\ rid \notin ended => reservations'[rid] = reservations[rid]
  <2>1. ASSUME NEW rid \in ended
        PROVE  /\ reservations'[rid] # None /\ reservations'[rid].status = outcome
               /\ Items(reservations'[rid]) = Items(reservations[rid])
    <3>1. reservations[rid] \in Reservation
      BY <1>1, <2>1 DEF Is
    <3>2. reservations'[rid] =
            [reservations[rid] EXCEPT !.status = outcome, !.resourceVersion = @ + 1]
      BY <2>1
    <3>3. reservations'[rid] \in Reservation
      BY <3>1, <3>2, ChangedReservation DEF ReservationStatus
    <3> QED BY <3>1, <3>2, <3>3, NoneIsNoValue DEF Reservation, Items
  <2> QED BY <2>1
<1> HIDE DEF freed
<1>6. \A rid \in ReservationIds : rid \notin ended /\ Stands(rid) =>
        \A s \in Items(reservations[rid]) : s \in Seats /\ s \notin freed
  <2> SUFFICES ASSUME NEW rid \in ReservationIds, rid \notin ended, Stands(rid),
                      NEW s \in Items(reservations[rid])
               PROVE  s \in Seats /\ s \notin freed
    OBVIOUS
  <2>1. s \in Seats
    BY <1>1 DEF Stands
  <2>2. ASSUME NEW e \in ended, s \in Items(reservations[e]) PROVE FALSE
    <3>1. e \in ReservationIds /\ Stands(e) /\ e # rid
      BY <2>2 DEF Stands, Is
    <3>2. Items(reservations[e]) \cap Items(reservations[rid]) = {}
      BY <3>1 DEF NoDoubleSale
    <3> QED BY <2>2, <3>2
  <2> QED BY <1>2, <2>1, <2>2
<1>7. HoldsAgree'
  <2>1. ASSUME NEW rid \in ReservationIds,
               reservations'[rid] # None, reservations'[rid].status = "ACTIVE",
               NEW s \in Items(reservations'[rid])
        PROVE  /\ seats'[s] # None /\ seats'[s].status = "HELD"
               /\ seats'[s].reservationId = rid
    <3>1. rid \notin ended /\ reservations'[rid] = reservations[rid]
      BY <1>5, <2>1
    <3>2. s \in Seats /\ s \notin freed
      BY <1>6, <2>1, <3>1 DEF Stands
    <3>3. seats[s] # None /\ seats[s].status = "HELD" /\ seats[s].reservationId = rid
      BY <2>1, <3>1 DEF HoldsAgree
    <3> QED BY <1>4, <3>2, <3>3
  <2>2. ASSUME NEW s \in Seats, seats'[s] # None
        PROVE  IF seats'[s].status = "HELD"
                 THEN \E rid \in ReservationIds :
                        /\ seats'[s].reservationId = rid /\ reservations'[rid] # None
                        /\ reservations'[rid].status = "ACTIVE" /\ s \in Items(reservations'[rid])
                 ELSE seats'[s].reservationId = None
    <3>1. CASE s \in freed
      BY <1>4, <3>1
    <3>2. CASE s \notin freed /\ seats[s].status = "HELD"
      <4>1. PICK rid \in ReservationIds :
              /\ seats[s].reservationId = rid /\ Is(rid, "ACTIVE")
              /\ s \in Items(reservations[rid])
        BY <1>4, <2>2, <3>2 DEF HoldsAgree, Is
      <4>2. rid \notin ended
        BY <1>2, <3>2, <4>1
      <4> QED BY <1>4, <1>5, <3>2, <4>1, <4>2 DEF Is
    <3>3. CASE s \notin freed /\ seats[s].status # "HELD"
      BY <1>4, <2>2, <3>3 DEF HoldsAgree
    <3> QED BY <3>1, <3>2, <3>3
  <2> QED BY <2>1, <2>2 DEF HoldsAgree
<1>8. NoDoubleSale'
  <2>1. \A rid \in ReservationIds : Stands(rid)' => Stands(rid)
    BY <1>5 DEF Stands, Is
  <2>2. \A rid \in ReservationIds :
          reservations'[rid] # None => Items(reservations'[rid]) = Items(reservations[rid])
    BY <1>5
  <2>3. \A r1, r2 \in ReservationIds :
          Stands(r1)' /\ Stands(r2)' /\ r1 # r2 =>
            Items(reservations'[r1]) \cap Items(reservations'[r2]) = {}
    BY <2>1, <2>2 DEF NoDoubleSale, Stands
  <2>4. ASSUME NEW s \in Seats
        PROVE  (seats'[s] # None /\ seats'[s].status = "SOLD") <=>
                 \E rid \in ReservationIds :
                   /\ reservations'[rid] # None /\ reservations'[rid].status = "CONFIRMED"
                   /\ s \in Items(reservations'[rid])
    <3>1. CASE s \in freed
      <4>1. PICK rid \in ended : s \in Items(reservations[rid])
        BY <1>2, <3>1
      <4>2. \A other \in ReservationIds :
              other \notin ended => ~(Stands(other) /\ s \in Items(reservations[other]))
        BY <1>6, <3>1
      <4>3. CASE outcome = "CONFIRMED"
        BY <1>4, <1>5, <3>1, <4>1, <4>3
      <4>4. CASE outcome # "CONFIRMED"
        <5>1. seats'[s].status # "SOLD"
          BY <1>4, <3>1, <4>4
        <5>2. ASSUME NEW other \in ReservationIds,
                     reservations'[other] # None, reservations'[other].status = "CONFIRMED",
                     s \in Items(reservations'[other])
              PROVE  FALSE
          BY <1>5, <4>2, <4>4, <5>2 DEF Stands
        <5> QED BY <5>1, <5>2
      <4> QED BY <4>3, <4>4
    <3>2. CASE s \notin freed
      <4>1. \A rid \in ended : s \notin Items(reservations[rid])
        BY <1>2, <3>2
      <4>2. \A rid \in ReservationIds :
              /\ reservations'[rid] # None /\ reservations'[rid].status = "CONFIRMED"
              /\ s \in Items(reservations'[rid])
              <=> /\ reservations[rid] # None /\ reservations[rid].status = "CONFIRMED"
                  /\ s \in Items(reservations[rid])
        BY <1>5, <4>1
      <4>3. (seats[s] # None /\ seats[s].status = "SOLD") <=>
              \E rid \in ReservationIds :
                /\ reservations[rid] # None /\ reservations[rid].status = "CONFIRMED"
                /\ s \in Items(reservations[rid])
        BY DEF NoDoubleSale
      <4>4. seats'[s] = seats[s]
        BY <1>4, <3>2
      <4> QED BY <4>2, <4>3, <4>4
    <3> QED BY <3>1, <3>2
  <2> QED BY <2>3, <2>4 DEF NoDoubleSale
<1> QED BY <1>7, <1>8

\* A definition leaves an allocated seat alone and makes no seat an allocated one.
LEMMA ConfiguredSeat ==
  ASSUME Typed, HoldsAgree, NEW s \in Seats, NEW definition \in SeatDefinition \cup {None}
  PROVE  /\ Allocated(s) => Configured(s, definition) = seats[s]
         /\ ~Allocated(s) /\ Configured(s, definition) # None =>
              /\ Configured(s, definition).status \notin {"HELD", "SOLD"}
              /\ Configured(s, definition).reservationId = None
<1>1. seats[s] \in Seat \cup {None}
  BY TypedIs DEF SeatsTyped
<1>2. CASE Allocated(s)
  BY <1>2 DEF Configured, Configurable, Allocated
<1>3. CASE ~Allocated(s) /\ seats[s] = None
  BY <1>3 DEF Configured, Configurable, SeatDefinition, Allocated
<1>4. CASE ~Allocated(s) /\ seats[s] # None
  <2>1. seats[s] \in Seat /\ Configurable(s) /\ seats[s].status \notin {"HELD", "SOLD"}
    BY <1>1, <1>4 DEF Allocated, Configurable
  <2>2. seats[s].reservationId = None
    BY <1>4, <2>1 DEF HoldsAgree
  <2>3. CASE definition = None
    BY <1>4, <2>1, <2>3 DEF Configured
  <2>4. CASE /\ definition # None
             /\ <<seats[s].layout, seats[s].status>> # <<definition.layout, definition.status>>
    <3>1. definition.status \in {"AVAILABLE", "BLOCKED"}
      BY <2>4 DEF SeatDefinition
    <3>2. Configured(s, definition) =
            [seats[s] EXCEPT !.layout = definition.layout, !.status = definition.status,
                             !.resourceVersion = @ + 1]
      BY <1>4, <2>1, <2>4 DEF Configured
    <3> QED BY <1>4, <2>1, <2>2, <3>1, <3>2 DEF Seat
  <2>5. CASE /\ definition # None
             /\ <<seats[s].layout, seats[s].status>> = <<definition.layout, definition.status>>
    BY <1>4, <2>1, <2>2, <2>5 DEF Configured
  <2> QED BY <2>3, <2>4, <2>5
<1> QED BY <1>2, <1>3, <1>4

\* A new seat map leaves holds and sales alone.
LEMMA ConfigureKeepsStory ==
  ASSUME Typed, HoldsAgree, NoDoubleSale, NEW r \in ConfigureInventoryRequest,
         seats' = [s \in Seats |->
           IF s[1] = r.eventId THEN Configured(s, r.seats[s[2]]) ELSE seats[s]],
         reservations' = reservations
  PROVE  HoldsAgree' /\ NoDoubleSale'
<1>1. ASSUME NEW s \in Seats
      PROVE  /\ Allocated(s) => seats'[s] = seats[s]
             /\ ~Allocated(s) /\ seats'[s] # None =>
                  seats'[s].status \notin {"HELD", "SOLD"} /\ seats'[s].reservationId = None
  <2>1. r.seats[s[2]] \in SeatDefinition \cup {None}
    BY DEF ConfigureInventoryRequest, Seats
  <2>2. CASE s[1] = r.eventId
    BY <2>1, <2>2, ConfiguredSeat
  <2>3. CASE s[1] # r.eventId
    BY <2>3 DEF HoldsAgree, Allocated
  <2> QED BY <2>2, <2>3
<1>2. \A rid \in ReservationIds :
        reservations[rid] # None => Items(reservations[rid]) \subseteq Seats
  BY TypedIs DEF ReservationsTyped, Reservation, Items, Seats
<1>3. HoldsAgree'
  <2>1. ASSUME NEW rid \in ReservationIds,
               reservations[rid] # None, reservations[rid].status = "ACTIVE",
               NEW s \in Items(reservations[rid])
        PROVE  /\ seats'[s] # None /\ seats'[s].status = "HELD"
               /\ seats'[s].reservationId = rid
    <3>1. s \in Seats /\ seats[s] # None /\ seats[s].status = "HELD" /\ seats[s].reservationId = rid
      BY <1>2, <2>1 DEF HoldsAgree
    <3> QED BY <1>1, <3>1 DEF Allocated
  <2>2. ASSUME NEW s \in Seats, seats'[s] # None
        PROVE  IF seats'[s].status = "HELD"
                 THEN \E rid \in ReservationIds :
                        /\ seats'[s].reservationId = rid /\ reservations[rid] # None
                        /\ reservations[rid].status = "ACTIVE" /\ s \in Items(reservations[rid])
                 ELSE seats'[s].reservationId = None
    <3>1. CASE Allocated(s)
      BY <1>1, <2>2, <3>1 DEF HoldsAgree
    <3>2. CASE ~Allocated(s)
      BY <1>1, <2>2, <3>2
    <3> QED BY <3>1, <3>2
  <2> QED BY <2>1, <2>2 DEF HoldsAgree
<1>4. \A s \in Seats : (seats'[s] # None /\ seats'[s].status = "SOLD") <=>
                         seats[s] # None /\ seats[s].status = "SOLD"
  BY <1>1 DEF Allocated
<1>5. NoDoubleSale'
  BY <1>4 DEF NoDoubleSale, Stands
<1> QED BY <1>3, <1>5

\* The inductive invariant.
Inv == Typed /\ HoldsAgree /\ NoDoubleSale

\* Conclude in the form of EndingKeepsStory.
LEMMA ConcludeKeepsStory ==
  ASSUME Inv, NEW rid \in ReservationIds, Is(rid, "ACTIVE"),
         NEW outcome, NEW newStatus, NEW operation,
         \/ outcome = "CONFIRMED" /\ newStatus = "SOLD"
         \/ outcome \in {"RELEASED", "EXPIRED"} /\ newStatus = "AVAILABLE",
         Conclude(rid, outcome, newStatus, operation)
  PROVE  HoldsAgree' /\ NoDoubleSale'
<1> DEFINE ended == {rid}
<1>1. reservations' = [x \in ReservationIds |->
        IF x \in ended
          THEN [reservations[x] EXCEPT !.status = outcome, !.resourceVersion = @ + 1]
          ELSE reservations[x]]
  BY TypedIs DEF Inv, Conclude, ReservationsTyped
<1>2. Reallocate(UNION {ReservedSeats(x) : x \in ended}, newStatus, None, operation)
  <2>1. UNION {ReservedSeats(x) : x \in ended} = ReservedSeats(rid)
    OBVIOUS
  <2> QED BY <2>1 DEF Conclude
<1>3. \A x \in ended : x \in ReservationIds /\ Is(x, "ACTIVE")
  OBVIOUS
<1> HIDE DEF ended
<1> QED BY <1>1, <1>2, <1>3, EndingKeepsStory DEF Inv

\* Every step keeps seat rows and reservation rows in agreement.
LEMMA NextKeepsStory ==
  ASSUME Inv, [Next]_vars
  PROVE  HoldsAgree' /\ NoDoubleSale'
<1> USE DEF Inv
<1>1. ASSUME UNCHANGED <<seats, reservations>> PROVE HoldsAgree' /\ NoDoubleSale'
  BY <1>1, SameStory
<1>2. CASE UNCHANGED vars
  BY <1>1, <1>2 DEF vars
<1>3. CASE Tick
  BY <1>1, <1>3 DEF Tick
<1>4. CASE ExpireReservations
  <2>1. PICK locked : Sweep(locked)
    BY <1>4 DEF ExpireReservations
  <2>2. PICK batch \in Batches(locked) :
          LET expired == {rid \in batch : HoldIsConsistent(rid)}
          IN  /\ reservations' = [rid \in ReservationIds |->
                   IF rid \in expired
                     THEN [reservations[rid] EXCEPT !.status = "EXPIRED",
                                                    !.resourceVersion = @ + 1]
                     ELSE reservations[rid]]
              /\ Reallocate(UNION {ReservedSeats(rid) : rid \in expired},
                            "AVAILABLE", None, "ExpireReservations")
    BY <2>1 DEF Sweep
  <2> DEFINE expired == {rid \in batch : HoldIsConsistent(rid)}
  <2>3. \A rid \in expired : rid \in ReservationIds /\ Is(rid, "ACTIVE")
    BY DEF Batches, Due, Is
  <2> HIDE DEF expired
  <2>4. /\ reservations' = [rid \in ReservationIds |->
             IF rid \in expired
               THEN [reservations[rid] EXCEPT !.status = "EXPIRED", !.resourceVersion = @ + 1]
               ELSE reservations[rid]]
        /\ Reallocate(UNION {ReservedSeats(rid) : rid \in expired},
                      "AVAILABLE", None, "ExpireReservations")
    BY <2>2 DEF expired
  <2> QED BY <2>3, <2>4, EndingKeepsStory
<1>5. ASSUME NEW key \in Keys, Command(key) PROVE HoldsAgree' /\ NoDoubleSale'
  <2>1. ASSUME NEW r \in ReserveSeatsRequest, ReserveSeats(key, r)
        PROVE  HoldsAgree' /\ NoDoubleSale'
    <3>1. CASE HoldSeats(key, r)
      BY <3>1, HoldKeepsStory
    <3>2. CASE ~HoldSeats(key, r)
      BY <1>1, <2>1, <3>2 DEF ReserveSeats, ReplayHold, Replay, AnswerWithExistingHold
    <3> QED BY <3>1, <3>2
  <2>2. ASSUME NEW rid \in ReservationIds, NEW v \in KnownVersions,
               ConfirmSeats(key, [reservationId |-> rid, expectedVersion |-> v])
        PROVE  HoldsAgree' /\ NoDoubleSale'
    <3>1. \/ UNCHANGED <<seats, reservations>>
          \/ Is(rid, "ACTIVE") /\ Conclude(rid, "CONFIRMED", "SOLD", "ConfirmSeats")
      BY <2>2 DEF ConfirmSeats, Replay, ActiveHold, Is
    <3> QED BY <1>1, <3>1, ConcludeKeepsStory
  <2>3. ASSUME NEW r \in ReleaseSeatsRequest, ReleaseSeats(key, r)
        PROVE  HoldsAgree' /\ NoDoubleSale'
    <3>1. r.reservationId \in ReservationIds
      BY DEF ReleaseSeatsRequest
    <3>2. \/ UNCHANGED <<seats, reservations>>
          \/ /\ Is(r.reservationId, "ACTIVE")
             /\ Conclude(r.reservationId, "RELEASED", "AVAILABLE", "ReleaseSeats")
      BY <2>3 DEF ReleaseSeats, Replay, Is
    <3> QED BY <1>1, <3>1, <3>2, ConcludeKeepsStory
  <2>4. ASSUME NEW rid \in ReservationIds, NEW v \in KnownVersions,
               NEW x \in ExtensionSeconds,
               ExtendReservation(key, [reservationId |-> rid, expectedVersion |-> v,
                                       extensionSeconds |-> x])
        PROVE  HoldsAgree' /\ NoDoubleSale'
    <3>1. CASE UNCHANGED <<seats, reservations>>
      BY <1>1, <3>1
    <3>2. CASE /\ reservations[rid] # None /\ UNCHANGED seats
               /\ reservations' = [reservations EXCEPT ![rid].expiresAt = @ + x,
                                                       ![rid].extendCount = @ + 1,
                                                       ![rid].resourceVersion = @ + 1]
      <4>1. reservations[rid] \in Reservation
        BY <3>2, TypedIs DEF ReservationsTyped
      <4>2. reservations'[rid] = [reservations[rid] EXCEPT !.expiresAt = @ + x,
                                                           !.extendCount = @ + 1,
                                                           !.resourceVersion = @ + 1]
        BY <3>2, TypedIs DEF ReservationsTyped
      <4>3. reservations'[rid] \in Reservation
        <5>1. x \in Nat
          BY SettingsArePositive
        <5>2. [reservations[rid] EXCEPT !.expiresAt = @ + x, !.extendCount = @ + 1,
                                        !.resourceVersion = @ + 1] \in Reservation
          BY <4>1, <5>1, ChangedReservation DEF ReservationStatus
        <5> QED BY <4>2, <5>2
      <4>4. /\ reservations'[rid] # None
            /\ reservations'[rid].status = reservations[rid].status
            /\ Items(reservations'[rid]) = Items(reservations[rid])
        BY <4>1, <4>2, <4>3, NoneIsNoValue DEF Reservation, Items
      <4>5. \A other \in ReservationIds :
              other # rid => reservations'[other] = reservations[other]
        BY <3>2, TypedIs DEF ReservationsTyped
      <4> QED BY <3>2, <4>4, <4>5, SameStory
    <3> QED BY <2>4, <3>1, <3>2 DEF ExtendReservation, Replay
  <2>5. ASSUME NEW r \in ConfigureInventoryRequest, ConfigureInventory(key, r)
        PROVE  HoldsAgree' /\ NoDoubleSale'
    <3>1. CASE UNCHANGED <<seats, reservations>>
      BY <1>1, <3>1
    <3>2. CASE ~UNCHANGED <<seats, reservations>>
      <4>1. /\ seats' = [s \in Seats |->
                 IF s[1] = r.eventId THEN Configured(s, r.seats[s[2]]) ELSE seats[s]]
            /\ reservations' = reservations
        BY <2>5, <3>2 DEF ConfigureInventory, Replay
      <4> QED BY <4>1, ConfigureKeepsStory
    <3> QED BY <3>1, <3>2
  <2> QED BY <1>5, <2>1, <2>2, <2>3, <2>4, <2>5 DEF Command
<1> QED BY <1>2, <1>3, <1>4, <1>5 DEF Next

\* The invariant holds at the start and is kept by every step.
LEMMA InvHolds == Spec => []Inv
<1>1. Init => Inv
  <2>1. Init => HoldsAgree /\ NoDoubleSale
    BY DEF Init, HoldsAgree, NoDoubleSale, Stands
  <2> QED BY <2>1, InitIsTyped DEF Inv
<1>2. Inv /\ [Next]_vars => Inv'
  BY NextKeepsTypes, NextKeepsStory DEF Inv
<1> QED BY <1>1, <1>2, PTL DEF Spec

\* Seat rows and reservation rows always agree: no command ever meets the
\* INCONSISTENT_SEAT_HOLD fault, however many replicas and callers there are.
THEOREM HoldsAlwaysAgree == Spec => []HoldsAgree
<1>1. Inv => HoldsAgree
  BY DEF Inv
<1> QED BY <1>1, InvHolds, PTL

\* No seat is ever sold twice, or sold while it is held for another booking.
THEOREM NoSeatIsSoldTwice == Spec => []NoDoubleSale
<1>1. Inv => NoDoubleSale
  BY DEF Inv
<1> QED BY <1>1, InvHolds, PTL

-----------------------------------------------------------------------------
(* Outcomes are final. *)

\* Seats that change hands keep their layout; only seats not sold do.
LEMMA ReallocationKeepsSeats ==
  ASSUME Inv, NEW changing,
         \A s \in changing : s \in Seats /\ seats[s] # None /\ seats[s].status # "SOLD",
         NEW newStatus \in SeatStatus, NEW newOwner \in ReservationIds \cup {None},
         NEW operation, Reallocate(changing, newStatus, newOwner, operation)
  PROVE  SeatsKept
<1> SUFFICES ASSUME NEW s \in Seats, Allocated(s)
             PROVE  /\ seats'[s] # None /\ seats'[s].layout = seats[s].layout
                    /\ seats[s].status = "SOLD" => seats'[s] = seats[s]
  BY DEF SeatsKept
<1>1. seats[s] \in Seat /\ seats[s] # None
  BY TypedIs DEF Inv, SeatsTyped, Allocated
<1>2. CASE s \notin changing
  BY <1>1, <1>2 DEF Reallocate
<1>3. CASE s \in changing
  <2>1. seats'[s] = InHands(seats[s], newStatus, newOwner)
    BY <1>3 DEF Reallocate, InHands
  <2>2. InHands(seats[s], newStatus, newOwner).layout = seats[s].layout
    BY <1>1 DEF InHands, Seat
  <2>3. InHands(seats[s], newStatus, newOwner) # None
    BY <1>1, ChangedSeat
  <2> QED BY <1>3, <2>1, <2>2, <2>3
<1> QED BY <1>2, <1>3

\* Ending is the last change of an active reservation.
LEMMA EndingKeepsReservations ==
  ASSUME Inv, NEW ended, \A rid \in ended : rid \in ReservationIds /\ Is(rid, "ACTIVE"),
         NEW outcome,
         reservations' = [rid \in ReservationIds |->
           IF rid \in ended
             THEN [reservations[rid] EXCEPT !.status = outcome, !.resourceVersion = @ + 1]
             ELSE reservations[rid]]
  PROVE  ReservationsKept
<1> SUFFICES ASSUME NEW rid \in ReservationIds, reservations[rid] # None
             PROVE  \/ reservations'[rid] = reservations[rid]
                    \/ /\ reservations[rid].status = "ACTIVE"
                       /\ reservations'[rid].resourceVersion = reservations[rid].resourceVersion + 1
                       /\ reservations'[rid].expiresAt >= reservations[rid].expiresAt
                       /\ reservations'[rid].seatIds = reservations[rid].seatIds
  BY DEF ReservationsKept
<1>1. reservations[rid] \in Reservation
  BY TypedIs DEF Inv, ReservationsTyped
<1>2. CASE rid \in ended
  <2>1. reservations'[rid] =
          [reservations[rid] EXCEPT !.status = outcome, !.resourceVersion = @ + 1]
    BY <1>2
  <2>2. /\ reservations'[rid].resourceVersion = reservations[rid].resourceVersion + 1
        /\ reservations'[rid].expiresAt = reservations[rid].expiresAt
        /\ reservations'[rid].seatIds = reservations[rid].seatIds
        /\ reservations[rid].expiresAt \in Nat
    BY <1>1, <2>1 DEF Reservation
  <2>3. reservations[rid].status = "ACTIVE"
    BY <1>2 DEF Is
  <2>4. reservations'[rid].expiresAt >= reservations[rid].expiresAt
    BY ONLY <2>2
  <2> QED BY ONLY <2>2, <2>3, <2>4
<1>3. CASE rid \notin ended
  BY <1>3
<1> QED BY <1>2, <1>3

\* The seats an active reservation lets go are held, hence not sold.
LEMMA ReservedSeatsAreHeld ==
  ASSUME Inv, NEW rid \in ReservationIds, Is(rid, "ACTIVE"), NEW s \in ReservedSeats(rid)
  PROVE  s \in Seats /\ seats[s] # None /\ seats[s].status # "SOLD"
<1>1. reservations[rid] \in Reservation
  BY TypedIs DEF Inv, Is, ReservationsTyped
<1>2. s \in Items(reservations[rid]) /\ s \in Seats
  BY <1>1 DEF ReservedSeats, Items, Seats, Reservation
<1> QED BY <1>2 DEF Inv, HoldsAgree, Is

\* A reservation that is confirmed or released reaches a final outcome.
LEMMA ConcludeIsFinal ==
  ASSUME Inv, NEW rid \in ReservationIds, Is(rid, "ACTIVE"), NEW outcome,
         NEW newStatus \in SeatStatus, NEW operation,
         Conclude(rid, outcome, newStatus, operation)
  PROVE  ReservationsKept /\ SeatsKept
<1> DEFINE ended == {rid}
<1>1. reservations' = [x \in ReservationIds |->
        IF x \in ended
          THEN [reservations[x] EXCEPT !.status = outcome, !.resourceVersion = @ + 1]
          ELSE reservations[x]]
  BY TypedIs DEF Inv, Conclude, ReservationsTyped
<1>2. \A x \in ended : x \in ReservationIds /\ Is(x, "ACTIVE")
  OBVIOUS
<1> HIDE DEF ended
<1>3. ReservationsKept
  BY <1>1, <1>2, EndingKeepsReservations
<1>4. SeatsKept
  BY ReservedSeatsAreHeld, ReallocationKeepsSeats DEF Conclude
<1> QED BY <1>3, <1>4

\* No step of the service changes an outcome.
LEMMA NextKeepsOutcomes ==
  ASSUME Inv, [Next]_vars
  PROVE  ReservationsKept /\ SeatsKept
<1>1. ASSUME UNCHANGED <<seats, reservations>> PROVE ReservationsKept /\ SeatsKept
  BY <1>1 DEF ReservationsKept, SeatsKept, Allocated
<1>2. CASE UNCHANGED vars
  BY <1>1, <1>2 DEF vars
<1>3. CASE Tick
  BY <1>1, <1>3 DEF Tick
<1>4. CASE ExpireReservations
  <2>1. PICK locked : Sweep(locked)
    BY <1>4 DEF ExpireReservations
  <2>2. PICK batch \in Batches(locked) :
          LET expired == {rid \in batch : HoldIsConsistent(rid)}
          IN  /\ reservations' = [rid \in ReservationIds |->
                   IF rid \in expired
                     THEN [reservations[rid] EXCEPT !.status = "EXPIRED",
                                                    !.resourceVersion = @ + 1]
                     ELSE reservations[rid]]
              /\ Reallocate(UNION {ReservedSeats(rid) : rid \in expired},
                            "AVAILABLE", None, "ExpireReservations")
    BY <2>1 DEF Sweep
  <2> DEFINE expired == {rid \in batch : HoldIsConsistent(rid)}
             freed   == UNION {ReservedSeats(rid) : rid \in expired}
  <2>3. \A rid \in expired : rid \in ReservationIds /\ Is(rid, "ACTIVE")
    BY DEF Batches, Due, Is
  <2> HIDE DEF expired
  <2>4. /\ reservations' = [rid \in ReservationIds |->
             IF rid \in expired
               THEN [reservations[rid] EXCEPT !.status = "EXPIRED", !.resourceVersion = @ + 1]
               ELSE reservations[rid]]
        /\ Reallocate(freed, "AVAILABLE", None, "ExpireReservations")
    BY <2>2 DEF expired
  <2>5. \A s \in freed : s \in Seats /\ seats[s] # None /\ seats[s].status # "SOLD"
    BY <2>3, ReservedSeatsAreHeld
  <2> HIDE DEF freed
  <2>6. SeatsKept
    BY <2>4, <2>5, ReallocationKeepsSeats DEF SeatStatus
  <2> QED BY <2>3, <2>4, <2>6, EndingKeepsReservations
<1>5. ASSUME NEW key \in Keys, Command(key) PROVE ReservationsKept /\ SeatsKept
  <2>1. ASSUME NEW r \in ReserveSeatsRequest, ReserveSeats(key, r)
        PROVE  ReservationsKept /\ SeatsKept
    <3>1. CASE HoldSeats(key, r)
      <4>1. PICK new \in ReservationIds :
              /\ reservations[new] = None
              /\ reservations' = [reservations EXCEPT ![new] = NewHold(r)]
              /\ Reallocate(Items(r), "HELD", new, "ReserveSeats")
        BY <3>1 DEF HoldSeats
      <4>2. ReservationsKept
        BY <4>1, TypedIs DEF Inv, ReservationsKept, ReservationsTyped
      <4>3. \A s \in Items(r) : s \in Seats /\ seats[s] # None /\ seats[s].status # "SOLD"
        BY <3>1 DEF HoldSeats, Free, Items, Seats, ReserveSeatsRequest
      <4>4. SeatsKept
        BY <4>1, <4>3, ReallocationKeepsSeats DEF SeatStatus
      <4> QED BY <4>2, <4>4
    <3>2. CASE ~HoldSeats(key, r)
      BY <1>1, <2>1, <3>2 DEF ReserveSeats, ReplayHold, Replay, AnswerWithExistingHold
    <3> QED BY <3>1, <3>2
  <2>2. ASSUME NEW rid \in ReservationIds, NEW v \in KnownVersions,
               ConfirmSeats(key, [reservationId |-> rid, expectedVersion |-> v])
        PROVE  ReservationsKept /\ SeatsKept
    <3>1. \/ UNCHANGED <<seats, reservations>>
          \/ Is(rid, "ACTIVE") /\ Conclude(rid, "CONFIRMED", "SOLD", "ConfirmSeats")
      BY <2>2 DEF ConfirmSeats, Replay, ActiveHold, Is
    <3> QED BY <1>1, <3>1, ConcludeIsFinal DEF SeatStatus
  <2>3. ASSUME NEW r \in ReleaseSeatsRequest, ReleaseSeats(key, r)
        PROVE  ReservationsKept /\ SeatsKept
    <3>1. r.reservationId \in ReservationIds
      BY DEF ReleaseSeatsRequest
    <3>2. \/ UNCHANGED <<seats, reservations>>
          \/ /\ Is(r.reservationId, "ACTIVE")
             /\ Conclude(r.reservationId, "RELEASED", "AVAILABLE", "ReleaseSeats")
      BY <2>3 DEF ReleaseSeats, Replay, Is
    <3> QED BY <1>1, <3>1, <3>2, ConcludeIsFinal DEF SeatStatus
  <2>4. ASSUME NEW rid \in ReservationIds, NEW v \in KnownVersions,
               NEW x \in ExtensionSeconds,
               ExtendReservation(key, [reservationId |-> rid, expectedVersion |-> v,
                                       extensionSeconds |-> x])
        PROVE  ReservationsKept /\ SeatsKept
    <3>1. CASE UNCHANGED <<seats, reservations>>
      BY <1>1, <3>1
    <3>2. CASE /\ Is(rid, "ACTIVE") /\ UNCHANGED seats
               /\ reservations' = [reservations EXCEPT ![rid].expiresAt = @ + x,
                                                       ![rid].extendCount = @ + 1,
                                                       ![rid].resourceVersion = @ + 1]
      <4>1. reservations[rid] \in Reservation /\ x \in Nat
        BY <3>2, TypedIs, SettingsArePositive DEF Inv, Is, ReservationsTyped
      <4>2. reservations'[rid] = [reservations[rid] EXCEPT !.expiresAt = @ + x,
                                                           !.extendCount = @ + 1,
                                                           !.resourceVersion = @ + 1]
        BY <3>2, TypedIs DEF Inv, ReservationsTyped
      <4>3. /\ reservations'[rid].resourceVersion = reservations[rid].resourceVersion + 1
            /\ reservations'[rid].expiresAt >= reservations[rid].expiresAt
            /\ reservations'[rid].seatIds = reservations[rid].seatIds
        BY <4>1, <4>2 DEF Reservation
      <4>4. \A other \in ReservationIds :
              other # rid => reservations'[other] = reservations[other]
        BY <3>2, TypedIs DEF Inv, ReservationsTyped
      <4>5. ReservationsKept
        BY <3>2, <4>3, <4>4 DEF ReservationsKept, Is
      <4>6. SeatsKept
        BY <3>2 DEF SeatsKept, Allocated
      <4> QED BY <4>5, <4>6
    <3> QED BY <2>4, <3>1, <3>2 DEF ExtendReservation, Replay, ActiveHold, Is
  <2>5. ASSUME NEW r \in ConfigureInventoryRequest, ConfigureInventory(key, r)
        PROVE  ReservationsKept /\ SeatsKept
    <3>1. CASE UNCHANGED <<seats, reservations>>
      BY <1>1, <3>1
    <3>2. CASE ~UNCHANGED <<seats, reservations>>
      <4>1. /\ seats' = [s \in Seats |->
                 IF s[1] = r.eventId THEN Configured(s, r.seats[s[2]]) ELSE seats[s]]
            /\ reservations' = reservations
        BY <2>5, <3>2 DEF ConfigureInventory, Replay
      <4>2. ASSUME NEW s \in Seats, Allocated(s) PROVE seats'[s] = seats[s]
        <5>1. r.seats[s[2]] \in SeatDefinition \cup {None}
          BY DEF ConfigureInventoryRequest, Seats
        <5> QED BY <4>1, <4>2, <5>1, ConfiguredSeat DEF Inv
      <4> QED BY <4>1, <4>2 DEF ReservationsKept, SeatsKept, Allocated
    <3> QED BY <3>1, <3>2
  <2> QED BY <1>5, <2>1, <2>2, <2>3, <2>4, <2>5 DEF Command
<1> QED BY <1>2, <1>3, <1>4, <1>5 DEF Next

\* An outcome is final: a sale or an ending is never taken back, an allocated
\* seat is never moved or removed, and a live hold is never cut short by an
\* extension.
THEOREM OutcomesStayFinal == Spec => OutcomesAreFinal
<1>1. Inv /\ [Next]_vars => [ReservationsKept /\ SeatsKept]_vars
  BY NextKeepsOutcomes
<1> QED BY <1>1, InvHolds, PTL DEF Spec, OutcomesAreFinal

-----------------------------------------------------------------------------
(* What the service remembers. AuditExplainsSeats is inductive with the      *)
(* types. AnswersAreTrue is not: a replayed answer is as old as its          *)
(* idempotency record, so the invariant is about the records: what each one  *)
(* reports still names the same seats and, for a confirmation or a release,  *)
(* the outcome that was reported. That an ended reservation holds no seat    *)
(* any more also needs that the rows of reserved seats are never deleted.    *)

(* The shapes of a step. *)

\* A new hold on free seats.
Holding ==
  \E r \in ReserveSeatsRequest, new \in ReservationIds :
    /\ reservations[new] = None
    /\ \A s \in Items(r) : Free(s)
    /\ reservations' = [reservations EXCEPT ![new] = NewHold(r)]
    /\ Reallocate(Items(r), "HELD", new, "ReserveSeats")

\* Active reservations end and let their seats go.
Ending ==
  \E ended \in SUBSET ReservationIds, outcome \in ReservationStatus \ {"ACTIVE"},
     newStatus \in SeatStatus, operation \in Scopes \cup {"ExpireReservations"} :
    /\ \A rid \in ended : Is(rid, "ACTIVE")
    /\ reservations' = [rid \in ReservationIds |->
         IF rid \in ended
           THEN [reservations[rid] EXCEPT !.status = outcome, !.resourceVersion = @ + 1]
           ELSE reservations[rid]]
    /\ Reallocate(UNION {ReservedSeats(rid) : rid \in ended}, newStatus, None, operation)

\* A live hold is extended.
Extending ==
  \E rid \in ReservationIds, x \in ExtensionSeconds :
    /\ Is(rid, "ACTIVE")
    /\ reservations' = [reservations EXCEPT ![rid].expiresAt = @ + x,
                                            ![rid].extendCount = @ + 1,
                                            ![rid].resourceVersion = @ + 1]
    /\ UNCHANGED <<seats, audit>>

\* The audit row ConfigureInventory appends to a seat it changed.
ConfiguredRow(s) ==
  [operation |-> "ConfigureInventory", reservationId |-> None,
   previousStatus |-> StatusOf(seats[s]), newStatus |-> StatusOf(seats'[s]),
   resourceVersion |-> VersionOf(seats[s]) + 1]

\* An administrator defines the seats of an event.
Configuring ==
  \E r \in ConfigureInventoryRequest :
    /\ InventoryAccepted(r)
    /\ seats' = [s \in Seats |->
         IF s[1] = r.eventId THEN Configured(s, r.seats[s[2]]) ELSE seats[s]]
    /\ audit' = [s \in Seats |->
         IF seats'[s] = seats[s] THEN audit[s] ELSE Append(audit[s], ConfiguredRow(s))]
    /\ UNCHANGED reservations

Unmoved == UNCHANGED <<seats, reservations, audit>>

\* Ending one reservation, as ConfirmSeats and ReleaseSeats do.
LEMMA ConcludeIsEnding ==
  ASSUME Inv, NEW rid \in ReservationIds, Is(rid, "ACTIVE"),
         NEW outcome \in ReservationStatus \ {"ACTIVE"}, NEW newStatus \in SeatStatus,
         NEW operation \in Scopes, Conclude(rid, outcome, newStatus, operation)
  PROVE  Ending
<1> DEFINE ended == {rid}
<1>1. reservations' = [x \in ReservationIds |->
        IF x \in ended
          THEN [reservations[x] EXCEPT !.status = outcome, !.resourceVersion = @ + 1]
          ELSE reservations[x]]
  BY TypedIs DEF Inv, Conclude, ReservationsTyped
<1>2. Reallocate(UNION {ReservedSeats(x) : x \in ended}, newStatus, None, operation)
  <2>1. UNION {ReservedSeats(x) : x \in ended} = ReservedSeats(rid)
    OBVIOUS
  <2> QED BY <2>1 DEF Conclude
<1>3. ended \in SUBSET ReservationIds /\ \A x \in ended : Is(x, "ACTIVE")
  OBVIOUS
<1> HIDE DEF ended
<1> QED BY <1>1, <1>2, <1>3 DEF Ending

\* Every step of the service that touches a seat, a reservation or the audit is
\* a new hold, the end of holds, an extension or a new seat map.
LEMMA StepsAre ==
  ASSUME Inv, [Next]_vars
  PROVE  Unmoved \/ Holding \/ Ending \/ Extending \/ Configuring
<1>1. CASE UNCHANGED vars
  BY <1>1 DEF vars, Unmoved
<1>2. CASE Tick
  BY <1>2 DEF Tick, Unmoved
<1>3. CASE ExpireReservations
  <2>1. PICK locked : Sweep(locked)
    BY <1>3 DEF ExpireReservations
  <2>2. PICK batch \in Batches(locked) :
          LET expired == {rid \in batch : HoldIsConsistent(rid)}
          IN  /\ reservations' = [rid \in ReservationIds |->
                   IF rid \in expired
                     THEN [reservations[rid] EXCEPT !.status = "EXPIRED",
                                                    !.resourceVersion = @ + 1]
                     ELSE reservations[rid]]
              /\ Reallocate(UNION {ReservedSeats(rid) : rid \in expired},
                            "AVAILABLE", None, "ExpireReservations")
    BY <2>1 DEF Sweep
  <2> DEFINE expired == {rid \in batch : HoldIsConsistent(rid)}
  <2>3. expired \in SUBSET ReservationIds /\ \A rid \in expired : Is(rid, "ACTIVE")
    BY DEF Batches, Due, Is
  <2>4. /\ reservations' = [rid \in ReservationIds |->
             IF rid \in expired
               THEN [reservations[rid] EXCEPT !.status = "EXPIRED", !.resourceVersion = @ + 1]
               ELSE reservations[rid]]
        /\ Reallocate(UNION {ReservedSeats(rid) : rid \in expired},
                      "AVAILABLE", None, "ExpireReservations")
    BY <2>2
  <2>5. /\ "EXPIRED" \in ReservationStatus \ {"ACTIVE"} /\ "AVAILABLE" \in SeatStatus
        /\ "ExpireReservations" \in Scopes \cup {"ExpireReservations"}
    BY DEF ReservationStatus, SeatStatus
  <2> HIDE DEF expired
  <2> QED BY <2>3, <2>4, <2>5 DEF Ending
<1>4. ASSUME NEW key \in Keys, Command(key)
      PROVE  Unmoved \/ Holding \/ Ending \/ Extending \/ Configuring
  <2>1. ASSUME NEW r \in ReserveSeatsRequest, ReserveSeats(key, r)
        PROVE  Unmoved \/ Holding
    BY <2>1 DEF ReserveSeats, ReplayHold, Replay, AnswerWithExistingHold, HoldSeats,
                Unmoved, Holding
  <2>2. ASSUME NEW rid \in ReservationIds, NEW v \in KnownVersions,
               ConfirmSeats(key, [reservationId |-> rid, expectedVersion |-> v])
        PROVE  Unmoved \/ Ending
    <3>1. \/ Unmoved
          \/ Is(rid, "ACTIVE") /\ Conclude(rid, "CONFIRMED", "SOLD", "ConfirmSeats")
      BY <2>2 DEF ConfirmSeats, Replay, ActiveHold, Is, Unmoved
    <3> QED BY <3>1, ConcludeIsEnding, ScopesAre DEF SeatStatus, ReservationStatus
  <2>3. ASSUME NEW r \in ReleaseSeatsRequest, ReleaseSeats(key, r)
        PROVE  Unmoved \/ Ending
    <3>1. r.reservationId \in ReservationIds
      BY DEF ReleaseSeatsRequest
    <3>2. \/ Unmoved
          \/ /\ Is(r.reservationId, "ACTIVE")
             /\ Conclude(r.reservationId, "RELEASED", "AVAILABLE", "ReleaseSeats")
      BY <2>3 DEF ReleaseSeats, Replay, Is, Unmoved
    <3> QED BY <3>1, <3>2, ConcludeIsEnding, ScopesAre DEF SeatStatus, ReservationStatus
  <2>4. ASSUME NEW rid \in ReservationIds, NEW v \in KnownVersions,
               NEW x \in ExtensionSeconds,
               ExtendReservation(key, [reservationId |-> rid, expectedVersion |-> v,
                                       extensionSeconds |-> x])
        PROVE  Unmoved \/ Extending
    BY <2>4 DEF ExtendReservation, Replay, ActiveHold, Is, Unmoved, Extending
  <2>5. ASSUME NEW r \in ConfigureInventoryRequest, ConfigureInventory(key, r)
        PROVE  Unmoved \/ Configuring
    BY <2>5 DEF ConfigureInventory, Replay, Unmoved, Configuring, ConfiguredRow
  <2> QED BY <1>4, <2>1, <2>2, <2>3, <2>4, <2>5 DEF Command
<1> QED BY <1>1, <1>2, <1>3, <1>4 DEF Next

-----------------------------------------------------------------------------
(* The audit. *)

\* A sequence of rows that continue one another.
Chain(rows) ==
  \A i \in 1 .. Len(rows) :
    IF i = 1 \/ rows[IF i = 1 THEN 1 ELSE i - 1].newStatus = None
      THEN rows[i].previousStatus = None /\ rows[i].resourceVersion = 1
      ELSE /\ rows[i].previousStatus = rows[i - 1].newStatus
           /\ rows[i].resourceVersion = rows[i - 1].resourceVersion + 1

\* The rows end where the seat is.
EndsAt(rows, seat) ==
  IF rows = <<>> THEN seat = None
  ELSE /\ rows[Len(rows)].newStatus = StatusOf(seat)
       /\ seat # None => rows[Len(rows)].resourceVersion = seat.resourceVersion

\* The audit, seat by seat.
LEMMA ExplainsIs ==
  AuditExplainsSeats <=> \A s \in Seats : Chain(audit[s]) /\ EndsAt(audit[s], seats[s])
BY DEF AuditExplainsSeats, Chain, EndsAt

\* Audit rows are appended: one that starts from the seat before and leaves the
\* seat after continues the history.
LEMMA HistoryGrows ==
  ASSUME NEW rows \in Seq(AuditRow), NEW row \in AuditRow,
         NEW before \in Seat \cup {None}, NEW after \in Seat \cup {None},
         Chain(rows), EndsAt(rows, before),
         row.previousStatus = StatusOf(before),
         row.resourceVersion = VersionOf(before) + 1,
         row.newStatus = StatusOf(after),
         after # None => row.resourceVersion = after.resourceVersion
  PROVE  Chain(Append(rows, row)) /\ EndsAt(Append(rows, row), after)
<1> DEFINE grown == Append(rows, row)
<1>1. /\ grown \in Seq(AuditRow) /\ Len(grown) = Len(rows) + 1
      /\ grown[Len(rows) + 1] = row
      /\ \A i \in 1 .. Len(rows) : grown[i] = rows[i]
      /\ Len(rows) \in Nat
  OBVIOUS
<1> HIDE DEF grown
<1>2. EndsAt(grown, after)
  BY <1>1 DEF EndsAt
<1>3. ASSUME NEW i \in 1 .. Len(grown)
      PROVE  IF i = 1 \/ grown[IF i = 1 THEN 1 ELSE i - 1].newStatus = None
               THEN grown[i].previousStatus = None /\ grown[i].resourceVersion = 1
               ELSE /\ grown[i].previousStatus = grown[i - 1].newStatus
                    /\ grown[i].resourceVersion = grown[i - 1].resourceVersion + 1
  <2>1. CASE i \in 1 .. Len(rows)
    <3>1. grown[i] = rows[i]
      BY <1>1, <2>1
    <3>2. i # 1 => grown[i - 1] = rows[i - 1]
      BY <1>1, <2>1
    <3> QED BY <2>1, <3>1, <3>2 DEF Chain
  <2>2. CASE i = Len(rows) + 1 /\ rows = <<>>
    <3>1. before = None /\ i = 1
      BY <2>2 DEF EndsAt
    <3> QED BY <1>1, <2>2, <3>1 DEF StatusOf, VersionOf
  <2>3. CASE i = Len(rows) + 1 /\ rows # <<>>
    <3>1. i # 1 /\ i - 1 = Len(rows) /\ Len(rows) \in 1 .. Len(rows)
      BY <1>1, <2>3
    <3>2. grown[i - 1] = rows[Len(rows)] /\ grown[i] = row
      BY <1>1, <2>3, <3>1
    <3>3. /\ rows[Len(rows)].newStatus = StatusOf(before)
          /\ before # None => rows[Len(rows)].resourceVersion = before.resourceVersion
      BY <2>3 DEF EndsAt
    <3>4. CASE before = None
      BY <3>1, <3>2, <3>3, <3>4 DEF StatusOf, VersionOf
    <3>5. CASE before # None
      <4>1. StatusOf(before) # None
        BY <3>5, NoneIsNoValue DEF StatusOf, Seat
      <4> QED BY <3>1, <3>2, <3>3, <3>5, <4>1 DEF StatusOf, VersionOf
    <3> QED BY <3>4, <3>5
  <2> QED BY <1>1, <2>1, <2>2, <2>3
<1> QED BY <1>2, <1>3 DEF grown, Chain

\* Seats that change hands are audited with the status and version they had.
LEMMA ReallocateExplains ==
  ASSUME SeatsTyped, AuditTyped, AuditExplainsSeats,
         NEW changing, \A s \in changing : s \in Seats /\ seats[s] # None,
         NEW newStatus \in SeatStatus, NEW newOwner \in ReservationIds \cup {None},
         NEW operation \in Scopes \cup {"ExpireReservations"},
         Reallocate(changing, newStatus, newOwner, operation)
  PROVE  AuditExplainsSeats'
<1> SUFFICES ASSUME NEW s \in Seats PROVE Chain(audit'[s]) /\ EndsAt(audit'[s], seats'[s])
  BY DEF AuditExplainsSeats, Chain, EndsAt
<1>1. Chain(audit[s]) /\ EndsAt(audit[s], seats[s])
  BY ExplainsIs
<1>2. CASE s \notin changing
  BY <1>1, <1>2 DEF Reallocate
<1>3. CASE s \in changing
  <2> DEFINE row == AuditRowFor(s, operation, newStatus, newOwner)
  <2>1. seats[s] \in Seat /\ seats[s] # None /\ audit[s] \in Seq(AuditRow)
    BY <1>3 DEF SeatsTyped, AuditTyped
  <2>2. seats'[s] = InHands(seats[s], newStatus, newOwner) /\ audit'[s] = Append(audit[s], row)
    BY <1>3 DEF Reallocate, InHands
  <2>3. /\ InHands(seats[s], newStatus, newOwner) \in Seat
        /\ InHands(seats[s], newStatus, newOwner) # None
        /\ InHands(seats[s], newStatus, newOwner).status = newStatus
    BY <2>1, ChangedSeat
  <2>4. /\ InHands(seats[s], newStatus, newOwner).resourceVersion
             = seats[s].resourceVersion + 1
        /\ seats[s].status \in SeatStatus /\ seats[s].resourceVersion + 1 \in Nat \ {0}
        /\ seats[s].reservationId \in ReservationIds \cup {None}
    BY <2>1 DEF InHands, Seat
  <2>5. row \in AuditRow
    BY <2>4 DEF AuditRowFor, AuditRow
  <2>6. /\ row.previousStatus = StatusOf(seats[s]) /\ row.newStatus = StatusOf(seats'[s])
        /\ row.resourceVersion = VersionOf(seats[s]) + 1
        /\ row.resourceVersion = seats'[s].resourceVersion
    BY <2>1, <2>2, <2>3, <2>4 DEF AuditRowFor, StatusOf, VersionOf
  <2> HIDE DEF row
  <2> QED BY <1>1, <2>1, <2>2, <2>3, <2>5, <2>6, HistoryGrows
<1> QED BY <1>2, <1>3

\* A seat that a definition changes is new, or gone, or one version further.
LEMMA ConfiguredVersion ==
  ASSUME SeatsTyped, NEW s \in Seats, NEW definition \in SeatDefinition \cup {None},
         Configured(s, definition) # seats[s], Configured(s, definition) # None
  PROVE  Configured(s, definition).resourceVersion = VersionOf(seats[s]) + 1
<1>1. seats[s] \in Seat \cup {None}
  BY DEF SeatsTyped
<1>2. CASE seats[s] = None
  BY <1>2 DEF Configured, Configurable, VersionOf
<1>3. CASE seats[s] # None
  <2>1. Configured(s, definition) =
          [seats[s] EXCEPT !.layout = definition.layout, !.status = definition.status,
                           !.resourceVersion = @ + 1]
    BY <1>3 DEF Configured
  <2>2. seats[s] \in Seat
    BY <1>1, <1>3
  <2> QED BY <1>3, <2>1, <2>2 DEF Seat, VersionOf
<1> QED BY <1>2, <1>3

\* Every step keeps each seat's history complete.
LEMMA NextExplains ==
  ASSUME Inv, AuditExplainsSeats, [Next]_vars
  PROVE  AuditExplainsSeats'
<1>1. SeatsTyped /\ AuditTyped /\ ReservationsTyped
  BY TypedIs DEF Inv
<1>2. CASE Unmoved
  BY <1>2 DEF Unmoved, AuditExplainsSeats
<1>3. CASE Holding
  <2>1. PICK r \in ReserveSeatsRequest, new \in ReservationIds :
          /\ \A s \in Items(r) : Free(s)
          /\ Reallocate(Items(r), "HELD", new, "ReserveSeats")
    BY <1>3 DEF Holding
  <2>2. \A s \in Items(r) : s \in Seats /\ seats[s] # None
    BY <2>1 DEF Free, Items, Seats, ReserveSeatsRequest
  <2> QED BY <1>1, <2>1, <2>2, ReallocateExplains, ScopesAre DEF SeatStatus
<1>4. CASE Ending
  <2>1. PICK ended \in SUBSET ReservationIds, newStatus \in SeatStatus,
             operation \in Scopes \cup {"ExpireReservations"} :
          /\ \A rid \in ended : Is(rid, "ACTIVE")
          /\ Reallocate(UNION {ReservedSeats(rid) : rid \in ended}, newStatus, None, operation)
    BY <1>4 DEF Ending
  <2> DEFINE freed == UNION {ReservedSeats(rid) : rid \in ended}
  <2>2. \A s \in freed : s \in Seats /\ seats[s] # None
    BY <2>1, ReservedSeatsAreHeld
  <2>3. Reallocate(freed, newStatus, None, operation)
    BY <2>1
  <2> HIDE DEF freed
  <2> QED BY <1>1, <2>2, <2>3, ReallocateExplains
<1>5. CASE Extending
  BY <1>5 DEF Extending, AuditExplainsSeats
<1>6. CASE Configuring
  <2>1. PICK r \in ConfigureInventoryRequest :
          /\ seats' = [s \in Seats |->
               IF s[1] = r.eventId THEN Configured(s, r.seats[s[2]]) ELSE seats[s]]
          /\ audit' = [s \in Seats |->
               IF seats'[s] = seats[s] THEN audit[s] ELSE Append(audit[s], ConfiguredRow(s))]
    BY <1>6 DEF Configuring
  <2> SUFFICES ASSUME NEW s \in Seats
               PROVE  Chain(audit'[s]) /\ EndsAt(audit'[s], seats'[s])
    BY DEF AuditExplainsSeats, Chain, EndsAt
  <2>2. Chain(audit[s]) /\ EndsAt(audit[s], seats[s])
    BY ExplainsIs
  <2>3. CASE seats'[s] = seats[s]
    BY <2>1, <2>2, <2>3
  <2>4. CASE seats'[s] # seats[s]
    <3>1. seats[s] \in Seat \cup {None} /\ audit[s] \in Seq(AuditRow)
      BY <1>1 DEF SeatsTyped, AuditTyped
    <3>2. r.seats[s[2]] \in SeatDefinition \cup {None}
      BY DEF ConfigureInventoryRequest, Seats
    <3>3. seats'[s] = Configured(s, r.seats[s[2]])
      BY <2>1, <2>4
    <3>4. seats'[s] \in Seat \cup {None}
      BY <1>1, <3>2, <3>3, ConfiguredIsSeat
    <3>5. seats'[s] # None => seats'[s].resourceVersion = VersionOf(seats[s]) + 1
      BY <1>1, <2>4, <3>2, <3>3, ConfiguredVersion
    <3>6. ConfiguredRow(s) \in AuditRow
      <4>1. /\ StatusOf(seats[s]) \in SeatStatus \cup {None}
            /\ StatusOf(seats'[s]) \in SeatStatus \cup {None}
        BY <3>1, <3>4 DEF StatusOf, Seat
      <4>2. VersionOf(seats[s]) + 1 \in Nat \ {0}
        BY <3>1 DEF VersionOf, Seat
      <4> QED BY <4>1, <4>2, ScopesAre DEF AuditRow, ConfiguredRow
    <3>7. audit'[s] = Append(audit[s], ConfiguredRow(s))
      BY <2>1, <2>4
    <3>8. /\ ConfiguredRow(s).previousStatus = StatusOf(seats[s])
          /\ ConfiguredRow(s).newStatus = StatusOf(seats'[s])
          /\ ConfiguredRow(s).resourceVersion = VersionOf(seats[s]) + 1
      BY DEF ConfiguredRow
    <3> QED BY <2>2, <3>1, <3>4, <3>5, <3>6, <3>7, <3>8, HistoryGrows
  <2> QED BY <2>3, <2>4
<1> QED BY <1>2, <1>3, <1>4, <1>5, <1>6, StepsAre

\* The audit of a seat is its history without gaps, whoever changed it: holds,
\* sales, releases, the sweeper and the administrator.
THEOREM AuditIsComplete == Spec => []AuditExplainsSeats
<1>1. Init => AuditExplainsSeats
  BY DEF Init, AuditExplainsSeats
<1>2. Inv /\ AuditExplainsSeats /\ [Next]_vars => AuditExplainsSeats'
  BY NextExplains
<1> QED BY <1>1, <1>2, InvHolds, PTL DEF Spec

-----------------------------------------------------------------------------
(* What a step leaves of reservations and of reserved seats. *)

\* Once made, a reservation keeps its seats and, once ended, its outcome.
ReservationsContinue ==
  \A rid \in ReservationIds : reservations[rid] # None =>
    /\ reservations'[rid] # None
    /\ Items(reservations'[rid]) = Items(reservations[rid])
    /\ reservations[rid].status # "ACTIVE" =>
         reservations'[rid].status = reservations[rid].status

\* The foreign key of reservation_items: the rows of reserved seats stay.
ReservedSeatsRemain ==
  \A rid \in ReservationIds : reservations[rid] # None =>
    \A s \in Items(reservations[rid]) : seats[s] # None

\* No step forgets a reservation, gives it other seats or another outcome.
LEMMA NextContinues ==
  ASSUME Inv, [Next]_vars
  PROVE  ReservationsContinue
<1>1. ReservationsTyped /\ now \in Nat
  BY TypedIs DEF Inv
<1>2. CASE Unmoved \/ Configuring
  BY <1>2 DEF Unmoved, Configuring, ReservationsContinue
<1>3. CASE Holding
  BY <1>1, <1>3 DEF Holding, ReservationsContinue, ReservationsTyped
<1>4. CASE Ending
  <2>1. PICK ended \in SUBSET ReservationIds, outcome \in ReservationStatus :
          /\ \A rid \in ended : Is(rid, "ACTIVE")
          /\ reservations' = [rid \in ReservationIds |->
               IF rid \in ended
                 THEN [reservations[rid] EXCEPT !.status = outcome, !.resourceVersion = @ + 1]
                 ELSE reservations[rid]]
    BY <1>4 DEF Ending
  <2>2. ASSUME NEW rid \in ended
        PROVE  /\ reservations'[rid] # None
               /\ Items(reservations'[rid]) = Items(reservations[rid])
    <3>1. reservations[rid] \in Reservation /\ rid \in ReservationIds
      BY <1>1, <2>1, <2>2 DEF Is, ReservationsTyped
    <3>2. reservations'[rid] =
            [reservations[rid] EXCEPT !.status = outcome, !.resourceVersion = @ + 1]
      BY <2>1, <2>2
    <3>3. reservations'[rid] \in Reservation
      BY <3>1, <3>2, ChangedReservation
    <3> QED BY <3>1, <3>2, <3>3, NoneIsNoValue DEF Reservation, Items
  <2> QED BY <2>1, <2>2 DEF ReservationsContinue, Is
<1>5. CASE Extending
  <2>1. PICK rid \in ReservationIds, x \in ExtensionSeconds :
          /\ Is(rid, "ACTIVE")
          /\ reservations' = [reservations EXCEPT ![rid].expiresAt = @ + x,
                                                  ![rid].extendCount = @ + 1,
                                                  ![rid].resourceVersion = @ + 1]
    BY <1>5 DEF Extending
  <2>2. reservations[rid] \in Reservation /\ x \in Nat
    BY <1>1, <2>1, SettingsArePositive DEF Is, ReservationsTyped
  <2>3. reservations'[rid] = [reservations[rid] EXCEPT !.expiresAt = @ + x,
                                                       !.extendCount = @ + 1,
                                                       !.resourceVersion = @ + 1]
    BY <1>1, <2>1 DEF ReservationsTyped
  <2>4. reservations'[rid] \in Reservation
    <3>1. [reservations[rid] EXCEPT !.expiresAt = @ + x, !.extendCount = @ + 1,
                                    !.resourceVersion = @ + 1] \in Reservation
      BY <2>2, ChangedReservation DEF ReservationStatus
    <3> QED BY <2>3, <3>1
  <2>5. /\ reservations'[rid] # None
        /\ Items(reservations'[rid]) = Items(reservations[rid])
    BY <2>2, <2>3, <2>4, NoneIsNoValue DEF Reservation, Items
  <2>6. \A other \in ReservationIds :
          other # rid => reservations'[other] = reservations[other]
    BY <1>1, <2>1 DEF ReservationsTyped
  <2> QED BY <2>1, <2>5, <2>6 DEF ReservationsContinue, Is
<1> QED BY <1>2, <1>3, <1>4, <1>5, StepsAre

\* Seats that change hands stay.
LEMMA ReallocateRemoves ==
  ASSUME SeatsTyped, NEW changing, \A s \in changing : s \in Seats /\ seats[s] # None,
         NEW newStatus \in SeatStatus, NEW newOwner \in ReservationIds \cup {None},
         NEW operation, Reallocate(changing, newStatus, newOwner, operation)
  PROVE  \A s \in Seats : seats[s] # None => seats'[s] # None
<1> SUFFICES ASSUME NEW s \in Seats, seats[s] # None PROVE seats'[s] # None
  OBVIOUS
<1>1. CASE s \in changing
  <2>1. seats'[s] = InHands(seats[s], newStatus, newOwner) /\ seats[s] \in Seat
    BY <1>1 DEF Reallocate, InHands, SeatsTyped
  <2> QED BY <2>1, ChangedSeat
<1>2. CASE s \notin changing
  BY <1>2 DEF Reallocate
<1> QED BY <1>1, <1>2

\* No step deletes the row of a seat that is in a reservation: holds and sales
\* never do, and a seat map that would is not accepted.
LEMMA NextKeepsReservedSeats ==
  ASSUME Inv, ReservedSeatsRemain, [Next]_vars
  PROVE  ReservedSeatsRemain'
<1>1. /\ SeatsTyped /\ ReservationsTyped /\ ReservationsContinue /\ ReservationsTyped'
      /\ now \in Nat
  BY TypedIs, NextContinues, NextKeepsTypes DEF Inv, Typed, TypeOK, ReservationsTyped
<1>2. ASSUME NEW reservation \in Reservation, NEW s \in Items(reservation)
      PROVE  s \in Seats
  BY <1>2 DEF Reservation, Items, Seats
<1>3. ASSUME \A s \in Seats : seats[s] # None => seats'[s] # None,
             \A rid \in ReservationIds : reservations[rid] = None => reservations'[rid] = None
      PROVE  ReservedSeatsRemain'
  BY <1>1, <1>2, <1>3 DEF ReservedSeatsRemain, ReservationsTyped, ReservationsContinue
<1>4. CASE Unmoved
  BY <1>3, <1>4 DEF Unmoved
<1>5. CASE Holding
  <2>1. PICK r \in ReserveSeatsRequest, new \in ReservationIds :
          /\ reservations[new] = None
          /\ \A s \in Items(r) : Free(s)
          /\ reservations' = [reservations EXCEPT ![new] = NewHold(r)]
          /\ Reallocate(Items(r), "HELD", new, "ReserveSeats")
    BY <1>5 DEF Holding
  <2>2. \A s \in Items(r) : s \in Seats /\ seats[s] # None
    BY <2>1 DEF Free, Items, Seats, ReserveSeatsRequest
  <2>3. \A s \in Seats : seats[s] # None => seats'[s] # None
    BY <1>1, <2>1, <2>2, ReallocateRemoves DEF SeatStatus
  <2>4. /\ reservations'[new] = NewHold(r) /\ Items(NewHold(r)) = Items(r)
        /\ \A rid \in ReservationIds : rid # new => reservations'[rid] = reservations[rid]
    BY <1>1, <2>1 DEF ReservationsTyped, NewHold, Items
  <2> SUFFICES ASSUME NEW rid \in ReservationIds, reservations'[rid] # None,
                      NEW s \in Items(reservations'[rid])
               PROVE  seats'[s] # None
    BY DEF ReservedSeatsRemain
  <2>5. CASE rid = new
    BY <2>2, <2>3, <2>4, <2>5
  <2>6. CASE rid # new
    <3>1. reservations[rid] \in Reservation /\ s \in Items(reservations[rid])
      BY <1>1, <2>4, <2>6 DEF ReservationsTyped
    <3>2. s \in Seats /\ seats[s] # None
      BY <1>2, <2>4, <2>6, <3>1 DEF ReservedSeatsRemain
    <3> QED BY <2>3, <3>2
  <2> QED BY <2>5, <2>6
<1>6. CASE Ending
  <2>1. PICK ended \in SUBSET ReservationIds, outcome \in ReservationStatus,
             newStatus \in SeatStatus, operation \in Scopes \cup {"ExpireReservations"} :
          /\ \A rid \in ended : Is(rid, "ACTIVE")
          /\ reservations' = [rid \in ReservationIds |->
               IF rid \in ended
                 THEN [reservations[rid] EXCEPT !.status = outcome, !.resourceVersion = @ + 1]
                 ELSE reservations[rid]]
          /\ Reallocate(UNION {ReservedSeats(rid) : rid \in ended}, newStatus, None, operation)
    BY <1>6 DEF Ending
  <2> DEFINE freed == UNION {ReservedSeats(rid) : rid \in ended}
  <2>2. \A s \in freed : s \in Seats /\ seats[s] # None
    BY <2>1, ReservedSeatsAreHeld
  <2>3. Reallocate(freed, newStatus, None, operation)
    BY <2>1
  <2>4. \A rid \in ReservationIds : reservations[rid] = None => reservations'[rid] = None
    BY <2>1 DEF Is
  <2> HIDE DEF freed
  <2>5. \A s \in Seats : seats[s] # None => seats'[s] # None
    BY <1>1, <2>2, <2>3, ReallocateRemoves
  <2> QED BY <1>3, <2>4, <2>5
<1>7. CASE Extending
  <2>1. seats' = seats
    BY <1>7 DEF Extending
  <2>2. \A rid \in ReservationIds : reservations[rid] = None => reservations'[rid] = None
    BY <1>1, <1>7 DEF Extending, Is, ReservationsTyped
  <2> QED BY <1>3, <2>1, <2>2
<1>8. CASE Configuring
  <2>1. PICK r \in ConfigureInventoryRequest :
          /\ InventoryAccepted(r)
          /\ seats' = [s \in Seats |->
               IF s[1] = r.eventId THEN Configured(s, r.seats[s[2]]) ELSE seats[s]]
          /\ reservations' = reservations
    BY <1>8 DEF Configuring
  <2> SUFFICES ASSUME NEW rid \in ReservationIds, reservations[rid] # None,
                      NEW s \in Items(reservations[rid])
               PROVE  seats'[s] # None
    BY <2>1 DEF ReservedSeatsRemain
  <2>2. s \in Seats /\ seats[s] # None /\ EverReserved(s) /\ seats[s] \in Seat
    BY <1>1, <1>2 DEF ReservedSeatsRemain, ReservationsTyped, EverReserved, SeatsTyped
  <2>3. CASE s[1] # r.eventId
    BY <2>1, <2>2, <2>3
  <2>4. CASE s[1] = r.eventId
    <3>1. s = <<r.eventId, s[2]>> /\ s[2] \in SeatIds
      BY <2>2, <2>4 DEF Seats
    <3>2. r.seats[s[2]] # None /\ r.seats[s[2]] \in SeatDefinition \cup {None}
      BY <2>1, <2>2, <3>1 DEF InventoryAccepted, ConfigureInventoryRequest
    <3>3. Configured(s, r.seats[s[2]]) # None
      <4>1. CASE Configured(s, r.seats[s[2]]) = seats[s]
        BY <2>2, <4>1
      <4>2. CASE Configured(s, r.seats[s[2]]) # seats[s]
        <5>1. Configured(s, r.seats[s[2]]) =
                [seats[s] EXCEPT !.layout = r.seats[s[2]].layout,
                                 !.status = r.seats[s[2]].status, !.resourceVersion = @ + 1]
          BY <2>2, <3>2, <4>2 DEF Configured
        <5>2. /\ r.seats[s[2]].layout \in Layouts /\ r.seats[s[2]].status \in SeatStatus
              /\ seats[s].resourceVersion + 1 \in Nat \ {0}
          BY <2>2, <3>2 DEF SeatDefinition, SeatStatus, Seat
        <5>3. [seats[s] EXCEPT !.layout = r.seats[s[2]].layout,
                               !.status = r.seats[s[2]].status, !.resourceVersion = @ + 1]
                \in Seat
          BY <2>2, <5>2 DEF Seat
        <5> QED BY <5>1, <5>3, NoneIsNoValue
      <4> QED BY <4>1, <4>2
    <3> QED BY <2>1, <2>2, <2>4, <3>3
  <2> QED BY <2>3, <2>4
<1> QED BY <1>4, <1>5, <1>6, <1>7, <1>8, StepsAre

-----------------------------------------------------------------------------
(* Answers. *)

\* What stays true of a response as long as it is stored.
Truthful(scope, response) ==
  scope \in {"ReserveSeats", "ConfirmSeats", "ReleaseSeats"} =>
    /\ response.reservationId \in ReservationIds
    /\ reservations[response.reservationId] # None
    /\ Items(response.reservation) = Items(reservations[response.reservationId])
    /\ scope = "ConfirmSeats" => reservations[response.reservationId].status = "CONFIRMED"
    /\ scope = "ReleaseSeats" =>
         reservations[response.reservationId].status \in {"RELEASED", "EXPIRED"}

RecordsTruthful ==
  \A scope \in Scopes, key \in Keys :
    Recorded(scope, key) => Truthful(scope, idempotency[<<scope, key>>].response)

\* An answer to ReserveSeats names a hold that is live now.
AnswerTruthful ==
  answer # None =>
    /\ answer.scope \in Scopes
    /\ Truthful(answer.scope, answer.response)
    /\ answer.scope = "ReserveSeats" => ActiveHold(answer.response.reservationId)

\* Truthful stays true.
LEMMA TruthLasts ==
  ASSUME Inv, ReservationsContinue, NEW scope, NEW response, Truthful(scope, response)
  PROVE  Truthful(scope, response)'
<1> SUFFICES ASSUME scope \in {"ReserveSeats", "ConfirmSeats", "ReleaseSeats"}
             PROVE  Truthful(scope, response)'
  BY DEF Truthful
<1> DEFINE rid == response.reservationId
<1>1. /\ rid \in ReservationIds /\ reservations[rid] # None
      /\ Items(response.reservation) = Items(reservations[rid])
      /\ scope = "ConfirmSeats" => reservations[rid].status = "CONFIRMED"
      /\ scope = "ReleaseSeats" => reservations[rid].status \in {"RELEASED", "EXPIRED"}
  BY DEF Truthful
<1>2. /\ reservations'[rid] # None
      /\ Items(reservations'[rid]) = Items(reservations[rid])
      /\ reservations[rid].status # "ACTIVE" =>
           reservations'[rid].status = reservations[rid].status
  BY <1>1 DEF ReservationsContinue
<1>3. Items(response.reservation)' = Items(response.reservation)
  BY DEF Items
<1> QED BY <1>1, <1>2 DEF Truthful

\* save_replay of a truthful response.
LEMMA AnswerKeepsTruth ==
  ASSUME Inv, RecordsTruthful, ReservationsContinue,
         NEW scope \in Scopes, NEW key \in Keys, NEW r, NEW response,
         Answer(scope, key, r, response), Truthful(scope, response)',
         scope = "ReserveSeats" => ActiveHold(response.reservationId)'
  PROVE  RecordsTruthful' /\ AnswerTruthful'
<1>1. ASSUME NEW sc \in Scopes, NEW k \in Keys, Recorded(sc, k)'
      PROVE  Truthful(sc, idempotency[<<sc, k>>].response)'
  <2>1. Records
    BY TypedIs DEF Inv
  <2>2. CASE sc = scope /\ k = key
    <3>1. idempotency'[<<sc, k>>].response = response
      BY <2>1, <2>2 DEF Answer, Records
    <3> QED BY <2>2, <3>1
  <2>3. CASE ~(sc = scope /\ k = key)
    <3>1. idempotency'[<<sc, k>>] = idempotency[<<sc, k>>]
      BY <2>1, <2>3 DEF Answer, Records
    <3>2. Truthful(sc, idempotency[<<sc, k>>].response)
      BY <1>1, <3>1 DEF RecordsTruthful, Recorded
    <3> DEFINE stored == idempotency[<<sc, k>>].response
    <3>3. idempotency'[<<sc, k>>].response = stored
      BY <3>1
    <3>4. ASSUME NEW x, Truthful(sc, x) PROVE Truthful(sc, x)'
      BY <3>4, TruthLasts
    <3> QED BY <3>2, <3>3, <3>4
  <2> QED BY <2>2, <2>3
<1>2. RecordsTruthful'
  BY <1>1 DEF RecordsTruthful
<1>3. AnswerTruthful'
  BY DEF Answer, AnswerTruthful
<1> QED BY <1>2, <1>3

\* A step that stores nothing keeps what is stored truthful.
LEMMA StoredTruthLasts ==
  ASSUME Inv, RecordsTruthful, ReservationsContinue,
         \A scope \in Scopes, key \in Keys :
           idempotency'[<<scope, key>>] \in {idempotency[<<scope, key>>], None}
  PROVE  RecordsTruthful'
<1> SUFFICES ASSUME NEW scope \in Scopes, NEW key \in Keys, Recorded(scope, key)'
             PROVE  Truthful(scope, idempotency[<<scope, key>>].response)'
  BY DEF RecordsTruthful
<1> DEFINE stored == idempotency[<<scope, key>>].response
<1>1. idempotency'[<<scope, key>>] = idempotency[<<scope, key>>]
  BY DEF Recorded
<1>2. Truthful(scope, stored) /\ idempotency'[<<scope, key>>].response = stored
  BY <1>1 DEF RecordsTruthful, Recorded
<1>3. ASSUME NEW x, Truthful(scope, x) PROVE Truthful(scope, x)'
  BY <1>3, TruthLasts
<1> QED BY <1>2, <1>3

\* A replay of ConfirmSeats, ReleaseSeats and the rest answers the stored response
\* as it is; ReserveSeats first re-reads the reservation.
LEMMA ReplayKeepsTruth ==
  ASSUME Inv, RecordsTruthful, NEW scope \in Scopes, NEW key \in Keys, NEW r,
         Replay(scope, key, r),
         scope = "ReserveSeats" =>
           ActiveHold(idempotency[<<scope, key>>].response.reservationId)
  PROVE  RecordsTruthful' /\ AnswerTruthful'
<1> DEFINE stored == idempotency[<<scope, key>>].response
<1>1. /\ answer' = [scope |-> scope, response |-> stored]
      /\ UNCHANGED <<reservations, idempotency, now>>
  BY DEF Replay
<1>2. Truthful(scope, stored)
  BY DEF Replay, RecordsTruthful
<1>3. RecordsTruthful'
  BY <1>1 DEF RecordsTruthful, Recorded, Truthful, Items
<1> HIDE DEF stored
<1>4. answer'.scope = scope /\ answer'.response = stored
  BY <1>1
<1>5. Truthful(scope, stored) => Truthful(answer.scope, answer.response)'
  BY <1>1, <1>4 DEF Truthful, Items
<1>6. scope = "ReserveSeats" => ActiveHold(answer.response.reservationId)'
  BY <1>1, <1>4 DEF ActiveHold, stored
<1> QED BY <1>2, <1>3, <1>4, <1>5, <1>6 DEF AnswerTruthful

\* ReserveSeats answers with a live hold on the seats asked for.
LEMMA ReserveSeatsIsTruthful ==
  ASSUME Inv, RecordsTruthful, ReservationsContinue,
         NEW key \in Keys, NEW r \in ReserveSeatsRequest, ReserveSeats(key, r)
  PROVE  RecordsTruthful' /\ AnswerTruthful'
<1>1. CASE ReplayHold(key, r)
  BY <1>1, ReplayKeepsTruth, ScopesAre DEF ReplayHold
<1>2. CASE AnswerWithExistingHold(key, r) /\ UNCHANGED <<inventoryVersion, now>>
  <2>1. PICK rid \in OwnedBy(r.bookingId) :
          /\ ActiveHold(rid)
          /\ Answer("ReserveSeats", key, r, View(rid, reservations[rid]))
          /\ UNCHANGED <<seats, reservations, audit>>
    BY <1>2 DEF AnswerWithExistingHold
  <2> DEFINE response == View(rid, reservations[rid])
  <2>2. /\ rid \in ReservationIds /\ reservations[rid] # None
        /\ response.reservationId = rid /\ response.reservation = reservations[rid]
    BY <2>1 DEF OwnedBy, View
  <2> HIDE DEF response
  <2>3. \A x : x = response => Truthful("ReserveSeats", x)' /\ ActiveHold(x.reservationId)'
    BY <1>2, <2>1, <2>2 DEF Truthful, ActiveHold, Items
  <2>4. Answer("ReserveSeats", key, r, response)
    BY <2>1 DEF response
  <2>5. ASSUME NEW x, x = response PROVE RecordsTruthful' /\ AnswerTruthful'
    <3>1. Answer("ReserveSeats", key, r, x)
      BY <2>4, <2>5
    <3> QED BY <2>3, <2>5, <3>1, AnswerKeepsTruth, ScopesAre
  <2> QED BY <2>5
<1>3. CASE HoldSeats(key, r) /\ UNCHANGED <<inventoryVersion, now>>
  <2>1. PICK rid \in ReservationIds :
          /\ reservations' = [reservations EXCEPT ![rid] = NewHold(r)]
          /\ Answer("ReserveSeats", key, r, View(rid, NewHold(r)))
    BY <1>3 DEF HoldSeats
  <2> DEFINE hold == NewHold(r)
             response == View(rid, hold)
  <2>2. hold \in Reservation /\ now \in Nat
    BY NewHoldIsReservation, TypedIs DEF Inv
  <2>3. hold.status = "ACTIVE" /\ hold.expiresAt > now
    <3>1. r.holdSeconds \in Nat \ {0}
      BY SettingsArePositive DEF ReserveSeatsRequest
    <3>2. hold.status = "ACTIVE" /\ hold.expiresAt = now + r.holdSeconds
      BY DEF NewHold
    <3> QED BY <2>2, <3>1, <3>2
  <2>4. response.reservationId = rid /\ response.reservation = hold
    BY DEF View
  <2>5. reservations'[rid] = hold
    BY <2>1, TypedIs DEF Inv, ReservationsTyped
  <2>6. Answer("ReserveSeats", key, r, response)
    BY <2>1
  <2> HIDE DEF response, hold
  <2>7. hold # None
    BY <2>2, NoneIsNoValue
  <2>8. \A x : x = response => Truthful("ReserveSeats", x)' /\ ActiveHold(x.reservationId)'
    BY <1>3, <2>3, <2>4, <2>5, <2>7 DEF Truthful, ActiveHold, Items
  <2>9. ASSUME NEW x, x = response PROVE RecordsTruthful' /\ AnswerTruthful'
    <3>1. Answer("ReserveSeats", key, r, x)
      BY <2>6, <2>9
    <3> QED BY <2>8, <2>9, <3>1, AnswerKeepsTruth, ScopesAre
  <2> QED BY <2>9
<1> QED BY <1>1, <1>2, <1>3 DEF ReserveSeats

\* The reservation that ConfirmSeats and ReleaseSeats report has the outcome they
\* report: it had it already, or Conclude gave it.
LEMMA OutcomeIsTruthful ==
  ASSUME Inv, RecordsTruthful, ReservationsContinue,
         NEW key \in Keys, NEW r, NEW rid \in ReservationIds, reservations[rid] # None,
         NEW scope \in {"ConfirmSeats", "ReleaseSeats"},
         scope = "ConfirmSeats" => reservations'[rid].status = "CONFIRMED",
         scope = "ReleaseSeats" => reservations'[rid].status \in {"RELEASED", "EXPIRED"},
         Answer(scope, key, r, View(rid, reservations'[rid]))
  PROVE  RecordsTruthful' /\ AnswerTruthful'
<1> DEFINE response == View(rid, reservations'[rid])
<1>1. response.reservationId = rid /\ response.reservation = reservations'[rid]
  BY DEF View
<1>2. reservations'[rid] # None
  BY DEF ReservationsContinue
<1>3. Answer(scope, key, r, response) /\ scope \in Scopes /\ scope # "ReserveSeats"
  BY ScopesAre
<1> HIDE DEF response
<1>4. ASSUME NEW x, x = response PROVE RecordsTruthful' /\ AnswerTruthful'
  <2>1. Truthful(scope, x)'
    BY <1>1, <1>2, <1>4 DEF Truthful, Items
  <2>2. Answer(scope, key, r, x)
    BY <1>3, <1>4
  <2> QED BY <1>3, <2>1, <2>2, AnswerKeepsTruth
<1> QED BY <1>4

\* Conclude gives the reservation its outcome.
LEMMA ConcludeOutcome ==
  ASSUME Inv, NEW rid \in ReservationIds, Is(rid, "ACTIVE"),
         NEW outcome, NEW newStatus, NEW operation,
         Conclude(rid, outcome, newStatus, operation)
  PROVE  reservations'[rid].status = outcome
<1>1. reservations[rid] \in Reservation
  BY TypedIs DEF Inv, Is, ReservationsTyped
<1>2. reservations'[rid] =
        [reservations[rid] EXCEPT !.status = outcome, !.resourceVersion = @ + 1]
  BY TypedIs DEF Inv, Conclude, ReservationsTyped
<1> QED BY <1>1, <1>2 DEF Reservation

\* Every step keeps the stored and the given answers truthful.
LEMMA NextIsTruthful ==
  ASSUME Inv, RecordsTruthful, AnswerTruthful, [Next]_vars
  PROVE  RecordsTruthful' /\ AnswerTruthful'
<1>1. ReservationsContinue
  BY NextContinues
<1>2. CASE UNCHANGED vars
  BY <1>2 DEF vars, RecordsTruthful, AnswerTruthful, Recorded, Truthful, Items, ActiveHold
<1>3. CASE Tick
  <2>1. RecordsTruthful'
    BY <1>1, <1>3, StoredTruthLasts DEF Tick
  <2> QED BY <1>3, <2>1 DEF Tick, AnswerTruthful
<1>4. CASE ExpireReservations
  <2>1. /\ idempotency' = [sk \in Scopes \X Keys |->
             IF idempotency[sk] # None /\ idempotency[sk].expiresAt <= now
               THEN None ELSE idempotency[sk]]
        /\ answer' = None
    BY <1>4 DEF ExpireReservations, Sweep
  <2>2. RecordsTruthful'
    BY <1>1, <2>1, StoredTruthLasts
  <2> QED BY <2>1, <2>2 DEF AnswerTruthful
<1>5. ASSUME NEW key \in Keys, Command(key) PROVE RecordsTruthful' /\ AnswerTruthful'
  <2>1. ASSUME NEW r \in ReserveSeatsRequest, ReserveSeats(key, r)
        PROVE  RecordsTruthful' /\ AnswerTruthful'
    BY <1>1, <2>1, ReserveSeatsIsTruthful
  <2>2. ASSUME NEW rid \in ReservationIds, NEW v \in KnownVersions,
               ConfirmSeats(key, [reservationId |-> rid, expectedVersion |-> v])
        PROVE  RecordsTruthful' /\ AnswerTruthful'
    <3> DEFINE r == [reservationId |-> rid, expectedVersion |-> v]
    <3>1. CASE Replay("ConfirmSeats", key, r)
      BY <3>1, ReplayKeepsTruth, ScopesAre
    <3>2. CASE ~Replay("ConfirmSeats", key, r)
      <4>1. /\ reservations[rid] # None
            /\ \/ reservations[rid].status = "CONFIRMED" /\ UNCHANGED reservations
               \/ Is(rid, "ACTIVE") /\ Conclude(rid, "CONFIRMED", "SOLD", "ConfirmSeats")
            /\ Answer("ConfirmSeats", key, r, View(rid, reservations'[rid]))
        BY <2>2, <3>2 DEF ConfirmSeats, ActiveHold, Is
      <4>2. reservations'[rid].status = "CONFIRMED"
        BY <4>1, ConcludeOutcome
      <4> QED BY <1>1, <4>1, <4>2, OutcomeIsTruthful
    <3> QED BY <3>1, <3>2
  <2>3. ASSUME NEW r \in ReleaseSeatsRequest, ReleaseSeats(key, r)
        PROVE  RecordsTruthful' /\ AnswerTruthful'
    <3>1. CASE Replay("ReleaseSeats", key, r)
      BY <3>1, ReplayKeepsTruth, ScopesAre
    <3>2. CASE ~Replay("ReleaseSeats", key, r)
      <4> DEFINE rid == r.reservationId
      <4>1. /\ reservations[rid] # None
            /\ \/ /\ reservations[rid].status \in {"RELEASED", "EXPIRED"}
                  /\ UNCHANGED reservations
               \/ Is(rid, "ACTIVE") /\ Conclude(rid, "RELEASED", "AVAILABLE", "ReleaseSeats")
            /\ Answer("ReleaseSeats", key, r, View(rid, reservations'[rid]))
            /\ rid \in ReservationIds
        BY <2>3, <3>2 DEF ReleaseSeats, Is, ReleaseSeatsRequest
      <4> HIDE DEF rid
      <4>2. reservations'[rid].status \in {"RELEASED", "EXPIRED"}
        BY <4>1, ConcludeOutcome
      <4> QED BY <1>1, <4>1, <4>2, OutcomeIsTruthful
    <3> QED BY <3>1, <3>2
  <2>4. ASSUME NEW scope \in {"ExtendReservation", "ConfigureInventory"}, NEW r,
               \/ Replay(scope, key, r)
               \/ \E response : Answer(scope, key, r, response)
        PROVE  RecordsTruthful' /\ AnswerTruthful'
    <3>1. ASSUME NEW response PROVE Truthful(scope, response)'
      BY DEF Truthful
    <3> QED BY <1>1, <2>4, <3>1, ReplayKeepsTruth, AnswerKeepsTruth, ScopesAre
  <2>5. ASSUME NEW rid \in ReservationIds, NEW v \in KnownVersions,
               NEW x \in ExtensionSeconds,
               ExtendReservation(key, [reservationId |-> rid, expectedVersion |-> v,
                                       extensionSeconds |-> x])
        PROVE  RecordsTruthful' /\ AnswerTruthful'
    BY <2>4, <2>5 DEF ExtendReservation
  <2>6. ASSUME NEW r \in ConfigureInventoryRequest, ConfigureInventory(key, r)
        PROVE  RecordsTruthful' /\ AnswerTruthful'
    BY <2>4, <2>6 DEF ConfigureInventory
  <2> QED BY <1>5, <2>1, <2>2, <2>3, <2>5, <2>6 DEF Command
<1> QED BY <1>2, <1>3, <1>4, <1>5 DEF Next

\* The inductive invariant about answers.
AnswersInv == Inv /\ ReservedSeatsRemain /\ RecordsTruthful /\ AnswerTruthful

\* A truthful answer is true of the seats: the hold's seats are held for it, a
\* confirmed reservation's seats are sold, an ended one has none.
LEMMA TruthIsOfTheSeats == AnswersInv => AnswersAreTrue
<1> SUFFICES ASSUME AnswersInv, answer # None,
                    answer.scope \in {"ReserveSeats", "ConfirmSeats", "ReleaseSeats"}
             PROVE  AnswersAreTrue
  BY DEF AnswersAreTrue
<1> DEFINE rid  == answer.response.reservationId
           kept == Items(answer.response.reservation)
<1>1. /\ rid \in ReservationIds /\ reservations[rid] # None
      /\ kept = Items(reservations[rid])
      /\ answer.scope = "ReserveSeats" => ActiveHold(rid)
      /\ answer.scope = "ConfirmSeats" => reservations[rid].status = "CONFIRMED"
      /\ answer.scope = "ReleaseSeats" => reservations[rid].status \in {"RELEASED", "EXPIRED"}
  BY DEF AnswersInv, AnswerTruthful, Truthful
<1> HIDE DEF rid, kept
<1>2. \A s \in kept : s \in Seats /\ seats[s] # None
  <2>1. reservations[rid] \in Reservation
    BY <1>1, TypedIs DEF AnswersInv, Inv, ReservationsTyped
  <2> QED BY <1>1, <2>1 DEF AnswersInv, ReservedSeatsRemain, Reservation, Items, Seats
<1>3. HoldsAgree /\ NoDoubleSale
  BY DEF AnswersInv, Inv
<1>4. CASE answer.scope = "ReserveSeats"
  <2>1. ActiveHold(rid) /\ reservations[rid].status = "ACTIVE"
    BY <1>1, <1>4 DEF ActiveHold
  <2>2. \A s \in kept : seats[s].status = "HELD" /\ seats[s].reservationId = rid
    BY <1>1, <1>3, <2>1 DEF HoldsAgree
  <2> QED BY <1>4, <2>1, <2>2 DEF AnswersAreTrue, rid, kept
<1>5. CASE answer.scope = "ConfirmSeats"
  <2>1. \A s \in kept : seats[s].status = "SOLD"
    BY <1>1, <1>2, <1>3, <1>5 DEF NoDoubleSale
  <2> QED BY <1>1, <1>5, <2>1 DEF AnswersAreTrue, rid, kept
<1>6. CASE answer.scope = "ReleaseSeats"
  <2>1. \A s \in kept : seats[s].reservationId # rid
    <3> SUFFICES ASSUME NEW s \in kept PROVE seats[s].reservationId # rid
      OBVIOUS
    <3>1. s \in Seats /\ seats[s] # None
      BY <1>2
    <3>2. CASE seats[s].status = "HELD"
      <4>1. PICK other \in ReservationIds :
              seats[s].reservationId = other /\ reservations[other].status = "ACTIVE"
        BY <1>3, <3>1, <3>2 DEF HoldsAgree
      <4> QED BY <1>1, <1>6, <4>1
    <3>3. CASE seats[s].status # "HELD"
      BY <1>1, <1>3, <3>1, <3>3, NoneIsNoValue DEF HoldsAgree
    <3> QED BY <3>2, <3>3
  <2> QED BY <1>1, <1>6, <2>1 DEF AnswersAreTrue, rid, kept
<1> QED BY <1>4, <1>5, <1>6

\* A successful answer is true when the caller gets it: a hold reported by
\* ReserveSeats is live and holds its seats, seats reported confirmed are sold,
\* released ones are not the reservation's any more - replays of answers given
\* long before included.
THEOREM AnswersStayTrue == Spec => []AnswersAreTrue
<1>1. Init => ReservedSeatsRemain /\ RecordsTruthful /\ AnswerTruthful
  BY ScopesAre
     DEF Init, ReservedSeatsRemain, RecordsTruthful, AnswerTruthful, Recorded
<1>2. /\ Inv /\ ReservedSeatsRemain /\ RecordsTruthful /\ AnswerTruthful /\ [Next]_vars
      => ReservedSeatsRemain' /\ RecordsTruthful' /\ AnswerTruthful'
  BY NextKeepsReservedSeats, NextIsTruthful
<1>3. Inv /\ ReservedSeatsRemain /\ RecordsTruthful /\ AnswerTruthful => AnswersAreTrue
  BY TruthIsOfTheSeats DEF AnswersInv
<1> QED BY <1>1, <1>2, <1>3, InvHolds, PTL DEF Spec
=============================================================================
