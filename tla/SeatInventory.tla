--------------------------- MODULE SeatInventory ----------------------------
(***************************************************************************)
(* Seat Inventory Service: which seat is free, held or sold, and for which *)
(* reservation.  Holds have a time to live; a sweeper that runs in every   *)
(* replica takes expired ones back.                                        *)
(*                                                                         *)
(* A command is one database transaction, hence one action: the advisory   *)
(* lock on (scope, key) and the row locks on the reservation and its seats *)
(* serialise the transactions that meet.  One that raises, meets a         *)
(* constraint, times out or is chosen as a deadlock victim rolls back, and *)
(* is a stuttering step.                                                   *)
(*                                                                         *)
(* Abstractions.  Section, row, number and ticket type of a seat are one   *)
(* layout value.  A request hash is the request, a stored response the     *)
(* response.  reservation_items are the reservation's seatIds: they are    *)
(* written with it and never change.                                       *)
(***************************************************************************)
EXTENDS Naturals, Sequences, FiniteSets

CONSTANTS
  None,               \* the absent optional value
  Events, SeatIds, BookingIds, ReservationIds, Keys,
  Layouts,            \* section, row, number and ticket type of a seat
  HoldSeconds,        \* the accepted values of holdSeconds
  ExtensionSeconds,   \* the accepted values of extensionSeconds
  MaxExtendCount,     \* max_extend_count
  ExpiryBatchSize,    \* expiry_batch_size
  TTL,                \* idempotency_ttl_seconds
  InventoryVersions,  \* the inventory versions an administrator sends
  MaxNow              \* bound on the clock

ASSUME SettingsArePositive ==
  /\ HoldSeconds \subseteq Nat \ {0} /\ ExtensionSeconds \subseteq Nat \ {0}
  /\ MaxExtendCount \in Nat /\ ExpiryBatchSize \in Nat \ {0} /\ TTL \in Nat \ {0}
  /\ InventoryVersions \subseteq Nat \ {0} /\ MaxNow \in Nat

SeatStatus == {"AVAILABLE", "HELD", "SOLD", "BLOCKED"}
ReservationStatus == {"ACTIVE", "CONFIRMED", "RELEASED", "EXPIRED"}

Seats == Events \X SeatIds

Seat ==
  [status          : SeatStatus,
   layout          : Layouts,
   reservationId   : ReservationIds \cup {None},   \* current_reservation_id
   resourceVersion : Nat \ {0}]

Reservation ==
  [bookingId       : BookingIds,
   eventId         : Events,
   seatIds         : (SUBSET SeatIds) \ {{}},
   status          : ReservationStatus,
   expiresAt       : Nat,
   extendCount     : Nat,
   resourceVersion : Nat \ {0}]

ASSUME NoneIsNoValue ==
  None \notin ReservationIds /\ None \notin SeatStatus /\ None \notin Seat
    /\ None \notin Reservation

\* What an administrator defines for a seat; None leaves the seat out.
SeatDefinition == [layout : Layouts, status : {"AVAILABLE", "BLOCKED"}]

ReserveSeatsRequest ==
  [bookingId : BookingIds, eventId : Events, seatIds : (SUBSET SeatIds) \ {{}},
   holdSeconds : HoldSeconds]
ConfirmSeatsRequest == [reservationId : ReservationIds, expectedVersion : Nat \ {0}]
ReleaseSeatsRequest == [reservationId : ReservationIds]
ExtendReservationRequest ==
  [reservationId : ReservationIds, expectedVersion : Nat \ {0},
   extensionSeconds : ExtensionSeconds]
ConfigureInventoryRequest ==
  [eventId : Events, inventoryVersion : InventoryVersions,
   seats : [SeatIds -> SeatDefinition \cup {None}] \ {[s \in SeatIds |-> None]}]

Requests ==
  [ReserveSeats       |-> ReserveSeatsRequest,
   ConfirmSeats       |-> ConfirmSeatsRequest,
   ReleaseSeats       |-> ReleaseSeatsRequest,
   ExtendReservation  |-> ExtendReservationRequest,
   ConfigureInventory |-> ConfigureInventoryRequest]

Scopes == DOMAIN Requests

\* A reservation as it is reported to callers.
ReservationView == [reservationId : ReservationIds, reservation : Reservation]
ConfigureInventoryResult == [eventId : Events, inventoryVersion : InventoryVersions]

VARIABLES
  seats,              \* table seats
  inventoryVersion,   \* table inventory_versions, 0 where there is no row
  reservations,       \* tables reservations and reservation_items
  idempotency,        \* table idempotency_records
  audit,              \* table seat_audit, the rows of each seat in order
  now,                \* the database clock
  answer              \* the answer a caller receives in this step, if any

vars == <<seats, inventoryVersion, reservations, idempotency, audit, now, answer>>

AuditRow ==
  [operation : Scopes \cup {"ExpireReservations"},
   reservationId : ReservationIds \cup {None},
   previousStatus : SeatStatus \cup {None}, newStatus : SeatStatus \cup {None},
   resourceVersion : Nat \ {0}]

Response == ReservationView \cup ConfigureInventoryResult

TypeOK ==
  /\ seats \in [Seats -> Seat \cup {None}]
  /\ inventoryVersion \in [Events -> InventoryVersions \cup {0}]
  /\ reservations \in [ReservationIds -> Reservation \cup {None}]
  /\ \A scope \in Scopes, key \in Keys :
       LET record == idempotency[<<scope, key>>]
       IN  record # None => /\ record.request \in Requests[scope]
                            /\ record.response \in Response
                            /\ record.expiresAt \in Nat
  /\ audit \in [Seats -> Seq(AuditRow)]
  /\ now \in Nat
  /\ answer # None => answer.scope \in Scopes /\ answer.response \in Response

Init ==
  /\ seats = [s \in Seats |-> None]
  /\ inventoryVersion = [e \in Events |-> 0]
  /\ reservations = [rid \in ReservationIds |-> None]
  /\ idempotency = [sk \in Scopes \X Keys |-> None]
  /\ audit = [s \in Seats |-> <<>>]
  /\ now = 0
  /\ answer = None

-----------------------------------------------------------------------------
(* What the commands share. *)

\* A record is replayed however old it is: only the sweeper deletes it.
Recorded(scope, key) == idempotency[<<scope, key>>] # None

Replay(scope, key, r) ==
  /\ Recorded(scope, key)
  /\ idempotency[<<scope, key>>].request = r
  /\ answer' = [scope |-> scope, response |-> idempotency[<<scope, key>>].response]
  /\ UNCHANGED <<seats, inventoryVersion, reservations, idempotency, audit, now>>

\* save_replay, and the answer itself.
Answer(scope, key, r, response) ==
  /\ idempotency' = [idempotency EXCEPT ![<<scope, key>>] =
                       [request |-> r, response |-> response, expiresAt |-> now + TTL]]
  /\ answer' = [scope |-> scope, response |-> response]

View(rid, reservation) == [reservationId |-> rid, reservation |-> reservation]

\* Mutation: a hold still counts as live at the instant it expires.
ActiveAtExpiry(rid) ==
  reservations[rid].status = "ACTIVE" /\ reservations[rid].expiresAt >= now

\* _require_active_hold, and the same two checks in ConfirmSeats and
\* ExtendReservation.
ActiveHold(rid) ==
  reservations[rid].status = "ACTIVE" /\ reservations[rid].expiresAt > now

\* The seats a reservation, or a request for one, names.  The foreign key keeps
\* the rows of reserved seats.
Items(reservation) == {reservation.eventId} \X reservation.seatIds

\* lock_reservation_seats: the items joined with the seat rows.
ReservedSeats(rid) == {s \in Items(reservations[rid]) : seats[s] # None}

\* The check before seats leave a hold; failing it is INCONSISTENT_SEAT_HOLD.
HoldIsConsistent(rid) ==
  /\ ReservedSeats(rid) # {}
  /\ \A s \in ReservedSeats(rid) : seats[s].status = "HELD" /\ seats[s].reservationId = rid

\* Mutation: the audit row carries the version before the change.
AuditRowTooOld(s, operation, newStatus, newOwner) ==
  [operation |-> operation,
   reservationId |-> IF newOwner # None THEN newOwner ELSE seats[s].reservationId,
   previousStatus |-> seats[s].status, newStatus |-> newStatus,
   resourceVersion |-> seats[s].resourceVersion]

\* A seat that is let go is audited under the reservation that held it.
AuditRowFor(s, operation, newStatus, newOwner) ==
  [operation |-> operation,
   reservationId |-> IF newOwner # None THEN newOwner ELSE seats[s].reservationId,
   previousStatus |-> seats[s].status, newStatus |-> newStatus,
   resourceVersion |-> seats[s].resourceVersion + 1]

\* Seats change hands: status, current reservation, version and audit row.
Reallocate(changing, newStatus, newOwner, operation) ==
  /\ seats' = [s \in Seats |->
       IF s \in changing
         THEN [seats[s] EXCEPT !.status = newStatus, !.reservationId = newOwner,
                               !.resourceVersion = @ + 1]
         ELSE seats[s]]
  /\ audit' = [s \in Seats |->
       IF s \in changing
         THEN Append(audit[s], AuditRowFor(s, operation, newStatus, newOwner))
         ELSE audit[s]]

-----------------------------------------------------------------------------
(* The commands. *)

OwnedBy(bookingId) ==
  {rid \in ReservationIds : /\ reservations[rid] # None
                            /\ reservations[rid].bookingId = bookingId}

\* The booking's own live hold, on the very same seats, is the answer.
AnswerWithExistingHold(key, r) ==
  \E rid \in OwnedBy(r.bookingId) :
    /\ reservations[rid].eventId = r.eventId
    /\ reservations[rid].seatIds = r.seatIds
    /\ ActiveHold(rid)
    /\ Answer("ReserveSeats", key, r, View(rid, reservations[rid]))
    /\ UNCHANGED <<seats, reservations, audit>>

\* Mutation: a seat held for another booking is taken over.
NotSold(s) == seats[s] # None /\ seats[s].status \in {"AVAILABLE", "HELD"}

Free(s) == seats[s] # None /\ seats[s].status = "AVAILABLE"

\* Mutation: versions start at 0.
HoldAtZero(r) ==
  [bookingId |-> r.bookingId, eventId |-> r.eventId, seatIds |-> r.seatIds,
   status |-> "ACTIVE", expiresAt |-> now + r.holdSeconds,
   extendCount |-> 0, resourceVersion |-> 0]

NewHold(r) ==
  [bookingId |-> r.bookingId, eventId |-> r.eventId, seatIds |-> r.seatIds,
   status |-> "ACTIVE", expiresAt |-> now + r.holdSeconds,
   extendCount |-> 0, resourceVersion |-> 1]

HoldSeats(key, r) ==
  /\ OwnedBy(r.bookingId) = {}
  /\ \A s \in Items(r) : Free(s)
  /\ \E rid \in ReservationIds :
       /\ reservations[rid] = None
       /\ reservations' = [reservations EXCEPT ![rid] = NewHold(r)]
       /\ Reallocate(Items(r), "HELD", rid, "ReserveSeats")
       /\ Answer("ReserveSeats", key, r, View(rid, NewHold(r)))

\* Mutation: a replay returns the stored answer without reading the reservation.
ReplayStored(key, r) == Replay("ReserveSeats", key, r)

\* A replay re-reads the reservation: it must still be a live hold.
ReplayHold(key, r) ==
  /\ Replay("ReserveSeats", key, r)
  /\ ActiveHold(idempotency[<<"ReserveSeats", key>>].response.reservationId)

ReserveSeats(key, r) ==
  \/ ReplayHold(key, r)
  \/ /\ ~Recorded("ReserveSeats", key)
     /\ AnswerWithExistingHold(key, r) \/ HoldSeats(key, r)
     /\ UNCHANGED <<inventoryVersion, now>>

\* Mutation: the seats keep pointing at the reservation.
ConcludeKeepingOwner(rid, outcome, newStatus, operation) ==
  /\ HoldIsConsistent(rid)
  /\ reservations' = [reservations EXCEPT ![rid].status = outcome,
                                          ![rid].resourceVersion = @ + 1]
  /\ Reallocate(ReservedSeats(rid), newStatus, rid, operation)

\* The reservation reaches its outcome and lets its seats go.
Conclude(rid, outcome, newStatus, operation) ==
  /\ HoldIsConsistent(rid)
  /\ reservations' = [reservations EXCEPT ![rid].status = outcome,
                                          ![rid].resourceVersion = @ + 1]
  /\ Reallocate(ReservedSeats(rid), newStatus, None, operation)

ConfirmSeats(key, r) ==
  LET rid == r.reservationId
  IN  \/ Replay("ConfirmSeats", key, r)
      \/ /\ ~Recorded("ConfirmSeats", key)
         /\ reservations[rid] # None
         /\ \/ /\ reservations[rid].status = "CONFIRMED"
               /\ UNCHANGED <<seats, reservations, audit>>
            \/ /\ ActiveHold(rid)
               /\ reservations[rid].resourceVersion = r.expectedVersion
               /\ Conclude(rid, "CONFIRMED", "SOLD", "ConfirmSeats")
         /\ Answer("ConfirmSeats", key, r, View(rid, reservations'[rid]))
         /\ UNCHANGED <<inventoryVersion, now>>

\* An expired hold that was not swept yet can still be released.
ReleaseSeats(key, r) ==
  LET rid == r.reservationId
  IN  \/ Replay("ReleaseSeats", key, r)
      \/ /\ ~Recorded("ReleaseSeats", key)
         /\ reservations[rid] # None
         /\ \/ /\ reservations[rid].status \in {"RELEASED", "EXPIRED"}
               /\ UNCHANGED <<seats, reservations, audit>>
            \/ /\ reservations[rid].status = "ACTIVE"
               /\ Conclude(rid, "RELEASED", "AVAILABLE", "ReleaseSeats")
         /\ Answer("ReleaseSeats", key, r, View(rid, reservations'[rid]))
         /\ UNCHANGED <<inventoryVersion, now>>

ExtendReservation(key, r) ==
  LET rid == r.reservationId
  IN  \/ Replay("ExtendReservation", key, r)
      \/ /\ ~Recorded("ExtendReservation", key)
         /\ reservations[rid] # None
         /\ ActiveHold(rid)
         /\ reservations[rid].resourceVersion = r.expectedVersion
         /\ reservations[rid].extendCount < MaxExtendCount
         /\ reservations' = [reservations EXCEPT ![rid].expiresAt = @ + r.extensionSeconds,
                                                 ![rid].extendCount = @ + 1,
                                                 ![rid].resourceVersion = @ + 1]
         /\ Answer("ExtendReservation", key, r, View(rid, reservations'[rid]))
         /\ UNCHANGED <<seats, inventoryVersion, audit, now>>

-----------------------------------------------------------------------------
(* Administration. *)

Allocated(s) == seats[s] # None /\ seats[s].status \in {"HELD", "SOLD"}

\* The foreign key of reservation_items: a seat that was ever reserved stays.
EverReserved(s) ==
  \E rid \in ReservationIds : reservations[rid] # None /\ s \in Items(reservations[rid])

InventoryAccepted(r) ==
  /\ IF inventoryVersion[r.eventId] = 0
       THEN r.inventoryVersion = 1
       ELSE r.inventoryVersion > inventoryVersion[r.eventId]
  /\ \A id \in SeatIds :
       LET s          == <<r.eventId, id>>
           definition == r.seats[id]
       IN  /\ Allocated(s) => definition # None /\ definition.layout = seats[s].layout
           /\ seats[s] # None /\ definition = None => ~EverReserved(s)

\* Mutation: only held seats are kept as they are.
ConfigurableUnlessHeld(s) == seats[s] # None /\ seats[s].status # "HELD"

Configurable(s) == seats[s] # None /\ ~Allocated(s)

\* What becomes of a seat under a definition: an allocated one is kept, one left
\* out is deleted, a changed one is rewritten, a new one is created.
Configured(s, definition) ==
  CASE seats[s] = None /\ definition # None ->
         [status |-> definition.status, layout |-> definition.layout,
          reservationId |-> None, resourceVersion |-> 1]
    [] Configurable(s) /\ definition = None -> None
    [] /\ Configurable(s) /\ definition # None
       /\ <<seats[s].layout, seats[s].status>> # <<definition.layout, definition.status>> ->
         [seats[s] EXCEPT !.layout = definition.layout, !.status = definition.status,
                          !.resourceVersion = @ + 1]
    [] OTHER -> seats[s]

StatusOf(seat) == IF seat = None THEN None ELSE seat.status
VersionOf(seat) == IF seat = None THEN 0 ELSE seat.resourceVersion

ConfigureInventory(key, r) ==
  \/ Replay("ConfigureInventory", key, r)
  \/ /\ ~Recorded("ConfigureInventory", key)
     /\ InventoryAccepted(r)
     /\ inventoryVersion' = [inventoryVersion EXCEPT ![r.eventId] = r.inventoryVersion]
     /\ seats' = [s \in Seats |->
          IF s[1] = r.eventId THEN Configured(s, r.seats[s[2]]) ELSE seats[s]]
     /\ audit' = [s \in Seats |->
          IF seats'[s] = seats[s] THEN audit[s]
          ELSE Append(audit[s],
                 [operation |-> "ConfigureInventory", reservationId |-> None,
                  previousStatus |-> StatusOf(seats[s]), newStatus |-> StatusOf(seats'[s]),
                  resourceVersion |-> VersionOf(seats[s]) + 1])]
     /\ Answer("ConfigureInventory", key, r,
               [eventId |-> r.eventId, inventoryVersion |-> r.inventoryVersion])
     /\ UNCHANGED <<reservations, now>>

-----------------------------------------------------------------------------
(* The sweeper. *)

Due(rid) ==
  /\ reservations[rid] # None
  /\ reservations[rid].status = "ACTIVE"
  /\ reservations[rid].expiresAt <= now

\* The oldest due reservations that no other transaction has locked, up to the
\* batch size; the identifiers that break ties are random.
Batches(locked) ==
  LET open == {rid \in ReservationIds : Due(rid)} \ locked
  IN  {batch \in SUBSET open :
         /\ Cardinality(batch) <= ExpiryBatchSize
         /\ batch # open => Cardinality(batch) = ExpiryBatchSize
         /\ \A taken \in batch, left \in open \ batch :
              reservations[taken].expiresAt <= reservations[left].expiresAt}

\* One transaction: an inconsistent hold is left alone, every other one of the
\* batch is taken back; then the idempotency records that ran out are deleted.
Sweep(locked) ==
  \E batch \in Batches(locked) :
    LET expired == {rid \in batch : HoldIsConsistent(rid)}
        freed   == UNION {ReservedSeats(rid) : rid \in expired}
    IN  /\ reservations' = [rid \in ReservationIds |->
             IF rid \in expired
               THEN [reservations[rid] EXCEPT !.status = "EXPIRED", !.resourceVersion = @ + 1]
               ELSE reservations[rid]]
        /\ Reallocate(freed, "AVAILABLE", None, "ExpireReservations")
        /\ idempotency' = [sk \in Scopes \X Keys |->
             IF idempotency[sk] # None /\ idempotency[sk].expiresAt <= now
               THEN None ELSE idempotency[sk]]
        /\ answer' = None
        /\ UNCHANGED <<inventoryVersion, now>>

\* Reservations that commands in flight have locked are skipped.
ExpireReservations == \E locked \in SUBSET ReservationIds : Sweep(locked)

Tick ==
  /\ now < MaxNow
  /\ now' = now + 1
  /\ answer' = None
  /\ UNCHANGED <<seats, inventoryVersion, reservations, idempotency, audit>>

\* The versions callers may know a reservation by.
KnownVersions == 1 .. MaxExtendCount + 2

Command(key) ==
  \/ \E r \in ReserveSeatsRequest : ReserveSeats(key, r)
  \/ \E rid \in ReservationIds, v \in KnownVersions :
       ConfirmSeats(key, [reservationId |-> rid, expectedVersion |-> v])
  \/ \E r \in ReleaseSeatsRequest : ReleaseSeats(key, r)
  \/ \E rid \in ReservationIds, v \in KnownVersions, x \in ExtensionSeconds :
       ExtendReservation(key, [reservationId |-> rid, expectedVersion |-> v,
                               extensionSeconds |-> x])
  \/ \E r \in ConfigureInventoryRequest : ConfigureInventory(key, r)

Next == Tick \/ ExpireReservations \/ \E key \in Keys : Command(key)

Spec == Init /\ [][Next]_vars

\* The sweeper polls for ever and survives its failures; the locks it skips are
\* held only for the length of a transaction, so again and again it meets a due
\* reservation unlocked.
FairSpec == Spec /\ WF_vars(Sweep({}))

-----------------------------------------------------------------------------
(* Properties. *)

Stands(rid) ==
  reservations[rid] # None /\ reservations[rid].status \in {"ACTIVE", "CONFIRMED"}

\* The seat rows and the reservation rows tell the same story: all seats of an
\* ACTIVE reservation, and no others, are HELD for it.  This is what ConfirmSeats,
\* ReleaseSeats and the sweeper re-check; were it ever false, they would refuse
\* (INCONSISTENT_SEAT_HOLD) and the seats would stay blocked for good.
HoldsAgree ==
  /\ \A rid \in ReservationIds :
       reservations[rid] # None /\ reservations[rid].status = "ACTIVE" =>
         \A s \in Items(reservations[rid]) :
           seats[s] # None /\ seats[s].status = "HELD" /\ seats[s].reservationId = rid
  /\ \A s \in Seats :
       /\ seats[s] # None
       => IF seats[s].status = "HELD"
            THEN \E rid \in ReservationIds :
                   /\ seats[s].reservationId = rid /\ reservations[rid] # None
                   /\ reservations[rid].status = "ACTIVE" /\ s \in Items(reservations[rid])
            ELSE seats[s].reservationId = None

\* No seat is sold twice or sold while another booking holds it: reservations that
\* stand share no seat, and a seat is SOLD exactly if a CONFIRMED one has it.
NoDoubleSale ==
  /\ \A r1, r2 \in ReservationIds :
       Stands(r1) /\ Stands(r2) /\ r1 # r2 =>
         Items(reservations[r1]) \cap Items(reservations[r2]) = {}
  /\ \A s \in Seats :
       (seats[s] # None /\ seats[s].status = "SOLD") <=>
         \E rid \in ReservationIds :
           /\ reservations[rid] # None /\ reservations[rid].status = "CONFIRMED"
           /\ s \in Items(reservations[rid])

\* The audit rows of a seat are its history without gaps: each starts from the
\* status and version the one before left, the first creates the seat, the last
\* left it as it is now; a removed seat starts again at version 1.
AuditExplainsSeats ==
  \A s \in Seats :
    LET rows == audit[s]
    IN  /\ \A i \in 1 .. Len(rows) :
             IF i = 1 \/ rows[IF i = 1 THEN 1 ELSE i - 1].newStatus = None
               THEN rows[i].previousStatus = None /\ rows[i].resourceVersion = 1
               ELSE /\ rows[i].previousStatus = rows[i - 1].newStatus
                    /\ rows[i].resourceVersion = rows[i - 1].resourceVersion + 1
        /\ IF rows = <<>> THEN seats[s] = None
           ELSE /\ rows[Len(rows)].newStatus = StatusOf(seats[s])
                /\ seats[s] # None =>
                     rows[Len(rows)].resourceVersion = seats[s].resourceVersion

\* A successful answer is true when the caller gets it, replays included.
\* ReserveSeats: "Only a live ACTIVE hold may be returned as a successful
\* ReserveSeats result"; it does hold the seats asked for.  ConfirmSeats: the
\* seats are sold to this reservation.  ReleaseSeats: it holds none any more.
AnswersAreTrue ==
  answer # None /\ answer.scope \in {"ReserveSeats", "ConfirmSeats", "ReleaseSeats"} =>
    LET rid  == answer.response.reservationId
        kept == Items(answer.response.reservation)
    IN  CASE answer.scope = "ReserveSeats" ->
               /\ ActiveHold(rid)
               /\ \A s \in kept : seats[s].status = "HELD" /\ seats[s].reservationId = rid
          [] answer.scope = "ConfirmSeats" ->
               /\ reservations[rid].status = "CONFIRMED"
               /\ \A s \in kept : seats[s].status = "SOLD"
          [] answer.scope = "ReleaseSeats" ->
               /\ reservations[rid].status \in {"RELEASED", "EXPIRED"}
               /\ \A s \in kept : seats[s].reservationId # rid

\* A reservation that ended stays as it is; while it is active, a change counts
\* its version up, keeps its seats and never brings its expiry forward.
ReservationsKept ==
  \A rid \in ReservationIds : reservations[rid] # None =>
    LET was == reservations[rid]
        is  == reservations'[rid]
    IN  is = was \/ /\ was.status = "ACTIVE"
                    /\ is.resourceVersion = was.resourceVersion + 1
                    /\ is.expiresAt >= was.expiresAt
                    /\ is.seatIds = was.seatIds

\* An allocated seat keeps its row and its layout, a sold one stays as it is.
SeatsKept ==
  \A s \in Seats : Allocated(s) =>
    /\ seats'[s] # None /\ seats'[s].layout = seats[s].layout
    /\ seats[s].status = "SOLD" => seats'[s] = seats[s]

\* An outcome is final: whatever callers, the sweeper and the administrator send,
\* no step takes back a sale or an ending, moves an allocated seat or shortens a
\* live hold.
OutcomesAreFinal == [][ReservationsKept /\ SeatsKept]_vars

\* Every hold whose time has run out is taken back; a late confirmation or
\* extension never wins over the sweeper.
TakenBack(rid) ==
  reservations[rid] # None /\ reservations[rid].status \in {"EXPIRED", "RELEASED"}

ExpiredHoldsAreReleased == \A rid \in ReservationIds : Due(rid) ~> TakenBack(rid)
=============================================================================
