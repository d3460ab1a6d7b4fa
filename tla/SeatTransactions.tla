-------------------------- MODULE SeatTransactions --------------------------
(***************************************************************************)
(* The transactions of Seat Inventory Service lock by lock: which rows a   *)
(* command and the sweeper lock, in which order, what they read when they  *)
(* get a lock, and what ends a wait.  SeatInventory takes a transaction    *)
(* for one step; here it is one step per row lock and one for the commit.  *)
(*                                                                         *)
(* Rows are what the locks are about: a seat's status and reservation, a   *)
(* reservation's status and whether its hold has run out.  Versions, audit *)
(* and the seats ConfigureInventory adds or removes are in SeatInventory.  *)
(* Idempotency records are those of ReserveSeats, one for a reservation:   *)
(* the gateway reserves for a booking under one key. Replays of the other  *)
(* commands lock their record and then wait for nothing. The advisory      *)
(* locks of a key and of ConfigureInventory are taken before any row is,   *)
(* and who waits for one holds nothing; who waits for a unique index waits *)
(* for a transaction that has every lock it needs.                         *)
(***************************************************************************)
EXTENDS Naturals, Sequences, FiniteSets, SequencesExt

CONSTANTS
  Seats,             \* seats, numbered in the order of their seat_id
  Commands,          \* threads that serve commands
  Sweepers,          \* expiry workers, one per replica
  BatchSize,         \* expiry_batch_size
  MaxRetries,        \* max_retries of execute_database_operation
  MaxReservations,   \* bound on reservations ever made
  MaxRequests        \* bound on commands ever begun

TransactionAssumption ==
  /\ Seats \subseteq Nat /\ IsFiniteSet(Seats)
  /\ Commands \cap Sweepers = {} /\ IsFiniteSet(Commands)
  /\ BatchSize \in Nat \ {0}
  /\ {MaxRetries, MaxReservations, MaxRequests} \subseteq Nat

VARIABLES
  seats,          \* the committed seat rows
  reservations,   \* the committed reservations, a sequence
  due,            \* the reservations whose hold has run out, by expires_at
  records,        \* the reservations whose idempotency record is kept
  outdated,       \* those of them whose record has expired
  tx,             \* tx[t]: the transaction of thread t
  begun           \* how many commands were begun

vars == <<seats, reservations, due, records, outdated, tx, begun>>

Threads == Commands \cup Sweepers

SeatStatus == {"AVAILABLE", "HELD", "SOLD", "BLOCKED"}
ReservationStatus == {"ACTIVE", "CONFIRMED", "RELEASED", "EXPIRED"}

SeatLock(s) == [table |-> "seats", row |-> s]
ReservationLock(r) == [table |-> "reservations", row |-> r]
RecordLock(r) == [table |-> "idempotency_records", row |-> r]

\* A request: its operation, the seats it names (for ConfigureInventory those it
\* blocks) and the reservations it names or, for the sweeper, selected.
Request(op, named, rids) == [op |-> op, seats |-> named, reservations |-> rids]
NoRequest == Request("none", {}, {})

\* todo: the rows still to lock, in order; read: what the locked seats held.
Idle == [request |-> NoRequest, todo |-> <<>>, held |-> {}, read |-> {}, retries |-> 0]

AnySeatOrder(S) == SetToSeqs(S)

\* ORDER BY seat_id ... FOR UPDATE, of lock_seats, lock_all_seats and
\* lock_reservation_seats.
SeatOrder(S) ==
  {order \in SetToSeqs(S) : \A i, j \in DOMAIN order : i < j => order[i] < order[j]}

LockSeats(order) == [i \in DOMAIN order |-> SeatLock(order[i])]

Init ==
  /\ seats = [s \in Seats |-> [status |-> "AVAILABLE", reservation |-> 0]]
  /\ reservations = <<>>
  /\ due = <<>>
  /\ records = {}
  /\ outdated = {}
  /\ tx = [t \in Threads |-> Idle]
  /\ begun = 0

-----------------------------------------------------------------------------
(* The locks of a transaction. *)

NeverBlocked(t, lock) == TRUE

\* FOR UPDATE waits for the transaction that holds the row.
Free(t, lock) == \A u \in Threads \ {t} : lock \notin tx[u].held

Active(t) == tx[t].request # NoRequest
Waiting(t) == tx[t].todo # <<>> /\ ~Free(t, Head(tx[t].todo))
WaitsFor(t) == {u \in Threads \ {t} : tx[t].todo # <<>> /\ Head(tx[t].todo) \in tx[u].held}

Blocked == {t \in Threads : WaitsFor(t) # {}}

\* The transactions of T wait for each other in a circle.
Deadlock(T) ==
  /\ T # {}
  /\ \A t \in T : WaitsFor(t) # {} /\ WaitsFor(t) \subseteq T
  /\ \A t \in T : \E u \in T : t \in WaitsFor(u)

Begin(t, request, todo) ==
  /\ ~Active(t)
  /\ begun < MaxRequests
  /\ tx' = [tx EXCEPT ![t] = [Idle EXCEPT !.request = request, !.todo = todo]]
  /\ begun' = begun + 1
  /\ UNCHANGED <<seats, reservations, due, records, outdated>>

Reserving == {t \in Commands : tx[t].request.op = "reserve"}

BeginReserveSeats(t) ==
  /\ Len(reservations) + Cardinality(Reserving) < MaxReservations
  /\ \E S \in (SUBSET Seats) \ {{}} : \E order \in SeatOrder(S) :
       Begin(t, Request("reserve", S, {}), LockSeats(order))

\* ConfirmSeats, ReleaseSeats and ExtendReservation lock the reservation first.
BeginOnReservation(t) ==
  \E op \in {"confirm", "release", "extend"}, r \in DOMAIN reservations :
    Begin(t, Request(op, {}, {r}), <<ReservationLock(r)>>)

\* replay_or_lock locks the record of the key; without one ReserveSeats looks for
\* the reservation of its booking.
RepeatLocks(r) == <<IF r \in records THEN RecordLock(r) ELSE ReservationLock(r)>>

\* ReserveSeats again, for a booking that has a reservation. The advisory lock of
\* its key lets one such command at a time come to the rows.
BeginRepeatReserve(t) ==
  \E r \in DOMAIN reservations :
    /\ \A u \in Commands : tx[u].request # Request("repeat", {}, {r})
    /\ Begin(t, Request("repeat", {}, {r}), RepeatLocks(r))

BeginConfigureInventory(t) ==
  \E blocked \in SUBSET Seats : \E order \in SeatOrder(Seats) :
    Begin(t, Request("configure", blocked, {}), LockSeats(order))

\* Where a reservation comes in ORDER BY expires_at.
Place(r) == CHOOSE i \in DOMAIN due : due[i] = r

\* ORDER BY expires_at LIMIT BatchSize, of the reservations open to the sweeper.
FirstToExpire(open) ==
  {batch \in UNION {SetToSeqs(B) : B \in SUBSET open} :
     /\ Len(batch) = IF Cardinality(open) < BatchSize THEN Cardinality(open) ELSE BatchSize
     /\ \A i, j \in DOMAIN batch : i < j => Place(batch[i]) < Place(batch[j])
     /\ \A r \in open \ ToSet(batch), i \in DOMAIN batch : Place(batch[i]) < Place(r)}

\* One lock_reservation_seats for each reservation of the batch, in its order.
SweepOrders(batch) ==
  {FlattenSeq([i \in DOMAIN batch |-> LockSeats(orders[i])]) :
     orders \in {f \in [DOMAIN batch -> UNION {SeatOrder(reservations[r].seats) : r \in ToSet(batch)}] :
                   \A i \in DOMAIN batch : f[i] \in SeatOrder(reservations[batch[i]].seats)}}

\* DELETE of the records that have expired, in no particular order.
DeleteOrders == {[i \in DOMAIN order |-> RecordLock(order[i])] : order \in SetToSeqs(outdated)}

\* One statement selects and locks the batch; SKIP LOCKED never waits.  The seats
\* are then locked reservation by reservation, in the order of expiry, and at the
\* end the records that had expired when the sweep began.
BeginSweep(t) ==
  LET open == {r \in ToSet(due) : /\ reservations[r].status = "ACTIVE"
                                  /\ Free(t, ReservationLock(r))}
  IN  /\ ~Active(t)
      /\ \E batch \in FirstToExpire(open) :
         \E seatOrder \in SweepOrders(batch), recordOrder \in DeleteOrders :
           /\ batch # <<>> \/ outdated # {}
           /\ tx' = [tx EXCEPT ![t] =
                [Idle EXCEPT !.request = Request("sweep", {}, ToSet(batch)),
                             !.held = {ReservationLock(r) : r \in ToSet(batch)},
                             !.todo = seatOrder \o recordOrder]]
      /\ UNCHANGED <<seats, reservations, due, records, outdated, begun>>

\* Once it has waited for the lock a statement reads the row as it is then.
AcquireSeat(t) ==
  /\ tx[t].todo # <<>>
  /\ LET lock == Head(tx[t].todo)
     IN  /\ lock.table = "seats" /\ Free(t, lock)
         /\ tx' = [tx EXCEPT ![t].held = @ \cup {lock}, ![t].todo = Tail(@),
                             ![t].read = @ \cup {<<lock.row, seats[lock.row]>>}]
  /\ UNCHANGED <<seats, reservations, due, records, outdated, begun>>

\* DELETE skips a record that another sweeper deleted while it waited.
DeleteRecord(t) ==
  /\ tx[t].request.op = "sweep" /\ tx[t].todo # <<>>
  /\ LET lock == Head(tx[t].todo)
     IN  /\ lock.table = "idempotency_records" /\ Free(t, lock)
         /\ tx' = [tx EXCEPT ![t].todo = Tail(@),
                             ![t].held = IF lock.row \in outdated THEN @ \cup {lock} ELSE @]
  /\ UNCHANGED <<seats, reservations, due, records, outdated, begun>>

\* A replay goes on to the reservation, unless the key was used for other
\* parameters; without the record, which a sweeper deleted meanwhile, the command
\* finds the reservation of its booking.
AcquireRecord(t) ==
  /\ tx[t].request.op = "repeat" /\ tx[t].todo # <<>>
  /\ LET lock == Head(tx[t].todo)
     IN  /\ lock.table = "idempotency_records" /\ Free(t, lock)
         /\ \/ /\ lock.row \in records
               /\ tx' = [tx EXCEPT ![t] = Idle]
            \/ tx' = [tx EXCEPT ![t].todo = <<ReservationLock(lock.row)>>,
                                ![t].held = IF lock.row \in records THEN @ \cup {lock} ELSE @]
  /\ UNCHANGED <<seats, reservations, due, records, outdated, begun>>

\* The reservation's status and its expiry are judged when its row is locked.  A
\* reservation that is no longer ACTIVE, or ran out, ends the command; so does
\* one whose version or number of extensions is not as expected.
HoldIsGood(op, r) ==
  reservations[r].status = "ACTIVE" /\ (op = "release" \/ r \notin ToSet(due))

AcquireReservation(t) ==
  /\ tx[t].todo # <<>> /\ Head(tx[t].todo).table = "reservations"
  /\ LET lock == Head(tx[t].todo)
         op   == tx[t].request.op
     IN  /\ Free(t, lock)
         /\ \/ /\ HoldIsGood(op, lock.row) => op # "release"
               /\ tx' = [tx EXCEPT ![t] = Idle]
            \/ /\ HoldIsGood(op, lock.row)
               /\ \E order \in SeatOrder(reservations[lock.row].seats) :
                    tx' = [tx EXCEPT ![t].held = @ \cup {lock},
                                     ![t].todo = IF op \in {"extend", "repeat"} THEN <<>>
                                                                        ELSE LockSeats(order)]
  /\ UNCHANGED <<seats, reservations, due, records, outdated, begun>>

-----------------------------------------------------------------------------
(* Commits, from what was read under the locks. *)

AllRead(t, S, seat) == \A s \in S : <<s, seat>> \in tx[t].read

HeldBy(r) == [status |-> "HELD", reservation |-> r]
Unowned(status) == [status |-> status, reservation |-> 0]

SetSeats(S, seat) == [s \in Seats |-> IF s \in S THEN seat ELSE seats[s]]

CommitReserve(t) ==
  /\ tx[t].request.op = "reserve"
  /\ LET S == tx[t].request.seats
         r == Len(reservations) + 1
     IN  IF AllRead(t, S, Unowned("AVAILABLE"))
           THEN /\ reservations' = Append(reservations, [status |-> "ACTIVE", seats |-> S])
                /\ seats' = SetSeats(S, HeldBy(r))
                /\ records' = records \cup {r}
           ELSE UNCHANGED <<seats, reservations, records>>
  /\ UNCHANGED <<due, outdated>>

\* A replay writes nothing; without a record save_replay adds one.
CommitRepeat(t) ==
  /\ tx[t].request.op = "repeat"
  /\ records' = records \cup tx[t].request.reservations
  /\ UNCHANGED <<seats, reservations, due, outdated>>

\* The reservations of the request whose seats were all read as held for them.
Consistent(t) ==
  {r \in tx[t].request.reservations : AllRead(t, reservations[r].seats, HeldBy(r))}

ConcludedStatus == [confirm |-> "CONFIRMED", release |-> "RELEASED", sweep |-> "EXPIRED"]

Deleted(t) == {r \in outdated : RecordLock(r) \in tx[t].held}

\* ConfirmSeats, ReleaseSeats and the sweeper, which also deletes the records it
\* locked; the inconsistent are left alone.
CommitConclude(t) ==
  /\ tx[t].request.op \in DOMAIN ConcludedStatus
  /\ LET op    == tx[t].request.op
         done  == Consistent(t)
         taken == UNION {reservations[r].seats : r \in done}
     IN  /\ reservations' = [r \in DOMAIN reservations |->
              IF r \in done THEN [reservations[r] EXCEPT !.status = ConcludedStatus[op]]
                            ELSE reservations[r]]
         /\ seats' = SetSeats(taken, Unowned(IF op = "confirm" THEN "SOLD" ELSE "AVAILABLE"))
  /\ records' = records \ Deleted(t)
  /\ outdated' = outdated \ Deleted(t)
  /\ due' = due

\* The hold, good when it was checked, ends later than it did then.
CommitExtend(t) ==
  /\ tx[t].request.op = "extend"
  /\ \E r \in tx[t].request.reservations :
       due' = IF r \in ToSet(due) THEN RemoveAt(due, Place(r)) ELSE due
  /\ UNCHANGED <<seats, reservations, records, outdated>>

CommitConfigure(t) ==
  /\ tx[t].request.op = "configure"
  /\ seats' = [s \in Seats |->
       IF \E status \in {"AVAILABLE", "BLOCKED"} : <<s, Unowned(status)>> \in tx[t].read
         THEN Unowned(IF s \in tx[t].request.seats THEN "BLOCKED" ELSE "AVAILABLE")
         ELSE seats[s]]
  /\ UNCHANGED <<reservations, due, records, outdated>>

Commit(t) ==
  /\ Active(t) /\ tx[t].todo = <<>>
  /\ \/ CommitReserve(t) \/ CommitRepeat(t) \/ CommitConclude(t) \/ CommitExtend(t)
     \/ CommitConfigure(t)
  /\ tx' = [tx EXCEPT ![t] = Idle]
  /\ UNCHANGED begun

-----------------------------------------------------------------------------
(* What ends a wait. *)

\* The rows a transaction locks when it is run again from the start.
FirstLocks(request) ==
  CASE request.op = "reserve"   -> {LockSeats(order) : order \in SeatOrder(request.seats)}
    [] request.op = "configure" -> {LockSeats(order) : order \in SeatOrder(Seats)}
    [] request.op = "repeat"    -> {RepeatLocks(r) : r \in request.reservations}
    [] OTHER                    -> {<<ReservationLock(r)>> : r \in request.reservations}

UncountedRetry(t) == tx[t].retries
RetryOnceMore(t) == tx[t].retries <= MaxRetries

\* execute_database_operation: attempt += 1, while attempt < max_retries.
NextRetry(t) == tx[t].retries + 1
MayRetry(t) == tx[t].retries < MaxRetries

\* PostgreSQL aborts one transaction of the circle; execute_database_operation runs
\* it again MaxRetries times.  The sweeper's second try is a sweep like any other.
DeadlockVictim(t) ==
  /\ \E T \in SUBSET Blocked : t \in T /\ Deadlock(T)
  /\ IF t \in Commands /\ MayRetry(t)
       THEN \E todo \in FirstLocks(tx[t].request) :
              tx' = [tx EXCEPT ![t] = [Idle EXCEPT !.request = tx[t].request, !.todo = todo,
                                                   !.retries = NextRetry(t)]]
       ELSE tx' = [tx EXCEPT ![t] = Idle]
  /\ UNCHANGED <<seats, reservations, due, records, outdated, begun>>

\* lock_timeout, which is not retried.
LockTimeout(t) ==
  /\ Waiting(t)
  /\ tx' = [tx EXCEPT ![t] = Idle]
  /\ UNCHANGED <<seats, reservations, due, records, outdated, begun>>

HoldRunsOut(r) ==
  /\ reservations[r].status = "ACTIVE" /\ r \notin ToSet(due)
  /\ due' = Append(due, r)
  /\ UNCHANGED <<seats, reservations, records, outdated, tx, begun>>

\* expires_at of a record, which is kept for longer than any sweep takes.
RecordRunsOut(r) ==
  /\ r \in records \ outdated
  /\ \A t \in Sweepers : RecordLock(r) \notin ToSet(tx[t].todo)
  /\ outdated' = outdated \cup {r}
  /\ UNCHANGED <<seats, reservations, due, records, tx, begun>>

Proceed(t) ==
  \/ AcquireSeat(t) \/ DeleteRecord(t) \/ AcquireRecord(t) \/ AcquireReservation(t)
  \/ Commit(t) \/ LockTimeout(t) \/ DeadlockVictim(t)

Next ==
  \/ \E t \in Commands :
       \/ BeginReserveSeats(t) \/ BeginRepeatReserve(t) \/ BeginOnReservation(t)
       \/ BeginConfigureInventory(t)
  \/ \E t \in Sweepers : BeginSweep(t)
  \/ \E t \in Threads : Proceed(t)
  \/ \E r \in DOMAIN reservations : HoldRunsOut(r) \/ RecordRunsOut(r)

Spec == Init /\ [][Next]_vars

\* A transaction that has begun gets the next lock or is aborted within its lock
\* timeout, and commits when it has all of them.
FairSpec == Spec /\ \A t \in Threads : WF_vars(Proceed(t))

-----------------------------------------------------------------------------
(* Properties. *)

\* Types; in particular a command is run again at most MaxRetries times.
TypeOK ==
  /\ seats \in [Seats -> [status : SeatStatus, reservation : 0 .. MaxReservations]]
  /\ Len(reservations) <= MaxReservations
  /\ \A r \in DOMAIN reservations :
       reservations[r] \in [status : ReservationStatus, seats : SUBSET Seats]
  /\ ToSet(due) \subseteq DOMAIN reservations
  /\ outdated \subseteq records /\ records \subseteq DOMAIN reservations
  /\ begun \in 0 .. MaxRequests
  /\ \A t \in Threads : tx[t].retries \in 0 .. MaxRetries

\* Whatever two commands and the sweepers interleave between their locks, the
\* committed rows agree: an ACTIVE reservation has exactly its seats HELD, and
\* every HELD seat belongs to an ACTIVE reservation (reserve_seats.py,
\* confirm_seats.py, expire_reservations.py read under FOR UPDATE).  SeatInventory
\* assumes it when it takes a transaction for one step.
CommittedHoldsAgree ==
  /\ \A s \in Seats, r \in DOMAIN reservations :
       seats[s] = HeldBy(r) <=> reservations[r].status = "ACTIVE" /\ s \in reservations[r].seats
  /\ \A s \in Seats : seats[s].status = "HELD" => seats[s].reservation \in DOMAIN reservations

\* Commands never deadlock with each other: seats are locked in the order of
\* seat_id, reservations have no seat in common, and a record comes before its
\* reservation.  In every deadlock there is a sweeper.  It waits for a record it is
\* to delete (expire_reservations.py:94), which a replay of ReserveSeats or another
\* sweeper has locked; or it has several reservations, whose seats it locks in the
\* order of expiry, and meets a command that locks several seats.
DeadlockNeedsASweeper ==
  \A T \in SUBSET Blocked : Deadlock(T) =>
    \E t \in T \cap Sweepers :
      \/ Head(tx[t].todo).table = "idempotency_records"
      \/ /\ Cardinality(tx[t].request.reservations) > 1
         /\ \E u \in T \cap Commands : tx[u].request.op \in {"reserve", "configure"}

\* Seats and reservations that are committed agree, whatever order the
\* transactions took their locks in, and as commands lock in one order, a cycle of
\* waiting threads goes through a sweeper.
SeatLocksSuffice == TypeOK /\ CommittedHoldsAgree /\ DeadlockNeedsASweeper

\* Every transaction ends, also one that waits in a deadlock and is run again.
TransactionsEnd == \A t \in Threads : Active(t) ~> ~Active(t)
=============================================================================
