-------------------------- MODULE TransactionProofs --------------------------
(***************************************************************************)
(* Proofs about the services whose transactions interleave statement by    *)
(* statement. First the row locks of Seat Inventory Service, for any seats,*)
(* commands, sweepers and settings: the committed rows agree although      *)
(* nothing but the locks keeps the transactions apart, and there is a      *)
(* sweeper in every deadlock: it waits for a record that it deletes, or has*)
(* several reservations.                                                   *)
(*                                                                         *)
(* That the rows agree is inductive with what a transaction knows: it      *)
(* holds the lock of every row it read, so what it read is what the row    *)
(* holds, and when it has no lock left to take it has read every seat it   *)
(* is about to change. A transaction that waits for a reservation holds at *)
(* most a record, and one that waits for a record holds nothing unless it  *)
(* is a sweeper; so where no sweeper waits for a record, a circle is about *)
(* seats. It is not of commands alone, because a command that waits for a  *)
(* seat holds only smaller ones, and not of transactions on reservations   *)
(* alone, because the seats of two ACTIVE reservations are disjoint.       *)
(*                                                                         *)
(* Then the accounts of Identity Service, for any accounts, requests and   *)
(* bounds: one live session in a family, roles that follow the version a   *)
(* token carries, no more guesses than the lockout threshold. A request    *)
(* keeps what it read only as long as the row is locked, so the invariant  *)
(* says which request holds which bucket and session, and that a session   *)
(* read as live stays so until that request goes on.                       *)
(*                                                                         *)
(* Last Customer and Event Service, which lock nothing: a command saves a  *)
(* copy of what it read some transactions ago, for any callers and any     *)
(* administrators. The unique constraints keep the mappings apart, and where*)
(* one caller moves a link that was answered resolves. A copy is of a      *)
(* version that was stored; when it is saved and the row has another version*)
(* by then, two requests were answered to have changed that one version, so*)
(* that statuses move as they may unless the row has such rivals.          *)
(***************************************************************************)
EXTENDS MCTransactions, FiniteSetTheorems, SequenceTheorems, TLAPS

-----------------------------------------------------------------------------
(* The inductive invariant.                                                  *)

Ops == {"none", "reserve", "configure", "confirm", "release", "extend", "repeat", "sweep"}
HoldOps == {"confirm", "release", "extend", "repeat"}
SeatRow == [status : SeatStatus, reservation : 0 .. MaxReservations]
ReservationRow == [status : ReservationStatus, seats : SUBSET Seats]
Locks ==
  {SeatLock(s) : s \in Seats} \cup {ReservationLock(r) : r \in Nat} \cup {RecordLock(r) : r \in Nat}
Requests == [op : Ops, seats : SUBSET Seats, reservations : SUBSET Nat]
Transactions ==
  [request : Requests, todo : Seq(Locks), held : SUBSET Locks,
   read : SUBSET (Seats \X SeatRow), retries : 0 .. MaxRetries]

\* The shape of the rows and of the transactions.
Shapes ==
  /\ seats \in [Seats -> SeatRow]
  /\ reservations \in Seq(ReservationRow)
  /\ due \in Seq(Nat)
  /\ begun \in 0 .. MaxRequests
  /\ tx \in [Threads -> Transactions]

\* The reservations commands may still make are within the bound.
RoomIsKept == Len(reservations) + Cardinality(Reserving) <= MaxReservations

\* A reservation is due once, and only if it was made.
DueOnce ==
  /\ ToSet(due) \subseteq DOMAIN reservations
  /\ IsInjective(due)

\* An idempotency record is about a reservation that was made.
RecordsFit == outdated \subseteq records /\ records \subseteq DOMAIN reservations

\* No two transactions hold the same row.
LocksExclude == \A t, u \in Threads : t # u => tx[t].held \cap tx[u].held = {}

\* What a transaction x read of a row is what the row holds: it keeps the lock.
ReadsStay(x, rows) ==
  \A s \in Seats, seat \in SeatRow :
    <<s, seat>> \in x.read => SeatLock(s) \in x.held /\ rows[s] = seat

Wanted(x) == x.held \cup ToSet(x.todo)
SeatsWanted(x) == {s \in Seats : SeatLock(s) \in Wanted(x)}
ReservationsWanted(x) == {r \in Nat : ReservationLock(r) \in Wanted(x)}
RecordsWanted(x) == {r \in Nat : RecordLock(r) \in Wanted(x)}

\* A command that has not got its reservation yet; it may have the record of its key.
Asking(x, made) ==
  \E r \in DOMAIN made :
    /\ x.request.reservations = {r}
    /\ \/ x.todo = <<ReservationLock(r)>> /\ x.held \subseteq {RecordLock(r)}
       \/ x.todo = <<RecordLock(r)>> /\ x.held = {}

\* A transaction that has its reservations: they stay ACTIVE, and it wants no
\* seat of another; only a sweeper still has records to lock.
Owning(x, made) ==
  /\ \A r \in x.request.reservations :
       /\ r \in DOMAIN made
       /\ made[r].status = "ACTIVE"
       /\ ReservationLock(r) \in x.held
  /\ \A i \in DOMAIN x.todo :
       \/ x.todo[i].table = "seats"
       \/ x.request.op = "sweep" /\ x.todo[i].table = "idempotency_records"
  /\ \A s \in SeatsWanted(x) : \E r \in x.request.reservations : s \in made[r].seats

\* Which rows the transaction of each operation is about, and who runs which.
Purposeful(t, x, made) ==
  /\ x.request.op = "none" => Wanted(x) = {}
  /\ x.request.op \in {"reserve", "configure"} =>
       x.request.reservations = {} /\ ReservationsWanted(x) = {}
  /\ x.request.op \in HoldOps =>
       /\ \E r \in Nat : x.request.reservations = {r}
       /\ Asking(x, made) \/ Owning(x, made)
  /\ x.request.op = "sweep" => Owning(x, made)
  /\ x.request.op \notin {"repeat", "sweep"} => RecordsWanted(x) = {}
  /\ t \in Sweepers => x.request.op \in {"none", "sweep"}
  /\ t \in Commands => x.request.op # "sweep"

\* Seats are locked in ascending order.
InOrder(x) ==
  /\ \A i, j \in DOMAIN x.todo :
       i < j /\ x.todo[i].table = "seats" /\ x.todo[j].table = "seats"
         => x.todo[i].row < x.todo[j].row
  /\ \A s \in Seats, i \in DOMAIN x.todo :
       SeatLock(s) \in x.held /\ x.todo[i].table = "seats" => s < x.todo[i].row

\* All but the sweepers that have several reservations lock in that order.
Ordered(x) == (\A q, r \in x.request.reservations : q = r) => InOrder(x)

\* A transaction x of thread t, when these are the rows.
Sound(t, x, rows, made) ==
  ReadsStay(x, rows) /\ Purposeful(t, x, made) /\ Ordered(x)

IInv ==
  /\ Shapes
  /\ RoomIsKept
  /\ DueOnce
  /\ RecordsFit
  /\ LocksExclude
  /\ CommittedHoldsAgree
  /\ \A t \in Threads : Sound(t, tx[t], seats, reservations)

-----------------------------------------------------------------------------
(* Sequences of locks.                                                       *)

\* A sequence of seat locks for seats of S.
SeatLocksOf(S) == Seq({SeatLock(s) : s \in S})

\* Its rows ascend.
Ascending(todo) == \A i, j \in DOMAIN todo : i < j => todo[i].row < todo[j].row

\* A set of natural numbers has a least member: the induction over a batch needs it.
LEMMA LeastNatural ==
  ASSUME NEW T, T \subseteq Nat, T # {}
  PROVE  \E n \in T : \A m \in T : n <= m
<1>1. \E n \in T : \A m \in T : ~(<<m, n>> \in OpToRel(<, Nat))
  BY NatLessThanWellFounded, WFMin
<1>2. \A m, n \in T : m < n => <<m, n>> \in OpToRel(<, Nat)
  BY DEF OpToRel
<1>3. \E n \in T : \A m \in T : ~(m < n)
  BY <1>1, <1>2
<1> QED BY <1>3

\* ORDER BY seat_id locks the seats asked for, in ascending order.
LEMMA SeatOrderLocks ==
  ASSUME TransactionAssumption, NEW S \in SUBSET Seats, NEW order \in SeatOrder(S)
  PROVE  /\ LockSeats(order) \in SeatLocksOf(S)
         /\ Ascending(LockSeats(order))
<1> DEFINE n == Cardinality(S)
           todo == LockSeats(order)
<1>1. n \in Nat
  BY FS_Subset, FS_CardinalityType DEF TransactionAssumption
<1>2. order \in [1 .. n -> S] /\ \A i, j \in DOMAIN order : i < j => order[i] < order[j]
  BY DEF SeatOrder, SetToSeqs
<1>3. todo = [i \in 1 .. n |-> SeatLock(order[i])]
  BY <1>2 DEF LockSeats
<1> HIDE DEF n, todo
<1>4. todo \in [1 .. n -> {SeatLock(s) : s \in S}]
  BY <1>2, <1>3
<1>5. todo \in SeatLocksOf(S)
  BY <1>1, <1>4 DEF SeatLocksOf
<1>6. \A i \in 1 .. n : todo[i].row = order[i]
  BY <1>3 DEF SeatLock
<1>7. Ascending(todo)
  BY <1>2, <1>4, <1>6 DEF Ascending
<1> QED BY <1>5, <1>7 DEF todo

\* Two sequences, one after the other.
LEMMA ConcatIs ==
  ASSUME NEW S, NEW s \in Seq(S), NEW t \in Seq(S), NEW r, r = s \o t
  PROVE  /\ r \in Seq(S) /\ Len(r) = Len(s) + Len(t)
         /\ \A i \in 1 .. Len(s) + Len(t) : r[i] = IF i <= Len(s) THEN s[i] ELSE t[i - Len(s)]
BY ConcatProperties, Zenon

\* FlattenSeq appends one sequence after the other: f does so up to the k-th.
Joined(parts, f, k) ==
  f = [i \in 1 .. k |-> IF i = 1 THEN parts[i] ELSE f[i - 1] \o parts[i]]

\* There is such a function, so the one FlattenSeq chooses is one.
LEMMA JoinedExists ==
  ASSUME NEW parts, NEW k \in Nat
  PROVE  \E f : Joined(parts, f, k)
<1> DEFINE Bad == {n \in Nat : ~ \E f : Joined(parts, f, n)}
<1>1. Joined(parts, [i \in 1 .. 0 |-> 0], 0)
  BY DEF Joined
<1>2. ASSUME NEW n \in Nat, NEW f, Joined(parts, f, n)
      PROVE  \E g : Joined(parts, g, n + 1)
  <2> DEFINE next == IF n + 1 = 1 THEN parts[n + 1] ELSE f[n] \o parts[n + 1]
             g == [i \in 1 .. n + 1 |-> IF i = n + 1 THEN next ELSE f[i]]
  <2>1. ASSUME NEW i \in 1 .. n + 1
        PROVE  g[i] = IF i = 1 THEN parts[i] ELSE g[i - 1] \o parts[i]
    <3>1. CASE i = n + 1
      BY <3>1
    <3>2. CASE i # n + 1
      <4>0. i \in 1 .. n
        BY <3>2
      <4>1. f[i] = IF i = 1 THEN parts[i] ELSE f[i - 1] \o parts[i]
        BY ONLY <1>2, <4>0 DEF Joined
      <4>2. g[i] = f[i] /\ (i # 1 => g[i - 1] = f[i - 1])
        BY <3>2
      <4> QED BY <4>1, <4>2
    <3> QED BY <3>1, <3>2
  <2>2. Joined(parts, g, n + 1)
    <3>1. g = [i \in 1 .. n + 1 |-> g[i]]
      OBVIOUS
    <3> HIDE DEF g
    <3> QED BY <2>1, <3>1 DEF Joined
  <2> QED BY <2>2
<1>3. Bad = {}
  <2> SUFFICES ASSUME Bad # {} PROVE FALSE
    OBVIOUS
  <2>1. PICK n \in Bad : \A m \in Bad : n <= m
    BY LeastNatural
  <2>2. n # 0
    BY <1>1, <2>1
  <2>3. n - 1 \in Nat /\ n - 1 \notin Bad
    BY <2>1, <2>2
  <2>4. PICK f : Joined(parts, f, n - 1)
    BY <2>3
  <2>5. \E g : Joined(parts, g, (n - 1) + 1)
    BY <1>2, <2>3, <2>4
  <2>6. (n - 1) + 1 = n
    BY <2>1
  <2> QED BY <2>1, <2>5, <2>6
<1> QED BY <1>3

\* What is joined from sequences over D is a sequence over D; one alone stays as it is.
LEMMA FlattenJoins ==
  ASSUME NEW D, NEW n \in Nat, NEW parts \in [1 .. n -> Seq(D)]
  PROVE  /\ FlattenSeq(parts) \in Seq(D)
         /\ n = 1 => FlattenSeq(parts) = parts[1]
<1>1. parts \in Seq(Seq(D)) /\ Len(parts) = n
  OBVIOUS
<1>2. CASE n = 0
  BY <1>1, <1>2 DEF FlattenSeq
<1>3. CASE n # 0
  <2>1. PICK f : f = (CHOOSE g : Joined(parts, g, n))
    OBVIOUS
  <2>2. FlattenSeq(parts) = f[n]
    BY <1>1, <1>3, <2>1 DEF FlattenSeq, Joined
  <2>3. Joined(parts, f, n)
    BY <2>1, JoinedExists
  <2>4. \A i \in 1 .. n : f[i] = IF i = 1 THEN parts[i] ELSE f[i - 1] \o parts[i]
    BY <2>3 DEF Joined
  <2> DEFINE Bad == {i \in Nat : i \in 1 .. n /\ f[i] \notin Seq(D)}
  <2>5. Bad = {}
    <3> SUFFICES ASSUME Bad # {} PROVE FALSE
      OBVIOUS
    <3>1. PICK i \in Bad : \A j \in Bad : i <= j
      BY LeastNatural
    <3>2. i # 1
      BY <2>4, <3>1
    <3>3. i - 1 \in 1 .. n /\ f[i - 1] \in Seq(D)
      BY <3>1, <3>2
    <3>4. f[i] = f[i - 1] \o parts[i] /\ parts[i] \in Seq(D)
      BY <2>4, <3>1, <3>2
    <3>5. f[i] \in Seq(D)
      BY <3>3, <3>4
    <3> QED BY <3>1, <3>5
  <2>6. n \in 1 .. n /\ 1 \in 1 .. n
    BY <1>3
  <2> QED BY <2>2, <2>4, <2>5, <2>6
<1> QED BY <1>2, <1>3

\* A reservation that was made.
LEMMA ReservationShape ==
  ASSUME Shapes, NEW r \in DOMAIN reservations
  PROVE  /\ r \in Nat /\ r \in 1 .. Len(reservations) /\ Len(reservations) \in Nat
         /\ reservations[r] \in ReservationRow
         /\ reservations[r].status \in ReservationStatus
         /\ reservations[r].seats \in SUBSET Seats
<1>1. r \in 1 .. Len(reservations) /\ Len(reservations) \in Nat /\ reservations[r] \in ReservationRow
  BY DEF Shapes
<1>2. reservations[r].status \in ReservationStatus /\ reservations[r].seats \in SUBSET Seats
  BY <1>1 DEF ReservationRow
<1> QED BY <1>1, <1>2

\* Only so many were made.
LEMMA ReservationsAreFinite ==
  ASSUME Shapes
  PROVE  IsFiniteSet(DOMAIN reservations)
<1>1. DOMAIN reservations = 1 .. Len(reservations) /\ Len(reservations) \in Nat
  BY DEF Shapes
<1>2. IsFiniteSet(1 .. Len(reservations))
  BY <1>1, FS_Interval
<1> QED BY <1>1, <1>2

\* The seats of a batch are those of its reservations; a batch of one reservation at
\* most is locked in ascending order.
LEMMA SweepLocks ==
  ASSUME TransactionAssumption, Shapes, NEW B \in SUBSET DOMAIN reservations,
         NEW batch \in SetToSeqs(B), NEW todo \in SweepOrders(batch)
  PROVE  /\ todo \in SeatLocksOf(UNION {reservations[r].seats : r \in ToSet(batch)})
         /\ (\A q, r \in ToSet(batch) : q = r) => Ascending(todo)
<1> DEFINE n == Cardinality(B)
           D == {SeatLock(s) : s \in UNION {reservations[r].seats : r \in ToSet(batch)}}
<1>1. n \in Nat
  BY ReservationsAreFinite, FS_Subset, FS_CardinalityType
<1>2. batch \in [1 .. n -> B] /\ \A i, j \in 1 .. n : i # j => batch[i] # batch[j]
  BY DEF SetToSeqs
<1>3. PICK orders : /\ orders \in [DOMAIN batch -> UNION {SeatOrder(reservations[r].seats) : r \in ToSet(batch)}]
                    /\ \A i \in DOMAIN batch : orders[i] \in SeatOrder(reservations[batch[i]].seats)
                    /\ todo = FlattenSeq([i \in DOMAIN batch |-> LockSeats(orders[i])])
  BY DEF SweepOrders
<1> DEFINE parts == [i \in 1 .. n |-> LockSeats(orders[i])]
<1>4. todo = FlattenSeq(parts)
  BY <1>2, <1>3
<1>5. n = 0 => D = {}
  BY <1>2 DEF ToSet
<1>6. ASSUME NEW i \in 1 .. n
      PROVE  parts[i] \in Seq(D) /\ Ascending(parts[i])
  <2>1. batch[i] \in B /\ batch[i] \in ToSet(batch)
    BY <1>2 DEF ToSet
  <2>2. reservations[batch[i]].seats \in SUBSET Seats
    BY <2>1, ReservationShape
  <2>3. orders[i] \in SeatOrder(reservations[batch[i]].seats)
    BY <1>2, <1>3
  <2>4. /\ LockSeats(orders[i]) \in SeatLocksOf(reservations[batch[i]].seats)
        /\ Ascending(LockSeats(orders[i]))
    BY <2>2, <2>3, SeatOrderLocks
  <2>5. {SeatLock(s) : s \in reservations[batch[i]].seats} \subseteq D
    BY <2>1
  <2> HIDE DEF D
  <2>6. LockSeats(orders[i]) \in Seq(D)
    BY <2>4, <2>5 DEF SeatLocksOf
  <2> QED BY <2>4, <2>6
<1> HIDE DEF D
<1>7. parts \in [1 .. n -> Seq(D)]
  BY <1>6
<1> HIDE DEF parts, n
<1>8. todo \in Seq(D) /\ (n = 1 => todo = parts[1])
  BY <1>1, <1>4, <1>7, FlattenJoins
<1>9. ASSUME \A q, r \in ToSet(batch) : q = r
      PROVE  n = 0 \/ n = 1
  <2> SUFFICES ASSUME n # 0, n # 1 PROVE FALSE
    OBVIOUS
  <2>1. 1 \in 1 .. n /\ 2 \in 1 .. n
    BY <1>1
  <2>2. batch[1] # batch[2]
    BY <1>2, <2>1
  <2>3. batch[1] \in ToSet(batch) /\ batch[2] \in ToSet(batch)
    BY <1>2, <2>1 DEF ToSet
  <2> QED BY <1>9, <2>2, <2>3
<1>10. ASSUME \A q, r \in ToSet(batch) : q = r
      PROVE  Ascending(todo)
  <2>1. CASE n = 0
    <3>1. todo \in Seq({})
      BY <1>5, <1>8, <2>1
    <3>2. DOMAIN todo = {}
      BY <3>1
    <3> QED BY <3>2 DEF Ascending
  <2>2. CASE n = 1
    BY <1>6, <1>8, <2>2
  <2> QED BY <1>9, <1>10, <2>1, <2>2
<1> QED BY <1>8, <1>10 DEF D, SeatLocksOf

\* The records to delete are of reservations.
LEMMA DeleteLocks ==
  ASSUME Shapes, RecordsFit, NEW todo \in DeleteOrders
  PROVE  todo \in Seq({RecordLock(r) : r \in Nat})
<1> DEFINE n == Cardinality(outdated)
<1>1. PICK order \in SetToSeqs(outdated) : todo = [i \in DOMAIN order |-> RecordLock(order[i])]
  BY DEF DeleteOrders
<1>2. DOMAIN reservations = 1 .. Len(reservations) /\ Len(reservations) \in Nat
  BY DEF Shapes
<1>3. IsFiniteSet(DOMAIN reservations) /\ outdated \subseteq DOMAIN reservations /\ outdated \subseteq Nat
  BY <1>2, FS_Interval DEF RecordsFit
<1>4. n \in Nat
  BY <1>3, FS_Subset, FS_CardinalityType
<1>5. order \in [1 .. n -> outdated]
  BY DEF SetToSeqs
<1> HIDE DEF n
<1>6. todo \in [1 .. n -> {RecordLock(r) : r \in Nat}]
  BY <1>1, <1>3, <1>5
<1> QED BY <1>4, <1>6

-----------------------------------------------------------------------------
(* What the parts of the invariant say.                                      *)

\* A seat's lock is no reservation's and no record's, and locks name their rows.
LEMMA LocksDiffer ==
  /\ \A s, r : SeatLock(s) # ReservationLock(r)
  /\ \A s, r : SeatLock(s) # RecordLock(r)
  /\ \A s, r : ReservationLock(s) # RecordLock(r)
  /\ \A s, q : SeatLock(s) = SeatLock(q) => s = q
  /\ \A s, q : ReservationLock(s) = ReservationLock(q) => s = q
  /\ \A s : SeatLock(s).table = "seats" /\ SeatLock(s).row = s
  /\ \A r : ReservationLock(r).table = "reservations" /\ ReservationLock(r).row = r
  /\ \A r : RecordLock(r).table = "idempotency_records" /\ RecordLock(r).row = r
BY DEF SeatLock, ReservationLock, RecordLock

\* The fields of a transaction.
LEMMA TransactionShape ==
  ASSUME NEW x \in Transactions
  PROVE  /\ x.request \in Requests /\ x.request.op \in Ops
         /\ x.request.seats \in SUBSET Seats /\ x.request.reservations \in SUBSET Nat
         /\ x.todo \in Seq(Locks) /\ x.held \in SUBSET Locks
         /\ x.read \in SUBSET (Seats \X SeatRow) /\ x.retries \in 0 .. MaxRetries
<1>1. /\ x.request \in Requests /\ x.todo \in Seq(Locks) /\ x.held \in SUBSET Locks
      /\ x.read \in SUBSET (Seats \X SeatRow) /\ x.retries \in 0 .. MaxRetries
  BY DEF Transactions
<1>2. /\ x.request.op \in Ops /\ x.request.seats \in SUBSET Seats
      /\ x.request.reservations \in SUBSET Nat
  BY <1>1 DEF Requests
<1> QED BY <1>1, <1>2

\* No transaction.
LEMMA IdleShape ==
  ASSUME TransactionAssumption
  PROVE  /\ Idle \in Transactions /\ Idle.request.op = "none" /\ Idle.request.reservations = {}
         /\ Idle.held = {} /\ Idle.read = {} /\ Idle.todo = <<>>
<1>1. NoRequest \in Requests
  BY DEF NoRequest, Request, Requests, Ops
<1>2. Idle \in Transactions
  BY <1>1 DEF Idle, Transactions, TransactionAssumption
<1> QED BY <1>2 DEF Idle, NoRequest, Request

\* A transaction that has only begun: no row is locked or read.
Fresh(x) == x.held = {} /\ x.read = {}

\* A thread without a transaction satisfies its part of the invariant.
LEMMA IdleIsSound ==
  ASSUME TransactionAssumption, NEW t, NEW rows, NEW made
  PROVE  Sound(t, Idle, rows, made)
<1>1. Idle.held = {} /\ Idle.read = {} /\ Idle.todo = <<>> /\ Idle.request.op = "none"
  BY IdleShape
<1>2. ReadsStay(Idle, rows)
  BY <1>1 DEF ReadsStay
<1>3. Wanted(Idle) = {}
  BY <1>1 DEF Wanted, ToSet
<1>4. Purposeful(t, Idle, made)
  BY <1>1, <1>3 DEF Purposeful, HoldOps, RecordsWanted
<1>5. InOrder(Idle)
  BY <1>1 DEF InOrder
<1> QED BY <1>2, <1>4, <1>5 DEF Ordered, Sound

\* So does a command that is about to lock its seats,
LEMMA SeatsFirst ==
  ASSUME NEW t, t \notin Sweepers, NEW rows, NEW made, NEW x, Fresh(x),
         x.request.op \in {"reserve", "configure"}, x.request.reservations = {},
         x.todo \in SeatLocksOf(Seats), Ascending(x.todo)
  PROVE  Sound(t, x, rows, made)
<1>1. ReadsStay(x, rows)
  BY DEF Fresh, ReadsStay
<1>2. ToSet(x.todo) \subseteq {SeatLock(s) : s \in Seats}
  BY DEF SeatLocksOf, ToSet
<1>3. Wanted(x) \subseteq {SeatLock(s) : s \in Seats}
  BY <1>2 DEF Wanted, Fresh
<1>4. ReservationsWanted(x) = {}
  BY <1>3, LocksDiffer DEF ReservationsWanted
<1>5. RecordsWanted(x) = {}
  BY <1>3, LocksDiffer DEF RecordsWanted
<1>6. Purposeful(t, x, made)
  BY <1>4, <1>5 DEF Purposeful, HoldOps
<1>7. InOrder(x)
  BY DEF InOrder, Ascending, Fresh
<1> QED BY <1>1, <1>6, <1>7 DEF Ordered, Sound

\* and one that is about to lock its reservation or the record of its key.
LEMMA ReservationFirst ==
  ASSUME NEW t, t \notin Sweepers, NEW rows, NEW made, NEW x, Fresh(x),
         x.request.op \in HoldOps, NEW r \in DOMAIN made, r \in Nat,
         x.request.reservations = {r},
         \/ x.todo = <<ReservationLock(r)>>
         \/ x.request.op = "repeat" /\ x.todo = <<RecordLock(r)>>
  PROVE  Sound(t, x, rows, made)
<1>1. ReadsStay(x, rows)
  BY DEF Fresh, ReadsStay
<1>2. Asking(x, made)
  BY DEF Asking, Fresh
<1>3. x.request.op # "repeat" => RecordsWanted(x) = {}
  <2>1. x.request.op # "repeat" => Wanted(x) = {ReservationLock(r)}
    BY DEF Wanted, ToSet, Fresh
  <2> QED BY <2>1, LocksDiffer DEF RecordsWanted
<1>4. Purposeful(t, x, made)
  BY <1>2, <1>3 DEF Purposeful, HoldOps
<1>5. InOrder(x)
  BY DEF InOrder, Fresh
<1> QED BY <1>1, <1>4, <1>5 DEF Ordered, Sound

\* The threads that reserve are finitely many commands.
LEMMA ReservingIsFinite ==
  ASSUME TransactionAssumption
  PROVE  IsFiniteSet(Reserving) /\ Cardinality(Reserving) \in Nat
<1>1. Reserving \subseteq Commands
  BY DEF Reserving
<1> QED BY <1>1, FS_Subset, FS_CardinalityType DEF TransactionAssumption

-----------------------------------------------------------------------------
(* Steps that commit nothing.                                                *)

\* A step of one transaction that commits nothing keeps the invariant, when what it
\* makes of its own transaction does.
LEMMA OwnStepKeeps ==
  ASSUME TransactionAssumption, IInv, UNCHANGED <<seats, reservations, due, records, outdated>>,
         begun' \in 0 .. MaxRequests,
         NEW t \in Threads, NEW new \in Transactions, tx' = [tx EXCEPT ![t] = new],
         \A u \in Threads \ {t} : new.held \cap tx[u].held = {},
         new.request.op = "reserve" =>
           \/ tx[t].request.op = "reserve"
           \/ Len(reservations) + Cardinality(Reserving) < MaxReservations,
         Sound(t, new, seats, reservations)
  PROVE  IInv'
<1>1. tx \in [Threads -> Transactions]
  BY DEF IInv, Shapes
<1>2. tx'[t] = new /\ \A u \in Threads \ {t} : tx'[u] = tx[u]
  BY <1>1
<1>3. Shapes'
  <2>1. tx' \in [Threads -> Transactions]
    BY <1>1
  <2> QED BY <2>1 DEF IInv, Shapes
<1>4. RoomIsKept'
  <2>1. Reserving' \subseteq Reserving \cup {t}
    BY <1>2 DEF Reserving, Threads
  <2>2. IsFiniteSet(Reserving) /\ Cardinality(Reserving) \in Nat /\ Len(reservations) \in Nat
    BY ReservingIsFinite DEF IInv, Shapes
  <2>3. CASE Reserving' \subseteq Reserving
    <3>1. Cardinality(Reserving') \in Nat /\ Cardinality(Reserving') <= Cardinality(Reserving)
      BY <2>2, <2>3, FS_Subset, FS_CardinalityType
    <3> QED BY <2>2, <3>1 DEF IInv, RoomIsKept, TransactionAssumption
  <2>4. CASE ~(Reserving' \subseteq Reserving)
    <3>1. t \in Reserving' /\ t \notin Reserving
      BY <2>1, <2>4
    <3>2. new.request.op = "reserve" /\ t \in Commands /\ tx[t].request.op # "reserve"
      BY <1>2, <3>1 DEF Reserving
    <3>3. Len(reservations) + Cardinality(Reserving) < MaxReservations
      BY <3>2
    <3>4. IsFiniteSet(Reserving \cup {t}) /\ Cardinality(Reserving \cup {t}) = Cardinality(Reserving) + 1
      BY <2>2, <3>1, FS_AddElement
    <3>5. Cardinality(Reserving') \in Nat /\ Cardinality(Reserving') <= Cardinality(Reserving) + 1
      BY <2>1, <3>4, FS_Subset, FS_CardinalityType
    <3> QED BY <2>2, <3>3, <3>5 DEF RoomIsKept, TransactionAssumption
  <2> QED BY <2>3, <2>4
<1>5. DueOnce' /\ RecordsFit' /\ CommittedHoldsAgree'
  BY DEF IInv, DueOnce, RecordsFit, CommittedHoldsAgree
<1>6. LocksExclude'
  BY <1>2 DEF IInv, LocksExclude
<1>7. ASSUME NEW u \in Threads
      PROVE  Sound(u, tx[u], seats, reservations)'
  <2>1. CASE u = t
    BY <1>2, <2>1
  <2>2. CASE u # t
    <3>1. tx'[u] = tx[u]
      BY <1>2, <2>2
    <3> QED BY <3>1 DEF IInv
  <2> QED BY <2>1, <2>2
<1> QED BY <1>3, <1>4, <1>5, <1>6, <1>7 DEF IInv

\* A transaction that is given up keeps the invariant.  (lock_timeout, DeadlockVictim)
LEMMA AbortKeeps ==
  ASSUME TransactionAssumption, IInv,
         UNCHANGED <<seats, reservations, due, records, outdated, begun>>,
         NEW t \in Threads, tx' = [tx EXCEPT ![t] = Idle]
  PROVE  IInv'
<1>1. /\ Idle \in Transactions /\ Idle.held = {} /\ Idle.request.op = "none"
      /\ begun' \in 0 .. MaxRequests
  BY IdleShape DEF IInv, Shapes
<1>2. Sound(t, Idle, seats, reservations)
  BY IdleIsSound
<1> QED BY <1>1, <1>2, OwnStepKeeps

\* Locks of seats are locks.
LEMMA SeatLocksAreLocks ==
  ASSUME NEW S \in SUBSET Seats, NEW todo \in SeatLocksOf(S)
  PROVE  todo \in Seq(Locks) /\ todo \in SeatLocksOf(Seats)
<1>1. /\ {SeatLock(s) : s \in S} \subseteq Locks
      /\ {SeatLock(s) : s \in S} \subseteq {SeatLock(s) : s \in Seats}
  BY DEF Locks
<1> QED BY <1>1 DEF SeatLocksOf

\* The threads are commands or sweepers.
LEMMA ThreadKinds ==
  ASSUME TransactionAssumption
  PROVE  /\ \A t \in Commands : t \in Threads /\ t \notin Sweepers
         /\ \A t \in Sweepers : t \in Threads /\ t \notin Commands
BY DEF TransactionAssumption, Threads

\* A transaction that has begun: the rows it has locked at once and those to lock.
Begun(request, held, todo, retries) ==
  [request |-> request, todo |-> todo, held |-> held, read |-> {}, retries |-> retries]

\* A record with the fields of a transaction is what its fields say.
LEMMA RecordOfFields ==
  ASSUME NEW x, x = [i \in {"request", "todo", "held", "read", "retries"} |-> x[i]]
  PROVE  x = [request |-> x.request, todo |-> x.todo, held |-> x.held, read |-> x.read,
              retries |-> x.retries]
OBVIOUS

\* How the actions that begin write it,
LEMMA BegunIs ==
  ASSUME NEW request, NEW todo
  PROVE  [Idle EXCEPT !.request = request, !.todo = todo] = Begun(request, {}, todo, 0)
<1>1. Idle = [request |-> NoRequest, todo |-> <<>>, held |-> {}, read |-> {}, retries |-> 0]
  BY DEF Idle
<1>2. ASSUME NEW x, x = [Idle EXCEPT !.request = request, !.todo = todo]
      PROVE  x = Begun(request, {}, todo, 0)
  <2>1. /\ x.request = request /\ x.todo = todo /\ x.retries = 0 /\ x.held = {} /\ x.read = {}
        /\ x = [i \in {"request", "todo", "held", "read", "retries"} |-> x[i]]
    BY <1>1, <1>2
  <2> QED BY <2>1, RecordOfFields DEF Begun
<1> QED BY <1>2

\* the retry of a deadlock victim,
LEMMA BegunAgainIs ==
  ASSUME NEW request, NEW todo, NEW retries
  PROVE  [Idle EXCEPT !.request = request, !.todo = todo, !.retries = retries]
         = Begun(request, {}, todo, retries)
<1>1. Idle = [request |-> NoRequest, todo |-> <<>>, held |-> {}, read |-> {}, retries |-> 0]
  BY DEF Idle
<1>2. ASSUME NEW x, x = [Idle EXCEPT !.request = request, !.todo = todo, !.retries = retries]
      PROVE  x = Begun(request, {}, todo, retries)
  <2>1. /\ x.request = request /\ x.todo = todo /\ x.retries = retries /\ x.held = {}
        /\ x.read = {}
        /\ x = [i \in {"request", "todo", "held", "read", "retries"} |-> x[i]]
    BY <1>1, <1>2
  <2> QED BY <2>1, RecordOfFields DEF Begun
<1> QED BY <1>2

\* and the sweeper's statement, which selects and locks at once.
LEMMA BegunLockedIs ==
  ASSUME NEW request, NEW held, NEW todo
  PROVE  [Idle EXCEPT !.request = request, !.held = held, !.todo = todo]
         = Begun(request, held, todo, 0)
<1>1. Idle = [request |-> NoRequest, todo |-> <<>>, held |-> {}, read |-> {}, retries |-> 0]
  BY DEF Idle
<1>2. ASSUME NEW x, x = [Idle EXCEPT !.request = request, !.held = held, !.todo = todo]
      PROVE  x = Begun(request, held, todo, 0)
  <2>1. /\ x.request = request /\ x.todo = todo /\ x.retries = 0 /\ x.held = held /\ x.read = {}
        /\ x = [i \in {"request", "todo", "held", "read", "retries"} |-> x[i]]
    BY <1>1, <1>2
  <2> QED BY <2>1, RecordOfFields DEF Begun
<1> QED BY <1>2

\* A command that begins keeps the invariant, whichever rows it is to lock first.
LEMMA BeginKeeps ==
  ASSUME TransactionAssumption, IInv, NEW t \in Commands, NEW request \in Requests,
         NEW todo \in Seq(Locks), Begin(t, request, todo),
         request.op = "reserve" => Len(reservations) + Cardinality(Reserving) < MaxReservations,
         \/ /\ request.op \in {"reserve", "configure"} /\ request.reservations = {}
            /\ todo \in SeatLocksOf(Seats) /\ Ascending(todo)
         \/ /\ request.op \in HoldOps
            /\ \E r \in DOMAIN reservations :
                 /\ r \in Nat /\ request.reservations = {r}
                 /\ \/ todo = <<ReservationLock(r)>>
                    \/ request.op = "repeat" /\ todo = <<RecordLock(r)>>
  PROVE  IInv'
<1> DEFINE new == Begun(request, {}, todo, 0)
<1>1. 0 \in 0 .. MaxRetries
  BY DEF TransactionAssumption
<1>2. new \in Transactions /\ Fresh(new) /\ new.request = request /\ new.todo = todo
  <2>1. ASSUME NEW x, x = Begun(request, {}, todo, 0)
        PROVE  x \in Transactions /\ x.held = {} /\ x.read = {} /\ x.request = request /\ x.todo = todo
    BY <1>1, <2>1 DEF Begun, Transactions
  <2> QED BY <2>1 DEF Fresh
<1>3. new = [Idle EXCEPT !.request = request, !.todo = todo]
  BY BegunIs
<1>4. tx' = [tx EXCEPT ![t] = new]
  BY <1>3 DEF Begin
<1>5. t \in Threads /\ t \notin Sweepers
  BY ThreadKinds
<1> HIDE DEF new
<1>6. Sound(t, new, seats, reservations)
  <2>1. CASE /\ request.op \in {"reserve", "configure"} /\ request.reservations = {}
             /\ todo \in SeatLocksOf(Seats) /\ Ascending(todo)
    BY <1>2, <1>5, <2>1, SeatsFirst
  <2>2. CASE /\ request.op \in HoldOps
             /\ \E r \in DOMAIN reservations :
                  /\ r \in Nat /\ request.reservations = {r}
                  /\ \/ todo = <<ReservationLock(r)>>
                     \/ request.op = "repeat" /\ todo = <<RecordLock(r)>>
    BY <1>2, <1>5, <2>2, ReservationFirst
  <2> QED BY <2>1, <2>2
<1>7. begun' \in 0 .. MaxRequests /\ UNCHANGED <<seats, reservations, due, records, outdated>>
  BY DEF Begin, IInv, Shapes, TransactionAssumption
<1>8. \A u \in Threads \ {t} : new.held \cap tx[u].held = {}
  BY <1>2 DEF Fresh
<1> QED BY <1>2, <1>4, <1>5, <1>6, <1>7, <1>8, OwnStepKeeps

\* ReserveSeats begins by locking the seats it names,
LEMMA BeginReserveSeatsKeeps ==
  ASSUME TransactionAssumption, IInv, NEW t \in Commands, BeginReserveSeats(t)
  PROVE  IInv'
<1>1. PICK S \in (SUBSET Seats) \ {{}} : \E order \in SeatOrder(S) :
        Begin(t, Request("reserve", S, {}), LockSeats(order))
  BY DEF BeginReserveSeats
<1>2. PICK order \in SeatOrder(S) : Begin(t, Request("reserve", S, {}), LockSeats(order))
  BY <1>1
<1>3. LockSeats(order) \in SeatLocksOf(S) /\ Ascending(LockSeats(order))
  BY SeatOrderLocks
<1>4. LockSeats(order) \in Seq(Locks) /\ LockSeats(order) \in SeatLocksOf(Seats)
  BY <1>3, SeatLocksAreLocks
<1>5. /\ Request("reserve", S, {}) \in Requests /\ Request("reserve", S, {}).op = "reserve"
      /\ Request("reserve", S, {}).reservations = {}
  BY DEF Request, Requests, Ops
<1>6. Len(reservations) + Cardinality(Reserving) < MaxReservations
  BY DEF BeginReserveSeats
<1> QED BY <1>2, <1>3, <1>4, <1>5, <1>6, BeginKeeps

\* ConfigureInventory by locking all of them,
LEMMA BeginConfigureInventoryKeeps ==
  ASSUME TransactionAssumption, IInv, NEW t \in Commands, BeginConfigureInventory(t)
  PROVE  IInv'
<1>1. PICK blocked \in SUBSET Seats, order \in SeatOrder(Seats) :
        Begin(t, Request("configure", blocked, {}), LockSeats(order))
  BY DEF BeginConfigureInventory
<1>2. LockSeats(order) \in SeatLocksOf(Seats) /\ Ascending(LockSeats(order))
  BY SeatOrderLocks
<1>3. LockSeats(order) \in Seq(Locks)
  BY <1>2, SeatLocksAreLocks
<1>4. /\ Request("configure", blocked, {}) \in Requests
      /\ Request("configure", blocked, {}).op = "configure"
      /\ Request("configure", blocked, {}).reservations = {}
  BY DEF Request, Requests, Ops
<1> QED BY <1>1, <1>2, <1>3, <1>4, BeginKeeps

\* the others by locking their reservation,
LEMMA BeginOnReservationKeeps ==
  ASSUME TransactionAssumption, IInv, NEW t \in Commands, BeginOnReservation(t)
  PROVE  IInv'
<1>1. PICK op \in HoldOps, r \in DOMAIN reservations :
        Begin(t, Request(op, {}, {r}), <<ReservationLock(r)>>)
  BY DEF BeginOnReservation, HoldOps
<1>2. r \in Nat
  BY ReservationShape DEF IInv
<1>3. ReservationLock(r) \in Locks
  BY <1>2 DEF Locks
<1>4. <<ReservationLock(r)>> \in Seq(Locks)
  BY <1>3
<1> DEFINE request == Request(op, {}, {r})
<1>5. request \in Requests /\ request.op = op /\ request.reservations = {r}
  BY <1>2 DEF Request, Requests, Ops, HoldOps
<1>6. op # "reserve"
  BY DEF HoldOps
<1> HIDE DEF request
<1> QED BY <1>1, <1>2, <1>4, <1>5, <1>6, BeginKeeps DEF request

\* and a repeated ReserveSeats by locking the record of its key, if there is one.
LEMMA BeginRepeatReserveKeeps ==
  ASSUME TransactionAssumption, IInv, NEW t \in Commands, BeginRepeatReserve(t)
  PROVE  IInv'
<1>1. PICK r \in DOMAIN reservations : Begin(t, Request("repeat", {}, {r}), RepeatLocks(r))
  BY DEF BeginRepeatReserve
<1>2. r \in Nat
  BY ReservationShape DEF IInv
<1>3. RepeatLocks(r) = <<ReservationLock(r)>> \/ RepeatLocks(r) = <<RecordLock(r)>>
  BY DEF RepeatLocks
<1>4. ReservationLock(r) \in Locks /\ RecordLock(r) \in Locks
  BY <1>2 DEF Locks
<1>5. RepeatLocks(r) \in Seq(Locks)
  <2>1. <<ReservationLock(r)>> \in Seq(Locks) /\ <<RecordLock(r)>> \in Seq(Locks)
    BY <1>4
  <2> QED BY <1>3, <2>1
<1> DEFINE request == Request("repeat", {}, {r})
<1>6. request \in Requests /\ request.op = "repeat" /\ request.reservations = {r}
  BY <1>2 DEF Request, Requests, Ops
<1>7. request.op \in HoldOps /\ request.op # "reserve"
  BY <1>6 DEF HoldOps
<1> HIDE DEF request
<1> QED BY <1>1, <1>2, <1>3, <1>5, <1>6, <1>7, BeginKeeps DEF request

\* The sweeper's statement locks a batch of reservations that no other transaction
\* has locked, and that are ACTIVE.
LEMMA BeginSweepKeeps ==
  ASSUME TransactionAssumption, IInv, NEW t \in Sweepers, BeginSweep(t)
  PROVE  IInv'
<1> DEFINE open == {r \in ToSet(due) : /\ reservations[r].status = "ACTIVE"
                                       /\ Free(t, ReservationLock(r))}
<1> DEFINE begins(batch, seatOrder, recordOrder) ==
             tx' = [tx EXCEPT ![t] =
                      [Idle EXCEPT !.request = Request("sweep", {}, ToSet(batch)),
                                   !.held = {ReservationLock(r) : r \in ToSet(batch)},
                                   !.todo = seatOrder \o recordOrder]]
<1>1. PICK batch \in FirstToExpire(open) :
         \E seatOrder \in SweepOrders(batch), recordOrder \in DeleteOrders :
           begins(batch, seatOrder, recordOrder)
  BY DEF BeginSweep
<1>2. PICK seatOrder \in SweepOrders(batch), recordOrder \in DeleteOrders :
        begins(batch, seatOrder, recordOrder)
  BY <1>1
<1>3. PICK todo : todo = seatOrder \o recordOrder
  OBVIOUS
<1>4. PICK B : B \subseteq open /\ batch \in SetToSeqs(B)
  <2> HIDE DEF open
  <2>1. batch \in UNION {SetToSeqs(B) : B \in SUBSET open}
    BY DEF FirstToExpire
  <2> QED BY <2>1
<1> DEFINE R == ToSet(batch)
           new == [Idle EXCEPT !.request = Request("sweep", {}, R),
                               !.held = {ReservationLock(r) : r \in R},
                               !.todo = todo]
<1>5. open \subseteq DOMAIN reservations
  BY DEF IInv, DueOnce
<1>6. R \subseteq open
  BY <1>4 DEF SetToSeqs, ToSet
<1> HIDE DEF R
<1>7. \A r \in R : /\ r \in DOMAIN reservations /\ reservations[r].status = "ACTIVE"
                   /\ Free(t, ReservationLock(r)) /\ r \in Nat
  <2>1. \A r \in DOMAIN reservations : r \in Nat
    BY ReservationShape DEF IInv
  <2> QED BY <1>5, <1>6, <2>1
<1> DEFINE S == UNION {reservations[r].seats : r \in R}
<1>8. S \in SUBSET Seats
  <2>1. \A r \in R : reservations[r].seats \subseteq Seats
    BY <1>7, ReservationShape DEF IInv
  <2> QED BY <2>1
<1>9. seatOrder \in SeatLocksOf(S) /\ ((\A q, r \in R : q = r) => Ascending(seatOrder))
  <2> HIDE DEF open
  <2>1. B \in SUBSET DOMAIN reservations
    BY <1>4, <1>5
  <2> QED BY <1>4, <2>1, SweepLocks DEF IInv, R
<1>10. recordOrder \in Seq({RecordLock(r) : r \in Nat})
  BY DeleteLocks DEF IInv
<1> HIDE DEF S
<1> DEFINE m == Len(seatOrder)
           n == Len(recordOrder)
<1>11. /\ m \in Nat /\ n \in Nat
       /\ \A i \in 1 .. m : \E s \in S : seatOrder[i] = SeatLock(s)
       /\ \A i \in 1 .. n : \E r \in Nat : recordOrder[i] = RecordLock(r)
       /\ DOMAIN seatOrder = 1 .. m
  BY <1>9, <1>10 DEF SeatLocksOf
<1>12. seatOrder \in Seq(Locks) /\ recordOrder \in Seq(Locks)
  <2>1. {RecordLock(r) : r \in Nat} \subseteq Locks
    BY DEF Locks
  <2> QED BY <1>8, <1>9, <1>10, <2>1, SeatLocksAreLocks
<1>13. /\ todo \in Seq(Locks) /\ Len(todo) = m + n
       /\ \A i \in 1 .. m + n : todo[i] = IF i <= m THEN seatOrder[i] ELSE recordOrder[i - m]
  BY <1>3, <1>12, ConcatIs
<1> HIDE DEF m, n
<1>14. ASSUME NEW i \in DOMAIN todo
       PROVE  \/ i \in 1 .. m /\ todo[i] = seatOrder[i] /\ \E s \in S : todo[i] = SeatLock(s)
              \/ i \notin 1 .. m /\ \E r \in Nat : todo[i] = RecordLock(r)
  <2>1. i \in 1 .. m + n
    BY <1>13
  <2>2. CASE i <= m
    <3>1. i \in 1 .. m
      BY <1>11, <2>1, <2>2
    <3> QED BY <1>11, <1>13, <2>1, <2>2, <3>1
  <2>3. CASE ~(i <= m)
    <3>1. i - m \in 1 .. n /\ i \notin 1 .. m
      BY <1>11, <2>1, <2>3
    <3> QED BY <1>11, <1>13, <2>1, <2>3, <3>1
  <2> QED BY <2>2, <2>3
<1> HIDE DEF S
<1>15. /\ new \in Transactions /\ new.todo = todo /\ new.read = {}
      /\ new.held = {ReservationLock(r) : r \in R} /\ new.request.op = "sweep"
      /\ new.request.reservations = R
  <2>1. Request("sweep", {}, R) \in Requests
    BY <1>7 DEF Request, Requests, Ops
  <2>2. {ReservationLock(r) : r \in R} \in SUBSET Locks
    BY <1>7 DEF Locks
  <2>3. 0 \in 0 .. MaxRetries
    BY DEF TransactionAssumption
  <2>4. new = Begun(Request("sweep", {}, R), {ReservationLock(r) : r \in R}, todo, 0)
    BY BegunLockedIs
  <2>5. Request("sweep", {}, R).op = "sweep" /\ Request("sweep", {}, R).reservations = R
    BY DEF Request
  <2> HIDE DEF new
  <2>6. PICK q \in Requests : q = Request("sweep", {}, R)
    BY <2>1
  <2>7. PICK H \in SUBSET Locks : H = {ReservationLock(r) : r \in R}
    BY <2>2
  <2>8. new = Begun(q, H, todo, 0)
    BY <2>4, <2>6, <2>7
  <2>9. /\ new \in Transactions /\ new.todo = todo /\ new.read = {} /\ new.held = H
        /\ new.request = q
    BY <1>13, <2>3, <2>8 DEF Begun, Transactions
  <2> QED BY <2>5, <2>6, <2>7, <2>9
<1> HIDE DEF new
<1>16. Sound(t, new, seats, reservations)
  <2>1. ReadsStay(new, seats)
    BY <1>15 DEF ReadsStay
  <2>2. \A i \in DOMAIN todo : (\E s \in S : todo[i] = SeatLock(s)) \/ \E r \in Nat : todo[i] = RecordLock(r)
    BY <1>14
  <2>3. \A i \in DOMAIN new.todo :
          new.todo[i].table = "seats" \/ new.todo[i].table = "idempotency_records"
    BY <1>15, <2>2, LocksDiffer
  <2>4. \A s \in SeatsWanted(new) : s \in S
    <3> SUFFICES ASSUME NEW s \in SeatsWanted(new) PROVE s \in S
      OBVIOUS
    <3>1. SeatLock(s) \in {ReservationLock(r) : r \in R} \cup ToSet(todo)
      BY <1>15 DEF SeatsWanted, Wanted
    <3>2. PICK i \in DOMAIN todo : todo[i] = SeatLock(s)
      BY <3>1, LocksDiffer DEF ToSet
    <3> QED BY <2>2, <3>2, LocksDiffer
  <2>5. Owning(new, reservations)
    BY <1>7, <1>15, <2>3, <2>4 DEF Owning, S
  <2>6. Purposeful(t, new, reservations)
    BY <1>15, <2>5, ThreadKinds DEF Purposeful, HoldOps
  <2>7. \A s \in Seats : SeatLock(s) \notin new.held
    BY <1>15, LocksDiffer
  <2>8. \A i \in DOMAIN todo : todo[i].table = "seats" => i \in DOMAIN seatOrder /\ todo[i] = seatOrder[i]
    BY <1>11, <1>14, LocksDiffer
  <2>9. Ordered(new)
    BY <1>9, <1>15, <2>7, <2>8 DEF Ordered, InOrder, Ascending
  <2> QED BY <2>1, <2>6, <2>9 DEF Sound
<1>17. \A u \in Threads \ {t} : new.held \cap tx[u].held = {}
  BY <1>7, <1>15 DEF Free
<1>18. tx' = [tx EXCEPT ![t] = new]
  BY <1>2, <1>3 DEF new, R
<1>19. begun' \in 0 .. MaxRequests /\ UNCHANGED <<seats, reservations, due, records, outdated>>
  BY DEF BeginSweep, IInv, Shapes
<1> QED BY <1>15, <1>16, <1>17, <1>18, <1>19, OwnStepKeeps, ThreadKinds

\* The first row to lock and the others are the rows to lock.
LEMMA HeadAndTail ==
  ASSUME NEW todo \in Seq(Locks), todo # <<>>
  PROVE  /\ Head(todo) \in Locks /\ Head(todo) = todo[1] /\ 1 \in DOMAIN todo
         /\ Tail(todo) \in Seq(Locks)
         /\ \A i \in DOMAIN Tail(todo) :
              i \in Nat /\ i + 1 \in DOMAIN todo /\ Tail(todo)[i] = todo[i + 1] /\ 1 < i + 1
         /\ ToSet(todo) = {Head(todo)} \cup ToSet(Tail(todo))
<1>1. /\ Head(todo) \in Locks /\ Head(todo) = todo[1] /\ 1 \in DOMAIN todo
      /\ Tail(todo) \in Seq(Locks) /\ Len(todo) \in Nat /\ DOMAIN todo = 1 .. Len(todo)
      /\ DOMAIN Tail(todo) = 1 .. Len(todo) - 1
  OBVIOUS
<1>2. \A i \in DOMAIN Tail(todo) :
        i \in Nat /\ i + 1 \in DOMAIN todo /\ Tail(todo)[i] = todo[i + 1] /\ 1 < i + 1
  BY <1>1
<1>3. \A i \in DOMAIN todo : i # 1 => i - 1 \in DOMAIN Tail(todo) /\ Tail(todo)[i - 1] = todo[i]
  BY <1>1
<1>4. ToSet(todo) = {Head(todo)} \cup ToSet(Tail(todo))
  <2> DEFINE rest == Tail(todo)
  <2>1. ASSUME NEW i \in DOMAIN todo PROVE todo[i] \in {Head(todo)} \cup ToSet(rest)
    <3>1. CASE i = 1
      BY <1>1, <3>1
    <3>2. CASE i # 1
      <4>1. rest[i - 1] \in ToSet(rest)
        BY <1>3, <3>2 DEF ToSet
      <4> QED BY <1>3, <3>2, <4>1
    <3> QED BY <3>1, <3>2
  <2>2. todo[1] \in ToSet(todo) /\ \A i \in DOMAIN rest : rest[i] \in ToSet(todo)
    BY <1>1, <1>2 DEF ToSet
  <2> HIDE DEF rest
  <2>3. ToSet(todo) \subseteq {Head(todo)} \cup ToSet(rest)
    BY <2>1 DEF ToSet
  <2>4. ToSet(rest) \subseteq ToSet(todo)
    BY <2>2 DEF ToSet
  <2> QED BY <1>1, <2>2, <2>3, <2>4 DEF rest
<1> QED BY <1>1, <1>2, <1>4

\* A lock of a table is of one of its rows.
LEMMA LockOfTable ==
  ASSUME NEW lock \in Locks
  PROVE  /\ lock.table = "seats" => lock.row \in Seats /\ lock = SeatLock(lock.row)
         /\ lock.table = "reservations" => lock.row \in Nat /\ lock = ReservationLock(lock.row)
         /\ lock.table = "idempotency_records" => lock.row \in Nat /\ lock = RecordLock(lock.row)
         /\ lock.table \in {"seats", "reservations", "idempotency_records"}
BY LocksDiffer DEF Locks

\* To get the next seat's lock and read the seat keeps the invariant.
LEMMA AcquireSeatKeeps ==
  ASSUME TransactionAssumption, IInv, NEW t \in Threads, AcquireSeat(t)
  PROVE  IInv'
<1> DEFINE x == tx[t]
           lock == Head(x.todo)
           s == lock.row
           new == tx'[t]
<1>1. x \in Transactions /\ x.todo # <<>> /\ lock.table = "seats" /\ Free(t, lock)
  BY DEF IInv, Shapes, AcquireSeat
<1>2. /\ x.request \in Requests /\ x.todo \in Seq(Locks) /\ x.held \in SUBSET Locks
      /\ x.read \in SUBSET (Seats \X SeatRow) /\ x.retries \in 0 .. MaxRetries
  BY <1>1, TransactionShape
<1>3. lock \in Locks /\ s \in Seats /\ lock = SeatLock(s)
  BY <1>1, <1>2, HeadAndTail, LockOfTable
<1>4. tx \in [Threads -> Transactions] /\ seats[s] \in SeatRow
  BY <1>3 DEF IInv, Shapes
<1>5. /\ new.held = x.held \cup {lock} /\ new.todo = Tail(x.todo)
      /\ new.read = x.read \cup {<<s, seats[s]>>}
      /\ new.request = x.request /\ new.retries = x.retries
      /\ new = [request |-> x.request, todo |-> new.todo, held |-> new.held,
                read |-> new.read, retries |-> x.retries]
      /\ tx' = [tx EXCEPT ![t] = new]
  BY <1>1, <1>4 DEF AcquireSeat, Transactions
<1>6. new \in Transactions
  <2>1. /\ new.held \in SUBSET Locks /\ new.todo \in Seq(Locks)
        /\ new.read \in SUBSET (Seats \X SeatRow)
    BY <1>1, <1>2, <1>3, <1>4, <1>5, HeadAndTail
  <2> HIDE DEF new, x
  <2> QED BY <1>2, <1>5, <2>1 DEF Transactions
<1> HIDE DEF new
<1>7. Sound(t, x, seats, reservations)
  BY DEF IInv
<1>8. ReadsStay(new, seats)
  BY <1>3, <1>5, <1>7 DEF Sound, ReadsStay
<1> HIDE DEF x, lock, s
<1>9. Wanted(new) = Wanted(x)
  <2>1. ToSet(x.todo) = {lock} \cup ToSet(new.todo)
    BY <1>1, <1>2, <1>5, HeadAndTail DEF lock
  <2> QED BY <1>5, <2>1 DEF Wanted
<1>10. /\ SeatsWanted(new) = SeatsWanted(x) /\ ReservationsWanted(new) = ReservationsWanted(x)
       /\ RecordsWanted(new) = RecordsWanted(x)
  BY <1>9 DEF SeatsWanted, ReservationsWanted, RecordsWanted
<1>11. Owning(x, reservations) => Owning(new, reservations)
  <2>1. \A i \in DOMAIN new.todo : i + 1 \in DOMAIN x.todo /\ new.todo[i] = x.todo[i + 1]
    BY <1>1, <1>2, <1>5, HeadAndTail
  <2> QED BY <1>5, <1>10, <2>1 DEF Owning
<1>12. ~Asking(x, reservations)
  <2>1. \A r : /\ x.todo = <<ReservationLock(r)>> => lock = ReservationLock(r)
               /\ x.todo = <<RecordLock(r)>> => lock = RecordLock(r)
    BY DEF lock
  <2> QED BY <1>3, <2>1, LocksDiffer DEF Asking
<1>13. Purposeful(t, new, reservations)
  BY <1>5, <1>7, <1>9, <1>10, <1>11, <1>12 DEF Sound, Purposeful
<1>14. InOrder(x) => InOrder(new)
  <2> SUFFICES ASSUME InOrder(x) PROVE InOrder(new)
    OBVIOUS
  <2>1. \A i \in DOMAIN new.todo :
          i \in Nat /\ i + 1 \in DOMAIN x.todo /\ new.todo[i] = x.todo[i + 1] /\ 1 < i + 1
    BY <1>1, <1>2, <1>5, HeadAndTail
  <2>2. 1 \in DOMAIN x.todo /\ x.todo[1].row = s /\ x.todo[1].table = "seats"
    BY <1>1, <1>2, HeadAndTail DEF s, lock
  <2>3. \A i, j \in DOMAIN new.todo :
          i < j /\ new.todo[i].table = "seats" /\ new.todo[j].table = "seats"
            => new.todo[i].row < new.todo[j].row
    BY <2>1 DEF InOrder
  <2>4. \A i \in DOMAIN new.todo : new.todo[i].table = "seats" => s < new.todo[i].row
    BY <2>1, <2>2 DEF InOrder
  <2>5. ASSUME NEW q \in Seats, NEW i \in DOMAIN new.todo, SeatLock(q) \in new.held,
               new.todo[i].table = "seats"
        PROVE  q < new.todo[i].row
    <3>1. CASE SeatLock(q) \in x.held
      BY <2>1, <2>5, <3>1 DEF InOrder
    <3>2. CASE SeatLock(q) = lock
      BY <1>3, <2>4, <2>5, <3>2, LocksDiffer
    <3> QED BY <1>5, <2>5, <3>1, <3>2
  <2> QED BY <2>3, <2>5 DEF InOrder
<1>15. Ordered(new)
  BY <1>5, <1>7, <1>14 DEF Sound, Ordered
<1>16. \A u \in Threads \ {t} : new.held \cap tx[u].held = {}
  BY <1>1, <1>5 DEF Free, IInv, LocksExclude, x
<1>17. /\ UNCHANGED <<seats, reservations, due, records, outdated>> /\ begun' \in 0 .. MaxRequests
  BY DEF AcquireSeat, IInv, Shapes
<1>18. Sound(t, new, seats, reservations)
  BY <1>8, <1>13, <1>15 DEF Sound
<1>19. new.request.op = "reserve" => tx[t].request.op = "reserve"
  BY <1>5 DEF x
<1> QED BY <1>5, <1>6, <1>16, <1>17, <1>18, <1>19, OwnStepKeeps

\* To delete a record, or to find that it is gone, keeps the invariant.
LEMMA DeleteRecordKeeps ==
  ASSUME TransactionAssumption, IInv, NEW t \in Threads, DeleteRecord(t)
  PROVE  IInv'
<1> DEFINE x == tx[t]
           lock == Head(x.todo)
           new == tx'[t]
<1>1. /\ x \in Transactions /\ x.todo # <<>> /\ lock.table = "idempotency_records"
      /\ Free(t, lock) /\ x.request.op = "sweep"
      /\ UNCHANGED <<seats, reservations, due, records, outdated, begun>>
  BY DEF IInv, Shapes, DeleteRecord
<1>2. /\ x.request \in Requests /\ x.todo \in Seq(Locks) /\ x.held \in SUBSET Locks
      /\ x.read \in SUBSET (Seats \X SeatRow) /\ x.retries \in 0 .. MaxRetries
  BY <1>1, TransactionShape
<1>3. PICK r \in Nat : lock = RecordLock(r) /\ lock \in Locks
  BY <1>1, <1>2, HeadAndTail, LockOfTable
<1>4. tx \in [Threads -> Transactions]
  BY DEF IInv, Shapes
<1>5. /\ new.held = x.held \/ new.held = x.held \cup {lock}
      /\ new.todo = Tail(x.todo) /\ new.read = x.read
      /\ new.request = x.request /\ new.retries = x.retries
      /\ new = [request |-> x.request, todo |-> new.todo, held |-> new.held,
                read |-> x.read, retries |-> x.retries]
      /\ tx' = [tx EXCEPT ![t] = new]
  BY <1>1, <1>4 DEF DeleteRecord, Transactions
<1>6. new \in Transactions
  <2>1. new.held \in SUBSET Locks /\ new.todo \in Seq(Locks)
    BY <1>1, <1>2, <1>3, <1>5, HeadAndTail
  <2> HIDE DEF new, x
  <2> QED BY <1>2, <1>5, <2>1 DEF Transactions
<1> HIDE DEF new
<1>7. Sound(t, x, seats, reservations)
  BY DEF IInv
<1>8. \A s : SeatLock(s) \in new.held <=> SeatLock(s) \in x.held
  BY <1>3, <1>5, LocksDiffer
<1>9. ReadsStay(new, seats)
  BY <1>5, <1>7, <1>8 DEF Sound, ReadsStay
<1> HIDE DEF x, lock
<1>10. /\ \A i \in DOMAIN new.todo :
             i \in Nat /\ i + 1 \in DOMAIN x.todo /\ new.todo[i] = x.todo[i + 1] /\ 1 < i + 1
       /\ ToSet(new.todo) \subseteq ToSet(x.todo)
  BY <1>1, <1>2, <1>5, HeadAndTail DEF lock
<1>11. SeatsWanted(new) \subseteq SeatsWanted(x)
  BY <1>8, <1>10 DEF SeatsWanted, Wanted
<1>12. Owning(new, reservations)
  <2>1. Owning(x, reservations)
    BY <1>1, <1>7 DEF Sound, Purposeful
  <2> QED BY <1>5, <1>10, <1>11, <2>1 DEF Owning
<1>13. Purposeful(t, new, reservations)
  BY <1>1, <1>5, <1>7, <1>12 DEF Sound, Purposeful, HoldOps
<1>14. InOrder(x) => InOrder(new)
  BY <1>8, <1>10 DEF InOrder
<1>15. Sound(t, new, seats, reservations)
  BY <1>5, <1>7, <1>9, <1>13, <1>14 DEF Sound, Ordered
<1>16. \A u \in Threads \ {t} : new.held \cap tx[u].held = {}
  BY <1>1, <1>5 DEF Free, IInv, LocksExclude, x
<1>17. begun' \in 0 .. MaxRequests /\ new.request.op # "reserve"
  BY <1>1, <1>5 DEF IInv, Shapes
<1> QED BY <1>1, <1>5, <1>6, <1>15, <1>16, <1>17, OwnStepKeeps

\* To lock the record of the key, or to find none, keeps the invariant: the
\* reservation comes next.
LEMMA AcquireRecordKeeps ==
  ASSUME TransactionAssumption, IInv, NEW t \in Threads, AcquireRecord(t)
  PROVE  IInv'
<1> DEFINE x == tx[t]
           lock == Head(x.todo)
           new == tx'[t]
<1>1. /\ x \in Transactions /\ x.todo # <<>> /\ lock.table = "idempotency_records"
      /\ Free(t, lock) /\ x.request.op = "repeat"
      /\ UNCHANGED <<seats, reservations, due, records, outdated, begun>>
      /\ \/ tx' = [tx EXCEPT ![t] = Idle]
         \/ tx' = [tx EXCEPT ![t].todo = <<ReservationLock(lock.row)>>,
                             ![t].held = IF lock.row \in records THEN @ \cup {lock} ELSE @]
  BY DEF IInv, Shapes, AcquireRecord
<1>2. CASE tx' = [tx EXCEPT ![t] = Idle]
  BY <1>1, <1>2, AbortKeeps
<1>3. ASSUME tx' = [tx EXCEPT ![t].todo = <<ReservationLock(lock.row)>>,
                              ![t].held = IF lock.row \in records THEN @ \cup {lock} ELSE @]
      PROVE  IInv'
  <2>1. Sound(t, x, seats, reservations)
    BY DEF IInv
  <2>2. x.todo \in Seq(Locks) /\ x.request \in Requests /\ x.held \in SUBSET Locks
    BY <1>1, TransactionShape
  <2>3. lock = x.todo[1] /\ 1 \in DOMAIN x.todo
    BY <1>1, <2>2, HeadAndTail
  <2>4. Asking(x, reservations)
    <3>1. ~Owning(x, reservations)
      BY <1>1, <2>3 DEF Owning
    <3> QED BY <1>1, <2>1, <3>1 DEF Sound, Purposeful, HoldOps
  <2>5. PICK r \in DOMAIN reservations :
          /\ x.request.reservations = {r} /\ lock = RecordLock(r) /\ lock.row = r /\ r \in Nat
          /\ x.held = {}
    BY <1>1, <2>3, <2>4, LocksDiffer, ReservationShape DEF Asking, IInv
  <2>6. tx \in [Threads -> Transactions]
    BY DEF IInv, Shapes
  <2>7. /\ new.held \subseteq {RecordLock(r)} /\ new.todo = <<ReservationLock(r)>>
        /\ new.read = x.read /\ new.request = x.request /\ new.retries = x.retries
        /\ new = [request |-> x.request, todo |-> new.todo, held |-> new.held,
                  read |-> x.read, retries |-> x.retries]
        /\ tx' = [tx EXCEPT ![t] = new]
    BY <1>3, <2>5, <2>6 DEF Transactions
  <2>8. \A u \in Threads \ {t} : new.held \cap tx[u].held = {}
    BY <1>1, <2>5, <2>7 DEF Free
  <2> HIDE DEF new
  <2>9. new \in Transactions
    <3>1. new.held \in SUBSET Locks /\ ReservationLock(r) \in Locks
      BY <2>5, <2>7 DEF Locks
    <3>2. new.todo \in Seq(Locks)
      BY <2>7, <3>1
    <3>3. x.read \in SUBSET (Seats \X SeatRow) /\ x.retries \in 0 .. MaxRetries
      BY <1>1, TransactionShape
    <3> HIDE DEF x
    <3> QED BY <2>2, <2>7, <3>1, <3>2, <3>3 DEF Transactions
  <2>10. ReadsStay(new, seats)
    BY <2>1, <2>5, <2>7 DEF Sound, ReadsStay
  <2>11. Asking(new, reservations)
    BY <2>5, <2>7 DEF Asking
  <2>12. Purposeful(t, new, reservations)
    <3>1. new.request.op = "repeat" /\ new.request.reservations = {r}
      BY <1>1, <2>5, <2>7
    <3>2. t \notin Sweepers
      BY <1>1, <2>1 DEF Sound, Purposeful
    <3> QED BY <2>5, <2>11, <3>1, <3>2 DEF Purposeful, HoldOps
  <2>13. InOrder(new)
    <3>1. \A i \in DOMAIN new.todo : new.todo[i].table = "reservations"
      BY <2>7, LocksDiffer
    <3> QED BY <3>1 DEF InOrder
  <2>14. Sound(t, new, seats, reservations)
    BY <2>10, <2>12, <2>13 DEF Sound, Ordered
  <2>15. begun' \in 0 .. MaxRequests /\ new.request.op # "reserve"
    BY <1>1, <2>7 DEF IInv, Shapes
  <2> QED BY <1>1, <2>7, <2>8, <2>9, <2>14, <2>15, OwnStepKeeps
<1> QED BY <1>1, <1>2, <1>3

\* A command whose next row is a reservation's has not got its reservation yet.
LEMMA ReservationNextAsks ==
  ASSUME NEW t, NEW rows, NEW made, NEW x \in Transactions, Sound(t, x, rows, made),
         x.todo # <<>>, Head(x.todo).table = "reservations"
  PROVE  x.request.op \in HoldOps /\ Asking(x, made)
<1>1. x.todo \in Seq(Locks) /\ x.request.op \in Ops
  BY TransactionShape
<1>2. /\ Head(x.todo) \in Locks /\ Head(x.todo) = x.todo[1] /\ 1 \in DOMAIN x.todo
      /\ Head(x.todo) \in ToSet(x.todo)
  BY <1>1, HeadAndTail
<1>3. ~Owning(x, made)
  BY <1>2 DEF Owning
<1>4. Head(x.todo).row \in ReservationsWanted(x) /\ Wanted(x) # {}
  BY <1>2, LockOfTable DEF ReservationsWanted, Wanted
<1> QED BY <1>1, <1>3, <1>4 DEF Sound, Purposeful, Ops, HoldOps

\* To get the lock of its reservation and find it good keeps the invariant, and so
\* does the end of a command that finds it ended or run out.
LEMMA AcquireReservationKeeps ==
  ASSUME TransactionAssumption, IInv, NEW t \in Threads, AcquireReservation(t)
  PROVE  IInv'
<1> DEFINE x == tx[t]
           lock == Head(x.todo)
           op == x.request.op
<1>1. /\ x \in Transactions /\ x.todo # <<>> /\ lock.table = "reservations" /\ Free(t, lock)
      /\ UNCHANGED <<seats, reservations, due, records, outdated, begun>>
      /\ \/ tx' = [tx EXCEPT ![t] = Idle]
         \/ /\ HoldIsGood(op, lock.row)
            /\ \E order \in SeatOrder(reservations[lock.row].seats) :
                 tx' = [tx EXCEPT ![t].held = @ \cup {lock},
                                  ![t].todo = IF op \in {"extend", "repeat"} THEN <<>>
                                                                             ELSE LockSeats(order)]
  BY DEF IInv, Shapes, AcquireReservation
<1>2. CASE tx' = [tx EXCEPT ![t] = Idle]
  BY <1>1, <1>2, AbortKeeps
<1>3. ASSUME HoldIsGood(op, lock.row), NEW order \in SeatOrder(reservations[lock.row].seats),
             tx' = [tx EXCEPT ![t].held = @ \cup {lock},
                              ![t].todo = IF op \in {"extend", "repeat"} THEN <<>>
                                                                         ELSE LockSeats(order)]
      PROVE  IInv'
  <2> DEFINE new == tx'[t]
  <2>1. Sound(t, x, seats, reservations)
    BY DEF IInv
  <2>2. op \in HoldOps /\ Asking(x, reservations)
    BY <1>1, <2>1, ReservationNextAsks
  <2>3. PICK r \in DOMAIN reservations :
          /\ x.request.reservations = {r} /\ x.todo = <<ReservationLock(r)>>
          /\ x.held \subseteq {RecordLock(r)}
    BY <1>1, <2>2, LocksDiffer DEF Asking
  <2>4. lock = ReservationLock(r) /\ lock.row = r /\ r \in Nat
    BY <2>3, LocksDiffer, ReservationShape DEF IInv
  <2>5. reservations[r].status = "ACTIVE" /\ reservations[r].seats \in SUBSET Seats
    BY <1>3, <2>4, ReservationShape DEF HoldIsGood, IInv
  <2> DEFINE todo == IF op \in {"extend", "repeat"} THEN <<>> ELSE LockSeats(order)
  <2>6. todo \in SeatLocksOf(reservations[r].seats) /\ Ascending(todo)
    <3>1. CASE op \in {"extend", "repeat"}
      BY <3>1 DEF SeatLocksOf, Ascending
    <3>2. CASE op \notin {"extend", "repeat"}
      BY <1>3, <2>4, <2>5, <3>2, SeatOrderLocks
    <3> QED BY <3>1, <3>2
  <2> HIDE DEF todo
  <2>7. /\ x.request \in Requests /\ x.todo \in Seq(Locks) /\ x.held \in SUBSET Locks
        /\ x.read \in SUBSET (Seats \X SeatRow) /\ x.retries \in 0 .. MaxRetries
    BY <1>1, TransactionShape
  <2>8. tx \in [Threads -> Transactions]
    BY DEF IInv, Shapes
  <2>9. /\ new.held = x.held \cup {lock} /\ new.todo = todo /\ new.read = x.read
        /\ new.request = x.request /\ new.retries = x.retries
        /\ new = [request |-> x.request, todo |-> todo, held |-> x.held \cup {lock},
                  read |-> x.read, retries |-> x.retries]
        /\ tx' = [tx EXCEPT ![t] = new]
    BY <1>3, <2>8 DEF Transactions, todo
  <2> HIDE DEF new
  <2>10. new \in Transactions
    <3>1. lock \in Locks
      BY <2>4 DEF Locks
    <3>2. todo \in Seq(Locks)
      BY <2>5, <2>6, SeatLocksAreLocks
    <3> HIDE DEF x
    <3> QED BY <2>7, <2>9, <3>1, <3>2 DEF Transactions
  <2>11. ReadsStay(new, seats)
    BY <2>1, <2>3, <2>9 DEF Sound, ReadsStay
  <2>12. ToSet(todo) \subseteq {SeatLock(s) : s \in reservations[r].seats}
    BY <2>6 DEF SeatLocksOf, ToSet
  <2>22. Wanted(new) = x.held \cup {ReservationLock(r)} \cup ToSet(todo)
    BY <2>4, <2>9 DEF Wanted
  <2>13. \A s \in SeatsWanted(new) : s \in reservations[r].seats
    BY <2>3, <2>12, <2>22, LocksDiffer DEF SeatsWanted
  <2>23. RecordsWanted(x) = {} => RecordsWanted(new) = {}
    <3>1. \A q \in Nat : RecordLock(q) \in Wanted(new) => RecordLock(q) \in x.held
      BY <2>12, <2>22, LocksDiffer
    <3> QED BY <3>1 DEF RecordsWanted, Wanted
  <2>14. \A i \in DOMAIN todo : todo[i].table = "seats"
    BY <2>6, LocksDiffer DEF SeatLocksOf
  <2>15. Owning(new, reservations)
    BY <2>3, <2>4, <2>5, <2>9, <2>13, <2>14 DEF Owning
  <2>16. Purposeful(t, new, reservations)
    <3>1. new.request.op \in HoldOps /\ new.request.op = op /\ new.request.reservations = {r}
      BY <2>2, <2>3, <2>9
    <3> HIDE DEF x, op
    <3> QED BY <2>1, <2>4, <2>9, <2>15, <2>23, <3>1 DEF Sound, Purposeful, HoldOps, op, x
  <2>17. Ordered(new)
    <3>1. \A s \in Seats : SeatLock(s) \notin new.held
      BY <2>3, <2>4, <2>9, LocksDiffer
    <3> QED BY <2>6, <2>9, <3>1 DEF Ordered, InOrder, Ascending
  <2>18. Sound(t, new, seats, reservations)
    BY <2>11, <2>16, <2>17 DEF Sound
  <2>19. \A u \in Threads \ {t} : new.held \cap tx[u].held = {}
    <3>1. \A u \in Threads \ {t} : x.held \cap tx[u].held = {} /\ lock \notin tx[u].held
      BY <1>1 DEF Free, IInv, LocksExclude
    <3> QED BY <2>9, <3>1
  <2>20. begun' \in 0 .. MaxRequests
    BY <1>1 DEF IInv, Shapes
  <2>21. new.request.op # "reserve"
    BY <2>2, <2>9 DEF HoldOps
  <2> QED BY <1>1, <2>9, <2>10, <2>18, <2>19, <2>20, <2>21, OwnStepKeeps
<1> QED BY <1>1, <1>2, <1>3

\* A deadlock victim runs again from the start, or gives up.
LEMMA DeadlockVictimKeeps ==
  ASSUME TransactionAssumption, IInv, NEW t \in Threads, DeadlockVictim(t)
  PROVE  IInv'
<1> DEFINE x == tx[t]
<1>1. UNCHANGED <<seats, reservations, due, records, outdated, begun>>
  BY DEF DeadlockVictim
<1>2. CASE tx' = [tx EXCEPT ![t] = Idle]
  BY <1>1, <1>2, AbortKeeps
<1>3. ASSUME t \in Commands, MayRetry(t), NEW todo \in FirstLocks(x.request),
             tx' = [tx EXCEPT ![t] = [Idle EXCEPT !.request = x.request, !.todo = todo,
                                                  !.retries = NextRetry(t)]]
      PROVE  IInv'
  <2> DEFINE new == Begun(x.request, {}, todo, NextRetry(t))
  <2>1. tx' = [tx EXCEPT ![t] = new]
    <3>1. new = [Idle EXCEPT !.request = x.request, !.todo = todo, !.retries = NextRetry(t)]
      BY BegunAgainIs
    <3> HIDE DEF new
    <3> QED BY <1>3, <3>1
  <2>2. x \in Transactions /\ Sound(t, x, seats, reservations)
    BY DEF IInv, Shapes
  <2>3. /\ x.request \in Requests /\ x.request.op \in Ops /\ x.todo \in Seq(Locks)
        /\ x.request.seats \in SUBSET Seats /\ x.retries \in 0 .. MaxRetries
    BY <2>2, TransactionShape
  <2>4. NextRetry(t) \in 0 .. MaxRetries
    BY <1>3, <2>3 DEF MayRetry, NextRetry, TransactionAssumption
  <2>5. x.todo # <<>>
    BY DEF DeadlockVictim, Deadlock, WaitsFor
  <2>6. x.request.op \notin {"none", "sweep"}
    <3>1. Wanted(x) # {}
      BY <2>3, <2>5, HeadAndTail DEF Wanted
    <3> QED BY <1>3, <2>2, <3>1 DEF Sound, Purposeful
  <2>7. t \notin Sweepers
    BY <1>3, ThreadKinds
  <2> HIDE DEF x
  <2>8. CASE x.request.op \in {"reserve", "configure"}
    <3>1. todo \in SeatLocksOf(Seats) /\ Ascending(todo)
      <4>1. PICK S \in SUBSET Seats : \E order \in SeatOrder(S) : todo = LockSeats(order)
        BY <1>3, <2>3, <2>8 DEF FirstLocks
      <4>2. todo \in SeatLocksOf(S) /\ Ascending(todo)
        BY <4>1, SeatOrderLocks
      <4> QED BY <4>2, SeatLocksAreLocks
    <3>2. todo \in Seq(Locks)
      BY <3>1, SeatLocksAreLocks
    <3>3. /\ new \in Transactions /\ Fresh(new) /\ new.request = x.request /\ new.todo = todo
      BY <2>3, <2>4, <3>2 DEF Begun, Transactions, Fresh
    <3> HIDE DEF new
    <3>4. Sound(t, new, seats, reservations)
      <4>1. x.request.reservations = {}
        BY <2>2, <2>8 DEF Sound, Purposeful
      <4> QED BY <2>7, <2>8, <3>1, <3>3, <4>1, SeatsFirst
    <3>5. new.held = {} /\ (new.request.op = "reserve" => tx[t].request.op = "reserve")
      BY <3>3 DEF Fresh, x
    <3> QED BY <1>1, <2>1, <3>3, <3>4, <3>5, OwnStepKeeps DEF IInv, Shapes
  <2>9. CASE x.request.op \in HoldOps
    <3>1. PICK r \in DOMAIN reservations : r \in Nat /\ x.request.reservations = {r}
      <4>1. PICK r \in Nat : x.request.reservations = {r}
        BY <2>2, <2>9 DEF Sound, Purposeful
      <4>2. r \in DOMAIN reservations
        BY <2>2, <2>9, <4>1 DEF Sound, Purposeful, Asking, Owning
      <4> QED BY <4>1, <4>2
    <3>2. todo = <<ReservationLock(r)>> \/ (x.request.op = "repeat" /\ todo = <<RecordLock(r)>>)
      BY <1>3, <2>9, <3>1 DEF FirstLocks, RepeatLocks, HoldOps
    <3>3. todo \in Seq(Locks)
      <4>1. ReservationLock(r) \in Locks /\ RecordLock(r) \in Locks
        BY <3>1 DEF Locks
      <4>2. <<ReservationLock(r)>> \in Seq(Locks) /\ <<RecordLock(r)>> \in Seq(Locks)
        BY <4>1
      <4> QED BY <3>2, <4>2
    <3>4. /\ new \in Transactions /\ Fresh(new) /\ new.request = x.request /\ new.todo = todo
      BY <2>3, <2>4, <3>3 DEF Begun, Transactions, Fresh
    <3> HIDE DEF new
    <3>5. Sound(t, new, seats, reservations)
      BY <2>7, <2>9, <3>1, <3>2, <3>4, ReservationFirst
    <3>6. new.held = {} /\ new.request.op # "reserve"
      BY <2>9, <3>4 DEF Fresh, HoldOps
    <3> QED BY <1>1, <2>1, <3>4, <3>5, <3>6, OwnStepKeeps DEF IInv, Shapes
  <2> QED BY <2>3, <2>6, <2>8, <2>9 DEF Ops, HoldOps
<1> QED BY <1>2, <1>3 DEF DeadlockVictim

-----------------------------------------------------------------------------
(* Steps that commit.                                                        *)

\* A transaction that ends leaves room for the reservation it makes.
LEMMA EndLeavesRoom ==
  ASSUME TransactionAssumption, IInv, NEW t \in Threads, tx' = [tx EXCEPT ![t] = Idle],
         reservations' \in Seq(ReservationRow),
         \/ Len(reservations') = Len(reservations)
         \/ tx[t].request.op = "reserve" /\ Len(reservations') = Len(reservations) + 1
  PROVE  RoomIsKept'
<1>1. tx \in [Threads -> Transactions] /\ Len(reservations) \in Nat /\ Len(reservations') \in Nat
  BY DEF IInv, Shapes
<1>2. tx'[t].request.op = "none" /\ \A u \in Threads \ {t} : tx'[u] = tx[u]
  BY <1>1, IdleShape
<1>3. IsFiniteSet(Reserving) /\ Cardinality(Reserving) \in Nat
  BY ReservingIsFinite
<1>4. Reserving' = Reserving \ {t}
  BY <1>2 DEF Reserving, Threads
<1>5. CASE t \in Reserving
  <2>1. Cardinality(Reserving \ {t}) = Cardinality(Reserving) - 1
    BY <1>3, <1>5, FS_RemoveElement
  <2> QED BY <1>1, <1>3, <1>4, <2>1 DEF IInv, RoomIsKept, TransactionAssumption
<1>6. CASE t \notin Reserving
  <2>1. Reserving' = Reserving
    BY <1>4, <1>6
  <2>2. tx[t].request.op # "reserve"
    <3>1. Sound(t, tx[t], seats, reservations)
      BY DEF IInv
    <3>2. t \in Sweepers => tx[t].request.op \in {"none", "sweep"}
      BY <3>1 DEF Sound, Purposeful
    <3> QED BY <1>6, <3>2 DEF Reserving, Threads
  <2> QED BY <2>1, <2>2 DEF IInv, RoomIsKept
<1> QED BY <1>5, <1>6

\* A commit keeps the invariant when it only changes rows its transaction has locked,
\* and leaves the rows in agreement.
LEMMA CommitStepKeeps ==
  ASSUME TransactionAssumption, IInv, NEW t \in Threads, tx' = [tx EXCEPT ![t] = Idle],
         UNCHANGED begun, seats' \in [Seats -> SeatRow], reservations' \in Seq(ReservationRow),
         due' \in Seq(Nat), DueOnce', RecordsFit', CommittedHoldsAgree',
         \/ Len(reservations') = Len(reservations)
         \/ tx[t].request.op = "reserve" /\ Len(reservations') = Len(reservations) + 1,
         \A s \in Seats : seats'[s] # seats[s] => SeatLock(s) \in tx[t].held,
         \A r \in DOMAIN reservations :
           /\ reservations'[r].seats = reservations[r].seats
           /\ reservations'[r].status # reservations[r].status => ReservationLock(r) \in tx[t].held
  PROVE  IInv'
<1>1. tx \in [Threads -> Transactions]
  BY DEF IInv, Shapes
<1>2. tx'[t] = Idle /\ \A u \in Threads \ {t} : tx'[u] = tx[u]
  BY <1>1
<1>3. Shapes'
  <2>1. tx' \in [Threads -> Transactions]
    BY <1>1, IdleShape
  <2> QED BY <2>1 DEF IInv, Shapes
<1>4. RoomIsKept'
  BY EndLeavesRoom
<1>5. LocksExclude'
  BY <1>2, IdleShape DEF IInv, LocksExclude
<1>6. DOMAIN reservations \subseteq DOMAIN reservations'
  <2>1. /\ DOMAIN reservations = 1 .. Len(reservations) /\ Len(reservations) \in Nat
        /\ DOMAIN reservations' = 1 .. Len(reservations') /\ Len(reservations') \in Nat
        /\ Len(reservations) <= Len(reservations')
    BY DEF IInv, Shapes
  <2> QED BY ONLY <2>1
<1>7. ASSUME NEW u \in Threads
      PROVE  Sound(u, tx[u], seats, reservations)'
  <2>1. CASE u = t
    BY <1>2, <2>1, IdleIsSound
  <2>2. CASE u # t
    <3> DEFINE x == tx[u]
    <3>1. tx'[u] = x
      BY <1>2, <2>2
    <3>2. Sound(u, x, seats, reservations) /\ x.held \cap tx[t].held = {}
      BY <2>2 DEF IInv, LocksExclude
    <3> HIDE DEF x
    <3>3. ReadsStay(x, seats')
      BY <3>2 DEF Sound, ReadsStay
    <3>4. Asking(x, reservations) => Asking(x, reservations')
      BY <1>6 DEF Asking
    <3>5. Owning(x, reservations) => Owning(x, reservations')
      BY <1>6, <3>2 DEF Owning
    <3>6. Purposeful(u, x, reservations')
      BY <3>2, <3>4, <3>5 DEF Sound, Purposeful
    <3> QED BY <3>1, <3>2, <3>3, <3>6 DEF Sound
  <2> QED BY <2>1, <2>2
<1> QED BY <1>3, <1>4, <1>5, <1>7 DEF IInv

\* What was read of seats under their locks is what they hold.
LEMMA AllReadIsTrue ==
  ASSUME IInv, NEW t \in Threads, NEW S \in SUBSET Seats, NEW seat \in SeatRow, AllRead(t, S, seat)
  PROVE  \A s \in S : SeatLock(s) \in tx[t].held /\ seats[s] = seat
<1>1. ReadsStay(tx[t], seats)
  BY DEF IInv, Sound
<1> QED BY <1>1 DEF AllRead, ReadsStay

\* The rows the commits write.
LEMMA SeatRows ==
  ASSUME TransactionAssumption
  PROVE  /\ \A r \in 0 .. MaxReservations : HeldBy(r) \in SeatRow
         /\ \A status \in SeatStatus : Unowned(status) \in SeatRow
         /\ \A q, r : HeldBy(q) = HeldBy(r) => q = r
         /\ \A r : HeldBy(r).status = "HELD" /\ HeldBy(r).reservation = r
         /\ \A status, r : status # "HELD" => Unowned(status) # HeldBy(r)
         /\ \A status : Unowned(status).status = status
         /\ \A seat \in SeatRow : seat.status = "HELD" => seat = HeldBy(seat.reservation)
<1>1. /\ \A r \in 0 .. MaxReservations : HeldBy(r) \in SeatRow
      /\ \A status \in SeatStatus : Unowned(status) \in SeatRow
  BY DEF HeldBy, Unowned, SeatRow, SeatStatus, TransactionAssumption
<1>2. /\ \A r : HeldBy(r).status = "HELD" /\ HeldBy(r).reservation = r
      /\ \A status : Unowned(status).status = status
  BY DEF HeldBy, Unowned
<1>3. \A seat \in SeatRow : seat.status = "HELD" => seat = HeldBy(seat.reservation)
  BY DEF HeldBy, SeatRow
<1> QED BY <1>1, <1>2, <1>3

\* Seats that are set.
LEMMA SetSeatsIs ==
  ASSUME IInv, NEW S, NEW seat \in SeatRow, NEW rows, rows = SetSeats(S, seat)
  PROVE  /\ rows \in [Seats -> SeatRow]
         /\ \A s \in Seats : rows[s] = IF s \in S THEN seat ELSE seats[s]
BY DEF IInv, Shapes, SetSeats

\* ReserveSeats makes a reservation of seats it read as available, or fails.
LEMMA CommitReserveKeeps ==
  ASSUME TransactionAssumption, IInv, NEW t \in Threads, CommitReserve(t),
         tx' = [tx EXCEPT ![t] = Idle], UNCHANGED begun
  PROVE  IInv'
<1> DEFINE S == tx[t].request.seats
           n == Len(reservations)
           r == n + 1
           row == [status |-> "ACTIVE", seats |-> S]
<1>1. /\ S \in SUBSET Seats /\ tx[t].request.op = "reserve"
  BY TransactionShape DEF IInv, Shapes, CommitReserve
<1>2. /\ n \in Nat /\ reservations \in Seq(ReservationRow) /\ seats \in [Seats -> SeatRow]
      /\ due \in Seq(Nat) /\ DOMAIN reservations = 1 .. n /\ DueOnce /\ CommittedHoldsAgree
      /\ RecordsFit
  BY DEF IInv, Shapes
<1>3. due' = due /\ outdated' = outdated
  BY DEF CommitReserve
<1> HIDE DEF S
<1>4. CASE AllRead(t, S, Unowned("AVAILABLE"))
  <2>1. /\ reservations' = Append(reservations, row) /\ seats' = SetSeats(S, HeldBy(r))
        /\ records' = records \cup {r}
    BY <1>4 DEF CommitReserve, S
  <2>2. row \in ReservationRow
    BY <1>1 DEF ReservationRow, ReservationStatus
  <2> HIDE DEF row
  <2>3. /\ reservations' \in Seq(ReservationRow) /\ Len(reservations') = n + 1
        /\ DOMAIN reservations' = 1 .. n + 1
        /\ reservations'[r] = row /\ \A q \in 1 .. n : reservations'[q] = reservations[q]
    BY <1>2, <2>1, <2>2
  <2>4. r \in 0 .. MaxReservations
    <3>2. RoomIsKept'
      BY <1>1, <2>3, EndLeavesRoom
    <3>3. Cardinality(Reserving') \in Nat
      <4>1. Reserving' \subseteq Commands
        BY DEF Reserving
      <4> QED BY <4>1, FS_Subset, FS_CardinalityType DEF TransactionAssumption
    <3> QED BY <1>2, <2>3, <3>2, <3>3 DEF RoomIsKept, TransactionAssumption
  <2>5. HeldBy(r) \in SeatRow /\ Unowned("AVAILABLE") \in SeatRow
    BY <2>4, SeatRows DEF SeatStatus
  <2>6. /\ seats' \in [Seats -> SeatRow]
        /\ \A s \in Seats : seats'[s] = IF s \in S THEN HeldBy(r) ELSE seats[s]
    BY <2>1, <2>5, SetSeatsIs
  <2>7. \A s \in S : SeatLock(s) \in tx[t].held /\ seats[s] = Unowned("AVAILABLE")
    BY <1>1, <1>4, <2>5, AllReadIsTrue
  <2>8. DueOnce'
    BY <1>2, <1>3, <2>3 DEF DueOnce
  <2>10. RecordsFit'
    BY <1>2, <1>3, <2>1, <2>3 DEF RecordsFit
  <2>9. CommittedHoldsAgree'
    <3>1. ASSUME NEW s \in Seats, NEW q \in 1 .. n + 1
          PROVE  seats'[s] = HeldBy(q) <=>
                   reservations'[q].status = "ACTIVE" /\ s \in reservations'[q].seats
      <4>1. CASE q = r /\ s \in S
        BY <2>3, <2>6, <4>1 DEF row
      <4>2. CASE q = r /\ s \notin S
        <5>1. seats[s] # HeldBy(q)
          BY <1>2, <4>2, SeatRows DEF CommittedHoldsAgree
        <5> QED BY <2>3, <2>6, <4>2, <5>1 DEF row
      <4>3. CASE q # r /\ s \in S
        <5>1. q \in 1 .. n /\ seats[s] # HeldBy(q) /\ seats'[s] # HeldBy(q)
          BY <1>2, <2>6, <2>7, <4>3, SeatRows
        <5> QED BY <1>2, <2>3, <5>1 DEF CommittedHoldsAgree
      <4>4. CASE q # r /\ s \notin S
        <5>1. q \in 1 .. n
          BY <1>2, <4>4
        <5> QED BY <1>2, <2>3, <2>6, <4>4, <5>1 DEF CommittedHoldsAgree
      <4> QED BY <4>1, <4>2, <4>3, <4>4
    <3>2. ASSUME NEW s \in Seats, seats'[s].status = "HELD"
          PROVE  seats'[s].reservation \in 1 .. n + 1
      BY <1>2, <2>6, <3>2, SeatRows DEF CommittedHoldsAgree
    <3> QED BY <2>3, <3>1, <3>2 DEF CommittedHoldsAgree
  <2> QED BY <1>1, <1>2, <1>3, <2>3, <2>6, <2>7, <2>8, <2>9, <2>10, CommitStepKeeps
<1>5. CASE ~AllRead(t, S, Unowned("AVAILABLE"))
  <2>1. UNCHANGED <<seats, reservations, due, records, outdated>>
    BY <1>3, <1>5 DEF CommitReserve, S
  <2> QED BY <2>1, AbortKeeps
<1> QED BY <1>4, <1>5

\* A transaction with all its rows has its reservations, if it is about any.
LEMMA ReadyOwns ==
  ASSUME IInv, NEW t \in Threads, tx[t].todo = <<>>, tx[t].request.op \in HoldOps \cup {"sweep"}
  PROVE  Owning(tx[t], reservations)
<1>1. Sound(t, tx[t], seats, reservations)
  BY DEF IInv
<1>2. ~Asking(tx[t], reservations)
  BY DEF Asking
<1> QED BY <1>1, <1>2 DEF Sound, Purposeful

\* ConfirmSeats, ReleaseSeats and the sweeper end the reservations they found held,
\* and give up no seat of another.
LEMMA CommitConcludeKeeps ==
  ASSUME TransactionAssumption, IInv, NEW t \in Threads, tx[t].todo = <<>>, CommitConclude(t),
         tx' = [tx EXCEPT ![t] = Idle], UNCHANGED begun
  PROVE  IInv'
<1> DEFINE op == tx[t].request.op
           done == Consistent(t)
           taken == UNION {reservations[r].seats : r \in done}
           seat == Unowned(IF op = "confirm" THEN "SOLD" ELSE "AVAILABLE")
           n == Len(reservations)
           concluded(r) == [reservations[r] EXCEPT !.status = ConcludedStatus[op]]
<1>1. op \in {"confirm", "release", "sweep"} /\ due' = due
  BY DEF CommitConclude, ConcludedStatus
<1>2. /\ n \in Nat /\ reservations \in Seq(ReservationRow) /\ seats \in [Seats -> SeatRow]
      /\ due \in Seq(Nat) /\ DOMAIN reservations = 1 .. n /\ DueOnce /\ CommittedHoldsAgree
  BY DEF IInv, Shapes
<1>3. /\ reservations' = [r \in 1 .. n |-> IF r \in done THEN concluded(r) ELSE reservations[r]]
      /\ seats' = SetSeats(taken, seat)
  BY <1>2 DEF CommitConclude
<1>4. Owning(tx[t], reservations)
  BY <1>1, ReadyOwns DEF HoldOps
<1>5. \A r \in tx[t].request.reservations : r \in 1 .. n /\ ReservationLock(r) \in tx[t].held
  BY <1>2, <1>4 DEF Owning
<1>6. ASSUME NEW r \in done
      PROVE  /\ r \in 1 .. n /\ ReservationLock(r) \in tx[t].held
             /\ \A s \in reservations[r].seats : SeatLock(s) \in tx[t].held /\ seats[s] = HeldBy(r)
  <2>1. r \in tx[t].request.reservations /\ AllRead(t, reservations[r].seats, HeldBy(r))
    BY DEF Consistent
  <2>2. r \in 1 .. n
    BY <1>5, <2>1
  <2>3. n <= MaxReservations
    BY <1>2, ReservingIsFinite DEF IInv, RoomIsKept, TransactionAssumption
  <2>4. HeldBy(r) \in SeatRow
    BY <1>2, <2>2, <2>3, SeatRows DEF TransactionAssumption
  <2>5. reservations[r].seats \in SUBSET Seats
    BY <1>2, <2>2, ReservationShape DEF IInv
  <2> QED BY <1>5, <2>1, <2>4, <2>5, AllReadIsTrue
<1> HIDE DEF op, done
<1>7. seat \in SeatRow /\ seat.status # "HELD" /\ \A r : seat # HeldBy(r)
  BY SeatRows DEF SeatStatus
<1> HIDE DEF seat
<1>8. ConcludedStatus[op] \in ReservationStatus /\ ConcludedStatus[op] # "ACTIVE"
  BY <1>1 DEF ConcludedStatus, ReservationStatus
<1>9. ASSUME NEW r \in 1 .. n
      PROVE  /\ concluded(r) \in ReservationRow
             /\ concluded(r).seats = reservations[r].seats /\ concluded(r).status = ConcludedStatus[op]
  <2>1. reservations[r] \in ReservationRow
    BY <1>2
  <2>2. ASSUME NEW row \in ReservationRow, NEW status \in ReservationStatus,
               NEW new, new = [row EXCEPT !.status = status]
        PROVE  new \in ReservationRow /\ new.seats = row.seats /\ new.status = status
    BY <2>2 DEF ReservationRow
  <2> QED BY <1>8, <2>1, <2>2
<1> HIDE DEF concluded
<1>10. /\ reservations' \in [1 .. n -> ReservationRow]
       /\ \A r \in 1 .. n : /\ reservations'[r].seats = reservations[r].seats
                            /\ r \notin done => reservations'[r] = reservations[r]
                            /\ r \in done => reservations'[r].status = ConcludedStatus[op]
  BY <1>2, <1>3, <1>9
<1>11. reservations' \in Seq(ReservationRow) /\ Len(reservations') = n /\ DOMAIN reservations' = 1 .. n
  BY <1>2, <1>10
<1>12. \A s \in taken : \E r \in done : s \in reservations[r].seats
  OBVIOUS
<1>13. \A r \in done : \A s \in reservations[r].seats : s \in taken
  OBVIOUS
<1> HIDE DEF taken, n
<1>14. /\ seats' \in [Seats -> SeatRow]
       /\ \A s \in Seats : seats'[s] = IF s \in taken THEN seat ELSE seats[s]
  BY <1>3, <1>7, SetSeatsIs
<1>15. \A s \in Seats : seats'[s] # seats[s] => SeatLock(s) \in tx[t].held
  BY <1>6, <1>12, <1>14
<1>16. DueOnce'
  BY <1>1, <1>2, <1>11 DEF DueOnce
<1>17. RecordsFit'
  <2>1. records' = records \ Deleted(t) /\ outdated' = outdated \ Deleted(t) /\ RecordsFit
    BY DEF CommitConclude, IInv
  <2> QED BY <1>2, <1>11, <2>1 DEF RecordsFit, n
<1>18. CommittedHoldsAgree'
  <2>1. ASSUME NEW s \in Seats, NEW q \in 1 .. n
        PROVE  seats'[s] = HeldBy(q) <=>
                 reservations'[q].status = "ACTIVE" /\ s \in reservations'[q].seats
    <3>1. CASE q \in done
      <4>1. reservations'[q].status # "ACTIVE"
        BY <1>8, <1>10, <3>1
      <4>2. CASE s \in taken
        BY <1>7, <1>14, <4>1, <4>2
      <4>3. CASE s \notin taken
        <5>1. s \notin reservations[q].seats /\ seats'[s] = seats[s]
          BY <1>13, <1>14, <3>1, <4>3
        <5>2. seats[s] # HeldBy(q)
          BY <1>2, <5>1 DEF CommittedHoldsAgree
        <5> QED BY <4>1, <5>1, <5>2
      <4> QED BY <4>2, <4>3
    <3>2. CASE q \notin done
      <4>1. reservations'[q] = reservations[q]
        BY <1>10, <3>2
      <4>2. CASE s \in taken
        <5>1. PICK r \in done : s \in reservations[r].seats
          BY <1>12, <4>2
        <5>2. seats[s] = HeldBy(r) /\ r # q
          BY <1>6, <3>2, <5>1
        <5>3. seats[s] # HeldBy(q)
          BY <5>2, SeatRows
        <5>4. seats'[s] # HeldBy(q)
          BY <1>7, <1>14, <4>2
        <5> QED BY <1>2, <4>1, <5>3, <5>4 DEF CommittedHoldsAgree
      <4>3. CASE s \notin taken
        BY <1>2, <1>14, <4>1, <4>3 DEF CommittedHoldsAgree
      <4> QED BY <4>2, <4>3
    <3> QED BY <3>1, <3>2
  <2>2. ASSUME NEW s \in Seats, seats'[s].status = "HELD"
        PROVE  seats'[s].reservation \in 1 .. n
    BY <1>2, <1>7, <1>14, <2>2 DEF CommittedHoldsAgree
  <2> QED BY <1>11, <2>1, <2>2 DEF CommittedHoldsAgree
<1>19. \A r \in DOMAIN reservations :
         /\ reservations'[r].seats = reservations[r].seats
         /\ reservations'[r].status # reservations[r].status => ReservationLock(r) \in tx[t].held
  BY <1>2, <1>6, <1>10
<1>20. Len(reservations') = Len(reservations) /\ due' \in Seq(Nat)
  BY <1>1, <1>2, <1>11 DEF n
<1> QED BY <1>11, <1>14, <1>15, <1>16, <1>17, <1>18, <1>19, <1>20, CommitStepKeeps

\* ConfigureInventory blocks and unblocks seats that nobody holds.
LEMMA CommitConfigureKeeps ==
  ASSUME TransactionAssumption, IInv, NEW t \in Threads, CommitConfigure(t),
         tx' = [tx EXCEPT ![t] = Idle], UNCHANGED begun
  PROVE  IInv'
<1> DEFINE read(s) == \E status \in {"AVAILABLE", "BLOCKED"} : <<s, Unowned(status)>> \in tx[t].read
           set(s) == Unowned(IF s \in tx[t].request.seats THEN "BLOCKED" ELSE "AVAILABLE")
<1>1. /\ seats' = [s \in Seats |-> IF read(s) THEN set(s) ELSE seats[s]]
      /\ UNCHANGED <<reservations, due, records, outdated>>
  BY DEF CommitConfigure
<1>2. /\ reservations \in Seq(ReservationRow) /\ seats \in [Seats -> SeatRow]
      /\ due \in Seq(Nat) /\ DueOnce /\ CommittedHoldsAgree
  BY DEF IInv, Shapes
<1>3. ReadsStay(tx[t], seats)
  BY DEF IInv, Sound
<1>4. ASSUME NEW s \in Seats, read(s)
      PROVE  SeatLock(s) \in tx[t].held /\ \A r : seats[s] # HeldBy(r)
  BY <1>3, <1>4, SeatRows DEF ReadsStay, SeatStatus
<1>5. ASSUME NEW s
      PROVE  set(s) \in SeatRow /\ set(s).status # "HELD" /\ \A r : set(s) # HeldBy(r)
  BY SeatRows DEF SeatStatus
<1> HIDE DEF read, set
<1>6. /\ seats' \in [Seats -> SeatRow]
      /\ \A s \in Seats : seats'[s] = IF read(s) THEN set(s) ELSE seats[s]
  BY <1>1, <1>2, <1>5
<1>7. \A s \in Seats : seats'[s] # seats[s] => SeatLock(s) \in tx[t].held
  BY <1>4, <1>6
<1>8. DueOnce' /\ RecordsFit'
  BY <1>1, <1>2 DEF DueOnce, RecordsFit, IInv
<1>9. CommittedHoldsAgree'
  <2>1. ASSUME NEW s \in Seats, NEW r
        PROVE  seats'[s] = HeldBy(r) <=> seats[s] = HeldBy(r)
    BY <1>4, <1>5, <1>6
  <2>2. ASSUME NEW s \in Seats, seats'[s].status = "HELD"
        PROVE  seats'[s] = seats[s]
    BY <1>5, <1>6, <2>2
  <2> QED BY <1>1, <1>2, <2>1, <2>2 DEF CommittedHoldsAgree
<1> QED BY <1>1, <1>2, <1>6, <1>7, <1>8, <1>9, CommitStepKeeps

\* A reservation's place in the order of expiry.
LEMMA PlaceIs ==
  ASSUME NEW r \in ToSet(due)
  PROVE  Place(r) \in DOMAIN due /\ due[Place(r)] = r
<1>1. \E i \in DOMAIN due : due[i] = r
  BY DEF ToSet
<1> QED BY <1>1 DEF Place

\* A reservation that is extended is due no more.
LEMMA RemovedOnce ==
  ASSUME due \in Seq(Nat), IsInjective(due), NEW k \in DOMAIN due
  PROVE  /\ RemoveAt(due, k) \in Seq(Nat)
         /\ ToSet(RemoveAt(due, k)) \subseteq ToSet(due)
         /\ IsInjective(RemoveAt(due, k))
<1> DEFINE n == Len(due)
           before == SubSeq(due, 1, k - 1)
           after == SubSeq(due, k + 1, n)
           rest == RemoveAt(due, k)
           at(i) == IF i < k THEN i ELSE i + 1
<1>1. /\ n \in Nat /\ DOMAIN due = 1 .. n /\ k \in 1 .. n /\ k - 1 \in Int /\ k + 1 \in Int
      /\ \A i \in 1 .. n : due[i] \in Nat
  BY LenProperties, SMTT(90)
<1> HIDE DEF n
<1>2. before \in Seq(Nat) /\ Len(before) = k - 1 /\ \A i \in 1 .. k - 1 : before[i] = due[i]
  <2>1. \A i \in 1 .. k - 1 : due[i] \in Nat
    BY <1>1
  <2>2. /\ before \in Seq(Nat) /\ Len(before) = IF 1 <= k - 1 THEN k - 1 - 1 + 1 ELSE 0
        /\ \A i \in 1 .. k - 1 - 1 + 1 : before[i] = due[1 + i - 1]
    BY ONLY <1>1, <2>1, SubSeqProperties, SMTT(90)
  <2> HIDE DEF before
  <2>3. /\ (IF 1 <= k - 1 THEN k - 1 - 1 + 1 ELSE 0) = k - 1 /\ k - 1 - 1 + 1 = k - 1
        /\ \A i \in 1 .. k - 1 : 1 + i - 1 = i
    BY <1>1
  <2> QED BY ONLY <2>2, <2>3
<1>3. after \in Seq(Nat) /\ Len(after) = n - k /\ \A i \in 1 .. n - k : after[i] = due[k + i]
  <2>1. \A i \in k + 1 .. n : due[i] \in Nat
    BY <1>1
  <2>2. /\ after \in Seq(Nat) /\ Len(after) = IF k + 1 <= n THEN n - (k + 1) + 1 ELSE 0
        /\ \A i \in 1 .. n - (k + 1) + 1 : after[i] = due[(k + 1) + i - 1]
    BY ONLY <1>1, <2>1, SubSeqProperties, SMTT(90)
  <2> HIDE DEF after
  <2>3. n - (k + 1) + 1 = n - k /\ (k + 1 <= n \/ n - k = 0)
    BY <1>1
  <2>4. ASSUME NEW i \in 1 .. n - k PROVE after[i] = due[k + i]
    <3>1. (k + 1) + i - 1 = k + i
      BY <1>1
    <3> QED BY <2>2, <2>3, <3>1
  <2> QED BY <2>2, <2>3, <2>4
<1>4. rest = before \o after
  BY DEF RemoveAt, n
<1> HIDE DEF rest, before, after
<1>5. /\ rest \in Seq(Nat) /\ Len(rest) = (k - 1) + (n - k)
      /\ \A i \in 1 .. (k - 1) + (n - k) :
           rest[i] = IF i <= k - 1 THEN before[i] ELSE after[i - (k - 1)]
  <2>0. before \in Seq(Nat) /\ after \in Seq(Nat) /\ rest = before \o after
    BY <1>2, <1>3, <1>4
  <2>1. /\ rest \in Seq(Nat) /\ Len(rest) = Len(before) + Len(after)
        /\ \A i \in 1 .. Len(before) + Len(after) :
             rest[i] = IF i <= Len(before) THEN before[i] ELSE after[i - Len(before)]
    <3>1. rest \in Seq(Nat)
      BY ONLY <2>0, ConcatIs
    <3>2. Len(rest) = Len(before) + Len(after)
      BY ONLY <2>0, ConcatIs
    <3>3. \A i \in 1 .. Len(before) + Len(after) :
            rest[i] = IF i <= Len(before) THEN before[i] ELSE after[i - Len(before)]
      BY ONLY <2>0, ConcatIs
    <3> QED BY ONLY <3>1, <3>2, <3>3
  <2> QED BY <1>2, <1>3, <2>1
<1>6. (k - 1) + (n - k) = n - 1
  BY ONLY <1>1
<1>7. DOMAIN rest = 1 .. n - 1
  BY <1>5, <1>6
<1>8. \A i \in 1 .. n - 1 : at(i) \in 1 .. n /\ rest[i] = due[at(i)]
  <2> SUFFICES ASSUME NEW i, i \in 1 .. n - 1 PROVE at(i) \in 1 .. n /\ rest[i] = due[at(i)]
    OBVIOUS
  <2>0. i \in Int /\ 1 <= i /\ i <= n - 1
    BY <1>1
  <2>3. n \in Int /\ k \in Int /\ 1 <= k /\ k <= n
    BY <1>1
  <2>1. CASE i < k
    <3>1. i \in 1 .. (k - 1) + (n - k) /\ i <= k - 1 /\ i \in 1 .. k - 1 /\ i \in 1 .. n
      BY ONLY <2>3, <1>6, <2>0, <2>1
    <3>2. rest[i] = before[i]
      BY ONLY <1>5, <3>1
    <3>3. before[i] = due[i] /\ at(i) = i
      BY ONLY <1>2, <2>1, <3>1
    <3> QED BY ONLY <3>1, <3>2, <3>3
  <2>2. CASE ~(i < k)
    <3>1. i \in 1 .. (k - 1) + (n - k) /\ ~(i <= k - 1)
      BY ONLY <2>3, <1>6, <2>0, <2>2
    <3>2. rest[i] = after[i - (k - 1)]
      BY ONLY <1>5, <3>1
    <3>3. i - (k - 1) \in 1 .. n - k /\ k + (i - (k - 1)) = i + 1 /\ i + 1 \in 1 .. n
      BY ONLY <2>3, <2>0, <2>2
    <3>4. after[i - (k - 1)] = due[i + 1]
      BY ONLY <1>3, <3>3
    <3>5. at(i) = i + 1
      BY ONLY <2>2
    <3> QED BY ONLY <3>2, <3>3, <3>4, <3>5
  <2> QED BY <2>1, <2>2
<1>9. \A i, j \in 1 .. n - 1 : at(i) = at(j) => i = j
  <2> SUFFICES ASSUME NEW i, NEW j, i \in 1 .. n - 1, j \in 1 .. n - 1, at(i) = at(j)
               PROVE  i = j
    OBVIOUS
  <2>1. i \in Int /\ j \in Int /\ k \in Int /\ at(i) = at(j)
    BY <1>1
  <2> QED BY ONLY <2>1
<1> HIDE DEF at
<1>10. ToSet(rest) \subseteq ToSet(due)
  BY <1>1, <1>7, <1>8 DEF ToSet
<1>11. IsInjective(rest)
  BY <1>1, <1>7, <1>8, <1>9 DEF IsInjective
<1> QED BY <1>5, <1>10, <1>11 DEF rest

\* ExtendReservation changes when the hold runs out, and nothing else.
LEMMA CommitExtendKeeps ==
  ASSUME TransactionAssumption, IInv, NEW t \in Threads, CommitExtend(t),
         tx' = [tx EXCEPT ![t] = Idle], UNCHANGED begun
  PROVE  IInv'
<1>1. /\ reservations \in Seq(ReservationRow) /\ seats \in [Seats -> SeatRow]
      /\ due \in Seq(Nat) /\ DueOnce /\ CommittedHoldsAgree
  BY DEF IInv, Shapes
<1>2. UNCHANGED <<seats, reservations, records, outdated>>
  BY DEF CommitExtend
<1>3. PICK r : due' = IF r \in ToSet(due) THEN RemoveAt(due, Place(r)) ELSE due
  BY DEF CommitExtend
<1>4. due' \in Seq(Nat) /\ ToSet(due') \subseteq ToSet(due) /\ IsInjective(due')
  <2>1. CASE r \in ToSet(due)
    BY <1>1, <1>3, <2>1, PlaceIs, RemovedOnce DEF DueOnce
  <2>2. CASE r \notin ToSet(due)
    BY <1>1, <1>3, <2>2 DEF DueOnce
  <2> QED BY <2>1, <2>2
<1>5. DueOnce' /\ RecordsFit' /\ CommittedHoldsAgree'
  BY <1>1, <1>2, <1>4 DEF DueOnce, RecordsFit, CommittedHoldsAgree, IInv
<1> QED BY <1>1, <1>2, <1>4, <1>5, CommitStepKeeps

\* A repeated ReserveSeats adds its record at most.
LEMMA CommitRepeatKeeps ==
  ASSUME TransactionAssumption, IInv, NEW t \in Threads, tx[t].todo = <<>>, CommitRepeat(t),
         tx' = [tx EXCEPT ![t] = Idle], UNCHANGED begun
  PROVE  IInv'
<1>1. /\ reservations \in Seq(ReservationRow) /\ seats \in [Seats -> SeatRow]
      /\ due \in Seq(Nat) /\ DueOnce /\ RecordsFit /\ CommittedHoldsAgree
  BY DEF IInv, Shapes
<1>2. /\ UNCHANGED <<seats, reservations, due, outdated>> /\ tx[t].request.op = "repeat"
      /\ records' = records \cup tx[t].request.reservations
  BY DEF CommitRepeat
<1>3. \A r \in tx[t].request.reservations : r \in DOMAIN reservations
  BY <1>2, ReadyOwns DEF HoldOps, Owning
<1>4. DueOnce' /\ RecordsFit' /\ CommittedHoldsAgree'
  BY <1>1, <1>2, <1>3 DEF DueOnce, RecordsFit, CommittedHoldsAgree
<1> QED BY <1>1, <1>2, <1>4, CommitStepKeeps

\* A commit of any operation.
LEMMA CommitKeeps ==
  ASSUME TransactionAssumption, IInv, NEW t \in Threads, Commit(t)
  PROVE  IInv'
<1>1. tx[t].todo = <<>> /\ tx' = [tx EXCEPT ![t] = Idle] /\ UNCHANGED begun
  BY DEF Commit
<1>2. CASE CommitReserve(t)
  BY <1>1, <1>2, CommitReserveKeeps
<1>3. CASE CommitConclude(t)
  BY <1>1, <1>3, CommitConcludeKeeps
<1>4. CASE CommitExtend(t)
  BY <1>1, <1>4, CommitExtendKeeps
<1>5. CASE CommitConfigure(t)
  BY <1>1, <1>5, CommitConfigureKeeps
<1>6. CASE CommitRepeat(t)
  BY <1>1, <1>6, CommitRepeatKeeps
<1> QED BY <1>2, <1>3, <1>4, <1>5, <1>6 DEF Commit

\* A hold that runs out keeps the invariant.
LEMMA HoldRunsOutKeeps ==
  ASSUME TransactionAssumption, IInv, NEW r \in DOMAIN reservations, HoldRunsOut(r)
  PROVE  IInv'
<1>1. /\ due' = Append(due, r) /\ r \notin ToSet(due)
      /\ UNCHANGED <<seats, reservations, records, outdated, tx, begun>>
  BY DEF HoldRunsOut
<1>2. due \in Seq(Nat) /\ r \in Nat /\ DueOnce
  BY ReservationShape DEF IInv, Shapes
<1>3. Shapes'
  BY <1>1, <1>2 DEF IInv, Shapes
<1>4. /\ DOMAIN due' = 1 .. Len(due) + 1 /\ DOMAIN due = 1 .. Len(due) /\ Len(due) \in Nat
      /\ due'[Len(due) + 1] = r /\ \A i \in 1 .. Len(due) : due'[i] = due[i]
  BY <1>1, <1>2
<1>5. \A i \in 1 .. Len(due) : due[i] # r /\ due[i] \in DOMAIN reservations
  BY <1>1, <1>2, <1>4 DEF DueOnce, ToSet
<1>6. \A i \in 1 .. Len(due) + 1 : due'[i] \in DOMAIN reservations
  BY <1>4, <1>5
<1>7. IsInjective(due')
  BY <1>2, <1>4, <1>5 DEF DueOnce, IsInjective
<1>8. DueOnce'
  BY <1>1, <1>4, <1>6, <1>7 DEF DueOnce, ToSet
<1>9. RoomIsKept' /\ LocksExclude' /\ RecordsFit' /\ CommittedHoldsAgree'
  BY <1>1 DEF IInv, RoomIsKept, Reserving, LocksExclude, RecordsFit, CommittedHoldsAgree
<1>10. \A t \in Threads : Sound(t, tx[t], seats, reservations)'
  BY <1>1 DEF IInv
<1> QED BY <1>3, <1>8, <1>9, <1>10 DEF IInv

\* A record that expires keeps the invariant.
LEMMA RecordRunsOutKeeps ==
  ASSUME TransactionAssumption, IInv, NEW r, RecordRunsOut(r)
  PROVE  IInv'
<1>1. /\ outdated' = outdated \cup {r} /\ r \in records
      /\ UNCHANGED <<seats, reservations, due, records, tx, begun>>
  BY DEF RecordRunsOut
<1>2. Shapes' /\ RecordsFit'
  BY <1>1 DEF IInv, Shapes, RecordsFit
<1>3. RoomIsKept' /\ LocksExclude' /\ DueOnce' /\ CommittedHoldsAgree'
  BY <1>1 DEF IInv, RoomIsKept, Reserving, LocksExclude, DueOnce, CommittedHoldsAgree
<1>4. \A t \in Threads : Sound(t, tx[t], seats, reservations)'
  BY <1>1 DEF IInv
<1> QED BY <1>2, <1>3, <1>4 DEF IInv

\* No transaction, no reservation.
LEMMA InitIsSound ==
  ASSUME TransactionAssumption, Init
  PROVE  IInv
<1>1. /\ seats = [s \in Seats |-> [status |-> "AVAILABLE", reservation |-> 0]]
      /\ reservations = <<>> /\ due = <<>> /\ tx = [t \in Threads |-> Idle] /\ begun = 0
      /\ records = {} /\ outdated = {}
  BY DEF Init
<1>2. [status |-> "AVAILABLE", reservation |-> 0] \in SeatRow
  BY DEF SeatRow, SeatStatus, TransactionAssumption
<1>3. Shapes
  BY <1>1, <1>2, IdleShape DEF Shapes, TransactionAssumption
<1>4. RoomIsKept
  <2>1. Reserving = {}
    BY <1>1, IdleShape DEF Reserving, Threads
  <2> QED BY <1>1, <2>1, FS_EmptySet DEF RoomIsKept, TransactionAssumption
<1>5. DueOnce /\ RecordsFit /\ LocksExclude /\ CommittedHoldsAgree
  BY <1>1, IdleShape DEF DueOnce, RecordsFit, ToSet, IsInjective, LocksExclude, CommittedHoldsAgree
<1>6. \A t \in Threads : Sound(t, tx[t], seats, reservations)
  BY <1>1, IdleIsSound
<1> QED BY <1>3, <1>4, <1>5, <1>6 DEF IInv

\* Every step keeps the invariant.
LEMMA NextKeeps ==
  ASSUME TransactionAssumption, IInv, [Next]_vars
  PROVE  IInv'
<1>1. ASSUME NEW t \in Commands,
             \/ BeginReserveSeats(t) \/ BeginRepeatReserve(t) \/ BeginOnReservation(t)
             \/ BeginConfigureInventory(t)
      PROVE  IInv'
  BY <1>1, BeginReserveSeatsKeeps, BeginRepeatReserveKeeps, BeginOnReservationKeeps,
     BeginConfigureInventoryKeeps
<1>2. ASSUME NEW t \in Sweepers, BeginSweep(t)
      PROVE  IInv'
  BY <1>2, BeginSweepKeeps
<1>3. ASSUME NEW t \in Threads, Proceed(t)
      PROVE  IInv'
  <2>1. CASE AcquireSeat(t)
    BY <2>1, AcquireSeatKeeps
  <2>2. CASE AcquireReservation(t)
    BY <2>2, AcquireReservationKeeps
  <2>3. CASE Commit(t)
    BY <2>3, CommitKeeps
  <2>4. CASE LockTimeout(t)
    BY <2>4, AbortKeeps DEF LockTimeout
  <2>5. CASE DeadlockVictim(t)
    BY <2>5, DeadlockVictimKeeps
  <2>6. CASE DeleteRecord(t)
    BY <2>6, DeleteRecordKeeps
  <2>7. CASE AcquireRecord(t)
    BY <2>7, AcquireRecordKeeps
  <2> QED BY <1>3, <2>1, <2>2, <2>3, <2>4, <2>5, <2>6, <2>7 DEF Proceed
<1>4. ASSUME NEW r \in DOMAIN reservations, HoldRunsOut(r) \/ RecordRunsOut(r)
      PROVE  IInv'
  BY <1>4, HoldRunsOutKeeps, RecordRunsOutKeeps
<1>5. CASE UNCHANGED vars
  BY <1>5 DEF vars, IInv, Shapes, RoomIsKept, Reserving, DueOnce, RecordsFit, LocksExclude,
       CommittedHoldsAgree, Sound
<1> QED BY <1>1, <1>2, <1>3, <1>4, <1>5 DEF Next

-----------------------------------------------------------------------------
(* Circles of waiting transactions.                                          *)

\* The row a transaction waits for.
NextSeat(x) == Head(x.todo).row

\* No sweeper of T waits for a record it is to delete.
NoneDeletes(T) ==
  \A t \in T \cap Sweepers : Head(tx[t].todo).table # "idempotency_records"

\* Then nobody in a circle waits for a record: a replay that does holds nothing.
LEMMA CircleWaitsForNoRecord ==
  ASSUME TransactionAssumption, IInv, NEW T \in SUBSET Threads, Deadlock(T), NoneDeletes(T),
         NEW t \in T
  PROVE  Head(tx[t].todo).table # "idempotency_records"
<1> DEFINE x == tx[t]
<1> SUFFICES ASSUME Head(x.todo).table = "idempotency_records" PROVE FALSE
  OBVIOUS
<1>1. x.todo # <<>> /\ x.held # {}
  BY DEF Deadlock, WaitsFor
<1>2. x \in Transactions /\ x.todo \in Seq(Locks) /\ Sound(t, x, seats, reservations)
  BY TransactionShape DEF IInv, Shapes
<1>3. /\ Head(x.todo) \in Locks /\ Head(x.todo) = x.todo[1] /\ 1 \in DOMAIN x.todo
      /\ Head(x.todo) \in ToSet(x.todo)
  BY <1>1, <1>2, HeadAndTail
<1>4. Head(x.todo).row \in RecordsWanted(x)
  BY <1>3, LockOfTable DEF RecordsWanted, Wanted
<1>5. x.request.op # "sweep"
  BY <1>2 DEF NoneDeletes, Sound, Purposeful, Threads
<1>6. x.request.op = "repeat"
  BY <1>2, <1>4, <1>5 DEF Sound, Purposeful
<1>7. ~Owning(x, reservations)
  BY <1>3, <1>6 DEF Owning
<1>8. Asking(x, reservations)
  BY <1>2, <1>6, <1>7 DEF Sound, Purposeful, HoldOps
<1>9. PICK r \in DOMAIN reservations : x.todo = <<ReservationLock(r)>>
  BY <1>1, <1>8 DEF Asking
<1> QED BY <1>9, LocksDiffer

\* A transaction in such a circle waits for a seat that another one of it holds: one
\* that waits for a reservation holds at most a record, which nobody waits for.
LEMMA CircleWaitsForSeats ==
  ASSUME TransactionAssumption, IInv, NEW T \in SUBSET Threads, Deadlock(T), NoneDeletes(T),
         NEW t \in T
  PROVE  LET x == tx[t]
         IN  /\ x.todo # <<>> /\ Head(x.todo).table = "seats" /\ NextSeat(x) \in Seats
             /\ Head(x.todo) = SeatLock(NextSeat(x)) /\ NextSeat(x) \in SeatsWanted(x)
             /\ \E u \in T : u # t /\ SeatLock(NextSeat(x)) \in tx[u].held
<1> DEFINE x == tx[t]
<1>1. /\ x.todo # <<>>
      /\ \E u \in T : u # t /\ Head(x.todo) \in tx[u].held
  BY DEF Deadlock, WaitsFor
<1>2. PICK v \in T : Head(tx[v].todo) \in x.held
  BY DEF Deadlock, WaitsFor
<1>3. Head(tx[v].todo).table # "idempotency_records"
  BY CircleWaitsForNoRecord
<1>4. x \in Transactions /\ x.todo \in Seq(Locks) /\ Sound(t, x, seats, reservations)
  BY TransactionShape DEF IInv, Shapes
<1>5. Head(x.todo) \in Locks /\ Head(x.todo) \in ToSet(x.todo)
  BY <1>1, <1>4, HeadAndTail
<1>6. Head(x.todo).table # "reservations"
  <2> SUFFICES ASSUME Head(x.todo).table = "reservations" PROVE FALSE
    OBVIOUS
  <2>1. Asking(x, reservations)
    BY <1>1, <1>4, ReservationNextAsks
  <2>2. PICK r \in DOMAIN reservations : x.held \subseteq {RecordLock(r)}
    BY <2>1 DEF Asking
  <2> QED BY <1>2, <1>3, <2>2, LocksDiffer
<1>7. Head(x.todo).table = "seats"
  BY <1>5, <1>6, CircleWaitsForNoRecord, LockOfTable
<1>8. NextSeat(x) \in Seats /\ Head(x.todo) = SeatLock(NextSeat(x))
  BY <1>5, <1>7, LockOfTable DEF NextSeat
<1>9. NextSeat(x) \in SeatsWanted(x)
  BY <1>5, <1>8 DEF SeatsWanted, Wanted
<1> QED BY <1>1, <1>7, <1>8, <1>9

\* Without the next row locked, what a transaction holds comes before it.
LEMMA HeldComesFirst ==
  ASSUME NEW x, x.todo \in Seq(Locks), x.todo # <<>>, Head(x.todo).table = "seats",
         InOrder(x), NEW s \in Seats, SeatLock(s) \in x.held
  PROVE  s < NextSeat(x)
BY HeadAndTail DEF InOrder, NextSeat

\* Such a circle has a transaction that does not lock in ascending order: the seats the
\* others wait for would go up around it without end.
LEMMA CircleIsNotInOrder ==
  ASSUME TransactionAssumption, IInv, NEW T \in SUBSET Threads, Deadlock(T), NoneDeletes(T)
  PROVE  \E t \in T : ~InOrder(tx[t])
<1> SUFFICES ASSUME \A t \in T : InOrder(tx[t]) PROVE FALSE
  OBVIOUS
<1> DEFINE next(t) == NextSeat(tx[t])
           above(t) == {s \in Seats : next(t) < s}
           Counts == {Cardinality(above(t)) : t \in T}
<1>1. IsFiniteSet(Seats) /\ Seats \subseteq Nat
  BY DEF TransactionAssumption
<1>2. \A t \in T : next(t) \in Seats
  BY CircleWaitsForSeats
<1>3. ASSUME NEW t \in T PROVE \E u \in T : next(t) < next(u)
  <2>1. PICK u \in T : SeatLock(next(t)) \in tx[u].held
    BY CircleWaitsForSeats
  <2>2. tx[u].todo \in Seq(Locks) /\ tx[u].todo # <<>> /\ Head(tx[u].todo).table = "seats"
    BY CircleWaitsForSeats, TransactionShape DEF IInv, Shapes
  <2> QED BY <1>2, <2>1, <2>2, HeldComesFirst
<1> HIDE DEF next
<1>4. ASSUME NEW t \in T
      PROVE  IsFiniteSet(above(t)) /\ Cardinality(above(t)) \in Nat
  BY <1>1, FS_Subset, FS_CardinalityType
<1>5. Counts \subseteq Nat /\ Counts # {}
  BY <1>4 DEF Deadlock
<1>6. PICK t \in T : \A u \in T : Cardinality(above(t)) <= Cardinality(above(u))
  <2>1. PICK n \in Counts : \A m \in Counts : n <= m
    BY <1>5, LeastNatural
  <2> QED BY <2>1
<1>7. PICK u \in T : next(t) < next(u)
  BY <1>3
<1>8. next(t) \in Nat /\ next(u) \in Nat
  BY <1>1, <1>2
<1>9. \A s \in above(u) : s \in above(t)
  BY <1>1, <1>7, <1>8
<1>10. next(u) \in above(t) /\ next(u) \notin above(u)
  BY <1>2, <1>7, <1>8
<1>11. above(u) \in SUBSET above(t) /\ above(u) # above(t)
  BY <1>9, <1>10
<1> HIDE DEF above
<1>12. Cardinality(above(u)) <= Cardinality(above(t)) /\ Cardinality(above(u)) # Cardinality(above(t))
  BY <1>4, <1>11, FS_Subset
<1>13. Cardinality(above(t)) <= Cardinality(above(u))
  BY <1>6
<1> QED BY <1>4, <1>12, <1>13

\* Transactions that have their reservations never wait for each other: the seats of
\* ACTIVE reservations are nobody else's.
LEMMA CircleIsNotOfHolds ==
  ASSUME TransactionAssumption, IInv, NEW T \in SUBSET Threads, Deadlock(T), NoneDeletes(T)
  PROVE  \E t \in T : ~Owning(tx[t], reservations)
<1> SUFFICES ASSUME \A t \in T : Owning(tx[t], reservations) PROVE FALSE
  OBVIOUS
<1>1. PICK t \in T : TRUE
  BY DEF Deadlock
<1> DEFINE s == NextSeat(tx[t])
<1>2. s \in Seats /\ s \in SeatsWanted(tx[t])
  BY CircleWaitsForSeats
<1>3. PICK u \in T : u # t /\ SeatLock(s) \in tx[u].held
  BY CircleWaitsForSeats
<1>4. s \in SeatsWanted(tx[u])
  BY <1>2, <1>3 DEF SeatsWanted, Wanted
<1> HIDE DEF s
<1>5. ASSUME NEW v \in T, s \in SeatsWanted(tx[v])
      PROVE  \E r \in DOMAIN reservations :
               seats[s] = HeldBy(r) /\ ReservationLock(r) \in tx[v].held
  <2>1. PICK r \in tx[v].request.reservations : s \in reservations[r].seats
    BY <1>5 DEF Owning
  <2>2. /\ r \in DOMAIN reservations /\ reservations[r].status = "ACTIVE"
        /\ ReservationLock(r) \in tx[v].held
    BY <2>1 DEF Owning
  <2> QED BY <1>2, <2>1, <2>2 DEF IInv, CommittedHoldsAgree
<1>6. PICK q \in DOMAIN reservations : seats[s] = HeldBy(q) /\ ReservationLock(q) \in tx[t].held
  BY <1>2, <1>5
<1>7. PICK r \in DOMAIN reservations : seats[s] = HeldBy(r) /\ ReservationLock(r) \in tx[u].held
  BY <1>4, <1>5
<1>8. q = r
  BY <1>6, <1>7, SeatRows
<1>9. tx[t].held \cap tx[u].held = {}
  BY <1>3 DEF IInv, LocksExclude
<1> QED BY <1>6, <1>7, <1>8, <1>9

\* So in every deadlock there is a sweeper, which waits for a record or has several
\* reservations and meets a command that locks several seats.
LEMMA DeadlockIsMixed ==
  ASSUME TransactionAssumption, IInv
  PROVE  DeadlockNeedsASweeper
<1> SUFFICES ASSUME NEW T \in SUBSET Threads, Deadlock(T), NoneDeletes(T)
             PROVE  /\ \E t \in T \cap Sweepers : Cardinality(tx[t].request.reservations) > 1
                    /\ \E t \in T \cap Commands : tx[t].request.op \in {"reserve", "configure"}
  BY DEF DeadlockNeedsASweeper, Blocked, NoneDeletes
<1>1. ASSUME NEW t \in T
      PROVE  /\ Sound(t, tx[t], seats, reservations) /\ tx[t].request.op \in Ops
             /\ tx[t].request.op # "none" /\ ~Asking(tx[t], reservations)
  <2>1. Sound(t, tx[t], seats, reservations) /\ tx[t].request.op \in Ops
    BY TransactionShape DEF IInv, Shapes
  <2>2. /\ tx[t].todo # <<>> /\ Head(tx[t].todo).table = "seats"
        /\ NextSeat(tx[t]) \in SeatsWanted(tx[t])
    BY CircleWaitsForSeats
  <2>3. Wanted(tx[t]) # {}
    BY <2>2 DEF SeatsWanted
  <2>4. ~Asking(tx[t], reservations)
    BY <2>2, LocksDiffer DEF Asking
  <2> QED BY <2>1, <2>3, <2>4 DEF Sound, Purposeful
<1>2. \E t \in T \cap Sweepers : Cardinality(tx[t].request.reservations) > 1
  <2>1. PICK t \in T : ~InOrder(tx[t])
    BY CircleIsNotInOrder
  <2> DEFINE R == tx[t].request.reservations
  <2>2. PICK q \in R, r \in R : q # r
    BY <1>1, <2>1 DEF Sound, Ordered
  <2>3. tx[t].request.op = "sweep"
    BY <1>1, <2>2 DEF Sound, Purposeful, Ops, HoldOps
  <2>4. t \in Sweepers
    BY <1>1, <2>3 DEF Sound, Purposeful, Threads
  <2>5. R \subseteq DOMAIN reservations
    BY <1>1, <2>3 DEF Sound, Purposeful, Owning
  <2>6. IsFiniteSet(DOMAIN reservations)
    BY ReservationsAreFinite DEF IInv
  <2> HIDE DEF R
  <2>7. IsFiniteSet(R) /\ Cardinality(R) \in Nat
    BY <2>5, <2>6, FS_Subset, FS_CardinalityType
  <2>8. Cardinality(R) # 0 /\ Cardinality(R) # 1
    BY <2>2, <2>7, FS_EmptySet, FS_Singleton
  <2> QED BY <2>4, <2>7, <2>8 DEF R
<1>3. \E t \in T \cap Commands : tx[t].request.op \in {"reserve", "configure"}
  <2>1. PICK t \in T : ~Owning(tx[t], reservations)
    BY CircleIsNotOfHolds
  <2>2. tx[t].request.op \in {"reserve", "configure"}
    BY <1>1, <2>1 DEF Sound, Purposeful, Ops, HoldOps
  <2>3. t \in Commands
    BY <1>1, <2>2 DEF Sound, Purposeful, Threads
  <2> QED BY <2>2, <2>3
<1> QED BY <1>2, <1>3

\* The types follow.
LEMMA TypesAreRight ==
  ASSUME TransactionAssumption, IInv
  PROVE  TypeOK
<1>1. /\ reservations \in Seq(ReservationRow) /\ begun \in 0 .. MaxRequests
      /\ seats \in [Seats -> SeatRow] /\ ToSet(due) \subseteq DOMAIN reservations
  BY DEF IInv, Shapes, DueOnce
<1>2. Len(reservations) <= MaxReservations
  BY ReservingIsFinite DEF IInv, Shapes, RoomIsKept, TransactionAssumption
<1>3. \A r \in DOMAIN reservations : reservations[r] \in ReservationRow
  BY <1>1
<1>4. \A t \in Threads : tx[t].retries \in 0 .. MaxRetries
  BY TransactionShape DEF IInv, Shapes
<1>5. outdated \subseteq records /\ records \subseteq DOMAIN reservations
  BY DEF IInv, RecordsFit
<1> QED BY <1>1, <1>2, <1>3, <1>4, <1>5 DEF TypeOK, SeatRow, ReservationRow

-----------------------------------------------------------------------------
(* The theorems.                                                             *)

\* The invariant holds in every reachable state.
LEMMA Invariance ==
  ASSUME TransactionAssumption
  PROVE  Spec => []IInv
<1>1. Init => IInv
  BY InitIsSound
<1>2. IInv /\ [Next]_vars => IInv'
  BY NextKeeps
<1> QED BY <1>1, <1>2, PTL DEF Spec

\* Row locks suffice: the committed seats and reservations agree, whatever order the
\* transactions took their locks in, commands never deadlock with each other, and a
\* sweeper that does waits for a record it is to delete or has several reservations
\* and meets a command that locks several seats.  (reserve_seats.py,
\* confirm_seats.py, release_seats.py, expire_reservations.py)
THEOREM RowLocksSuffice ==
  ASSUME TransactionAssumption
  PROVE  Spec => []SeatLocksSuffice
<1>1. IInv => SeatLocksSuffice
  BY TypesAreRight, DeadlockIsMixed DEF IInv, SeatLocksSuffice
<1> QED BY <1>1, Invariance, PTL

-----------------------------------------------------------------------------
(* Identity Service: the inductive invariant.                                *)

Revocations == {"ROTATED", "REUSE_DETECTED", "EXPIRED", "ACCOUNT_DISABLED", "LOGOUT"}
Answers ==
  Revocations \cup {"none", "SUCCESS", "INTERNAL_ERROR", "INVALID_CREDENTIALS", "ACCOUNT_LOCKED",
                    "RATE_LIMITED", "INVALID_REFRESH_TOKEN", "NO_CHANGE", "FORBIDDEN"}
UserRow ==
  [exists : BOOLEAN, roles : SUBSET Identity!Roles, version : Nat, failed : Nat,
   locked : {"no", "yes", "past"}, status : {"ACTIVE", "DISABLED"}]
BucketRow ==
  [row : BOOLEAN, fresh : BOOLEAN, owner : Clients \cup {None}, attempts : Nat,
   blocked : BOOLEAN, elapsed : BOOLEAN]
SessionRow ==
  [user : Users, family : Nat, parent : Nat, replaced : Nat,
   revoked : Revocations \cup {"no"}, expired : BOOLEAN]
AccessTokens == [user : Users, version : Nat, roles : SUBSET Identity!Roles]
LoginPhases == {"idle", "select", "checked", "held", "revoking", "authorized"}
LoginCall ==
  [op : {"none", "login", "refresh", "logout", "change_role"}, phase : LoginPhases,
   user : Users \cup {None}, session : Nat, right : BOOLEAN, rows : SUBSET Nat,
   actor : Users \cup {None}, answer : Answers]

\* The shape of the rows and of the requests.
AccountShapes ==
  /\ users \in [Users -> UserRow]
  /\ buckets \in [Users -> BucketRow]
  /\ sessions \in Seq(SessionRow)
  /\ tokens \subseteq AccessTokens
  /\ logins \in [Clients -> LoginCall]
  /\ guesses \in [Users -> Nat]

\* What a request x is about, by its phase.
RequestIsAbout(x, made) ==
  /\ x.phase \in {"select", "checked"} => x.op = "login" /\ x.user \in Users
  /\ x.phase = "authorized" => x.op = "change_role" /\ x.user \in Users
  /\ x.phase \in {"held", "revoking"} =>
       x.op \in {"refresh", "logout"} /\ x.session \in DOMAIN made
  /\ x.phase = "revoking" => x.answer \in Revocations

RequestsFit == \A c \in Clients : RequestIsAbout(logins[c], sessions)

\* Requests that may still add a session, and those that may raise a version.
Adding == {c \in Clients : logins[c].op \in {"login", "refresh"} /\ logins[c].phase # "idle"}
Raising(u) == {c \in Clients : logins[c].phase = "authorized" /\ logins[c].user = u}

\* What may still be added is within the bounds.
AccountsHaveRoom ==
  /\ Len(sessions) + Cardinality(Adding) <= MaxSessions
  /\ \A u \in Users : users[u].version >= 1 /\ users[u].version + Cardinality(Raising(u)) <= MaxVersion

\* The transaction that locked a bucket is a login of that account.
BucketsAreOwned ==
  \A u \in Users : buckets[u].owner # None =>
    logins[buckets[u].owner].phase = "checked" /\ logins[buckets[u].owner].user = u

HoldsSession(x) == x.phase \in {"held", "revoking"}

\* A session is locked by one request, and one that was read as live stays so
\* until the request that read it goes on.
SessionsAreLocked ==
  /\ \A c, d \in Clients :
       c # d /\ HoldsSession(logins[c]) /\ HoldsSession(logins[d]) => logins[c].session # logins[d].session
  /\ \A c \in Clients :
       logins[c].phase = "held" /\ logins[c].session \in logins[c].rows =>
         sessions[logins[c].session].revoked = "no"

\* A session belongs to an account and to a family that began no later than it.
SessionsAreRooted ==
  \A i \in DOMAIN sessions :
    /\ users[sessions[i].user].exists
    /\ sessions[i].family \in 1 .. i
    /\ sessions[i].parent <= Len(sessions) /\ sessions[i].replaced <= Len(sessions)

\* Tokens carry a version the account had.
TokensAreDated ==
  \A t \in tokens : users[t.user].exists /\ t.version <= users[t.user].version

\* The guesses answered are counted, but for those of an account that is locked.
GuessesAreCounted ==
  \A u \in Users :
    /\ guesses[u] <= LockoutThreshold
    /\ users[u].locked = "no" => guesses[u] <= users[u].failed /\ users[u].failed < LockoutThreshold
    /\ ~users[u].exists => guesses[u] = 0

IdentityInv ==
  /\ AccountShapes
  /\ RequestsFit
  /\ AccountsHaveRoom
  /\ BucketsAreOwned
  /\ SessionsAreLocked
  /\ SessionsAreRooted
  /\ Identity!OneLiveSession
  /\ TokensAreDated
  /\ Identity!VersionDeterminesRoles
  /\ GuessesAreCounted

-----------------------------------------------------------------------------
(* Requests and rows as the actions write them.                              *)

\* A request to Identity Service, field by field.
LoginRequest(op, phase, user, session, right, rows, actor, answer) ==
  [op |-> op, phase |-> phase, user |-> user, session |-> session, right |-> right,
   rows |-> rows, actor |-> actor, answer |-> answer]

\* A record with these fields is known by them.
LEMMA LoginOfFields ==
  ASSUME NEW x,
         x = [i \in {"op", "phase", "user", "session", "right", "rows", "actor", "answer"} |-> x[i]]
  PROVE  x = LoginRequest(x.op, x.phase, x.user, x.session, x.right, x.rows, x.actor, x.answer)
BY DEF LoginRequest

\* A login as it begins,
LEMMA LoginBegins ==
  ASSUME NEW user, NEW right, NEW phase
  PROVE  [Identity!NoCall EXCEPT !.op = "login", !.user = user, !.right = right, !.phase = phase]
           = LoginRequest("login", phase, user, 0, right, {}, None, "none")
<1>1. Identity!NoCall = [op |-> "none", phase |-> "idle", user |-> None, session |-> 0,
                         right |-> FALSE, rows |-> {}, actor |-> None, answer |-> "none"]
  BY DEF Identity!NoCall
<1>2. ASSUME NEW x,
             x = [Identity!NoCall EXCEPT !.op = "login", !.user = user, !.right = right, !.phase = phase]
      PROVE  x = LoginRequest("login", phase, user, 0, right, {}, None, "none")
  <2>1. /\ x.op = "login" /\ x.phase = phase /\ x.user = user /\ x.session = 0
        /\ x.right = right /\ x.rows = {} /\ x.actor = None /\ x.answer = "none"
        /\ x = [i \in {"op", "phase", "user", "session", "right", "rows", "actor", "answer"} |-> x[i]]
    BY <1>1, <1>2
  <2>2. x = LoginRequest(x.op, x.phase, x.user, x.session, x.right, x.rows, x.actor, x.answer)
    BY <2>1, LoginOfFields
  <2> QED BY <2>1, <2>2
<1> QED BY <1>2

\* a refresh or a logout,
LEMMA SessionRequestBegins ==
  ASSUME NEW op, NEW session, NEW rows
  PROVE  [Identity!NoCall EXCEPT !.op = op, !.session = session, !.phase = "held", !.rows = rows]
           = LoginRequest(op, "held", None, session, FALSE, rows, None, "none")
<1>1. Identity!NoCall = [op |-> "none", phase |-> "idle", user |-> None, session |-> 0,
                         right |-> FALSE, rows |-> {}, actor |-> None, answer |-> "none"]
  BY DEF Identity!NoCall
<1>2. ASSUME NEW x,
             x = [Identity!NoCall EXCEPT !.op = op, !.session = session, !.phase = "held", !.rows = rows]
      PROVE  x = LoginRequest(op, "held", None, session, FALSE, rows, None, "none")
  <2>1. /\ x.op = op /\ x.phase = "held" /\ x.user = None /\ x.session = session
        /\ x.right = FALSE /\ x.rows = rows /\ x.actor = None /\ x.answer = "none"
        /\ x = [i \in {"op", "phase", "user", "session", "right", "rows", "actor", "answer"} |-> x[i]]
    BY <1>1, <1>2
  <2>2. x = LoginRequest(x.op, x.phase, x.user, x.session, x.right, x.rows, x.actor, x.answer)
    BY <2>1, LoginOfFields
  <2> QED BY <2>1, <2>2
<1> QED BY <1>2

\* a change of a role,
LEMMA RoleChangeBegins ==
  ASSUME NEW user, NEW actor
  PROVE  [Identity!NoCall EXCEPT !.op = "change_role", !.user = user, !.actor = actor,
                                 !.phase = "authorized"]
           = LoginRequest("change_role", "authorized", user, 0, FALSE, {}, actor, "none")
<1>1. Identity!NoCall = [op |-> "none", phase |-> "idle", user |-> None, session |-> 0,
                         right |-> FALSE, rows |-> {}, actor |-> None, answer |-> "none"]
  BY DEF Identity!NoCall
<1>2. ASSUME NEW x,
             x = [Identity!NoCall EXCEPT !.op = "change_role", !.user = user, !.actor = actor,
                                         !.phase = "authorized"]
      PROVE  x = LoginRequest("change_role", "authorized", user, 0, FALSE, {}, actor, "none")
  <2>1. /\ x.op = "change_role" /\ x.phase = "authorized" /\ x.user = user /\ x.session = 0
        /\ x.right = FALSE /\ x.rows = {} /\ x.actor = actor /\ x.answer = "none"
        /\ x = [i \in {"op", "phase", "user", "session", "right", "rows", "actor", "answer"} |-> x[i]]
    BY <1>1, <1>2
  <2>2. x = LoginRequest(x.op, x.phase, x.user, x.session, x.right, x.rows, x.actor, x.answer)
    BY <2>1, LoginOfFields
  <2> QED BY <2>1, <2>2
<1> QED BY <1>2

\* and a request that is answered.
LEMMA AnsweredIs ==
  ASSUME NEW c, NEW answer
  PROVE  Identity!Answer(c, answer)
           = [logins EXCEPT ![c] =
                LoginRequest(logins[c].op, "idle", None, 0, FALSE, {}, None, answer)]
<1>1. Identity!NoCall = [op |-> "none", phase |-> "idle", user |-> None, session |-> 0,
                         right |-> FALSE, rows |-> {}, actor |-> None, answer |-> "none"]
  BY DEF Identity!NoCall
<1>2. ASSUME NEW op, NEW x, x = [Identity!NoCall EXCEPT !.op = op, !.answer = answer]
      PROVE  x = LoginRequest(op, "idle", None, 0, FALSE, {}, None, answer)
  <2>1. /\ x.op = op /\ x.phase = "idle" /\ x.user = None /\ x.session = 0
        /\ x.right = FALSE /\ x.rows = {} /\ x.actor = None /\ x.answer = answer
        /\ x = [i \in {"op", "phase", "user", "session", "right", "rows", "actor", "answer"} |-> x[i]]
    BY <1>1, <1>2
  <2>2. x = LoginRequest(x.op, x.phase, x.user, x.session, x.right, x.rows, x.actor, x.answer)
    BY <2>1, LoginOfFields
  <2> QED BY <2>1, <2>2
<1> QED BY <1>2 DEF Identity!Answer

LEMMA InitIsGuarded ==
  ASSUME Identity!IdentityAssumption, Identity!Init
  PROVE  IdentityInv
<1>1. AccountShapes
  <2>1. Identity!NoUser \in UserRow /\ Identity!NoBucket \in BucketRow
    BY DEF Identity!NoUser, Identity!NoBucket, UserRow, BucketRow
  <2>2. Identity!NoCall \in LoginCall
    BY DEF Identity!NoCall, LoginCall, LoginPhases, Answers, Revocations
  <2>3. sessions \in Seq(SessionRow) /\ tokens \subseteq AccessTokens
    BY DEF Identity!Init
  <2> QED BY <2>1, <2>2, <2>3 DEF AccountShapes, Identity!Init
<1>2. RequestsFit
  BY DEF RequestsFit, RequestIsAbout, Identity!Init, Identity!NoCall
<1>3. AccountsHaveRoom
  <2>1. Adding = {} /\ \A u \in Users : Raising(u) = {}
    BY DEF Identity!Init, Identity!NoCall, Adding, Raising
  <2>2. Cardinality({}) = 0
    BY FS_EmptySet
  <2>3. sessions = <<>> /\ \A u \in Users : users[u].version = 1
    BY DEF Identity!Init, Identity!NoUser
  <2>4. Len(sessions) = 0 /\ Cardinality(Adding) = 0
    BY <2>1, <2>2, <2>3
  <2>5. \A u \in Users : Cardinality(Raising(u)) = 0
    BY <2>1, <2>2
  <2>6. MaxSessions \in Nat \ {0} /\ MaxVersion \in Nat \ {0}
    BY DEF Identity!IdentityAssumption
  <2> QED BY <2>3, <2>4, <2>5, <2>6 DEF AccountsHaveRoom
<1>4. BucketsAreOwned
  BY DEF Identity!Init, Identity!NoBucket, BucketsAreOwned
<1>5. SessionsAreLocked
  BY DEF Identity!Init, Identity!NoCall, SessionsAreLocked, HoldsSession
<1>6. SessionsAreRooted /\ Identity!OneLiveSession /\ TokensAreDated /\ Identity!VersionDeterminesRoles
  BY DEF Identity!Init, SessionsAreRooted, Identity!OneLiveSession, TokensAreDated, Identity!VersionDeterminesRoles
<1>7. GuessesAreCounted
  BY DEF Identity!Init, GuessesAreCounted, Identity!IdentityAssumption, Identity!NoUser
<1> QED BY <1>1, <1>2, <1>3, <1>4, <1>5, <1>6, <1>7 DEF IdentityInv

-----------------------------------------------------------------------------
(* What a step of one request leaves of the invariant.                       *)

\* The requests stay well formed.
LEMMA RequestsKeep ==
  ASSUME IdentityInv, NEW c \in Clients, NEW x \in LoginCall, logins' = [logins EXCEPT ![c] = x],
         DOMAIN sessions \subseteq DOMAIN sessions', RequestIsAbout(x, sessions')
  PROVE  logins' \in [Clients -> LoginCall] /\ RequestsFit'
<1>1. logins \in [Clients -> LoginCall] /\ \A d \in Clients : RequestIsAbout(logins[d], sessions)
  BY DEF IdentityInv, AccountShapes, RequestsFit
<1>2. ASSUME NEW d \in Clients PROVE RequestIsAbout(logins'[d], sessions')
  <2>1. CASE d = c
    BY <1>1, <2>1
  <2>2. CASE d # c
    <3>1. logins'[d] = logins[d] /\ RequestIsAbout(logins[d], sessions)
      BY <1>1, <2>2
    <3> QED BY <3>1 DEF RequestIsAbout
  <2> QED BY <2>1, <2>2
<1> QED BY <1>1, <1>2 DEF RequestsFit

\* Buckets that are still locked belong to who locked them.
LEMMA BucketsKeep ==
  ASSUME IdentityInv, NEW c \in Clients, NEW x \in LoginCall, logins' = [logins EXCEPT ![c] = x],
         \A u \in Users :
           \/ buckets'[u].owner = None
           \/ buckets'[u].owner = buckets[u].owner /\ buckets[u].owner # c
           \/ buckets'[u].owner = c /\ x.phase = "checked" /\ x.user = u
  PROVE  BucketsAreOwned'
<1>1. logins \in [Clients -> LoginCall] /\ BucketsAreOwned /\ buckets \in [Users -> BucketRow]
  BY DEF IdentityInv, AccountShapes
<1>2. \A u \in Users : buckets[u].owner \in Clients \cup {None}
  BY <1>1 DEF BucketRow
<1> QED BY <1>1, <1>2 DEF BucketsAreOwned

\* A request that holds no bucket keeps the buckets as they are.
LEMMA BucketsStay ==
  ASSUME IdentityInv, NEW c \in Clients, NEW x \in LoginCall, logins' = [logins EXCEPT ![c] = x],
         logins[c].phase # "checked", buckets' = buckets
  PROVE  BucketsAreOwned'
<1>1. \A u \in Users : buckets[u].owner = None \/ buckets[u].owner # c
  BY DEF IdentityInv, BucketsAreOwned
<1> QED BY <1>1, BucketsKeep

\* Sessions stay locked by one request, and as they were read.
LEMMA LocksKeep ==
  ASSUME IdentityInv, NEW c \in Clients, NEW x \in LoginCall, logins' = [logins EXCEPT ![c] = x],
         HoldsSession(x) =>
           \A d \in Clients \ {c} : HoldsSession(logins[d]) => logins[d].session # x.session,
         x.phase = "held" /\ x.session \in x.rows => sessions'[x.session].revoked = "no",
         \A d \in Clients \ {c} :
           logins[d].phase = "held" /\ logins[d].session \in logins[d].rows =>
             sessions'[logins[d].session].revoked = "no"
  PROVE  SessionsAreLocked'
<1>1. logins \in [Clients -> LoginCall] /\ SessionsAreLocked
  BY DEF IdentityInv, AccountShapes
<1>2. logins'[c] = x /\ \A d \in Clients \ {c} : logins'[d] = logins[d]
  BY <1>1
<1>3. ASSUME NEW d \in Clients, NEW e \in Clients,
             d # e, HoldsSession(logins'[d]), HoldsSession(logins'[e])
      PROVE  logins'[d].session # logins'[e].session
  BY <1>1, <1>2, <1>3 DEF SessionsAreLocked
<1>4. ASSUME NEW d \in Clients,
             logins'[d].phase = "held", logins'[d].session \in logins'[d].rows
      PROVE  sessions'[logins'[d].session].revoked = "no"
  BY <1>1, <1>2, <1>4
<1>5. \A d \in Clients : HoldsSession(logins[d])' <=> HoldsSession(logins'[d])
  BY DEF HoldsSession
<1> QED BY <1>3, <1>4, <1>5 DEF SessionsAreLocked, HoldsSession

\* A request that ends or holds no session leaves the others' locks alone.
LEMMA LocksStay ==
  ASSUME IdentityInv, NEW c \in Clients, NEW x \in LoginCall, logins' = [logins EXCEPT ![c] = x],
         ~HoldsSession(x), sessions' = sessions
  PROVE  SessionsAreLocked'
<1>1. \A d \in Clients : logins[d].phase = "held" /\ logins[d].session \in logins[d].rows =>
                           sessions'[logins[d].session].revoked = "no"
  BY DEF IdentityInv, SessionsAreLocked
<1> QED BY <1>1, LocksKeep DEF HoldsSession

-----------------------------------------------------------------------------
(* The bounds on sessions and versions.                                      *)

Adds(x) == x.op \in {"login", "refresh"} /\ x.phase # "idle"
Raises(x, u) == x.phase = "authorized" /\ x.user = u

\* The cardinality of a set that gains or loses one element.
LEMMA OneDiffers ==
  ASSUME NEW S, NEW T, NEW c, IsFiniteSet(S), T \ {c} = S \ {c}
  PROVE  /\ Cardinality(S) \in Nat /\ Cardinality(T) \in Nat
         /\ c \in S /\ c \in T => Cardinality(T) = Cardinality(S)
         /\ c \notin S /\ c \notin T => Cardinality(T) = Cardinality(S)
         /\ c \in S /\ c \notin T => Cardinality(T) = Cardinality(S) - 1
         /\ c \notin S /\ c \in T => Cardinality(T) = Cardinality(S) + 1
<1>1. Cardinality(S) \in Nat
  BY FS_CardinalityType
<1>2. CASE c \in S <=> c \in T
  <2>1. T = S
    BY <1>2
  <2> QED BY <1>1, <1>2, <2>1
<1>3. CASE c \in S /\ c \notin T
  <2>1. T = S \ {c}
    BY <1>3
  <2> QED BY <1>1, <1>3, <2>1, FS_RemoveElement, FS_CardinalityType
<1>4. CASE c \notin S /\ c \in T
  <2>1. T = S \cup {c}
    BY <1>4
  <2> QED BY <1>1, <1>4, <2>1, FS_AddElement, FS_CardinalityType
<1> QED BY <1>2, <1>3, <1>4

\* How many requests may still add a session or raise a version of an account, when
\* one of them moves on.
LEMMA RoomMoves ==
  ASSUME Identity!IdentityAssumption, logins \in [Clients -> LoginCall],
         NEW c \in Clients, NEW x \in LoginCall, logins' = [logins EXCEPT ![c] = x]
  PROVE  /\ Cardinality(Adding) \in Nat /\ Cardinality(Adding') \in Nat
         /\ (Adds(x) <=> Adds(logins[c])) => Cardinality(Adding') = Cardinality(Adding)
         /\ Adds(x) /\ ~Adds(logins[c]) => Cardinality(Adding') = Cardinality(Adding) + 1
         /\ ~Adds(x) /\ Adds(logins[c]) => Cardinality(Adding') = Cardinality(Adding) - 1
         /\ \A u \in Users :
              /\ Cardinality(Raising(u)) \in Nat /\ Cardinality(Raising(u)') \in Nat
              /\ (Raises(x, u) <=> Raises(logins[c], u)) =>
                   Cardinality(Raising(u)') = Cardinality(Raising(u))
              /\ Raises(x, u) /\ ~Raises(logins[c], u) =>
                   Cardinality(Raising(u)') = Cardinality(Raising(u)) + 1
              /\ ~Raises(x, u) /\ Raises(logins[c], u) =>
                   Cardinality(Raising(u)') = Cardinality(Raising(u)) - 1
<1>1. IsFiniteSet(Clients)
  BY DEF Identity!IdentityAssumption, Identity!IsFiniteSet, IsFiniteSet
<1>2. logins'[c] = x /\ \A d \in Clients \ {c} : logins'[d] = logins[d]
  OBVIOUS
<1>3. /\ Adding' \ {c} = Adding \ {c}
      /\ c \in Adding <=> Adds(logins[c])
      /\ c \in Adding' <=> Adds(x)
  BY <1>2 DEF Adding, Adds
<1>4. IsFiniteSet(Adding)
  BY <1>1, FS_Subset DEF Adding
<1>5. ASSUME NEW u \in Users
      PROVE  /\ Cardinality(Raising(u)) \in Nat /\ Cardinality(Raising(u)') \in Nat
             /\ (Raises(x, u) <=> Raises(logins[c], u)) =>
                   Cardinality(Raising(u)') = Cardinality(Raising(u))
             /\ Raises(x, u) /\ ~Raises(logins[c], u) =>
                   Cardinality(Raising(u)') = Cardinality(Raising(u)) + 1
             /\ ~Raises(x, u) /\ Raises(logins[c], u) =>
                   Cardinality(Raising(u)') = Cardinality(Raising(u)) - 1
  <2>1. /\ Raising(u)' \ {c} = Raising(u) \ {c}
        /\ c \in Raising(u) <=> Raises(logins[c], u)
        /\ c \in Raising(u)' <=> Raises(x, u)
    BY <1>2 DEF Raising, Raises
  <2>2. IsFiniteSet(Raising(u))
    BY <1>1, FS_Subset DEF Raising
  <2> QED BY <2>1, <2>2, OneDiffers
<1> QED BY <1>3, <1>4, <1>5, OneDiffers

\* The rooms the requests check when they begin.
LEMMA RoomChecked ==
  ASSUME Identity!IdentityAssumption, IdentityInv
  PROVE  /\ Identity!NextSession = Len(sessions) + 1
         /\ Identity!HasSessionRoom => Len(sessions) + Cardinality(Adding) < MaxSessions
         /\ \A u \in Users : Identity!HasVersionRoom(u) =>
              users[u].version + Cardinality(Raising(u)) < MaxVersion
<1>1. IsFiniteSet(Clients)
  BY DEF Identity!IdentityAssumption, Identity!IsFiniteSet, IsFiniteSet
<1>2. \A S : Identity!Cardinality(S) = Cardinality(S)
  BY DEF Identity!Cardinality, Cardinality
<1>3. Cardinality(DOMAIN sessions) = Len(sessions) /\ Len(sessions) \in Nat
  <2>1. sessions \in Seq(SessionRow)
    BY DEF IdentityInv, AccountShapes
  <2>2. DOMAIN sessions = 1 .. Len(sessions) /\ Len(sessions) \in Nat
    BY <2>1, LenProperties
  <2>3. ASSUME NEW n \in Nat PROVE Cardinality(1 .. n) = n
    BY FS_Interval
  <2> QED BY <2>2, <2>3
<1>4. Identity!HasSessionRoom => Len(sessions) + Cardinality(Adding) < MaxSessions
  <2> DEFINE S == Identity!UnderWay("login")
             T == Identity!UnderWay("refresh")
  <2>1. IsFiniteSet(S) /\ IsFiniteSet(T)
    BY <1>1, FS_Subset DEF Identity!UnderWay
  <2>2. S \cap T = {} /\ S \cup T = Adding
    BY DEF Identity!UnderWay, Adding
  <2>3. Cardinality(Adding) = Cardinality(S) + Cardinality(T)
        /\ Cardinality(S) \in Nat /\ Cardinality(T) \in Nat
    <3>1. Cardinality(S \cup T) = Cardinality(S) + Cardinality(T) - Cardinality(S \cap T)
      BY <2>1, FS_Union
    <3>2. Cardinality({}) = 0 /\ Cardinality(S) \in Nat /\ Cardinality(T) \in Nat
      BY <2>1, FS_EmptySet, FS_CardinalityType
    <3> HIDE DEF S, T
    <3>3. Cardinality(Adding) = Cardinality(S) + Cardinality(T) - 0
      BY <2>2, <3>1, <3>2
    <3> QED BY <3>2, <3>3
  <2>4. Identity!HasSessionRoom => Len(sessions) + Cardinality(S) + Cardinality(T) < MaxSessions
    BY <1>2, <1>3 DEF Identity!HasSessionRoom
  <2> HIDE DEF S, T
  <2> QED BY <1>3, <2>3, <2>4
<1>5. ASSUME NEW u \in Users, Identity!HasVersionRoom(u)
      PROVE  users[u].version + Cardinality(Raising(u)) < MaxVersion
  <2> DEFINE S == Identity!UnderWay("change_role")
  <2>1. IsFiniteSet(S) /\ Raising(u) \subseteq S
    <3>1. Raising(u) \subseteq S
      BY DEF Identity!UnderWay, Raising, IdentityInv, RequestsFit, RequestIsAbout
    <3> QED BY <1>1, <3>1, FS_Subset DEF Identity!UnderWay
  <2>2. Cardinality(Raising(u)) <= Cardinality(S) /\ Cardinality(S) \in Nat
        /\ Cardinality(Raising(u)) \in Nat
    BY <2>1, FS_Subset, FS_CardinalityType
  <2>3. users[u].version + Cardinality(S) < MaxVersion
    BY <1>2, <1>5 DEF Identity!HasVersionRoom
  <2>4. users[u].version \in Nat /\ MaxVersion \in Nat
    BY DEF IdentityInv, AccountShapes, UserRow, Identity!IdentityAssumption
  <2> HIDE DEF S
  <2> QED BY <2>2, <2>3, <2>4
<1> QED BY <1>2, <1>3, <1>4, <1>5 DEF Identity!NextSession

-----------------------------------------------------------------------------
(* What a step leaves of the invariant of accounts, tokens and guesses.      *)

\* An account changes its roles with its version, and a token that is issued has
\* both as they are.
LEMMA TokensKeep ==
  ASSUME IdentityInv, NEW u \in Users, NEW row \in UserRow, users' = [users EXCEPT ![u] = row],
         users[u].exists => row.exists,
         \/ row.version = users[u].version /\ row.roles = users[u].roles
         \/ row.version > users[u].version
         \/ ~users[u].exists,
         \A t \in tokens' \ tokens :
           /\ t = [user |-> u, version |-> row.version, roles |-> row.roles]
           /\ row.exists
  PROVE  /\ users' \in [Users -> UserRow] /\ tokens' \subseteq AccessTokens
         /\ TokensAreDated' /\ Identity!VersionDeterminesRoles'
<1>1. users \in [Users -> UserRow] /\ tokens \subseteq AccessTokens
  BY DEF IdentityInv, AccountShapes
<1>2. users' \in [Users -> UserRow]
  BY <1>1
<1>3. ASSUME NEW t \in tokens'
      PROVE  /\ t \in AccessTokens
             /\ users'[t.user].exists /\ t.version <= users'[t.user].version
             /\ t.version = users'[t.user].version => t.roles = users'[t.user].roles
  <2>1. CASE t \notin tokens
    <3>1. t = [user |-> u, version |-> row.version, roles |-> row.roles] /\ row.exists
      BY <2>1
    <3>2. users'[u] = row
      BY <1>1
    <3>3. t.user = u /\ t.version = row.version /\ t.roles = row.roles
      BY <3>1
    <3>4. row.version \in Nat /\ row.roles \in SUBSET Identity!Roles
      BY DEF UserRow
    <3>5. t \in AccessTokens
      BY <3>1, <3>4 DEF AccessTokens
    <3> QED BY <3>1, <3>2, <3>3, <3>4, <3>5
  <2>2. CASE t \in tokens
    <3>1. /\ t \in AccessTokens /\ t.user \in Users /\ t.version \in Nat
          /\ users[t.user].exists /\ t.version <= users[t.user].version
          /\ t.version = users[t.user].version => t.roles = users[t.user].roles
      BY <1>1, <2>2 DEF AccessTokens, IdentityInv, TokensAreDated, Identity!VersionDeterminesRoles
    <3>2. CASE t.user # u
      BY <1>1, <3>1, <3>2
    <3>3. CASE t.user = u
      <4>1. users'[t.user] = row /\ users[u].version \in Nat /\ row.version \in Nat
        BY <1>1, <3>3 DEF UserRow
      <4> QED BY <3>1, <3>3, <4>1
    <3> QED BY <3>2, <3>3
  <2> QED BY <2>1, <2>2
<1>4. tokens' \subseteq AccessTokens
  BY <1>3
<1> QED BY <1>2, <1>3, <1>4 DEF TokensAreDated, Identity!VersionDeterminesRoles

\* The guesses of one account are counted anew.
LEMMA GuessesKeep ==
  ASSUME IdentityInv, NEW u \in Users, NEW row \in UserRow, users' = [users EXCEPT ![u] = row],
         NEW g \in Nat, guesses' = [guesses EXCEPT ![u] = g],
         g <= LockoutThreshold,
         row.locked = "no" => g <= row.failed /\ row.failed < LockoutThreshold,
         ~row.exists => g = 0
  PROVE  guesses' \in [Users -> Nat] /\ GuessesAreCounted'
<1>1. users \in [Users -> UserRow] /\ guesses \in [Users -> Nat] /\ GuessesAreCounted
  BY DEF IdentityInv, AccountShapes
<1>2. ASSUME NEW v \in Users
      PROVE  /\ guesses'[v] <= LockoutThreshold
             /\ users'[v].locked = "no" =>
                  guesses'[v] <= users'[v].failed /\ users'[v].failed < LockoutThreshold
             /\ ~users'[v].exists => guesses'[v] = 0
  <2>1. CASE v = u
    BY <1>1, <2>1
  <2>2. CASE v # u
    BY <1>1, <2>2 DEF GuessesAreCounted
  <2> QED BY <2>1, <2>2
<1> QED BY <1>1, <1>2 DEF GuessesAreCounted

\* Accounts stay where their sessions are rooted.
LEMMA RootsStay ==
  ASSUME IdentityInv, NEW u \in Users, NEW row \in UserRow, users' = [users EXCEPT ![u] = row],
         users[u].exists => row.exists, sessions' = sessions
  PROVE  SessionsAreRooted' /\ Identity!OneLiveSession'
<1>1. users \in [Users -> UserRow] /\ sessions \in Seq(SessionRow) /\ SessionsAreRooted
      /\ Identity!OneLiveSession
  BY DEF IdentityInv, AccountShapes
<1>2. \A i \in DOMAIN sessions : sessions[i].user \in Users
  <2>1. \A i \in DOMAIN sessions : sessions[i] \in SessionRow
    BY <1>1
  <2> QED BY <2>1 DEF SessionRow
<1>3. \A v \in Users : users[v].exists => users'[v].exists
  BY <1>1
<1>4. SessionsAreRooted'
  BY <1>1, <1>2, <1>3 DEF SessionsAreRooted
<1>5. Identity!OneLiveSession'
  BY <1>1 DEF Identity!OneLiveSession, Identity!IsActive
<1> QED BY <1>4, <1>5

-----------------------------------------------------------------------------
(* The steps that change one account.                                        *)

\* An account that changes: its requests, sessions and buckets are as they were.
LEMMA AccountStepKeeps ==
  ASSUME Identity!IdentityAssumption, IdentityInv,
         NEW u \in Users, NEW row \in UserRow, users' = [users EXCEPT ![u] = row],
         users[u].exists => row.exists,
         \/ row.version = users[u].version /\ row.roles = users[u].roles
         \/ row.version > users[u].version
         \/ ~users[u].exists,
         row.version >= 1 /\ row.version + Cardinality(Raising(u)) <= MaxVersion,
         row.locked = "no" => guesses[u] <= row.failed /\ row.failed < LockoutThreshold,
         ~row.exists => guesses[u] = 0,
         buckets' = buckets, sessions' = sessions, tokens' = tokens, logins' = logins,
         guesses' = guesses
  PROVE  IdentityInv'
<1>1. /\ users' \in [Users -> UserRow] /\ tokens' \subseteq AccessTokens
      /\ TokensAreDated' /\ Identity!VersionDeterminesRoles'
  BY TokensKeep
<1>2. SessionsAreRooted' /\ Identity!OneLiveSession'
  BY RootsStay
<1>3. guesses' \in [Users -> Nat] /\ GuessesAreCounted'
  <2>1. guesses \in [Users -> Nat] /\ guesses[u] <= LockoutThreshold
    BY DEF IdentityInv, AccountShapes, GuessesAreCounted
  <2>2. guesses' = [guesses EXCEPT ![u] = guesses[u]]
    BY <2>1
  <2> QED BY <2>1, <2>2, GuessesKeep
<1>4. AccountShapes'
  BY <1>1, <1>3 DEF IdentityInv, AccountShapes
<1>5. RequestsFit' /\ SessionsAreLocked' /\ BucketsAreOwned'
  BY DEF IdentityInv, RequestsFit, SessionsAreLocked, BucketsAreOwned, RequestIsAbout, HoldsSession
<1>6. AccountsHaveRoom'
  <2>1. Adding' = Adding /\ \A v \in Users : Raising(v)' = Raising(v)
    BY DEF Adding, Raising
  <2>2. users \in [Users -> UserRow]
    BY DEF IdentityInv, AccountShapes
  <2>3. ASSUME NEW v \in Users
        PROVE  users'[v].version >= 1 /\ users'[v].version + Cardinality(Raising(v)') <= MaxVersion
    <3>1. CASE v = u
      BY <2>1, <2>2, <3>1
    <3>2. CASE v # u
      BY <2>1, <2>2, <3>2 DEF IdentityInv, AccountsHaveRoom
    <3> QED BY <3>1, <3>2
  <2>4. Len(sessions') + Cardinality(Adding') <= MaxSessions
    BY <2>1 DEF IdentityInv, AccountsHaveRoom
  <2> QED BY <2>3, <2>4 DEF AccountsHaveRoom
<1> QED BY <1>1, <1>2, <1>3, <1>4, <1>5, <1>6 DEF IdentityInv

\* What is known of one account.
LEMMA AccountIs ==
  ASSUME Identity!IdentityAssumption, IdentityInv, NEW u \in Users
  PROVE  /\ users[u] \in UserRow
         /\ users[u].exists \in BOOLEAN /\ users[u].roles \subseteq Identity!Roles
         /\ users[u].version \in Nat /\ users[u].failed \in Nat
         /\ users[u].locked \in {"no", "yes", "past"} /\ users[u].status \in {"ACTIVE", "DISABLED"}
         /\ users[u].version >= 1 /\ users[u].version + Cardinality(Raising(u)) <= MaxVersion
         /\ guesses[u] \in Nat /\ guesses[u] <= LockoutThreshold
         /\ users[u].locked = "no" => guesses[u] <= users[u].failed /\ users[u].failed < LockoutThreshold
         /\ ~users[u].exists => guesses[u] = 0
         /\ Cardinality(Raising(u)) \in Nat
<1>1. users[u] \in UserRow /\ guesses[u] \in Nat
  BY DEF IdentityInv, AccountShapes
<1>2. Cardinality(Raising(u)) \in Nat
  <2>1. IsFiniteSet(Clients)
    BY DEF Identity!IdentityAssumption, Identity!IsFiniteSet, IsFiniteSet
  <2> QED BY <2>1, FS_Subset, FS_CardinalityType DEF Raising
<1> QED BY <1>1, <1>2 DEF UserRow, IdentityInv, AccountsHaveRoom, GuessesAreCounted

\* An account by its fields.
Account(exists, roles, version, failed, locked, status) ==
  [exists |-> exists, roles |-> roles, version |-> version, failed |-> failed,
   locked |-> locked, status |-> status]

LEMMA AccountOfFields ==
  ASSUME NEW x,
         x = [i \in {"exists", "roles", "version", "failed", "locked", "status"} |-> x[i]]
  PROVE  x = Account(x.exists, x.roles, x.version, x.failed, x.locked, x.status)
BY DEF Account

\* A registration.
LEMMA RegisterKeeps ==
  ASSUME Identity!IdentityAssumption, IdentityInv, NEW u \in Users, Identity!Register(u)
  PROVE  IdentityInv'
<1> DEFINE row == Account(TRUE, {"CUSTOMER"}, 1, 0, "no", "ACTIVE")
<1>1. [Identity!NoUser EXCEPT !.exists = TRUE, !.roles = {"CUSTOMER"}] = row
  <2>1. Identity!NoUser = [exists |-> FALSE, roles |-> {}, version |-> 1, failed |-> 0,
                           locked |-> "no", status |-> "ACTIVE"]
    BY DEF Identity!NoUser
  <2>2. ASSUME NEW x, x = [Identity!NoUser EXCEPT !.exists = TRUE, !.roles = {"CUSTOMER"}]
        PROVE  x = Account(TRUE, {"CUSTOMER"}, 1, 0, "no", "ACTIVE")
    <3>1. /\ x.exists = TRUE /\ x.roles = {"CUSTOMER"} /\ x.version = 1 /\ x.failed = 0
          /\ x.locked = "no" /\ x.status = "ACTIVE"
          /\ x = [i \in {"exists", "roles", "version", "failed", "locked", "status"} |-> x[i]]
      BY <2>1, <2>2
    <3>2. x = Account(x.exists, x.roles, x.version, x.failed, x.locked, x.status)
      BY <3>1, AccountOfFields
    <3> QED BY <3>1, <3>2
  <2> QED BY <2>2
<1>2. row \in UserRow /\ row.exists = TRUE /\ row.version = 1 /\ row.failed = 0
  BY DEF UserRow, Account, Identity!Roles
<1>3. users' = [users EXCEPT ![u] = row] /\ ~users[u].exists
      /\ buckets' = buckets /\ sessions' = sessions /\ tokens' = tokens
      /\ logins' = logins /\ guesses' = guesses
  BY <1>1 DEF Identity!Register
<1>4. /\ users[u].version \in Nat /\ users[u].version >= 1 /\ Cardinality(Raising(u)) \in Nat
      /\ users[u].version + Cardinality(Raising(u)) <= MaxVersion /\ guesses[u] = 0
  BY <1>3, AccountIs
<1>5. LockoutThreshold \in Nat \ {0} /\ MaxVersion \in Nat
  BY DEF Identity!IdentityAssumption
<1> HIDE DEF row
<1>6. row.version >= 1 /\ row.version + Cardinality(Raising(u)) <= MaxVersion
  BY <1>2, <1>4, <1>5
<1>7. row.locked = "no" => guesses[u] <= row.failed /\ row.failed < LockoutThreshold
  BY <1>2, <1>4, <1>5
<1> QED BY <1>2, <1>3, <1>6, <1>7, AccountStepKeeps

\* The administrator's bootstrap.
LEMMA BootstrapAdminKeeps ==
  ASSUME Identity!IdentityAssumption, IdentityInv, NEW u \in Users, Identity!BootstrapAdmin(u)
  PROVE  IdentityInv'
<1> DEFINE roles == users[u].roles \cup {"ADMIN"}
           version == users[u].version + 1
<1>1. /\ users' = [users EXCEPT ![u].roles = roles, ![u].version = version]
      /\ Identity!HasVersionRoom(u) /\ users[u].exists
      /\ buckets' = buckets /\ sessions' = sessions /\ tokens' = tokens
      /\ logins' = logins /\ guesses' = guesses
  BY DEF Identity!BootstrapAdmin
<1>2. users \in [Users -> UserRow]
  BY DEF IdentityInv, AccountShapes
<1>3. roles \in SUBSET Identity!Roles /\ version \in Nat
  BY AccountIs DEF Identity!Roles
<1>4. /\ users' = [users EXCEPT ![u] = users'[u]] /\ users'[u] \in UserRow
      /\ users'[u].version = version /\ users'[u].exists = users[u].exists
      /\ users'[u].locked = users[u].locked /\ users'[u].failed = users[u].failed
  <2> HIDE DEF roles, version
  <2> QED BY <1>1, <1>2, <1>3 DEF UserRow
<1>5. users[u].version + Cardinality(Raising(u)) < MaxVersion
  BY <1>1, RoomChecked
<1>6. /\ users'[u].version > users[u].version /\ users'[u].version >= 1
      /\ users'[u].version + Cardinality(Raising(u)) <= MaxVersion
  BY <1>4, <1>5, AccountIs DEF Identity!IdentityAssumption
<1>7. /\ users[u].exists => users'[u].exists
      /\ users'[u].locked = "no" => guesses[u] <= users'[u].failed /\ users'[u].failed < LockoutThreshold
      /\ ~users'[u].exists => guesses[u] = 0
  BY <1>4, AccountIs
<1> QED BY <1>1, <1>4, <1>6, <1>7, AccountStepKeeps

\* The end of a lockout, and the operator who disables an account.
LEMMA OperatorKeeps ==
  ASSUME Identity!IdentityAssumption, IdentityInv, NEW u \in Users,
         Identity!LockoutPasses(u) \/ Identity!DisableAccount(u)
  PROVE  IdentityInv'
<1>1. users \in [Users -> UserRow]
  BY DEF IdentityInv, AccountShapes
<1>2. /\ buckets' = buckets /\ sessions' = sessions /\ tokens' = tokens
      /\ logins' = logins /\ guesses' = guesses
  BY DEF Identity!LockoutPasses, Identity!DisableAccount
<1>3. /\ users' = [users EXCEPT ![u] = users'[u]] /\ users'[u] \in UserRow
      /\ users'[u].version = users[u].version /\ users'[u].roles = users[u].roles
      /\ users'[u].exists = users[u].exists /\ users'[u].failed = users[u].failed
      /\ users'[u].locked = "no" => users[u].locked = "no"
  <2>1. CASE Identity!LockoutPasses(u)
    BY <1>1, <2>1 DEF Identity!LockoutPasses, UserRow
  <2>2. CASE Identity!DisableAccount(u)
    BY <1>1, <2>2 DEF Identity!DisableAccount, UserRow
  <2> QED BY <2>1, <2>2
<1>4. /\ users[u].exists => users'[u].exists
      /\ users'[u].version >= 1 /\ users'[u].version + Cardinality(Raising(u)) <= MaxVersion
      /\ users'[u].locked = "no" => guesses[u] <= users'[u].failed /\ users'[u].failed < LockoutThreshold
      /\ ~users'[u].exists => guesses[u] = 0
  BY <1>3, AccountIs
<1> QED BY <1>2, <1>3, <1>4, AccountStepKeeps

\* The window of a rate limit passes.
LEMMA WindowPassesKeeps ==
  ASSUME IdentityInv, NEW u \in Users, Identity!WindowPasses(u)
  PROVE  IdentityInv'
<1>1. buckets \in [Users -> BucketRow]
  BY DEF IdentityInv, AccountShapes
<1>2. buckets' = [buckets EXCEPT ![u].elapsed = TRUE]
      /\ UNCHANGED <<users, sessions, tokens, logins, guesses>>
  BY DEF Identity!WindowPasses
<1>3. buckets' \in [Users -> BucketRow] /\ \A v \in Users : buckets'[v].owner = buckets[v].owner
  BY <1>1, <1>2 DEF BucketRow
<1>4. AccountShapes' /\ BucketsAreOwned'
  BY <1>2, <1>3 DEF IdentityInv, AccountShapes, BucketsAreOwned
<1>5. RequestsFit' /\ SessionsAreLocked' /\ AccountsHaveRoom'
  BY <1>2 DEF IdentityInv, RequestsFit, RequestIsAbout, SessionsAreLocked, HoldsSession,
              AccountsHaveRoom, Adding, Raising
<1>6. SessionsAreRooted' /\ Identity!OneLiveSession' /\ TokensAreDated'
      /\ Identity!VersionDeterminesRoles' /\ GuessesAreCounted'
  BY <1>2 DEF IdentityInv, SessionsAreRooted, Identity!OneLiveSession, Identity!IsActive,
              TokensAreDated, Identity!VersionDeterminesRoles, GuessesAreCounted
<1> QED BY <1>4, <1>5, <1>6 DEF IdentityInv

-----------------------------------------------------------------------------
(* The steps that change a request, and sessions.                            *)

\* The sessions are rows, numbered from 1.
LEMMA SessionsAre ==
  ASSUME IdentityInv
  PROVE  /\ sessions \in Seq(SessionRow) /\ Len(sessions) \in Nat
         /\ DOMAIN sessions = 1 .. Len(sessions)
         /\ \A i \in DOMAIN sessions :
              /\ sessions[i] \in SessionRow
              /\ sessions[i].user \in Users /\ sessions[i].family \in Nat
              /\ sessions[i].revoked \in Revocations \cup {"no"}
<1>1. sessions \in Seq(SessionRow)
  BY DEF IdentityInv, AccountShapes
<1>2. \A i \in DOMAIN sessions : sessions[i] \in SessionRow
  BY <1>1
<1> QED BY <1>1, <1>2, LenProperties DEF SessionRow

\* A request that moves on, while the accounts and tokens stay.
LEMMA RequestStepKeeps ==
  ASSUME Identity!IdentityAssumption, IdentityInv,
         NEW c \in Clients, NEW x \in LoginCall, logins' = [logins EXCEPT ![c] = x],
         sessions' = sessions, RequestIsAbout(x, sessions),
         Adds(x) /\ ~Adds(logins[c]) => Len(sessions) + Cardinality(Adding) < MaxSessions,
         \A u \in Users : Raises(x, u) /\ ~Raises(logins[c], u) =>
           users[u].version + Cardinality(Raising(u)) < MaxVersion,
         buckets' \in [Users -> BucketRow], BucketsAreOwned', SessionsAreLocked',
         users' = users, tokens' = tokens, guesses' = guesses
  PROVE  IdentityInv'
<1>1. logins \in [Clients -> LoginCall]
  BY DEF IdentityInv, AccountShapes
<1>2. logins' \in [Clients -> LoginCall] /\ RequestsFit'
  BY RequestsKeep
<1>3. AccountShapes'
  BY <1>2 DEF IdentityInv, AccountShapes
<1>4. SessionsAreRooted' /\ Identity!OneLiveSession' /\ TokensAreDated'
      /\ Identity!VersionDeterminesRoles' /\ GuessesAreCounted'
  BY DEF IdentityInv, SessionsAreRooted, Identity!OneLiveSession, Identity!IsActive,
         TokensAreDated, Identity!VersionDeterminesRoles, GuessesAreCounted
<1>5. AccountsHaveRoom'
  <2>1. /\ Len(sessions) \in Nat /\ MaxSessions \in Nat /\ MaxVersion \in Nat
        /\ Len(sessions) + Cardinality(Adding) <= MaxSessions
        /\ \A u \in Users : /\ users[u].version \in Nat /\ users[u].version >= 1
                            /\ users[u].version + Cardinality(Raising(u)) <= MaxVersion
    BY SessionsAre, AccountIs DEF IdentityInv, AccountsHaveRoom, Identity!IdentityAssumption
  <2>2. Len(sessions) + Cardinality(Adding') <= MaxSessions
    <3>1. /\ Cardinality(Adding) \in Nat /\ Cardinality(Adding') \in Nat
          /\ (Adds(x) <=> Adds(logins[c])) => Cardinality(Adding') = Cardinality(Adding)
          /\ Adds(x) /\ ~Adds(logins[c]) => Cardinality(Adding') = Cardinality(Adding) + 1
          /\ ~Adds(x) /\ Adds(logins[c]) => Cardinality(Adding') = Cardinality(Adding) - 1
      BY <1>1, RoomMoves
    <3> QED BY <2>1, <3>1
  <2>3. ASSUME NEW u \in Users
        PROVE  users[u].version + Cardinality(Raising(u)') <= MaxVersion
    <3>1. /\ Cardinality(Raising(u)) \in Nat /\ Cardinality(Raising(u)') \in Nat
          /\ (Raises(x, u) <=> Raises(logins[c], u)) =>
               Cardinality(Raising(u)') = Cardinality(Raising(u))
          /\ Raises(x, u) /\ ~Raises(logins[c], u) =>
               Cardinality(Raising(u)') = Cardinality(Raising(u)) + 1
          /\ ~Raises(x, u) /\ Raises(logins[c], u) =>
               Cardinality(Raising(u)') = Cardinality(Raising(u)) - 1
      BY <1>1, RoomMoves
    <3> QED BY <2>1, <3>1
  <2> QED BY <2>1, <2>2, <2>3 DEF AccountsHaveRoom
<1> QED BY <1>2, <1>3, <1>4, <1>5 DEF IdentityInv

\* What is known of one request.
LEMMA RequestIs ==
  ASSUME IdentityInv, NEW c \in Clients
  PROVE  /\ logins[c] \in LoginCall
         /\ logins[c].op \in {"none", "login", "refresh", "logout", "change_role"}
         /\ logins[c].phase \in LoginPhases
         /\ logins[c].rows \in SUBSET Nat /\ logins[c].answer \in Answers
         /\ RequestIsAbout(logins[c], sessions)
<1>1. logins[c] \in LoginCall
  BY DEF IdentityInv, AccountShapes
<1> QED BY <1>1 DEF LoginCall, IdentityInv, RequestsFit

\* A request that is answered, and changes nothing else but the bucket it held.
LEMMA AnsweredKeeps ==
  ASSUME IdentityInv, NEW c \in Clients, NEW answer \in Answers, logins' = Identity!Answer(c, answer)
  PROVE  \E x \in LoginCall :
           /\ logins' = [logins EXCEPT ![c] = x]
           /\ x.phase = "idle" /\ x.op = logins[c].op
           /\ RequestIsAbout(x, sessions) /\ RequestIsAbout(x, sessions') /\ ~HoldsSession(x) /\ ~Adds(x)
           /\ \A u \in Users : ~Raises(x, u)
<1> DEFINE x == LoginRequest(logins[c].op, "idle", None, 0, FALSE, {}, None, answer)
<1>1. logins' = [logins EXCEPT ![c] = x]
  BY AnsweredIs
<1>2. x \in LoginCall /\ x.phase = "idle" /\ x.op = logins[c].op
  BY RequestIs DEF LoginCall, LoginRequest, LoginPhases
<1> HIDE DEF x
<1>3. /\ RequestIsAbout(x, sessions) /\ RequestIsAbout(x, sessions') /\ ~HoldsSession(x) /\ ~Adds(x)
      /\ \A u \in Users : ~Raises(x, u)
  BY <1>2 DEF RequestIsAbout, HoldsSession, Adds, Raises
<1> QED BY <1>1, <1>2, <1>3

\* A request that is refused or answered without more.
LEMMA AnswerStepKeeps ==
  ASSUME Identity!IdentityAssumption, IdentityInv,
         NEW c \in Clients, NEW answer \in Answers, logins' = Identity!Answer(c, answer),
         logins[c].phase # "checked",
         users' = users, buckets' = buckets, sessions' = sessions, tokens' = tokens,
         guesses' = guesses
  PROVE  IdentityInv'
<1>1. PICK x \in LoginCall :
        /\ logins' = [logins EXCEPT ![c] = x]
        /\ RequestIsAbout(x, sessions) /\ ~HoldsSession(x) /\ ~Adds(x)
        /\ \A u \in Users : ~Raises(x, u)
  BY AnsweredKeeps
<1>2. BucketsAreOwned'
  BY <1>1, BucketsStay
<1>3. SessionsAreLocked'
  BY <1>1, LocksStay
<1>4. buckets' \in [Users -> BucketRow]
  BY DEF IdentityInv, AccountShapes
<1> QED BY <1>1, <1>2, <1>3, <1>4, RequestStepKeeps

\* A login begins.
LEMMA BeginLoginKeeps ==
  ASSUME Identity!IdentityAssumption, IdentityInv,
         NEW c \in Clients, NEW u \in Users, NEW right \in BOOLEAN, Identity!BeginLogin(c, u, right)
  PROVE  IdentityInv'
<1> DEFINE phase == IF buckets[u].row THEN "select" ELSE "checked"
           x == LoginRequest("login", phase, u, 0, right, {}, None, "none")
<1>1. /\ logins' = [logins EXCEPT ![c] = x] /\ logins[c].phase = "idle"
      /\ users' = users /\ sessions' = sessions /\ tokens' = tokens /\ guesses' = guesses
      /\ Identity!HasSessionRoom
  <2>1. [Identity!NoCall EXCEPT !.op = "login", !.user = u, !.right = right, !.phase = phase] = x
    BY LoginBegins
  <2> QED BY <2>1 DEF Identity!BeginLogin, Identity!Begin
<1>2. buckets' = IF buckets[u].row THEN buckets
                 ELSE [buckets EXCEPT ![u] = [Identity!NoBucket EXCEPT !.row = TRUE, !.fresh = TRUE,
                                                                       !.owner = c]]
  BY DEF Identity!BeginLogin
<1>3. x \in LoginCall /\ x.phase \in {"select", "checked"} /\ x.op = "login" /\ x.user = u
      /\ x.phase = phase
  <2>1. right \in BOOLEAN /\ phase \in LoginPhases /\ u \in Users
    BY DEF LoginPhases
  <2> QED BY <2>1 DEF LoginRequest, LoginCall, Answers
<1>4. buckets \in [Users -> BucketRow]
  BY DEF IdentityInv, AccountShapes
<1>5. \A v \in Users : buckets[v].owner # None => buckets[v].owner # c
  BY <1>1 DEF IdentityInv, BucketsAreOwned
<1>6. /\ buckets' \in [Users -> BucketRow]
      /\ \A v \in Users : \/ buckets'[v].owner = None
                          \/ buckets'[v].owner = buckets[v].owner /\ buckets[v].owner # c
                          \/ buckets'[v].owner = c /\ x.phase = "checked" /\ x.user = v
  <2>1. CASE buckets[u].row
    BY <1>2, <1>4, <1>5, <2>1
  <2>2. CASE ~buckets[u].row
    <3> DEFINE b == [row |-> TRUE, fresh |-> TRUE, owner |-> c, attempts |-> 0, blocked |-> FALSE,
                     elapsed |-> FALSE]
    <3>1. [Identity!NoBucket EXCEPT !.row = TRUE, !.fresh = TRUE, !.owner = c] = b
      <4>1. Identity!NoBucket = [row |-> FALSE, fresh |-> FALSE, owner |-> None, attempts |-> 0,
                                 blocked |-> FALSE, elapsed |-> FALSE]
        BY DEF Identity!NoBucket
      <4>2. ASSUME NEW y, y = [Identity!NoBucket EXCEPT !.row = TRUE, !.fresh = TRUE, !.owner = c]
            PROVE  y = b
        <5>1. /\ y.row = TRUE /\ y.fresh = TRUE /\ y.owner = c /\ y.attempts = 0
              /\ y.blocked = FALSE /\ y.elapsed = FALSE
              /\ y = [i \in {"row", "fresh", "owner", "attempts", "blocked", "elapsed"} |-> y[i]]
          BY <4>1, <4>2
        <5> QED BY <5>1
      <4> QED BY <4>2
    <3>2. b \in BucketRow /\ b.owner = c
      BY DEF BucketRow
    <3> HIDE DEF b
    <3>3. buckets' = [buckets EXCEPT ![u] = b]
      BY <1>2, <2>2, <3>1
    <3> QED BY <1>3, <1>4, <1>5, <2>2, <3>2, <3>3
  <2> QED BY <2>1, <2>2
<1> HIDE DEF x
<1>7. RequestIsAbout(x, sessions) /\ ~HoldsSession(x) /\ \A v \in Users : ~Raises(x, v)
  BY <1>3 DEF RequestIsAbout, HoldsSession, Raises
<1>8. BucketsAreOwned'
  <2>1. logins' = [logins EXCEPT ![c] = x] /\ x \in LoginCall
    BY <1>1, <1>3
  <2>2. \A v \in Users : \/ buckets'[v].owner = None
                         \/ buckets'[v].owner = buckets[v].owner /\ buckets[v].owner # c
                         \/ buckets'[v].owner = c /\ x.phase = "checked" /\ x.user = v
    BY <1>6
  <2> HIDE DEF phase
  <2> QED BY <2>1, <2>2, BucketsKeep
<1>10. SessionsAreLocked'
  BY <1>1, <1>3, <1>7, LocksStay
<1>9. Len(sessions) + Cardinality(Adding) < MaxSessions
  BY <1>1, RoomChecked
<1> QED BY <1>1, <1>3, <1>6, <1>7, <1>8, <1>9, <1>10, RequestStepKeeps

\* A login selects its bucket.
LEMMA SelectBucketKeeps ==
  ASSUME Identity!IdentityAssumption, IdentityInv, NEW c \in Clients, Identity!SelectBucket(c)
  PROVE  IdentityInv'
<1> DEFINE u == logins[c].user
<1>1. /\ logins[c].phase = "select" /\ logins[c].op = "login" /\ u \in Users
      /\ users' = users /\ sessions' = sessions /\ tokens' = tokens /\ guesses' = guesses
  BY RequestIs DEF Identity!SelectBucket, RequestIsAbout
<1>2. CASE ~buckets[u].row
  <2>1. buckets' = buckets /\ logins' = Identity!Answer(c, "INTERNAL_ERROR")
    BY <1>2 DEF Identity!SelectBucket
  <2> QED BY <1>1, <2>1, AnswerStepKeeps DEF Answers
<1>3. CASE buckets[u].row
  <2> DEFINE x == [logins[c] EXCEPT !.phase = "checked"]
  <2>1. buckets' = [buckets EXCEPT ![u].owner = c] /\ logins' = [logins EXCEPT ![c] = x]
    BY <1>3 DEF Identity!SelectBucket
  <2>2. x \in LoginCall /\ x.phase = "checked" /\ x.op = "login" /\ x.user = u
    BY <1>1, RequestIs DEF LoginCall, LoginPhases
  <2>3. /\ buckets' \in [Users -> BucketRow] /\ buckets'[u].owner = c
        /\ \A v \in Users \ {u} : buckets'[v] = buckets[v]
    BY <1>1, <2>1, ZenonT(60) DEF IdentityInv, AccountShapes, BucketRow
  <2>4. \A v \in Users : buckets[v].owner # None => buckets[v].owner # c
    BY <1>1 DEF IdentityInv, BucketsAreOwned
  <2> HIDE DEF x
  <2>5. /\ RequestIsAbout(x, sessions) /\ ~HoldsSession(x) /\ \A v \in Users : ~Raises(x, v)
        /\ Adds(logins[c])
    BY <1>1, <2>2 DEF RequestIsAbout, HoldsSession, Raises, Adds
  <2>6. BucketsAreOwned'
    <3>1. \A v \in Users : \/ buckets'[v].owner = None
                           \/ buckets'[v].owner = buckets[v].owner /\ buckets[v].owner # c
                           \/ buckets'[v].owner = c /\ x.phase = "checked" /\ x.user = v
      BY <2>2, <2>3, <2>4
    <3> QED BY <2>1, <2>2, <3>1, BucketsKeep
  <2>7. SessionsAreLocked'
    BY <1>1, <2>1, <2>2, <2>5, LocksStay
  <2> QED BY <1>1, <2>1, <2>2, <2>3, <2>5, <2>6, <2>7, RequestStepKeeps
<1> QED BY <1>2, <1>3

\* A session is locked.
LEMMA LockSessionKeeps ==
  ASSUME Identity!IdentityAssumption, IdentityInv,
         NEW c \in Clients, NEW op \in {"refresh", "logout"}, NEW i \in DOMAIN sessions,
         Identity!LockSession(c, op, i)
  PROVE  IdentityInv'
<1> DEFINE rows == IF Identity!IsActive(i) THEN {i} ELSE {}
           x == LoginRequest(op, "held", None, i, FALSE, rows, None, "none")
<1>1. /\ logins' = [logins EXCEPT ![c] = x] /\ logins[c].phase = "idle"
      /\ users' = users /\ sessions' = sessions /\ tokens' = tokens /\ guesses' = guesses
      /\ buckets' = buckets
      /\ op = "refresh" => Identity!HasSessionRoom
      /\ i \notin Identity!LockedSessions
  <2>1. [Identity!NoCall EXCEPT !.op = op, !.session = i, !.phase = "held", !.rows = rows] = x
    BY SessionRequestBegins
  <2> QED BY <2>1 DEF Identity!LockSession, Identity!Begin
<1>2. i \in Nat /\ rows \in SUBSET Nat
  BY SessionsAre
<1>3. /\ x \in LoginCall /\ x.phase = "held" /\ x.op = op /\ x.session = i /\ x.rows = rows
  <2> HIDE DEF rows
  <2> QED BY <1>2 DEF LoginRequest, LoginCall, LoginPhases, Answers
<1>4. i \in rows => sessions[i].revoked = "no"
  BY DEF Identity!IsActive
<1> HIDE DEF x, rows
<1>5. RequestIsAbout(x, sessions) /\ \A v \in Users : ~Raises(x, v)
  BY <1>3 DEF RequestIsAbout, Raises
<1>6. BucketsAreOwned'
  BY <1>1, <1>3, BucketsStay
<1>7. SessionsAreLocked'
  <2>1. \A d \in Clients \ {c} : HoldsSession(logins[d]) => logins[d].session # x.session
    BY <1>1, <1>3 DEF Identity!LockedSessions, HoldsSession
  <2>2. \A d \in Clients \ {c} :
          logins[d].phase = "held" /\ logins[d].session \in logins[d].rows =>
            sessions'[logins[d].session].revoked = "no"
    BY <1>1 DEF IdentityInv, SessionsAreLocked
  <2>3. x.phase = "held" /\ x.session \in x.rows => sessions'[x.session].revoked = "no"
    BY <1>1, <1>3, <1>4
  <2> QED BY <1>1, <1>3, <2>1, <2>2, <2>3, LocksKeep
<1>8. Adds(x) /\ ~Adds(logins[c]) => Len(sessions) + Cardinality(Adding) < MaxSessions
  BY <1>1, <1>3, RoomChecked DEF Adds
<1>9. buckets' \in [Users -> BucketRow]
  BY <1>1 DEF IdentityInv, AccountShapes
<1> QED BY <1>1, <1>3, <1>5, <1>6, <1>7, <1>8, <1>9, RequestStepKeeps

\* The statement that revokes a family starts.
LEMMA StartRevokeKeeps ==
  ASSUME Identity!IdentityAssumption, IdentityInv, NEW c \in Clients, Identity!StartRevoke(c)
  PROVE  IdentityInv'
<1> DEFINE seen == {i \in Identity!Family(sessions[logins[c].session].family) : Identity!IsActive(i)}
           reason == Identity!RevokeReason(c)
           x == LoginRequest(logins[c].op, "revoking", logins[c].user, logins[c].session,
                             logins[c].right, seen, logins[c].actor, reason)
<1>1. /\ logins[c].phase = "held" /\ logins[c].op \in {"refresh", "logout"}
      /\ logins[c].session \in DOMAIN sessions
      /\ users' = users /\ sessions' = sessions /\ tokens' = tokens /\ guesses' = guesses
      /\ buckets' = buckets
  BY RequestIs DEF Identity!StartRevoke, RequestIsAbout
<1>2. reason \in Revocations
  BY DEF Identity!StartRevoke, Identity!RevokeReason, Revocations
<1>3. seen \in SUBSET Nat
  BY SessionsAre DEF Identity!Family
<1>4. logins' = [logins EXCEPT ![c].phase = "revoking", ![c].answer = reason, ![c].rows = seen]
  BY DEF Identity!StartRevoke
<1> HIDE DEF seen, reason
<1>5. /\ logins' = [logins EXCEPT ![c] = logins'[c]]
      /\ logins'[c] \in LoginCall /\ logins'[c].op = logins[c].op /\ logins'[c].phase = "revoking"
      /\ logins'[c].session = logins[c].session /\ logins'[c].answer = reason
  BY <1>2, <1>3, <1>4, ZenonT(60) DEF IdentityInv, AccountShapes, LoginCall, LoginPhases, Answers
<1>6. RequestIsAbout(logins'[c], sessions) /\ \A v \in Users : ~Raises(logins'[c], v)
  BY <1>1, <1>2, <1>5 DEF RequestIsAbout, Raises
<1>7. BucketsAreOwned'
  BY <1>1, <1>5, BucketsStay
<1>8. SessionsAreLocked'
  <2>1. \A d \in Clients \ {c} : HoldsSession(logins[d]) => logins[d].session # logins'[c].session
    BY <1>1, <1>5 DEF IdentityInv, SessionsAreLocked, HoldsSession
  <2>2. \A d \in Clients \ {c} :
          logins[d].phase = "held" /\ logins[d].session \in logins[d].rows =>
            sessions'[logins[d].session].revoked = "no"
    BY <1>1 DEF IdentityInv, SessionsAreLocked
  <2> QED BY <1>5, <2>1, <2>2, LocksKeep
<1>9. Adds(logins'[c]) => Adds(logins[c])
  BY <1>1, <1>5 DEF Adds
<1>10. buckets' \in [Users -> BucketRow]
  BY <1>1 DEF IdentityInv, AccountShapes
<1> QED BY <1>1, <1>5, <1>6, <1>7, <1>8, <1>9, <1>10, RequestStepKeeps

\* An administrator is let through.
LEMMA AuthorizeKeeps ==
  ASSUME Identity!IdentityAssumption, IdentityInv,
         NEW c \in Clients, NEW t \in tokens, NEW u \in Users, Identity!Authorize(c, t, u)
  PROVE  IdentityInv'
<1> DEFINE x == LoginRequest("change_role", "authorized", u, 0, FALSE, {}, t.user, "none")
<1>1. /\ logins' = [logins EXCEPT ![c] = x] /\ logins[c].phase = "idle"
      /\ users' = users /\ sessions' = sessions /\ tokens' = tokens /\ guesses' = guesses
      /\ buckets' = buckets /\ Identity!HasVersionRoom(u)
  <2>1. [Identity!NoCall EXCEPT !.op = "change_role", !.user = u, !.actor = t.user,
                                !.phase = "authorized"] = x
    BY RoleChangeBegins
  <2> QED BY <2>1 DEF Identity!Authorize, Identity!Begin
<1>2. t.user \in Users
  BY DEF IdentityInv, AccountShapes, AccessTokens
<1>3. x \in LoginCall /\ x.phase = "authorized" /\ x.op = "change_role" /\ x.user = u
  BY <1>2 DEF LoginRequest, LoginCall, LoginPhases, Answers
<1> HIDE DEF x
<1>4. /\ RequestIsAbout(x, sessions) /\ ~HoldsSession(x) /\ ~Adds(x)
      /\ \A v \in Users : Raises(x, v) => v = u
  BY <1>3 DEF RequestIsAbout, HoldsSession, Adds, Raises
<1>5. BucketsAreOwned'
  BY <1>1, <1>3, BucketsStay
<1>6. SessionsAreLocked'
  BY <1>1, <1>3, <1>4, LocksStay
<1>7. \A v \in Users : Raises(x, v) /\ ~Raises(logins[c], v) =>
        users[v].version + Cardinality(Raising(v)) < MaxVersion
  BY <1>1, <1>4, RoomChecked
<1>8. buckets' \in [Users -> BucketRow]
  BY <1>1 DEF IdentityInv, AccountShapes
<1> QED BY <1>1, <1>3, <1>4, <1>5, <1>6, <1>7, <1>8, RequestStepKeeps

\* An administrator may not revoke the own role.
LEMMA RefuseSelfRevokeKeeps ==
  ASSUME Identity!IdentityAssumption, IdentityInv, NEW c \in Clients, Identity!RefuseSelfRevoke(c)
  PROVE  IdentityInv'
<1>1. /\ logins' = Identity!Answer(c, "FORBIDDEN") /\ logins[c].phase # "checked"
      /\ users' = users /\ buckets' = buckets /\ sessions' = sessions /\ tokens' = tokens
      /\ guesses' = guesses
  BY DEF Identity!RefuseSelfRevoke
<1>2. "FORBIDDEN" \in Answers
  BY DEF Answers
<1> QED BY <1>1, <1>2, AnswerStepKeeps

-----------------------------------------------------------------------------
(* The steps that end a request or change sessions.                          *)

\* A sequence that is not shorter has the other's indices.
LEMMA LongerReaches ==
  ASSUME NEW S, NEW s \in Seq(S), NEW t \in Seq(S), Len(t) = Len(s) \/ Len(t) = Len(s) + 1
  PROVE  DOMAIN s \subseteq DOMAIN t
<1> DEFINE m == Len(s)
           n == Len(t)
<1>1. m \in Nat /\ n \in Nat /\ DOMAIN s = 1 .. m /\ DOMAIN t = 1 .. n
  BY LenProperties
<1>2. n = m \/ n = m + 1
  OBVIOUS
<1> HIDE DEF m, n
<1>3. 1 .. m \subseteq 1 .. n
  BY ONLY <1>1, <1>2
<1> QED BY ONLY <1>1, <1>3

\* A request that ends.
LEMMA EndingKeeps ==
  ASSUME Identity!IdentityAssumption, IdentityInv,
         NEW c \in Clients, NEW answer \in Answers, logins' = Identity!Answer(c, answer),
         users' \in [Users -> UserRow], buckets' \in [Users -> BucketRow],
         sessions' \in Seq(SessionRow), tokens' \subseteq AccessTokens, guesses' \in [Users -> Nat],
         \/ Len(sessions') = Len(sessions)
         \/ Len(sessions') = Len(sessions) + 1 /\ Adds(logins[c]),
         \A u \in Users : \/ users'[u].version = users[u].version
                          \/ users'[u].version = users[u].version + 1 /\ Raises(logins[c], u),
         \A u \in Users : \/ buckets'[u].owner = None
                          \/ buckets'[u].owner = buckets[u].owner /\ buckets[u].owner # c,
         \A d \in Clients \ {c} :
           logins[d].phase = "held" /\ logins[d].session \in logins[d].rows =>
             sessions'[logins[d].session].revoked = "no",
         SessionsAreRooted', Identity!OneLiveSession', TokensAreDated',
         Identity!VersionDeterminesRoles', GuessesAreCounted'
  PROVE  IdentityInv'
<1>1. PICK x \in LoginCall :
        /\ logins' = [logins EXCEPT ![c] = x]
        /\ x.phase = "idle"
        /\ RequestIsAbout(x, sessions') /\ ~HoldsSession(x) /\ ~Adds(x)
        /\ \A u \in Users : ~Raises(x, u)
  BY AnsweredKeeps
<1>2. logins \in [Clients -> LoginCall]
  BY DEF IdentityInv, AccountShapes
<1>3. DOMAIN sessions \subseteq DOMAIN sessions'
  BY SessionsAre, LongerReaches
<1>4. logins' \in [Clients -> LoginCall] /\ RequestsFit'
  <2>1. logins' = [logins EXCEPT ![c] = x] /\ RequestIsAbout(x, sessions')
    BY <1>1
  <2> QED BY <1>3, <2>1, RequestsKeep
<1>5. AccountShapes'
  BY <1>4 DEF AccountShapes
<1>6. AccountsHaveRoom'
  <2>1. /\ Len(sessions) \in Nat /\ MaxSessions \in Nat /\ MaxVersion \in Nat
        /\ Len(sessions) + Cardinality(Adding) <= MaxSessions
        /\ \A u \in Users : /\ users[u].version \in Nat /\ users[u].version >= 1
                            /\ users[u].version + Cardinality(Raising(u)) <= MaxVersion
    BY SessionsAre, AccountIs DEF IdentityInv, AccountsHaveRoom, Identity!IdentityAssumption
  <2>2. Len(sessions') + Cardinality(Adding') <= MaxSessions
    <3>1. /\ Cardinality(Adding) \in Nat /\ Cardinality(Adding') \in Nat
          /\ (Adds(x) <=> Adds(logins[c])) => Cardinality(Adding') = Cardinality(Adding)
          /\ ~Adds(x) /\ Adds(logins[c]) => Cardinality(Adding') = Cardinality(Adding) - 1
      BY <1>1, <1>2, RoomMoves
    <3> QED BY <1>1, <2>1, <3>1
  <2>3. ASSUME NEW u \in Users
        PROVE  users'[u].version >= 1 /\ users'[u].version + Cardinality(Raising(u)') <= MaxVersion
    <3>1. /\ Cardinality(Raising(u)) \in Nat /\ Cardinality(Raising(u)') \in Nat
          /\ (Raises(x, u) <=> Raises(logins[c], u)) =>
               Cardinality(Raising(u)') = Cardinality(Raising(u))
          /\ ~Raises(x, u) /\ Raises(logins[c], u) =>
               Cardinality(Raising(u)') = Cardinality(Raising(u)) - 1
      <4>1. logins' = [logins EXCEPT ![c] = x]
        BY <1>1
      <4> QED BY <1>2, <4>1, RoomMoves
    <3>2. \/ users'[u].version = users[u].version
          \/ users'[u].version = users[u].version + 1 /\ Raises(logins[c], u)
      OBVIOUS
    <3>3. ~Raises(x, u)
      BY <1>1
    <3>4. /\ users[u].version \in Nat /\ users[u].version >= 1 /\ MaxVersion \in Nat
          /\ users[u].version + Cardinality(Raising(u)) <= MaxVersion
      BY <2>1
    <3> QED BY ONLY <3>1, <3>2, <3>3, <3>4
  <2> QED BY <2>2, <2>3 DEF AccountsHaveRoom
<1>7. BucketsAreOwned'
  <2>1. \A u \in Users : \/ buckets'[u].owner = None
                         \/ buckets'[u].owner = buckets[u].owner /\ buckets[u].owner # c
                         \/ buckets'[u].owner = c /\ x.phase = "checked" /\ x.user = u
    OBVIOUS
  <2> QED BY <1>1, <2>1, BucketsKeep
<1>8. SessionsAreLocked'
  <2>1. /\ HoldsSession(x) =>
             \A d \in Clients \ {c} : HoldsSession(logins[d]) => logins[d].session # x.session
        /\ x.phase = "held" /\ x.session \in x.rows => sessions'[x.session].revoked = "no"
    BY <1>1
  <2>2. logins' = [logins EXCEPT ![c] = x]
    BY <1>1
  <2> QED BY <2>1, <2>2, LocksKeep
<1> QED BY <1>4, <1>5, <1>6, <1>7, <1>8 DEF IdentityInv

\* Rows that a step marks: as they were, but for how they ended.
Marked(after, last) ==
  /\ after \in Seq(SessionRow) /\ Len(after) = Len(sessions)
  /\ \A i \in DOMAIN sessions :
       /\ after[i].user = sessions[i].user /\ after[i].family = sessions[i].family
       /\ after[i].parent = sessions[i].parent /\ after[i].replaced <= last
       /\ after[i].revoked = "no" => sessions[i].revoked = "no"

LEMMA MarkedKeep ==
  ASSUME IdentityInv, Marked(sessions', Len(sessions)), users' = users
  PROVE  SessionsAreRooted' /\ Identity!OneLiveSession'
<1>1. /\ Len(sessions') = Len(sessions) /\ DOMAIN sessions' = DOMAIN sessions
      /\ \A i \in DOMAIN sessions :
           /\ sessions'[i].user = sessions[i].user /\ sessions'[i].family = sessions[i].family
           /\ sessions'[i].parent = sessions[i].parent /\ sessions'[i].replaced <= Len(sessions)
           /\ sessions'[i].revoked = "no" => sessions[i].revoked = "no"
  <2>1. DOMAIN sessions' = 1 .. Len(sessions') /\ DOMAIN sessions = 1 .. Len(sessions)
    BY SessionsAre, LenProperties DEF Marked
  <2> QED BY <2>1 DEF Marked
<1>2. SessionsAreRooted /\ Identity!OneLiveSession
  BY DEF IdentityInv
<1>3. SessionsAreRooted'
  BY <1>1, <1>2 DEF SessionsAreRooted
<1>4. Identity!OneLiveSession'
  BY <1>1, <1>2 DEF Identity!OneLiveSession, Identity!IsActive
<1> QED BY <1>3, <1>4

\* A session that joins rows a step marked, where its family has no live one.
LEMMA AddedKeep ==
  ASSUME Identity!IdentityAssumption, IdentityInv,
         NEW after, Marked(after, Len(sessions) + 1), NEW s \in SessionRow,
         sessions' = Identity!AddSession(after, s),
         \A u \in Users : users[u].exists => users'[u].exists, users'[s.user].exists,
         s.family \in 1 .. Len(sessions) + 1, s.parent <= Len(sessions) + 1, s.replaced = 0,
         \A i \in DOMAIN sessions : after[i].family = s.family => after[i].revoked # "no"
  PROVE  /\ sessions' \in Seq(SessionRow) /\ Len(sessions') = Len(sessions) + 1
         /\ \A i \in DOMAIN sessions : sessions'[i] = after[i]
         /\ SessionsAreRooted' /\ Identity!OneLiveSession'
<1> DEFINE n == Len(sessions)
<1>1. /\ n \in Nat /\ DOMAIN sessions = 1 .. n /\ DOMAIN after = 1 .. n
      /\ \A i \in 1 .. n : after[i] \in SessionRow
      /\ Identity!NextSession = n + 1
  <2>1. after \in Seq(SessionRow) /\ Len(after) = n
    BY DEF Marked
  <2>2. \A i \in 1 .. n : after[i] \in SessionRow
    BY <2>1
  <2> QED BY <2>1, <2>2, SessionsAre, LenProperties, RoomChecked
<1> HIDE DEF n
<1>2. sessions' = [i \in 1 .. n + 1 |-> IF i \in 1 .. n THEN after[i] ELSE s]
  <2>1. (1 .. n) \cup {n + 1} = 1 .. n + 1
    BY <1>1
  <2> QED BY <1>1, <2>1 DEF Identity!AddSession
<1>3. /\ sessions' \in [1 .. n + 1 -> SessionRow]
      /\ \A i \in 1 .. n : sessions'[i] = after[i] /\ i \in 1 .. n + 1
      /\ sessions'[n + 1] = s /\ n + 1 \in 1 .. n + 1
      /\ \A i \in 1 .. n + 1 : i \in 1 .. n \/ i = n + 1
  BY <1>1, <1>2
<1>4. sessions' \in Seq(SessionRow) /\ Len(sessions') = n + 1 /\ DOMAIN sessions' = 1 .. n + 1
  BY <1>1, <1>3, SeqDef, LenProperties
<1>5. \A i \in 1 .. n :
        /\ after[i].user = sessions[i].user /\ after[i].family = sessions[i].family
        /\ after[i].parent = sessions[i].parent /\ after[i].replaced <= n + 1
        /\ after[i].revoked = "no" => sessions[i].revoked = "no"
        /\ sessions[i].user \in Users /\ users[sessions[i].user].exists
        /\ sessions[i].family \in 1 .. i /\ sessions[i].parent <= n
        /\ after[i].family = s.family => after[i].revoked # "no"
  BY <1>1, SessionsAre DEF Marked, IdentityInv, SessionsAreRooted, n
<1>6. SessionsAreRooted'
  <2> SUFFICES ASSUME NEW i \in 1 .. n + 1
               PROVE  /\ users'[sessions'[i].user].exists
                      /\ sessions'[i].family \in 1 .. i
                      /\ sessions'[i].parent <= n + 1 /\ sessions'[i].replaced <= n + 1
    BY <1>4 DEF SessionsAreRooted
  <2>1. CASE i \in 1 .. n
    <3>1. sessions'[i] = after[i]
      BY <1>3, <2>1
    <3>2. after[i].parent \in Nat /\ after[i].parent <= n
      BY <1>1, <1>5, <2>1 DEF SessionRow
    <3> QED BY <1>1, <1>5, <2>1, <3>1, <3>2, SMTT(60)
  <2>2. CASE i = n + 1
    BY <1>1, <1>3, <2>2 DEF n
  <2> QED BY <1>3, <2>1, <2>2
<1>7. Identity!OneLiveSession'
  <2> SUFFICES ASSUME NEW i \in 1 .. n + 1, NEW j \in 1 .. n + 1,
                      sessions'[i].family = sessions'[j].family,
                      sessions'[i].revoked = "no", sessions'[j].revoked = "no"
               PROVE  i = j
    BY <1>4 DEF Identity!OneLiveSession, Identity!IsActive
  <2>1. CASE i \in 1 .. n /\ j \in 1 .. n
    <3>1. \A k, l \in DOMAIN sessions :
            sessions[k].family = sessions[l].family /\ sessions[k].revoked = "no"
              /\ sessions[l].revoked = "no" => k = l
      BY DEF IdentityInv, Identity!OneLiveSession, Identity!IsActive
    <3> QED BY <1>1, <1>3, <1>5, <2>1, <3>1
  <2>2. CASE i = n + 1 /\ j \in 1 .. n
    BY <1>3, <1>5, <2>2
  <2>3. CASE i \in 1 .. n /\ j = n + 1
    BY <1>3, <1>5, <2>3
  <2> QED BY <1>3, <2>1, <2>2, <2>3
<1> QED BY <1>1, <1>3, <1>4, <1>6, <1>7 DEF n

\* What the answers leave of the buckets, where the request held none.
LEMMA BucketsOthers ==
  ASSUME IdentityInv, NEW c \in Clients, logins[c].phase # "checked", buckets' = buckets
  PROVE  /\ buckets' \in [Users -> BucketRow]
         /\ \A u \in Users : \/ buckets'[u].owner = None
                             \/ buckets'[u].owner = buckets[u].owner /\ buckets[u].owner # c
BY DEF IdentityInv, AccountShapes, BucketsAreOwned

\* ... and of the accounts, where they and the tokens stay.
LEMMA AccountsOthers ==
  ASSUME IdentityInv, users' = users, tokens' = tokens, guesses' = guesses
  PROVE  TokensAreDated' /\ Identity!VersionDeterminesRoles' /\ GuessesAreCounted'
         /\ users' \in [Users -> UserRow] /\ tokens' \subseteq AccessTokens
         /\ guesses' \in [Users -> Nat]
BY DEF IdentityInv, AccountShapes, TokensAreDated, Identity!VersionDeterminesRoles, GuessesAreCounted

\* A session is marked as expired, revoked or replaced.
LEMMA OneIsMarked ==
  ASSUME IdentityInv, NEW i \in DOMAIN sessions, NEW row \in SessionRow, NEW after,
         after = [sessions EXCEPT ![i] = row], NEW last \in Nat, Len(sessions) <= last,
         row.user = sessions[i].user, row.family = sessions[i].family,
         row.parent = sessions[i].parent, row.replaced <= last,
         row.revoked = "no" => sessions[i].revoked = "no"
  PROVE  Marked(after, last)
<1>1. /\ sessions \in Seq(SessionRow) /\ Len(sessions) \in Nat /\ DOMAIN sessions = 1 .. Len(sessions)
      /\ \A j \in DOMAIN sessions :
           /\ sessions[j] \in SessionRow
           /\ sessions[j].replaced \in Nat /\ sessions[j].replaced <= Len(sessions)
  <2>1. \A j \in DOMAIN sessions : sessions[j] \in SessionRow
    BY SessionsAre
  <2>2. \A j \in DOMAIN sessions : sessions[j].replaced \in Nat
    BY <2>1 DEF SessionRow
  <2> QED BY <2>1, <2>2, SessionsAre DEF IdentityInv, SessionsAreRooted
<1>2. after \in Seq(SessionRow) /\ Len(after) = Len(sessions)
  BY <1>1, ExceptSeq
<1>3. after[i] = row /\ \A j \in DOMAIN sessions \ {i} : after[j] = sessions[j]
  BY <1>1
<1>4. \A j \in DOMAIN sessions : sessions[j].replaced <= last
  BY <1>1
<1> QED BY <1>2, <1>3, <1>4 DEF Marked

\* A session by its fields.
Session(user, family, parent, replaced, revoked, expired) ==
  [user |-> user, family |-> family, parent |-> parent, replaced |-> replaced,
   revoked |-> revoked, expired |-> expired]

LEMMA SessionExpiresKeeps ==
  ASSUME Identity!IdentityAssumption, IdentityInv, NEW i \in DOMAIN sessions,
         Identity!SessionExpires(i)
  PROVE  IdentityInv'
<1> DEFINE row == [sessions[i] EXCEPT !.expired = TRUE]
<1>1. /\ sessions' = [sessions EXCEPT ![i] = row] /\ i \notin Identity!LockedSessions
      /\ users' = users /\ buckets' = buckets /\ tokens' = tokens /\ logins' = logins
      /\ guesses' = guesses
  BY DEF Identity!SessionExpires
<1>2. sessions[i] \in SessionRow /\ sessions[i].replaced <= Len(sessions) /\ Len(sessions) \in Nat
  BY SessionsAre DEF IdentityInv, SessionsAreRooted
<1>3. /\ row \in SessionRow /\ row.user = sessions[i].user /\ row.family = sessions[i].family
      /\ row.parent = sessions[i].parent /\ row.replaced = sessions[i].replaced
      /\ row.revoked = sessions[i].revoked
  BY <1>2 DEF SessionRow
<1> HIDE DEF row
<1>4. Marked(sessions', Len(sessions))
  <2>1. /\ Len(sessions) \in Nat /\ Len(sessions) <= Len(sessions) /\ row.replaced <= Len(sessions)
        /\ row.revoked = "no" => sessions[i].revoked = "no"
    BY <1>2, <1>3
  <2> QED BY <1>1, <1>3, <2>1, OneIsMarked
<1>5. SessionsAreRooted' /\ Identity!OneLiveSession'
  BY <1>1, <1>4, MarkedKeep
<1>6. /\ DOMAIN sessions' = DOMAIN sessions /\ Len(sessions') = Len(sessions)
      /\ \A j \in DOMAIN sessions : sessions'[j].revoked = sessions[j].revoked
  BY <1>1, <1>3, SessionsAre
<1>7. AccountShapes' /\ BucketsAreOwned' /\ TokensAreDated' /\ Identity!VersionDeterminesRoles'
      /\ GuessesAreCounted'
  <2>1. sessions' \in Seq(SessionRow)
    BY <1>4 DEF Marked
  <2> QED BY <1>1, <2>1 DEF IdentityInv, AccountShapes, BucketsAreOwned, TokensAreDated,
                            Identity!VersionDeterminesRoles, GuessesAreCounted
<1>8. RequestsFit' /\ AccountsHaveRoom'
  BY <1>1, <1>6 DEF IdentityInv, RequestsFit, RequestIsAbout, AccountsHaveRoom, Adding, Raising
<1>9. SessionsAreLocked'
  <2>1. \A c \in Clients : logins[c].phase = "held" => logins[c].session \in DOMAIN sessions
    BY RequestIs DEF RequestIsAbout
  <2> QED BY <1>1, <1>6, <2>1 DEF IdentityInv, SessionsAreLocked, HoldsSession
<1> QED BY <1>5, <1>7, <1>8, <1>9 DEF IdentityInv

\* A refresh is refused.
LEMMA RefuseRefreshKeeps ==
  ASSUME Identity!IdentityAssumption, IdentityInv, NEW c \in Clients, Identity!RefuseRefresh(c)
  PROVE  IdentityInv'
<1> DEFINE i == logins[c].session
           row == [sessions[i] EXCEPT !.revoked = "EXPIRED"]
<1>1. /\ logins[c].op = "refresh" /\ logins[c].phase = "held" /\ i \in DOMAIN sessions
      /\ logins' = Identity!Answer(c, "INVALID_REFRESH_TOKEN")
      /\ users' = users /\ buckets' = buckets /\ tokens' = tokens /\ guesses' = guesses
  BY RequestIs DEF Identity!RefuseRefresh, RequestIsAbout
<1>2. "INVALID_REFRESH_TOKEN" \in Answers
  BY DEF Answers
<1>3. CASE ~Identity!IsActive(i)
  <2>1. sessions' = sessions
    BY <1>3 DEF Identity!RefuseRefresh
  <2> QED BY <1>1, <1>2, <2>1, AnswerStepKeeps
<1>4. CASE Identity!IsActive(i)
  <2>1. sessions' = [sessions EXCEPT ![i] = row]
    BY <1>4 DEF Identity!RefuseRefresh
  <2>2. sessions[i] \in SessionRow /\ sessions[i].replaced <= Len(sessions) /\ Len(sessions) \in Nat
    BY <1>1, SessionsAre DEF IdentityInv, SessionsAreRooted
  <2>3. /\ row \in SessionRow /\ row.user = sessions[i].user /\ row.family = sessions[i].family
        /\ row.parent = sessions[i].parent /\ row.replaced = sessions[i].replaced
        /\ row.revoked = "EXPIRED"
    BY <2>2 DEF SessionRow, Revocations
  <2> HIDE DEF row
  <2>4. Marked(sessions', Len(sessions))
    <3>1. /\ Len(sessions) \in Nat /\ Len(sessions) <= Len(sessions) /\ row.replaced <= Len(sessions)
          /\ row.revoked = "no" => sessions[i].revoked = "no"
      BY <2>2, <2>3
    <3> QED BY <1>1, <2>1, <2>3, <3>1, OneIsMarked
  <2>5. SessionsAreRooted' /\ Identity!OneLiveSession'
    BY <1>1, <2>4, MarkedKeep
  <2>6. sessions' \in Seq(SessionRow) /\ Len(sessions') = Len(sessions)
    BY <2>4 DEF Marked
  <2>7. \A d \in Clients \ {c} :
          logins[d].phase = "held" /\ logins[d].session \in logins[d].rows =>
            sessions'[logins[d].session].revoked = "no"
    <3>1. \A d \in Clients \ {c} :
            /\ logins[d].phase = "held" => logins[d].session # i /\ logins[d].session \in DOMAIN sessions
            /\ logins[d].phase = "held" /\ logins[d].session \in logins[d].rows =>
                 sessions[logins[d].session].revoked = "no"
      BY <1>1, RequestIs DEF IdentityInv, SessionsAreLocked, HoldsSession, RequestIsAbout
    <3> QED BY <2>1, <3>1
  <2>8. TokensAreDated' /\ Identity!VersionDeterminesRoles' /\ GuessesAreCounted'
        /\ users' \in [Users -> UserRow] /\ tokens' \subseteq AccessTokens
        /\ guesses' \in [Users -> Nat]
    BY <1>1, AccountsOthers
  <2>9. /\ buckets' \in [Users -> BucketRow]
        /\ \A u \in Users : \/ buckets'[u].owner = None
                            \/ buckets'[u].owner = buckets[u].owner /\ buckets[u].owner # c
    BY <1>1, BucketsOthers
  <2>10. \A u \in Users : users'[u].version = users[u].version
    BY <1>1
  <2> QED BY <1>1, <1>2, <2>5, <2>6, <2>7, <2>8, <2>9, <2>10, EndingKeeps
<1> QED BY <1>3, <1>4

\* The statement that revokes a family ends.
LEMMA FinishRevokeKeeps ==
  ASSUME Identity!IdentityAssumption, IdentityInv, NEW c \in Clients, Identity!FinishRevoke(c)
  PROVE  IdentityInv'
<1> DEFINE reason == logins[c].answer
           rows == logins[c].rows
           row(i) == [sessions[i] EXCEPT !.revoked = reason]
<1>1. /\ logins[c].phase = "revoking" /\ reason \in Revocations
      /\ sessions' = [i \in DOMAIN sessions |->
                        IF i \in rows /\ Identity!IsActive(i) THEN row(i) ELSE sessions[i]]
      /\ rows \cap Identity!HeldByOthers(c) = {}
      /\ logins' = Identity!Answer(c, reason)
      /\ users' = users /\ buckets' = buckets /\ tokens' = tokens /\ guesses' = guesses
  BY RequestIs DEF Identity!FinishRevoke, RequestIsAbout
<1>2. reason \in Answers
  BY <1>1 DEF Answers
<1> HIDE DEF rows, reason
<1>3. ASSUME NEW i \in DOMAIN sessions
      PROVE  /\ row(i) \in SessionRow /\ row(i).user = sessions[i].user
             /\ row(i).family = sessions[i].family /\ row(i).parent = sessions[i].parent
             /\ row(i).replaced = sessions[i].replaced /\ row(i).revoked = reason
             /\ sessions[i].replaced <= Len(sessions) /\ sessions[i] \in SessionRow
  BY <1>1, SessionsAre DEF SessionRow, IdentityInv, SessionsAreRooted
<1> HIDE DEF row
<1>4. Marked(sessions', Len(sessions))
  <2>1. DOMAIN sessions = 1 .. Len(sessions) /\ Len(sessions) \in Nat
    BY SessionsAre
  <2>2. sessions' \in [1 .. Len(sessions) -> SessionRow]
    BY <1>1, <1>3, <2>1
  <2>3. sessions' \in Seq(SessionRow) /\ Len(sessions') = Len(sessions)
    BY <2>1, <2>2, SeqDef, LenProperties
  <2>4. \A i \in DOMAIN sessions :
          /\ sessions'[i].user = sessions[i].user /\ sessions'[i].family = sessions[i].family
          /\ sessions'[i].parent = sessions[i].parent /\ sessions'[i].replaced <= Len(sessions)
          /\ sessions'[i].revoked = "no" => sessions[i].revoked = "no"
    BY <1>1, <1>3 DEF Revocations
  <2> QED BY <2>3, <2>4 DEF Marked
<1>5. SessionsAreRooted' /\ Identity!OneLiveSession'
  BY <1>1, <1>4, MarkedKeep
<1>6. sessions' \in Seq(SessionRow) /\ Len(sessions') = Len(sessions)
  BY <1>4 DEF Marked
<1>7. \A d \in Clients \ {c} :
        logins[d].phase = "held" /\ logins[d].session \in logins[d].rows =>
          sessions'[logins[d].session].revoked = "no"
  <2> SUFFICES ASSUME NEW d \in Clients \ {c},
                      logins[d].phase = "held", logins[d].session \in logins[d].rows
               PROVE  sessions'[logins[d].session].revoked = "no"
    OBVIOUS
  <2>1. logins[d].session \notin rows
    BY <1>1 DEF Identity!HeldByOthers
  <2>2. logins[d].session \in DOMAIN sessions /\ sessions[logins[d].session].revoked = "no"
    BY RequestIs DEF RequestIsAbout, IdentityInv, SessionsAreLocked
  <2> QED BY <1>1, <2>1, <2>2
<1>8. TokensAreDated' /\ Identity!VersionDeterminesRoles' /\ GuessesAreCounted'
      /\ users' \in [Users -> UserRow] /\ tokens' \subseteq AccessTokens
      /\ guesses' \in [Users -> Nat]
  BY <1>1, AccountsOthers
<1>9. /\ buckets' \in [Users -> BucketRow]
      /\ \A u \in Users : \/ buckets'[u].owner = None
                          \/ buckets'[u].owner = buckets[u].owner /\ buckets[u].owner # c
  BY <1>1, BucketsOthers
<1>10. \A u \in Users : users'[u].version = users[u].version
  BY <1>1
<1> QED BY <1>1, <1>2, <1>5, <1>6, <1>7, <1>8, <1>9, <1>10, EndingKeeps

\* The token that goes with a session is the account's present one.
LEMMA IssuedKeep ==
  ASSUME IdentityInv, NEW u \in Users, users[u].exists, NEW row \in UserRow,
         users' = [users EXCEPT ![u] = row], row.exists,
         row.version = users[u].version, row.roles = users[u].roles,
         tokens' = tokens \cup {Identity!AccessToken(u)}
  PROVE  /\ users' \in [Users -> UserRow] /\ tokens' \subseteq AccessTokens
         /\ TokensAreDated' /\ Identity!VersionDeterminesRoles'
<1>1. \A t \in tokens' \ tokens : /\ t = [user |-> u, version |-> row.version, roles |-> row.roles]
                                  /\ row.exists
  BY DEF Identity!AccessToken
<1> QED BY <1>1, TokensKeep

\* A refresh rotates its session.
LEMMA RotateKeeps ==
  ASSUME Identity!IdentityAssumption, IdentityInv, NEW c \in Clients, Identity!Rotate(c)
  PROVE  IdentityInv'
<1> DEFINE i == logins[c].session
           u == sessions[i].user
           n == Len(sessions)
           after == [sessions EXCEPT ![i].replaced = n + 1, ![i].revoked = "ROTATED"]
           s == Session(u, sessions[i].family, i, 0, "no", FALSE)
<1>1. /\ logins[c].op = "refresh" /\ logins[c].phase = "held" /\ i \in DOMAIN sessions
      /\ i \in logins[c].rows
      /\ tokens' = tokens \cup {Identity!AccessToken(u)}
      /\ logins' = Identity!Answer(c, "SUCCESS")
      /\ users' = users /\ buckets' = buckets /\ guesses' = guesses
  BY RequestIs DEF Identity!Rotate, RequestIsAbout
<1>2. "SUCCESS" \in Answers /\ "ROTATED" \in Revocations \cup {"no"} /\ "ROTATED" # "no"
  BY DEF Answers, Revocations
<1>3. /\ sessions \in Seq(SessionRow) /\ n \in Nat /\ DOMAIN sessions = 1 .. n /\ u \in Users
      /\ sessions[i] \in SessionRow /\ sessions[i].family \in 1 .. i /\ users[u].exists
      /\ sessions[i].revoked = "no"
      /\ Identity!NextSession = n + 1
  BY <1>1, SessionsAre, RoomChecked DEF IdentityInv, SessionsAreRooted, SessionsAreLocked
<1>4. sessions' = Identity!AddSession(after, s)
  BY <1>3 DEF Identity!Rotate, Identity!NewSession, Session
<1>5. /\ s \in SessionRow /\ s.user = u /\ s.family = sessions[i].family /\ s.parent = i
      /\ s.replaced = 0
  <2>1. i \in Nat /\ sessions[i].family \in Nat
    BY <1>1, <1>3
  <2> QED BY <1>3, <2>1 DEF Session, SessionRow
<1> DEFINE mark == after[i]
<1>6. /\ after = [sessions EXCEPT ![i] = mark] /\ mark \in SessionRow
      /\ mark.user = sessions[i].user /\ mark.family = sessions[i].family
      /\ mark.parent = sessions[i].parent /\ mark.replaced = n + 1 /\ mark.revoked = "ROTATED"
  <2> HIDE DEF n
  <2>1. n + 1 \in Nat
    BY <1>3
  <2>2. \A j \in DOMAIN sessions : sessions[j] \in SessionRow
    BY SessionsAre
  <2> QED BY <1>1, <1>2, <1>3, <2>1, <2>2 DEF SessionRow
<1> HIDE DEF mark, after, s
<1>7. Marked(after, n + 1)
  <2>1. /\ n + 1 \in Nat /\ Len(sessions) <= n + 1 /\ mark.replaced <= n + 1
        /\ mark.revoked = "no" => sessions[i].revoked = "no"
    BY <1>2, <1>3, <1>6
  <2> QED BY <1>1, <1>6, <2>1, OneIsMarked
<1>8. \A j \in DOMAIN sessions : after[j].family = s.family => after[j].revoked # "no"
  <2> SUFFICES ASSUME NEW j \in DOMAIN sessions, after[j].family = s.family, after[j].revoked = "no"
               PROVE  FALSE
    OBVIOUS
  <2>1. j # i
    BY <1>1, <1>2, <1>3, <1>6
  <2>2. after[j] = sessions[j]
    BY <1>6, <2>1
  <2> QED BY <1>1, <1>3, <1>5, <2>1, <2>2 DEF IdentityInv, Identity!OneLiveSession, Identity!IsActive
<1>9. /\ sessions' \in Seq(SessionRow) /\ Len(sessions') = Len(sessions) + 1
      /\ \A j \in DOMAIN sessions : sessions'[j] = after[j]
      /\ SessionsAreRooted' /\ Identity!OneLiveSession'
  <2>1. /\ \A v \in Users : users[v].exists => users'[v].exists
        /\ users'[s.user].exists
        /\ s.family \in 1 .. Len(sessions) + 1 /\ s.parent <= Len(sessions) + 1 /\ s.replaced = 0
    BY <1>1, <1>3, <1>5
  <2>2. Marked(after, Len(sessions) + 1) /\ s \in SessionRow /\ sessions' = Identity!AddSession(after, s)
    BY <1>4, <1>5, <1>7
  <2> QED BY <1>8, <2>1, <2>2, AddedKeep
<1>10. \A d \in Clients \ {c} :
         logins[d].phase = "held" /\ logins[d].session \in logins[d].rows =>
           sessions'[logins[d].session].revoked = "no"
  <2>1. \A d \in Clients \ {c} :
          /\ logins[d].phase = "held" => logins[d].session # i /\ logins[d].session \in DOMAIN sessions
          /\ logins[d].phase = "held" /\ logins[d].session \in logins[d].rows =>
               sessions[logins[d].session].revoked = "no"
    BY <1>1, RequestIs DEF IdentityInv, SessionsAreLocked, HoldsSession, RequestIsAbout
  <2>2. \A j \in DOMAIN sessions \ {i} : sessions'[j] = sessions[j]
    BY <1>6, <1>9
  <2> QED BY <2>1, <2>2
<1>11. /\ users' \in [Users -> UserRow] /\ tokens' \subseteq AccessTokens
       /\ TokensAreDated' /\ Identity!VersionDeterminesRoles'
  <2>1. users \in [Users -> UserRow]
    BY DEF IdentityInv, AccountShapes
  <2>2. users' = [users EXCEPT ![u] = users[u]] /\ users[u] \in UserRow
    BY <1>1, <1>3, <2>1
  <2> HIDE DEF u
  <2> QED BY <1>1, <1>3, <2>2, IssuedKeep
<1>12. GuessesAreCounted' /\ guesses' \in [Users -> Nat]
  BY <1>1 DEF IdentityInv, AccountShapes, GuessesAreCounted
<1>13. /\ buckets' \in [Users -> BucketRow]
       /\ \A v \in Users : \/ buckets'[v].owner = None
                           \/ buckets'[v].owner = buckets[v].owner /\ buckets[v].owner # c
  BY <1>1, BucketsOthers
<1>14. Adds(logins[c]) /\ \A v \in Users : users'[v].version = users[v].version
  BY <1>1 DEF Adds
<1> QED BY <1>1, <1>2, <1>9, <1>10, <1>11, <1>12, <1>13, <1>14, EndingKeeps

\* What the answers leave of sessions and their locks, where no session changes.
LEMMA SessionsOthers ==
  ASSUME IdentityInv, NEW c \in Clients, sessions' = sessions
  PROVE  /\ sessions' \in Seq(SessionRow) /\ Len(sessions') = Len(sessions)
         /\ \A d \in Clients \ {c} :
              logins[d].phase = "held" /\ logins[d].session \in logins[d].rows =>
                sessions'[logins[d].session].revoked = "no"
BY DEF IdentityInv, AccountShapes, SessionsAreLocked

\* An administrator changes a role.
LEMMA ChangeRoleKeeps ==
  ASSUME Identity!IdentityAssumption, IdentityInv, NEW c \in Clients, NEW role \in Identity!Roles,
         NEW action \in {"ASSIGN", "REVOKE"}, Identity!ChangeRole(c, role, action)
  PROVE  IdentityInv'
<1> DEFINE u == logins[c].user
           next == Identity!Reassigned(users[u].roles, role, action)
           version == IF next # users[u].roles THEN users[u].version + 1 ELSE users[u].version
           answer == IF next # users[u].roles THEN "SUCCESS" ELSE "NO_CHANGE"
           row == users'[u]
<1>1. /\ logins[c].phase = "authorized" /\ u \in Users
      /\ users' = [users EXCEPT ![u].roles = next, ![u].version = version]
      /\ logins' = Identity!Answer(c, answer)
      /\ sessions' = sessions /\ buckets' = buckets /\ tokens' = tokens /\ guesses' = guesses
  BY RequestIs DEF Identity!ChangeRole, RequestIsAbout
<1>2. answer \in Answers
  BY DEF Answers
<1>3. /\ users \in [Users -> UserRow] /\ guesses \in [Users -> Nat] /\ users[u] \in UserRow
      /\ users[u].version \in Nat /\ users[u].roles \subseteq Identity!Roles
      /\ guesses[u] \in Nat /\ guesses[u] <= LockoutThreshold
      /\ users[u].locked = "no" => guesses[u] <= users[u].failed /\ users[u].failed < LockoutThreshold
      /\ ~users[u].exists => guesses[u] = 0
  BY <1>1, AccountIs DEF IdentityInv, AccountShapes
<1>4. next \in SUBSET Identity!Roles /\ version \in Nat
  BY <1>3 DEF Identity!Reassigned
<1>5. \/ version = users[u].version /\ next = users[u].roles
      \/ version = users[u].version + 1
  OBVIOUS
<1> HIDE DEF next, version, answer, u
<1>6. /\ users' = [users EXCEPT ![u] = row] /\ row \in UserRow /\ row.exists = users[u].exists
      /\ row.roles = next /\ row.version = version /\ row.failed = users[u].failed
      /\ row.locked = users[u].locked
  BY <1>1, <1>3, <1>4 DEF UserRow
<1> HIDE DEF row
<1>7. /\ users' \in [Users -> UserRow] /\ tokens' \subseteq AccessTokens
      /\ TokensAreDated' /\ Identity!VersionDeterminesRoles'
  <2>1. /\ users[u].exists => row.exists
        /\ \/ row.version = users[u].version /\ row.roles = users[u].roles
           \/ row.version > users[u].version
           \/ ~users[u].exists
        /\ \A t \in tokens' \ tokens :
             /\ t = [user |-> u, version |-> row.version, roles |-> row.roles]
             /\ row.exists
    BY <1>1, <1>3, <1>5, <1>6
  <2> QED BY <1>1, <1>6, <2>1, TokensKeep
<1>8. SessionsAreRooted' /\ Identity!OneLiveSession'
  BY <1>1, <1>6, RootsStay, ZenonT(60)
<1>9. GuessesAreCounted' /\ guesses' \in [Users -> Nat]
  <2>1. /\ guesses' = [guesses EXCEPT ![u] = guesses[u]] /\ guesses[u] \in Nat
        /\ guesses[u] <= LockoutThreshold
        /\ row.locked = "no" => guesses[u] <= row.failed /\ row.failed < LockoutThreshold
        /\ ~row.exists => guesses[u] = 0
    BY <1>1, <1>3, <1>6
  <2> QED BY <1>1, <1>6, <2>1, GuessesKeep
<1>10. /\ sessions' \in Seq(SessionRow) /\ Len(sessions') = Len(sessions)
       /\ \A d \in Clients \ {c} :
            logins[d].phase = "held" /\ logins[d].session \in logins[d].rows =>
              sessions'[logins[d].session].revoked = "no"
  BY <1>1, SessionsOthers
<1>11. /\ buckets' \in [Users -> BucketRow]
       /\ \A v \in Users : \/ buckets'[v].owner = None
                           \/ buckets'[v].owner = buckets[v].owner /\ buckets[v].owner # c
  BY <1>1, BucketsOthers
<1>12. \A v \in Users : \/ users'[v].version = users[v].version
                        \/ users'[v].version = users[v].version + 1 /\ Raises(logins[c], v)
  <2> SUFFICES ASSUME NEW v \in Users
               PROVE  \/ users'[v].version = users[v].version
                      \/ users'[v].version = users[v].version + 1 /\ Raises(logins[c], v)
    OBVIOUS
  <2>1. CASE v = u
    BY <1>1, <1>3, <1>5, <1>6, <2>1 DEF Raises, u
  <2>2. CASE v # u
    BY <1>3, <1>6, <2>2
  <2> QED BY <2>1, <2>2
<1> QED BY <1>1, <1>2, <1>7, <1>8, <1>9, <1>10, <1>11, <1>12, EndingKeeps

\* A bucket that counted an attempt and was committed is locked by nobody.
LEMMA CommittedIs ==
  ASSUME Identity!IdentityAssumption, NEW b \in BucketRow
  PROVE  /\ Identity!Committed(Identity!Counted(b)) \in BucketRow
         /\ Identity!Committed(Identity!Counted(b)).owner = None
<1> DEFINE fresh == IF b.elapsed
                    THEN [b EXCEPT !.attempts = 0, !.blocked = FALSE, !.elapsed = FALSE] ELSE b
           over == fresh.attempts + 1 > RateLimit
<1>1. fresh \in BucketRow
  BY DEF BucketRow
<1>2. fresh.attempts + 1 \in Nat /\ over \in BOOLEAN
  BY <1>1 DEF BucketRow
<1>3. Identity!Counted(b)
        = IF fresh.blocked THEN fresh
          ELSE [fresh EXCEPT !.attempts = fresh.attempts + 1, !.blocked = over]
  <2>1. [fresh EXCEPT !.attempts = @ + 1, !.blocked = over]
          = [fresh EXCEPT !.attempts = fresh.attempts + 1, !.blocked = over]
    OBVIOUS
  <2> QED BY <2>1, Zenon DEF Identity!Counted
<1> HIDE DEF fresh, over
<1>4. Identity!Counted(b) \in BucketRow
  BY <1>1, <1>2, <1>3 DEF BucketRow
<1> QED BY <1>4 DEF Identity!Committed, BucketRow

\* A login that fails commits what it counted.
LEMMA FailLoginKeeps ==
  ASSUME Identity!IdentityAssumption, IdentityInv, NEW c \in Clients,
         logins[c].phase = "checked", NEW row \in UserRow, NEW answer \in Answers,
         Identity!FailLogin(c, row, answer),
         row.exists = users[logins[c].user].exists, row.version = users[logins[c].user].version,
         row.roles = users[logins[c].user].roles,
         NEW g \in Nat, guesses' = [guesses EXCEPT ![logins[c].user] = g], g <= LockoutThreshold,
         row.locked = "no" => g <= row.failed /\ row.failed < LockoutThreshold,
         ~row.exists => g = 0
  PROVE  IdentityInv'
<1> DEFINE u == logins[c].user
           b == Identity!Committed(Identity!Counted(buckets[u]))
<1>1. /\ u \in Users /\ users' = [users EXCEPT ![u] = row]
      /\ buckets' = [buckets EXCEPT ![u] = b]
      /\ logins' = Identity!Answer(c, answer)
      /\ sessions' = sessions /\ tokens' = tokens
      /\ guesses' = [guesses EXCEPT ![u] = g]
  BY RequestIs DEF Identity!FailLogin, RequestIsAbout
<1>2. users \in [Users -> UserRow] /\ buckets \in [Users -> BucketRow]
  BY DEF IdentityInv, AccountShapes
<1>3. b \in BucketRow /\ b.owner = None
  BY <1>1, <1>2, CommittedIs
<1>4. row.exists = users[u].exists /\ row.version = users[u].version /\ row.roles = users[u].roles
  OBVIOUS
<1>5. \A v \in Users \ {u} : buckets[v].owner # None => buckets[v].owner # c
  BY DEF IdentityInv, BucketsAreOwned
<1> HIDE DEF b, u
<1>6. /\ buckets' \in [Users -> BucketRow]
      /\ \A v \in Users : \/ buckets'[v].owner = None
                          \/ buckets'[v].owner = buckets[v].owner /\ buckets[v].owner # c
  BY <1>1, <1>2, <1>3, <1>5
<1>7. /\ users' \in [Users -> UserRow] /\ tokens' \subseteq AccessTokens
      /\ TokensAreDated' /\ Identity!VersionDeterminesRoles'
  BY <1>1, <1>4, TokensKeep
<1>8. SessionsAreRooted' /\ Identity!OneLiveSession'
  BY <1>1, <1>4, RootsStay
<1>9. GuessesAreCounted' /\ guesses' \in [Users -> Nat]
  BY <1>1, GuessesKeep
<1>10. /\ sessions' \in Seq(SessionRow) /\ Len(sessions') = Len(sessions)
       /\ \A d \in Clients \ {c} :
            logins[d].phase = "held" /\ logins[d].session \in logins[d].rows =>
              sessions'[logins[d].session].revoked = "no"
  BY <1>1, SessionsOthers
<1>11. \A v \in Users : users'[v].version = users[v].version
  BY <1>1, <1>2, <1>4
<1> QED BY <1>1, <1>6, <1>7, <1>8, <1>9, <1>10, <1>11, EndingKeeps

\* A login that was refused, or that met a wrong password, a lockout or a disabled
\* account.
LEMMA RefusedLoginKeeps ==
  ASSUME Identity!IdentityAssumption, IdentityInv, NEW c \in Clients, logins[c].phase = "checked",
         \/ guesses' = guesses /\ Identity!FailLogin(c, users[logins[c].user], "RATE_LIMITED")
         \/ guesses' = guesses /\ Identity!FailLogin(c, users[logins[c].user], "INVALID_CREDENTIALS")
         \/ Identity!LockedOut(c)
         \/ users[logins[c].user].exists /\ Identity!WrongPassword(c)
         \/ Identity!Disabled(c)
  PROVE  IdentityInv'
<1> DEFINE u == logins[c].user
           x == users[u]
           user == Identity!Unlocked(x)
<1>1. u \in Users
  BY RequestIs DEF RequestIsAbout
<1>2. /\ x \in UserRow /\ guesses \in [Users -> Nat]
      /\ x.locked \in {"no", "yes", "past"} /\ x.failed \in Nat
      /\ guesses[u] \in Nat /\ guesses[u] <= LockoutThreshold
      /\ x.locked = "no" => guesses[u] <= x.failed /\ x.failed < LockoutThreshold
      /\ ~x.exists => guesses[u] = 0
  BY <1>1, AccountIs DEF IdentityInv, AccountShapes
<1>3. LockoutThreshold \in Nat \ {0}
  BY DEF Identity!IdentityAssumption
<1>4. {"RATE_LIMITED", "INVALID_CREDENTIALS", "ACCOUNT_LOCKED", "ACCOUNT_DISABLED"} \subseteq Answers
  BY DEF Answers, Revocations
<1>5. /\ user \in UserRow /\ user.exists = x.exists /\ user.version = x.version
      /\ user.roles = x.roles /\ user.failed \in Nat
      /\ x.locked = "past" => user.locked = "no" /\ user.failed = 0
      /\ x.locked # "past" => user = x
  BY <1>2 DEF Identity!Unlocked, UserRow
<1> HIDE DEF user
<1>6. ASSUME NEW answer \in Answers, guesses' = guesses, Identity!FailLogin(c, x, answer)
      PROVE  IdentityInv'
  <2>1. guesses' = [guesses EXCEPT ![u] = guesses[u]]
    BY <1>1, <1>2, <1>6
  <2> QED BY <1>2, <1>6, <2>1, FailLoginKeeps
<1>7. CASE Identity!LockedOut(c)
  BY <1>4, <1>6, <1>7 DEF Identity!LockedOut
<1>8. CASE x.exists /\ Identity!WrongPassword(c)
  <2> DEFINE g == IF x.locked = "past" THEN 1 ELSE guesses[u] + 1
             failed == user.failed + 1
             locked == IF failed >= LockoutThreshold THEN "yes" ELSE "no"
             row == [user EXCEPT !.failed = failed, !.locked = locked]
  <2>1. /\ guesses' = [guesses EXCEPT ![u] = g] /\ user.locked = "no"
        /\ Identity!FailLogin(c, row, "INVALID_CREDENTIALS")
    BY <1>8 DEF Identity!WrongPassword, user
  <2>2. /\ failed \in Nat /\ g \in Nat /\ g <= LockoutThreshold /\ g <= failed
        /\ locked = "no" => failed < LockoutThreshold
        /\ locked \in {"yes", "no"}
    BY <1>2, <1>3, <1>5, <2>1
  <2>3. /\ row \in UserRow /\ row.exists = x.exists /\ row.version = x.version
        /\ row.roles = x.roles /\ row.failed = failed /\ row.locked = locked
    <3> HIDE DEF failed, locked
    <3> QED BY <1>5, <2>2 DEF UserRow
  <2>4. /\ row.locked = "no" => g <= row.failed /\ row.failed < LockoutThreshold
        /\ ~row.exists => g = 0
    BY <1>8, <2>2, <2>3
  <2> HIDE DEF g, row
  <2> QED BY <1>4, <2>1, <2>2, <2>3, <2>4, FailLoginKeeps
<1>9. CASE Identity!Disabled(c)
  <2> DEFINE g == IF x.locked = "past" THEN 0 ELSE guesses[u]
  <2>1. /\ guesses' = [guesses EXCEPT ![u] = g]
        /\ Identity!FailLogin(c, user, "ACCOUNT_DISABLED")
    BY <1>9 DEF Identity!Disabled, user
  <2>2. /\ g \in Nat /\ g <= LockoutThreshold
        /\ user.locked = "no" => g <= user.failed /\ user.failed < LockoutThreshold
        /\ ~user.exists => g = 0
    BY <1>2, <1>3, <1>5
  <2> HIDE DEF g
  <2> QED BY <1>4, <1>5, <2>1, <2>2, FailLoginKeeps
<1> QED BY <1>4, <1>6, <1>7, <1>8, <1>9

\* A login that succeeds begins a family of its own.
LEMMA LoggedInKeeps ==
  ASSUME Identity!IdentityAssumption, IdentityInv, NEW c \in Clients,
         logins[c].op = "login", logins[c].phase = "checked",
         users[logins[c].user].exists, Identity!LoggedIn(c)
  PROVE  IdentityInv'
<1> DEFINE u == logins[c].user
           n == Len(sessions)
           row == users'[u]
           s == Session(u, n + 1, 0, 0, "no", FALSE)
<1>1. /\ u \in Users /\ users[u].exists
      /\ users' = [users EXCEPT ![u].failed = 0, ![u].locked = "no"]
      /\ buckets' = [buckets EXCEPT ![u] = Identity!NoBucket]
      /\ tokens' = tokens \cup {Identity!AccessToken(u)}
      /\ guesses' = [guesses EXCEPT ![u] = 0]
      /\ logins' = Identity!Answer(c, "SUCCESS")
  BY RequestIs DEF Identity!LoggedIn, RequestIsAbout
<1>2. "SUCCESS" \in Answers
  BY DEF Answers
<1>3. /\ users \in [Users -> UserRow] /\ buckets \in [Users -> BucketRow]
      /\ sessions \in Seq(SessionRow) /\ n \in Nat /\ DOMAIN sessions = 1 .. n
      /\ Identity!NextSession = n + 1 /\ LockoutThreshold \in Nat \ {0}
      /\ \A i \in DOMAIN sessions : sessions[i].family \in 1 .. i
  BY SessionsAre, RoomChecked DEF IdentityInv, AccountShapes, SessionsAreRooted,
                                  Identity!IdentityAssumption
<1>4. sessions' = Identity!AddSession(sessions, s)
  BY <1>3 DEF Identity!LoggedIn, Identity!NewSession, Session
<1>5. /\ s \in SessionRow /\ s.user = u /\ s.family = n + 1 /\ s.parent = 0 /\ s.replaced = 0
  BY <1>1, <1>3 DEF Session, SessionRow
<1>6. /\ users' = [users EXCEPT ![u] = row] /\ row \in UserRow /\ row.exists = users[u].exists
      /\ row.roles = users[u].roles /\ row.version = users[u].version /\ row.failed = 0
      /\ row.locked = "no"
  <2> HIDE DEF u
  <2> QED BY <1>1, <1>3 DEF UserRow
<1>7. Identity!NoBucket \in BucketRow /\ Identity!NoBucket.owner = None
  BY DEF Identity!NoBucket, BucketRow
<1>8. \A v \in Users \ {u} : buckets[v].owner # None => buckets[v].owner # c
  BY DEF IdentityInv, BucketsAreOwned
<1> HIDE DEF s, row, u
<1>9. /\ buckets' \in [Users -> BucketRow]
      /\ \A v \in Users : \/ buckets'[v].owner = None
                          \/ buckets'[v].owner = buckets[v].owner /\ buckets[v].owner # c
  BY <1>1, <1>3, <1>7, <1>8
<1>10. /\ users' \in [Users -> UserRow] /\ tokens' \subseteq AccessTokens
       /\ TokensAreDated' /\ Identity!VersionDeterminesRoles'
  BY <1>1, <1>6, IssuedKeep
<1>11. GuessesAreCounted' /\ guesses' \in [Users -> Nat]
  <2>1. /\ 0 \in Nat /\ 0 <= LockoutThreshold
        /\ row.locked = "no" => 0 <= row.failed /\ row.failed < LockoutThreshold
        /\ ~row.exists => 0 = 0
    BY <1>3, <1>6
  <2> QED BY <1>1, <1>6, <2>1, GuessesKeep
<1>12. Marked(sessions, n + 1)
  <2>1. \A i \in DOMAIN sessions : sessions[i].replaced \in Nat /\ sessions[i].replaced <= n
    <3>1. \A i \in DOMAIN sessions : sessions[i] \in SessionRow
      BY SessionsAre
    <3> QED BY <3>1 DEF SessionRow, IdentityInv, SessionsAreRooted
  <2>2. \A i \in DOMAIN sessions : sessions[i].replaced <= n + 1
    BY <1>3, <2>1
  <2> QED BY <1>3, <2>2 DEF Marked
<1>13. \A i \in DOMAIN sessions : sessions[i].family = s.family => sessions[i].revoked # "no"
  BY <1>3, <1>5
<1>14. /\ sessions' \in Seq(SessionRow) /\ Len(sessions') = Len(sessions) + 1
       /\ \A i \in DOMAIN sessions : sessions'[i] = sessions[i]
       /\ SessionsAreRooted' /\ Identity!OneLiveSession'
  <2>1. /\ \A v \in Users : users[v].exists => users'[v].exists
        /\ users'[s.user].exists
        /\ s.family \in 1 .. Len(sessions) + 1 /\ s.parent <= Len(sessions) + 1 /\ s.replaced = 0
    BY <1>1, <1>3, <1>5, <1>6
  <2>2. Marked(sessions, Len(sessions) + 1) /\ s \in SessionRow
        /\ sessions' = Identity!AddSession(sessions, s)
    BY <1>4, <1>5, <1>12
  <2> QED BY <1>13, <2>1, <2>2, AddedKeep
<1>15. \A d \in Clients \ {c} :
         logins[d].phase = "held" /\ logins[d].session \in logins[d].rows =>
           sessions'[logins[d].session].revoked = "no"
  <2>1. \A d \in Clients :
          /\ logins[d].phase = "held" => logins[d].session \in DOMAIN sessions
          /\ logins[d].phase = "held" /\ logins[d].session \in logins[d].rows =>
               sessions[logins[d].session].revoked = "no"
    BY RequestIs DEF IdentityInv, SessionsAreLocked, RequestIsAbout
  <2> QED BY <1>14, <2>1
<1>16. Adds(logins[c]) /\ \A v \in Users : users'[v].version = users[v].version
  BY <1>3, <1>6 DEF Adds
<1> QED BY <1>1, <1>2, <1>9, <1>10, <1>11, <1>14, <1>15, <1>16, EndingKeeps

LEMMA FinishLoginKeeps ==
  ASSUME Identity!IdentityAssumption, IdentityInv, NEW c \in Clients, Identity!FinishLogin(c)
  PROVE  IdentityInv'
<1>1. logins[c].op = "login" /\ logins[c].phase = "checked"
  BY DEF Identity!FinishLogin
<1>2. \/ guesses' = guesses /\ Identity!FailLogin(c, users[logins[c].user], "RATE_LIMITED")
      \/ guesses' = guesses /\ Identity!FailLogin(c, users[logins[c].user], "INVALID_CREDENTIALS")
      \/ Identity!LockedOut(c)
      \/ users[logins[c].user].exists /\ Identity!WrongPassword(c)
      \/ Identity!Disabled(c)
      \/ users[logins[c].user].exists /\ Identity!LoggedIn(c)
  BY DEF Identity!FinishLogin
<1> QED BY <1>1, <1>2, RefusedLoginKeeps, LoggedInKeeps

-----------------------------------------------------------------------------
(* Accounts stay guarded.                                                    *)

\* Every step of Identity Service keeps the invariant.
LEMMA IdentityStepKeeps ==
  ASSUME Identity!IdentityAssumption, IdentityInv, Identity!Next
  PROVE  IdentityInv'
<1>1. CASE Identity!Login
  BY <1>1, BeginLoginKeeps, SelectBucketKeeps, FinishLoginKeeps DEF Identity!Login
<1>2. CASE Identity!Refresh
  <2>1. ASSUME NEW c \in Clients, NEW i \in DOMAIN sessions, Identity!LockSession(c, "refresh", i)
        PROVE  IdentityInv'
    BY <2>1, LockSessionKeeps
  <2> QED BY <1>2, <2>1, RotateKeeps, RefuseRefreshKeeps DEF Identity!Refresh
<1>3. CASE Identity!Logout
  <2>1. ASSUME NEW c \in Clients, NEW i \in DOMAIN sessions, Identity!LockSession(c, "logout", i)
        PROVE  IdentityInv'
    BY <2>1, LockSessionKeeps
  <2> QED BY <1>3, <2>1, StartRevokeKeeps, FinishRevokeKeeps DEF Identity!Logout
<1>4. CASE Identity!Administer
  BY <1>4, AuthorizeKeeps, ChangeRoleKeeps, RefuseSelfRevokeKeeps DEF Identity!Administer
<1>5. CASE Identity!Environment
  BY <1>5, RegisterKeeps, BootstrapAdminKeeps, OperatorKeeps, WindowPassesKeeps, SessionExpiresKeeps
     DEF Identity!Environment
<1> QED BY <1>1, <1>2, <1>3, <1>4, <1>5 DEF Identity!Next

LEMMA IdentityStutterKeeps ==
  ASSUME IdentityInv, UNCHANGED Identity!vars
  PROVE  IdentityInv'
<1>1. /\ users' = users /\ buckets' = buckets /\ sessions' = sessions /\ tokens' = tokens
      /\ logins' = logins /\ guesses' = guesses
  BY DEF Identity!vars
<1>2. AccountShapes' /\ RequestsFit' /\ AccountsHaveRoom' /\ BucketsAreOwned' /\ SessionsAreLocked'
  BY <1>1 DEF IdentityInv, AccountShapes, RequestsFit, RequestIsAbout, AccountsHaveRoom, Adding,
              Raising, BucketsAreOwned, SessionsAreLocked, HoldsSession
<1>3. SessionsAreRooted' /\ Identity!OneLiveSession' /\ TokensAreDated'
      /\ Identity!VersionDeterminesRoles' /\ GuessesAreCounted'
  BY <1>1 DEF IdentityInv, SessionsAreRooted, Identity!OneLiveSession, Identity!IsActive,
              TokensAreDated, Identity!VersionDeterminesRoles, GuessesAreCounted
<1> QED BY <1>2, <1>3 DEF IdentityInv

\* What the invariant says of the rows, in the terms of the service.
LEMMA GuardedFollows ==
  ASSUME Identity!IdentityAssumption, IdentityInv
  PROVE  /\ Identity!TypeOK /\ Identity!OneLiveSession /\ Identity!VersionDeterminesRoles
         /\ Identity!LockoutHolds
<1> DEFINE n == Len(sessions)
<1>1. n \in Nat /\ DOMAIN sessions = 1 .. n /\ n <= MaxSessions /\ MaxSessions \in Nat
  <2>1. IsFiniteSet(Adding)
    <3>1. IsFiniteSet(Clients)
      BY DEF Identity!IdentityAssumption, Identity!IsFiniteSet, IsFiniteSet
    <3> QED BY <3>1, FS_Subset DEF Adding
  <2>2. Cardinality(Adding) \in Nat
    BY <2>1, FS_CardinalityType
  <2>3. n + Cardinality(Adding) <= MaxSessions
    BY DEF IdentityInv, AccountsHaveRoom
  <2>4. n \in Nat /\ DOMAIN sessions = 1 .. n /\ MaxSessions \in Nat
    BY SessionsAre DEF Identity!IdentityAssumption
  <2> HIDE DEF n
  <2> QED BY <2>2, <2>3, <2>4
<1>2. ASSUME NEW u \in Users
      PROVE  /\ users[u].roles \subseteq Identity!Roles
             /\ users[u].version \in 1 .. MaxVersion /\ users[u].failed \in Nat
             /\ buckets[u].owner # None => logins[buckets[u].owner].phase = "checked"
  <2>1. /\ users[u].version \in Nat /\ users[u].version >= 1 /\ MaxVersion \in Nat
        /\ users[u].version + Cardinality(Raising(u)) <= MaxVersion
        /\ Cardinality(Raising(u)) \in Nat
        /\ users[u].roles \subseteq Identity!Roles /\ users[u].failed \in Nat
    BY AccountIs DEF Identity!IdentityAssumption
  <2>2. users[u].version \in 1 .. MaxVersion
    BY <2>1
  <2> QED BY <2>1, <2>2 DEF IdentityInv, BucketsAreOwned
<1>3. DOMAIN sessions = 1 .. Identity!Cardinality(DOMAIN sessions)
  <2>1. \A S : Identity!Cardinality(S) = Cardinality(S)
    BY DEF Identity!Cardinality, Cardinality
  <2>2. ASSUME NEW m \in Nat PROVE Cardinality(1 .. m) = m
    BY FS_Interval
  <2> QED BY <1>1, <2>1, <2>2
<1>4. ASSUME NEW i \in DOMAIN sessions PROVE sessions[i] \in Identity!Sessions
  <2>1. sessions[i] \in SessionRow
    BY SessionsAre
  <2>2. sessions[i].family \in 1 .. i /\ sessions[i].parent <= n /\ sessions[i].replaced <= n
    BY DEF IdentityInv, SessionsAreRooted
  <2>3. sessions[i].parent \in Nat /\ sessions[i].replaced \in Nat
    BY <2>1 DEF SessionRow
  <2> HIDE DEF n
  <2>4. /\ sessions[i].family \in 1 .. MaxSessions /\ sessions[i].parent \in 0 .. MaxSessions
        /\ sessions[i].replaced \in 0 .. MaxSessions
    BY <1>1, <2>2, <2>3
  <2> QED BY <2>1, <2>4 DEF SessionRow, Revocations, Identity!Sessions
<1>5. \A t \in tokens : t.user \in Users /\ t.roles \subseteq Identity!Roles
  BY DEF IdentityInv, AccountShapes, AccessTokens
<1>6. Identity!TypeOK
  BY <1>2, <1>3, <1>4, <1>5 DEF Identity!TypeOK
<1> QED BY <1>6 DEF IdentityInv, GuessesAreCounted, Identity!LockoutHolds

\* Requests to Identity Service that interleave statement by statement, for any
\* accounts, requests, thresholds and bounds: a family of refresh tokens has one live
\* session, a token of an account's present version carries its present roles, and no
\* more wrong passwords are answered than the lockout threshold allows.
THEOREM AccountsStayGuarded ==
  ASSUME Identity!IdentityAssumption
  PROVE  Identity!Spec =>
           [](/\ Identity!TypeOK /\ Identity!OneLiveSession /\ Identity!VersionDeterminesRoles
              /\ Identity!LockoutHolds)
<1>1. Identity!Init => IdentityInv
  BY InitIsGuarded
<1>2. IdentityInv /\ [Identity!Next]_(Identity!vars) => IdentityInv'
  BY IdentityStepKeeps, IdentityStutterKeeps
<1>3. IdentityInv => /\ Identity!TypeOK /\ Identity!OneLiveSession
                     /\ Identity!VersionDeterminesRoles /\ Identity!LockoutHolds
  BY GuardedFollows
<1> QED BY <1>1, <1>2, <1>3, PTL DEF Identity!Spec

\* The same beside the other services: what they do leaves the accounts alone.
THEOREM GuardedAmongServices ==
  ASSUME Identity!IdentityAssumption
  PROVE  MCSpec => []AccountsAreGuarded
<1>1. MCInit => IdentityInv
  BY InitIsGuarded DEF MCInit
<1>2. ASSUME IdentityInv, [MCNext]_<<part, vars, identityVars, customerVars, eventVars>>
      PROVE  IdentityInv'
  <2>1. Identity!Next \/ UNCHANGED identityVars
    BY <1>2 DEF MCNext
  <2>2. CASE Identity!Next
    BY <1>2, <2>2, IdentityStepKeeps
  <2>3. CASE UNCHANGED identityVars
    BY <1>2, <2>3, IdentityStutterKeeps DEF identityVars, Identity!vars
  <2> QED BY <2>1, <2>2, <2>3
<1>3. IdentityInv => AccountsAreGuarded
  BY GuardedFollows DEF AccountsAreGuarded
<1> QED BY <1>1, <1>2, <1>3, PTL DEF MCSpec

-----------------------------------------------------------------------------
(* The mappings and profiles of Customer Service: the inductive invariant,   *)
(* for any callers, and what more holds where one caller moves.              *)

CustomerRow == [email : Customers!Emails, status : {"ACTIVE", "INACTIVE"}, version : Nat]
LinkRow == [customer : Nat, status : {"ACTIVE", "UNLINKED"}, version : Nat]
CommandPhases == {"consenting", "loading", "flushing"}
LinkPhases == {"subject", "customer", "mapping", "saving"}
AgentCall ==
  [op : {"none", "create", "replace", "deactivate", "consent", "link", "unlink"},
   phase : {"idle", "adding"} \cup CommandPhases \cup LinkPhases,
   id : Nat, subject : Subjects \cup {None}, key : Keys \cup {None}, from : Nat, number : Nat,
   entity : CustomerRow \cup LinkRow \cup {None}, loaded : CustomerRow \cup LinkRow \cup {None},
   answer : {"none", "SUCCESS", "DUPLICATE_EMAIL", "PRECONDITION_FAILED", "IDENTITY_CONFLICT"}]

\* The shape of the rows and of the requests.
CustomerShapes ==
  /\ customers \in Seq(CustomerRow)
  /\ mappings \in [Subjects -> LinkRow \cup {None}]
  /\ calls \in [Agents -> AgentCall]
  /\ asked \in 0 .. MaxCalls

\* Requests that have not read the mapping they build on.
Linking == {c \in Agents : calls[c].phase \in {"subject", "customer"}}

\* A mapping that is stored, or read, has counted the requests that made it.
IsLink(row) ==
  /\ row \in LinkRow /\ row.customer \in DOMAIN customers
  /\ row.version >= 1 /\ row.version + Cardinality(Linking) <= asked + 1

\* What the request x is about, by its phase.
CallIsAbout(x) ==
  /\ x.phase = "adding" => x.entity \in CustomerRow /\ x.entity.version = 1
  /\ x.phase \in CommandPhases =>
       /\ x.id \in DOMAIN customers
       /\ x.entity \in CustomerRow /\ x.entity.version \in 2 .. asked + 1
  /\ x.phase = "flushing" => x.loaded \in CustomerRow
  /\ x.phase \in LinkPhases => x.id \in DOMAIN customers /\ x.subject \in Subjects
  /\ x.phase = "customer" => x.entity = None \/ IsLink(x.entity)
  /\ x.phase \in {"mapping", "saving"} => IsLink(x.entity)
  /\ x.phase = "saving" => x.loaded = None \/ (IsLink(x.loaded) /\ mappings[x.subject] # None)

CallsFit == \A c \in Agents : CallIsAbout(calls[c])

RowsFit ==
  /\ Cardinality(Linking) <= asked
  /\ \A i \in DOMAIN customers : customers[i].version \in 1 .. asked + 1
  /\ \A s \in Subjects : mappings[s] # None => IsLink(mappings[s])

\* A customer has one mapping row.
MappingsAreApart ==
  \A s, t \in Subjects :
    mappings[s] # None /\ mappings[t] # None /\ mappings[s].customer = mappings[t].customer => s = t

CustomersInv == CustomerShapes /\ CallsFit /\ RowsFit /\ MappingsAreApart

\* Where one caller moves, what its request read is what is stored.
CopyIsCurrent(x) ==
  /\ x.phase \in LinkPhases => x.op \in {"link", "unlink"}
  /\ x.phase \in {"subject", "customer"} => x.op = "link"
  /\ x.phase = "customer" => x.entity = mappings[x.subject]
  /\ x.phase \in {"mapping", "saving"} /\ x.op = "link" =>
       /\ x.entity.customer = x.id /\ x.entity.status = "ACTIVE"
       /\ mappings[x.subject] # None =>
            mappings[x.subject].customer = x.id \/ mappings[x.subject].status = "UNLINKED"
  /\ x.phase = "saving" => x.loaded = mappings[x.subject]

LinksStand ==
  \A l \in links :
    /\ l.subject \in Subjects /\ mappings[l.subject] # None
    /\ mappings[l.subject].customer = l.id /\ mappings[l.subject].status = "ACTIVE"

SoleCallerInv ==
  /\ \A c \in Agents \ {Lead} : calls[c] = Customers!NoCall
  /\ CopyIsCurrent(calls[Lead])
  /\ LinksStand

-----------------------------------------------------------------------------
(* Requests and rows of Customer Service as the actions write them.          *)

CallFields ==
  {"op", "phase", "id", "subject", "key", "from", "number", "entity", "loaded", "answer"}

\* A request is known by its fields.
LEMMA CallOfFields ==
  ASSUME NEW x, x = [i \in CallFields |-> x[i]],
         x.op \in {"none", "create", "replace", "deactivate", "consent", "link", "unlink"},
         x.phase \in {"idle", "adding"} \cup CommandPhases \cup LinkPhases,
         x.id \in Nat, x.subject \in Subjects \cup {None}, x.key \in Keys \cup {None},
         x.from \in Nat, x.number \in Nat,
         x.entity \in CustomerRow \cup LinkRow \cup {None},
         x.loaded \in CustomerRow \cup LinkRow \cup {None},
         x.answer \in {"none", "SUCCESS", "DUPLICATE_EMAIL", "PRECONDITION_FAILED", "IDENTITY_CONFLICT"}
  PROVE  x \in AgentCall
<1>1. x = [op |-> x.op, phase |-> x.phase, id |-> x.id, subject |-> x.subject, key |-> x.key,
           from |-> x.from, number |-> x.number, entity |-> x.entity, loaded |-> x.loaded,
           answer |-> x.answer]
  BY DEF CallFields
<1> QED BY <1>1 DEF AgentCall

LEMMA NoCallIs ==
  Customers!NoCall =
    [op |-> "none", phase |-> "idle", id |-> 0, subject |-> None, key |-> None,
     from |-> 0, number |-> 0, entity |-> None, loaded |-> None, answer |-> "none"]
BY DEF Customers!NoCall

LEMMA NoCallIsCall ==
  Customers!NoCall \in AgentCall
BY NoCallIs DEF AgentCall

\* A request as it begins.
LEMMA CallBegins ==
  ASSUME CustomersInv, NEW c \in Agents, NEW x \in AgentCall, Customers!Begin(c, x)
  PROVE  \E y \in AgentCall :
           /\ calls' = [calls EXCEPT ![c] = y] /\ calls[c].phase = "idle"
           /\ asked' = asked + 1 /\ asked < MaxCalls
           /\ y.op = x.op /\ y.phase = x.phase /\ y.id = x.id /\ y.subject = x.subject
           /\ y.entity = x.entity /\ y.loaded = x.loaded
<1> DEFINE y == [x EXCEPT !.number = asked + 1]
<1>1. asked + 1 \in Nat
  BY DEF CustomersInv, CustomerShapes
<1>2. /\ y \in AgentCall
      /\ y.op = x.op /\ y.phase = x.phase /\ y.id = x.id /\ y.subject = x.subject
      /\ y.entity = x.entity /\ y.loaded = x.loaded
  BY <1>1 DEF AgentCall
<1>3. calls' = [calls EXCEPT ![c] = y] /\ calls[c].phase = "idle"
      /\ asked' = asked + 1 /\ asked < MaxCalls
  BY DEF Customers!Begin
<1> HIDE DEF y
<1> QED BY <1>2, <1>3

\* A request that is refused at once,
LEMMA RefusedIs ==
  ASSUME NEW op \in {"create", "replace", "deactivate", "consent", "link", "unlink"},
         NEW answer \in {"DUPLICATE_EMAIL", "PRECONDITION_FAILED"}
  PROVE  /\ Customers!Refused(op, answer) \in AgentCall
         /\ Customers!Refused(op, answer).phase = "idle"
<1>1. ASSUME NEW x, x = [Customers!NoCall EXCEPT !.op = op, !.answer = answer]
      PROVE  x \in AgentCall /\ x.phase = "idle"
  <2>1. /\ x.op = op /\ x.phase = "idle" /\ x.id = 0 /\ x.subject = None /\ x.key = None
        /\ x.from = 0 /\ x.number = 0 /\ x.entity = None /\ x.loaded = None /\ x.answer = answer
        /\ x = [i \in CallFields |-> x[i]]
    BY <1>1, NoCallIs DEF CallFields
  <2> QED BY <2>1, CallOfFields
<1> QED BY <1>1 DEF Customers!Refused

\* and one that is answered.
LEMMA CallEnds ==
  ASSUME CustomersInv, NEW c \in Agents,
         NEW answer \in {"SUCCESS", "DUPLICATE_EMAIL", "IDENTITY_CONFLICT"},
         calls' = Customers!Answer(c, answer)
  PROVE  \E y \in AgentCall : calls' = [calls EXCEPT ![c] = y] /\ y.phase = "idle"
<1>1. calls[c].op \in {"none", "create", "replace", "deactivate", "consent", "link", "unlink"}
  <2>1. calls[c] \in AgentCall
    BY DEF CustomersInv, CustomerShapes
  <2> QED BY <2>1 DEF AgentCall
<1>2. ASSUME NEW op, NEW x, x = [Customers!NoCall EXCEPT !.op = op, !.answer = answer],
             op \in {"none", "create", "replace", "deactivate", "consent", "link", "unlink"}
      PROVE  x \in AgentCall /\ x.phase = "idle"
  <2>1. /\ x.op = op /\ x.phase = "idle" /\ x.id = 0 /\ x.subject = None /\ x.key = None
        /\ x.from = 0 /\ x.number = 0 /\ x.entity = None /\ x.loaded = None /\ x.answer = answer
        /\ x = [i \in CallFields |-> x[i]]
    BY <1>2, NoCallIs DEF CallFields
  <2>2. x.op \in {"none", "create", "replace", "deactivate", "consent", "link", "unlink"}
    BY <1>2, <2>1
  <2> QED BY <2>1, <2>2, CallOfFields
<1> DEFINE y == [Customers!NoCall EXCEPT !.op = calls[c].op, !.answer = answer]
<1>3. y \in AgentCall /\ y.phase = "idle"
  BY <1>1, <1>2
<1>4. calls' = [calls EXCEPT ![c] = y]
  BY DEF Customers!Answer
<1> HIDE DEF y
<1> QED BY <1>3, <1>4

\* What a flush makes of a customer's row,
LEMMA FlushedCustomerIs ==
  ASSUME NEW row \in CustomerRow, NEW loaded, NEW entity \in CustomerRow
  PROVE  /\ Customers!Flushed(row, loaded, entity) \in CustomerRow
         /\ Customers!Flushed(row, loaded, entity).status
              = IF entity.status # loaded.status THEN entity.status ELSE row.status
         /\ Customers!Flushed(row, loaded, entity).version
              = IF entity.version # loaded.version THEN entity.version ELSE row.version
<1> DEFINE f == Customers!Flushed(row, loaded, entity)
<1>1. DOMAIN row = {"email", "status", "version"}
  BY DEF CustomerRow
<1>2. f = [column \in {"email", "status", "version"} |->
             IF entity[column] # loaded[column] THEN entity[column] ELSE row[column]]
  BY <1>1 DEF Customers!Flushed
<1> HIDE DEF f
<1>3. /\ f.email = IF entity.email # loaded.email THEN entity.email ELSE row.email
      /\ f.status = IF entity.status # loaded.status THEN entity.status ELSE row.status
      /\ f.version = IF entity.version # loaded.version THEN entity.version ELSE row.version
      /\ f = [email |-> f.email, status |-> f.status, version |-> f.version]
  BY <1>2
<1>4. f.email \in Customers!Emails /\ f.status \in {"ACTIVE", "INACTIVE"} /\ f.version \in Nat
  BY <1>3 DEF CustomerRow
<1>5. f \in CustomerRow
  BY <1>3, <1>4 DEF CustomerRow
<1> QED BY <1>3, <1>5 DEF f

\* and of a mapping's.
LEMMA FlushedLinkIs ==
  ASSUME NEW row \in LinkRow, NEW loaded, NEW entity \in LinkRow
  PROVE  /\ Customers!Flushed(row, loaded, entity) \in LinkRow
         /\ Customers!Flushed(row, loaded, entity).customer
              = IF entity.customer # loaded.customer THEN entity.customer ELSE row.customer
         /\ Customers!Flushed(row, loaded, entity).status
              = IF entity.status # loaded.status THEN entity.status ELSE row.status
         /\ Customers!Flushed(row, loaded, entity).version
              = IF entity.version # loaded.version THEN entity.version ELSE row.version
<1> DEFINE f == Customers!Flushed(row, loaded, entity)
<1>1. DOMAIN row = {"customer", "status", "version"}
  BY DEF LinkRow
<1>2. f = [column \in {"customer", "status", "version"} |->
             IF entity[column] # loaded[column] THEN entity[column] ELSE row[column]]
  BY <1>1 DEF Customers!Flushed
<1> HIDE DEF f
<1>3. /\ f.customer = IF entity.customer # loaded.customer THEN entity.customer ELSE row.customer
      /\ f.status = IF entity.status # loaded.status THEN entity.status ELSE row.status
      /\ f.version = IF entity.version # loaded.version THEN entity.version ELSE row.version
      /\ f = [customer |-> f.customer, status |-> f.status, version |-> f.version]
  BY <1>2
<1>4. f.customer \in Nat /\ f.status \in {"ACTIVE", "UNLINKED"} /\ f.version \in Nat
  BY <1>3 DEF LinkRow
<1>5. f \in LinkRow
  BY <1>3, <1>4 DEF LinkRow
<1> QED BY <1>3, <1>5 DEF f

\* A step of the request of caller c, which becomes y: it counts when it begins, and
\* it may wait for a mapping only if it just began or did already.
AgentStep(c, y) ==
  /\ calls' = [calls EXCEPT ![c] = y]
  /\ \/ asked' = asked
        /\ (y.phase \in {"subject", "customer"} => calls[c].phase \in {"subject", "customer"})
     \/ asked' = asked + 1 /\ asked < MaxCalls /\ calls[c].phase = "idle"
  /\ DOMAIN customers \subseteq DOMAIN customers'

LEMMA AgentsAre ==
  ASSUME CustomersInv, NEW c \in Agents
  PROVE  /\ calls[c] \in AgentCall /\ CallIsAbout(calls[c])
         /\ calls[c].op \in {"none", "create", "replace", "deactivate", "consent", "link", "unlink"}
         /\ calls[c].id \in Nat
<1>1. calls[c] \in AgentCall /\ CallIsAbout(calls[c])
  BY DEF CustomersInv, CustomerShapes, CallsFit
<1> QED BY <1>1 DEF AgentCall

LEMMA CustomersAre ==
  ASSUME CustomersInv, NEW i \in DOMAIN customers
  PROVE  customers[i] \in CustomerRow /\ customers[i].version \in 1 .. asked + 1 /\ i \in Nat
<1>1. customers \in Seq(CustomerRow)
  BY DEF CustomersInv, CustomerShapes
<1>2. customers[i] \in CustomerRow /\ i \in Nat
  BY <1>1
<1> QED BY <1>2 DEF CustomersInv, RowsFit

\* How the requests that wait for a mapping are counted.
LEMMA LinkingMoves ==
  ASSUME Customers!CustomerAssumption, CustomersInv, NEW c \in Agents, NEW y,
         calls' = [calls EXCEPT ![c] = y]
  PROVE  /\ Cardinality(Linking) \in Nat /\ Cardinality(Linking') \in Nat
         /\ y.phase \in {"subject", "customer"} =>
              IF calls[c].phase \in {"subject", "customer"}
              THEN Cardinality(Linking') = Cardinality(Linking)
              ELSE Cardinality(Linking') = Cardinality(Linking) + 1
         /\ y.phase \notin {"subject", "customer"} =>
              IF calls[c].phase \in {"subject", "customer"}
              THEN Cardinality(Linking') = Cardinality(Linking) - 1
              ELSE Cardinality(Linking') = Cardinality(Linking)
<1>1. IsFiniteSet(Agents)
  BY DEF Customers!CustomerAssumption, Customers!IsFiniteSet, IsFiniteSet
<1>2. IsFiniteSet(Linking)
  <2>1. Linking \subseteq Agents
    BY DEF Linking
  <2> QED BY <1>1, <2>1, FS_Subset
<1>3. calls'[c] = y /\ \A d \in Agents \ {c} : calls'[d] = calls[d]
  BY DEF CustomersInv, CustomerShapes
<1>4. Linking' \ {c} = Linking \ {c}
  BY <1>3 DEF Linking
<1>5. /\ c \in Linking <=> calls[c].phase \in {"subject", "customer"}
      /\ c \in Linking' <=> y.phase \in {"subject", "customer"}
  BY <1>3 DEF Linking
<1> DEFINE S == Linking
           T == Linking'
<1>6. IsFiniteSet(S) /\ T \ {c} = S \ {c}
  BY <1>2, <1>4
<1>7. /\ Cardinality(S) \in Nat /\ Cardinality(T) \in Nat
      /\ c \in S /\ c \in T => Cardinality(T) = Cardinality(S)
      /\ c \notin S /\ c \notin T => Cardinality(T) = Cardinality(S)
      /\ c \in S /\ c \notin T => Cardinality(T) = Cardinality(S) - 1
      /\ c \notin S /\ c \in T => Cardinality(T) = Cardinality(S) + 1
  <2> HIDE DEF S, T
  <2> QED BY <1>6, OneDiffers
<1> QED BY <1>5, <1>7

\* A step leaves room for the requests that wait, and for one mapping if none waits less.
LEMMA RoomForLinks ==
  ASSUME Customers!CustomerAssumption, CustomersInv, NEW c \in Agents, NEW y, AgentStep(c, y)
  PROVE  /\ Cardinality(Linking) \in Nat /\ Cardinality(Linking') \in Nat
         /\ asked \in Nat /\ asked' \in 0 .. MaxCalls /\ asked <= asked'
         /\ Cardinality(Linking) <= asked
         /\ Cardinality(Linking') + asked <= Cardinality(Linking) + asked'
<1>1. asked \in 0 .. MaxCalls /\ MaxCalls \in Nat /\ Cardinality(Linking) <= asked
  BY DEF CustomersInv, CustomerShapes, RowsFit, Customers!CustomerAssumption
<1>2. calls' = [calls EXCEPT ![c] = y]
  BY DEF AgentStep
<1>3. /\ Cardinality(Linking) \in Nat /\ Cardinality(Linking') \in Nat
      /\ y.phase \in {"subject", "customer"} =>
           IF calls[c].phase \in {"subject", "customer"}
           THEN Cardinality(Linking') = Cardinality(Linking)
           ELSE Cardinality(Linking') = Cardinality(Linking) + 1
      /\ y.phase \notin {"subject", "customer"} =>
           IF calls[c].phase \in {"subject", "customer"}
           THEN Cardinality(Linking') = Cardinality(Linking) - 1
           ELSE Cardinality(Linking') = Cardinality(Linking)
  BY <1>2, LinkingMoves
<1>4. \/ asked' = asked
         /\ (y.phase \in {"subject", "customer"} => calls[c].phase \in {"subject", "customer"})
      \/ asked' = asked + 1 /\ asked < MaxCalls
  BY DEF AgentStep
<1> DEFINE m == Cardinality(Linking)
           n == Cardinality(Linking')
           p == y.phase \in {"subject", "customer"}
           q == calls[c].phase \in {"subject", "customer"}
           a == asked'
<1>5. /\ m \in Nat /\ n \in Nat /\ asked \in 0 .. MaxCalls /\ MaxCalls \in Nat /\ m <= asked
      /\ (p => IF q THEN n = m ELSE n = m + 1) /\ (~p => IF q THEN n = m - 1 ELSE n = m)
      /\ (a = asked /\ (p => q)) \/ (a = asked + 1 /\ asked < MaxCalls)
  BY <1>1, <1>3, <1>4
<1>6. /\ m \in Nat /\ n \in Nat
      /\ asked \in Nat /\ a \in 0 .. MaxCalls /\ asked <= a
      /\ m <= asked
      /\ n + asked <= m + a
  <2> HIDE DEF m, n, p, q, a
  <2> QED BY <1>5
<1> QED BY <1>6

\* What is a mapping stays one.
LEMMA IsLinkStays ==
  ASSUME Customers!CustomerAssumption, CustomersInv, NEW c \in Agents, NEW y, AgentStep(c, y),
         NEW row, IsLink(row)
  PROVE  IsLink(row)'
<1>1. row \in LinkRow /\ row.customer \in DOMAIN customers /\ row.version >= 1
      /\ row.version + Cardinality(Linking) <= asked + 1
  BY DEF IsLink
<1>2. row.version \in Nat
  BY <1>1 DEF LinkRow
<1>3. row.customer \in DOMAIN customers'
  BY <1>1 DEF AgentStep
<1>4. /\ Cardinality(Linking) \in Nat /\ Cardinality(Linking') \in Nat
      /\ asked \in Nat /\ asked' \in 0 .. MaxCalls
      /\ Cardinality(Linking') + asked <= Cardinality(Linking) + asked'
  BY RoomForLinks
<1>5. ASSUME NEW v \in Nat, NEW m \in Nat, NEW n \in Nat, NEW a \in Nat, NEW b \in Nat,
             v + m <= a + 1, n + a <= m + b
      PROVE  v + n <= b + 1
  BY <1>5
<1>6. asked' \in Nat
  <2>1. MaxCalls \in Nat
    BY DEF Customers!CustomerAssumption
  <2> QED BY <1>4, <2>1
<1>7. row.version + Cardinality(Linking') <= asked' + 1
  BY <1>1, <1>2, <1>4, <1>5, <1>6
<1> QED BY <1>1, <1>3, <1>7 DEF IsLink

\* The requests that do not move fit as before.
LEMMA OtherCallsFit ==
  ASSUME Customers!CustomerAssumption, CustomersInv, NEW c \in Agents, NEW y, AgentStep(c, y),
         \A s \in Subjects : mappings[s] # None => mappings'[s] # None,
         NEW d \in Agents, d # c
  PROVE  CallIsAbout(calls[d])'
<1>1. calls[d] \in AgentCall /\ CallIsAbout(calls[d])
  BY AgentsAre
<1>2. calls'[d] = calls[d]
  BY DEF AgentStep, CustomersInv, CustomerShapes
<1>3. PICK x \in AgentCall : x = calls[d] /\ x = calls'[d]
  BY <1>1, <1>2
<1>4. CallIsAbout(x)
  BY <1>1, <1>3
<1>5. IsLink(x.entity) => IsLink(x.entity)'
  BY IsLinkStays
<1>6. IsLink(x.loaded) => IsLink(x.loaded)'
  BY IsLinkStays
<1>7. DOMAIN customers \subseteq DOMAIN customers'
  BY DEF AgentStep
<1>8. x.entity \in CustomerRow /\ x.entity.version \in 2 .. asked + 1 => x.entity.version \in 2 .. asked' + 1
  <2>1. asked \in Nat /\ asked' \in 0 .. MaxCalls /\ asked <= asked'
    BY RoomForLinks
  <2> QED BY <2>1
<1>9. CallIsAbout(x)'
  BY <1>4, <1>5, <1>6, <1>7, <1>8 DEF CallIsAbout, LinkPhases
<1> QED BY <1>3, <1>9 DEF CallIsAbout

\* A step keeps the invariant when what it writes fits.
LEMMA AgentStepKeeps ==
  ASSUME Customers!CustomerAssumption, CustomersInv, NEW c \in Agents, NEW y \in AgentCall,
         AgentStep(c, y), CallIsAbout(y)',
         customers' \in Seq(CustomerRow), \A i \in DOMAIN customers' : customers'[i].version \in 1 .. asked' + 1,
         mappings' \in [Subjects -> LinkRow \cup {None}],
         \A s \in Subjects : mappings[s] # None => mappings'[s] # None,
         \A s \in Subjects : mappings'[s] # None /\ mappings'[s] # mappings[s] => IsLink(mappings[s])',
         MappingsAreApart'
  PROVE  CustomersInv'
<1>1. /\ Cardinality(Linking) \in Nat /\ Cardinality(Linking') \in Nat
      /\ asked \in Nat /\ asked' \in 0 .. MaxCalls /\ asked <= asked'
      /\ Cardinality(Linking) <= asked
      /\ Cardinality(Linking') + asked <= Cardinality(Linking) + asked'
  BY RoomForLinks
<1>2. calls' = [calls EXCEPT ![c] = y]
  BY DEF AgentStep
<1>3. CustomerShapes'
  <2>1. calls' \in [Agents -> AgentCall]
    BY <1>2 DEF CustomersInv, CustomerShapes
  <2> QED BY <1>1, <2>1 DEF CustomerShapes
<1>4. CallsFit'
  <2>1. ASSUME NEW d \in Agents PROVE CallIsAbout(calls[d])'
    <3>1. CASE d = c
      <4>1. calls'[d] = y
        BY <1>2, <3>1 DEF CustomersInv, CustomerShapes
      <4> QED BY <4>1 DEF CallIsAbout
    <3>2. CASE d # c
      BY <3>2, OtherCallsFit
    <3> QED BY <3>1, <3>2
  <2> QED BY <2>1 DEF CallsFit
<1>5. Cardinality(Linking') <= asked'
  <2>1. asked' \in Nat
    <3>1. MaxCalls \in Nat
      BY DEF Customers!CustomerAssumption
    <3> QED BY <1>1, <3>1
  <2>2. ASSUME NEW m \in Nat, NEW n \in Nat, NEW a \in Nat, NEW b \in Nat, m <= a, n + a <= m + b
        PROVE  n <= b
    BY <2>2
  <2> QED BY <1>1, <2>1, <2>2
<1>6. ASSUME NEW s \in Subjects, mappings'[s] # None PROVE IsLink(mappings[s])'
  <2>1. CASE mappings'[s] = mappings[s]
    <3>1. IsLink(mappings[s])
      BY <1>6, <2>1 DEF CustomersInv, RowsFit
    <3>2. PICK row \in LinkRow : row = mappings[s]
      BY <3>1 DEF IsLink
    <3>3. IsLink(row)'
      BY <3>1, <3>2, IsLinkStays
    <3> QED BY <2>1, <3>2, <3>3 DEF IsLink
  <2>2. CASE mappings'[s] # mappings[s]
    BY <1>6, <2>2
  <2> QED BY <2>1, <2>2
<1>7. RowsFit'
  BY <1>5, <1>6 DEF RowsFit
<1> QED BY <1>3, <1>4, <1>7 DEF CustomersInv

\* The same of a step that writes no row.
LEMMA CallStepKeeps ==
  ASSUME Customers!CustomerAssumption, CustomersInv, NEW c \in Agents, NEW y \in AgentCall,
         AgentStep(c, y), CallIsAbout(y)', customers' = customers, mappings' = mappings
  PROVE  CustomersInv'
<1>1. asked \in Nat /\ asked' \in 0 .. MaxCalls /\ asked <= asked'
  BY RoomForLinks
<1>2. customers' \in Seq(CustomerRow) /\ mappings' \in [Subjects -> LinkRow \cup {None}]
  BY DEF CustomersInv, CustomerShapes
<1>3. \A i \in DOMAIN customers' : customers'[i].version \in 1 .. asked' + 1
  BY <1>1 DEF CustomersInv, RowsFit
<1>4. MappingsAreApart'
  BY DEF CustomersInv, MappingsAreApart
<1>5. \A s \in Subjects : mappings[s] # None => mappings'[s] # None
  OBVIOUS
<1>6. \A s \in Subjects : mappings'[s] # None /\ mappings'[s] # mappings[s] => IsLink(mappings[s])'
  OBVIOUS
<1> QED BY <1>2, <1>3, <1>4, <1>5, <1>6, AgentStepKeeps

\* What a step of caller c keeps.
Kept(c) ==
  /\ CustomersInv'
  /\ SoleCallerInv /\ c = Lead => SoleCallerInv'

LEMMA SoleStepKeeps ==
  ASSUME CustomersInv, SoleCallerInv, NEW y \in AgentCall, Lead \in Agents,
         calls' = [calls EXCEPT ![Lead] = y], CopyIsCurrent(y)', LinksStand'
  PROVE  SoleCallerInv'
<1>1. calls'[Lead] = y /\ \A d \in Agents \ {Lead} : calls'[d] = calls[d]
  BY DEF CustomersInv, CustomerShapes
<1>2. CopyIsCurrent(calls[Lead])'
  BY <1>1 DEF CopyIsCurrent
<1> QED BY <1>1, <1>2 DEF SoleCallerInv

\* A step that writes no row keeps what it should when the request fits.
LEMMA ReadStepKeeps ==
  ASSUME Customers!CustomerAssumption, Lead \in Agents, CustomersInv, NEW c \in Agents, NEW y \in AgentCall,
         AgentStep(c, y), CallIsAbout(y)', SoleCallerInv /\ c = Lead => CopyIsCurrent(y)',
         customers' = customers, mappings' = mappings, links' = links
  PROVE  Kept(c)
<1>1. CustomersInv'
  BY CallStepKeeps
<1>2. ASSUME SoleCallerInv, c = Lead PROVE SoleCallerInv'
  <2>1. LinksStand'
    BY <1>2 DEF SoleCallerInv, LinksStand
  <2>2. calls' = [calls EXCEPT ![Lead] = y] /\ CopyIsCurrent(y)'
    BY <1>2 DEF AgentStep
  <2> QED BY <1>2, <2>1, <2>2, SoleStepKeeps
<1> QED BY <1>1, <1>2 DEF Kept

\* A request that ends, or is refused at once, without a row written.
LEMMA IdleStepKeeps ==
  ASSUME Customers!CustomerAssumption, Lead \in Agents, CustomersInv, NEW c \in Agents, NEW y \in AgentCall,
         y.phase = "idle", calls' = [calls EXCEPT ![c] = y],
         asked' = asked \/ (asked' = asked + 1 /\ asked < MaxCalls /\ calls[c].phase = "idle"),
         customers' = customers, mappings' = mappings, links' = links
  PROVE  Kept(c)
<1>1. AgentStep(c, y)
  BY DEF AgentStep
<1>2. CallIsAbout(y)' /\ CopyIsCurrent(y)'
  BY DEF CallIsAbout, CopyIsCurrent, CommandPhases, LinkPhases
<1> QED BY <1>1, <1>2, ReadStepKeeps

-----------------------------------------------------------------------------
(* Requests that begin.                                                      *)

LEMMA RefusedKeeps ==
  ASSUME Customers!CustomerAssumption, Lead \in Agents, CustomersInv, NEW c \in Agents, NEW x \in AgentCall,
         Customers!Begin(c, x), x.phase = "idle",
         customers' = customers, mappings' = mappings, links' = links
  PROVE  Kept(c)
<1>1. PICK y \in AgentCall :
        /\ calls' = [calls EXCEPT ![c] = y] /\ calls[c].phase = "idle"
        /\ asked' = asked + 1 /\ asked < MaxCalls
        /\ y.phase = x.phase
  BY CallBegins
<1>2. y.phase = "idle"
  BY <1>1
<1> QED BY <1>1, <1>2, IdleStepKeeps

\* create_customer keeps the address it is to add.
LEMMA BeginCreateKeeps ==
  ASSUME Customers!CustomerAssumption, Lead \in Agents, CustomersInv, NEW c \in Agents,
         NEW k \in Keys, NEW e \in Customers!Emails, Customers!BeginCreate(c, k, e)
  PROVE  Kept(c)
<1>1. customers' = customers /\ mappings' = mappings /\ links' = links
  BY DEF Customers!BeginCreate
<1>2. CASE Customers!IsTaken(e)
  <2> DEFINE x == Customers!Refused("create", "DUPLICATE_EMAIL")
  <2>1. x \in AgentCall /\ x.phase = "idle"
    BY RefusedIs
  <2>2. Customers!Begin(c, x)
    BY <1>2 DEF Customers!BeginCreate
  <2> HIDE DEF x
  <2> QED BY <1>1, <2>1, <2>2, RefusedKeeps
<1>3. CASE ~Customers!IsTaken(e)
  <2> DEFINE row == [email |-> e, status |-> "ACTIVE", version |-> 1]
             x == [Customers!NoCall EXCEPT !.op = "create", !.phase = "adding", !.key = k, !.entity = row]
  <2>1. Customers!Begin(c, x)
    BY <1>3 DEF Customers!BeginCreate
  <2>2. row \in CustomerRow /\ row.version = 1
    BY DEF CustomerRow
  <2> HIDE DEF row
  <2>3. /\ x.op = "create" /\ x.phase = "adding" /\ x.id = 0 /\ x.subject = None /\ x.key = k
        /\ x.from = 0 /\ x.number = 0 /\ x.entity = row /\ x.loaded = None /\ x.answer = "none"
        /\ x = [i \in CallFields |-> x[i]]
    BY NoCallIs DEF CallFields
  <2> HIDE DEF x
  <2>4. x \in AgentCall
    BY <2>2, <2>3, CallOfFields
  <2>5. PICK y \in AgentCall :
          /\ calls' = [calls EXCEPT ![c] = y] /\ calls[c].phase = "idle"
          /\ asked' = asked + 1 /\ asked < MaxCalls
          /\ y.phase = x.phase /\ y.entity = x.entity
    BY <2>1, <2>4, CallBegins
  <2>6. y.phase = "adding" /\ y.entity = row
    BY <2>3, <2>5
  <2>7. AgentStep(c, y)
    BY <1>1, <2>5 DEF AgentStep
  <2>8. CallIsAbout(y)' /\ CopyIsCurrent(y)'
    BY <2>2, <2>6 DEF CallIsAbout, CopyIsCurrent, CommandPhases, LinkPhases
  <2> QED BY <1>1, <2>7, <2>8, ReadStepKeeps
<1> QED BY <1>2, <1>3

\* What a command makes of the row it read.
LEMMA ChangedIs ==
  ASSUME NEW row \in CustomerRow, NEW e \in Customers!Emails,
         NEW op \in {"replace", "deactivate", "consent"}
  PROVE  /\ Customers!Changed(op, row, e) \in CustomerRow
         /\ Customers!Changed(op, row, e).version = row.version + 1
         /\ row.status = "INACTIVE" => Customers!Changed(op, row, e).status = "INACTIVE"
<1> DEFINE x == Customers!Changed(op, row, e)
<1>1. /\ DOMAIN row = {"email", "status", "version"}
      /\ row.email \in Customers!Emails /\ row.status \in {"ACTIVE", "INACTIVE"} /\ row.version \in Nat
  BY DEF CustomerRow
<1>2. /\ x.email = IF op = "replace" THEN e ELSE row.email
      /\ x.status = IF op = "deactivate" THEN "INACTIVE" ELSE row.status
      /\ x.version = row.version + 1
      /\ x = [j \in {"email", "status", "version"} |-> x[j]]
  BY <1>1 DEF Customers!Changed
<1> HIDE DEF x
<1>3. x.email \in Customers!Emails /\ x.status \in {"ACTIVE", "INACTIVE"} /\ x.version \in Nat
  BY <1>1, <1>2
<1>4. x = [email |-> x.email, status |-> x.status, version |-> x.version]
  BY <1>2
<1>5. x \in CustomerRow
  BY <1>3, <1>4 DEF CustomerRow
<1> QED BY <1>2, <1>5 DEF x

\* A command keeps its change of the row it read under If-Match.
LEMMA BeginCommandKeeps ==
  ASSUME Customers!CustomerAssumption, Lead \in Agents, CustomersInv, NEW c \in Agents,
         NEW op \in {"replace", "deactivate", "consent"}, NEW i \in DOMAIN customers,
         NEW version \in Nat, NEW e \in Customers!Emails,
         Customers!BeginCommand(c, op, i, version, e)
  PROVE  Kept(c)
<1>1. customers' = customers /\ mappings' = mappings /\ links' = links
  BY DEF Customers!BeginCommand
<1>2. CASE customers[i].version # version
  <2> DEFINE x == Customers!Refused(op, "PRECONDITION_FAILED")
  <2>1. x \in AgentCall /\ x.phase = "idle"
    BY RefusedIs
  <2>2. Customers!Begin(c, x)
    BY <1>2 DEF Customers!BeginCommand
  <2> HIDE DEF x
  <2> QED BY <1>1, <2>1, <2>2, RefusedKeeps
<1>3. CASE customers[i].version = version
  <2> DEFINE row == Customers!Changed(op, customers[i], e)
             phase == IF op = "consent" THEN "consenting" ELSE "loading"
             x == [Customers!NoCall EXCEPT !.op = op, !.id = i, !.from = version, !.phase = phase,
                                           !.entity = row]
  <2>1. Customers!Begin(c, x)
    BY <1>3 DEF Customers!BeginCommand
  <2>2. customers[i] \in CustomerRow /\ customers[i].version \in 1 .. asked + 1 /\ i \in Nat
    BY CustomersAre
  <2>3. row \in CustomerRow /\ row.version = customers[i].version + 1
    BY <2>2, ChangedIs
  <2>4. phase \in {"consenting", "loading"}
    OBVIOUS
  <2> HIDE DEF row, phase
  <2>5. /\ x.op = op /\ x.phase = phase /\ x.id = i /\ x.subject = None /\ x.key = None
        /\ x.from = version /\ x.number = 0 /\ x.entity = row /\ x.loaded = None /\ x.answer = "none"
        /\ x = [j \in CallFields |-> x[j]]
    BY NoCallIs DEF CallFields
  <2> HIDE DEF x
  <2>6. x.op \in {"none", "create", "replace", "deactivate", "consent", "link", "unlink"}
    BY <2>5
  <2>7. x.phase \in {"idle", "adding"} \cup CommandPhases \cup LinkPhases
    BY <2>4, <2>5 DEF CommandPhases
  <2>8. x \in AgentCall
    BY <2>2, <2>3, <2>5, <2>6, <2>7, CallOfFields
  <2>9. PICK y \in AgentCall :
          /\ calls' = [calls EXCEPT ![c] = y] /\ calls[c].phase = "idle"
          /\ asked' = asked + 1 /\ asked < MaxCalls
          /\ y.phase = x.phase /\ y.id = x.id /\ y.entity = x.entity
    BY <2>1, <2>8, CallBegins
  <2>10. y.phase \in {"consenting", "loading"} /\ y.id = i /\ y.entity = row
    BY <2>4, <2>5, <2>9
  <2>11. AgentStep(c, y)
    BY <1>1, <2>9, <2>10 DEF AgentStep
  <2>12. y.entity.version \in 2 .. asked' + 1
    <3>1. asked \in Nat
      BY DEF CustomersInv, CustomerShapes
    <3> QED BY <3>1, <2>2, <2>3, <2>9, <2>10
  <2>13. CallIsAbout(y)'
    BY <1>1, <2>3, <2>10, <2>12 DEF CallIsAbout, CommandPhases, LinkPhases
  <2>14. CopyIsCurrent(y)'
    BY <1>1, <2>3, <2>10 DEF CopyIsCurrent, CommandPhases, LinkPhases
  <2> QED BY <1>1, <2>11, <2>13, <2>14, ReadStepKeeps
<1> QED BY <1>2, <1>3

\* save_consent.
LEMMA SaveConsentKeeps ==
  ASSUME Customers!CustomerAssumption, Lead \in Agents, CustomersInv, NEW c \in Agents,
         Customers!SaveConsent(c)
  PROVE  Kept(c)
<1>1. customers' = customers /\ mappings' = mappings /\ links' = links /\ asked' = asked
  BY DEF Customers!SaveConsent
<1>2. calls[c] \in AgentCall /\ CallIsAbout(calls[c])
  BY AgentsAre
<1>3. calls[c].phase = "consenting"
  BY DEF Customers!SaveConsent
<1>4. PICK y \in AgentCall :
        /\ calls' = [calls EXCEPT ![c] = y] /\ y.phase = "loading" /\ y.id = calls[c].id
        /\ y.entity = calls[c].entity
  <2> DEFINE z == [calls[c] EXCEPT !.phase = "loading"]
  <2>1. z \in AgentCall /\ z.phase = "loading" /\ z.id = calls[c].id /\ z.entity = calls[c].entity
    BY <1>2 DEF AgentCall, CommandPhases
  <2>2. calls' = [calls EXCEPT ![c] = z]
    BY DEF Customers!SaveConsent
  <2> HIDE DEF z
  <2> QED BY <2>1, <2>2
<1>5. AgentStep(c, y)
  BY <1>1, <1>4 DEF AgentStep
<1>6. CallIsAbout(y)'
  BY <1>1, <1>2, <1>3, <1>4 DEF CallIsAbout, CommandPhases, LinkPhases
<1>7. ASSUME SoleCallerInv, c = Lead PROVE CopyIsCurrent(y)'
  <2>1. CopyIsCurrent(calls[c])
    BY <1>7 DEF SoleCallerInv
  <2> QED BY <1>1, <1>3, <1>4, <2>1 DEF CopyIsCurrent, CommandPhases, LinkPhases
<1> QED BY <1>1, <1>5, <1>6, <1>7, ReadStepKeeps

\* update reads the row again.
LEMMA LoadCustomerKeeps ==
  ASSUME Customers!CustomerAssumption, Lead \in Agents, CustomersInv, NEW c \in Agents,
         Customers!LoadCustomer(c)
  PROVE  Kept(c)
<1>1. customers' = customers /\ mappings' = mappings /\ links' = links /\ asked' = asked
  BY DEF Customers!LoadCustomer
<1>2. calls[c] \in AgentCall /\ CallIsAbout(calls[c])
  BY AgentsAre
<1>3. calls[c].phase = "loading"
  BY DEF Customers!LoadCustomer
<1>4. customers[calls[c].id] \in CustomerRow
  <2>1. calls[c].id \in DOMAIN customers
    BY <1>2, <1>3 DEF CallIsAbout, CommandPhases
  <2> QED BY <2>1, CustomersAre
<1>5. PICK y \in AgentCall :
        /\ calls' = [calls EXCEPT ![c] = y] /\ y.phase = "flushing" /\ y.id = calls[c].id
        /\ y.entity = calls[c].entity /\ y.loaded = customers[calls[c].id]
  <2> DEFINE row == customers[calls[c].id]
             z == [calls[c] EXCEPT !.phase = "flushing", !.loaded = row]
  <2>1. calls' = [calls EXCEPT ![c] = z]
    BY DEF Customers!LoadCustomer
  <2>2. row \in CustomerRow
    BY <1>4
  <2> HIDE DEF row
  <2>3. z \in AgentCall /\ z.phase = "flushing" /\ z.id = calls[c].id /\ z.entity = calls[c].entity
        /\ z.loaded = row
    BY <1>2, <2>2 DEF AgentCall, CommandPhases
  <2> HIDE DEF z
  <2> QED BY <2>1, <2>3 DEF row
<1>6. AgentStep(c, y)
  BY <1>1, <1>5 DEF AgentStep
<1>7. CallIsAbout(y)'
  BY <1>1, <1>2, <1>3, <1>4, <1>5 DEF CallIsAbout, CommandPhases, LinkPhases
<1>8. ASSUME SoleCallerInv, c = Lead PROVE CopyIsCurrent(y)'
  <2>1. CopyIsCurrent(calls[c])
    BY <1>8 DEF SoleCallerInv
  <2> QED BY <1>1, <1>3, <1>5, <2>1 DEF CopyIsCurrent, CommandPhases, LinkPhases
<1> QED BY <1>1, <1>6, <1>7, <1>8, ReadStepKeeps

\* A step that writes customers keeps what it should when the rows fit.
LEMMA CustomerStepKeeps ==
  ASSUME Customers!CustomerAssumption, Lead \in Agents, CustomersInv, NEW c \in Agents, NEW y \in AgentCall,
         y.phase = "idle", calls' = [calls EXCEPT ![c] = y], asked' = asked,
         customers' \in Seq(CustomerRow), DOMAIN customers \subseteq DOMAIN customers',
         \A i \in DOMAIN customers' : customers'[i].version \in 1 .. asked + 1,
         mappings' = mappings, links' = links
  PROVE  Kept(c)
<1>1. AgentStep(c, y)
  BY DEF AgentStep
<1>2. CallIsAbout(y)' /\ CopyIsCurrent(y)'
  BY DEF CallIsAbout, CopyIsCurrent, CommandPhases, LinkPhases
<1>3. mappings' \in [Subjects -> LinkRow \cup {None}]
  BY DEF CustomersInv, CustomerShapes
<1>4. \A i \in DOMAIN customers' : customers'[i].version \in 1 .. asked' + 1
  OBVIOUS
<1>5. MappingsAreApart'
  BY DEF CustomersInv, MappingsAreApart
<1>6. \A s \in Subjects : mappings[s] # None => mappings'[s] # None
  OBVIOUS
<1>7. \A s \in Subjects : mappings'[s] # None /\ mappings'[s] # mappings[s] => IsLink(mappings[s])'
  OBVIOUS
<1>8. CustomersInv'
  BY <1>1, <1>2, <1>3, <1>4, <1>5, <1>6, <1>7, AgentStepKeeps
<1>9. ASSUME SoleCallerInv, c = Lead PROVE SoleCallerInv'
  <2>1. LinksStand'
    BY <1>9 DEF SoleCallerInv, LinksStand
  <2>2. calls' = [calls EXCEPT ![Lead] = y]
    BY <1>9
  <2> QED BY <1>2, <1>9, <2>1, <2>2, SoleStepKeeps
<1> QED BY <1>8, <1>9 DEF Kept

\* The flush of a customer's row.
LEMMA FlushCustomerKeeps ==
  ASSUME Customers!CustomerAssumption, Lead \in Agents, CustomersInv, NEW c \in Agents,
         Customers!FlushCustomer(c)
  PROVE  Kept(c)
<1> DEFINE i == calls[c].id
           row == Customers!Flushed(customers[i], calls[c].loaded, calls[c].entity)
           answer == IF Customers!Violates(i, row.email) THEN "DUPLICATE_EMAIL" ELSE "SUCCESS"
<1>1. /\ calls[c].phase = "flushing"
      /\ customers' = IF answer = "SUCCESS" THEN [customers EXCEPT ![i] = row] ELSE customers
      /\ calls' = Customers!Answer(c, answer)
      /\ mappings' = mappings /\ links' = links /\ asked' = asked
  BY DEF Customers!FlushCustomer
<1>2. calls[c] \in AgentCall /\ CallIsAbout(calls[c])
  BY AgentsAre
<1>3. /\ i \in DOMAIN customers /\ calls[c].entity \in CustomerRow /\ calls[c].entity.version \in 2 .. asked + 1
      /\ customers[i] \in CustomerRow /\ customers[i].version \in 1 .. asked + 1
  <2>1. i \in DOMAIN customers /\ calls[c].entity \in CustomerRow /\ calls[c].entity.version \in 2 .. asked + 1
    BY <1>1, <1>2 DEF CallIsAbout, CommandPhases
  <2> QED BY <2>1, CustomersAre
<1>4. /\ row \in CustomerRow
      /\ row.status = IF calls[c].entity.status # calls[c].loaded.status
                      THEN calls[c].entity.status ELSE customers[i].status
      /\ row.version = IF calls[c].entity.version # calls[c].loaded.version
                       THEN calls[c].entity.version ELSE customers[i].version
  BY <1>3, FlushedCustomerIs
<1>5. answer \in {"SUCCESS", "DUPLICATE_EMAIL", "IDENTITY_CONFLICT"}
  OBVIOUS
<1> HIDE DEF row, answer
<1>6. PICK y \in AgentCall : calls' = [calls EXCEPT ![c] = y] /\ y.phase = "idle"
  BY <1>1, <1>5, CallEnds
<1>7. customers \in Seq(CustomerRow) /\ asked \in Nat
  BY DEF CustomersInv, CustomerShapes
<1>8. row.version \in 1 .. asked + 1
  BY <1>3, <1>4, <1>7
<1>9. customers' \in Seq(CustomerRow) /\ DOMAIN customers' = DOMAIN customers
  <2>1. [customers EXCEPT ![i] = row] \in Seq(CustomerRow)
        /\ DOMAIN [customers EXCEPT ![i] = row] = DOMAIN customers
    BY <1>3, <1>4, <1>7
  <2> QED BY <1>1, <1>7, <2>1
<1>10. ASSUME NEW j \in DOMAIN customers
       PROVE  customers'[j] = customers[j] \/ (j = i /\ customers'[j] = row)
  BY <1>1, <1>3
<1>11. \A j \in DOMAIN customers' : customers'[j].version \in 1 .. asked + 1
  BY <1>8, <1>9, <1>10 DEF CustomersInv, RowsFit
<1> QED BY <1>1, <1>6, <1>9, <1>11, CustomerStepKeeps

\* The customer is added under the next number.
LEMMA AddCustomerKeeps ==
  ASSUME Customers!CustomerAssumption, Lead \in Agents, CustomersInv, NEW c \in Agents,
         Customers!AddCustomer(c)
  PROVE  Kept(c)
<1> DEFINE m == Len(customers)
           entity == calls[c].entity
           id == Customers!Cardinality(DOMAIN customers) + 1
           answer == IF Customers!Violates(id, entity.email) THEN "DUPLICATE_EMAIL" ELSE "SUCCESS"
<1>1. /\ calls[c].phase = "adding"
      /\ customers' = IF answer # "SUCCESS" THEN customers
                      ELSE [i \in DOMAIN customers \cup {id} |-> IF i = id THEN entity ELSE customers[i]]
      /\ calls' = Customers!Answer(c, answer)
      /\ mappings' = mappings /\ links' = links /\ asked' = asked
  BY DEF Customers!AddCustomer
<1>2. calls[c] \in AgentCall /\ CallIsAbout(calls[c])
  BY AgentsAre
<1>3. entity \in CustomerRow /\ entity.version = 1
  BY <1>1, <1>2 DEF CallIsAbout
<1>4. customers \in Seq(CustomerRow) /\ asked \in Nat
  BY DEF CustomersInv, CustomerShapes
<1>5. m \in Nat /\ DOMAIN customers = 1 .. m
  BY <1>4
<1>6. id = m + 1
  <2>1. Customers!Cardinality(DOMAIN customers) = Cardinality(DOMAIN customers)
    BY DEF Customers!Cardinality, Cardinality
  <2>2. ASSUME NEW n \in Nat PROVE Cardinality(1 .. n) = n
    BY FS_Interval
  <2> HIDE DEF m
  <2> QED BY <1>5, <2>1, <2>2
<1>7. answer \in {"SUCCESS", "DUPLICATE_EMAIL", "IDENTITY_CONFLICT"}
  OBVIOUS
<1> HIDE DEF m, entity, id, answer
<1>8. PICK y \in AgentCall : calls' = [calls EXCEPT ![c] = y] /\ y.phase = "idle"
  BY <1>1, <1>7, CallEnds
<1>9. \A i \in 1 .. m : customers[i] \in CustomerRow /\ customers[i].version \in 1 .. asked + 1
  BY <1>5, CustomersAre
<1>10. CASE answer = "SUCCESS"
  <2> DEFINE f == customers'
  <2>1. f = [i \in 1 .. m + 1 |-> IF i = m + 1 THEN entity ELSE customers[i]]
    <3>1. (1 .. m) \cup {m + 1} = 1 .. m + 1
      BY <1>5
    <3> QED BY <1>1, <1>5, <1>6, <1>10, <3>1
  <2> HIDE DEF f
  <2>2. f \in [1 .. m + 1 -> CustomerRow]
    BY <1>3, <1>5, <1>9, <2>1
  <2>3. f \in Seq(CustomerRow)
    BY <1>5, <2>2, IsASeq
  <2>4. DOMAIN f = 1 .. m + 1 /\ 1 .. m \subseteq 1 .. m + 1
    BY <1>5, <2>1
  <2>5. \A i \in 1 .. m + 1 : f[i].version \in 1 .. asked + 1
    BY <1>3, <1>4, <1>5, <1>9, <2>1
  <2>6. \A i \in 1 .. m : f[i] = customers[i]
    BY <1>5, <2>1
  <2>7. /\ customers' \in Seq(CustomerRow) /\ DOMAIN customers \subseteq DOMAIN customers'
        /\ \A i \in DOMAIN customers' : customers'[i].version \in 1 .. asked + 1
    BY <1>5, <2>3, <2>4, <2>5 DEF f
  <2> QED BY <1>1, <1>8, <2>7, CustomerStepKeeps
<1>11. CASE answer # "SUCCESS"
  BY <1>1, <1>8, <1>11, IdleStepKeeps
<1> QED BY <1>10, <1>11

\* The process stops.
LEMMA CrashKeeps ==
  ASSUME Customers!CustomerAssumption, Lead \in Agents, CustomersInv, NEW c \in Agents,
         Customers!Crash(c)
  PROVE  Kept(c)
<1> DEFINE y == Customers!NoCall
<1>1. y \in AgentCall /\ y.phase = "idle"
  BY NoCallIs, NoCallIsCall
<1>2. /\ calls' = [calls EXCEPT ![c] = y] /\ asked' = asked
      /\ customers' = customers /\ mappings' = mappings /\ links' = links
  BY DEF Customers!Crash
<1> HIDE DEF y
<1>3. PICK z \in AgentCall : z = y
  BY <1>1
<1> QED BY <1>1, <1>2, <1>3, IdleStepKeeps

LEMMA MappingsAre ==
  ASSUME CustomersInv, NEW s \in Subjects
  PROVE  /\ mappings[s] \in LinkRow \cup {None}
         /\ mappings[s] # None => IsLink(mappings[s]) /\ mappings[s] \in LinkRow
BY DEF CustomersInv, CustomerShapes, RowsFit, IsLink

\* link_identity reads the customer.
LEMMA BeginLinkKeeps ==
  ASSUME Customers!CustomerAssumption, Lead \in Agents, CustomersInv, NEW c \in Agents,
         NEW i \in DOMAIN customers, NEW s \in Subjects, NEW version \in Nat,
         Customers!BeginLink(c, i, s, version)
  PROVE  Kept(c)
<1>1. customers' = customers /\ mappings' = mappings /\ links' = links
  BY DEF Customers!BeginLink
<1>2. CASE customers[i].version # version
  <2> DEFINE x == Customers!Refused("link", "PRECONDITION_FAILED")
  <2>1. x \in AgentCall /\ x.phase = "idle"
    BY RefusedIs
  <2>2. Customers!Begin(c, x)
    BY <1>2 DEF Customers!BeginLink
  <2> HIDE DEF x
  <2> QED BY <1>1, <2>1, <2>2, RefusedKeeps
<1>3. CASE customers[i].version = version
  <2> DEFINE x == [Customers!NoCall EXCEPT !.op = "link", !.id = i, !.subject = s, !.phase = "subject"]
  <2>1. Customers!Begin(c, x)
    BY <1>3 DEF Customers!BeginLink
  <2>2. i \in Nat
    BY CustomersAre
  <2>3. /\ x.op = "link" /\ x.phase = "subject" /\ x.id = i /\ x.subject = s /\ x.key = None
        /\ x.from = 0 /\ x.number = 0 /\ x.entity = None /\ x.loaded = None /\ x.answer = "none"
        /\ x = [j \in CallFields |-> x[j]]
    BY NoCallIs DEF CallFields
  <2> HIDE DEF x
  <2>4. x.phase \in {"idle", "adding"} \cup CommandPhases \cup LinkPhases
    BY <2>3 DEF LinkPhases
  <2>5. x \in AgentCall
    BY <2>2, <2>3, <2>4, CallOfFields
  <2>6. PICK y \in AgentCall :
          /\ calls' = [calls EXCEPT ![c] = y] /\ calls[c].phase = "idle"
          /\ asked' = asked + 1 /\ asked < MaxCalls
          /\ y.op = x.op /\ y.phase = x.phase /\ y.id = x.id /\ y.subject = x.subject
    BY <2>1, <2>5, CallBegins
  <2>7. y.op = "link" /\ y.phase = "subject" /\ y.id = i /\ y.subject = s
    BY <2>3, <2>6
  <2>8. AgentStep(c, y)
    BY <1>1, <2>6 DEF AgentStep
  <2>9. CallIsAbout(y)' /\ CopyIsCurrent(y)'
    BY <1>1, <2>7 DEF CallIsAbout, CopyIsCurrent, CommandPhases, LinkPhases
  <2> QED BY <1>1, <2>8, <2>9, ReadStepKeeps
<1> QED BY <1>2, <1>3

\* The mapping of the subject is read.
LEMMA ReadSubjectKeeps ==
  ASSUME Customers!CustomerAssumption, Lead \in Agents, CustomersInv, NEW c \in Agents,
         Customers!ReadSubject(c)
  PROVE  Kept(c)
<1>1. customers' = customers /\ mappings' = mappings /\ links' = links /\ asked' = asked
  BY DEF Customers!ReadSubject
<1>2. calls[c] \in AgentCall /\ CallIsAbout(calls[c])
  BY AgentsAre
<1>3. calls[c].phase = "subject"
  BY DEF Customers!ReadSubject
<1>4. calls[c].subject \in Subjects /\ calls[c].id \in DOMAIN customers
  BY <1>2, <1>3 DEF CallIsAbout, LinkPhases
<1>5. /\ mappings[calls[c].subject] \in LinkRow \cup {None}
      /\ mappings[calls[c].subject] # None => IsLink(mappings[calls[c].subject])
  BY <1>4, MappingsAre
<1>6. PICK y \in AgentCall :
        /\ calls' = [calls EXCEPT ![c] = y] /\ y.phase = "customer" /\ y.id = calls[c].id
        /\ y.op = calls[c].op /\ y.subject = calls[c].subject /\ y.entity = mappings[calls[c].subject]
  <2> DEFINE row == mappings[calls[c].subject]
             z == [calls[c] EXCEPT !.phase = "customer", !.entity = row]
  <2>1. calls' = [calls EXCEPT ![c] = z]
    BY DEF Customers!ReadSubject
  <2>2. row \in LinkRow \cup {None}
    BY <1>5
  <2> HIDE DEF row
  <2>3. /\ z \in AgentCall /\ z.phase = "customer" /\ z.id = calls[c].id /\ z.op = calls[c].op
        /\ z.subject = calls[c].subject /\ z.entity = row
    BY <1>2, <2>2 DEF AgentCall, LinkPhases
  <2> HIDE DEF z
  <2> QED BY <2>1, <2>3 DEF row
<1>7. AgentStep(c, y)
  BY <1>1, <1>3, <1>6 DEF AgentStep
<1>8. y.entity = None \/ IsLink(y.entity)
  BY <1>5, <1>6
<1>9. y.entity = None \/ IsLink(y.entity)'
  BY <1>7, <1>8, IsLinkStays
<1>10. CallIsAbout(y)'
  BY <1>1, <1>4, <1>6, <1>9 DEF CallIsAbout, CommandPhases, LinkPhases
<1>11. ASSUME SoleCallerInv, c = Lead PROVE CopyIsCurrent(y)'
  <2>1. CopyIsCurrent(calls[c])
    BY <1>11 DEF SoleCallerInv
  <2>2. calls[c].op = "link"
    BY <1>3, <2>1 DEF CopyIsCurrent
  <2> QED BY <1>1, <1>6, <2>2 DEF CopyIsCurrent, CommandPhases, LinkPhases
<1> QED BY <1>1, <1>7, <1>10, <1>11, ReadStepKeeps

\* The mapping a request is to save.
LEMMA LinkedMappingIs ==
  ASSUME NEW found, NEW i \in Nat, found = None \/ found \in LinkRow
  PROVE  /\ Customers!LinkedMapping(found, i) \in LinkRow
         /\ Customers!LinkedMapping(found, i).customer = i
         /\ Customers!LinkedMapping(found, i).status = "ACTIVE"
         /\ Customers!LinkedMapping(found, i).version = IF found = None THEN 1 ELSE found.version + 1
<1>1. CASE found = None
  BY <1>1 DEF Customers!LinkedMapping, LinkRow
<1>2. CASE found # None
  <2>1. found.version \in Nat
    BY <1>2 DEF LinkRow
  <2> QED BY <1>2, <2>1 DEF Customers!LinkedMapping, LinkRow
<1> QED BY <1>1, <1>2

\* Its conflicts are judged by what was read of both.
LEMMA CheckLinkKeeps ==
  ASSUME Customers!CustomerAssumption, Lead \in Agents, CustomersInv, NEW c \in Agents,
         Customers!CheckLink(c)
  PROVE  Kept(c)
<1> DEFINE i == calls[c].id
           s == calls[c].subject
           found == calls[c].entity
           conflict == \/ found # None /\ found.customer # i /\ found.status # "UNLINKED"
                       \/ \E t \in Customers!MappedTo(i) \ {s} : mappings[t].status # "UNLINKED"
           row == Customers!LinkedMapping(found, i)
           z == [calls[c] EXCEPT !.phase = "mapping", !.entity = row]
<1>1. customers' = customers /\ mappings' = mappings /\ links' = links /\ asked' = asked
  BY DEF Customers!CheckLink
<1>2. calls[c] \in AgentCall /\ CallIsAbout(calls[c])
  BY AgentsAre
<1>3. calls[c].phase = "customer"
  BY DEF Customers!CheckLink
<1>4. calls' = IF conflict THEN Customers!Answer(c, "IDENTITY_CONFLICT") ELSE [calls EXCEPT ![c] = z]
  BY DEF Customers!CheckLink
<1>5. s \in Subjects /\ i \in DOMAIN customers /\ i \in Nat /\ (found = None \/ IsLink(found))
  <2>1. s \in Subjects /\ i \in DOMAIN customers /\ (found = None \/ IsLink(found))
    BY <1>2, <1>3 DEF CallIsAbout, LinkPhases
  <2> QED BY <2>1, CustomersAre
<1>6. CASE conflict
  <2>1. calls' = Customers!Answer(c, "IDENTITY_CONFLICT")
    BY <1>4, <1>6
  <2>2. PICK y \in AgentCall : calls' = [calls EXCEPT ![c] = y] /\ y.phase = "idle"
    BY <2>1, CallEnds
  <2> QED BY <1>1, <2>2, IdleStepKeeps
<1>7. CASE ~conflict
  <2>1. found = None \/ found \in LinkRow
    BY <1>5 DEF IsLink
  <2>2. /\ row \in LinkRow /\ row.customer = i /\ row.status = "ACTIVE"
        /\ row.version = IF found = None THEN 1 ELSE found.version + 1
    BY <1>5, <2>1, LinkedMappingIs
  <2>3. calls' = [calls EXCEPT ![c] = z]
    BY <1>4, <1>7
  <2>4. found # None => found.customer = i \/ found.status = "UNLINKED"
    BY <1>7
  <2> HIDE DEF row
  <2>5. /\ z \in AgentCall /\ z.phase = "mapping" /\ z.id = i /\ z.op = calls[c].op
        /\ z.subject = s /\ z.entity = row
    BY <1>2, <2>2 DEF AgentCall, LinkPhases
  <2> HIDE DEF z
  <2>6. PICK y \in AgentCall :
          /\ calls' = [calls EXCEPT ![c] = y] /\ y.phase = "mapping" /\ y.id = i /\ y.op = calls[c].op
          /\ y.subject = s /\ y.entity = row
    BY <2>3, <2>5
  <2>7. AgentStep(c, y)
    BY <1>1, <2>6 DEF AgentStep
  <2>8. IsLink(y.entity)'
    <3>1. calls' = [calls EXCEPT ![c] = y] /\ y.phase \notin {"subject", "customer"}
      BY <2>6
    <3>2. /\ Cardinality(Linking) \in Nat /\ Cardinality(Linking') \in Nat
          /\ Cardinality(Linking') = Cardinality(Linking) - 1
      BY <1>3, <3>1, LinkingMoves
    <3>3. Cardinality(Linking) <= asked /\ asked \in Nat
      BY DEF CustomersInv, CustomerShapes, RowsFit
    <3>4. found # None => found.version \in Nat /\ found.version + Cardinality(Linking) <= asked + 1
      BY <1>5, <2>1 DEF IsLink, LinkRow
    <3>5. row.version >= 1 /\ row.version + Cardinality(Linking') <= asked + 1
      BY <2>2, <3>2, <3>3, <3>4
    <3> QED BY <1>1, <1>5, <2>2, <2>6, <3>5 DEF IsLink
  <2>9. CallIsAbout(y)'
    BY <1>1, <1>5, <2>6, <2>8 DEF CallIsAbout, CommandPhases, LinkPhases
  <2>10. ASSUME SoleCallerInv, c = Lead PROVE CopyIsCurrent(y)'
    <3>1. CopyIsCurrent(calls[c])
      BY <2>10 DEF SoleCallerInv
    <3>2. calls[c].op = "link" /\ found = mappings[s]
      BY <1>3, <3>1 DEF CopyIsCurrent
    <3> QED BY <1>1, <2>2, <2>4, <2>6, <3>2 DEF CopyIsCurrent, CommandPhases, LinkPhases
  <2> QED BY <1>1, <2>7, <2>9, <2>10, ReadStepKeeps
<1> QED BY <1>6, <1>7

\* What unlink_identity makes of the mapping.
LEMMA UnlinkedIs ==
  ASSUME NEW row \in LinkRow, NEW x, x = [row EXCEPT !.status = "UNLINKED", !.version = @ + 1]
  PROVE  x \in LinkRow /\ x.customer = row.customer /\ x.version = row.version + 1
<1>1. /\ DOMAIN row = {"customer", "status", "version"}
      /\ row.customer \in Nat /\ row.version \in Nat
  BY DEF LinkRow
<1>2. /\ x.customer = row.customer /\ x.status = "UNLINKED" /\ x.version = row.version + 1
      /\ x = [j \in {"customer", "status", "version"} |-> x[j]]
  BY <1>1
<1>3. x = [customer |-> x.customer, status |-> x.status, version |-> x.version]
  BY <1>2
<1> QED BY <1>1, <1>2, <1>3 DEF LinkRow

\* unlink_identity keeps its change of the mapping it read.
LEMMA BeginUnlinkKeeps ==
  ASSUME Customers!CustomerAssumption, Lead \in Agents, CustomersInv, NEW c \in Agents,
         NEW i \in DOMAIN customers, NEW s \in Subjects, NEW version \in Nat,
         Customers!BeginUnlink(c, i, s, version)
  PROVE  Kept(c)
<1>1. customers' = customers /\ mappings' = mappings /\ links' = links
  BY DEF Customers!BeginUnlink
<1>2. mappings[s] # None /\ mappings[s].customer = i
  BY DEF Customers!BeginUnlink, Customers!MappedTo
<1>3. CASE mappings[s].version # version
  <2> DEFINE x == Customers!Refused("unlink", "PRECONDITION_FAILED")
  <2>1. x \in AgentCall /\ x.phase = "idle"
    BY RefusedIs
  <2>2. Customers!Begin(c, x)
    BY <1>3 DEF Customers!BeginUnlink
  <2> HIDE DEF x
  <2> QED BY <1>1, <2>1, <2>2, RefusedKeeps
<1>4. CASE mappings[s].version = version
  <2> DEFINE row == [mappings[s] EXCEPT !.status = "UNLINKED", !.version = @ + 1]
             x == [Customers!NoCall EXCEPT !.op = "unlink", !.id = i, !.subject = s,
                                           !.phase = "mapping", !.entity = row]
  <2>1. Customers!Begin(c, x)
    BY <1>4 DEF Customers!BeginUnlink
  <2>2. i \in Nat /\ mappings[s] \in LinkRow /\ IsLink(mappings[s])
    BY <1>2, CustomersAre, MappingsAre
  <2>3. row \in LinkRow /\ row.customer = mappings[s].customer /\ row.version = mappings[s].version + 1
    BY <2>2, UnlinkedIs
  <2> HIDE DEF row
  <2>4. /\ x.op = "unlink" /\ x.phase = "mapping" /\ x.id = i /\ x.subject = s /\ x.key = None
        /\ x.from = 0 /\ x.number = 0 /\ x.entity = row /\ x.loaded = None /\ x.answer = "none"
        /\ x = [j \in CallFields |-> x[j]]
    BY NoCallIs DEF CallFields
  <2> HIDE DEF x
  <2>5. x.phase \in {"idle", "adding"} \cup CommandPhases \cup LinkPhases
    BY <2>4 DEF LinkPhases
  <2>6. x \in AgentCall
    BY <2>2, <2>3, <2>4, <2>5, CallOfFields
  <2>7. PICK y \in AgentCall :
          /\ calls' = [calls EXCEPT ![c] = y] /\ calls[c].phase = "idle"
          /\ asked' = asked + 1 /\ asked < MaxCalls
          /\ y.op = x.op /\ y.phase = x.phase /\ y.id = x.id /\ y.subject = x.subject
          /\ y.entity = x.entity
    BY <2>1, <2>6, CallBegins
  <2>8. y.op = "unlink" /\ y.phase = "mapping" /\ y.id = i /\ y.subject = s /\ y.entity = row
    BY <2>4, <2>7
  <2>9. AgentStep(c, y)
    BY <1>1, <2>7, <2>8 DEF AgentStep
  <2>10. IsLink(y.entity)'
    <3>1. calls' = [calls EXCEPT ![c] = y] /\ y.phase \notin {"subject", "customer"}
      BY <2>7, <2>8
    <3>2. /\ Cardinality(Linking) \in Nat /\ Cardinality(Linking') \in Nat
          /\ Cardinality(Linking') = Cardinality(Linking)
      BY <2>7, <3>1, LinkingMoves
    <3>3. asked \in Nat
      BY DEF CustomersInv, CustomerShapes
    <3>4. mappings[s].version \in Nat /\ mappings[s].version + Cardinality(Linking) <= asked + 1
      BY <2>2 DEF IsLink, LinkRow
    <3>5. row.version >= 1 /\ row.version + Cardinality(Linking') <= asked' + 1
      BY <2>3, <2>7, <3>2, <3>3, <3>4
    <3> QED BY <1>1, <1>2, <2>3, <2>8, <3>5 DEF IsLink
  <2>11. CallIsAbout(y)'
    BY <1>1, <2>8, <2>10 DEF CallIsAbout, CommandPhases, LinkPhases
  <2>12. CopyIsCurrent(y)'
    BY <1>1, <2>8 DEF CopyIsCurrent, CommandPhases, LinkPhases
  <2> QED BY <1>1, <2>9, <2>11, <2>12, ReadStepKeeps
<1> QED BY <1>3, <1>4

\* save_identity_mapping reads the row again.
LEMMA LoadMappingKeeps ==
  ASSUME Customers!CustomerAssumption, Lead \in Agents, CustomersInv, NEW c \in Agents,
         Customers!LoadMapping(c)
  PROVE  Kept(c)
<1>1. customers' = customers /\ mappings' = mappings /\ links' = links /\ asked' = asked
  BY DEF Customers!LoadMapping
<1>2. calls[c] \in AgentCall /\ CallIsAbout(calls[c])
  BY AgentsAre
<1>3. calls[c].phase = "mapping"
  BY DEF Customers!LoadMapping
<1>4. calls[c].subject \in Subjects /\ calls[c].id \in DOMAIN customers /\ IsLink(calls[c].entity)
  BY <1>2, <1>3 DEF CallIsAbout, LinkPhases
<1>5. /\ mappings[calls[c].subject] \in LinkRow \cup {None}
      /\ mappings[calls[c].subject] # None => IsLink(mappings[calls[c].subject])
  BY <1>4, MappingsAre
<1>6. PICK y \in AgentCall :
        /\ calls' = [calls EXCEPT ![c] = y] /\ y.phase = "saving" /\ y.id = calls[c].id
        /\ y.op = calls[c].op /\ y.subject = calls[c].subject /\ y.entity = calls[c].entity
        /\ y.loaded = mappings[calls[c].subject]
  <2> DEFINE row == mappings[calls[c].subject]
             z == [calls[c] EXCEPT !.phase = "saving", !.loaded = row]
  <2>1. calls' = [calls EXCEPT ![c] = z]
    BY DEF Customers!LoadMapping
  <2>2. row \in LinkRow \cup {None}
    BY <1>5
  <2> HIDE DEF row
  <2>3. /\ z \in AgentCall /\ z.phase = "saving" /\ z.id = calls[c].id /\ z.op = calls[c].op
        /\ z.subject = calls[c].subject /\ z.entity = calls[c].entity /\ z.loaded = row
    BY <1>2, <2>2, ZenonT(60) DEF AgentCall, LinkPhases
  <2> HIDE DEF z
  <2> QED BY <2>1, <2>3 DEF row
<1>7. AgentStep(c, y)
  BY <1>1, <1>6 DEF AgentStep
<1>8. IsLink(y.entity) /\ (y.loaded = None \/ IsLink(y.loaded))
  BY <1>4, <1>5, <1>6
<1>9. IsLink(y.entity)' /\ (y.loaded = None \/ IsLink(y.loaded)')
  BY <1>7, <1>8, IsLinkStays
<1>10. CallIsAbout(y)'
  BY <1>1, <1>4, <1>6, <1>9 DEF CallIsAbout, CommandPhases, LinkPhases
<1>11. ASSUME SoleCallerInv, c = Lead PROVE CopyIsCurrent(y)'
  <2>1. CopyIsCurrent(calls[c])
    BY <1>11 DEF SoleCallerInv
  <2> QED BY <1>1, <1>3, <1>6, <2>1 DEF CopyIsCurrent, CommandPhases, LinkPhases
<1> QED BY <1>1, <1>7, <1>10, <1>11, ReadStepKeeps

\* The row it writes is a mapping, the request's where nobody changed it since.
LEMMA MappingRowIs ==
  ASSUME Customers!CustomerAssumption, CustomersInv, NEW c \in Agents, calls[c].phase = "saving"
  PROVE  /\ IsLink(Customers!MappingRow(c)) /\ Customers!MappingRow(c) \in LinkRow
         /\ calls[c].loaded = mappings[calls[c].subject] =>
              /\ Customers!MappingRow(c).customer = calls[c].entity.customer
              /\ Customers!MappingRow(c).status = calls[c].entity.status
<1> DEFINE x == calls[c]
           s == x.subject
           row == Customers!MappingRow(c)
<1>1. /\ s \in Subjects /\ IsLink(x.entity)
      /\ x.loaded = None \/ (IsLink(x.loaded) /\ mappings[s] # None)
  <2>1. CallIsAbout(x)
    BY AgentsAre
  <2> QED BY <2>1 DEF CallIsAbout, LinkPhases
<1>2. CASE x.loaded = None
  <2>1. row = x.entity
    BY <1>2 DEF Customers!MappingRow
  <2>2. x.entity \in LinkRow
    BY <1>1 DEF IsLink
  <2> QED BY <1>1, <2>1, <2>2
<1>3. CASE x.loaded # None
  <2>1. row = Customers!Flushed(mappings[s], x.loaded, x.entity)
    BY <1>3 DEF Customers!MappingRow
  <2>2. IsLink(mappings[s]) /\ mappings[s] \in LinkRow
    BY <1>1, <1>3, MappingsAre
  <2>3. x.entity \in LinkRow
    BY <1>1 DEF IsLink
  <2> HIDE DEF s, x
  <2>4. /\ row \in LinkRow
        /\ row.customer = IF x.entity.customer # x.loaded.customer
                          THEN x.entity.customer ELSE mappings[s].customer
        /\ row.status = IF x.entity.status # x.loaded.status
                        THEN x.entity.status ELSE mappings[s].status
        /\ row.version = IF x.entity.version # x.loaded.version
                         THEN x.entity.version ELSE mappings[s].version
    BY <2>1, <2>2, <2>3, FlushedLinkIs
  <2>5. IsLink(row)
    <3>1. row.customer \in {x.entity.customer, mappings[s].customer}
          /\ row.version \in {x.entity.version, mappings[s].version}
      BY <2>4
    <3> HIDE DEF row
    <3> QED BY <1>1, <2>2, <2>4, <3>1 DEF IsLink
  <2>6. x.loaded = mappings[s] => row.customer = x.entity.customer /\ row.status = x.entity.status
    BY <2>4
  <2> QED BY <2>4, <2>5, <2>6 DEF x, s
<1> QED BY <1>2, <1>3

\* The save of a mapping: a second row of the customer is refused.
LEMMA FlushMappingKeeps ==
  ASSUME Customers!CustomerAssumption, Lead \in Agents, CustomersInv, NEW c \in Agents,
         Customers!FlushMapping(c)
  PROVE  Kept(c)
<1> DEFINE s == calls[c].subject
           row == Customers!MappingRow(c)
<1>1. customers' = customers /\ asked' = asked /\ calls[c].phase = "saving"
  BY DEF Customers!FlushMapping
<1>2. s \in Subjects
  <2>1. CallIsAbout(calls[c])
    BY AgentsAre
  <2> QED BY <1>1, <2>1 DEF CallIsAbout, LinkPhases
<1>3. CASE Customers!MappingViolates(c)
  <2>1. calls' = Customers!Answer(c, "IDENTITY_CONFLICT") /\ mappings' = mappings /\ links' = links
    BY <1>3 DEF Customers!FlushMapping
  <2>2. PICK y \in AgentCall : calls' = [calls EXCEPT ![c] = y] /\ y.phase = "idle"
    BY <2>1, CallEnds
  <2> QED BY <1>1, <2>1, <2>2, IdleStepKeeps
<1>4. CASE ~Customers!MappingViolates(c)
  <2>1. /\ mappings' = [mappings EXCEPT ![s] = row]
        /\ links' = IF calls[c].op = "unlink" THEN {l \in links : l.subject # s}
                    ELSE links \cup {[subject |-> s, id |-> calls[c].id]}
        /\ calls' = Customers!Answer(c, "SUCCESS")
    BY <1>4 DEF Customers!FlushMapping
  <2>2. \A t \in Subjects \ {s} : mappings[t] # None => mappings[t].customer # row.customer
    BY <1>4 DEF Customers!MappingViolates
  <2>3. /\ IsLink(row) /\ row \in LinkRow
        /\ calls[c].loaded = mappings[s] =>
             row.customer = calls[c].entity.customer /\ row.status = calls[c].entity.status
    BY <1>1, MappingRowIs
  <2>4. row # None
    BY <2>3 DEF Customers!CustomerAssumption, LinkRow
  <2>5. mappings \in [Subjects -> LinkRow \cup {None}]
    BY DEF CustomersInv, CustomerShapes
  <2> HIDE DEF row
  <2>6. PICK y \in AgentCall : calls' = [calls EXCEPT ![c] = y] /\ y.phase = "idle"
    BY <2>1, CallEnds
  <2>7. AgentStep(c, y)
    BY <1>1, <2>6 DEF AgentStep
  <2>8. CallIsAbout(y)' /\ CopyIsCurrent(y)'
    BY <2>6 DEF CallIsAbout, CopyIsCurrent, CommandPhases, LinkPhases
  <2>9. /\ mappings' \in [Subjects -> LinkRow \cup {None}]
        /\ mappings'[s] = row /\ \A t \in Subjects \ {s} : mappings'[t] = mappings[t]
    BY <1>2, <2>1, <2>3, <2>5
  <2>10. \A t \in Subjects : mappings[t] # None => mappings'[t] # None
    BY <2>4, <2>9
  <2>11. \A t \in Subjects : mappings'[t] # None /\ mappings'[t] # mappings[t] => IsLink(mappings[t])'
    <3>1. PICK r \in LinkRow : r = row /\ r = mappings'[s]
      BY <2>3, <2>9
    <3>2. IsLink(r)'
      BY <2>3, <2>7, <3>1, IsLinkStays
    <3>3. ASSUME NEW t \in Subjects, mappings'[t] # mappings[t] PROVE t = s
      BY <2>9, <3>3
    <3>4. ASSUME NEW t \in Subjects, t = s PROVE IsLink(mappings[t])'
      <4>1. mappings'[t] = r
        BY <3>1, <3>4
      <4> QED BY <3>2, <4>1 DEF IsLink
    <3> QED BY <3>3, <3>4
  <2>12. MappingsAreApart'
    BY <2>2, <2>9 DEF CustomersInv, MappingsAreApart
  <2>13. customers' \in Seq(CustomerRow) /\ \A i \in DOMAIN customers' : customers'[i].version \in 1 .. asked' + 1
    BY <1>1 DEF CustomersInv, CustomerShapes, RowsFit
  <2>14. CustomersInv'
    BY <2>7, <2>8, <2>9, <2>10, <2>11, <2>12, <2>13, AgentStepKeeps
  <2>15. ASSUME SoleCallerInv, c = Lead PROVE SoleCallerInv'
    <3>1. CopyIsCurrent(calls[c]) /\ LinksStand
      BY <2>15 DEF SoleCallerInv
    <3>2. /\ calls[c].op \in {"link", "unlink"} /\ calls[c].loaded = mappings[s]
          /\ calls[c].op = "link" =>
               /\ calls[c].entity.customer = calls[c].id /\ calls[c].entity.status = "ACTIVE"
               /\ mappings[s] # None => mappings[s].customer = calls[c].id \/ mappings[s].status = "UNLINKED"
      BY <1>1, <3>1 DEF CopyIsCurrent, LinkPhases
    <3>3. ASSUME NEW l \in links'
          PROVE  /\ l.subject \in Subjects /\ mappings'[l.subject] # None
                 /\ mappings'[l.subject].customer = l.id /\ mappings'[l.subject].status = "ACTIVE"
      <4>1. CASE calls[c].op = "unlink"
        <5>1. l \in links /\ l.subject # s
          BY <2>1, <4>1
        <5> QED BY <2>9, <3>1, <5>1 DEF LinksStand
      <4>2. CASE calls[c].op = "link"
        <5>1. row.customer = calls[c].id /\ row.status = "ACTIVE"
          BY <2>3, <3>2, <4>2
        <5>2. CASE l \in links
          <6>1. /\ l.subject \in Subjects /\ mappings[l.subject] # None
                /\ mappings[l.subject].customer = l.id /\ mappings[l.subject].status = "ACTIVE"
            BY <3>1, <5>2 DEF LinksStand
          <6>2. CASE l.subject = s
            BY <1>2, <2>4, <2>9, <3>2, <4>2, <5>1, <6>1, <6>2
          <6>3. CASE l.subject # s
            BY <2>9, <6>1, <6>3
          <6> QED BY <6>2, <6>3
        <5>3. CASE l \notin links
          <6>1. l = [subject |-> s, id |-> calls[c].id]
            BY <2>1, <4>2, <5>3
          <6> QED BY <1>2, <2>4, <2>9, <5>1, <6>1
        <5> QED BY <5>2, <5>3
      <4> QED BY <3>2, <4>1, <4>2
    <3>4. LinksStand'
      BY <3>3 DEF LinksStand
    <3>5. calls' = [calls EXCEPT ![Lead] = y]
      BY <2>6, <2>15
    <3> QED BY <2>8, <2>15, <3>4, <3>5, SoleStepKeeps
  <2> QED BY <2>14, <2>15 DEF Kept
<1> QED BY <1>3, <1>4

-----------------------------------------------------------------------------
(* Customer Service as a whole.                                              *)

LEMMA BeginMoves ==
  ASSUME CustomersInv, NEW c \in Agents, NEW x, Customers!Begin(c, x)
  PROVE  calls'[c] # Customers!NoCall
<1>1. asked \in Nat
  BY DEF CustomersInv, CustomerShapes
<1>2. calls'[c] = [x EXCEPT !.number = asked + 1]
  BY DEF Customers!Begin, CustomersInv, CustomerShapes
<1>3. ASSUME NEW z, z = [x EXCEPT !.number = asked + 1] PROVE z # Customers!NoCall
  <2>1. SUFFICES ASSUME z = Customers!NoCall PROVE FALSE
    OBVIOUS
  <2>2. "number" \in DOMAIN z /\ z.number = 0
    BY <2>1, NoCallIs
  <2>3. z.number = asked + 1
    BY <1>3, <2>2
  <2> QED BY <1>1, <2>2, <2>3
<1> QED BY <1>2, <1>3

\* A request that does not move is not the one that took the step.
LEMMA RestingCaller ==
  ASSUME CustomersInv, NEW c \in Agents,
         Customers!Create(c) \/ Customers!Command(c) \/ Customers!ManageMapping(c) \/ Customers!Crash(c),
         calls[c] = Customers!NoCall
  PROVE  calls'[c] # Customers!NoCall
<1>1. calls[c].phase = "idle"
  BY NoCallIs
<1>2. CASE Customers!Create(c)
  <2>1. PICK k \in Keys, e \in Customers!Emails : Customers!BeginCreate(c, k, e)
    BY <1>1, <1>2 DEF Customers!Create, Customers!AddCustomer
  <2> QED BY <2>1, BeginMoves DEF Customers!BeginCreate
<1>3. CASE Customers!Command(c)
  <2>1. PICK op \in {"replace", "deactivate", "consent"}, i \in DOMAIN customers, e \in Customers!Emails :
          \E version \in 1 .. customers[i].version : Customers!BeginCommand(c, op, i, version, e)
    BY <1>1, <1>3 DEF Customers!Command, Customers!SaveConsent, Customers!LoadCustomer,
                      Customers!FlushCustomer
  <2> QED BY <2>1, BeginMoves DEF Customers!BeginCommand
<1>4. CASE Customers!ManageMapping(c)
  <2>1. PICK i \in DOMAIN customers, s \in Subjects :
          \/ \E version \in 1 .. customers[i].version : Customers!BeginLink(c, i, s, version)
          \/ \E version \in 1 .. mappings[s].version : Customers!BeginUnlink(c, i, s, version)
    BY <1>1, <1>4 DEF Customers!ManageMapping, Customers!ReadSubject, Customers!CheckLink,
                      Customers!LoadMapping, Customers!FlushMapping
  <2> QED BY <2>1, BeginMoves DEF Customers!BeginLink, Customers!BeginUnlink
<1>5. CASE Customers!Crash(c)
  BY <1>1, <1>5 DEF Customers!Crash
<1> QED BY <1>2, <1>3, <1>4, <1>5

LEMMA CallerKeeps ==
  ASSUME Customers!CustomerAssumption, Lead \in Agents, CustomersInv, NEW c \in Agents,
         Customers!Create(c) \/ Customers!Command(c) \/ Customers!ManageMapping(c) \/ Customers!Crash(c)
  PROVE  Kept(c)
<1>1. CASE Customers!Create(c)
  <2>1. CASE \E k \in Keys, e \in Customers!Emails : Customers!BeginCreate(c, k, e)
    BY <2>1, BeginCreateKeeps
  <2>2. CASE Customers!AddCustomer(c)
    BY <2>2, AddCustomerKeeps
  <2> QED BY <1>1, <2>1, <2>2 DEF Customers!Create
<1>2. CASE Customers!Command(c)
  <2>1. ASSUME NEW op \in {"replace", "deactivate", "consent"}, NEW i \in DOMAIN customers,
               NEW e \in Customers!Emails, NEW version \in 1 .. customers[i].version,
               Customers!BeginCommand(c, op, i, version, e)
        PROVE  Kept(c)
    <3>1. version \in Nat
      BY CustomersAre
    <3> QED BY <2>1, <3>1, BeginCommandKeeps
  <2>2. CASE Customers!SaveConsent(c)
    BY <2>2, SaveConsentKeeps
  <2>3. CASE Customers!LoadCustomer(c)
    BY <2>3, LoadCustomerKeeps
  <2>4. CASE Customers!FlushCustomer(c)
    BY <2>4, FlushCustomerKeeps
  <2> QED BY <1>2, <2>1, <2>2, <2>3, <2>4 DEF Customers!Command
<1>3. CASE Customers!ManageMapping(c)
  <2>1. ASSUME NEW i \in DOMAIN customers, NEW s \in Subjects,
               NEW version \in 1 .. customers[i].version, Customers!BeginLink(c, i, s, version)
        PROVE  Kept(c)
    <3>1. version \in Nat
      BY CustomersAre
    <3> QED BY <2>1, <3>1, BeginLinkKeeps
  <2>2. ASSUME NEW i \in DOMAIN customers, NEW s \in Subjects, s \in Customers!MappedTo(i),
               NEW version \in 1 .. mappings[s].version, Customers!BeginUnlink(c, i, s, version)
        PROVE  Kept(c)
    <3>1. mappings[s] \in LinkRow
      BY <2>2, MappingsAre DEF Customers!MappedTo
    <3>2. version \in Nat
      BY <3>1 DEF LinkRow
    <3> QED BY <2>2, <3>2, BeginUnlinkKeeps
  <2>3. CASE Customers!ReadSubject(c)
    BY <2>3, ReadSubjectKeeps
  <2>4. CASE Customers!CheckLink(c)
    BY <2>4, CheckLinkKeeps
  <2>5. CASE Customers!LoadMapping(c)
    BY <2>5, LoadMappingKeeps
  <2>6. CASE Customers!FlushMapping(c)
    BY <2>6, FlushMappingKeeps
  <2> QED BY <1>3, <2>1, <2>2, <2>3, <2>4, <2>5, <2>6 DEF Customers!ManageMapping
<1>4. CASE Customers!Crash(c)
  BY <1>4, CrashKeeps
<1> QED BY <1>1, <1>2, <1>3, <1>4

LEMMA CustomersStepKeeps ==
  ASSUME Customers!CustomerAssumption, Lead \in Agents, CustomersInv, Customers!Next
  PROVE  /\ CustomersInv'
         /\ SoleCallerInv /\ OneCaller => SoleCallerInv'
<1>1. PICK c \in Agents :
        Customers!Create(c) \/ Customers!Command(c) \/ Customers!ManageMapping(c) \/ Customers!Crash(c)
  BY DEF Customers!Next
<1>2. Kept(c)
  BY <1>1, CallerKeeps
<1>3. ASSUME SoleCallerInv, OneCaller PROVE c = Lead
  <2>1. SUFFICES ASSUME c # Lead PROVE FALSE
    OBVIOUS
  <2>2. calls[c] = Customers!NoCall /\ calls'[c] = calls[c]
    BY <1>3, <2>1 DEF SoleCallerInv, OneCaller
  <2> QED BY <1>1, <2>2, RestingCaller
<1> QED BY <1>2, <1>3 DEF Kept

LEMMA CustomersStutterKeeps ==
  ASSUME CustomersInv, UNCHANGED customerVars
  PROVE  /\ CustomersInv'
         /\ SoleCallerInv => SoleCallerInv'
<1>1. /\ customers' = customers /\ mappings' = mappings /\ calls' = calls /\ asked' = asked
      /\ links' = links
  BY DEF customerVars
<1>2. CustomerShapes' /\ MappingsAreApart'
  BY <1>1 DEF CustomersInv, CustomerShapes, MappingsAreApart
<1>3. Linking' = Linking
  BY <1>1 DEF Linking
<1>4. CallsFit' /\ RowsFit'
  BY <1>1, <1>3 DEF CustomersInv, CallsFit, CallIsAbout, RowsFit, IsLink
<1>5. ASSUME SoleCallerInv PROVE SoleCallerInv'
  BY <1>1, <1>5 DEF SoleCallerInv, CopyIsCurrent, LinksStand
<1> QED BY <1>2, <1>4, <1>5 DEF CustomersInv

LEMMA InitIsCustomers ==
  ASSUME Customers!CustomerAssumption, Lead \in Agents, Customers!Init
  PROVE  CustomersInv /\ SoleCallerInv
<1>1. /\ customers = <<>> /\ mappings = [s \in Subjects |-> None]
      /\ calls = [c \in Agents |-> Customers!NoCall] /\ asked = 0 /\ links = {}
  BY DEF Customers!Init
<1>2. Customers!NoCall \in AgentCall /\ Customers!NoCall.phase = "idle"
  BY NoCallIs, NoCallIsCall
<1>3. CustomerShapes
  <2>1. 0 \in 0 .. MaxCalls
    BY DEF Customers!CustomerAssumption
  <2>2. calls \in [Agents -> AgentCall] /\ mappings \in [Subjects -> LinkRow \cup {None}]
    BY <1>1, <1>2
  <2> QED BY <1>1, <2>1, <2>2 DEF CustomerShapes
<1>4. Cardinality(Linking) <= asked
  <2>1. Linking = {}
    BY <1>1, <1>2 DEF Linking
  <2> QED BY <1>1, <2>1, FS_EmptySet
<1>5. RowsFit /\ MappingsAreApart
  BY <1>1, <1>4 DEF RowsFit, MappingsAreApart
<1>6. CallsFit /\ CopyIsCurrent(calls[Lead])
  <2>1. \A c \in Agents : calls[c].phase = "idle"
    BY <1>1, <1>2
  <2> QED BY <2>1 DEF CallsFit, CallIsAbout, CopyIsCurrent, CommandPhases, LinkPhases
<1>7. SoleCallerInv
  BY <1>1, <1>6 DEF SoleCallerInv, LinksStand
<1> QED BY <1>3, <1>5, <1>6, <1>7 DEF CustomersInv

\* What the invariants say of the rows.
LEMMA CustomersFollow ==
  ASSUME Customers!CustomerAssumption, CustomersInv
  PROVE  Customers!TypeOK /\ Customers!CustomerHasOneMapping
<1>1. asked \in 0 .. MaxCalls /\ MaxCalls \in Nat
  BY DEF CustomersInv, CustomerShapes, Customers!CustomerAssumption
<1>2. ASSUME NEW i \in DOMAIN customers
      PROVE  customers[i] \in [email : Customers!Emails, status : {"ACTIVE", "INACTIVE"},
                               version : 1 .. MaxCalls + 1]
  <2>1. customers[i] \in CustomerRow /\ customers[i].version \in 1 .. asked + 1
    BY CustomersAre
  <2>2. customers[i].version \in 1 .. MaxCalls + 1
    BY <1>1, <2>1
  <2> QED BY <2>1, <2>2 DEF CustomerRow
<1>3. ASSUME NEW s \in Subjects, mappings[s] # None
      PROVE  mappings[s] \in [customer : DOMAIN customers, status : {"ACTIVE", "UNLINKED"},
                              version : 1 .. MaxCalls + 1]
  <2>1. IsLink(mappings[s]) /\ mappings[s] \in LinkRow
    BY <1>3, MappingsAre
  <2>2. mappings[s].version \in Nat /\ mappings[s].version >= 1
        /\ mappings[s].version + Cardinality(Linking) <= asked + 1
        /\ mappings[s].customer \in DOMAIN customers
    BY <2>1 DEF IsLink, LinkRow
  <2>3. Cardinality(Linking) \in Nat
    <3>1. IsFiniteSet(Agents)
      BY DEF Customers!CustomerAssumption, Customers!IsFiniteSet, IsFiniteSet
    <3>2. Linking \subseteq Agents
      BY DEF Linking
    <3> QED BY <3>1, <3>2, FS_Subset, FS_CardinalityType
  <2>4. mappings[s].version \in 1 .. MaxCalls + 1
    BY <1>1, <2>2, <2>3
  <2> QED BY <2>1, <2>2, <2>4 DEF LinkRow
<1>4. ASSUME NEW c \in Agents, calls[c].phase \in {"loading", "flushing"}
      PROVE  Customers!Exists(calls[c].id) /\ calls[c].entity.version > 1
  <2>1. calls[c].id \in DOMAIN customers /\ calls[c].entity.version \in 2 .. asked + 1
    BY <1>4, AgentsAre DEF CallIsAbout, CommandPhases
  <2> QED BY <1>1, <2>1 DEF Customers!Exists
<1>5. ASSUME NEW i \in DOMAIN customers PROVE Customers!Cardinality(Customers!MappedTo(i)) <= 1
  <2>1. Customers!Cardinality(Customers!MappedTo(i)) = Cardinality(Customers!MappedTo(i))
    BY DEF Customers!Cardinality, Cardinality
  <2>2. \A s, t \in Customers!MappedTo(i) : s = t
    BY DEF Customers!MappedTo, CustomersInv, MappingsAreApart
  <2>3. CASE Customers!MappedTo(i) = {}
    <3>1. Cardinality(Customers!MappedTo(i)) = 0
      BY <2>3, FS_EmptySet
    <3> QED BY <2>1, <3>1
  <2>4. CASE Customers!MappedTo(i) # {}
    <3>1. PICK s : Customers!MappedTo(i) = {s}
      BY <2>2, <2>4
    <3>2. Cardinality({s}) = 1
      BY FS_Singleton
    <3> QED BY <2>1, <3>1, <3>2
  <2> QED BY <2>3, <2>4
<1>6. Customers!TypeOK
  BY <1>2, <1>3, <1>4 DEF Customers!TypeOK
<1>7. Customers!CustomerHasOneMapping
  BY <1>5 DEF Customers!CustomerHasOneMapping
<1> QED BY <1>6, <1>7

LEMMA LinksFollow ==
  ASSUME SoleCallerInv
  PROVE  Customers!LinkIsKept
BY DEF SoleCallerInv, LinksStand, Customers!LinkIsKept, Customers!Resolve

-----------------------------------------------------------------------------
(* The profiles, with any callers: without rivals a copy is what is stored.   *)

InCommand(x) == x.phase \in CommandPhases

\* What the request x is to save is the next version of what is stored.
CopyIsNext(x) ==
  /\ x.from = customers[x.id].version /\ x.entity.version = customers[x.id].version + 1
  /\ customers[x.id].status = "INACTIVE" => x.entity.status = "INACTIVE"
  /\ x.phase = "flushing" => x.loaded = customers[x.id]

ProfileWritten(i, version) == \E w \in writes : w.id = i /\ w.from = version

\* Unless another request has saved the version x read.
CopyIsDated(x) ==
  InCommand(x) => Customers!HasRivals(x.id) \/ ProfileWritten(x.id, x.from) \/ CopyIsNext(x)

\* Requests are told apart by their numbers, from those that were answered too.
CommandsDiffer ==
  /\ \A c, d \in Agents :
       InCommand(calls[c]) /\ InCommand(calls[d]) /\ calls[c].number = calls[d].number => c = d
  /\ \A w \in writes, c \in Agents : InCommand(calls[c]) => w.by # calls[c].number
  /\ \A c \in Agents : InCommand(calls[c]) => calls[c].number \in 1 .. asked

\* A version that was saved is in the past of its customer.
ProfileVersionsFit ==
  \A w \in writes :
    /\ w.id \in DOMAIN customers /\ w.from \in Nat /\ w.by \in 1 .. asked
    /\ Customers!HasRivals(w.id) \/ w.from < customers[w.id].version

ProfilesInv ==
  /\ \A c \in Agents : CopyIsDated(calls[c])
  /\ CommandsDiffer
  /\ ProfileVersionsFit

\* A request keeps what it was, or has begun, or ends.
CallGoesOn(c) ==
  /\ \A d \in Agents \ {c} : calls'[d] = calls[d]
  /\ \/ /\ asked' = asked
        /\ InCommand(calls'[c]) => InCommand(calls[c]) /\ calls'[c].number = calls[c].number
     \/ asked' = asked + 1 /\ (InCommand(calls'[c]) => calls'[c].number = asked + 1)

\* A step that changes no customer, but may add one.
LEMMA ProfileStepKeeps ==
  ASSUME CustomersInv, ProfilesInv, NEW c \in Agents, CallGoesOn(c), CopyIsDated(calls[c])',
         writes' = writes, \A i \in DOMAIN customers : i \in DOMAIN customers' /\ customers'[i] = customers[i]
  PROVE  ProfilesInv' /\ Customers!StaysDeactivated
<1>1. asked \in Nat /\ asked' \in Nat /\ asked <= asked' /\ asked + 1 \notin 1 .. asked
  BY DEF CallGoesOn, CustomersInv, CustomerShapes
<1>2. \A i : Customers!HasRivals(i)' <=> Customers!HasRivals(i)
  BY DEF Customers!HasRivals
<1>3. ASSUME NEW d \in Agents PROVE CopyIsDated(calls[d])'
  <2>1. CASE d # c
    <3>1. calls'[d] = calls[d] /\ CopyIsDated(calls[d]) /\ CallIsAbout(calls[d])
      BY <2>1, AgentsAre DEF CallGoesOn, ProfilesInv
    <3>2. InCommand(calls[d]) => customers'[calls[d].id] = customers[calls[d].id]
      BY <3>1 DEF CallIsAbout, InCommand
    <3> QED BY <1>2, <3>1, <3>2 DEF CopyIsDated, CopyIsNext, ProfileWritten, InCommand
  <2> QED BY <2>1
<1>4. CommandsDiffer'
  <2>1. \A d \in Agents : InCommand(calls'[d]) => calls'[d].number \in 1 .. asked'
    BY <1>1 DEF CallGoesOn, ProfilesInv, CommandsDiffer
  <2>2. ASSUME NEW d \in Agents, NEW f \in Agents, InCommand(calls'[d]), InCommand(calls'[f]),
               calls'[d].number = calls'[f].number
        PROVE  d = f
    BY <1>1, <2>2 DEF CallGoesOn, ProfilesInv, CommandsDiffer
  <2>3. ASSUME NEW w \in writes, NEW d \in Agents, InCommand(calls'[d]) PROVE w.by # calls'[d].number
    BY <1>1, <2>3 DEF CallGoesOn, ProfilesInv, CommandsDiffer, ProfileVersionsFit
  <2> QED BY <2>1, <2>2, <2>3 DEF CommandsDiffer, InCommand
<1>5. ProfileVersionsFit'
  BY <1>1, <1>2 DEF ProfilesInv, ProfileVersionsFit
<1>6. Customers!StaysDeactivated
  BY DEF Customers!StaysDeactivated
<1> QED BY <1>3, <1>4, <1>5, <1>6 DEF ProfilesInv

\* In particular one after which the request is no command.
LEMMA NoCommandKeeps ==
  ASSUME CustomersInv, ProfilesInv, NEW c \in Agents, NEW y, y.phase \notin CommandPhases,
         calls' = [calls EXCEPT ![c] = y], asked' = asked \/ asked' = asked + 1,
         writes' = writes, \A i \in DOMAIN customers : i \in DOMAIN customers' /\ customers'[i] = customers[i]
  PROVE  ProfilesInv' /\ Customers!StaysDeactivated
<1>1. calls'[c] = y /\ \A d \in Agents \ {c} : calls'[d] = calls[d]
  BY DEF CustomersInv, CustomerShapes
<1>2. CallGoesOn(c) /\ CopyIsDated(calls[c])'
  BY <1>1 DEF CallGoesOn, CopyIsDated, InCommand
<1> QED BY <1>2, ProfileStepKeeps

\* A command keeps its change of the row it read under If-Match.
LEMMA BeginCommandDates ==
  ASSUME CustomersInv, ProfilesInv, NEW c \in Agents,
         NEW op \in {"replace", "deactivate", "consent"}, NEW i \in DOMAIN customers,
         NEW version \in Nat, NEW e \in Customers!Emails,
         Customers!BeginCommand(c, op, i, version, e)
  PROVE  ProfilesInv' /\ Customers!StaysDeactivated
<1>1. customers' = customers /\ writes' = writes
  BY DEF Customers!BeginCommand
<1>2. CASE customers[i].version # version
  <2>1. PICK x : x = Customers!Refused(op, "PRECONDITION_FAILED")
    OBVIOUS
  <2>2. x \in AgentCall /\ x.phase = "idle" /\ Customers!Begin(c, x)
    BY <1>2, <2>1, RefusedIs DEF Customers!BeginCommand
  <2>3. PICK y \in AgentCall :
          calls' = [calls EXCEPT ![c] = y] /\ asked' = asked + 1 /\ y.phase = x.phase
    BY <2>2, CallBegins
  <2>4. y.phase \notin CommandPhases
    BY <2>2, <2>3 DEF CommandPhases
  <2> QED BY <1>1, <2>3, <2>4, NoCommandKeeps
<1>3. CASE customers[i].version = version
  <2>1. PICK row, phase, x :
          /\ row = Customers!Changed(op, customers[i], e)
          /\ phase = IF op = "consent" THEN "consenting" ELSE "loading"
          /\ x = [Customers!NoCall EXCEPT !.op = op, !.id = i, !.from = version, !.phase = phase,
                                          !.entity = row]
    OBVIOUS
  <2>2. Customers!Begin(c, x)
    BY <1>3, <2>1 DEF Customers!BeginCommand
  <2>3. /\ row.version = customers[i].version + 1
        /\ customers[i].status = "INACTIVE" => row.status = "INACTIVE"
    BY <2>1, CustomersAre, ChangedIs
  <2>4. /\ x.phase = phase /\ x.id = i /\ x.from = version /\ x.entity = row
        /\ x = [j \in CallFields |-> x[j]]
    BY <2>1, NoCallIs DEF CallFields
  <2>5. calls' = [calls EXCEPT ![c] = [x EXCEPT !.number = asked + 1]] /\ asked' = asked + 1
    BY <2>2 DEF Customers!Begin
  <2>6. PICK y : y = [x EXCEPT !.number = asked + 1]
    OBVIOUS
  <2>7. y.phase = phase /\ y.id = i /\ y.from = version /\ y.entity = row /\ y.number = asked + 1
    BY <2>4, <2>6 DEF CallFields
  <2>8. calls'[c] = y /\ \A d \in Agents \ {c} : calls'[d] = calls[d]
    BY <2>5, <2>6 DEF CustomersInv, CustomerShapes
  <2>9. phase # "flushing"
    BY <2>1
  <2>10. CopyIsNext(calls[c])'
    BY <1>1, <1>3, <2>3, <2>7, <2>8, <2>9 DEF CopyIsNext
  <2>11. CallGoesOn(c) /\ CopyIsDated(calls[c])'
    BY <2>5, <2>7, <2>8, <2>10 DEF CallGoesOn, CopyIsDated
  <2> QED BY <1>1, <2>11, ProfileStepKeeps
<1> QED BY <1>2, <1>3

\* save_consent, and the second read of the row.
LEMMA GoingOnDates ==
  ASSUME CustomersInv, ProfilesInv, NEW c \in Agents,
         Customers!SaveConsent(c) \/ Customers!LoadCustomer(c)
  PROVE  ProfilesInv' /\ Customers!StaysDeactivated
<1>1. /\ customers' = customers /\ writes' = writes /\ asked' = asked
      /\ calls[c].phase \in {"consenting", "loading"}
  BY DEF Customers!SaveConsent, Customers!LoadCustomer
<1>2. /\ calls'[c].id = calls[c].id /\ calls'[c].from = calls[c].from
      /\ calls'[c].number = calls[c].number /\ calls'[c].entity = calls[c].entity
      /\ calls'[c].phase = "flushing" => calls'[c].loaded = customers[calls[c].id]
      /\ \A d \in Agents \ {c} : calls'[d] = calls[d]
  <2>1. calls[c] \in AgentCall /\ calls \in [Agents -> AgentCall]
    BY AgentsAre DEF CustomersInv, CustomerShapes
  <2>2. CASE Customers!SaveConsent(c)
    BY <2>1, <2>2 DEF Customers!SaveConsent, AgentCall
  <2>3. CASE Customers!LoadCustomer(c)
    BY <2>1, <2>3 DEF Customers!LoadCustomer, AgentCall
  <2> QED BY <2>2, <2>3
<1>3. InCommand(calls[c])
  BY <1>1 DEF InCommand, CommandPhases
<1>4. CallGoesOn(c)
  BY <1>1, <1>2, <1>3 DEF CallGoesOn
<1>5. CopyIsDated(calls[c])'
  <2>1. CopyIsDated(calls[c]) /\ calls[c].phase # "flushing"
    BY <1>1 DEF ProfilesInv
  <2> QED BY <1>1, <1>2, <1>3, <2>1
       DEF CopyIsDated, CopyIsNext, ProfileWritten, Customers!HasRivals
<1> QED BY <1>1, <1>4, <1>5, ProfileStepKeeps

\* The command x of caller c saves "row" of customer i, which counts as "written".
Saves(c, x, i, row, written) ==
  /\ x = calls[c] /\ i = x.id /\ x.phase = "flushing"
  /\ row = Customers!Flushed(customers[i], x.loaded, x.entity)
  /\ written = [id |-> i, from |-> x.from, by |-> x.number]
  /\ customers' = [customers EXCEPT ![i] = row] /\ writes' = writes \cup {written}
  /\ calls' = Customers!Answer(c, "SUCCESS") /\ asked' = asked

\* Without rivals the copy was the next version.
LEMMA SavedKeeps ==
  ASSUME CustomersInv, ProfilesInv, NEW c \in Agents, NEW x \in AgentCall, NEW i, NEW row,
         NEW written, Saves(c, x, i, row, written)
  PROVE  ProfilesInv' /\ Customers!StaysDeactivated
<1> USE DEF Saves
<1>1. /\ InCommand(x) /\ i \in DOMAIN customers /\ x.entity \in CustomerRow /\ x.number \in 1 .. asked
      /\ customers[i] \in CustomerRow /\ customers[i].version \in Nat
  <2>1. InCommand(x)
    BY DEF InCommand, CommandPhases
  <2>2. i \in DOMAIN customers /\ x.entity \in CustomerRow /\ x.number \in 1 .. asked
    BY <2>1, AgentsAre DEF CallIsAbout, InCommand, ProfilesInv, CommandsDiffer
  <2> QED BY <2>1, <2>2, CustomersAre
<1>2. /\ row.status = IF x.entity.status # x.loaded.status THEN x.entity.status ELSE customers[i].status
      /\ row.version = IF x.entity.version # x.loaded.version THEN x.entity.version ELSE customers[i].version
  BY <1>1, FlushedCustomerIs
<1>3. PICK y \in AgentCall : calls' = [calls EXCEPT ![c] = y] /\ y.phase = "idle"
  BY CallEnds
<1>4. /\ calls'[c] = y /\ ~InCommand(y) /\ \A d \in Agents \ {c} : calls'[d] = calls[d]
  BY <1>3 DEF CustomersInv, CustomerShapes, InCommand, CommandPhases
<1>5. /\ DOMAIN customers' = DOMAIN customers /\ customers'[i] = row
      /\ \A j \in DOMAIN customers \ {i} : customers'[j] = customers[j]
  BY <1>1
<1>6. written.id = i /\ written.from = x.from /\ written.by = x.number
  OBVIOUS
<1>7. /\ \A j : Customers!HasRivals(j) => Customers!HasRivals(j)'
      /\ \A j, v : ProfileWritten(j, v) => ProfileWritten(j, v)'
      /\ \A w \in writes : w.id = i /\ w.from = x.from /\ w.by # x.number => Customers!HasRivals(i)'
  BY <1>6 DEF Customers!HasRivals, ProfileWritten
\* Either there are rivals now, or the copy was what is stored.
<1>8. Customers!HasRivals(i)' \/ CopyIsNext(x)
  <2>1. CopyIsDated(x) /\ \A w \in writes : w.by # x.number
    BY <1>1 DEF ProfilesInv, CommandsDiffer
  <2> QED BY <1>1, <1>7, <2>1 DEF CopyIsDated, ProfileWritten
<1>9. CopyIsNext(x) => /\ x.from = customers[i].version /\ row.version = customers[i].version + 1
                       /\ customers[i].status = "INACTIVE" => row.status = "INACTIVE"
  <2>1. ASSUME CopyIsNext(x)
        PROVE  /\ x.loaded = customers[i] /\ x.from = customers[i].version
               /\ x.entity.version = customers[i].version + 1
               /\ customers[i].status = "INACTIVE" => x.entity.status = "INACTIVE"
    BY <2>1 DEF CopyIsNext
  <2>2. customers[i].version # customers[i].version + 1
    BY <1>1
  <2> QED BY <1>2, <2>1, <2>2
<1>10. ASSUME NEW d \in Agents PROVE CopyIsDated(calls[d])'
  <2>1. CASE d = c
    BY <1>4, <2>1 DEF CopyIsDated, InCommand
  <2>2. CASE d # c
    <3>1. calls'[d] = calls[d] /\ CopyIsDated(calls[d]) /\ CallIsAbout(calls[d])
      BY <1>4, <2>2, AgentsAre DEF ProfilesInv
    <3>2. CASE ~InCommand(calls[d])
      BY <3>1, <3>2 DEF CopyIsDated, InCommand
    <3>3. CASE InCommand(calls[d]) /\ calls[d].id # i
      <4>1. customers'[calls[d].id] = customers[calls[d].id]
        BY <1>5, <3>1, <3>3 DEF CallIsAbout, InCommand
      <4> QED BY <1>7, <3>1, <3>3, <4>1 DEF CopyIsDated, CopyIsNext, InCommand
    <3>4. CASE InCommand(calls[d]) /\ calls[d].id = i
      <4>1. CASE Customers!HasRivals(i)'
        BY <3>1, <3>4, <4>1 DEF CopyIsDated, InCommand
      <4>2. CASE ~Customers!HasRivals(i)'
        <5>1. ProfileWritten(i, x.from)'
          BY <1>6 DEF ProfileWritten
        <5>2. ProfileWritten(i, calls[d].from)'
          BY <1>7, <1>8, <1>9, <3>1, <3>4, <4>2, <5>1 DEF CopyIsDated, CopyIsNext
        <5> QED BY <3>1, <3>4, <5>2 DEF CopyIsDated, InCommand
      <4> QED BY <4>1, <4>2
    <3> QED BY <3>2, <3>3, <3>4
  <2> QED BY <2>1, <2>2
<1>11. CommandsDiffer'
  <2>1. \A d \in Agents : InCommand(calls'[d]) => d # c /\ calls'[d] = calls[d]
    BY <1>4 DEF InCommand
  <2>2. \A d \in Agents : InCommand(calls'[d]) => calls'[d].number # x.number
    BY <1>1, <2>1 DEF ProfilesInv, CommandsDiffer
  <2>3. ASSUME NEW d \in Agents, NEW f \in Agents, InCommand(calls'[d]), InCommand(calls'[f]),
               calls'[d].number = calls'[f].number
        PROVE  d = f
    BY <2>1, <2>3 DEF ProfilesInv, CommandsDiffer
  <2>4. ASSUME NEW w \in writes', NEW d \in Agents, InCommand(calls'[d]) PROVE w.by # calls'[d].number
    BY <1>6, <2>1, <2>2, <2>4 DEF ProfilesInv, CommandsDiffer
  <2>5. \A d \in Agents : InCommand(calls'[d]) => calls'[d].number \in 1 .. asked'
    BY <2>1 DEF ProfilesInv, CommandsDiffer
  <2> QED BY <2>3, <2>4, <2>5 DEF CommandsDiffer, InCommand
<1>12. ProfileVersionsFit'
  <2>1. ASSUME NEW w \in writes'
        PROVE  /\ w.id \in DOMAIN customers' /\ w.from \in Nat /\ w.by \in 1 .. asked'
               /\ Customers!HasRivals(w.id)' \/ w.from < customers'[w.id].version
    <3>1. w \in writes => /\ w.id \in DOMAIN customers /\ w.from \in Nat /\ w.by \in 1 .. asked
                          /\ Customers!HasRivals(w.id) \/ w.from < customers[w.id].version
      BY DEF ProfilesInv, ProfileVersionsFit
    <3>2. CASE w.id # i
      BY <1>5, <1>6, <1>7, <3>1, <3>2
    <3>3. CASE w.id = i
      <4>1. w.from \in Nat /\ w.by \in 1 .. asked'
        BY <1>1, <1>6, <3>1 DEF AgentCall
      <4>2. CASE Customers!HasRivals(i)'
        BY <1>1, <1>5, <3>3, <4>1, <4>2
      <4>3. CASE ~Customers!HasRivals(i)'
        <5>1. x.from = customers[i].version /\ row.version = customers[i].version + 1
          BY <1>8, <1>9, <4>3
        <5>2. w.from < customers[i].version \/ w.from = customers[i].version
          BY <1>6, <1>7, <3>1, <3>3, <4>3, <5>1
        <5>3. w.from < row.version
          BY <1>1, <4>1, <5>1, <5>2
        <5> QED BY <1>1, <1>5, <3>3, <4>1, <5>3
      <4> QED BY <4>2, <4>3
    <3> QED BY <3>2, <3>3
  <2> QED BY <2>1 DEF ProfileVersionsFit
<1>13. Customers!StaysDeactivated
  <2>1. ASSUME NEW j \in DOMAIN customers, customers[j].status = "INACTIVE"
        PROVE  customers'[j].status = "INACTIVE" \/ Customers!HasRivals(j)'
    <3>1. CASE j = i
      BY <1>5, <1>8, <1>9, <2>1, <3>1
    <3>2. CASE j # i
      BY <1>5, <2>1, <3>2
    <3> QED BY <3>1, <3>2
  <2> QED BY <2>1 DEF Customers!StaysDeactivated
<1> QED BY <1>10, <1>11, <1>12, <1>13 DEF ProfilesInv

\* The flush of a customer's row.
LEMMA FlushCustomerDates ==
  ASSUME CustomersInv, ProfilesInv, NEW c \in Agents, Customers!FlushCustomer(c)
  PROVE  ProfilesInv' /\ Customers!StaysDeactivated
<1>1. PICK x, i, row, written, answer :
        /\ x \in AgentCall
        /\ x = calls[c] /\ i = x.id
        /\ row = Customers!Flushed(customers[i], x.loaded, x.entity)
        /\ written = [id |-> i, from |-> x.from, by |-> x.number]
        /\ answer = IF Customers!Violates(i, row.email) THEN "DUPLICATE_EMAIL" ELSE "SUCCESS"
  BY AgentsAre
<1>2. /\ x.phase = "flushing"
      /\ customers' = IF answer = "SUCCESS" THEN [customers EXCEPT ![i] = row] ELSE customers
      /\ writes' = IF answer # "SUCCESS" THEN writes ELSE writes \cup {written}
      /\ calls' = Customers!Answer(c, answer) /\ asked' = asked
  BY <1>1 DEF Customers!FlushCustomer
<1>3. CASE answer = "SUCCESS"
  <2>1. /\ customers' = [customers EXCEPT ![i] = row] /\ writes' = writes \cup {written}
        /\ calls' = Customers!Answer(c, "SUCCESS")
    BY <1>2, <1>3
  <2>2. Saves(c, x, i, row, written)
    BY <1>1, <1>2, <2>1 DEF Saves
  <2> QED BY <1>1, <2>2, SavedKeeps
<1>4. CASE answer = "DUPLICATE_EMAIL"
  <2>1. PICK y \in AgentCall : calls' = [calls EXCEPT ![c] = y] /\ y.phase = "idle"
    BY <1>2, <1>4, CallEnds
  <2>2. y.phase \notin CommandPhases
    BY <2>1 DEF CommandPhases
  <2> QED BY <1>2, <1>4, <2>1, <2>2, NoCommandKeeps
<1> QED BY <1>1, <1>3, <1>4

\* Requests that are no commands: they change no customer, but may add one.
NoCommand(c) ==
  /\ \E y : calls' = [calls EXCEPT ![c] = y] /\ y.phase \notin CommandPhases
  /\ asked' = asked \/ asked' = asked + 1
  /\ writes' = writes
  /\ \A i \in DOMAIN customers : i \in DOMAIN customers' /\ customers'[i] = customers[i]

LEMMA BegunIsNoCommand ==
  ASSUME NEW c \in Agents, NEW x, x = [j \in CallFields |-> x[j]], x.phase \notin CommandPhases,
         Customers!Begin(c, x), writes' = writes, customers' = customers
  PROVE  NoCommand(c)
<1>1. PICK y : y = [x EXCEPT !.number = asked + 1]
  OBVIOUS
<1>2. y.phase = x.phase
  BY <1>1 DEF CallFields
<1>3. calls' = [calls EXCEPT ![c] = y] /\ asked' = asked + 1
  BY <1>1 DEF Customers!Begin
<1> QED BY <1>2, <1>3 DEF NoCommand

LEMMA RefusedIsNoCommand ==
  ASSUME NEW c \in Agents, NEW op, NEW answer, Customers!Begin(c, Customers!Refused(op, answer)),
         writes' = writes, customers' = customers
  PROVE  NoCommand(c)
<1>1. PICK x : x = Customers!Refused(op, answer)
  OBVIOUS
<1>2. x = [j \in CallFields |-> x[j]] /\ x.phase = "idle"
  BY <1>1, NoCallIs DEF Customers!Refused, CallFields
<1> QED BY <1>1, <1>2, BegunIsNoCommand DEF CommandPhases

LEMMA EndedIsNoCommand ==
  ASSUME CustomersInv, NEW c \in Agents,
         NEW answer \in {"SUCCESS", "DUPLICATE_EMAIL", "IDENTITY_CONFLICT"},
         calls' = Customers!Answer(c, answer), asked' = asked, writes' = writes,
         \A i \in DOMAIN customers : i \in DOMAIN customers' /\ customers'[i] = customers[i]
  PROVE  NoCommand(c)
<1>1. PICK y \in AgentCall : calls' = [calls EXCEPT ![c] = y] /\ y.phase = "idle"
  BY CallEnds
<1> QED BY <1>1 DEF NoCommand, CommandPhases

\* create_customer.
LEMMA CreateIsNoCommand ==
  ASSUME CustomersInv, NEW c \in Agents, Customers!Create(c)
  PROVE  NoCommand(c)
<1>1. ASSUME NEW k \in Keys, NEW e \in Customers!Emails, Customers!BeginCreate(c, k, e)
      PROVE  NoCommand(c)
  <2>1. customers' = customers /\ writes' = writes
    BY <1>1 DEF Customers!BeginCreate
  <2>2. CASE Customers!IsTaken(e)
    BY <1>1, <2>1, <2>2, RefusedIsNoCommand DEF Customers!BeginCreate
  <2>3. CASE ~Customers!IsTaken(e)
    <3>1. PICK x : x = [Customers!NoCall EXCEPT !.op = "create", !.phase = "adding", !.key = k,
                                 !.entity = [email |-> e, status |-> "ACTIVE", version |-> 1]]
      OBVIOUS
    <3>2. x = [j \in CallFields |-> x[j]] /\ x.phase = "adding"
      BY <3>1, NoCallIs DEF CallFields
    <3>3. Customers!Begin(c, x)
      BY <1>1, <2>3, <3>1 DEF Customers!BeginCreate
    <3> QED BY <2>1, <3>2, <3>3, BegunIsNoCommand DEF CommandPhases
  <2> QED BY <2>2, <2>3
<1>2. ASSUME Customers!AddCustomer(c) PROVE NoCommand(c)
  <2>1. PICK id, entity, answer :
          /\ id = Customers!Cardinality(DOMAIN customers) + 1 /\ entity = calls[c].entity
          /\ answer = IF Customers!Violates(id, entity.email) THEN "DUPLICATE_EMAIL" ELSE "SUCCESS"
    OBVIOUS
  <2>2. /\ customers' = IF answer # "SUCCESS" THEN customers
                        ELSE [i \in DOMAIN customers \cup {id} |-> IF i = id THEN entity ELSE customers[i]]
        /\ calls' = Customers!Answer(c, answer) /\ asked' = asked /\ writes' = writes
    BY <1>2, <2>1 DEF Customers!AddCustomer
  <2>3. id \notin DOMAIN customers
    <3>1. customers \in Seq(CustomerRow)
      BY DEF CustomersInv, CustomerShapes
    <3>2. PICK m \in Nat : DOMAIN customers = 1 .. m
      BY <3>1
    <3>3. Customers!Cardinality(DOMAIN customers) = m
      <4>1. Customers!Cardinality(DOMAIN customers) = Cardinality(1 .. m)
        BY <3>2 DEF Customers!Cardinality, Cardinality
      <4>2. Cardinality(1 .. m) = m
        BY FS_Interval
      <4> QED BY <4>1, <4>2
    <3> QED BY <2>1, <3>2, <3>3
  <2>4. \A i \in DOMAIN customers : i \in DOMAIN customers' /\ customers'[i] = customers[i]
    BY <2>2, <2>3
  <2>5. answer \in {"SUCCESS", "DUPLICATE_EMAIL", "IDENTITY_CONFLICT"}
    BY <2>1
  <2> QED BY <2>2, <2>4, <2>5, EndedIsNoCommand
<1> QED BY <1>1, <1>2 DEF Customers!Create

\* Links and the end of one.
LEMMA ManageMappingIsNoCommand ==
  ASSUME CustomersInv, NEW c \in Agents, Customers!ManageMapping(c)
  PROVE  NoCommand(c)
<1>1. calls[c] \in AgentCall
  BY AgentsAre
<1>2. customers' = customers /\ writes' = writes
  BY DEF Customers!ManageMapping, Customers!BeginLink, Customers!BeginUnlink, Customers!ReadSubject,
         Customers!CheckLink, Customers!LoadMapping, Customers!FlushMapping
<1>3. ASSUME NEW i \in DOMAIN customers, NEW s \in Subjects, NEW version,
             Customers!BeginLink(c, i, s, version)
      PROVE  NoCommand(c)
  <2>1. CASE customers[i].version # version
    BY <1>2, <1>3, <2>1, RefusedIsNoCommand DEF Customers!BeginLink
  <2>2. CASE customers[i].version = version
    <3>1. PICK x : x = [Customers!NoCall EXCEPT !.op = "link", !.id = i, !.subject = s, !.phase = "subject"]
      OBVIOUS
    <3>2. x = [j \in CallFields |-> x[j]] /\ x.phase = "subject"
      BY <3>1, NoCallIs DEF CallFields
    <3>3. Customers!Begin(c, x)
      BY <1>3, <2>2, <3>1 DEF Customers!BeginLink
    <3> QED BY <1>2, <3>2, <3>3, BegunIsNoCommand DEF CommandPhases
  <2> QED BY <2>1, <2>2
<1>4. ASSUME NEW i \in DOMAIN customers, NEW s \in Subjects, NEW version,
             Customers!BeginUnlink(c, i, s, version)
      PROVE  NoCommand(c)
  <2>1. CASE mappings[s].version # version
    BY <1>2, <1>4, <2>1, RefusedIsNoCommand DEF Customers!BeginUnlink
  <2>2. CASE mappings[s].version = version
    <3>1. PICK x, row : /\ row = [mappings[s] EXCEPT !.status = "UNLINKED", !.version = @ + 1]
                        /\ x = [Customers!NoCall EXCEPT !.op = "unlink", !.id = i, !.subject = s,
                                                        !.phase = "mapping", !.entity = row]
      OBVIOUS
    <3>2. x = [j \in CallFields |-> x[j]] /\ x.phase = "mapping"
      BY <3>1, NoCallIs DEF CallFields
    <3>3. Customers!Begin(c, x)
      BY <1>4, <2>2, <3>1 DEF Customers!BeginUnlink
    <3> QED BY <1>2, <3>2, <3>3, BegunIsNoCommand DEF CommandPhases
  <2> QED BY <2>1, <2>2
<1>5. CASE Customers!ReadSubject(c)
  <2>1. PICK y : y = [calls[c] EXCEPT !.phase = "customer", !.entity = mappings[calls[c].subject]]
    OBVIOUS
  <2>2. y.phase = "customer"
    BY <1>1, <2>1 DEF AgentCall
  <2>3. calls' = [calls EXCEPT ![c] = y] /\ asked' = asked
    BY <1>5, <2>1 DEF Customers!ReadSubject
  <2> QED BY <1>2, <2>2, <2>3 DEF NoCommand, CommandPhases
<1>6. CASE Customers!CheckLink(c)
  <2>1. asked' = asked
    BY <1>6 DEF Customers!CheckLink
  <2>2. CASE calls' = Customers!Answer(c, "IDENTITY_CONFLICT")
    BY <1>2, <2>1, <2>2, EndedIsNoCommand
  <2>3. CASE calls' # Customers!Answer(c, "IDENTITY_CONFLICT")
    <3>1. PICK y : y = [calls[c] EXCEPT !.phase = "mapping",
                                        !.entity = Customers!LinkedMapping(calls[c].entity, calls[c].id)]
      OBVIOUS
    <3>2. y.phase = "mapping"
      BY <1>1, <3>1 DEF AgentCall
    <3>3. calls' = [calls EXCEPT ![c] = y]
      BY <1>6, <2>3, <3>1 DEF Customers!CheckLink
    <3> QED BY <1>2, <2>1, <3>2, <3>3 DEF NoCommand, CommandPhases
  <2> QED BY <2>2, <2>3
<1>7. CASE Customers!LoadMapping(c)
  <2>1. PICK y : y = [calls[c] EXCEPT !.phase = "saving", !.loaded = mappings[calls[c].subject]]
    OBVIOUS
  <2>2. y.phase = "saving"
    BY <1>1, <2>1 DEF AgentCall
  <2>3. calls' = [calls EXCEPT ![c] = y] /\ asked' = asked
    BY <1>7, <2>1 DEF Customers!LoadMapping
  <2> QED BY <1>2, <2>2, <2>3 DEF NoCommand, CommandPhases
<1>8. CASE Customers!FlushMapping(c)
  <2>1. asked' = asked
    BY <1>8 DEF Customers!FlushMapping
  <2>2. PICK answer \in {"SUCCESS", "IDENTITY_CONFLICT"} : calls' = Customers!Answer(c, answer)
    BY <1>8 DEF Customers!FlushMapping
  <2> QED BY <1>2, <2>1, <2>2, EndedIsNoCommand
<1> QED BY <1>3, <1>4, <1>5, <1>6, <1>7, <1>8 DEF Customers!ManageMapping

LEMMA ProfilesStepKeeps ==
  ASSUME CustomersInv, ProfilesInv, Customers!Next
  PROVE  ProfilesInv' /\ Customers!StaysDeactivated
<1>1. ASSUME NEW c \in Agents, NoCommand(c) PROVE ProfilesInv' /\ Customers!StaysDeactivated
  BY <1>1, NoCommandKeeps DEF NoCommand
<1>2. ASSUME NEW c \in Agents, Customers!Command(c) PROVE ProfilesInv' /\ Customers!StaysDeactivated
  <2>1. ASSUME NEW op \in {"replace", "deactivate", "consent"}, NEW i \in DOMAIN customers,
               NEW e \in Customers!Emails, NEW version \in 1 .. customers[i].version,
               Customers!BeginCommand(c, op, i, version, e)
        PROVE  ProfilesInv' /\ Customers!StaysDeactivated
    <3>1. version \in Nat
      BY CustomersAre
    <3> QED BY <2>1, <3>1, BeginCommandDates
  <2>2. CASE Customers!SaveConsent(c) \/ Customers!LoadCustomer(c)
    BY <2>2, GoingOnDates
  <2>3. CASE Customers!FlushCustomer(c)
    BY <2>3, FlushCustomerDates
  <2> QED BY <1>2, <2>1, <2>2, <2>3 DEF Customers!Command
<1>3. ASSUME NEW c \in Agents, Customers!Crash(c) PROVE NoCommand(c)
  <2>1. PICK y : y = Customers!NoCall
    OBVIOUS
  <2>2. y.phase = "idle"
    BY <2>1, NoCallIs
  <2>3. calls' = [calls EXCEPT ![c] = y] /\ asked' = asked /\ writes' = writes /\ customers' = customers
    BY <1>3, <2>1 DEF Customers!Crash
  <2> QED BY <2>2, <2>3 DEF NoCommand, CommandPhases
<1> QED BY <1>1, <1>2, <1>3, CreateIsNoCommand, ManageMappingIsNoCommand DEF Customers!Next

LEMMA ProfilesStutterKeeps ==
  ASSUME ProfilesInv, UNCHANGED customerVars
  PROVE  ProfilesInv' /\ Customers!StaysDeactivated
<1>1. customers' = customers /\ calls' = calls /\ asked' = asked /\ writes' = writes
  BY DEF customerVars
<1>2. \A i : Customers!HasRivals(i)' <=> Customers!HasRivals(i)
  BY <1>1 DEF Customers!HasRivals
<1>3. \A c \in Agents : CopyIsDated(calls[c])'
  BY <1>1, <1>2 DEF ProfilesInv, CopyIsDated, CopyIsNext, ProfileWritten, InCommand
<1>4. CommandsDiffer' /\ ProfileVersionsFit'
  BY <1>1, <1>2 DEF ProfilesInv, CommandsDiffer, ProfileVersionsFit, InCommand
<1>5. Customers!StaysDeactivated
  BY <1>1 DEF Customers!StaysDeactivated
<1> QED BY <1>3, <1>4, <1>5 DEF ProfilesInv

LEMMA InitIsProfiles ==
  ASSUME Customers!Init
  PROVE  ProfilesInv
<1>1. writes = {} /\ \A c \in Agents : calls[c] = Customers!NoCall
  BY DEF Customers!Init
<1>2. \A c \in Agents : ~InCommand(calls[c])
  BY <1>1, NoCallIs DEF InCommand, CommandPhases
<1> QED BY <1>1, <1>2 DEF ProfilesInv, CopyIsDated, CommandsDiffer, ProfileVersionsFit

-----------------------------------------------------------------------------
(* The events, with any administrators.                                      *)

EventRow == [status : Administrators!Statuses, version : Nat, types : SUBSET Nat]
EditFields == {"op", "phase", "id", "from", "number", "entity", "loaded", "answer"}
EditCommands == {"publish", "pause", "close", "cancel", "replace"}
Edit ==
  [op : EditCommands \cup {"none", "create"}, phase : {"idle", "loading", "flushing"},
   id : Nat, from : Nat, number : Nat, entity : EventRow \cup {None}, loaded : EventRow \cup {None},
   answer : {"none", "SUCCESS", "VERSION_CONFLICT", "INVALID_STATE_TRANSITION"}]

\* A request that is to save the event it read.
IsSaving(x) == x.phase \in {"loading", "flushing"}

\* The shape of the rows and of the requests.
EventShapes ==
  /\ events \in Seq(EventRow)
  /\ edits \in [Editors -> Edit]
  /\ changes \in 0 .. MaxChanges

\* A row with a version and ticket types the requests account for.
IsEvent(e) ==
  /\ events[e].version \in 1 .. changes + 1 /\ events[e].types \subseteq 1 .. changes
  /\ Administrators!HasRivals(e) \/ \E n \in Nat : events[e].types = {n}

MayMove(from, to) == to = from \/ to \in Administrators!AllowedTransitions[from]

\* What the request x is to save.
EditFits(x) ==
  /\ IsSaving(x) =>
       /\ x.id \in DOMAIN events /\ x.number \in 1 .. changes
       /\ x.entity \in EventRow /\ x.entity.version \in 2 .. changes + 1
  /\ x.phase = "flushing" =>
       x.loaded \in EventRow /\ (x.loaded.version > 1 => events[x.id].version > 1)

\* It is the next version of what is stored.
EditIsNext(x) ==
  /\ x.from = events[x.id].version /\ x.entity.version = events[x.id].version + 1
  /\ MayMove(events[x.id].status, x.entity.status)
  /\ x.phase = "flushing" => x.loaded = events[x.id]

EventWritten(e, version) == \E w \in versions : w.id = e /\ w.from = version

\* Unless another request has saved the version x read.
EditIsDated(x) ==
  IsSaving(x) =>
    Administrators!HasRivals(x.id) \/ EventWritten(x.id, x.from) \/ EditIsNext(x)

\* Requests are told apart by their numbers, from those that were answered too.
EditsDiffer ==
  /\ \A c, d \in Editors :
       IsSaving(edits[c]) /\ IsSaving(edits[d]) /\ edits[c].number = edits[d].number => c = d
  /\ \A w \in versions, c \in Editors : IsSaving(edits[c]) => w.by # edits[c].number

\* A version that was saved is in the past of its event.
EventVersionsFit ==
  \A w \in versions :
    /\ w.id \in DOMAIN events /\ events[w.id].version > 1 /\ w.from \in Nat /\ w.by \in 1 .. changes
    /\ Administrators!HasRivals(w.id) \/ w.from < events[w.id].version

EventsInv ==
  /\ EventShapes
  /\ \A e \in DOMAIN events : IsEvent(e)
  /\ \A c \in Editors : EditFits(edits[c]) /\ EditIsDated(edits[c])
  /\ EditsDiffer
  /\ EventVersionsFit

StatusesMove ==
  \A e \in DOMAIN events :
    MayMove(events[e].status, events'[e].status) \/ Administrators!HasRivals(e)'

LEMMA EditOfFields ==
  ASSUME NEW x, x = [i \in EditFields |-> x[i]],
         x.op \in EditCommands \cup {"none", "create"}, x.phase \in {"idle", "loading", "flushing"},
         x.id \in Nat, x.from \in Nat, x.number \in Nat,
         x.entity \in EventRow \cup {None}, x.loaded \in EventRow \cup {None},
         x.answer \in {"none", "SUCCESS", "VERSION_CONFLICT", "INVALID_STATE_TRANSITION"}
  PROVE  x \in Edit
<1>1. x = [op |-> x.op, phase |-> x.phase, id |-> x.id, from |-> x.from, number |-> x.number,
           entity |-> x.entity, loaded |-> x.loaded, answer |-> x.answer]
  BY DEF EditFields
<1> QED BY <1>1 DEF Edit

LEMMA NoEditIs ==
  Administrators!NoCall =
    [op |-> "none", phase |-> "idle", id |-> 0, from |-> 0, number |-> 0,
     entity |-> None, loaded |-> None, answer |-> "none"]
BY DEF Administrators!NoCall

\* A request that is at rest, or ends, whatever it was answered.
LEMMA RestIsEdit ==
  ASSUME NEW op \in EditCommands \cup {"none", "create"},
         NEW answer \in {"none", "SUCCESS", "VERSION_CONFLICT", "INVALID_STATE_TRANSITION"},
         NEW x, x = [Administrators!NoCall EXCEPT !.op = op, !.answer = answer]
  PROVE  x \in Edit /\ x.phase = "idle"
<1>1. /\ x.op = op /\ x.phase = "idle" /\ x.id = 0 /\ x.from = 0 /\ x.number = 0
      /\ x.entity = None /\ x.loaded = None /\ x.answer = answer
      /\ x = [i \in EditFields |-> x[i]]
  BY NoEditIs DEF EditFields
<1>2. /\ x.op \in EditCommands \cup {"none", "create"}
      /\ x.answer \in {"none", "SUCCESS", "VERSION_CONFLICT", "INVALID_STATE_TRANSITION"}
  BY <1>1
<1>3. /\ x.phase \in {"idle", "loading", "flushing"} /\ x.id \in Nat /\ x.from \in Nat /\ x.number \in Nat
      /\ x.entity \in EventRow \cup {None} /\ x.loaded \in EventRow \cup {None}
  <2>1. None \in EventRow \cup {None} /\ 0 \in Nat
    OBVIOUS
  <2> QED BY <1>1, <2>1
<1>4. x \in Edit
  BY <1>1, <1>2, <1>3, EditOfFields
<1> QED BY <1>1, <1>4

LEMMA NoEditIsEdit ==
  Administrators!NoCall \in Edit /\ Administrators!NoCall.phase = "idle"
<1>1. None \in EventRow \cup {None}
  OBVIOUS
<1> QED BY <1>1, NoEditIs DEF Edit

LEMMA EditIs ==
  ASSUME EventsInv, NEW c \in Editors
  PROVE  /\ edits[c] \in Edit /\ EditFits(edits[c]) /\ EditIsDated(edits[c])
         /\ edits[c].op \in EditCommands \cup {"none", "create"} /\ edits[c].id \in Nat
BY DEF EventsInv, EventShapes, Edit

LEMMA EventsAre ==
  ASSUME EventsInv
  PROVE  /\ events \in Seq(EventRow) /\ edits \in [Editors -> Edit]
         /\ changes \in 0 .. MaxChanges /\ changes \in Nat
         /\ \A e \in DOMAIN events : events[e] \in EventRow /\ e \in Nat /\ IsEvent(e)
<1>1. /\ events \in Seq(EventRow) /\ edits \in [Editors -> Edit]
      /\ changes \in 0 .. MaxChanges /\ changes \in Nat
  BY DEF EventsInv, EventShapes
<1>2. \A e \in DOMAIN events : events[e] \in EventRow /\ e \in Nat
  BY <1>1
<1> QED BY <1>1, <1>2 DEF EventsInv

\* A request as it begins.
LEMMA EditBegins ==
  ASSUME EventsInv, NEW c \in Editors, NEW x \in Edit, Administrators!Begin(c, x)
  PROVE  \E y \in Edit :
           /\ edits' = [edits EXCEPT ![c] = y] /\ edits[c].phase = "idle"
           /\ changes' = changes + 1 /\ changes < MaxChanges
           /\ y.phase = x.phase /\ y.id = x.id /\ y.from = x.from /\ y.entity = x.entity
           /\ y.number = changes + 1
<1> DEFINE y == [x EXCEPT !.number = changes + 1]
<1>1. changes + 1 \in Nat
  BY EventsAre
<1>2. y \in Edit /\ y.phase = x.phase /\ y.id = x.id /\ y.from = x.from /\ y.entity = x.entity
      /\ y.number = changes + 1
  BY <1>1 DEF Edit
<1>3. /\ edits' = [edits EXCEPT ![c] = y] /\ edits[c].phase = "idle"
      /\ changes' = changes + 1 /\ changes < MaxChanges
  BY DEF Administrators!Begin
<1> HIDE DEF y
<1> QED BY <1>2, <1>3

\* A request keeps what it was, or has begun, or ends.
EditGoesOn(c, y) ==
  /\ edits' = [edits EXCEPT ![c] = y]
  /\ \/ changes' = changes /\ (IsSaving(y) => IsSaving(edits[c]) /\ y.number = edits[c].number)
     \/ changes' = changes + 1 /\ changes < MaxChanges /\ (IsSaving(y) => y.number = changes + 1)

LEMMA EditsStayApart ==
  ASSUME EventsInv, NEW c \in Editors, NEW y \in Edit, EditGoesOn(c, y),
         \A w \in versions' : w \in versions \/ (w.by = edits[c].number /\ IsSaving(edits[c]) /\ ~IsSaving(y))
  PROVE  EditsDiffer'
<1>1. /\ edits'[c] = y /\ \A d \in Editors \ {c} : edits'[d] = edits[d]
  BY EventsAre DEF EditGoesOn
<1>2. \A d \in Editors : IsSaving(edits[d]) => edits[d].number \in 1 .. changes
  BY EditIs DEF EditFits
<1>3. \A w \in versions : w.by \in 1 .. changes
  BY DEF EventsInv, EventVersionsFit
<1>4. changes \in Nat /\ changes + 1 \notin 1 .. changes
  BY EventsAre
<1>5. IsSaving(y) => \A d \in Editors \ {c} : IsSaving(edits[d]) => edits[d].number # y.number
  BY <1>2, <1>4 DEF EditGoesOn, EventsInv, EditsDiffer
<1>6. ASSUME NEW d \in Editors, NEW f \in Editors, IsSaving(edits'[d]), IsSaving(edits'[f]),
             edits'[d].number = edits'[f].number
      PROVE  d = f
  BY <1>1, <1>5, <1>6 DEF EventsInv, EditsDiffer
<1>7. ASSUME NEW w \in versions', NEW d \in Editors, IsSaving(edits'[d]) PROVE w.by # edits'[d].number
  <2>1. CASE w \in versions
    BY <1>1, <1>3, <1>4, <1>7, <2>1 DEF EditGoesOn, EventsInv, EditsDiffer
  <2>2. CASE w \notin versions
    BY <1>1, <1>7, <2>2 DEF EventsInv, EditsDiffer
  <2> QED BY <2>1, <2>2
<1> QED BY <1>6, <1>7 DEF EditsDiffer, IsSaving

\* A step that changes no event, but may add one.
LEMMA EditStepKeeps ==
  ASSUME Administrators!EventAssumption, EventsInv, NEW c \in Editors, NEW y \in Edit,
         EditGoesOn(c, y), EditFits(y)', EditIsDated(y)', versions' = versions,
         events' \in Seq(EventRow), DOMAIN events \subseteq DOMAIN events',
         \A e \in DOMAIN events : events'[e] = events[e],
         \A e \in DOMAIN events' \ DOMAIN events : IsEvent(e)'
  PROVE  EventsInv' /\ StatusesMove
<1>1. /\ edits' \in [Editors -> Edit]
      /\ edits'[c] = y /\ \A d \in Editors \ {c} : edits'[d] = edits[d]
  BY EventsAre DEF EditGoesOn
<1>2. changes' \in 0 .. MaxChanges /\ changes \in Nat /\ changes' \in Nat /\ changes <= changes'
  BY EventsAre DEF EditGoesOn, Administrators!EventAssumption
<1>3. \A e : Administrators!HasRivals(e)' <=> Administrators!HasRivals(e)
  BY DEF Administrators!HasRivals
<1>4. ASSUME NEW e \in DOMAIN events' PROVE IsEvent(e)'
  <2>1. CASE e \in DOMAIN events
    <3>1. IsEvent(e) /\ events'[e] = events[e]
      BY <2>1, EventsAre
    <3>2. events[e].version \in 1 .. changes' + 1 /\ events[e].types \subseteq 1 .. changes'
      BY <1>2, <3>1 DEF IsEvent
    <3> QED BY <1>3, <3>1, <3>2 DEF IsEvent
  <2>2. CASE e \notin DOMAIN events
    BY <2>2
  <2> QED BY <2>1, <2>2
<1>5. ASSUME NEW d \in Editors PROVE EditFits(edits[d])' /\ EditIsDated(edits[d])'
  <2>1. CASE d = c
    BY <1>1, <2>1 DEF EditFits, EditIsDated, EditIsNext, IsSaving
  <2>2. CASE d # c
    <3>1. edits'[d] = edits[d] /\ EditFits(edits[d]) /\ EditIsDated(edits[d])
      BY <1>1, <2>2, EditIs
    <3>2. EditFits(edits[d])'
      BY <1>2, <3>1 DEF EditFits, IsSaving
    <3>3. EditIsDated(edits[d])'
      BY <1>3, <3>1 DEF EditIsDated, EditIsNext, IsSaving, EditFits, EventWritten
    <3> QED BY <3>2, <3>3
  <2> QED BY <2>1, <2>2
<1>6. EditsDiffer'
  BY EditsStayApart
<1>7. EventVersionsFit'
  BY <1>2, <1>3 DEF EventsInv, EventVersionsFit
<1>8. StatusesMove
  BY DEF StatusesMove, MayMove
<1> QED BY <1>1, <1>2, <1>4, <1>5, <1>6, <1>7, <1>8 DEF EventsInv, EventShapes

LEMMA RestKeeps ==
  ASSUME Administrators!EventAssumption, EventsInv, NEW c \in Editors, NEW y \in Edit, y.phase = "idle",
         edits' = [edits EXCEPT ![c] = y],
         changes' = changes \/ (changes' = changes + 1 /\ changes < MaxChanges),
         events' = events, versions' = versions
  PROVE  EventsInv' /\ StatusesMove
<1>1. EditGoesOn(c, y) /\ EditFits(y)' /\ EditIsDated(y)'
  BY DEF EditGoesOn, EditFits, EditIsDated, IsSaving
<1>2. events' \in Seq(EventRow)
  BY EventsAre
<1> QED BY <1>1, <1>2, EditStepKeeps

\* create_event adds the event under the next number.
LEMMA CreateEventKeeps ==
  ASSUME Administrators!EventAssumption, EventsInv, NEW c \in Editors, Administrators!CreateEvent(c)
  PROVE  EventsInv' /\ StatusesMove
<1> DEFINE m == Len(events)
           id == Administrators!Cardinality(DOMAIN events) + 1
           x == [Administrators!NoCall EXCEPT !.op = "create", !.answer = "SUCCESS"]
           row == [status |-> "DRAFT", version |-> 1, types |-> {changes + 1}]
           f == events'
<1>1. /\ Administrators!Begin(c, x) /\ versions' = versions
      /\ f = [e \in DOMAIN events \cup {id} |-> IF e # id THEN events[e] ELSE row]
  BY DEF Administrators!CreateEvent
<1>2. x \in Edit /\ x.phase = "idle"
  BY RestIsEdit
<1> HIDE DEF x, f
<1>3. PICK y \in Edit :
        /\ edits' = [edits EXCEPT ![c] = y]
        /\ changes' = changes + 1 /\ changes < MaxChanges
        /\ y.phase = x.phase
  BY <1>1, <1>2, EditBegins
<1>4. events \in Seq(EventRow) /\ changes \in Nat
  BY EventsAre
<1>5. m \in Nat /\ DOMAIN events = 1 .. m
  BY <1>4
<1>6. id = m + 1
  <2>1. Administrators!Cardinality(DOMAIN events) = Cardinality(DOMAIN events)
    BY DEF Administrators!Cardinality, Cardinality
  <2>2. ASSUME NEW n \in Nat PROVE Cardinality(1 .. n) = n
    BY FS_Interval
  <2> HIDE DEF m
  <2> QED BY <1>5, <2>1, <2>2
<1>7. /\ row \in EventRow /\ row.version = 1 /\ row.types = {changes + 1}
      /\ 1 \in 1 .. changes' + 1 /\ changes + 1 \in 1 .. changes' /\ changes + 1 \in Nat
  BY <1>3, <1>4 DEF EventRow, Administrators!Statuses
<1> HIDE DEF m, id, row
<1>8. f = [e \in 1 .. m + 1 |-> IF e = m + 1 THEN row ELSE events[e]]
  <2>1. (1 .. m) \cup {m + 1} = 1 .. m + 1
    BY <1>5
  <2> QED BY <1>1, <1>5, <1>6, <2>1
<1>9. DOMAIN f = 1 .. m + 1 /\ (\A e \in 1 .. m : f[e] = events[e] /\ e \in DOMAIN f) /\ f[m + 1] = row
  BY <1>5, <1>8
<1>10. \A e \in 1 .. m : events[e] \in EventRow
  BY <1>5, EventsAre
<1>11. f \in Seq(EventRow)
  <2>1. f \in [1 .. m + 1 -> EventRow]
    BY <1>5, <1>7, <1>8, <1>10
  <2> QED BY <1>5, <2>1, IsASeq
<1>12. ASSUME NEW e \in DOMAIN f \ (1 .. m) PROVE IsEvent(e)'
  <2>1. f[e] = row
    BY <1>5, <1>9
  <2>2. f[e].version \in 1 .. changes' + 1 /\ f[e].types \subseteq 1 .. changes'
    BY <1>7, <2>1
  <2>3. \E n \in Nat : f[e].types = {n}
    BY <1>7, <2>1
  <2> QED BY <2>2, <2>3 DEF IsEvent, f
<1>13. EditGoesOn(c, y) /\ EditFits(y)' /\ EditIsDated(y)'
  BY <1>2, <1>3 DEF EditGoesOn, EditFits, EditIsDated, IsSaving
<1>14. /\ events' \in Seq(EventRow) /\ DOMAIN events \subseteq DOMAIN events'
       /\ \A e \in DOMAIN events : events'[e] = events[e]
       /\ \A e \in DOMAIN events' \ DOMAIN events : IsEvent(e)'
  BY <1>5, <1>9, <1>11, <1>12 DEF f
<1> QED BY <1>1, <1>13, <1>14, EditStepKeeps

\* What a command makes of the event it read.
LEMMA TouchedIs ==
  ASSUME NEW row \in EventRow, NEW op \in EditCommands, NEW number \in Nat,
         Administrators!IsAllowed(op, row)
  PROVE  /\ Administrators!Touched(op, row, number) \in EventRow
         /\ Administrators!Touched(op, row, number).version = row.version + 1
         /\ MayMove(row.status, Administrators!Touched(op, row, number).status)
<1> DEFINE x == Administrators!Touched(op, row, number)
           target == Administrators!Target(op)
           lifecycle == op \in Administrators!LifecycleCommands
<1>1. /\ DOMAIN row = {"status", "version", "types"}
      /\ row.status \in Administrators!Statuses /\ row.version \in Nat /\ row.types \subseteq Nat
  BY DEF EventRow
<1>2. lifecycle => target \in Administrators!Statuses
  BY DEF EditCommands, Administrators!LifecycleCommands, Administrators!Target, Administrators!Statuses
<1>3. lifecycle => target \in Administrators!AllowedTransitions[row.status]
  BY DEF Administrators!IsAllowed
<1>4. x = [row EXCEPT !.status = IF lifecycle THEN target ELSE @, !.version = @ + 1,
                      !.types = IF op = "replace" THEN {number} ELSE @]
  BY DEF Administrators!Touched
<1> HIDE DEF x, target, lifecycle
<1>5. /\ x.status = IF lifecycle THEN target ELSE row.status
      /\ x.version = row.version + 1
      /\ x.types = IF op = "replace" THEN {number} ELSE row.types
      /\ x = [j \in {"status", "version", "types"} |-> x[j]]
  BY <1>1, <1>4
<1>6. x = [status |-> x.status, version |-> x.version, types |-> x.types]
  BY <1>5
<1>7. x.status \in Administrators!Statuses /\ x.version \in Nat /\ x.types \subseteq Nat
  BY <1>1, <1>2, <1>5
<1>8. x \in EventRow
  BY <1>6, <1>7 DEF EventRow
<1>9. MayMove(row.status, x.status)
  BY <1>3, <1>5 DEF MayMove
<1> QED BY <1>5, <1>8, <1>9 DEF x

\* A command checks the event it read, and keeps its change of it.
LEMMA BeginEditKeeps ==
  ASSUME Administrators!EventAssumption, EventsInv, NEW c \in Editors, NEW op \in EditCommands,
         NEW e \in DOMAIN events, NEW version \in Nat,
         Administrators!BeginCommand(c, op, e, version)
  PROVE  EventsInv' /\ StatusesMove
<1> DEFINE refusal == Administrators!Refusal(op, events[e], version)
<1>1. events' = events /\ versions' = versions
  BY DEF Administrators!BeginCommand
<1>2. events[e] \in EventRow /\ e \in Nat /\ events[e].version \in 1 .. changes + 1 /\ changes \in Nat
  BY EventsAre DEF IsEvent
<1>3. CASE refusal # "none"
  <2> DEFINE x == [Administrators!NoCall EXCEPT !.op = op, !.answer = refusal]
  <2>1. Administrators!Begin(c, x)
    BY <1>3 DEF Administrators!BeginCommand
  <2>2. refusal \in {"none", "SUCCESS", "VERSION_CONFLICT", "INVALID_STATE_TRANSITION"}
    BY DEF Administrators!Refusal
  <2> HIDE DEF refusal
  <2>3. x \in Edit /\ x.phase = "idle"
    BY <2>2, RestIsEdit
  <2> HIDE DEF x
  <2>4. PICK y \in Edit :
          /\ edits' = [edits EXCEPT ![c] = y]
          /\ changes' = changes + 1 /\ changes < MaxChanges
          /\ y.phase = x.phase
    BY <2>1, <2>3, EditBegins
  <2>5. y.phase = "idle"
    BY <2>3, <2>4
  <2> QED BY <1>1, <2>4, <2>5, RestKeeps
<1>4. CASE refusal = "none"
  <2> DEFINE row == Administrators!Touched(op, events[e], changes + 1)
             x == [Administrators!NoCall EXCEPT !.op = op, !.id = e, !.from = version,
                                               !.phase = "loading", !.entity = row]
  <2>1. Administrators!Begin(c, x)
    BY <1>4 DEF Administrators!BeginCommand
  <2>2. Administrators!IsAllowed(op, events[e]) /\ events[e].version = version
    BY <1>4 DEF Administrators!Refusal
  <2>3. /\ row \in EventRow /\ row.version = events[e].version + 1
        /\ MayMove(events[e].status, row.status)
    <3>1. changes + 1 \in Nat
      BY <1>2
    <3> QED BY <1>2, <2>2, <3>1, TouchedIs
  <2> HIDE DEF row
  <2>4. /\ x.op = op /\ x.phase = "loading" /\ x.id = e /\ x.from = version /\ x.number = 0
        /\ x.entity = row /\ x.loaded = None /\ x.answer = "none"
        /\ x = [i \in EditFields |-> x[i]]
    BY NoEditIs DEF EditFields
  <2> HIDE DEF x
  <2>5. /\ x.op \in EditCommands \cup {"none", "create"} /\ x.phase \in {"idle", "loading", "flushing"}
        /\ x.id \in Nat /\ x.from \in Nat /\ x.number \in Nat
        /\ x.entity \in EventRow \cup {None} /\ x.loaded \in EventRow \cup {None}
        /\ x.answer \in {"none", "SUCCESS", "VERSION_CONFLICT", "INVALID_STATE_TRANSITION"}
    <3>1. row \in EventRow \cup {None} /\ None \in EventRow \cup {None} /\ 0 \in Nat
      BY <2>3
    <3> QED BY <1>2, <2>4, <3>1
  <2>6. x \in Edit
    BY <2>4, <2>5, EditOfFields
  <2>7. PICK y \in Edit :
          /\ edits' = [edits EXCEPT ![c] = y]
          /\ changes' = changes + 1 /\ changes < MaxChanges
          /\ y.phase = x.phase /\ y.id = x.id /\ y.from = x.from /\ y.entity = x.entity
          /\ y.number = changes + 1
    BY <2>1, <2>6, EditBegins
  <2>8. y.phase = "loading" /\ y.id = e /\ y.from = version /\ y.entity = row
    BY <2>4, <2>7
  <2>9. y.number \in 1 .. changes' /\ row.version \in 2 .. changes' + 1
    BY <1>2, <2>3, <2>7
  <2>10. EditFits(y)'
    BY <1>1, <2>3, <2>8, <2>9 DEF EditFits
  <2>11. EditIsNext(y)'
    BY <1>1, <2>2, <2>3, <2>8 DEF EditIsNext, MayMove
  <2>12. EditGoesOn(c, y) /\ EditIsDated(y)'
    BY <2>7, <2>11 DEF EditGoesOn, EditIsDated
  <2>13. events' \in Seq(EventRow)
    BY <1>1, EventsAre
  <2> QED BY <1>1, <2>10, <2>12, <2>13, EditStepKeeps
<1> QED BY <1>3, <1>4

\* update reads the event again.
LEMMA LoadEventKeeps ==
  ASSUME Administrators!EventAssumption, EventsInv, NEW c \in Editors, Administrators!LoadEvent(c)
  PROVE  EventsInv' /\ StatusesMove
<1>1. /\ edits[c].phase = "loading" /\ events' = events /\ versions' = versions
      /\ changes' = changes
  BY DEF Administrators!LoadEvent
<1>2. edits[c] \in Edit /\ EditFits(edits[c]) /\ EditIsDated(edits[c])
  BY EditIs
<1>3. events[edits[c].id] \in EventRow
  <2>1. edits[c].id \in DOMAIN events
    BY <1>1, <1>2 DEF EditFits, IsSaving
  <2> QED BY <2>1, EventsAre
<1>4. PICK y \in Edit :
        /\ edits' = [edits EXCEPT ![c] = y] /\ y.phase = "flushing" /\ y.id = edits[c].id
        /\ y.from = edits[c].from
        /\ y.number = edits[c].number /\ y.entity = edits[c].entity
        /\ y.loaded = events[edits[c].id]
  <2> DEFINE row == events[edits[c].id]
             z == [edits[c] EXCEPT !.phase = "flushing", !.loaded = row]
  <2>1. edits' = [edits EXCEPT ![c] = z]
    BY DEF Administrators!LoadEvent
  <2>2. row \in EventRow
    BY <1>3
  <2> HIDE DEF row
  <2>3. /\ z \in Edit /\ z.phase = "flushing" /\ z.id = edits[c].id /\ z.from = edits[c].from
        /\ z.number = edits[c].number /\ z.entity = edits[c].entity /\ z.loaded = row
    BY <1>2, <2>2 DEF Edit
  <2> HIDE DEF z
  <2> QED BY <2>1, <2>3 DEF row
<1>5. EditFits(y)'
  BY <1>1, <1>2, <1>3, <1>4 DEF EditFits, IsSaving
<1>6. EditIsDated(y)'
  BY <1>1, <1>2, <1>4
     DEF EditIsDated, EditIsNext, IsSaving, MayMove, EventWritten, Administrators!HasRivals
<1>7. EditGoesOn(c, y)
  BY <1>1, <1>4 DEF EditGoesOn, IsSaving
<1>8. events' \in Seq(EventRow)
  BY <1>1, EventsAre
<1> QED BY <1>1, <1>5, <1>6, <1>7, <1>8, EditStepKeeps

\* What a flush makes of an event: the columns that differ are written.
FlushedEvent(row, loaded, entity, types) ==
  [Administrators!Flushed(row, loaded, entity) EXCEPT !.types = types]

LEMMA FlushedEventIs ==
  ASSUME NEW row \in EventRow, NEW loaded, NEW entity \in EventRow, NEW types
  PROVE  /\ types \subseteq Nat => FlushedEvent(row, loaded, entity, types) \in EventRow
         /\ FlushedEvent(row, loaded, entity, types).status
              = IF entity.status # loaded.status THEN entity.status ELSE row.status
         /\ FlushedEvent(row, loaded, entity, types).version
              = IF entity.version # loaded.version THEN entity.version ELSE row.version
         /\ FlushedEvent(row, loaded, entity, types).types = types
<1> DEFINE f == Administrators!Flushed(row, loaded, entity)
           x == FlushedEvent(row, loaded, entity, types)
<1>1. DOMAIN row = {"status", "version", "types"}
  BY DEF EventRow
<1>2. f = [column \in {"status", "version", "types"} |->
             IF entity[column] # loaded[column] THEN entity[column] ELSE row[column]]
  BY <1>1 DEF Administrators!Flushed
<1>3. x = [f EXCEPT !.types = types]
  BY DEF FlushedEvent
<1> HIDE DEF f, x
<1>4. /\ x.status = IF entity.status # loaded.status THEN entity.status ELSE row.status
      /\ x.version = IF entity.version # loaded.version THEN entity.version ELSE row.version
      /\ x.types = types
      /\ x = [j \in {"status", "version", "types"} |-> x[j]]
  BY <1>2, <1>3
<1>5. x = [status |-> x.status, version |-> x.version, types |-> x.types]
  BY <1>4
<1>6. x.status \in Administrators!Statuses /\ x.version \in Nat
  BY <1>4 DEF EventRow
<1>7. types \subseteq Nat => x \in EventRow
  BY <1>4, <1>5, <1>6 DEF EventRow
<1> QED BY <1>4, <1>7 DEF x

\* The flush at the commit: without rivals the copy was the next version.
LEMMA FlushedKeeps ==
  ASSUME Administrators!EventAssumption, EventsInv, NEW c \in Editors, NEW x \in Edit, x = edits[c],
         NEW e, e = x.id, NEW types, types = Administrators!TypesReplaced(c),
         NEW row, row = FlushedEvent(events[e], x.loaded, x.entity, types),
         NEW written, written = [id |-> e, from |-> x.from, by |-> x.number],
         Administrators!FlushEvent(c)
  PROVE  EventsInv' /\ StatusesMove
<1>1. /\ x.phase = "flushing" /\ events' = [events EXCEPT ![e] = row]
      /\ versions' = versions \cup {written}
      /\ edits' = Administrators!Answer(c, "SUCCESS") /\ changes' = changes
  BY DEF Administrators!FlushEvent, FlushedEvent
<1>2. /\ e \in DOMAIN events /\ x.number \in 1 .. changes /\ x.entity \in EventRow
      /\ x.entity.version \in 2 .. changes + 1 /\ x.loaded \in EventRow
      /\ x.loaded.version > 1 => events[e].version > 1
      /\ x \in Edit
  <2>1. EditFits(x) /\ x \in Edit
    BY EditIs
  <2> QED BY <1>1, <2>1 DEF EditFits, IsSaving
<1>3. /\ events[e] \in EventRow /\ IsEvent(e) /\ events \in Seq(EventRow)
      /\ changes \in 0 .. MaxChanges /\ changes \in Nat
  BY <1>2, EventsAre
<1>4. types \in SUBSET Nat /\ types \subseteq 1 .. changes
      /\ (x.loaded = events[e] => types = {x.number})
  BY <1>2, <1>3 DEF Administrators!TypesReplaced, IsEvent
<1>5. /\ row \in EventRow
      /\ row.status = IF x.entity.status # x.loaded.status THEN x.entity.status ELSE events[e].status
      /\ row.version = IF x.entity.version # x.loaded.version THEN x.entity.version ELSE events[e].version
      /\ row.types = types
  <2>1. PICK stored \in EventRow, entity \in EventRow, loaded \in EventRow :
          stored = events[e] /\ entity = x.entity /\ loaded = x.loaded
    BY <1>2, <1>3
  <2>2. row = FlushedEvent(stored, loaded, entity, types)
    BY <2>1
  <2>3. /\ FlushedEvent(stored, loaded, entity, types) \in EventRow
        /\ FlushedEvent(stored, loaded, entity, types).status
             = IF entity.status # loaded.status THEN entity.status ELSE stored.status
        /\ FlushedEvent(stored, loaded, entity, types).version
             = IF entity.version # loaded.version THEN entity.version ELSE stored.version
        /\ FlushedEvent(stored, loaded, entity, types).types = types
    BY <1>4, FlushedEventIs
  <2> QED BY <2>1, <2>2, <2>3
<1>6. row.version \in 2 .. changes + 1
  <2>1. events[e].version \in 1 .. changes + 1
    BY <1>3 DEF IsEvent
  <2> QED BY <1>2, <1>3, <1>5, <2>1
<1>7. PICK y \in Edit : edits' = [edits EXCEPT ![c] = y] /\ y.phase = "idle"
  <2> DEFINE z == [Administrators!NoCall EXCEPT !.op = x.op, !.answer = "SUCCESS"]
  <2>1. x.op \in EditCommands \cup {"none", "create"}
    BY EditIs
  <2>2. z \in Edit /\ z.phase = "idle"
    BY <2>1, RestIsEdit
  <2>3. edits' = [edits EXCEPT ![c] = z]
    BY <1>1 DEF Administrators!Answer
  <2> HIDE DEF z
  <2> QED BY <2>2, <2>3
<1>8. /\ events' \in Seq(EventRow) /\ DOMAIN events' = DOMAIN events
      /\ events'[e] = row /\ \A d \in DOMAIN events \ {e} : events'[d] = events[d]
  <2>1. [events EXCEPT ![e] = row] \in Seq(EventRow)
    BY <1>2, <1>3, <1>5
  <2> QED BY <1>1, <1>2, <1>3, <2>1
<1>9. edits' \in [Editors -> Edit] /\ edits'[c] = y /\ \A d \in Editors \ {c} : edits'[d] = edits[d]
  BY <1>7, EventsAre
<1>10. written.id = e /\ written.from = x.from /\ written.by = x.number
  OBVIOUS
<1>11. /\ \A d : Administrators!HasRivals(d) => Administrators!HasRivals(d)'
       /\ \A d : d # e /\ Administrators!HasRivals(d)' => Administrators!HasRivals(d)
       /\ \A d, v : EventWritten(d, v) => EventWritten(d, v)'
       /\ \A w \in versions : w.id = e /\ w.from = x.from /\ w.by # x.number
                               => Administrators!HasRivals(e)'
  BY <1>1, <1>10 DEF Administrators!HasRivals, EventWritten
<1>12. IsSaving(x)
  BY <1>1 DEF IsSaving
\* Either there are rivals now, or the copy was what is stored.
<1>13. Administrators!HasRivals(e)' \/ EditIsNext(x)
  <2>1. EditIsDated(x)
    BY EditIs
  <2>2. \A w \in versions : w.by # x.number
    BY <1>12 DEF EventsInv, EditsDiffer
  <2> QED BY <1>11, <1>12, <2>1, <2>2 DEF EditIsDated, EventWritten
<1>14. EditIsNext(x) => /\ x.from = events[e].version /\ row.version = events[e].version + 1
                        /\ MayMove(events[e].status, row.status) /\ types = {x.number}
  <2>1. ASSUME EditIsNext(x)
        PROVE  /\ x.loaded = events[e] /\ x.from = events[e].version
               /\ x.entity.version = events[e].version + 1
               /\ MayMove(events[e].status, x.entity.status)
    BY <1>1, <2>1 DEF EditIsNext
  <2>2. events[e].version \in Nat /\ events[e].version # events[e].version + 1
    BY <1>3 DEF EventRow
  <2> QED BY <1>4, <1>5, <2>1, <2>2 DEF MayMove
<1>15. ASSUME NEW d \in DOMAIN events' PROVE IsEvent(d)'
  <2>1. CASE d = e
    <3>1. row.version \in 1 .. changes + 1 /\ row.types \subseteq 1 .. changes
      BY <1>3, <1>4, <1>5, <1>6
    <3>2. Administrators!HasRivals(e)' \/ \E n \in Nat : row.types = {n}
      BY <1>2, <1>5, <1>13, <1>14
    <3> QED BY <1>1, <1>8, <2>1, <3>1, <3>2 DEF IsEvent
  <2>2. CASE d # e
    <3>1. events'[d] = events[d] /\ IsEvent(d)
      BY <1>8, <2>2, EventsAre
    <3> QED BY <1>1, <1>11, <3>1 DEF IsEvent
  <2> QED BY <2>1, <2>2
<1>16. ASSUME NEW d \in Editors PROVE EditFits(edits[d])' /\ EditIsDated(edits[d])'
  <2>1. CASE d = c
    BY <1>7, <1>9, <2>1 DEF EditFits, EditIsDated, IsSaving
  <2>2. CASE d # c
    <3>1. edits'[d] = edits[d] /\ EditFits(edits[d]) /\ EditIsDated(edits[d]) /\ edits[d] \in Edit
      BY <1>9, <2>2, EditIs
    <3>2. EditFits(edits[d])'
      BY <1>1, <1>6, <1>8, <3>1 DEF EditFits, IsSaving
    <3>3. CASE ~IsSaving(edits[d])
      BY <3>1, <3>2, <3>3 DEF EditIsDated, IsSaving
    <3>4. CASE IsSaving(edits[d]) /\ edits[d].id # e
      <4>1. events'[edits[d].id] = events[edits[d].id]
        BY <1>8, <3>1, <3>4 DEF EditFits
      <4> QED BY <1>11, <3>1, <3>2, <3>4, <4>1 DEF EditIsDated, EditIsNext, IsSaving, MayMove
    <3>5. CASE IsSaving(edits[d]) /\ edits[d].id = e
      <4>1. CASE Administrators!HasRivals(e)'
        BY <3>1, <3>2, <3>5, <4>1 DEF EditIsDated, IsSaving
      <4>2. CASE ~Administrators!HasRivals(e)'
        <5>1. EventWritten(e, x.from)'
          BY <1>1, <1>10 DEF EventWritten
        <5>2. EventWritten(e, edits[d].from)'
          BY <1>11, <1>13, <1>14, <3>1, <3>5, <4>2, <5>1 DEF EditIsDated, EditIsNext
        <5> QED BY <3>1, <3>2, <3>5, <5>2 DEF EditIsDated, IsSaving
      <4> QED BY <4>1, <4>2
    <3> QED BY <3>2, <3>3, <3>4, <3>5
  <2> QED BY <2>1, <2>2
<1>17. EditsDiffer'
  <2>1. EditGoesOn(c, y) /\ ~IsSaving(y)
    BY <1>1, <1>7 DEF EditGoesOn, IsSaving
  <2> QED BY <1>1, <1>10, <1>12, <2>1, EditsStayApart
<1>18. EventVersionsFit'
  <2>1. ASSUME NEW w \in versions'
        PROVE  /\ w.id \in DOMAIN events' /\ events'[w.id].version > 1
               /\ w.from \in Nat /\ w.by \in 1 .. changes'
               /\ Administrators!HasRivals(w.id)' \/ w.from < events'[w.id].version
    <3>1. CASE w.id # e
      <4>1. w \in versions
        BY <1>1, <1>10, <3>1
      <4>2. /\ w.id \in DOMAIN events /\ events[w.id].version > 1
            /\ w.from \in Nat /\ w.by \in 1 .. changes
            /\ Administrators!HasRivals(w.id) \/ w.from < events[w.id].version
        BY <4>1 DEF EventsInv, EventVersionsFit
      <4> QED BY <1>1, <1>8, <1>11, <3>1, <4>2
    <3>2. CASE w.id = e
      <4>1. e \in DOMAIN events' /\ events'[e] = row /\ row.version > 1
        BY <1>2, <1>3, <1>6, <1>8
      <4>2. w.from \in Nat /\ w.by \in 1 .. changes'
        <5>1. CASE w \in versions
          BY <1>1, <5>1 DEF EventsInv, EventVersionsFit
        <5>2. CASE w = written
          BY <1>1, <1>2, <1>10, <5>2 DEF Edit
        <5> QED BY <1>1, <5>1, <5>2
      <4>3. CASE Administrators!HasRivals(e)'
        BY <3>2, <4>1, <4>2, <4>3
      <4>4. CASE ~Administrators!HasRivals(e)'
        <5>1. x.from = events[e].version /\ row.version = events[e].version + 1
          BY <1>13, <1>14, <4>4
        <5>2. w.from <= events[e].version
          <6>1. CASE w \in versions
            <7>1. w.from < events[e].version /\ w.from \in Nat
              BY <1>11, <3>2, <4>4, <6>1 DEF EventsInv, EventVersionsFit
            <7>2. events[e].version \in Nat
              BY <1>3 DEF EventRow
            <7> QED BY <7>1, <7>2
          <6>2. CASE w = written
            <7>1. events[e].version \in Nat
              BY <1>3 DEF EventRow
            <7>2. w.from = events[e].version
              BY <1>10, <5>1, <6>2
            <7> QED BY <7>1, <7>2
          <6> QED BY <1>1, <6>1, <6>2
        <5>3. events[e].version \in Nat
          BY <1>3 DEF EventRow
        <5>4. w.from < row.version
          <6> QED BY <4>2, <5>1, <5>2, <5>3
        <5> QED BY <3>2, <4>1, <4>2, <5>4
      <4> QED BY <4>3, <4>4
    <3> QED BY <3>1, <3>2
  <2> QED BY <2>1 DEF EventVersionsFit
<1>19. StatusesMove
  <2>1. ASSUME NEW d \in DOMAIN events
        PROVE  MayMove(events[d].status, events'[d].status) \/ Administrators!HasRivals(d)'
    <3>1. CASE d = e
      BY <1>8, <1>13, <1>14, <3>1
    <3>2. CASE d # e
      BY <1>8, <3>2 DEF MayMove
    <3> QED BY <3>1, <3>2
  <2> QED BY <2>1 DEF StatusesMove
<1>20. changes' \in 0 .. MaxChanges
  BY <1>1, <1>3
<1> QED BY <1>8, <1>9, <1>15, <1>16, <1>17, <1>18, <1>19, <1>20 DEF EventsInv, EventShapes

LEMMA FlushEventKeeps ==
  ASSUME Administrators!EventAssumption, EventsInv, NEW c \in Editors, Administrators!FlushEvent(c)
  PROVE  EventsInv' /\ StatusesMove
<1>1. PICK x \in Edit : x = edits[c]
  BY EditIs
<1>2. PICK e, types, row, written :
        /\ e = x.id /\ types = Administrators!TypesReplaced(c)
        /\ row = FlushedEvent(events[e], x.loaded, x.entity, types)
        /\ written = [id |-> e, from |-> x.from, by |-> x.number]
  OBVIOUS
<1> QED BY <1>1, <1>2, FlushedKeeps

-----------------------------------------------------------------------------
(* Event Service as a whole.                                                 *)

LEMMA EventsStutterKeeps ==
  ASSUME EventsInv, events' = events, edits' = edits, changes' = changes, versions' = versions
  PROVE  EventsInv' /\ StatusesMove
<1>1. \A e : Administrators!HasRivals(e)' <=> Administrators!HasRivals(e)
  BY DEF Administrators!HasRivals
<1>2. EventShapes' /\ EditsDiffer' /\ EventVersionsFit'
  BY <1>1 DEF EventsInv, EventShapes, EditsDiffer, EventVersionsFit, IsSaving
<1>3. \A e \in DOMAIN events' : IsEvent(e)'
  BY <1>1 DEF EventsInv, IsEvent
<1>4. \A c \in Editors : EditFits(edits[c])' /\ EditIsDated(edits[c])'
  BY <1>1 DEF EventsInv, EditFits, EditIsDated, EditIsNext, EventWritten, IsSaving, MayMove
<1> QED BY <1>2, <1>3, <1>4 DEF EventsInv, StatusesMove, MayMove

LEMMA EventsStepKeeps ==
  ASSUME Administrators!EventAssumption, EventsInv, Administrators!Next
  PROVE  EventsInv' /\ StatusesMove
<1>1. CASE \E e \in DOMAIN events : Administrators!TimePasses(e)
  BY <1>1, EventsStutterKeeps DEF Administrators!TimePasses
<1>2. ASSUME NEW c \in Editors, Administrators!CreateEvent(c) PROVE EventsInv' /\ StatusesMove
  BY <1>2, CreateEventKeeps
<1>3. ASSUME NEW c \in Editors, NEW op \in Administrators!LifecycleCommands \cup {"replace"},
             NEW e \in DOMAIN events, NEW version \in 1 .. events[e].version,
             Administrators!BeginCommand(c, op, e, version)
      PROVE  EventsInv' /\ StatusesMove
  <2>1. op \in EditCommands
    BY DEF Administrators!LifecycleCommands, EditCommands
  <2>2. version \in Nat
    <3>1. events[e].version \in Nat
      BY EventsAre DEF EventRow
    <3> QED BY <3>1
  <2> QED BY <1>3, <2>1, <2>2, BeginEditKeeps
<1>4. ASSUME NEW c \in Editors, Administrators!LoadEvent(c) PROVE EventsInv' /\ StatusesMove
  BY <1>4, LoadEventKeeps
<1>5. ASSUME NEW c \in Editors, Administrators!FlushEvent(c) PROVE EventsInv' /\ StatusesMove
  BY <1>5, FlushEventKeeps
<1>6. ASSUME NEW c \in Editors, Administrators!Crash(c) PROVE EventsInv' /\ StatusesMove
  <2>1. PICK y \in Edit : y = Administrators!NoCall /\ y.phase = "idle"
    BY NoEditIsEdit
  <2>2. /\ edits' = [edits EXCEPT ![c] = y] /\ changes' = changes
        /\ events' = events /\ versions' = versions
    BY <1>6, <2>1 DEF Administrators!Crash
  <2> QED BY <2>1, <2>2, RestKeeps
<1> QED BY <1>1, <1>2, <1>3, <1>4, <1>5, <1>6 DEF Administrators!Next

LEMMA InitIsEvents ==
  ASSUME Administrators!EventAssumption, Administrators!Init
  PROVE  EventsInv
<1>1. /\ events = <<>> /\ edits = [c \in Editors |-> Administrators!NoCall]
      /\ changes = 0 /\ versions = {}
  BY DEF Administrators!Init
<1>2. Administrators!NoCall \in Edit /\ Administrators!NoCall.phase = "idle"
  BY NoEditIsEdit
<1>3. EventShapes
  <2>1. 0 \in 0 .. MaxChanges
    BY DEF Administrators!EventAssumption
  <2>2. edits \in [Editors -> Edit]
    BY <1>1, <1>2
  <2> QED BY <1>1, <2>1, <2>2 DEF EventShapes
<1>4. \A c \in Editors : ~IsSaving(edits[c])
  BY <1>1, <1>2 DEF IsSaving
<1>5. \A c \in Editors : EditFits(edits[c]) /\ EditIsDated(edits[c])
  BY <1>4 DEF EditFits, EditIsDated, IsSaving
<1> QED BY <1>1, <1>3, <1>4, <1>5 DEF EventsInv, EditsDiffer, EventVersionsFit

LEMMA EventsFollow ==
  ASSUME Administrators!EventAssumption, EventsInv
  PROVE  Administrators!TypeOK /\ Administrators!OneTicketTypeList
<1>1. changes \in 0 .. MaxChanges /\ MaxChanges \in Nat
  BY EventsAre DEF Administrators!EventAssumption
<1>2. ASSUME NEW e \in DOMAIN events
      PROVE  /\ events[e].status \in Administrators!Statuses
             /\ events[e].version \in 1 .. MaxChanges + 1
             /\ events[e].types \subseteq 1 .. MaxChanges
             /\ Administrators!Cardinality(events[e].types) = 1 \/ Administrators!HasRivals(e)
  <2>1. events[e] \in EventRow /\ IsEvent(e)
    BY EventsAre
  <2>2. events[e].version \in 1 .. MaxChanges + 1 /\ events[e].types \subseteq 1 .. MaxChanges
    BY <1>1, <2>1 DEF IsEvent
  <2>3. ASSUME NEW n \in Nat, events[e].types = {n}
        PROVE  Administrators!Cardinality(events[e].types) = 1
    <3>1. Administrators!Cardinality(events[e].types) = Cardinality({n})
      BY <2>3 DEF Administrators!Cardinality, Cardinality
    <3>2. Cardinality({n}) = 1
      BY FS_Singleton
    <3> QED BY <3>1, <3>2
  <2> QED BY <2>1, <2>2, <2>3 DEF EventRow, IsEvent
<1>3. \A w \in versions : events[w.id].version > 1
  BY DEF EventsInv, EventVersionsFit
<1>4. Administrators!TypeOK
  BY <1>2, <1>3 DEF Administrators!TypeOK
<1>5. Administrators!OneTicketTypeList
  BY <1>2 DEF Administrators!OneTicketTypeList
<1> QED BY <1>4, <1>5

-----------------------------------------------------------------------------
(* Customer and Event Service beside the other services.                     *)

RowsInv ==
  /\ CustomersInv /\ ProfilesInv /\ EventsInv
  /\ part = "customers" => SoleCallerInv

RowsAssumption ==
  Customers!CustomerAssumption /\ Lead \in Agents /\ Administrators!EventAssumption

LEMMA RowsStepKeeps ==
  ASSUME RowsAssumption, RowsInv, [MCNext]_<<part, vars, identityVars, customerVars, eventVars>>
  PROVE  RowsInv' /\ StatusesMove /\ Customers!StaysDeactivated
<1>1. part' = part
  BY DEF MCNext
<1>2. EventsInv' /\ StatusesMove
  <2>1. Administrators!Next \/ UNCHANGED eventVars
    BY DEF MCNext
  <2>2. CASE Administrators!Next
    BY <2>2, EventsStepKeeps DEF RowsInv, RowsAssumption
  <2>3. CASE UNCHANGED eventVars
    BY <2>3, EventsStutterKeeps DEF RowsInv, eventVars
  <2> QED BY <2>1, <2>2, <2>3
<1>3. /\ CustomersInv' /\ ProfilesInv' /\ Customers!StaysDeactivated
      /\ part = "customers" => SoleCallerInv'
  <2>1. (Customers!Next /\ (part = "customers" => OneCaller)) \/ UNCHANGED customerVars
    BY DEF MCNext
  <2>2. CASE Customers!Next /\ (part = "customers" => OneCaller)
    BY <2>2, CustomersStepKeeps, ProfilesStepKeeps DEF RowsInv, RowsAssumption
  <2>3. CASE UNCHANGED customerVars
    BY <2>3, CustomersStutterKeeps, ProfilesStutterKeeps DEF RowsInv
  <2> QED BY <2>1, <2>2, <2>3
<1> QED BY <1>1, <1>2, <1>3 DEF RowsInv

LEMMA InitIsRows ==
  ASSUME RowsAssumption, MCInit
  PROVE  RowsInv
BY InitIsCustomers, InitIsProfiles, InitIsEvents DEF RowsInv, RowsAssumption, MCInit

\* Customer Service with any number of callers keeps one mapping row to a customer;
\* where one caller moves, a link that was answered resolves to its customer until it
\* is unlinked; and an event has one list of ticket types until rivals save it.
THEOREM RowsStayOwned ==
  ASSUME RowsAssumption
  PROVE  MCSpec => []RowsHaveOneOwner
<1>1. MCInit => RowsInv
  BY InitIsRows
<1>2. RowsInv /\ [MCNext]_<<part, vars, identityVars, customerVars, eventVars>> => RowsInv'
  BY RowsStepKeeps
<1>3. RowsInv => RowsHaveOneOwner
  BY CustomersFollow, LinksFollow, EventsFollow DEF RowsInv, RowsAssumption, RowsHaveOneOwner
<1> QED BY <1>1, <1>2, <1>3, PTL DEF MCSpec

\* With any callers and administrators, whose commands save copies they read some
\* transactions ago: a deactivated customer stays deactivated, and an event's status
\* changes as the transition table allows, unless two requests were answered to have
\* changed the same version of the row.
THEOREM StatusesMoveUnlessRivals ==
  ASSUME RowsAssumption
  PROVE  MCSpec => StatusesMoveAsAllowed
<1>1. MCInit => RowsInv
  BY InitIsRows
<1>2. RowsInv /\ [MCNext]_<<part, vars, identityVars, customerVars, eventVars>> => RowsInv'
  BY RowsStepKeeps
<1>3. RowsInv /\ [MCNext]_<<part, vars, identityVars, customerVars, eventVars>>
        => [Customers!StaysDeactivated]_customerVars
  BY RowsStepKeeps
<1>4. RowsInv /\ [MCNext]_<<part, vars, identityVars, customerVars, eventVars>>
        => [\A e \in DOMAIN events :
              \/ events'[e].status = events[e].status
              \/ events'[e].status \in Administrators!AllowedTransitions[events[e].status]
              \/ Administrators!HasRivals(e)']_(Administrators!vars)
  BY RowsStepKeeps DEF StatusesMove, MayMove
<1> QED BY <1>1, <1>2, <1>3, <1>4, PTL
       DEF MCSpec, StatusesMoveAsAllowed, Administrators!StatusMovesAllowed

=============================================================================
