------------------------ MODULE TicketServiceProofs ------------------------
(***************************************************************************)
(* Proofs about TicketService, for any numbers of bookings, seats, gates,  *)
(* keys and versions.                                                      *)
(***************************************************************************)
EXTENDS TicketService, FiniteSetTheorems, TLAPS

-----------------------------------------------------------------------------
(* The invariant.                                                           *)

Mine(id)        == {a \in audit : a.ticket = id}
Regenerated(id) == {a \in Mine(id) : a.operation = "RegenerateTicketQr"}
EventsOf(id)    == {o \in outbox : o.ticket = id}

\* The rows, and who may hold one.
TicketsOK ==
  /\ tickets \in Seq(Ticket) /\ Len(tickets) <= MaxTickets
  /\ \A id \in Ids : StateConsistent(tickets[id]) /\ tickets[id].qrVersion <= tickets[id].version
  /\ OneTicketPerSeat

\* What is stored with the rows.  A check-in that was recorded let its ticket's owner in.
RecordsOK ==
  /\ \A r \in records : IsIdempotencyRecord(r)
  /\ \A r \in records : r.scope = "CheckInTicket" =>
       r.request.ticket \in Ids /\ tickets[r.request.ticket].status = "CHECKED_IN"
  /\ \A o \in outbox : IsOutboxEvent(o)

\* An audit row is the one of its version, and says which request wrote it; only a
\* check-in leaves a ticket checked in.
AuditOK ==
  /\ \A a \in audit : IsAuditRow(a) /\ a.version <= tickets[a.ticket].version
  /\ \A a, b \in audit : a.ticket = b.ticket /\ a.version = b.version => a = b
  /\ \A a \in audit : a.operation = "IssueTickets" =>
       /\ a.version = 1 /\ a.request \in IssueRequests
       /\ tickets[a.ticket].booking = a.request.booking
       /\ a.request.seats = {tickets[id].seat : id \in TicketsOfBooking(a.request.booking)}
  /\ \A a \in audit : a.operation # "IssueTickets" =>
       a.request.ticket = a.ticket /\ a.version = a.request.expectedVersion + 1
  /\ \A a \in audit : a.operation = "CheckInTicket" => tickets[a.ticket].status = "CHECKED_IN"
  /\ \A a \in audit : a.status = "CHECKED_IN" => a.operation = "CheckInTicket"

\* The audit rows and the events of one ticket are its history.
HistoryOK(id) ==
  /\ IsFiniteSet(Mine(id)) /\ Cardinality(Mine(id)) = tickets[id].version
  /\ \A v \in 1 .. tickets[id].version : \E a \in Mine(id) : a.version = v
  /\ \A a \in Mine(id) : /\ a.version = 1 => a.previous = None
                         /\ a.version = tickets[id].version => a.status = tickets[id].status
  /\ \A a, b \in Mine(id) : b.version = a.version + 1 => b.previous = a.status
  /\ IsFiniteSet(Regenerated(id))
  /\ tickets[id].qrVersion = 1 + Cardinality(Regenerated(id))
  /\ {<<o.version, o.status>> : o \in EventsOf(id)}
       = {<<a.version, a.status>> : a \in Mine(id)}

Gate ==
  [pc : {"idle", "scanned", "send", "signed"}, ticket : Nat \cup {None}, qr : Nat \cup {None},
   ifMatch : Nat \cup {None}, token : Nat \cup {None}]

\* A gate that scanned has seen the ticket: while its version is the one it saw, so is its
\* QR code.
GatesOK ==
  /\ gates \in [Gates -> Gate] /\ scans \in [Gates -> Nat]
  /\ faults \in Nat /\ now \in Nat
  /\ \A g \in Gates : gates[g].pc # "idle" =>
       LET x == gates[g] IN
         /\ x.ticket \in Ids /\ x.ifMatch \in Nat
         /\ x.ifMatch <= tickets[x.ticket].version
         /\ tickets[x.ticket].version = x.ifMatch => tickets[x.ticket].qrVersion = x.qr

\* A check-in was written for a scan that showed the ticket's newest QR code.
CheckInsOK ==
  \A row \in audit, g \in Gates, n \in Nat :
    row.operation = "CheckInTicket" /\ row.key = <<g, n>> =>
      /\ n <= scans[g]
      /\ n = scans[g] /\ gates[g].pc # "idle" /\ gates[g].ticket = row.ticket =>
           gates[g].qr = tickets[row.ticket].qrVersion

\* An admission is of a ticket that is checked in, with its newest QR code.
AdmissionsOK ==
  \A a \in admissions :
    /\ a.gate \in Gates /\ a.scan \in Nat /\ a.ticket \in Ids
    /\ tickets[a.ticket].status = "CHECKED_IN"
    /\ \A row \in audit :
         row.operation = "CheckInTicket" /\ row.ticket = a.ticket /\ row.key = <<a.gate, a.scan>>
           => a.qr = tickets[a.ticket].qrVersion

TicketInv ==
  /\ TicketsOK /\ RecordsOK /\ AuditOK
  /\ \A id \in Ids : HistoryOK(id)
  /\ GatesOK /\ CheckInsOK /\ AdmissionsOK

-----------------------------------------------------------------------------
(* The steps.                                                               *)

\* What a command makes of a ticket: only a valid one changes, and it stays with its
\* booking and its seat.
Follows(t, u, op) ==
  /\ t.status = "VALID" /\ u \in Ticket /\ StateConsistent(u)
  /\ u.version = t.version + 1 /\ u.booking = t.booking /\ u.seat = t.seat
  /\ u.qrVersion = IF op = "RegenerateTicketQr" THEN t.qrVersion + 1 ELSE t.qrVersion
  /\ op = "CheckInTicket" <=> u.status = "CHECKED_IN"

\* One ticket changes, with its audit row, its event and the answer for replays.
Changes(id, u, op, type, key, request) ==
  /\ id \in Ids /\ op \in {"CheckInTicket", "CancelTicket", "RegenerateTicketQr"}
  /\ type \in {"TicketCheckedIn", "TicketCancelled", "TicketQrRegenerated"}
  /\ Change(id, u, op, type, key, request) /\ now' = now
  /\ Follows(tickets[id], u, op)
  /\ request.ticket = id /\ request.expectedVersion = tickets[id].version

\* The numbers of a sequence and of what one field update makes of it.
LEMMA UpdatedTickets ==
  ASSUME TicketsOK, NEW id \in Ids, NEW u \in Ticket, tickets' = [tickets EXCEPT ![id] = u]
  PROVE  /\ tickets' \in Seq(Ticket) /\ Len(tickets') = Len(tickets) /\ Ids' = Ids
         /\ tickets'[id] = u
         /\ \A j \in Ids : j # id => tickets'[j] = tickets[j]
BY DEF TicketsOK, Ids

\* A ticket is a ticket.
LEMMA TicketAt ==
  ASSUME TicketsOK, NEW id \in Ids
  PROVE  tickets[id] \in Ticket /\ id \in Nat
BY DEF TicketsOK, Ids

\* A change of one ticket keeps the unique constraints.
LEMMA ChangeKeepsTickets ==
  ASSUME TicketInv, NEW id, NEW u, NEW op, NEW type, NEW key, NEW request,
         Changes(id, u, op, type, key, request)
  PROVE  TicketsOK'
<1>1. /\ id \in Ids /\ u \in Ticket /\ tickets' = [tickets EXCEPT ![id] = u] /\ TicketsOK
      /\ Follows(tickets[id], u, op)
  BY DEF Changes, Change, Follows, TicketInv
<1>2. /\ tickets' \in Seq(Ticket) /\ Len(tickets') = Len(tickets) /\ Ids' = Ids
      /\ tickets'[id] = u
      /\ \A j \in Ids : j # id => tickets'[j] = tickets[j]
  BY <1>1, UpdatedTickets
<1>3. tickets[id] \in Ticket
  BY <1>1, TicketAt
<1>4. StateConsistent(u) /\ u.qrVersion <= u.version
  BY <1>1, <1>3 DEF Follows, TicketsOK, Ticket
<1>5. \A j \in Ids' : StateConsistent(tickets'[j]) /\ tickets'[j].qrVersion <= tickets'[j].version
  BY <1>1, <1>2, <1>4 DEF TicketsOK
<1>6. /\ u.seat = tickets[id].seat /\ u.booking = tickets[id].booking
      /\ tickets[id].status # "CANCELLED"
  BY <1>1 DEF Follows
<1>7. \A j \in Ids : /\ tickets'[j].seat = tickets[j].seat
                     /\ tickets'[j].booking = tickets[j].booking
                     /\ tickets[j].status = "CANCELLED" => tickets'[j].status = "CANCELLED"
  BY <1>2, <1>6
<1>8. OneTicketPerSeat'
  BY <1>1, <1>2, <1>7 DEF OneTicketPerSeat, TicketsOK
<1> QED BY <1>1, <1>2, <1>5, <1>8 DEF TicketsOK

\* It keeps what is stored for replays and for the outbox.
LEMMA ChangeKeepsRecords ==
  ASSUME TicketInv, TicketAssumption, NEW id, NEW u, NEW op, NEW type, NEW key, NEW request,
         Changes(id, u, op, type, key, request)
  PROVE  RecordsOK'
<1>1. /\ id \in Ids /\ u \in Ticket /\ tickets' = [tickets EXCEPT ![id] = u] /\ TicketsOK
      /\ Follows(tickets[id], u, op) /\ now' = now /\ now \in Nat
      /\ SaveReplay(op, key, request, {id})
      /\ outbox' = outbox \cup {OutboxRow(id, u, type)}
      /\ request.ticket = id
  BY DEF Changes, Change, Follows, TicketInv, GatesOK
<1>2. /\ Ids' = Ids /\ tickets'[id] = u
      /\ \A j \in Ids : j # id => tickets'[j] = tickets[j]
  BY <1>1, UpdatedTickets
<1>3. TTL \in Nat \ {0}
  BY DEF TicketAssumption, TicketBounds
<1> DEFINE new == [scope |-> op, key |-> key, request |-> request, tickets |-> {id},
                   expires |-> now + TTL]
<1>4. \A r \in records' : r \in records \/ r = new
  BY <1>1 DEF SaveReplay
<1>5. ASSUME NEW r, r = new PROVE IsIdempotencyRecord(r)'
  BY <1>1, <1>2, <1>3, <1>5 DEF IsIdempotencyRecord, Scopes, Changes
<1>6. \A r \in records : IsIdempotencyRecord(r)'
  BY <1>1, <1>2 DEF IsIdempotencyRecord, TicketInv, RecordsOK
<1>7. \A r \in records' : IsIdempotencyRecord(r)'
  BY <1>4, <1>5, <1>6
<1>8. \A r \in records' : r.scope = "CheckInTicket" =>
        r.request.ticket \in Ids' /\ tickets'[r.request.ticket].status = "CHECKED_IN"
  <2>1. ASSUME NEW r \in records, r.scope = "CheckInTicket"
        PROVE  r.request.ticket \in Ids' /\ tickets'[r.request.ticket].status = "CHECKED_IN"
    <3>1. r.request.ticket \in Ids /\ tickets[r.request.ticket].status = "CHECKED_IN"
      BY <2>1 DEF TicketInv, RecordsOK
    <3>2. r.request.ticket # id
      BY <1>1, <3>1 DEF Follows
    <3> QED BY <1>2, <3>1, <3>2
  <2>2. new.scope = "CheckInTicket" =>
          new.request.ticket \in Ids' /\ tickets'[new.request.ticket].status = "CHECKED_IN"
    BY <1>1, <1>2 DEF Follows
  <2> QED BY <1>4, <2>1, <2>2
<1>9. IsOutboxEvent(OutboxRow(id, u, type))'
  BY <1>1, <1>2 DEF IsOutboxEvent, OutboxRow, Ticket, Changes
<1>10. \A o \in outbox' : IsOutboxEvent(o)'
  BY <1>1, <1>2, <1>9 DEF IsOutboxEvent, TicketInv, RecordsOK
<1> QED BY <1>7, <1>8, <1>10 DEF RecordsOK

\* It keeps what the audit says.
LEMMA ChangeKeepsAudit ==
  ASSUME TicketInv, NEW id, NEW u, NEW op, NEW type, NEW key, NEW request,
         Changes(id, u, op, type, key, request)
  PROVE  AuditOK'
<1> DEFINE t == tickets[id]
           new == AuditRow(id, u, op, t.status, key, request)
<1>1. /\ id \in Ids /\ u \in Ticket /\ tickets' = [tickets EXCEPT ![id] = u] /\ TicketsOK
      /\ Follows(t, u, op) /\ op \in Scopes /\ op # "IssueTickets"
      /\ audit' = audit \cup {new}
      /\ request.ticket = id /\ request.expectedVersion = t.version
  BY DEF Changes, Change, Follows, TicketInv, Scopes
<1>2. /\ Ids' = Ids /\ tickets'[id] = u
      /\ \A j \in Ids : j # id => tickets'[j] = tickets[j]
  BY <1>1, UpdatedTickets
<1>3. t \in Ticket /\ u.version = t.version + 1 /\ AuditOK
  BY <1>1, TicketAt DEF Follows, TicketInv
<1>4. /\ new.ticket = id /\ new.version = u.version /\ new.operation = op
      /\ new.status = u.status /\ new.previous = t.status /\ new.request = request
  BY DEF AuditRow
<1> HIDE DEF new
<1>5. ASSUME NEW a, a = new PROVE IsAuditRow(a)'
  BY <1>1, <1>2, <1>3, <1>4, <1>5 DEF IsAuditRow, Ticket
<1>6. \A a \in audit : /\ a.ticket \in Ids /\ a.version \in Nat /\ IsAuditRow(a)'
                       /\ a.version <= tickets'[a.ticket].version
                       /\ a.ticket = id => a.version <= t.version
  BY <1>2, <1>3 DEF AuditOK, IsAuditRow, Ticket
<1>7. ASSUME NEW a \in audit' PROVE IsAuditRow(a)' /\ a.version <= tickets'[a.ticket].version
  <2>1. CASE a = new
    BY <1>2, <1>3, <1>4, <1>5, <2>1 DEF Ticket
  <2>2. CASE a \in audit
    BY <1>6, <2>2
  <2> QED BY <1>1, <2>1, <2>2
<1>8. \A a \in audit : a.ticket = id => a.version # new.version
  BY <1>3, <1>4, <1>6 DEF Ticket
<1>9. \A a, b \in audit' : a.ticket = b.ticket /\ a.version = b.version => a = b
  BY <1>1, <1>3, <1>4, <1>8 DEF AuditOK
<1>10. \A j \in Ids : tickets'[j].booking = tickets[j].booking /\ tickets'[j].seat = tickets[j].seat
  BY <1>1, <1>2 DEF Follows
<1>11. \A b : TicketsOfBooking(b)' = TicketsOfBooking(b)
  BY <1>2, <1>10 DEF TicketsOfBooking
<1>12. \A b : {tickets'[j].seat : j \in TicketsOfBooking(b)}
                = {tickets[j].seat : j \in TicketsOfBooking(b)}
  BY <1>10 DEF TicketsOfBooking
<1>13. ASSUME NEW a \in audit', a.operation = "IssueTickets"
       PROVE  /\ a.version = 1 /\ a.request \in IssueRequests
              /\ tickets'[a.ticket].booking = a.request.booking
              /\ a.request.seats = {tickets'[j].seat : j \in TicketsOfBooking(a.request.booking)'}
  <2>1. a \in audit /\ a.ticket \in Ids
    BY <1>1, <1>4, <1>6, <1>13
  <2> QED BY <1>3, <1>10, <1>11, <1>12, <1>13, <2>1 DEF AuditOK
<1>14. \A a \in audit' : a.operation # "IssueTickets" =>
         a.request.ticket = a.ticket /\ a.version = a.request.expectedVersion + 1
  BY <1>1, <1>3, <1>4 DEF AuditOK
<1>15. ASSUME NEW a \in audit', a.operation = "CheckInTicket"
       PROVE  tickets'[a.ticket].status = "CHECKED_IN"
  <2>1. CASE a = new
    BY <1>1, <1>2, <1>4, <1>15, <2>1 DEF Follows
  <2>2. CASE a \in audit
    <3>1. a.ticket \in Ids /\ tickets[a.ticket].status = "CHECKED_IN"
      BY <1>3, <1>6, <1>15, <2>2 DEF AuditOK
    <3>2. a.ticket # id
      BY <1>1, <3>1 DEF Follows
    <3> QED BY <1>2, <3>1, <3>2
  <2> QED BY <1>1, <2>1, <2>2
<1>16. \A a \in audit' : a.status = "CHECKED_IN" => a.operation = "CheckInTicket"
  BY <1>1, <1>3, <1>4 DEF AuditOK, Follows
<1> QED BY <1>7, <1>9, <1>13, <1>14, <1>15, <1>16 DEF AuditOK

\* It adds one version to the history of its ticket, and none to that of another.
LEMMA ChangeKeepsHistory ==
  ASSUME TicketInv, NEW id, NEW u, NEW op, NEW type, NEW key, NEW request,
         Changes(id, u, op, type, key, request)
  PROVE  \A j \in Ids' : HistoryOK(j)'
<1> DEFINE t == tickets[id]
           new == AuditRow(id, u, op, t.status, key, request)
           event == OutboxRow(id, u, type)
<1>1. /\ id \in Ids /\ u \in Ticket /\ tickets' = [tickets EXCEPT ![id] = u] /\ TicketsOK
      /\ Follows(t, u, op)
      /\ audit' = audit \cup {new} /\ outbox' = outbox \cup {event}
  BY DEF Changes, Change, Follows, TicketInv
<1>2. /\ Ids' = Ids /\ tickets'[id] = u
      /\ \A j \in Ids : j # id => tickets'[j] = tickets[j]
  BY <1>1, UpdatedTickets
<1>3. /\ t \in Ticket /\ u.version = t.version + 1 /\ AuditOK /\ \A j \in Ids : HistoryOK(j)
      /\ t.version \in Nat /\ t.qrVersion \in Nat
  BY <1>1, TicketAt DEF Follows, TicketInv, Ticket
<1>4. /\ new.ticket = id /\ new.version = u.version /\ new.operation = op
      /\ new.status = u.status /\ new.previous = t.status
  BY DEF AuditRow
<1>5. event.ticket = id /\ event.version = u.version /\ event.status = u.status
  BY DEF OutboxRow
<1> HIDE DEF new, event
<1>6. \A a \in Mine(id) : a.version \in Nat /\ a.version <= t.version
  BY <1>3 DEF AuditOK, Mine, IsAuditRow
<1>7. ASSUME NEW j \in Ids, j # id PROVE HistoryOK(j)'
  <2>1. Mine(j)' = Mine(j)
    BY <1>1, <1>4, <1>7 DEF Mine
  <2>2. Regenerated(j)' = Regenerated(j)
    BY <2>1 DEF Regenerated
  <2>3. EventsOf(j)' = EventsOf(j)
    BY <1>1, <1>5, <1>7 DEF EventsOf
  <2>4. tickets'[j] = tickets[j] /\ HistoryOK(j)
    BY <1>2, <1>3, <1>7
  <2> QED BY <2>1, <2>2, <2>3, <2>4 DEF HistoryOK
<1>8. HistoryOK(id)'
  <2> DEFINE M == Mine(id)
             R == Regenerated(id)
             N == M \cup {new}
  <2>1. Mine(id)' = N /\ new \notin M
    BY <1>1, <1>3, <1>4, <1>6 DEF Mine
  <2>2. HistoryOK(id)
    BY <1>1, <1>3
  <2>3. IsFiniteSet(N) /\ Cardinality(N) = u.version
    BY <1>3, <2>1, <2>2, FS_AddElement DEF HistoryOK
  <2>4. \A v \in 1 .. u.version : \E a \in N : a.version = v
    <3> SUFFICES ASSUME NEW v \in 1 .. u.version
                 PROVE  \E a \in N : a.version = v
      OBVIOUS
    <3>1. CASE v = u.version
      BY <1>4, <3>1
    <3>2. CASE v # u.version
      <4>1. v \in 1 .. t.version
        BY <1>3, <3>2
      <4> QED BY <2>2, <4>1 DEF HistoryOK
    <3> QED BY <3>1, <3>2
  <2>5. \A a \in N : /\ a.version = 1 => a.previous = None
                     /\ a.version = u.version => a.status = u.status
    <3>1. u.version # 1
      BY <1>1, <1>3 DEF Ticket
    <3>2. \A a \in M : a.version # u.version
      BY <1>3, <1>6
    <3> QED BY <1>4, <2>2, <3>1, <3>2 DEF HistoryOK
  <2>6. \A a, b \in N : b.version = a.version + 1 => b.previous = a.status
    <3> SUFFICES ASSUME NEW a \in N, NEW b \in N, b.version = a.version + 1
                 PROVE  b.previous = a.status
      OBVIOUS
    <3>1. CASE a \in M /\ b \in M
      BY <2>2, <3>1 DEF HistoryOK
    <3>2. CASE a \in M /\ b = new
      <4>1. a.version = t.version
        BY <1>3, <1>4, <1>6, <3>2
      <4> QED BY <1>4, <2>2, <3>2, <4>1 DEF HistoryOK
    <3>3. CASE a = new
      <4>1. b \in M => b.version <= t.version /\ b.version \in Nat
        BY <1>6
      <4> QED BY <1>3, <1>4, <3>3, <4>1
    <3> QED BY <3>1, <3>2, <3>3
  <2>7. /\ IsFiniteSet(Regenerated(id)')
        /\ u.qrVersion = 1 + Cardinality(Regenerated(id)')
    <3>1. IsFiniteSet(R) /\ t.qrVersion = 1 + Cardinality(R) /\ Cardinality(R) \in Nat
      BY <2>2, FS_CardinalityType DEF HistoryOK
    <3>2. CASE op = "RegenerateTicketQr"
      <4>1. Regenerated(id)' = R \cup {new} /\ new \notin R
        BY <1>4, <2>1, <3>2 DEF Regenerated
      <4>2. /\ IsFiniteSet(R \cup {new})
            /\ Cardinality(R \cup {new}) = Cardinality(R) + 1
        BY <3>1, <4>1, FS_AddElement
      <4>3. u.qrVersion = t.qrVersion + 1
        BY <1>1, <3>2 DEF Follows
      <4> HIDE DEF R
      <4> QED BY <3>1, <4>1, <4>2, <4>3
    <3>3. CASE op # "RegenerateTicketQr"
      <4>1. Regenerated(id)' = R
        BY <1>4, <2>1, <3>3 DEF Regenerated
      <4> QED BY <1>1, <3>1, <3>3, <4>1 DEF Follows
    <3> QED BY <3>2, <3>3
  <2>8. {<<o.version, o.status>> : o \in EventsOf(id)'} = {<<a.version, a.status>> : a \in N}
    <3>1. EventsOf(id)' = EventsOf(id) \cup {event}
      BY <1>1, <1>5 DEF EventsOf
    <3>2. {<<o.version, o.status>> : o \in EventsOf(id)} = {<<a.version, a.status>> : a \in M}
      BY <2>2 DEF HistoryOK
    <3>3. <<event.version, event.status>> = <<new.version, new.status>>
      BY <1>4, <1>5
    <3> HIDE DEF M
    <3> QED BY <3>1, <3>2, <3>3
  <2> HIDE DEF N
  <2> QED BY <1>2, <2>1, <2>3, <2>4, <2>5, <2>6, <2>7, <2>8 DEF HistoryOK
<1> QED BY <1>2, <1>7, <1>8

\* So it keeps the rows and everything written with them.
LEMMA ChangeKeeps ==
  ASSUME TicketInv, TicketAssumption, NEW id, NEW u, NEW op, NEW type, NEW key, NEW request,
         Changes(id, u, op, type, key, request)
  PROVE  TicketsOK' /\ RecordsOK' /\ AuditOK' /\ \A j \in Ids' : HistoryOK(j)'
BY ChangeKeepsTickets, ChangeKeepsRecords, ChangeKeepsAudit, ChangeKeepsHistory

\* Nothing that a ticket's row, audit or events are made of changes.
LEMMA SameHistory ==
  ASSUME UNCHANGED <<tickets, audit, outbox>>
  PROVE  TicketsOK' = TicketsOK /\ AuditOK' = AuditOK
         /\ \A j : HistoryOK(j)' = HistoryOK(j)
BY DEF TicketsOK, AuditOK, HistoryOK, Ids, OneTicketPerSeat, TicketsOfBooking, IsAuditRow, Mine,
       Regenerated, EventsOf

\* A command that finds its result there stores an answer that names it.
LEMMA KeepKeeps ==
  ASSUME TicketInv, TicketAssumption, NEW scope \in Scopes, NEW key, NEW request,
         NEW ids \in SUBSET Ids, Keep(scope, key, request, ids), now' = now,
         scope = "CheckInTicket" =>
           request.ticket \in Ids /\ tickets[request.ticket].status = "CHECKED_IN"
  PROVE  TicketsOK' /\ RecordsOK' /\ AuditOK' /\ \A j \in Ids' : HistoryOK(j)'
<1>1. UNCHANGED <<tickets, audit, outbox>> /\ SaveReplay(scope, key, request, ids)
  BY DEF Keep
<1>2. Ids' = Ids /\ now \in Nat
  BY <1>1 DEF Ids, TicketInv, GatesOK
<1> DEFINE new == [scope |-> scope, key |-> key, request |-> request, tickets |-> ids,
                   expires |-> now + TTL]
<1>3. \A r \in records' : r \in records \/ r = new
  BY <1>1 DEF SaveReplay
<1>4. TTL \in Nat \ {0}
  BY DEF TicketAssumption, TicketBounds
<1>5. ASSUME NEW r, r = new
      PROVE  /\ r.tickets \subseteq Ids /\ r.scope \in Scopes /\ r.expires \in 1 .. now + TTL
             /\ r.scope = scope /\ r.request = request
  BY <1>2, <1>4, <1>5
<1>6. \A r \in records' : IsIdempotencyRecord(r)'
  BY <1>2, <1>3, <1>5 DEF IsIdempotencyRecord, TicketInv, RecordsOK
<1>7. \A r \in records' : r.scope = "CheckInTicket" =>
        r.request.ticket \in Ids' /\ tickets'[r.request.ticket].status = "CHECKED_IN"
  BY <1>1, <1>2, <1>3, <1>5 DEF TicketInv, RecordsOK
<1>8. \A o \in outbox' : IsOutboxEvent(o)'
  BY <1>1, <1>2 DEF IsOutboxEvent, TicketInv, RecordsOK
<1> QED BY <1>1, <1>2, <1>6, <1>7, <1>8, SameHistory DEF RecordsOK, TicketInv

\* Nothing is stored.
LEMMA NothingStoredKeeps ==
  ASSUME TicketInv, UNCHANGED <<tickets, records, audit, outbox>>, now' \in Nat, now <= now',
         TicketAssumption
  PROVE  TicketsOK' /\ RecordsOK' /\ AuditOK' /\ \A j \in Ids' : HistoryOK(j)'
<1>1. Ids' = Ids /\ now \in Nat /\ TTL \in Nat
  BY DEF Ids, TicketInv, GatesOK, TicketAssumption, TicketBounds
<1>2. \A r \in records' : IsIdempotencyRecord(r)'
  BY <1>1 DEF IsIdempotencyRecord, TicketInv, RecordsOK
<1>3. RecordsOK'
  BY <1>1, <1>2 DEF RecordsOK, TicketInv, IsOutboxEvent
<1> QED BY <1>1, <1>3, SameHistory DEF TicketInv

-----------------------------------------------------------------------------
(* IssueTickets.                                                            *)

\* normalize_ticket_definitions: each seat of the request once.
LEMMA SeatOrderNamesEachOnce ==
  ASSUME NEW S, IsFiniteSet(S)
  PROVE  /\ SeatOrder(S) \in [1 .. Cardinality(S) -> S]
         /\ \A s \in S : \E i \in 1 .. Cardinality(S) : SeatOrder(S)[i] = s
         /\ \A i, j \in 1 .. Cardinality(S) : SeatOrder(S)[i] = SeatOrder(S)[j] => i = j
<1> DEFINE n == Cardinality(S)
           o == SeatOrder(S)
<1>1. PICK f \in [1 .. n -> S] : \A s \in S : \E i \in 1 .. n : f[i] = s
  BY FS_CardinalityType DEF ExistsBijection, Bijection, Surjection
<1>2. {f[i] : i \in DOMAIN f} = S
  BY <1>1
<1> HIDE DEF n
<1>3. o \in [1 .. n -> S] /\ {o[i] : i \in DOMAIN o} = S
  <2>1. \E q \in [1 .. n -> S] : {q[i] : i \in DOMAIN q} = S
    BY <1>1, <1>2
  <2>2. o = CHOOSE q \in [1 .. n -> S] : {q[i] : i \in DOMAIN q} = S
    BY DEF SeatOrder, n
  <2> HIDE DEF o
  <2> QED BY <2>1, <2>2
<1>4. \A s \in S : \E i \in 1 .. n : o[i] = s
  BY <1>3
<1>5. o \in Surjection(1 .. n, S)
  BY <1>3, <1>4 DEF Surjection
<1>6. n \in Nat /\ n = Cardinality(S) /\ IsFiniteSet(1 .. n) /\ Cardinality(1 .. n) = n
  BY FS_CardinalityType, FS_Interval DEF n
<1>7. o \in Injection(1 .. n, S)
  BY <1>5, <1>6, FS_SurjSameCardinalityImpliesInj
<1>8. \A i, j \in 1 .. n : o[i] = o[j] => i = j
  BY <1>7 DEF Injection, IsInjective
<1> QED BY <1>3, <1>4, <1>6, <1>8

\* The command makes new tickets: the booking has none, and no other booking has a ticket
\* for one of the seats that is not cancelled.
Issues(key, r) ==
  LET order == SeatOrder(r.seats)
      issued == [i \in DOMAIN order |-> IssuedTicket(r.booking, order[i])]
      id(i) == Len(tickets) + i
  IN  /\ r \in IssueRequests /\ now' = now
      /\ TicketsOfBooking(r.booking) = {}
      /\ \A s \in r.seats : ActiveTicketsOfSeat(s) = {}
      /\ Len(tickets) + Len(order) <= MaxTickets
      /\ tickets' = tickets \o issued
      /\ audit' = audit \cup {AuditRow(id(i), issued[i], "IssueTickets", None, key, r) :
                                i \in DOMAIN order}
      /\ outbox' = outbox \cup {OutboxRow(id(i), issued[i], "TicketIssued") : i \in DOMAIN order}
      /\ SaveReplay("IssueTickets", key, r, {id(i) : i \in DOMAIN order})

\* The same with the numbers of the tickets: k old ones, n new ones for the seats in order.
IssueRow(k, order, key, r, i) ==
  AuditRow(k + i, IssuedTicket(r.booking, order[i]), "IssueTickets", None, key, r)
IssueEvent(k, order, r, i) == OutboxRow(k + i, IssuedTicket(r.booking, order[i]), "TicketIssued")

Issued(key, r, k, n, order) ==
  /\ k \in Nat /\ n \in Nat /\ k = Len(tickets) /\ k + n <= MaxTickets
  /\ Ids = 1 .. k /\ Ids' = 1 .. k + n
  /\ \A j \in 1 .. k + n : j \in 1 .. k \/ \E i \in 1 .. n : j = k + i
  /\ r \in IssueRequests /\ r.booking \in Bookings
  /\ r.seats \subseteq Seats /\ r.seats # {}
  /\ \A i \in 1 .. n : order[i] \in r.seats
  /\ \A s \in r.seats : \E i \in 1 .. n : order[i] = s
  /\ \A i, j \in 1 .. n : order[i] = order[j] => i = j
  /\ \A j \in 1 .. k : /\ tickets[j].booking # r.booking
                       /\ tickets[j].seat \in r.seats => tickets[j].status = "CANCELLED"
  /\ tickets' \in Seq(Ticket) /\ Len(tickets') = k + n
  /\ \A j \in 1 .. k : tickets'[j] = tickets[j]
  /\ \A i \in 1 .. n : tickets'[k + i] = IssuedTicket(r.booking, order[i])
  /\ audit' = audit \cup {IssueRow(k, order, key, r, i) : i \in 1 .. n}
  /\ outbox' = outbox \cup {IssueEvent(k, order, r, i) : i \in 1 .. n}
  /\ SaveReplay("IssueTickets", key, r, {k + i : i \in 1 .. n}) /\ now' = now

\* The new tickets have the next numbers, one for each seat of the request.
LEMMA IssuesMeans ==
  ASSUME TicketInv, TicketAssumption, NEW key, NEW r, Issues(key, r)
  PROVE  \E k, n, order : Issued(key, r, k, n, order)
<1> DEFINE n == Cardinality(r.seats)
           order == SeatOrder(r.seats)
           k == Len(tickets)
           issued == [i \in DOMAIN order |-> IssuedTicket(r.booking, order[i])]
<1>1. /\ r \in IssueRequests /\ r.booking \in Bookings /\ r.seats \subseteq Seats
      /\ r.seats # {} /\ IsFiniteSet(Seats) /\ MaxVersion \in Nat /\ MaxVersion > 0
  BY DEF Issues, TicketAssumption, TicketBounds
<1>2. IsFiniteSet(r.seats) /\ n \in Nat
  BY <1>1, FS_Subset, FS_CardinalityType
<1>3. /\ order \in [1 .. n -> r.seats] /\ \A s \in r.seats : \E i \in 1 .. n : order[i] = s
      /\ \A i, j \in 1 .. n : order[i] = order[j] => i = j
  BY <1>2, SeatOrderNamesEachOnce
<1>4. \A s \in r.seats : IssuedTicket(r.booking, s) \in Ticket
  BY <1>1 DEF IssuedTicket, Ticket, Statuses
<1>5. /\ tickets' = tickets \o issued /\ now' = now
      /\ TicketsOfBooking(r.booking) = {}
      /\ \A s \in r.seats : ActiveTicketsOfSeat(s) = {}
      /\ k + Len(order) <= MaxTickets
      /\ audit' = audit \cup {AuditRow(k + i, issued[i], "IssueTickets", None, key, r) :
                                i \in DOMAIN order}
      /\ outbox' = outbox \cup {OutboxRow(k + i, issued[i], "TicketIssued") : i \in DOMAIN order}
      /\ SaveReplay("IssueTickets", key, r, {k + i : i \in DOMAIN order})
  BY DEF Issues
<1> HIDE DEF n, order
<1>6. DOMAIN order = 1 .. n /\ Len(order) = n
  BY <1>2, <1>3
<1>7. /\ issued \in [1 .. n -> Ticket]
      /\ \A i \in 1 .. n : issued[i] = IssuedTicket(r.booking, order[i])
  BY <1>3, <1>4, <1>6
<1>8. /\ audit' = audit \cup {IssueRow(k, order, key, r, i) : i \in 1 .. n}
      /\ outbox' = outbox \cup {IssueEvent(k, order, r, i) : i \in 1 .. n}
      /\ SaveReplay("IssueTickets", key, r, {k + i : i \in 1 .. n})
  BY <1>5, <1>6 DEF IssueRow, IssueEvent
<1> HIDE DEF issued
<1>9. issued \in Seq(Ticket) /\ Len(issued) = n
  BY <1>2, <1>7
<1>10. tickets \in Seq(Ticket) /\ k \in Nat
  BY DEF TicketInv, TicketsOK
<1>11. tickets \o issued \in Seq(Ticket) /\ Len(tickets \o issued) = k + n
  BY <1>9, <1>10
<1>12. \A j \in 1 .. k : (tickets \o issued)[j] = tickets[j]
  BY <1>9, <1>10
<1>13. \A i \in 1 .. n : (tickets \o issued)[k + i] = issued[i]
  BY <1>2, <1>9, <1>10
<1>14. \A j \in 1 .. k + n : j \in 1 .. k \/ \E i \in 1 .. n : j = k + i
  <2> SUFFICES ASSUME NEW j \in 1 .. k + n, j \notin 1 .. k
               PROVE  \E i \in 1 .. n : j = k + i
    OBVIOUS
  <2>1. j - k \in 1 .. n /\ j = k + (j - k)
    BY <1>2, <1>10
  <2> QED BY <2>1
<1>15. Ids = 1 .. k /\ Ids' = 1 .. k + n
  BY <1>5, <1>11 DEF Ids
<1>16. \A j \in 1 .. k : /\ tickets[j].booking # r.booking
                         /\ tickets[j].seat \in r.seats => tickets[j].status = "CANCELLED"
  BY <1>5, <1>15 DEF TicketsOfBooking, ActiveTicketsOfSeat
<1> HIDE DEF k
<1>17. Issued(key, r, Len(tickets), n, order)
  BY <1>1, <1>2, <1>3, <1>5, <1>6, <1>7, <1>8, <1>10, <1>11, <1>12, <1>13, <1>14, <1>15, <1>16
     DEF Issued, k
<1> QED BY <1>17

\* What the new tickets are.
LEMMA NewTicketsAre ==
  ASSUME TicketAssumption, NEW key, NEW r, NEW k, NEW n, NEW order, Issued(key, r, k, n, order)
  PROVE  \A i \in 1 .. n :
           /\ tickets'[k + i] \in Ticket /\ StateConsistent(tickets'[k + i])
           /\ tickets'[k + i].booking = r.booking /\ tickets'[k + i].seat = order[i]
           /\ tickets'[k + i].status = "VALID"
           /\ tickets'[k + i].qrVersion = 1 /\ tickets'[k + i].version = 1
<1> SUFFICES ASSUME NEW i \in 1 .. n
             PROVE  /\ tickets'[k + i] \in Ticket /\ StateConsistent(tickets'[k + i])
                    /\ tickets'[k + i].booking = r.booking /\ tickets'[k + i].seat = order[i]
                    /\ tickets'[k + i].status = "VALID"
                    /\ tickets'[k + i].qrVersion = 1 /\ tickets'[k + i].version = 1
  OBVIOUS
<1>1. tickets'[k + i] = IssuedTicket(r.booking, order[i]) /\ order[i] \in r.seats
  BY DEF Issued
<1>2. r.booking \in Bookings /\ order[i] \in Seats /\ MaxVersion \in Nat /\ MaxVersion > 0
  BY <1>1 DEF Issued, TicketAssumption, TicketBounds
<1> DEFINE u == IssuedTicket(r.booking, order[i])
<1>3. /\ u.booking = r.booking /\ u.seat = order[i] /\ u.status = "VALID"
      /\ u.qrVersion = 1 /\ u.version = 1 /\ u.checkedInBy = None /\ u.reason = None
  BY DEF IssuedTicket
<1>4. u \in Ticket
  BY <1>2 DEF IssuedTicket, Ticket, Statuses
<1> HIDE DEF u
<1>5. StateConsistent(u)
  BY <1>3 DEF StateConsistent
<1> QED BY <1>1, <1>3, <1>4, <1>5 DEF u

\* What the new audit rows are.
LEMMA NewRowsAre ==
  ASSUME NEW key, NEW r, NEW k, NEW order, NEW i
  PROVE  LET a == IssueRow(k, order, key, r, i)
             o == IssueEvent(k, order, r, i)
         IN  /\ a.ticket = k + i /\ a.operation = "IssueTickets" /\ a.previous = None
             /\ a.status = "VALID" /\ a.version = 1 /\ a.request = r
             /\ o.ticket = k + i /\ o.version = 1 /\ o.status = "VALID"
             /\ o.type = "TicketIssued"
BY DEF IssueRow, IssueEvent, AuditRow, OutboxRow, IssuedTicket

\* The new tickets keep the unique constraints.
LEMMA IssueKeepsTickets ==
  ASSUME TicketInv, TicketAssumption, NEW key, NEW r, NEW k, NEW n, NEW order,
         Issued(key, r, k, n, order)
  PROVE  TicketsOK'
<1>1. /\ n \in Nat /\ k \in Nat /\ k + n <= MaxTickets
      /\ \A i \in 1 .. n : order[i] \in r.seats
      /\ \A j \in 1 .. k : /\ tickets[j].booking # r.booking
                           /\ tickets[j].seat \in r.seats => tickets[j].status = "CANCELLED"
      /\ tickets' \in Seq(Ticket) /\ Len(tickets') = k + n
      /\ \A j \in 1 .. k : tickets'[j] = tickets[j]
      /\ \A j \in 1 .. k + n : j \in 1 .. k \/ \E i \in 1 .. n : j = k + i
      /\ Ids = 1 .. k /\ Ids' = 1 .. k + n
  BY DEF Issued
<1>2. \A i \in 1 .. n :
        /\ StateConsistent(tickets'[k + i])
        /\ tickets'[k + i].booking = r.booking /\ tickets'[k + i].seat = order[i]
        /\ tickets'[k + i].qrVersion = 1 /\ tickets'[k + i].version = 1
  BY NewTicketsAre
<1>3. /\ \A j \in Ids : StateConsistent(tickets[j]) /\ tickets[j].qrVersion <= tickets[j].version
      /\ OneTicketPerSeat
  BY DEF TicketInv, TicketsOK
<1>4. ASSUME NEW j \in Ids'
      PROVE  StateConsistent(tickets'[j]) /\ tickets'[j].qrVersion <= tickets'[j].version
  <2>1. CASE j \in 1 .. k
    BY <1>1, <1>3, <2>1
  <2>2. CASE j \notin 1 .. k
    <3>1. PICK i \in 1 .. n : j = k + i
      BY <1>1, <2>2
    <3> QED BY <1>2, <3>1
  <2> QED BY <2>1, <2>2
<1>5. OneTicketPerSeat'
  <2> SUFFICES ASSUME NEW i \in 1 .. k + n, NEW j \in 1 .. k + n,
                      tickets'[i].seat = tickets'[j].seat,
                      \/ tickets'[i].booking = tickets'[j].booking
                      \/ "CANCELLED" \notin {tickets'[i].status, tickets'[j].status}
               PROVE  i = j
    BY <1>1 DEF OneTicketPerSeat
  <2>1. CASE i \in 1 .. k /\ j \in 1 .. k
    BY <1>1, <1>3, <2>1 DEF OneTicketPerSeat
  <2>2. CASE i \in 1 .. k /\ j \notin 1 .. k
    <3>1. PICK m \in 1 .. n : j = k + m
      BY <1>1, <2>2
    <3>2. /\ tickets'[i] = tickets[i] /\ tickets[i].booking # r.booking
          /\ tickets[i].seat \in r.seats => tickets[i].status = "CANCELLED"
      BY <1>1, <2>2
    <3>3. tickets'[j].booking = r.booking /\ tickets'[j].seat = order[m] /\ order[m] \in r.seats
      BY <1>1, <1>2, <3>1
    <3> QED BY <3>2, <3>3
  <2>3. CASE i \notin 1 .. k /\ j \in 1 .. k
    <3>1. PICK m \in 1 .. n : i = k + m
      BY <1>1, <2>3
    <3>2. /\ tickets'[j] = tickets[j] /\ tickets[j].booking # r.booking
          /\ tickets[j].seat \in r.seats => tickets[j].status = "CANCELLED"
      BY <1>1, <2>3
    <3>3. tickets'[i].booking = r.booking /\ tickets'[i].seat = order[m] /\ order[m] \in r.seats
      BY <1>1, <1>2, <3>1
    <3> QED BY <3>2, <3>3
  <2>4. CASE i \notin 1 .. k /\ j \notin 1 .. k
    <3>1. PICK m \in 1 .. n, p \in 1 .. n : i = k + m /\ j = k + p
      BY <1>1, <2>4
    <3>2. tickets'[i].seat = order[m] /\ tickets'[j].seat = order[p]
      BY <1>2, <3>1
    <3>3. \A a, b \in 1 .. n : order[a] = order[b] => a = b
      BY DEF Issued
    <3>4. m = p
      BY <3>2, <3>3
    <3> QED BY <3>1, <3>4
  <2> QED BY <2>1, <2>2, <2>3, <2>4
<1> QED BY <1>1, <1>4, <1>5 DEF TicketsOK


\* They are stored for replays and announced.
LEMMA IssueKeepsRecords ==
  ASSUME TicketInv, TicketAssumption, NEW key, NEW r, NEW k, NEW n, NEW order,
         Issued(key, r, k, n, order)
  PROVE  RecordsOK'
<1>1. /\ n \in Nat /\ k \in Nat /\ Ids = 1 .. k /\ Ids' = 1 .. k + n
      /\ \A j \in 1 .. k : tickets'[j] = tickets[j]
      /\ outbox' = outbox \cup {IssueEvent(k, order, r, i) : i \in 1 .. n}
      /\ SaveReplay("IssueTickets", key, r, {k + i : i \in 1 .. n}) /\ now' = now
  BY DEF Issued
<1>2. /\ now \in Nat /\ TTL \in Nat \ {0} /\ MaxVersion \in Nat /\ MaxVersion > 0
  BY DEF TicketInv, GatesOK, TicketAssumption, TicketBounds
<1> DEFINE new == [scope |-> "IssueTickets", key |-> key, request |-> r,
                   tickets |-> {k + i : i \in 1 .. n}, expires |-> now + TTL]
<1>3. \A x \in records' : x \in records \/ x = new
  BY <1>1 DEF SaveReplay
<1>4. new.scope = "IssueTickets" /\ new.tickets \subseteq Ids' /\ new.expires \in 1 .. now + TTL
  BY <1>1, <1>2
<1> HIDE DEF new
<1>5. \A x \in records : /\ IsIdempotencyRecord(x)
                         /\ x.scope = "CheckInTicket" =>
                              /\ x.request.ticket \in Ids
                              /\ tickets[x.request.ticket].status = "CHECKED_IN"
  BY DEF TicketInv, RecordsOK
<1>6. Ids \subseteq Ids'
  BY <1>1
<1>7. ASSUME NEW x \in records'
      PROVE  /\ IsIdempotencyRecord(x)'
             /\ x.scope = "CheckInTicket" =>
                  x.request.ticket \in Ids' /\ tickets'[x.request.ticket].status = "CHECKED_IN"
  <2>1. CASE x = new
    BY <1>1, <1>4, <2>1 DEF IsIdempotencyRecord, Scopes
  <2>2. CASE x \in records
    <3>1. IsIdempotencyRecord(x)'
      BY <1>1, <1>5, <1>6, <2>2 DEF IsIdempotencyRecord
    <3> QED BY <1>1, <1>5, <1>6, <2>2, <3>1
  <2> QED BY <1>3, <2>1, <2>2
<1>8. ASSUME NEW o \in outbox' PROVE IsOutboxEvent(o)'
  <2>1. CASE o \in outbox
    BY <1>6, <2>1 DEF TicketInv, RecordsOK, IsOutboxEvent
  <2>2. CASE o \notin outbox
    <3>1. PICK i \in 1 .. n : o = IssueEvent(k, order, r, i)
      BY <1>1, <2>2
    <3>2. o.ticket = k + i /\ o.version = 1 /\ o.status = "VALID" /\ o.type = "TicketIssued"
      BY <3>1, NewRowsAre
    <3>3. k + i \in Ids' /\ 1 \in 1 .. MaxVersion
      BY <1>1, <1>2
    <3> QED BY <3>2, <3>3 DEF IsOutboxEvent, Statuses
  <2> QED BY <2>1, <2>2
<1> QED BY <1>7, <1>8 DEF RecordsOK

\* Their audit rows name the request, and the request names their seats.
LEMMA IssueKeepsAudit ==
  ASSUME TicketInv, TicketAssumption, NEW key, NEW r, NEW k, NEW n, NEW order,
         Issued(key, r, k, n, order)
  PROVE  AuditOK'
<1>1. /\ n \in Nat /\ k \in Nat /\ Ids = 1 .. k /\ Ids' = 1 .. k + n
      /\ \A j \in 1 .. k : tickets'[j] = tickets[j] /\ tickets[j].booking # r.booking
      /\ \A j \in 1 .. k + n : j \in 1 .. k \/ \E i \in 1 .. n : j = k + i
      /\ audit' = audit \cup {IssueRow(k, order, key, r, i) : i \in 1 .. n}
      /\ r \in IssueRequests
  BY DEF Issued
<1>2. /\ \A i \in 1 .. n : order[i] \in r.seats
      /\ \A s \in r.seats : \E i \in 1 .. n : order[i] = s
  BY DEF Issued
<1>3. MaxVersion \in Nat /\ MaxVersion > 0 /\ AuditOK
  BY DEF TicketInv, TicketAssumption, TicketBounds
<1>4. \A i \in 1 .. n : /\ tickets'[k + i].booking = r.booking /\ tickets'[k + i].seat = order[i]
                        /\ tickets'[k + i].version = 1
  BY NewTicketsAre
<1> DEFINE row(i) == IssueRow(k, order, key, r, i)
<1>5. \A i : /\ row(i).ticket = k + i /\ row(i).operation = "IssueTickets" /\ row(i).previous = None
             /\ row(i).status = "VALID" /\ row(i).version = 1 /\ row(i).request = r
  BY NewRowsAre
<1>6. \A a \in audit' : a \in audit \/ \E i \in 1 .. n : a = row(i)
  BY <1>1
<1> HIDE DEF row
<1>7. \A a \in audit : /\ a.ticket \in Ids /\ IsAuditRow(a)
                       /\ a.version <= tickets[a.ticket].version
  BY <1>3 DEF AuditOK, IsAuditRow
<1>8. Ids \subseteq Ids' /\ \A i \in 1 .. n : k + i \in Ids' /\ k + i \notin Ids
  BY <1>1
<1>9. ASSUME NEW a \in audit' PROVE IsAuditRow(a)' /\ a.version <= tickets'[a.ticket].version
  <2>1. CASE a \in audit
    <3>1. IsAuditRow(a)'
      BY <1>7, <1>8, <2>1 DEF IsAuditRow
    <3> QED BY <1>1, <1>7, <2>1, <3>1
  <2>2. CASE a \notin audit
    <3>1. PICK i \in 1 .. n : a = row(i)
      BY <1>6, <2>2
    <3>2. IsAuditRow(a)'
      BY <1>3, <1>5, <1>8, <3>1 DEF IsAuditRow, Scopes, Statuses
    <3> QED BY <1>4, <1>5, <3>1, <3>2
  <2> QED BY <2>1, <2>2
<1>10. ASSUME NEW a \in audit', NEW b \in audit', a.ticket = b.ticket, a.version = b.version
       PROVE  a = b
  <2>1. CASE a \in audit /\ b \in audit
    BY <1>3, <1>10, <2>1 DEF AuditOK
  <2>2. CASE a \notin audit /\ b \notin audit
    <3>1. PICK i \in 1 .. n, j \in 1 .. n : a = row(i) /\ b = row(j)
      BY <1>6, <2>2
    <3>2. k + i = k + j
      BY <1>5, <1>10, <3>1
    <3>3. i = j
      BY <1>1, <3>2
    <3> QED BY <3>1, <3>3
  <2>3. CASE a \in audit /\ b \notin audit
    BY <1>5, <1>6, <1>7, <1>8, <1>10, <2>3
  <2>4. CASE a \notin audit /\ b \in audit
    BY <1>5, <1>6, <1>7, <1>8, <1>10, <2>4
  <2> QED BY <2>1, <2>2, <2>3, <2>4
<1>11. ASSUME NEW a \in audit', a.operation = "IssueTickets"
       PROVE  /\ a.version = 1 /\ a.request \in IssueRequests
              /\ tickets'[a.ticket].booking = a.request.booking
              /\ a.request.seats = {tickets'[j].seat : j \in TicketsOfBooking(a.request.booking)'}
  <2>1. CASE a \in audit
    <3>1. /\ a.version = 1 /\ a.request \in IssueRequests /\ a.ticket \in Ids
          /\ tickets[a.ticket].booking = a.request.booking
          /\ a.request.seats = {tickets[j].seat : j \in TicketsOfBooking(a.request.booking)}
      BY <1>3, <1>7, <1>11, <2>1 DEF AuditOK
    <3>2. a.request.booking # r.booking /\ tickets'[a.ticket] = tickets[a.ticket]
      BY <1>1, <3>1
    <3>3. TicketsOfBooking(a.request.booking)' = TicketsOfBooking(a.request.booking)
      BY <1>1, <1>4, <1>8, <3>2 DEF TicketsOfBooking
    <3>4. {tickets'[j].seat : j \in TicketsOfBooking(a.request.booking)}
            = {tickets[j].seat : j \in TicketsOfBooking(a.request.booking)}
      BY <1>1 DEF TicketsOfBooking
    <3> QED BY <3>1, <3>2, <3>3, <3>4
  <2>2. CASE a \notin audit
    <3>1. PICK i \in 1 .. n : a = row(i)
      BY <1>6, <2>2
    <3>2. TicketsOfBooking(r.booking)' = {k + m : m \in 1 .. n}
      <4>1. TicketsOfBooking(r.booking)' = {j \in 1 .. k + n : tickets'[j].booking = r.booking}
        BY <1>1 DEF TicketsOfBooking
      <4>2. \A j \in 1 .. k : tickets'[j].booking # r.booking
        BY <1>1
      <4>3. \A m \in 1 .. n : k + m \in 1 .. k + n /\ tickets'[k + m].booking = r.booking
        BY <1>1, <1>4
      <4>4. \A j \in 1 .. k + n : tickets'[j].booking = r.booking => \E m \in 1 .. n : j = k + m
        BY <1>1, <4>2
      <4> QED BY <4>1, <4>3, <4>4
    <3>3. {tickets'[j].seat : j \in {k + m : m \in 1 .. n}} = {order[m] : m \in 1 .. n}
      BY <1>4
    <3>4. {order[m] : m \in 1 .. n} = r.seats
      BY <1>2
    <3>5. /\ a.version = 1 /\ a.request = r /\ a.ticket = k + i
          /\ tickets'[k + i].booking = r.booking
      BY <1>4, <1>5, <3>1
    <3>6. r.seats = {tickets'[j].seat : j \in TicketsOfBooking(r.booking)'}
      BY <3>2, <3>3, <3>4
    <3> QED BY <1>1, <3>5, <3>6
  <2> QED BY <2>1, <2>2
<1>12. ASSUME NEW a \in audit', a.operation # "IssueTickets"
       PROVE  /\ a.request.ticket = a.ticket /\ a.version = a.request.expectedVersion + 1
              /\ a.operation = "CheckInTicket" => tickets'[a.ticket].status = "CHECKED_IN"
  <2>1. a \in audit /\ a.ticket \in 1 .. k
    BY <1>1, <1>5, <1>6, <1>7, <1>12
  <2>2. /\ a.request.ticket = a.ticket /\ a.version = a.request.expectedVersion + 1
        /\ a.operation = "CheckInTicket" => tickets[a.ticket].status = "CHECKED_IN"
    BY <1>3, <1>12, <2>1 DEF AuditOK
  <2> QED BY <1>1, <2>1, <2>2
<1>13. \A a \in audit' : a.status = "CHECKED_IN" => a.operation = "CheckInTicket"
  BY <1>3, <1>5, <1>6 DEF AuditOK
<1> QED BY <1>9, <1>10, <1>11, <1>12, <1>13 DEF AuditOK

\* A new ticket's history is its first version; the other tickets have theirs.
LEMMA IssueKeepsHistory ==
  ASSUME TicketInv, TicketAssumption, NEW key, NEW r, NEW k, NEW n, NEW order,
         Issued(key, r, k, n, order)
  PROVE  \A j \in Ids' : HistoryOK(j)'
<1>1. /\ n \in Nat /\ k \in Nat /\ Ids = 1 .. k /\ Ids' = 1 .. k + n
      /\ \A j \in 1 .. k : tickets'[j] = tickets[j]
      /\ \A j \in 1 .. k + n : j \in 1 .. k \/ \E i \in 1 .. n : j = k + i
      /\ audit' = audit \cup {IssueRow(k, order, key, r, i) : i \in 1 .. n}
      /\ outbox' = outbox \cup {IssueEvent(k, order, r, i) : i \in 1 .. n}
  BY DEF Issued
<1> DEFINE row(i) == IssueRow(k, order, key, r, i)
           event(i) == IssueEvent(k, order, r, i)
<1>2. \A i : /\ row(i).ticket = k + i /\ row(i).operation = "IssueTickets" /\ row(i).previous = None
             /\ row(i).status = "VALID" /\ row(i).version = 1
             /\ event(i).ticket = k + i /\ event(i).version = 1 /\ event(i).status = "VALID"
  BY NewRowsAre
<1>3. /\ audit' = audit \cup {row(i) : i \in 1 .. n}
      /\ outbox' = outbox \cup {event(i) : i \in 1 .. n}
  BY <1>1
<1> HIDE DEF row, event
<1>4. /\ \A a \in audit : a.ticket \in Ids
      /\ \A o \in outbox : o.ticket \in Ids
      /\ \A j \in Ids : HistoryOK(j)
  BY DEF TicketInv, AuditOK, RecordsOK, IsAuditRow, IsOutboxEvent
<1>5. \A i \in 1 .. n : k + i \notin Ids
  BY <1>1
<1>6. ASSUME NEW j \in Ids PROVE HistoryOK(j)'
  <2>1. Mine(j)' = Mine(j)
    BY <1>2, <1>3, <1>5 DEF Mine
  <2>2. Regenerated(j)' = Regenerated(j)
    BY <2>1 DEF Regenerated
  <2>3. EventsOf(j)' = EventsOf(j)
    BY <1>2, <1>3, <1>5 DEF EventsOf
  <2>4. tickets'[j] = tickets[j] /\ HistoryOK(j)
    BY <1>1, <1>4
  <2> QED BY <2>1, <2>2, <2>3, <2>4 DEF HistoryOK
<1>7. ASSUME NEW i \in 1 .. n PROVE HistoryOK(k + i)'
  <2>1. /\ tickets'[k + i].version = 1 /\ tickets'[k + i].qrVersion = 1
        /\ tickets'[k + i].status = "VALID"
    BY NewTicketsAre
  <2>2. \A m \in 1 .. n : k + m = k + i => m = i
    BY <1>1
  <2>3. Mine(k + i)' = {row(i)}
    BY <1>2, <1>3, <1>4, <1>5, <2>2 DEF Mine
  <2>4. EventsOf(k + i)' = {event(i)}
    BY <1>2, <1>3, <1>4, <1>5, <2>2 DEF EventsOf
  <2>5. Regenerated(k + i)' = {}
    BY <1>2, <2>3 DEF Regenerated
  <2>6. /\ IsFiniteSet({row(i)}) /\ Cardinality({row(i)}) = 1
        /\ IsFiniteSet({}) /\ Cardinality({}) = 0
    BY FS_Singleton, FS_EmptySet
  <2>7. {<<o.version, o.status>> : o \in {event(i)}} = {<<a.version, a.status>> : a \in {row(i)}}
    BY <1>2
  <2>8. \A v \in 1 .. 1 : v = 1
    OBVIOUS
  <2> QED BY <1>2, <2>1, <2>3, <2>4, <2>5, <2>6, <2>7, <2>8 DEF HistoryOK
<1> QED BY <1>1, <1>6, <1>7

\* So issuing keeps the rows and everything written with them.
LEMMA IssueKeeps ==
  ASSUME TicketInv, TicketAssumption, NEW key, NEW r, Issues(key, r)
  PROVE  TicketsOK' /\ RecordsOK' /\ AuditOK' /\ \A j \in Ids' : HistoryOK(j)'
<1>1. PICK k, n, order : Issued(key, r, k, n, order)
  BY IssuesMeans
<1> QED BY <1>1, IssueKeepsTickets, IssueKeepsRecords, IssueKeepsAudit, IssueKeepsHistory


-----------------------------------------------------------------------------
(* The commands.                                                            *)

\* A ticket that changes was valid, and its version grows.
Moves ==
  /\ Ids \subseteq Ids'
  /\ \A j \in Ids : \/ tickets'[j] = tickets[j]
                    \/ tickets[j].status = "VALID" /\ tickets'[j].version = tickets[j].version + 1

\* ensure_transition_allowed: only a valid ticket changes.
LEMMA MayChangeMeans ==
  ASSUME TicketAssumption, NEW t \in Ticket, NEW expected, NEW target,
         MayChange(t, expected, target)
  PROVE  t.status = "VALID" /\ t.version = expected /\ t.version + 1 <= MaxVersion
<1>1. t.status \in Statuses /\ target \in AllowedTransitions[t.status] /\ t.version = expected
  BY DEF MayChange, Ticket
<1>2. t.status = "VALID"
  BY <1>1 DEF AllowedTransitions, Statuses
<1>3. t.version \in Int /\ t.version < MaxVersion /\ MaxVersion \in Int
  BY DEF MayChange, Ticket, TicketAssumption, TicketBounds
<1> QED BY <1>1, <1>2, <1>3

\* What the commands make of a valid ticket.
LEMMA CommandsFollow ==
  ASSUME TicketAssumption, NEW t \in Ticket, t.status = "VALID", StateConsistent(t),
         t.version + 1 <= MaxVersion, t.qrVersion <= t.version
  PROVE  /\ Follows(t, CheckedIn(t, Caller), "CheckInTicket")
         /\ Follows(t, CancelledTicket(t), "CancelTicket")
         /\ Follows(t, WithNewQr(t), "RegenerateTicketQr")
<1>1. /\ t.version \in Nat /\ t.qrVersion \in Nat /\ MaxVersion \in Nat
      /\ t.version + 1 \in 1 .. MaxVersion /\ t.qrVersion + 1 \in 1 .. MaxVersion
      /\ t.checkedInBy = None /\ t.reason = None
      /\ Caller # None /\ CancelReason # None
  BY DEF Ticket, TicketAssumption, TicketBounds, StateConsistent
<1>2. ASSUME NEW u, u = CheckedIn(t, Caller) PROVE Follows(t, u, "CheckInTicket")
  <2>1. /\ u.booking = t.booking /\ u.seat = t.seat /\ u.qrVersion = t.qrVersion
        /\ u.status = "CHECKED_IN" /\ u.version = t.version + 1
        /\ u.checkedInBy = Caller /\ u.reason = None
    BY <1>1, <1>2 DEF CheckedIn, Advanced, Ticket
  <2>2. u \in Ticket
    BY <1>1, <1>2 DEF CheckedIn, Advanced, Ticket, Statuses
  <2>3. StateConsistent(u)
    BY <1>1, <2>1 DEF StateConsistent
  <2> QED BY <2>1, <2>2, <2>3 DEF Follows
<1>3. ASSUME NEW u, u = CancelledTicket(t) PROVE Follows(t, u, "CancelTicket")
  <2>1. /\ u.booking = t.booking /\ u.seat = t.seat /\ u.qrVersion = t.qrVersion
        /\ u.status = "CANCELLED" /\ u.version = t.version + 1
        /\ u.checkedInBy = None /\ u.reason = CancelReason
    BY <1>1, <1>3 DEF CancelledTicket, Advanced, Ticket
  <2>2. u \in Ticket
    BY <1>1, <1>3 DEF CancelledTicket, Advanced, Ticket, Statuses
  <2>3. StateConsistent(u)
    BY <1>1, <2>1 DEF StateConsistent
  <2> QED BY <2>1, <2>2, <2>3 DEF Follows
<1>4. ASSUME NEW u, u = WithNewQr(t) PROVE Follows(t, u, "RegenerateTicketQr")
  <2>1. /\ u.booking = t.booking /\ u.seat = t.seat /\ u.qrVersion = t.qrVersion + 1
        /\ u.status = "VALID" /\ u.version = t.version + 1
        /\ u.checkedInBy = None /\ u.reason = None
    BY <1>1, <1>4 DEF WithNewQr, Advanced, Ticket
  <2>2. u \in Ticket
    BY <1>1, <1>4 DEF WithNewQr, Advanced, Ticket, Statuses
  <2>3. StateConsistent(u)
    BY <1>1, <2>1 DEF StateConsistent
  <2> QED BY <2>1, <2>2, <2>3 DEF Follows
<1> QED BY <1>2, <1>3, <1>4

\* What a step of a command does to the rows and to the check-ins among the audit rows.
Effect ==
  /\ TicketsOK' /\ RecordsOK' /\ AuditOK' /\ \A j \in Ids' : HistoryOK(j)'
  /\ Moves /\ now' \in Nat

NoCheckIn == \A row \in audit' : row.operation = "CheckInTicket" => row \in audit

\* A command that changes one ticket.
LEMMA ChangeEffect ==
  ASSUME TicketInv, TicketAssumption, NEW id, NEW u, NEW op, NEW type, NEW key, NEW request,
         Changes(id, u, op, type, key, request)
  PROVE  Effect /\ audit' = audit \cup {AuditRow(id, u, op, tickets[id].status, key, request)}
         /\ tickets'[id] = u
<1>1. /\ TicketsOK /\ id \in Ids /\ u \in Ticket /\ tickets' = [tickets EXCEPT ![id] = u]
      /\ Follows(tickets[id], u, op) /\ now' = now /\ now \in Nat
      /\ audit' = audit \cup {AuditRow(id, u, op, tickets[id].status, key, request)}
  BY DEF Changes, Change, Follows, TicketInv, GatesOK
<1>2. /\ Ids' = Ids /\ tickets'[id] = u
      /\ \A j \in Ids : j # id => tickets'[j] = tickets[j]
  BY <1>1, UpdatedTickets
<1>3. Moves
  BY <1>1, <1>2 DEF Moves, Follows
<1> QED BY <1>1, <1>2, <1>3, ChangeKeeps DEF Effect

\* Nothing but an answer is stored.
LEMMA SameEffect ==
  ASSUME UNCHANGED <<tickets, audit>>
  PROVE  Moves /\ NoCheckIn
BY DEF Moves, NoCheckIn, Ids

\* IssueTickets.
LEMMA IssueTicketsEffect ==
  ASSUME TicketInv, TicketAssumption, NEW key, NEW r \in IssueRequests, IssueTickets(key, r)
  PROVE  Effect /\ NoCheckIn
<1> DEFINE existing == TicketsOfBooking(r.booking)
<1>1. now' = now /\ now \in Nat
  BY DEF IssueTickets, Unscanned, TicketInv, GatesOK
<1>2. CASE Keep("IssueTickets", key, r, existing)
  <2>1. existing \in SUBSET Ids
    BY DEF TicketsOfBooking
  <2>2. TicketsOK' /\ RecordsOK' /\ AuditOK' /\ \A j \in Ids' : HistoryOK(j)'
    BY <1>1, <1>2, <2>1, KeepKeeps DEF Scopes
  <2>3. Moves /\ NoCheckIn
    BY <1>2, SameEffect DEF Keep
  <2> QED BY <1>1, <2>2, <2>3 DEF Effect
<1>3. CASE Issues(key, r)
  <2>1. PICK k, n, order : Issued(key, r, k, n, order)
    BY <1>3, IssuesMeans
  <2>2. Moves
    BY <2>1 DEF Issued, Moves
  <2>3. NoCheckIn
    <3>1. audit' = audit \cup {IssueRow(k, order, key, r, i) : i \in 1 .. n}
      BY <2>1 DEF Issued
    <3>2. \A i : IssueRow(k, order, key, r, i).operation = "IssueTickets"
      BY NewRowsAre
    <3> QED BY <3>1, <3>2 DEF NoCheckIn
  <2> QED BY <1>1, <1>3, <2>2, <2>3, IssueKeeps DEF Effect
<1>4. Keep("IssueTickets", key, r, existing) \/ Issues(key, r)
  BY <1>1 DEF IssueTickets, Issues
<1> QED BY <1>2, <1>3, <1>4

\* A row that was not there is of the command that wrote it.
LEMMA OtherCommand ==
  ASSUME NEW id, NEW u, NEW op, op # "CheckInTicket", NEW previous, NEW key, NEW request,
         audit' = audit \cup {AuditRow(id, u, op, previous, key, request)}
  PROVE  NoCheckIn
BY DEF NoCheckIn, AuditRow

\* CancelTicket.
LEMMA CancelTicketEffect ==
  ASSUME TicketInv, TicketAssumption, NEW key, NEW id \in Ids, NEW v, CancelTicket(key, id, v)
  PROVE  Effect /\ NoCheckIn
<1> DEFINE request == [ticket |-> id, expectedVersion |-> v]
           t == tickets[id]
<1>1. now' = now /\ now \in Nat
  BY DEF CancelTicket, Unscanned, TicketInv, GatesOK
<1>2. CASE Keep("CancelTicket", key, request, {id})
  <2>1. TicketsOK' /\ RecordsOK' /\ AuditOK' /\ \A j \in Ids' : HistoryOK(j)'
    BY <1>1, <1>2, KeepKeeps DEF Scopes
  <2>2. Moves /\ NoCheckIn
    BY <1>2, SameEffect DEF Keep
  <2> QED BY <1>1, <2>1, <2>2 DEF Effect
<1>3. CASE /\ MayChange(t, v, "CANCELLED")
           /\ Change(id, CancelledTicket(t), "CancelTicket", "TicketCancelled", key, request)
  <2>1. t \in Ticket /\ StateConsistent(t) /\ t.qrVersion <= t.version
    BY TicketAt DEF TicketInv, TicketsOK
  <2>2. t.status = "VALID" /\ t.version = v /\ t.version + 1 <= MaxVersion
    BY <1>3, <2>1, MayChangeMeans
  <2>3. Follows(t, CancelledTicket(t), "CancelTicket")
    BY <2>1, <2>2, CommandsFollow
  <2>4. Changes(id, CancelledTicket(t), "CancelTicket", "TicketCancelled", key, request)
    BY <1>1, <1>3, <2>2, <2>3 DEF Changes
  <2>5. Effect /\ audit' = audit \cup {AuditRow(id, CancelledTicket(t), "CancelTicket",
                                                t.status, key, request)}
    BY <2>4, ChangeEffect
  <2> QED BY <2>5, OtherCommand
<1> QED BY <1>2, <1>3 DEF CancelTicket

\* RegenerateTicketQr.
LEMMA RegenerateQrEffect ==
  ASSUME TicketInv, TicketAssumption, NEW key, NEW id \in Ids, NEW v, RegenerateQr(key, id, v)
  PROVE  Effect /\ NoCheckIn
<1> DEFINE request == [ticket |-> id, expectedVersion |-> v]
           t == tickets[id]
<1>1. now' = now /\ now \in Nat
  BY DEF RegenerateQr, Unscanned, TicketInv, GatesOK
<1>2. /\ MayChange(t, v, "VALID")
      /\ Change(id, WithNewQr(t), "RegenerateTicketQr", "TicketQrRegenerated", key, request)
  BY DEF RegenerateQr
<1>3. t \in Ticket /\ StateConsistent(t) /\ t.qrVersion <= t.version
  BY TicketAt DEF TicketInv, TicketsOK
<1>4. t.status = "VALID" /\ t.version = v /\ t.version + 1 <= MaxVersion
  BY <1>2, <1>3, MayChangeMeans
<1>5. Follows(t, WithNewQr(t), "RegenerateTicketQr")
  BY <1>3, <1>4, CommandsFollow
<1>6. Changes(id, WithNewQr(t), "RegenerateTicketQr", "TicketQrRegenerated", key, request)
  BY <1>1, <1>2, <1>4, <1>5 DEF Changes
<1>7. Effect /\ audit' = audit \cup {AuditRow(id, WithNewQr(t), "RegenerateTicketQr",
                                              t.status, key, request)}
  BY <1>6, ChangeEffect
<1> QED BY <1>7, OtherCommand


-----------------------------------------------------------------------------
(* The gates.                                                               *)

\* A gate keeps what it scanned until it is told the answer or gives up.
GatesMove ==
  /\ scans' = scans
  /\ gates' \in [Gates -> Gate]
  /\ \A h \in Gates :
       \/ gates'[h].pc = "idle"
       \/ /\ gates[h].pc # "idle" /\ gates'[h].ticket = gates[h].ticket
          /\ gates'[h].qr = gates[h].qr /\ gates'[h].ifMatch = gates[h].ifMatch

\* A check-in that is written is of a gate that scanned the newest code of a valid ticket.
Shown ==
  \A row \in audit' : row.operation = "CheckInTicket" /\ row \notin audit =>
    \E h \in Gates : /\ row.key = <<h, scans[h]>> /\ gates[h].pc # "idle"
                     /\ row.ticket = gates[h].ticket /\ row.ticket \in Ids
                     /\ tickets[row.ticket].status = "VALID"
                     /\ gates[h].qr = tickets'[row.ticket].qrVersion

\* An admission that is recorded is of a gate whose ticket is checked in.
Admitted ==
  \A a \in admissions' : a \notin admissions =>
    /\ a.gate \in Gates /\ a.scan = scans[a.gate] /\ gates[a.gate].pc # "idle"
    /\ a.ticket = gates[a.gate].ticket /\ a.qr = gates[a.gate].qr
    /\ tickets'[a.ticket].status = "CHECKED_IN"

\* While a ticket has the version a gate saw, it has the QR code the gate scanned.
LEMMA GatesKeep ==
  ASSUME TicketInv, Effect, GatesMove, faults' \in Nat
  PROVE  GatesOK'
<1>1. /\ GatesOK /\ Moves /\ gates' \in [Gates -> Gate] /\ scans' = scans /\ now' \in Nat
      /\ \A j \in Ids : tickets[j].version \in Nat
  <2>1. \A j \in Ids : tickets[j] \in Ticket
    BY TicketAt DEF TicketInv
  <2> QED BY <2>1 DEF TicketInv, Effect, GatesMove, Ticket
<1>2. ASSUME NEW g \in Gates, gates'[g].pc # "idle"
      PROVE  LET x == gates'[g] IN
               /\ x.ticket \in Ids' /\ x.ifMatch \in Nat
               /\ x.ifMatch <= tickets'[x.ticket].version
               /\ tickets'[x.ticket].version = x.ifMatch => tickets'[x.ticket].qrVersion = x.qr
  <2> DEFINE y == gates[g]
             j == y.ticket
  <2>1. /\ gates'[g].ticket = j /\ gates'[g].qr = y.qr /\ gates'[g].ifMatch = y.ifMatch
        /\ y.pc # "idle"
    BY <1>2 DEF GatesMove
  <2>2. /\ j \in Ids /\ y.ifMatch \in Nat /\ y.ifMatch <= tickets[j].version
        /\ tickets[j].version = y.ifMatch => tickets[j].qrVersion = y.qr
    BY <1>1, <2>1 DEF GatesOK
  <2>3. /\ j \in Ids' /\ tickets[j].version \in Nat
        /\ tickets'[j] = tickets[j] \/ tickets'[j].version = tickets[j].version + 1
    BY <1>1, <2>2 DEF Moves
  <2> HIDE DEF j, y
  <2>4. /\ y.ifMatch <= tickets'[j].version
        /\ tickets'[j].version = y.ifMatch => tickets'[j].qrVersion = y.qr
    BY <2>2, <2>3
  <2> QED BY <2>1, <2>2, <2>3, <2>4
<1>3. scans' \in [Gates -> Nat]
  BY <1>1 DEF GatesOK
<1> QED BY <1>1, <1>2, <1>3 DEF GatesOK

\* A ticket that is not valid stays as it is.
LEMMA OnlyValidMove ==
  ASSUME Moves, NEW j \in Ids, tickets[j].status # "VALID"
  PROVE  tickets'[j] = tickets[j]
BY DEF Moves

\* A gate's newest check-in shows the newest code.
LEMMA CheckInsKeep ==
  ASSUME TicketInv, Effect, GatesMove, Shown
  PROVE  CheckInsOK'
<1>1. /\ scans \in [Gates -> Nat] /\ scans' = scans /\ Moves /\ CheckInsOK
      /\ \A a \in audit : a.operation = "CheckInTicket" =>
           a.ticket \in Ids /\ tickets[a.ticket].status = "CHECKED_IN"
  BY DEF TicketInv, GatesOK, AuditOK, IsAuditRow, Effect, GatesMove
<1>2. ASSUME NEW row \in audit', NEW g \in Gates, NEW n \in Nat,
             row.operation = "CheckInTicket", row.key = <<g, n>>
      PROVE  /\ n <= scans'[g]
             /\ n = scans'[g] /\ gates'[g].pc # "idle" /\ gates'[g].ticket = row.ticket =>
                  gates'[g].qr = tickets'[row.ticket].qrVersion
  <2>1. CASE row \in audit
    <3>1. /\ n <= scans[g]
          /\ n = scans[g] /\ gates[g].pc # "idle" /\ gates[g].ticket = row.ticket =>
               gates[g].qr = tickets[row.ticket].qrVersion
      BY <1>1, <1>2, <2>1 DEF CheckInsOK
    <3>2. tickets'[row.ticket] = tickets[row.ticket]
      BY <1>1, <1>2, <2>1, OnlyValidMove
    <3> QED BY <1>1, <3>1, <3>2 DEF GatesMove
  <2>2. CASE row \notin audit
    <3>1. PICK h \in Gates : /\ row.key = <<h, scans[h]>>
                             /\ gates[h].qr = tickets'[row.ticket].qrVersion
      BY <1>2, <2>2 DEF Shown
    <3>2. h = g /\ n = scans[g] /\ scans[g] \in Nat
      BY <1>1, <1>2, <3>1
    <3> QED BY <1>1, <3>1, <3>2 DEF GatesMove
  <2> QED BY <2>1, <2>2
<1> QED BY <1>2 DEF CheckInsOK

\* An admission stays current: its ticket is checked in for good.
LEMMA AdmissionsKeep ==
  ASSUME TicketInv, Effect, Shown, Admitted
  PROVE  AdmissionsOK'
<1>1. /\ scans \in [Gates -> Nat] /\ Moves /\ AdmissionsOK /\ CheckInsOK
      /\ \A g \in Gates : gates[g].pc # "idle" => gates[g].ticket \in Ids
      /\ \A a \in audit : a.operation = "CheckInTicket" =>
           a.ticket \in Ids /\ tickets[a.ticket].status = "CHECKED_IN"
  BY DEF TicketInv, GatesOK, AuditOK, IsAuditRow, Effect
<1>2. ASSUME NEW a \in admissions'
      PROVE  /\ a.gate \in Gates /\ a.scan \in Nat /\ a.ticket \in Ids'
             /\ tickets'[a.ticket].status = "CHECKED_IN"
             /\ \A row \in audit' :
                  row.operation = "CheckInTicket" /\ row.ticket = a.ticket
                    /\ row.key = <<a.gate, a.scan>> => a.qr = tickets'[a.ticket].qrVersion
  <2>1. CASE a \in admissions
    <3>1. /\ a.gate \in Gates /\ a.scan \in Nat /\ a.ticket \in Ids
          /\ tickets[a.ticket].status = "CHECKED_IN"
          /\ \A row \in audit :
               row.operation = "CheckInTicket" /\ row.ticket = a.ticket
                 /\ row.key = <<a.gate, a.scan>> => a.qr = tickets[a.ticket].qrVersion
      BY <1>1, <2>1 DEF AdmissionsOK
    <3>2. tickets'[a.ticket] = tickets[a.ticket] /\ a.ticket \in Ids'
      BY <1>1, <3>1, OnlyValidMove DEF Moves
    <3>3. ASSUME NEW row \in audit', row.operation = "CheckInTicket", row.ticket = a.ticket,
                 row.key = <<a.gate, a.scan>>
          PROVE  a.qr = tickets'[a.ticket].qrVersion
      <4>1. row \in audit
        BY <3>1, <3>3 DEF Shown
      <4> QED BY <3>1, <3>2, <3>3, <4>1
    <3> QED BY <3>1, <3>2, <3>3
  <2>2. CASE a \notin admissions
    <3>1. /\ a.gate \in Gates /\ a.scan = scans[a.gate] /\ gates[a.gate].pc # "idle"
          /\ a.ticket = gates[a.gate].ticket /\ a.qr = gates[a.gate].qr
          /\ tickets'[a.ticket].status = "CHECKED_IN"
      BY <2>2 DEF Admitted
    <3>2. a.scan \in Nat /\ a.ticket \in Ids /\ a.ticket \in Ids'
      BY <1>1, <3>1 DEF Moves
    <3>3. ASSUME NEW row \in audit', row.operation = "CheckInTicket", row.ticket = a.ticket,
                 row.key = <<a.gate, a.scan>>
          PROVE  a.qr = tickets'[a.ticket].qrVersion
      <4>1. CASE row \in audit
        <5>1. gates[a.gate].qr = tickets[row.ticket].qrVersion
          BY <1>1, <3>1, <3>2, <3>3, <4>1 DEF CheckInsOK
        <5>2. tickets'[row.ticket] = tickets[row.ticket]
          BY <1>1, <3>3, <4>1, OnlyValidMove
        <5> QED BY <3>1, <3>3, <5>1, <5>2
      <4>2. CASE row \notin audit
        <5>1. PICK h \in Gates : /\ row.key = <<h, scans[h]>>
                                 /\ gates[h].qr = tickets'[row.ticket].qrVersion
          BY <3>3, <4>2 DEF Shown
        <5>2. h = a.gate
          BY <3>3, <5>1
        <5> QED BY <3>1, <3>3, <5>1, <5>2
      <4> QED BY <4>1, <4>2
    <3> QED BY <3>1, <3>2, <3>3
  <2> QED BY <2>1, <2>2
<1> QED BY <1>2 DEF AdmissionsOK

\* So a step of a command and of the gates keeps the invariant.
LEMMA GateStepKeeps ==
  ASSUME TicketInv, Effect, GatesMove, Shown, Admitted, faults' \in Nat
  PROVE  TicketInv' /\ Moves
BY GatesKeep, CheckInsKeep, AdmissionsKeep DEF TicketInv, Effect

\* A command that is no check-in, while the gates wait.
LEMMA UnscannedKeeps ==
  ASSUME TicketInv, Effect, NoCheckIn, UNCHANGED <<gates, scans, admissions, faults>>
  PROVE  TicketInv' /\ Moves
<1>1. GatesMove /\ faults' \in Nat
  BY DEF GatesMove, TicketInv, GatesOK
<1>2. Shown /\ Admitted
  BY DEF Shown, Admitted, NoCheckIn
<1> QED BY <1>1, <1>2, GateStepKeeps

\* Nothing is stored, and perhaps the clock moves.
LEMMA NothingStoredEffect ==
  ASSUME TicketInv, TicketAssumption, UNCHANGED <<tickets, records, audit, outbox>>,
         now' \in Nat, now <= now'
  PROVE  Effect /\ NoCheckIn
BY NothingStoredKeeps, SameEffect DEF Effect

\* The gateway validates the code again, or the endpoint signs a token.
LEMMA RevalidateKeeps ==
  ASSUME TicketInv, TicketAssumption, NEW g \in Gates, Revalidate(g) \/ SignToken(g)
  PROVE  TicketInv' /\ Moves
<1>1. /\ UNCHANGED <<tickets, records, audit, outbox, now, scans, admissions, faults>>
      /\ gates \in [Gates -> Gate] /\ now \in Nat /\ faults \in Nat /\ gates[g].pc # "idle"
  BY DEF Revalidate, SignToken, Unissued, TicketInv, GatesOK
<1>2. Effect /\ NoCheckIn
  BY <1>1, NothingStoredEffect
<1>3. PICK y \in Gate : /\ gates' = [gates EXCEPT ![g] = y]
                        /\ \/ y.pc = "idle"
                           \/ /\ y.ticket = gates[g].ticket /\ y.qr = gates[g].qr
                              /\ y.ifMatch = gates[g].ifMatch
  <2>1. CASE Revalidate(g)
    <3>1. gates' = [gates EXCEPT ![g] = [gates[g] EXCEPT !.pc = "send"]]
            \/ gates' = [gates EXCEPT ![g] = Idle]
      BY <2>1 DEF Revalidate
    <3>2. Idle \in Gate /\ Idle.pc = "idle"
      BY DEF Idle, Gate
    <3>3. [gates[g] EXCEPT !.pc = "send"] \in Gate
      BY <1>1, ZenonT(60) DEF Gate
    <3> QED BY <1>1, <3>1, <3>2, <3>3 DEF Gate
  <2>2. CASE SignToken(g)
    <3> DEFINE y == [gates[g] EXCEPT !.pc = "signed", !.token = tickets[gates[g].ticket].qrVersion]
    <3>1. gates' = [gates EXCEPT ![g] = y]
      BY <1>1, <2>2 DEF SignToken
    <3>2. tickets[gates[g].ticket].qrVersion \in Nat
      <4>1. gates[g].ticket \in Ids
        BY <1>1 DEF TicketInv, GatesOK
      <4>2. tickets[gates[g].ticket] \in Ticket
        BY <4>1, TicketAt DEF TicketInv
      <4> QED BY <4>2 DEF Ticket
    <3>3. y \in Gate
      BY <1>1, <3>2 DEF Gate
    <3> QED BY <1>1, <3>1, <3>3 DEF Gate
  <2> QED BY <2>1, <2>2
<1>4. GatesMove
  BY <1>1, <1>3 DEF GatesMove
<1>5. Shown /\ Admitted
  BY <1>1, <1>2 DEF Shown, Admitted, NoCheckIn
<1> QED BY <1>1, <1>2, <1>4, <1>5, GateStepKeeps


\* The gate hears the answer, or it is lost.
LEMMA ToldMoves ==
  ASSUME TicketInv, NEW g \in Gates, gates[g].pc # "idle", NEW admitted \in BOOLEAN,
         Told(g, admitted),
         admitted => tickets'[gates[g].ticket].status = "CHECKED_IN"
  PROVE  GatesMove /\ Admitted /\ faults' \in Nat
<1>1. gates \in [Gates -> Gate] /\ faults \in Nat
  BY DEF TicketInv, GatesOK
<1>2. scans' = scans /\ faults' \in Nat
  BY <1>1 DEF Told
<1>3. gates' = [gates EXCEPT ![g].pc = "send"] \/ gates' = [gates EXCEPT ![g] = Idle]
  BY DEF Told
<1>4. Idle \in Gate /\ Idle.pc = "idle"
  BY DEF Idle, Gate
<1>5. [gates[g] EXCEPT !.pc = "send"] \in Gate
  BY <1>1, ZenonT(60) DEF Gate
<1>6. PICK y \in Gate : /\ gates' = [gates EXCEPT ![g] = y]
                        /\ \/ y.pc = "idle"
                           \/ /\ y.ticket = gates[g].ticket /\ y.qr = gates[g].qr
                              /\ y.ifMatch = gates[g].ifMatch
  BY <1>1, <1>3, <1>4, <1>5 DEF Gate
<1>7. GatesMove
  BY <1>1, <1>2, <1>6 DEF GatesMove
<1>8. ASSUME NEW a \in admissions', a \notin admissions
      PROVE  /\ a.gate \in Gates /\ a.scan = scans[a.gate] /\ gates[a.gate].pc # "idle"
             /\ a.ticket = gates[a.gate].ticket /\ a.qr = gates[a.gate].qr
             /\ tickets'[a.ticket].status = "CHECKED_IN"
  <2>1. admitted /\ a = [gate |-> g, scan |-> scans[g], ticket |-> gates[g].ticket,
                         qr |-> gates[g].qr]
    BY <1>8 DEF Told
  <2> QED BY <2>1
<1> QED BY <1>2, <1>7, <1>8 DEF Admitted

\* CheckInTicket: the version the gate saw is the ticket's, so its code is the newest.
LEMMA CheckInTicketKeeps ==
  ASSUME TicketInv, TicketAssumption, NEW g \in Gates, CheckInTicket(g)
  PROVE  TicketInv' /\ Moves
<1> DEFINE x == gates[g]
           t == tickets[x.ticket]
           key == ScanKey(g)
           request == [ticket |-> x.ticket, token |-> x.token, expectedVersion |-> x.ifMatch]
           here == t.status = "CHECKED_IN" /\ t.checkedInBy = Caller
           change == Change(x.ticket, CheckedIn(t, Caller), "CheckInTicket", "TicketCheckedIn",
                            key, request)
<1>1. x.pc # "idle" /\ now' = now /\ now \in Nat
  BY DEF CheckInTicket, TicketInv, GatesOK
<1>2. /\ x.ticket \in Ids
      /\ t.version = x.ifMatch => t.qrVersion = x.qr
  BY <1>1 DEF TicketInv, GatesOK
<1>3. t \in Ticket /\ StateConsistent(t) /\ t.qrVersion <= t.version
  BY <1>2, TicketAt DEF TicketInv, TicketsOK
<1>4. CASE /\ Replays("CheckInTicket", key, request)
           /\ UNCHANGED <<tickets, records, audit, outbox>> /\ Told(g, TRUE)
  <2>1. PICK r \in records : r.scope = "CheckInTicket" /\ r.request = request
    BY <1>4 DEF Replays, Stored
  <2>2. t.status = "CHECKED_IN"
    BY <2>1 DEF TicketInv, RecordsOK
  <2>3. Effect /\ NoCheckIn
    BY <1>1, <1>4, NothingStoredEffect
  <2>4. GatesMove /\ Admitted /\ faults' \in Nat
    BY <1>1, <1>4, <2>2, ToldMoves
  <2> QED BY <2>3, <2>4, GateStepKeeps DEF Shown, NoCheckIn
<1>5. CASE here /\ Keep("CheckInTicket", key, request, {x.ticket}) /\ Told(g, TRUE)
  <2>1. TicketsOK' /\ RecordsOK' /\ AuditOK' /\ \A j \in Ids' : HistoryOK(j)'
    BY <1>1, <1>2, <1>5, KeepKeeps DEF Scopes
  <2>2. Moves /\ NoCheckIn /\ tickets' = tickets
    BY <1>5, SameEffect DEF Keep
  <2>3. Effect
    BY <1>1, <2>1, <2>2 DEF Effect
  <2>4. GatesMove /\ Admitted /\ faults' \in Nat
    BY <1>1, <1>5, <2>2, ToldMoves
  <2> QED BY <2>2, <2>3, <2>4, GateStepKeeps DEF Shown, NoCheckIn
<1>6. CASE MayChange(t, x.ifMatch, "CHECKED_IN") /\ change /\ Told(g, TRUE)
  <2>1. t.status = "VALID" /\ t.version = x.ifMatch /\ t.version + 1 <= MaxVersion
    BY <1>3, <1>6, MayChangeMeans
  <2>2. Follows(t, CheckedIn(t, Caller), "CheckInTicket")
    BY <1>3, <2>1, CommandsFollow
  <2>3. Changes(x.ticket, CheckedIn(t, Caller), "CheckInTicket", "TicketCheckedIn", key, request)
    BY <1>1, <1>2, <1>6, <2>1, <2>2 DEF Changes
  <2> DEFINE new == AuditRow(x.ticket, CheckedIn(t, Caller), "CheckInTicket", t.status, key,
                             request)
  <2>4. Effect /\ audit' = audit \cup {new} /\ tickets'[x.ticket] = CheckedIn(t, Caller)
    BY <2>3, ChangeEffect
  <2>5. /\ tickets'[x.ticket].status = "CHECKED_IN"
        /\ tickets'[x.ticket].qrVersion = t.qrVersion
    BY <2>2, <2>4 DEF Follows
  <2>6. new.ticket = x.ticket /\ new.key = <<g, scans[g]>>
    BY DEF AuditRow, ScanKey
  <2> HIDE DEF new
  <2>7. Shown
    BY <1>1, <1>2, <2>1, <2>4, <2>5, <2>6 DEF Shown
  <2>8. GatesMove /\ Admitted /\ faults' \in Nat
    BY <1>1, <1>6, <2>5, ToldMoves
  <2> QED BY <2>4, <2>7, <2>8, GateStepKeeps
<1>7. CASE UNCHANGED <<tickets, records, audit, outbox>> /\ Told(g, FALSE)
  <2>1. Effect /\ NoCheckIn
    BY <1>1, <1>7, NothingStoredEffect
  <2>2. GatesMove /\ Admitted /\ faults' \in Nat
    BY <1>1, <1>7, ToldMoves
  <2> QED BY <2>1, <2>2, GateStepKeeps DEF Shown, NoCheckIn
<1> QED BY <1>4, <1>5, <1>6, <1>7 DEF CheckInTicket

\* A scan is newer than every check-in of its gate.
LEMMA ScanKeeps ==
  ASSUME TicketInv, TicketAssumption, NEW g \in Gates, NEW id \in Ids, NEW q \in 1 .. MaxVersion,
         Scan(g, id, q)
  PROVE  TicketInv' /\ Moves
<1>1. /\ UNCHANGED <<tickets, records, audit, outbox, now, admissions, faults>>
      /\ gates \in [Gates -> Gate] /\ scans \in [Gates -> Nat] /\ now \in Nat /\ faults \in Nat
      /\ scans' = [scans EXCEPT ![g] = @ + 1]
  BY DEF Scan, Unissued, TicketInv, GatesOK
<1>2. Effect /\ NoCheckIn
  BY <1>1, NothingStoredEffect
<1> DEFINE y == [pc |-> "scanned", ticket |-> id, qr |-> q, ifMatch |-> tickets[id].version,
                 token |-> None]
<1>3. gates' = [gates EXCEPT ![g] = y] /\ q = tickets[id].qrVersion
  BY DEF Scan
<1>4. tickets[id] \in Ticket /\ id \in Nat
  BY TicketAt DEF TicketInv
<1>5. tickets[id].version \in Nat /\ q \in Nat
  BY <1>4 DEF Ticket
<1>6. y \in Gate /\ y.ticket = id /\ y.qr = q /\ y.ifMatch = tickets[id].version
  BY <1>4, <1>5 DEF Gate
<1> HIDE DEF y
<1>7. gates'[g] = y /\ \A h \in Gates : h # g => gates'[h] = gates[h]
  BY <1>1, <1>3
<1>8. Ids' = Ids /\ tickets' = tickets
  BY <1>1 DEF Ids
<1>9. ASSUME NEW h \in Gates, gates'[h].pc # "idle"
      PROVE  LET x == gates'[h] IN
               /\ x.ticket \in Ids' /\ x.ifMatch \in Nat
               /\ x.ifMatch <= tickets'[x.ticket].version
               /\ tickets'[x.ticket].version = x.ifMatch => tickets'[x.ticket].qrVersion = x.qr
  <2>1. CASE h = g
    BY <1>3, <1>5, <1>6, <1>7, <1>8, <2>1
  <2>2. CASE h # g
    BY <1>7, <1>8, <1>9, <2>2 DEF TicketInv, GatesOK
  <2> QED BY <2>1, <2>2
<1>10. GatesOK'
  <2>1. gates' \in [Gates -> Gate]
    BY <1>1, <1>3, <1>6
  <2>2. scans' \in [Gates -> Nat]
    BY <1>1
  <2> QED BY <1>1, <1>9, <2>1, <2>2 DEF GatesOK
<1>11. CheckInsOK'
  <2> SUFFICES ASSUME NEW row \in audit', NEW h \in Gates, NEW n \in Nat,
                      row.operation = "CheckInTicket", row.key = <<h, n>>
               PROVE  /\ n <= scans'[h]
                      /\ n = scans'[h] /\ gates'[h].pc # "idle" /\ gates'[h].ticket = row.ticket =>
                           gates'[h].qr = tickets'[row.ticket].qrVersion
    BY DEF CheckInsOK
  <2>1. /\ n <= scans[h]
        /\ n = scans[h] /\ gates[h].pc # "idle" /\ gates[h].ticket = row.ticket =>
             gates[h].qr = tickets[row.ticket].qrVersion
    BY <1>1 DEF TicketInv, CheckInsOK
  <2>2. CASE h = g
    BY <1>1, <2>1, <2>2
  <2>3. CASE h # g
    BY <1>1, <1>7, <2>1, <2>3
  <2> QED BY <2>2, <2>3
<1>12. AdmissionsOK'
  BY <1>1, <1>8 DEF AdmissionsOK, TicketInv
<1> QED BY <1>2, <1>10, <1>11, <1>12 DEF TicketInv, Effect

-----------------------------------------------------------------------------
(* The theorems.                                                            *)

\* Nothing has been issued.
LEMMA InitHolds ==
  ASSUME TicketAssumption, Init
  PROVE  TicketInv
<1>1. /\ tickets = <<>> /\ records = {} /\ audit = {} /\ outbox = {} /\ admissions = {}
      /\ gates = [g \in Gates |-> Idle] /\ scans = [g \in Gates |-> 0] /\ faults = 0 /\ now = 0
      /\ Ids = {} /\ MaxTickets \in Nat
  BY DEF Init, Ids, TicketAssumption, TicketBounds
<1>2. Idle \in Gate /\ Idle.pc = "idle"
  BY DEF Idle, Gate
<1>3. TicketsOK /\ \A id \in Ids : HistoryOK(id)
  BY <1>1 DEF TicketsOK, OneTicketPerSeat
<1>4. RecordsOK /\ AuditOK /\ CheckInsOK /\ AdmissionsOK
  BY <1>1 DEF RecordsOK, AuditOK, CheckInsOK, AdmissionsOK
<1>5. GatesOK
  BY <1>1, <1>2 DEF GatesOK
<1> QED BY <1>3, <1>4, <1>5 DEF TicketInv

\* Every step keeps the invariant, and only valid tickets change.
LEMMA NextKeeps ==
  ASSUME TicketInv, TicketAssumption, [Next]_vars
  PROVE  TicketInv' /\ Moves
<1>1. CASE \E k \in Keys, r \in IssueRequests : IssueTickets(k, r)
  <2>1. Effect /\ NoCheckIn
    BY <1>1, IssueTicketsEffect
  <2>2. UNCHANGED <<gates, scans, admissions, faults>>
    BY <1>1 DEF IssueTickets, Unscanned
  <2> QED BY <2>1, <2>2, UnscannedKeeps
<1>2. CASE \E k \in Keys, id \in Ids, v \in 1 .. MaxVersion :
             CancelTicket(k, id, v) \/ RegenerateQr(k, id, v)
  <2>1. Effect /\ NoCheckIn
    BY <1>2, CancelTicketEffect, RegenerateQrEffect
  <2>2. UNCHANGED <<gates, scans, admissions, faults>>
    BY <1>2 DEF CancelTicket, RegenerateQr, Unscanned
  <2> QED BY <2>1, <2>2, UnscannedKeeps
<1>3. CASE \E g \in Gates, id \in Ids, q \in 1 .. MaxVersion : Scan(g, id, q)
  BY <1>3, ScanKeeps
<1>4. CASE \E g \in Gates : Revalidate(g) \/ SignToken(g)
  BY <1>4, RevalidateKeeps
<1>5. CASE \E g \in Gates : CheckInTicket(g)
  BY <1>5, CheckInTicketKeeps
<1>6. CASE Tick \/ UNCHANGED vars
  <2>1. /\ UNCHANGED <<tickets, records, audit, outbox, gates, scans, admissions, faults>>
        /\ now' \in Nat /\ now <= now'
    BY <1>6 DEF Tick, vars, TicketInv, GatesOK
  <2>2. Effect /\ NoCheckIn
    BY <2>1, NothingStoredEffect
  <2> QED BY <2>1, <2>2, UnscannedKeeps
<1> QED BY <1>1, <1>2, <1>3, <1>4, <1>5, <1>6 DEF Next


\* What the invariant says of the tickets of a request and of the requests.
LEMMA TicketInvSaysUnique ==
  ASSUME TicketInv
  PROVE  OneTicketPerSeat /\ IssuedTogether /\ EffectOncePerRequest
<1>1. OneTicketPerSeat /\ AuditOK
  BY DEF TicketInv, TicketsOK
<1>2. IssuedTogether
  BY <1>1 DEF IssuedTogether, AuditOK
<1>3. ASSUME NEW a \in audit, NEW b \in audit,
             a.operation = b.operation, a.request = b.request,
             tickets[a.ticket].seat = tickets[b.ticket].seat
      PROVE  a = b
  <2>1. a.ticket \in Ids /\ b.ticket \in Ids
    BY <1>1 DEF AuditOK, IsAuditRow
  <2>2. a.ticket = b.ticket /\ a.version = b.version
    <3>1. CASE a.operation = "IssueTickets"
      <4>1. /\ a.version = 1 /\ b.version = 1
            /\ tickets[a.ticket].booking = tickets[b.ticket].booking
        <5>1. \A c \in {a, b} :
                c.version = 1 /\ tickets[c.ticket].booking = c.request.booking
          BY <1>1, <1>3, <3>1 DEF AuditOK
        <5> QED BY <1>3, <5>1
      <4> QED BY <1>1, <1>3, <2>1, <4>1 DEF OneTicketPerSeat
    <3>2. CASE a.operation # "IssueTickets"
      BY <1>1, <1>3, <3>2 DEF AuditOK
    <3> QED BY <3>1, <3>2
  <2> QED BY <1>1, <2>2 DEF AuditOK
<1> QED BY <1>1, <1>2, <1>3 DEF EffectOncePerRequest

\* What it says of the audit rows and the events of a ticket.
LEMMA TicketInvSaysHistory ==
  ASSUME TicketInv
  PROVE  AuditIsTheHistory
<1> SUFFICES ASSUME NEW id \in Ids
             PROVE  LET at(v) == CHOOSE a \in Mine(id) : a.version = v
                        t == tickets[id]
                    IN  /\ {a.version : a \in Mine(id)} = 1 .. t.version
                        /\ Cardinality(Mine(id)) = t.version
                        /\ at(1).previous = None /\ at(t.version).status = t.status
                        /\ \A v \in 2 .. t.version : at(v).previous = at(v - 1).status
                        /\ t.qrVersion = 1 + Cardinality(Regenerated(id))
                        /\ {<<o.version, o.status>> : o \in EventsOf(id)}
                             = {<<a.version, a.status>> : a \in Mine(id)}
  BY DEF AuditIsTheHistory, Mine, Regenerated, EventsOf
<1> DEFINE at(v) == CHOOSE a \in Mine(id) : a.version = v
           t == tickets[id]
<1>1. HistoryOK(id) /\ t \in Ticket
  BY TicketAt DEF TicketInv
<1>2. t.version \in Nat /\ t.version >= 1
  BY <1>1 DEF Ticket
<1>3. \A a \in Mine(id) : a.version \in 1 .. t.version
  BY <1>2 DEF TicketInv, AuditOK, Mine, IsAuditRow
<1>4. {a.version : a \in Mine(id)} = 1 .. t.version
  BY <1>1, <1>3 DEF HistoryOK
<1>5. \A v \in 1 .. t.version : at(v) \in Mine(id) /\ at(v).version = v
  BY <1>1 DEF HistoryOK
<1> HIDE DEF at, t
<1>6. at(1).previous = None /\ at(t.version).status = t.status
  BY <1>1, <1>2, <1>5 DEF HistoryOK, t
<1>7. ASSUME NEW v \in 2 .. t.version PROVE at(v).previous = at(v - 1).status
  <2>1. v \in 1 .. t.version /\ v - 1 \in 1 .. t.version /\ v = (v - 1) + 1
    BY <1>2
  <2>2. /\ at(v) \in Mine(id) /\ at(v).version = v
        /\ at(v - 1) \in Mine(id) /\ at(v - 1).version = v - 1
    BY <1>5, <2>1
  <2> QED BY <1>1, <2>1, <2>2 DEF HistoryOK
<1> QED BY <1>1, <1>4, <1>6, <1>7 DEF HistoryOK, at, t

\* What it says of the types and of the check-ins.
LEMMA TicketInvSaysTypes ==
  ASSUME TicketInv
  PROVE  TypeOK /\ CheckInIsCurrent
<1>1. \A g \in Gates : gates[g].pc \in {"idle", "scanned", "send", "signed"}
  BY DEF TicketInv, GatesOK, Gate
<1>2. /\ \A a \in audit : IsAuditRow(a)
      /\ \A r \in records : IsIdempotencyRecord(r)
      /\ \A o \in outbox : IsOutboxEvent(o)
  BY DEF TicketInv, AuditOK, RecordsOK
<1>3. TypeOK
  BY <1>1, <1>2 DEF TypeOK, TicketInv, TicketsOK
<1>4. ASSUME NEW a \in admissions
      PROVE  /\ tickets[a.ticket].status = "CHECKED_IN"
             /\ \A row \in CheckInsOf(a.ticket) :
                  row.key = <<a.gate, a.scan>> => a.qr = tickets[a.ticket].qrVersion
             /\ \E row \in CheckInsOf(a.ticket) : TRUE
  <2>1. /\ a.ticket \in Ids /\ tickets[a.ticket].status = "CHECKED_IN"
        /\ tickets[a.ticket] \in Ticket
    BY TicketAt DEF TicketInv, AdmissionsOK
  <2>2. \A row \in CheckInsOf(a.ticket) :
          row.key = <<a.gate, a.scan>> => a.qr = tickets[a.ticket].qrVersion
    BY DEF CheckInsOf, TicketInv, AdmissionsOK
  <2>3. tickets[a.ticket].version \in 1 .. tickets[a.ticket].version
    BY <2>1 DEF Ticket
  <2>4. PICK row \in Mine(a.ticket) : row.version = tickets[a.ticket].version
    BY <2>1, <2>3 DEF TicketInv, HistoryOK
  <2>5. row.status = "CHECKED_IN"
    BY <2>1, <2>4 DEF TicketInv, HistoryOK
  <2>6. row \in CheckInsOf(a.ticket)
    BY <2>4, <2>5 DEF Mine, CheckInsOf, TicketInv, AuditOK
  <2> QED BY <2>1, <2>2, <2>6
<1>5. CheckInIsCurrent
  BY <1>4 DEF CheckInIsCurrent
<1> QED BY <1>3, <1>5

\* The rows of Ticket Service stay well typed, and no command stores one that
\* ck_ticket_state_consistency would refuse.
THEOREM TypeCorrect == ASSUME TicketAssumption PROVE Spec => []TypeOK
<1>1. Init => TicketInv
  BY InitHolds
<1>2. TicketInv /\ [Next]_vars => TicketInv'
  BY NextKeeps
<1>3. TicketInv => TypeOK
  BY TicketInvSaysTypes
<1> QED BY <1>1, <1>2, <1>3, PTL DEF Spec

\* No seat has two tickets that are not cancelled and no booking two tickets for a seat, a
\* booking has exactly the tickets its request asked for, and no request takes effect twice,
\* although keys expire and requests come again.
THEOREM TicketsStayUnique ==
  ASSUME TicketAssumption
  PROVE  Spec => [](OneTicketPerSeat /\ IssuedTogether /\ EffectOncePerRequest)
<1>1. Init => TicketInv
  BY InitHolds
<1>2. TicketInv /\ [Next]_vars => TicketInv'
  BY NextKeeps
<1>3. TicketInv => OneTicketPerSeat /\ IssuedTogether /\ EffectOncePerRequest
  BY TicketInvSaysUnique
<1> QED BY <1>1, <1>2, <1>3, PTL DEF Spec

\* The audit rows and the events of a ticket are its history, version by version, and its QR
\* version counts the regenerations.
THEOREM HistoryIsComplete == ASSUME TicketAssumption PROVE Spec => []AuditIsTheHistory
<1>1. Init => TicketInv
  BY InitHolds
<1>2. TicketInv /\ [Next]_vars => TicketInv'
  BY NextKeeps
<1>3. TicketInv => AuditIsTheHistory
  BY TicketInvSaysHistory
<1> QED BY <1>1, <1>2, <1>3, PTL DEF Spec

\* Whoever a gate lets in holds a ticket that is checked in, not cancelled, and it was
\* checked in with its newest QR code, although CheckInTicket never sees that code; who
\* shows a replaced one comes after the scan that checked the ticket in.
THEOREM CheckInsStayCurrent == ASSUME TicketAssumption PROVE Spec => []CheckInIsCurrent
<1>1. Init => TicketInv
  BY InitHolds
<1>2. TicketInv /\ [Next]_vars => TicketInv'
  BY NextKeeps
<1>3. TicketInv => CheckInIsCurrent
  BY TicketInvSaysTypes
<1> QED BY <1>1, <1>2, <1>3, PTL DEF Spec

\* A ticket that was used or cancelled never changes again, and a change of another is its
\* next version: ensure_transition_allowed only lets a valid ticket go.
THEOREM UsedTicketsAreFinal == ASSUME TicketAssumption PROVE Spec => [][Moves]_tickets
<1>1. Init => TicketInv
  BY InitHolds
<1>2. TicketInv /\ [Next]_vars => TicketInv' /\ [Moves]_tickets
  BY NextKeeps
<1> QED BY <1>1, <1>2, PTL DEF Spec

=============================================================================
