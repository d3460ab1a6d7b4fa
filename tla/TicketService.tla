--------------------------- MODULE TicketService ---------------------------
(***************************************************************************)
(* Ticket Service and the check-in desk of the gateway that uses it.       *)
(*                                                                         *)
(* A command is one transaction: it takes the advisory lock of its scope   *)
(* and key, IssueTickets also those of the booking and of each seat, the   *)
(* other commands the ticket's row, and everything it reads it reads under *)
(* those locks.  A command that is refused writes nothing.  A check-in is  *)
(* four steps: the desk scans the QR code, the gateway validates it again  *)
(* and compares the version, the endpoint reads the ticket to sign a token *)
(* of its own, and the command runs; the other commands interleave.        *)
(***************************************************************************)
EXTENDS Integers, Sequences, FiniteSets

CONSTANTS
  Bookings, Seats, Gates, Keys,
  IssueRequests,  \* the requests [booking, seats] the saga makes
  None,
  TTL,            \* idempotency_ttl_seconds
  MaxTickets,     \* bound on tickets issued
  MaxVersion,     \* bound on resource_version
  MaxScans,       \* bound on scans per gate
  MaxFaults,      \* bound on answers lost
  MaxNow          \* bound on the clock

TicketBounds ==
  /\ {TTL, MaxTickets, MaxVersion, MaxScans, MaxFaults, MaxNow} \subseteq Nat
  /\ TTL > 0 /\ MaxVersion > 0
  /\ IssueRequests \subseteq [booking : Bookings, seats : (SUBSET Seats) \ {{}}]

VARIABLES
  tickets,     \* the rows, by the number in their id
  records,     \* idempotency_records
  audit,       \* ticket_audit
  outbox,      \* outbox_events
  gates,       \* what each gate is doing
  scans,       \* how often each gate scanned
  admissions,  \* the check-ins gates were told of
  faults, now

vars == <<tickets, records, audit, outbox, gates, scans, admissions, faults, now>>

Statuses == {"VALID", "CHECKED_IN", "CANCELLED"}
AllowedTransitions ==
  [VALID |-> {"VALID", "CHECKED_IN", "CANCELLED"}, CHECKED_IN |-> {}, CANCELLED |-> {}]

\* Every gate reaches the service through the gateway, whose service token is the
\* only identity the service sees.
Caller == "booking-orchestrator"
CancelReason == "Booking workflow cancelled"

\* What the constants may be: the bounds hold, a request names finitely many seats, and
\* None is neither a caller nor a reason.
TicketAssumption ==
  /\ TicketBounds /\ IsFiniteSet(Seats)
  /\ None \notin {Caller, CancelReason}

Ticket ==
  [booking : Bookings, seat : Seats, status : Statuses, qrVersion : 1 .. MaxVersion,
   version : 1 .. MaxVersion, checkedInBy : {None, Caller}, reason : {None, CancelReason}]

Ids == 1 .. Len(tickets)

IssuedTicket(b, s) ==
  [booking |-> b, seat |-> s, status |-> "VALID", qrVersion |-> 1, version |-> 1,
   checkedInBy |-> None, reason |-> None]

Advanced(t) == [t EXCEPT !.version = @ + 1]
CheckedIn(t, actor) == Advanced([t EXCEPT !.status = "CHECKED_IN", !.checkedInBy = actor])
\* Mutation: the reason is not kept.
CancelledSilently(t) == Advanced([t EXCEPT !.status = "CANCELLED"])

CancelledTicket(t) == Advanced([t EXCEPT !.status = "CANCELLED", !.reason = CancelReason])
WithNewQr(t) == Advanced([t EXCEPT !.qrVersion = @ + 1])

\* Mutation: the version the caller saw is not compared.
MayChangeBlindly(t, expected, target) ==
  target \in AllowedTransitions[t.status] /\ expected > 0 /\ t.version < MaxVersion

\* check_version and ensure_transition_allowed (and the bound).
MayChange(t, expected, target) ==
  /\ t.version = expected /\ target \in AllowedTransitions[t.status]
  /\ t.version < MaxVersion

\* ck_ticket_state_consistency
StateConsistent(t) ==
  /\ (t.checkedInBy # None) <=> (t.status = "CHECKED_IN")
  /\ (t.reason # None) <=> (t.status = "CANCELLED")

Scopes == {"IssueTickets", "CheckInTicket", "CancelTicket", "RegenerateTicketQr"}

IsIdempotencyRecord(r) ==
  r.scope \in Scopes /\ r.tickets \subseteq Ids /\ r.expires \in 1 .. now + TTL

IsAuditRow(a) ==
  /\ a.ticket \in Ids /\ a.operation \in Scopes /\ a.version \in 1 .. MaxVersion
  /\ a.previous \in Statuses \cup {None} /\ a.status \in Statuses

IsOutboxEvent(o) ==
  /\ o.ticket \in Ids /\ o.version \in 1 .. MaxVersion /\ o.status \in Statuses
  /\ o.type \in {"TicketIssued", "TicketCheckedIn", "TicketCancelled", "TicketQrRegenerated"}

-----------------------------------------------------------------------------
(* Idempotency, audit and events. *)

Stored(scope, key) == {r \in records : r.scope = scope /\ r.key = key /\ r.expires > now}
Unused(scope, key) == Stored(scope, key) = {}
Replays(scope, key, request) == \E r \in Stored(scope, key) : r.request = request

\* save_replay: the snapshot is only used for its ticket ids.
SaveReplay(scope, key, request, ids) ==
  records' = {r \in records : r.scope # scope \/ r.key # key}
               \cup {[scope |-> scope, key |-> key, request |-> request, tickets |-> ids,
                      expires |-> now + TTL]}

AuditRow(id, t, scope, previous, key, request) ==
  [ticket |-> id, operation |-> scope, previous |-> previous, status |-> t.status,
   version |-> t.version, key |-> key, request |-> request]

OutboxRow(id, t, type) == [ticket |-> id, version |-> t.version, type |-> type, status |-> t.status]

\* A command that changes one ticket: row, audit, event and replay in one transaction.
Change(id, t, scope, type, key, request) ==
  /\ tickets' = [tickets EXCEPT ![id] = t]
  /\ audit' = audit \cup {AuditRow(id, t, scope, tickets[id].status, key, request)}
  /\ outbox' = outbox \cup {OutboxRow(id, t, type)}
  /\ SaveReplay(scope, key, request, {id})

\* A command that finds its result already there stores only the replay.
Keep(scope, key, request, ids) ==
  SaveReplay(scope, key, request, ids) /\ UNCHANGED <<tickets, audit, outbox>>

Unscanned == UNCHANGED <<gates, scans, admissions, faults, now>>

-----------------------------------------------------------------------------
(* IssueTickets. *)

TicketsOfBooking(b) == {id \in Ids : tickets[id].booking = b}

\* Mutation: only tickets that were used count.
UncheckedSeat(s) == {id \in Ids : tickets[id].seat = s /\ tickets[id].status = "CHECKED_IN"}

ActiveTicketsOfSeat(s) == {id \in Ids : tickets[id].seat = s /\ tickets[id].status # "CANCELLED"}

\* existing_issue_definition, compared with the request.
SameDefinition(ids, request) == {tickets[id].seat : id \in ids} = request.seats

\* Mutation: the last seat is left out.
AllButLast(seats) ==
  CHOOSE q \in UNION {[1 .. n -> seats] : n \in {Cardinality(seats) - 1}} :
    Cardinality({q[i] : i \in DOMAIN q}) = Cardinality(seats) - 1

SeatOrder(seats) ==
  CHOOSE q \in [1 .. Cardinality(seats) -> seats] : {q[i] : i \in DOMAIN q} = seats

IssueTickets(key, request) ==
  LET existing == TicketsOfBooking(request.booking)
      order == SeatOrder(request.seats)
      issued == [i \in DOMAIN order |-> IssuedTicket(request.booking, order[i])]
      id(i) == Len(tickets) + i
  IN  /\ Unused("IssueTickets", key)
      /\ Unscanned
      /\ \/ /\ existing # {}
            /\ SameDefinition(existing, request)
            /\ Keep("IssueTickets", key, request, existing)
         \/ /\ existing = {}
            /\ \A s \in request.seats : ActiveTicketsOfSeat(s) = {}
            /\ Len(tickets) + Len(order) <= MaxTickets
            /\ tickets' = tickets \o issued
            /\ audit' = audit \cup {AuditRow(id(i), issued[i], "IssueTickets", None, key, request) :
                                      i \in DOMAIN order}
            /\ outbox' = outbox \cup {OutboxRow(id(i), issued[i], "TicketIssued") : i \in DOMAIN order}
            /\ SaveReplay("IssueTickets", key, request, {id(i) : i \in DOMAIN order})

-----------------------------------------------------------------------------
(* CancelTicket and RegenerateTicketQr. *)

CancelTicket(key, id, expected) ==
  LET request == [ticket |-> id, expectedVersion |-> expected]
      t == tickets[id]
  IN  /\ Unused("CancelTicket", key)
      /\ Unscanned
      /\ \/ t.status = "CANCELLED" /\ Keep("CancelTicket", key, request, {id})
         \/ /\ t.status # "CANCELLED"
            /\ MayChange(t, expected, "CANCELLED")
            /\ Change(id, CancelledTicket(t), "CancelTicket", "TicketCancelled", key, request)

\* Mutation: a new QR code keeps the version of the ticket.
RegenerateInPlace(key, id, expected) ==
  LET request == [ticket |-> id, expectedVersion |-> expected]
      t == tickets[id]
  IN  /\ Unused("RegenerateTicketQr", key) /\ Unscanned
      /\ MayChange(t, expected, "VALID")
      /\ Change(id, [t EXCEPT !.qrVersion = @ + 1], "RegenerateTicketQr", "TicketQrRegenerated", key, request)

RegenerateQr(key, id, expected) ==
  LET request == [ticket |-> id, expectedVersion |-> expected]
      t == tickets[id]
  IN  /\ Unused("RegenerateTicketQr", key)
      /\ Unscanned
      /\ MayChange(t, expected, "VALID")
      /\ Change(id, WithNewQr(t), "RegenerateTicketQr", "TicketQrRegenerated", key, request)

-----------------------------------------------------------------------------
(* Check-in. *)

Idle == [pc |-> "idle", ticket |-> None, qr |-> None, ifMatch |-> None, token |-> None]
ScanKey(g) == <<g, scans[g]>>
Unissued == UNCHANGED <<tickets, records, audit, outbox, now>>

\* POST /tickets/validate: a QR code is valid while it is the ticket's newest one,
\* whatever the ticket's status; the desk keeps the version it saw.
Scan(g, id, qr) ==
  /\ gates[g].pc = "idle" /\ scans[g] < MaxScans
  /\ scans' = [scans EXCEPT ![g] = @ + 1]
  /\ qr = tickets[id].qrVersion
  /\ gates' = [gates EXCEPT ![g] = [pc |-> "scanned", ticket |-> id, qr |-> qr,
                                    ifMatch |-> tickets[id].version, token |-> None]]
  /\ Unissued /\ UNCHANGED <<admissions, faults>>

\* The gateway validates the code again and compares the version it shows.
Revalidate(g) ==
  LET x == gates[g]
      same == tickets[x.ticket].qrVersion = x.qr /\ tickets[x.ticket].version = x.ifMatch
  IN  /\ x.pc = "scanned"
      /\ gates' = [gates EXCEPT ![g] = IF same THEN [x EXCEPT !.pc = "send"] ELSE Idle]
      /\ Unissued /\ UNCHANGED <<scans, admissions, faults>>

\* The endpoint reads the ticket and signs a token for it: not the code that was scanned.
SignToken(g) ==
  /\ gates[g].pc = "send"
  /\ gates' = [gates EXCEPT ![g].pc = "signed", ![g].token = tickets[gates[g].ticket].qrVersion]
  /\ Unissued /\ UNCHANGED <<scans, admissions, faults>>

\* The gate hears the answer, or it is lost: the call is made again under its key, or given up.
Told(g, admitted) ==
  LET x == gates[g]
  IN  \/ /\ gates' = [gates EXCEPT ![g] = Idle] /\ UNCHANGED <<scans, faults>>
         /\ admissions' = IF admitted
                            THEN admissions \cup {[gate |-> g, scan |-> scans[g],
                                                   ticket |-> x.ticket, qr |-> x.qr]}
                            ELSE admissions
      \/ /\ faults < MaxFaults /\ faults' = faults + 1
         /\ gates' \in {[gates EXCEPT ![g].pc = "send"], [gates EXCEPT ![g] = Idle]}
         /\ UNCHANGED <<scans, admissions>>

CheckInTicket(g) ==
  LET x == gates[g]
      t == tickets[x.ticket]
      key == ScanKey(g)
      request == [ticket |-> x.ticket, token |-> x.token, expectedVersion |-> x.ifMatch]
      here == t.status = "CHECKED_IN" /\ t.checkedInBy = Caller
      may == MayChange(t, x.ifMatch, "CHECKED_IN")
      change == Change(x.ticket, CheckedIn(t, Caller), "CheckInTicket", "TicketCheckedIn", key, request)
  IN  /\ x.pc = "signed"
      /\ \/ /\ Replays("CheckInTicket", key, request)
            /\ UNCHANGED <<tickets, records, audit, outbox>> /\ Told(g, TRUE)
         \/ /\ Unused("CheckInTicket", key) /\ x.token = t.qrVersion /\ here
            /\ Keep("CheckInTicket", key, request, {x.ticket}) /\ Told(g, TRUE)
         \/ /\ Unused("CheckInTicket", key) /\ x.token = t.qrVersion /\ may
            /\ change /\ Told(g, TRUE)
         \/ /\ ~Replays("CheckInTicket", key, request)
            /\ Unused("CheckInTicket", key) => x.token # t.qrVersion \/ (~here /\ ~may)
            /\ UNCHANGED <<tickets, records, audit, outbox>> /\ Told(g, FALSE)
      /\ UNCHANGED now

-----------------------------------------------------------------------------

Tick == now < MaxNow /\ now' = now + 1
        /\ UNCHANGED <<tickets, records, audit, outbox, gates, scans, admissions, faults>>

Init ==
  /\ tickets = <<>> /\ records = {} /\ audit = {} /\ outbox = {}
  /\ gates = [g \in Gates |-> Idle] /\ scans = [g \in Gates |-> 0] /\ admissions = {}
  /\ faults = 0 /\ now = 0

Next ==
  \/ \E k \in Keys, r \in IssueRequests : IssueTickets(k, r)
  \/ \E k \in Keys, id \in Ids, v \in 1 .. MaxVersion : CancelTicket(k, id, v) \/ RegenerateQr(k, id, v)
  \/ \E g \in Gates, id \in Ids, q \in 1 .. MaxVersion : Scan(g, id, q)
  \/ \E g \in Gates : Revalidate(g) \/ SignToken(g) \/ CheckInTicket(g)
  \/ Tick

Spec == Init /\ [][Next]_vars

-----------------------------------------------------------------------------
(* Properties. *)

TypeOK ==
  /\ tickets \in Seq(Ticket) /\ Len(tickets) <= MaxTickets
  /\ \A id \in Ids : StateConsistent(tickets[id])
  /\ \A g \in Gates : gates[g].pc \in {"idle", "scanned", "send", "signed"}
  /\ \A r \in records : IsIdempotencyRecord(r)
  /\ \A a \in audit : IsAuditRow(a)
  /\ \A o \in outbox : IsOutboxEvent(o)

\* The unique constraints of the schema are never what refuses a command: a seat has at
\* most one ticket that is not cancelled, and a booking at most one ticket for a seat,
\* also when tickets are cancelled, checked in and asked for again.
OneTicketPerSeat ==
  \A i, j \in Ids :
    /\ tickets[i].seat = tickets[j].seat
    /\ \/ tickets[i].booking = tickets[j].booking
       \/ "CANCELLED" \notin {tickets[i].status, tickets[j].status}
    => i = j

\* A booking has exactly the tickets one request asked for, also when the request comes
\* again, with other seats, or after the tickets were cancelled.
IssuedTogether ==
  \A a \in audit : a.operation = "IssueTickets" =>
    a.request.seats = {tickets[id].seat : id \in TicketsOfBooking(a.request.booking)}

\* Audit and events are the history of a ticket: one row of each per version, the
\* statuses of the rows form a chain that ends in the ticket's status, and the QR
\* version counts the regenerations.
AuditIsTheHistory ==
  \A id \in Ids :
    LET mine == {a \in audit : a.ticket = id}
        at(v) == CHOOSE a \in mine : a.version = v
        t == tickets[id]
    IN  /\ {a.version : a \in mine} = 1 .. t.version /\ Cardinality(mine) = t.version
        /\ at(1).previous = None /\ at(t.version).status = t.status
        /\ \A v \in 2 .. t.version : at(v).previous = at(v - 1).status
        /\ t.qrVersion = 1 + Cardinality({a \in mine : a.operation = "RegenerateTicketQr"})
        /\ {<<o.version, o.status>> : o \in {o \in outbox : o.ticket = id}}
             = {<<a.version, a.status>> : a \in mine}

\* A request takes effect once per ticket and seat, although its key expires and the
\* request may come again under the same or another key.
EffectOncePerRequest ==
  \A a, b \in audit :
    /\ a.operation = b.operation /\ a.request = b.request
    /\ tickets[a.ticket].seat = tickets[b.ticket].seat
    => a = b

\* The audit rows of a ticket's check-in.
CheckInsOf(id) == {row \in audit : row.operation = "CheckInTicket" /\ row.ticket = id}

\* Nobody is let in on a ticket that is cancelled or not checked in, and a ticket is
\* checked in with its newest QR code: a code that was replaced between the scan and
\* the command checks nothing in, although the command runs with a token the endpoint
\* signed itself and never sees the code that was scanned.  Who is let in with a
\* replaced code was answered "already checked in": another scan had checked the
\* ticket in.
CheckInIsCurrent ==
  \A a \in admissions :
    /\ tickets[a.ticket].status = "CHECKED_IN"
    /\ \A row \in CheckInsOf(a.ticket) :
         row.key = <<a.gate, a.scan>> => a.qr = tickets[a.ticket].qrVersion
    /\ a.qr # tickets[a.ticket].qrVersion =>
         \E row \in CheckInsOf(a.ticket) : row.key # <<a.gate, a.scan>>

\* A ticket lets one scan in (fails: a second scan is told "already checked in" and
\* may admit, also with a code that was replaced).
TicketAdmitsOnce ==
  \A a, b \in admissions : a.ticket = b.ticket => a = b
=============================================================================
