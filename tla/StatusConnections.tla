------------------------- MODULE StatusConnections --------------------------
(***************************************************************************)
(* The WebSocket side of the Realtime Status Service and the gateway that  *)
(* issues its tickets. A browser obtains a single-use ticket for a booking *)
(* (WebSocketTicketIssuer), opens a socket, presents the ticket in its     *)
(* first frame (endpoint.py), and is entered in the ConnectionManager's    *)
(* registry until the client leaves, a send fails, the heartbeat finds it  *)
(* idle or the service shuts down: four parties that may all unregister    *)
(* the same connection.                                                    *)
(*                                                                         *)
(* The manager never waits while it holds its lock, so each of its methods *)
(* is one step; the endpoint is interrupted at every await.                *)
(***************************************************************************)
EXTENDS Naturals, FiniteSets, FiniteSetsExt

CONSTANTS
    None,             \* a model value: no ticket
    Sockets,          \* WebSocket connections, each served by one coroutine
    AddressOf,        \* AddressOf[s]: the client address of socket s
    BookingOf,        \* BookingOf[s]: the booking in the URL of socket s
    Requests,         \* ticket requests: records [id, key, booking]; key names
                      \* the subject and its Idempotency-Key
    SubjectOf,        \* SubjectOf[k]: the subject of key k
    Store,            \* "memory" or "redis": the ticket replay store
    MaxConnections, MaxPerPrincipal, MaxPerIp,
    MaxEntries,       \* ws_ticket_replay_max_entries
    HandshakeLimit,   \* handshakes per address and window
    IdleBeats         \* heartbeats without a client frame until the timeout

Bookings == {BookingOf[s] : s \in Sockets}
Addresses == {AddressOf[s] : s \in Sockets}
Keys == {r.key : r \in Requests}
Principals == {SubjectOf[k] : k \in Keys}

ConnectionsAssumption ==
    /\ Store \in {"memory", "redis"}
    /\ \A r, q \in Requests : r.id = q.id => r = q
    /\ {MaxConnections, MaxPerPrincipal, MaxPerIp, MaxEntries, HandshakeLimit, IdleBeats}
            \subseteq Nat \ {0}

VARIABLES
    requests,     \* requests[r]: how far the issuer is, and the ticket answered
    tickets,      \* the issued tickets that have not expired
    cache,        \* the ws_tickets rows: [Keys -> ticket or None]
    sockets,      \* sockets[s]: the coroutine that serves s
    registry,     \* _connections, _channels, _principal_counts, _ip_counts
    attempts,     \* attempts[a]: handshakes of address a in the window
    used,         \* jtis in the replay store
    opened,       \* opened[j]: the sockets that were registered with ticket j
    stage,        \* running, draining, closing or stopped
    targets       \* connections begin_shutdown still has to close

vars == <<requests, tickets, cache, sockets, registry, attempts, used, opened,
          stage, targets>>

\* A ticket: the jti is named after the request that made it.
TicketOf(r) == [jti |-> r.id, subject |-> SubjectOf[r.key], booking |-> r.booking]

Tickets == {TicketOf(r) : r \in Requests}

NewSocket == [phase |-> "new", ticket |-> None, quiet |-> 0, gone |-> FALSE]

EmptyRegistry ==
    [connections |-> {},
     channels |-> [b \in Bookings |-> {}],
     principals |-> [p \in Principals |-> 0],
     addresses |-> [a \in Addresses |-> 0]]

Init ==
    /\ requests = [r \in Requests |-> [phase |-> "idle", answer |-> None]]
    /\ tickets = {}
    /\ cache = [k \in Keys |-> None]
    /\ sockets = [s \in Sockets |-> NewSocket]
    /\ registry = EmptyRegistry
    /\ attempts = [a \in Addresses |-> 0]
    /\ used = {}
    /\ opened = [t \in Tickets |-> {}]
    /\ stage = "running"
    /\ targets = {}

-----------------------------------------------------------------------------
(* WebSocketTicketIssuer.issue, in the gateway. *)

Cached(k) == IF cache[k] \in tickets THEN cache[k] ELSE None

AnswerRequest(r, t) == [requests EXCEPT ![r] = [phase |-> "answered", answer |-> t]]

IssuerUnchanged == UNCHANGED <<sockets, registry, attempts, used, opened, stage, targets>>

\* get_ws_ticket: the key's ticket is answered again, or refused (409) for
\* another booking; without one the request goes on to sign a new ticket.
LookUpTicket(r) ==
    /\ requests[r].phase = "idle"
    /\ LET t == Cached(r.key) IN
        requests' = IF t = None THEN [requests EXCEPT ![r].phase = "signing"]
                    ELSE IF t.booking # r.booking THEN AnswerRequest(r, None)
                    ELSE AnswerRequest(r, t)
    /\ UNCHANGED <<tickets, cache>>
    /\ IssuerUnchanged

\* The ticket is signed and save_ws_ticket upserts the row.
SaveTicket(r) ==
    /\ requests[r].phase = "signing"
    /\ tickets' = tickets \cup {TicketOf(r)}
    /\ cache' = [cache EXCEPT ![r.key] = TicketOf(r)]
    /\ requests' = AnswerRequest(r, TicketOf(r))
    /\ IssuerUnchanged

\* The ticket's lifetime passes, for the issuer and for the replay store.
Expire(t) ==
    /\ t \in tickets
    /\ tickets' = tickets \ {t}
    /\ used' = used \ {t.jti}
    /\ UNCHANGED <<requests, cache, sockets, registry, attempts, opened, stage, targets>>

-----------------------------------------------------------------------------
(* ConnectionManager. *)

Principal(s) == sockets[s].ticket.subject

HasRoom(s) ==
    /\ Cardinality(registry.connections) < MaxConnections
    /\ registry.principals[Principal(s)] < MaxPerPrincipal
    /\ registry.addresses[AddressOf[s]] < MaxPerIp

Registered(s) ==
    [registry EXCEPT !.connections = @ \cup {s},
                     !.channels[BookingOf[s]] = @ \cup {s},
                     !.principals[Principal(s)] = @ + 1,
                     !.addresses[AddressOf[s]] = @ + 1]

\* _decrement: a count that would reach zero or less is dropped.
Decrement(n) == IF n <= 1 THEN 0 ELSE n - 1

\* Mutant: unregister does not look whether the connection is still there.
UnregisteredAgain(s) ==
    [registry EXCEPT !.connections = @ \ {s},
                     !.channels[BookingOf[s]] = @ \ {s},
                     !.principals[Principal(s)] = Decrement(@),
                     !.addresses[AddressOf[s]] = Decrement(@)]

\* unregister does nothing the second time.
Unregistered(s) ==
    IF s \notin registry.connections THEN registry
    ELSE [registry EXCEPT !.connections = @ \ {s},
                          !.channels[BookingOf[s]] = @ \ {s},
                          !.principals[Principal(s)] = Decrement(@),
                          !.addresses[AddressOf[s]] = Decrement(@)]

-----------------------------------------------------------------------------
(* The endpoint's coroutine for one socket. *)

Gateway == <<requests, tickets, cache>>

At(s, phase) == sockets[s].phase = phase

GoTo(s, phase) == [sockets EXCEPT ![s].phase = phase]

\* _validate_handshake: a draining service, or an address over its rate,
\* refuses; the attempt counts either way.
Handshake(s) ==
    /\ At(s, "new")
    /\ sockets' = GoTo(s, IF stage # "running" \/ attempts[AddressOf[s]] >= HandshakeLimit
                          THEN "closed" ELSE "accepted")
    /\ attempts' = IF stage # "running" THEN attempts
                   ELSE [attempts EXCEPT ![AddressOf[s]] = @ + 1]
    /\ UNCHANGED <<registry, used, opened, stage, targets>>
    /\ UNCHANGED Gateway

\* HandshakeRateLimiter: the oldest attempt leaves the window.
WindowMoves(a) ==
    /\ attempts[a] > 0
    /\ attempts' = [attempts EXCEPT ![a] = @ - 1]
    /\ UNCHANGED <<sockets, registry, used, opened, stage, targets>>
    /\ UNCHANGED Gateway

\* No authenticate frame, an invalid one, or a ticket of another booking.
RejectTicket(s) ==
    /\ At(s, "accepted")
    /\ sockets' = GoTo(s, "closed")
    /\ UNCHANGED <<registry, attempts, used, opened, stage, targets>>
    /\ UNCHANGED Gateway

IsValid(t, s) == t \in tickets /\ t.booking = BookingOf[s]

\* The store refuses after it was stopped; the in-process one also when full.
StoreRefuses ==
    \/ Store = "redis" /\ stage \in {"closing", "stopped"}
    \/ Store = "memory" /\ Cardinality(used) >= MaxEntries

\* Mutant: consume stores the ticket without looking whether it is there.
ConsumeUnchecked(s, t) ==
    /\ At(s, "accepted")
    /\ IsValid(t, s)
    /\ ~StoreRefuses
    /\ used' = used \cup {t.jti}
    /\ sockets' = [sockets EXCEPT ![s].phase = "authenticated", ![s].ticket = t]
    /\ UNCHANGED <<registry, attempts, opened, stage, targets>>
    /\ UNCHANGED Gateway

\* A valid ticket is consumed: once, whatever happens to the socket next.
ConsumeTicket(s, t) ==
    /\ At(s, "accepted")
    /\ IsValid(t, s)
    /\ ~StoreRefuses
    /\ t.jti \notin used
    /\ used' = used \cup {t.jti}
    /\ sockets' = [sockets EXCEPT ![s].phase = "authenticated", ![s].ticket = t]
    /\ UNCHANGED <<registry, attempts, opened, stage, targets>>
    /\ UNCHANGED Gateway

RefuseReplay(s, t) ==
    /\ At(s, "accepted")
    /\ IsValid(t, s)
    /\ StoreRefuses \/ t.jti \in used
    /\ sockets' = GoTo(s, "closed")
    /\ UNCHANGED <<registry, attempts, used, opened, stage, targets>>
    /\ UNCHANGED Gateway

\* Redis stored the ticket but its answer was lost: the ticket is spent.
LoseConsumeAnswer(s, t) ==
    /\ Store = "redis"
    /\ At(s, "accepted")
    /\ IsValid(t, s)
    /\ ~StoreRefuses
    /\ used' = used \cup {t.jti}
    /\ sockets' = GoTo(s, "closed")
    /\ UNCHANGED <<registry, attempts, opened, stage, targets>>
    /\ UNCHANGED Gateway

\* Mutant: register does not look whether the manager is draining.
RegisterWhileDraining(s) ==
    /\ At(s, "authenticated")
    /\ HasRoom(s)
    /\ registry' = Registered(s)
    /\ opened' = [opened EXCEPT ![sockets[s].ticket] = @ \cup {s}]
    /\ sockets' = GoTo(s, "open")
    /\ UNCHANGED <<attempts, used, stage, targets>>
    /\ UNCHANGED Gateway

\* register, after the authenticated frame was sent: the connection enters
\* the registry unless the manager is draining or a limit is reached.
Register(s) ==
    /\ At(s, "authenticated")
    /\ stage \in {"running", "draining"}
    /\ HasRoom(s)
    /\ registry' = Registered(s)
    /\ opened' = [opened EXCEPT ![sockets[s].ticket] = @ \cup {s}]
    /\ sockets' = GoTo(s, "open")
    /\ UNCHANGED <<attempts, used, stage, targets>>
    /\ UNCHANGED Gateway

RefuseRegister(s) ==
    /\ At(s, "authenticated")
    /\ stage \in {"closing", "stopped"} \/ ~HasRoom(s)
    /\ sockets' = GoTo(s, "closed")
    /\ UNCHANGED <<registry, attempts, used, opened, stage, targets>>
    /\ UNCHANGED Gateway

\* _receive_client_messages: any frame counts as a sign of life.
ClientFrame(s) ==
    /\ At(s, "open")
    /\ ~sockets[s].gone
    /\ s \in registry.connections
    /\ sockets' = [sockets EXCEPT ![s].quiet = 0]
    /\ UNCHANGED <<registry, attempts, used, opened, stage, targets>>
    /\ UNCHANGED Gateway

\* The browser vanishes without closing the socket.
PeerVanishes(s) ==
    /\ At(s, "open")
    /\ ~sockets[s].gone
    /\ sockets' = [sockets EXCEPT ![s].gone = TRUE]
    /\ UNCHANGED <<registry, attempts, used, opened, stage, targets>>
    /\ UNCHANGED Gateway

\* Mutant: the finally block leaves the connection in the registry.
LeaveWithoutUnregister(s) ==
    /\ At(s, "open")
    /\ ~sockets[s].gone \/ s \notin registry.connections
    /\ sockets' = GoTo(s, "closed")
    /\ UNCHANGED <<registry, attempts, used, opened, stage, targets>>
    /\ UNCHANGED Gateway

\* The receive loop ends (unsubscribe, protocol error, disconnect, or a close
\* by one of the other parties): the finally block unregisters.
LeaveLoop(s) ==
    /\ At(s, "open")
    /\ ~sockets[s].gone \/ s \notin registry.connections
    /\ registry' = Unregistered(s)
    /\ sockets' = GoTo(s, "closed")
    /\ UNCHANGED <<attempts, used, opened, stage, targets>>
    /\ UNCHANGED Gateway

\* ConnectionManager.send fails, for a heartbeat, a control or a status frame.
SendFails(s) ==
    /\ At(s, "open")
    /\ s \in registry.connections
    /\ registry' = Unregistered(s)
    /\ UNCHANGED <<sockets, attempts, used, opened, stage, targets>>
    /\ UNCHANGED Gateway

\* Mutant: every heartbeat that was sent counts as a sign of life.
HeartbeatTouches(s) ==
    /\ At(s, "open")
    /\ s \in registry.connections
    /\ sockets' = [sockets EXCEPT ![s].quiet = 0]
    /\ UNCHANGED <<registry, attempts, used, opened, stage, targets>>
    /\ UNCHANGED Gateway

\* HeartbeatRunner.run, once per interval: an idle connection is unregistered
\* and closed, any other one is sent a heartbeat.
Heartbeat(s) ==
    /\ At(s, "open")
    /\ s \in registry.connections
    /\ IF sockets[s].quiet + 1 >= IdleBeats
       THEN registry' = Unregistered(s) /\ sockets' = sockets
       ELSE registry' = registry /\ sockets' = [sockets EXCEPT ![s].quiet = @ + 1]
    /\ UNCHANGED <<attempts, used, opened, stage, targets>>
    /\ UNCHANGED Gateway

-----------------------------------------------------------------------------
(* The lifespan's shutdown. *)

\* draining is set; the Redis clients take their time to close.
BeginDraining ==
    /\ Store = "redis"
    /\ stage = "running"
    /\ stage' = "draining"
    /\ UNCHANGED <<sockets, registry, attempts, used, opened, targets>>
    /\ UNCHANGED Gateway

\* The replay store is stopped, which empties the in-process one, and
\* begin_shutdown takes the connections it has to close.
BeginShutdown ==
    /\ stage = (IF Store = "redis" THEN "draining" ELSE "running")
    /\ stage' = "closing"
    /\ targets' = registry.connections
    /\ used' = IF Store = "memory" THEN {} ELSE used
    /\ UNCHANGED <<sockets, registry, attempts, opened>>
    /\ UNCHANGED Gateway

\* Mutant: a connection that left by itself is never ticked off.
ShutdownOneRegistered(s) ==
    /\ stage = "closing"
    /\ s \in targets \cap registry.connections
    /\ registry' = Unregistered(s)
    /\ targets' = targets \ {s}
    /\ UNCHANGED <<sockets, attempts, used, opened, stage>>
    /\ UNCHANGED Gateway

\* _shutdown_one: the shutdown frame, the close, and unregister once more.
ShutdownOne(s) ==
    /\ stage = "closing"
    /\ s \in targets
    /\ registry' = Unregistered(s)
    /\ targets' = targets \ {s}
    /\ UNCHANGED <<sockets, attempts, used, opened, stage>>
    /\ UNCHANGED Gateway

FinishShutdown ==
    /\ stage = "closing"
    /\ targets = {}
    /\ stage' = "stopped"
    /\ UNCHANGED <<sockets, registry, attempts, used, opened, targets>>
    /\ UNCHANGED Gateway

-----------------------------------------------------------------------------
(* The specification. *)

Issue(r) == LookUpTicket(r) \/ SaveTicket(r)

Authenticate(s) ==
    \/ RejectTicket(s)
    \/ \E t \in Tickets : ConsumeTicket(s, t)
    \/ \E t \in Tickets : RefuseReplay(s, t)
    \/ \E t \in Tickets : LoseConsumeAnswer(s, t)

BookingStatus(s) ==
    \/ Handshake(s)
    \/ Authenticate(s)
    \/ Register(s)
    \/ RefuseRegister(s)
    \/ ClientFrame(s)
    \/ PeerVanishes(s)
    \/ LeaveLoop(s)
    \/ SendFails(s)
    \/ Heartbeat(s)

Next ==
    \/ \E r \in Requests : Issue(r)
    \/ \E t \in Tickets : Expire(t)
    \/ \E s \in Sockets : BookingStatus(s)
    \/ \E a \in Addresses : WindowMoves(a)
    \/ BeginDraining
    \/ BeginShutdown
    \/ \E s \in Sockets : ShutdownOne(s)
    \/ FinishShutdown

\* The heartbeat task of an open connection runs, a closed socket ends its
\* coroutine, and a shutdown that began goes on.
Fairness ==
    /\ \A s \in Sockets :
        /\ WF_vars(Heartbeat(s))
        /\ WF_vars(s \notin registry.connections /\ LeaveLoop(s))
        /\ WF_vars(ShutdownOne(s))
    /\ WF_vars(FinishShutdown)

Spec == Init /\ [][Next]_vars

FairSpec == Spec /\ Fairness

-----------------------------------------------------------------------------
(* Properties. *)

\* Every socket is in a phase of the endpoint, and a socket is registered only
\* while its coroutine is in the receive loop.
TypeOK ==
    /\ \A s \in Sockets :
        /\ sockets[s].phase \in {"new", "accepted", "authenticated", "open", "closed"}
        /\ sockets[s].ticket \in Tickets \cup {None}
        /\ sockets[s].quiet \in 0..IdleBeats
    /\ registry.connections \subseteq {s \in Sockets : At(s, "open")}
    /\ tickets \subseteq Tickets
    /\ cache \in [Keys -> Tickets \cup {None}]

\* The counts the limits are checked against are the registry's, although a
\* connection may be unregistered by a failed send, the heartbeat, the shutdown
\* and its own coroutine one after the other.
CountsMatchRegistry ==
    /\ \A b \in Bookings :
        registry.channels[b] = {s \in registry.connections : BookingOf[s] = b}
    /\ \A p \in Principals :
        registry.principals[p] = Cardinality({s \in registry.connections : Principal(s) = p})
    /\ \A a \in Addresses :
        registry.addresses[a] = Cardinality({s \in registry.connections : AddressOf[s] = a})

\* A ticket opens at most one connection, with either replay store, and also
\* when the in-process store is emptied by a shutdown under way.
TicketOpensOnce ==
    \A t \in Tickets : Cardinality(opened[t]) <= 1

\* A service that finished its shutdown has no connection left: none was
\* registered after begin_shutdown had taken the ones to close.
ShutdownLeavesNone ==
    stage = "stopped" => registry.connections = {}

\* A connection whose browser vanished is unregistered by the heartbeat.
VanishedPeerIsDropped ==
    \A s \in Sockets : sockets[s].gone ~> s \notin registry.connections

\* A shutdown comes to its end although connections are busy.
ShutdownEnds == stage = "closing" ~> stage = "stopped"

\* Two requests with one key and one booking are answered the same ticket as
\* long as it is valid.
SameKeySameTicket ==
    \A r, q \in Requests :
        /\ r.key = q.key /\ r.booking = q.booking
        /\ requests[r].answer \in tickets
        /\ requests[q].answer \in tickets
        => requests[r].answer = requests[q].answer

=============================================================================
