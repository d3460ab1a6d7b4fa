-------------------------- MODULE MCServiceProgress --------------------------
(* What the services finish, for TLC. A behaviour explores one part:          *)
(* "expiry", holds that run out; "locking", seat transactions that wait for   *)
(* each other; "payment", payments with an unknown outcome; "sessions",       *)
(* requests to Identity Service; "stream", status events over Redis;          *)
(* "sockets", connections that end. The parts share no state: a part that     *)
(* does not move keeps its initial state, and what is fair is said of the     *)
(* part that moves.                                                           *)
EXTENDS Naturals

CONSTANTS None, b1, k1, why, ref, authRef, captureRef, f1, f2

VARIABLES
  part,                                                                  \* the part that moves
  seats, inventoryVersion, reservations, idempotency, audit, now, answer,   \* SeatInventory
  rows, holds, due, records, outdated, tx, commands,                     \* SeatTransactions
  payments, refunds, ledger, trail, outbox, keys, batch, clock,          \* PaymentService
  users, buckets, sessions, tokens, logins, ended, guesses, begun,       \* IdentityService
  messageIds, sequences, ingests, redis, delivered, browsers, faults,    \* StatusStream
  requests, tickets, cache, sockets, registry, attempts, used, opened,
  stage, targets                                                         \* StatusConnections

seatVars == <<seats, inventoryVersion, reservations, idempotency, audit, now, answer>>
lockVars == <<rows, holds, due, records, outdated, tx, commands>>
paymentVars == <<payments, refunds, ledger, trail, outbox, keys, batch, clock>>
identityVars == <<users, buckets, sessions, tokens, logins, ended, guesses, begun>>
streamVars == <<messageIds, sequences, ingests, redis, delivered, browsers, faults>>
socketVars == <<requests, tickets, cache, sockets, registry, attempts, used, opened, stage,
                targets>>

Expiry == INSTANCE SeatInventory WITH
  Events <- {"e1"}, SeatIds <- {"s1"}, BookingIds <- {"b1", "b2"},
  ReservationIds <- {"r1", "r2"}, Keys <- {"k1"}, Layouts <- {"stalls"}, HoldSeconds <- {1},
  ExtensionSeconds <- {1}, MaxExtendCount <- 1, ExpiryBatchSize <- 1, TTL <- 1,
  InventoryVersions <- {1}, MaxNow <- 2

Locking == INSTANCE SeatTransactions WITH
  Seats <- {1, 2}, Commands <- {"c1", "c2"}, Sweepers <- {"w1"}, BatchSize <- 2,
  MaxRetries <- 1, MaxReservations <- 2, MaxRequests <- 3,
  seats <- rows, reservations <- holds, begun <- commands

-----------------------------------------------------------------------------
(* What the gateway sends to Payment Service, a provider that calls back      *)
(* about the payments of amount 2, and a caller that reports a capture whose  *)
(* answer was lost.                                                           *)

Command(scope, version, status, reference, reason) ==
  [scope |-> scope, booking |-> b1, version |-> version, providerStatus |-> status,
   reference |-> reference, reason |-> reason]
Captured == [status |-> "CAPTURED", operation |-> "CAPTURE", reference |-> ref,
             refundReference |-> None, refunded |-> None, reason |-> None]
Declined == [Captured EXCEPT !.status = "FAILED", !.reason = why]

CapturingRequests ==
  [scope : {"CreatePayment"}, booking : {b1}, amount : {2}, scenario : {"SUCCESS", "DECLINE", "MANUAL"}]
  \cup [scope : {"CreatePayment"}, booking : {b1}, amount : {1}, scenario : {"TIMEOUT"}]
  \cup {Command("AuthorizePayment", 1, None, None, None),
        Command("CapturePayment", 2, None, None, None),
        Command("CapturePayment", 1, "UNKNOWN", ref, None),
        Command("CancelPayment", 2, None, None, why)}
  \cup [scope : {"HandleProviderCallback"}, booking : {b1}, outcome : {Captured, Declined},
        amount : {2}, occurredAt : {0, 1}]
  \cup [scope : {"ReconcilePayment"}, booking : {b1}, version : {2, 3}, providerStatus : {None},
        reference : {None}, refundReference : {None}, refunded : {None}, reason : {None}]

Payment == INSTANCE PaymentService WITH
  Bookings <- {b1}, ProviderRefs <- {ref, authRef, captureRef}, RefundRefs <- {f1, f2},
  Reasons <- {why}, DefaultReason <- why, MaxAmount <- 2, Keys <- {k1}, TTL <- 1,
  MaxAttempts <- 2, InitialDelay <- 1, MaxDelay <- 2, MaxVersion <- 8, MaxNow <- 3,
  LastRequestAt <- 1, Offered <- CapturingRequests,
  MockReference <- [x \in {b1} \X {"AUTHORIZE", "CAPTURE"} |->
                      IF x[2] = "AUTHORIZE" THEN authRef ELSE captureRef],
  audit <- trail, idempotency <- keys, now <- clock

-----------------------------------------------------------------------------
Callers == {"c1", "c2"}
Identity == INSTANCE IdentityService WITH
  Users <- {"u1"}, LockoutThreshold <- 2, RateLimit <- 2, MaxSessions <- 5, MaxRequests <- 3,
  MaxVersion <- 3, calls <- logins

Statuses == {[id |-> "e1", booking |-> "b1", sequence |-> 1],
             [id |-> "e2", booking |-> "b1", sequence |-> 2]}
Stream == INSTANCE StatusStream WITH
  Clients <- {"c1"}, Bookings <- {"b1"}, Events <- Statuses, Watches <- [c \in {"c1"} |-> "b1"],
  Backend <- "redis", MaxMessageIds <- 3, MaxSequences <- 2, MaxAttempts <- 3, MaxFaults <- 1,
  MaxExpiries <- 0, calls <- ingests

Sockets == {"s1", "s2"}
Connections == INSTANCE StatusConnections WITH
  AddressOf <- [s \in Sockets |-> "a1"], BookingOf <- [s \in Sockets |-> "b1"],
  Requests <- {[id |-> "t1", key |-> "k1", booking |-> "b1"],
               [id |-> "t2", key |-> "k2", booking |-> "b1"]},
  SubjectOf <- [k \in {"k1", "k2"} |-> IF k = "k1" THEN "p1" ELSE "p2"],
  Store <- "redis", MaxConnections <- 2, MaxPerPrincipal <- 1, MaxPerIp <- 2,
  MaxEntries <- 2, HandshakeLimit <- 2, IdleBeats <- 2

ASSUME /\ Locking!TransactionAssumption /\ Identity!IdentityAssumption
       /\ Stream!StreamAssumption /\ Connections!ConnectionsAssumption

Init ==
  /\ part \in {"expiry", "locking", "payment", "sessions", "stream", "sockets"}
  /\ Expiry!Init /\ Locking!Init /\ Payment!Init /\ Identity!Init /\ Stream!Init
  /\ Connections!Init

\* Bound: a third command comes only where no idempotency record has expired.
FewCommands == outdated' = {} \/ commands' <= 2

Next ==
  /\ UNCHANGED part
  /\ \/ /\ part = "expiry" /\ Expiry!Next
        /\ UNCHANGED <<lockVars, paymentVars, identityVars, streamVars, socketVars>>
     \/ /\ part = "locking" /\ Locking!Next /\ FewCommands
        /\ UNCHANGED <<seatVars, paymentVars, identityVars, streamVars, socketVars>>
     \/ /\ part = "payment" /\ Payment!Next
        /\ UNCHANGED <<seatVars, lockVars, identityVars, streamVars, socketVars>>
     \/ /\ part = "sessions" /\ Identity!Next
        /\ UNCHANGED <<seatVars, lockVars, paymentVars, streamVars, socketVars>>
     \/ /\ part = "stream" /\ Stream!Next
        /\ UNCHANGED <<seatVars, lockVars, paymentVars, identityVars, socketVars>>
     \/ /\ part = "sockets" /\ Connections!Next
        /\ UNCHANGED <<seatVars, lockVars, paymentVars, identityVars, streamVars>>

\* The workers of the services poll, and a statement whose locks are free is executed.
TableFairness ==
  /\ WF_seatVars(part = "expiry" /\ Expiry!Sweep({}))
  /\ \A t \in {"c1", "c2", "w1"} : WF_lockVars(part = "locking" /\ Locking!Proceed(t))
  /\ WF_paymentVars(part = "payment" /\ Payment!Worker)
  /\ WF_paymentVars(part = "payment" /\ Payment!Tick)
  /\ \A c \in Callers : WF_identityVars(part = "sessions" /\ Identity!Progress(c))

\* Redis answers or the waiter gives up, heartbeats go round and a shutdown goes on.
RealtimeFairness ==
  /\ \A e \in Statuses :
       /\ WF_streamVars(part = "stream" /\ (Stream!Publish(e) \/ Stream!RefusePublish(e)))
       /\ WF_streamVars(part = "stream" /\ ~Stream!Travelling(e) /\ Stream!WaiterTimeout(e))
  /\ WF_streamVars(part = "stream" /\ Stream!Consume)
  /\ \A s \in Sockets :
       /\ WF_socketVars(part = "sockets" /\ Connections!Heartbeat(s))
       /\ WF_socketVars(part = "sockets" /\ s \notin registry.connections /\ Connections!LeaveLoop(s))
       /\ WF_socketVars(part = "sockets" /\ Connections!ShutdownOne(s))
  /\ WF_socketVars(part = "sockets" /\ Connections!FinishShutdown)

Spec ==
  /\ Init
  /\ [][Next]_<<part, seatVars, lockVars, paymentVars, identityVars, streamVars, socketVars>>
  /\ TableFairness
  /\ RealtimeFairness

-----------------------------------------------------------------------------
(* The properties of the components.                                         *)

\* Nothing stays held for ever: seats of a hold that ran out become available or
\* are held anew, and a transaction ends, as a deadlock is broken and what was
\* waiting goes on.
HoldsEnd ==
  /\ part = "expiry" => Expiry!ExpiredHoldsAreReleased
  /\ part = "locking" => Locking!TransactionsEnd

\* What was asked is answered: a payment with an unknown outcome is settled or
\* given up, a request to Identity Service comes to an answer, and none waits for
\* ever for a delivery that Redis lost.
RequestsAreAnswered ==
  /\ part = "payment" => Payment!ReconciliationEnds
  /\ part = "sessions" => Identity!RequestsEnd
  /\ part = "stream" => Stream!RequestIsAnswered

\* A status event is shown once and an accepted one was shown; a connection whose
\* browser vanished is dropped; and a shutdown ends although connections are
\* busy, with none left.
BroadcastIsSound ==
  /\ [](Stream!NeverBroadcastTwice /\ Stream!AcceptedWasShown /\ Connections!ShutdownLeavesNone)
  /\ part = "sockets" => Connections!VanishedPeerIsDropped /\ Connections!ShutdownEnds

=============================================================================
