------------------------------- MODULE MCEdge -------------------------------
(* The edge of the gateway and what it feeds, for TLC. A behaviour explores   *)
(* one part: "calls", two callers under the resilience policies; "enrolment", *)
(* two devices of one user; "delivery", two messages on their way to          *)
(* Notification Service; "relay", two relays on one outbox; "stream", status  *)
(* events of two bookings; "sockets", three browsers. The parts share no      *)
(* state: a part that does not move keeps its initial state.                  *)
EXTENDS Naturals

CONSTANT None

VARIABLES
  part,                                                              \* the part that moves
  failures, openFor, permits, queue, calls, healthy,                 \* ResiliencePolicy
  customers, mapping, devices, lost,                                 \* CustomerEnrolment
  messages, worker, deliveries, handlers, mails, sends, webhooks,
  crashes, storageFaults,                                            \* EventDelivery
  events, relay, received, relayCrashes,                             \* OutboxRelay
  messageIds, sequences, ingests, redis, delivered, browsers, faults,   \* StatusStream
  requests, tickets, cache, sockets, registry, attempts, used, opened,
  stage, targets                                                     \* StatusConnections

callVars == <<failures, openFor, permits, queue, calls, healthy>>
enrolmentVars == <<customers, mapping, devices, lost>>
deliveryVars == <<messages, worker, deliveries, handlers, mails, sends, webhooks, crashes,
                  storageFaults>>
relayVars == <<events, relay, received, relayCrashes>>
streamVars == <<messageIds, sequences, ingests, redis, delivered, browsers, faults>>
socketVars == <<requests, tickets, cache, sockets, registry, attempts, used, opened, stage,
                targets>>

Policy == INSTANCE ResiliencePolicy WITH
  Callers <- {"c1", "c2"}, Limit <- 1, FailureLimit <- 2, Window <- 1, OpenTime <- 1,
  Timeout <- 1, Adapter <- "rest"

Enrolment == INSTANCE CustomerEnrolment WITH
  Devices <- {"d1", "d2"}, Emails <- {"home", "work"}, MaxFaults <- 2, MaxVersion <- 3,
  calls <- devices, faults <- lost

Delivery == INSTANCE EventDelivery WITH
  Events <- {"e1", "e2"}, Replicas <- {"g1"}, RetryKeys <- {"k1"}, MaxAttempts <- 2, BatchSize <- 2,
  MaxCalls <- 3, MaxCrashes <- 1, MaxStorageFaults <- 1, MaxVersion <- 3, calls <- webhooks

Relays == INSTANCE OutboxRelay WITH
  N <- 3, Relays <- {"r1", "r2"}, MaxAttempts <- 2, MaxCrashes <- 1, ConnectionDrops <- TRUE,
  crashes <- relayCrashes

Status(id, b, n) == [id |-> id, booking |-> b, sequence |-> n]

\* Two bookings whose caches push each other out.
Stream == INSTANCE StatusStream WITH
  Clients <- {"c1"}, Bookings <- {"b1", "b2"},
  Events <- {Status("e1", "b1", 1), Status("e2", "b1", 2), Status("e3", "b1", 3),
             Status("f1", "b2", 1)},
  Watches <- [c \in {"c1"} |-> "b1"], Backend <- "memory", MaxMessageIds <- 2,
  MaxSequences <- 1, MaxAttempts <- 2, MaxFaults <- 0, MaxExpiries <- 1, calls <- ingests

\* Three browsers, two behind one address, and two subjects with a ticket each.
Connections == INSTANCE StatusConnections WITH
  Sockets <- {"s1", "s2", "s3"},
  AddressOf <- [s \in {"s1", "s2", "s3"} |-> IF s = "s3" THEN "a2" ELSE "a1"],
  BookingOf <- [s \in {"s1", "s2", "s3"} |-> "b1"],
  Requests <- {[id |-> "t1", key |-> "k1", booking |-> "b1"],
               [id |-> "t2", key |-> "k2", booking |-> "b1"]},
  SubjectOf <- [k \in {"k1", "k2"} |-> IF k = "k1" THEN "p1" ELSE "p2"],
  Store <- "memory", MaxConnections <- 2, MaxPerPrincipal <- 1, MaxPerIp <- 1,
  MaxEntries <- 2, HandshakeLimit <- 2, IdleBeats <- 2

ASSUME /\ Policy!ResilienceAssumption /\ Enrolment!EnrolmentAssumption
       /\ Delivery!DeliveryBounds /\ Relays!RelayBounds
       /\ Stream!StreamAssumption /\ Connections!ConnectionsAssumption

Init ==
  /\ part \in {"calls", "enrolment", "delivery", "relay", "stream", "sockets"}
  /\ Policy!Init /\ Enrolment!Init /\ Delivery!Init /\ Relays!Init /\ Stream!Init
  /\ Connections!Init
  /\ part # "calls" => healthy

Next ==
  /\ UNCHANGED part
  /\ \/ /\ part = "calls" /\ Policy!Next
        /\ UNCHANGED <<enrolmentVars, deliveryVars, relayVars, streamVars, socketVars>>
     \/ /\ part = "enrolment" /\ Enrolment!Next
        /\ UNCHANGED <<callVars, deliveryVars, relayVars, streamVars, socketVars>>
     \/ /\ part = "delivery" /\ Delivery!Next
        /\ UNCHANGED <<callVars, enrolmentVars, relayVars, streamVars, socketVars>>
     \/ /\ part = "relay" /\ Relays!Next
        /\ UNCHANGED <<callVars, enrolmentVars, deliveryVars, streamVars, socketVars>>
     \/ /\ part = "stream" /\ Stream!Next
        /\ UNCHANGED <<callVars, enrolmentVars, deliveryVars, relayVars, socketVars>>
     \/ /\ part = "sockets" /\ Connections!Next
        /\ UNCHANGED <<callVars, enrolmentVars, deliveryVars, relayVars, streamVars>>

Spec ==
  Init /\ [][Next]_<<part, callVars, enrolmentVars, deliveryVars, relayVars, streamVars, socketVars>>

-----------------------------------------------------------------------------
(* The properties of the components.                                         *)

\* The gateway accounts for what it sends on: no call is attempted more often than
\* its mode allows, every permit is held by a call, and whoever was told 201
\* CREATED got the customer the identity is linked to.
CallsAreAccounted ==
  /\ part = "calls" => Policy!TypeOK /\ Policy!AttemptsBounded
  /\ part = "enrolment" => Enrolment!TypeOK /\ Enrolment!CreatedIsMapped

\* A message that is marked SENT was processed by Notification Service, its
\* webhook sends one mail at most, and an event that is marked published is known
\* to the receiver.
MarksAreTrue ==
  /\ part = "delivery" =>
       Delivery!TypeOK /\ Delivery!SentWasProcessed /\ Delivery!WebhookMailsOnce
  /\ part = "relay" => Relays!TypeOK /\ Relays!PublishedWasReceived

\* A browser shows a status beyond the next one only after it was told to reload.
GapIsAnnounced == part = "stream" => Stream!TypeOK /\ Stream!GapIsAnnounced

\* The counts the connection limits are checked against are the registry's, and a
\* ticket opens at most one connection.
ConnectionsAreCounted ==
  part = "sockets" =>
    Connections!TypeOK /\ Connections!CountsMatchRegistry /\ Connections!TicketOpensOnce

=============================================================================
