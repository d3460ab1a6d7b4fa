---------------------------- MODULE OutboxRelay ----------------------------
(***************************************************************************)
(* The outbox relay of Payment Service: processes that drain               *)
(* payment.outbox_events to a webhook.  A relay claims the oldest event    *)
(* that is neither published nor exhausted, skipping the rows others have  *)
(* locked, posts it while it holds the row, and marks it in the same       *)
(* transaction.  The transaction is rolled back when the relay crashes and *)
(* when the post ends in an error that is not a PublishFailed.  The        *)
(* receiver deduplicates, so what matters of it is which events it knows,  *)
(* in the order it learned of them.                                        *)
(***************************************************************************)
EXTENDS Integers, Sequences, FiniteSets, SequencesExt

CONSTANTS
  N,               \* bound on events committed
  Relays,          \* relay processes
  None,
  MaxAttempts,     \* outbox_max_attempts
  MaxCrashes,      \* bound on crashes of relays
  ConnectionDrops  \* whether the receiver may close connections without an answer

RelayBounds ==
  /\ {N, MaxAttempts} \subseteq Nat \ {0} /\ MaxCrashes \in Nat
  /\ ConnectionDrops \in BOOLEAN

VARIABLES
  events,    \* the committed events, oldest first
  relay,     \* the event each relay has claimed, None between claims
  received,  \* the events the receiver knows, in the order of their first receipt
  crashes

vars == <<events, relay, received, crashes>>

Event == [published : BOOLEAN, attempts : 0 .. MaxAttempts]
Ids == 1 .. Len(events)

Init == events = <<>> /\ relay = [r \in Relays |-> None] /\ received = <<>> /\ crashes = 0

\* A command commits its event (append_outbox_event).
Commit ==
  /\ Len(events) < N
  /\ events' = Append(events, [published |-> FALSE, attempts |-> 0])
  /\ UNCHANGED <<relay, received, crashes>>

\* Mutation: exhausted events are claimed again.
NeverExhausted(r) ==
  {i \in Ids : ~events[i].published /\ \A other \in Relays \ {r} : relay[other] # i}

\* Events another relay holds are skipped, not waited for.
Claimable(r) ==
  {i \in Ids : /\ ~events[i].published /\ events[i].attempts < MaxAttempts
               /\ \A other \in Relays \ {r} : relay[other] # i}

\* Mutation: no order.
AnyOf(S) == CHOOSE i \in S : \A j \in S : j <= i

Oldest(S) == CHOOSE i \in S : \A j \in S : i <= j

ClaimNext(r) ==
  /\ relay[r] = None /\ Claimable(r) # {}
  /\ relay' = [relay EXCEPT ![r] = Oldest(Claimable(r))]
  /\ UNCHANGED <<events, received, crashes>>

Learns(i) == IF i \in ToSet(received) THEN received ELSE Append(received, i)

\* Mutation: marked before the answer is known.
MarkFirst(r) ==
  /\ relay[r] # None
  /\ events' = [events EXCEPT ![relay[r]].published = TRUE]
  /\ received' \in {received, Learns(relay[r])}
  /\ relay' = [relay EXCEPT ![r] = None] /\ UNCHANGED crashes

\* The receiver answered below 300.
Published(r) ==
  /\ relay[r] # None
  /\ received' = Learns(relay[r])
  /\ events' = [events EXCEPT ![relay[r]].published = TRUE]
  /\ relay' = [relay EXCEPT ![r] = None] /\ UNCHANGED crashes

\* Mutation: the attempt is not counted.
FailsUncounted(r) ==
  /\ relay[r] # None /\ received' \in {received, Learns(relay[r])}
  /\ relay' = [relay EXCEPT ![r] = None] /\ UNCHANGED <<events, crashes>>

\* PublishFailed: an error status, an unreachable receiver or a timeout; a receiver
\* that timed out may know the event.
PublishFails(r) ==
  /\ relay[r] # None
  /\ received' \in {received, Learns(relay[r])}
  /\ events' = [events EXCEPT ![relay[r]].attempts = @ + 1]
  /\ relay' = [relay EXCEPT ![r] = None] /\ UNCHANGED crashes

RolledBack(r) ==
  /\ relay[r] # None
  /\ received' \in {received, Learns(relay[r])}
  /\ relay' = [relay EXCEPT ![r] = None] /\ UNCHANGED events

\* urlopen raises what is neither HTTPError, URLError nor TimeoutError when the
\* connection is closed without an answer: the tick fails and the attempt is not counted.
ConnectionDropped(r) == ConnectionDrops /\ RolledBack(r) /\ UNCHANGED crashes

CrashRelay(r) == crashes < MaxCrashes /\ crashes' = crashes + 1 /\ RolledBack(r)

RelayStep(r) == ClaimNext(r) \/ Published(r) \/ PublishFails(r) \/ ConnectionDropped(r)

Next == Commit \/ \E r \in Relays : RelayStep(r) \/ CrashRelay(r)

Spec == Init /\ [][Next]_vars

\* A relay polls until it is stopped.
FairSpec == Spec /\ \A r \in Relays : WF_vars(RelayStep(r))

-----------------------------------------------------------------------------
(* Properties. *)

Exhausted(i) == events[i].attempts = MaxAttempts

TypeOK ==
  /\ events \in Seq(Event) /\ Len(events) <= N
  /\ \A r \in Relays : relay[r] \in Ids \cup {None}
  /\ \A i \in Ids : ~(events[i].published /\ Exhausted(i))

\* At least once: an event that is marked published is known to the receiver, whatever
\* relays share the backlog and wherever they crash.
PublishedWasReceived == \A i \in Ids : events[i].published => i \in ToSet(received)

\* One relay delivers in order: an event overtakes an older one only after the older
\* one used up its attempts.
DeliveredInOrder ==
  \A i \in Ids, k \in DOMAIN received :
    i < received[k] /\ (\A j \in 1 .. k : received[j] # i) => Exhausted(i)

\* An event is published or, after its attempts, left for an operator; it never keeps the
\* events behind it waiting for ever.
EventSettles ==
  \A i \in 1 .. N : (Len(events) >= i) ~> (Len(events) >= i /\ (events[i].published \/ Exhausted(i)))
=============================================================================
