---------------------------- MODULE StatusStream ----------------------------
(***************************************************************************)
(* The Realtime Status Service between the gateway's outbox and a browser: *)
(* StatusEventProcessor deduplicates and orders the status events that are *)
(* posted to /internal/status-events, a broadcast backend (in process, or  *)
(* Redis publish/subscribe) carries them to the connected browsers, and a  *)
(* browser keeps the highest sequence it saw and reloads the booking when  *)
(* it is told that something was missed.                                   *)
(*                                                                         *)
(* The processor decides under its lock and publishes after it: a publish  *)
(* that fails undoes the decision, whatever happened in between.           *)
(***************************************************************************)
EXTENDS Naturals, Sequences, FiniteSets, SequencesExt, FiniteSetsExt

CONSTANTS
    Bookings,       \* the bookings events are about
    Events,         \* the status events: records [id, booking, sequence]
    Clients,        \* the browsers
    Watches,        \* Watches[c]: the booking browser c subscribed to
    Backend,        \* "memory" or "redis"
    MaxMessageIds,  \* dedup_max_entries
    MaxSequences,   \* sequence_max_entries
    MaxAttempts,    \* how often the outbox posts one event
    MaxFaults,      \* slow, refused or dropped Redis operations
    MaxExpiries     \* cache entries that outlive their ttl

StreamAssumption ==
    /\ Backend \in {"memory", "redis"}
    /\ \A e \in Events : e.booking \in Bookings /\ e.sequence \in Nat \ {0}
    /\ Watches \in [Clients -> Bookings]

VARIABLES
    messageIds,  \* _message_ids, oldest first
    sequences,   \* _sequences, oldest first: records [booking, sequence]
    calls,       \* calls[e]: the requests made for event e
    redis,       \* the channel, the subscription and _available
    delivered,   \* _delivered of the Redis backend, oldest first
    browsers,    \* browsers[c]: what browser c is connected to and has seen
    faults       \* how many faults and expiries happened

vars == <<messageIds, sequences, calls, redis, delivered, browsers, faults>>

Ids == {e.id : e \in Events}

\* The requests for an event: where the last one is, what process read before
\* the lock was released (previous is 0 for None), how it was answered, and how
\* often a publish failed that the backend had started.
Idle == [phase |-> "idle", previous |-> 0, gap |-> FALSE, outcome |-> "none",
         attempts |-> 0, failures |-> 0]

\* A browser: last is lastSequence, known the sequence its page reflects (a
\* REST reload reflects every event observed so far), missed that an event
\* arrived beyond known + 1, heard how often each event was sent to it.
NewBrowser == [on |-> TRUE, last |-> 0, known |-> 0, missed |-> FALSE,
               heard |-> [i \in Ids |-> 0]]

Init ==
    /\ messageIds = <<>>
    /\ sequences = <<>>
    /\ calls = [e \in Events |-> Idle]
    /\ redis = [channel |-> <<>>, subscribed |-> TRUE, available |-> TRUE]
    /\ delivered = <<>>
    /\ browsers = [c \in Clients |-> NewBrowser]
    /\ faults = [redis |-> 0, expired |-> 0]

-----------------------------------------------------------------------------
(* The bounded caches. *)

\* Mutant: the cache is trimmed one entry late.
LateBounded(s, max) == IF Len(s) > max + 1 THEN Tail(s) ELSE s

\* An OrderedDict that keeps its newest max entries (popitem(last=False)).
Bounded(s, max) == IF Len(s) > max THEN Tail(s) ELSE s

RememberMessage(s, i) == Bounded(Append(Remove(s, i), i), MaxMessageIds)

\* The stored sequence of a booking, 0 when there is none.
CurrentSequence(b) ==
    LET stored == {s \in ToSet(sequences) : s.booking = b}
    IN  IF stored = {} THEN 0 ELSE (CHOOSE s \in stored : TRUE).sequence

WithoutBooking(b) == SelectSeq(sequences, LAMBDA s : s.booking # b)

StoreSequence(b, n) ==
    Bounded(Append(WithoutBooking(b), [booking |-> b, sequence |-> n]), MaxSequences)

\* _cleanup_locked: the oldest entry of a cache outlived its ttl.
ForgetMessage ==
    /\ faults.expired < MaxExpiries
    /\ messageIds # <<>>
    /\ messageIds' = Tail(messageIds)
    /\ faults' = [faults EXCEPT !.expired = @ + 1]
    /\ UNCHANGED <<sequences, calls, redis, delivered, browsers>>

ForgetSequence ==
    /\ faults.expired < MaxExpiries
    /\ sequences # <<>>
    /\ sequences' = Tail(sequences)
    /\ faults' = [faults EXCEPT !.expired = @ + 1]
    /\ UNCHANGED <<messageIds, calls, redis, delivered, browsers>>

-----------------------------------------------------------------------------
(* Browsers. *)

Subscribers(b) == {c \in Clients : browsers[c].on /\ Watches[c] = b}

\* resync_required: the page is reloaded over REST.
Resync(w, e) == [w EXCEPT !.known = Max({@, e.sequence})]

\* A status frame: ignored when it is not newer than the last one shown.
Show(w, e) ==
    LET counted == [w EXCEPT !.heard[e.id] = @ + 1]
    IN  IF e.sequence <= w.last THEN counted
        ELSE [counted EXCEPT !.last = e.sequence,
                             !.missed = @ \/ e.sequence > w.known + 1,
                             !.known = Max({@, e.sequence})]

\* ConnectionManager.broadcast of the control frame, of the event, or of both.
Broadcast(e, control, event) ==
    [c \in Clients |->
        IF c \notin Subscribers(e.booking) THEN browsers[c]
        ELSE LET told == IF control THEN Resync(browsers[c], e) ELSE browsers[c]
             IN  IF event THEN Show(told, e) ELSE told]

\* A send fails or times out: the connection is unregistered and closed.
Disconnect(c) ==
    /\ browsers[c].on
    /\ browsers' = [browsers EXCEPT ![c].on = FALSE]
    /\ UNCHANGED <<messageIds, sequences, calls, redis, delivered, faults>>

\* Every event the service was ever asked to publish happened before.
Observed(b) == Max({0} \cup {e.sequence : e \in {x \in Events :
                                x.booking = b /\ calls[x].attempts > 0}})

\* The browser reconnects; the connected frame makes it reload the booking.
Reconnect(c) ==
    /\ ~browsers[c].on
    /\ browsers' = [browsers EXCEPT ![c].on = TRUE,
                                    ![c].known = Max({@, Observed(Watches[c])})]
    /\ UNCHANGED <<messageIds, sequences, calls, redis, delivered, faults>>

-----------------------------------------------------------------------------
(* StatusEventProcessor.process. *)

Answered(e, outcome) == [calls EXCEPT ![e].phase = "answered", ![e].outcome = outcome]

\* The outbox posts the event, again when the answer was a failure or lost.
Posted(e) ==
    /\ calls[e].phase \in {"idle", "answered"}
    /\ calls[e].attempts < MaxAttempts

Again(e, c) == [c EXCEPT ![e].attempts = @ + 1]

Duplicate(e) ==
    /\ Posted(e)
    /\ e.id \in ToSet(messageIds)
    /\ calls' = Again(e, Answered(e, "duplicate"))
    /\ UNCHANGED <<messageIds, sequences, redis, delivered, browsers, faults>>

IsStale(e) == CurrentSequence(e.booking) # 0 /\ e.sequence <= CurrentSequence(e.booking)

Stale(e) ==
    /\ Posted(e)
    /\ e.id \notin ToSet(messageIds)
    /\ IsStale(e)
    /\ messageIds' = RememberMessage(messageIds, e.id)
    /\ calls' = Again(e, Answered(e, "stale"))
    /\ UNCHANGED <<sequences, redis, delivered, browsers, faults>>

\* Mutant: an unknown booking has no gap.
IsGapOfKnown(e) ==
    CurrentSequence(e.booking) # 0 /\ e.sequence > CurrentSequence(e.booking) + 1

IsGap(e) == e.sequence > CurrentSequence(e.booking) + 1

DeliveredOutcome(e) == IF Subscribers(e.booking) = {} THEN "no_subscribers" ELSE "accepted"

\* A new event is remembered and its sequence stored. The in-process backend
\* then broadcasts without giving up control until its first send: the control
\* frame when there is a gap, otherwise the event, which also answers.
AcceptNew(e, phase) ==
    /\ Posted(e)
    /\ e.id \notin ToSet(messageIds)
    /\ ~IsStale(e)
    /\ messageIds' = RememberMessage(messageIds, e.id)
    /\ sequences' = StoreSequence(e.booking, e.sequence)
    /\ calls' = Again(e, [calls EXCEPT ![e].phase = phase,
                                       ![e].previous = CurrentSequence(e.booking),
                                       ![e].gap = IsGap(e),
                                       ![e].outcome = IF phase = "answered"
                                                      THEN DeliveredOutcome(e) ELSE "none"])

AcceptInMemory(e) ==
    /\ Backend = "memory"
    /\ AcceptNew(e, IF IsGap(e) THEN "announced" ELSE "answered")
    /\ browsers' = Broadcast(e, IsGap(e), ~IsGap(e))
    /\ UNCHANGED <<redis, delivered, faults>>

\* After the control frame was sent, other requests may have run.
BroadcastAfterControl(e) ==
    /\ calls[e].phase = "announced"
    /\ browsers' = Broadcast(e, FALSE, TRUE)
    /\ calls' = Answered(e, DeliveredOutcome(e))
    /\ UNCHANGED <<messageIds, sequences, redis, delivered, faults>>

AcceptForRedis(e) ==
    /\ Backend = "redis"
    /\ AcceptNew(e, "publishing")
    /\ UNCHANGED <<redis, delivered, browsers, faults>>

\* The except branch: the message id is forgotten, and the sequence this event
\* stored is replaced by the one read before it, if it is still there.
RestoreSequence(e) ==
    IF CurrentSequence(e.booking) # e.sequence THEN sequences
    ELSE IF calls[e].previous = 0 THEN WithoutBooking(e.booking)
    ELSE [i \in DOMAIN sequences |->
             IF sequences[i].booking = e.booking
             THEN [sequences[i] EXCEPT !.sequence = calls[e].previous]
             ELSE sequences[i]]

PublishFailed(e) ==
    /\ messageIds' = Remove(messageIds, e.id)
    /\ sequences' = RestoreSequence(e)
    /\ calls' = [Answered(e, "unavailable") EXCEPT
                    ![e].failures = IF redis.available THEN @ + 1 ELSE @]

-----------------------------------------------------------------------------
(* RedisBroadcastBackend. *)

Envelope(e) == [event |-> e, gap |-> calls[e].gap]

\* Mutant: the request is answered as soon as Redis has the envelope.
PublishWithoutWaiting(e) ==
    /\ calls[e].phase = "publishing"
    /\ redis.available
    /\ redis' = [redis EXCEPT !.channel = IF redis.subscribed
                                          THEN Append(@, Envelope(e)) ELSE @]
    /\ calls' = Answered(e, "accepted")
    /\ UNCHANGED <<messageIds, sequences, delivered, browsers, faults>>

\* publish hands the envelope to Redis, which drops it without a subscriber.
Publish(e) ==
    /\ calls[e].phase = "publishing"
    /\ redis.available
    /\ redis' = IF redis.subscribed
                THEN [redis EXCEPT !.channel = Append(@, Envelope(e))]
                ELSE redis
    /\ calls' = [calls EXCEPT ![e].phase = "waiting"]
    /\ UNCHANGED <<messageIds, sequences, delivered, browsers, faults>>

RefusePublish(e) ==
    /\ calls[e].phase = "publishing"
    /\ ~redis.available
    /\ PublishFailed(e)
    /\ UNCHANGED <<redis, delivered, browsers, faults>>

\* Redis answers the PUBLISH command with an error.
PublishError(e) ==
    /\ calls[e].phase = "publishing"
    /\ redis.available
    /\ faults.redis < MaxFaults
    /\ redis' = [redis EXCEPT !.available = FALSE]
    /\ faults' = [faults EXCEPT !.redis = @ + 1]
    /\ PublishFailed(e)
    /\ UNCHANGED <<delivered, browsers>>

Travelling(e) == \E i \in DOMAIN redis.channel : redis.channel[i].event = e

\* Mutant: only a delivery that is under way can time out.
TimeoutWhileTravelling(e) ==
    /\ calls[e].phase = "waiting"
    /\ Travelling(e)
    /\ faults.redis < MaxFaults
    /\ redis' = [redis EXCEPT !.available = FALSE]
    /\ faults' = [faults EXCEPT !.redis = @ + 1]
    /\ PublishFailed(e)
    /\ UNCHANGED <<delivered, browsers>>

\* Two seconds passed without a delivery. While the envelope travels that is a
\* slow delivery; when it is gone, nothing else can happen.
WaiterTimeout(e) ==
    /\ calls[e].phase = "waiting"
    /\ Travelling(e) => faults.redis < MaxFaults
    /\ redis' = [redis EXCEPT !.available = FALSE]
    /\ faults' = IF Travelling(e) THEN [faults EXCEPT !.redis = @ + 1] ELSE faults
    /\ PublishFailed(e)
    /\ UNCHANGED <<delivered, browsers>>

\* _deliver: an envelope whose message id was delivered before is dropped, and
\* the request that published it is not told.
DropRepeated ==
    /\ redis.channel # <<>>
    /\ Head(redis.channel).event.id \in ToSet(delivered)
    /\ redis' = [redis EXCEPT !.channel = Tail(@)]
    /\ UNCHANGED <<messageIds, sequences, calls, delivered, browsers, faults>>

Wake(e) == IF calls[e].phase = "waiting" THEN Answered(e, DeliveredOutcome(e)) ELSE calls

\* Mutant: the delivered ids are not looked at.
DeliverAlways ==
    /\ redis.channel # <<>>
    /\ LET m == Head(redis.channel) IN
        /\ redis' = [redis EXCEPT !.channel = Tail(@)]
        /\ delivered' = RememberMessage(delivered, m.event.id)
        /\ browsers' = Broadcast(m.event, m.gap, TRUE)
        /\ calls' = Wake(m.event)
    /\ UNCHANGED <<messageIds, sequences, faults>>

Deliver ==
    /\ redis.channel # <<>>
    /\ LET m == Head(redis.channel) IN
        /\ m.event.id \notin ToSet(delivered)
        /\ redis' = [redis EXCEPT !.channel = Tail(@)]
        /\ delivered' = RememberMessage(delivered, m.event.id)
        /\ browsers' = Broadcast(m.event, m.gap, TRUE)
        /\ calls' = Wake(m.event)
    /\ UNCHANGED <<messageIds, sequences, faults>>

\* The subscription's socket fails or times out: what travelled is lost.
DropSubscription ==
    /\ Backend = "redis"
    /\ redis.subscribed
    /\ faults.redis < MaxFaults
    /\ redis' = [channel |-> <<>>, subscribed |-> FALSE, available |-> FALSE]
    /\ faults' = [faults EXCEPT !.redis = @ + 1]
    /\ UNCHANGED <<messageIds, sequences, calls, delivered, browsers>>

\* An idle subscription runs into the socket's read timeout as well; no
\* envelope travels then, and the loop subscribes again.
RenewIdle ==
    /\ redis.subscribed
    /\ ~redis.available
    /\ redis.channel = <<>>
    /\ redis' = [redis EXCEPT !.subscribed = FALSE]
    /\ UNCHANGED <<messageIds, sequences, calls, delivered, browsers, faults>>

Resubscribe ==
    /\ ~redis.subscribed
    /\ redis' = [redis EXCEPT !.subscribed = TRUE, !.available = TRUE]
    /\ UNCHANGED <<messageIds, sequences, calls, delivered, browsers, faults>>

-----------------------------------------------------------------------------
(* The specification. *)

Ingest(e) ==
    \/ Duplicate(e)
    \/ Stale(e)
    \/ AcceptInMemory(e)
    \/ AcceptForRedis(e)

Consume ==
    \/ DropRepeated
    \/ Deliver
    \/ RenewIdle
    \/ Resubscribe

Next ==
    \/ \E e \in Events : Ingest(e)
    \/ \E e \in Events : BroadcastAfterControl(e)
    \/ \E e \in Events : Publish(e) \/ RefusePublish(e) \/ PublishError(e)
    \/ \E e \in Events : WaiterTimeout(e)
    \/ Consume
    \/ DropSubscription
    \/ \E c \in Clients : Disconnect(c) \/ Reconnect(c)
    \/ ForgetMessage
    \/ ForgetSequence

\* A request that is being served goes on, its waiter times out when nothing
\* can answer it, and the consumer task keeps reading and subscribing.
Fairness ==
    /\ \A e \in Events :
        /\ WF_vars(Publish(e) \/ RefusePublish(e))
        /\ WF_vars(~Travelling(e) /\ WaiterTimeout(e))
    /\ WF_vars(Consume)

Spec == Init /\ [][Next]_vars

FairSpec == Spec /\ Fairness

-----------------------------------------------------------------------------
(* Properties. *)

Calls == [phase : {"idle", "publishing", "announced", "waiting", "answered"},
          previous : Nat, gap : BOOLEAN,
          outcome : {"none", "accepted", "no_subscribers", "duplicate", "stale", "unavailable"},
          attempts : 0..MaxAttempts, failures : 0..MaxAttempts]

\* The caches hold each key once and never more than their configured number
\* of entries, in the processor and in the Redis backend.
TypeOK ==
    /\ messageIds \in SeqOf(Ids, MaxMessageIds) /\ IsInjective(messageIds)
    /\ delivered \in SeqOf(Ids, MaxMessageIds) /\ IsInjective(delivered)
    /\ Len(sequences) <= MaxSequences
    /\ \A i, j \in DOMAIN sequences :
        sequences[i].booking = sequences[j].booking => i = j
    /\ calls \in [Events -> Calls]
    /\ \A c \in Clients : browsers[c].heard \in [Ids -> Nat]

\* No browser is sent the same status event twice, however often the outbox
\* posts it: the processor's message ids and, when a late delivery was rolled
\* back as a failure, the backend's delivered ids stop the second broadcast.
NeverBroadcastTwice ==
    \A c \in Clients, i \in Ids : browsers[c].heard[i] <= 1

\* A browser shows a status beyond the next one only after it was told to
\* reload the booking: gaps are announced although the processor forgets
\* sequences (size and ttl) and requests overlap between two frames.
GapIsAnnounced ==
    \A c \in Clients : ~browsers[c].missed

\* The gateway is answered ACCEPTED only for an event that every subscriber
\* was sent: a browser that stays connected has shown it, or a later one.
AcceptedWasShown ==
    \A e \in Events, c \in Clients :
        calls[e].outcome = "accepted" /\ browsers[c].on /\ Watches[c] = e.booking
            => Max({browsers[c].last, browsers[c].known}) >= e.sequence

\* A publish that failed can be retried: the retry is never answered as stale.
FailedPublishCanBeRetried ==
    \A e \in Events : calls[e].failures > 0 => calls[e].outcome # "stale"

\* One fault costs an event one failed publish: the retry succeeds.
EachFailureHasAFault ==
    \A e \in Events : calls[e].failures <= faults.redis

\* No request waits for ever for a delivery that Redis lost.
RequestIsAnswered ==
    \A e \in Events : calls[e].phase = "publishing" ~> calls[e].phase = "answered"

-----------------------------------------------------------------------------
=============================================================================
