--------------------------- MODULE EventDelivery ---------------------------
(***************************************************************************)
(* From the gateway's outbox to the customer's mail: the outbox workers of *)
(* the gateway replicas, the webhook of Notification Service and the retry *)
(* an operator asks for.                                                   *)
(*                                                                         *)
(* A worker lists the due messages, publishes them one after the other and *)
(* stores each outcome; it claims nothing.  Notification serves a webhook  *)
(* in separate transactions (look the event up, insert the delivery, send, *)
(* update) and goes on after the caller gave up waiting.  When a message   *)
(* is due again is a matter of time only, so every PENDING one may be.     *)
(***************************************************************************)
EXTENDS Integers, Sequences, FiniteSets, SequencesExt

CONSTANTS
  Events,        \* outbox messages, which are the events of the webhook
  Replicas,      \* gateway processes
  RetryKeys,     \* idempotency keys of operators' retries
  None,
  MaxAttempts,   \* outbox_max_attempts
  BatchSize,     \* outbox_batch_size
  MaxCalls,      \* bound on webhook and retry requests
  MaxCrashes,    \* bound on crashes, of either side
  MaxStorageFaults,  \* bound on failures of the gateway's database
  MaxVersion     \* bound on a delivery's resource_version

DeliveryBounds ==
  /\ {MaxAttempts, BatchSize, MaxVersion} \subseteq Nat \ {0}
  /\ {MaxCalls, MaxCrashes, MaxStorageFaults} \subseteq Nat

VARIABLES
  messages,    \* the outbox
  worker,      \* each replica's worker
  deliveries,  \* Notification's rows, by event
  handlers,    \* requests Notification is serving, or has answered and nobody heard
  mails,       \* mails the provider sent, by event, for webhooks and for retries
  sends,       \* sends made for each retry key
  calls, crashes, storageFaults

vars == <<messages, worker, deliveries, handlers, mails, sends, calls, crashes, storageFaults>>

Message == [state : {"PENDING", "SENT", "DEAD_LETTER"}, attempts : 0 .. MaxAttempts]
Delivery ==
  [status : {"PENDING", "DELIVERED", "RETRY_PENDING"}, attempts : 0 .. MaxVersion,
   version : 1 .. MaxVersion]

IdleWorker == [pc |-> "idle", batch |-> <<>>, call |-> None]
NewMessage == [state |-> "PENDING", attempts |-> 0]
NewDelivery == [status |-> "PENDING", attempts |-> 0, version |-> 1]

Init ==
  /\ messages = [e \in Events |-> None]
  /\ worker = [r \in Replicas |-> IdleWorker]
  /\ deliveries = [e \in Events |-> None]
  /\ handlers = {} /\ mails = [e \in Events |-> [webhook |-> 0, retry |-> 0]] /\ sends = [k \in RetryKeys |-> 0]
  /\ calls = 0 /\ crashes = 0 /\ storageFaults = 0

-----------------------------------------------------------------------------
(* The outbox and its workers. *)

\* save_with_outbox: the saga's step and its message are one transaction.
AddMessage(e) ==
  /\ messages[e] = None
  /\ messages' = [messages EXCEPT ![e] = NewMessage]
  /\ UNCHANGED <<worker, deliveries, handlers, mails, sends, calls, crashes, storageFaults>>

Pending == {e \in Events : messages[e] # None /\ messages[e].state = "PENDING"}

\* due: a snapshot of some due messages, at most a batch, in some order.
Due(r) ==
  /\ worker[r].pc = "idle" /\ Pending # {}
  /\ \E S \in SUBSET Pending : \E q \in SetToSeqs(S) :
       /\ S # {} /\ Cardinality(S) <= BatchSize
       /\ worker' = [worker EXCEPT ![r] = [pc |-> "publish", call |-> None,
                       batch |-> [i \in DOMAIN q |-> [event |-> q[i], message |-> messages[q[i]]]]]]
  /\ UNCHANGED <<messages, deliveries, handlers, mails, sends, calls, crashes, storageFaults>>

Handler(n, e, kind) == [id |-> n, event |-> e, kind |-> kind, pc |-> "look", answer |-> None,
                        row |-> None, key |-> None]

\* The request leaves; there is one attempt (side_effect).
Publish(r) ==
  LET w == worker[r]
  IN  /\ w.pc = "publish" /\ calls < MaxCalls
      /\ calls' = calls + 1
      /\ handlers' = handlers \cup {Handler(calls, Head(w.batch).event, "webhook")}
      /\ worker' = [worker EXCEPT ![r].pc = "wait", ![r].call = calls]
      /\ UNCHANGED <<messages, deliveries, mails, sends, crashes, storageFaults>>

\* Mutation: a failure is not counted.
Uncounted(m, ok) == IF ok THEN [m EXCEPT !.state = "SENT"] ELSE m

\* Mutation: one attempt too many.
OneTooMany(m, ok) ==
  IF ok THEN [m EXCEPT !.state = "SENT"]
  ELSE [m EXCEPT !.attempts = @ + 1,
                 !.state = IF m.attempts >= MaxAttempts THEN "DEAD_LETTER" ELSE "PENDING"]

\* What the attempt makes of the message the worker listed.
Outcome(m, ok) ==
  IF ok THEN [m EXCEPT !.state = "SENT"]
  ELSE [m EXCEPT !.attempts = @ + 1,
                 !.state = IF m.attempts + 1 >= MaxAttempts THEN "DEAD_LETTER" ELSE "PENDING"]

\* save_message writes the whole message over what is stored.
Settled(r, ok) ==
  LET w == worker[r]
      item == Head(w.batch)
      rest == Tail(w.batch)
  IN  /\ messages' = [messages EXCEPT ![item.event] = Outcome(item.message, ok)]
      /\ worker' = [worker EXCEPT ![r] = IF rest = <<>> THEN IdleWorker
                                         ELSE [pc |-> "publish", batch |-> rest, call |-> None]]

\* The service cannot be reached, or its circuit is open.
Unreachable(r) ==
  /\ worker[r].pc = "publish"
  /\ Settled(r, FALSE)
  /\ UNCHANGED <<deliveries, handlers, mails, sends, calls, crashes, storageFaults>>

AnswerHeard(r) ==
  /\ worker[r].pc = "wait"
  /\ \E h \in handlers :
       /\ h.id = worker[r].call /\ h.pc = "answered"
       /\ Settled(r, h.answer = 202)
       /\ handlers' = handlers \ {h}
  /\ UNCHANGED <<deliveries, mails, sends, calls, crashes, storageFaults>>

\* Mutation: a timeout counts as sent.
TimeoutIsSent(r) ==
  /\ worker[r].pc = "wait" /\ Settled(r, TRUE)
  /\ UNCHANGED <<deliveries, handlers, mails, sends, calls, crashes, storageFaults>>

\* The deadline passes, the connection breaks or the service crashed: the handler, if
\* there is one, goes on.
AnswerMissed(r) ==
  /\ worker[r].pc = "wait" /\ Settled(r, FALSE)
  /\ UNCHANGED <<deliveries, handlers, mails, sends, calls, crashes, storageFaults>>

\* due or save_message raises: run_forever ends with it, and the process lives on
\* without its worker.
StorageFails(r) ==
  /\ storageFaults < MaxStorageFaults /\ worker[r].pc # "dead"
  /\ storageFaults' = storageFaults + 1
  /\ worker' = [worker EXCEPT ![r] = [IdleWorker EXCEPT !.pc = "dead"]]
  /\ UNCHANGED <<messages, deliveries, handlers, mails, sends, calls, crashes>>

\* The batch is forgotten; what it had not stored is listed again.
CrashReplica(r) ==
  /\ crashes < MaxCrashes /\ worker[r].pc # "idle"
  /\ crashes' = crashes + 1
  /\ worker' = [worker EXCEPT ![r] = IdleWorker]
  /\ UNCHANGED <<messages, deliveries, handlers, mails, sends, calls, storageFaults>>

-----------------------------------------------------------------------------
(* Notification Service. *)

To(h, g) == handlers' = (handlers \ {h}) \cup {g}
Answered(h, code) == [h EXCEPT !.pc = "answered", !.answer = code, !.row = None]
Untouched == UNCHANGED <<messages, worker, calls, crashes, storageFaults>>

\* receive_event looks the event up.
LookUp(h) ==
  /\ h.pc = "look" /\ h.kind = "webhook"
  /\ To(h, IF deliveries[h.event] # None THEN Answered(h, 409) ELSE [h EXCEPT !.pc = "add"])
  /\ Untouched /\ UNCHANGED <<deliveries, mails, sends>>

\* Mutation: the event's row is replaced.
Upsert(h) ==
  /\ h.pc = "add"
  /\ deliveries' = [deliveries EXCEPT ![h.event] = NewDelivery]
  /\ To(h, [h EXCEPT !.pc = "send", !.row = NewDelivery])
  /\ Untouched /\ UNCHANGED <<mails, sends>>

\* The event id is unique: a handler that lost the race is answered 500.
AddDelivery(h) ==
  /\ h.pc = "add"
  /\ IF deliveries[h.event] = None
       THEN /\ deliveries' = [deliveries EXCEPT ![h.event] = NewDelivery]
            /\ To(h, [h EXCEPT !.pc = "send", !.row = NewDelivery])
       ELSE UNCHANGED deliveries /\ To(h, Answered(h, 500))
  /\ Untouched /\ UNCHANGED <<mails, sends>>

\* provider.send succeeds or raises; the row is changed in memory only.
Send(h) ==
  /\ h.pc = "send" /\ h.row.version < MaxVersion
  /\ \E ok \in BOOLEAN :
       /\ mails' = IF ok THEN [mails EXCEPT ![h.event][h.kind] = @ + 1] ELSE mails
       /\ sends' = IF ok /\ h.key # None THEN [sends EXCEPT ![h.key] = @ + 1] ELSE sends
       /\ To(h, [h EXCEPT !.pc = "update",
                  !.row = [status |-> IF ok THEN "DELIVERED" ELSE "RETRY_PENDING",
                           attempts |-> @.attempts + 1, version |-> @.version + 1]])
  /\ Untouched /\ UNCHANGED deliveries

\* update writes every column.
UpdateDelivery(h) ==
  /\ h.pc = "update"
  /\ deliveries' = [deliveries EXCEPT ![h.event] = h.row]
  /\ IF h.kind = "webhook" THEN To(h, Answered(h, 202)) ELSE handlers' = handlers \ {h}
  /\ Untouched /\ UNCHANGED <<mails, sends>>

\* An operator's retry reads the delivery with the version it expects, compares the
\* status and sends again; the key is required and not used.
RetryDelivery(e, k) ==
  /\ deliveries[e] # None /\ deliveries[e].status = "RETRY_PENDING"
  /\ calls < MaxCalls /\ calls' = calls + 1
  /\ handlers' = handlers \cup {[Handler(calls, e, "retry") EXCEPT !.pc = "send", !.key = k,
                                                                   !.row = deliveries[e]]}
  /\ UNCHANGED <<messages, worker, deliveries, mails, sends, crashes, storageFaults>>

\* Requests being served are lost; a delivery that was only inserted stays PENDING.
CrashNotification ==
  /\ crashes < MaxCrashes /\ handlers # {}
  /\ crashes' = crashes + 1
  /\ handlers' = {}
  /\ UNCHANGED <<messages, worker, deliveries, mails, sends, calls, storageFaults>>

-----------------------------------------------------------------------------

ServeStep == \E h \in handlers : LookUp(h) \/ AddDelivery(h) \/ Send(h) \/ UpdateDelivery(h)
WorkerStep(r) == Due(r) \/ Publish(r) \/ Unreachable(r) \/ AnswerHeard(r) \/ AnswerMissed(r)

Next ==
  \/ \E e \in Events : AddMessage(e)
  \/ \E r \in Replicas : WorkerStep(r) \/ StorageFails(r) \/ CrashReplica(r)
  \/ ServeStep
  \/ \E e \in Events, k \in RetryKeys : RetryDelivery(e, k)
  \/ CrashNotification

Spec == Init /\ [][Next]_vars

\* The workers poll for ever and a request that is being served goes on.
FairSpec == Spec /\ (\A r \in Replicas : WF_vars(WorkerStep(r))) /\ WF_vars(ServeStep)

-----------------------------------------------------------------------------
(* Properties. *)

TypeOK ==
  /\ \A e \in Events : /\ messages[e] = None \/ messages[e] \in Message
                       /\ deliveries[e] = None \/ deliveries[e] \in Delivery
  /\ \A r \in Replicas : worker[r].pc \in {"idle", "publish", "wait", "dead"}
  /\ \A h \in handlers : /\ h.id < calls /\ h.pc \in {"look", "add", "send", "update", "answered"}
                         /\ h.pc \in {"send", "update"} => h.row \in Delivery

\* A message that is marked SENT was processed: Notification has its delivery, and a mail
\* went out or is waiting for a retry, also when answers are lost and either side crashes.
SentWasProcessed ==
  \A e \in Events : messages[e] # None /\ messages[e].state = "SENT" =>
    /\ deliveries[e] # None /\ deliveries[e].status # "PENDING"
    /\ deliveries[e].status = "DELIVERED" => mails[e].webhook + mails[e].retry > 0

\* However often a message is published, its webhook sends one mail at most: a timeout,
\* a crash or two replicas publishing at once do not send a second one.
WebhookMailsOnce == \A e \in Events : mails[e].webhook <= 1

\* A message in the outbox is sent or given up, in finitely many attempts.
MessageSettles ==
  \A e \in Events :
    (messages[e] # None /\ messages[e].state = "PENDING")
      ~> (messages[e] # None /\ messages[e].state # "PENDING")

\* A message is given up only while Notification has no delivery for it.
AcceptedIsNotDeadLetter ==
  \A e \in Events : messages[e] # None /\ messages[e].state = "DEAD_LETTER" => deliveries[e] = None

\* A message that was sent is never published again or given up.
SentIsFinal ==
  [][\A e \in Events : messages[e] # None /\ messages[e].state = "SENT" => messages'[e] = messages[e]]_vars

\* A retry repeated under its key sends one mail at most.
RetryKeySendsOnce == \A k \in RetryKeys : sends[k] <= 1
=============================================================================
