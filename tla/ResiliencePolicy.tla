-------------------------- MODULE ResiliencePolicy --------------------------
(***************************************************************************)
(* The gateway's ResiliencePolicy for one dependency: a circuit breaker, a *)
(* bulkhead (an asyncio semaphore, first come first served) and bounded    *)
(* retries under a deadline, driven by the calls of concurrent requests.   *)
(*                                                                         *)
(* Times are kept as what is left of them and ages, so that the clock has  *)
(* no bound: one Tick is one unit of the monotonic clock.                  *)
(***************************************************************************)
EXTENDS Naturals, Sequences, FiniteSets, SequencesExt

CONSTANTS
    Callers,         \* concurrent requests
    Limit,           \* permits of the bulkhead
    FailureLimit,    \* failures that open the circuit (5 in the code)
    Window,          \* how long a failure counts (30 seconds)
    OpenTime,        \* how long the circuit stays open (20 seconds)
    Timeout,         \* dependency_timeout_seconds
    Adapter          \* which adapter makes the calls

ResilienceAssumption ==
    /\ {Limit, FailureLimit, Window, OpenTime, Timeout} \subseteq Nat \ {0}
    /\ Adapter \in {"rest", "soap", "identity"}

VARIABLES
    failures,   \* ages of the failures that are remembered, oldest first
    openFor,    \* how long the circuit is still open
    permits,    \* free permits of the bulkhead
    queue,      \* callers waiting for one
    calls,      \* calls[c]: the call of execute caller c is in
    healthy     \* whether the dependency answers

vars == <<failures, openFor, permits, queue, calls, healthy>>

Modes == {"safe_read", "idempotent_command", "side_effect"}

MaxAttempts(mode) == [safe_read |-> 3, idempotent_command |-> 2, side_effect |-> 1][mode]

\* left: what remains of the deadline.
NoCall == [phase |-> "idle", mode |-> "side_effect", attempt |-> 0, left |-> 0, answer |-> "none"]

Init ==
    /\ failures = <<>>
    /\ openFor = 0
    /\ permits = Limit
    /\ queue = <<>>
    /\ calls = [c \in Callers |-> NoCall]
    /\ healthy \in BOOLEAN

IsOpen == openFor > 0

-----------------------------------------------------------------------------
(* How an attempt may end, as the policy sees it: "success", an EsbError that *)
(* is "rejected" or "retryable" (or the deadline), or an httpx transport      *)
(* error that is neither an EsbError nor an OSError. up: the dependency       *)
(* answers, and none of its errors is retryable.                              *)

\* RestClient: 4xx is rejected, 5xx and invalid JSON are retryable.
RestOutcomes(up) == IF up THEN {"success", "rejected"} ELSE {"retryable", "transport"}

\* SeatSoapAdapter: a SOAP fault says itself whether it is retryable, and a
\* response that violates the schema is rejected also when the service fails.
SoapOutcomes(up) ==
    IF up THEN {"success", "rejected"} ELSE {"retryable", "rejected", "transport"}

\* IdentityProxyAdapter wraps transport errors, and passes every response on,
\* also a 5xx.
IdentityOutcomes(up) == IF up THEN {"success"} ELSE {"retryable", "success"}

Outcomes ==
    CASE Adapter = "rest" -> RestOutcomes(healthy)
      [] Adapter = "soap" -> SoapOutcomes(healthy)
      [] Adapter = "identity" -> IdentityOutcomes(healthy)

-----------------------------------------------------------------------------
(* execute. *)

\* Mutant: a call that is refused keeps the circuit open.
BeginExtending(c, mode, left) ==
    /\ calls[c].phase = "idle"
    /\ IF IsOpen
       THEN /\ calls' = [calls EXCEPT ![c] = [NoCall EXCEPT !.answer = "DEPENDENCY_CIRCUIT_OPEN"]]
            /\ openFor' = OpenTime
            /\ UNCHANGED <<permits, queue>>
       ELSE /\ calls' = [calls EXCEPT ![c] = [NoCall EXCEPT !.phase = "queued", !.mode = mode,
                                                            !.left = left]]
            /\ queue' = Append(queue, c)
            /\ UNCHANGED <<permits, openFor>>
    /\ UNCHANGED <<failures, healthy>>

\* The circuit is looked at once, before the wait for the bulkhead.
Begin(c, mode, left) ==
    /\ calls[c].phase = "idle"
    /\ IF IsOpen
       THEN /\ calls' = [calls EXCEPT ![c] = [NoCall EXCEPT !.answer = "DEPENDENCY_CIRCUIT_OPEN"]]
            /\ queue' = queue
       ELSE /\ calls' = [calls EXCEPT ![c] = [NoCall EXCEPT !.phase = "queued", !.mode = mode,
                                                            !.left = left]]
            /\ queue' = Append(queue, c)
    /\ UNCHANGED <<failures, openFor, permits, healthy>>

\* Mutant: the bulkhead counts its callers after it let them in.
AcquireUncounted(c) ==
    /\ queue # <<>> /\ Head(queue) = c
    /\ permits > 0
    /\ queue' = Tail(queue)
    /\ calls' = [calls EXCEPT ![c].phase = "ready"]
    /\ UNCHANGED <<failures, openFor, permits, healthy>>

Acquire(c) ==
    /\ queue # <<>> /\ Head(queue) = c
    /\ permits > 0
    /\ permits' = permits - 1
    /\ queue' = Tail(queue)
    /\ calls' = [calls EXCEPT ![c].phase = "ready"]
    /\ UNCHANGED <<failures, openFor, healthy>>

\* The call leaves the bulkhead with its answer.
Leave(c, answer) ==
    /\ permits' = permits + 1
    /\ calls' = [calls EXCEPT ![c] = [NoCall EXCEPT !.answer = answer]]

\* An attempt begins unless the deadline is over.
Attempt(c) ==
    /\ calls[c].phase = "ready"
    /\ IF calls[c].left = 0 THEN Leave(c, "DEPENDENCY_TIMEOUT")
       ELSE /\ permits' = permits
            /\ calls' = [calls EXCEPT ![c].phase = "sent", ![c].attempt = @ + 1]
    /\ UNCHANGED <<failures, openFor, queue, healthy>>

Succeed(c) ==
    /\ calls[c].phase = "sent"
    /\ "success" \in Outcomes
    /\ failures' = <<>>
    /\ Leave(c, "SUCCESS")
    /\ UNCHANGED <<openFor, queue, healthy>>

\* Mutant: an error that is not retried leaves without its permit.
RejectHolding(c) ==
    /\ calls[c].phase = "sent"
    /\ permits' = permits
    /\ calls' = [calls EXCEPT ![c] = [NoCall EXCEPT !.answer = "REJECTED"]]
    /\ UNCHANGED <<failures, openFor, queue, healthy>>

\* An EsbError that is not retryable is raised at once and not counted; so is
\* a transport error the adapter did not wrap, which is no OSError.
Reject(c) ==
    /\ calls[c].phase = "sent"
    /\ \E outcome \in Outcomes \cap {"rejected", "transport"} :
         Leave(c, IF outcome = "rejected" THEN "REJECTED" ELSE "TRANSPORT_ERROR")
    /\ UNCHANGED <<failures, openFor, queue, healthy>>

Remembered == SelectSeq(Append(failures, 0), LAMBDA age : age <= Window)

\* Mutant: one attempt too many.
FailOnceMore(c) ==
    /\ calls[c].phase = "sent"
    /\ "retryable" \in Outcomes
    /\ failures' = Remembered
    /\ openFor' = IF Len(Remembered) >= FailureLimit THEN OpenTime ELSE openFor
    /\ IF calls[c].attempt <= MaxAttempts(calls[c].mode)
       THEN /\ permits' = permits
            /\ calls' = [calls EXCEPT ![c].phase = "ready"]
       ELSE Leave(c, "DEPENDENCY_UNAVAILABLE")
    /\ UNCHANGED <<queue, healthy>>

\* A retryable error or the deadline: the failure is counted, the circuit may
\* open, and the call backs off or gives up.
Fail(c) ==
    /\ calls[c].phase = "sent"
    /\ "retryable" \in Outcomes
    /\ failures' = Remembered
    /\ openFor' = IF Len(Remembered) >= FailureLimit THEN OpenTime ELSE openFor
    /\ IF calls[c].attempt < MaxAttempts(calls[c].mode)
       THEN /\ permits' = permits
            /\ calls' = [calls EXCEPT ![c].phase = "ready"]
       ELSE Leave(c, "DEPENDENCY_UNAVAILABLE")
    /\ UNCHANGED <<queue, healthy>>

-----------------------------------------------------------------------------
(* The clock and the dependency. *)

Less(n) == IF n = 0 THEN 0 ELSE n - 1

\* wait_for fires before the clock passes a deadline; the failures' ages stop
\* where they are forgotten.
Tick ==
    /\ \A c \in Callers : calls[c].phase = "sent" => calls[c].left > 0
    /\ failures' = [i \in DOMAIN failures |-> IF failures[i] > Window THEN failures[i]
                                              ELSE failures[i] + 1]
    /\ openFor' = Less(openFor)
    /\ calls' = [c \in Callers |-> [calls[c] EXCEPT !.left = Less(@)]]
    /\ UNCHANGED <<permits, queue, healthy>>

DependencyChanges ==
    /\ healthy' = ~healthy
    /\ UNCHANGED <<failures, openFor, permits, queue, calls>>

-----------------------------------------------------------------------------
(* The specification. *)

Execute(c) ==
    \/ \E mode \in Modes, left \in 1..Timeout : Begin(c, mode, left)
    \/ Acquire(c)
    \/ Attempt(c)
    \/ Succeed(c)
    \/ Reject(c)
    \/ Fail(c)

Next == (\E c \in Callers : Execute(c)) \/ Tick \/ DependencyChanges

\* A dependency that is not healthy is down, slow or failing; at its deadline
\* every attempt has come to an end.
Ends(c) == calls[c].left = 0 /\ (Succeed(c) \/ Reject(c) \/ Fail(c))

\* The event loop runs what is ready, and time passes.
Fairness ==
    /\ WF_vars(Tick)
    /\ \A c \in Callers : WF_vars(Acquire(c)) /\ WF_vars(Attempt(c)) /\ WF_vars(Ends(c))

Spec == Init /\ [][Next]_vars

FairSpec == Spec /\ Fairness

-----------------------------------------------------------------------------
(* Properties. *)

Holders == {c \in Callers : calls[c].phase \in {"ready", "sent"}}

CallType ==
    [phase : {"idle", "queued", "ready", "sent"}, mode : Modes, attempt : Nat,
     left : 0..Timeout,
     answer : {"none", "SUCCESS", "REJECTED", "TRANSPORT_ERROR", "DEPENDENCY_TIMEOUT",
               "DEPENDENCY_UNAVAILABLE", "DEPENDENCY_CIRCUIT_OPEN"}]

\* The permits and the calls that hold one add up, whatever way calls end, and
\* the queue holds exactly the callers that wait.
TypeOK ==
    /\ failures \in Seq(0..Window + 1)
    /\ calls \in [Callers -> CallType]
    /\ permits + Cardinality(Holders) = Limit
    /\ ToSet(queue) = {c \in Callers : calls[c].phase = "queued"}
    /\ Len(queue) = Cardinality(ToSet(queue))
    /\ openFor \in 0..OpenTime

\* A command without an Idempotency-Key is sent at most once, and no call more
\* often than its mode allows, although failed attempts begin again.
AttemptsBounded ==
    \A c \in Callers : calls[c].attempt <= MaxAttempts(calls[c].mode)

\* Every call comes to an answer, also one that waits for the bulkhead.
CallsEnd == \A c \in Callers : calls[c].phase # "idle" ~> calls[c].phase = "idle"

\* When the dependency stays healthy the circuit closes for good, although
\* requests keep coming and refused ones keep asking.
CircuitCloses == <>[]healthy => <>[](~IsOpen)

\* No call is still waiting when its deadline is over.
DeadlineKept ==
    [][Tick => \A c \in Callers : calls[c].phase = "queued" => calls[c].left > 0]_vars
=============================================================================
