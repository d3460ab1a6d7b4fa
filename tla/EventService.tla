---------------------------- MODULE EventService ----------------------------
(***************************************************************************)
(* The Event Service: events with their sales status and ticket types.     *)
(*                                                                         *)
(* As in the Customer Service, a command reads the event in one            *)
(* transaction, checks If-Match and the status, and saves its copy in      *)
(* another one, without a lock. Saving replaces the rows of the ticket     *)
(* types the session loaded by new ones. One list of ticket types is one   *)
(* member of "types", named by the request that wrote it.                  *)
(***************************************************************************)
EXTENDS Naturals, FiniteSets, UnitOfWork

CONSTANTS
    Callers,      \* concurrent requests
    None,         \* a model value
    MaxEvents,    \* events ever created
    MaxRequests   \* requests ever begun

EventAssumption ==
    {MaxEvents, MaxRequests} \subseteq Nat \ {0}

VARIABLES
    events,   \* the events and ticket_types tables: [1..n -> row]
    onTime,   \* onTime[e]: the present lies in the sale window
    calls,    \* calls[c]: the request caller c runs
    begun,    \* how many requests were begun
    writes    \* which request made a version of an event into the next

vars == <<events, onTime, calls, begun, writes>>

Statuses == {"DRAFT", "ON_SALE", "PAUSED", "ENDED", "CANCELLED"}

AllowedTransitions ==
    [DRAFT |-> {"ON_SALE", "CANCELLED"},
     ON_SALE |-> {"PAUSED", "ENDED", "CANCELLED"},
     PAUSED |-> {"ON_SALE", "ENDED", "CANCELLED"},
     ENDED |-> {},
     CANCELLED |-> {}]

NoCall == [op |-> "none", phase |-> "idle", id |-> 0, from |-> 0, number |-> 0,
           entity |-> None, loaded |-> None, answer |-> "none"]

Init ==
    /\ events = <<>>
    /\ onTime = [e \in 1..MaxEvents |-> FALSE]
    /\ calls = [c \in Callers |-> NoCall]
    /\ begun = 0
    /\ writes = {}

Begin(c, call) ==
    /\ calls[c].phase = "idle"
    /\ begun < MaxRequests
    /\ begun' = begun + 1
    /\ calls' = [calls EXCEPT ![c] = [call EXCEPT !.number = begun + 1]]

Answer(c, answer) == [calls EXCEPT ![c] = [NoCall EXCEPT !.op = calls[c].op, !.answer = answer]]

\* create_event: next_id and add.
CreateEvent(c) ==
    LET id == Cardinality(DOMAIN events) + 1 IN
    /\ id <= MaxEvents
    /\ Begin(c, [NoCall EXCEPT !.op = "create", !.answer = "SUCCESS"])
    /\ events' = [e \in DOMAIN events \cup {id} |->
                    IF e # id THEN events[e]
                    ELSE [status |-> "DRAFT", version |-> 1, types |-> {begun + 1}]]
    /\ UNCHANGED <<onTime, writes>>

-----------------------------------------------------------------------------
(* Lifecycle commands and the replacement of the details. *)

\* The status a command asks for.
Target(op) ==
    [publish |-> "ON_SALE", pause |-> "PAUSED", close |-> "ENDED", cancel |-> "CANCELLED"][op]

LifecycleCommands == {"publish", "pause", "close", "cancel"}

\* Mutant: any status may follow any other.
TransitionUnchecked(op, event) == op \in LifecycleCommands => Target(op) # event.status

\* ensure_transition_allowed; the details may be replaced in every status.
IsAllowed(op, event) == op \in LifecycleCommands => Target(op) \in AllowedTransitions[event.status]

\* Mutant: the version in If-Match is not compared.
RefusalByStatus(op, event, version) ==
    IF ~IsAllowed(op, event) THEN "INVALID_STATE_TRANSITION" ELSE "none"

\* Why a command is refused on the event it read.
Refusal(op, event, version) ==
    IF event.version # version THEN "VERSION_CONFLICT"
    ELSE IF ~IsAllowed(op, event) THEN "INVALID_STATE_TRANSITION"
    ELSE "none"

\* Mutant: the version moves when the command is one of the lifecycle only.
TouchedCommand(op, event, number) ==
    [event EXCEPT !.status = IF op \in LifecycleCommands THEN Target(op) ELSE @,
                  !.version = IF op \in LifecycleCommands THEN @ + 1 ELSE @,
                  !.types = IF op = "replace" THEN {number} ELSE @]

\* The command's copy after its change and touch.
Touched(op, event, number) ==
    [event EXCEPT !.status = IF op \in LifecycleCommands THEN Target(op) ELSE @,
                  !.version = @ + 1,
                  !.types = IF op = "replace" THEN {number} ELSE @]

\* The event is read, and the command checked against it.
BeginCommand(c, op, e, version) ==
    /\ e \in DOMAIN events
    /\ LET refusal == Refusal(op, events[e], version) IN
       Begin(c, IF refusal # "none" THEN [NoCall EXCEPT !.op = op, !.answer = refusal]
                ELSE [NoCall EXCEPT !.op = op, !.id = e, !.from = version, !.phase = "loading",
                                    !.entity = Touched(op, events[e], begun + 1)])
    /\ UNCHANGED <<events, onTime, writes>>

\* update: session.get with the ticket types ...
LoadEvent(c) ==
    /\ calls[c].phase = "loading"
    /\ calls' = [calls EXCEPT ![c].phase = "flushing", ![c].loaded = events[calls[c].id]]
    /\ UNCHANGED <<events, onTime, begun, writes>>

\* Mutant: the new ticket types are added to those that were loaded.
TypesAppended(c) == events[calls[c].id].types \cup {calls[c].number}

\* The loaded rows are deleted where they still are, and new rows inserted,
\* also by a command that leaves the ticket types as they are.
TypesReplaced(c) == (events[calls[c].id].types \ calls[c].loaded.types) \cup {calls[c].number}

\* ... and the flush at its commit.
FlushEvent(c) ==
    LET e == calls[c].id IN
    /\ calls[c].phase = "flushing"
    /\ events' = [events EXCEPT ![e] = [Flushed(@, calls[c].loaded, calls[c].entity)
                                            EXCEPT !.types = TypesReplaced(c)]]
    /\ writes' = writes \cup {[id |-> e, from |-> calls[c].from, by |-> calls[c].number]}
    /\ calls' = Answer(c, "SUCCESS")
    /\ UNCHANGED <<onTime, begun>>

\* getSaleEligibility, which the gateway asks before it books.
IsEligible(e) == events[e].status = "ON_SALE" /\ onTime[e]

-----------------------------------------------------------------------------
(* The specification. *)

\* The sale window opens or closes.
TimePasses(e) ==
    /\ e \in DOMAIN events
    /\ onTime' = [onTime EXCEPT ![e] = ~@]
    /\ UNCHANGED <<events, calls, begun, writes>>

\* The process stops, or the connection is lost, between two transactions.
Crash(c) ==
    /\ calls[c].phase # "idle"
    /\ calls' = [calls EXCEPT ![c] = NoCall]
    /\ UNCHANGED <<events, onTime, begun, writes>>

Next ==
    \/ \E e \in DOMAIN events : TimePasses(e)
    \/ \E c \in Callers :
        \/ CreateEvent(c)
        \/ \E op \in LifecycleCommands \cup {"replace"}, e \in DOMAIN events :
            \E version \in 1..events[e].version : BeginCommand(c, op, e, version)
        \/ LoadEvent(c)
        \/ FlushEvent(c)
        \/ Crash(c)

Spec == Init /\ [][Next]_vars

-----------------------------------------------------------------------------
(* Properties. *)

\* Rows have the columns of their models, and an event that was changed is
\* past its first version.
TypeOK ==
    /\ \A e \in DOMAIN events :
        /\ events[e].status \in Statuses
        /\ events[e].version \in 1..(MaxRequests + 1)
        /\ events[e].types \subseteq 1..MaxRequests
    /\ \A w \in writes : events[w.id].version > 1

\* Two requests were answered to have changed the same version of event e.
HasRivals(e) ==
    \E v, w \in writes : v.id = e /\ w.id = e /\ v.from = w.from /\ v # w

\* A change of an event's status is one the transition table allows, so that an
\* event that ended or was cancelled stays so, unless rivals save it, each from the
\* copy it had read.
StatusMovesAllowed ==
    [][\A e \in DOMAIN events :
        \/ events'[e].status = events[e].status
        \/ events'[e].status \in AllowedTransitions[events[e].status]
        \/ HasRivals(e)']_vars

\* An event has one list of ticket types, the one its last writer saved, until
\* rivals save it: a session deletes the rows it loaded, not those a rival inserts.
OneTicketTypeList == \A e \in DOMAIN events : Cardinality(events[e].types) = 1 \/ HasRivals(e)

\* No two requests are answered to have changed the same version of an event.
VersionHasOneWriter ==
    \A v, w \in writes : v.id = w.id /\ v.from = w.from => v = w

\* An event that ended or was cancelled is not offered for sale again, whatever
\* commands were under way when it ended.
CancelledIsNotEligible ==
    [][\A e \in DOMAIN events :
        events[e].status \in {"ENDED", "CANCELLED"} => ~IsEligible(e)']_vars
=============================================================================
