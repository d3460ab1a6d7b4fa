------------------------- MODULE CustomerEnrolment -------------------------
(***************************************************************************)
(* The gateway's PUT /api/me/customer: a user who signed in and has no     *)
(* customer yet gets one in two requests to the Customer Service, one that *)
(* creates it and one that links the identity to it; later calls replace   *)
(* the profile or a consent. The user's devices run it concurrently.       *)
(*                                                                         *)
(* One request to the Customer Service is one step here; what its own      *)
(* transactions may do to each other is the subject of CustomerService.    *)
(* A request may fail on the way there or on the way back, and RestClient  *)
(* sends it a second time.                                                 *)
(***************************************************************************)
EXTENDS Naturals, FiniteSets

CONSTANTS
    Devices,      \* the user's devices
    Emails,       \* addresses the user gives
    MaxFaults,    \* requests that fail on their way
    MaxVersion    \* version from which no further change is asked for

EnrolmentAssumption == MaxFaults \in Nat /\ MaxVersion \in Nat \ {0}

VARIABLES
    customers,   \* customers: [1..n -> [email, version]]
    mapping,     \* the customer linked to the user's identity, or 0
    calls,       \* calls[d]: the request device d waits for
    faults       \* requests that failed on their way

vars == <<customers, mapping, calls, faults>>

Attempts == 2

NoCall == [phase |-> "idle", op |-> "none", email |-> "none", id |-> 0, version |-> 0,
           tries |-> 0, answer |-> "none"]

Init ==
    /\ customers = <<>>
    /\ mapping = 0
    /\ calls = [d \in Devices |-> NoCall]
    /\ faults = 0

\* The call ends, with the customer it answers.
End(d, id, answer) ==
    [calls EXCEPT ![d] = [NoCall EXCEPT !.op = calls[d].op, !.id = id, !.answer = answer]]

\* Mutant: one attempt too many.
ContinueLonger(d, phase, id, version) ==
    [calls EXCEPT ![d].phase = phase, ![d].id = id, ![d].version = version,
                  ![d].tries = Attempts + 1]

Continue(d, phase, id, version) ==
    [calls EXCEPT ![d].phase = phase, ![d].id = id, ![d].version = version, ![d].tries = Attempts]

-----------------------------------------------------------------------------
(* The Customer Service's answers. *)

TakenBy(email) == {i \in DOMAIN customers : customers[i].email = email}

WithCustomer(email) ==
    LET id == Cardinality(DOMAIN customers) + 1 IN
    [i \in DOMAIN customers \cup {id} |->
        IF i = id THEN [email |-> email, version |-> 1] ELSE customers[i]]

CreateAnswer(email) == IF TakenBy(email) # {} THEN "DUPLICATE_EMAIL" ELSE "SUCCESS"

\* Mutant: the service links an identity that has a customer already.
LinkUnchecked(id, version) ==
    IF customers[id].version # version THEN "PRECONDITION_FAILED" ELSE "SUCCESS"

LinkAnswer(id, version) ==
    IF customers[id].version # version THEN "PRECONDITION_FAILED"
    ELSE IF mapping \notin {0, id} THEN "IDENTITY_ALREADY_LINKED"
    ELSE "SUCCESS"

ChangeAnswer(call) ==
    IF customers[call.id].version # call.version THEN "PRECONDITION_FAILED"
    ELSE IF call.op = "upsert" /\ TakenBy(call.email) \ {call.id} # {} THEN "DUPLICATE_EMAIL"
    ELSE "SUCCESS"

Changed(call) ==
    [customers EXCEPT ![call.id].version = @ + 1,
                      ![call.id].email = IF call.op = "upsert" THEN call.email ELSE @]

-----------------------------------------------------------------------------
(* The gateway's handler. *)

\* get_my_customer, upsert_my_customer or update_my_customer_consent is called.
Ask(d, op, email) ==
    /\ calls[d].phase = "idle"
    /\ op # "get" /\ mapping # 0 => customers[mapping].version < MaxVersion
    /\ calls' = [calls EXCEPT ![d] = [NoCall EXCEPT !.phase = "resolving", !.op = op,
                                                    !.email = email, !.tries = Attempts]]
    /\ UNCHANGED <<customers, mapping, faults>>

\* _mapped_customer. Only upsert goes on without a customer.
Resolve(d) ==
    /\ calls[d].phase = "resolving"
    /\ calls' = IF mapping # 0
                THEN IF calls[d].op = "get" THEN End(d, mapping, "SUCCESS")
                     ELSE Continue(d, "changing", mapping, customers[mapping].version)
                ELSE IF calls[d].op = "upsert" THEN Continue(d, "creating", 0, 0)
                ELSE End(d, 0, "IDENTITY_NOT_MAPPED")
    /\ UNCHANGED <<customers, mapping, faults>>

\* Mutant: the new customer is answered and not linked.
CreateOnly(d) ==
    /\ calls[d].phase = "creating"
    /\ LET answer == CreateAnswer(calls[d].email) IN
       IF answer = "SUCCESS"
       THEN /\ customers' = WithCustomer(calls[d].email)
            /\ calls' = End(d, 0, "SUCCESS")
       ELSE /\ customers' = customers
            /\ calls' = End(d, 0, answer)
    /\ UNCHANGED <<mapping, faults>>

Create(d) ==
    /\ calls[d].phase = "creating"
    /\ LET answer == CreateAnswer(calls[d].email) IN
       IF answer = "SUCCESS"
       THEN /\ customers' = WithCustomer(calls[d].email)
            /\ calls' = Continue(d, "linking", Cardinality(DOMAIN customers) + 1, 1)
       ELSE /\ customers' = customers
            /\ calls' = End(d, 0, answer)
    /\ UNCHANGED <<mapping, faults>>

Link(d) ==
    /\ calls[d].phase = "linking"
    /\ LET id == calls[d].id
           answer == LinkAnswer(id, calls[d].version)
       IN  /\ mapping' = IF answer = "SUCCESS" THEN id ELSE mapping
           /\ calls' = IF answer = "SUCCESS" THEN End(d, id, "CREATED") ELSE End(d, 0, answer)
    /\ UNCHANGED <<customers, faults>>

\* replace or update_consent under the version the gateway just read.
Change(d) ==
    /\ calls[d].phase = "changing"
    /\ LET answer == ChangeAnswer(calls[d]) IN
       /\ customers' = IF answer = "SUCCESS" THEN Changed(calls[d]) ELSE customers
       /\ calls' = End(d, IF answer = "SUCCESS" THEN calls[d].id ELSE 0, answer)
    /\ UNCHANGED <<mapping, faults>>

\* RestClient sends the request again or, at the deadline, gives up.
RetryOrGiveUp(d) ==
    \/ calls[d].tries > 1 /\ calls' = [calls EXCEPT ![d].tries = @ - 1]
    \/ calls' = End(d, 0, "DEPENDENCY_UNAVAILABLE")

\* A request does not get to the Customer Service.
RequestLost(d) ==
    /\ calls[d].phase # "idle"
    /\ faults < MaxFaults
    /\ faults' = faults + 1
    /\ RetryOrGiveUp(d)
    /\ UNCHANGED <<customers, mapping>>

\* The Customer Service does its part, and the answer does not get back.
AnswerLost(d) ==
    /\ calls[d].phase \in {"creating", "linking", "changing"}
    /\ faults < MaxFaults
    /\ faults' = faults + 1
    /\ customers' = CASE calls[d].phase = "creating" /\ CreateAnswer(calls[d].email) = "SUCCESS"
                           -> WithCustomer(calls[d].email)
                      [] calls[d].phase = "changing" /\ ChangeAnswer(calls[d]) = "SUCCESS" -> Changed(calls[d])
                      [] OTHER -> customers
    /\ mapping' = IF /\ calls[d].phase = "linking"
                     /\ LinkAnswer(calls[d].id, calls[d].version) = "SUCCESS"
                  THEN calls[d].id ELSE mapping
    /\ RetryOrGiveUp(d)

-----------------------------------------------------------------------------
(* The specification. *)

AskUpsert(d) == \E email \in Emails : Ask(d, "upsert", email)

Handle(d) == Resolve(d) \/ Create(d) \/ Link(d) \/ Change(d)

Next ==
    \E d \in Devices :
        \/ AskUpsert(d)
        \/ \E op \in {"get", "consent"} : Ask(d, op, "none")
        \/ Handle(d)
        \/ RequestLost(d)
        \/ AnswerLost(d)

\* The gateway runs its handlers, and the user asks until the profile is there.
Fairness == \A d \in Devices : WF_vars(Handle(d)) /\ SF_vars(mapping = 0 /\ AskUpsert(d))

Spec == Init /\ [][Next]_vars /\ Fairness

-----------------------------------------------------------------------------
(* Properties. *)

TypeOK ==
    /\ mapping \in {0} \cup DOMAIN customers
    /\ \A i \in DOMAIN customers : customers[i] \in [email : Emails, version : 1..MaxVersion + Cardinality(Devices)]
    /\ \A d \in Devices : calls[d].tries \in 0..Attempts
    /\ faults \in 0..MaxFaults

\* Whoever was told 201 CREATED got the customer the identity is linked to,
\* although other devices created customers and linked them at the same time
\* and requests were sent twice.
CreatedIsMapped == \A d \in Devices : calls[d].answer = "CREATED" => mapping = calls[d].id

\* A user who keeps asking gets a customer profile.
EnrolmentEnds == <>(mapping # 0)
=============================================================================
