-------------------------- MODULE MCGatewayProgress --------------------------
(* What the gateway finishes, for TLC. A behaviour explores one part:         *)
(* "purchase", purchases that crashes interrupt; "cancelling", cancellations  *)
(* of a purchase under way; "batches", the batches of the reconciliation      *)
(* worker; "calls", calls under the resilience policies; "enrolment", two     *)
(* devices of one user; "delivery", a message on its way to Notification      *)
(* Service; "relay", the outbox relay of Payment Service. The parts share no  *)
(* state, but for the first two: a part that does not move keeps its initial  *)
(* state, and what is fair is said of the part that moves.                    *)
EXTENDS Naturals

CONSTANTS None, Details, ReservationIds, PaymentIds, TicketIds, ItemCount, Reconciler

VARIABLES
  part,                                                  \* the part that moves
  row, actors, remote, outbox, now, crashes, faults,     \* BookingSaga
  cancel, cancels,                                       \* CancellationSaga
  status, pending, stage, visiting,                      \* ReconciliationBatches
  failures, openFor, permits, queue, calls, healthy,     \* ResiliencePolicy
  customers, mapping, devices, lost,                     \* CustomerEnrolment
  messages, replicas, deliveries, handlers, mails, sends, webhooks, deliveryCrashes,
  storageFaults,                                         \* EventDelivery
  events, relay, received, relayCrashes                  \* OutboxRelay

sagaVars == <<row, actors, remote, outbox, now, crashes, faults>>
cancelVars == <<row, actors, remote, outbox, now, crashes, faults, cancel, cancels>>
batchVars == <<status, pending, stage, visiting>>
callVars == <<failures, openFor, permits, queue, calls, healthy>>
enrolmentVars == <<customers, mapping, devices, lost>>
deliveryVars == <<messages, replicas, deliveries, handlers, mails, sends, webhooks,
                  deliveryCrashes, storageFaults>>
relayVars == <<events, relay, received, relayCrashes>>

Clients == {"c1"}
Reasons == {"Payment was not captured", "A post-capture workflow step failed",
            "Booking workflow failed before payment capture", "BOOKING_WORKFLOW_FAILED",
            "USER_REQUEST", "BOOKING_CANCELLED"}
Overlap == FALSE
HoldMayEnd == FALSE
MaxFaults == 0
Callers == {"c1", "c2"}
Devices == {"d1", "d2"}

\* A purchase, and the cancellation of one.
Saga == INSTANCE CancellationSaga WITH
  Worker <- Reconciler, Scenarios <- {"SUCCESS", "DECLINE"}, MaxCrashes <- 2,
  CancelKeys <- {"first", "second"}, MaxCancels <- 2

\* One workflow less than the batch has places stays stuck.
Batches == INSTANCE ReconciliationBatches WITH
  Workflows <- {"w1", "w2", "w3"}, Stuck <- {"w1"}, BatchSize <- 2

Policy == INSTANCE ResiliencePolicy WITH
  Limit <- 1, FailureLimit <- 2, Window <- 1, OpenTime <- 2, Timeout <- 2, Adapter <- "soap"

Enrolment == INSTANCE CustomerEnrolment WITH
  Emails <- {"home", "work"}, MaxVersion <- 3, calls <- devices, faults <- lost

Delivery == INSTANCE EventDelivery WITH
  Events <- {"e1"}, Replicas <- {"g1"}, RetryKeys <- {}, MaxAttempts <- 3, BatchSize <- 2,
  MaxCalls <- 4, MaxCrashes <- 2, MaxStorageFaults <- 0, MaxVersion <- 2,
  worker <- replicas, calls <- webhooks, crashes <- deliveryCrashes

Relays == INSTANCE OutboxRelay WITH
  N <- 3, Relays <- {"r1"}, MaxAttempts <- 2, MaxCrashes <- 2, ConnectionDrops <- FALSE,
  crashes <- relayCrashes

ASSUME /\ Saga!SagaBounds /\ Saga!CancelBounds /\ Batches!BatchAssumption
       /\ Policy!ResilienceAssumption /\ Enrolment!EnrolmentAssumption
       /\ Delivery!DeliveryBounds /\ Relays!RelayBounds

Init ==
  /\ part \in {"purchase", "cancelling", "batches", "calls", "enrolment", "delivery", "relay"}
  /\ Saga!CancelInit
  /\ part # "purchase" => remote.scenario = "SUCCESS"
  /\ Batches!Init /\ Policy!Init /\ Enrolment!Init /\ Delivery!Init /\ Relays!Init
  /\ part # "calls" => healthy

Next ==
  /\ UNCHANGED part
  /\ \/ /\ \/ part \in {"purchase", "cancelling"} /\ Saga!PurchaseStep
           \/ part = "cancelling" /\ Saga!Cancellation
        /\ part = "cancelling" => crashes' = 0
        /\ UNCHANGED <<batchVars, callVars, enrolmentVars, deliveryVars, relayVars>>
     \/ /\ part = "batches" /\ Batches!Next
        /\ UNCHANGED <<cancelVars, callVars, enrolmentVars, deliveryVars, relayVars>>
     \/ /\ part = "calls" /\ Policy!Next
        /\ UNCHANGED <<cancelVars, batchVars, enrolmentVars, deliveryVars, relayVars>>
     \/ /\ part = "enrolment" /\ Enrolment!Next
        /\ UNCHANGED <<cancelVars, batchVars, callVars, deliveryVars, relayVars>>
     \/ /\ part = "delivery" /\ Delivery!Next
        /\ UNCHANGED <<cancelVars, batchVars, callVars, enrolmentVars, relayVars>>
     \/ /\ part = "relay" /\ Relays!Next
        /\ UNCHANGED <<cancelVars, batchVars, callVars, enrolmentVars, deliveryVars>>

\* A live request goes on, of every kind, the worker polls, and a payment that the
\* provider has not decided is decided.
SagaFairness ==
  /\ \A a \in Clients \cup {Reconciler} :
       /\ WF_sagaVars(part = "purchase" /\ Saga!Step(a))
       /\ WF_cancelVars(part = "cancelling" /\ Saga!PurchaseStep /\ Saga!Step(a))
  /\ WF_sagaVars(part = "purchase" /\ Saga!ListWorkflow)
  /\ WF_sagaVars(part = "purchase" /\ Saga!ProviderSettles)
  /\ WF_cancelVars(part = "cancelling" /\ Saga!PurchaseStep /\ Saga!ListWorkflow)
  /\ WF_cancelVars(part = "cancelling" /\ Saga!CancelStep)

\* Time passes, and a call that may go on does.
PolicyFairness ==
  /\ WF_callVars(part = "calls" /\ Policy!Tick)
  /\ \A c \in Callers :
       /\ WF_callVars(part = "calls" /\ Policy!Acquire(c))
       /\ WF_callVars(part = "calls" /\ Policy!Attempt(c))
       /\ WF_callVars(part = "calls" /\ Policy!Ends(c))

\* Requests are served, and a user without a profile keeps asking for one.
EnrolmentFairness ==
  \A d \in Devices :
    /\ WF_enrolmentVars(part = "enrolment" /\ Enrolment!Handle(d))
    /\ SF_enrolmentVars(part = "enrolment" /\ mapping = 0 /\ Enrolment!AskUpsert(d))

\* The outbox worker and the relay poll for ever and a request that is served goes on.
OutboxFairness ==
  /\ WF_deliveryVars(part = "delivery" /\ Delivery!WorkerStep("g1"))
  /\ WF_deliveryVars(part = "delivery" /\ Delivery!ServeStep)
  /\ WF_relayVars(part = "relay" /\ Relays!RelayStep("r1"))

Spec ==
  /\ Init
  /\ [][Next]_<<part, cancelVars, batchVars, callVars, enrolmentVars, deliveryVars, relayVars>>
  /\ SagaFairness
  /\ WF_batchVars(part = "batches" /\ Batches!Worker)
  /\ PolicyFairness
  /\ EnrolmentFairness
  /\ OutboxFairness

-----------------------------------------------------------------------------
(* The properties of the components, of the parts they are about.            *)

\* Three purchases that a crash may interrupt come to an end: one whose money was
\* captured is delivered, one whose payment was declined is closed with its seats
\* free again, and a cancellation accepted before the payment is completed.
PurchasesEnd ==
  /\ part = "purchase" => Saga!CapturedIsDelivered /\ Saga!DeclinedIsClosed
  /\ part = "cancelling" => Saga!UnpaidIsCancelled

\* The workers of the gateway and the relay leave nothing behind: a workflow that
\* a visit would close is closed, a message is sent or given up, an event is
\* published or exhausted; and in order, visiting no workflow twice in a round.
WorkersLeaveNothing ==
  /\ [](Batches!RoundVisitsOnce /\ Relays!DeliveredInOrder)
  /\ part = "batches" => Batches!ReachedByTheWorker
  /\ part = "delivery" => Delivery!MessageSettles
  /\ part = "relay" => Relays!EventSettles

\* Every call comes to an answer, also one that waits for the bulkhead, the
\* circuit closes for good when the dependency stays healthy, and a user who
\* keeps asking gets a customer profile.
CallersGetOn ==
  /\ part = "calls" => Policy!CallsEnd /\ Policy!CircuitCloses
  /\ part = "enrolment" => Enrolment!EnrolmentEnds

=============================================================================
