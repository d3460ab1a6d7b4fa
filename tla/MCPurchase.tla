----------------------------- MODULE MCPurchase -----------------------------
(* The gateway's sagas for TLC, in three parts of which a behaviour explores  *)
(* one: "alone", a purchase whose actors drive its workflow one at a time,    *)
(* with two crashes and two lost calls; "overlapping", at the same time, with *)
(* one of each; "cancelling", a purchase that is cancelled by two requests,   *)
(* with a crash or a lost call.                                               *)
EXTENDS CancellationSaga

VARIABLE part   \* the part that moves

\* The purchase as it is where another part moves: not begun.
NotBegun == [booking |-> None, replies |-> [k \in StepKeys |-> None],
             reservation |-> None, payment |-> None, scenario |-> "SUCCESS", tickets |-> "NONE"]
Begun == INSTANCE BookingSaga WITH remote <- IF part = "alone" THEN remote ELSE NotBegun

PartsInit ==
  /\ part \in {"alone", "overlapping", "cancelling"}
  /\ CancelInit
  /\ part # "alone" => remote.scenario # "MANUAL"

\* At most one actor drives the workflow.
OneActor == \A a, b \in Actors : Busy(a) /\ Busy(b) => a = b

PartsNext ==
  /\ \/ PurchaseStep
     \/ part = "cancelling" /\ Cancellation
  /\ UNCHANGED part
  /\ part # "overlapping" => OneActor'
  /\ part = "overlapping" => crashes' <= 1 /\ faults' <= 1
  /\ part = "cancelling" => crashes' + faults' <= 1

Parts == PartsInit /\ [][PartsNext]_<<part, cvars>>

-----------------------------------------------------------------------------
(* The properties of BookingSaga and CancellationSaga, of the parts they are  *)
(* about.                                                                     *)

\* What a purchase leaves behind is known to its workflow.  One that closes as
\* confirmed sold something, one that closes as failed has given back what it knows
\* of, and money that moved is known to a workflow that is not closed: also when the
\* worker and a request drive the workflow at the same time.  Only where they do
\* not are the tickets of a confirmed one kept and is it announced once.
NothingIsForgotten ==
  /\ part \in {"alone", "overlapping"} =>
       ConfirmedIsSold /\ FailedIsSettled /\ MoneyIsRemembered
  /\ part = "alone" => ConfirmedIsDelivered

\* Requests, retries, the worker, crashes and lost calls together never do more
\* than a purchase may: see Purchase.
AloneImplementsPurchase == Begun!ImplementsPurchase

\* A booking closed as cancelled has given back what it had, and a cancellation
\* that is refused takes nothing back.
CancellationIsWhole ==
  /\ [](part = "cancelling" => CancelledIsTakenBack)
  /\ RefusedTakesNothingBack

=============================================================================
