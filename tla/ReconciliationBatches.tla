----------------------- MODULE ReconciliationBatches ------------------------
(***************************************************************************)
(* How the gateway's reconciliation worker shares its rounds between the   *)
(* workflows.  A round lists the reconcilable statuses one after the       *)
(* other, each in a statement of its own, until the batch is full, and     *)
(* then visits the workflows of the batch; requests move on meanwhile.     *)
(*                                                                         *)
(* What one visit does is the subject of BookingSaga.  Here a visit leaves *)
(* a workflow closed, or turned to compensation, or, when its payment      *)
(* stays undecided or its step fails again, as it was.                     *)
(***************************************************************************)
EXTENDS Naturals, Sequences, FiniteSets, FiniteSetsExt, SequencesExt

CONSTANTS
  Workflows,   \* workflow ids
  Stuck,       \* those no visit closes, for example for a payment nobody decides
  BatchSize    \* reconciliation_batch_size

BatchAssumption == Stuck \subseteq Workflows /\ BatchSize \in Nat \ {0}

VARIABLES
  status,    \* status[w]: the status in w's row
  pending,   \* the batch: the workflows to visit, with the status they were listed in
  stage,     \* how many statuses the round has listed
  visiting   \* whether the round has come to its visits

vars == <<status, pending, stage, visiting>>

WithoutCompensation ==
  <<"PAYMENT_UNKNOWN", "PAYMENT_PROCESSING", "SEAT_CONFIRMED", "TICKETS_ISSUED">>

ReconcilableStatuses ==
  <<"PAYMENT_UNKNOWN", "PAYMENT_PROCESSING", "SEAT_CONFIRMED", "TICKETS_ISSUED",
    "COMPENSATION_PENDING">>

Closed == {"CONFIRMED", "FAILED"}

Init ==
  /\ status = [w \in Workflows |-> "SEAT_RESERVED"]
  /\ pending = <<>>
  /\ stage = 0
  /\ visiting = FALSE

\* What place saves next.  A request may also be gone for good at any point.
PlaceMoves ==
  [SEAT_RESERVED |-> {"PAYMENT_PROCESSING", "FAILED"},
   PAYMENT_PROCESSING |-> {"PAYMENT_UNKNOWN", "SEAT_CONFIRMED", "FAILED", "COMPENSATION_PENDING"},
   SEAT_CONFIRMED |-> {"TICKETS_ISSUED", "COMPENSATION_PENDING"},
   TICKETS_ISSUED |-> {"CONFIRMED", "COMPENSATION_PENDING"}]

PlaceSaves(w) ==
  /\ status[w] \in DOMAIN PlaceMoves
  /\ \E s \in PlaceMoves[status[w]] :
       /\ w \in Stuck => s \notin Closed
       /\ status' = [status EXCEPT ![w] = s]
  /\ UNCHANGED <<pending, stage, visiting>>

\* list_by_status: at most limit rows, in any order (PostgreSQL, no ORDER BY).
Listings(s) ==
  LET rows == {w \in Workflows : status[w] = s}
  IN  UNION {SetToSeqs(S) : S \in kSubset(Min({Cardinality(rows), BatchSize}), rows)}

\* A workflow may have moved on to this status since an earlier one was listed.
ListedAgain(w) == TRUE
IsNew(w) == w \notin {pending[i].workflow : i \in DOMAIN pending}

ListStatus ==
  /\ ~visiting
  /\ LET s == ReconcilableStatuses[stage + 1]
     IN  \E rows \in Listings(s) :
           LET new  == SelectSeq(rows, LAMBDA w : IsNew(w))
               room == Min({Len(new), BatchSize - Len(pending)})
           IN  pending' = pending \o [i \in 1 .. room |-> [workflow |-> new[i], listed |-> s]]
  /\ stage' = stage + 1
  /\ visiting' = (stage' = Len(ReconcilableStatuses) \/ Len(pending') >= BatchSize)
  /\ status' = status

\* What a visit leaves in the row of x.workflow, which it reads again: an undecided
\* payment is stored as unknown, and a visit that raises stores the status listed.
Visited(x) ==
  LET w == x.workflow
      stuck == {x.listed} \cup (IF status[w] = "COMPENSATION_PENDING" THEN {status[w]}
                                                                     ELSE {"PAYMENT_UNKNOWN"})
  IN  IF status[w] \in Closed THEN {status[w]}
      ELSE IF w \in Stuck THEN stuck
      ELSE IF status[w] = "COMPENSATION_PENDING" THEN {"FAILED"}
      ELSE Closed

Visit ==
  /\ visiting /\ pending # <<>>
  /\ \E s \in Visited(Head(pending)) : status' = [status EXCEPT ![Head(pending).workflow] = s]
  /\ pending' = Tail(pending)
  /\ UNCHANGED <<stage, visiting>>

\* run_forever waits interval_seconds and begins again.
NextRound ==
  /\ visiting /\ pending = <<>>
  /\ stage' = 0 /\ visiting' = FALSE
  /\ UNCHANGED <<status, pending>>

Worker == ListStatus \/ Visit \/ NextRound
Next == Worker \/ \E w \in Workflows : PlaceSaves(w)

Spec == Init /\ [][Next]_vars

\* run_forever goes round as long as the process runs; requests promise nothing.
FairSpec == Spec /\ WF_vars(Worker)

-----------------------------------------------------------------------------
(* Properties. *)

\* A round visits at most BatchSize workflows and none of them twice, although
\* requests move workflows between statuses while run_once lists them.
RoundVisitsOnce ==
  /\ Len(pending) <= BatchSize
  /\ \A i, j \in DOMAIN pending : pending[i].workflow = pending[j].workflow => i = j

\* A workflow that a visit would close is closed, whatever its status and its place
\* in the listings ("goes to compensation so reconciliation can settle it",
\* booking.py).  It needs a place in some batch: the stuck ones come round again.
ReachedByTheWorker ==
  \A w \in Workflows \ Stuck :
    status[w] \in ToSet(ReconcilableStatuses) \cup {"COMPENSATION_PENDING"} ~> status[w] \in Closed
=============================================================================
