----------------------------- MODULE MCServices -----------------------------
(* Payment Service and Ticket Service for TLC, in five parts of which a       *)
(* behaviour explores one: "payment", commands that race the provider's       *)
(* callbacks; "refunds", a captured payment that is refunded in two parts;    *)
(* "schema", the migration of the payment database; "issuing", tickets of two *)
(* bookings that want one seat; "checkin", two gates that scan one ticket.    *)
(* The first two are about the same tables, the last two as well; a part that *)
(* does not move keeps its initial state.                                     *)
EXTENDS PaymentService, TLC

CONSTANTS b1, b2, s1, s2, k1, k2, e1, e2, ref, authRef, captureRef

VARIABLES
  part,       \* the part that moves
  tickets, records, ticketAudit, ticketOutbox, gates, scans, admissions, losses, ticketClock,
  schema, work, result        \* the payment database that is migrated

ticketVars == <<tickets, records, ticketAudit, ticketOutbox, gates, scans, admissions, losses,
                ticketClock>>
schemaVars == <<schema, work, result>>

-----------------------------------------------------------------------------
(* The requests of "payment".                                                *)

MCMockReference ==
  [x \in Bookings \X {"AUTHORIZE", "CAPTURE"} |->
     IF x[2] = "AUTHORIZE" THEN authRef ELSE captureRef]

Outcome(operation, status, reference) ==
  [status |-> status, operation |-> operation, reference |-> reference,
   refundReference |-> None, refunded |-> None, reason |-> None]
Because(o) == [o EXCEPT !.reason = DefaultReason]
RefundedTo(n, status, f) ==
  [Outcome("REFUND", status, None) EXCEPT !.refunded = n, !.refundReference = f]

Creations(scenarios, amount) == [scope : {"CreatePayment"}, booking : Bookings,
                                 amount : {amount}, scenario : scenarios]
Updates(scope, versions, statuses, references) ==
  [scope : {scope}, booking : Bookings, version : versions, providerStatus : statuses,
   reference : references, reason : {None}]
Cancels(versions, statuses) ==
  [scope : {"CancelPayment"}, booking : Bookings, version : versions,
   providerStatus : statuses, reference : {None}, reason : Reasons]
Refunds(versions, statuses, amounts) ==
  [scope : {"RefundPayment"}, booking : Bookings, version : versions,
   providerStatus : statuses, amount : amounts, refundReference : RefundRefs,
   reason : Reasons]
Callbacks(outcomes, amount, times) ==
  [scope : {"HandleProviderCallback"}, booking : Bookings, outcome : outcomes,
   amount : {amount}, occurredAt : times]
Reconciliations(versions, outcomes) ==
  {[scope |-> "ReconcilePayment", booking |-> b, version |-> v, providerStatus |-> o.status,
    reference |-> o.reference, refundReference |-> o.refundReference,
    refunded |-> o.refunded, reason |-> o.reason] :
      b \in Bookings, v \in versions, o \in outcomes}

\* Commands race the provider's callbacks on one payment.
RacingRequests ==
  Creations({"MANUAL", "TIMEOUT"}, 2)
  \cup Updates("AuthorizePayment", {1}, {"AUTHORIZED", "UNKNOWN"}, {ref})
  \cup Updates("CapturePayment", {1, 2}, {"CAPTURED", "FAILED", "UNKNOWN"}, {ref})
  \cup Updates("CapturePayment", {2}, {None}, {None})
  \cup Cancels({2}, {"CANCELLED", "UNKNOWN"})
  \cup Refunds({3, 4}, {None}, {1, 2})
  \cup Refunds({3}, {"UNKNOWN"}, {1})
  \cup Callbacks({Outcome("CAPTURE", "CAPTURED", ref), Outcome("AUTHORIZE", "AUTHORIZED", ref),
                  Because(Outcome("CAPTURE", "FAILED", ref)),
                  Because(Outcome("CANCEL", "CANCELLED", None))}
                 \cup {RefundedTo(1, "PARTIALLY_REFUNDED", f) : f \in RefundRefs}
                 \cup {RefundedTo(2, "REFUNDED", f) : f \in RefundRefs}, None, {0})
  \cup Reconciliations({4}, {Outcome("CAPTURE", "CAPTURED", ref)})

-----------------------------------------------------------------------------
\* Two bookings that want one seat, and a second version of the first request.
Issuing == INSTANCE TicketService WITH
  Bookings <- {b1, b2}, Seats <- {s1, s2}, Gates <- {}, Keys <- {k1, k2},
  IssueRequests <- {[booking |-> b1, seats |-> {s1, s2}], [booking |-> b1, seats |-> {s1}],
                    [booking |-> b2, seats |-> {s1}]},
  TTL <- 1, MaxTickets <- 3, MaxVersion <- 3, MaxScans <- 0, MaxFaults <- 0, MaxNow <- 1,
  audit <- ticketAudit, outbox <- ticketOutbox, faults <- losses, now <- ticketClock

CheckIn == INSTANCE TicketService WITH
  Bookings <- {b1, b2}, Seats <- {s1, s2}, Gates <- {"west", "east"}, Keys <- {k1},
  IssueRequests <- {[booking |-> b1, seats |-> {s1}]},
  TTL <- 1, MaxTickets <- 1, MaxVersion <- 4, MaxScans <- 1, MaxFaults <- 1, MaxNow <- 2,
  audit <- ticketAudit, outbox <- ticketOutbox, faults <- losses, now <- ticketClock

Migration == INSTANCE PaymentMigrations WITH stored <- schema

ASSUME TicketAssumptions == Issuing!TicketAssumption /\ CheckIn!TicketAssumption

PartsInit ==
  /\ part \in {"payment", "refunds", "schema", "issuing", "checkin"}
  /\ Init
  /\ IF part = "issuing" THEN Issuing!Init ELSE CheckIn!Init
  /\ IF part = "schema"
       THEN Migration!Init
       ELSE schema = Migration!NoWork /\ work = Migration!NoWork /\ result = "none"

\* Commands of one caller have one key.
OneKey == \A i \in idempotency' : i.key # e2

\* A payment is captured and refunded in two parts, each under a key of its own: by
\* two commands or by a command and a callback, also when one was reported UNKNOWN.
Refunding ==
  /\ now' = 0
  /\ \A i \in idempotency' :
       \/ /\ i.key = e1
          /\ i.request \in Creations({"MANUAL", "TIMEOUT"}, 2)
                           \cup Updates("AuthorizePayment", {1}, {"AUTHORIZED"}, {ref})
                           \cup Updates("CapturePayment", {1, 2}, {"CAPTURED"}, {ref})
       \/ i.request \in Refunds({3, 4}, {None}, {1, 2}) \cup Refunds({3}, {"UNKNOWN"}, {1})
       \/ i.request.scope = "HandleProviderCallback" /\ i.request.outcome.operation = "REFUND"

PartsNext ==
  /\ UNCHANGED part
  /\ \/ part = "payment" /\ Next /\ OneKey /\ UNCHANGED <<ticketVars, schemaVars>>
     \/ part = "refunds" /\ Next /\ Refunding /\ UNCHANGED <<ticketVars, schemaVars>>
     \/ part = "schema" /\ Migration!Next /\ UNCHANGED <<vars, ticketVars>>
     \/ part = "issuing" /\ Issuing!Next /\ UNCHANGED <<vars, schemaVars>>
     \/ part = "checkin" /\ CheckIn!Next /\ UNCHANGED <<vars, schemaVars>>

Parts == PartsInit /\ [][PartsNext]_<<part, vars, ticketVars, schemaVars>>

\* Refund references and the idempotency keys of tickets are each interchangeable.
Symmetry == Permutations(RefundRefs) \cup Permutations({k1, k2})

-----------------------------------------------------------------------------
(* The properties of PaymentMigrations and TicketService, of the parts they   *)
(* are about.                                                                 *)

\* A payment database at the last revision has what the service writes to,
\* whatever edition of the earlier one it ran, and no migration changes the status
\* of a payment.
MigrationIsFaithful ==
  /\ [](part = "schema" => Migration!TypeOK /\ Migration!LastRevisionIsWhole)
  /\ Migration!MigrationKeepsStatus

\* Tickets are unique and explained: a seat is on at most one that is not
\* cancelled, a booking's are issued all or none, a key has one effect while its
\* record is kept, and the audit rows of a ticket lead to its present status.
TicketsAreUnique ==
  part = "issuing" =>
    /\ Issuing!TypeOK /\ Issuing!OneTicketPerSeat /\ Issuing!IssuedTogether
    /\ Issuing!EffectOncePerRequest /\ Issuing!AuditIsTheHistory

\* A ticket is checked in with the QR code it has when the check-in commits; who is let
\* in with another comes after that, and nobody is let in on a ticket not checked in.
CheckInIsCurrent == part = "checkin" => CheckIn!TypeOK /\ CheckIn!CheckInIsCurrent

=============================================================================
