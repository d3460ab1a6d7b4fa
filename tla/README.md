# Verification of the event-ticketing services

TLA+ modules for the event-ticketing system in `src/`, model-checked with TLC
and, where stated, proved with TLAPS. The system sells seats of events through
a gateway that orchestrates nine services. A purchase touches four of them
(booking, seats, payment, tickets), each with its own database and no common
transaction, so its correctness rests on idempotent commands, version checks,
evidence-based state machines and compensation.

## 1. Inventory

| Component | State | Operations | Hard behaviour |
|---|---|---|---|
| **Booking Service** (`services/booking-service`) | bookings, idempotency records, audit rows, outbox rows | create, attach / confirm reservation, start / record payment, attach tickets, confirm, fail, cancel, record compensation; reconcileBookings | commands in any order, late payment outcomes, retries under old and new keys, two bookings claiming one reservation |
| **Seat Inventory Service** (`services/seat-inventory-service`) | seats, reservations and their items, inventory versions, idempotency records, audit rows | reserve, confirm, release, extend, configure inventory; expiry sweeper | holds that run out while they are confirmed or extended, replays of answers that went stale and records deleted under them, administrator against live holds, lock orders, several replicas |
| **Payment Service** (`services/payment-service`) | payments, ledger of provider events, refunds, idempotency records, audit, outbox | create, authorise, capture, cancel, refund, provider callback, reconcile; reconciliation worker, outbox relay | unknown outcomes, callbacks late, twice or out of order, partial refunds, a relay that dies between sending and committing |
| **Ticket Service** (`services/ticket-service`) | tickets, idempotency records, audit, outbox | issue, cancel, regenerate QR, check in | two bookings that want one seat, a QR code replaced between scan and check-in, expired keys |
| **ESB gateway, sagas** (`gateway/booking-orchestrator`) | workflow rows | place, resume, reconcile, compensate, cancel; reconciliation worker | crash between any two calls, lost answers, worker racing a live request, stale workflow snapshots, batch starvation |
| **ESB gateway, edge** | circuit breaker, bulkhead, outbox, WebSocket tickets | policies around every call, outbox worker, profile upsert, check-in desk | calls that wait while the circuit opens, a two-request enrolment, several replicas on one outbox |
| **Notification Service** | deliveries, templates | webhook, retry of a delivery | lost answers, two handlers of one event, crash before the mail |
| **Realtime Status Service** | caches of ids and sequences, connections, tickets | ingest, broadcast (in process or Redis), heartbeat, shutdown | publish that fails after the sequence was stored, lost envelopes, four parties that unregister one connection |
| **Identity Service** | accounts, sessions, rate-limit buckets, login attempts | register, login, refresh, logout, role changes | concurrent refresh with one token, logout against refresh, lockout counted although the request fails |
| **Customer / Event Service** | profiles, mappings, consents; events, ticket types | versioned edits, link, unlink; publish, cancel | read, check and save in separate transactions |
| **Migrations** of bookings and payments | the tables | upgrade, downgrade | rows of older revisions, an edition of a revision that was changed later |
| **Libraries, frontends, contracts, infrastructure** | none of their own | | |

Interactions: the gateway calls the services over REST and, for seats, SOAP,
with an idempotency key derived from the caller's key and the step. Services
never call each other. The gateway's outbox worker posts to Notification and
Realtime Status, Payment Service's relay to a webhook. The gateway's workers
poll its own tables. The sweeper of Seat Inventory Service runs in every
replica.

What makes each correct:

* Booking: no booking closes with a seat or a payment owed; evidence never
  regresses; every stored row satisfies the CHECK constraints; a retry takes
  effect once; audit and outbox tell the true history.
* Seat inventory: no seat sold twice; seat rows and reservation rows agree;
  outcomes are final; an expired hold is always taken back; a successful answer
  is true; commands never deadlock with each other, and a deadlock with a sweeper
  is broken.
* Payment: refunds add up to at most what was captured; a settled payment does
  not regress; an unknown outcome is settled by evidence only, and in finitely
  many attempts.
* Ticket: one active ticket per seat; the tickets of a booking are issued
  together; a ticket is checked in with its newest QR code, and nobody is
  admitted on a ticket that is not checked in.
* Gateway: a purchase implements `Purchase`, wherever it is interrupted; money
  is never forgotten; what was captured is delivered.
* Messages: sent is processed, one event is mailed once, a gap is announced,
  nothing is shown twice.
* Identity, customers, events: one live session per family, roles follow the
  token version, final states stay final.

## 2. Modules

| Module | Models |
|---|---|
| `BookingAggregate` | `domain/entities.py`, `domain/rules.py`: each domain command as a guard (`Can...`) and the booking it leaves (`...Of`, `...To`); the recovery advice of `reconcile_bookings.py` |
| `BookingRequests` | the requests `schemas/requests.py` lets through |
| `BookingLifecycle` | abstract: a table of bookings changed by aggregate commands, one at a time |
| `BookingCommands` | each command's `is_already_applied`, shared by the service and by the gateway's view of it |
| `BookingService` | the commands as transactions: replay, already-applied answers, claim of a reservation, aggregate step, audit, outbox, idempotency record. Refines `BookingLifecycle` |
| `SeatInventory` | Seat Inventory Service: commands, administration, sweeper, clock |
| `SeatTransactions` | the same transactions one row lock at a time, the locks on the idempotency records of `ReserveSeats` included: lock orders, waits, deadlock victims, retries |
| `PaymentAggregate`, `PaymentService` | the payment entity; commands, callback, ledger, refunds, worker |
| `OutboxRelay` | Payment Service's relay: claim, post, mark, crash |
| `TicketService` | the four commands, and the gateway's check-in desk that uses them |
| `Purchase` | abstract: what a purchase promises about order, seats, money and tickets |
| `BookingSaga` | place, resume, reconcile and compensate, call by call and save by save, with the worker as an actor. Refines `Purchase` |
| `CancellationSaga` | cancel, beside the booking saga of the same purchase (EXTENDS it) |
| `ReconciliationBatches` | how the worker's rounds choose workflows |
| `ResiliencePolicy` | circuit breaker, bulkhead, retries and deadline of one dependency |
| `CustomerEnrolment` | `PUT /api/me/customer`: create and link in two requests, from several devices |
| `EventDelivery` | the gateway's outbox workers, Notification's webhook and retry |
| `StatusStream` | status events: processor, both broadcast backends, browser |
| `StatusConnections` | WebSocket tickets, handshake, registry, heartbeat, shutdown |
| `IdentityService` | login, rate limit, lockout, sessions, logout, roles |
| `UnitOfWork`, `CustomerService`, `EventService` | what a session flushes; the two services that read and save in separate transactions |
| `BookingMigrations`, `PaymentMigrations` | the revisions of the two tables, up and down |
| `BookingAggregateProofs`, `BookingLifecycleProofs`, `BookingServiceProofs`, `SeatInventoryProofs`, `TransactionProofs`, `PaymentServiceProofs`, `TicketServiceProofs`, `CancellationSagaProofs` | the theorems |
| `MC...` | instances for TLC |

### How the modules correspond to the code

**Granularity.** What the code does in one transaction is one action where locks
serialise it (Booking, Payment, Ticket, `SeatInventory`): the advisory lock on
(scope, key) and the row lock order the commands that meet, and what raises
rolls back and changes nothing. Where they do not, an action is one statement,
or one transaction of several (`SeatTransactions`, `IdentityService`,
`CustomerService`, `EventService`, `EventDelivery`). In asyncio code an action
runs from one `await` to the next (`ResiliencePolicy`, `StatusStream`,
`StatusConnections`). In the sagas an action is one remote call or one save of
the workflow row. An if/elif chain whose conditions may overlap is IF ... ELSE,
never CASE, which picks any branch whose guard holds.

**Booking Service.** `bookings[id]` is the aggregate. Timestamps the code only
stores are dropped, those a decision reads are kept: `reservationExpiresAt` as a
time, `reservation_confirmed_at` and `payment_recorded_at` as flags. `Touch` is
`_touch`, the version of optimistic locking. `TerminalAction` derives the owed
work before and, for an unsettled payment, again after the evidence, as
`_begin_or_complete_terminal_transition` does. `Execute` is
`execute_transition`: replay; else already applied, answered and recorded under
the new key; else `Record`, which changes the row and appends audit and outbox
rows together. Records expire with the clock (`TTL`), after which a key is free.

**Seat Inventory Service.** `seats`, `reservations`, `inventoryVersion`,
`idempotency` and `audit` are the tables, `now` the database clock and `answer`
what the caller receives in the step. `Reallocate` is the loop that changes
seats and writes their audit rows, `Conclude` what ConfirmSeats and ReleaseSeats
share. `EverReserved` is the foreign key of the items. `Sweep(locked)` is one
run of the sweeper that finds the rows in `locked` locked (SKIP LOCKED).
`SeatTransactions` takes the same transactions apart: `Proceed(t)` gives
transaction `t` its next lock, aborts it as the victim of a cycle, or commits.

**Payment Service.** A payment is named by its booking (`uq_payment_booking`).
Amounts are small naturals. `ledger` is the provider-event table, which decides
whether a callback is new and what `ReconcilePayment` finds; `Worker` is one
batch of the reconciliation worker from the list it read earlier (`batch`).

**Sagas.** `row` is the workflow row, `actors[a]` the copy an actor works on and
where it stands, `remote` the four services reduced to one booking: Booking
Service is the aggregate behind its idempotency records (through
`BookingCommands`), the others a status and a version. A call is answered, is
rejected, or is lost before or after it took effect (`MaxFaults`). A crash drops
the actor's copy (`MaxCrashes`). `scenario` is what the payment provider will
do. `CancellationSaga` adds the request to cancel, which stores nothing and ends
with its first unanswered call. The refinement mapping to `Purchase` reads
order, seats, money and tickets off `remote`.

**Outboxes.** `EventDelivery` has the gateway's table (`messages`), the workers
with the snapshot each took, Notification's rows and the handlers that go on
after their caller gave up. `OutboxRelay` has the claim under a row lock, and
the transaction that a crash or an unexpected error rolls back.

**Realtime Status Service.** In `StatusStream` an event is `processed` under the
lock and published outside it; `redis` is what travels, `delivered` the ids the
instance has seen, `browsers` the highest sequence shown. In
`StatusConnections`, `registry` is the ConnectionManager and `sockets` the
endpoint coroutines at their awaits.

**Identity, Customer and Event Service** follow PostgreSQL's READ COMMITTED: a
SELECT FOR UPDATE waits and reads the latest version, an UPDATE of several rows
works on the rows its statement saw. `Flushed` is the SQLAlchemy session: only
columns that differ from what it loaded are written.

**Migrations.** A database is a revision and one row; `work` is it inside the
transaction of `alembic upgrade head`, `stored` (`migrated`, `schema`) as
committed.

## 3. Runs

A run explores several instances at once. Its module has a variable `part`,
chosen in the initial state, which says which component moves; the other
components keep their initial state. The parts share no state, so that
interleaving them would add nothing but states. A property that speaks of one
part says so (`part = "x" => ...`); a property of variables that another part
leaves in their initial state needs no such guard. Fairness is required of the
part that moves only.

| Run | Parts | Instance |
|---|---|---|
| `booking` | `lifecycle`: the aggregate under every request | 1 booking, 2 reservation, payment and ticket ids, versions to 9, clock to 1 |
| | `service`: one booking behind the command pipeline, refining the lifecycle | 1 key, records live 1 tick, requests `SagaRequests` |
| | `claims`: two bookings, two reservations, two keys | versions to 2, requests `ClaimRequests` |
| | `migration`: every row of 0001 and of the legacy edition, up and down | 2 items |
| `seats` | `selling`: two bookings under two keys; `administering`: one key, two layouts, inventory versions 1 and 2 | 2 seats, 2 reservations, clock to 1, batches of 1 |
| `purchase` | `alone`: one actor at a time | 2 crashes, 2 lost calls, four provider scenarios |
| | `overlapping`: the worker and the request together | 1 crash, 1 lost call, three scenarios |
| | `cancelling`: two requests to cancel | a crash or a lost call |
| `services` | `payment`: commands of one key race callbacks, `RacingRequests` | 1 payment of 2 units, versions to 5, clock to 1 |
| | `refunds`: a captured payment is refunded in two parts, by two commands under two keys or by a command and a callback, also after UNKNOWN | 2 refund references, versions to 5, clock at 0 |
| | `schema`: the payment table, also of the edited 0002 | 1 payment |
| | `issuing`: two bookings, two seats, two keys; `checkin`: two gates, one ticket | versions to 3 and 4, clock to 1 and 2 |
| `transactions` | `locking`: two commands, two sweepers, two seats; records that expire, are replayed and deleted | 1 retry, 2 reservations, 3 requests |
| | `sessions`: two callers, one account | 5 requests, 3 sessions, threshold and rate limit 2 |
| | `customers`: one caller that may crash, two customers; `mappings`: two callers that edit, deactivate and link one customer | 5 and 4 requests |
| | `events`: two administrators of one event | 5 requests |
| `edge` | `calls`: two callers, one permit | 2 failures open the circuit |
| | `enrolment`: two devices, two addresses | 2 lost requests or answers |
| | `delivery`: two messages, one retry key; `relay`: two relays, three events | 1 crash each, 1 storage failure |
| | `stream`: two bookings whose caches push each other out; `sockets`: three browsers, limits of 1 and 2 | in-process backend and store |
| `gateway_progress` | liveness: `purchase`, `cancelling`, `batches`, `calls`, `enrolment`, `delivery`, `relay` | 2 crashes of a purchase, two keys to cancel, 3 workflows in batches of 2, 2 crashes of an outbox |
| `service_progress` | liveness: `expiry`, `locking`, `payment`, `sessions`, `stream`, `sockets` | as above, Redis backend and store, clocks to 2 and 3; in `locking` a third command begins only before any record has expired |
| `booking_closing`, `saga_unknown_payment`, `cancellation_refund`, `delivery_dead_letter` | statements of the documentation the code does not meet (section 4) | the smallest instance that shows it |

### What the properties say

The type invariants and what a component checks of itself keep the component's
names. Where a run judges several components, or several aspects of one, its
module gathers them under one name:

| Run | Property | Consists of, where the part moves |
|---|---|---|
| `booking` | `ConstraintsHold`, `NoHiddenCompensation`, `NoUnsettledClosing` | every stored booking satisfies the CHECK constraints; owed refunds, releases and ticket cancellations are recorded; a closed booking owes nothing |
| | `OnlyListedAreStuck` | `CompensationStopsOnlyForRefund`, `AdviceFailsOnlyAsListed` |
| | `NothingIsUndone` | `PaymentEvidenceNeverRegresses`, `EvidenceIsKept`, `IntentIsKept` |
| | `RecordsAreTrue` | `AuditIsTheHistory`, `EventsAnnounceOutcomes`, `AnswersWereCommitted`, `AnswersReflectRequests` |
| | `EffectsAreUnique` | `KeyTakesEffectOnce`, `ReservationHasOneOwner` |
| | `ImplementsLifecycle` | `BookingService` implements `BookingLifecycle` |
| | `MigrationIsFaithful` | `NothingPromoted`, `MigratedCanGoOn`, `CurrentEvidenceKept` |
| `seats` | `HoldsAgree`, `NoDoubleSale`, `AnswersAreTrue`, `AuditExplainsSeats`, `OutcomesAreFinal` | seats and reservations agree, a seat is sold once, answers were true, audit rows lead to the present seats, an ended reservation stays ended |
| `purchase` | `TicketsNeedSeats` | `TicketsFollowSeats`: no ticket before the seats are confirmed; `TypeOK`, `CancelTypeOK` |
| | `NothingIsForgotten` | `ConfirmedIsSold`, `FailedIsSettled`, `MoneyIsRemembered`, also overlapping; alone: `ConfirmedIsDelivered` |
| | `AloneImplementsPurchase` | `ImplementsPurchase`: `BookingSaga` implements `Purchase` |
| | `CancellationIsWhole` | `CancelledIsTakenBack`, `RefusedTakesNothingBack` |
| `services` | `RecordsAgree` | `RowsAreConsistent`, `AuditIsTheHistory`, `RequestTakesEffectOnce` |
| | `RefundsAddUp`, `PaymentsMoveForward` | the refund rows add up to what the payment says was refunded; `NoRegression`, `SettledByEvidence` |
| | `TicketsAreUnique`, `CheckInIsCurrent` | `OneTicketPerSeat`, `IssuedTogether`, `EffectOncePerRequest`, `AuditIsTheHistory`; a ticket is checked in with its newest QR code, and who is let in with another comes after that |
| | `MigrationIsFaithful` | `LastRevisionIsWhole`, `MigrationKeepsStatus` |
| `transactions` | `SeatLocksSuffice` | `CommittedHoldsAgree`, `DeadlockNeedsASweeper` |
| | `AccountsAreGuarded` | `OneLiveSession`, `VersionDeterminesRoles`, `LockoutHolds` |
| | `RowsHaveOneOwner` | `LinkIsKept`, `CustomerHasOneMapping`, `OneTicketTypeList` |
| | `StatusesMoveAsAllowed` | `StaysDeactivated`, `StatusMovesAllowed` |
| `edge` | `CallsAreAccounted` | `AttemptsBounded`, `CreatedIsMapped` |
| | `MarksAreTrue` | `SentWasProcessed`, `WebhookMailsOnce`, `PublishedWasReceived` |
| | `GapIsAnnounced`, `ConnectionsAreCounted` | a skipped status is announced; `CountsMatchRegistry`, `TicketOpensOnce` |
| `gateway_progress` | `PurchasesEnd` | `CapturedIsDelivered`, `DeclinedIsClosed`, `UnpaidIsCancelled` |
| | `WorkersLeaveNothing` | `RoundVisitsOnce`, `DeliveredInOrder`, `ReachedByTheWorker`, `MessageSettles`, `EventSettles` |
| | `CallersGetOn` | `CallsEnd`, `CircuitCloses`, `EnrolmentEnds` |
| `service_progress` | `HoldsEnd` | `ExpiredHoldsAreReleased`, `TransactionsEnd` |
| | `RequestsAreAnswered` | `ReconciliationEnds`, `RequestsEnd`, `RequestIsAnswered` |
| | `BroadcastIsSound` | `NeverBroadcastTwice`, `AcceptedWasShown`, `VanishedPeerIsDropped`, `ShutdownLeavesNone`, `ShutdownEnds` |

### Bounds

The exact constants are in the `MC` modules and the `.cfg` files. The bounds are
the smallest at which the cases happen: two reservations compete for
overlapping sets of two seats; a clock passes a hold's expiry, an extension and
the life of an idempotency record; the batch of the sweeper is smaller than the
number of due holds; a booking can run through its whole life, compensation
included, before its version bound; a payment can be captured and reconciled, or refunded
in two rows by two requests; a workflow can be interrupted, resumed and interrupted
again; a lock cycle needs two transactions and two seats; a cache of one or two
entries forgets. One booking suffices for lifecycle and saga, since commands on
different bookings share nothing but the uniqueness of a reservation (`claims`),
of seats (`seats`, `issuing`) and the places in a batch (`batches`). Symmetry is
used for interchangeable identifiers in safety runs only. Deadlock is checked in
`seats`; elsewhere a system in which nobody asks for anything may stop, and the
liveness properties say what may not.

In `mappings` and `events` two requests read a row and save their copies one
after the other, whatever the other has saved meanwhile. Versions are then not
what their contract says, as section 4 tells. `StaysDeactivated`,
`StatusMovesAllowed` and `OneTicketTypeList` say how far the damage goes: a stale
copy undoes a status or doubles a list only where both requests were answered to
have changed one version of the row. `LinkIsKept` knows no such limit and holds only
without an overlap, so it is required in `customers`, where one caller may crash
between its transactions.

### Fairness

* Workers and pollers run for ever and catch what a round raises: the seat
  sweeper's `expiry_loop` (weakly fair when it meets no locked row; a lock it
  skips lasts at most as long as a transaction), the gateway's reconciliation
  worker, Payment Service's worker, the relay. The gateway's outbox worker does
  not catch errors of its database, and its part has none.
* A request that is being served goes on (an event loop runs what is ready,
  PostgreSQL grants a free lock and breaks a cycle, lock timeouts bound a wait).
* Time passes where a deadline, a back-off or an idle timeout decides.
* `ProviderSettles`: a payment service that was told UNKNOWN finds out in the
  end; assumed only for scenarios in which the provider decides.
* A user without a profile who keeps asking (strong fairness in `enrolment`,
  since another device's answer may disable the request in between).

Nothing is assumed of clients of a purchase: nobody has to retry.

## 4. Where the code differs from what it says

Each line was a counterexample of TLC to the named definition, which stays in
its module. Four of them are kept as runs.

With a run:

* `booking_closing` (`CompensationCanComplete`): cancelling with `paymentStatus`
  UNKNOWN is accepted for a booking that never started a payment. Once resolved
  as SUCCEEDED, the booking waits for a refund whose evidence is refused for
  want of a `paymentId`; nothing closes it. `CompensationStopsOnlyForRefund`
  shows that every other pending compensation can be completed.
* `saga_unknown_payment` (`CapturedIsDelivered`): recording UNKNOWN sets
  `paymentRecordedAt`, which `_refresh_booking_version` takes for the recorded
  success; a payment that is captured later is not delivered.
* `cancellation_refund` (`AcceptedIsCancelled`): the refund request of a
  cancellation names no amount, Payment Service refuses it, and nothing resumes
  the cancellation.
* `delivery_dead_letter` (`AcceptedIsNotDeadLetter`): a webhook event whose first
  answer was lost is refused as a duplicate with 409, until the outbox gives it
  up, although its mail was sent.

Booking and Seat Inventory:

* `ConfirmedAnswersAreConfirmed` (`confirm_reservation.py:60`): RELEASE_PENDING
  and RELEASED count as proof that the reservation was confirmed.
* `UnsettledPaymentIsReconciledFirst` (`reconcile_bookings.py:59`): for a booking
  in compensation whose payment is PROCESSING the advice is
  COMPLETE_COMPENSATION, not RECONCILE_PAYMENT, and is refused.
* The advice is refused to three more kinds of booking, which `AdviceIsRefused`
  lists (`reconcile_bookings.py:58`): START_PAYMENT when the hold has expired,
  RECONCILE_PAYMENT when the payment has no identifier, COMPLETE_COMPENSATION
  when a refund is owed and no payment is named. TLC reaches all of them;
  `AdviceFailsOnlyAsListed` says that there is no further kind.
* `UpgradeCommits` (`0002_booking_evidence.py:104`): the revision checks what it
  does not backfill; one confirmed or cancelled booking of 0001 aborts it.

Sagas and workers of the gateway:

* `ConfirmedKeepsTickets` (`booking.py:929`): when the answer of the last command
  is lost, the worker compensates a confirmed purchase and cancels its tickets.
* `AnnouncedOnce` while a request and the worker drive the same workflow
  (`booking.py:789`): the worker listed the row before the request closed it,
  learns from the booking that everything is done, and `save_with_outbox` writes
  `booking.confirmed` a second time. It holds for one actor at a time
  (`ConfirmedIsDelivered`, part `alone`).
* `CompensationIsNotForgotten` (`reconciliation.py:77`): after a failure the
  worker saves the row it listed over the COMPENSATION_PENDING that was stored.
* `CompensationEnds` (`booking.py:1066`): neither the refund nor the release of
  sold seats that compensation asks for is ever accepted.
* `MoneyIsRemembered` under a second request with the same key
  (`booking.py:78`): the first request's failure is saved over the second's row.
  It holds when the requests do not overlap, as in the run.
* `ReachedByTheWorker` with as many stuck workflows as a batch has places
  (`reconciliation.py:45`): no other workflow is visited again. It holds with one
  stuck workflow less, as in the run.
* `SentIsFinal` with two replicas (`outbox.py:24`): SENT is overwritten by the
  snapshot of the other replica.
* `MessageSettles` with storage failures (`outbox.py:49`): one failing statement
  ends the outbox worker.
* `DeadlineKept` (`policies.py:52`): the wait for the bulkhead has no timeout.
* `EnrolmentEnds` with lost requests (`router.py:582`): a customer that was
  created and not linked stands in the way of every retry.

Payment and tickets:

* `ReconciliationEnds` with refunds reported UNKNOWN (`reconcile_payment.py:274`)
  or a capture reported UNKNOWN after a callback captured it
  (`capture_payment.py:143`): the worker can never settle these, and in the first
  case never counts the attempt. The run has the requests without the two.
* `CaptureFollowsAuthorize` (`provider_outcomes.py:205`): a PENDING payment can be
  captured.
* `RepairedTakesWrites` (`0003_payment_schema_repair.py:135`): the repair leaves
  old checks that refuse UNKNOWN.
* `EventSettles` when the receiver closes connections
  (`publisher.py:86`): the attempt is not counted and blocks the outbox.
* `TicketAdmitsOnce` (`check_in_ticket.py:82`): a second scan of a ticket is
  answered like the first, because gate and actor are the gateway's own. The
  token is the endpoint's, so the second scan may even carry a code that was
  replaced before the first checked the ticket in.

Notification and Realtime Status:

* `RetryKeySendsOnce` (`deliveries.py:64`): the key of a retry is not used.
* `FailedPublishCanBeRetried` (`booking_status_consumer.py:79`): a status that
  failed while the next one was accepted is STALE when it is retried.
* `EachFailureHasAFault` (`backends.py:217`): after one late delivery every retry
  of the event times out.
* `SameKeySameTicket` (`ws_ticket.py:44`): two requests with one key get two
  valid tickets.

Identity, customers, events:

* `BucketIsThere` (`rate_limits.py:53`): a successful login deletes the bucket a
  second one is about to lock.
* `EndedFamilyIsRevoked` (`refresh_sessions.py:38`): a refresh that commits during
  a logout leaves a live session.
* `RoleChangeRequiresAdmin` (`role_management.py:43`): two administrators can
  remove each other.
* `VersionHasOneWriter` (both services), `LinkIsKept`, `DeactivationIsFinal`,
  `MailboxIsUnique`, `CancelledIsNotEligible`, each with two requests at once:
  If-Match is compared on a copy, saved later without another look. So a cancelled
  event can be published and an event have two lists of ticket types, when two
  requests save one version of it.
* `UnlinkedIsFree` (`manage_identity_mapping.py:35`), `SameKeySameResult`
  (`resources.py:55`): an unlinked mapping keeps its customer; the key of a
  creation is never read.

## 5. Proofs

All theorems hold for any constants that satisfy the named assumptions (the
absent value `None` is no identifier, status, key or row; settings are positive;
a purchase has a reservation, a payment and details to name).
Two assumptions only spell out for the provers what TLC evaluates anyway:
`NoneIsNoPayment` and `BackoffIsNumber` (the provers know nothing of powers).

`BookingLifecycleProofs`: `TypeCorrect`, `ConstraintsAlwaysHold`,
`CompensationIsNeverHidden`, `ClosingIsSettled`. The inductive invariant `Inv`
says that every stored booking is `Sound`: well typed and satisfying
`EvidenceFitsStatus`, `OwedWorkIsRecorded`, `ClosedIsSettled` and, the
strengthening, `ClosingIsPrepared`. None of the first three is inductive alone:
closing is judged by the recorded action, so `ClosedIsSettled` needs
`OwedWorkIsRecorded`, and the CHECK constraints on FAILED and CANCELLED need the
reason stored when compensation began. `BookingAggregateProofs` has one lemma per
aggregate command ("preserves soundness"), wherever the command is run, so that
`StoreKeepsInv` and `NextKeepsInv` only combine them.

Also `NothingIsEverUndone`, the conjunction of the lifecycle's three action
properties. `Continues(was, is)` says what one command may make of
a stored booking, and each command has a lemma that it does no more. `Sound`
alone is not enough: the action recorded with a pending compensation may be
older than the payment status, and completing a refund from it must not touch a
payment that is settled otherwise. The strengthening, `RefundIsMarked`, is that
a refund once owed is already REFUND_PENDING or REFUNDED, because every command
that begins or continues a compensation ends in `_mark_compensation_pending`.

The module also proves `StuckBookingsAreKnown`, for non-empty sets of
reservation and payment ids (without one there is nothing to attach or to
start): both halves of "stuck exactly where listed". What `Sound` lacks is
`Prepared`: while a release is owed the reservation evidence says so
(RELEASE_PENDING or RELEASED), only a reservation that was named has an evidence
status, and tickets are attached all at once. `RefundWithoutPaymentStops` is
the other direction: a refund that is marked is settled by a refund only, and
one without a payment is not accepted.

`BookingServiceProofs`: `ServiceImplementsLifecycle`, step by step and with no
invariant. `SameAggregate` shows that the operators seen through the instance
are the service's own, `ExecuteWrites` that `execute_transition` either leaves
the table alone or writes what the aggregate accepted, `CommandRefines` that
each command with its arguments is the abstract one: the request names the
booking's version because the aggregate's guard compares them, and an answer to
a replay or to a command already applied is a stutter.

Of the pipeline itself, for any bookings, keys, TTL and offered requests
(`ServiceAssumption`: TTL is positive and None is no record; the run evaluates it for both
instances): `TypeCorrect`, `ReservationsKeepOneOwner` (`ReservationHasOneOwner`),
`AuditIsComplete` (`AuditIsTheHistory`), `KeysTakeEffectOnce`
(`KeyTakesEffectOnce`), `AnswersAreCommitted` (`AnswersWereCommitted`),
`AnswersFitRequests` (`AnswersReflectRequests`) and `OutcomesAreAnnouncedOnce`
(`EventsAnnounceOutcomes`). `NextIs` first reduces every step to one of three
shapes: time passes, a transaction `Answers` (and saves the answer), or it `Writes`
the next version of one booking with its row and events. Four invariants are kept
by these shapes:

* `StoredInv`, that a stored booking is typed and `Fit`. An answer that a command
  "is already applied" is recorded as if the command had run, and FailBooking and
  CancelBooking judge that by the booking's reason alone; so that the answer fits
  the request needs `ReasonsFit`, that a reason stands only on a booking that
  closes, or is closing, in that way.
* `TrailInv`: the rows of a booking are told apart by their version, reach up to
  its version and no further, and are linked by their statuses.
* `KeyInv`: the record of a key outlives the latest row written under it by TTL
  (`RecordsOutlive`), so where nothing is replayed (`KeyIsFree`) TTL has passed.
* `AnswersInv`: a record's answer fits its request and is `Backed` by a row written
  at least TTL before it expires. A new record may repeat the state an earlier
  command left, so the row need not be of the record's own command.

`EventsInv` ties rows and outbox together. That an outcome is announced once needs
that no booking enters it twice (`OutcomesAreEntered`): the rows that entered
CONFIRMED, FAILED or CANCELLED are judged against the booking's present status,
by what each command's `Moves` says of the statuses it leads to.

`SeatInventoryProofs`: `TypeCorrect`, `HoldsAlwaysAgree`, `NoSeatIsSoldTwice`,
`OutcomesStayFinal`, `AuditIsComplete` and `AnswersStayTrue`. `HoldsAgree` and
`NoDoubleSale` are inductive together, with the types: free seats belong to no
standing reservation, so a new hold is disjoint from the others, and disjointness
lets one reservation end without touching another. `EndingKeepsStory` treats a set
of reservations that end at once and serves confirmation, release and the sweeper
alike. `OutcomesStayFinal` is an action property proved from the same invariant.

For `AuditIsComplete` and `AnswersStayTrue`, every step of the service has one of
four shapes (hold, end, extend, configure, `StepsAre`), so the audit is extended by
one row per seat that changed, `Reallocate`'s or `ConfigureInventory`'s. An answer
is harder: a replayed one is as old as its idempotency record. `AnswersInv`
therefore speaks of the stored records: what one reports still names the same seats
and, for a confirmation or a release, the outcome that was reported; that a released
reservation holds none of its seats also needs `ReservedSeatsRemain` (the rows of
reserved seats are not deleted).

`TransactionProofs`, about the services whose transactions interleave statement by
statement; it extends `MCTransactions`, so that the theorems state the run's
properties, whose constants are given values by the run only. `RowLocksSuffice`
(`SeatLocksSuffice`): with nothing but row locks between them, transactions of any
number of commands and sweepers leave seats and reservations in agreement
(`SeatInventory`, which takes a transaction for one step, assumes as much);
commands never deadlock with each other; and a sweeper that deadlocks waits for a
record it is to delete, or has several reservations and meets a command that locks
several seats. `CommittedHoldsAgree` is inductive with what a transaction knows: it
holds the lock of every row it read (`ReadsStay`), and a transaction about
reservations wants no seat but theirs, which stay ACTIVE (`Owning`). The deadlocks
follow from the same invariant. A command that waits for a record holds nothing, and
one that waits for a reservation holds at most the record of its key (`Asking`): a
circle without a sweeper that waits for a record is about seats. A command that waits
for a seat holds only smaller ones (`InOrder`), so the one that waits for the greatest
seat would close no circle; and transactions about reservations, one or many, want no
seat in common, since the seats of ACTIVE reservations are disjoint. The other case is
real: a replay of `ReserveSeats` locks its expired record and waits for the
reservation a sweeper has, which then waits to delete the record.

`AccountsStayGuarded`, and `GuardedAmongServices` for the composed run
(`AccountsAreGuarded`): Identity Service, with any accounts and requests. None of
`OneLiveSession`, `VersionDeterminesRoles` and `LockoutHolds` is inductive: a
refresh revokes the old session, and a login counts its wrong password, some
statements after it read them. `IdentityInv` adds what a request knows by its phase
(`RequestsFit`); that a login between its statements owns the account's bucket
(`BucketsAreOwned`), so guesses are counted one after the other
(`GuessesAreCounted`: what was answered is what was counted, unless the account is
locked); that two requests never hold one session, and that a session read as live
stays so until the request that locked it goes on (`SessionsAreLocked`); that a
family is no younger than its sessions (`SessionsAreRooted`, so a new login is a new
family); and that a token's version is one the account had (`TokensAreDated`), so
that a raised version is carried by no token yet. `AccountsHaveRoom` counts the
requests that may still add a session or raise a version against the bounds.

`RowsStayOwned` (`RowsHaveOneOwner`) and `StatusesMoveUnlessRivals`
(`StatusesMoveAsAllowed`): Customer and Event Service, which lock nothing, so that a
command saves a copy of what it read some transactions ago. `CustomersInv` holds for
any number of callers: it says which row each request is about (`CallsFit`), that
versions count the requests that made them (a request that has not read the mapping
yet still owes one, `IsLink`), and `MappingsAreApart`, which the unique constraints
keep although the check for a conflict reads both mappings before another request
saves one. That answered links stand is true of one caller only (`LinkIsKept`,
section 4); `SoleCallerInv` adds that the copy it holds is what is stored
(`CopyIsCurrent`), which a crash keeps: the copy is lost with the request.

Statuses are proved for any number of callers and administrators. A request's copy
is the next version of what is stored, from which it differs by that one command
(`CopyIsNext`, `EditIsNext`), as long as the row has the version the request read. If
the row has moved on, somebody was
answered to have changed the version the copy was read from (`CopyIsDated`,
`EditIsDated`), and the save makes the two of them rivals (`HasRivals`), which they
remain. `ProfilesInv` and `EventsInv` also tell requests apart that read one version
(`CommandsDiffer`, `EditsDiffer`) and bound what was written by the row's version
unless it has rivals (`ProfileVersionsFit`, `EventVersionsFit`).
`StatusesMoveUnlessRivals` is an action property proved from the same invariants.

`PaymentServiceProofs`: `RecordsAlwaysAgree`, `RefundsAlwaysAddUp`,
`PaymentsAlwaysMoveForward`. Each command, the callback and the worker's
reconciliation is shown to be one `Handled` step: it answers from the payment
that is there, or records its next version, with an audit row, a refund row
exactly when the payment says more was refunded, and the outcome in the ledger
when it settles an unknown payment. `PaymentInv` is what such a step keeps.
`RowsAreConsistent` is not inductive: an UNKNOWN payment returns to the status it
had, so `WellFormed` says of `lastStableStatus` what the CHECK constraints say of
the status. `RequestTakesEffectOnce` needs `RowsNameRequests`: a command's audit
row has the version the request names, a callback's has its event id in the
ledger, and both are used up. The sum of the refund rows is a fold over a set,
defined by CHOOSE; `TotalAdds` proves what it computes for every finite set of
rows by taking a least counterexample among the natural numbers (`WFMin`),
because the library's induction theorems have an operator parameter, which the
provers cannot instantiate.

`TicketServiceProofs`: `TypeCorrect`, `TicketsStayUnique` (`OneTicketPerSeat`,
`IssuedTogether`, `EffectOncePerRequest`), `HistoryIsComplete`
(`AuditIsTheHistory`), `CheckInsStayCurrent` (`CheckInIsCurrent`) and the
action property `UsedTicketsAreFinal`, for any numbers of gates, requests and
lost answers. The services run checks the same definitions on two small
instances; they reach it by INSTANCE, so the theorems assume `TicketAssumption`,
which the run evaluates for both, and are carried over below. `CheckInIsCurrent` is far from inductive: the
command compares the token the endpoint signed for itself, so only the version
ties a check-in to the code that was scanned. `GatesOK` says that while a ticket
has the version a gate saw it has the QR code the gate scanned (a new code is a
new version), and `CheckInsOK` that a check-in written for a gate's present scan
showed the newest code, which covers the command that ran but whose answer was
lost, and is replayed. That a scan with a replaced code came after another's
check-in needs that only a check-in leaves CHECKED_IN (`AuditOK`) and that the
last version has its row (`HistoryOK`). For a check-in that is found already there it needs that a
stored answer's ticket is checked in (`RecordsOK`) and that only a valid ticket
changes (`Moves`). `HistoryOK` needs in `AuditOK` that a version has one row, and
`EffectOncePerRequest` that a row's version is the one its request expected plus one.

`CancellationSagaProofs`: `TicketsAlwaysNeedSeats`, the P0 invariant of booking.py,
of the purchase and its cancellations together. Unlike the runs, it bounds
nothing: any number of requests may drive the workflow, at the same time as the
worker and a cancellation. That is why what an actor holds in memory matters: its
copy of the workflow may be far behind the row, and it saves the copy over the
row. The inductive invariant `SagaInv` therefore says of every copy (the row's,
each actor's, the one the worker listed and may put back) what the services
show: a copy with "seatConfirmed", a status from SEAT_CONFIRMED on, or ticket ids
exists only once the seats are sold (`WorkflowOK`), an actor at a step knows what
the step needs (`Knows`), and a version in memory is not ahead of the booking.
This holds of stale copies because what the services show is never taken back:
`Extends`, which every answer is shown to keep (`GoodAnswer`). The step that could
break it is `RefreshBookingVersion`, which reads "seatConfirmed" off the booking;
so the booking's own evidence must be true (`SaysSold`), and each of the nine
commands the sagas send is shown to add none the services do not show (`Follows`).
Then one lemma per action, most of them `CallKeeps` with the three ways a call can end.

Four theorems carry these over to the runs that reach a component by INSTANCE:
`RecordsStayTrue` (`RecordsAreTrue`) and `EffectsStayUnique` (`EffectsAreUnique`) in
`BookingLifecycleProofs`, `IssuedTicketsStayUnique` (`TicketsAreUnique`) and
`ScannedCheckInsStayCurrent` (`CheckInIsCurrent`) in `PaymentServiceProofs`, which
therefore extend the `MC...` modules. `ServiceProofs` is `BookingServiceProofs` at the
constants of the part "service", and the other three likewise; lemmas show, operator
by operator, that it is about the steps (`ServiceSpecified`), the properties
(`ServiceStated`) and the assumptions (`ServiceAssumed`) of the instance `Service`;
and a behaviour of `Parts` that starts in a part is one of the part's instance. So
the bookings, seats and keys of these parts may be any values, as many as the part
has; for any number of them there are the theorems about the components.

What stays with TLC: liveness under fairness and ENABLED, which are outside the
prover's reach; `NothingIsForgotten`, which needs the bounds of its parts (one actor,
or one crash and one lost call) and what every actor remembers of money; the four
properties of `MCEdge` (outgoing calls and enrolment, mail and relays, the status
stream, its connections); the two migrations; the rest of `MCPurchase`, of which the
refinement of `Purchase` is in the plan.

## 6. Not modelled

* Interleaving inside the transactions of Booking, Payment and Ticket Service:
  their locks serialise them. The one thing they do not protect is the clock,
  which a command reads before it waits for its locks.
* More than one instance of Realtime Status Service.
* Notification's templates (nothing reads them), the audit table of Identity
  Service (written with what it records, never read).
* Queries, health checks, metrics, signatures, password hashing, formatting;
  routes of the gateway that only forward a request.
* Libraries, frontends, contracts, infrastructure: no state of their own.

## 7. Plan

1. Theorems: the refinement of `Purchase` by `BookingSaga`, which needs that one
   actor at a time drives the workflow; then the properties of `MCEdge`.
2. A clock inside the transactions of Booking Service.
3. Two instances of Realtime Status Service behind one Redis.
