------------------------------ MODULE MCBooking ------------------------------
(* Booking Service for TLC, in four parts of which a behaviour explores one:  *)
(* "lifecycle", the aggregate under every request; "service", one booking     *)
(* behind the command pipeline; "claims", two bookings that claim the same    *)
(* reservations; "migration", a database that is brought to another revision. *)
(* The parts share no state: a part that does not move keeps its initial      *)
(* state.                                                                     *)
EXTENDS BookingLifecycle, TLC

CONSTANTS b1, b2, d1, d2, r1, r2, p1, t1, t2, k1, k2

VARIABLES
  part,                                        \* the part that moves
  stored, idempotency, audit, outbox, clock,   \* the database of BookingService
  migrated, work, first, result                \* that of BookingMigrations

database == <<stored, idempotency, audit, outbox, clock>>
migration == <<migrated, work, first, result>>

NoEvidence == [resolvedPaymentStatus |-> None, reservationReleased |-> FALSE,
               paymentRefunded |-> FALSE]
Released   == [NoEvidence EXCEPT !.reservationReleased = TRUE]
Refunded   == [Released EXCEPT !.paymentRefunded = TRUE]
Resolved   == [Released EXCEPT !.resolvedPaymentStatus = "FAILED"]

\* The saga of one booking: the forward steps at the versions the saga sends
\* them, then failure, cancellation and compensation from wherever it stands.
SagaRequests ==
  [details : {d1}, reservationId : {None}]
  \cup [expectedVersion : {1}, reservationId : {r1}, expiresAt : Times,
        reservationVersion : ReservationVersions, confirmed : {FALSE}]
  \cup [expectedVersion : {2}, paymentId : {p1}]
  \cup [expectedVersion : {3, 4}, paymentId : {p1}, paymentStatus : {"SUCCEEDED", "UNKNOWN"}]
  \cup [expectedVersion : {4}, reservationId : {r1}, reservationVersion : ReservationVersions]
  \cup [expectedVersion : {5}, ticketIds : {{t1}}]
  \cup [expectedVersion : {6}, reservationId : {None}, paymentId : {None},
        paymentStatus : {None}, ticketIds : {{}}]
  \cup [expectedVersion : {2, 3, 4}, reason : Reasons, compensationStatus : {None},
        evidence : {NoEvidence, Released}]
  \cup [expectedVersion : {7}, reason : Reasons, paymentStatus : {None},
        compensationStatus : {None}, evidence : {NoEvidence}]
  \cup [expectedVersion : {3, 4, 5, 8}, reason : {None}, compensationStatus : {"COMPLETED"},
        evidence : {Released, Refunded, Resolved}]

\* Competing claims on one reservation, by creation and by attachment.
ClaimRequests ==
  [details : {d1, d2}, reservationId : {r1, r2, None}]
  \cup [expectedVersion : {1}, reservationId : {r1, r2}, expiresAt : {None},
        reservationVersion : {None}, confirmed : {TRUE}]

Service == INSTANCE BookingService WITH
  BookingIds <- {b1}, Details <- {d1}, ReservationIds <- {r1}, PaymentIds <- {p1},
  TicketIds <- {t1}, Keys <- {k1}, TTL <- 1, Offered <- SagaRequests,
  bookings <- stored, now <- clock

Claims == INSTANCE BookingService WITH
  BookingIds <- {b1, b2}, Details <- {d1, d2}, ReservationIds <- {r1, r2}, PaymentIds <- {p1},
  TicketIds <- {t1}, Keys <- {k1, k2}, TTL <- 1, MaxVersion <- 2, Offered <- ClaimRequests,
  bookings <- stored, now <- clock

\* The service as it is where another part moves: at rest.
AtRest == INSTANCE BookingService WITH
  BookingIds <- {b1}, Details <- {d1}, ReservationIds <- {r1}, PaymentIds <- {p1},
  TicketIds <- {t1}, Keys <- {k1}, TTL <- 1, Offered <- SagaRequests,
  bookings <- IF part = "service" THEN stored ELSE [id \in {b1} |-> None],
  now <- IF part = "service" THEN clock ELSE 0

Migration == INSTANCE BookingMigrations WITH
  ReservationIds <- {r1}, PaymentIds <- {p1}, TicketIds <- {t1, t2}, ItemCount <- 2,
  stored <- migrated

\* What the instances of BookingService may be given, and that None is none of it.
ASSUME ServiceAssumptions ==
  /\ Service!ServiceAssumption /\ Service!OfferedAreRequests
  /\ Claims!ServiceAssumption /\ Claims!OfferedAreRequests
  /\ None \notin {r1, r2, p1, t1}
  /\ None \notin Service!Booking /\ None \notin Claims!Booking

PartsInit ==
  /\ part \in {"lifecycle", "service", "claims", "migration"}
  /\ Init
  /\ IF part = "claims" THEN Claims!Init ELSE Service!Init
  /\ IF part = "migration"
       THEN Migration!Init
       ELSE /\ first = CHOOSE r \in Migration!Rows0001 : TRUE
            /\ work = Migration!NoWork /\ migrated = work /\ result = "none"

PartsNext ==
  /\ UNCHANGED part
  /\ \/ part = "lifecycle" /\ Next /\ UNCHANGED <<database, migration>>
     \/ part = "service" /\ Service!Next /\ UNCHANGED <<vars, migration>>
     \/ part = "claims" /\ Claims!Next /\ UNCHANGED <<vars, migration>>
     \/ part = "migration" /\ Migration!Next /\ UNCHANGED <<vars, database>>

Parts == PartsInit /\ [][PartsNext]_<<part, vars, database, migration>>

\* Bookings, reservations, payments and tickets are each interchangeable.
Symmetry == Permutations({b1, b2}) \cup Permutations(ReservationIds)
            \cup Permutations(PaymentIds) \cup Permutations(TicketIds)

-----------------------------------------------------------------------------
(* The properties of BookingService and BookingMigrations, of the parts they *)
(* are about.                                                                *)

\* What the service recorded, announced and answered is what it committed: the
\* audit trail of a booking is its history, every outcome is announced once, and
\* an answer, also one that is replayed, is a committed state that fits its request.
RecordsAreTrue ==
  /\ part = "service" =>
       /\ Service!TypeOK /\ Service!AuditIsTheHistory /\ Service!EventsAnnounceOutcomes
       /\ Service!AnswersWereCommitted /\ Service!AnswersReflectRequests
  /\ part = "claims" => Claims!AnswersReflectRequests

\* What must happen once does: an idempotency key changes a booking at most once
\* while its record is kept, and a reservation gets one booking, whichever
\* commands claim it.
EffectsAreUnique ==
  /\ part = "service" => Service!KeyTakesEffectOnce
  /\ part = "claims" => Claims!ReservationHasOneOwner

\* Replays, key expiry and "already applied" answers never change a booking in a
\* way the aggregate alone would not.
ImplementsLifecycle == AtRest!ImplementsLifecycle

\* A migration makes no booking confirmed or paid that was not, leaves one that
\* was under way to the current service to carry on, and from the current 0002
\* revision on loses no evidence.
MigrationIsFaithful ==
  /\ [](part = "migration" =>
          Migration!TypeOK /\ Migration!NothingPromoted /\ Migration!MigratedCanGoOn)
  /\ Migration!CurrentEvidenceKept

=============================================================================
