SPECIFICATION Parts
\* Nobody has to ask for anything.
CHECK_DEADLOCK FALSE
CONSTANTS
  None = None
  b1 = b1
  b2 = b2
  d1 = d1
  d2 = d2
  r1 = r1
  r2 = r2
  p1 = p1
  t1 = t1
  t2 = t2
  k1 = k1
  k2 = k2
  Details = {d1}
  ReservationIds = {r1, r2}
  PaymentIds = {p1, p2}
  TicketIds = {t1, t2}
  Reasons = {why}
  ItemCount = 1
  BookingIds = {b1}
  Times = {1}
  ReservationVersions = {1}
  MaxVersion = 9
  MaxNow = 1
SYMMETRY Symmetry
INVARIANT TypeOK
INVARIANT ConstraintsHold
INVARIANT NoHiddenCompensation
INVARIANT NoUnsettledClosing
INVARIANT OnlyListedAreStuck
INVARIANT RecordsAreTrue
INVARIANT EffectsAreUnique
PROPERTY NothingIsUndone
PROPERTY ImplementsLifecycle
PROPERTY MigrationIsFaithful
