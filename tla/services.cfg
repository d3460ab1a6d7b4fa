SPECIFICATION Parts
\* Nobody has to ask for anything.
CHECK_DEADLOCK FALSE
CONSTANTS
  None = None
  b1 = b1
  b2 = b2
  s1 = s1
  s2 = s2
  k1 = k1
  k2 = k2
  e1 = e1
  e2 = e2
  ref = ref
  authRef = authRef
  captureRef = captureRef
  Bookings = {b1}
  ProviderRefs = {ref, authRef, captureRef}
  RefundRefs = {f1, f2}
  Reasons = {why}
  DefaultReason = why
  MaxAmount = 2
  Keys = {e1, e2}
  TTL = 1
  MaxAttempts = 2
  InitialDelay = 1
  MaxDelay = 2
  MaxVersion = 5
  MaxNow = 1
  LastRequestAt = 1
  MockReference <- MCMockReference
  Offered <- RacingRequests
SYMMETRY Symmetry
INVARIANT RecordsAgree
INVARIANT RefundsAddUp
INVARIANT TicketsAreUnique
INVARIANT CheckInIsCurrent
PROPERTY PaymentsMoveForward
PROPERTY MigrationIsFaithful
