SPECIFICATION Parts
\* A purchase may stop where nobody retries it.
CHECK_DEADLOCK FALSE
CONSTANTS
  None = None
  Details = {d1}
  ReservationIds = {r1}
  PaymentIds = {p1}
  TicketIds = {t1}
  Reasons = {"Payment was not captured", "A post-capture workflow step failed",
             "Booking workflow failed before payment capture", "BOOKING_WORKFLOW_FAILED",
             "USER_REQUEST", "BOOKING_CANCELLED"}
  ItemCount = 1
  Clients = {c1}
  Worker = worker
  Scenarios = {"SUCCESS", "DECLINE", "TIMEOUT", "MANUAL"}
  Overlap = TRUE
  HoldMayEnd = TRUE
  MaxCrashes = 2
  MaxFaults = 2
  CancelKeys = {"first", "second"}
  MaxCancels = 2
INVARIANT TicketsNeedSeats
INVARIANT NothingIsForgotten
PROPERTY AloneImplementsPurchase
PROPERTY CancellationIsWhole
