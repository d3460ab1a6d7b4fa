SPECIFICATION CancelFairSpec
\* A purchase may stop where nobody retries it.
CHECK_DEADLOCK FALSE
CONSTANTS
  None = None
  Details = {d1}
  ReservationIds = {r1}
  PaymentIds = {p1}
  TicketIds = {t1}
  Reasons = {"Payment was not captured", "A post-capture workflow step failed",
             "Booking workflow failed before payment capture", "BOOKING_WORKFLOW_FAILED",
             "USER_REQUEST", "BOOKING_CANCELLED"}
  ItemCount = 1
  Worker = worker
  Clients = {c1}
  Scenarios = {"SUCCESS"}
  Overlap = FALSE
  HoldMayEnd = FALSE
  MaxCrashes = 0
  MaxFaults = 0
  CancelKeys = {"first"}
  MaxCancels = 1
PROPERTY AcceptedIsCancelled
