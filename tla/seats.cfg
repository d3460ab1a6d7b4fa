SPECIFICATION Parts
CONSTANTS
  None = None
  k1 = k1
  stalls = stalls
  Events = {e1}
  SeatIds = {s1, s2}
  BookingIds = {b1, b2}
  ReservationIds = {r1, r2}
  Keys = {k1, k2}
  Layouts = {stalls, balcony}
  HoldSeconds = {1}
  ExtensionSeconds = {1}
  MaxExtendCount = 1
  ExpiryBatchSize = 1
  TTL = 1
  InventoryVersions = {1, 2}
  MaxNow = 1
SYMMETRY Symmetry
INVARIANT TypeOK
INVARIANT HoldsAgree
INVARIANT NoDoubleSale
INVARIANT AnswersAreTrue
INVARIANT AuditExplainsSeats
PROPERTY OutcomesAreFinal
