SPECIFICATION Spec
CONSTANTS
  None = None
  Details = {d1}
  ReservationIds = {r1, r2}
  PaymentIds = {p1, p2}
  TicketIds = {t1, t2}
  Reasons = {why}
  ItemCount = 1
  BookingIds = {b1}
  Times = {1}
  ReservationVersions = {1}
  MaxVersion = 9
  MaxNow = 1
\* A booking may have nothing left to do.
CHECK_DEADLOCK FALSE
INVARIANT CompensationCanComplete
