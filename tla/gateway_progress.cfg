SPECIFICATION Spec
\* A purchase may stop where nobody retries it.
CHECK_DEADLOCK FALSE
CONSTANTS
  None = None
  Details = {d1}
  ReservationIds = {r1}
  PaymentIds = {p1}
  TicketIds = {t1}
  ItemCount = 1
  Reconciler = worker
PROPERTY PurchasesEnd
PROPERTY WorkersLeaveNothing
PROPERTY CallersGetOn
