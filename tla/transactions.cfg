SPECIFICATION MCSpec
\* Nobody has to ask for anything.
CHECK_DEADLOCK FALSE
CONSTANTS
  Seats = {1, 2}
  Commands = {c1, c2}
  Sweepers = {w1, w2}
  BatchSize = 2
  MaxRetries = 1
  MaxReservations = 2
  MaxRequests = 3
  None = None
  Users = {u1}
  Clients = {c1, c2}
  LockoutThreshold = 2
  RateLimit = 2
  MaxSessions = 3
  MaxAttempts = 5
  MaxVersion = 4
  Agents = {"c1", "c2"}
  Lead = "c1"
  MaxLinkCalls = 4
  Mailboxes = {c1, c2}
  Subjects = {w1, w2}
  Keys = {"k1"}
  MaxCustomers = 2
  MaxCalls = 5
  Editors = {"c1", "c2"}
  MaxEvents = 1
  MaxChanges = 5
SYMMETRY Symmetry
INVARIANT SeatLocksSuffice
INVARIANT AccountsAreGuarded
INVARIANT RowsHaveOneOwner
PROPERTY StatusesMoveAsAllowed
