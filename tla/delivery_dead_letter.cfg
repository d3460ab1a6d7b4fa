SPECIFICATION Spec
\* Everything may have been sent.
CHECK_DEADLOCK FALSE
CONSTANTS
  Events = {e1}
  Replicas = {g1}
  RetryKeys = {}
  None = None
  MaxAttempts = 2
  BatchSize = 2
  MaxCalls = 2
  MaxCrashes = 0
  MaxStorageFaults = 0
  MaxVersion = 2
INVARIANT AcceptedIsNotDeadLetter
