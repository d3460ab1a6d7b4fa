SPECIFICATION Spec
\* Nobody has to ask for anything.
CHECK_DEADLOCK FALSE
CONSTANTS
  None = None
  b1 = b1
  k1 = k1
  why = why
  ref = ref
  authRef = authRef
  captureRef = captureRef
  f1 = f1
  f2 = f2
PROPERTY HoldsEnd
PROPERTY RequestsAreAnswered
PROPERTY BroadcastIsSound
