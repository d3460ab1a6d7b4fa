SPECIFICATION Spec
\* Everything may have been sent.
CHECK_DEADLOCK FALSE
CONSTANTS
  None = None
INVARIANT CallsAreAccounted
INVARIANT MarksAreTrue
INVARIANT GapIsAnnounced
INVARIANT ConnectionsAreCounted
