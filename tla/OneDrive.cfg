\* Enough for a call overtaken by a clear, one overtaken by another call, one
\* after each, and a page load in between.
SPECIFICATION AccountSpec
CONSTANTS
  MaxCalls = 4
  MaxClears = 3
  MaxReloads = 2
  None = None
INVARIANTS TypeOK ClearIsFinal AccountShown
PROPERTY NoStaleCommit
\* The bounds may be used up.
CHECK_DEADLOCK FALSE
