\* Three jobs for one slot: two may wait at once, so their order shows.
SPECIFICATION Spec
CONSTANTS
  NumJobs = 3
  Concurrency = 1
  Name = {n}
  Chunks = 1
  MaxProbe = 0
  MaxRetry = 1
  Syncing = {}
  OldLengths = {1}
  Depth = 1
  Silent = TRUE
  InPlace = {TRUE}
  Old = Old
  Hole = Hole
  NoFile = NoFile
INVARIANT TypeOK
PROPERTIES ImplementsPool EveryJobGetsOn
\* Every job may be finished and nothing left to enqueue.
CHECK_DEADLOCK FALSE
