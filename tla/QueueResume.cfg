\* One job, retried after the user cancelled it in the conflict dialog.
SPECIFICATION Spec
CONSTANTS
  NumJobs = 1
  Concurrency = 2
  Name = {n}
  Chunks = 2
  MaxProbe = 1
  MaxRetry = 1
  Syncing = {1}
  OldLengths = {1, 3}
  Depth = 1
  Silent = TRUE
  InPlace = {TRUE}
  Old = Old
  Hole = Hole
  NoFile = NoFile
PROPERTY DoneIsCopy
\* Every job may be finished and nothing left to enqueue.
CHECK_DEADLOCK FALSE
