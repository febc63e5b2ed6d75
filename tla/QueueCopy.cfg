\* Two jobs in two slots, onto the same name, with sources of two chunks and a
\* file that was there before and is shorter or longer than they are.
SPECIFICATION Spec
CONSTANTS
  NumJobs = 2
  Concurrency = 2
  Name = {n}
  Chunks = 2
  MaxProbe = 1
  MaxRetry = 1
  Syncing = {1}
  OldLengths = {1, 3}
  Depth = 2
  Silent = FALSE
  InPlace = {TRUE, FALSE}
  Old = Old
  Hole = Hole
  NoFile = NoFile
PROPERTIES OldFileConsent DoneIsCopyOfOwnPartial
\* Every job may be finished and nothing left to enqueue.
CHECK_DEADLOCK FALSE
