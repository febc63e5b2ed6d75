\* Two jobs onto one path, whose sources are empty or end with a whole block.
SPECIFICATION CopySpec
CONSTANTS
  NumJobs = 2
  Lengths = {0, 12}
  ALIGN = 3
  FLUSH_AT = 6
  SIMPLE_LIMIT = 7
  Buffer = 2
  Pairs <- OneDriveAndWebDav
  MaxRetries = 1
  MaxFailures = 1
  MaxChanges = 1
  NoFile = NoFile
  Unknown = Unknown
INVARIANTS CopyTypeOK RangesFit
PROPERTY CopiesAreWhole
\* Every job may be done.
CHECK_DEADLOCK FALSE
