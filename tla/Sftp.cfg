\* Three bytes, at most two in flight, one refused request, one resume.  The ids wrap
\* in the course of a run.
SPECIFICATION Spec
CONSTANTS
  IdModulus = 16
  FirstIds = {13}
  SourceLength = 3
  Depths = {1, 2}
  ReadFrom = {0, 1}
  BufferSizes = {1, 2}
  MaxPayload = 2
  ChunkSizes = {1, 2}
  MaxFailures = 1
  MaxAttempts = 2
INVARIANTS TypeOK ReadsTheFile ClosedIsWhole
PROPERTY CallsReturn
\* A handle that is closed has nothing more to do.
CHECK_DEADLOCK FALSE
