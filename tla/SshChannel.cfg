\* Two writes, the first in at least two chunks, and two chunks of the peer: both
\* windows are used up and granted again.
SPECIFICATION Spec
CONSTANTS
  NumWrites = 2
  Length <- TwoWrites
  MaxPacket = 2
  PeerWindow = 2
  LocalWindow = 2
  MaxChunks = 2
  ChunkSizes = {1, 2}
  Grants = {2}
INVARIANTS TypeOK WindowsAgree StreamsIntact
PROPERTY WaitersReleased
\* Once everything is closed nothing has to happen.
CHECK_DEADLOCK FALSE
