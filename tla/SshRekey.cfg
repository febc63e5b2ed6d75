\* A connection from its first line, with exchanges started by either side and
\* traffic in both directions around them.
SPECIFICATION Spec
CONSTANTS
  MaxData = 1
  MaxKeepalives = 1
  MaxClientRekeys = 1
  MaxServerRekeys = 1
  MaxServerMessages = 1
INVARIANTS TypeOK KeyBoundary
PROPERTIES CredentialsGuarded ExchangeEnds
\* Once the dialogue has failed or the read loop has ended nothing has to happen.
CHECK_DEADLOCK FALSE
