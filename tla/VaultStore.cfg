\* Two connections, three passphrases, two saves, one page load.
SPECIFICATION Spec
CONSTANTS
  Conn = {c1, c2}
  NoConn = NoConn
  MaxSubmits = 3
  MaxSaves = 2
  MaxLoads = 1
  c1 = c1
  c2 = c2
INVARIANTS TypeOK SecretsReadable NothingForgotten UnlockedIsTimed
\* The user may have done all that the bounds allow.
CHECK_DEADLOCK FALSE
