\* Three attempts to connect, to two hosts of SSH and one that has no keys.
SPECIFICATION Spec
CONSTANTS
  MaxAttempts = 3
  Host = {s1, s2, f}
  Ssh = {s1, s2}
  Key = {k1, k2}
  MAX_AUTO_RECONNECT_ATTEMPTS = 1
  NoHost = NoHost
  NoKey = NoKey
  s1 = s1
  s2 = s2
  f = f
  k1 = k1
  k2 = k2
SYMMETRY Symmetry
INVARIANTS TypeOK TrustIsConsent  
\* Once everything is closed and the attempts are used up there is nothing to do.
CHECK_DEADLOCK FALSE
