SPECIFICATION HoldSpec
CONSTANTS
  o1 = o1
  k1 = k1  k2 = k2
  r1 = r1  r2 = r2
  b2b = b2b  agent = agent
  Offers = {o1}
  Keys = {k1}
  Readers = {r1}
  Contexts = {b2b, agent}
  Settings <- MCSettings
  MaxEpoch = 0
  MaxVersions = 1
  MaxReads = 0
  MaxCrashes = 0
SYMMETRY MCSymmetry
CHECK_DEADLOCK FALSE
PROPERTY SoldInContextAlways
