SPECIFICATION HoldSpec
CONSTANTS
  o1 = o1
  k1 = k1  k2 = k2
  r1 = r1  r2 = r2
  b2b = b2b  agent = agent
  Offers = {o1}
  Keys = {k1, k2}
  Readers = {r1, r2}
  Contexts = {b2b}
  Settings <- MCSettings
  MaxEpoch = 1
  MaxVersions = 2
  MaxReads = 2
  MaxCrashes = 1
CONSTRAINT MCReadsOfOne
SYMMETRY MCSymmetry
CHECK_DEADLOCK FALSE
INVARIANTS
  DispatchedOnce
PROPERTIES
  SoldAsAcceptedAlways
  DecisionsStandAlways
  ReadsInOrderAlways
