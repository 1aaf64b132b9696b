SPECIFICATION MCFairSpec
CONSTANTS
    ann = ann
    sam = sam
    w1 = w1
    Users <- Agency
    SubsOf <- OwnerOfSam
    Workers <- OneWorker
    MaxEffects = 4
    MaxAttempts = 2
    MaxFence = 2
INVARIANTS
  ConfirmedHappened
  
  StartedInOrder
PROPERTIES
  ProviderNeverGoesBackAlways
  ClaimsEnd
CHECK_DEADLOCK FALSE
