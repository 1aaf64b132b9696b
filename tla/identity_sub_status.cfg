SPECIFICATION Spec
CONSTANTS
    ann = ann
    sam = sam
    w1 = w1
    Users <- Agency
    SubsOf <- OwnerOfSam
    Workers <- OneWorker
    MaxEffects = 6
    MaxAttempts = 1
    MaxFence = 1
INVARIANTS
    SettledIsMirrored
CHECK_DEADLOCK FALSE
