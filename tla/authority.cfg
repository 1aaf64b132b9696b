SPECIFICATION MCSpec
CONSTANTS
  r1 = r1
  r2 = r2
  own = own
  sub = sub
  o1 = o1
  o2 = o2
  NoSubject = NoSubject
  Subjects = {r1, r2, own, sub}
  Ops = {o1, o2}
  Roles0 <- MCRoles0
  OwnerOf0 <- MCOwnerOf0
  Traders = {own}
  Grants = {"admin", "customer"}
  MaxAttempts = 1
  MaxFence = 2
  MaxVersion = 4
  MaxEvents = 1
  MaxStarted = 2
SYMMETRY MCSymmetry
CHECK_DEADLOCK FALSE
INVARIANTS
  RootRemains
  OneChangePerVersion
  AgencyNeedsOwner
  DeletionHolds
  NothingLeftBehind
