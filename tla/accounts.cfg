SPECIFICATION MCSpec
CONSTANTS
  root = root
  sub = sub
  adm = adm
  own = own
  new = new
  o1 = o1
  o2 = o2
  NoSubject = NoSubject
  Subjects = {root, adm, own, new, sub}
  Ops = {o1, o2}
  Roles0 <- MCRoles0
  OwnerOf0 <- MCOwnerOf0
  Traders = {}
  Grants = {"admin", "b2b_sub"}
  MaxAttempts = 2
  MaxFence = 3
  MaxMembers = 2
  MaxVersion = 4
  MaxEffects = 1
  MaxClaims = 3
SYMMETRY MCSymmetry
CHECK_DEADLOCK FALSE
INVARIANTS
  SafeToResend
  AgencyWithinLimit
PROPERTIES
  AdmittedByAuthorityAlways
