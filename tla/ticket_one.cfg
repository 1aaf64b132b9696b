SPECIFICATION TicketSpec
CONSTANTS
  c1 = c1
  w1 = w1
  a1 = a1
  b1 = b1
  o1 = o1
  p1 = p1  p2 = p2
  r1 = r1
  fay = fay  flo = flo
  k1 = k1  k2 = k2
  NoOwner = NoOwner
  NoOp = NoOp
  NoAccount = NoAccount
  NoSubject = NoSubject
  NoReviewer = NoReviewer
  NoBooking = NoBooking
  OpIds = {o1}
  Subjects = {b1}
  Owners = {w1}
  Accounts = {a1}
  OwnerOf <- MCOwnerOf
  Clients = {c1}
  ClientOf <- MCClientOf
  Payable <- MCPayable
  Refs = {r1}
  Amounts = {1}
  MaxMinor = 1
  Callers = {k1, k2}
  Reviewers = {fay, flo}
  Proposals = {p1, p2}
  MaxReads = 2
  MaxCrashes = 1
SYMMETRY MCSymmetry
CHECK_DEADLOCK FALSE
INVARIANTS
  OneDispatch
  UnknownStaysHeld
  ChargedOnlyIfTicketed
PROPERTY ReleasedAsProposedAlways
