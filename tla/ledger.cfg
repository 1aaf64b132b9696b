SPECIFICATION MCSpec
CONSTANTS
  w1 = w1  w2 = w2
  a1 = a1  a2 = a2
  o1 = o1  o2 = o2
  s1 = s1  s2 = s2
  r1 = r1  r2 = r2
  NoOwner = NoOwner
  NoOp = NoOp
  NoAccount = NoAccount
  NoSubject = NoSubject
  OpIds = {o1, o2}
  Subjects = {s1, s2}
  Owners = {w1, w2}
  Accounts = {a1, a2}
  OwnerOf <- MCTwoAccounts
  Clients = {}
  Refs = {r1, r2}
  Amounts = {1, 2}
  MaxMinor = 2
  MaxPostings = 7
SYMMETRY MCSymmetry
CHECK_DEADLOCK FALSE
INVARIANTS
  HoldsMatchReservations
  MoneyConserved
  LedgerExplains
  PaidOnce
PROPERTIES
  KeepsPromise
