SPECIFICATION MCSpec
CONSTANTS
  w1 = w1  a1 = a1  o1 = o1  s1 = s1
  r1 = r1  r2 = r2  r3 = r3  r4 = r4
  ann = ann  fay = fay  flo = flo
  acct = acct  mon = mon  tue = tue  tx = tx  TX = TX  cash = cash
  NoOwner = NoOwner
  NoOp = NoOp
  NoAccount = NoAccount
  NoSubject = NoSubject
  NoUser = NoUser
  NoRequest = NoRequest
  NoPayment = NoPayment
  OpIds = {o1}
  Subjects = {s1}
  Owners = {w1}
  Accounts = {a1}
  OwnerOf <- MCOneAccount
  Clients = {}
  Refs = {r1, r2, r3, r4}
  Amounts = {1}
  MaxMinor = 2
  Customers = {ann}
  Finance = {fay, flo}
  Details <- MCDetails
  Canonical <- MCCanonical
SYMMETRY MCSymmetry
CHECK_DEADLOCK FALSE
INVARIANTS
  PostingsAreApproved
  PaymentCreditedOnce
  ReversalsWithinDeposit
