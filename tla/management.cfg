SPECIFICATION MCSpec
CONSTANTS
  adm = adm  acc = acc
  Requests = {1, 2, 3}
  Passengers = {1, 2}
  Price <- MCPrice
  Fees = {0,2}
  Differences = {0, 1}
  MaxQuotes = 2
  Funds = 2
  Admins = {adm}
  Accountants = {acc}
  NoRequest = NoRequest
  NoQuote = NoQuote
  NoUser = NoUser
  Issue = Issue
  Payer = Payer
  Nobody = Nobody
CHECK_DEADLOCK FALSE
INVARIANTS
  OneRequestPerTicket
  BalanceIsAgreed
  AgreedCanSettle
PROPERTY SettledAsSeenAlways
