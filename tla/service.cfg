SPECIFICATION MCSpec
CONSTANTS
  a1 = a1
  a2 = a2
  q1 = q1
  k2 = k2
  q2 = q2
  ann = ann
  bob = bob
  r1 = r1
  r2 = r2
  sup1 = sup1
  sup2 = sup2
  p1 = p1
  p2 = p2
  p3 = p3
  c1 = c1
  c2 = c2
  s1 = s1
  s2 = s2
  s3 = s3
  g1 = g1
  g2 = g2
  cust = cust
  trader = trader
  clerk = clerk
  adm1 = adm1
  adm2 = adm2
  root = root
  adm = adm
  boss = boss
  sub = sub
  x1 = x1
  x2 = x2
  Mails <- MCMails
  Notices <- MCMails
  Notes <- MCMails
  People = {req, staff}
  Requester = req
  Plans <- MCPlans
  Asks = {a1, a2}
  MailAttempts = 2
  EventAttempts = 2
  SendAttempts = 2
  NoticeAttempts = 2
  Searches = {s1, s2, s3}
  ActorOf <- MCActorOf
  RouterOf <- MCRouterOf
  Connections <- MCConnections
  MaxActive = 1
  MaxQueued = 1
  Days = {1, 2}
  UserLimits = {1}
  SupplierLimits = {0, 1}
  MaxVersion = 1
  Prices = {p1, p2, p3}
  ClientOf <- MCClientOf
  MaxPrices = 2
  Sources = {src1}
  Drafts = {d1}
  Calls = {k1, k2}
  Contexts <- MCContexts
  MaxQuotes = 2
  Admins = {admin}
  Bookings = {b1, b2}
  Manual = {b2}
  Assignees = {user}
  Agencies = {g1, g2}
  Evidence <- MCEvidence
  Payables = {1, 2}
  Requests = {q1, q2}
  MaxPrepared = 2
  MaxBalance = 2
  Users = {cust, trader, clerk, adm1, adm2}
  RoleOf0 <- MCRoleOf0
  EmployerOf <- MCEmployerOf
  Assets = {as1, as2}
  Principals = {root, adm, boss, sub}
  FirstRole <- MCFirstRole
  AgencyOwner <- MCAgencyOwner
  HandedOut = {"admin", "staff_account"}
  Executions = {x1, x2}
  SearchUses = {u1}
INVARIANTS
  SentOnce
PROPERTIES
  WithinBudgetAlways
  BookedAsPricedAlways
  ChargedAsReviewedAlways
  PapersInOrderAlways
  ActedByAuthorityAlways
CHECK_DEADLOCK FALSE
