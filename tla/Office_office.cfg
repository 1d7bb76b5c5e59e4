CONSTANTS
  super = super
  admin = admin
  vol = vol
  o1 = o1
  o2 = o2
  e1 = e1
  e2 = e2
  e3 = e3
  x1 = x1
  v1 = v1
  v2 = v2
  DeskRequests = {r1, r2, r3}
  Numbers = {n1}
  People = {super, admin, vol}
  RoleOf <- MCRole
  UserOrg <- MCUserOrg
  Quotas = {1, 2}
  Additions = {e1, e2, e3}
  Deletions = {x1}
  BudgetOrgs = {o1, o2}
  BudgetOrg <- MCBudgetOrg
  Amount <- MCAmount
  Ceiling = 2
  Creates = {g1}
  Drafts = {d1, d2}
  Sends = {s1, s2}
  Blasts = {b1, b2}
  Campaigns = {c1}
  Orgs = {o1, o2}
  Voters = {v1, v2}
  OrgOf <- MCOrgOf
  Mobile <- MCMobile
  Phones <- MCMobile
  Channels = {"sms", "whatsapp"}
  Mocked = {"sms"}
  Texts = {t1, t2}
  Leavers = {v1}
  Requested = 4
  Slots = 2
  Workers = {w1, w2}
  Redis = Redis
  Calls = {k1, k2, k3}
  Limit = 2
  Window = 2
  MaxTime = 2
  None = None
SYMMETRY Symmetry
SPECIFICATION OfficeSpec
INVARIANTS DeskInOrder CeilingHeld WithinLimit ProhibitionsKept AnswersItsPath MessagesInOrder
PROPERTIES EditsInOrder SentStands
