CONSTANTS
  c1 = c1
  c2 = c2
  w1 = w1
  h1 = h1
  p1 = p1
  r1 = r1
  t1 = t1
  admin = admin
  Containers = {c1, c2}
  Workers = {w1, h1}
  Home <- MCHome
  Seeds = {m1}
  Permissions = {p1}
  Roles = {r1}
  Templates = {t1}
  Admin = admin
  Releases <- MCReleases
  Versions = {0, 2, 8, 14}
  Slots = 2
  None = None
SPECIFICATION Spec
INVARIANTS Consistent CopiesFromOverlap BootstrapsSeed OnlyVisitorsBlockUpgrades
