CONSTANTS
  Onboards = {o1, o2}
  Invites = {i1}
  Logins = {l1}
  Refreshes = {r1, r2}
  Logouts = {x1}
  Setups = {s1, s2}
  Confirms = {c1}
  Resets = {p1}
  Updates = {u1}
  Emails = {e1, e2}
  Passwords = {w1, w2}
  Requested = 4
  Slots = 2
  None = None
SYMMETRY Symmetry
SPECIFICATION Spec
INVARIANTS Consistent EndedOnce
PROPERTIES InactiveNotRenewed ColumnsKept
