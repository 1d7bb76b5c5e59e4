\* Two submissions of a volunteer and of a member of another organization, two
\* reviews, a bulk review and a resolution, two requests at a time.
CONSTANTS
  Submits = {s1, s2}
  Reviews = {r1, r2}
  Bulks = {b1}
  Resolves = {d1}
  Users = {v1, v2}
  Volunteers = {v1}
  OrgOf <- MCOrgOf
  Signals <- MCSignals
  Facts <- MCFacts
  Slots = 2
  None = None
SYMMETRY Symmetry
SPECIFICATION Spec
INVARIANTS Consistent CountersAgree DuplicatesSuspected
PROPERTIES MergeLeavesOneApproved ReviewsTellPrevious
