\* Two casts on one session, for one voter or two, beside deletions and new
\* enrolments.  No symmetry: it is unsound for liveness.
CONSTANTS
  Voters = {v1, v2}
  Elections = {e1}
  Auths = {a1}
  Casts = {c1, c2}
  CheckIns = {}
  Reviews = {}
  Deletes = {d1}
  None = None
  ElectionOf <- MCElectionOf
SPECIFICATION FairDaySpec
INVARIANTS OneBallotPerEnrolment MarkOfEnrolment
PROPERTIES EveryRequestEnds
