\* Two casts that name the same session and different voters.
CONSTANTS
  Voters = {v1, v2}
  Elections = {e1}
  Auths = {a1}
  Casts = {c1, c2}
  CheckIns = {}
  Reviews = {}
  Deletes = {}
  None = None
  ElectionOf <- MCElectionOf
SPECIFICATION Spec
INVARIANTS OneBallotPerSession
