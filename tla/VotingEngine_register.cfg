\* One voter's row written by two casts, two check-ins, a review and a deletion
\* at once.
CONSTANTS
  Voters = {v1}
  Elections = {e1}
  Auths = {a1}
  Casts = {c1, c2}
  CheckIns = {k1, k2}
  Reviews = {w1}
  Deletes = {d1}
  None = None
  ElectionOf <- MCElectionOf
SYMMETRY Symmetry
SPECIFICATION Spec
INVARIANTS NoDoubleVote BallotsAccountedFor CheckInsConsistent RegisterBalances
PROPERTIES VotesAreFinal ImplementsBallotBox
