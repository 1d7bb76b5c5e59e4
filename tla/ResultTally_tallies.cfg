\* Two tallies and a publication of an election with two positions, which a
\* tally counts one after the other.  No symmetry: it is unsound for liveness.
CONSTANTS
  c1 = c1
  c2 = c2
  p1 = p1
  p2 = p2
  None = None
  Tallies = {t1, t2}
  Publishes = {u1}
  Positions = {p1, p2}
  Candidates = {c1, c2}
  Opened = {p1}
  Standing = {c1}
  PositionOf <- OnePosition
  Choices <- MCChoices
  MaxBallots = 1
  MaxChanges = 1
SPECIFICATION FairSpec
INVARIANTS ResultsConsistent CountsBetween DuplicatesFromOverlap
PROPERTIES EveryRequestEnds
