\* A transition, an edit and a publication that wait for the row of the
\* election, which never goes LIVE here: it has no position and no candidate.
CONSTANTS
  Transitions = {t1}
  Edits = {u1}
  Publishes = {p1}
  Positions = {}
  Candidates = {}
  None = None
SPECIFICATION FairSpec
PROPERTIES EveryRequestEnds OnlyOvertakenGoesAstray
