\* Transitions that overlap, two at a time.
CONSTANTS
  Transitions = {t1, t2}
  Edits = {}
  Publishes = {}
  Positions = {pos1}
  Candidates = {cand1}
  None = None
SYMMETRY Symmetry
SPECIFICATION Spec
INVARIANTS NoStatusFromNowhere
