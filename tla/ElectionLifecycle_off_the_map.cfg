\* The documented lifecycle against the code.
CONSTANTS
  Transitions = {t1, t2}
  Edits = {}
  Publishes = {}
  Positions = {pos1}
  Candidates = {cand1}
  None = None
SPECIFICATION Spec
PROPERTIES LifecycleObeyed
