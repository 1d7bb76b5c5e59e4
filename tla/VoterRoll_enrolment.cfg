\* Two batches, a job that two requests confirm and one cancels, and a
\* deletion, on the numbers of two people, one of which is also written in
\* lower case.
CONSTANTS
  Numbers <- MCNumbers
  Upper <- MCUpper
  Elections = {e1}
  Enrols = {r1, r2}
  Uploads = {u1}
  Confirms = {c1, c2}
  Cancels = {x1}
  Deletes = {d1}
  Batches <- MCBatches
  None = None
SYMMETRY Symmetry
SPECIFICATION Spec
INVARIANTS RollConsistent ImportsInOrder
PROPERTIES EntriesInOrder
