SPECIFICATION Spec
CONSTANTS
  Processes = {p1, p2}
  Slots = {s1, s2}
  Images = {i1, i2}
  Files = {f1}
  Ours = {o1}
  Theirs = {o2}
  MaxCopies = 2
  MaxRuns = 2
  None = None
INVARIANTS NotTakenBack
SYMMETRY Symmetry
CHECK_DEADLOCK FALSE
