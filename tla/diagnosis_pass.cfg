SPECIFICATION Spec
CONSTANTS
  Targets = {1, 2}
  Addresses = {a, b}
  Objects = {o1, o2}
  Keys = {k1, k2}
  MaxChanges = 1
  MaxRuns = 1
  None = None
SYMMETRY Alike
INVARIANTS PassExamined
CHECK_DEADLOCK FALSE
