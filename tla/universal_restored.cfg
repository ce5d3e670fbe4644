SPECIFICATION Spec
CONSTANTS
  Publishers = {p1}
  Fetchers = {f1}
  Ids = {i1}
  Files = 1
  None = None
INVARIANT WithdrawnForGood
CHECK_DEADLOCK FALSE
