SPECIFICATION Spec
SYMMETRY Interchangeable
CONSTANTS
  Publishers = {p1, p2}
  Fetchers = {f1, f2}
  Ids = {i1, i2}
  Files = 2
  None = None
INVARIANTS NothingLeft WithdrawnUnread
PROPERTY ImplementsHandover
CHECK_DEADLOCK FALSE
