SPECIFICATION Spec
CONSTANTS
  Names = {a, b}
  Processes = {p1, p2}
  Slots = {s1, s2}
  None = None
INVARIANTS NoLitter
PROPERTIES NeverUnreadable RouteKept
SYMMETRY Symmetry
CHECK_DEADLOCK FALSE
