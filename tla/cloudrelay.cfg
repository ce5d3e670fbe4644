SPECIFICATION Spec
CONSTANTS
  Requests = {r1, r2}
  Ids = {i1, i2}
  Addresses = {a1}
  None = None
  Sizes = {1, 2}
  Ttls = {0, 1, 3}
  MaxObject = 2
  MaxTotal = 3
  MaxTtl = 2
  Horizon = 3
  PerMinute = 3
  Window = 2
  TableLimit = 0
INVARIANTS AlarmCovers TotalCeiling
PROPERTIES EventuallyForgotten ImplementsObjectStore
