SPECIFICATION PoolSpec
CONSTANTS
  Hosts = {h1, h2}
  Threads = {press}
  Edited = {h2}
  Idle = 3
  Quiet = 2
  CheckLimit = 1
  Timeout = 1
  TendEvery = 1
  Nothing = Nothing
INVARIANTS FoundInTime NotUnderHand
PROPERTIES ClosedWhenUnused
