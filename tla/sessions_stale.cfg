SPECIFICATION PoolSpec
CONSTANTS
  Hosts = {h1}
  Threads = {press}
  Edited = {h1}
  Idle = 3
  Quiet = 2
  CheckLimit = 1
  Timeout = 1
  TendEvery = 1
  Nothing = Nothing
INVARIANT UserLeftAlone
