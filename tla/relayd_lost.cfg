SPECIFICATION HSpec
CONSTANTS
  Workers = {w1, w2}
  Ids = {i1, i2}
  Addresses = {a1}
  None = None
  Sizes = {1}
  Ttls = {0, 1, 3}
  MaxObject = 1
  MaxTotal = 1
  MaxTtl = 2
  Horizon = 2
  PerMinute = 3
  Window = 2
  TableLimit = 0
INVARIANT NotLostUndelivered
