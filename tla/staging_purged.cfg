SPECIFICATION Spec
CONSTANTS
  Senders = {s1}
  Sweeps = {}
  Purges = {p1}
  Files = 2
  Retention = 3
  Deadline = 1
  Ahead = 1
  Horizon = 3
  None = None
PROPERTIES HandedOutInPlace
CHECK_DEADLOCK FALSE
