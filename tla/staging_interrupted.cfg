SPECIFICATION Spec
CONSTANTS
  Senders = {s1}
  Sweeps = {}
  Purges = {}
  Files = 1
  Retention = 3
  Deadline = 1
  Ahead = 1
  Horizon = 3
  None = None
INVARIANT AbsentAfterFailure
CHECK_DEADLOCK FALSE
