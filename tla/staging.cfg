SPECIFICATION Spec
CONSTANTS
  Senders = {s1, s2}
  Sweeps = {c1}
  Purges = {}
  Files = 2
  Retention = 3
  Deadline = 1
  Ahead = 1
  Horizon = 3
  None = None
INVARIANTS ActiveUndisturbed KeptForRetention FailedLeavesNothing
PROPERTIES ImplementsHandover
SYMMETRY SendSymmetry
CHECK_DEADLOCK FALSE
