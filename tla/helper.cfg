SPECIFICATION HelperSpec
CONSTANTS
  Helpers = {h1, h2}
  Combinations = {c1, c2}
  MaxPresses = 2
  Unread = Unread
INVARIANTS RunsAsSaid NeverAsleep
PROPERTIES GoneAsSaid
CHECK_DEADLOCK FALSE
