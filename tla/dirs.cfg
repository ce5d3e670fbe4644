SPECIFICATION DirsSpec
CONSTANTS
  Uploaders = {s1, s2}
  Checkers = {d1}
  Absent = Absent
INVARIANTS PrivateWhenDone JustCause NoStrayBatch
PROPERTIES UsersUntouched
SYMMETRY Symmetry
CHECK_DEADLOCK FALSE
