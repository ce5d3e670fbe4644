SPECIFICATION FairSpec
CONSTANTS
  Window = 2
  IdSpace = 4
  Expected = 2
  MaxChunks = 3
  Serials = {0, 1, 2, 3, 4, 5, 6, 7, 8, 9, 10, 11}
  Limit = 10
  None = None
INVARIANTS Settled
PROPERTIES RightAnswer Returns ImplementsUpload
\* A session that has ended does nothing more.
CHECK_DEADLOCK FALSE
