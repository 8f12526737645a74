SPECIFICATION Spec
CONSTANTS
  EMPTY = EMPTY
  DONE_WORK = DONE_WORK
  N_THREADS = 3
  NPRINTS = 3
  SIZE_HINT = 2
  SIZE_MAX = 7
INVARIANTS
  TypeOK
  ItemsExact
  ContinuationLast
PROPERTY
  Termination
