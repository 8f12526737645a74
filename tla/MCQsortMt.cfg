SPECIFICATION Spec
CONSTANTS
  maxthreads = 3
  ELEMS = 10
  forkelem = 1
  FEW = 4
  MANY = 7
  WORD = 8
  LEN = 8
  NULL = NULL
INVARIANTS
  TypeOK
  PartsExact
  EndedSorted
  DestroyedUnused
  SortSound
PROPERTY
  Termination
