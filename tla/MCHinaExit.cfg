SPECIFICATION Spec
CONSTANTS
  Main = Main
  EMPTY = EMPTY
  ABORT = ABORT
  NULL = NULL
  NR_THREADS = 2
  SIZE_HINT = 1
  SIZE_MAX = 7
  WORKS = 3
  Thread <- MCThread
  Tid <- MCTid
  Work <- MCWork
INVARIANT AllWorkDone
