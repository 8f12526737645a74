SPECIFICATION Spec
CONSTANTS
  THREAD_MAX = 4
  THREAD_ITERS = 50
INVARIANTS
  TypeOK
  NoOvertaking
  OneMoves
  NoDeadlock
PROPERTY
  Termination
