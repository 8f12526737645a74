SPECIFICATION Spec
CONSTANTS
  N = 2
  Main = Main
  Clock = Clock
  Thread <- MCThread
  Mutex <- MCMutex
  Cond <- MCCond
  Addr <- MCAddr
  MutexOf <- MCMutexOf
  CondOf <- MCCondOf
  Prio <- MCPrio
  MUTEX_LOCKED = MUTEX_LOCKED
  MUTEX_SLEEPING = MUTEX_SLEEPING
  FUTEX_WAITERS = FUTEX_WAITERS
  PRIO_NONE = PRIO_NONE
  PRIO_INHERIT = PRIO_INHERIT
  MUTEX_SPINS = 1
  COND_SPINS = 1
  SEQ_MOD = 8
  SURPRISES = 1
  NoCond = NoCond
INVARIANTS
  RequeuedNotLost
  NoMissedSignal
PROPERTIES
  ImplementsGraph
  Termination
