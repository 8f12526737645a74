SPECIFICATION Spec
CONSTANTS
  t1 = t1
  t2 = t2
  t3 = t3
  m1 = m1
  Thread <- MCThread
  Mutex <- MCMutex
  Addr <- MCMutex
  Prio <- MCPrio
  MUTEX_LOCKED = MUTEX_LOCKED
  MUTEX_SLEEPING = MUTEX_SLEEPING
  FUTEX_WAITERS = FUTEX_WAITERS
  PRIO_NONE = PRIO_NONE
  PRIO_INHERIT = PRIO_INHERIT
  MUTEX_SPINS = 1
  ROUNDS = 2
INVARIANTS
  TypeOK
  MutualExclusion
  NoLostWakeup
PROPERTIES
  NoPriorityBypass
  ImplementsLock
  Termination
