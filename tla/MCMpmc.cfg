SPECIFICATION Spec
CONSTANTS
  p1 = p1
  p2 = p2
  c1 = c1
  c2 = c2
  NULL = NULL
  Thread <- MCThread
  Addr <- MCAddr
  enqueue_handles <- MCEnqueueHandles
  dequeue_handles <- MCDequeueHandles
  N = 1
  threshold = 1
  counts <- MCCounts
  COUNTS_PER_THREAD = 2
INVARIANTS
  TypeOK
  NodesInUse
  ReclaimedOnce
  SleeperWoken
  ClearInTime
PROPERTIES
  ImplementsQueue
  Termination
