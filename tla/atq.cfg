SPECIFICATION FairSpec
CONSTANTS
  c1 = c1
  c2 = c2
  t1 = t1
  t2 = t2
  fifo = fifo
  prio = prio
  Cpu = {c1, c2}
  Task = {t1, t2}
  Queue = {fifo, prio}
  FifoQueue = {fifo}
  Capacity <- MCCapacity
  Vtime = {1}
  MaxSeq = 1
  Expires = {"move"}
  NULL = NULL
  DEAD = DEAD
  FIFO = FIFO
INVARIANTS TypeOK NodeInOneTree MembershipAgrees HoldsCounted NoUseAfterFree CapacityRespected FifoKeysFresh
PROPERTIES DeadLatched DetachReturns
CHECK_DEADLOCK TRUE
