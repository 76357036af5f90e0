SPECIFICATION Spec
CONSTANTS
  b1 = b1
  b2 = b2
  t1 = t1
  t2 = t2
  t3 = t3
  t4 = t4
  t5 = t5
  t6 = t6
  Blocks = {b1, b2}
  SubtreesOf <- Mined
  Batches <- Handed
  WordWidth = 6
  IndexWidth = 1
  LevelWidth = 3
  Txs = {t1, t2, t3, t4, t5, t6}
  MaxCalls = 2
  MaxReorgs = 2
INVARIANTS AcceptedLeavesIncluded GenuineBatchAccepted
CHECK_DEADLOCK FALSE
