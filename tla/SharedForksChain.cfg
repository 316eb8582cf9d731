SPECIFICATION Spec
CONSTANTS
  t1 = t1
  t2 = t2
  t3 = t3
  Threads = {t1, t2}
  Kinds <- AllKinds
  TransactionWrites = 2
  MaxCalls = 1
  Interruptible = {}
  Nobody = Nobody
  Nothing = Nothing
  Genesis = Genesis
INVARIANTS
  ChainLinear
