SPECIFICATION SpecInterrupted
CONSTANTS
  t1 = t1
  t2 = t2
  t3 = t3
  Threads = {t1, t2}
  Kinds <- ExplicitKinds
  TransactionWrites = 2
  MaxCalls = 1
  Interruptible = {t1}
  Nobody = Nobody
  Nothing = Nothing
  Genesis = Genesis
INVARIANTS
  ExceptionsRollBack
