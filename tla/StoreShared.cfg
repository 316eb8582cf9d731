SPECIFICATION Spec
CONSTANTS
  t1 = t1
  t2 = t2
  t3 = t3
  Threads = {t1, t2}
  Kinds <- WritingKinds
  TransactionWrites = 2
  MaxCalls = 2
  Interruptible = {}
  Nobody = Nobody
  Nothing = Nothing
  Genesis = Genesis
INVARIANTS
  TransactionsSafe
SYMMETRY ThreadSymmetry
