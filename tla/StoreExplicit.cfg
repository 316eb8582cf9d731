SPECIFICATION FairSpec
CONSTANTS
  t1 = t1
  t2 = t2
  t3 = t3
  Threads = {t1, t2}
  Kinds <- ExplicitKinds
  TransactionWrites = 2
  MaxCalls = 2
  Interruptible = {}
  Nobody = Nobody
  Nothing = Nothing
  Genesis = Genesis
INVARIANTS
  TypeOK
  ChainLinear
  UnlockedIsCommitted
  SnapshotsCounted
PROPERTIES
  Serializable
  CallsEnd
