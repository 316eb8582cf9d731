SPECIFICATION Spec
CONSTANTS
  AbsoluteTolerance = 1
  RelativeTolerance = 1
  MaterialRelativeDelta = 50
  NoPeriod = NoPeriod
  NoClaim = NoClaim
  NoHash = NoHash
  Catalog <- MCCatalog
  Unstated = Unstated
  Never = 9
  Amounts <- MCAmounts
  Open = Open
  Inputs <- MCInputs
  Seconds <- MCSeconds
INVARIANTS
  OrderOfArrivalIrrelevant
  SeverityMonotone
  ScaleInvariant
  DamageDetected
  FetchWholeOrNothing
  CalculatorsExact
CHECK_DEADLOCK FALSE
