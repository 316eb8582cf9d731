SPECIFICATION Spec
CONSTANTS
  AbsoluteTolerance = 1
  RelativeTolerance = 1
  MaterialRelativeDelta = 50
  NoPeriod = NoPeriod
  NoClaim = NoClaim
  e1 = e1
  e2 = e2
  claimA = claimA
  claimB = claimB
  claimC = claimC
  EvidenceIds = {e1}
  ClaimIds = {claimA, claimB, claimC}
  Keys <- MCKeys
  Periods = {}
  Units <- MCUnits
  Details = {"plain"}
  Contents = {1, 2}
  Documents <- OneDocument
  Submissions <- Rivalry
  Ingestions <- BareFiling
  LibraryChanges = {}
  TrustClientTimestamps = FALSE
  ClockMayStepBack = FALSE
  MaxClock = 2
  MaxIngestions = 1
  Absent = Absent
  Idle = Idle
  NoVerdict = NoVerdict
INVARIANTS
  DisputedAwaitsAdjudication
