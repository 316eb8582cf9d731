SPECIFICATION FairAnalysis
CONSTANTS
  AbsoluteTolerance = 1
  RelativeTolerance = 1
  MaterialRelativeDelta = 50
  NoPeriod = NoPeriod
  NoClaim = NoClaim
  e1 = e1
  e2 = e2
  e3 = e3
  claimA = claimA
  claimB = claimB
  claimC = claimC
  EvidenceIds = {e1, e2, e3}
  ClaimIds = {claimA, claimB, claimC}
  Keys <- AnalysisKeys
  Periods = {}
  Units <- MCUnits
  Details = {"plain"}
  Contents = {1, 2}
  Documents <- AnalysisDocuments
  Submissions <- AnalysisClaims
  Ingestions <- AnalysisStatements
  LibraryChanges = {}
  TrustClientTimestamps = FALSE
  ClockMayStepBack = FALSE
  MaxClock = 1
  MaxIngestions = 2
  Absent = Absent
  Idle = Idle
  NoVerdict = NoVerdict
  ExecutionEnabled = TRUE
  MaxNotional = 10
  MaxInlineTrust = 60
  Unset = Unset
  Requests <- MCRequests
  Answers <- MCAnswers
  VerifiedContents <- MCVerifiedContents
  DataTime <- MCDataTime
  MaxEvidence = 2
  MaxAttempts = 2
  MaxAnalyses = 1
  NoContext = NoContext
  NoCall = NoCall
INVARIANTS
  AnalysisTypeOK
  SourcesAsKnown
  SelectionComplete
  SnapshotCovers
  UnambiguousSources
  CapsHold
  ReleasedOnKnownSources
  MarketReleaseVerified
  ReleasedActionsBounded
PROPERTIES
  DeliveredIsRecorded
  CallEnds
