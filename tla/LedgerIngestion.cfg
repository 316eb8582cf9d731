SPECIFICATION Spec
CONSTANTS
  AbsoluteTolerance = 1
  RelativeTolerance = 1
  MaterialRelativeDelta = 50
  NoPeriod = NoPeriod
  NoClaim = NoClaim
  posted = posted
  EvidenceIds <- MCEvidenceIds
  ClaimIds <- MCClaimIds
  Contents <- MCContents
  Keys <- MCKeys
  Periods <- MCPeriods
  Units <- MCUnits
  Details <- MCDetails
  Documents <- MCDocuments
  Submissions <- MCSubmissions
  Ingestions <- MCIngestions
  LibraryChanges <- MCRetractions
  TrustClientTimestamps = FALSE
  ClockMayStepBack = TRUE
  MaxClock = 1
  MaxIngestions = 2
  Absent = Absent
  Idle = Idle
  NoVerdict = NoVerdict
  Filings <- MCFilings
  Observations <- MCObservations
  Catalog <- MCCatalog
  Unstated = Unstated
  Never = 9
INVARIANTS
  RejectedOnlyForCause
  IngestionAtomic
  SupportSound
  HistoryFaithful
PROPERTIES
  CommittedIsFinal
