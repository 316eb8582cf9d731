SPECIFICATION Spec
CONSTANTS
  None = None
  Denied = Denied
  Absent = Absent
  Nobody = Nobody
  Normalized <- MCNormalized
  Actors <- MCActors
  DefaultTenant = "default"
  AdminKey = "adminKey"
  Credentials <- MCCredentials
  Development = FALSE
  InstrumentIds = {"i1", "i2"}
  IdentifierKeys = {"k1", "k2"}
  Workers = {w1, w2}
  Requests <- MCRequests
  Evidence <- MCEvidence
  MaxRequests = 3
  MaxCloses = 1
INVARIANTS
  TenantsApart
  IdentifiersConsistent
  StoresAccounted
  AnswersAccounted
SYMMETRY WorkersAlike
