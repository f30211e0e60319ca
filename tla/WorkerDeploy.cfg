SPECIFICATION Spec
CONSTANTS
  Developers = {d1, d2}
  Nobody = Nobody
  Requests = {r1, r2}
  NoRequest = NoRequest
  Names = {A, B}
  Codes <- MCCodes
  Kinds = {k1, k2}
  MaxVersions <- MCMaxVersions
SYMMETRY MCSymmetry
INVARIANTS
  ClassIdsKeepTheirClass
  ConnectInfoIsLive
  WorkerJsonIsTrue
PROPERTIES
  DeploysAreSerial
CHECK_DEADLOCK FALSE
