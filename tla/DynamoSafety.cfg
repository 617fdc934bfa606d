SPECIFICATION Spec
CHECK_DEADLOCK FALSE
CONSTANTS
  Names <- MCOneName
  NoName = "none"
  Claims <- MCClaims
  ClaimOf <- MCClaimOf
  Volumes = {"managed"}
  Shapes = {"good"}
  MaxUid = 2
  MaxGen = 2
  MaxDisturbances = 2
  Kinds = {"delete", "degrade", "storage", "claims", "fault", "restart", "edit", "graph"}
  Observed = "a"
INVARIANTS
  TypeOK
  DownloadedFirst
PROPERTIES
  KeepsDownloads
  GraphGoesFirst
  KeepsPromise
