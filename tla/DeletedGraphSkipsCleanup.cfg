SPECIFICATION Spec
CHECK_DEADLOCK FALSE
CONSTANTS
  Names <- MCOneName
  NoName = "none"
  Claims <- MCClaims
  ClaimOf <- MCClaimOf
  Volumes = {"managed"}
  Shapes = {"good"}
  MaxUid = 1
  MaxGen = 1
  MaxDisturbances = 2
  Kinds = {"delete", "graph"}
  Observed = "a"
PROPERTIES
  GoneMeansCleanup
