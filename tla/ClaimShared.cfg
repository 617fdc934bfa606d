SPECIFICATION Spec
CHECK_DEADLOCK FALSE
CONSTANTS
  Names <- MCTwoNames
  NoName = "none"
  Claims <- MCClaims
  ClaimOf <- MCClaimOf
  Volumes = {"managed"}
  Shapes = {"good"}
  MaxUid = 1
  MaxGen = 1
  MaxDisturbances = 0
  Kinds = {}
  Observed = "a"
PROPERTIES
  StaleOnly
