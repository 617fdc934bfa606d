SPECIFICATION FairSpec
CHECK_DEADLOCK FALSE
CONSTANTS
  Names <- MCOneName
  NoName = "none"
  Claims <- MCClaims
  ClaimOf <- MCClaimOf
  Volumes = {"managed", "claimed", "none"}
  Shapes = {"good", "unrenderable"}
  MaxUid = 2
  MaxGen = 2
  MaxDisturbances = 1
  Kinds = {"delete", "degrade", "storage", "fault", "restart", "edit", "pause", "graph", "outage"}
  Observed = "a"
PROPERTIES
  DeletionCompletes
  PipelineCompletes
