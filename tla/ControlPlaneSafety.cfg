SPECIFICATION Spec
CHECK_DEADLOCK FALSE
CONSTANTS
  Providers <- MCProviders
  Self = "kaito"
  NoProv = "none"
  Rank <- MCRank
  Shapes = {"good"}
  MaxUid = 2
  MaxGen = 1
  ReadyAtStart = {"kaito"}
  MaxDisturbances = 3
  Kinds = {"delete", "recreate", "fault", "workspace", "restart", "pause"}
INVARIANTS
  TypeOK
  WorkspaceGuarded
PROPERTIES
  FinalizerReleasedClean
  KeepsPromise
  ShimLosesNoUpdate
