SPECIFICATION Spec
CHECK_DEADLOCK FALSE
CONSTANTS
  Providers <- MCOneProvider
  Self = "kaito"
  NoProv = "none"
  Rank <- MCRank
  Shapes = {"good", "incompatible"}
  MaxUid = 1
  MaxGen = 2
  ReadyAtStart = {"kaito"}
  MaxDisturbances = 1
  Kinds = {"edit"}
PROPERTIES
  CoreKeepsShimConditions
