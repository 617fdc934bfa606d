SPECIFICATION Spec
CHECK_DEADLOCK FALSE
CONSTANTS
  Providers <- MCProviders
  Self = "kaito"
  NoProv = "none"
  Rank <- MCRank
  Shapes = {"good"}
  MaxUid = 1
  MaxGen = 1
  ReadyAtStart = {"dynamo"}
  MaxDisturbances = 1
  Kinds = {"provider"}
PROPERTIES
  ProviderStable
