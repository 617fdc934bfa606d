SPECIFICATION FairSpec
CHECK_DEADLOCK FALSE
CONSTANTS
  Providers <- MCOneProvider
  Self = "kaito"
  NoProv = "none"
  Rank <- MCRank
  Shapes = {"good"}
  MaxUid = 1
  MaxGen = 1
  ReadyAtStart = {"kaito"}
  MaxDisturbances = 2
  Kinds = {"delete", "outage"}
PROPERTIES
  TimeoutReleases
