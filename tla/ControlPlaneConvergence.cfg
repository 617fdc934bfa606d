SPECIFICATION RecoveringSpec
CHECK_DEADLOCK FALSE
CONSTANTS
  Providers <- MCOneProvider
  Self = "kaito"
  NoProv = "none"
  Rank <- MCRank
  Shapes = {"good", "incompatible", "unrenderable"}
  MaxUid = 1
  MaxGen = 2
  ReadyAtStart = {}
  MaxDisturbances = 1
  Kinds = {"edit", "provider", "capability", "degrade", "outage", "pause", "fault", "restart"}
PROPERTIES
  StatusConverges
  SelectionHappens
