SPECIFICATION Spec
CHECK_DEADLOCK FALSE
CONSTANTS
  Installs = {"i1"}
  Crds = {"c1"}
  Charts <- MCCharts
  MaxMeddling = 1
  Tabs = {"t1", "t2"}
  Tokens = {"k1", "k2"}
  Protected = TRUE
  MaxRequests = 2
  MaxLogins = 2
  Shown = {"d1", "d2"}
  PodNames = {"p1", "p2"}
  PodStates = {"ready"}
  Replicas = {"waiting"}
  Slots = {1, 2}
  MaxChanges = 1
  MaxOpens = 2
  MaxFailures = 1
INVARIANTS
  TypeOK
  InstallsCleanly
PROPERTIES
  ForeignCrdsKept
  WaitingEnds
  OnlyARefusalSignsOut
  StaleSessionEnds
  PageCatchesUp
