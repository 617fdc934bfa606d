SPECIFICATION Spec
CHECK_DEADLOCK FALSE
CONSTANTS
  Handlers = {"r1", "r2"}
  MaxRetries = 1
  MaxUid = 2
  MaxChanges = 1
  MaxDetails = 2
  MaxBody = 3
  Builds = {"b1", "b2"}
  BuildModels = {"m1", "m2"}
  ImageNames <- MCImageNames
  TagOf <- MCTagOf
  Premade = {"p"}
  PremadeImage <- MCPremadeImage
  Ours = "airunway-builder"
  Listings <- MCListings
  MaxPolls = 1
  MaxLosses = 1
  Callers = {"c1", "c2"}
  Names = {"n1", "n2"}
  Gated = {"n1"}
  Keys = {"k1"}
  Granted = {"k1"}
  Ttl = 2
  ErrorTtl = 1
  CacheSize = 1
  MaxTime = 3
  MaxVolumes = 2
  VolumeNames = {"v1", "v2"}
  AutoClaim <- MCAutoClaim
  Claims = {"pvc", "md-v1"}
  Paths = {"/model-cache", "/compilation-cache", "/etc/x"}
  TypedClaims = {"pvc"}
  TypedPaths = {"/model-cache"}
  RelativePaths = {}
  SystemPaths = {"/etc/x"}
  StorageClasses = {"unset", "fast"}
  TypedModes = {"ReadWriteMany"}
  ClaimLists = {{}, {"md-v1"}}
  ClientVolumes <- MCClientVolumes
  Companions <- MCCompanions
  NoValue = "unset"
  MaxEdits = 3
  MaxSends = 1
  MaxMessages = 3
  MaxSwitches = 2
  TargetNamespaces <- MCTargetNamespaces
  Existing = {"n1"}
  MaxFlows = 2
  BackendCalls = {1, 2}
  MaxFaults = 1
  MaxSettings = 2
  Runtimes = {"dynamo", "kaito", "vllm"}
  ReadySets = {{"dynamo", "kaito", "vllm"}, {"kaito", "vllm"}}
  Priority <- MCPriority
  EnginesOf <- MCEnginesOf
  ModesOf <- MCModesOf
  ModelKinds = {"vllm", "gguf", "premade"}
  ServedBy <- MCServed
  Need = 2
  Capacities = {1}
  Advice <- MCAdvice
  PageRuntimes <- MCOffered
  RuntimeEngines <- MCRuntimeEngines
  Supported <- MCSupported
  Advised = 2
  GpuCounts = {0, 1}
  Pages = {"d1", "d2"}
  Analyses = {"r1"}
  Inputs <- MCInputs
  Outputs <- MCOutputs
  Hosts = {"local", "cluster"}
  Undefined = Undefined
  MaxMoves = 3
  MaxTroubles = 1
  KnownRecipes <- MCRecipes
  Requests <- MCRequests
  Numbers <- MCNumbers
  Nodes <- MCNodes
  Pools <- MCPools
  Labels <- MCLabels
  NodeGpus = {0, 2}
  Pods = {"p1"}
  Asks = {1, 2}
  Configs <- MCConfigs
  Scalers <- MCScalers
  Events <- MCEvents
  Models <- MCModelSet
  Hub <- MCHub
  Clusters <- MCClusters
  Inquiries <- MCInquiries
  Limit = 1
  Extra = 1
  Offsets = {0, 1, 2}
INVARIANTS
  TypeOK
  AnswersAreHonest
  PromptsRunOnce
  AnsweredImageIsThere
  AnswersAreFreshAndAllowed
  RouteMatchesWebhook
  
  NothingFromElsewhere
  VerifierOfItsCode
  ConnectedMeansEverywhere
  ServedAsResolved
  CapacityIsHonest
  AdviceIsSound
  FitIsHonest
  RegistrationIsHonest
  HealthIsCurrent
PROPERTIES
  ManualEditStays
  SentAsShown
