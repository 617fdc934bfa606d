------------------------------- MODULE MCWeb -------------------------------
(* The web backend and its clients for TLC: what they may never do.  A         *)
(* behaviour is about one of the parts, which `part` names; the others keep    *)
(* an initial state in which nothing that is owed to them is left to do.       *)
EXTENDS WebClients, BackendServices

CONSTANTS
  Handlers, MaxRetries, MaxUid, MaxChanges,   \* Routes
  MaxDetails, MaxBody,                        \* Relay
  Callers, Names, Gated, Keys, Granted, CacheSize, \* Cache
  MaxTroubles                                 \* Shim

Parts == {"requests", "relay", "build", "cache", "storage", "form", "chat", "link", "plugin",
          "recipe", "capacity", "advice", "fit", "shim"}

VARIABLES
  part,
  objects, guarded, deleting, nextUid, readable, changes, req,
  deployment, pc, route, aborted, timer, listening, scoped, body, details, relayed,
  delivered, answer,
  cached, now, entries, lookups,
  style, config, upstream, shims, calls, troubles, calm, quiet, left

routeVars   == <<objects, guarded, deleting, nextUid, readable, changes, req>>
relayVars   == <<deployment, pc, route, aborted, timer, listening, scoped, body, details, relayed,
                 delivered, answer>>
cacheVars   == <<cached, now, entries, lookups>>
shimVars    == <<style, config, upstream, shims, calls, troubles, calm, quiet, left>>
allVars     == <<part, routeVars, relayVars, buildVars, cacheVars, storageVars, formVars,
                 chatVars, linkVars, pluginVars, recipeVars, gpuVars, adviceVars, fitVars, shimVars>>

-----------------------------------------------------------------------------
MCNamespaces == {"ns1", "ns2"}
Routes == INSTANCE DeploymentRequestsProofs
  WITH Requests <- Handlers, Names <- {"a"}, Namespaces <- MCNamespaces, NamespaceOf <- [n \in {"a"} |-> "ns1"]
Relay == INSTANCE ChatProxy WITH status <- relayed

Cache == INSTANCE UpstreamCache
  WITH kind <- cached, Capacity <- CacheSize

MCImageNames == [m \in BuildModels |-> "repo"]
MCTagOf == [m \in BuildModels |-> "custom"]
MCPremadeImage == [m \in Premade |-> "ghcr"]
MCListings == {<< >>}

MCVolume(names) ==
  [name : names, purpose : {"custom", "modelCache", "compilationCache"},
   mountPath : {"", "/model-cache", "/compilation-cache", "/etc/x"}, readOnly : BOOLEAN,
   size : {"unset", "", "100Gi"}, claimName : {"", "pvc", "md-v1"}, storageClass : {"unset", "fast"},
   accessMode : {"", "ReadWriteMany"}]
MCCompanions ==
  {v \in MCVolume({"v2"}) : /\ v.claimName = "md-v1" /\ v.mountPath \in {"", "/model-cache"}
                            /\ ~v.readOnly /\ v.size = "100Gi"
                            /\ v.storageClass = "unset" /\ v.accessMode = ""}
MCAutoClaim == [n \in {"v1", "v2"} |-> "md-" \o n]
MCClientVolumes == MCVolume({"v1"})

MCPriority == <<"dynamo", "kaito", "vllm">>
MCEnginesOf ==
  [dynamo |-> {"vllm", "sglang"}, kaito |-> {"vllm", "llamacpp"}, vllm |-> {"vllm"}]
MCModesOf ==
  [r \in Runtimes |-> [e \in {"vllm", "sglang", "llamacpp"} |->
     IF r = "dynamo" THEN {"aggregated", "disaggregated"} ELSE {"aggregated"}]]
MCServed == [vllm |-> <<"vllm", "sglang">>, gguf |-> <<"llamacpp">>, premade |-> <<"llamacpp">>]
MCAdvice == {[engine |-> "vllm", mode |-> "aggregated", tp |-> 1, pp |-> 2],
             [engine |-> "sglang", mode |-> "disaggregated", tp |-> 2, pp |-> 1]}
MCTargetNamespaces == <<"n1", "n2">>

MCOffered == <<"dynamo", "kuberay", "kaito", "llmd">>
MCRuntimeEngines ==
  [dynamo |-> {"vllm", "sglang", "trtllm"}, kuberay |-> {"vllm"}, kaito |-> {"vllm", "llamacpp"},
   llmd |-> {"vllm"}]
MCSupported == {<<"vllm", "sglang">>, <<"llamacpp">>}

Flag(k) == <<"flag", k, "bare">>
Word(w) == <<"word", w, "bare">>
MCCommand(argv, hardware) ==
  [shape |-> "argv", argv |-> <<Word("vllm"), Word("serve"), Word("m")>> \o argv,
   hardware |-> hardware, gpus |-> 8, image |-> "img", disaggregated |-> FALSE]
MCBase ==
  <<Flag("eager"), <<"flag", "tensor-parallel-size", "2">>, Flag("tool-call-parser"), Word("hermes"),
    Flag("data-parallel-size"), Word("4")>>
MCOverrides ==
  {[none |-> << >>],
   [h1 |-> <<Flag("max-num-seqs"), Word("4")>>],
   [h1 |-> <<Flag("tensor-parallel-size"), Word("4"), Flag("pipeline-parallel-size"), Word("2")>>]}
MCAlternatives ==
  {<< >>,
   <<[names |-> {"h1"}, has |-> "reference",
      command |-> MCCommand(<<Flag("pipeline-parallel-size"), Word("2")>>, Undefined)],
     [names |-> {"s1"}, has |-> "inline",
      command |-> [MCCommand(<< >>, "h1") EXCEPT !.shape = "head"]]>>}
MCFeatures ==
  [tool_calling |-> [args |-> <<Flag("tool-call-parser"), Word("llama")>>,
                     on |-> [h1 |-> <<Flag("chunked")>>]],
   mm |-> [args |-> <<Flag("limit"), Word("2"), Flag("tool-call-parser"), Word("pythonic")>>,
           on |-> << >>]]
MCRecipes ==
  {[recommended |-> <<MCCommand(MCBase \o more, hardware)>>, alternatives |-> alternatives,
    features |-> MCFeatures, overrides |-> overrides, deepSeek |-> deepSeek]
   : more \in {<< >>, <<Flag("limit"), Word("a"), Word("b")>>}, hardware \in {Undefined, "h1"},
     alternatives \in MCAlternatives, overrides \in MCOverrides, deepSeek \in BOOLEAN}
MCRequests ==
  [strategy : {Undefined, "s1"}, hardware : {Undefined, "h1"}, variant : {Undefined},
   features : {Undefined, << >>, <<"mm">>, <<"mm", "tool_calling">>, <<"tool_calling", "mm">>,
               <<"reasoning">>},
   mode : {Undefined}, image : {"recipe"}]
MCNumbers == [w \in {"2", "4"} |-> IF w = "2" THEN 2 ELSE 4]

MCNodes == <<"n1", "n2">>
MCLabels ==
  [n1 |-> [memory |-> 0, product |-> {}, instance |-> {"nc", "_a10", "_a100"}],
   n2 |-> [memory |-> 0, product |-> {"a100", "80"}, instance |-> {}]]
MCWorkers ==
  {<<[replicas |-> 1, gpus |-> 1]>>, <<[replicas |-> 2, gpus |-> 1]>>,
   <<[replicas |-> 1, gpus |-> 2], [replicas |-> 1, gpus |-> 1]>>}
MCConfigs ==
  {[workers |-> w, span |-> 1, least |-> 1, cpuOnly |-> FALSE] : w \in MCWorkers}
  \cup {[workers |-> <<[replicas |-> 1, gpus |-> 1]>>, span |-> 2, least |-> 2, cpuOnly |-> cpu]
        : cpu \in BOOLEAN}
MCScalers ==
  {[aks |-> TRUE, managedPools |-> 0, status |-> "stale", ready |-> "none"],
   [aks |-> FALSE, managedPools |-> 0, status |-> "none", ready |-> "none"]}
MCEvents == {{"FailedScheduling", "gpu"}, {"FailedScheduling", "cpu", "taint"}}
MCPools == [n \in {"n1", "n2"} |-> "pool"]

MCRow(rate, ttft, tp) ==
  <<[rate |-> rate, ttft |-> ttft, tp |-> tp, replicas |-> 1, prefill |-> 1, decode |-> tp]>>
MCInputs ==
  {[gpu |-> {"a100"}, gpus |-> 2, target |-> "latency", wellNamed |-> TRUE],
   [gpu |-> {"h100"}, gpus |-> 2, target |-> "throughput", wellNamed |-> FALSE]}
MCOutputs ==
  {[agg |-> << >>, disagg |-> << >>], [agg |-> MCRow(3, 2, 2), disagg |-> MCRow(4, 0 - 1, 4)],
   [agg |-> << >>, disagg |-> MCRow(5, 5, 1)]}

MCDims(layers, heads) == {[layers |-> layers, heads |-> heads, dim |-> 128, window |-> 131072]}
MCModel(family, archs, tag, library, gated, billions, dims) ==
  [families |-> family, archs |-> archs, gguf |-> library = "gguf", library |-> library, tag |-> tag,
   gated |-> gated, total |-> IF archs = {} THEN 0 ELSE billions, named |-> billions, dims |-> dims]
MCCatalogue ==
  <<MCModel({"llama"}, {"Llama"}, "text-generation", "transformers", FALSE, 8, MCDims(32, 8)),
    MCModel({}, {"Bert"}, "text-classification", "transformers", FALSE, 1, {}),
    MCModel({"llama"}, {}, Undefined, Undefined, TRUE, 70, MCDims(80, 8)),
    MCModel({"llama"}, {}, "text-generation", "gguf", FALSE, 8, {}),
    MCModel({"nemotron"}, {"Nemotron"}, "image-text-to-text", "nemo", FALSE, 200, MCDims(96, 0)),
    MCModel({"qwen"}, {"Qwen2"}, "text-generation", "transformers", FALSE, 180, MCDims(96, 8))>>
MCHub ==
  [tag \in {"text-generation", "image-text-to-text"} |->
     IF tag = "text-generation" THEN SubSeq(MCCatalogue, 1, 4) ELSE <<MCCatalogue[5], MCCatalogue[1], MCCatalogue[6]>>]
MCPool(label, gpus, nodes) == [label |-> label, gpus |-> gpus, nodes |-> nodes]
MCClusters ==
  {<< >>, <<MCPool({"A100-80GB", "A100"}, 12, 2)>>, <<MCPool({"H200"}, 3, 2), MCPool({}, 8, 1)>>,
   <<MCPool({"L40S", "L4"}, 1, 1), MCPool({"H100"}, 8, 1)>>, <<MCPool({}, 2, 1)>>}
MCInquiries ==
  [model : {MCCatalogue[k] : k \in {1, 3, 4, 5, 6}}, weights : {"fp16", "fp8"}, kv : {"fp16", "fp8"},
   tp : {0, 1, 4, 16}, context : {0, 8192}, label : {{}, {"L40S", "L4"}}]
MCModelSet == {MCCatalogue[k] : k \in DOMAIN MCCatalogue}

Shim == INSTANCE ProviderRegistrationProofs
  WITH Shims <- {1, 2}, Styles <- {"kaito", "dynamo"}, Stale <- 2, Attempts <- 2

(* What the parts assume of their constants.                                   *)
ASSUME WebAssumption ==
  /\ Routes!RequestsAssumption /\ Relay!ChatAssumption /\ Cache!CacheAssumption
  /\ Shim!RegistrationAssumption

-----------------------------------------------------------------------------
MCPlain ==
  CHOOSE r \in KnownRecipes : /\ r.alternatives = << >> /\ ~r.deepSeek /\ r.overrides = [none |-> << >>]
                              /\ r.recommended = <<MCCommand(MCBase, Undefined)>>
MCNothing == CHOOSE r \in Requests : r.strategy = Undefined /\ r.hardware = Undefined /\ r.features = Undefined

Init ==
  /\ part \in Parts
  /\ Routes!Init /\ Relay!Init
  /\ Build!Init
  /\ part = "build" \/ (~namespace /\ builder = "none")
  /\ Cache!Init
  /\ part = "cache" \/ cached = "prices"
  /\ Storage!Init
  /\ part = "storage" \/ editor = "web"
  /\ Form!Init
  /\ part = "form" \/ (kind = "vllm" /\ props.capacity = 0 /\ props.ready = Runtimes)
  /\ Chat!Init
  /\ part = "chat" \/ shownOf = (CHOOSE d \in Pages : TRUE)
  /\ Link!Init
  /\ part = "link" \/ side = "browser"
  /\ Plugin!Init
  /\ part = "plugin" \/ (engines = (CHOOSE e \in Supported : TRUE) /\ healthy = {})
  /\ Resolver!Init
  /\ part = "recipe" \/ (recipe = MCPlain /\ request = MCNothing)
  /\ Gpus!Init
  /\ part = "capacity" \/ ((\A n \in Gpus!NodeSet : alloc[n] = 0) /\ \A p \in Pods : pods[p].gpus = 1)
  /\ Advisor!Init
  /\ part = "advice" \/ (host = "local" /\ tool = "there")
  /\ Fitting!Init
  /\ Shim!Init
  /\ part = "shim" \/ (style = "kaito" /\ ~upstream)

Next ==
  \/ /\ part = "requests" /\ Routes!Next
     /\ UNCHANGED <<part, relayVars, buildVars, cacheVars, storageVars, formVars, chatVars,
                    linkVars, pluginVars, recipeVars, gpuVars, adviceVars, fitVars, shimVars>>
  \/ /\ part = "relay" /\ Relay!Next
     /\ UNCHANGED <<part, routeVars, buildVars, cacheVars, storageVars, formVars, chatVars,
                    linkVars, pluginVars, recipeVars, gpuVars, adviceVars, fitVars, shimVars>>
  \/ /\ part = "build" /\ Build!Next
     /\ UNCHANGED <<part, routeVars, relayVars, cacheVars, storageVars, formVars, chatVars,
                    linkVars, pluginVars, recipeVars, gpuVars, adviceVars, fitVars, shimVars>>
  \/ /\ part = "cache" /\ Cache!Next
     /\ UNCHANGED <<part, routeVars, relayVars, buildVars, storageVars, formVars, chatVars,
                    linkVars, pluginVars, recipeVars, gpuVars, adviceVars, fitVars, shimVars>>
  \/ /\ part = "storage" /\ Storage!Next
     /\ UNCHANGED <<part, routeVars, relayVars, buildVars, cacheVars, formVars, chatVars,
                    linkVars, pluginVars, recipeVars, gpuVars, adviceVars, fitVars, shimVars>>
  \/ /\ part = "form" /\ Form!Next
     /\ UNCHANGED <<part, routeVars, relayVars, buildVars, cacheVars, storageVars, chatVars,
                    linkVars, pluginVars, recipeVars, gpuVars, adviceVars, fitVars, shimVars>>
  \/ /\ part = "chat" /\ Chat!Next
     /\ UNCHANGED <<part, routeVars, relayVars, buildVars, cacheVars, storageVars, formVars,
                    linkVars, pluginVars, recipeVars, gpuVars, adviceVars, fitVars, shimVars>>
  \/ /\ part = "link" /\ Link!Next
     /\ UNCHANGED <<part, routeVars, relayVars, buildVars, cacheVars, storageVars, formVars,
                    chatVars, pluginVars, recipeVars, gpuVars, adviceVars, fitVars, shimVars>>
  \/ /\ part = "plugin" /\ Plugin!Next
     /\ UNCHANGED <<part, routeVars, relayVars, buildVars, cacheVars, storageVars, formVars,
                    chatVars, linkVars, recipeVars, gpuVars, adviceVars, fitVars, shimVars>>
  \/ /\ part = "recipe" /\ Resolver!Next
     /\ UNCHANGED <<part, routeVars, relayVars, buildVars, cacheVars, storageVars, formVars,
                    chatVars, linkVars, pluginVars, gpuVars, adviceVars, fitVars, shimVars>>
  \/ /\ part = "capacity" /\ Gpus!Next
     /\ UNCHANGED <<part, routeVars, relayVars, buildVars, cacheVars, storageVars, formVars,
                    chatVars, linkVars, pluginVars, recipeVars, adviceVars, fitVars, shimVars>>
  \/ /\ part = "advice" /\ Advisor!Next
     /\ UNCHANGED <<part, routeVars, relayVars, buildVars, cacheVars, storageVars, formVars,
                    chatVars, linkVars, pluginVars, recipeVars, gpuVars, fitVars, shimVars>>
  \/ /\ part = "fit" /\ Fitting!Next
     /\ UNCHANGED <<part, routeVars, relayVars, buildVars, cacheVars, storageVars, formVars,
                    chatVars, linkVars, pluginVars, recipeVars, gpuVars, adviceVars, shimVars>>
  \/ /\ part = "shim" /\ Shim!Next
     /\ UNCHANGED <<part, routeVars, relayVars, buildVars, cacheVars, storageVars, formVars,
                    chatVars, linkVars, pluginVars, recipeVars, gpuVars, adviceVars, fitVars>>

Spec == Init /\ [][Next]_allVars

-----------------------------------------------------------------------------
(* A property looks at the part that steps.  The initial states of the others, *)
(* in which they stay, are among those the part itself begins with.            *)

(* The types of the state of the parts.                                        *)
TypeOK ==
  /\ part \in Parts
  /\ part = "requests" => Routes!TypeOK
  /\ part = "relay"    => Relay!TypeOK
  /\ part = "build"    => Build!TypeOK
  /\ part = "cache"    => Cache!TypeOK
  /\ part = "storage"  => Storage!TypeOK
  /\ part = "form"     => Form!TypeOK
  /\ part = "chat"     => Chat!TypeOK
  /\ part = "link"     => Link!TypeOK
  /\ part = "plugin"   => Plugin!TypeOK
  /\ part = "shim"     => Shim!TypeOK

(* A request that is told it succeeded did it: it made an object, or the       *)
(* server accepted its deletion of one, which is Terminating as long as it is  *)
(* there.  The list shows what the user may list, all of it when nothing       *)
(* failed (routes/deployments.ts).                                             *)
AnswersAreHonest ==
  part = "requests" => Routes!SuccessIsHonest /\ Routes!ListIsHonest

(* A prompt reaches a model server at most once, and an answered chat leaves   *)
(* no timer, listener or open body behind (handleDeploymentChat).              *)
PromptsRunOnce ==
  part = "relay" => Relay!AtMostOneModel /\ Relay!NothingLeftBehind

(* The image a build answers with is the previewed one and is there.           *)
AnsweredImageIsThere == part = "build" => Build!AnsweredImageIsThere

(* A kept answer is served within its life and to who may read it.             *)
AnswersAreFreshAndAllowed ==
  part = "cache" => Cache!AnswersAreFreshAndAllowed

(* Route, preview and webhook treat the same volumes alike.                    *)
RouteMatchesWebhook == part = "storage" => Storage!RouteMatchesWebhook

(* What only Dynamo has is there for Dynamo alone, Direct vLLM deploys what    *)
(* its page shows, and an image, a source or a recipe's provenance goes with   *)
(* the provider it is of.                                                      *)
SettingsFitTheRuntime == part = "form" => Form!SettingsFitTheRuntime

(* A GPU count the user types is not snapped back by an effect.                *)
ManualEditStays == Form!ManualEditStays

(* The chat shows nothing of another deployment.                               *)
NothingFromElsewhere == part = "chat" => Chat!NothingFromElsewhere

(* A code is exchanged with the verifier of its own flow.                      *)
VerifierOfItsCode == part = "link" => Link!VerifierOfItsCode

(* A page that says the account is connected has its token in every namespace  *)
(* where nobody else has written or removed it since.                          *)
ConnectedMeansEverywhere == part = "link" => Link!ConnectedMeansEverywhere

(* Both forms send what they show: the preview's request, the manifest.        *)
SentAsShown == Form!PreviewIsWhatIsSent /\ Plugin!ManifestIsWhatIsSent

(* What a recipe's layers say is what the admitted deployment runs with.       *)
ServedAsResolved == part = "recipe" => Resolver!ServedAsResolved

(* A deployment created without a warning has room; pools add up.              *)
CapacityIsHonest == part = "capacity" => Gpus!CapacityIsHonest

(* The configurator's answer is the better row, or the default, of its asking. *)
AdviceIsSound == part = "advice" => Advisor!AdviceIsSound

(* What the catalogue says of a model holds of it on this cluster.             *)
FitIsHonest == part = "fit" => Fitting!FitIsHonest

(* A provider that signed off stays so, and one that is shown as connected had *)
(* a process within the threshold (Unregister, getProviderHealth).             *)
RegistrationIsHonest == part = "shim" => Shim!RegistrationIsHonest

(* An undisturbed provider is shown as it is within two heartbeats.            *)
HealthIsCurrent == part = "shim" => Shim!HealthIsCurrent
=============================================================================
