------------------------------ MODULE WebProofs ------------------------------
(* The theorems of the parts, brought to the backend that the run Web checks:  *)
(* every behaviour of MCWeb is one of each of its parts, so what is proved of  *)
(* a part for all its constants holds of MCWeb for all of its.                 *)
EXTENDS MCWeb, WebClientsProofs, BackendServicesProofs, TLAPS

(* A behaviour of the whole, seen from one part, is a behaviour of that part:  *)
(* a step of another part leaves the variables of this one alone.              *)
LEMMA StepOfParts ==
  ASSUME [Next]_allVars
  PROVE  /\ [Routes!Next]_(Routes!vars)
         /\ [Relay!Next]_(Relay!cvars)
         /\ [Build!Next]_(Build!bvars)
         /\ [Link!Next]_(Link!hvars)
         /\ [Shim!Next]_(Shim!rvars)
         /\ [Chat!Next]_(Chat!pvars)
         /\ [Advisor!Next]_(Advisor!avars)
         /\ [Cache!Next]_(Cache!cvars)
         /\ [Form!Next]_(Form!fvars)
         /\ [Plugin!Next]_(Plugin!gvars)
         /\ [Storage!Next]_(Storage!svars)
         /\ [Gpus!Next]_(Gpus!gvars)
         /\ [Fitting!Next]_told
         /\ [Resolver!Next]_(Resolver!rvars)
<1>1. [Routes!Next]_(Routes!vars)
  BY Zenon DEF Next, allVars, routeVars, Routes!vars
<1>2. [Relay!Next]_(Relay!cvars)
  BY Zenon DEF Next, allVars, relayVars, Relay!cvars
<1>3. [Build!Next]_(Build!bvars)
  BY Zenon DEF Next, allVars, buildVars, Build!bvars
<1>4. [Link!Next]_(Link!hvars)
  BY Zenon DEF Next, allVars, linkVars, Link!hvars
<1>5. [Shim!Next]_(Shim!rvars)
  BY Zenon DEF Next, allVars, shimVars, Shim!rvars
<1>6. [Chat!Next]_(Chat!pvars)
  BY Zenon DEF Next, allVars, chatVars, Chat!pvars
<1>7. [Advisor!Next]_(Advisor!avars)
  BY Zenon DEF Next, allVars, adviceVars, Advisor!avars
<1>8. [Cache!Next]_(Cache!cvars)
  BY Zenon DEF Next, allVars, cacheVars, Cache!cvars
<1>9. [Form!Next]_(Form!fvars)
  BY Zenon DEF Next, allVars, formVars, Form!fvars
<1>10. [Plugin!Next]_(Plugin!gvars)
  BY Zenon DEF Next, allVars, pluginVars, Plugin!gvars
<1>11. [Storage!Next]_(Storage!svars)
  BY Zenon DEF Next, allVars, storageVars, Storage!svars
<1>12. [Gpus!Next]_(Gpus!gvars)
  BY Zenon DEF Next, allVars, gpuVars, Gpus!gvars
<1>13. [Fitting!Next]_told
  BY Zenon DEF Next, allVars, fitVars
<1>14. [Resolver!Next]_(Resolver!rvars)
  BY Zenon DEF Next, allVars, recipeVars, Resolver!rvars
<1> QED BY <1>1, <1>2, <1>3, <1>4, <1>5, <1>6, <1>7, <1>8, <1>9, <1>10, <1>11, <1>12, <1>13, <1>14

LEMMA BehaviourOfParts ==
  Spec => Routes!Spec /\ Relay!Spec /\ Build!Spec /\ Link!Spec /\ Shim!Spec /\ Chat!Spec
          /\ Advisor!Spec /\ Cache!Spec /\ Form!Spec /\ Plugin!Spec /\ Storage!Spec
          /\ Gpus!Spec /\ Fitting!Spec /\ Resolver!Spec /\ [](part \in Parts)
<1>1. Init => Routes!Init /\ Relay!Init /\ Build!Init /\ Link!Init /\ Shim!Init /\ Chat!Init
                /\ Advisor!Init /\ Cache!Init /\ Form!Init /\ Plugin!Init /\ Storage!Init
                /\ Gpus!Init /\ Fitting!Init /\ Resolver!Init /\ part \in Parts
  BY DEF Init
<1>2. [Next]_allVars => /\ [Routes!Next]_(Routes!vars)
                        /\ [Relay!Next]_(Relay!cvars)
                        /\ [Build!Next]_(Build!bvars)
                        /\ [Link!Next]_(Link!hvars)
                        /\ [Shim!Next]_(Shim!rvars)
                        /\ [Chat!Next]_(Chat!pvars)
                        /\ [Advisor!Next]_(Advisor!avars)
                        /\ [Cache!Next]_(Cache!cvars)
                        /\ [Form!Next]_(Form!fvars)
                        /\ [Plugin!Next]_(Plugin!gvars)
                        /\ [Storage!Next]_(Storage!svars)
                        /\ [Gpus!Next]_(Gpus!gvars)
                        /\ [Fitting!Next]_told
                        /\ [Resolver!Next]_(Resolver!rvars)
  BY StepOfParts
<1>3. [Next]_allVars => part' = part
  BY Zenon DEF Next, allVars
<1>4. part \in Parts /\ [Next]_allVars => (part \in Parts)'
  BY <1>3 DEF Parts
<1> QED BY <1>1, <1>2, <1>4, PTL DEF Spec, Routes!Spec, Relay!Spec, Build!Spec, Link!Spec, Shim!Spec, Chat!Spec,
       Advisor!Spec, Cache!Spec, Form!Spec, Plugin!Spec, Storage!Spec, Gpus!Spec, Fitting!Spec, Resolver!Spec

(* A POST that is told 201 made an object; a DELETE that is told 200 had its   *)
(* deletion accepted of an object, which is Terminating as long as its         *)
(* finalizer keeps it and never comes back; and a list shows what the user can *)
(* list: for every number of handlers in flight, of finalizers put and taken   *)
(* meanwhile, and every bound on retries (routes/deployments.ts,               *)
(* services/kubernetes.ts, lib/retry.ts).                                      *)
THEOREM HonestAnswers == Spec => []AnswersAreHonest
<1>1. Routes!Spec => []Routes!SuccessIsHonest
  BY Routes!Earned
<1>2. Routes!Spec => []Routes!ListIsHonest
  BY Routes!ListHonest
<1> QED BY <1>1, <1>2, BehaviourOfParts, PTL DEF AnswersAreHonest

(* An image build that is answered has its image in the registry, under the    *)
(* name the preview gave, for every number of builds, polls and lost builders  *)
(* (buildImage, ensureRegistry).                                               *)
THEOREM ImageThere == Spec => []AnsweredImageIsThere
<1>1. Build!Spec => []Build!AnsweredImageIsThere
  BY ServicesAssumption, AnsweredHolds
<1> QED BY <1>1, BehaviourOfParts, PTL DEF AnsweredImageIsThere

(* A deployment created without a warning has room, in a cluster that nobody   *)
(* else changed since it was asked; the pools shown then add up to the         *)
(* cluster, and the form alarms about nothing the backend takes without a word *)
(* (getClusterGpuCapacity of kubernetes.ts, gpuValidation.ts,                  *)
(* CapacityWarning.tsx): for any nodes, pods, demands and moves.               *)
THEOREM HonestCapacity == Spec => []CapacityIsHonest
BY CapacityHolds, BehaviourOfParts, PTL DEF CapacityIsHonest

(* What the catalogue says of a model holds of it on this cluster: a card is   *)
(* shown once, to who may have it, with an engine that loads its format; "load *)
(* more" leads to more; a badge's missing memory is enough; and an estimate is *)
(* for hardware there is, fits if any size does, and would not be better with  *)
(* fewer GPUs (huggingface.ts, modelCompatibility.ts, gpuPerformance.ts,       *)
(* GpuFitIndicator.tsx): for any models, lists, clusters and queries.          *)
THEOREM HonestFit == Spec => []FitIsHonest
BY FitHolds, BehaviourOfParts, PTL DEF FitIsHonest

(* Where every flag of a recipe takes at most one value, what is resolved sets *)
(* the flags its layers set and no others, each to what the uppermost layer    *)
(* says, although the first value of a flag goes to a map and a second one to  *)
(* a list; and a deployment that is admitted asks for as many GPUs as its      *)
(* command line shards the model over (vllmRecipeResolver.ts: resolve,         *)
(* deriveGpuCount).                                                            *)
THEOREM HonestRecipe == Spec => []ServedAsResolved
BY RecipeHolds, BehaviourOfParts, PTL DEF ServedAsResolved

(* A code goes to HuggingFace with the verifier of its own sign-in, in any     *)
(* number of sign-ins (services/oauth.ts, hooks/useHuggingFace.ts).            *)
THEOREM OwnVerifier == Spec => []VerifierOfItsCode
BY VerifierSent, BehaviourOfParts, PTL DEF VerifierOfItsCode

(* A page that says connected has written its token into the secret of every   *)
(* namespace, and it is still there but where another request, of this or of   *)
(* any other user, has written or removed it after that write                  *)
(* (services/secrets.ts, routes/secrets.ts, HuggingFaceCallbackPage.tsx): for  *)
(* any number of saves and deletions that interleave.                          *)
THEOREM ConnectedEverywhere == Spec => []ConnectedMeansEverywhere
BY ConnectedHolds, BehaviourOfParts, PTL DEF ConnectedMeansEverywhere

(* The panel shows only messages and an error of the deployment it names, and  *)
(* its input is locked exactly while a reply is awaited that will be shown     *)
(* (ChatPanel.tsx): for any deployments, sends and changes of page.            *)
THEOREM OwnConversation == Spec => []NothingFromElsewhere
BY PanelShowsItsOwn, BehaviourOfParts, PTL DEF NothingFromElsewhere

(* The advice: what an analysis is told of the tool was true within the life   *)
(* of the cached answer, its answer is no worse than the other row or the      *)
(* default, its directory goes, and the panel shows the answer to what it      *)
(* asked last (services/aiconfigurator.ts, AIConfiguratorPanel.tsx): for any   *)
(* number of analyses at a time and any lives of the cached answer.            *)
THEOREM SoundAdvice == Spec => []AdviceIsSound
BY AdviceHolds, BehaviourOfParts, PTL DEF AdviceIsSound

(* Once the user has chosen the runtime, storage, router mode and several      *)
(* nodes are there for Dynamo alone; with Direct vLLM what would be deployed   *)
(* is what the page shows; and an image, a model source or a recipe's          *)
(* provenance goes with the provider it is of, also when a recipe is answered  *)
(* after the page went elsewhere (DeploymentForm.tsx): in whatever order       *)
(* edits, answers and effects come, for any runtimes, engines, modes, models,  *)
(* capacities and advice.                                                      *)
THEOREM FittingSettings == Spec => []SettingsFitTheRuntime
BY SettingsFit, BehaviourOfParts, PTL DEF SettingsFitTheRuntime

(* "manual topology edits do not trigger this effect and get snapped back"     *)
(* (DeploymentForm.tsx): a typed GPU count is still there after the effects.   *)
THEOREM StayingEdits == Spec => ManualEditStays
BY EditsStay, BehaviourOfParts, PTL DEF ManualEditStays

(* What the user is shown is what is sent: the request behind the preview of   *)
(* the deploy page, but for an image that is built, and the manifest of the    *)
(* Headlamp form (handleSubmit of DeploymentForm.tsx and CreateDeployment.tsx).*)
THEOREM ShownIsSent == Spec => SentAsShown
BY SentPreview, SentManifest, BehaviourOfParts, PTL DEF SentAsShown

(* A shim that signed off stays so, and one shown as connected was alive       *)
(* within the threshold (MarkUnregistered, getProviderHealth).                 *)
THEOREM HonestRegistration == Spec => []RegistrationIsHonest
<1>1. Shim!RegistrationAssumption
  BY WebAssumption
<1>2. Shim!Spec => []Shim!RegistrationIsHonest
  BY <1>1, Shim!SignedOff
<1> QED BY <1>2, BehaviourOfParts, PTL DEF RegistrationIsHonest

(* A provider that nothing disturbs is shown as it is within two heartbeats    *)
(* (Register and the heartbeat loop of the shims, getProviderHealth).          *)
THEOREM CurrentHealth == Spec => []HealthIsCurrent
<1>1. Shim!RegistrationAssumption
  BY WebAssumption
<1>2. Shim!Spec => []Shim!HealthIsCurrent
  BY <1>1, Shim!ShownAsItIs
<1> QED BY <1>2, BehaviourOfParts, PTL DEF HealthIsCurrent

-----------------------------------------------------------------------------
(* The chat proxy.                                                             *)

(* Before a post no model server has the prompt, nor has one after the answer  *)
(* that the service is not there: the only answer that leads to another post.  *)
BeforePost == {"idle", "lookup", "discover", "wait", "post"}
PromptKnown ==
  /\ delivered \in {0, 1}
  /\ pc \in BeforePost => delivered = 0
  /\ pc \in {"read", "failed"} /\ relayed = "missing" => delivered = 0

(* Who holds what, in every state: the timer and the listener are those of the *)
(* discovery, an open body is the one being read, and one that was left kept   *)
(* what the limit allows or all there was.                                     *)
DiscoveryHolds == timer \/ listening => pc = "wait"
BodyHolds ==
  /\ details \in Nat /\ details <= MaxDetails
  /\ body = [state |-> body.state, left |-> body.left] /\ body.left \in Nat
  /\ body.state = "open" => pc = "read"
  /\ body.state = "cancelled" => details = MaxDetails
  /\ body.state = "drained" => body.left = 0

RelayInv == PromptKnown /\ DiscoveryHolds /\ BodyHolds

LEMMA RelayInit == ASSUME Relay!Init PROVE RelayInv
<1>1. PromptKnown /\ DiscoveryHolds
  BY DEF Relay!Init, PromptKnown, BeforePost, DiscoveryHolds
<1>2. BodyHolds
  BY WebAssumption DEF Relay!ChatAssumption, Relay!Init, BodyHolds, Relay!NoBody
<1> QED BY <1>1, <1>2 DEF RelayInv

(* Of all answers only "missing" leads to a second post.                       *)
LEMMA PromptKept == ASSUME PromptKnown, [Relay!Next]_(Relay!cvars) PROVE PromptKnown'
<1> USE DEF PromptKnown, BeforePost
<1>1. CASE UNCHANGED Relay!cvars
  BY <1>1 DEF Relay!cvars
<1>2. CASE Relay!Arrive \/ Relay!Lookup
  BY <1>2 DEF Relay!Arrive, Relay!Lookup, Relay!Respond
<1>3. CASE Relay!StartDiscovery \/ Relay!Timeout \/ Relay!DiscoveryCutOff
           \/ Relay!DiscoveryAnswered \/ Relay!ClientLeaves
  BY <1>3 DEF Relay!StartDiscovery, Relay!Timeout, Relay!DiscoveryCutOff, Relay!DiscoveryAnswered,
              Relay!EndDiscovery, Relay!ClientLeaves
<1>4. CASE Relay!PostRejected \/ Relay!PostAccepted
  BY <1>4 DEF Relay!PostRejected, Relay!PostAccepted, Relay!Respond
<1>5. ASSUME NEW refusal \in Relay!UpstreamErrors, Relay!PostRefused(refusal) PROVE PromptKnown'
  BY <1>5 DEF Relay!PostRefused
<1>6. ASSUME NEW chunk \in 1..MaxBody, Relay!ReadChunk(chunk) PROVE PromptKnown'
  BY <1>6 DEF Relay!ReadChunk
<1>7. CASE Relay!ReadEnd \/ Relay!ReadFails
  BY <1>7 DEF Relay!ReadEnd, Relay!ReadFails, Relay!Respond
<1>8. CASE Relay!HandleFailure
  <2>1. CASE Relay!TriesGateway
    BY <1>8, <2>1 DEF Relay!HandleFailure, Relay!TriesGateway, Relay!MissingService
  <2>2. CASE ~Relay!TriesGateway
    BY <1>8, <2>2 DEF Relay!HandleFailure, Relay!Respond
  <2> QED BY <2>1, <2>2
<1> QED BY <1>1, <1>2, <1>3, <1>4, <1>5, <1>6, <1>7, <1>8 DEF Relay!Next

LEMMA DiscoveryKept == ASSUME DiscoveryHolds, [Relay!Next]_(Relay!cvars) PROVE DiscoveryHolds'
<1> USE DEF DiscoveryHolds
<1>1. CASE UNCHANGED <<pc, timer, listening>>
  BY <1>1
<1>2. CASE Relay!Arrive \/ Relay!Lookup \/ Relay!StartDiscovery \/ Relay!Timeout
  BY <1>2 DEF Relay!Arrive, Relay!Lookup, Relay!Respond, Relay!StartDiscovery, Relay!Timeout
<1>3. CASE Relay!EndDiscovery
  BY <1>3 DEF Relay!EndDiscovery
<1>4. CASE pc # "wait" /\ UNCHANGED <<timer, listening>>
  BY <1>4
<1> QED BY <1>1, <1>2, <1>3, <1>4
        DEF Relay!Next, Relay!cvars, Relay!DiscoveryCutOff, Relay!DiscoveryAnswered,
            Relay!ClientLeaves, Relay!PostRejected, Relay!PostAccepted,
            Relay!PostRefused, Relay!ReadChunk, Relay!ReadEnd, Relay!ReadFails, Relay!HandleFailure

LEMMA BodyKept == ASSUME BodyHolds,
[Relay!Next]_(Relay!cvars) PROVE BodyHolds'
<1>0. Relay!ChatAssumption
  BY WebAssumption
<1> USE <1>0 DEF BodyHolds, Relay!ChatAssumption
<1>1. CASE UNCHANGED <<body, details>> /\ (pc # "read" \/ pc' = pc)
  BY <1>1
<1>2. ASSUME NEW refusal \in Relay!UpstreamErrors, Relay!PostRefused(refusal) PROVE BodyHolds'
  <2>1. PICK n \in 0..MaxBody : body' = [state |-> "open", left |-> n]
    <3>1. CASE refusal = "missing"
      <4>1. PICK n \in 1..MaxBody : body' = [state |-> "open", left |-> n]
        BY <1>2, <3>1 DEF Relay!PostRefused
      <4> QED BY <4>1
    <3>2. CASE refusal # "missing"
      BY <1>2, <3>2 DEF Relay!PostRefused
    <3> QED BY <3>1, <3>2
  <2>2. details' = 0 /\ pc' = "read"
    BY <1>2 DEF Relay!PostRefused
  <2> QED BY <2>1, <2>2
<1>3. ASSUME NEW chunk \in 1..MaxBody, Relay!ReadChunk(chunk) PROVE BodyHolds'
  <2>1. chunk \in Nat /\ chunk <= body.left /\ details' = details + Relay!KeptOf(chunk)
    BY <1>3 DEF Relay!ReadChunk
  <2>2. CASE chunk >= MaxDetails - details
    <3>1. Relay!KeptOf(chunk) = MaxDetails - details
      BY <2>1, <2>2 DEF Relay!KeptOf
    <3>2. body' = [state |-> "cancelled", left |-> body.left - Relay!KeptOf(chunk)]
      BY <1>3, <2>2 DEF Relay!ReadChunk
    <3>3. details' = MaxDetails /\ body.left - Relay!KeptOf(chunk) \in Nat
      BY <2>1, <2>2, <3>1
    <3> QED BY <3>2, <3>3
  <2>3. CASE ~(chunk >= MaxDetails - details)
    <3>1. details' \in Nat /\ details' <= MaxDetails
      BY <2>1, <2>3 DEF Relay!KeptOf
    <3>2. body' = [body EXCEPT !.left = @ - chunk] /\ pc' = pc
      BY <1>3, <2>3 DEF Relay!ReadChunk
    <3>3. body.state = "open" /\ pc = "read"
      BY <1>3 DEF Relay!ReadChunk
    <3>4. body' = [state |-> "open", left |-> body.left - chunk] /\ body.left - chunk \in Nat
      BY <2>1, <3>2, <3>3
    <3> QED BY <3>1, <3>2, <3>3, <3>4
  <2> QED BY <2>2, <2>3
<1>4. CASE Relay!ReadEnd \/ Relay!ReadFails
  <2>1. /\ body' = [state |-> body'.state, left |-> body.left] /\ details' = details
        /\ \/ body'.state = "errored"
           \/ body'.state = "drained" /\ body.left = 0
    BY <1>4 DEF Relay!ReadEnd, Relay!ReadFails
  <2> QED BY <2>1
<1> QED BY <1>1, <1>2, <1>3, <1>4
        DEF Relay!Next, Relay!cvars, Relay!Arrive, Relay!Lookup, Relay!StartDiscovery,
            Relay!Timeout, Relay!DiscoveryCutOff, Relay!DiscoveryAnswered,
            Relay!EndDiscovery, Relay!ClientLeaves, Relay!PostRejected, Relay!PostAccepted,
            Relay!HandleFailure, Relay!Respond

(* A prompt is run by one model at most and an answered chat leaves no timer,  *)
(* listener or open body behind, whatever the client, the discovery and the    *)
(* model servers do (handleDeploymentChat).                                    *)
THEOREM PromptsOnce == Spec => []PromptsRunOnce
<1>1. RelayInv => Relay!AtMostOneModel /\ Relay!NothingLeftBehind
  BY DEF RelayInv, PromptKnown, DiscoveryHolds, BodyHolds, Relay!AtMostOneModel, Relay!NothingLeftBehind
<1>2. RelayInv /\ [Relay!Next]_(Relay!cvars) => RelayInv'
  BY PromptKept, DiscoveryKept, BodyKept DEF RelayInv
<1>3. Relay!Spec => []RelayInv
  BY <1>2, RelayInit, PTL DEF Relay!Spec
<1> QED BY <1>1, <1>3, BehaviourOfParts, PTL DEF PromptsRunOnce

(* What the rest of the request holds: the status it was refused with, the     *)
(* path it takes, and an answer that is passed on only if it may be.           *)
RelayTypes ==
  /\ deployment \in Relay!Deployments
  /\ pc \in {"idle", "lookup", "discover", "wait", "post", "read", "failed", "done"}
  /\ route \in {"direct", "gateway"}
  /\ aborted \in BOOLEAN /\ timer \in BOOLEAN /\ listening \in BOOLEAN /\ scoped \in BOOLEAN
  /\ body.state \in {"none", "open", "drained", "cancelled", "errored"}
  /\ body.left <= MaxBody
  /\ relayed \in Relay!UpstreamErrors \cup {"none"}
  /\ answer \in Relay!PassedOn \cup {0, 200}

LEMMA RelayTypesInit == ASSUME Relay!Init PROVE RelayTypes
<1>1. MaxBody \in Nat
  BY WebAssumption DEF Relay!ChatAssumption
<1>2. deployment \in Relay!Deployments
  BY DEF Relay!Init, Relay!Deployments
<1>3. body.state = "none" /\ body.left = 0
  BY DEF Relay!Init, Relay!NoBody
<1>4. /\ pc = "idle" /\ route = "direct" /\ relayed = "none" /\ answer = 0
      /\ aborted = FALSE /\ timer = FALSE /\ listening = FALSE /\ scoped = FALSE
  BY DEF Relay!Init
<1>5. relayed \in Relay!UpstreamErrors \cup {"none"} /\ answer \in Relay!PassedOn \cup {0, 200}
  BY <1>4
<1>6. body.state \in {"none", "open", "drained", "cancelled", "errored"} /\ body.left <= MaxBody
  BY <1>1, <1>3
<1> HIDE DEF Relay!Init
<1> QED BY <1>2, <1>4, <1>5, <1>6, Zenon DEF RelayTypes

LEMMA RelayTypesKept ==
  ASSUME RelayTypes, BodyHolds, [Relay!Next]_(Relay!cvars)
  PROVE  RelayTypes'
<1>0. MaxBody \in Nat /\ MaxDetails \in Nat
  BY WebAssumption DEF Relay!ChatAssumption
<1>1. CASE UNCHANGED Relay!cvars
  BY <1>1 DEF Relay!cvars, RelayTypes
<1>2. CASE Relay!Arrive
  BY <1>2 DEF Relay!Arrive, RelayTypes
<1>3. CASE Relay!Lookup
  <2>1. /\ pc' \in {"done", "post", "discover"} /\ answer' \in {answer, 404, 409}
        /\ UNCHANGED <<deployment, route, aborted, timer, listening, scoped, body, relayed>>
    BY <1>3 DEF Relay!Lookup, Relay!Respond
  <2> QED BY <2>1 DEF RelayTypes, Relay!PassedOn
<1>4. CASE Relay!StartDiscovery
  <2>1. /\ scoped' \in BOOLEAN /\ timer' \in BOOLEAN /\ listening' \in BOOLEAN
    BY <1>4, Zenon DEF Relay!StartDiscovery, RelayTypes
  <2>2. pc' = "wait" /\ UNCHANGED <<deployment, route, aborted, body, relayed, answer>>
    BY <1>4 DEF Relay!StartDiscovery
  <2> QED BY <2>1, <2>2 DEF RelayTypes
<1>5. CASE Relay!Timeout \/ Relay!DiscoveryCutOff \/ Relay!DiscoveryAnswered
  <2>1. /\ pc' \in {"post", pc} /\ timer' = FALSE /\ UNCHANGED <<deployment, route, aborted, body, relayed, answer>>
        /\ \/ listening' = listening /\ scoped' = TRUE
           \/ listening' = FALSE /\ scoped' = scoped
    BY <1>5 DEF Relay!Timeout, Relay!DiscoveryCutOff, Relay!DiscoveryAnswered, Relay!EndDiscovery
  <2>2. listening' \in BOOLEAN /\ scoped' \in BOOLEAN /\ timer' \in BOOLEAN
    BY <2>1, Zenon DEF RelayTypes
  <2> QED BY <2>1, <2>2 DEF RelayTypes
<1>6. CASE Relay!ClientLeaves
  <2>1. aborted' \in BOOLEAN /\ scoped' \in BOOLEAN
    <3>1. aborted' = TRUE /\ scoped' = (scoped \/ listening)
      BY <1>6 DEF Relay!ClientLeaves
    <3>2. (scoped \/ listening) \in BOOLEAN
      OBVIOUS
    <3> QED BY <3>1, <3>2, Zenon
  <2>2. UNCHANGED <<deployment, pc, route, timer, listening, body, relayed, answer>>
    BY <1>6 DEF Relay!ClientLeaves
  <2> QED BY <2>1, <2>2 DEF RelayTypes
<1>7. CASE Relay!PostRejected \/ Relay!PostAccepted
  <2>1. /\ pc' = "done" /\ answer' \in {500, 200, 502}
        /\ UNCHANGED <<deployment, route, aborted, timer, listening, scoped, body, relayed>>
    BY <1>7 DEF Relay!PostRejected, Relay!PostAccepted, Relay!Respond
  <2> QED BY <2>1 DEF RelayTypes, Relay!PassedOn
<1>8. ASSUME NEW refusal \in Relay!UpstreamErrors, Relay!PostRefused(refusal) PROVE RelayTypes'
  <2>1. /\ pc' = "read" /\ relayed' = refusal
        /\ UNCHANGED <<deployment, route, aborted, timer, listening, scoped, answer>>
    BY <1>8 DEF Relay!PostRefused
  <2>2. PICK n \in 0..MaxBody : body' = [state |-> "open", left |-> n]
    <3>1. CASE refusal = "missing"
      <4>1. PICK n \in 1..MaxBody : body' = [state |-> "open", left |-> n]
        BY <1>8, <3>1 DEF Relay!PostRefused
      <4> QED BY <1>0, <4>1
    <3>2. CASE refusal # "missing"
      BY <1>8, <3>2 DEF Relay!PostRefused
    <3> QED BY <3>1, <3>2
  <2>3. body'.state = "open" /\ body'.left <= MaxBody
    BY <1>0, <2>2
  <2> QED BY <2>1, <2>3 DEF RelayTypes
<1>9. ASSUME NEW chunk \in 1..MaxBody, Relay!ReadChunk(chunk) PROVE RelayTypes'
  <2>1. /\ chunk \in Nat /\ chunk <= body.left /\ body.state = "open"
        /\ UNCHANGED <<deployment, route, aborted, timer, listening, scoped, relayed, answer>>
    BY <1>0, <1>9 DEF Relay!ReadChunk, BodyHolds
  <2>2. CASE chunk >= MaxDetails - details
    <3>1. Relay!KeptOf(chunk) \in Nat /\ body.left - Relay!KeptOf(chunk) <= body.left
      BY <1>0, <2>1 DEF Relay!KeptOf, BodyHolds
    <3>2. pc' = "failed" /\ body' = [state |-> "cancelled", left |-> body.left - Relay!KeptOf(chunk)]
      BY <1>9, <2>2 DEF Relay!ReadChunk
    <3>3. body'.state = "cancelled" /\ body'.left <= MaxBody
      BY <1>0, <3>1, <3>2 DEF RelayTypes, BodyHolds
    <3> QED BY <2>1, <3>2, <3>3 DEF RelayTypes
  <2>3. CASE ~(chunk >= MaxDetails - details)
    <3>1. pc' = pc /\ body' = [body EXCEPT !.left = @ - chunk]
      BY <1>9, <2>3 DEF Relay!ReadChunk
    <3>2. body' = [state |-> "open", left |-> body.left - chunk]
      BY <2>1, <3>1 DEF BodyHolds
    <3>3. body'.state = "open" /\ body'.left <= MaxBody
      BY <1>0, <2>1, <3>2 DEF RelayTypes, BodyHolds
    <3> QED BY <2>1, <3>1, <3>3 DEF RelayTypes
  <2> QED BY <2>2, <2>3
<1>10. CASE Relay!ReadEnd \/ Relay!ReadFails
  <2>1. /\ pc' \in {"failed", "done"} /\ answer' \in {answer, 500}
        /\ UNCHANGED <<deployment, route, aborted, timer, listening, scoped, relayed>>
    BY <1>10 DEF Relay!ReadEnd, Relay!ReadFails, Relay!Respond
  <2>2. body'.state \in {"drained", "errored"} /\ body'.left = body.left
    <3>1. PICK state \in {"drained", "errored"} : body' = [body EXCEPT !.state = state]
      BY <1>10 DEF Relay!ReadEnd, Relay!ReadFails
    <3>2. body' = [state |-> state, left |-> body.left]
      BY <3>1 DEF BodyHolds
    <3> QED BY <3>2
  <2> QED BY <2>1, <2>2 DEF RelayTypes, Relay!PassedOn
<1>11. CASE Relay!HandleFailure
  <2>1. /\ pc' \in {"post", "discover", "done"} /\ route' \in {"gateway", route}
        /\ answer' \in Relay!PassedOn \cup {answer}
        /\ UNCHANGED <<deployment, aborted, timer, listening, scoped, body, relayed>>
    <3>1. 502 \in Relay!PassedOn
      BY DEF Relay!PassedOn
    <3>2. CASE Relay!TriesGateway
      BY <1>11, <3>2 DEF Relay!HandleFailure
    <3>3. CASE ~Relay!TriesGateway
      BY <1>11, <3>1, <3>3 DEF Relay!HandleFailure, Relay!Respond
    <3> QED BY <3>2, <3>3
  <2> QED BY <2>1 DEF RelayTypes
<1> QED BY <1>1, <1>2, <1>3, <1>4, <1>5, <1>6, <1>7, <1>8, <1>9, <1>10, <1>11 DEF Relay!Next

LEMMA RelayTyped == Relay!Spec => []Relay!TypeOK
<1>1. RelayInv /\ RelayTypes => Relay!TypeOK
  <2> SUFFICES ASSUME RelayInv, RelayTypes PROVE Relay!TypeOK
    OBVIOUS
  <2>0. MaxBody \in Nat /\ MaxDetails \in Nat
    BY WebAssumption DEF Relay!ChatAssumption
  <2>1. {aborted, timer, listening, scoped} \subseteq BOOLEAN
    BY DEF RelayTypes
  <2>2. body.left \in 0..MaxBody /\ details \in 0..MaxDetails
    BY <2>0 DEF RelayInv, RelayTypes, BodyHolds
  <2>3. delivered \in 0..2
    BY DEF RelayInv, PromptKnown
  <2> QED BY <2>1, <2>2, <2>3 DEF Relay!TypeOK, RelayTypes
<1>2. RelayInv /\ RelayTypes /\ [Relay!Next]_(Relay!cvars) => RelayInv' /\ RelayTypes'
  BY PromptKept, DiscoveryKept, BodyKept, RelayTypesKept DEF RelayInv
<1> QED BY <1>1, <1>2, RelayInit, RelayTypesInit, PTL DEF Relay!Spec

-----------------------------------------------------------------------------
(* The caches of upstream answers.                                             *)

(* An entry that is kept came at a time that is past, expires within its life, *)
(* and, when it is somebody's gated config, is under a key of who may read it; *)
(* only configs are kept under a token.                                        *)
Readable(key) == key[1] \notin Gated \/ key[2] \in Granted
KnownKey(key) == cached # "configs" => key \in Names \X {Cache!NoToken}
Life(good) == IF good = TRUE THEN Ttl ELSE ErrorTtl
Genuine(e) ==
  /\ e.got \in Nat /\ e.got <= now /\ e.until \in Int /\ e.good \in BOOLEAN
  /\ e.until <= e.got + Life(e.good)
  /\ cached = "configs" /\ e.good = TRUE => Readable(e.key)
  /\ KnownKey(e.key)

(* A lookup was made at a time that is past, under the key of what it asks;    *)
(* only a lookup of a recipe remembers an old entry, only metrics are joined.  *)
Question(q) ==
  /\ q.at \in Nat /\ q.at <= now
  /\ cached = "configs" => (Readable(q.key) <=> Cache!MayRead(q))
  /\ KnownKey(q.key)
Answer(l) ==
  /\ l.failed = FALSE => l.got \in Nat /\ l.q.at < l.got + Life(l.good)
  /\ cached = "configs" /\ l.good = TRUE => Cache!MayRead(l.q)
  /\ l.good \in BOOLEAN /\ l.failed \in BOOLEAN
Lookup(l) ==
  /\ l.pc \in {"idle", "fetching", "joined", "done"}
  /\ l.pc # "idle" => Question(l.q)
  /\ l.pc = "joined" => cached = "metrics"
  /\ l.pc = "fetching" /\ l.old # {} => cached = "recipes"
  /\ l.pc = "done" => Answer(l)

CacheInv ==
  /\ now \in Nat
  /\ \A e \in Cache!Kept(entries) : Genuine(e)
  /\ DOMAIN lookups = Callers /\ \A c \in Callers : Lookup(lookups[c])

LEMMA CacheConstants == Ttl \in Nat /\ Ttl > 0 /\ ErrorTtl \in Nat /\ ErrorTtl <= Ttl
BY WebAssumption DEF Cache!CacheAssumption

(* Putting a Map in order, dropping from it and setting an entry bring nothing *)
(* into it but that entry.                                                     *)
LEMMA KeptOfOrdered ==
  ASSUME NEW all
  PROVE  Cache!Kept(Cache!Ordered(all)) = Cache!Kept(all)
<1>1. ASSUME NEW e \in Cache!Kept(Cache!Ordered(all)) PROVE e \in Cache!Kept(all)
  <2>1. PICK y \in Cache!Ordered(all) : e = y[2]
    BY <1>1, Zenon DEF Cache!Kept
  <2>2. PICK x \in all : y = <<Cache!Cardinality({z \in all : z[1] <= x[1]}), x[2]>>
    BY <2>1, Zenon DEF Cache!Ordered
  <2>3. y[2] = x[2]
    BY <2>2
  <2> QED BY <2>1, <2>3, Zenon DEF Cache!Kept
<1>2. ASSUME NEW e \in Cache!Kept(all) PROVE e \in Cache!Kept(Cache!Ordered(all))
  <2>1. PICK x \in all : e = x[2]
    BY <1>2, Zenon DEF Cache!Kept
  <2>2. PICK y : y = <<Cache!Cardinality({z \in all : z[1] <= x[1]}), x[2]>>
    OBVIOUS
  <2>3. y \in Cache!Ordered(all)
    BY <2>2, Zenon DEF Cache!Ordered
  <2>4. y[2] = e
    BY <2>1, <2>2
  <2> QED BY <2>3, <2>4, Zenon DEF Cache!Kept
<1> QED BY <1>1, <1>2

LEMMA KeptOfSwept ==
  ASSUME NEW key
  PROVE  Cache!Kept(Cache!Swept(key)) \subseteq Cache!Kept(entries)
BY DEF Cache!Kept, Cache!Swept, Cache!Without

LEMMA KeptOfLast ==
  ASSUME NEW all, NEW e
  PROVE  Cache!Kept(Cache!Last(all, e)) \subseteq Cache!Kept(all) \cup {e}
<1> SUFFICES ASSUME NEW k \in Cache!Kept(Cache!Last(all, e)) PROVE k \in Cache!Kept(all) \cup {e}
  OBVIOUS
<1>1. PICK n : n = 1 + Cache!Cardinality(entries)
  OBVIOUS
<1>2. PICK x \in Cache!Last(all, e) : k = x[2]
  BY Zenon DEF Cache!Kept
<1>5. x \in all \/ x = <<n, e>>
  BY <1>1, <1>2 DEF Cache!Last
<1>3. CASE x \in all
  BY <1>2, <1>3, Zenon DEF Cache!Kept
<1>4. CASE x = <<n, e>>
  BY <1>2, <1>4
<1> QED BY <1>5, <1>3, <1>4

LEMMA KeptOfStored ==
  ASSUME NEW e
  PROVE  Cache!Kept(Cache!Stored(e)) \subseteq Cache!Kept(entries) \cup {e}
<1> DEFINE inPlace == {<<x[1], IF x[2].key = e.key THEN e ELSE x[2]>> : x \in entries}
           all == IF Cache!Has(entries, e.key) /\ cached # "recipes" THEN inPlace
                  ELSE Cache!Last(Cache!Without(entries, e.key), e)
<1>1. Cache!Kept(inPlace) \subseteq Cache!Kept(entries) \cup {e}
  BY DEF Cache!Kept
<1>2. Cache!Kept(Cache!Without(entries, e.key)) \subseteq Cache!Kept(entries)
  BY DEF Cache!Kept, Cache!Without
<1>3. Cache!Kept(all) \subseteq Cache!Kept(entries) \cup {e}
  <2>1. Cache!Kept(Cache!Last(Cache!Without(entries, e.key), e)) \subseteq Cache!Kept(entries) \cup {e}
    BY <1>2, KeptOfLast
  <2> HIDE DEF inPlace
  <2>2. all = inPlace \/ all = Cache!Last(Cache!Without(entries, e.key), e)
    OBVIOUS
  <2> HIDE DEF all
  <2> QED BY <1>1, <2>1, <2>2
<1> HIDE DEF all
<1>4. Cache!Trim(all) \subseteq all
  BY DEF Cache!Trim
<1>5. Cache!Kept(Cache!Trim(all)) \subseteq Cache!Kept(all)
  BY <1>4 DEF Cache!Kept
<1>6. Cache!Stored(e) = Cache!Ordered(Cache!Trim(all))
  BY DEF Cache!Stored, all
<1> QED BY <1>3, <1>5, <1>6, KeptOfOrdered

LEMMA CacheStart == Cache!Init => CacheInv
<1> SUFFICES ASSUME Cache!Init PROVE CacheInv
  OBVIOUS
<1>1. now = 0 /\ entries = {} /\ lookups = [c \in Callers |-> Cache!Idle]
  BY DEF Cache!Init
<1>2. Cache!Kept(entries) = {}
  BY <1>1 DEF Cache!Kept
<1>3. Cache!Idle.pc = "idle"
  BY DEF Cache!Idle
<1> QED BY <1>1, <1>2, <1>3 DEF CacheInv, Lookup

(* The time passes: what is kept is older, no less genuine.                    *)
LEMMA CacheTick ==
  ASSUME CacheInv, Cache!Tick
  PROVE  CacheInv'
<1>1. /\ now \in Nat /\ now' = now + 1
      /\ cached' = cached /\ entries' = entries /\ lookups' = lookups
  BY DEF CacheInv, Cache!Tick
<1>2. ASSUME NEW e, Genuine(e) PROVE Genuine(e)'
  BY <1>1, <1>2 DEF Genuine, KnownKey
<1>3. ASSUME NEW q, Question(q) PROVE Question(q)'
  BY <1>1, <1>3 DEF Question, KnownKey, Cache!MayRead
<1>4. ASSUME NEW l, Lookup(l) PROVE Lookup(l)'
  <2>1. Answer(l)' <=> Answer(l)
    BY <1>1 DEF Answer, Cache!MayRead
  <2> QED BY <1>1, <1>3, <1>4, <2>1 DEF Lookup
<1>5. Cache!Kept(entries)' = Cache!Kept(entries)
  BY <1>1 DEF Cache!Kept
<1>6. \A e \in Cache!Kept(entries)' : Genuine(e)'
  BY <1>2, <1>5 DEF CacheInv
<1>7. DOMAIN lookups' = Callers /\ \A c \in Callers : Lookup(lookups[c])'
  BY <1>1, <1>4 DEF CacheInv
<1> QED BY <1>1, <1>6, <1>7 DEF CacheInv

(* Every other step takes the time and the cache it is about as they are.      *)
LEMMA SameMoment ==
  ASSUME UNCHANGED <<cached, now>>
  PROVE  /\ \A e : Genuine(e)' <=> Genuine(e)
         /\ \A l : Lookup(l)' <=> Lookup(l)
<1>1. ASSUME NEW e PROVE Genuine(e)' <=> Genuine(e)
  BY DEF Genuine, KnownKey
<1>2. ASSUME NEW l PROVE Lookup(l)' <=> Lookup(l)
  BY DEF Lookup, Question, KnownKey, Answer, Cache!MayRead
<1> QED BY <1>1, <1>2

(* The Map and the lookups after a step, each by itself, are the invariant.    *)
LEMMA CacheMoves ==
  ASSUME CacheInv, cached' = cached, now' = now,
         \A e \in Cache!Kept(entries') : Genuine(e),
         DOMAIN lookups' = Callers /\ \A c \in Callers : Lookup(lookups'[c])
  PROVE  CacheInv'
<1>1. \A e \in Cache!Kept(entries') : Genuine(e)'
  BY SameMoment DEF CacheInv
<1>2. \A c \in Callers : Lookup(lookups[c])'
  <2> SUFFICES ASSUME NEW c \in Callers PROVE Lookup(lookups[c])'
    OBVIOUS
  <2>1. PICK l : l = lookups'[c]
    OBVIOUS
  <2>2. Lookup(l)'
    BY <2>1, SameMoment
  <2> QED BY <2>1, <2>2
<1> QED BY <1>1, <1>2 DEF CacheInv, Cache!Kept

LEMMA HitKeeps ==
  ASSUME CacheInv, NEW c \in Callers, NEW q, Question(q), q.at = now, Cache!Hit(c, q)
  PROVE  CacheInv'
<1>1. PICK all : all = Cache!Swept(q.key)
  OBVIOUS
<1>2. PICK e : e = Cache!Entry(all, q.key)
  OBVIOUS
<1>3. /\ Cache!Has(all, q.key) /\ Cache!Fresh(e)
      /\ entries' = Cache!Ordered(IF Cache!Evicting THEN Cache!Last(Cache!Without(all, q.key), e) ELSE all)
      /\ lookups' = [lookups EXCEPT ![c] = Cache!Done(q, e.good, e.got, FALSE)]
      /\ UNCHANGED <<cached, now>>
  BY <1>1, <1>2 DEF Cache!Hit
<1>4. e \in Cache!Kept(all) /\ e.key = q.key
  BY <1>2, <1>3 DEF Cache!Has, Cache!Entry
<1>5. Cache!Kept(all) \subseteq Cache!Kept(entries)
  BY <1>1, KeptOfSwept
<1>6. Genuine(e)
  BY <1>4, <1>5 DEF CacheInv
<1>7. Cache!Kept(entries') \subseteq Cache!Kept(entries) \cup {e}
  <2>1. Cache!Kept(Cache!Without(all, q.key)) \subseteq Cache!Kept(all)
    BY DEF Cache!Kept, Cache!Without
  <2>2. CASE Cache!Evicting
    BY <1>3, <1>5, <2>1, <2>2, KeptOfOrdered, KeptOfLast
  <2>3. CASE ~Cache!Evicting
    BY <1>3, <1>5, <2>3, KeptOfOrdered
  <2> QED BY <2>2, <2>3
<1>8. PICK l : l = Cache!Done(q, e.good, e.got, FALSE)
  OBVIOUS
<1>9. l.pc = "done" /\ l.q = q /\ l.good = e.good /\ l.got = e.got /\ l.failed = FALSE
  BY <1>8 DEF Cache!Done
<1>10. Lookup(l)
  <2>1. now < e.got + Life(e.good)
    <3>1. Life(e.good) \in Nat
      BY CacheConstants DEF Life
    <3> QED BY <1>3, <1>6, <3>1 DEF Genuine, Cache!Fresh, CacheInv
  <2>2. Answer(l)
    BY <1>4, <1>6, <1>9, <2>1 DEF Answer, Genuine, Question
  <2> QED BY <1>9, <2>2 DEF Lookup
<1>11. DOMAIN lookups' = Callers /\ \A d \in Callers : Lookup(lookups'[d])
  BY <1>3, <1>8, <1>10 DEF CacheInv
<1>12. \A k \in Cache!Kept(entries') : Genuine(k)
  BY <1>6, <1>7 DEF CacheInv
<1> QED BY <1>3, <1>11, <1>12, CacheMoves

LEMMA MissKeeps ==
  ASSUME CacheInv, NEW c \in Callers, NEW q, Question(q), Cache!Miss(c, q)
  PROVE  CacheInv'
<1>1. PICK all : all = Cache!Swept(q.key)
  OBVIOUS
<1>2. PICK l : l = IF Cache!Joins(q.key)
                   THEN [pc |-> "joined", q |-> q, with |-> CHOOSE d \in Cache!Flying(q.key) : TRUE]
                   ELSE [pc |-> "fetching", q |-> q,
                         old |-> IF cached = "recipes" THEN Cache!Found(all, q.key) ELSE {}]
  OBVIOUS
<1>3. /\ entries' = Cache!Ordered(all) /\ lookups' = [lookups EXCEPT ![c] = l]
      /\ UNCHANGED <<cached, now>>
  BY <1>1, <1>2 DEF Cache!Miss
<1>4. \A k \in Cache!Kept(entries') : Genuine(k)
  BY <1>1, <1>3, KeptOfOrdered, KeptOfSwept DEF CacheInv
<1>5. Lookup(l)
  <2>1. CASE Cache!Joins(q.key)
    <3>1. cached = "metrics" /\ l.pc = "joined" /\ l.q = q
      BY <1>2, <2>1 DEF Cache!Joins
    <3> QED BY <3>1 DEF Lookup
  <2>2. CASE ~Cache!Joins(q.key)
    <3>1. l.pc = "fetching" /\ l.q = q /\ (l.old # {} => cached = "recipes")
      BY <1>2, <2>2
    <3> QED BY <3>1 DEF Lookup
  <2> QED BY <2>1, <2>2
<1>6. DOMAIN lookups' = Callers /\ \A d \in Callers : Lookup(lookups'[d])
  BY <1>3, <1>5 DEF CacheInv
<1> QED BY <1>3, <1>4, <1>6, CacheMoves

LEMMA LookKeeps ==
  ASSUME CacheInv, NEW c \in Callers, NEW name \in Names, NEW token, Cache!Look(c, name, token)
  PROVE  CacheInv'
<1>1. PICK q : q = Cache!Asked(name, token)
  OBVIOUS
<1>2. /\ q.name = name /\ q.token = token /\ q.key = Cache!CacheKey(name, token) /\ q.at = now
  BY <1>1 DEF Cache!Asked
<1>3. cached = "configs" => q.key[1] = name /\ q.key[2] = token
  BY <1>2 DEF Cache!CacheKey
<1>4. Question(q)
  <2>1. KnownKey(q.key)
    BY <1>2 DEF Cache!CacheKey, KnownKey
  <2> QED BY <1>2, <1>3, <2>1 DEF Question, CacheInv, Readable, Cache!MayRead
<1>5. Cache!Hit(c, q) \/ Cache!Miss(c, q)
  BY <1>1 DEF Cache!Look
<1> QED BY <1>2, <1>4, <1>5, HitKeeps, MissKeeps

(* An answer goes to the caller whose fetch it is and to who waits for it.     *)
LEMMA AnswerKeeps ==
  ASSUME CacheInv, UNCHANGED <<cached, now>>, NEW c \in Callers, lookups[c].pc = "fetching",
         NEW good \in BOOLEAN, NEW got, NEW failed \in BOOLEAN, Cache!Answer(c, good, got, failed),
         failed = FALSE => got = now /\ good = TRUE,
         cached = "configs" /\ good = TRUE => Cache!MayRead(lookups[c].q)
  PROVE  DOMAIN lookups' = Callers /\ \A d \in Callers : Lookup(lookups'[d])
<1>1. lookups' = [d \in Callers |-> IF d \in Cache!Party(c) THEN Cache!Done(lookups[d].q, good, got, failed)
                                    ELSE lookups[d]]
  BY DEF Cache!Answer
<1>2. ASSUME NEW d \in Cache!Party(c)
      PROVE  Lookup(Cache!Done(lookups[d].q, good, got, failed))
  <2>1. PICK l : l = Cache!Done(lookups[d].q, good, got, failed)
    OBVIOUS
  <2>2. /\ l.pc = "done" /\ l.q = lookups[d].q /\ l.good = good /\ l.got = got /\ l.failed = failed
    BY <2>1 DEF Cache!Done
  <2>3. /\ d \in Callers /\ lookups[d].pc \in {"fetching", "joined"} /\ Lookup(lookups[d])
        /\ d = c \/ lookups[d].pc = "joined"
    BY <1>2 DEF Cache!Party, CacheInv
  <2>4. Question(l.q) /\ (d = c \/ cached = "metrics")
    BY <2>2, <2>3 DEF Lookup
  <2>5. failed = FALSE => l.got \in Nat /\ l.q.at < l.got + Life(l.good)
    BY <2>2, <2>4, CacheConstants DEF Question, CacheInv, Life
  <2>6. Answer(l)
    BY <2>2, <2>4, <2>5 DEF Answer
  <2> QED BY <2>1, <2>2, <2>4, <2>6 DEF Lookup
<1> QED BY <1>1, <1>2 DEF CacheInv

LEMMA ArrivesKeeps ==
  ASSUME CacheInv, NEW c \in Callers, Cache!Arrives(c)
  PROVE  CacheInv'
<1>1. PICK q : q = lookups[c].q
  OBVIOUS
<1>2. PICK e : e = [key |-> q.key, good |-> TRUE, got |-> now,
                    until |-> Ttl + IF Cache!Recipes THEN q.at ELSE now]
  OBVIOUS
<1>3. /\ lookups[c].pc = "fetching" /\ (cached = "configs" => Cache!MayRead(q))
      /\ entries' = Cache!Stored(e) /\ Cache!Answer(c, TRUE, now, FALSE) /\ UNCHANGED <<cached, now>>
  BY <1>1, <1>2 DEF Cache!Arrives
<1>4. Question(q) /\ now \in Nat
  BY <1>1, <1>3 DEF CacheInv, Lookup
<1>5. Genuine(e)
  <2>1. e.key = q.key /\ e.good = TRUE /\ e.got = now /\ e.until = Ttl + IF Cache!Recipes THEN q.at ELSE now
    BY <1>2
  <2>2. e.until \in Int /\ e.until <= e.got + Life(e.good)
    BY <1>4, <2>1, CacheConstants DEF Question, Life
  <2>3. e.good \in BOOLEAN
    BY <2>1
  <2>4. e.got \in Nat /\ e.got <= now
    BY <1>4, <2>1
  <2>5. cached = "configs" => Readable(e.key)
    BY <1>3, <1>4, <2>1 DEF Question
  <2>6. KnownKey(e.key)
    BY <1>4, <2>1 DEF Question
  <2> QED BY <2>2, <2>3, <2>4, <2>5, <2>6 DEF Genuine
<1>6. \A k \in Cache!Kept(entries') : Genuine(k)
  <2>1. Cache!Kept(entries') \subseteq Cache!Kept(entries) \cup {e}
    BY <1>3, KeptOfStored, Zenon
  <2> QED BY <1>5, <2>1 DEF CacheInv
<1>7. DOMAIN lookups' = Callers /\ \A d \in Callers : Lookup(lookups'[d])
  BY <1>1, <1>3, AnswerKeeps
<1> QED BY <1>3, <1>6, <1>7, CacheMoves

LEMMA FailsKeeps ==
  ASSUME CacheInv, NEW c \in Callers, NEW unusable \in BOOLEAN, Cache!Fails(c, unusable)
  PROVE  CacheInv'
<1>1. PICK q : q = lookups[c].q
  OBVIOUS
<1>2. PICK old : old = IF cached = "index" THEN Cache!Found(entries, q.key) ELSE lookups[c].old
  OBVIOUS
<1>3. PICK e : e = [key |-> q.key, good |-> FALSE, got |-> now, until |-> now + ErrorTtl]
  OBVIOUS
<1>4. /\ lookups[c].pc = "fetching" /\ UNCHANGED <<cached, now>>
      /\ entries' = entries \/ entries' = Cache!Stored(e)
      /\ \/ old # {} /\ \E x \in old : Cache!Answer(c, TRUE, x.got, TRUE)
         \/ Cache!Answer(c, FALSE, now, TRUE)
  BY <1>1, <1>2, <1>3 DEF Cache!Fails
<1>5. old # {} => cached # "configs"
  BY <1>2, <1>4 DEF CacheInv, Lookup
<1>6. Genuine(e)
  <2>1. e.good = FALSE /\ e.got = now /\ e.until = now + ErrorTtl
    BY <1>3
  <2>2. e.good \in BOOLEAN /\ e.good # TRUE
    BY <2>1
  <2>3. e.got \in Nat /\ e.got <= now /\ e.until \in Int /\ e.until <= e.got + Life(e.good)
    BY <2>1, CacheConstants DEF CacheInv, Life
  <2>4. KnownKey(e.key)
    BY <1>1, <1>3, <1>4 DEF CacheInv, Lookup, Question
  <2> QED BY <2>2, <2>3, <2>4 DEF Genuine
<1>7. \A k \in Cache!Kept(entries') : Genuine(k)
  <2>1. CASE entries' = entries
    BY <2>1 DEF CacheInv
  <2>2. CASE entries' = Cache!Stored(e)
    <3>1. Cache!Kept(entries') \subseteq Cache!Kept(entries) \cup {e}
      BY <2>2, KeptOfStored, Zenon
    <3> QED BY <1>6, <3>1 DEF CacheInv
  <2> QED BY <1>4, <2>1, <2>2
<1>8. DOMAIN lookups' = Callers /\ \A d \in Callers : Lookup(lookups'[d])
  <2>1. ASSUME NEW x \in old, Cache!Answer(c, TRUE, x.got, TRUE)
        PROVE  DOMAIN lookups' = Callers /\ \A d \in Callers : Lookup(lookups'[d])
    BY <1>4, <1>5, <2>1, AnswerKeeps
  <2>2. CASE Cache!Answer(c, FALSE, now, TRUE)
    BY <1>4, <2>2, AnswerKeeps
  <2> QED BY <1>4, <2>1, <2>2
<1> QED BY <1>4, <1>7, <1>8, CacheMoves

LEMMA LeaveKeeps ==
  ASSUME CacheInv, NEW c \in Callers, Cache!Leave(c)
  PROVE  CacheInv'
<1>1. /\ entries' = entries /\ lookups' = [lookups EXCEPT ![c] = Cache!Idle]
      /\ UNCHANGED <<cached, now>>
  BY DEF Cache!Leave
<1>2. Lookup(Cache!Idle)
  BY DEF Lookup, Cache!Idle
<1>3. DOMAIN lookups' = Callers /\ \A d \in Callers : Lookup(lookups'[d])
  BY <1>1, <1>2 DEF CacheInv
<1>4. \A k \in Cache!Kept(entries') : Genuine(k)
  BY <1>1 DEF CacheInv
<1> QED BY <1>1, <1>3, <1>4, CacheMoves

LEMMA CacheHolds == Cache!Spec => []CacheInv
<1>1. CacheInv /\ [Cache!Next]_(Cache!cvars) => CacheInv'
  <2> SUFFICES ASSUME CacheInv, [Cache!Next]_(Cache!cvars) PROVE CacheInv'
    OBVIOUS
  <2>1. CASE UNCHANGED Cache!cvars
    <3>1. UNCHANGED <<cached, now>> /\ entries' = entries /\ lookups' = lookups
      BY <2>1 DEF Cache!cvars
    <3>2. \A k \in Cache!Kept(entries') : Genuine(k)
      BY <3>1 DEF CacheInv
    <3>3. DOMAIN lookups' = Callers /\ \A d \in Callers : Lookup(lookups'[d])
      BY <3>1 DEF CacheInv
    <3> QED BY <3>1, <3>2, <3>3, CacheMoves
  <2>2. CASE Cache!Next
    BY <2>2, CacheTick, LookKeeps, ArrivesKeeps, FailsKeeps, LeaveKeeps DEF Cache!Next
  <2> QED BY <2>1, <2>2
<1> QED BY CacheStart, <1>1, PTL DEF Cache!Spec

(* An answer that no failure made old was fetched within its life before it    *)
(* was asked for, an outage is not reported for longer than its own, and a     *)
(* gated config goes only to who may read it (vllmRecipesClient.ts,            *)
(* huggingface.ts, metrics.ts, cloudPricing.ts): for any callers, names,       *)
(* tokens, sizes and lives of the caches.                                      *)
THEOREM FreshAnswers == Spec => []AnswersAreFreshAndAllowed
<1>1. CacheInv => Cache!AnswersAreFreshAndAllowed
  <2> SUFFICES ASSUME CacheInv, NEW c \in Callers, lookups[c].pc = "done"
               PROVE  /\ ~lookups[c].failed =>
                           lookups[c].q.at < lookups[c].got + IF lookups[c].good THEN Ttl ELSE ErrorTtl
                      /\ cached = "configs" /\ lookups[c].good => Cache!MayRead(lookups[c].q)
    BY Zenon DEF Cache!AnswersAreFreshAndAllowed
  <2>1. Answer(lookups[c])
    BY DEF CacheInv, Lookup
  <2>2. PICK good \in BOOLEAN, failed \in BOOLEAN : good = lookups[c].good /\ failed = lookups[c].failed
    BY <2>1 DEF Answer
  <2> QED BY <2>1, <2>2 DEF Answer, Life
<1> QED BY <1>1, CacheHolds, BehaviourOfParts, PTL DEF AnswersAreFreshAndAllowed

(* What is kept is kept at one place and under one key: a finite Map.          *)
Placed(all) ==
  /\ IsFiniteSet(all)
  /\ \A x \in all : x[1] \in Nat
  /\ \A x, y \in all : x[1] = y[1] \/ x[2].key = y[2].key => x = y

LEMMA CountsAgree == \A S : Cache!Cardinality(S) = Cardinality(S)
BY DEF Cache!Cardinality, Cardinality

LEMMA FiniteAgree == \A S : Cache!IsFiniteSet(S) <=> IsFiniteSet(S)
BY DEF Cache!IsFiniteSet, IsFiniteSet

LEMMA CacheSizes == IsFiniteSet(Names) /\ Cardinality(Names) \in Nat /\ MaxTime \in Nat /\ CacheSize \in Nat /\ CacheSize > 0
<1>1. IsFiniteSet(Names)
  BY WebAssumption, FiniteAgree DEF Cache!CacheAssumption
<1>2. MaxTime \in Nat /\ CacheSize \in Nat /\ CacheSize > 0
  BY WebAssumption DEF Cache!CacheAssumption
<1> QED BY <1>1, <1>2, FS_CardinalityType

LEMMA SizeOfPart ==
  ASSUME NEW all, IsFiniteSet(all), NEW S, S \subseteq all
  PROVE  IsFiniteSet(S) /\ Cardinality(S) \in Nat /\ Cardinality(all) \in Nat
         /\ Cardinality(S) <= Cardinality(all) /\ (Cardinality(S) = Cardinality(all) => S = all)
<1>1. IsFiniteSet(S) /\ Cardinality(S) <= Cardinality(all) /\ (Cardinality(S) = Cardinality(all) => S = all)
  <2>1. S \in SUBSET all
    OBVIOUS
  <2> QED BY <2>1, FS_Subset
<1> QED BY <1>1, FS_CardinalityType

LEMMA PlacedPart ==
  ASSUME NEW all, Placed(all), NEW S, S \subseteq all
  PROVE  Placed(S) /\ Cardinality(S) \in Nat /\ Cardinality(S) <= Cardinality(all) /\ Cardinality(all) \in Nat
<1>1. IsFiniteSet(S) /\ Cardinality(S) \in Nat /\ Cardinality(S) <= Cardinality(all) /\ Cardinality(all) \in Nat
  BY SizeOfPart DEF Placed
<1> QED BY <1>1 DEF Placed

(* Closing the gaps keeps the entries, their number and their order.           *)
LEMMA OrderedPlaced ==
  ASSUME NEW all, Placed(all)
  PROVE  /\ Placed(Cache!Ordered(all)) /\ Cardinality(Cache!Ordered(all)) = Cardinality(all)
         /\ \A x \in Cache!Ordered(all) : x[1] <= Cardinality(all)
<1> DEFINE Upto(x) == {y \in all : y[1] <= x[1]}
           f == [x \in all |-> <<Cardinality(Upto(x)), x[2]>>]
<1>0. IsFiniteSet(all) /\ Cardinality(all) \in Nat
  BY FS_CardinalityType DEF Placed
<1>1. \A x \in all : f[x][1] = Cardinality(Upto(x)) /\ f[x][2] = x[2]
  OBVIOUS
<1>2. Cache!Ordered(all) = {f[x] : x \in all}
  BY CountsAgree DEF Cache!Ordered
<1>3. \A x \in all : /\ IsFiniteSet(Upto(x)) /\ Cardinality(Upto(x)) \in Nat
                     /\ Cardinality(Upto(x)) <= Cardinality(all)
  BY <1>0, SizeOfPart
<1>4. ASSUME NEW x \in all, NEW y \in all, x[1] <= y[1], Cardinality(Upto(x)) = Cardinality(Upto(y))
      PROVE  x = y
  <2>0. x[1] \in Nat /\ y[1] \in Nat
    BY DEF Placed
  <2>1. Upto(x) \subseteq Upto(y)
    <3> SUFFICES ASSUME NEW z \in all, z[1] <= x[1] PROVE z[1] <= y[1]
      OBVIOUS
    <3>1. z[1] \in Nat
      BY DEF Placed
    <3> QED BY <1>4, <2>0, <3>1
  <2>2. Upto(x) = Upto(y)
    BY <1>3, <1>4, <2>1, SizeOfPart
  <2>3. y \in Upto(y)
    BY <2>0
  <2>4. y[1] <= x[1]
    BY <2>2, <2>3
  <2>5. x[1] = y[1]
    BY <1>4, <2>0, <2>4
  <2> QED BY <2>5 DEF Placed
<1>5. \A x, y \in all : f[x] = f[y] => x = y
  <2> SUFFICES ASSUME NEW x \in all, NEW y \in all, f[x] = f[y] PROVE x = y
    OBVIOUS
  <2>1. x[2] = y[2]
    BY <1>1
  <2> QED BY <2>1 DEF Placed
<1> DEFINE T == Cache!Ordered(all)
<1>6. f \in [all -> T] /\ \A t \in T : \E x \in all : f[x] = t
  <2>1. \A x \in all : f[x] \in T
    BY <1>2
  <2>2. \A t \in T : \E x \in all : f[x] = t
    BY <1>2
  <2> QED BY <2>1, <2>2
<1> HIDE DEF f, T, Upto
<1>7. f \in Surjection(all, T) /\ f \in Injection(all, T)
  <2>1. f \in Surjection(all, T)
    BY <1>6 DEF Surjection
  <2>2. f \in Injection(all, T)
    BY <1>5, <1>6 DEF Injection, IsInjective
  <2> QED BY <2>1, <2>2
<1>8. IsFiniteSet(T) /\ Cardinality(T) = Cardinality(all)
  BY <1>0, <1>7, FS_Surjection
<1>9. ASSUME NEW t \in T PROVE t[1] \in Nat /\ t[1] <= Cardinality(all)
  BY <1>1, <1>3, <1>6
<1>10. ASSUME NEW s \in T, NEW t \in T, s[1] = t[1] \/ s[2].key = t[2].key PROVE s = t
  <2>1. PICK x \in all, y \in all : s = f[x] /\ t = f[y]
    BY <1>6
  <2>2. CASE s[2].key = t[2].key
    <3>1. x[2].key = y[2].key
      BY <1>1, <2>1, <2>2
    <3> QED BY <2>1, <3>1 DEF Placed
  <2>3. CASE s[1] = t[1]
    <3>1. Cardinality(Upto(x)) = Cardinality(Upto(y))
      BY <1>1, <2>1, <2>3
    <3>2. x[1] <= y[1] \/ y[1] <= x[1]
      <4>1. x[1] \in Nat /\ y[1] \in Nat
        BY DEF Placed
      <4> QED BY <4>1
    <3> QED BY <1>4, <2>1, <3>1, <3>2
  <2> QED BY <1>10, <2>2, <2>3
<1>11. Placed(T)
  BY <1>8, <1>9, <1>10 DEF Placed
<1> QED BY <1>8, <1>9, <1>11 DEF T

(* The oldest of those that stay has fewer than the limit after it.            *)
LEMMA TrimPlaced ==
  ASSUME NEW all, Placed(all)
  PROVE  /\ Placed(Cache!Trim(all)) /\ Cardinality(Cache!Trim(all)) <= Cardinality(all)
         /\ Cache!Evicting => Cardinality(Cache!Trim(all)) <= CacheSize
<1>0. CacheSize \in Nat /\ CacheSize > 0
  BY CacheSizes
<1> DEFINE T == Cache!Trim(all)
<1>1. T \subseteq all
  BY DEF Cache!Trim
<1>2. Placed(T) /\ Cardinality(T) <= Cardinality(all) /\ Cardinality(T) \in Nat
  BY <1>1, PlacedPart
<1>3. ASSUME Cache!Evicting PROVE Cardinality(T) <= CacheSize
  <2>1. CASE T = {}
    BY <1>0, <2>1, FS_EmptySet
  <2>2. CASE T # {}
    <3> DEFINE places == {t[1] : t \in T}
    <3>1. places \subseteq Nat /\ places # {}
      BY <1>2, <2>2 DEF Placed
    <3>2. PICK j \in places : \A i \in places : j <= i
      BY <3>1, LeastOfSet
    <3>3. PICK x \in T : x[1] = j
      OBVIOUS
    <3>4. \A y \in T : x[1] <= y[1]
      BY <3>2, <3>3
    <3> HIDE DEF T, places
    <3> DEFINE after == {y \in all : y[1] > x[1]}
    <3>5. T \ {x} \subseteq after
      <4> SUFFICES ASSUME NEW y \in T, y # x PROVE y \in all /\ y[1] > x[1]
        OBVIOUS
      <4>1. x[1] \in Nat /\ y[1] \in Nat /\ x[1] # y[1]
        BY <1>2 DEF Placed
      <4> QED BY <1>1, <3>4, <4>1
    <3>6. Cardinality(after) < CacheSize
      <4>1. Cache!Later(all, x) < CacheSize
        BY <1>3 DEF T, Cache!Trim
      <4> QED BY <4>1, CountsAgree DEF Cache!Later
    <3>7. IsFiniteSet(after) /\ Cardinality(after) \in Nat
      BY SizeOfPart DEF Placed
    <3> HIDE DEF after
    <3>8. Cardinality(T \ {x}) \in Nat /\ Cardinality(T \ {x}) <= Cardinality(after)
      BY <3>5, <3>7, SizeOfPart
    <3>9. Cardinality(T \ {x}) = Cardinality(T) - 1
      BY <1>2, FS_RemoveElement DEF Placed
    <3> QED BY <1>0, <1>2, <3>6, <3>7, <3>8, <3>9
  <2> QED BY <2>1, <2>2
<1> QED BY <1>2, <1>3

LEMMA LastPlaced ==
  ASSUME NEW all, Placed(all), NEW e, Cardinality(entries) \in Nat,
         \A x \in all : x[1] <= Cardinality(entries) /\ x[2].key # e.key
  PROVE  /\ Placed(Cache!Last(all, e)) /\ Cardinality(Cache!Last(all, e)) = Cardinality(all) + 1
<1>1. PICK n \in Nat : n = Cardinality(entries)
  OBVIOUS
<1>2. PICK x : x = <<1 + n, e>>
  OBVIOUS
<1>3. x[1] = 1 + n /\ x[2] = e
  BY <1>2
<1>4. Cache!Last(all, e) = all \cup {x}
  BY <1>1, <1>2, CountsAgree DEF Cache!Last
<1>5. \A y \in all : y[1] \in Nat /\ y[1] # x[1] /\ y[2].key # x[2].key
  BY <1>1, <1>3 DEF Placed
<1>6. x \notin all
  BY <1>5
<1>7. IsFiniteSet(all \cup {x}) /\ Cardinality(all \cup {x}) = Cardinality(all) + 1
  BY <1>6, FS_AddElement DEF Placed
<1>8. Placed(all \cup {x})
  BY <1>1, <1>3, <1>5, <1>7 DEF Placed
<1> QED BY <1>4, <1>7, <1>8

LEMMA InPlacePlaced ==
  ASSUME NEW all, Placed(all), NEW e
  PROVE  /\ Placed({<<x[1], IF x[2].key = e.key THEN e ELSE x[2]>> : x \in all})
         /\ Cardinality({<<x[1], IF x[2].key = e.key THEN e ELSE x[2]>> : x \in all}) <= Cardinality(all)
<1> DEFINE f == [x \in all |-> <<x[1], IF x[2].key = e.key THEN e ELSE x[2]>>]
           T == {<<x[1], IF x[2].key = e.key THEN e ELSE x[2]>> : x \in all}
<1>1. \A x \in all : f[x][1] = x[1] /\ f[x][2].key = x[2].key
  OBVIOUS
<1>2. f \in [all -> T] /\ \A t \in T : \E x \in all : f[x] = t
  <2>1. \A x \in all : f[x] \in T
    OBVIOUS
  <2>2. \A t \in T : \E x \in all : f[x] = t
    OBVIOUS
  <2> QED BY <2>1, <2>2
<1> HIDE DEF f
<1> SUFFICES Placed(T) /\ Cardinality(T) <= Cardinality(all)
  OBVIOUS
<1> HIDE DEF T
<1>3. f \in Surjection(all, T)
  BY <1>2 DEF Surjection
<1>4. IsFiniteSet(T) /\ Cardinality(T) <= Cardinality(all)
  BY <1>3, FS_Surjection DEF Placed
<1>5. ASSUME NEW t \in T PROVE t[1] \in Nat
  BY <1>1, <1>2 DEF Placed
<1>6. ASSUME NEW s \in T, NEW t \in T, s[1] = t[1] \/ s[2].key = t[2].key PROVE s = t
  <2>1. PICK x \in all, y \in all : s = f[x] /\ t = f[y]
    BY <1>2
  <2>2. x[1] = y[1] \/ x[2].key = y[2].key
    BY <1>1, <1>6, <2>1
  <2> QED BY <2>1, <2>2 DEF Placed
<1> QED BY <1>4, <1>5, <1>6 DEF Placed
(* The Map of a cache after every step: its places go up to its size, and the  *)
(* recipes and the configs keep to the limit.                                  *)
InOrder(all) ==
  /\ Placed(all)
  /\ \A x \in all : x[1] <= Cardinality(all)
  /\ Cache!Evicting => Cardinality(all) <= CacheSize

LEMMA OrderedInOrder ==
  ASSUME NEW all, Placed(all), Cache!Evicting => Cardinality(all) <= CacheSize
  PROVE  InOrder(Cache!Ordered(all))
<1>1. PICK T : T = Cache!Ordered(all)
  OBVIOUS
<1>2. Placed(T) /\ Cardinality(T) = Cardinality(all) /\ \A x \in T : x[1] <= Cardinality(all)
  BY <1>1, OrderedPlaced
<1>3. InOrder(T)
  BY <1>2 DEF InOrder
<1> QED BY <1>1, <1>3

LEMMA OrderedPart ==
  ASSUME InOrder(entries), NEW S, S \subseteq entries
  PROVE  InOrder(Cache!Ordered(S))
<1>1. Placed(S) /\ Cardinality(S) \in Nat /\ Cardinality(S) <= Cardinality(entries) /\ Cardinality(entries) \in Nat
  BY PlacedPart DEF InOrder
<1>2. Cache!Evicting => Cardinality(S) <= CacheSize
  BY <1>1, CacheSizes DEF InOrder
<1> QED BY <1>1, <1>2, OrderedInOrder

LEMMA StoredInOrder ==
  ASSUME InOrder(entries), NEW e
  PROVE  InOrder(Cache!Stored(e))
<1>1. PICK inPlace : inPlace = {<<x[1], IF x[2].key = e.key THEN e ELSE x[2]>> : x \in entries}
  OBVIOUS
<1>2. PICK rest : rest = Cache!Without(entries, e.key)
  OBVIOUS
<1>3. PICK all : all = IF Cache!Has(entries, e.key) /\ cached # "recipes" THEN inPlace
                       ELSE Cache!Last(rest, e)
  OBVIOUS
<1>4. Cache!Stored(e) = Cache!Ordered(Cache!Trim(all))
  BY <1>1, <1>2, <1>3 DEF Cache!Stored
<1>5. Placed(inPlace)
  BY <1>1, InPlacePlaced DEF InOrder
<1>6. Placed(Cache!Last(rest, e))
  <2>1. rest \subseteq entries /\ \A x \in rest : x[2].key # e.key
    BY <1>2 DEF Cache!Without
  <2>2. Placed(rest) /\ Cardinality(entries) \in Nat
    BY <2>1, PlacedPart DEF InOrder
  <2>3. \A x \in rest : x[1] <= Cardinality(entries) /\ x[2].key # e.key
    BY <2>1 DEF InOrder
  <2> QED BY <2>2, <2>3, LastPlaced
<1>7. Placed(all)
  BY <1>3, <1>5, <1>6
<1>8. Placed(Cache!Trim(all)) /\ (Cache!Evicting => Cardinality(Cache!Trim(all)) <= CacheSize)
  BY <1>7, TrimPlaced
<1> QED BY <1>4, <1>8, OrderedInOrder

LEMMA HitInOrder ==
  ASSUME InOrder(entries), NEW c, NEW q, Cache!Hit(c, q)
  PROVE  InOrder(entries')
<1>1. PICK all : all = Cache!Swept(q.key)
  OBVIOUS
<1>2. PICK e : e = Cache!Entry(all, q.key)
  OBVIOUS
<1>3. PICK rest : rest = Cache!Without(all, q.key)
  OBVIOUS
<1>4. /\ Cache!Has(all, q.key)
      /\ entries' = Cache!Ordered(IF Cache!Evicting THEN Cache!Last(rest, e) ELSE all)
  BY <1>1, <1>2, <1>3 DEF Cache!Hit
<1>5. all \subseteq entries
  BY <1>1 DEF Cache!Swept, Cache!Without
<1>6. e \in Cache!Kept(all) /\ e.key = q.key
  BY <1>2, <1>4 DEF Cache!Has, Cache!Entry
<1>7. CASE ~Cache!Evicting
  BY <1>4, <1>5, <1>7, OrderedPart
<1>8. CASE Cache!Evicting
  <2>1. rest \subseteq all /\ rest # all /\ \A x \in rest : x[2].key # e.key
    <3>1. PICK x \in all : x[2] = e
      BY <1>6 DEF Cache!Kept
    <3> QED BY <1>3, <1>6, <3>1 DEF Cache!Without
  <2>2. /\ Placed(rest) /\ Placed(all) /\ Cardinality(all) \in Nat /\ Cardinality(entries) \in Nat
        /\ Cardinality(all) <= Cardinality(entries)
    BY <1>5, <2>1, PlacedPart DEF InOrder
  <2>3. Cardinality(rest) \in Nat /\ Cardinality(rest) < Cardinality(all)
    <3>1. Cardinality(rest) \in Nat /\ Cardinality(rest) <= Cardinality(all) /\ Cardinality(rest) # Cardinality(all)
      BY <2>1, <2>2, SizeOfPart DEF Placed
    <3> QED BY <2>2, <3>1
  <2>4. \A x \in rest : x[1] <= Cardinality(entries) /\ x[2].key # e.key
    BY <1>5, <2>1 DEF InOrder
  <2>5. Placed(Cache!Last(rest, e)) /\ Cardinality(Cache!Last(rest, e)) = Cardinality(rest) + 1
    BY <2>2, <2>4, LastPlaced
  <2>6. Cardinality(Cache!Last(rest, e)) <= CacheSize
    BY <1>8, <2>2, <2>3, <2>5, CacheSizes DEF InOrder
  <2> QED BY <1>4, <1>8, <2>5, <2>6, OrderedInOrder
<1> QED BY <1>7, <1>8

LEMMA MapKept ==
  ASSUME InOrder(entries), [Cache!Next]_(Cache!cvars)
  PROVE  InOrder(entries)'
<1>0. SUFFICES InOrder(entries') /\ cached' = cached
  BY DEF InOrder, Placed, Cache!Evicting
<1>1. CASE entries' = entries /\ cached' = cached
  BY <1>1
<1>2. ASSUME NEW c, NEW q, Cache!Miss(c, q) PROVE InOrder(entries') /\ cached' = cached
  <2>1. entries' = Cache!Ordered(Cache!Swept(q.key)) /\ cached' = cached
    BY <1>2 DEF Cache!Miss
  <2>2. Cache!Swept(q.key) \subseteq entries
    BY DEF Cache!Swept, Cache!Without
  <2> QED BY <2>1, <2>2, OrderedPart
<1>3. ASSUME NEW c, NEW q, Cache!Hit(c, q) PROVE InOrder(entries') /\ cached' = cached
  <2>1. cached' = cached
    BY <1>3 DEF Cache!Hit
  <2> QED BY <1>3, <2>1, HitInOrder
<1>4. ASSUME NEW c, NEW name, NEW token, Cache!Look(c, name, token) PROVE InOrder(entries') /\ cached' = cached
  BY <1>2, <1>3, <1>4 DEF Cache!Look
<1>5. ASSUME NEW c, Cache!Arrives(c) PROVE InOrder(entries') /\ cached' = cached
  <2>1. cached' = cached /\ \E e : entries' = Cache!Stored(e)
    BY <1>5, Zenon DEF Cache!Arrives
  <2> QED BY <2>1, StoredInOrder
<1>6. ASSUME NEW c, NEW unusable, Cache!Fails(c, unusable) PROVE InOrder(entries') /\ cached' = cached
  <2>1. cached' = cached /\ (entries' = entries \/ \E e : entries' = Cache!Stored(e))
    <3>1. PICK e : e = [key |-> lookups[c].q.key, good |-> FALSE, got |-> now, until |-> now + ErrorTtl]
      OBVIOUS
    <3>2. cached' = cached /\ (entries' = entries \/ entries' = Cache!Stored(e))
      BY <1>6, <3>1 DEF Cache!Fails
    <3> QED BY <3>2
  <2> QED BY <2>1, StoredInOrder
<1>7. ASSUME NEW c, Cache!Leave(c) PROVE InOrder(entries') /\ cached' = cached
  BY <1>7, <1>1 DEF Cache!Leave
<1>8. CASE Cache!Tick \/ UNCHANGED Cache!cvars
  BY <1>1, <1>8 DEF Cache!Tick, Cache!cvars
<1> QED BY <1>4, <1>5, <1>6, <1>7, <1>8 DEF Cache!Next

LEMMA SizeByNames ==
  ASSUME Placed(entries), NEW ns, IsFiniteSet(ns),
         \A x \in entries : x[2].key \in ns \X {Cache!NoToken}
  PROVE  Cardinality(entries) <= Cardinality(ns)
<1> DEFINE f == [x \in entries |-> x[2].key[1]]
<1>1. \A x \in entries : f[x] \in ns /\ x[2].key = <<f[x], Cache!NoToken>>
  OBVIOUS
<1>2. f \in [entries -> ns]
  BY <1>1
<1> HIDE DEF f
<1>3. \A x, y \in entries : f[x] = f[y] => x = y
  <2> SUFFICES ASSUME NEW x \in entries, NEW y \in entries, f[x] = f[y] PROVE x = y
    OBVIOUS
  <2>1. x[2].key = y[2].key
    BY <1>1
  <2> QED BY <2>1 DEF Placed
<1>4. f \in Injection(entries, ns)
  BY <1>2, <1>3 DEF Injection, IsInjective
<1> QED BY <1>4, FS_Injection

CacheTypes == cached \in Cache!Kinds /\ now \in 0..MaxTime /\ InOrder(entries)

LEMMA CacheTyped == Cache!Spec => []Cache!TypeOK
<1>1. Cache!Init => CacheTypes
  <2> SUFFICES ASSUME Cache!Init PROVE CacheTypes
    OBVIOUS
  <2>1. cached \in Cache!Kinds /\ now = 0 /\ entries = {}
    BY DEF Cache!Init
  <2>2. InOrder(entries)
    BY <2>1, FS_EmptySet, CacheSizes DEF InOrder, Placed
  <2> QED BY <2>1, <2>2, CacheSizes DEF CacheTypes
<1>2. CacheTypes /\ [Cache!Next]_(Cache!cvars) => CacheTypes'
  <2> SUFFICES ASSUME CacheTypes, [Cache!Next]_(Cache!cvars) PROVE CacheTypes'
    OBVIOUS
  <2>1. cached' = cached /\ (now' = now \/ (now < MaxTime /\ now' = now + 1))
    <3>1. ASSUME NEW c, NEW name, NEW token, Cache!Look(c, name, token) PROVE cached' = cached /\ now' = now
      BY <3>1 DEF Cache!Look, Cache!Hit, Cache!Miss
    <3>2. ASSUME NEW c, Cache!Arrives(c) \/ Cache!Leave(c) PROVE cached' = cached /\ now' = now
      BY <3>2, Zenon DEF Cache!Arrives, Cache!Leave
    <3>3. ASSUME NEW c, NEW unusable, Cache!Fails(c, unusable) PROVE cached' = cached /\ now' = now
      BY <3>3, Zenon DEF Cache!Fails
    <3>4. CASE Cache!Tick \/ UNCHANGED Cache!cvars
      BY <3>4 DEF Cache!Tick, Cache!cvars
    <3> QED BY <3>1, <3>2, <3>3, <3>4 DEF Cache!Next
  <2>2. now' \in 0..MaxTime
    BY <2>1, CacheSizes DEF CacheTypes
  <2>3. InOrder(entries)'
    BY MapKept DEF CacheTypes
  <2> QED BY <2>1, <2>2, <2>3 DEF CacheTypes
<1>3. CacheInv /\ CacheTypes => Cache!TypeOK
  <2> SUFFICES ASSUME CacheInv, CacheTypes PROVE Cache!TypeOK
    OBVIOUS
  <2>1. \A c \in Callers : lookups[c].pc \in {"idle", "fetching", "joined", "done"}
    BY DEF CacheInv, Lookup
  <2>2. \A x, y \in entries : x[1] = y[1] \/ x[2].key = y[2].key => x = y
    BY DEF CacheTypes, InOrder, Placed
  <2>3. Cardinality(entries) \in Nat /\ Placed(entries)
    BY FS_CardinalityType DEF CacheTypes, InOrder, Placed
  <2>4. ASSUME ~Cache!Evicting PROVE Cardinality(entries) <= Cardinality(Names)
    <3>1. \A x \in entries : x[2].key \in Names \X {Cache!NoToken}
      <4> SUFFICES ASSUME NEW x \in entries PROVE x[2].key \in Names \X {Cache!NoToken}
        OBVIOUS
      <4>1. x[2] \in Cache!Kept(entries) /\ cached # "configs"
        BY <2>4 DEF Cache!Kept, Cache!Evicting
      <4> QED BY <4>1 DEF CacheInv, Genuine, KnownKey
    <3> QED BY <2>3, <3>1, CacheSizes, SizeByNames
  <2>5. Cache!Cardinality(entries) <= CacheSize + IF Cache!Evicting THEN 0 ELSE Cache!Cardinality(Names)
    <3>1. Cardinality(entries) <= CacheSize + IF Cache!Evicting THEN 0 ELSE Cardinality(Names)
      BY <2>3, <2>4, CacheSizes DEF CacheTypes, InOrder
    <3> QED BY <3>1, CountsAgree
  <2> QED BY <2>1, <2>2, <2>5 DEF Cache!TypeOK, CacheTypes
<1>4. Cache!Spec => []CacheInv
  BY CacheHolds
<1> QED BY <1>1, <1>2, <1>3, <1>4, PTL DEF Cache!Spec

-----------------------------------------------------------------------------
(* What the schema of the route lets through is what the webhook admits after  *)
(* its defaults, and the preview shows the volumes as the cluster will store   *)
(* them: for any edits, requests, names, paths and modes                       *)
(* (StorageVolumesSection.tsx, the route of deployments.ts, the webhook of     *)
(* modeldeployment_webhook.go).                                                *)
THEOREM RouteAndWebhook == Spec => []RouteMatchesWebhook
BY VolumesJudgedAlike, BehaviourOfParts, PTL DEF RouteMatchesWebhook

(* The types of the whole backend: no part ever leaves the states it is made   *)
(* for; a cache keeps one entry to a key and no more of them than its limit,   *)
(* or than there are names to ask for.                                         *)
THEOREM TypesHold == Spec => []TypeOK
<1>1. Routes!Spec => []Routes!TypeOK
  BY WebAssumption, Routes!RequestTypesHold
<1>2. Build!Spec => []Build!TypeOK
  BY ServicesAssumption, BuildTypesHold
<1>3. Shim!Spec => []Shim!TypeOK
  BY WebAssumption, Shim!RegistrationTyped
<1> QED BY <1>1, <1>2, <1>3, RelayTyped, CacheTyped, VolumesTyped, FormTyped, ChatTyped, LinkTyped,
       PluginTyped, BehaviourOfParts, PTL DEF TypeOK
=============================================================================
