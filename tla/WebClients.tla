------------------------------ MODULE WebClients ------------------------------
(* What users of the web UI and of the Headlamp plugin have before them: the   *)
(* deploy page, its storage volumes, the chat of a deployment, the page that   *)
(* connects a HuggingFace account, the plugin's create form and the AI         *)
(* Configurator's panel, each with what the backend does for it.               *)
EXTENDS Naturals, Sequences, FiniteSets

CONSTANTS
  Runtimes, ReadySets, Priority, EnginesOf, ModesOf, ModelKinds, ServedBy, Need, Capacities, Advice,
  MaxEdits, MaxSends,                                                  \* Form
  VolumeNames, AutoClaim, Claims, Paths, TypedClaims, TypedPaths, RelativePaths, SystemPaths,
  StorageClasses, TypedModes, ClaimLists, ClientVolumes, Companions, NoValue, MaxVolumes, \* Storage
  Pages, MaxMessages, MaxSwitches,                                     \* Chat
  TargetNamespaces, Existing, BackendCalls, MaxFlows, MaxFaults,       \* Link
  PageRuntimes, RuntimeEngines, Supported, Advised, GpuCounts, MaxSettings, \* Plugin
  Analyses, Inputs, Outputs, Hosts, Ttl, ErrorTtl, MaxTime             \* Advisor

VARIABLES
  kind, props, form, asked, sends, status, edits,
  editor, vols, modes, pvcs,
  shownOf, mounted, messages, error, streaming, current, prompts, switches,
  side, flows, session, pkceStore, page, exchanged, redeemed, local, secrets, work,
  faults,
  view, engines, healthy, pf, shown, hfSecret, sending, sent, changed,
  host, tool, today, known, dirs, run, panel, stood, litter

formVars    == <<kind, props, form, asked, sends, status, edits>>
storageVars == <<editor, vols, modes, pvcs>>
chatVars    == <<shownOf, mounted, messages, error, streaming, current, prompts, switches>>
linkVars    == <<side, flows, session, pkceStore, page, exchanged, redeemed, local, secrets, work,
                 faults>>
pluginVars  == <<view, engines, healthy, pf, shown, hfSecret, sending, sent, changed>>
adviceVars  == <<host, tool, today, known, dirs, run, panel, stood, litter>>

Form == INSTANCE DeploymentForm WITH Kinds <- ModelKinds, Served <- ServedBy

Storage == INSTANCE StorageForms WITH Unset <- NoValue

Chat == INSTANCE ChatPanel
  WITH Deployments <- Pages, MaxSends <- MaxMessages, sends <- prompts, target <- shownOf

Link == INSTANCE HuggingFaceLink

Plugin == INSTANCE PluginForm
  WITH Offered <- PageRuntimes, EnginesOf <- RuntimeEngines, Models <- Supported, MaxChanges <- MaxSettings

Advisor == INSTANCE DeploymentAdvice WITH now <- today, status <- known

(* What they assume of their constants.                                        *)
ASSUME ClientsAssumption ==
  /\ Form!FormAssumption /\ Storage!StorageAssumption /\ Plugin!PluginAssumption /\ Advisor!AdviceAssumption
  /\ TargetNamespaces \in Seq(Link!Namespaces) /\ MaxFlows \in Nat /\ MaxSettings \in Nat
=============================================================================
