# AI Runway: a verification project

TLA+ models of AI Runway, checked with TLC and proved about with TLAPS: the control
plane (Go, controller-runtime) and the web side (TypeScript: a backend on Hono, a
React page and a Headlamp plugin). File names below are relative to the repository root.

## 1. The system

AI Runway serves models on Kubernetes. A user creates a `ModelDeployment`. The
core controller validates it, picks a provider and records the choice in the
status. The chosen provider's *shim*, a separate process, turns the object into
a resource of its own operator (a KAITO `Workspace`, a Dynamo graph deployment,
a RayService...), follows that resource and cleans it up on deletion. All of
them meet only in the API server: each has informer caches that lag behind it,
and each writes back with its own discipline.

Users seldom write a `ModelDeployment` by hand. The web backend does it for them: it
lists, creates and deletes the objects, installs the runtimes' operators with helm,
builds images, relays chats to the model servers, keeps what HuggingFace, the recipe
index, the price lists and the metrics endpoints answer, and judges whether a model fits.
The web page and the plugin hold the forms and the pages that poll.

| Component | State it keeps | Operations | What makes it hard |
| --- | --- | --- | --- |
| Core controller, `controller/internal/controller/modeldeployment_controller.go` | `status`: provider, engine, core conditions, `observedGeneration`; a cache of phases for metrics | Reconcile; provider-config watch | cached reads; a merge patch that is never refused; wake-ups through a predicate and a map function |
| Admission webhook, `controller/internal/webhook/v1alpha1/modeldeployment_webhook.go` | none (reads provider configs) | ValidateCreate, ValidateUpdate, ValidateDelete | also judges the controllers' own Updates |
| KAITO shim, `providers/kaito/` | finalizer, `status.phase`, endpoint, shim conditions; the Workspace | Reconcile, createOrUpdateResource, syncStatus, handleDeletion | one pass is up to six API calls; conflicts, lost answers, restarts, FinalizerTimeout |
| KAITO operator (external) | Workspace status and finalizer | make ready, fail, finish deletion | may be down for any length of time |
| Managed-field merge, `providers/kaito/controller.go` 511-835 | last applied fields in an annotation | three-way merge | fields that other writers own |
| Provider registration, `providers/*/config.go`, `providers/pkg/shim/config.go` | `InferenceProviderConfig` spec, Ready, heartbeat | register, heartbeat, unregister | shutdown racing the last heartbeat; stale Ready |
| Dynamo, KubeRay, llm-d, vLLM shims, `providers/*/controller.go` | as KAITO's; Dynamo also PVCs and a download Job | as KAITO's | clean-up in several steps |
| Storage, `controller/pkg/storage/` | PVCs and download Jobs by name | EnsurePVCs, EnsureDownloadJob, deletes | leftovers of an earlier object of the same name |
| Gateway, `controller/internal/controller/gateway_reconciler.go` | InferencePool, endpoint picker, HTTPRoute, the Gateway's allowed namespaces | reconcile, clean up | one Gateway shared by all objects |
| Phase metrics | gauges, phase cache | record, clean up | deltas must cancel out |
| AgentDeployment controller, `agentdeployment_controller.go` | model and provider binding | bind, hold, release | hold window while a model is re-verified |
| Container agent provider, `agentprovider_container_controller.go` | Deployments, Jobs, a ledger ConfigMap, access Secrets | reconcile service or Job | at-most-once Jobs over crashes; Secret reservation |
| Credential admission, `credentialadmission/` | create records, attestations | persist, verify, janitor | admission happens before storage |
| Agent webhooks, kagent/orka providers, contract, migration | as named | | mostly pure |
| Deployment requests, `backend/src/routes/deployments.ts`, `services/kubernetes.ts`, `lib/retry.ts` | none | create, list, get, pods, logs, delete | lost answers and blind retries; two users and kubectl; a list merged from several namespaces |
| Chat proxy, the same file | one request's timers, listeners and bodies | discover the model, post, relay, fall back to the gateway | a client that leaves, a timeout racing an answer, a prompt sent twice |
| Runtime installer, `routes/installation.ts`, `services/helm.ts`, `SettingsPage.tsx` | temporary directories; CRDs and releases in the cluster | install, uninstall, uninstall-crds, probe, poll | every command may fail, hang or be killed; no lock; CRDs of other tools |
| Image builds, `routes/aikit.ts`, `services/{aikit,registry,buildkit}.ts` | a builder, a registry | ensure, build, push, preview | two builds ensure the same builder and push the same name |
| Caches, `services/{vllmRecipesClient,huggingface,metrics,cloudPricing}.ts` | maps with ages | look up, refresh, evict | concurrent misses, stale copies after failures, answers that depend on who asks |
| Recipe resolution, `services/vllmRecipeResolver.ts` | none | resolve | six layers of arguments that override each other |
| GPU capacity, `services/{kubernetes,gpuValidation,autoscaler}.ts` | none | read nodes and pods, warn, explain | two readings of a cluster that moves between them |
| AI Configurator, `services/aiconfigurator.ts`, `AIConfiguratorPanel.tsx` | a status, directories | probe, analyse, parse, apply | a tool that comes and goes; answers after the question changed |
| Catalogue and estimates, `services/{huggingface,modelCompatibility,gpuPerformance,costEstimation}.ts`, `GpuFitIndicator.tsx`, `routes/installation.ts` | none | search, badge, estimate | boundaries of memory and of whole devices |
| Deployment form, `DeploymentForm.tsx` | a dozen fields, effects between them | edits, recipes, advice, preview, submit | effects that undo an edit or leave a field of another runtime behind |
| Plugin form, `plugins/headlamp/src/pages/CreateDeployment.tsx` | as above | edits, preview, create | a shown manifest that is not what is sent |
| Storage editors, `StorageVolumesSection.tsx`, `StorageVolumesEditor.tsx` | volumes | edits | three validators that ought to agree |
| Details pages, `DeploymentDetailsPage.tsx`, plugin `DeploymentDetails.tsx` | queries, a chosen pod | poll, follow, delete | late answers, of another deployment too |
| Chat panel, `ChatPanel.tsx` | messages, an abort controller | send, fail, change of deployment | a reply that outlives its question |
| Session, `useAuth.ts`, `api.ts`, `hono-app.ts`, `services/auth.ts` | a token shared by tabs | sign in, refuse, sign out | an expired token; a 401 that is not the backend's |
| HuggingFace link, `useHuggingFace.ts`, `HuggingFaceCallbackPage.tsx`, `routes/{oauth,secrets}.ts` | PKCE verifiers; Secrets in several namespaces | start, call back, exchange, save, remove | flows started twice; a write that fails half-way; saves and removals of others in between |
| Other pages, layout, images, charts, manifests | no coordination | | not modelled |

`PROJECT.json` lists every component with its sources and status, and under
`hazards` what is hard to test in each, at its line.

### What makes each component correct

- *Core and shim together*: the Workspace is guarded by a finalizer for its
  whole life; no writer loses another's update; statuses converge; deletion
  finishes; no wake-up is lost.
- *Provider selection*: an object keeps the provider it was bound to; the choice
  is the best of the ready ones when it was made.
- *Registration*: a provider that shut down is not left ready.
- *Dynamo and storage*: the graph deployment starts only on this incarnation's
  finished download; PVCs go after the Pods that mount them; nothing of another
  incarnation or owner is deleted.
- *Gateway*: a namespace with a routed object is allowed; the Gateway's own
  namespace never is evicted.
- *Agents*: one execution per generation of a Job; a Secret of a user is never
  adopted; a proof is accepted only for the object it was recorded for.
- *Backend*: an answer tells the truth about the cluster, whatever was retried; a prompt
  reaches at most one model; what is kept is fresh and only for whom it may be; an
  install takes over no CRD it saw there or did not have to apply, and leaves no litter; a built image is the one it says.
- *Clients*: what is shown is what is sent; a manual edit stays; nothing of another
  deployment or session is shown; a page catches up in the end.

## 2. Modules

| Module | What it is |
| --- | --- |
| `ModelDeploymentAPI` | The stored objects as records, and the pure functions the controllers apply to them: webhook rules, selection, the core's status, merge patch, the shim's status |
| `ControlPlane` | The core controller, the KAITO shim, the Workspace, its operator, users and providers, over one object name |
| `GuardedResource` | Abstract specification: what a shim promises about its resource |
| `MCControlPlane` | Constants for TLC |
| `ControlPlaneProofs` | Type correctness, the inductive invariant, three properties that follow, and that `ControlPlane` implements `GuardedResource` |
| `DynamoShim` | The Dynamo shim with the storage package: claims, download Jobs, graph deployments, users, the cluster's own controllers; one or more objects, which may share a claim. Also implements `GuardedResource` |
| `MCDynamoShim` | Constants for TLC |
| `DynamoShimProofs` | Every safety property of the shim, and that it implements `GuardedResource` |
| `DeploymentRequests` | Create, delete and the reads, one step per awaited call, retries and lost answers |
| `DeploymentRequestsProofs` | Success is told to who earned it, and a list shows what the user may list, for any number of requests |
| `StorageForms` | Both editors, an API client, the route's schema, its preview and the webhook's rules and defaults |
| `ChatProxy` | One chat request through the backend |
| `RuntimeInstall` | Installer routes with each helm and kubectl command a step, the probe, the settings page |
| `ImageBuild` | The build routes, the builder and the registry |
| `UpstreamCache` | The five caches, as variants of one lookup |
| `RecipeResolution` | `resolve` as operators on sequences of tokens |
| `GpuCapacity` | Capacity in two readings, pools, warnings, pending pods |
| `DeploymentAdvice` | The AI Configurator behind the route and its panel |
| `ModelFit` | Catalogue filter, badge and throughput estimate |
| `BackendServices` | What the backend does for a deployment before there is one: `ImageBuild`, `RecipeResolution`, `GpuCapacity` and `ModelFit` with their own constants and variables |
| `BackendServicesProofs` | An answered image is there; what is said of capacity, models and recipes is so, for all constants of `BackendServices` |
| `DeploymentForm` | The web form: handlers, effects, preview, submission |
| `PluginForm` | The plugin's form and manifest |
| `ChatPanel` | The chat panel |
| `DeploymentPages` | Both details pages |
| `Session` | Tabs, the shared token and the middleware |
| `HuggingFaceLink` | The OAuth flows and the Secrets |
| `ProviderRegistration` | The processes of a provider's shim, the config they register, heartbeat and sign off in, and the backend's reading of it |
| `WebClients` | The clients' modules with their own constants and variables: deployment form, chat panel, HuggingFace link, storage volumes, plugin form, AI Configurator |
| `WebClientsProofs` | What users have before them is right, client by client, for all constants of `WebClients` |
| `ProviderRegistrationProofs` | Who signed off stays signed off, and an undisturbed provider is shown as it is, for any number of processes and any threshold |
| `MCWeb`, `MCWebProgress` | Compose the web modules by *part*, with constants for TLC; `MCWeb` extends `WebClients` and `BackendServices` |
| `WebProofs` | Brings the theorems of the parts to `MCWeb`; proves chat proxy and caches there |
| `WebProgressProofs` | The safety properties of `MCWebProgress`: installer, session, details pages |

### How the model corresponds to the code

**Objects.** `md` is the stored ModelDeployment: `uid` and `gen` stand for
`metadata.uid` and `generation`, `prov` for `spec.provider.name`, `shape` for what
of the spec the shim tells apart, `fin` for the shim's finalizer, `st` for
the status. Messages, reasons and times are left out; a condition is its status.
`ws` is the Workspace of that name with its owner (an incarnation's uid or
`Foreign`) and the generation it was rendered from.

**Stale caches and resourceVersions.** `coreCache` and `shimCache` are informer
copies, brought up to date by `DeliverCore` and `DeliverShim`. Versions are not
numbers: `shimFresh` (the copy of the pass in progress) and `shimCacheFresh`
say whether a copy is still the newest version, and every write of `md`
by someone else clears them (`Store`, `ShimStore`). That keeps the state space
finite and is exact for `Update`, which only asks whether the versions are equal.

**The core's Reconcile** is two steps: `CoreReconcile` reads the cache and computes
the new status (validation, compatibility, selection, the rejected switch), and
`CorePatch` applies the difference to whatever is stored by then. A
pass that computes no change is taken as ending at once, since the API server
makes an empty patch a no-op.

**The shim's Reconcile and handleDeletion** have one step per API call, with
`shimPc` naming the next one and `shimSnap` the in-memory object. `ShimReconcile`
holds the cached Get, the early returns, the compatibility check, the operator
probe and the render. Then `get`, `create`, `patch`, `sync`, `write`, or on deletion
`terminate`, `find`, `delete`, `release`. An `Update` is refused when the copy is stale
or, for the object itself, when the webhook rejects the stored spec (`Refused`).
`patchServing` is a patch of a Workspace last seen ready, where a retryable error
keeps the serving status. Errors are the `...Fault` actions: the call may have
taken effect or not. RequeueAfter is "queued again"; its length is left out.

**Time** is one flag: `FinalizerTimeout` may set `timedOut` any time after the
deletion.

**Environment.** Users create, edit, pause and delete the object and make or delete
Workspaces by hand; providers toggle Ready and change capabilities; the operator
goes down and up. All of these, and faults and restarts, are counted in `left`.

### How `DynamoShim` corresponds to the code

The shim is modelled in the same way, with what the storage package adds.
`md[n]` is an object, `dgd[n]` its graph, `job[n]` its download Job, and `pvc[c]` a
claim by *its* name: `ClaimOf` is `ResolvedClaimName`, which need not be
one-to-one. An owner is a record of name and uid; `Stranger` owns what a user
made, `Nobody` what is not there.

- The manager's client reads ModelDeployments, claims and Jobs from three caches
  (`mdCache`, `pvcCache`, `jobCache`, synced at start) and unstructured graphs live.
  `Route` is therefore one atomic decision on three lagging copies, and what it
  decides (`pvcCreate`, `pvcDelete`, `jobCreate`, `jobDelete`, `get`...) is done
  later, by name. `EnsurePVCs` and `EnsureDownloadJob` give that decision.
- `write` is a status update without a requeue (the error paths of storage, of the
  compatibility check and of the transformer), `writeRequeue` one with RequeueAfter.
- `find`, `delete`, `cleanJobs`, `cleanPvcs`, `release` are the calls of
  `handleDeletion`; `cleanPvcsFailed` remembers that the Jobs failed.
- The cluster is external: the garbage collector removes what an incarnation that is
  gone owned, claim protection keeps a mounted claim, claims bind, Jobs complete,
  the Dynamo operator makes graphs ready and removes its finalizer from a deleted one.
- `downloaded` is history: the owners whose Job completed.
- One volume per object, the model cache: managed, a user's claim, or none. The watch
  of graphs is left out (the shim installs it only when the CRD is there at
  start), so progress rests on requeues.

### How the web modules correspond to the code

**Steps.** JavaScript runs to the next `await`, so an action is a handler up to its first
await or the resumption after one; between them anything else may happen. An
awaited call has the outcomes its caller tells apart: answered, refused, failed before it
had an effect, failed after it (`lost` in `DeploymentRequests`). What React does after a
state change belongs to the action that made it: `Settle` of `DeploymentForm`
renders with the effects, in the component's order and with their dependency lists,
until nothing changes, so an effect that undoes an edit is seen as the user sees it.

**Values.** Names, images, claims, models and tokens are members of small sets.
`undefined` and `""` are told apart where the code does (`StorageForms` says where).
Ages are ticks of one clock. Memory in `ModelFit` is exact, in units of 512 bytes, since
the estimate rounds down to whole devices. In `RecipeResolution` a token is a flag, a
word or something odd, which is what the parser distinguishes; shells and quoting are
left out.

- `DeploymentRequests`: `objects` are uids; `req[r]` is a request, with what it
  made, removed and was shown as history. The shim puts its finalizer on an object (`guarded`) and takes it off
  when it has cleaned up; until then a deleted one is Terminating (`deleting`): a GET finds it, its name is taken, and
  a second DELETE is accepted like the first. Requests come with a token or without: without one a list
  that is forbidden is an empty list. kubectl and other users create, delete and
  lose permissions in between.
- `ChatProxy`: `timer`, `listening` and `body` are the resources a request holds;
  `delivered` counts prompts that reached a model server.
- `RuntimeInstall`: a chart is a release, CRDs applied before it, and CRDs brought by
  it; `crds` says who brought each. Every command that fails, or is killed at its timeout, may have taken effect: an
  apply may have stored its CRD, an upgrade may have brought some CRDs and leave the release pending or even deployed, an
  uninstall may have begun or done its work. Helm brings a chart's CRDs only with a new release, so an install vouches for
  those it applies itself (`EnsuredCrds`). The directory that charts with a `fetchUrl` are pulled into is shared by
  all requests and never removed; it is not counted as a request's own. `page` is the settings page, polled by its queries.
- `ImageBuild`: the builder is `docker buildx` state on the host, found in the lines a
  listing prints; the registry's data goes with its pod.
- `UpstreamCache`: `kind` selects the cache; the operators `Evicting`, `Joining`, ... say how
  it differs.
- `GpuCapacity`: pods and nodes move between the two listings of one answer.
- `DeploymentAdvice`: `stood` and `litter` are history: when the tool was last in each state, and the
  directories whose removal failed.
- `DeploymentForm`: `sends` are the submissions with the preview of their moment; `asked` is a recipe
  resolution in flight. Of the engine arguments the parallelism (`tp`, `pp`) is told apart, the others are marked by who
  set them (`args`), as are extra arguments and environment (`extras`), the provenance (`recipe`) and the router mode. `PluginForm` has the manifest on the page in `shown`.
- `ChatPanel`: `sends` are the questions, each with its deployment and abort signal.
- `DeploymentPages`: `data` is what React Query (web, per deployment) or the component
  (plugin, one for all) keeps; `flights` the requests under way, which may arrive in any order.
- `Session`: `stored` is localStorage, which all tabs share; `tabs[i].signed` is what each believes.
- `HuggingFaceLink`: `session` is sessionStorage, `pkceStore` the backend's map. `work` are the requests at the backend,
  several at a time: the tab's own exchange, save or disconnect and those of other users, each of which visits the
  namespaces one by one without a lock. The tab can be left or reloaded at any time; the backend works on, and
  a new flow may start beside it. `page.written` and `page.overtaken` are history: what the page's save wrote, and what somebody wrote over.

- `ProviderRegistration`: `shims[s]` is one process from start to exit, with its cached copy; it is
  cancelled (a signal, or the lease lost, when the next leader may already be up), killed, or fails to register.
  `calls` are the writes in flight: the main one and the heartbeat's are separate
  goroutines, and a call whose sender gave up (`waited` is false) may still arrive, for
  one more interval. As in `ControlPlane`, versions are the flag `fresh`. Time counts heartbeat intervals:
  `Tick` waits until calls and start-ups have ended, heartbeats have run and caches are up to date. `style` tells
  KAITO's manager (probes at every attempt, sets a condition) from the shared helper
  (replaces the status) and Dynamo's (one attempt). The config may be deleted; only a restart
  brings it back.

**Composition.** The parts of the web side share no state with each other but through the cluster, which
each module models as its environment. `MCWeb` and `MCWebProgress` run several in one
instance: `part` is chosen at the start and only that module steps, the others
resting in an initial state. A behaviour of the root is a behaviour of one module, so
nothing is lost against one root per module; the properties are each module's own, and those of `MCWeb` look at the part that steps. Where a
part has a proof module, `MCWeb` instantiates that one, which extends the part, so that
`WebProofs` can cite its theorems. The clients are instantiated in `WebClients`, which `MCWeb` extends and
`WebClientsProofs` proves about without the rest.

### Bounds

`MaxUid` (incarnations), `MaxGen` (generations of one incarnation),
`MaxDisturbances` (users, faults, restarts, outages together) and `Kinds`
(which of them an instance has). The hazards need at most three
disturbances together: delete, recreate and one fault, or delete, outage, fault.
`DynamoShim` bounds recreation by `MaxUid` alone, so its two disturbances are the delete
and one more.
The controllers' own steps, deliveries and requeues are unbounded. The theorems
do not depend on any of the bounds.

The web instances, in `Web.cfg` and `WebProgress.cfg`, where the constants of the clients have as
their values definitions of `MCWeb`, the charts of the installer those of `MCWebProgress`:

| Module | Instance | Why it is enough |
| --- | --- | --- |
| `DeploymentRequests` | 2 requests, 1 name, 2 namespaces, 1 retry, 2 incarnations, 1 change by others; the shim at any time | a lost answer, its retry and a second user in between, each finding the object as it was, Terminating or gone |
| `ChatProxy` | one request, every kind of deployment, error bodies of up to 3 units of which 2 are kept | requests share nothing; the limit lies inside the body |
| `ImageBuild` | 2 builds, 2 models of one image name, 1 loss of the registry | two builders of one name |
| `UpstreamCache` | 2 callers (one with access to the gated name), 2 names, room for one entry, life 2 of 3 ticks | a miss while another is in flight, an eviction, an expiry |
| `StorageForms` | 2 volumes, every purpose, paths good and bad, 864 volumes an API client may send | each rule relates at most two volumes |
| `DeploymentForm` | 3 runtimes, 3 kinds of model, 3 edits or changes outside, 1 submission | the longest undoing needs choice, edit and answer |
| `PluginForm`, `ChatPanel` | 2 changes; 3 sends and 2 switches between 2 deployments | a reply of the first, a switch and back |
| `HuggingFaceLink` | 2 flows, 2 namespaces of which one exists, 2 requests at the backend at a time, 1 failure or request of another user | the second flow overtakes the first; two saves, or a save and a removal, in every order; a failure between namespaces |
| `RecipeResolution` | 48 recipes against 24 requests | every layer present and absent, each overriding each |
| `GpuCapacity` | 2 nodes (an A10/A100 label clash, a product with memory), 1 pod, 3 moves | a move between any two readings |
| `DeploymentAdvice` | 2 questions, one analysis at a time, 3 outputs | an answer after the question changed; missing and zero rows |
| `ModelFit` | 6 models, 5 clusters | each boundary from both sides |
| `RuntimeInstall` | 1 request, the page's or another's, 2 charts (one managed, one fetched with a preCrdUrl) that bring one CRD, 1 change by others | every way a CRD is brought meets that of another tool, the second actor; the theorems hold for any number of requests and CRDs |
| `Session` | 2 tabs, 2 tokens, 2 requests, 2 sign-ins | one tab's refusal against the other's new token |
| `DeploymentPages` | 2 deployments, 2 answers in flight, 2 opens, a change, a failure | late answers of the other deployment |
| `ProviderRegistration` | 2 processes, KAITO's and Dynamo's style, threshold of 2 intervals, 2 attempts, 1 change or failure; crashes and cancellations at any time | a farewell, a heartbeat and a start in every order; the threshold is longer than the interval, as 180 s are than 60 s |

## 3. Runs

| Run | Instance | Checks |
| --- | --- | --- |
| `ControlPlaneSafety` | 2 providers, 2 incarnations, 3 disturbances of delete, recreate, fault, workspace, restart, pause; 1.7 M states | `TypeOK`, `WorkspaceGuarded`, `FinalizerReleasedClean`, `KeepsPromise`, `ShimLosesNoUpdate` |
| `ControlPlaneConvergence` | 1 provider, 2 generations, all shapes, 1 disturbance of eight kinds | `StatusConverges`, `SelectionHappens` |
| `ControlPlaneDeletion` | 1 incarnation, 3 disturbances of delete, fault, outage, restart | `DeletionCompletes` |
| `ProviderReselected` | 2 providers, a provider becomes ready | `ProviderStable` is violated |
| `ConditionsClobbered` | one edit | `CoreKeepsShimConditions` is violated |
| `TimeoutOutage` | delete and outage | `TimeoutReleases` is violated |
| `DynamoSafety` | 1 name, 2 incarnations, 2 generations, a managed claim (or a stranger's in its place), 2 disturbances of eight kinds; 1.3 M states | `TypeOK`, `DownloadedFirst`, `KeepsDownloads`, `GraphGoesFirst`, `KeepsPromise` |
| `DynamoProgress` | 1 name, 2 incarnations, all kinds of volume, 1 disturbance of nine kinds | `DeletionCompletes`, `PipelineCompletes` |
| `DeletedGraphSkipsCleanup` | delete, and the graph deleted by hand | `GoneMeansCleanup` is violated |
| `ClaimShared` | 2 names with one claim, no disturbance | `StaleOnly` is violated |
| `Web` | thirteen web modules and `ProviderRegistration`; 1.2 M states | `TypeOK`, `AnswersAreHonest`, `PromptsRunOnce`, `AnsweredImageIsThere`, `AnswersAreFreshAndAllowed`, `RouteMatchesWebhook`, `SettingsFitTheRuntime`, `ManualEditStays`, `SentAsShown`, `NothingFromElsewhere`, `VerifierOfItsCode`, `ConnectedMeansEverywhere`, `ServedAsResolved`, `CapacityIsHonest`, `AdviceIsSound`, `FitIsHonest`, `RegistrationIsHonest`, `HealthIsCurrent` |
| `WebProgress` | installer, session, details pages; 0.3 M states | `TypeOK`, `InstallsCleanly`, `ForeignCrdsKept`, `WaitingEnds`, `OnlyARefusalSignsOut`, `StaleSessionEnds`, `PageCatchesUp` |

What the passing runs show:

- **WorkspaceGuarded**: the finalizer is on the stored object whenever its Workspace
  exists, although the shim decides to create it on a cached copy.
- **FinalizerReleasedClean**: the finalizer goes only when no Workspace of the
  incarnation is left or the timeout has passed. This rests on two things:
  the shim's look-up before `release` is live, and the single worker cannot
  create in between.
- **KeepsPromise**: refinement of `GuardedResource`.
- **ShimLosesNoUpdate**: optimistic concurrency protects the core's and the users'
  fields from a shim that carries on with a stale copy.
- **StatusConverges**: whatever happened, once a good object is left in peace its
  status says Running with the endpoint of a Workspace of its current generation.
- **SelectionHappens**: no wake-up is lost between a provider and a waiting object.
- **DeletionCompletes**: the clean-up goes through conflicts, restarts and outages.

And of the Dynamo shim:

- **DownloadedFirst**: no graph, and no condition ModelDownloaded, before a download of
  this very incarnation, although Jobs of earlier ones stay behind and three caches lag.
- **KeepsDownloads**: a stale-looking claim is deleted by name after a check on a cached
  copy. The delete *can* hit the living object's own new claim (the run of
  `StaleOnly` with one name and a recreation shows it too), but never once
  its model is in it: a Job of the incarnation is made only after the
  cache has shown its claim.
- **GraphGoesFirst**: Jobs and claims are removed only after the incarnation's graph.
- **KeepsPromise**: the second implementation of `GuardedResource`.
- **PipelineCompletes**: claim, download and graph follow each other to Running. It
  holds after one disturbance. After two it need not: the error paths of storage do not
  requeue, and when the same error comes twice the second status update changes
  nothing and wakes nobody. The same stall meets an object whose pre-existing claim is
  made, or freed, after it was looked at; both wait for the resync.

Of the web side:

- **AnswersAreHonest**, two properties of `DeploymentRequests`. `SuccessIsHonest`: a create that answers 201 made an object, and a
  delete that answers 200 had its deletion accepted of one, though calls are retried without knowing whether the first one took
  effect. What a request deleted never lives again: it is Terminating as long as it is there, and a new object of
  the name is another one. A 200 does not say that the object is gone: a GET still finds it, and a second DELETE, or the retry after a lost
  answer, is answered 200 as long as the finalizer holds it and 404 after that. A retried create that meets
  its own object answers 409, which is pessimistic and true. `ListIsHonest`: the list shows nothing of a namespace that could not be listed
  meanwhile, and everything of the others unless a call failed, or there is no token and the cluster as a whole may not be listed.
- **PromptsRunOnce**, `AtMostOneModel` and `NothingLeftBehind` of `ChatProxy`: the gateway is tried only where the prompt cannot have
  arrived; timers, listeners and bodies are gone when the answer is sent, in whichever order
  client, timeout and model server finish.
- **AnsweredImageIsThere**: as long as the registry keeps its data and nobody builds another model under the name.
- **AnswersAreFreshAndAllowed**: an answer is old only after a failure; a gated configuration is
  never served across tokens, also when a miss is shared.
- **RouteMatchesWebhook**: schema and webhook accept the same volumes, and the preview's defaults are the
  webhook's, over everything either editor can reach and what a client may send.
- **SettingsFitTheRuntime**: whatever the order of edits, answers and effects, once the user has chosen a runtime, storage volumes, a router
  mode and a spread over nodes are Dynamo's alone; a form of Direct vLLM deploys the image the page names; and an
  image, a model source or a recipe's provenance goes with Direct vLLM as the provider. It is *not* so that nothing of another runtime
  survives. A recipe that is answered after the page went to another runtime (`DeploymentForm.tsx:698-716`) makes the request
  wholly one of Direct vLLM, under a page that shows the other runtime; that is the only way the two part. And
  `handleRuntimeChange` (`:951-966`) leaves a recipe's or AI Configurator's engine arguments, extra arguments and environment in
  the request of the next runtime: the model has it happen, and the property claims nothing of them.
- **ManualEditStays**, **SentAsShown**: no effect undoes an edit, and what is sent was shown.
- **NothingFromElsewhere**: late replies of another deployment neither show nor unlock.
- **VerifierOfItsCode**: however many sign-in flows are started, given up and finished, a code is never sent with
  the verifier of another flow.
- **ConnectedMeansEverywhere**: success on the page means that its save wrote the token into every namespace, and that it is still
  there but where another request wrote or removed it afterwards. Two saves that interleave can both succeed and leave the one's
  token here and the other's there. A create that is refused because another save's secret appeared after the read
  counts as a failure, and the page does not say success.
- **ServedAsResolved**: the flags a resolved recipe runs with are those its layers set, each with the value of the
  uppermost layer, and an admitted deployment asks for the GPUs its command line shards over.
- **CapacityIsHonest**: no warning only if the workers fit what was read; pools add up.
- **AdviceIsSound**: availability is no older than its cache; the better row wins, or the default; the panel
  shows the answer to what was asked last.
- **FitIsHonest**: a search shows each model once, with an engine that loads it; the estimate is for hardware the
  cluster has and derives a size that fits the weights if any does; a model that does not fit fits with what
  the badge says is missing.
- **RegistrationIsHonest**: once the last process has signed off, nothing of it that is still on its way makes the
  provider ready or connected again, which rests on the version every Update carries; and connected means
  that a process was up within the threshold, whatever landed late. The farewell itself may be refused, when the
  last heartbeat landed after the copy it was made from, and then the stored Ready stays true: the comment "sets
  status.ready=false unconditionally" (`providers/kaito/config.go:228`) promises more than the code does. The
  backend is right again after the threshold; the core, which reads Ready alone, is not.
- **HealthIsCurrent**: conflicts, lost calls, and the farewell of a leader that stopped late, which may
  overwrite the status of its successor, are repaired within two heartbeats.
- **InstallsCleanly**: a success is complete, and an answered install removed its directories.
- **ForeignCrdsKept**: a CRD of another tool becomes the install's in two ways only. Those of the `preCrdUrls` are applied
  whatever is there (`helm.ts:817-828`), so these *are* taken over. And a CRD that was missing when the install looked and that
  another tool, or another request, brought before the forced apply is taken over too (`helm.ts:564`). One the look found,
  and all that helm meets, stay as they are.
- **WaitingEnds**, **StaleSessionEnds**, **PageCatchesUp**: liveness, below.

The five violation runs are disagreements between the code and its
comments or docs; `findings` in `PROJECT.json` quotes both sides:

1. *A bound object can be re-bound.* The "already selected" check reads a copy
   that may predate the controller's own patch.
2. *The core takes back the shim's conditions.* The conditions are one array of
   its merge patch.
3. *The finalizer timeout does not fire while the operator is down*, the case
   it is documented for: every Delete succeeds, so the error path that looks
   at the clock is never taken.
4. *A graph that is already gone skips the clean-up*: after the Delete the code tests
   the error of the earlier Get.
5. *Two living objects delete each other's claim* when their names and volumes
   join to the same claim name.

There is another way for a deletion to hang: when a provider narrows its capabilities, the webhook judges
the stored spec of an object under deletion too, and refuses the Update that would take its finalizer away. It is
reachable in `ControlPlane` (`Refused`), and the reason why `ControlPlaneDeletion` has no change of capabilities.

### Fairness

`Fairness` is weak fairness of the two controllers' steps (a work queue hands out
what it holds), of the informers, the garbage collector, the clock, and of the
operator finishing deletions and making Workspaces ready. `RecoveringSpec` adds that
an outage ends. Faults, users and restarts owe nothing. Weak fairness
is enough because a step that is ready stays ready until taken: a queue entry
does not vanish and a pc does not move by itself. `FairSpec` of `DynamoShim` adds to the
shim's steps and deliveries the garbage collector, claim protection and binding, Jobs
completing, the operator, and the end of outages; the timeout owes nothing there, so
deletion does not lean on giving up.

In `MCWebProgress` only what a timer or an event loop guarantees is fair. `RuntimeInstall`: each running request
goes on (commands have timeouts, so they end, one way or another), answers arrive, the page's query polls while it is mounted, and an
operator whose chart is deployed starts. `Session`: a page in use sends its polls and requests are answered.
`DeploymentPages`: requests in flight are read and arrive (weak); a page polls again and again, strongly, because an open request or a
change of route takes the turn away in between. Users, failures and changes of the cluster owe nothing.

## 4. Proofs

`ControlPlaneProofs` proves, for every instance that meets the named assumptions
(`ProvidersAssumption`, `RankAssumption`, `ShapesAssumption`, `BoundsAssumption`,
`InstanceAssumption`):

- `TypeCorrect`: `Spec => []TypeOK`
- `Guarded`: `Spec => []WorkspaceGuarded`
- `ReleasedClean`: `Spec => FinalizerReleasedClean`
- `NoUpdateLost`: `Spec => ShimLosesNoUpdate`
- `PromiseKept`: `Spec => KeepsPromise`, the refinement

`WorkspaceGuarded` is not inductive: it says nothing of a pass that is about to create.
The inductive invariant `IInv` is the conjunction of

- `TypeOK`;
- `Incarnations`: every copy is of an incarnation created so far, and a copy of
  the stored incarnation is not ahead of it; in particular, once a copy has the
  finalizer of the stored incarnation, the stored object has it (only
  `release` takes it away, and then the object is gone);
- `FlagsTrue`: a copy marked newest agrees with the stored object in what
  matters;
- `SnapByPc`: what a pass knows at each step (the pcs that touch the Workspace carry a
  copy with the finalizer; those of the clean-up a copy under deletion);
- `OwnersKnown`: a Workspace's owner was created at some time, so that a new
  incarnation never inherits one;
- `WorkspaceGuarded`;
- `ReleaseClean`: a pass at `release` with the newest copy finds no Workspace of its
  own, or the timeout has passed.

Each action is shown to preserve it through a few classes (`OutsideStep`: the shim's
pass is untouched; `ShimSideStep`: only the pass moves; the shim's reads and
writes). The refinement maps outside writes, the shim's finalizer, Workspace
steps and the release to the abstract actions of the same meaning.

### The Dynamo shim

`DynamoShimProofs` has, under `NamesAssumption`, `SpecAssumption` and `BoundsAssumption`,
every safety property the run `DynamoSafety` checks:

- `TypeCorrect`: `Spec => []TypeOK`
- `DownloadedFirstHolds`: `Spec => []DownloadedFirst`
- `GraphGoesFirstHolds`: `Spec => GraphGoesFirst`
- `DownloadsStay`: `ClaimsApart /\ Spec => KeepsDownloads`
- `PromiseKept`: `Spec => KeepsPromise`, the refinement

`DownloadedFirst` speaks of the graph and the stored status alone; what makes it inductive is what
lies on the way to them. `IInv` is the conjunction of `TypeOK`, `Incarnations`, `FlagsTrue` and
`SnapByPc`, as above, and

- `OwnersKnown`: no claim, Job, graph or cached copy has an owner younger than what the shim
  has seen of the object, so nothing is there for an incarnation before its first pass;
- `DownloadsTrue`: a completed Job, a condition ModelDownloaded (stored, cached or in the pass), and a
  pass that has come to the graph, each mean a download of that very incarnation;
- `GraphInPlace`: a graph of the stored incarnation comes after the download and is guarded by
  the finalizer; a pass in the clean-up has seen it gone.

`KeepsDownloads` needs more, since the shim deletes a claim by name on the word of a lagging cache. `ClaimInv`
says that a cached claim is never of a younger owner than the stored one (`ClaimsInOrder`), and that from the
moment the download of an incarnation is about to begin (`Started`) neither the claim nor its cached
copy is of an older one, and no pass is about to delete it (`ClaimsSettled`). What a step may do to claims, Jobs and
objects is stated once, as `Move`, and each action is shown to be such a step. The theorem
has the hypothesis `ClaimsApart`, that no two objects resolve to one claim: it is what a name like
`<object>-<volume>` does not guarantee, and without it the property is false, as the run `ClaimShared` shows.

### The web side and the registration

The theorems of a part are without bounds on requests, retries, flows, processes or sizes:

- `DeploymentRequestsProofs`: `Earned`, `Spec => []SuccessIsHonest`. The invariant `Good` of a request adds to
  the property that only reads get to the places of reads (`InItsPlace`): the steps there answer 200 freely. That the
  deleted stay dead is a matter of the store, `EndsInv`: a Terminating object has a finalizer, uids were given
  out, and the uids a request removed are none of a living object's (`Ended`), which every step of the store keeps (`StoreKeeps`).
  `ListHonest`, `Spec => []ListIsHonest`: `Progress` says at each place of a list which namespaces it has
  passed, and that they are those the caller can read as long as nothing changed and a token, or the right to the whole
  cluster, lets it get through (`Entitled`). `RequestTypesHold`: the types.
- `ProviderRegistrationProofs`: `SignedOff`, `Spec => []RegistrationIsHonest`, under `RegistrationAssumption`. The
  invariant places each call whose answer is awaited at a stage of its sender (`CallsInPlace`, `OneMainCall`: an answer
  never moves a process that went on), says that after the last farewell no status on its way is of the newest
  copy (`FarewellHolds`: the version refuses a late heartbeat), and that no heartbeat, stored or on its way,
  is younger than the last process (`BeatsAreOld`). `ShownAsItIs`, `Spec => []HealthIsCurrent`: in an undisturbed
  interval a running process has its heartbeat before it with a newest copy, on its way alone and newest, or
  behind it and stored (`Settled`). `RegistrationTyped`: the types, with the attempts a process has left (`Within`).

`BackendServicesProofs` proves of the services behind a deployment, under `ServicesAssumption`:

- `AnsweredHolds`, `Build!Spec => []Build!AnsweredImageIsThere`, and `BuildTypesHold`. A build that has pushed knows the name
  it pushed under (`Pushed`); a premade image never gets to the places of the making (`InTheMaking`).
- `CapacityHolds`, `Gpus!Spec => []Gpus!CapacityIsHonest`. `CapacityInv`: a reading that nobody disturbed has listed the
  nodes as they are and counted what the scheduler counts (`Counted`, `TakenIsInUse`); after a failure it says there is
  nothing. The rest is about sums over finite sets: a node that was not listed, because it has no GPUs, has none free
  either (`FreeOnlyWhereListed`), so the total less what is taken is what is free (`RoomForAll`); the scheduler
  never binds beyond a node, but a node may shrink below what runs on it, and then the total understates, never overstates;
  the pools share the nodes out among them (`PoolsAddUp`); and whatever the banner alarms about, the warnings name (`NoIdleAlarm`).
- `FitHolds`, `Fitting!Spec => []Fitting!FitIsHonest`. A behaviour is one request, so the work is in the operators.
  The next page fetches longer lists, which begin with those of this one (`FetchedGrows`); a model offered now is offered then, though
  perhaps at another place (`MergedIs`, `OfferedIs`), so no fewer are (`MoreIsOffered`). `BadgeAdds` is about the rounding of what is missing, `DerivedIs` about the powers of two and the bound,
  `PerChatKeeps` about the haircut: two GPUs at 17/20 are more than one, five at 15/20 more than four at 17/20.
- `RecipeHolds`, `Resolver!Spec => []Resolver!ServedAsResolved`. `RecipeInv` says that a result is the resolution of some
  command on some hardware (`Resolved`). `LastSays` is what the last place of a flag in a sequence of tokens gives it. Joining
  (`JoinSays`), taking out flags (`WithoutClears`) and flattening (`FlattenSpreads`) say what becomes of it, so what is
  resolved comes from the layers (`ComesFrom`, `Above`); splitting it into a map and a list loses nothing (`ParsedSplits`),
  as the list has every later place of a flag and the engine reads it last. `AdmittedShards`: admission refuses a flag in
  both, so for an admitted deployment the first value, which the count reads, is the last, which the engine reads.

The library's induction theorems cannot be used (their predicate is an operator), but induction over a *set* of good
cases can: `LeastNumber` and `MinimalSet` come from the well-foundedness of the numbers, and `PartByPart` says that
what is good of the empty set, and of each set of which all with one element less are, is good of every finite set. With it
`AddsExists` shows that the recursive functions behind the sums of the community modules exist, `FlatExists` the same of
flattening, and the lemmas on totals (`TotalOut`, `TotalLess`, `TotalOfPart`, `TotalOfGroups`) follow.

`WebClientsProofs` proves of each client, under `ClientsAssumption`:

- `VerifierSent`, `Link!Spec => []Link!VerifierOfItsCode`. The callback compares the `state`
  parameter alone; what makes that enough is `SessionOfOneFlow`: state and verifier in the tab's session are
  always of one flow. `ConnectedHolds`, `Link!Spec => []Link!ConnectedMeansEverywhere`, for any number of
  requests at work. `SaveInv`: at most one of them is the page's, the namespaces it has passed without a failure are there and were
  written by it (`CallOK`), and what it wrote still holds its token unless it is marked as overtaken (`PageOK`).
- `PanelShowsItsOwn`, `Chat!Spec => []Chat!NothingFromElsewhere`. `PanelInv`: of all sends at most one is awaited, the
  last one, it is of the deployment shown, and its controller is the one in the ref (`OneAwaited`); so whatever
  outlives a switch finds its signal aborted.
- `AdviceHolds`, `Advisor!Spec => []Advisor!AdviceIsSound`. `AdviceInv`: a kept status was true after the question
  was put (`StatusTrue`), input and answer of an analysis belong together (`RunsTrue`), the panel waits for what it
  asked last (`PanelTrue`).
- `SettingsFit`, `Form!Spec => []Form!SettingsFitTheRuntime`, for any runtimes, engines, modes, models, capacities,
  advice and numbers of edits. `FormInv` is an invariant of the form *after* its effects ran (`FormState`):
  the settings of Direct vLLM are what the page shows of them (`DirectShown`), a form over several nodes is Dynamo's
  with vLLM and aggregated (`NodesFit`), storage and router mode are Dynamo's once the runtime was chosen by hand (`OwnParts`), image, source
  and provenance go with their provider (`OneProvider`), and without a
  capacity there is one node. It is not inductive under a single effect: an edit may leave a pending synchronisation
  (`Pending`), a topology to be looked at again (`Resized`) or a runtime to be picked (`Picks`). `OneRender` says what one
  run of all effects does to a form in terms of these three. `Settle` is defined by recursion over a
  fixed number of renders, so no induction is needed: `FourRenders` unrolls it, and `Settled` puts the renders together. Each edit and each answer is then shown to set fields in such a way that its effects restore
  `FormState` (`EditSettles`).
- `EditsStay`, `Form!Spec => Form!ManualEditStays`: an edit of the GPU count of a form whose GPUs the user manages is
  `Quiet`, which is to say that no effect is pending that writes the count.
- `SentPreview`, `Form!Spec => Form!PreviewIsWhatIsSent`. `SendsInv`: the body of every submission is the preview of its
  moment, but for an image that is built, which later steps keep. `SentManifest`,
  `Plugin!Spec => Plugin!ManifestIsWhatIsSent`: a manifest that is shown is that of the settings (`ManifestShown`).
- `VolumesJudgedAlike`, `Storage!Spec => []Storage!RouteMatchesWebhook`. Nothing but the types is needed of the state
  (`VolumesTyped`); the work is in the two sets of rules. `VolumeJudgedAlike` compares them for one volume after the
  webhook's defaults (`DefaultsAgree`), `ListJudgedAlike` for what two volumes may not share. `StorageAssumption` says of
  the names that a falsy path is not a relative or a system path, since the code skips it before it
  looks, and `MaxVolumes` is at least the two volumes a client sends.
- The types of each client: `LinkTyped`, `ChatTyped`, `FormTyped`, `PluginTyped`, `VolumesTyped`.

`WebProofs` brings all these to the composition (there `HonestCapacity`, `HonestFit` and `HonestRecipe` for the services): `BehaviourOfParts` shows that a behaviour of `MCWeb`, seen
from one part, is one of that part. `TypesHold`, `Spec => []TypeOK`, puts the types of ten parts together
(requests, relay, build, cache, storage, form, chat, link, plugin, shim). Two parts are proved about there directly,
under `WebAssumption`:

- `PromptsOnce`, `Spec => []PromptsRunOnce`. `RelayInv` says what is known of the prompt at each place (`PromptKnown`:
  nothing was delivered before a post, and nothing when the service is missing), and who holds the timer, the
  listener and the body (`DiscoveryHolds`, `BodyHolds`).
- `FreshAnswers`, `Spec => []AnswersAreFreshAndAllowed`. `CacheInv`: every entry expires within its life (`Genuine`), and a gated
  config is under a key of who may read it, also in a lookup under way and in one that joined it (`Lookup`). The
  evicting caches are maps with an order; `KeptOfOrdered` and its neighbours show that putting in
  order and dropping bring nothing in. `CacheTyped`: the Map has one entry to a place and to a key (`Placed`), its places
  go up to its size, so that a new entry comes last (`InOrder`), and dropping all that have the limit after them
  leaves no more than the limit (`TrimPlaced`); the others have no more entries than there are names (`SizeByNames`).
  There are finitely many names (`CacheAssumption`).

`WebProgressProofs` does the same for `MCWebProgress` (`StepOfParts`), under `ProgressAssumption`:

- `Typed`: `Spec => []TypeOK`, from `SessionInv`, `PagesInv` and `InstallInv`.
- `InstallsDoAllOfIt`: `Spec => []InstallsCleanly`. The property says nothing before an install answers. `Achieved` says at
  each step what a request that had the cluster for itself has done: the charts before its own are
  deployed with the CRDs an install sees to (`ChartDone`), and of its own what the steps so far brought.
- `ForeignStays`: `Spec => ForeignCrdsKept`, for any number of requests. An install that comes to the forced apply of a chart's CRD did not
  see it there when it looked (`Placed`, of the history `saw`); helm brings only what is lacking, and every other step leaves the CRDs alone.
- `RefusedOnly`: `Spec => OnlyARefusalSignsOut`, from what a request in flight carries (`SessionInv`).

### What is only model-checked

- *The liveness properties*: no prover here handles fairness or ENABLED. *The violation runs*, which show a behaviour.
- *Nothing else*: every invariant and every action property of the passing runs is a theorem, under the assumptions named with
  it. They say what the source makes sure of: `RecipeAssumption` that arguments are sequences of tokens and that a number that
  was read is positive, `CapacityAssumption` that the cluster has at least one node and finitely many pods, that workers are
  counted in natural numbers and that only aggregated deployments span nodes, `ModelFitAssumption` that sizes are
  natural, tokens a multiple of 512 (so that memory is exact), a pool has 1 to 64 GPUs and no more nodes than GPUs,
  and an architecture is one or none. TLC evaluates them for the instances it checks.

## 5. Limits of the model

- An informer delivers the newest version; versions in between may be skipped,
  as they may in a real watch cache that relists, but an old version is not
  delivered late once a newer one has been seen.
- One worker per controller and exclusive leader election, as `main.go` sets up.
- The engine is explicit in the spec and a GPU is requested, so the
  webhook's resource rules and engine selection are fixed; provider
  selection is enabled.
- Removing the finalizer by hand is not modelled. The ten-hour resync is not relied
  on: wake-ups have to come from events and requeues.
- The gateway step of the core's Reconcile and the metrics are not modelled.
- A graph's content is its generation, too. Jobs of the download's name made by users,
  which the shim deletes without looking for its label, are not modelled.
- The content of a Workspace is its generation; the three-way merge is not modelled.

Of the web side:

- A React render is a step of its own only where the code awaits something; concurrent rendering is not used by
  the pages. Query libraries are modelled by what the pages use of them (polls, retries, cached data).
- Tokens, models and recipes are members of small sets: what a regular expression accepts is decided where the
  set is given, and properties are about what follows from it.
- The API server's view of permissions changes at once; token reviews and HuggingFace answer or fail.
- Helm, kubectl, `docker buildx`, the AI Configurator tool, HuggingFace, the registry and the model servers are
  external: they do what the code expects or fail, and may take effect although they seem to fail.
- One backend process: its caches and maps are not shared with a replica.
- `StorageForms` has sizes that are good, empty or missing. The quantities that the route's expression admits and the API
  server refuses, like `100K` (`deployments.ts:114`), are not told apart, so the agreement of route and
  webhook is shown for the rules and not for the grammar of sizes.
- `PluginForm` ends with the body the page posts. The defaults `createDeploymentSchema` fills in on the backend
  (`deployments.ts:147-183`) are not part of what is sent, and nothing is claimed of them.

### Not modelled

- *Gateway, phase metrics, agents, credential admission, KubeRay, llm-d and vLLM shims, managed-field merge*: they can be modelled in the same way; see the plan.
- *Settings, cost and metrics displays, layout, router, images, charts, manifests, generated code*: they keep no
  state beyond what a framework keeps for them.

Hazards seen in the code that no property covers, beside those in `hazards` without a property:

- Go: a spec that becomes incompatible after it was served (`providers/kaito/controller.go:253`), the phase
  translated from whatever Workspace the second Get returns (`:860`), ownership checked before a Patch by name
  (`:549`), the rejected provider switch (`modeldeployment_controller.go:300`), the status patch without a uid
  (`:376`), heartbeats the selection does not look at (`:607`), storage errors without a requeue
  (`providers/dynamo/controller.go:297`), the gateway's allowed namespaces and clean-up
  (`gateway_reconciler.go:1014`, `:1443`), Jobs and Secrets of the container provider
  (`agentprovider_container_controller.go:1679`, `:2899`), the agent's hold window (`agentdeployment_controller.go:523`).
- Web: engine arguments, extra arguments and environment of a recipe go to the next runtime (`DeploymentForm.tsx:951`), and a
  late recipe deploys Direct vLLM under another runtime's page (`:698`); two saves of a token leave different ones in different
  namespaces (`services/secrets.ts:174`). The models have all three; the properties say exactly what holds beside them.
- Labels read by substring: `_a10` is tested before `_a100` (`services/kubernetes.ts:1930`), `L40` contains the
  alias `L4` (`costEstimation.ts:118`), GB200 is mapped to `b200_sxm` (`aiconfigurator.ts:317`).
- HuggingFace search pages cut a list that was fetched anew at another length, and `total` counts what was fetched
  (`huggingface.ts:301`); a derived size may leave room for no whole sequence; the badge multiplies the first
  node's memory by all GPUs; `maxNodeGpus` 0 makes the node count infinite.
- Answers: DELETE of the token secrets answers 200 with `success: false` (`routes/secrets.ts:68`); an outage of
  TokenReview is answered 401 (`services/auth.ts:96`); a late 401 of the old token removes a newer login
  (`useAuth.ts:171`); uninstall-crds ignores failures (`routes/installation.ts:642`).
- Resources: a rejected promise is kept for good (`lib/kubeconfig.ts:157`), an unreadable CRD file leaks its
  directory (`helm.ts:558`), a killed helm leaves a pending release, an emptyDir registry loses its images,
  the retry test of the price client looks for a field its errors lack (`cloudPricing.ts:260`), the config
  fetch has no timeout.
- Plugin: the log view keeps a pod that is gone (`DeploymentDetails.tsx:80`); a new name resets the GPU count
  (`CreateDeployment.tsx:182`).

## 6. Plan

What is left, in this order:

1. What `DynamoShim` leaves out of storage: several volumes of one object.
2. `JobLedger`: the container provider's generation claim, Job create that may time
   out, outcome recording. Abstract specification: at most one execution per
   generation. Theorem: at-most-once.
3. `AccessSecret` and `CreateRecord`: reservation and admission records with their
   crash points and the janitor.
4. `ProviderRegistration` composed with selection: what a stored Ready that nobody refreshes does to new objects.
5. `GatewayRoutes`: allowed namespaces under several objects.
6. `ManagedFields`: the three-way merge as an operator against a reference
   definition over bounded maps.
7. `AgentBinding` and `PhaseMetrics`.

## 7. Running it

    tlc -workers 2 -config ControlPlaneSafety.cfg MCControlPlane
    tlc -workers 2 -config DynamoSafety.cfg MCDynamoShim
    tlc -workers 2 -config Web.cfg MCWeb
    tlc -workers 2 -config WebProgress.cfg MCWebProgress
    tlapm ControlPlaneProofs.tla
    tlapm DynamoShimProofs.tla
    tlapm DeploymentRequestsProofs.tla
    tlapm BackendServicesProofs.tla
    tlapm ProviderRegistrationProofs.tla
    tlapm WebClientsProofs.tla
    tlapm WebProofs.tla
    tlapm WebProgressProofs.tla
