---------------------------- MODULE DeploymentForm ----------------------------
(* The deploy page of the web UI: DeploymentForm.tsx with the hooks and the    *)
(* recommendation it uses (useDeployments.ts, gpu-recommendations.ts,          *)
(* AIConfiguratorPanel.tsx, DeployPage.tsx).  One action per handler or        *)
(* answer; the effects React runs after it are part of the action.             *)
EXTENDS Naturals, Sequences, FiniteSets

CONSTANTS
  Runtimes,    \* the runtimes of the cluster; "dynamo", "kaito" and "vllm" are known by name
  ReadySets,   \* the sets of runtimes that may be ready at a time
  Priority,    \* RUNTIME_SELECTION_PRIORITY: a sequence of all the runtimes
  EnginesOf,   \* the engines each runtime announces
  ModesOf,     \* the serving modes of each runtime and engine
  Kinds,       \* what models there are: a subset of {"vllm", "gguf", "premade"}
  Served,      \* the engines of a model of each kind, in the model's order
  Need,        \* GPUs the model needs at least
  Capacities,  \* the largest node the cluster may have, in GPUs
  Advice,      \* what AI Configurator may answer: records of engine, mode, tp and pp
  MaxEdits,    \* bound: edits and changes outside the form
  MaxSends     \* bound: submissions

VARIABLES
  kind,     \* the model
  props,    \* what the page's queries have delivered
  form,     \* the state of the form
  asked,    \* the recipe resolution in flight
  sends,    \* the submissions, oldest first
  status,   \* the status of useCreateDeployment
  edits     \* edits and outside changes so far

fvars == <<kind, props, form, asked, sends, status, edits>>

Modes == {"aggregated", "disaggregated"}
Unset == "unset"
(* The three runtimes known by name are among those there are, each of which   *)
(* has its priority; Direct vLLM serves aggregated alone.                      *)
FormAssumption ==
  /\ Unset \notin Runtimes /\ {"dynamo", "kaito", "vllm"} \subseteq Runtimes
  /\ Priority \in Seq(Runtimes) /\ Runtimes \subseteq {Priority[i] : i \in DOMAIN Priority}
  /\ ModesOf["vllm"]["vllm"] \subseteq {"aggregated"}
  /\ ReadySets \subseteq SUBSET Runtimes
  /\ Need \in Nat \ {0} /\ Capacities \subseteq Nat \ {0}
  /\ \A a \in Advice : a.tp \in Nat \ {0} /\ a.pp \in Nat \ {0}
Images == {"nightly", "stable", "mine", "recipe"}

-----------------------------------------------------------------------------
(* Which runtime the form starts with.                                         *)
ModelEngines == {Served[kind][i] : i \in DOMAIN Served[kind]}
FirstIn(sequence, wanted) ==
  LET hits == {i \in DOMAIN sequence : sequence[i] \in wanted}
  IN  IF hits = {} THEN Unset ELSE sequence[CHOOSE i \in hits : \A j \in hits : i <= j]

Compatible(r, mode) == \E e \in ModelEngines \cap EnginesOf[r] : mode \in ModesOf[r][e]

(* Installed and compatible, else compatible, else installed, else any.        *)
DefaultRuntime(p) ==
  LET fits == {r \in Runtimes : Compatible(r, "aggregated")} IN
  IF ~p.known THEN IF "llamacpp" \in ModelEngines THEN "kaito" ELSE "dynamo"
  ELSE IF fits \cap p.ready # {} THEN FirstIn(Priority, fits \cap p.ready)
  ELSE IF fits # {} THEN FirstIn(Priority, fits)
  ELSE IF p.ready # {} THEN FirstIn(Priority, p.ready)
  ELSE Priority[1]

DefaultEngine(r) ==
  IF FirstIn(Served[kind], EnginesOf[r]) = Unset THEN Served[kind][1]
  ELSE FirstIn(Served[kind], EnginesOf[r])

(* calculateGpuRecommendation and calculateMultiNode.  Without the cluster's   *)
(* capacity the recommendation is one GPU on one node.                         *)
Ceiling(a, b) == (a + b - 1) \div b
Recommended(p) ==
  IF p.capacity = 0 THEN [gpus |-> 1, nodes |-> 1]
  ELSE IF Need > p.capacity THEN [gpus |-> p.capacity, nodes |-> Ceiling(Need, p.capacity)]
  ELSE [gpus |-> Need, nodes |-> 1]
NodesFor(p, gpus) == IF p.capacity = 0 THEN 1 ELSE Ceiling(Need, gpus)

(* Multi-node overrides and the parallelism arguments that go with them.       *)
Spread(f, nodes, tp) == [f EXCEPT !.nodes = nodes, !.tp = tp, !.pp = nodes]
NoArgs(f) == [f EXCEPT !.tp = 0, !.pp = 0]
OneNode(f) == [NoArgs(f) EXCEPT !.nodes = 1]

DirectRef(f) == IF f.choice = "custom" THEN f.text ELSE f.choice
Direct(f, image) ==
  [f EXCEPT !.provider = "vllm", !.engine = "vllm", !.source = "vllm", !.image = image,
            !.gpu = IF @ = 0 THEN 1 ELSE @]

-----------------------------------------------------------------------------
(* The effects, in the order of the component.  Each runs when one of its      *)
(* dependencies differs from the last render's (of, op); it reads the render   *)
(* (f, p) and updates what the effects before it made of the state (g).        *)
PickRuntime(of, op, f, p, g) ==
  LET r == DefaultRuntime(p)
      leaves == g.provider = "vllm" /\ r # "vllm"
  IN
  IF /\ <<of.runtime, op.known, op.ready>> # <<f.runtime, p.known, p.ready>>
     /\ p.known /\ ~f.manual /\ r # f.runtime
  THEN [g EXCEPT !.runtime = r, !.provider = r,
                 !.engine = IF r = "vllm" THEN "vllm" ELSE DefaultEngine(r),
                 !.mode = IF r \in {"kaito", "vllm"} THEN "aggregated" ELSE @,
                 !.nodes = IF r = "vllm" THEN 1 ELSE @,
                 !.source = IF r = "vllm" THEN "vllm" ELSE IF leaves THEN Unset ELSE @,
                 !.image = IF r = "vllm" THEN IF @ = Unset THEN "nightly" ELSE @
                           ELSE IF leaves THEN Unset ELSE @,
                 !.recipe = IF r = "vllm" THEN @ ELSE Unset]
  ELSE g

ClearGateway(op, p, g) ==
  IF op.gateway # p.gateway /\ p.gateway = "no" THEN [g EXCEPT !.gateway = Unset] ELSE g

LoadRecipes(of, f, g) ==
  IF <<of.runtime, of.recipes>> # <<f.runtime, f.recipes>>
     /\ f.runtime = "vllm" /\ f.recipes \in {"none", "failed"}
  THEN [g EXCEPT !.recipes = "loading"] ELSE g

\* Mutant: the image is synchronized when the choice changes, not the text.
SyncDirectChoice(of, f, g) ==
  IF <<of.runtime, of.choice>> # <<f.runtime, f.choice>> /\ f.runtime = "vllm"
  THEN Direct(g, DirectRef(f)) ELSE g
SyncDirect(of, f, g) ==
  IF <<of.runtime, DirectRef(of)>> # <<f.runtime, DirectRef(f)>> /\ f.runtime = "vllm"
  THEN Direct(g, DirectRef(f)) ELSE g

FirstGpus(of, op, f, p, g) ==
  IF /\ of.runtime = Unset \/ Recommended(op).gpus # Recommended(p).gpus
     /\ f.gpu = 0
  THEN [g EXCEPT !.gpu = Recommended(p).gpus] ELSE g

Spreads(f) == f.runtime = "dynamo" /\ f.mode = "aggregated" /\ f.engine = "vllm"
\* Mutant: the effect also runs when the GPU count changes.
ManageNodesEagerly(of, op, f, p, g) ==
  LET best == Recommended(p) IN
  IF f.managed \/ (of.gpu = f.gpu /\ of.engine = f.engine /\ of.mode = f.mode) THEN g
  ELSE IF Spreads(f) /\ best.nodes > 1
       THEN [Spread(g, best.nodes, best.gpus) EXCEPT !.gpu = best.gpus]
       ELSE OneNode(g)
Topology(x, q) == <<Recommended(q), x.runtime, x.engine, x.mode, x.managed>>
ManageNodes(of, op, f, p, g) ==
  LET best == Recommended(p) IN
  IF Topology(of, op) = Topology(f, p) \/ f.managed THEN g
  ELSE IF Spreads(f) /\ best.nodes > 1
       THEN [Spread(g, best.nodes, best.gpus) EXCEPT !.gpu = best.gpus]
       ELSE OneNode(g)

FlagPrecision(of, op, f, p, g) ==
  LET wanted == p.fp8 = "on" /\ f.engine \in {"vllm", "sglang"} IN
  IF <<op.fp8, of.engine>> = <<p.fp8, f.engine>> THEN g
  ELSE [g EXCEPT !.quant = IF wanted THEN "fp8" ELSE IF @ = "fp8" THEN Unset ELSE @]

PickPremade(f, p, g) ==
  IF kind = "premade" /\ p.premades /\ ~f.premade THEN [g EXCEPT !.premade = TRUE] ELSE g

PickFile(f, p) ==
  IF kind = "gguf" /\ p.files /\ f.runtime = "kaito" THEN [f EXCEPT !.file = TRUE] ELSE f

(* One render: what the effects, one after the other, make of the state.       *)
Render(of, op, f, p) ==
  LET a == PickRuntime(of, op, f, p, PickFile(f, p))
      b == ClearGateway(op, p, a)
      c == LoadRecipes(of, f, b)
      d == SyncDirect(of, f, c)
      e == FirstGpus(of, op, f, p, d)
      h == ManageNodes(of, op, f, p, e)
  IN  PickPremade(f, p, FlagPrecision(of, op, f, p, h))

(* Effects that change the state render again, until nothing changes: the      *)
(* form and props of the last render, and those of the one before it.          *)
Settle(of, op, f, p) ==
  LET after[k \in 0..4] ==
        IF k = 0 THEN {<<of, op, f, p>>}
        ELSE {<<x[3], x[4], Render(x[1], x[2], x[3], x[4]), x[4]>> : x \in after[k - 1]}
  IN  CHOOSE g \in {x[3] : x \in after[4]} : TRUE

NoProps == [known |-> FALSE, ready |-> {}, capacity |-> 0, fp8 |-> Unset, gateway |-> Unset,
            files |-> FALSE, premades |-> FALSE]
Blank(r) ==
  [runtime |-> r, manual |-> FALSE, managed |-> FALSE, backends |-> {},
   provider |-> r, engine |-> DefaultEngine(r), mode |-> "aggregated",
   source |-> IF r = "vllm" THEN "vllm" ELSE Unset,
   image |-> IF r = "vllm" THEN "nightly" ELSE Unset,
   gpu |-> 0, nodes |-> 1, tp |-> 0, pp |-> 0, quant |-> Unset, args |-> {}, extras |-> FALSE,
   recipe |-> Unset, recipes |-> "none", choice |-> "nightly", text |-> Unset,
   router |-> "default", gateway |-> Unset, storage |-> FALSE,
   compute |-> "cpu", runMode |-> "direct", file |-> FALSE, premade |-> FALSE]
(* What the first render compares with: nothing, every effect runs.            *)
Unmounted(r) == [Blank(r) EXCEPT !.runtime = Unset, !.engine = Unset, !.recipes = Unset]

-----------------------------------------------------------------------------
(* What the buttons look at.                                                   *)
ImageMissing(f) == f.runtime = "vllm" /\ DirectRef(f) = Unset
KaitoReady(f) ==
  f.runtime = "kaito" => CASE kind = "gguf" -> f.file
                           [] kind = "vllm" -> f.gpu >= 1
                           [] OTHER         -> f.premade
Processing == status \in {"validating", "submitting"}
ButtonEnabled ==
  ~Processing /\ form.runtime \in props.ready /\ KaitoReady(form) /\ props.fp8 # "blocked"

NoGateway(f, p) == IF p.gateway = "no" THEN [f EXCEPT !.gateway = Unset] ELSE f

(* The parts of the form that a request carries.  Of the arguments of the      *)
(* engine, the number of GPUs and nodes and the precision are told apart; args *)
(* says where others come from, and extras that there are extra arguments and  *)
(* an environment of a recipe.                                                 *)
Body(f) ==
  [provider |-> f.provider, engine |-> f.engine, mode |-> f.mode, source |-> f.source,
   image |-> f.image, gpu |-> f.gpu, nodes |-> f.nodes, tp |-> f.tp, pp |-> f.pp,
   quant |-> f.quant, args |-> f.args, extras |-> f.extras, recipe |-> f.recipe,
   router |-> f.router, gateway |-> f.gateway, storage |-> f.storage, compute |-> Unset,
   runMode |-> Unset, file |-> FALSE, premade |-> FALSE]

(* What handleSubmit sends, but for the image a build makes.                   *)
Request(f, p) ==
  LET g == NoGateway(f, p) IN
  CASE f.runtime = "vllm" -> Body(Direct(g, IF g.image = Unset THEN DirectRef(f) ELSE g.image))
    [] f.runtime = "kaito" /\ kind = "gguf" ->
         [Body(g) EXCEPT !.source = "huggingface", !.file = f.file, !.runMode = f.runMode,
                         !.compute = f.compute]
    [] f.runtime = "kaito" /\ kind = "vllm" ->
         [Body(g) EXCEPT !.source = "vllm", !.compute = "gpu", !.gpu = IF @ = 0 THEN 1 ELSE @]
    [] f.runtime = "kaito" /\ kind = "premade" ->
         [Body(g) EXCEPT !.source = "premade", !.compute = f.compute, !.premade = f.premade]
    [] OTHER -> Body(g)

\* Mutant: the preview leaves out the run mode of a GGUF model.
PreviewNoRunMode(f, p) ==
  LET g == NoGateway(f, p) IN
  IF f.runtime = "kaito" /\ kind = "gguf"
  THEN [Body(g) EXCEPT !.source = "huggingface", !.file = f.file, !.compute = f.compute]
  ELSE Request(f, p)

(* What the manifest preview is asked for.                                     *)
Preview(f, p) ==
  LET g == NoGateway(f, p) IN
  CASE f.runtime = "vllm" -> Body(Direct(g, IF g.image = Unset THEN DirectRef(f) ELSE g.image))
    [] f.runtime = "kaito" /\ kind = "gguf" ->
         [Body(g) EXCEPT !.source = "huggingface", !.file = f.file, !.runMode = f.runMode,
                         !.compute = f.compute]
    [] f.runtime = "kaito" /\ kind = "vllm" -> [Body(g) EXCEPT !.source = "vllm", !.compute = "gpu"]
    [] f.runtime = "kaito" /\ kind = "premade" /\ f.premade ->
         [Body(g) EXCEPT !.source = "premade", !.compute = f.compute, !.premade = f.premade]
    [] OTHER -> Body(g)

-----------------------------------------------------------------------------
Here == status # "left"
Edit(f) ==
  /\ Here /\ edits < MaxEdits /\ edits' = edits + 1
  /\ form' = Settle(form, props, f, props)
  /\ UNCHANGED <<kind, props, asked, sends, status>>

(* handleRuntimeChange.  It leaves the other arguments of the engine, the extra *)
(* arguments and the environment to the new runtime, whatever set them.        *)
ChooseRuntime(r) ==
  LET available == ModelEngines \cap EnginesOf[r]
      engine  == IF form.engine \in available THEN form.engine ELSE DefaultEngine(r)
      manages == r = "dynamo" /\ form.mode = "aggregated" /\ engine = "vllm"
      gpus    == IF form.gpu = 0 THEN Recommended(props).gpus ELSE form.gpu
      leaves  == form.provider = "vllm" /\ r # "vllm"
      spread  == IF manages /\ props.capacity = 0 THEN NoArgs(form)
                 ELSE IF manages /\ NodesFor(props, gpus) > 1
                      THEN Spread(form, NodesFor(props, gpus), gpus)
                      ELSE OneNode(form)
  IN
  /\ Compatible(r, form.mode)
  /\ Edit([spread EXCEPT
        !.runtime = r, !.manual = TRUE, !.managed = FALSE, !.provider = r,
        !.engine = IF r = "vllm" THEN "vllm" ELSE engine,
        !.mode = IF r \in {"kaito", "vllm"} THEN "aggregated" ELSE @,
        !.source = IF r = "vllm" THEN "vllm" ELSE IF leaves THEN Unset ELSE @,
        !.image = IF r = "vllm" THEN DirectRef(form) ELSE IF leaves THEN Unset ELSE @,
        !.recipe = IF r = "vllm" THEN @ ELSE Unset,
        !.router = IF r = "dynamo" THEN @ ELSE "default",
        !.premade = r = "kaito" /\ @,
        !.compute = IF r # "kaito" THEN "cpu" ELSE @,
        !.backends = IF r # "dynamo" THEN {} ELSE @,
        !.storage = r = "dynamo" /\ @])

ServerShown == form.runtime # "vllm" /\ (form.runtime = "kaito" => kind = "vllm")

ChooseEngine(e) ==
  /\ ServerShown /\ e \in ModelEngines \cap EnginesOf[form.runtime] /\ e # form.engine
  /\ form.backends = {} \/ e \in form.backends
  /\ Edit([form EXCEPT !.engine = e, !.managed = FALSE])

ChooseMode(m) ==
  /\ form.runtime = "kaito" => kind = "vllm"
  /\ m # form.mode /\ (m = "aggregated" \/ m \in ModesOf[form.runtime][form.engine])
  /\ Edit([IF m = "disaggregated" THEN OneNode(form) ELSE form EXCEPT
              !.mode = m, !.managed = FALSE])

SetGpu(n) ==
  /\ form.runtime = "kaito" => kind = "vllm" \/ form.compute = "gpu"
  /\ form.mode = "aggregated" \/ form.runtime = "kaito"
  /\ n # form.gpu
  /\ LET spread == IF form.runtime # "dynamo" \/ form.engine # "vllm" \/ props.capacity = 0 THEN form
                   ELSE IF NodesFor(props, n) > 1 THEN Spread(form, NodesFor(props, n), n)
                   ELSE OneNode(form)
     IN  Edit([spread EXCEPT !.gpu = n, !.managed = FALSE])

(* The plain fields, each where the form shows it.                             *)
ChooseImage(c) == form.runtime = "vllm" /\ c # form.choice /\ Edit([form EXCEPT !.choice = c])
TypeImage(t) ==
  form.runtime = "vllm" /\ form.choice = "custom" /\ t # form.text /\ Edit([form EXCEPT !.text = t])
SetGateway(x) == props.gateway = "yes" /\ x # form.gateway /\ Edit([form EXCEPT !.gateway = x])
SetRouter(x) ==
  form.runtime = "dynamo" /\ form.mode = "aggregated" /\ x # form.router /\ Edit([form EXCEPT !.router = x])
SetStorage(x) == form.runtime = "dynamo" /\ x # form.storage /\ Edit([form EXCEPT !.storage = x])
SetCompute(x) ==
  form.runtime = "kaito" /\ kind # "vllm" /\ x # form.compute /\ Edit([form EXCEPT !.compute = x])
SetRunMode(x) ==
  form.runtime = "kaito" /\ kind = "gguf" /\ x # form.runMode /\ Edit([form EXCEPT !.runMode = x])

(* handleApplyAIConfig and the panel's discard.                                *)
ApplyAdvice(a) ==
  LET many == a.mode = "aggregated" /\ a.engine = "vllm" /\ a.pp > 1 IN
  /\ form.runtime = "dynamo"
  /\ Edit([IF many THEN Spread(form, a.pp, a.tp) ELSE OneNode(form) EXCEPT
              !.managed = TRUE, !.backends = {a.engine}, !.engine = a.engine,
              !.mode = a.mode, !.gpu = a.tp, !.args = @ \cup {"advice"}])
DiscardAdvice ==
  /\ form.runtime = "dynamo" /\ (form.managed \/ form.backends # {})
  /\ Edit([form EXCEPT !.managed = FALSE, !.backends = {}])

-----------------------------------------------------------------------------
(* Recipes: the list is loaded by an effect, a recipe is resolved on request   *)
(* and applied when its answer comes, whatever the form shows by then.         *)
RecipesAnswer(works) ==
  /\ Here /\ form.recipes \in {"loading", "reloading"}
  /\ form' = Settle(form, props,
        [form EXCEPT !.recipes = IF works \/ @ = "reloading" THEN "loaded" ELSE "failed"], props)
  /\ UNCHANGED <<kind, props, asked, sends, status, edits>>

Refresh ==
  form.runtime = "vllm" /\ form.recipes = "loaded" /\ Edit([form EXCEPT !.recipes = "reloading"])

(* handleApplyVllmRecipe up to its await.                                      *)
AskRecipe ==
  /\ Here /\ form.runtime = "vllm" /\ form.recipes \in {"loaded", "reloading"}
  /\ asked = << >> /\ ~ImageMissing(form)
  /\ edits < MaxEdits /\ edits' = edits + 1
  /\ asked' = <<[image |-> DirectRef(form), custom |-> form.choice = "custom", mode |-> form.mode]>>
  /\ UNCHANGED <<kind, props, form, sends, status>>

(* The rest of it, for a recipe that brings arguments and an environment.  Its *)
(* arguments replace those of the form, and the form is one of Direct vLLM     *)
(* again, also under the page of a runtime that was chosen meanwhile.          *)
RecipeResolved(works, image, tp) ==
  LET q == asked[1]
      ref == IF q.custom THEN q.image ELSE IF image = Unset THEN q.image ELSE image
      known == ref \in {"nightly", "stable"}
      new == Direct([OneNode(form) EXCEPT
               !.mode = q.mode, !.gpu = IF tp = 0 THEN 1 ELSE tp, !.tp = tp, !.quant = Unset,
               !.args = {"recipe"}, !.extras = TRUE, !.recipe = "applied", !.router = "default",
               !.choice = IF known THEN ref ELSE "custom",
               !.text = IF known THEN Unset ELSE ref], ref)
  IN
  /\ Here /\ asked # << >> /\ asked' = << >>
  /\ form' = IF works THEN Settle(form, props, new, props) ELSE form
  /\ UNCHANGED <<kind, props, sends, status, edits>>

-----------------------------------------------------------------------------
(* What the queries of the page deliver, at any time and again.                *)
Deliver(p) ==
  /\ Here /\ edits < MaxEdits /\ edits' = edits + 1
  /\ p # props /\ props' = p /\ form' = Settle(form, props, form, p)
  /\ UNCHANGED <<kind, asked, sends, status>>

RuntimesChange(ready) == Deliver([props EXCEPT !.known = TRUE, !.ready = ready])
CapacityChanges(n) == Deliver([props EXCEPT !.capacity = n])
PrecisionChanges(x) == Deliver([props EXCEPT !.fp8 = x])
GatewayChanges(x) == Deliver([props EXCEPT !.gateway = x])
FilesArrive == Deliver([props EXCEPT !.files = TRUE])
PremadesArrive == Deliver([props EXCEPT !.premades = TRUE])

-----------------------------------------------------------------------------
(* handleSubmit, from the button or with the shortcut, which only looks at the *)
(* status.  The request is the form's of the moment, also when an image is     *)
(* built first; shown is the preview of that moment.                           *)
Submit(button) ==
  LET builds == form.runtime = "kaito" /\ kind = "gguf" /\ form.runMode = "build" IN
  /\ Here /\ Len(sends) < MaxSends
  /\ IF button THEN ButtonEnabled ELSE ~Processing
  /\ ~ImageMissing(form)
  /\ sends' = Append(sends, [pc |-> IF builds THEN "infra" ELSE "validating", button |-> button,
                             body |-> Request(form, props), shown |-> Preview(form, props),
                             timer |-> FALSE])
  /\ status' = IF builds THEN status ELSE "validating"
  /\ UNCHANGED <<kind, props, form, asked, edits>>

Move(i, pc) == sends' = [sends EXCEPT ![i].pc = pc]
Show(new) == status' = IF Here THEN new ELSE status
Form == UNCHANGED <<kind, props, form, asked, edits>>

InfraAnswers(i, ready) ==
  /\ sends[i].pc = "infra" /\ Move(i, IF ready THEN "build" ELSE "failed")
  /\ UNCHANGED status /\ Form

BuildAnswers(i, works) ==
  /\ sends[i].pc = "build"
  /\ sends' = [sends EXCEPT ![i].pc = IF works THEN "validating" ELSE "failed",
                            ![i].body.image = IF works THEN "built" ELSE @]
  /\ IF works THEN Show("validating") ELSE UNCHANGED status
  /\ Form

(* useCreateDeployment: a pause, the request, and a timer that takes the       *)
(* status back to idle whatever it shows by then.                              *)
Post(i) == sends[i].pc = "validating" /\ Move(i, "posted") /\ Show("submitting") /\ Form

PostAnswers(i, works) ==
  /\ sends[i].pc = "posted"
  /\ sends' = [sends EXCEPT ![i].pc = IF works THEN "created" ELSE "failed", ![i].timer = TRUE]
  /\ Show(IF works THEN "success" ELSE "error")
  /\ Form

TimerFires(i) ==
  /\ sends[i].timer /\ sends' = [sends EXCEPT ![i].timer = FALSE]
  /\ Show("idle") /\ Form

Navigate ==
  /\ Here /\ \E i \in DOMAIN sends : sends[i].pc = "created"
  /\ status' = "left" /\ UNCHANGED <<kind, props, form, asked, sends, edits>>

-----------------------------------------------------------------------------
Init ==
  /\ kind \in Kinds
  /\ \E ready \in ReadySets, n \in {0} \cup Capacities :
       props = [NoProps EXCEPT !.known = TRUE, !.ready = ready, !.capacity = n]
  /\ form = Settle(Unmounted(DefaultRuntime(props)), NoProps, Blank(DefaultRuntime(props)), props)
  /\ asked = << >> /\ sends = << >> /\ status = "idle" /\ edits = 0

Edits ==
  \/ \E r \in Runtimes : ChooseRuntime(r)
  \/ \E e \in ModelEngines : ChooseEngine(e)
  \/ \E m \in Modes : ChooseMode(m)
  \/ \E n \in 1..Need : SetGpu(n)
  \/ \E c \in {"nightly", "stable", "custom"} : ChooseImage(c)
  \/ \E t \in {Unset, "mine"} : TypeImage(t)
  \/ \E x \in {"on", "off"} : SetGateway(x)
  \/ \E x \in {"default", "kv"} : SetRouter(x)
  \/ \E x \in BOOLEAN : SetStorage(x)
  \/ \E x \in {"cpu", "gpu"} : SetCompute(x)
  \/ \E x \in {"direct", "build"} : SetRunMode(x)
  \/ \E a \in Advice : ApplyAdvice(a)
  \/ DiscardAdvice \/ Refresh \/ AskRecipe

Deliveries ==
  \/ \E ready \in ReadySets : RuntimesChange(ready)
  \/ \E n \in Capacities : CapacityChanges(n)
  \/ \E x \in {"on", "blocked", Unset} : PrecisionChanges(x)
  \/ \E x \in {"yes", "no"} : GatewayChanges(x)
  \/ FilesArrive \/ PremadesArrive

(* Answers come or time out, and timers fire.                                  *)
Progress(i) ==
  /\ i \in DOMAIN sends
  /\ \/ Post(i) \/ TimerFires(i)
     \/ \E works \in BOOLEAN : InfraAnswers(i, works) \/ BuildAnswers(i, works) \/ PostAnswers(i, works)

Answers ==
  \/ \E works \in BOOLEAN : RecipesAnswer(works)
  \/ \E works \in BOOLEAN, image \in {"recipe", Unset}, tp \in {0, Need} :
       RecipeResolved(works, image, tp)
  \/ \E i \in 1..MaxSends : Progress(i)
  \/ Navigate

Next == Edits \/ Deliveries \/ Answers \/ \E button \in BOOLEAN : Submit(button)

Spec == Init /\ [][Next]_fvars

-----------------------------------------------------------------------------
TypeOK ==
  /\ form.runtime \in Runtimes /\ form.provider \in Runtimes
  /\ form.gpu \in Nat /\ form.nodes \in Nat \ {0} /\ form.pp \in Nat
  /\ form.image \in Images \cup {Unset} /\ form.text \in Images \cup {Unset}
  /\ status \in {"idle", "validating", "submitting", "success", "error", "left"}

(* Once the user has chosen the runtime, what only Dynamo has is only there    *)
(* for Dynamo: storage volumes, a router mode, and, for vLLM in the aggregated *)
(* mode, multi-node overrides with the parallelism arguments that match them.  *)
(* With Direct vLLM chosen, by whoever, what would be deployed is what the     *)
(* page shows: the image under "Selected image", one engine, one mode, a GPU.  *)
(* And an image, a model source or the provenance of a recipe only ever go     *)
(* with the provider they belong to: the form names another provider than the  *)
(* page shows only when a recipe was answered after the page went elsewhere,   *)
(* and then it is wholly one of Direct vLLM.  (Nothing is said of the engine's *)
(* other arguments, the extra arguments and the environment: a choice of the   *)
(* runtime leaves those of a recipe, or of AI Configurator, where they are.)   *)
SettingsFitTheRuntime ==
  /\ form.manual =>
       /\ form.storage \/ form.router # "default" => form.runtime = "dynamo"
       /\ form.nodes > 1 => /\ form.runtime = "dynamo" /\ form.mode = "aggregated"
                            /\ form.engine = "vllm" /\ form.pp = form.nodes /\ form.tp > 0
  /\ form.runtime = "vllm" =>
       /\ form.provider = "vllm" /\ form.engine = "vllm" /\ form.source = "vllm"
       /\ form.mode = "aggregated" /\ form.image = DirectRef(form) /\ form.gpu >= 1
  /\ form.provider # form.runtime => form.provider = "vllm" /\ form.recipe # Unset
  /\ form.provider # "vllm" => form.recipe = Unset /\ form.source = Unset /\ form.image = Unset

(* The request that the button sends is the one the preview showed, but for    *)
(* the image that is built for it.                                             *)
PreviewIsWhatIsSent ==
  [][\A i \in DOMAIN sends' :
       LET s == sends'[i] IN
       s.button => s.body = [s.shown EXCEPT !.image = IF s.body.image = "built" THEN "built" ELSE @]]_fvars

(* "manual topology edits do not trigger this effect and get snapped back": a   *)
(* GPU count the user types stays, whatever effects run after it, unless it is  *)
(* what ends the configuration AI Configurator made.                            *)
ManualEditStays == [][\A n \in 1..Need : SetGpu(n) /\ ~form.managed => form'.gpu = n]_fvars
=============================================================================
