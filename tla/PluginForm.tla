------------------------------ MODULE PluginForm ------------------------------
(* The Headlamp plugin's page that deploys a model, CreateDeployment.tsx: the  *)
(* settings and what resets them, the manifest it shows, what it sends, and    *)
(* the object toModelDeploymentManifest of the shared types makes of both.     *)
EXTENDS Naturals, Sequences, FiniteSets

CONSTANTS
  Offered,    \* the runtimes of the page, in the order it tries them
  EnginesOf,  \* RUNTIME_ENGINES
  Models,     \* what a model may be: its supportedEngines, a sequence
  Advised,    \* the GPU count its memory calls for
  GpuCounts,  \* bound: the GPU counts a user enters
  MaxChanges  \* bound: settings changed by the user

PluginAssumption ==
  /\ DOMAIN Offered \subseteq Nat /\ {"kaito"} \subseteq {Offered[k] : k \in DOMAIN Offered}
  /\ Advised \in Nat \ {0} /\ GpuCounts \subseteq Nat

Nothing == "nothing"

VARIABLES
  view,      \* "loading", "empty" or "form"
  engines,   \* the supportedEngines of the model
  healthy,   \* the runtimes reported healthy
  pf,        \* the settings of the form
  shown,     \* the manifest on the page, a set of at most one
  hfSecret,  \* hfSecretConfigured
  sending,   \* submitting
  sent,      \* the object the last submission asked for, likewise
  changed    \* settings changed so far

gvars == <<view, engines, healthy, pf, shown, hfSecret, sending, sent, changed>>

RuntimeIds == {Offered[k] : k \in DOMAIN Offered}
Splits(runtime) == runtime \in {"dynamo", "llmd"}
Offers(runtime, engine) == engine \in EnginesOf[runtime]
Compatible(runtime) == \E k \in DOMAIN engines : Offers(runtime, engines[k])
AvailableEngines(runtime) == LET fits(e) == Offers(runtime, e) IN SelectSeq(engines, fits)
Within(engine, list) == \E k \in DOMAIN list : list[k] = engine

(* buildCurrentConfig.  On KAITO llama.cpp without GPUs runs on the CPU.       *)
Config(form, secret) ==
  [provider |-> form.runtime, engine |-> form.engine, gpu |-> form.gpu, args |-> form.args,
   mode |-> IF Splits(form.runtime) THEN form.mode ELSE "aggregated",
   source |-> CASE form.runtime = "kaito" /\ form.engine = "vllm"     -> "vllm"
                [] form.runtime = "kaito" /\ form.engine = "llamacpp" -> "huggingface"
                [] OTHER                                              -> Nothing,
   cpu |-> form.runtime = "kaito" /\ form.engine = "llamacpp" /\ form.gpu = 0,
   storage |-> form.storage, secret |-> secret,
   name |-> form.name, namespace |-> form.namespace]

(* resolveEngineType.                                                          *)
EngineType(config) ==
  CASE config.provider = "kaito" /\ config.source = "vllm"                      -> "vllm"
    [] config.provider = "kaito" /\ config.source \in {"huggingface", "premade"} -> "llamacpp"
    [] OTHER -> config.engine

(* toModelDeploymentSpec: a split deployment has no GPU count of its own, and  *)
(* a count of zero is only written down for the CPU.                           *)
ToManifest(config) ==
  [name |-> config.name, namespace |-> config.namespace, provider |-> config.provider,
   engine |-> EngineType(config), mode |-> config.mode, args |-> config.args,
   storage |-> config.storage, secret |-> config.secret,
   scaling |-> IF config.mode = "aggregated" THEN "replicas" ELSE "prefill and decode",
   gpu |-> IF config.mode # "aggregated" \/ (config.gpu = 0 /\ ~config.cpu) THEN {}
           ELSE IF config.cpu THEN {0} ELSE {config.gpu}]

Manifest(form, secret) == ToManifest(Config(form, secret))

-----------------------------------------------------------------------------
(* The effect that sets the defaults runs again with every change of the name: *)
(* an empty name is generated anew and the GPU count is the advised one again. *)
Defaults(form) ==
  [form EXCEPT !.name = IF form.name = "" THEN "generated" ELSE form.name, !.gpu = Advised]

(* handleRuntimeChange: the namespace becomes the default one of the runtime.  *)
FirstFit(form, runtime) ==
  LET fits == AvailableEngines(runtime) IN
  IF fits # << >> /\ ~Within(form.engine, fits) THEN fits[1] ELSE form.engine
OnRuntime(form, runtime) ==
  [form EXCEPT !.runtime = runtime, !.namespace = runtime, !.engine = FirstFit(form, runtime),
               !.mode = IF Splits(runtime) THEN @ ELSE "aggregated"]

(* The effect that picks the first runtime that is healthy and compatible.     *)
Picks == {k \in DOMAIN Offered : Offered[k] \in healthy /\ Compatible(Offered[k])}
Initial(form) ==
  IF Picks = {} THEN form
  ELSE LET k == CHOOSE j \in Picks : \A i \in Picks : j <= i
       IN  [form EXCEPT !.runtime = Offered[k], !.namespace = Offered[k],
                                !.engine = AvailableEngines(Offered[k])[1]]

(* The effect that shows the manifest runs after every change it depends on.   *)
Preview(form, secret) == IF form.preview THEN {Manifest(form, secret)} ELSE shown
Becomes(form, secret) == pf' = form /\ hfSecret' = secret /\ shown' = Preview(form, secret)

(* loadData: the runtimes, then the model.                                     *)
Load(works) ==
  /\ view = "loading"
  /\ view' = IF works THEN "form" ELSE "empty"
  /\ Becomes(IF works THEN Defaults(Initial(pf)) ELSE pf, hfSecret)
  /\ UNCHANGED <<engines, healthy, sending, sent, changed>>

(* The answer about the secret arrives whenever it does.                       *)
SecretStatus ==
  /\ view # "empty" /\ ~hfSecret /\ Becomes(pf, TRUE)
  /\ UNCHANGED <<view, engines, healthy, sending, sent, changed>>

Change(form) ==
  /\ view = "form" /\ changed < MaxChanges /\ changed' = changed + 1
  /\ form # pf /\ Becomes(form, hfSecret)
  /\ UNCHANGED <<view, engines, healthy, sending, sent>>

ChooseRuntime(runtime) == Compatible(runtime) /\ Change(OnRuntime(pf, runtime))
ChooseEngine(engine) ==
  /\ pf.runtime # "kaito" /\ Within(engine, AvailableEngines(pf.runtime))
  /\ Change([pf EXCEPT !.engine = engine])
ChooseMode(mode) == Splits(pf.runtime) /\ Change([pf EXCEPT !.mode = mode])
SetGpu(n) == pf.mode = "aggregated" /\ Change([pf EXCEPT !.gpu = n])
SetName(name) == Change(Defaults([pf EXCEPT !.name = name]))
SetNamespace == Change([pf EXCEPT !.namespace = "own"])
SetStorage(on) == Change([pf EXCEPT !.storage = on])
SetArgs(on) == Change([pf EXCEPT !.args = on])
ShowManifest == Change([pf EXCEPT !.preview = ~@])

-----------------------------------------------------------------------------
(* handleSubmit, behind a button that waits for a healthy runtime and a name.  *)
Submit ==
  /\ view = "form" /\ ~sending /\ pf.runtime \in healthy /\ pf.name # ""
  /\ sending' = TRUE /\ sent' = {Manifest(pf, hfSecret)}
  /\ UNCHANGED <<view, engines, healthy, pf, shown, hfSecret, changed>>

(* On success the list of deployments is shown, on an error the form stays.    *)
Answered(works) ==
  /\ sending /\ sending' = FALSE
  /\ view' = IF works THEN "empty" ELSE view
  /\ UNCHANGED <<engines, healthy, pf, shown, hfSecret, sent, changed>>

Init ==
  /\ view = "loading" /\ engines \in Models /\ healthy \in SUBSET RuntimeIds
  /\ pf = [runtime |-> "kaito", engine |-> "vllm", namespace |-> "kaito", name |-> "", gpu |-> 1,
           mode |-> "aggregated", storage |-> FALSE, args |-> FALSE, preview |-> FALSE]
  /\ shown = {} /\ hfSecret = FALSE /\ sending = FALSE /\ sent = {} /\ changed = 0

Next ==
  \/ \E works \in BOOLEAN : Load(works) \/ Answered(works)
  \/ SecretStatus \/ ShowManifest \/ SetNamespace \/ Submit
  \/ \E runtime \in RuntimeIds : ChooseRuntime(runtime)
  \/ \E k \in DOMAIN engines : ChooseEngine(engines[k])
  \/ \E mode \in {"aggregated", "disaggregated"} : ChooseMode(mode)
  \/ \E n \in GpuCounts : SetGpu(n)
  \/ \E name \in {"", "own"} : SetName(name)
  \/ \E on \in BOOLEAN : SetStorage(on) \/ SetArgs(on)

Spec == Init /\ [][Next]_gvars

-----------------------------------------------------------------------------
TypeOK ==
  /\ view \in {"loading", "empty", "form"} /\ engines \in Models /\ healthy \subseteq RuntimeIds
  /\ pf.runtime \in RuntimeIds /\ pf.mode \in {"aggregated", "disaggregated"}
  /\ hfSecret \in BOOLEAN /\ sending \in BOOLEAN /\ changed \in 0..MaxChanges

(* What is sent while the manifest is on the page is the manifest on the page, *)
(* whatever arrived or was changed since it was first shown.                   *)
ManifestIsWhatIsSent ==
  [][sent' # sent /\ pf.preview => sent' = shown]_gvars
=============================================================================
