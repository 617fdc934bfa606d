------------------------- MODULE ModelDeploymentAPI -------------------------
(***************************************************************************)
(* The API objects the control plane works on, and the pure functions its  *)
(* controllers apply to them: what the admission webhook admits, what one  *)
(* pass of the core controller writes into a status, what one pass of the  *)
(* KAITO shim writes into a status, and what a JSON merge patch does.      *)
(*                                                                         *)
(* Messages, reasons and timestamps are left out; a condition is its       *)
(* status.  An absent object is a record of its own kind (uid or owner 0), *)
(* so that every variable ranges over one set of records.                  *)
(***************************************************************************)
EXTENDS Integers

CONSTANTS
  Providers,   \* names of the registered InferenceProviderConfigs
  Self,        \* the provider whose shim is modelled (ProviderName, "kaito")
  NoProv,      \* an empty provider name
  Rank,        \* selection order: by rule priority, then by name
  Shapes,      \* what of a spec the shim tells apart
  MaxUid,      \* bound: incarnations of the ModelDeployment
  MaxGen       \* bound: metadata.generation of one incarnation

ASSUME ProvidersAssumption ==
  /\ Self \in Providers
  /\ NoProv \notin Providers
  /\ Rank \in [Providers -> Nat]

\* Every choice of providers has exactly one of lowest rank: the loop over the
\* candidates, whose tie-break is the name, ends with it.
ASSUME RankAssumption ==
  /\ \A p, q \in Providers : Rank[p] = Rank[q] => p = q
  /\ \A C \in SUBSET Providers :
       C # {} => \E p \in C : \A q \in C : Rank[p] <= Rank[q]

\* "incompatible" fails the shim's validateCompatibility (llamacpp with its
\* image removed), "unrenderable" its Transform.
ASSUME ShapesAssumption ==
  "good" \in Shapes /\ Shapes \subseteq {"good", "incompatible", "unrenderable"}

ASSUME BoundsAssumption == MaxUid \in Nat \ {0} /\ MaxGen \in Nat \ {0}

-----------------------------------------------------------------------------
(* Types *)

Phases    == {"", "Pending", "Deploying", "Running", "Failed", "Terminating"}
Tri       == {"Unknown", "True", "False"}
ProvNames == Providers \cup {NoProv}
Uids      == 1..MaxUid
Foreign   == MaxUid + 1    \* the owner of a Workspace no ModelDeployment made

\* gen is the observedGeneration the core stamps on its conditions.
Conditions == [val : Tri, sel : Tri, compat : Tri, created : Tri, ready : Tri,
               gen : 0..MaxGen]

Statuses == [phase : Phases, prov : ProvNames, obs : 0..MaxGen, ep : BOOLEAN,
             conds : Conditions]

ModelDeployments ==
  [uid : 0..MaxUid, gen : 1..MaxGen, prov : ProvNames, shape : Shapes,
   deleting : BOOLEAN, paused : BOOLEAN, fin : BOOLEAN, st : Statuses]

WsStates == {"none", "NotReady", "Ready", "Failed"}

Workspaces == [owner : 0..Foreign, gen : 0..MaxGen, state : WsStates,
               deleting : BOOLEAN]

EmptyStatus ==
  [phase |-> "", prov |-> NoProv, obs |-> 0, ep |-> FALSE,
   conds |-> [val |-> "Unknown", sel |-> "Unknown", compat |-> "Unknown",
              created |-> "Unknown", ready |-> "Unknown", gen |-> 0]]

\* A ModelDeployment as the API server stores it right after its creation.
NewMD(u, p, s) ==
  [uid |-> u, gen |-> 1, prov |-> p, shape |-> s, deleting |-> FALSE,
   paused |-> FALSE, fin |-> FALSE, st |-> EmptyStatus]

Absent    == NewMD(0, NoProv, "good")
Exists(o) == o.uid # 0

NoWs == [owner |-> 0, gen |-> 0, state |-> "none", deleting |-> FALSE]
WsExists(w) == w.owner # 0

NewWs(o) == [owner |-> o.uid, gen |-> o.gen, state |-> "none",
             deleting |-> FALSE]

\* A Workspace its operator has seen carries the operator's own finalizer: a
\* delete only marks it.  One the operator never saw goes at once.
Deleted(w) == IF w.state = "none" THEN NoWs ELSE [w EXCEPT !.deleting = TRUE]

-----------------------------------------------------------------------------
(* The validating webhook *)

\* CheckProviderCompatibility, shared by the webhook and the core: a spec that
\* names a provider needs one whose capabilities cover its engine.
Compatibility(o, supported) == o.prov = NoProv \/ o.prov \in supported

\* provider.name is immutable once set, in the spec or by selection in the
\* status; clearing it is always admitted.
KeepsProvider(o, p) ==
  LET old == IF o.prov # NoProv THEN o.prov ELSE o.st.prov
  IN  old = NoProv \/ p = NoProv \/ p = old

-----------------------------------------------------------------------------
(* The core controller *)

\* runSelectionAlgorithm: the candidate of the lowest rank.
SelectBest(candidates) ==
  CHOOSE p \in candidates : \A q \in candidates : Rank[p] <= Rank[q]

\* selectProvider: neither the spec nor the status names a provider yet.
NeedsSelection(o) == o.prov = NoProv /\ o.st.prov = NoProv

\* The status the core computes from an object it read, given the providers
\* that are ready and those whose capabilities cover the engine.
CoreStatus(o, ready, supported) ==
  LET seen == [o.st EXCEPT !.obs = o.gen,
                           !.phase = IF @ = "" THEN "Pending" ELSE @,
                           !.conds.gen = o.gen]
      valid == [seen EXCEPT !.conds.val = "True"]
      candidates == ready \cap supported
  IN  IF ~Compatibility(o, supported)
      THEN [seen EXCEPT !.conds.val = "False", !.phase = "Failed"]
      ELSE IF NeedsSelection(o)
      THEN IF candidates = {}
           THEN [valid EXCEPT !.conds.sel = "False"]
           ELSE [valid EXCEPT !.prov = SelectBest(candidates),
                              !.conds.sel = "True"]
      ELSE IF o.prov # NoProv /\ o.st.prov \notin {NoProv, o.prov}
      THEN [valid EXCEPT !.conds.sel = "False", !.phase = "Failed"]
      ELSE IF o.st.prov = NoProv
      THEN [valid EXCEPT !.prov = o.prov, !.conds.sel = "True"]
      ELSE valid

\* Status().Patch(MergeFrom(base)): the fields that differ from the object
\* that was read are sent and replace the live ones, whatever those are now.
\* The conditions are one array, hence one field.
Changed(base, new, live) == IF new = base THEN live ELSE new

MergePatch(base, new, live) ==
  [phase |-> Changed(base.phase, new.phase, live.phase),
   prov  |-> Changed(base.prov, new.prov, live.prov),
   obs   |-> Changed(base.obs, new.obs, live.obs),
   ep    |-> Changed(base.ep, new.ep, live.ep),
   conds |-> Changed(base.conds, new.conds, live.conds)]

-----------------------------------------------------------------------------
(* The KAITO shim *)

Incompatible(s) == [s EXCEPT !.conds.compat = "False", !.phase = "Failed"]
Compatible(s)   == [s EXCEPT !.conds.compat = "True"]
Unhealthy(s)    == [Compatible(s) EXCEPT !.conds.ready = "False"]

\* A render, schema, ownership or definite write failure fails closed.
FailClosed(s) ==
  [s EXCEPT !.conds.created = "False", !.conds.ready = "False",
            !.ep = FALSE, !.phase = "Failed"]

\* A retryable write failure on a Workspace last seen serving.
KeepServing(s) == [s EXCEPT !.conds.created = "False"]

\* TranslateStatus: the phase of a Workspace's state.
PhaseOf(state) ==
  CASE state = "Ready"    -> "Running"
    [] state = "NotReady" -> "Deploying"
    [] state = "Failed"   -> "Failed"
    [] OTHER              -> "Pending"

\* syncStatus: copy the Workspace's phase and endpoint.
Synced(s, w) ==
  IF WsExists(w)
  THEN [s EXCEPT !.phase = PhaseOf(w.state), !.ep = (w.state # "none"),
                 !.conds.ready = IF w.state = "Ready" THEN "True" ELSE "False"]
  ELSE s

\* Mutant: the Workspace's state is passed on as if it were a phase.
ReconciledUntranslated(s, w) == [Synced(s, w) EXCEPT !.phase = w.state]

\* A reconcile that reached the end: the Workspace is there, and a phase that
\* is neither Running nor Failed becomes Deploying.
Reconciled(s, w) ==
  LET t == Synced([s EXCEPT !.conds.created = "True"], w)
  IN  IF t.phase \in {"Running", "Failed"}
      THEN t ELSE [t EXCEPT !.phase = "Deploying"]

\* SetupWithManager's event filter.
ShimWatches(o) == Exists(o) /\ (o.st.prov = Self \/ o.prov = Self \/ o.fin)

\* Mutant: only the objects bound to p are mapped, not the waiting ones.
AffectsBoundOnly(p, o) == Exists(o) /\ (o.prov = p \/ o.st.prov = p)

\* mapProviderConfigToModelDeployments: does a change of p's config concern o?
Affects(p, o) ==
  Exists(o) /\ (o.prov = p \/ o.st.prov = p \/ NeedsSelection(o))
=============================================================================
