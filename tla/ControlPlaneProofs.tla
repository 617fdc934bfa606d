------------------------- MODULE ControlPlaneProofs -------------------------
(***************************************************************************)
(* Safety of ControlPlane for every number of providers, incarnations,     *)
(* generations and disturbances, and that it implements GuardedResource.   *)
(***************************************************************************)
EXTENDS ControlPlane, TLAPS

-----------------------------------------------------------------------------
(* The inductive invariant *)

\* What an old copy of the object says about the object itself: incarnations
\* are numbered in order, and within one of them the finalizer and the
\* deletion timestamp stay once they are set.
Older(c) ==
  /\ c.uid <= uids
  /\ Exists(c) /\ c.uid = md.uid =>
       /\ c.fin => md.fin
       /\ c.deleting => md.deleting

Incarnations ==
  /\ md.uid \in {0, uids}
  /\ Older(shimCache)
  /\ Older(shimSnap)

\* What the two flags stand for.
FlagsTrue ==
  /\ shimCacheFresh => shimCache = md
  /\ shimFresh =>
       /\ Exists(md)
       /\ shimSnap.uid = md.uid
       /\ shimSnap.deleting = md.deleting
       /\ CoreFields(shimSnap) = CoreFields(md)

DeletionPcs == {"terminate", "find", "delete", "release"}
WorkspacePcs == {"get", "create", "patch", "patchServing", "sync"}

\* The object a pass works on, by the step it has come to.
SnapByPc ==
  /\ shimPc = "idle" => shimSnap = Absent /\ ~shimFresh
  /\ shimPc # "idle" => Exists(shimSnap)
  /\ shimPc \in WorkspacePcs => shimSnap.fin
  /\ shimPc \in DeletionPcs => shimSnap.deleting /\ shimSnap.fin
  /\ shimPc = "finalize" => ~shimSnap.deleting

\* No Workspace has an owner that does not exist yet.
OwnersKnown == ws.owner \in 0..uids \cup {Foreign}

\* The shim is about to remove the finalizer: the clean-up is over.
ReleaseClean ==
  shimPc = "release" /\ shimSnap.uid = md.uid => ws.owner # md.uid \/ timedOut

IInv ==
  /\ TypeOK
  /\ Incarnations
  /\ FlagsTrue
  /\ SnapByPc
  /\ OwnersKnown
  /\ WorkspaceGuarded
  /\ ReleaseClean
-----------------------------------------------------------------------------
(* The operators of ModelDeploymentAPI stay within the types *)

LEMMA Constants ==
  /\ MaxUid \in Nat /\ MaxUid >= 1 /\ MaxGen \in Nat /\ MaxGen >= 1
  /\ Foreign \in Nat /\ Foreign > MaxUid
  /\ MaxDisturbances \in Nat
BY BoundsAssumption, InstanceAssumption DEF Foreign

LEMMA EmptyTypes ==
  /\ EmptyStatus \in Statuses
  /\ NoWs \in Workspaces
  /\ \A u \in 0..MaxUid, p \in ProvNames, s \in Shapes :
       NewMD(u, p, s) \in ModelDeployments
  /\ Absent \in ModelDeployments
<1>1. EmptyStatus \in Statuses
  BY Constants DEF EmptyStatus, Statuses, Conditions, Phases, Tri, ProvNames
<1>2. NoWs \in Workspaces
  BY Constants DEF NoWs, Workspaces, WsStates
<1>3. \A u \in 0..MaxUid, p \in ProvNames, s \in Shapes :
        NewMD(u, p, s) \in ModelDeployments
  BY <1>1, Constants DEF NewMD, ModelDeployments
<1>4. Absent \in ModelDeployments
  BY <1>3, Constants, ShapesAssumption DEF Absent, ProvNames
<1> QED BY <1>1, <1>2, <1>3, <1>4

\* The selection picks one of its candidates.
LEMMA SelectBestType ==
  ASSUME NEW C \in SUBSET Providers, C # {}
  PROVE  SelectBest(C) \in C
<1>1. \E p \in C : \A q \in C : Rank[p] <= Rank[q]
  BY RankAssumption
<1> QED BY <1>1 DEF SelectBest

LEMMA CoreStatusType ==
  ASSUME NEW o \in ModelDeployments,
         NEW r \in SUBSET Providers, NEW c \in SUBSET Providers
  PROVE  CoreStatus(o, r, c) \in Statuses
<1> DEFINE seen == [o.st EXCEPT !.obs = o.gen,
                                !.phase = IF @ = "" THEN "Pending" ELSE @,
                                !.conds.gen = o.gen]
           valid == [seen EXCEPT !.conds.val = "True"]
<1>1. seen \in Statuses /\ valid \in Statuses
  <2>1. o.st \in Statuses /\ o.gen \in 0..MaxGen
    BY Constants DEF ModelDeployments
  <2>2. \A g \in 0..MaxGen, ph \in Phases, s \in Statuses :
          [s EXCEPT !.obs = g, !.phase = ph, !.conds.gen = g] \in Statuses
    BY DEF Statuses, Conditions
  <2>3. (IF o.st.phase = "" THEN "Pending" ELSE o.st.phase) \in Phases
    BY <2>1 DEF Statuses, Phases
  <2>4. seen \in Statuses
    BY <2>1, <2>2, <2>3
  <2> HIDE DEF seen
  <2>5. valid \in Statuses
    BY <2>4 DEF Statuses, Conditions, Tri
  <2> QED BY <2>4, <2>5
<1>2. /\ [seen EXCEPT !.conds.val = "False", !.phase = "Failed"] \in Statuses
      /\ [valid EXCEPT !.conds.sel = "False"] \in Statuses
      /\ [valid EXCEPT !.conds.sel = "False", !.phase = "Failed"] \in Statuses
      /\ \A p \in ProvNames :
           [valid EXCEPT !.prov = p, !.conds.sel = "True"] \in Statuses
  <2> HIDE DEF seen, valid
  <2> QED BY <1>1 DEF Statuses, Conditions, Phases, Tri
<1>3. o.prov \in ProvNames
  BY DEF ModelDeployments
<1>4. r \cap c # {} => SelectBest(r \cap c) \in ProvNames
  BY SelectBestType DEF ProvNames
<1>5. CoreStatus(o, r, c) =
        IF ~Compatibility(o, c)
        THEN [seen EXCEPT !.conds.val = "False", !.phase = "Failed"]
        ELSE IF NeedsSelection(o)
        THEN IF r \cap c = {}
             THEN [valid EXCEPT !.conds.sel = "False"]
             ELSE [valid EXCEPT !.prov = SelectBest(r \cap c),
                                !.conds.sel = "True"]
        ELSE IF o.prov # NoProv /\ o.st.prov \notin {NoProv, o.prov}
        THEN [valid EXCEPT !.conds.sel = "False", !.phase = "Failed"]
        ELSE IF o.st.prov = NoProv
        THEN [valid EXCEPT !.prov = o.prov, !.conds.sel = "True"]
        ELSE valid
  BY Zenon DEF CoreStatus
<1> HIDE DEF seen, valid
<1> QED BY <1>1, <1>2, <1>3, <1>4, <1>5

LEMMA MergePatchType ==
  ASSUME NEW base \in Statuses, NEW new \in Statuses, NEW live \in Statuses
  PROVE  MergePatch(base, new, live) \in Statuses
BY DEF MergePatch, Changed, Statuses

\* What the shim computes stays a status, and keeps the core's fields of it.
Kept(s, t) ==
  /\ t \in Statuses
  /\ t.prov = s.prov /\ t.obs = s.obs
  /\ t.conds.val = s.conds.val /\ t.conds.sel = s.conds.sel

LEMMA ShimStatusesKeep ==
  ASSUME NEW s \in Statuses, NEW w \in Workspaces
  PROVE  /\ Kept(s, Incompatible(s)) /\ Kept(s, Compatible(s))
         /\ Kept(s, Unhealthy(s)) /\ Kept(s, FailClosed(s))
         /\ Kept(s, FailClosed(Compatible(s)))
         /\ Kept(s, KeepServing(s)) /\ Kept(s, Reconciled(s, w))
         /\ Kept(s, [s EXCEPT !.phase = "Terminating"])
<1> USE DEF Kept, Statuses, Conditions, Phases, Tri
<1>1. Kept(s, Incompatible(s)) /\ Kept(s, Compatible(s))
  BY DEF Incompatible, Compatible
<1>2. Kept(s, Unhealthy(s))
  BY DEF Unhealthy, Compatible
<1>3. Kept(s, FailClosed(s)) /\ Kept(s, FailClosed(Compatible(s)))
  BY DEF FailClosed, Compatible
<1>4. Kept(s, KeepServing(s)) /\ Kept(s, [s EXCEPT !.phase = "Terminating"])
  BY DEF KeepServing
<1>5. Kept(s, Reconciled(s, w))
  <2> DEFINE c == [s EXCEPT !.conds.created = "True"]
  <2>1. Kept(s, c)
    OBVIOUS
  <2>2. PhaseOf(w.state) \in Phases
    BY DEF PhaseOf
  <2>3. Kept(s, Synced(c, w))
    <3> DEFINE ph == PhaseOf(w.state)
               ep == w.state # "none"
               rd == IF w.state = "Ready" THEN "True" ELSE "False"
    <3>1. Synced(c, w) = IF WsExists(w)
                         THEN [c EXCEPT !.phase = ph, !.ep = ep,
                                        !.conds.ready = rd]
                         ELSE c
      BY Zenon DEF Synced
    <3>2. ph \in Phases /\ ep \in BOOLEAN /\ rd \in Tri
      BY <2>2
    <3> HIDE DEF c, ph, ep, rd
    <3>3. Kept(s, [c EXCEPT !.phase = ph, !.ep = ep, !.conds.ready = rd])
      BY <2>1, <3>2
    <3> HIDE DEF Kept, Statuses
    <3> QED BY <2>1, <3>1, <3>3
  <2> DEFINE t == Synced(c, w)
  <2>4. Reconciled(s, w) = IF t.phase \in {"Running", "Failed"}
                           THEN t ELSE [t EXCEPT !.phase = "Deploying"]
    BY Zenon DEF Reconciled
  <2> HIDE DEF t
  <2>5. Kept(s, t) /\ Kept(s, [t EXCEPT !.phase = "Deploying"])
    BY <2>3 DEF t
  <2> HIDE DEF Kept, Statuses
  <2> QED BY <2>4, <2>5
<1> QED BY <1>1, <1>2, <1>3, <1>4, <1>5

LEMMA RouteType ==
  ASSUME NEW o \in ModelDeployments
  PROVE  /\ ShimRoute(o).pc \in ShimPcs \ {"idle", "release"}
         /\ Kept(o.st, ShimRoute(o).st)
         /\ [o EXCEPT !.st = ShimRoute(o).st] \in ModelDeployments
<1>1. o.st \in Statuses
  BY DEF ModelDeployments
<1>2. /\ Kept(o.st, o.st)
      /\ Kept(o.st, Incompatible(o.st)) /\ Kept(o.st, Compatible(o.st))
      /\ Kept(o.st, Unhealthy(o.st))
      /\ Kept(o.st, FailClosed(Compatible(o.st)))
      /\ Kept(o.st, [o.st EXCEPT !.phase = "Terminating"])
  <2>1. Kept(o.st, o.st)
    BY <1>1 DEF Kept
  <2> QED BY <2>1, <1>1, EmptyTypes, ShimStatusesKeep
<1>3. Kept(o.st, ShimRoute(o).st)
  BY <1>2 DEF ShimRoute
<1>4. ShimRoute(o).pc \in ShimPcs \ {"idle", "release"}
  BY DEF ShimRoute, ShimPcs
<1>5. [o EXCEPT !.st = ShimRoute(o).st] \in ModelDeployments
  BY <1>3 DEF Kept, ModelDeployments
<1> QED BY <1>3, <1>4, <1>5

\* The statuses the later steps of a pass write into the shim's copy.
LEMMA SnapTypes ==
  ASSUME NEW o \in ModelDeployments, NEW w \in Workspaces
  PROVE  /\ [o EXCEPT !.st = FailClosed(@)] \in ModelDeployments
         /\ [o EXCEPT !.st = KeepServing(@)] \in ModelDeployments
         /\ [o EXCEPT !.st = Reconciled(@, w)] \in ModelDeployments
         /\ CoreFields([o EXCEPT !.st = FailClosed(@)]) = CoreFields(o)
         /\ CoreFields([o EXCEPT !.st = KeepServing(@)]) = CoreFields(o)
         /\ CoreFields([o EXCEPT !.st = Reconciled(@, w)]) = CoreFields(o)
<1>1. o.st \in Statuses
  BY DEF ModelDeployments
<1>2. /\ Kept(o.st, FailClosed(o.st))
      /\ Kept(o.st, KeepServing(o.st))
      /\ Kept(o.st, Reconciled(o.st, w))
  BY <1>1, ShimStatusesKeep
<1>3. ASSUME NEW t, Kept(o.st, t)
      PROVE  /\ [o EXCEPT !.st = t] \in ModelDeployments
             /\ CoreFields([o EXCEPT !.st = t]) = CoreFields(o)
  BY <1>3 DEF Kept, ModelDeployments, CoreFields
<1> QED BY <1>2, <1>3

LEMMA WorkspaceTypes ==
  ASSUME NEW w \in Workspaces
  PROVE  /\ Deleted(w) \in Workspaces
         /\ Deleted(w).owner \in {0, w.owner}
         /\ \A o \in ModelDeployments : NewWs(o) \in Workspaces
         /\ \A g \in 0..MaxGen : [w EXCEPT !.gen = g] \in Workspaces
         /\ \A x \in WsStates : [w EXCEPT !.state = x] \in Workspaces
         /\ [NoWs EXCEPT !.owner = Foreign] \in Workspaces
<1> USE DEF Workspaces
<1>1. Deleted(w) \in Workspaces /\ Deleted(w).owner \in {0, w.owner}
  <2>1. [w EXCEPT !.deleting = TRUE] \in Workspaces
    OBVIOUS
  <2>2. NoWs.owner = 0
    BY DEF NoWs
  <2> HIDE DEF Workspaces
  <2> QED BY <2>1, <2>2, EmptyTypes DEF Deleted, Workspaces
<1>2. \A o \in ModelDeployments : NewWs(o) \in Workspaces
  <2>1. ASSUME NEW o \in ModelDeployments
        PROVE  o.uid \in 0..Foreign /\ o.gen \in 0..MaxGen
    BY Constants DEF ModelDeployments
  <2> QED BY <2>1 DEF NewWs, WsStates
<1>3. /\ \A g \in 0..MaxGen : [w EXCEPT !.gen = g] \in Workspaces
      /\ \A x \in WsStates : [w EXCEPT !.state = x] \in Workspaces
  OBVIOUS
<1>4. [NoWs EXCEPT !.owner = Foreign] \in Workspaces
  BY Constants, EmptyTypes
<1> QED BY <1>1, <1>2, <1>3, <1>4

\* Any replacement of a status by another leaves an object well formed.
LEMMA ObjectTypes ==
  ASSUME NEW o \in ModelDeployments
  PROVE  /\ \A s \in Statuses : [o EXCEPT !.st = s] \in ModelDeployments
         /\ \A b \in BOOLEAN : [o EXCEPT !.fin = b] \in ModelDeployments
         /\ [o EXCEPT !.paused = ~@] \in ModelDeployments
         /\ [o EXCEPT !.deleting = TRUE] \in ModelDeployments
         /\ \A q \in ProvNames, x \in Shapes :
              o.gen < MaxGen =>
                [o EXCEPT !.prov = q, !.shape = x, !.gen = @ + 1]
                  \in ModelDeployments
<1> USE DEF ModelDeployments
<1>1. \A s \in Statuses : [o EXCEPT !.st = s] \in ModelDeployments
  OBVIOUS
<1>2. \A b \in BOOLEAN : [o EXCEPT !.fin = b] \in ModelDeployments
  OBVIOUS
<1>3. /\ [o EXCEPT !.paused = ~@] \in ModelDeployments
      /\ [o EXCEPT !.deleting = TRUE] \in ModelDeployments
  OBVIOUS
<1>4. ASSUME NEW q \in ProvNames, NEW x \in Shapes, o.gen < MaxGen
      PROVE  [o EXCEPT !.prov = q, !.shape = x, !.gen = @ + 1]
               \in ModelDeployments
  <2>1. o.gen + 1 \in 1..MaxGen
    BY <1>4, Constants
  <2>2. \A g \in 1..MaxGen : [o EXCEPT !.prov = q, !.shape = x, !.gen = g]
                               \in ModelDeployments
    OBVIOUS
  <2> QED BY <2>1, <2>2
<1> QED BY <1>1, <1>2, <1>3, <1>4

-----------------------------------------------------------------------------
(* Type correctness *)

LEMMA TypeInit == Init => TypeOK
<1> SUFFICES ASSUME Init PROVE TypeOK
  OBVIOUS
<1>1. md \in ModelDeployments
  BY Constants, EmptyTypes DEF Init
<1>2. /\ uids \in 1..MaxUid /\ left \in 0..MaxDisturbances
      /\ ready \subseteq Providers /\ supported \subseteq Providers
  <2>1. /\ uids = 1 /\ left = MaxDisturbances
        /\ ready = ReadyAtStart /\ supported = Providers
    BY DEF Init
  <2> QED BY <2>1, Constants, InstanceAssumption
<1>3. corePc \in CorePcs /\ shimPc \in ShimPcs
  BY DEF Init, CorePcs, ShimPcs
<1> QED BY <1>1, <1>2, <1>3, EmptyTypes DEF Init, TypeOK

LEMMA LeftFalls ==
  ASSUME left \in 0..MaxDisturbances, NEW kind, Disturb(kind)
  PROVE  left' \in 0..MaxDisturbances
BY Constants DEF Disturb

LEMMA TypeStep == TypeOK /\ [Next]_vars => TypeOK'
<1> SUFFICES ASSUME TypeOK, [Next]_vars PROVE TypeOK'
  OBVIOUS
<1> USE DEF TypeOK, vars, apiVars, envVars, others, coreVars, shimVars
<1>1. CASE DeliverCore
  BY <1>1 DEF DeliverCore
<1>2. CASE DeliverShim
  BY <1>2 DEF DeliverShim, ShimWatches
<1>3. CASE CollectGarbage
  BY <1>3, WorkspaceTypes DEF CollectGarbage
<1>4. CASE FinalizerTimeout
  BY <1>4 DEF FinalizerTimeout
<1>5. CASE CoreStep
  <2>1. CASE CoreReconcile
    <3>1. /\ coreCache.st \in Statuses
          /\ CoreStatus(coreCache, ready, supported) \in Statuses
      BY CoreStatusType DEF ModelDeployments
    <3> QED BY <2>1, <3>1 DEF CoreReconcile, CorePcs
  <2>2. CASE CorePatch
    <3>1. [md EXCEPT !.st = MergePatch(coreBase, coreNew, @)]
            \in ModelDeployments
      BY MergePatchType, ObjectTypes DEF ModelDeployments
    <3> QED BY <2>2, <3>1, EmptyTypes DEF CorePatch, Store, CoreIdle, CorePcs
  <2>3. CASE CorePatchNotFound
    BY <2>3, EmptyTypes DEF CorePatchNotFound, CoreIdle, CorePcs
  <2> QED BY <1>5, <2>1, <2>2, <2>3 DEF CoreStep
<1>6. CASE ShimStep
  <2>1. CASE ShimReconcile
    BY <2>1, RouteType DEF ShimReconcile, ShimGoto
  <2>2. CASE ShimAddFinalizer
    BY <2>2, ObjectTypes, EmptyTypes
       DEF ShimAddFinalizer, ShimStore, ShimIdle, ShimPcs
  <2>3. ASSUME NEW pc, ShimRefused(pc) PROVE TypeOK'
    BY <2>3, EmptyTypes DEF ShimRefused, ShimIdle, ShimPcs
  <2>4. CASE ShimGet
    BY <2>4, SnapTypes DEF ShimGet, ShimGoto, ShimPcs
  <2>5. CASE ShimCreate
    <3>1. NewWs(shimSnap) \in Workspaces
      BY WorkspaceTypes
    <3>2. [shimSnap EXCEPT !.st = FailClosed(shimSnap.st)] \in ModelDeployments
      BY SnapTypes
    <3> QED BY <2>5, <3>1, <3>2 DEF ShimCreate, ShimFails, ShimGoto, ShimPcs
  <2>6. CASE ShimPatch
    <3>1. [ws EXCEPT !.gen = shimSnap.gen] \in Workspaces
      BY WorkspaceTypes, Constants DEF ModelDeployments
    <3>2. [shimSnap EXCEPT !.st = FailClosed(shimSnap.st)] \in ModelDeployments
      BY SnapTypes
    <3> QED BY <2>6, <3>1, <3>2 DEF ShimPatch, ShimFails, ShimGoto, ShimPcs
  <2>7. CASE ShimSync
    BY <2>7, SnapTypes DEF ShimSync, ShimGoto, ShimPcs
  <2>8. CASE ShimUpdateStatus
    <3>1. [md EXCEPT !.st = shimSnap.st] \in ModelDeployments
      BY ObjectTypes DEF ModelDeployments
    <3> QED BY <2>8, <3>1, EmptyTypes
            DEF ShimUpdateStatus, ShimStore, ShimIdle, ShimPcs
  <2>9. CASE ShimTerminate
    <3>1. [md EXCEPT !.st = shimSnap.st] \in ModelDeployments
      BY ObjectTypes DEF ModelDeployments
    <3> QED BY <2>9, <3>1 DEF ShimTerminate, ShimStore, ShimGoto, ShimPcs
  <2>10. CASE ShimFind
    BY <2>10 DEF ShimFind, ShimGoto, ShimPcs
  <2>11. CASE ShimDelete
    BY <2>11, WorkspaceTypes, EmptyTypes
       DEF ShimDelete, ShimGoto, ShimPcs, ShimIdle
  <2>12. CASE ShimRelease
    BY <2>12, ObjectTypes, EmptyTypes
       DEF ShimRelease, ShimStore, ShimIdle, ShimPcs
  <2> QED BY <1>6, <2>1, <2>2, <2>3, <2>4, <2>5, <2>6, <2>7, <2>8, <2>9,
             <2>10, <2>11, <2>12 DEF ShimStep
<1>7. CASE OperatorProgress
  BY <1>7, WorkspaceTypes DEF OperatorProgress, WsStates
<1>8. CASE OperatorFinalize
  BY <1>8, EmptyTypes DEF OperatorFinalize
<1>9. CASE OperatorUp
  BY <1>9 DEF OperatorUp
<1>10. CASE Environment
  <2>1. CASE UserCreate
    <3>1. uids + 1 \in 1..MaxUid
      BY <2>1, Constants DEF UserCreate
    <3>2. \A p \in ProvNames, s \in Shapes :
            NewMD(uids + 1, p, s) \in ModelDeployments
      BY <3>1, EmptyTypes, Constants
    <3> QED BY <2>1, <3>1, <3>2, LeftFalls DEF UserCreate, Store, ProvNames
  <2>2. CASE UserEdit
    <3>1. PICK p \in supported \cup {NoProv}, s \in Shapes :
            Store([md EXCEPT !.prov = p, !.shape = s, !.gen = @ + 1])
      BY <2>2 DEF UserEdit
    <3>2. md.gen < MaxGen /\ p \in ProvNames
      BY <2>2 DEF UserEdit, ProvNames
    <3>3. [md EXCEPT !.prov = p, !.shape = s, !.gen = @ + 1]
            \in ModelDeployments
      BY <3>2, ObjectTypes
    <3> QED BY <2>2, <3>1, <3>3, LeftFalls DEF UserEdit, Store
  <2>3. CASE UserPause
    BY <2>3, LeftFalls, ObjectTypes DEF UserPause, Store
  <2>4. CASE UserDelete
    BY <2>4, LeftFalls, ObjectTypes, EmptyTypes DEF UserDelete, Store
  <2>5. CASE UserDeleteWorkspace
    BY <2>5, LeftFalls, WorkspaceTypes DEF UserDeleteWorkspace
  <2>6. CASE UserCreateWorkspace
    BY <2>6, LeftFalls, WorkspaceTypes DEF UserCreateWorkspace
  <2>7. CASE ProviderToggle
    BY <2>7, LeftFalls DEF ProviderToggle
  <2>8. CASE ProviderCapabilities
    BY <2>8, LeftFalls DEF ProviderCapabilities
  <2>9. CASE OperatorDegrade
    BY <2>9, LeftFalls, WorkspaceTypes DEF OperatorDegrade, WsStates
  <2>10. CASE OperatorDown
    BY <2>10, LeftFalls DEF OperatorDown
  <2>11. CASE CorePatchFault
    BY <2>11, LeftFalls, EmptyTypes DEF CorePatchFault, CoreIdle, CorePcs
  <2>12. CASE CoreRestart
    BY <2>12, LeftFalls, EmptyTypes
       DEF CoreRestart, CoreIdle, CorePcs, Exists
  <2>13. CASE ShimGetFault
    <3>1. shimSnap' \in ModelDeployments /\ shimPc' \in ShimPcs
      BY <2>13, SnapTypes DEF ShimGetFault, ShimFails, ShimGoto, ShimPcs
    <3> QED BY <2>13, <3>1, LeftFalls DEF ShimGetFault
  <2>14. CASE ShimWriteFault
    <3>1. /\ NewWs(shimSnap) \in Workspaces
          /\ [ws EXCEPT !.gen = shimSnap.gen] \in Workspaces
      BY WorkspaceTypes, Constants DEF ModelDeployments
    <3>2. ws' \in Workspaces
      BY <2>14, <3>1 DEF ShimWriteFault
    <3>3. /\ shimSnap' \in ModelDeployments
          /\ shimPc' \in ShimPcs
      BY <2>14, SnapTypes DEF ShimWriteFault, ShimFails, ShimGoto, ShimPcs
    <3>4. left' \in 0..MaxDisturbances
      BY <2>14, LeftFalls DEF ShimWriteFault
    <3> QED BY <2>14, <3>2, <3>3, <3>4 DEF ShimWriteFault
  <2>15. CASE ShimSyncFault
    BY <2>15, LeftFalls, SnapTypes, EmptyTypes
       DEF ShimSyncFault, ShimGoto, ShimPcs
  <2>16. CASE ShimDeletionFault
    BY <2>16, LeftFalls, EmptyTypes
       DEF ShimDeletionFault, ShimGoto, ShimIdle, ShimPcs
  <2>17. CASE ShimUpdateFault
    BY <2>17, LeftFalls, EmptyTypes
       DEF ShimUpdateFault, ShimGoto, ShimIdle, ShimPcs
  <2>18. CASE ShimRestart
    BY <2>18, LeftFalls, EmptyTypes DEF ShimRestart, ShimWatches, ShimPcs
  <2> QED BY <1>10, <2>1, <2>2, <2>3, <2>4, <2>5, <2>6, <2>7, <2>8, <2>9,
             <2>10, <2>11, <2>12, <2>13, <2>14, <2>15, <2>16, <2>17, <2>18
          DEF Environment, ShimFault
<1>11. CASE UNCHANGED vars
  BY <1>11
<1> QED BY <1>1, <1>2, <1>3, <1>4, <1>5, <1>6, <1>7, <1>8, <1>9, <1>10, <1>11
        DEF Next

\* The type invariant holds in every state of every instance.
THEOREM TypeCorrect == Spec => []TypeOK
<1> QED BY TypeInit, TypeStep, PTL DEF Spec

-----------------------------------------------------------------------------
(* The inductive invariant holds *)

LEMMA InvInit == Init => IInv
<1> SUFFICES ASSUME Init PROVE IInv
  OBVIOUS
<1>1. /\ md.uid = 1 /\ uids = 1 /\ ws.owner = 0
      /\ shimCache.uid = 0 /\ shimSnap.uid = 0
      /\ shimPc = "idle" /\ shimSnap = Absent
      /\ ~shimFresh /\ ~shimCacheFresh
  BY DEF Init, NewMD, NoWs, Absent
<1>2. Incarnations /\ FlagsTrue
  BY <1>1 DEF Incarnations, Older, Exists, FlagsTrue
<1>3. SnapByPc /\ ReleaseClean
  BY <1>1 DEF SnapByPc, ReleaseClean, WorkspacePcs, DeletionPcs
<1>4. OwnersKnown /\ WorkspaceGuarded
  BY <1>1 DEF OwnersKnown, WorkspaceGuarded, WsExists
<1> QED BY <1>2, <1>3, <1>4, TypeInit DEF IInv

\* The object goes, is created anew, or keeps its finalizer and its deletion
\* timestamp.
Evolves ==
  \/ uids' = uids /\ ~Exists(md')
  \/ uids' = uids /\ md'.uid = md.uid
     /\ (md.fin => md'.fin) /\ (md.deleting => md'.deleting)
  \/ uids' = uids + 1 /\ ~Exists(md) /\ md'.uid = uids'

\* What everyone but the shim may do: the shim's own variables stay, a copy
\* left behind loses its flag, and nobody makes a Workspace of ours.
OutsideStep ==
  /\ UNCHANGED <<shimCache, shimSnap, shimPc>>
  /\ Evolves
  /\ shimFresh' => shimFresh /\ md' = md
  /\ shimCacheFresh' => shimCacheFresh /\ md' = md
  /\ ws'.owner \in {0, ws.owner, Foreign}
  /\ timedOut => timedOut'

\* The facts about the types that the arithmetic of the uids needs.
LEMMA UidTypes ==
  ASSUME TypeOK
  PROVE  /\ uids \in Nat /\ uids >= 1 /\ uids < Foreign
         /\ md.uid \in Nat /\ shimCache.uid \in Nat /\ shimSnap.uid \in Nat
         /\ md.uid # Foreign /\ ws.owner \in Nat
BY Constants DEF TypeOK, ModelDeployments, Workspaces

LEMMA OutsideKeeps == IInv /\ OutsideStep /\ TypeOK' => IInv'
<1> SUFFICES ASSUME IInv, OutsideStep, TypeOK' PROVE IInv'
  OBVIOUS
<1> USE DEF IInv
<1>1. /\ uids \in Nat /\ uids >= 1 /\ uids < Foreign /\ Foreign \in Nat
      /\ md.uid \in Nat /\ shimCache.uid \in Nat /\ shimSnap.uid \in Nat
      /\ ws.owner \in Nat
  BY UidTypes, Constants
<1>2. uids' \in Nat /\ uids' < Foreign /\ md'.uid \in Nat /\ md'.uid # Foreign
  BY Constants DEF TypeOK, ModelDeployments
<1>3. uids <= uids' /\ md'.uid \in {0, uids'}
  BY <1>1, <1>2 DEF Incarnations, OutsideStep, Evolves, Exists
<1>4. ASSUME NEW c, c.uid \in Nat, Older(c) PROVE
        /\ c.uid <= uids'
        /\ Exists(c) /\ c.uid = md'.uid =>
             (c.fin => md'.fin) /\ (c.deleting => md'.deleting)
  BY <1>1, <1>2, <1>4 DEF Older, OutsideStep, Evolves, Exists
<1>5. Incarnations'
  BY <1>1, <1>3, <1>4 DEF Incarnations, Older, OutsideStep, Exists
<1>6. FlagsTrue'
  BY DEF FlagsTrue, OutsideStep, Exists, CoreFields
<1>7. SnapByPc'
  BY DEF SnapByPc, OutsideStep, Exists
<1>8. OwnersKnown'
  BY <1>1, <1>2, <1>3 DEF OwnersKnown, OutsideStep
<1>9. WorkspaceGuarded'
  BY <1>1, <1>2
     DEF WorkspaceGuarded, WsExists, OutsideStep, Evolves, Exists, OwnersKnown
<1>10. ReleaseClean'
  <2> SUFFICES ASSUME shimPc = "release", shimSnap.uid = md'.uid, ~timedOut'
               PROVE  ws'.owner # md'.uid
    BY DEF ReleaseClean, OutsideStep
  <2>1. Exists(shimSnap)
    BY DEF SnapByPc
  <2>2. md'.uid = md.uid
    BY <2>1, <1>1, <1>2 DEF OutsideStep, Evolves, Incarnations, Older, Exists
  <2>3. ws.owner # md.uid
    BY <2>2 DEF ReleaseClean, OutsideStep
  <2> QED BY <2>1, <2>2, <2>3, <1>2 DEF OutsideStep, Exists
<1> QED BY <1>5, <1>6, <1>7, <1>8, <1>9, <1>10

OutsideActions ==
  \/ DeliverCore \/ CollectGarbage \/ FinalizerTimeout \/ CoreStep
  \/ OperatorProgress \/ OperatorFinalize \/ OperatorUp \/ OperatorDegrade
  \/ OperatorDown \/ CorePatchFault \/ CoreRestart \/ ProviderToggle
  \/ ProviderCapabilities
  \/ UserCreate \/ UserEdit \/ UserPause \/ UserDelete
  \/ UserDeleteWorkspace \/ UserCreateWorkspace

\* A step that leaves the object and the shim alone.
LEMMA QuietStep ==
  ASSUME IInv, UNCHANGED <<md, uids, shimVars>>,
         ws'.owner \in {0, ws.owner, Foreign}, timedOut => timedOut'
  PROVE  OutsideStep
BY DEF OutsideStep, Evolves, shimVars

\* A write of the core or of a user, and what the flags do.
LEMMA StoreStep ==
  ASSUME IInv, NEW new, Store(new), Evolves,
         UNCHANGED <<ws, timedOut, shimCache, shimSnap, shimPc>>
  PROVE  OutsideStep
BY DEF OutsideStep, Store

LEMMA OutsideSteps == IInv /\ OutsideActions => OutsideStep
<1> SUFFICES ASSUME IInv, OutsideActions PROVE OutsideStep
  OBVIOUS
<1> USE DEF apiVars, envVars, others, coreVars
<1>1. /\ md \in ModelDeployments /\ ws \in Workspaces
      /\ Deleted(ws).owner \in {0, ws.owner} /\ NoWs.owner = 0
  BY WorkspaceTypes DEF IInv, TypeOK, NoWs
<1>2. \A x \in WsStates : [ws EXCEPT !.state = x].owner = ws.owner
  BY <1>1 DEF Workspaces
<1>3. CASE DeliverCore \/ CoreReconcile \/ CorePatchNotFound
  BY <1>3, QuietStep DEF DeliverCore, CoreReconcile, CorePatchNotFound
<1>4. CASE CollectGarbage \/ UserDeleteWorkspace \/ OperatorFinalize
  BY <1>4, <1>1, QuietStep
     DEF CollectGarbage, UserDeleteWorkspace, OperatorFinalize
<1>5. CASE OperatorProgress \/ OperatorDegrade
  <2>1. ws'.owner = ws.owner
    BY <1>5, <1>2 DEF OperatorProgress, OperatorDegrade, WsStates
  <2> QED BY <1>5, <2>1, QuietStep DEF OperatorProgress, OperatorDegrade
<1>6. CASE UserCreateWorkspace
  <2>1. ws'.owner = Foreign
    BY <1>6 DEF UserCreateWorkspace, NoWs
  <2> QED BY <1>6, <2>1, QuietStep DEF UserCreateWorkspace
<1>7. CASE FinalizerTimeout \/ OperatorUp \/ OperatorDown
  BY <1>7, QuietStep DEF FinalizerTimeout, OperatorUp, OperatorDown
<1>8. CASE ProviderToggle \/ ProviderCapabilities
  BY <1>8, QuietStep DEF ProviderToggle, ProviderCapabilities
<1>9. CASE CorePatchFault \/ CoreRestart
  BY <1>9, QuietStep DEF CorePatchFault, CoreRestart
<1>10. CASE CorePatch
  <2> DEFINE new == [md EXCEPT !.st = MergePatch(coreBase, coreNew, @)]
  <2>1. Store(new) /\ UNCHANGED <<ws, timedOut, uids, shimCache, shimSnap, shimPc>>
    BY <1>10 DEF CorePatch
  <2>2. new.uid = md.uid /\ new.fin = md.fin /\ new.deleting = md.deleting
    BY <1>1 DEF ModelDeployments
  <2> HIDE DEF new
  <2>3. Evolves
    BY <2>1, <2>2 DEF Store, Evolves
  <2> QED BY <2>1, <2>3, StoreStep
<1>11. CASE UserCreate
  <2>1. PICK p \in supported \cup {NoProv}, s \in Shapes :
          Store(NewMD(uids + 1, p, s))
    BY <1>11 DEF UserCreate
  <2>2. Evolves
    BY <1>11, <2>1 DEF UserCreate, Evolves, Store, NewMD
  <2> QED BY <1>11, <2>1, <2>2, StoreStep DEF UserCreate
<1>12. CASE UserEdit
  <2>1. PICK p \in supported \cup {NoProv}, s \in Shapes :
          Store([md EXCEPT !.prov = p, !.shape = s, !.gen = @ + 1])
    BY <1>12 DEF UserEdit
  <2>2. Evolves
    BY <1>12, <2>1, <1>1 DEF UserEdit, Evolves, Store, ModelDeployments
  <2> QED BY <1>12, <2>1, <2>2, StoreStep DEF UserEdit
<1>13. CASE UserPause
  <2>1. Evolves
    BY <1>13, <1>1 DEF UserPause, Evolves, Store, ModelDeployments
  <2> QED BY <1>13, <2>1, StoreStep DEF UserPause
<1>14. CASE UserDelete
  <2>1. Evolves
    BY <1>14, <1>1
       DEF UserDelete, Evolves, Store, ModelDeployments, Absent, NewMD, Exists
  <2> QED BY <1>14, <2>1, StoreStep DEF UserDelete
<1> QED BY <1>3, <1>4, <1>5, <1>6, <1>7, <1>8, <1>9, <1>10, <1>11, <1>12,
           <1>13, <1>14 DEF OutsideActions, CoreStep

\* A step of the shim that leaves the object alone: the pass ends or goes on
\* with the same object, and a Workspace only gets that object's uid as owner.
ShimSideStep ==
  /\ UNCHANGED <<md, uids, timedOut, shimCache, shimCacheFresh>>
  /\ \/ shimSnap' = Absent /\ shimPc' = "idle" /\ ~shimFresh'
     \/ /\ shimFresh' = shimFresh /\ shimPc # "idle" /\ shimPc' # "idle"
        /\ CoreFields(shimSnap') = CoreFields(shimSnap)
        /\ shimSnap'.fin = shimSnap.fin
  /\ shimPc' \in WorkspacePcs => shimPc \in WorkspacePcs
  /\ shimPc' \in DeletionPcs => shimPc \in DeletionPcs
  /\ shimPc' # "finalize"
  /\ \/ ws'.owner \in {0, ws.owner}
     \/ shimPc \in WorkspacePcs /\ ws'.owner = shimSnap.uid

LEMMA ShimSideKeeps ==
  ASSUME IInv, ShimSideStep, TypeOK', ReleaseClean'
  PROVE  IInv'
<1> USE DEF IInv
<1>1. Absent.uid = 0
  BY DEF Absent, NewMD
<1>2. /\ shimSnap'.uid \in {0, shimSnap.uid}
      /\ Exists(shimSnap') => /\ shimSnap'.fin = shimSnap.fin
                              /\ shimSnap'.deleting = shimSnap.deleting
  BY <1>1 DEF ShimSideStep, CoreFields, Exists
<1>3. uids \in Nat /\ shimSnap.uid \in Nat /\ md.uid \in Nat
  BY UidTypes
<1>4. Incarnations'
  BY <1>2, <1>3 DEF Incarnations, Older, ShimSideStep, Exists
<1>5. FlagsTrue'
  BY DEF FlagsTrue, ShimSideStep, CoreFields
<1>6. SnapByPc'
  BY <1>2 DEF SnapByPc, ShimSideStep, WorkspacePcs, DeletionPcs, CoreFields,
              Exists
<1>7. OwnersKnown'
  BY <1>3 DEF OwnersKnown, ShimSideStep, Incarnations, Older
<1>8. WorkspaceGuarded'
  <2>1. shimPc \in WorkspacePcs => Exists(shimSnap) /\ shimSnap.fin
    BY DEF SnapByPc, WorkspacePcs
  <2> QED BY <2>1 DEF WorkspaceGuarded, ShimSideStep, Incarnations, Older,
                      WsExists, Exists
<1> QED BY <1>4, <1>5, <1>6, <1>7, <1>8

ShimIdles == shimPc' = "idle" /\ shimSnap' = Absent /\ ~shimFresh'

\* A write of the shim to the object that ends the pass.
LEMMA ShimWriteKeeps ==
  ASSUME IInv, TypeOK', ShimIdles, Evolves, UNCHANGED <<ws, uids, shimCache>>,
         shimCacheFresh' => shimCacheFresh /\ md' = md
  PROVE  IInv'
<1> USE DEF IInv, ShimIdles
<1>1. Absent.uid = 0
  BY DEF Absent, NewMD
<1>2. uids \in Nat /\ uids >= 1 /\ shimCache.uid \in Nat /\ md.uid \in Nat
  BY UidTypes
<1>3. uids' = uids /\ (md'.uid = 0 \/ md'.uid = md.uid)
  BY <1>2 DEF Evolves, Exists
<1>4. Incarnations'
  BY <1>1, <1>2, <1>3 DEF Incarnations, Older, Evolves, Exists
<1>5. FlagsTrue'
  BY DEF FlagsTrue
<1>6. SnapByPc' /\ ReleaseClean'
  BY <1>1 DEF SnapByPc, ReleaseClean, WorkspacePcs, DeletionPcs
<1>7. OwnersKnown'
  BY DEF OwnersKnown
<1>8. WorkspaceGuarded'
  BY <1>3, <1>2 DEF WorkspaceGuarded, WsExists, Evolves, Exists
<1> QED BY <1>4, <1>5, <1>6, <1>7, <1>8

\* The watch, or a restart, brings the shim's cache up to date.
LEMMA ShimReadKeeps ==
  ASSUME IInv, TypeOK', UNCHANGED <<md, ws, uids, timedOut>>, shimCache' = md,
         ShimIdles \/ UNCHANGED <<shimPc, shimSnap, shimFresh>>
  PROVE  IInv'
<1> USE DEF IInv, ShimIdles
<1>1. Absent.uid = 0
  BY DEF Absent, NewMD
<1>2. uids \in Nat /\ uids >= 1 /\ md.uid \in Nat
  BY UidTypes
<1>3. Incarnations'
  BY <1>1, <1>2 DEF Incarnations, Older, Exists
<1>4. FlagsTrue'
  BY DEF FlagsTrue, CoreFields, Exists
<1>5. SnapByPc' /\ ReleaseClean'
  BY <1>1 DEF SnapByPc, ReleaseClean, WorkspacePcs, DeletionPcs, Exists
<1>6. OwnersKnown' /\ WorkspaceGuarded'
  BY DEF OwnersKnown, WorkspaceGuarded, WsExists
<1> QED BY <1>3, <1>4, <1>5, <1>6

LEMMA ShimSteps == IInv /\ (ShimStep \/ ShimFault) /\ TypeOK' => IInv'
<1> SUFFICES ASSUME IInv, ShimStep \/ ShimFault, TypeOK' PROVE IInv'
  OBVIOUS
<1> USE DEF apiVars, envVars, others, coreVars
<1> DEFINE P == WorkspacePcs
           D == DeletionPcs
<1>1. /\ md \in ModelDeployments /\ ws \in Workspaces
      /\ shimSnap \in ModelDeployments /\ shimCache \in ModelDeployments
      /\ Deleted(ws).owner \in {0, ws.owner} /\ NoWs.owner = 0
      /\ NewWs(shimSnap).owner = shimSnap.uid
      /\ [ws EXCEPT !.gen = shimSnap.gen].owner = ws.owner
  <2>1. /\ md \in ModelDeployments /\ ws \in Workspaces
        /\ shimSnap \in ModelDeployments /\ shimCache \in ModelDeployments
    BY DEF IInv, TypeOK
  <2>2. [ws EXCEPT !.gen = shimSnap.gen].owner = ws.owner
    BY <2>1 DEF Workspaces
  <2> QED BY <2>1, <2>2, WorkspaceTypes DEF NoWs, NewWs
\* What the steps of a pass on a Workspace do to the copy.
<1>2. ASSUME NEW t, t \in {shimSnap, [shimSnap EXCEPT !.st = FailClosed(@)],
                            [shimSnap EXCEPT !.st = KeepServing(@)],
                            [shimSnap EXCEPT !.st = Reconciled(@, ws)],
                            [shimSnap EXCEPT !.st = Reconciled(@, NoWs)]}
      PROVE  CoreFields(t) = CoreFields(shimSnap) /\ t.fin = shimSnap.fin
  <2>1. \A x : [shimSnap EXCEPT !.st = x].fin = shimSnap.fin
    BY <1>1 DEF ModelDeployments
  <2>2. NoWs \in Workspaces
    BY EmptyTypes
  <2>3. CoreFields(t) = CoreFields(shimSnap)
    <3>1. /\ CoreFields([shimSnap EXCEPT !.st = FailClosed(@)])
               = CoreFields(shimSnap)
          /\ CoreFields([shimSnap EXCEPT !.st = KeepServing(@)])
               = CoreFields(shimSnap)
          /\ \A w \in Workspaces :
               CoreFields([shimSnap EXCEPT !.st = Reconciled(@, w)])
                 = CoreFields(shimSnap)
      BY <1>1, SnapTypes
    <3> QED BY <3>1, <1>1, <1>2, <2>2, Zenon
  <2> QED BY <1>2, <2>1, <2>3
<1>3. CASE ShimGet
  <2>1. ShimSideStep
    BY <1>3, <1>2 DEF ShimGet, ShimGoto, ShimSideStep, WorkspacePcs, DeletionPcs
  <2>2. ReleaseClean'
    BY <1>3 DEF ShimGet, ShimGoto, ReleaseClean
  <2> QED BY <2>1, <2>2, ShimSideKeeps
<1>4. CASE ShimGetFault \/ ShimSync \/ ShimSyncFault
  <2>1. ShimSideStep
    BY <1>4, <1>2 DEF ShimGetFault, ShimSync, ShimSyncFault, ShimFails,
                      ShimGoto, ShimSideStep, WorkspacePcs, DeletionPcs
  <2>2. ReleaseClean'
    BY <1>4 DEF ShimGetFault, ShimSync, ShimSyncFault, ShimFails, ShimGoto,
                ReleaseClean
  <2> QED BY <2>1, <2>2, ShimSideKeeps
<1>5. CASE ShimCreate \/ ShimPatch \/ ShimWriteFault
  <2>1. ws'.owner = ws.owner \/ ws'.owner = shimSnap.uid
    BY <1>5, <1>1 DEF ShimCreate, ShimPatch, ShimWriteFault
  <2>2. shimPc \in {"create", "patch", "patchServing"}
    BY <1>5 DEF ShimCreate, ShimPatch, ShimWriteFault
  <2>3. shimPc' \in {"sync", "writeRequeue"}
    BY <1>5 DEF ShimCreate, ShimPatch, ShimWriteFault, ShimFails, ShimGoto
  <2>4. CoreFields(shimSnap') = CoreFields(shimSnap)
        /\ shimSnap'.fin = shimSnap.fin
    BY <1>5, <1>2
       DEF ShimCreate, ShimPatch, ShimWriteFault, ShimFails, ShimGoto
  <2>5. UNCHANGED <<md, uids, timedOut, shimCache, shimCacheFresh, shimFresh>>
    BY <1>5 DEF ShimCreate, ShimPatch, ShimWriteFault
  <2>6. ShimSideStep
    BY <2>1, <2>2, <2>3, <2>4, <2>5
       DEF ShimSideStep, WorkspacePcs, DeletionPcs
  <2>7. ReleaseClean'
    BY <2>3 DEF ReleaseClean
  <2> QED BY <2>6, <2>7, ShimSideKeeps
<1>6. CASE ShimFind
  <2>1. ShimSideStep
    BY <1>6 DEF ShimFind, ShimGoto, ShimSideStep, WorkspacePcs, DeletionPcs
  <2>2. Exists(shimSnap)
    BY <1>6 DEF ShimFind, IInv, SnapByPc
  <2>3. ReleaseClean'
    BY <1>6, <2>2 DEF ShimFind, ShimGoto, ReleaseClean, WsExists, Owned, Exists
  <2> QED BY <2>1, <2>3, ShimSideKeeps
<1>7. CASE ShimDelete \/ ShimDeletionFault \/ ShimUpdateFault
  <2>1. ShimSideStep
    BY <1>7, <1>1 DEF ShimDelete, ShimDeletionFault, ShimUpdateFault, ShimGoto,
                      ShimIdle, ShimSideStep, WorkspacePcs, DeletionPcs
  <2>2. ReleaseClean'
    <3>1. CASE ShimDelete \/ ShimDeletionFault
      <4>1. Exists(shimSnap)
        BY <3>1 DEF ShimDelete, ShimDeletionFault, IInv, SnapByPc
      <4> QED BY <3>1, <4>1 DEF ShimDelete, ShimDeletionFault, ShimGoto,
                                ShimIdle, ReleaseClean, WsExists, Exists
    <3>2. CASE ShimUpdateFault
      BY <3>2 DEF ShimUpdateFault, ShimGoto, ShimIdle, ReleaseClean
    <3> QED BY <1>7, <3>1, <3>2
  <2> QED BY <2>1, <2>2, ShimSideKeeps
<1>8. ASSUME NEW pc, ShimRefused(pc) PROVE IInv'
  <2>1. ShimSideStep
    BY <1>8 DEF ShimRefused, ShimIdle, ShimSideStep, WorkspacePcs, DeletionPcs
  <2>2. ReleaseClean'
    BY <1>8 DEF ShimRefused, ShimIdle, ReleaseClean
  <2> QED BY <2>1, <2>2, ShimSideKeeps
<1>9. CASE ShimReconcile
  <2>1. CASE UNCHANGED <<shimPc, shimSnap, shimFresh>>
    <3>1. UNCHANGED <<md, ws, uids, timedOut, shimCache, shimCacheFresh>>
      BY <1>9 DEF ShimReconcile
    <3>2. Incarnations' /\ FlagsTrue' /\ SnapByPc' /\ OwnersKnown'
          /\ WorkspaceGuarded' /\ ReleaseClean'
      BY <2>1, <3>1 DEF IInv, Incarnations, Older, FlagsTrue, SnapByPc,
         OwnersKnown, WorkspaceGuarded, ReleaseClean, Exists, WsExists,
         CoreFields
    <3> QED BY <3>2 DEF IInv
  <2>2. CASE ~UNCHANGED <<shimPc, shimSnap, shimFresh>>
    <3> DEFINE r == ShimRoute(shimCache)
    <3>1. /\ Exists(shimCache)
          /\ shimPc' = r.pc /\ shimSnap' = [shimCache EXCEPT !.st = r.st]
          /\ shimFresh' = shimCacheFresh
          /\ UNCHANGED <<md, ws, uids, timedOut, shimCache, shimCacheFresh>>
      BY <1>9, <2>2 DEF ShimReconcile, Assigned, ShimGoto
    <3>2. /\ r.pc \in ShimPcs \ {"idle", "release"}
          /\ Kept(shimCache.st, r.st)
      BY <1>1, RouteType
    <3>3. /\ r.pc \in DeletionPcs => shimCache.deleting
          /\ r.pc \in WorkspacePcs => shimCache.fin
          /\ r.pc = "finalize" => ~shimCache.deleting
          /\ shimCache.deleting => shimCache.fin
      BY <1>9, <2>2
         DEF ShimRoute, DeletionPcs, WorkspacePcs, ShimReconcile
    <3> HIDE DEF r
    <3>4. /\ shimSnap'.uid = shimCache.uid /\ shimSnap'.fin = shimCache.fin
          /\ shimSnap'.deleting = shimCache.deleting
          /\ CoreFields(shimSnap') = CoreFields(shimCache)
      BY <3>1, <3>2, <1>1 DEF CoreFields, ModelDeployments, Kept
    <3>5. Incarnations' /\ OwnersKnown' /\ WorkspaceGuarded'
      BY <3>1, <3>4 DEF IInv, Incarnations, Older, Exists, OwnersKnown,
                        WorkspaceGuarded, WsExists
    <3>6. FlagsTrue'
      <4>1. (shimCacheFresh => shimCache = md)'
        BY <3>1 DEF IInv, FlagsTrue
      <4>2. ASSUME shimFresh'
            PROVE  /\ Exists(md') /\ shimSnap'.uid = md'.uid
                   /\ shimSnap'.deleting = md'.deleting
                   /\ CoreFields(shimSnap') = CoreFields(md')
        <5>1. shimCache = md /\ md' = md
          BY <4>2, <3>1 DEF IInv, FlagsTrue
        <5> QED BY <5>1, <3>1, <3>4
      <4> QED BY <4>1, <4>2 DEF FlagsTrue
    <3>7. SnapByPc' /\ ReleaseClean'
      BY <3>1, <3>2, <3>3, <3>4 DEF SnapByPc, ReleaseClean, Exists
    <3> QED BY <3>5, <3>6, <3>7 DEF IInv
  <2> QED BY <2>1, <2>2
<1>10. CASE ShimAddFinalizer
  <2>1. Evolves
    BY <1>10, <1>1 DEF ShimAddFinalizer, ShimStore, Evolves, ModelDeployments
  <2> QED BY <1>10, <2>1, ShimWriteKeeps
          DEF ShimAddFinalizer, ShimStore, ShimIdle, ShimIdles
<1>11. CASE ShimUpdateStatus
  <2>1. Evolves
    BY <1>11, <1>1 DEF ShimUpdateStatus, ShimStore, Evolves, ModelDeployments
  <2> QED BY <1>11, <2>1, ShimWriteKeeps
          DEF ShimUpdateStatus, ShimStore, ShimIdle, ShimIdles
<1>12. CASE ShimRelease
  <2>1. shimFresh /\ shimSnap.deleting
    BY <1>12 DEF ShimRelease, Refused, IInv, SnapByPc, DeletionPcs
  <2>2. md.deleting
    BY <2>1 DEF IInv, FlagsTrue
  <2>3. Evolves
    BY <1>12, <2>2
       DEF ShimRelease, ShimStore, Evolves, Absent, NewMD, Exists
  <2> QED BY <1>12, <2>3, ShimWriteKeeps
          DEF ShimRelease, ShimStore, ShimIdle, ShimIdles
<1>13. CASE ShimTerminate
  <2>1. /\ shimPc = "terminate" /\ shimPc' = "find"
        /\ UNCHANGED <<ws, uids, timedOut, shimCache, shimSnap, shimFresh>>
    BY <1>13 DEF ShimTerminate, ShimGoto
  <2>2. /\ md' = md \/ (shimFresh /\ md' = [md EXCEPT !.st = shimSnap.st])
        /\ shimCacheFresh' => shimCacheFresh /\ md' = md
    BY <1>13 DEF ShimTerminate, ShimStore
  <2>3. /\ md'.uid = md.uid /\ md'.fin = md.fin /\ md'.deleting = md.deleting
        /\ md'.gen = md.gen /\ md'.prov = md.prov /\ md'.shape = md.shape
        /\ md'.paused = md.paused
        /\ md'.st = md.st \/ (shimFresh /\ md'.st = shimSnap.st)
    BY <2>2, <1>1 DEF ModelDeployments
  <2>4. Incarnations' /\ OwnersKnown' /\ WorkspaceGuarded' /\ SnapByPc'
    BY <2>1, <2>3 DEF IInv, Incarnations, Older, Exists, OwnersKnown,
                  WorkspaceGuarded, WsExists, SnapByPc, DeletionPcs,
                  WorkspacePcs
  <2>5. FlagsTrue'
    BY <2>1, <2>2, <2>3 DEF IInv, FlagsTrue, CoreFields, Exists
  <2>6. ReleaseClean'
    BY <2>1 DEF ReleaseClean
  <2> QED BY <2>4, <2>5, <2>6 DEF IInv
<1> QED BY <1>3, <1>4, <1>5, <1>6, <1>7, <1>8, <1>9, <1>10, <1>11, <1>12,
           <1>13 DEF ShimStep, ShimFault

LEMMA InvStep == IInv /\ [Next]_vars => IInv'
<1> SUFFICES ASSUME IInv, [Next]_vars PROVE IInv'
  OBVIOUS
<1>1. TypeOK'
  BY TypeStep DEF IInv
<1>2. CASE OutsideActions
  BY <1>1, <1>2, OutsideSteps, OutsideKeeps
<1>3. CASE ShimStep \/ ShimFault
  BY <1>1, <1>3, ShimSteps
<1>4. CASE DeliverShim
  BY <1>1, <1>4, ShimReadKeeps DEF DeliverShim, apiVars, envVars, others
<1>5. CASE ShimRestart
  BY <1>1, <1>5, ShimReadKeeps DEF ShimRestart, ShimIdles, apiVars, others
<1>6. CASE UNCHANGED vars
  <2>1. UNCHANGED <<md, ws, uids, timedOut, shimCache, shimCacheFresh, shimPc,
                    shimSnap, shimFresh>>
    BY <1>6 DEF vars, apiVars, envVars, others, shimVars
  <2>2. Incarnations' /\ FlagsTrue' /\ SnapByPc' /\ OwnersKnown'
        /\ WorkspaceGuarded' /\ ReleaseClean'
    BY <2>1 DEF IInv, Incarnations, Older, FlagsTrue, SnapByPc, OwnersKnown,
            WorkspaceGuarded, ReleaseClean, Exists, WsExists, CoreFields
  <2> QED BY <1>1, <2>2 DEF IInv
<1> QED BY <1>2, <1>3, <1>4, <1>5, <1>6 DEF Next, Environment, OutsideActions

\* No Workspace of an existing object is without the shim's finalizer.
THEOREM Guarded == Spec => []WorkspaceGuarded
<1>1. IInv => WorkspaceGuarded
  BY DEF IInv
<1> QED BY <1>1, InvInit, InvStep, PTL DEF Spec

\* The steps that change the object.
Writes ==
  \/ CorePatch \/ UserCreate \/ UserEdit \/ UserPause \/ UserDelete
  \/ ShimAddFinalizer \/ ShimUpdateStatus \/ ShimTerminate \/ ShimRelease

LEMMA WritersKnown ==
  ASSUME [Next]_vars, md' # md
  PROVE  Writes
<1> USE DEF apiVars, envVars, others, coreVars, shimVars
<1>1. Next
  BY DEF vars
<1>2. \/ Writes
      \/ OutsideActions /\ md' = md
      \/ (ShimStep \/ ShimFault) /\ md' = md
      \/ (DeliverShim \/ ShimRestart) /\ md' = md
  <2>1. CASE OutsideActions
    BY <2>1 DEF OutsideActions, Writes, DeliverCore, CollectGarbage,
       FinalizerTimeout, CoreStep, CoreReconcile, CorePatchNotFound,
       OperatorProgress, OperatorFinalize, OperatorUp, OperatorDegrade,
       OperatorDown, CorePatchFault, CoreRestart, ProviderToggle,
       ProviderCapabilities, UserDeleteWorkspace, UserCreateWorkspace
  <2>2. CASE ShimStep \/ ShimFault
    BY <2>2 DEF ShimStep, ShimFault, Writes, ShimReconcile, ShimRefused,
       ShimGet, ShimCreate, ShimPatch, ShimSync, ShimFind, ShimDelete,
       ShimGetFault, ShimWriteFault, ShimSyncFault, ShimDeletionFault,
       ShimUpdateFault
  <2>3. CASE DeliverShim \/ ShimRestart
    BY <2>3 DEF DeliverShim, ShimRestart
  <2> QED BY <1>1, <2>1, <2>2, <2>3 DEF Next, Environment, OutsideActions
<1> QED BY <1>2

\* The object keeps the shim's finalizer until its Workspace is gone, or until
\* the time-out.
THEOREM ReleasedClean == Spec => FinalizerReleasedClean
<1>1. ASSUME IInv, [Next]_vars, Exists(md), md.fin,
             md'.uid # md.uid \/ ~md'.fin
      PROVE  ws.owner # md.uid \/ timedOut
  <2>1. md \in ModelDeployments
    BY <1>1 DEF IInv, TypeOK
  <2>2. Writes
    BY <1>1, WritersKnown
  <2>3. ~(CorePatch \/ UserEdit \/ UserPause \/ ShimAddFinalizer
          \/ ShimUpdateStatus \/ ShimTerminate)
    BY <1>1, <2>1 DEF CorePatch, UserEdit, UserPause, ShimAddFinalizer,
       ShimUpdateStatus, ShimTerminate, Store, ShimStore, ModelDeployments
  <2>4. ~UserCreate /\ ~UserDelete
    BY <1>1, <2>1 DEF UserCreate, UserDelete, Store, ModelDeployments
  <2>5. ShimRelease
    BY <2>2, <2>3, <2>4 DEF Writes
  <2>6. shimPc = "release" /\ shimSnap.uid = md.uid
    BY <1>1, <2>5 DEF ShimRelease, Refused, IInv, FlagsTrue
  <2> QED BY <1>1, <2>6 DEF IInv, ReleaseClean
<1>2. IInv /\ [Next]_vars =>
        [Exists(md) /\ md.fin /\ (md'.uid # md.uid \/ ~md'.fin)
           => ws.owner # md.uid \/ timedOut]_vars
  BY <1>1
<1> QED BY <1>2, InvInit, InvStep, PTL DEF Spec, FinalizerReleasedClean

\* What the shim writes never overwrites the fields of the core and the user.
THEOREM NoUpdateLost == Spec => ShimLosesNoUpdate
<1>1. ASSUME IInv, [Next]_vars, shimPc' # shimPc, md' # md, Exists(md')
      PROVE  CoreFields(md') = CoreFields(md)
  <2>1. md \in ModelDeployments
    BY <1>1 DEF IInv, TypeOK
  <2>2. Writes
    BY <1>1, WritersKnown
  <2>3. ~(CorePatch \/ UserCreate \/ UserEdit \/ UserPause \/ UserDelete)
    BY <1>1 DEF CorePatch, UserCreate, UserEdit, UserPause, UserDelete
  <2>4. CASE ShimAddFinalizer \/ ShimRelease
    <3>1. Absent.uid = 0
      BY DEF Absent, NewMD
    <3>2. PICK b \in BOOLEAN : md' = [md EXCEPT !.fin = b]
      BY <1>1, <2>4, <3>1
         DEF ShimAddFinalizer, ShimRelease, ShimStore, Exists
    <3> QED BY <3>2, <2>1 DEF CoreFields, ModelDeployments
  <2>5. CASE ShimUpdateStatus \/ ShimTerminate
    <3>1. shimFresh /\ md' = [md EXCEPT !.st = shimSnap.st]
      BY <1>1, <2>5 DEF ShimUpdateStatus, ShimTerminate, Refused, ShimStore
    <3>2. CoreFields(shimSnap) = CoreFields(md)
      BY <1>1, <3>1 DEF IInv, FlagsTrue
    <3> QED BY <3>1, <3>2, <2>1 DEF CoreFields, ModelDeployments
  <2> QED BY <2>2, <2>3, <2>4, <2>5 DEF Writes
<1>2. IInv /\ [Next]_vars =>
        [shimPc' # shimPc /\ md' # md /\ Exists(md')
           => CoreFields(md') = CoreFields(md)]_vars
  BY <1>1
<1> QED BY <1>2, InvInit, InvStep, PTL DEF Spec, ShimLosesNoUpdate
-----------------------------------------------------------------------------
(* The refinement *)

\* A step that leaves the object and the clock alone can only make the
\* Workspace, which the finalizer then guards, or lose it.
LEMMA WorkspaceSteps ==
  ASSUME UNCHANGED <<md, timedOut>>, WorkspaceGuarded', TypeOK, TypeOK'
  PROVE  Promise!Next \/ UNCHANGED Promise!vars
<1>1. ObjectState' = ObjectState /\ md'.fin = md.fin
  BY DEF ObjectState, Exists
<1>2. CASE (Exists(md) /\ ws.owner = md.uid)'
  <2>1. Exists(md) /\ md.fin
    BY <1>2, UidTypes DEF WorkspaceGuarded, WsExists, Exists
  <2>2. Promise!Provision
    BY <1>1, <1>2, <2>1 DEF Promise!Provision, ObjectState
  <2> QED BY <2>2 DEF Promise!Next
<1>3. CASE ~(Exists(md) /\ ws.owner = md.uid)'
  <2>1. Promise!Lose
    BY <1>1, <1>3 DEF Promise!Lose
  <2> QED BY <2>1 DEF Promise!Next
<1> QED BY <1>2, <1>3

\* Writes that touch neither the finalizer nor the life of the object.
LEMMA QuietWrites ==
  ASSUME IInv, CorePatch \/ UserEdit \/ UserPause \/ ShimUpdateStatus
                 \/ ShimTerminate
  PROVE  UNCHANGED Promise!vars
<1>1. md \in ModelDeployments
  BY DEF IInv, TypeOK
<1>2. UNCHANGED <<ws, timedOut>>
  BY DEF CorePatch, UserEdit, UserPause, ShimUpdateStatus, ShimTerminate,
         apiVars, envVars, others
<1>3. md'.uid = md.uid /\ md'.fin = md.fin /\ md'.deleting = md.deleting
  BY <1>1 DEF CorePatch, UserEdit, UserPause, ShimUpdateStatus, ShimTerminate,
              Store, ShimStore, ModelDeployments
<1> QED BY <1>2, <1>3 DEF Promise!vars, ObjectState, Exists

\* Only two actions touch the clock.
LEMMA ClockKnown ==
  ASSUME [Next]_vars, timedOut' # timedOut
  PROVE  FinalizerTimeout \/ ShimRelease
<1> USE DEF apiVars, envVars, others, coreVars, shimVars
<1>1. Next
  BY DEF vars
<1>2. ~(DeliverCore \/ DeliverShim \/ CollectGarbage \/ CoreStep
        \/ OperatorProgress \/ OperatorFinalize \/ OperatorUp)
  BY DEF DeliverCore, DeliverShim, CollectGarbage, CoreStep, CoreReconcile,
     CorePatch, CorePatchNotFound, OperatorProgress, OperatorFinalize,
     OperatorUp
<1>3. ~Environment
  BY DEF Environment, UserCreate, UserEdit, UserPause, UserDelete,
     UserDeleteWorkspace, UserCreateWorkspace, ProviderToggle,
     ProviderCapabilities, OperatorDegrade, OperatorDown, CorePatchFault,
     CoreRestart, ShimFault, ShimGetFault, ShimWriteFault, ShimSyncFault,
     ShimDeletionFault, ShimUpdateFault, ShimRestart
<1>4. ShimStep => ShimRelease
  BY DEF ShimStep, ShimReconcile, ShimAddFinalizer, ShimRefused, ShimGet,
     ShimCreate, ShimPatch, ShimSync, ShimUpdateStatus, ShimTerminate,
     ShimFind, ShimDelete
<1> QED BY <1>1, <1>2, <1>3, <1>4 DEF Next

LEMMA PromiseInit == Init => Promise!Init
BY DEF Init, Promise!Init, ObjectState, Exists, NewMD, NoWs

LEMMA PromiseStep ==
  IInv /\ IInv' /\ [Next]_vars => [Promise!Next]_Promise!vars
<1> SUFFICES ASSUME IInv, IInv', [Next]_vars
             PROVE  Promise!Next \/ UNCHANGED Promise!vars
  OBVIOUS
<1> USE DEF IInv
<1>1. CASE UNCHANGED <<md, timedOut>>
  BY <1>1, WorkspaceSteps
<1>2. CASE UserCreate
  <2>1. /\ ~Exists(md) /\ Exists(md') /\ ~md'.deleting /\ ~md'.fin
        /\ ws' = ws /\ timedOut' = timedOut
    BY <1>2, UidTypes DEF UserCreate, Store, NewMD, Exists, others
  <2>2. ~(Exists(md) /\ ws.owner = md.uid)'
    BY <2>1, UidTypes DEF WorkspaceGuarded, WsExists, Exists
  <2>3. Promise!Create
    BY <2>1, <2>2 DEF Promise!Create, ObjectState
  <2> QED BY <2>3 DEF Promise!Next
<1>3. CASE UserDelete
  <2>1. Exists(md) /\ ~md.deleting /\ UNCHANGED <<ws, timedOut>>
        /\ md' = IF md.fin THEN [md EXCEPT !.deleting = TRUE] ELSE Absent
    BY <1>3 DEF UserDelete, Store, others
  <2>2. CASE md.fin
    <3>1. md'.uid = md.uid /\ md'.fin /\ md'.deleting
      BY <2>1, <2>2 DEF TypeOK, ModelDeployments
    <3>2. Promise!Delete
      BY <2>1, <2>2, <3>1 DEF Promise!Delete, ObjectState, Exists
    <3> QED BY <3>2 DEF Promise!Next
  <2>3. CASE ~md.fin
    <3>1. ~Exists(md') /\ ~md'.fin
      BY <2>1, <2>3 DEF Absent, NewMD, Exists
    <3>2. ws.owner # md.uid
      BY <2>1, <2>3, UidTypes DEF WorkspaceGuarded, WsExists, Exists
    <3>3. Promise!Delete
      BY <2>1, <2>3, <3>1, <3>2 DEF Promise!Delete, ObjectState
    <3> QED BY <3>3 DEF Promise!Next
  <2> QED BY <2>2, <2>3
<1>4. CASE ShimAddFinalizer
  <2>1. Exists(md) /\ ~md.deleting
    BY <1>4 DEF ShimAddFinalizer, Refused, FlagsTrue, SnapByPc
  <2>2. /\ md'.uid = md.uid /\ md'.fin /\ md'.deleting = md.deleting
        /\ UNCHANGED <<ws, timedOut>>
    BY <1>4 DEF ShimAddFinalizer, ShimStore, TypeOK, ModelDeployments, envVars,
                others
  <2>3. Promise!Guard
    BY <2>1, <2>2 DEF Promise!Guard, ObjectState, Exists
  <2> QED BY <2>3 DEF Promise!Next
<1>5. CASE ShimRelease
  <2>1. /\ Exists(md) /\ shimSnap.uid = md.uid
        /\ shimPc = "release" /\ md.deleting /\ shimSnap.fin
    BY <1>5 DEF ShimRelease, Refused, FlagsTrue, SnapByPc, DeletionPcs
  <2>2. md.fin
    BY <2>1 DEF Incarnations, Older, Exists
  <2>3. ws.owner = md.uid => timedOut
    BY <2>1 DEF ReleaseClean
  <2>4. ~Exists(md') /\ ~md'.fin /\ ~timedOut'
    BY <1>5, <2>1 DEF ShimRelease, ShimStore, Absent, NewMD, Exists
  <2>5. Promise!Release
    BY <2>1, <2>2, <2>3, <2>4 DEF Promise!Release, ObjectState
  <2> QED BY <2>5 DEF Promise!Next
<1>6. CASE FinalizerTimeout
  <2>1. Promise!Expire
    BY <1>6 DEF FinalizerTimeout, Promise!Expire, ObjectState, Exists, apiVars
  <2> QED BY <2>1 DEF Promise!Next
<1>7. ASSUME md' = md, timedOut' # timedOut
      PROVE  FinalizerTimeout \/ ShimRelease
  BY <1>7, ClockKnown
<1> QED BY <1>1, <1>2, <1>3, <1>4, <1>5, <1>6, <1>7, QuietWrites, WritersKnown
        DEF Writes

\* The shim's finalizer keeps the promise for the Workspace of every
\* incarnation.
THEOREM PromiseKept == Spec => KeepsPromise
<1> QED BY PromiseInit, PromiseStep, InvInit, InvStep, PTL
        DEF Spec, KeepsPromise, Promise!Spec
=============================================================================
