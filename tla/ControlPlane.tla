---------------------------- MODULE ControlPlane ----------------------------
(***************************************************************************)
(* One ModelDeployment, the core controller, the KAITO shim, the Workspace *)
(* the shim makes and its operator.  Both controllers read the             *)
(* ModelDeployment from informer caches of their own, which lag; the shim  *)
(* writes it with Update, refused when the object changed since the        *)
(* version that was read, the core with a merge patch, never refused.      *)
(* Every API call of a reconcile is a step of its own.                     *)
(*                                                                         *)
(* Instead of resourceVersions two flags say whether a copy is the newest  *)
(* version: every change of md clears those of the copies it leaves behind.*)
(***************************************************************************)
EXTENDS ModelDeploymentAPI

CONSTANTS
  ReadyAtStart,     \* providers that are ready in the initial state
  MaxDisturbances,  \* bound: user edits, faults, restarts, outages
  Kinds             \* the kinds of disturbance of this instance

ASSUME InstanceAssumption ==
  MaxDisturbances \in Nat /\ ReadyAtStart \subseteq Providers

VARIABLES
  md,          \* the ModelDeployment the API server stores
  ws,          \* the Workspace of that name
  ready,       \* providers whose InferenceProviderConfig status is Ready
  supported,   \* providers whose capabilities cover the spec's engine
  up,          \* the KAITO operator runs
  timedOut,    \* FinalizerTimeout passed since md's deletionTimestamp
  uids,        \* incarnations created so far
  left,        \* disturbances left
  coreCache, coreQ,    \* core: informer copy, request queued
  corePc, coreBase, coreNew,   \* core: next step, patch base, new status
  shimCache, shimCacheFresh, shimQ,  \* shim: informer copy, newest?, queued
  shimPc, shimSnap, shimFresh        \* shim: next step, object, newest?

apiVars  == <<md, ws>>
others   == <<ready, supported, up, timedOut, uids>>
envVars  == <<others, left>>
coreVars == <<coreCache, coreQ, corePc, coreBase, coreNew>>
shimVars == <<shimCache, shimCacheFresh, shimQ, shimPc, shimSnap, shimFresh>>
vars     == <<apiVars, envVars, coreVars, shimVars>>

CorePcs == {"idle", "patch"}
ShimPcs == {"idle", "finalize", "get", "create", "patch", "patchServing",
            "sync", "write", "writeRequeue", "terminate", "find", "delete",
            "release"}

Init ==
  /\ supported = Providers
  /\ \E p \in ProvNames, s \in Shapes : md = NewMD(1, p, s)
  /\ ws = NoWs
  /\ ready = ReadyAtStart
  /\ up = TRUE
  /\ timedOut = FALSE
  /\ uids = 1
  /\ left = MaxDisturbances
  /\ coreCache = Absent /\ coreQ = FALSE
  /\ corePc = "idle" /\ coreBase = EmptyStatus /\ coreNew = EmptyStatus
  /\ shimCache = Absent /\ shimCacheFresh = FALSE /\ shimQ = FALSE
  /\ shimPc = "idle" /\ shimSnap = Absent /\ shimFresh = FALSE

-----------------------------------------------------------------------------
(* The API server *)

\* Someone other than the shim leaves md as new: the shim's copies go stale.
Store(new) ==
  /\ md' = new
  /\ shimFresh' = (shimFresh /\ new = md)
  /\ shimCacheFresh' = (shimCacheFresh /\ new = md)

Disturb(kind) == kind \in Kinds /\ left > 0 /\ left' = left - 1

DeliverCore ==
  /\ coreCache # md
  /\ coreCache' = md
  /\ coreQ' = TRUE
  /\ UNCHANGED <<apiVars, envVars, corePc, coreBase, coreNew, shimVars>>

DeliverShim ==
  /\ ~shimCacheFresh
  /\ shimCache' = md
  /\ shimCacheFresh' = TRUE
  /\ shimQ' = (shimQ \/ ShimWatches(IF Exists(md) THEN md ELSE shimCache))
  /\ UNCHANGED <<apiVars, envVars, coreVars, shimPc, shimSnap, shimFresh>>

\* Garbage collection of the Workspace of a vanished incarnation.
CollectGarbage ==
  /\ ws.owner \in Uids /\ ws.owner # md.uid
  /\ ~ws.deleting
  /\ ws' = Deleted(ws)
  /\ UNCHANGED <<md, envVars, coreVars, shimVars>>

-----------------------------------------------------------------------------
(* The core controller's Reconcile *)

CoreIdle ==
  corePc' = "idle" /\ coreBase' = EmptyStatus /\ coreNew' = EmptyStatus

\* Absent, deleting and paused objects return early; so does, with the same
\* effect as an empty patch, a pass that changes nothing.
CoreReconcile ==
  /\ corePc = "idle" /\ coreQ
  /\ coreQ' = FALSE
  /\ IF /\ Exists(coreCache) /\ ~coreCache.deleting /\ ~coreCache.paused
        /\ CoreStatus(coreCache, ready, supported) # coreCache.st
     THEN /\ corePc' = "patch"
          /\ coreBase' = coreCache.st
          /\ coreNew' = CoreStatus(coreCache, ready, supported)
     ELSE UNCHANGED <<corePc, coreBase, coreNew>>
  /\ UNCHANGED <<apiVars, envVars, coreCache, shimVars>>

\* Status().Patch carries neither a uid nor a resourceVersion.
CorePatch ==
  /\ corePc = "patch"
  /\ Exists(md)
  /\ Store([md EXCEPT !.st = MergePatch(coreBase, coreNew, @)])
  /\ CoreIdle
  /\ UNCHANGED <<ws, envVars, coreCache, coreQ, shimCache, shimQ, shimPc,
                 shimSnap>>

CorePatchNotFound ==
  /\ corePc = "patch"
  /\ ~Exists(md)
  /\ CoreIdle
  /\ coreQ' = TRUE
  /\ UNCHANGED <<apiVars, envVars, coreCache, shimVars>>

CorePatchFault ==
  /\ corePc = "patch"
  /\ Disturb("fault")
  /\ CoreIdle
  /\ coreQ' = TRUE
  /\ UNCHANGED <<apiVars, others, coreCache, shimVars>>

CoreRestart ==
  /\ Disturb("restart")
  /\ coreCache' = md
  /\ coreQ' = Exists(md)
  /\ CoreIdle
  /\ UNCHANGED <<apiVars, others, shimVars>>

CoreStep == CoreReconcile \/ CorePatch \/ CorePatchNotFound

-----------------------------------------------------------------------------
(* The shim's Reconcile *)

ShimIdle(requeue) ==
  /\ shimPc' = "idle" /\ shimSnap' = Absent /\ shimFresh' = FALSE
  /\ shimQ' = (shimQ \/ requeue)

ShimGoto(pc, snap) == shimPc' = pc /\ shimSnap' = snap

Assigned(o) == Exists(o) /\ o.st.prov = Self /\ ~o.paused

\* Mutant: the Workspace is made without adding the finalizer first.
ShimRouteUnguarded(o) ==
  IF o.deleting
  THEN [pc |-> "terminate", st |-> [o.st EXCEPT !.phase = "Terminating"]]
  ELSE [pc |-> "get", st |-> Compatible(o.st)]

\* Mutant: a pass that finds the operator down does not ask for another one.
ShimRouteNoRetry(o) ==
  IF o.deleting
  THEN [pc |-> "terminate", st |-> [o.st EXCEPT !.phase = "Terminating"]]
  ELSE IF ~o.fin
  THEN [pc |-> "finalize", st |-> o.st]
  ELSE IF ~up
  THEN [pc |-> "write", st |-> Unhealthy(o.st)]
  ELSE IF o.shape = "good"
  THEN [pc |-> "get", st |-> Compatible(o.st)]
  ELSE [pc |-> "write", st |-> Incompatible(o.st)]

\* Where a pass on o goes next, and the status it has computed by then.
ShimRoute(o) ==
  IF o.deleting
  THEN [pc |-> "terminate", st |-> [o.st EXCEPT !.phase = "Terminating"]]
  ELSE IF ~o.fin
  THEN [pc |-> "finalize", st |-> o.st]
  ELSE IF o.shape = "incompatible"
  THEN [pc |-> "write", st |-> Incompatible(o.st)]
  ELSE IF ~up
  THEN [pc |-> "writeRequeue", st |-> Unhealthy(o.st)]
  ELSE IF o.shape = "unrenderable"
  THEN [pc |-> "write", st |-> FailClosed(Compatible(o.st))]
  ELSE [pc |-> "get", st |-> Compatible(o.st)]

\* The cached Get, the early returns, the compatibility check, the probe of
\* the operator and the render.
ShimReconcile ==
  /\ shimPc = "idle" /\ shimQ
  /\ shimQ' = FALSE
  /\ IF Assigned(shimCache) /\ (shimCache.deleting => shimCache.fin)
     THEN /\ ShimGoto(ShimRoute(shimCache).pc,
                      [shimCache EXCEPT !.st = ShimRoute(shimCache).st])
          /\ shimFresh' = shimCacheFresh
     ELSE UNCHANGED <<shimPc, shimSnap, shimFresh>>
  /\ UNCHANGED <<apiVars, envVars, coreVars, shimCache, shimCacheFresh>>

\* A write of the shim; its own copy stays the newest.
ShimStore(new) ==
  /\ md' = new
  /\ shimCacheFresh' = (shimCacheFresh /\ new = md)

\* Mutant: the shim writes without the version it read.
RefusedByWebhookOnly(pc) ==
  pc \in {"finalize", "release"} /\ ~Compatibility(md, supported)

\* Update is refused when the copy is not the newest version; an Update of the
\* object itself, not of its status, also when the webhook rejects the spec.
Refused(pc) ==
  \/ ~shimFresh
  \/ pc \in {"finalize", "release"} /\ ~Compatibility(md, supported)

ShimRefused(pc) ==
  /\ shimPc = pc
  /\ Refused(pc)
  /\ ShimIdle(TRUE)
  /\ UNCHANGED <<apiVars, envVars, coreVars, shimCache, shimCacheFresh>>

\* AddFinalizer, Update, and Requeue.
ShimAddFinalizer ==
  /\ shimPc = "finalize"
  /\ ~Refused("finalize")
  /\ ShimStore([md EXCEPT !.fin = TRUE])
  /\ ShimIdle(TRUE)
  /\ UNCHANGED <<ws, envVars, coreVars, shimCache>>

Owned == ws.owner = shimSnap.uid

\* createOrUpdateResource: the live Get and what it decides.
ShimGet ==
  /\ shimPc = "get"
  /\ LET serving == ~ws.deleting /\ ws.state = "Ready"
         next == CASE ~WsExists(ws) -> "create"
                   [] WsExists(ws) /\ ~Owned -> "writeRequeue"
                   [] Owned /\ ws.gen = shimSnap.gen -> "sync"
                   [] OTHER -> IF serving THEN "patchServing" ELSE "patch"
     IN  ShimGoto(next, IF next = "writeRequeue"
                        THEN [shimSnap EXCEPT !.st = FailClosed(@)]
                        ELSE shimSnap)
  /\ UNCHANGED <<apiVars, envVars, coreVars, shimCache, shimCacheFresh, shimQ,
                 shimFresh>>

ShimFails(status) ==
  ShimGoto("writeRequeue", [shimSnap EXCEPT !.st = status])

ShimGetFault ==
  /\ shimPc = "get"
  /\ Disturb("fault")
  /\ ShimFails(FailClosed(shimSnap.st))
  /\ UNCHANGED <<apiVars, others, coreVars, shimCache, shimCacheFresh, shimQ,
                 shimFresh>>

\* Create; someone else's Workspace may have come first.
ShimCreate ==
  /\ shimPc = "create"
  /\ IF WsExists(ws)
     THEN ShimFails(FailClosed(shimSnap.st)) /\ UNCHANGED ws
     ELSE ShimGoto("sync", shimSnap) /\ ws' = NewWs(shimSnap)
  /\ UNCHANGED <<md, envVars, coreVars, shimCache, shimCacheFresh, shimQ,
                 shimFresh>>

\* A patch by name, without a precondition on what was read before.
ShimPatch ==
  /\ shimPc \in {"patch", "patchServing"}
  /\ IF WsExists(ws)
     THEN ShimGoto("sync", shimSnap) /\ ws' = [ws EXCEPT !.gen = shimSnap.gen]
     ELSE ShimFails(FailClosed(shimSnap.st)) /\ UNCHANGED ws
  /\ UNCHANGED <<md, envVars, coreVars, shimCache, shimCacheFresh, shimQ,
                 shimFresh>>

\* A Create or Patch whose answer is an error; the write may have happened.  A
\* retryable error keeps the status of a Workspace last seen serving.
ShimWriteFault ==
  /\ shimPc \in {"create", "patch", "patchServing"}
  /\ Disturb("fault")
  /\ \/ UNCHANGED ws
     \/ shimPc = "create" /\ ~WsExists(ws) /\ ws' = NewWs(shimSnap)
     \/ /\ shimPc # "create" /\ WsExists(ws)
        /\ ws' = [ws EXCEPT !.gen = shimSnap.gen]
  /\ \/ /\ ShimFails(FailClosed(shimSnap.st))
        /\ shimPc = "patchServing" => ws' = ws
     \/ shimPc = "patchServing" /\ ShimFails(KeepServing(shimSnap.st))
  /\ UNCHANGED <<md, others, coreVars, shimCache, shimCacheFresh, shimQ,
                 shimFresh>>

\* syncStatus: a second live Get; an absent Workspace leaves the status as is.
ShimSync ==
  /\ shimPc = "sync"
  /\ ShimGoto("writeRequeue", [shimSnap EXCEPT !.st = Reconciled(@, ws)])
  /\ UNCHANGED <<apiVars, envVars, coreVars, shimCache, shimCacheFresh, shimQ,
                 shimFresh>>

\* A failed Get in syncStatus is only logged.
ShimSyncFault ==
  /\ shimPc = "sync"
  /\ Disturb("fault")
  /\ ShimGoto("writeRequeue", [shimSnap EXCEPT !.st = Reconciled(@, NoWs)])
  /\ UNCHANGED <<apiVars, others, coreVars, shimCache, shimCacheFresh, shimQ,
                 shimFresh>>

\* Status().Update at the end of a pass.
ShimUpdateStatus ==
  /\ shimPc \in {"write", "writeRequeue"}
  /\ ~Refused(shimPc)
  /\ ShimStore([md EXCEPT !.st = shimSnap.st])
  /\ ShimIdle(shimPc = "writeRequeue")
  /\ UNCHANGED <<ws, envVars, coreVars, shimCache>>

-----------------------------------------------------------------------------
(* The shim's handleDeletion *)

\* Phase Terminating; a refused Update is only logged, and the stale copy is
\* carried on.
ShimTerminate ==
  /\ shimPc = "terminate"
  /\ IF shimFresh THEN ShimStore([md EXCEPT !.st = shimSnap.st])
                  ELSE UNCHANGED <<md, shimCacheFresh>>
  /\ ShimGoto("find", shimSnap)
  /\ UNCHANGED <<ws, envVars, coreVars, shimCache, shimQ, shimFresh>>

\* A live Get; a Workspace that is not there or not ours ends the clean-up.
ShimFind ==
  /\ shimPc = "find"
  /\ ShimGoto(IF WsExists(ws) /\ Owned THEN "delete" ELSE "release", shimSnap)
  /\ UNCHANGED <<apiVars, envVars, coreVars, shimCache, shimCacheFresh, shimQ,
                 shimFresh>>

\* Mutant: the finalizer is removed as soon as Delete was accepted.
ShimDeleteNoWait ==
  /\ shimPc = "delete"
  /\ IF WsExists(ws) THEN ws' = Deleted(ws) ELSE UNCHANGED ws
  /\ ShimGoto("release", shimSnap)
  /\ UNCHANGED <<md, envVars, coreVars, shimCache, shimCacheFresh, shimQ,
                 shimFresh>>

\* Mutant: after Delete nothing brings the pass back.
ShimDeleteNoRequeue ==
  /\ shimPc = "delete"
  /\ IF WsExists(ws)
     THEN ws' = Deleted(ws) /\ ShimIdle(FALSE)
     ELSE UNCHANGED <<ws, shimQ, shimFresh>> /\ ShimGoto("release", shimSnap)
  /\ UNCHANGED <<md, envVars, coreVars, shimCache, shimCacheFresh>>

\* Delete by name, then a requeue that waits for the Workspace to go.
ShimDelete ==
  /\ shimPc = "delete"
  /\ IF WsExists(ws)
     THEN ws' = Deleted(ws) /\ ShimIdle(TRUE)
     ELSE UNCHANGED <<ws, shimQ, shimFresh>> /\ ShimGoto("release", shimSnap)
  /\ UNCHANGED <<md, envVars, coreVars, shimCache, shimCacheFresh>>

\* Mutant: the clean-up is given up at the first error.
ShimDeletionFaultGivesUp ==
  /\ shimPc \in {"find", "delete"}
  /\ Disturb("fault")
  /\ ShimGoto("release", shimSnap)
  /\ UNCHANGED <<apiVars, others, coreVars, shimCache, shimCacheFresh, shimQ,
                 shimFresh>>

\* An error of the Get or the Delete: give up after FinalizerTimeout.
ShimDeletionFault ==
  /\ shimPc \in {"find", "delete"}
  /\ Disturb("fault")
  /\ IF timedOut
     THEN ShimGoto("release", shimSnap) /\ UNCHANGED <<shimQ, shimFresh>>
     ELSE ShimIdle(TRUE)
  /\ UNCHANGED <<apiVars, others, coreVars, shimCache, shimCacheFresh>>

\* RemoveFinalizer and Update: the last finalizer of a deleted object.
ShimRelease ==
  /\ shimPc = "release"
  /\ ~Refused("release")
  /\ ShimStore(IF md.deleting THEN Absent ELSE [md EXCEPT !.fin = FALSE])
  /\ timedOut' = FALSE
  /\ ShimIdle(FALSE)
  /\ UNCHANGED <<ws, ready, supported, up, uids, left, coreVars, shimCache>>

\* An Update that fails for another reason than its version.  One whose answer
\* is lost did what the action does, and the pass it brings back is one the
\* watch event of that very write brings too.
ShimUpdateFault ==
  /\ Disturb("fault")
  /\ \/ shimPc = "terminate" /\ ShimGoto("find", shimSnap)
        /\ UNCHANGED <<shimQ, shimFresh>>
     \/ /\ shimPc \in {"finalize", "write", "writeRequeue", "release"}
        /\ ShimIdle(TRUE)
  /\ UNCHANGED <<apiVars, others, coreVars, shimCache, shimCacheFresh>>

ShimRestart ==
  /\ Disturb("restart")
  /\ shimCache' = md /\ shimCacheFresh' = TRUE
  /\ shimQ' = ShimWatches(md)
  /\ shimPc' = "idle" /\ shimSnap' = Absent /\ shimFresh' = FALSE
  /\ UNCHANGED <<apiVars, others, coreVars>>

ShimStep ==
  \/ ShimReconcile \/ ShimAddFinalizer
  \/ \E pc \in {"finalize", "write", "writeRequeue", "release"} :
       ShimRefused(pc)
  \/ ShimGet \/ ShimCreate \/ ShimPatch \/ ShimSync \/ ShimUpdateStatus
  \/ ShimTerminate \/ ShimFind \/ ShimDelete \/ ShimRelease

ShimFault ==
  \/ ShimGetFault \/ ShimWriteFault \/ ShimSyncFault \/ ShimDeletionFault
  \/ ShimUpdateFault

-----------------------------------------------------------------------------
(* The KAITO operator *)

OperatorProgress ==
  /\ up /\ WsExists(ws) /\ ~ws.deleting /\ ws.state # "Ready"
  /\ \E s \in {"NotReady", "Ready"} \ {ws.state} : ws' = [ws EXCEPT !.state = s]
  /\ UNCHANGED <<md, envVars, coreVars, shimVars>>

OperatorFinalize ==
  /\ up /\ WsExists(ws) /\ ws.deleting
  /\ ws' = NoWs
  /\ UNCHANGED <<md, envVars, coreVars, shimVars>>

OperatorDegrade ==
  /\ up /\ WsExists(ws) /\ ~ws.deleting /\ ws.state = "Ready"
  /\ Disturb("degrade")
  /\ \E s \in {"NotReady", "Failed"} : ws' = [ws EXCEPT !.state = s]
  /\ UNCHANGED <<md, others, coreVars, shimVars>>

OperatorDown ==
  /\ up /\ Disturb("outage") /\ up' = FALSE
  /\ UNCHANGED <<apiVars, ready, supported, timedOut, uids, coreVars,
                 shimVars>>

OperatorUp ==
  /\ ~up /\ up' = TRUE
  /\ UNCHANGED <<apiVars, ready, supported, timedOut, uids, left, coreVars,
                 shimVars>>

-----------------------------------------------------------------------------
(* Users and the other providers *)

UserCreate ==
  /\ ~Exists(md) /\ uids < MaxUid
  /\ Disturb("recreate")
  /\ uids' = uids + 1
  /\ \E p \in supported \cup {NoProv}, s \in Shapes :
       Store(NewMD(uids + 1, p, s))
  /\ UNCHANGED <<ws, ready, supported, up, timedOut, coreVars, shimCache,
                 shimQ, shimPc, shimSnap>>

UserEdit ==
  /\ Exists(md) /\ ~md.deleting /\ md.gen < MaxGen
  /\ Disturb("edit")
  /\ \E p \in supported \cup {NoProv}, s \in Shapes :
       /\ KeepsProvider(md, p)
       /\ Store([md EXCEPT !.prov = p, !.shape = s, !.gen = @ + 1])
  /\ UNCHANGED <<ws, others, coreVars, shimCache, shimQ, shimPc, shimSnap>>

UserPause ==
  /\ Exists(md) /\ Compatibility(md, supported)
  /\ Disturb("pause")
  /\ Store([md EXCEPT !.paused = ~@])
  /\ UNCHANGED <<ws, others, coreVars, shimCache, shimQ, shimPc, shimSnap>>

\* An object without finalizers goes at once.
UserDelete ==
  /\ Exists(md) /\ ~md.deleting
  /\ Disturb("delete")
  /\ Store(IF md.fin THEN [md EXCEPT !.deleting = TRUE] ELSE Absent)
  /\ UNCHANGED <<ws, others, coreVars, shimCache, shimQ, shimPc, shimSnap>>

UserDeleteWorkspace ==
  /\ WsExists(ws) /\ ~ws.deleting
  /\ Disturb("workspace")
  /\ ws' = Deleted(ws)
  /\ UNCHANGED <<md, others, coreVars, shimVars>>

UserCreateWorkspace ==
  /\ ~WsExists(ws)
  /\ Disturb("workspace")
  /\ ws' = [NoWs EXCEPT !.owner = Foreign]
  /\ UNCHANGED <<md, others, coreVars, shimVars>>

\* A provider's heartbeat turns its Ready around; the event's map function
\* reads the core's cache.
ProviderToggle ==
  \E p \in Providers :
    /\ Disturb("provider")
    /\ ready' = IF p \in ready THEN ready \ {p} ELSE ready \cup {p}
    /\ coreQ' = (coreQ \/ Affects(p, coreCache))
    /\ UNCHANGED <<apiVars, supported, up, timedOut, uids, coreCache, corePc,
                   coreBase, coreNew, shimVars>>

\* An upgrade of a provider changes the capabilities it registers.
ProviderCapabilities ==
  \E p \in Providers :
    /\ Disturb("capability")
    /\ supported' = IF p \in supported THEN supported \ {p}
                                        ELSE supported \cup {p}
    /\ coreQ' = (coreQ \/ Affects(p, coreCache))
    /\ UNCHANGED <<apiVars, ready, up, timedOut, uids, coreCache, corePc,
                   coreBase, coreNew, shimVars>>

FinalizerTimeout ==
  /\ Exists(md) /\ md.deleting /\ ~timedOut
  /\ timedOut' = TRUE
  /\ UNCHANGED <<apiVars, ready, supported, up, uids, left, coreVars,
                 shimVars>>

Environment ==
  \/ UserCreate \/ UserEdit \/ UserPause \/ UserDelete
  \/ UserDeleteWorkspace \/ UserCreateWorkspace \/ ProviderToggle
  \/ ProviderCapabilities
  \/ OperatorDegrade \/ OperatorDown \/ CorePatchFault \/ CoreRestart
  \/ ShimFault \/ ShimRestart

Next ==
  \/ DeliverCore \/ DeliverShim \/ CollectGarbage \/ FinalizerTimeout
  \/ CoreStep \/ ShimStep
  \/ OperatorProgress \/ OperatorFinalize \/ OperatorUp
  \/ Environment

Spec == Init /\ [][Next]_vars

\* The work queues hand out what is queued, the watches deliver, the garbage
\* collector, the operator and the clock go on.  Users, faults, restarts and
\* outages owe nothing.
Fairness ==
  /\ WF_vars(CoreStep) /\ WF_vars(ShimStep)
  /\ WF_vars(DeliverCore) /\ WF_vars(DeliverShim)
  /\ WF_vars(CollectGarbage) /\ WF_vars(FinalizerTimeout)
  /\ WF_vars(OperatorFinalize)
  /\ WF_vars(OperatorProgress /\ ws'.state = "Ready")

FairSpec == Spec /\ Fairness

\* An outage of the operator ends.
RecoveringSpec == FairSpec /\ WF_vars(OperatorUp)

-----------------------------------------------------------------------------
(* Properties *)

\* Every variable stays within its type.
TypeOK ==
  /\ md \in ModelDeployments /\ ws \in Workspaces
  /\ ready \subseteq Providers /\ supported \subseteq Providers
  /\ up \in BOOLEAN /\ timedOut \in BOOLEAN
  /\ uids \in 1..MaxUid /\ left \in 0..MaxDisturbances
  /\ coreCache \in ModelDeployments /\ coreQ \in BOOLEAN
  /\ corePc \in CorePcs /\ coreBase \in Statuses /\ coreNew \in Statuses
  /\ shimCache \in ModelDeployments /\ shimCacheFresh \in BOOLEAN
  /\ shimQ \in BOOLEAN /\ shimPc \in ShimPcs
  /\ shimSnap \in ModelDeployments /\ shimFresh \in BOOLEAN

\* A Workspace whose ModelDeployment still exists is guarded by the shim's
\* finalizer, whatever copies the shim worked from: no delete can drop the
\* object before the shim has cleaned up (add the finalizer, then create).
WorkspaceGuarded == WsExists(ws) /\ ws.owner = md.uid => md.fin

\* The finalizer goes, or the object with it, only when no Workspace of this
\* incarnation is left, or after FinalizerTimeout: the look-up, the delete,
\* the waiting and the Update are separate calls, and nothing in between may
\* bring the Workspace back.
FinalizerReleasedClean ==
  [][Exists(md) /\ md.fin /\ (md'.uid # md.uid \/ ~md'.fin)
       => ws.owner # md.uid \/ timedOut]_vars

\* The control plane keeps the promise of GuardedResource for the Workspace:
\* the steps of both controllers, the operator and the users map to its steps.
ObjectState ==
  IF ~Exists(md) THEN "absent" ELSE IF md.deleting THEN "deleting" ELSE "live"

Promise == INSTANCE GuardedResource WITH
  object   <- ObjectState,
  guarded  <- md.fin,
  resource <- Exists(md) /\ ws.owner = md.uid,
  expired  <- timedOut

KeepsPromise == Promise!Spec

\* A step of the shim that changes the object loses nothing the core or a user
\* wrote since the shim read it.
CoreFields(o) == <<o.uid, o.gen, o.prov, o.shape, o.paused, o.deleting,
                   o.st.prov, o.st.obs, o.st.conds.val, o.st.conds.sel>>

ShimLosesNoUpdate ==
  [][shimPc' # shimPc /\ md' # md /\ Exists(md')
       => CoreFields(md') = CoreFields(md)]_vars

\* Deletion ends: unless it is paused, an object under deletion goes away.
DeletionCompletes ==
  \A u \in Uids : (md.uid = u /\ md.deleting) ~> (md.uid # u \/ md.paused)

\* Once the disturbances are over, a good object the shim serves reports a
\* Workspace of its current generation as running.
Serviceable ==
  /\ Exists(md) /\ ~md.deleting /\ ~md.paused /\ md.shape = "good"
  /\ md.st.prov = Self /\ md.prov \in {NoProv, Self}
  /\ Compatibility(md, supported)
  /\ ws.owner # Foreign

Serving ==
  /\ ws.owner = md.uid /\ ws.gen = md.gen /\ ws.state = "Ready"
  /\ md.st.phase = "Running" /\ md.st.ep /\ md.st.obs = md.gen
  /\ md.st.conds.ready = "True" /\ md.st.conds.created = "True"
  /\ md.st.conds.compat = "True" /\ md.st.conds.val = "True"

StatusConverges == <>[]Serviceable => <>[]Serving

\* No wake-up is lost between a provider that becomes ready and an object that
\* waits for one.
Selectable ==
  /\ Exists(md) /\ ~md.deleting /\ ~md.paused
  /\ Compatibility(md, supported)
  /\ md.prov # NoProv \/ ready \cap supported # {}

SelectionHappens == <>[]Selectable => <>(md.st.prov # NoProv \/ ~Exists(md))

-----------------------------------------------------------------------------
(* What comments and docs say and the code does not do *)

\* "Provider already selected": an incarnation keeps its provider.
ProviderStable ==
  [][Exists(md) /\ md'.uid = md.uid /\ md.st.prov # NoProv
       => md'.st.prov = md.st.prov]_vars

\* "This avoids clobbering status fields set by out-of-tree provider
\* controllers": a patch of the core leaves the shim's conditions alone.
ShimConditions(o) ==
  <<o.st.conds.compat, o.st.conds.created, o.st.conds.ready>>

CoreKeepsShimConditions ==
  [][corePc' # corePc /\ md' # md => ShimConditions(md') = ShimConditions(md)]_vars

\* "After timeout, controller removes finalizer": an object under deletion for
\* longer than FinalizerTimeout goes away, operator or not.
TimeoutReleases ==
  \A u \in Uids : (md.uid = u /\ md.deleting /\ timedOut)
                    ~> (md.uid # u \/ md.paused)
=============================================================================
