----------------------------- MODULE DynamoShim -----------------------------
(***************************************************************************)
(* The Dynamo shim and the storage package: a ModelDeployment's claim (a   *)
(* PVC), the Job that downloads its model, and its DynamoGraphDeployment,  *)
(* the graph.  The shim reads ModelDeployments, claims and Jobs from       *)
(* informer caches that lag independently of each other, the graph live.   *)
(* It deletes claims and Jobs by name.  Several objects may resolve to one *)
(* claim.  One worker: one pass at a time, one step per API call.          *)
(***************************************************************************)
EXTENDS Integers

CONSTANTS
  Names,            \* names of ModelDeployments
  NoName,           \* the name in an owner that is no ModelDeployment
  Claims,           \* names of claims
  ClaimOf,          \* ResolvedClaimName of each object
  Volumes,          \* kinds of model cache: "none", "managed", "claimed"
  Shapes,           \* what else of a spec the shim tells apart
  MaxUid,           \* bound: incarnations of each name
  MaxGen,           \* bound: generations of each incarnation
  MaxDisturbances,  \* bound: disturbances by users, faults, restarts, outages
  Kinds,            \* the kinds of disturbance of this instance
  Observed          \* the name whose promise is looked at

ASSUME NamesAssumption ==
  NoName \notin Names /\ Observed \in Names /\ ClaimOf \in [Names -> Claims]

ASSUME SpecAssumption ==
  /\ Volumes # {} /\ Volumes \subseteq {"none", "managed", "claimed"}
  /\ "good" \in Shapes
  /\ Shapes \subseteq {"good", "incompatible", "unrenderable"}

ASSUME BoundsAssumption ==
  /\ MaxUid \in Nat \ {0} /\ MaxGen \in Nat \ {0}
  /\ MaxDisturbances \in Nat

VARIABLES
  md, pvc, job, dgd,   \* the API server: objects, claims, Jobs, graphs
  downloaded,          \* history: owners whose download Job completed
  up,                  \* the Dynamo operator runs
  timedOut,            \* objects under deletion for FinalizerTimeout
  uids,                \* incarnations created so far, by name
  left,                \* disturbances left
  mdCache, mdCacheFresh, pvcCache, jobCache,   \* the shim's informers
  queue,                                       \* its work queue
  shimPc, shimKey, shimSnap, shimFresh,        \* its pass
  graphFresh           \* the graph is as the pass last read it

api     == <<md, pvc, job, dgd>>
world   == <<downloaded, up, timedOut, uids, left>>
caches  == <<mdCache, mdCacheFresh, pvcCache, jobCache>>
pass    == <<shimPc, shimKey, shimSnap, shimFresh, graphFresh>>
vars    == <<api, world, caches, queue, pass>>

-----------------------------------------------------------------------------
(* Objects *)

Tri    == {"Unknown", "True", "False"}
Phases == {"", "Pending", "Deploying", "Running", "Failed", "Terminating"}
Owners == [name : Names \cup {NoName}, uid : 0..MaxUid]

Nobody   == [name |-> NoName, uid |-> 0]    \* the owner of nothing: absent
Stranger == [name |-> NoName, uid |-> 1]    \* no ModelDeployment made it
Of(n, o) == [name |-> n, uid |-> o.uid]

Statuses == [phase : Phases, stor : Tri, down : Tri, created : Tri,
             ready : Tri, ep : BOOLEAN]
ModelDeployments ==
  [uid : 0..MaxUid, gen : 1..MaxGen, vol : Volumes, shape : Shapes,
   bound : BOOLEAN, paused : BOOLEAN, deleting : BOOLEAN, fin : BOOLEAN,
   st : Statuses]

PvcPhases == {"none", "Pending", "Bound", "Lost"}
\* "LastTry": active after as many failed Pods as the Job may retry.
JobStates == {"none", "Active", "LastTry", "Complete", "Failed"}
Running   == {"Active", "LastTry"}
DgdStates == {"none", "NotReady", "Ready", "Failed"}
Pvcs == [owner : Owners, phase : PvcPhases, deleting : BOOLEAN]
Jobs == [owner : Owners, state : JobStates]
Dgds == [owner : Owners, gen : 0..MaxGen, state : DgdStates,
         deleting : BOOLEAN]

EmptyStatus == [phase |-> "", stor |-> "Unknown", down |-> "Unknown",
                created |-> "Unknown", ready |-> "Unknown", ep |-> FALSE]

NewMD(u, v) ==
  [uid |-> u, gen |-> 1, vol |-> v, shape |-> "good", bound |-> FALSE,
   paused |-> FALSE, deleting |-> FALSE, fin |-> FALSE, st |-> EmptyStatus]

Absent    == NewMD(0, CHOOSE v \in Volumes : TRUE)
Exists(o) == o.uid # 0

NoPvc == [owner |-> Nobody, phase |-> "none", deleting |-> FALSE]
NoJob == [owner |-> Nobody, state |-> "none"]
NoDgd == [owner |-> Nobody, gen |-> 0, state |-> "none", deleting |-> FALSE]
StrangersPvc == [owner |-> Stranger, phase |-> "Bound", deleting |-> FALSE]

There(x) == x.owner # Nobody

NewPvc(n, o) == [owner |-> Of(n, o), phase |-> "Pending", deleting |-> FALSE]
NewJob(n, o) == [owner |-> Of(n, o), state |-> "Active"]
NewDgd(n, o) == [owner |-> Of(n, o), gen |-> o.gen, state |-> "none",
                 deleting |-> FALSE]

\* The claim protection keeps a deleted claim while Pods mount it, and no Pod
\* runs before its claims are bound.
Mounted(c) ==
  /\ pvc[c].phase # "Pending"
  /\ \E n \in Names : /\ ClaimOf[n] = c
                      /\ job[n].state \in Running \/ There(dgd[n])

DeletedPvc(c) ==
  IF Mounted(c) THEN [pvc[c] EXCEPT !.deleting = TRUE] ELSE NoPvc

\* A graph its operator has seen carries the operator's finalizer.
DeletedDgd(g) == IF g.state = "none" THEN NoDgd ELSE [g EXCEPT !.deleting = TRUE]

Init ==
  /\ \E v \in [Names -> Volumes] : md = [n \in Names |-> NewMD(1, v[n])]
  /\ pvc \in [Claims -> {NoPvc, StrangersPvc}]
  /\ job = [n \in Names |-> NoJob] /\ dgd = [n \in Names |-> NoDgd]
  /\ downloaded = {} /\ up = TRUE
  /\ timedOut = [n \in Names |-> FALSE] /\ uids = [n \in Names |-> 1]
  /\ left = MaxDisturbances
  /\ mdCache = [n \in Names |-> Absent]
  /\ mdCacheFresh = [n \in Names |-> FALSE]
  /\ pvcCache = pvc /\ jobCache = job   \* synced before the first pass
  /\ queue = {}
  /\ shimPc = "idle" /\ shimKey = Observed /\ shimSnap = Absent
  /\ shimFresh = FALSE /\ graphFresh = FALSE

Disturb(kind) == kind \in Kinds /\ left > 0 /\ left' = left - 1

\* Someone other than the shim leaves object n as new.
Store(n, new) ==
  /\ md' = [md EXCEPT ![n] = new]
  /\ mdCacheFresh' = [mdCacheFresh EXCEPT ![n] = @ /\ new = md[n]]
  /\ shimFresh' = (shimFresh /\ (shimKey = n => new = md[n]))

\* Someone other than the shim leaves graph n as new.
StoreGraph(n, new) ==
  /\ dgd' = [dgd EXCEPT ![n] = new]
  /\ graphFresh' = (graphFresh /\ (shimKey = n => new = dgd[n]))

-----------------------------------------------------------------------------
(* Watches *)

\* dynamoProviderPredicate
Watched(o) == Exists(o) /\ (o.bound \/ o.fin)

DeliverMD(n) ==
  /\ ~mdCacheFresh[n]
  /\ mdCache' = [mdCache EXCEPT ![n] = md[n]]
  /\ mdCacheFresh' = [mdCacheFresh EXCEPT ![n] = TRUE]
  /\ queue' = IF Watched(IF Exists(md[n]) THEN md[n] ELSE mdCache[n])
              THEN queue \cup {n} ELSE queue
  /\ UNCHANGED <<api, world, pvcCache, jobCache, pass>>

\* Owns: the owners named by the old and the new version.
Wake(x, y) == queue' = queue \cup ({x.owner.name, y.owner.name} \cap Names)

DeliverPvc(c) ==
  /\ pvcCache[c] # pvc[c]
  /\ pvcCache' = [pvcCache EXCEPT ![c] = pvc[c]]
  /\ Wake(pvcCache[c], pvc[c])
  /\ UNCHANGED <<api, world, mdCache, mdCacheFresh, jobCache, pass>>

DeliverJob(n) ==
  /\ jobCache[n] # job[n]
  /\ jobCache' = [jobCache EXCEPT ![n] = job[n]]
  /\ Wake(jobCache[n], job[n])
  /\ UNCHANGED <<api, world, mdCache, mdCacheFresh, pvcCache, pass>>

Deliver == \/ \E n \in Names : DeliverMD(n) \/ DeliverJob(n)
           \/ \E c \in Claims : DeliverPvc(c)

-----------------------------------------------------------------------------
(* Reconcile: the steps that read caches only *)

ShimPcs == {"idle", "finalize", "pvcCreate", "pvcDelete", "jobCreate",
            "jobDelete", "get", "create", "update", "updateServing", "sync",
            "write", "writeRequeue", "terminate", "find", "delete",
            "cleanJobs", "cleanPvcs", "cleanPvcsFailed", "release"}

Failed(s)        == [s EXCEPT !.phase = "Failed"]
FailClosed(s)    == [s EXCEPT !.created = "False", !.ready = "False",
                              !.ep = FALSE, !.phase = "Failed"]
KeepServing(s)   == [s EXCEPT !.created = "False"]
PvcFailed(s)     == [s EXCEPT !.stor = "False", !.phase = "Failed"]
PvcPending(s)    == [s EXCEPT !.stor = "False", !.phase = "Pending"]
JobFailed(s)     == [s EXCEPT !.down = "False", !.phase = "Failed"]

\* Mutant: setCondition with status and reason swapped.
JobPendingSwapped(s) == [s EXCEPT !.down = "DownloadInProgress",
                                  !.phase = "Pending"]

JobPending(s)    == [s EXCEPT !.down = "False", !.phase = "Pending"]

\* mapStateToPhase
PhaseOf(state) ==
  CASE state = "Ready"    -> "Running"
    [] state = "NotReady" -> "Deploying"
    [] state = "Failed"   -> "Failed"
    [] OTHER              -> "Pending"

\* syncStatus and the end of Reconcile.
Reconciled(s, g) ==
  LET made == [s EXCEPT !.created = "True"]
      t == IF There(g)
           THEN [made EXCEPT !.phase = PhaseOf(g.state),
                             !.ep = (g.state # "none"),
                             !.ready = IF g.state = "Ready" THEN "True"
                                                            ELSE "False"]
           ELSE made
  IN  IF t.phase \in {"Running", "Failed"} THEN t
                                           ELSE [t EXCEPT !.phase = "Deploying"]

\* Mutant: a lost claim is replaced like a stale one.
EnsurePVCsReplacingLost(n, o) ==
  LET p == pvcCache[ClaimOf[n]]
  IN  IF o.vol = "none" THEN "ready"
      ELSE CASE ~There(p)          -> "create"
             [] p.owner = Of(n, o) ->
                  IF p.phase = "Lost" THEN "delete" ELSE "ready"
             [] OTHER              -> "fail"

\* EnsurePVCs, up to the call it makes.  A managed claim is ready before it is
\* bound; one of another owner is stale if airunway made it.
EnsurePVCs(n, o) ==
  LET p == pvcCache[ClaimOf[n]]
  IN  CASE o.vol = "none" -> "ready"
        [] o.vol = "claimed" ->
             CASE p.phase = "Bound"   -> "ready"
               [] p.phase = "Pending" -> "wait"
               [] OTHER               -> "fail"
        [] o.vol = "managed" ->
             CASE ~There(p)             -> "create"
               [] p.owner = Stranger    -> "fail"
               [] p.owner = Of(n, o)    -> IF p.phase = "Lost" THEN "fail"
                                                               ELSE "ready"
               [] OTHER                 -> "delete"

\* Mutant: whose Job it is does not matter.
EnsureDownloadJobOfAnyone(n, o) ==
  IF o.vol = "none" THEN "ready"
  ELSE IF ~There(jobCache[n]) THEN "create"
  ELSE CASE jobCache[n].state = "Complete" -> "ready"
         [] jobCache[n].state = "Active"   -> "wait"
         [] OTHER                          -> "fail"

\* EnsureDownloadJob, up to the call it makes.  The counters report the last
\* try as a failure.
EnsureDownloadJob(n, o) ==
  IF o.vol = "none" THEN "ready"
  ELSE IF ~There(jobCache[n]) THEN "create"
  ELSE IF jobCache[n].owner # Of(n, o) THEN "delete"
  ELSE CASE jobCache[n].state = "Complete" -> "ready"
         [] jobCache[n].state = "Active"   -> "wait"
         [] OTHER                          -> "fail"

\* Where a pass on o goes next, and the status it has computed by then.
Route(n, o) ==
  LET stored == IF o.vol = "none" THEN o.st ELSE [o.st EXCEPT !.stor = "True"]
      loaded == IF o.vol = "none" THEN stored
                                  ELSE [stored EXCEPT !.down = "True"]
      claims == EnsurePVCs(n, o)
      model  == EnsureDownloadJob(n, o)
      To(pc, st) == [pc |-> pc, st |-> st]
  IN  IF o.deleting THEN To("terminate", [o.st EXCEPT !.phase = "Terminating"])
      ELSE IF ~o.fin THEN To("finalize", o.st)
      ELSE IF o.shape = "incompatible" THEN To("write", Failed(o.st))
      ELSE IF claims # "ready"
      THEN CASE claims = "create" -> To("pvcCreate", o.st)
             [] claims = "delete" -> To("pvcDelete", o.st)
             [] claims = "wait"   -> To("writeRequeue", PvcPending(o.st))
             [] claims = "fail"   -> To("write", PvcFailed(o.st))
      ELSE IF model # "ready"
      THEN CASE model = "create" -> To("jobCreate", stored)
             [] model = "delete" -> To("jobDelete", stored)
             [] model = "wait"   -> To("writeRequeue", JobPending(stored))
             [] model = "fail"   -> To("write", JobFailed(stored))
      ELSE IF o.shape = "unrenderable" THEN To("write", FailClosed(loaded))
      ELSE To("get", loaded)

Assigned(o) == Exists(o) /\ o.bound /\ ~o.paused

ShimReconcile ==
  /\ shimPc = "idle"
  /\ \E n \in queue :
       /\ queue' = queue \ {n}
       /\ shimKey' = n
       /\ graphFresh' = FALSE
       /\ IF Assigned(mdCache[n]) /\ (mdCache[n].deleting => mdCache[n].fin)
          THEN LET r == Route(n, mdCache[n])
               IN  /\ shimPc' = r.pc
                   /\ shimSnap' = [mdCache[n] EXCEPT !.st = r.st]
                   /\ shimFresh' = mdCacheFresh[n]
          ELSE UNCHANGED <<shimPc, shimSnap, shimFresh>>
  /\ UNCHANGED <<api, world, caches>>

-----------------------------------------------------------------------------
(* Reconcile: the API calls *)

me == Of(shimKey, shimSnap)
claim == ClaimOf[shimKey]

Idle(requeue) ==
  /\ shimPc' = "idle" /\ shimSnap' = Absent /\ shimFresh' = FALSE
  /\ graphFresh' = FALSE
  /\ queue' = IF requeue THEN queue \cup {shimKey} ELSE queue
  /\ UNCHANGED shimKey

Goto(pc, st) ==
  /\ shimPc' = pc /\ shimSnap' = [shimSnap EXCEPT !.st = st]
  /\ UNCHANGED <<shimKey, shimFresh, queue>>

Step(pc, st) == Goto(pc, st) /\ UNCHANGED graphFresh

\* A write of the shim; its own copy stays the newest.
ShimStore(new) ==
  /\ md' = [md EXCEPT ![shimKey] = new]
  /\ mdCacheFresh' = [mdCacheFresh EXCEPT ![shimKey] = @ /\ new = md[shimKey]]

\* A write of the ModelDeployment from a copy that is not the newest version:
\* a conflict, an error of the pass.
ShimRefused ==
  /\ shimPc \in {"finalize", "write", "writeRequeue", "release"}
  /\ ~shimFresh
  /\ Idle(TRUE)
  /\ UNCHANGED <<api, world, caches>>

ShimAddFinalizer ==
  /\ shimPc = "finalize" /\ shimFresh
  /\ ShimStore([md[shimKey] EXCEPT !.fin = TRUE])
  /\ Idle(TRUE)
  /\ UNCHANGED <<pvc, job, dgd, world, mdCache, pvcCache, jobCache>>

\* Create the claim; it may exist by now.
ShimPvcCreate ==
  /\ shimPc = "pvcCreate"
  /\ pvc' = IF There(pvc[claim]) THEN pvc
            ELSE [pvc EXCEPT ![claim] = NewPvc(shimKey, shimSnap)]
  /\ Step("writeRequeue", PvcPending(shimSnap.st))
  /\ UNCHANGED <<md, job, dgd, world, caches>>

\* deleteStalePVC: by name, whatever has the name by now.
ShimPvcDelete ==
  /\ shimPc = "pvcDelete"
  /\ pvc' = [pvc EXCEPT ![claim] = IF There(@) THEN DeletedPvc(claim) ELSE @]
  /\ Step("writeRequeue", PvcPending(shimSnap.st))
  /\ UNCHANGED <<md, job, dgd, world, caches>>

ShimJobCreate ==
  /\ shimPc = "jobCreate"
  /\ job' = IF There(job[shimKey]) THEN job
            ELSE [job EXCEPT ![shimKey] = NewJob(shimKey, shimSnap)]
  /\ Step("writeRequeue", JobPending(shimSnap.st))
  /\ UNCHANGED <<md, pvc, dgd, world, caches>>

\* deleteStaleJob, with background propagation: it is gone at once.
ShimJobDelete ==
  /\ shimPc = "jobDelete"
  /\ job' = [job EXCEPT ![shimKey] = NoJob]
  /\ Step("writeRequeue", JobPending(shimSnap.st))
  /\ UNCHANGED <<md, pvc, dgd, world, caches>>

\* Any of the four fails; nothing asks for another pass.
ShimStorageFault ==
  /\ shimPc \in {"pvcCreate", "pvcDelete", "jobCreate", "jobDelete"}
  /\ Disturb("fault")
  /\ Step("write", IF shimPc \in {"pvcCreate", "pvcDelete"}
                   THEN PvcFailed(shimSnap.st) ELSE JobFailed(shimSnap.st))
  /\ UNCHANGED <<api, downloaded, up, timedOut, uids, caches>>

\* createOrUpdateResource: the live Get and what it decides.
ShimGet ==
  /\ shimPc = "get"
  /\ LET g == dgd[shimKey]
     IN  IF ~There(g) THEN Goto("create", shimSnap.st)
         ELSE IF g.owner # me THEN Goto("writeRequeue", FailClosed(shimSnap.st))
         ELSE IF g.gen = shimSnap.gen THEN Goto("sync", shimSnap.st)
         ELSE Goto(IF g.state = "Ready" /\ ~g.deleting THEN "updateServing"
                                                      ELSE "update",
                   shimSnap.st)
  /\ graphFresh' = TRUE
  /\ UNCHANGED <<api, world, caches>>

ShimCreate ==
  /\ shimPc = "create"
  /\ IF There(dgd[shimKey])
     THEN Step("writeRequeue", FailClosed(shimSnap.st)) /\ UNCHANGED dgd
     ELSE /\ Step("sync", shimSnap.st)
          /\ dgd' = [dgd EXCEPT ![shimKey] = NewDgd(shimKey, shimSnap)]
  /\ UNCHANGED <<md, pvc, job, world, caches>>

\* An Update with the resourceVersion of the Get; a conflict keeps the status
\* of a graph that was serving.
ShimUpdate ==
  /\ shimPc \in {"update", "updateServing"}
  /\ IF graphFresh
     THEN /\ Step("sync", shimSnap.st)
          /\ dgd' = [dgd EXCEPT ![shimKey].gen = shimSnap.gen]
     ELSE /\ Step("writeRequeue",
                  IF shimPc = "updateServing" /\ There(dgd[shimKey])
                  THEN KeepServing(shimSnap.st) ELSE FailClosed(shimSnap.st))
          /\ UNCHANGED dgd
  /\ UNCHANGED <<md, pvc, job, world, caches>>

\* A Get, Create or Update whose answer is an error.  The write may have
\* happened; a retryable error keeps the status of a graph that was serving.
ShimGraphFault ==
  /\ shimPc \in {"get", "create", "update", "updateServing"}
  /\ Disturb("fault")
  /\ \/ UNCHANGED dgd
     \/ /\ shimPc = "create" /\ ~There(dgd[shimKey])
        /\ dgd' = [dgd EXCEPT ![shimKey] = NewDgd(shimKey, shimSnap)]
     \/ /\ shimPc \in {"update", "updateServing"} /\ graphFresh
        /\ dgd' = [dgd EXCEPT ![shimKey].gen = shimSnap.gen]
  /\ \/ /\ Step("writeRequeue", FailClosed(shimSnap.st))
        /\ shimPc = "updateServing" => UNCHANGED dgd
     \/ /\ shimPc = "updateServing"
        /\ Step("writeRequeue", KeepServing(shimSnap.st))
  /\ UNCHANGED <<md, pvc, job, downloaded, up, timedOut, uids, caches>>

\* syncStatus: a second live Get.
ShimSync ==
  /\ shimPc = "sync"
  /\ Step("writeRequeue", Reconciled(shimSnap.st, dgd[shimKey]))
  /\ UNCHANGED <<api, world, caches>>

\* Its failure is only logged.
ShimSyncFault ==
  /\ shimPc = "sync"
  /\ Disturb("fault")
  /\ Step("writeRequeue", Reconciled(shimSnap.st, NoDgd))
  /\ UNCHANGED <<api, downloaded, up, timedOut, uids, caches>>

\* Mutant: nothing brings the pass back once its status is written.
ShimUpdateStatusNoRequeue ==
  /\ shimPc \in {"write", "writeRequeue"} /\ shimFresh
  /\ ShimStore([md[shimKey] EXCEPT !.st = shimSnap.st])
  /\ Idle(FALSE)
  /\ UNCHANGED <<pvc, job, dgd, world, mdCache, pvcCache, jobCache>>

ShimUpdateStatus ==
  /\ shimPc \in {"write", "writeRequeue"} /\ shimFresh
  /\ ShimStore([md[shimKey] EXCEPT !.st = shimSnap.st])
  /\ Idle(shimPc = "writeRequeue")
  /\ UNCHANGED <<pvc, job, dgd, world, mdCache, pvcCache, jobCache>>

-----------------------------------------------------------------------------
(* handleDeletion *)

ShimTerminate ==
  /\ shimPc = "terminate"
  /\ IF shimFresh THEN ShimStore([md[shimKey] EXCEPT !.st = shimSnap.st])
                  ELSE UNCHANGED <<md, mdCacheFresh>>
  /\ Step("find", shimSnap.st)
  /\ UNCHANGED <<pvc, job, dgd, world, mdCache, pvcCache, jobCache>>

\* Mutant: storage is cleaned up while the graph is going.
ShimFindNoWait ==
  /\ shimPc = "find"
  /\ Step(IF ~There(dgd[shimKey]) \/ dgd[shimKey].deleting THEN "cleanJobs"
          ELSE IF dgd[shimKey].owner = me THEN "delete" ELSE "release",
          shimSnap.st)
  /\ UNCHANGED <<api, world, caches>>

\* A live Get: gone, ours, or someone else's, which ends the clean-up.
ShimFind ==
  /\ shimPc = "find"
  /\ Step(IF ~There(dgd[shimKey]) THEN "cleanJobs"
          ELSE IF dgd[shimKey].owner = me THEN "delete" ELSE "release",
          shimSnap.st)
  /\ UNCHANGED <<api, world, caches>>

\* Give up after FinalizerTimeout, else try again later.
GiveUpOrRetry ==
  IF timedOut[shimKey] THEN Step("release", shimSnap.st) ELSE Idle(TRUE)

\* Mutant: nothing brings the pass back after Delete.
ShimDeleteNoRequeue ==
  /\ shimPc = "delete"
  /\ IF There(dgd[shimKey])
     THEN /\ dgd' = [dgd EXCEPT ![shimKey] = DeletedDgd(@)]
          /\ Idle(FALSE)
     ELSE GiveUpOrRetry /\ UNCHANGED dgd
  /\ UNCHANGED <<md, pvc, job, world, caches>>

\* Delete by name, and wait for the graph to go.  When Delete finds it gone,
\* the test that follows looks at the outcome of the Get, which was a success.
ShimDelete ==
  /\ shimPc = "delete"
  /\ IF There(dgd[shimKey])
     THEN /\ dgd' = [dgd EXCEPT ![shimKey] = DeletedDgd(@)]
          /\ Idle(TRUE)
     ELSE GiveUpOrRetry /\ UNCHANGED dgd
  /\ UNCHANGED <<md, pvc, job, world, caches>>

\* Mutant: the clean-up is given up at the first error.
ShimDeletionFaultGivesUp ==
  /\ shimPc \in {"find", "delete"}
  /\ Disturb("fault")
  /\ Step("release", shimSnap.st)
  /\ UNCHANGED <<api, downloaded, up, timedOut, uids, caches>>

ShimDeletionFault ==
  /\ shimPc \in {"find", "delete"}
  /\ Disturb("fault")
  /\ GiveUpOrRetry
  /\ UNCHANGED <<api, downloaded, up, timedOut, uids, caches>>

\* DeleteManagedJobs: those the cache lists as ours, by name.
ShimCleanJobs ==
  /\ shimPc = "cleanJobs"
  /\ job' = IF jobCache[shimKey].owner = me
            THEN [job EXCEPT ![shimKey] = NoJob] ELSE job
  /\ Step("cleanPvcs", shimSnap.st)
  /\ UNCHANGED <<md, pvc, dgd, world, caches>>

\* A failure is collected, and the claims are deleted all the same.
ShimCleanJobsFault ==
  /\ shimPc = "cleanJobs" /\ jobCache[shimKey].owner = me
  /\ Disturb("fault")
  /\ Step("cleanPvcsFailed", shimSnap.st)
  /\ UNCHANGED <<api, downloaded, up, timedOut, uids, caches>>

\* DeleteManagedPVCs.
ShimCleanPvcs ==
  /\ shimPc \in {"cleanPvcs", "cleanPvcsFailed"}
  /\ pvc' = IF pvcCache[claim].owner = me /\ There(pvc[claim])
            THEN [pvc EXCEPT ![claim] = DeletedPvc(claim)] ELSE pvc
  /\ IF shimPc = "cleanPvcs" THEN Step("release", shimSnap.st)
                             ELSE GiveUpOrRetry
  /\ UNCHANGED <<md, job, dgd, world, caches>>

ShimCleanPvcsFault ==
  /\ shimPc \in {"cleanPvcs", "cleanPvcsFailed"}
  /\ pvcCache[claim].owner = me
  /\ Disturb("fault")
  /\ GiveUpOrRetry
  /\ UNCHANGED <<api, downloaded, up, timedOut, uids, caches>>

\* removeFinalizer, with an optimistic lock.
ShimRelease ==
  /\ shimPc = "release" /\ shimFresh
  /\ ShimStore(IF md[shimKey].deleting THEN Absent
               ELSE [md[shimKey] EXCEPT !.fin = FALSE])
  /\ timedOut' = [timedOut EXCEPT ![shimKey] = FALSE]
  /\ Idle(FALSE)
  /\ UNCHANGED <<pvc, job, dgd, downloaded, up, uids, left, mdCache, pvcCache,
                 jobCache>>

\* A write of the ModelDeployment that fails for another reason than its
\* version: an error of the pass, only logged for Terminating.
ShimMDFault ==
  /\ Disturb("fault")
  /\ \/ shimPc = "terminate" /\ Step("find", shimSnap.st)
     \/ /\ shimPc \in {"finalize", "write", "writeRequeue", "release"}
        /\ Idle(TRUE)
  /\ UNCHANGED <<api, downloaded, up, timedOut, uids, caches>>

ShimRestart ==
  /\ Disturb("restart")
  /\ mdCache' = md /\ mdCacheFresh' = [n \in Names |-> TRUE]
  /\ pvcCache' = pvc /\ jobCache' = job
  /\ queue' = {n \in Names : Watched(md[n])}
  /\ shimPc' = "idle" /\ shimSnap' = Absent /\ shimFresh' = FALSE
  /\ graphFresh' = FALSE
  /\ UNCHANGED <<api, downloaded, up, timedOut, uids, shimKey>>

ShimStep ==
  \/ ShimReconcile \/ ShimRefused \/ ShimAddFinalizer
  \/ ShimPvcCreate \/ ShimPvcDelete \/ ShimJobCreate \/ ShimJobDelete
  \/ ShimGet \/ ShimCreate \/ ShimUpdate \/ ShimSync \/ ShimUpdateStatus
  \/ ShimTerminate \/ ShimFind \/ ShimDelete \/ ShimCleanJobs \/ ShimCleanPvcs
  \/ ShimRelease

ShimFault ==
  \/ ShimStorageFault \/ ShimGraphFault \/ ShimSyncFault \/ ShimDeletionFault
  \/ ShimCleanJobsFault \/ ShimCleanPvcsFault \/ ShimMDFault

-----------------------------------------------------------------------------
(* The cluster *)

Orphaned(x) == x.owner.name \in Names /\ md[x.owner.name].uid # x.owner.uid

CollectPvc(c) ==
  /\ Orphaned(pvc[c]) /\ ~pvc[c].deleting
  /\ pvc' = [pvc EXCEPT ![c] = DeletedPvc(c)]
  /\ UNCHANGED <<md, job, dgd, world, caches, queue, pass>>

CollectJob(n) ==
  /\ Orphaned(job[n])
  /\ job' = [job EXCEPT ![n] = NoJob]
  /\ UNCHANGED <<md, pvc, dgd, world, caches, queue, pass>>

CollectGraph(n) ==
  /\ Orphaned(dgd[n]) /\ ~dgd[n].deleting
  /\ StoreGraph(n, DeletedDgd(dgd[n]))
  /\ UNCHANGED <<md, pvc, job, world, caches, queue, shimPc, shimKey, shimSnap,
                 shimFresh>>

\* A claim binds when a Pod mounts it, or before.
PvcBind(c) ==
  /\ pvc[c].phase = "Pending" /\ ~pvc[c].deleting
  /\ pvc' = [pvc EXCEPT ![c].phase = "Bound"]
  /\ UNCHANGED <<md, job, dgd, world, caches, queue, pass>>

PvcUnprotect(c) ==
  /\ pvc[c].deleting /\ ~Mounted(c)
  /\ pvc' = [pvc EXCEPT ![c] = NoPvc]
  /\ UNCHANGED <<md, job, dgd, world, caches, queue, pass>>

JobComplete(n) ==
  /\ job[n].state \in Running /\ pvc[ClaimOf[n]].phase = "Bound"
  /\ job' = [job EXCEPT ![n].state = "Complete"]
  /\ downloaded' = downloaded \cup {job[n].owner}
  /\ UNCHANGED <<md, pvc, dgd, up, timedOut, uids, left, caches, queue, pass>>

GraphProgress(n) ==
  /\ up /\ There(dgd[n]) /\ ~dgd[n].deleting /\ dgd[n].state # "Ready"
  /\ StoreGraph(n, [dgd[n] EXCEPT
                      !.state = IF @ = "none" THEN "NotReady" ELSE "Ready"])
  /\ UNCHANGED <<md, pvc, job, world, caches, queue, shimPc, shimKey, shimSnap,
                 shimFresh>>

GraphFinalize(n) ==
  /\ up /\ dgd[n].deleting
  /\ StoreGraph(n, NoDgd)
  /\ UNCHANGED <<md, pvc, job, world, caches, queue, shimPc, shimKey, shimSnap,
                 shimFresh>>

OperatorUp ==
  /\ ~up /\ up' = TRUE
  /\ UNCHANGED <<api, downloaded, timedOut, uids, left, caches, queue, pass>>

FinalizerTimeout(n) ==
  /\ md[n].deleting /\ ~timedOut[n]
  /\ timedOut' = [timedOut EXCEPT ![n] = TRUE]
  /\ UNCHANGED <<api, downloaded, up, uids, left, caches, queue, pass>>

\* The core binds an object to this provider.
CoreBind(n) ==
  /\ Exists(md[n]) /\ ~md[n].bound /\ ~md[n].deleting
  /\ Store(n, [md[n] EXCEPT !.bound = TRUE])
  /\ UNCHANGED <<pvc, job, dgd, world, mdCache, pvcCache, jobCache, queue,
                 shimPc, shimKey, shimSnap, graphFresh>>

Cluster ==
  \/ \E c \in Claims : CollectPvc(c) \/ PvcBind(c) \/ PvcUnprotect(c)
  \/ \E n \in Names : \/ CollectJob(n) \/ CollectGraph(n) \/ JobComplete(n)
                      \/ GraphProgress(n) \/ GraphFinalize(n)
                      \/ FinalizerTimeout(n) \/ CoreBind(n)

-----------------------------------------------------------------------------
(* Users and failures *)

rest == <<pvc, job, dgd, downloaded, up, timedOut, mdCache, pvcCache, jobCache,
          queue, shimPc, shimKey, shimSnap, graphFresh>>

UserCreate(n) ==
  /\ ~Exists(md[n]) /\ uids[n] < MaxUid
  /\ uids' = [uids EXCEPT ![n] = @ + 1]
  /\ \E v \in Volumes : Store(n, NewMD(uids[n] + 1, v))
  /\ UNCHANGED <<rest, left>>

\* The storage of a model is immutable.
UserEdit(n) ==
  /\ Exists(md[n]) /\ ~md[n].deleting /\ md[n].gen < MaxGen
  /\ Disturb("edit")
  /\ \E s \in Shapes : Store(n, [md[n] EXCEPT !.shape = s, !.gen = @ + 1])
  /\ UNCHANGED <<rest, uids>>

UserPause(n) ==
  /\ Exists(md[n])
  /\ Disturb("pause")
  /\ Store(n, [md[n] EXCEPT !.paused = ~@])
  /\ UNCHANGED <<rest, uids>>

UserDelete(n) ==
  /\ Exists(md[n]) /\ ~md[n].deleting
  /\ Disturb("delete")
  /\ Store(n, IF md[n].fin THEN [md[n] EXCEPT !.deleting = TRUE] ELSE Absent)
  /\ UNCHANGED <<rest, uids>>

UserDeleteJob(n) ==
  /\ There(job[n])
  /\ Disturb("storage")
  /\ job' = [job EXCEPT ![n] = NoJob]
  /\ UNCHANGED <<md, pvc, dgd, downloaded, up, timedOut, uids, caches, queue,
                 pass>>

\* A claim of the user's own, or one the shim made.
UserDeletePvc(c) ==
  /\ There(pvc[c]) /\ ~pvc[c].deleting
  /\ Disturb(IF pvc[c].owner = Stranger THEN "claims" ELSE "storage")
  /\ pvc' = [pvc EXCEPT ![c] = DeletedPvc(c)]
  /\ UNCHANGED <<md, job, dgd, downloaded, up, timedOut, uids, caches, queue,
                 pass>>

UserDeleteGraph(n) ==
  /\ There(dgd[n]) /\ ~dgd[n].deleting
  /\ Disturb("graph")
  /\ StoreGraph(n, DeletedDgd(dgd[n]))
  /\ UNCHANGED <<md, pvc, job, downloaded, up, timedOut, uids, caches, queue,
                 shimPc, shimKey, shimSnap, shimFresh>>

UserCreateGraph(n) ==
  /\ ~There(dgd[n])
  /\ Disturb("graph")
  /\ StoreGraph(n, [NoDgd EXCEPT !.owner = Stranger])
  /\ UNCHANGED <<md, pvc, job, downloaded, up, timedOut, uids, caches, queue,
                 shimPc, shimKey, shimSnap, shimFresh>>

\* The volume behind a claim is lost, a Job uses up its retries and then its
\* last try, a graph fails.
Degrade ==
  /\ Disturb("degrade")
  /\ \/ /\ \E c \in Claims : /\ pvc[c].phase = "Bound"
                             /\ pvc' = [pvc EXCEPT ![c].phase = "Lost"]
        /\ UNCHANGED <<job, dgd, graphFresh>>
     \/ /\ \E n \in Names : /\ job[n].state \in Running
                            /\ job' = [job EXCEPT ![n].state =
                                         IF @ = "Active" THEN "LastTry"
                                                         ELSE "Failed"]
        /\ UNCHANGED <<pvc, dgd, graphFresh>>
     \/ /\ \E n \in Names : /\ dgd[n].state = "Ready" /\ ~dgd[n].deleting
                            /\ StoreGraph(n, [dgd[n] EXCEPT !.state = "Failed"])
        /\ UNCHANGED <<pvc, job>>
  /\ UNCHANGED <<md, downloaded, up, timedOut, uids, caches, queue, shimPc,
                 shimKey, shimSnap, shimFresh>>

OperatorDown ==
  /\ up /\ Disturb("outage") /\ up' = FALSE
  /\ UNCHANGED <<api, downloaded, timedOut, uids, caches, queue, pass>>

Environment ==
  \/ \E n \in Names : \/ UserCreate(n) \/ UserEdit(n) \/ UserPause(n)
                      \/ UserDelete(n) \/ UserDeleteJob(n)
                      \/ UserDeleteGraph(n) \/ UserCreateGraph(n)
  \/ \E c \in Claims : UserDeletePvc(c)
  \/ Degrade \/ OperatorDown \/ ShimFault \/ ShimRestart

Next == Deliver \/ ShimStep \/ Cluster \/ OperatorUp \/ Environment

Spec == Init /\ [][Next]_vars

\* The watches deliver, the work queue hands out, the cluster's own
\* controllers go on, an outage ends.
Fairness ==
  /\ WF_vars(ShimStep) /\ WF_vars(OperatorUp)
  /\ \A n \in Names :
       /\ WF_vars(DeliverMD(n)) /\ WF_vars(DeliverJob(n))
       /\ WF_vars(CollectJob(n)) /\ WF_vars(CollectGraph(n))
       /\ WF_vars(JobComplete(n)) /\ WF_vars(GraphProgress(n))
       /\ WF_vars(GraphFinalize(n)) /\ WF_vars(CoreBind(n))
  /\ \A c \in Claims :
       WF_vars(DeliverPvc(c)) /\ WF_vars(PvcBind(c)) /\ WF_vars(PvcUnprotect(c))
       /\ WF_vars(CollectPvc(c))

FairSpec == Spec /\ Fairness

-----------------------------------------------------------------------------
(* Properties *)

\* Every variable stays within its type.
TypeOK ==
  /\ md \in [Names -> ModelDeployments] /\ pvc \in [Claims -> Pvcs]
  /\ job \in [Names -> Jobs] /\ dgd \in [Names -> Dgds]
  /\ downloaded \subseteq Owners /\ up \in BOOLEAN
  /\ timedOut \in [Names -> BOOLEAN] /\ uids \in [Names -> 1..MaxUid]
  /\ left \in 0..MaxDisturbances
  /\ mdCache \in [Names -> ModelDeployments]
  /\ mdCacheFresh \in [Names -> BOOLEAN]
  /\ pvcCache \in [Claims -> Pvcs] /\ jobCache \in [Names -> Jobs]
  /\ queue \subseteq Names
  /\ shimPc \in ShimPcs /\ shimKey \in Names /\ shimSnap \in ModelDeployments
  /\ shimFresh \in BOOLEAN /\ graphFresh \in BOOLEAN

\* A graph of an object with a model cache runs only after a download of this
\* very incarnation completed, whatever Jobs earlier ones left behind and
\* however the caches of objects, claims and Jobs lag; the same for the
\* condition ModelDownloaded.
DownloadedFirst ==
  \A n \in Names : Exists(md[n]) /\ md[n].vol # "none" =>
    /\ dgd[n].owner = Of(n, md[n]) => Of(n, md[n]) \in downloaded
    /\ md[n].st.down = "True" => Of(n, md[n]) \in downloaded

\* The shim deletes claims by name, on the word of a cache, and more than one
\* incarnation uses the name: yet it never deletes the claim into which an
\* object that stays has downloaded its model.
KeepsDownloads ==
  [][(/\ shimPc \in {"pvcDelete", "cleanPvcs", "cleanPvcsFailed"}
      /\ shimPc' # shimPc)
     => \A n \in Names :
          (/\ Exists(md[n]) /\ ~md[n].deleting
           /\ Of(n, md[n]) \in downloaded
           /\ pvc[ClaimOf[n]].owner = Of(n, md[n]))
          => UNCHANGED pvc[ClaimOf[n]]]_vars

\* "Delete the DGD first so its Pods terminate before we remove PVCs/Jobs":
\* the clean-up touches storage only once the incarnation's graph is gone.
GraphGoesFirst ==
  [][(/\ shimPc \in {"cleanJobs", "cleanPvcs", "cleanPvcsFailed"}
      /\ shimPc' # shimPc
      /\ pvc' # pvc \/ job' # job) => dgd[shimKey].owner # me]_vars

\* The graph keeps the promise of GuardedResource.
ObjectState ==
  IF ~Exists(md[Observed]) THEN "absent"
  ELSE IF md[Observed].deleting THEN "deleting" ELSE "live"

Promise == INSTANCE GuardedResource WITH
  object   <- ObjectState,
  guarded  <- md[Observed].fin,
  resource <- Exists(md[Observed]) /\
                dgd[Observed].owner = Of(Observed, md[Observed]),
  expired  <- timedOut[Observed]

KeepsPromise == Promise!Spec

\* Unless it is paused, an object under deletion goes away.
DeletionCompletes ==
  \A n \in Names : \A u \in 1..MaxUid :
    (md[n].uid = u /\ md[n].deleting /\ md[n].bound)
      ~> (md[n].uid # u \/ md[n].paused)

\* Left in peace with sound storage, a good object ends up served by a graph
\* of its generation: claim, download and graph follow each other.
Serviceable(n) ==
  /\ Exists(md[n]) /\ ~md[n].deleting /\ ~md[n].paused /\ md[n].shape = "good"
  /\ dgd[n].owner # Stranger /\ job[n].state # "Failed"
  /\ md[n].vol = "managed" => pvc[ClaimOf[n]].owner # Stranger
  /\ md[n].vol = "claimed" => pvc[ClaimOf[n]].owner = Stranger
  /\ pvc[ClaimOf[n]].phase # "Lost"

Serving(n) ==
  /\ dgd[n].owner = Of(n, md[n]) /\ dgd[n].gen = md[n].gen
  /\ dgd[n].state = "Ready" /\ ~dgd[n].deleting
  /\ md[n].st.phase = "Running" /\ md[n].st.ep /\ md[n].st.ready = "True"

PipelineCompletes ==
  \A n \in Names : <>[]Serviceable(n) => <>[]Serving(n)

-----------------------------------------------------------------------------
(* What a comment says and the code does not do *)

\* "DynamoGraphDeployment unavailable during deletion, continuing managed
\* cleanup": a Delete that finds the graph gone goes on to Jobs and claims.
GoneMeansCleanup ==
  [][shimPc = "delete" /\ shimPc' # "delete" /\ ~There(dgd[shimKey])
     /\ left' = left
       => shimPc' = "cleanJobs"]_vars

\* "deleteStalePVC deletes a PVC that belongs to a previous (now-deleted)
\* ModelDeployment", and deleteStaleJob such a Job.
Alive(x) == x.owner.name \in Names /\ md[x.owner.name].uid = x.owner.uid

StaleOnly ==
  [][/\ \A c \in Claims :
          shimPc = "pvcDelete" /\ shimPc' # "pvcDelete" /\ pvc'[c] # pvc[c]
            => ~Alive(pvc[c])
     /\ \A n \in Names :
          shimPc = "jobDelete" /\ shimPc' # "jobDelete" /\ job'[n] # job[n]
            => ~Alive(job[n])]_vars
=============================================================================
