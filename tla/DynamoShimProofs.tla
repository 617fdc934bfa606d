-------------------------- MODULE DynamoShimProofs --------------------------
(***************************************************************************)
(* Safety of DynamoShim for every number of objects and claims, every      *)
(* incarnation and generation, and every kind of disturbance.              *)
(***************************************************************************)
EXTENDS DynamoShim, TLAPS

-----------------------------------------------------------------------------
(* The inductive invariant *)

\* What an old copy c says about its object o, the latest of u incarnations:
\* they are numbered in order, and within one of them the model cache stays
\* the same, and the finalizer and the deletion timestamp stay once set.
Older(c, o, u) ==
  /\ c.uid <= u
  /\ Exists(c) /\ c.uid = o.uid =>
       /\ c.vol = o.vol
       /\ c.fin => o.fin
       /\ c.deleting => o.deleting

Incarnations ==
  /\ \A n \in Names : /\ md[n].uid \in {0, uids[n]}
                       /\ Older(mdCache[n], md[n], uids[n])
  /\ Older(shimSnap, md[shimKey], uids[shimKey])
  /\ Exists(mdCache[shimKey]) => shimSnap.uid <= mdCache[shimKey].uid

\* What the flags of the copies stand for.
FlagsTrue ==
  /\ \A n \in Names : mdCacheFresh[n] => mdCache[n] = md[n]
  /\ shimFresh => /\ Exists(md[shimKey])
                  /\ shimSnap.uid = md[shimKey].uid
                  /\ shimSnap.deleting = md[shimKey].deleting

StoragePcs  == {"pvcCreate", "pvcDelete", "jobCreate", "jobDelete"}
GraphPcs    == {"get", "create", "update", "updateServing"}
CleanPcs    == {"cleanJobs", "cleanPvcs", "cleanPvcsFailed"}
DeletionPcs == {"terminate", "find", "delete", "release"} \cup CleanPcs

\* The object a pass works on, by the step it has come to.
SnapByPc ==
  /\ shimPc = "idle" => shimSnap = Absent /\ ~shimFresh
  /\ shimPc # "idle" => Exists(shimSnap)
  /\ shimPc \in StoragePcs \cup GraphPcs => shimSnap.fin
  /\ shimPc = "pvcDelete" => shimSnap.vol = "managed"
  /\ shimPc \in DeletionPcs => shimSnap.deleting
  /\ shimPc = "finalize" => ~shimSnap.deleting

\* Nothing is made for an incarnation younger than those the shim knows of:
\* its cache and its passes only go on to later ones.
Known(x) ==
  x.name \in Names =>
    /\ x.uid <= uids[x.name]
    /\ Exists(mdCache[x.name]) => x.uid <= mdCache[x.name].uid
    /\ shimKey = x.name /\ Exists(shimSnap) => x.uid <= shimSnap.uid

OwnersKnown ==
  /\ \A x \in downloaded : Known(x)
  /\ \A n \in Names : Known(job[n].owner) /\ Known(dgd[n].owner)
  /\ \A c \in Claims : Known(pvc[c].owner) /\ Known(pvcCache[c].owner)

\* Whoever is said to have downloaded its model has: the Jobs, the statuses,
\* and the passes that go on to the graph.
StatusTrue(n, c) ==
  c.vol # "none" /\ c.st.down = "True" => Of(n, c) \in downloaded

DownloadsTrue ==
  /\ \A n \in Names :
       /\ job[n].state = "Complete" => job[n].owner \in downloaded
       /\ jobCache[n].state = "Complete" => jobCache[n].owner \in downloaded
       /\ StatusTrue(n, md[n]) /\ StatusTrue(n, mdCache[n])
  /\ StatusTrue(shimKey, shimSnap)
  /\ shimPc \in GraphPcs /\ shimSnap.vol # "none" => me \in downloaded

\* The graph of an incarnation: it is made after the download, while the
\* finalizer guards the object, and gone before the clean-up goes on.
GraphInPlace ==
  /\ \A n \in Names :
       Exists(md[n]) /\ dgd[n].owner = Of(n, md[n]) =>
         /\ md[n].vol # "none" => Of(n, md[n]) \in downloaded
         /\ md[n].fin
  /\ shimPc \in CleanPcs => dgd[shimKey].owner # me
  /\ shimPc = "release" => dgd[shimKey].owner # me \/ timedOut[shimKey]

IInv ==
  /\ TypeOK
  /\ Incarnations
  /\ FlagsTrue
  /\ SnapByPc
  /\ OwnersKnown
  /\ DownloadsTrue
  /\ GraphInPlace

-----------------------------------------------------------------------------
(* What keeps a download, when no two objects resolve to one claim *)

ClaimsApart == \A m, n \in Names : ClaimOf[m] = ClaimOf[n] => m = n

\* The Job and the claim of object n are its own, nobody's, or a stranger's.
OwnResources ==
  \A n \in Names :
    /\ job[n].owner = Nobody \/ job[n].owner.name = n
    /\ \A p \in {pvc[ClaimOf[n]], pvcCache[ClaimOf[n]]} :
         p.owner \in {Nobody, Stranger} \/ p.owner.name = n

\* The download of incarnation u of object n has begun, or is about to.
Started(n, u) ==
  \/ [name |-> n, uid |-> u] \in downloaded
  \/ job[n].owner = [name |-> n, uid |-> u]
  \/ shimPc = "jobCreate" /\ shimKey = n /\ shimSnap.uid = u

\* The cache never shows a younger owner of a claim than there is.
ClaimsInOrder ==
  \A n \in Names :
    /\ pvc[ClaimOf[n]].owner.name = n /\ pvcCache[ClaimOf[n]].owner.name = n
    => pvcCache[ClaimOf[n]].owner.uid <= pvc[ClaimOf[n]].owner.uid

\* Once the download of an incarnation has begun, older owners of its claim
\* are a thing of the past, for the cache as well, and no pass on it takes the
\* claim for one of theirs.
ClaimsSettled ==
  \A n \in Names :
    Exists(md[n]) /\ md[n].vol = "managed" /\ Started(n, md[n].uid) =>
      /\ \A p \in {pvc[ClaimOf[n]], pvcCache[ClaimOf[n]]} :
           p.owner.name = n => p.owner.uid = md[n].uid
      /\ ~(shimPc = "pvcDelete" /\ shimKey = n /\ shimSnap.uid = md[n].uid)

ClaimInv == OwnResources /\ ClaimsInOrder /\ ClaimsSettled
-----------------------------------------------------------------------------
(* The operators of DynamoShim stay within the types *)

LEMMA Constants ==
  /\ MaxUid \in Nat /\ MaxUid >= 1 /\ MaxGen \in Nat /\ MaxGen >= 1
  /\ MaxDisturbances \in Nat
  /\ NoName \notin Names /\ Observed \in Names
  /\ \A n \in Names : ClaimOf[n] \in Claims
BY BoundsAssumption, NamesAssumption

LEMMA EmptyTypes ==
  /\ EmptyStatus \in Statuses
  /\ \A u \in 0..MaxUid, v \in Volumes : NewMD(u, v) \in ModelDeployments
  /\ Absent \in ModelDeployments
  /\ Nobody \in Owners /\ Stranger \in Owners
  /\ NoPvc \in Pvcs /\ StrangersPvc \in Pvcs /\ NoJob \in Jobs /\ NoDgd \in Dgds
<1>1. EmptyStatus \in Statuses
  BY DEF EmptyStatus, Statuses, Phases, Tri
<1>2. \A u \in 0..MaxUid, v \in Volumes : NewMD(u, v) \in ModelDeployments
  BY <1>1, Constants, SpecAssumption DEF NewMD, ModelDeployments
<1>3. (CHOOSE v \in Volumes : TRUE) \in Volumes
  BY SpecAssumption
<1>4. Absent \in ModelDeployments
  BY <1>2, <1>3, Constants DEF Absent
<1>5. Nobody \in Owners /\ Stranger \in Owners
  BY Constants DEF Nobody, Stranger, Owners
<1>6. NoPvc \in Pvcs /\ StrangersPvc \in Pvcs
  BY <1>5 DEF NoPvc, StrangersPvc, Pvcs, PvcPhases
<1>7. NoJob \in Jobs /\ NoDgd \in Dgds
  BY <1>5, Constants DEF NoJob, NoDgd, Jobs, JobStates, Dgds, DgdStates
<1> QED BY <1>1, <1>2, <1>4, <1>5, <1>6, <1>7

LEMMA AbsentFields ==
  /\ Absent.uid = 0 /\ ~Exists(Absent) /\ ~Absent.fin /\ ~Absent.deleting
  /\ Absent.st.down = "Unknown"
BY DEF Absent, NewMD, Exists, EmptyStatus

\* What someone other than the Route of a pass makes of a status: a status,
\* that says of the download no more than before.
Humble(s, t) == t \in Statuses /\ (t.down = "True" => s.down = "True")

LEMMA StatusesHumble ==
  ASSUME NEW s \in Statuses, NEW g \in Dgds
  PROVE  /\ Humble(s, s) /\ Humble(s, Failed(s)) /\ Humble(s, FailClosed(s))
         /\ Humble(s, KeepServing(s)) /\ Humble(s, PvcFailed(s))
         /\ Humble(s, PvcPending(s)) /\ Humble(s, JobFailed(s))
         /\ Humble(s, JobPending(s)) /\ Humble(s, Reconciled(s, g))
         /\ Humble(s, [s EXCEPT !.phase = "Terminating"])
         /\ Humble(s, [s EXCEPT !.stor = "True"])
<1> USE DEF Humble, Statuses, Phases, Tri
<1>1. Humble(s, s) /\ Humble(s, Failed(s)) /\ Humble(s, FailClosed(s))
  BY DEF Failed, FailClosed
<1>2. Humble(s, KeepServing(s)) /\ Humble(s, PvcFailed(s))
  BY DEF KeepServing, PvcFailed
<1>3. Humble(s, PvcPending(s)) /\ Humble(s, JobFailed(s))
  BY DEF PvcPending, JobFailed
<1>4. Humble(s, JobPending(s)) /\ Humble(s, [s EXCEPT !.phase = "Terminating"])
  BY DEF JobPending
<1>5. Humble(s, [s EXCEPT !.stor = "True"])
  OBVIOUS
<1>6. Humble(s, Reconciled(s, g))
  <2> DEFINE made == [s EXCEPT !.created = "True"]
             ph == PhaseOf(g.state)
             ep == g.state # "none"
             rd == IF g.state = "Ready" THEN "True" ELSE "False"
             t == IF There(g)
                  THEN [made EXCEPT !.phase = ph, !.ep = ep, !.ready = rd]
                  ELSE made
  <2>1. Humble(s, made)
    OBVIOUS
  <2>2. ph \in Phases /\ ep \in BOOLEAN /\ rd \in Tri
    BY DEF PhaseOf
  <2>3. Humble(s, [made EXCEPT !.phase = ph, !.ep = ep, !.ready = rd])
    <3>1. ASSUME NEW m, Humble(s, m), NEW p \in Phases, NEW e \in BOOLEAN,
                 NEW r \in Tri
          PROVE  Humble(s, [m EXCEPT !.phase = p, !.ep = e, !.ready = r])
      BY <3>1
    <3> HIDE DEF made, ph, ep, rd, Humble, Statuses, Phases, Tri
    <3> QED BY <2>1, <2>2, <3>1, Zenon
  <2>4. Humble(s, t)
    <3> HIDE DEF Humble, Statuses
    <3> QED BY <2>1, <2>3
  <2>5. Reconciled(s, g) = IF t.phase \in {"Running", "Failed"}
                           THEN t ELSE [t EXCEPT !.phase = "Deploying"]
    BY Zenon DEF Reconciled
  <2> HIDE DEF t
  <2>6. Humble(s, [t EXCEPT !.phase = "Deploying"])
    BY <2>4
  <2> HIDE DEF Humble, Statuses
  <2> QED BY <2>4, <2>5, <2>6
<1> QED BY <1>1, <1>2, <1>3, <1>4, <1>5, <1>6

\* The parts of an object no pass changes in its copy.
SameObject(o, p) ==
  p.uid = o.uid /\ p.vol = o.vol /\ p.fin = o.fin /\ p.deleting = o.deleting

LEMMA ObjectTypes ==
  ASSUME NEW o \in ModelDeployments
  PROVE  /\ \A s \in Statuses : /\ [o EXCEPT !.st = s] \in ModelDeployments
                                /\ SameObject(o, [o EXCEPT !.st = s])
         /\ \A b \in BOOLEAN : [o EXCEPT !.fin = b] \in ModelDeployments
         /\ [o EXCEPT !.bound = TRUE] \in ModelDeployments
         /\ [o EXCEPT !.paused = ~@] \in ModelDeployments
         /\ [o EXCEPT !.deleting = TRUE] \in ModelDeployments
         /\ \A x \in Shapes :
              o.gen < MaxGen =>
                [o EXCEPT !.shape = x, !.gen = @ + 1] \in ModelDeployments
<1> USE DEF ModelDeployments
<1>1. \A s \in Statuses : /\ [o EXCEPT !.st = s] \in ModelDeployments
                          /\ SameObject(o, [o EXCEPT !.st = s])
  BY DEF SameObject
<1>2. \A b \in BOOLEAN : [o EXCEPT !.fin = b] \in ModelDeployments
  OBVIOUS
<1>3. /\ [o EXCEPT !.bound = TRUE] \in ModelDeployments
      /\ [o EXCEPT !.paused = ~@] \in ModelDeployments
      /\ [o EXCEPT !.deleting = TRUE] \in ModelDeployments
  OBVIOUS
<1>4. ASSUME NEW x \in Shapes, o.gen < MaxGen
      PROVE  [o EXCEPT !.shape = x, !.gen = @ + 1] \in ModelDeployments
  <2>1. o.gen + 1 \in 1..MaxGen
    BY <1>4, Constants
  <2>2. \A g \in 1..MaxGen : [o EXCEPT !.shape = x, !.gen = g]
                               \in ModelDeployments
    OBVIOUS
  <2> QED BY <2>1, <2>2
<1> QED BY <1>1, <1>2, <1>3, <1>4

LEMMA ResourceTypes ==
  ASSUME TypeOK, NEW n \in Names, NEW o \in ModelDeployments
  PROVE  /\ Of(n, o) \in Owners
         /\ NewPvc(n, o) \in Pvcs /\ NewJob(n, o) \in Jobs
         /\ NewDgd(n, o) \in Dgds
         /\ \A c \in Claims : /\ DeletedPvc(c) \in Pvcs
                              /\ DeletedPvc(c).owner \in {Nobody, pvc[c].owner}
         /\ \A g \in Dgds : /\ DeletedDgd(g) \in Dgds
                            /\ DeletedDgd(g).owner \in {Nobody, g.owner}
<1>1. Of(n, o) \in Owners
  BY DEF Of, Owners, ModelDeployments
<1>2. NewPvc(n, o) \in Pvcs /\ NewJob(n, o) \in Jobs
  BY <1>1 DEF NewPvc, NewJob, Pvcs, Jobs, PvcPhases, JobStates
<1>3. NewDgd(n, o) \in Dgds
  BY <1>1, Constants DEF NewDgd, Dgds, DgdStates, ModelDeployments
<1>4. ASSUME NEW c \in Claims
      PROVE  /\ DeletedPvc(c) \in Pvcs
             /\ DeletedPvc(c).owner \in {Nobody, pvc[c].owner}
  <2>1. pvc[c] \in Pvcs
    BY DEF TypeOK
  <2>2. /\ [pvc[c] EXCEPT !.deleting = TRUE] \in Pvcs
        /\ [pvc[c] EXCEPT !.deleting = TRUE].owner = pvc[c].owner
    BY <2>1 DEF Pvcs
  <2>3. NoPvc.owner = Nobody
    BY DEF NoPvc
  <2> QED BY <2>2, <2>3, EmptyTypes DEF DeletedPvc
<1>5. ASSUME NEW g \in Dgds
      PROVE  /\ DeletedDgd(g) \in Dgds
             /\ DeletedDgd(g).owner \in {Nobody, g.owner}
  <2>1. /\ [g EXCEPT !.deleting = TRUE] \in Dgds
        /\ [g EXCEPT !.deleting = TRUE].owner = g.owner
    BY DEF Dgds
  <2>2. NoDgd.owner = Nobody
    BY DEF NoDgd
  <2> QED BY <2>1, <2>2, EmptyTypes DEF DeletedDgd
<1> QED BY <1>1, <1>2, <1>3, <1>4, <1>5

LEMMA ClaimVerdicts ==
  ASSUME NEW n \in Names, NEW o \in ModelDeployments
  PROVE  /\ EnsurePVCs(n, o) \in {"ready", "create", "delete", "wait", "fail"}
         /\ EnsurePVCs(n, o) \in {"create", "delete"} => o.vol = "managed"
         /\ EnsurePVCs(n, o) = "ready" /\ o.vol = "managed" =>
              pvcCache[ClaimOf[n]].owner = Of(n, o)
         /\ EnsurePVCs(n, o) = "delete" =>
              pvcCache[ClaimOf[n]].owner \notin {Of(n, o), Nobody, Stranger}
<1>1. o.vol \in {"none", "managed", "claimed"}
  BY SpecAssumption DEF ModelDeployments
<1>2. CASE o.vol = "none"
  BY <1>2 DEF EnsurePVCs
<1>3. CASE o.vol = "claimed"
  BY <1>3 DEF EnsurePVCs
<1>4. CASE o.vol = "managed"
  <2> DEFINE p == pvcCache[ClaimOf[n]]
  <2>1. Of(n, o) # Nobody /\ Of(n, o) # Stranger
    BY Constants DEF Of, Nobody, Stranger
  <2>2. EnsurePVCs(n, o) =
          CASE ~There(p)          -> "create"
            [] p.owner = Stranger -> "fail"
            [] p.owner = Of(n, o) -> IF p.phase = "Lost" THEN "fail" ELSE "ready"
            [] OTHER              -> "delete"
    BY <1>4 DEF EnsurePVCs
  <2> QED BY <1>4, <2>1, <2>2 DEF There
<1> QED BY <1>1, <1>2, <1>3, <1>4

\* The Job the cache shows has downloaded the model of this incarnation.
SeenComplete(n, o) ==
  jobCache[n].owner = Of(n, o) /\ jobCache[n].state = "Complete"

LEMMA JobVerdicts ==
  ASSUME NEW n \in Names, NEW o \in ModelDeployments
  PROVE  /\ EnsureDownloadJob(n, o)
              \in {"ready", "create", "delete", "wait", "fail"}
         /\ EnsureDownloadJob(n, o) = "ready" /\ o.vol # "none" =>
              SeenComplete(n, o)
BY DEF EnsureDownloadJob, SeenComplete

\* Where a pass goes, and what it has made sure of by then.
Routed(n, o, pc, st) ==
  /\ pc \in {"terminate", "finalize", "write", "writeRequeue", "get"}
              \cup StoragePcs
  /\ st \in Statuses
  /\ pc = "terminate" => o.deleting
  /\ pc # "terminate" => ~o.deleting
  /\ pc \in StoragePcs \cup GraphPcs => o.fin
  /\ pc = "pvcDelete" =>
       /\ o.vol = "managed"
       /\ pvcCache[ClaimOf[n]].owner \notin {Of(n, o), Nobody, Stranger}
  /\ pc = "jobCreate" /\ o.vol = "managed" =>
       pvcCache[ClaimOf[n]].owner = Of(n, o)
  /\ o.vol # "none" /\ (pc = "get" \/ (st.down = "True" /\ o.st.down # "True")) =>
       SeenComplete(n, o)

LEMMA RouteFacts ==
  ASSUME NEW n \in Names, NEW o \in ModelDeployments
  PROVE  Routed(n, o, Route(n, o).pc, Route(n, o).st)
<1> DEFINE stored == IF o.vol = "none" THEN o.st
                     ELSE [o.st EXCEPT !.stor = "True"]
           loaded == IF o.vol = "none" THEN stored
                     ELSE [stored EXCEPT !.down = "True"]
           claims == EnsurePVCs(n, o)
           model  == EnsureDownloadJob(n, o)
<1>1. o.st \in Statuses
  BY DEF ModelDeployments
<1>2. stored \in Statuses /\ stored.down = o.st.down
  BY <1>1 DEF Statuses, Tri
<1>3. loaded \in Statuses /\ (o.vol = "none" => loaded.down = o.st.down)
  <2> HIDE DEF stored
  <2> QED BY <1>2 DEF Statuses, Tri
<1> HIDE DEF stored, loaded
<1>4. NoDgd \in Dgds
  BY EmptyTypes
<1>5. /\ Humble(o.st, [o.st EXCEPT !.phase = "Terminating"])
      /\ Humble(o.st, o.st) /\ Humble(o.st, Failed(o.st))
      /\ Humble(o.st, PvcPending(o.st)) /\ Humble(o.st, PvcFailed(o.st))
  BY <1>1, <1>4, StatusesHumble
<1>6. /\ Humble(stored, stored) /\ Humble(stored, JobPending(stored))
      /\ Humble(stored, JobFailed(stored))
  BY <1>2, <1>4, StatusesHumble
<1>7. Humble(loaded, loaded) /\ Humble(loaded, FailClosed(loaded))
  BY <1>3, <1>4, StatusesHumble
<1>8. CASE o.deleting
  <2> DEFINE t == [o.st EXCEPT !.phase = "Terminating"]
  <2>1. Route(n, o) = [pc |-> "terminate", st |-> t]
    BY <1>8 DEF Route
  <2> HIDE DEF t
  <2>2. Humble(o.st, t)
    BY <1>5 DEF t
  <2> QED BY <1>8, <2>1, <2>2 DEF Routed, Humble, StoragePcs, GraphPcs
<1>9. CASE ~o.deleting /\ ~o.fin
  <2>1. Route(n, o) = [pc |-> "finalize", st |-> o.st]
    BY <1>9 DEF Route
  <2> QED BY <1>1, <1>9, <2>1 DEF Routed, StoragePcs, GraphPcs
<1>10. CASE ~o.deleting /\ o.fin /\ o.shape = "incompatible"
  <2>1. Route(n, o) = [pc |-> "write", st |-> Failed(o.st)]
    BY <1>10 DEF Route
  <2> QED BY <1>5, <1>10, <2>1 DEF Routed, Humble, StoragePcs, GraphPcs
<1>11. CASE /\ ~o.deleting /\ o.fin /\ o.shape # "incompatible"
            /\ claims # "ready"
  <2>1. claims \in {"create", "delete", "wait", "fail"}
    BY <1>11, ClaimVerdicts
  <2>2. Route(n, o) =
          CASE claims = "create" -> [pc |-> "pvcCreate", st |-> o.st]
            [] claims = "delete" -> [pc |-> "pvcDelete", st |-> o.st]
            [] claims = "wait" -> [pc |-> "writeRequeue", st |-> PvcPending(o.st)]
            [] claims = "fail" -> [pc |-> "write", st |-> PvcFailed(o.st)]
    BY <1>11 DEF Route
  <2>3. /\ claims = "delete" => /\ o.vol = "managed"
                                /\ pvcCache[ClaimOf[n]].owner
                                     \notin {Of(n, o), Nobody, Stranger}
    BY ClaimVerdicts
  <2> HIDE DEF claims
  <2> QED BY <1>1, <1>5, <1>11, <2>1, <2>2, <2>3
          DEF Routed, Humble, StoragePcs, GraphPcs
<1>12. CASE /\ ~o.deleting /\ o.fin /\ o.shape # "incompatible"
            /\ claims = "ready" /\ model # "ready"
  <2>1. model \in {"create", "delete", "wait", "fail"}
    BY <1>12, JobVerdicts
  <2>2. Route(n, o) =
          CASE model = "create" -> [pc |-> "jobCreate", st |-> stored]
            [] model = "delete" -> [pc |-> "jobDelete", st |-> stored]
            [] model = "wait" ->
                 [pc |-> "writeRequeue", st |-> JobPending(stored)]
            [] model = "fail" -> [pc |-> "write", st |-> JobFailed(stored)]
    BY <1>12 DEF Route, stored
  <2>3. o.vol = "managed" => pvcCache[ClaimOf[n]].owner = Of(n, o)
    BY <1>12, ClaimVerdicts
  <2> HIDE DEF claims, model
  <2> QED BY <1>2, <1>6, <1>12, <2>1, <2>2, <2>3
          DEF Routed, Humble, StoragePcs, GraphPcs
<1>13. CASE /\ ~o.deleting /\ o.fin /\ o.shape # "incompatible"
            /\ claims = "ready" /\ model = "ready"
  <2>1. o.vol # "none" => SeenComplete(n, o)
    BY <1>13, JobVerdicts
  <2>2. Route(n, o) = IF o.shape = "unrenderable"
                      THEN [pc |-> "write", st |-> FailClosed(loaded)]
                      ELSE [pc |-> "get", st |-> loaded]
    BY <1>13 DEF Route, stored, loaded
  <2> HIDE DEF claims, model
  <2> QED BY <1>3, <1>7, <1>13, <2>1, <2>2
          DEF Routed, Humble, StoragePcs, GraphPcs
<1> QED BY <1>8, <1>9, <1>10, <1>11, <1>12, <1>13

-----------------------------------------------------------------------------
(* Type correctness *)

LEMMA TypeInit == Init => TypeOK
<1> SUFFICES ASSUME Init PROVE TypeOK
  OBVIOUS
<1>1. md \in [Names -> ModelDeployments]
  <2>1. PICK v \in [Names -> Volumes] : md = [n \in Names |-> NewMD(1, v[n])]
    BY DEF Init
  <2>2. 1 \in 0..MaxUid /\ \A n \in Names : v[n] \in Volumes
    BY Constants
  <2>3. \A n \in Names : NewMD(1, v[n]) \in ModelDeployments
    BY <2>2, EmptyTypes
  <2> QED BY <2>1, <2>3
<1>2. pvc \in [Claims -> Pvcs] /\ pvcCache \in [Claims -> Pvcs]
  <2>1. pvc \in [Claims -> {NoPvc, StrangersPvc}] /\ pvcCache = pvc
    BY DEF Init
  <2>2. {NoPvc, StrangersPvc} \subseteq Pvcs
    BY EmptyTypes
  <2> QED BY <2>1, <2>2
<1>3. /\ job \in [Names -> Jobs] /\ jobCache \in [Names -> Jobs]
      /\ dgd \in [Names -> Dgds]
  BY EmptyTypes DEF Init
<1>4. mdCache \in [Names -> ModelDeployments] /\ shimSnap \in ModelDeployments
  BY EmptyTypes DEF Init
<1>5. uids \in [Names -> 1..MaxUid] /\ left \in 0..MaxDisturbances
  <2>1. 1 \in 1..MaxUid /\ MaxDisturbances \in 0..MaxDisturbances
    BY Constants
  <2> QED BY <2>1 DEF Init
<1>6. /\ downloaded \subseteq Owners /\ up \in BOOLEAN
      /\ timedOut \in [Names -> BOOLEAN]
      /\ mdCacheFresh \in [Names -> BOOLEAN]
  BY DEF Init
<1>7. /\ queue \subseteq Names /\ shimPc \in ShimPcs /\ shimKey \in Names
      /\ shimFresh \in BOOLEAN /\ graphFresh \in BOOLEAN
  BY Constants DEF Init, ShimPcs
<1> QED BY <1>1, <1>2, <1>3, <1>4, <1>5, <1>6, <1>7 DEF TypeOK

\* The parts of TypeOK the steps of a pass, and those of everyone, go through.
ObjectsOK == md \in [Names -> ModelDeployments]
             /\ mdCacheFresh \in [Names -> BOOLEAN]
StorageOK == pvc \in [Claims -> Pvcs] /\ job \in [Names -> Jobs]
GraphsOK  == dgd \in [Names -> Dgds]
WorldOK ==
  /\ downloaded \subseteq Owners /\ up \in BOOLEAN
  /\ timedOut \in [Names -> BOOLEAN] /\ uids \in [Names -> 1..MaxUid]
  /\ left \in 0..MaxDisturbances
CachesOK ==
  /\ mdCache \in [Names -> ModelDeployments]
  /\ pvcCache \in [Claims -> Pvcs] /\ jobCache \in [Names -> Jobs]
PassOK ==
  /\ queue \subseteq Names
  /\ shimPc \in ShimPcs /\ shimKey \in Names /\ shimSnap \in ModelDeployments
  /\ shimFresh \in BOOLEAN /\ graphFresh \in BOOLEAN

LEMMA TypeParts ==
  TypeOK <=> /\ ObjectsOK /\ StorageOK /\ GraphsOK /\ WorldOK
             /\ CachesOK /\ PassOK
BY DEF TypeOK, ObjectsOK, StorageOK, GraphsOK, WorldOK, CachesOK, PassOK

LEMMA LeftFalls ==
  ASSUME TypeOK, NEW kind, Disturb(kind)
  PROVE  left' \in 0..MaxDisturbances
BY Constants DEF Disturb, TypeOK

\* What a pass leaves of itself.
LEMMA PassTypes ==
  ASSUME TypeOK
  PROVE  /\ (\E b \in BOOLEAN : Idle(b)) => PassOK'
         /\ \A pc \in ShimPcs, st \in Statuses :
              Step(pc, st) => PassOK' /\ shimSnap' = [shimSnap EXCEPT !.st = st]
         /\ \A pc \in ShimPcs, st \in Statuses :
              Goto(pc, st) /\ graphFresh' \in BOOLEAN => PassOK'
<1>1. ASSUME NEW b \in BOOLEAN, Idle(b) PROVE PassOK'
  BY <1>1, EmptyTypes DEF TypeOK, PassOK, Idle, ShimPcs
<1>2. ASSUME NEW pc \in ShimPcs, NEW st \in Statuses, Goto(pc, st),
             graphFresh' \in BOOLEAN
      PROVE  PassOK'
  <2>1. shimSnap' \in ModelDeployments
    BY <1>2, ObjectTypes DEF Goto, TypeOK
  <2> QED BY <1>2, <2>1 DEF TypeOK, PassOK, Goto
<1>3. ASSUME NEW pc \in ShimPcs, NEW st \in Statuses, Step(pc, st)
      PROVE  PassOK' /\ shimSnap' = [shimSnap EXCEPT !.st = st]
  <2>1. Goto(pc, st) /\ graphFresh' \in BOOLEAN
    BY <1>3 DEF Step, TypeOK
  <2> QED BY <1>2, <2>1 DEF Goto
<1> QED BY <1>1, <1>2, <1>3

\* A pass whose steps write nothing but what is named.
LEMMA TypeReads ==
  ASSUME TypeOK,
         \/ Deliver \/ ShimReconcile \/ ShimRefused \/ ShimGet \/ ShimSync
         \/ ShimFind \/ OperatorUp \/ ShimRestart
  PROVE  TypeOK'
<1> USE DEF TypeOK, api, world, caches, pass
<1>1. CASE Deliver
  <2>1. ASSUME NEW n \in Names, DeliverMD(n) PROVE TypeOK'
    BY <2>1 DEF DeliverMD
  <2>2. ASSUME NEW n \in Names, DeliverJob(n) PROVE TypeOK'
    BY <2>2 DEF DeliverJob, Wake
  <2>3. ASSUME NEW c \in Claims, DeliverPvc(c) PROVE TypeOK'
    BY <2>3 DEF DeliverPvc, Wake
  <2> QED BY <1>1, <2>1, <2>2, <2>3 DEF Deliver
<1>2. CASE ShimReconcile
  <2>1. PICK n \in queue :
          /\ queue' = queue \ {n} /\ shimKey' = n /\ graphFresh' = FALSE
          /\ IF Assigned(mdCache[n]) /\ (mdCache[n].deleting => mdCache[n].fin)
             THEN LET r == Route(n, mdCache[n])
                  IN  /\ shimPc' = r.pc
                      /\ shimSnap' = [mdCache[n] EXCEPT !.st = r.st]
                      /\ shimFresh' = mdCacheFresh[n]
             ELSE UNCHANGED <<shimPc, shimSnap, shimFresh>>
    BY <1>2 DEF ShimReconcile
  <2>2. n \in Names /\ mdCache[n] \in ModelDeployments
    BY <2>1
  <2>3. /\ Route(n, mdCache[n]).pc \in ShimPcs
        /\ Route(n, mdCache[n]).st \in Statuses
    BY <2>2, RouteFacts DEF Routed, StoragePcs, ShimPcs
  <2>4. [mdCache[n] EXCEPT !.st = Route(n, mdCache[n]).st] \in ModelDeployments
    BY <2>2, <2>3, ObjectTypes
  <2>5. PassOK'
    BY <2>1, <2>2, <2>3, <2>4 DEF PassOK
  <2>6. UNCHANGED <<api, world, caches>>
    BY <1>2 DEF ShimReconcile
  <2> QED BY <2>5, <2>6 DEF PassOK
<1>3. CASE ShimRefused
  BY <1>3, PassTypes DEF ShimRefused, PassOK
<1>4. CASE ShimGet
  <2>1. /\ FailClosed(shimSnap.st) \in Statuses /\ shimSnap.st \in Statuses
    BY EmptyTypes, StatusesHumble DEF Humble, ModelDeployments
  <2>2. PassOK'
    BY <1>4, <2>1, PassTypes DEF ShimGet, ShimPcs
  <2> QED BY <1>4, <2>2 DEF ShimGet, PassOK
<1>5. CASE ShimSync
  <2>1. Reconciled(shimSnap.st, dgd[shimKey]) \in Statuses
    BY EmptyTypes, StatusesHumble DEF Humble, ModelDeployments
  <2>2. PassOK'
    BY <1>5, <2>1, PassTypes DEF ShimSync, ShimPcs
  <2> QED BY <1>5, <2>2 DEF ShimSync, PassOK
<1>6. CASE ShimFind
  <2>1. shimSnap.st \in Statuses
    BY DEF ModelDeployments
  <2>2. PassOK'
    BY <1>6, <2>1, PassTypes DEF ShimFind, ShimPcs
  <2> QED BY <1>6, <2>2 DEF ShimFind, PassOK
<1>7. CASE OperatorUp
  BY <1>7 DEF OperatorUp
<1>8. CASE ShimRestart
  BY <1>8, LeftFalls, EmptyTypes DEF ShimRestart, ShimPcs
<1> QED BY <1>1, <1>2, <1>3, <1>4, <1>5, <1>6, <1>7, <1>8

\* The steps of a pass that write, and those whose call fails.
LEMMA TypeWrites ==
  ASSUME TypeOK,
         \/ ShimAddFinalizer \/ ShimPvcCreate \/ ShimPvcDelete \/ ShimJobCreate
         \/ ShimJobDelete \/ ShimCreate \/ ShimUpdate \/ ShimUpdateStatus
         \/ ShimTerminate \/ ShimDelete \/ ShimCleanJobs \/ ShimCleanPvcs
         \/ ShimRelease
  PROVE  TypeOK'
<1> USE DEF TypeOK, api, world, caches
<1>1. /\ shimSnap.st \in Statuses /\ FailClosed(shimSnap.st) \in Statuses
      /\ KeepServing(shimSnap.st) \in Statuses
      /\ PvcPending(shimSnap.st) \in Statuses
      /\ JobPending(shimSnap.st) \in Statuses
  BY EmptyTypes, StatusesHumble DEF Humble, ModelDeployments
<1>2. /\ \A s \in Statuses :
           [md EXCEPT ![shimKey] = [md[shimKey] EXCEPT !.st = s]]
             \in [Names -> ModelDeployments]
      /\ \A o \in ModelDeployments :
           [md EXCEPT ![shimKey] = o] \in [Names -> ModelDeployments]
  BY ObjectTypes
<1>3. \A new : ShimStore(new) => mdCacheFresh' \in [Names -> BOOLEAN]
  BY DEF ShimStore
<1>4. CASE ShimAddFinalizer
  <2>1. [md[shimKey] EXCEPT !.fin = TRUE] \in ModelDeployments
    BY ObjectTypes
  <2>2. PassOK'
    BY <1>4, PassTypes DEF ShimAddFinalizer
  <2> QED BY <1>2, <1>3, <1>4, <2>1, <2>2 DEF ShimAddFinalizer, ShimStore, PassOK
<1>5. CASE ShimPvcCreate
  <2>1. PassOK'
    BY <1>1, <1>5, PassTypes DEF ShimPvcCreate, ShimPcs
  <2>2. pvc' \in [Claims -> Pvcs]
    BY <1>5, ResourceTypes DEF ShimPvcCreate
  <2> QED BY <1>5, <2>1, <2>2 DEF ShimPvcCreate, PassOK
<1>6. CASE ShimPvcDelete
  <2>1. PassOK'
    BY <1>1, <1>6, PassTypes DEF ShimPvcDelete, ShimPcs
  <2>2. pvc' \in [Claims -> Pvcs]
    BY <1>6, ResourceTypes DEF ShimPvcDelete
  <2> QED BY <1>6, <2>1, <2>2 DEF ShimPvcDelete, PassOK
<1>7. CASE ShimJobCreate
  <2>1. PassOK'
    BY <1>1, <1>7, PassTypes DEF ShimJobCreate, ShimPcs
  <2>2. job' \in [Names -> Jobs]
    BY <1>7, ResourceTypes DEF ShimJobCreate
  <2> QED BY <1>7, <2>1, <2>2 DEF ShimJobCreate, PassOK
<1>8. CASE ShimJobDelete
  <2>1. PassOK'
    BY <1>1, <1>8, PassTypes DEF ShimJobDelete, ShimPcs
  <2>2. job' \in [Names -> Jobs]
    BY <1>8, EmptyTypes DEF ShimJobDelete
  <2> QED BY <1>8, <2>1, <2>2 DEF ShimJobDelete, PassOK
<1>9. CASE ShimCreate
  <2>1. PassOK'
    BY <1>1, <1>9, PassTypes DEF ShimCreate, ShimPcs
  <2>2. dgd' \in [Names -> Dgds]
    BY <1>9, ResourceTypes DEF ShimCreate
  <2> QED BY <1>9, <2>1, <2>2 DEF ShimCreate, PassOK
<1>10. CASE ShimUpdate
  <2>1. PassOK'
    BY <1>1, <1>10, PassTypes DEF ShimUpdate, ShimPcs
  <2>2. [dgd EXCEPT ![shimKey].gen = shimSnap.gen] \in [Names -> Dgds]
    BY SMTT(30), Constants DEF Dgds, ModelDeployments
  <2> QED BY <1>10, <2>1, <2>2 DEF ShimUpdate, PassOK
<1>11. CASE ShimUpdateStatus
  <2>1. PassOK'
    BY <1>11, PassTypes DEF ShimUpdateStatus
  <2> QED BY <1>1, <1>2, <1>3, <1>11, <2>1
          DEF ShimUpdateStatus, ShimStore, PassOK
<1>12. CASE ShimTerminate
  <2>1. PassOK'
    BY <1>1, <1>12, PassTypes DEF ShimTerminate, ShimPcs
  <2>2. md' \in [Names -> ModelDeployments]
    BY <1>1, <1>2, <1>12 DEF ShimTerminate, ShimStore
  <2>3. mdCacheFresh' \in [Names -> BOOLEAN]
    BY <1>3, <1>12 DEF ShimTerminate
  <2> QED BY <1>12, <2>1, <2>2, <2>3 DEF ShimTerminate, PassOK
<1>13. CASE ShimDelete
  <2>1. PassOK'
    BY <1>1, <1>13, PassTypes DEF ShimDelete, GiveUpOrRetry, ShimPcs
  <2>2. DeletedDgd(dgd[shimKey]) \in Dgds
    BY ResourceTypes
  <2>3. dgd' \in [Names -> Dgds]
    BY <1>13, <2>2 DEF ShimDelete
  <2> QED BY <1>13, <2>1, <2>3 DEF ShimDelete, PassOK
<1>14. CASE ShimCleanJobs
  <2>1. PassOK'
    BY <1>1, <1>14, PassTypes DEF ShimCleanJobs, ShimPcs
  <2>2. job' \in [Names -> Jobs]
    BY <1>14, EmptyTypes DEF ShimCleanJobs
  <2> QED BY <1>14, <2>1, <2>2 DEF ShimCleanJobs, PassOK
<1>15. CASE ShimCleanPvcs
  <2>1. PassOK'
    BY <1>1, <1>15, PassTypes DEF ShimCleanPvcs, GiveUpOrRetry, ShimPcs
  <2>2. DeletedPvc(claim) \in Pvcs
    BY ResourceTypes, Constants DEF claim
  <2>3. pvc' \in [Claims -> Pvcs]
    BY <1>15, <2>2 DEF ShimCleanPvcs
  <2> QED BY <1>15, <2>1, <2>3 DEF ShimCleanPvcs, PassOK
<1>16. CASE ShimRelease
  <2>1. PassOK'
    BY <1>16, PassTypes DEF ShimRelease
  <2>2. (IF md[shimKey].deleting THEN Absent
         ELSE [md[shimKey] EXCEPT !.fin = FALSE]) \in ModelDeployments
    BY ObjectTypes, EmptyTypes
  <2>3. md' \in [Names -> ModelDeployments]
    BY <1>2, <1>16, <2>2 DEF ShimRelease, ShimStore
  <2>4. mdCacheFresh' \in [Names -> BOOLEAN]
    BY <1>3, <1>16 DEF ShimRelease
  <2> QED BY <1>16, <2>1, <2>3, <2>4 DEF ShimRelease, PassOK
<1> QED BY <1>4, <1>5, <1>6, <1>7, <1>8, <1>9, <1>10, <1>11, <1>12, <1>13,
           <1>14, <1>15, <1>16

LEMMA TypeFaults == ASSUME TypeOK, ShimFault PROVE TypeOK'
<1> USE DEF TypeOK, api, caches
<1>1. /\ shimSnap.st \in Statuses /\ FailClosed(shimSnap.st) \in Statuses
      /\ KeepServing(shimSnap.st) \in Statuses
      /\ PvcFailed(shimSnap.st) \in Statuses
      /\ JobFailed(shimSnap.st) \in Statuses
      /\ Reconciled(shimSnap.st, NoDgd) \in Statuses
  BY EmptyTypes, StatusesHumble DEF Humble, ModelDeployments
<1>2. CASE ShimStorageFault
  <2>1. PassOK'
    BY <1>1, <1>2, PassTypes DEF ShimStorageFault, ShimPcs
  <2> QED BY <1>2, <2>1, LeftFalls DEF ShimStorageFault, PassOK
<1>3. CASE ShimGraphFault
  <2>1. PassOK'
    BY <1>1, <1>3, PassTypes DEF ShimGraphFault, ShimPcs
  <2>2. [dgd EXCEPT ![shimKey].gen = shimSnap.gen] \in [Names -> Dgds]
    BY Constants DEF Dgds, ModelDeployments
  <2>3. [dgd EXCEPT ![shimKey] = NewDgd(shimKey, shimSnap)] \in [Names -> Dgds]
    BY ResourceTypes
  <2>4. dgd' \in [Names -> Dgds]
    BY <1>3, <2>2, <2>3 DEF ShimGraphFault
  <2> QED BY <1>3, <2>1, <2>4, LeftFalls DEF ShimGraphFault, PassOK
<1>4. CASE ShimSyncFault
  <2>1. PassOK'
    BY <1>1, <1>4, PassTypes DEF ShimSyncFault, ShimPcs
  <2> QED BY <1>4, <2>1, LeftFalls DEF ShimSyncFault, PassOK
<1>5. CASE ShimDeletionFault
  <2>1. PassOK'
    BY <1>1, <1>5, PassTypes DEF ShimDeletionFault, GiveUpOrRetry, ShimPcs
  <2> QED BY <1>5, <2>1, LeftFalls DEF ShimDeletionFault, PassOK
<1>6. CASE ShimCleanJobsFault
  <2>1. PassOK'
    BY <1>1, <1>6, PassTypes DEF ShimCleanJobsFault, ShimPcs
  <2> QED BY <1>6, <2>1, LeftFalls DEF ShimCleanJobsFault, PassOK
<1>7. CASE ShimCleanPvcsFault
  <2>1. PassOK'
    BY <1>1, <1>7, PassTypes DEF ShimCleanPvcsFault, GiveUpOrRetry, ShimPcs
  <2> QED BY <1>7, <2>1, LeftFalls DEF ShimCleanPvcsFault, PassOK
<1>8. CASE ShimMDFault
  <2>1. PassOK'
    BY <1>1, <1>8, PassTypes DEF ShimMDFault, ShimPcs
  <2> QED BY <1>8, <2>1, LeftFalls DEF ShimMDFault, PassOK
<1> QED BY <1>2, <1>3, <1>4, <1>5, <1>6, <1>7, <1>8 DEF ShimFault

\* What others leave of an object or a graph.
LEMMA StoreTypes ==
  ASSUME TypeOK, NEW n \in Names
  PROVE  /\ \A o \in ModelDeployments :
              Store(n, o) => /\ md' \in [Names -> ModelDeployments]
                             /\ mdCacheFresh' \in [Names -> BOOLEAN]
                             /\ shimFresh' \in BOOLEAN
         /\ \A g \in Dgds :
              StoreGraph(n, g) => /\ dgd' \in [Names -> Dgds]
                                  /\ graphFresh' \in BOOLEAN
<1>1. ASSUME NEW o \in ModelDeployments, Store(n, o)
      PROVE  /\ md' \in [Names -> ModelDeployments]
             /\ mdCacheFresh' \in [Names -> BOOLEAN]
             /\ shimFresh' \in BOOLEAN
  BY <1>1 DEF Store, TypeOK
<1>2. ASSUME NEW g \in Dgds, StoreGraph(n, g)
      PROVE  dgd' \in [Names -> Dgds] /\ graphFresh' \in BOOLEAN
  BY <1>2 DEF StoreGraph, TypeOK
<1> QED BY <1>1, <1>2

LEMMA GraphTypes ==
  ASSUME TypeOK, NEW n \in Names
  PROVE  /\ DeletedDgd(dgd[n]) \in Dgds
         /\ \A x \in DgdStates : [dgd[n] EXCEPT !.state = x] \in Dgds
         /\ [NoDgd EXCEPT !.owner = Stranger] \in Dgds
<1>1. DeletedDgd(dgd[n]) \in Dgds
  <2>1. dgd[n] \in Dgds /\ shimSnap \in ModelDeployments
    BY DEF TypeOK
  <2> QED BY <2>1, ResourceTypes
<1>2. \A x \in DgdStates : [dgd[n] EXCEPT !.state = x] \in Dgds
  BY DEF TypeOK, Dgds
<1>3. [NoDgd EXCEPT !.owner = Stranger] \in Dgds
  BY EmptyTypes DEF Dgds
<1> QED BY <1>1, <1>2, <1>3

LEMMA ClaimTypes ==
  ASSUME TypeOK, NEW c \in Claims
  PROVE  /\ DeletedPvc(c) \in Pvcs
         /\ \A x \in PvcPhases :
              [pvc EXCEPT ![c].phase = x] \in [Claims -> Pvcs]
         /\ [pvc EXCEPT ![c] = DeletedPvc(c)] \in [Claims -> Pvcs]
         /\ [pvc EXCEPT ![c] = NoPvc] \in [Claims -> Pvcs]
<1>1. DeletedPvc(c) \in Pvcs
  <2>1. shimKey \in Names /\ shimSnap \in ModelDeployments
    BY DEF TypeOK
  <2> QED BY <2>1, ResourceTypes
<1>2. \A x \in PvcPhases : [pvc EXCEPT ![c].phase = x] \in [Claims -> Pvcs]
  BY DEF TypeOK, Pvcs
<1> QED BY <1>1, <1>2, EmptyTypes DEF TypeOK

LEMMA JobTypes ==
  ASSUME TypeOK, NEW n \in Names
  PROVE  /\ \A x \in JobStates : [job EXCEPT ![n].state = x] \in [Names -> Jobs]
         /\ [job EXCEPT ![n] = NoJob] \in [Names -> Jobs]
         /\ job[n].owner \in Owners
<1>1. \A x \in JobStates : [job EXCEPT ![n].state = x] \in [Names -> Jobs]
  BY DEF TypeOK, Jobs
<1>2. job[n].owner \in Owners
  BY DEF TypeOK, Jobs
<1> QED BY <1>1, <1>2, EmptyTypes DEF TypeOK

LEMMA TypeCluster == ASSUME TypeOK, Cluster PROVE TypeOK'
<1> USE DEF TypeOK, api, world, caches, pass
<1>1. ASSUME NEW c \in Claims, CollectPvc(c) PROVE TypeOK'
  BY <1>1, ClaimTypes DEF CollectPvc
<1>2. ASSUME NEW c \in Claims, PvcBind(c) PROVE TypeOK'
  <2>1. [pvc EXCEPT ![c].phase = "Bound"] \in [Claims -> Pvcs]
    BY ClaimTypes DEF PvcPhases
  <2> QED BY <1>2, <2>1 DEF PvcBind
<1>3. ASSUME NEW c \in Claims, PvcUnprotect(c) PROVE TypeOK'
  BY <1>3, ClaimTypes DEF PvcUnprotect
<1>4. ASSUME NEW n \in Names, CollectJob(n) PROVE TypeOK'
  BY <1>4, JobTypes DEF CollectJob
<1>5. ASSUME NEW n \in Names, CollectGraph(n) PROVE TypeOK'
  <2>1. dgd' \in [Names -> Dgds] /\ graphFresh' \in BOOLEAN
    BY <1>5, GraphTypes, StoreTypes DEF CollectGraph
  <2> QED BY <1>5, <2>1 DEF CollectGraph
<1>6. ASSUME NEW n \in Names, JobComplete(n) PROVE TypeOK'
  <2>1. [job EXCEPT ![n].state = "Complete"] \in [Names -> Jobs]
    BY JobTypes DEF JobStates
  <2> QED BY <1>6, <2>1, JobTypes DEF JobComplete
<1>7. ASSUME NEW n \in Names, GraphProgress(n) PROVE TypeOK'
  <2>1. [dgd[n] EXCEPT !.state = IF @ = "none" THEN "NotReady" ELSE "Ready"]
          \in Dgds
    BY GraphTypes DEF DgdStates
  <2>2. dgd' \in [Names -> Dgds] /\ graphFresh' \in BOOLEAN
    BY <1>7, <2>1, StoreTypes DEF GraphProgress
  <2> QED BY <1>7, <2>2 DEF GraphProgress
<1>8. ASSUME NEW n \in Names, GraphFinalize(n) PROVE TypeOK'
  <2>1. dgd' \in [Names -> Dgds] /\ graphFresh' \in BOOLEAN
    BY <1>8, EmptyTypes, StoreTypes DEF GraphFinalize
  <2> QED BY <1>8, <2>1 DEF GraphFinalize
<1>9. ASSUME NEW n \in Names, FinalizerTimeout(n) PROVE TypeOK'
  BY <1>9 DEF FinalizerTimeout
<1>10. ASSUME NEW n \in Names, CoreBind(n) PROVE TypeOK'
  <2>1. [md[n] EXCEPT !.bound = TRUE] \in ModelDeployments
    BY ObjectTypes
  <2>2. /\ md' \in [Names -> ModelDeployments]
        /\ mdCacheFresh' \in [Names -> BOOLEAN] /\ shimFresh' \in BOOLEAN
    BY <1>10, <2>1, StoreTypes DEF CoreBind
  <2> QED BY <1>10, <2>2 DEF CoreBind
<1> QED BY <1>1, <1>2, <1>3, <1>4, <1>5, <1>6, <1>7, <1>8, <1>9, <1>10
        DEF Cluster

LEMMA TypeEnvironment == ASSUME TypeOK, Environment PROVE TypeOK'
<1> USE DEF TypeOK, api, caches, pass, rest
<1>1. ASSUME NEW n \in Names, UserCreate(n) PROVE TypeOK'
  <2>1. PICK v \in Volumes : Store(n, NewMD(uids[n] + 1, v))
    BY <1>1 DEF UserCreate
  <2>2. uids[n] + 1 \in 1..MaxUid /\ uids[n] + 1 \in 0..MaxUid
    BY <1>1, Constants DEF UserCreate
  <2>3. NewMD(uids[n] + 1, v) \in ModelDeployments
    BY <2>2, EmptyTypes
  <2>4. /\ md' \in [Names -> ModelDeployments]
        /\ mdCacheFresh' \in [Names -> BOOLEAN] /\ shimFresh' \in BOOLEAN
    BY <2>1, <2>3, StoreTypes
  <2>5. uids' \in [Names -> 1..MaxUid]
    BY <1>1, <2>2 DEF UserCreate
  <2> QED BY <1>1, <2>4, <2>5 DEF UserCreate
<1>2. ASSUME NEW n \in Names, UserEdit(n) PROVE TypeOK'
  <2>1. PICK s \in Shapes : Store(n, [md[n] EXCEPT !.shape = s, !.gen = @ + 1])
    BY <1>2 DEF UserEdit
  <2>2. [md[n] EXCEPT !.shape = s, !.gen = @ + 1] \in ModelDeployments
    BY <1>2, ObjectTypes DEF UserEdit
  <2>3. /\ md' \in [Names -> ModelDeployments]
        /\ mdCacheFresh' \in [Names -> BOOLEAN] /\ shimFresh' \in BOOLEAN
    BY <2>1, <2>2, StoreTypes
  <2> QED BY <1>2, <2>3, LeftFalls DEF UserEdit
<1>3. ASSUME NEW n \in Names, UserPause(n) PROVE TypeOK'
  <2>1. /\ md' \in [Names -> ModelDeployments]
        /\ mdCacheFresh' \in [Names -> BOOLEAN] /\ shimFresh' \in BOOLEAN
    BY <1>3, ObjectTypes, StoreTypes DEF UserPause
  <2> QED BY <1>3, <2>1, LeftFalls DEF UserPause
<1>4. ASSUME NEW n \in Names, UserDelete(n) PROVE TypeOK'
  <2>1. (IF md[n].fin THEN [md[n] EXCEPT !.deleting = TRUE] ELSE Absent)
          \in ModelDeployments
    BY ObjectTypes, EmptyTypes
  <2>2. /\ md' \in [Names -> ModelDeployments]
        /\ mdCacheFresh' \in [Names -> BOOLEAN] /\ shimFresh' \in BOOLEAN
    BY <1>4, <2>1, StoreTypes DEF UserDelete
  <2> QED BY <1>4, <2>2, LeftFalls DEF UserDelete
<1>5. ASSUME NEW n \in Names, UserDeleteJob(n) PROVE TypeOK'
  BY <1>5, JobTypes, LeftFalls DEF UserDeleteJob
<1>6. ASSUME NEW c \in Claims, UserDeletePvc(c) PROVE TypeOK'
  BY <1>6, ClaimTypes, LeftFalls DEF UserDeletePvc
<1>7. ASSUME NEW n \in Names, UserDeleteGraph(n) PROVE TypeOK'
  <2>1. dgd' \in [Names -> Dgds] /\ graphFresh' \in BOOLEAN
    BY <1>7, GraphTypes, StoreTypes DEF UserDeleteGraph
  <2> QED BY <1>7, <2>1, LeftFalls DEF UserDeleteGraph
<1>8. ASSUME NEW n \in Names, UserCreateGraph(n) PROVE TypeOK'
  <2>1. dgd' \in [Names -> Dgds] /\ graphFresh' \in BOOLEAN
    BY <1>8, GraphTypes, StoreTypes DEF UserCreateGraph
  <2> QED BY <1>8, <2>1, LeftFalls DEF UserCreateGraph
<1>9. CASE Degrade
  <2>1. pvc' \in [Claims -> Pvcs]
    <3>1. \A c \in Claims : [pvc EXCEPT ![c].phase = "Lost"] \in [Claims -> Pvcs]
      BY ClaimTypes DEF PvcPhases
    <3> QED BY <1>9, <3>1 DEF Degrade
  <2>2. job' \in [Names -> Jobs]
    <3>1. ASSUME NEW n \in Names
          PROVE  [job EXCEPT ![n].state = IF @ = "Active" THEN "LastTry"
                                          ELSE "Failed"] \in [Names -> Jobs]
      BY JobTypes DEF JobStates
    <3> QED BY <1>9, <3>1 DEF Degrade
  <2>3. dgd' \in [Names -> Dgds] /\ graphFresh' \in BOOLEAN
    <3>1. \A n \in Names : [dgd[n] EXCEPT !.state = "Failed"] \in Dgds
      BY GraphTypes DEF DgdStates
    <3> QED BY <1>9, <3>1, StoreTypes DEF Degrade
  <2> QED BY <1>9, <2>1, <2>2, <2>3, LeftFalls DEF Degrade
<1>10. CASE OperatorDown
  BY <1>10, LeftFalls DEF OperatorDown
<1> QED BY <1>1, <1>2, <1>3, <1>4, <1>5, <1>6, <1>7, <1>8, <1>9, <1>10,
           TypeFaults, TypeReads DEF Environment

LEMMA TypeStep == TypeOK /\ [Next]_vars => TypeOK'
<1> SUFFICES ASSUME TypeOK, [Next]_vars PROVE TypeOK'
  OBVIOUS
<1>1. CASE UNCHANGED vars
  BY <1>1 DEF TypeOK, vars, api, world, caches, pass
<1> QED BY <1>1, TypeReads, TypeWrites, TypeCluster, TypeEnvironment
        DEF Next, ShimStep

-----------------------------------------------------------------------------
(* What one step does to the parts of the state the invariant relates: every *)
(* step but a delivery, the start of a pass and a restart of the shim.       *)

\* Object n stays what it is, goes, or comes back as the next incarnation.
Evolves(n) ==
  \/ /\ md'[n].uid = md[n].uid /\ uids'[n] = uids[n]
     /\ md'[n].vol = md[n].vol
     /\ md[n].fin => md'[n].fin
     /\ md[n].deleting => md'[n].deleting
  \/ ~Exists(md'[n]) /\ uids'[n] = uids[n]
  \/ ~Exists(md[n]) /\ md'[n].uid = uids[n] + 1 /\ uids'[n] = uids[n] + 1

ObjectMoves(n) ==
  /\ Evolves(n)
  /\ StatusTrue(n, md'[n])
  /\ mdCacheFresh'[n] => mdCacheFresh[n] /\ md'[n] = md[n]

\* Only a pass makes a graph, a Job or a claim, and for its own incarnation.
GraphMoves(n) ==
  \/ dgd'[n].owner \in {dgd[n].owner, Nobody, Stranger}
  \/ n = shimKey /\ shimPc \in GraphPcs /\ dgd'[n].owner = me

JobMoves(n) ==
  /\ \/ job'[n].owner \in {job[n].owner, Nobody}
     \/ n = shimKey /\ shimPc = "jobCreate" /\ job'[n].owner = me
  /\ job'[n].state = "Complete" => job'[n].owner \in downloaded'

ClaimMoves(c) ==
  \/ pvc'[c].owner \in {pvc[c].owner, Nobody}
  \/ c = claim /\ shimPc = "pvcCreate" /\ pvc'[c].owner = me

HistoryMoves ==
  /\ downloaded \subseteq downloaded'
  /\ \A x \in downloaded' : x \in downloaded \/ \E n \in Names : x = job[n].owner
  /\ \A n \in Names : timedOut[n] => timedOut'[n] \/ shimPc' = "idle"

\* A pass goes on to pc.
Advances(pc) ==
  /\ pc \notin StoragePcs \cup {"idle", "finalize", "terminate"}
  /\ pc \in GraphPcs => shimPc \in GraphPcs
  /\ pc \in DeletionPcs => shimPc \in DeletionPcs
  /\ pc \in CleanPcs => shimPc \in CleanPcs \/ ~There(dgd[shimKey])
  /\ pc = "release" =>
       \/ shimPc \in CleanPcs \/ dgd[shimKey].owner # me \/ timedOut[shimKey]

PassEnds == shimPc' = "idle" /\ shimSnap' = Absent /\ ~shimFresh'

PassGoesOn ==
  /\ SameObject(shimSnap, shimSnap')
  /\ shimSnap'.st.down = "True" => shimSnap.st.down = "True"
  /\ shimPc = "idle" => shimPc' = "idle" /\ shimSnap' = shimSnap
  /\ shimFresh' => /\ shimFresh
                   /\ md'[shimKey].uid = md[shimKey].uid
                   /\ md'[shimKey].deleting = md[shimKey].deleting
  /\ shimPc' # shimPc => Advances(shimPc')

Move ==
  /\ UNCHANGED <<mdCache, pvcCache, jobCache, shimKey>>
  /\ \A n \in Names : ObjectMoves(n)
  /\ \A n \in Names : GraphMoves(n)
  /\ \A n \in Names : JobMoves(n)
  /\ \A c \in Claims : ClaimMoves(c)
  /\ HistoryMoves
  /\ PassEnds \/ PassGoesOn

-----------------------------------------------------------------------------
(* Such a step keeps the invariant *)

LEMMA Uids ==
  ASSUME TypeOK
  PROVE  /\ \A n \in Names : md[n].uid \in 0..MaxUid /\ uids[n] \in 1..MaxUid
                             /\ mdCache[n].uid \in 0..MaxUid
         /\ shimSnap.uid \in 0..MaxUid /\ shimKey \in Names
         /\ \A n \in Names : job[n].owner \in Owners /\ dgd[n].owner \in Owners
         /\ \A c \in Claims : pvc[c].owner \in Owners
                              /\ pvcCache[c].owner \in Owners
BY DEF TypeOK, ModelDeployments, Jobs, Dgds, Pvcs

LEMMA OlderStays ==
  ASSUME TypeOK, TypeOK', NEW n \in Names, Evolves(n),
         md[n].uid \in {0, uids[n]},
         NEW c \in ModelDeployments, Older(c, md[n], uids[n])
  PROVE  Older(c, md'[n], uids'[n]) /\ md'[n].uid \in {0, uids'[n]}
<1>1. /\ c.uid \in Nat /\ uids[n] \in Nat /\ md[n].uid \in Nat
      /\ md'[n].uid \in Nat
  BY Uids, Constants DEF ModelDeployments, TypeOK
<1> QED BY <1>1 DEF Evolves, Older, Exists

LEMMA MoveIncarnations ==
  ASSUME IInv, TypeOK', Move PROVE Incarnations'
<1> USE DEF IInv
<1>1. ASSUME NEW n \in Names
      PROVE  /\ md'[n].uid \in {0, uids'[n]}
             /\ Older(mdCache[n], md'[n], uids'[n])
  <2>1. mdCache[n] \in ModelDeployments
    BY DEF TypeOK
  <2> QED BY <2>1, OlderStays DEF Incarnations, Move, ObjectMoves
<1>2. /\ Older(shimSnap', md'[shimKey], uids'[shimKey])
      /\ shimSnap'.uid \in {0, shimSnap.uid}
  <2>1. CASE PassEnds
    <3>1. uids'[shimKey] \in Nat /\ shimSnap' = Absent
      BY <2>1, Constants DEF TypeOK, Move, PassEnds
    <3> QED BY <3>1, AbsentFields DEF Older
  <2>2. CASE PassGoesOn
    <3>1. shimSnap \in ModelDeployments /\ shimKey \in Names
      BY DEF TypeOK
    <3>2. Older(shimSnap, md'[shimKey], uids'[shimKey])
      BY <3>1, OlderStays DEF Incarnations, Move, ObjectMoves
    <3> QED BY <2>2, <3>2 DEF PassGoesOn, SameObject, Older, Exists
  <2> QED BY <2>1, <2>2 DEF Move
<1>3. (Exists(mdCache[shimKey]) => shimSnap.uid <= mdCache[shimKey].uid)'
  <2>1. mdCache[shimKey].uid \in Nat /\ mdCache' = mdCache /\ shimKey' = shimKey
    BY Uids DEF Move
  <2> QED BY <1>2, <2>1 DEF Incarnations
<1> QED BY <1>1, <1>2, <1>3 DEF Incarnations, Move

LEMMA MoveFlags ==
  ASSUME IInv, TypeOK', Move PROVE FlagsTrue'
<1> USE DEF IInv
<1>1. \A n \in Names : mdCacheFresh'[n] => mdCache'[n] = md'[n]
  BY DEF Move, ObjectMoves, FlagsTrue
<1>2. shimFresh' => /\ Exists(md'[shimKey])
                    /\ shimSnap'.uid = md'[shimKey].uid
                    /\ shimSnap'.deleting = md'[shimKey].deleting
  BY DEF Move, PassEnds, PassGoesOn, FlagsTrue, SameObject, Exists
<1> QED BY <1>1, <1>2 DEF FlagsTrue, Move

LEMMA MoveSnap ==
  ASSUME IInv, TypeOK', Move PROVE SnapByPc'
<1> USE DEF IInv
<1>1. CASE PassEnds
  BY <1>1 DEF PassEnds, SnapByPc, StoragePcs, GraphPcs, DeletionPcs, CleanPcs
<1>2. CASE PassGoesOn /\ shimPc = "idle"
  BY <1>2 DEF PassGoesOn, SnapByPc, StoragePcs, GraphPcs, DeletionPcs, CleanPcs
<1>3. CASE PassGoesOn /\ shimPc # "idle" /\ shimPc' = shimPc
  BY <1>3 DEF PassGoesOn, SameObject, SnapByPc, Exists
<1>4. CASE PassGoesOn /\ shimPc # "idle" /\ shimPc' # shimPc
  <2>1. Advances(shimPc') /\ SameObject(shimSnap, shimSnap')
    BY <1>4 DEF PassGoesOn
  <2> QED BY <1>4, <2>1
          DEF Advances, SameObject, SnapByPc, Exists, StoragePcs
<1> QED BY <1>1, <1>2, <1>3, <1>4 DEF Move

LEMMA KnownOwners ==
  ASSUME IInv
  PROVE  /\ Known(Nobody) /\ Known(Stranger)
         /\ shimPc # "idle" => Known(me)
<1>1. Known(Nobody) /\ Known(Stranger)
  BY Constants DEF Known, Nobody, Stranger
<1>2. ASSUME shimPc # "idle" PROVE Known(me)
  <2>1. Exists(shimSnap) /\ shimSnap.uid \in Nat
    BY <1>2, Uids DEF IInv, SnapByPc
  <2>2. /\ shimSnap.uid <= uids[shimKey]
        /\ Exists(mdCache[shimKey]) => shimSnap.uid <= mdCache[shimKey].uid
    BY DEF IInv, Incarnations, Older
  <2>3. me.name = shimKey /\ me.uid = shimSnap.uid
    BY DEF me, Of
  <2> QED BY <2>1, <2>2, <2>3 DEF Known
<1> QED BY <1>1, <1>2

LEMMA KnownStays ==
  ASSUME IInv, TypeOK', Move, NEW x \in Owners, Known(x)
  PROVE  Known(x)'
<1> SUFFICES ASSUME x.name \in Names
             PROVE  /\ x.uid <= uids'[x.name]
                    /\ Exists(mdCache'[x.name]) => x.uid <= mdCache'[x.name].uid
                    /\ shimKey' = x.name /\ Exists(shimSnap') =>
                         x.uid <= shimSnap'.uid
  BY DEF Known
<1> USE DEF IInv
<1>1. x.uid \in Nat /\ x.uid <= uids[x.name]
  BY Constants DEF Known, Owners
<1>2. x.uid <= uids'[x.name]
  <2>1. uids[x.name] \in Nat /\ uids'[x.name] \in {uids[x.name], uids[x.name] + 1}
    BY Constants DEF TypeOK, Move, ObjectMoves, Evolves
  <2> QED BY <1>1, <2>1
<1>3. Exists(mdCache'[x.name]) => x.uid <= mdCache'[x.name].uid
  BY DEF Known, Move
<1>4. shimKey' = x.name /\ Exists(shimSnap') => x.uid <= shimSnap'.uid
  BY AbsentFields
     DEF Known, Move, PassEnds, PassGoesOn, SameObject, Exists
<1> QED BY <1>2, <1>3, <1>4

LEMMA MoveOwners ==
  ASSUME IInv, TypeOK', Move PROVE OwnersKnown'
<1> USE DEF IInv
<1>1. Nobody \in Owners /\ Stranger \in Owners /\ me \in Owners
  BY EmptyTypes DEF me, Of, Owners, TypeOK, ModelDeployments
<1>2. /\ \A n \in Names : job[n].owner \in Owners /\ Known(job[n].owner)
                          /\ dgd[n].owner \in Owners /\ Known(dgd[n].owner)
      /\ \A c \in Claims : pvc[c].owner \in Owners /\ Known(pvc[c].owner)
      /\ \A x \in downloaded : x \in Owners /\ Known(x)
  BY Uids DEF OwnersKnown, TypeOK
<1>3. \A x \in downloaded' : Known(x)'
  BY <1>2, KnownStays DEF Move, HistoryMoves
<1>4. ASSUME NEW n \in Names PROVE Known(job[n].owner)'
  <2>1. PICK x : x = job'[n].owner
    OBVIOUS
  <2>2. x \in Owners /\ Known(x)
    BY <1>1, <1>2, <2>1, KnownOwners DEF Move, JobMoves
  <2> QED BY <2>1, <2>2, KnownStays DEF Known
<1>5. ASSUME NEW n \in Names PROVE Known(dgd[n].owner)'
  <2>1. PICK x : x = dgd'[n].owner
    OBVIOUS
  <2>2. shimPc \in GraphPcs => shimPc # "idle"
    BY DEF GraphPcs
  <2>3. x \in Owners /\ Known(x)
    BY <1>1, <1>2, <2>1, <2>2, KnownOwners DEF Move, GraphMoves
  <2> QED BY <2>1, <2>3, KnownStays DEF Known
<1>6. ASSUME NEW c \in Claims PROVE Known(pvc[c].owner)'
  <2>1. PICK x : x = pvc'[c].owner
    OBVIOUS
  <2>2. x \in Owners /\ Known(x)
    BY <1>1, <1>2, <2>1, KnownOwners DEF Move, ClaimMoves
  <2> QED BY <2>1, <2>2, KnownStays DEF Known
<1>7. ASSUME NEW c \in Claims PROVE Known(pvcCache[c].owner)'
  <2>1. PICK x : x = pvcCache[c].owner
    OBVIOUS
  <2>2. x \in Owners /\ Known(x)
    BY <2>1, Uids DEF OwnersKnown
  <2> QED BY <2>1, <2>2, KnownStays DEF Known, Move
<1> QED BY <1>3, <1>4, <1>5, <1>6, <1>7 DEF OwnersKnown

LEMMA MoveDownloads ==
  ASSUME IInv, TypeOK', Move PROVE DownloadsTrue'
<1> USE DEF IInv
<1>1. downloaded \subseteq downloaded'
  BY DEF Move, HistoryMoves
<1>2. ASSUME NEW n \in Names
      PROVE  /\ job'[n].state = "Complete" => job'[n].owner \in downloaded'
             /\ jobCache'[n].state = "Complete" =>
                  jobCache'[n].owner \in downloaded'
             /\ StatusTrue(n, md[n])' /\ StatusTrue(n, mdCache[n])'
  BY <1>1 DEF Move, JobMoves, ObjectMoves, DownloadsTrue, StatusTrue
<1>3. StatusTrue(shimKey, shimSnap)'
  <2>1. CASE PassEnds
    BY <2>1, AbsentFields DEF PassEnds, StatusTrue
  <2>2. CASE PassGoesOn
    BY <1>1, <2>2
       DEF PassGoesOn, SameObject, StatusTrue, DownloadsTrue, Move, Of
  <2> QED BY <2>1, <2>2 DEF Move
<1>4. (shimPc \in GraphPcs /\ shimSnap.vol # "none" => me \in downloaded)'
  <2>1. CASE PassEnds
    BY <2>1 DEF PassEnds, GraphPcs
  <2>2. CASE PassGoesOn
    <3>1. shimPc' \in GraphPcs => shimPc \in GraphPcs
      BY <2>2 DEF PassGoesOn, Advances
    <3>2. me' = me /\ shimSnap'.vol = shimSnap.vol
      BY <2>2 DEF PassGoesOn, SameObject, me, Of, Move
    <3> QED BY <1>1, <3>1, <3>2 DEF DownloadsTrue
  <2> QED BY <2>1, <2>2 DEF Move
<1> QED BY <1>2, <1>3, <1>4 DEF DownloadsTrue

\* A name and an incarnation tell an owner from the others.
LEMMA OwnerIs ==
  ASSUME TypeOK, NEW n \in Names, NEW o \in ModelDeployments
  PROVE  /\ Of(n, o) # Nobody /\ Of(n, o) # Stranger
         /\ \A m, p : Of(n, o) = Of(m, p) => n = m /\ o.uid = p.uid
BY Constants DEF Of, Nobody, Stranger

LEMMA MoveGraph ==
  ASSUME IInv, TypeOK', Move PROVE GraphInPlace'
<1> USE DEF IInv
<1>1. downloaded \subseteq downloaded' /\ shimKey' = shimKey
  BY DEF Move, HistoryMoves
<1>2. ASSUME NEW n \in Names, Exists(md'[n]), dgd'[n].owner = Of(n, md'[n])
      PROVE  /\ md'[n].vol # "none" => Of(n, md'[n]) \in downloaded'
             /\ md'[n].fin
  <2>1. md'[n] \in ModelDeployments /\ md[n] \in ModelDeployments
    BY DEF TypeOK
  <2>2. dgd'[n].owner # Nobody /\ dgd'[n].owner # Stranger
    BY <1>2, <2>1, OwnerIs
  <2>3. md'[n].uid <= uids[n]
    <3>1. md'[n].uid = dgd'[n].owner.uid /\ dgd'[n].owner.name = n
      BY <1>2 DEF Of
    <3>2. CASE dgd'[n].owner = dgd[n].owner
      BY <3>1, <3>2 DEF OwnersKnown, Known
    <3>3. CASE n = shimKey /\ shimPc \in GraphPcs /\ dgd'[n].owner = me
      BY <3>1, <3>3 DEF Incarnations, Older, me, Of
    <3> QED BY <2>2, <3>2, <3>3 DEF Move, GraphMoves
  <2>4. /\ Exists(md[n]) /\ md'[n].uid = md[n].uid /\ md'[n].vol = md[n].vol
        /\ md[n].fin => md'[n].fin
    <3>1. md'[n].uid # uids[n] + 1
      BY <2>3, Uids, Constants DEF TypeOK
    <3> QED BY <1>2, <3>1 DEF Move, ObjectMoves, Evolves, Exists
  <2>5. Of(n, md'[n]) = Of(n, md[n])
    BY <2>4 DEF Of
  <2>6. CASE dgd'[n].owner = dgd[n].owner
    BY <1>1, <1>2, <2>4, <2>5, <2>6 DEF GraphInPlace
  <2>7. CASE n = shimKey /\ shimPc \in GraphPcs /\ dgd'[n].owner = me
    <3>1. shimSnap.uid = md[n].uid /\ shimSnap.fin /\ me = Of(n, md[n])
      BY <1>2, <2>5, <2>7 DEF me, Of, SnapByPc
    <3>2. shimSnap.vol = md[n].vol /\ md[n].fin
      BY <2>4, <2>7, <3>1 DEF Incarnations, Older, Exists
    <3> QED BY <1>1, <2>4, <2>5, <2>7, <3>1, <3>2 DEF DownloadsTrue
  <2> QED BY <2>2, <2>6, <2>7 DEF Move, GraphMoves
<1>3. /\ shimPc' \in CleanPcs => dgd'[shimKey].owner # me'
      /\ shimPc' = "release" => dgd'[shimKey].owner # me' \/ timedOut'[shimKey]
  <2>1. CASE PassEnds
    BY <2>1 DEF PassEnds, CleanPcs
  <2>2. CASE PassGoesOn /\ shimPc = "idle"
    BY <2>2 DEF PassGoesOn, CleanPcs
  <2>3. CASE PassGoesOn /\ shimPc # "idle"
    <3>1. me' = me /\ shimKey \in Names
      BY <2>3 DEF PassGoesOn, SameObject, me, Of, Move, TypeOK
    <3>2. me # Nobody /\ me # Stranger
      BY OwnerIs DEF me, TypeOK
    <3>3. shimPc' # "idle"
      BY <2>3 DEF PassGoesOn, Advances
    <3>4. timedOut[shimKey] => timedOut'[shimKey]
      BY <3>1, <3>3 DEF Move, HistoryMoves
    <3>5. shimPc' \in CleanPcs \cup {"release"} => shimPc \notin GraphPcs
      BY <2>3 DEF PassGoesOn, Advances, DeletionPcs, CleanPcs, GraphPcs
    <3>6. /\ shimPc' \in CleanPcs => dgd[shimKey].owner # me
          /\ shimPc' = "release" => dgd[shimKey].owner # me \/ timedOut[shimKey]
      BY <2>3, <3>2 DEF PassGoesOn, Advances, GraphInPlace, There
    <3>7. shimPc \notin GraphPcs /\ dgd[shimKey].owner # me =>
            dgd'[shimKey].owner # me
      BY <3>1, <3>2 DEF Move, GraphMoves
    <3> QED BY <3>1, <3>4, <3>5, <3>6, <3>7
  <2> QED BY <2>1, <2>2, <2>3 DEF Move
<1> QED BY <1>1, <1>2, <1>3 DEF GraphInPlace

LEMMA MoveKeeps == ASSUME IInv, TypeOK', Move PROVE IInv'
BY MoveIncarnations, MoveFlags, MoveSnap, MoveOwners, MoveDownloads, MoveGraph
   DEF IInv

-----------------------------------------------------------------------------
(* The steps that are such steps *)

LEMMA Stays ==
  ASSUME IInv
  PROVE  /\ UNCHANGED <<md, uids, mdCacheFresh>> =>
              \A n \in Names : ObjectMoves(n)
         /\ UNCHANGED dgd => \A n \in Names : GraphMoves(n)
         /\ UNCHANGED <<job, downloaded>> => \A n \in Names : JobMoves(n)
         /\ UNCHANGED pvc => \A c \in Claims : ClaimMoves(c)
         /\ UNCHANGED <<downloaded, timedOut>> => HistoryMoves
         /\ UNCHANGED <<md, shimPc, shimSnap, shimFresh>> => PassGoesOn
<1> USE DEF IInv
<1>1. UNCHANGED <<md, uids, mdCacheFresh>> => \A n \in Names : ObjectMoves(n)
  BY DEF ObjectMoves, Evolves, DownloadsTrue
<1>2. UNCHANGED dgd => \A n \in Names : GraphMoves(n)
  BY DEF GraphMoves
<1>3. UNCHANGED <<job, downloaded>> => \A n \in Names : JobMoves(n)
  BY DEF JobMoves, DownloadsTrue
<1>4. UNCHANGED pvc => \A c \in Claims : ClaimMoves(c)
  BY DEF ClaimMoves
<1>5. UNCHANGED <<downloaded, timedOut>> => HistoryMoves
  BY DEF HistoryMoves
<1>6. UNCHANGED <<md, shimPc, shimSnap, shimFresh>> => PassGoesOn
  BY DEF PassGoesOn, SameObject
<1> QED BY <1>1, <1>2, <1>3, <1>4, <1>5, <1>6

\* How a pass goes on from one step to the next.
LEMMA PassSteps ==
  ASSUME IInv, shimPc # "idle"
  PROVE  /\ (\E b \in BOOLEAN : Idle(b)) => PassEnds
         /\ \A pc, st :
              /\ Goto(pc, st) /\ Humble(shimSnap.st, st) /\ Advances(pc)
              /\ md'[shimKey].uid = md[shimKey].uid
              /\ md'[shimKey].deleting = md[shimKey].deleting
              => PassGoesOn
<1>1. (\E b \in BOOLEAN : Idle(b)) => PassEnds
  BY DEF Idle, PassEnds
<1>2. ASSUME NEW pc, NEW st,
             Goto(pc, st), Humble(shimSnap.st, st), Advances(pc),
             md'[shimKey].uid = md[shimKey].uid,
             md'[shimKey].deleting = md[shimKey].deleting
      PROVE  PassGoesOn
  <2>1. shimSnap \in ModelDeployments
    BY DEF IInv, TypeOK
  <2>2. /\ SameObject(shimSnap, [shimSnap EXCEPT !.st = st])
        /\ [shimSnap EXCEPT !.st = st].st = st
    BY <1>2, <2>1, ObjectTypes DEF Humble, ModelDeployments
  <2>3. /\ shimPc' = pc /\ shimSnap' = [shimSnap EXCEPT !.st = st]
        /\ shimFresh' = shimFresh
    BY <1>2 DEF Goto
  <2> QED BY <1>2, <2>2, <2>3 DEF PassGoesOn, Humble
<1> QED BY <1>1, <1>2

\* A pass that writes nothing, and ends or goes on.
LEMMA QuietPass ==
  ASSUME IInv, shimPc # "idle",
         UNCHANGED <<api, downloaded, timedOut, uids, caches>>,
         \/ \E b \in BOOLEAN : Idle(b)
         \/ \E pc, st : Goto(pc, st) /\ Humble(shimSnap.st, st) /\ Advances(pc)
  PROVE  Move
<1>1. PassEnds \/ PassGoesOn
  BY PassSteps DEF api
<1>2. UNCHANGED shimKey
  BY DEF Idle, Goto
<1> QED BY <1>1, <1>2, Stays DEF Move, api, caches

LEMMA HumbleSnap ==
  ASSUME TypeOK
  PROVE  /\ Humble(shimSnap.st, shimSnap.st)
         /\ Humble(shimSnap.st, FailClosed(shimSnap.st))
         /\ Humble(shimSnap.st, KeepServing(shimSnap.st))
         /\ Humble(shimSnap.st, PvcFailed(shimSnap.st))
         /\ Humble(shimSnap.st, PvcPending(shimSnap.st))
         /\ Humble(shimSnap.st, JobFailed(shimSnap.st))
         /\ Humble(shimSnap.st, JobPending(shimSnap.st))
         /\ \A g \in Dgds : Humble(shimSnap.st, Reconciled(shimSnap.st, g))
<1>1. shimSnap.st \in Statuses
  BY DEF TypeOK, ModelDeployments
<1> QED BY <1>1, EmptyTypes, StatusesHumble

\* The steps that only read, and those whose call fails.
LEMMA ReadsMove ==
  ASSUME IInv,
         \/ ShimRefused \/ ShimGet \/ ShimSync \/ ShimFind
         \/ ShimStorageFault \/ ShimSyncFault \/ ShimDeletionFault
         \/ ShimCleanJobsFault \/ ShimCleanPvcsFault \/ ShimMDFault
  PROVE  Move
<1> DEFINE Goes == \/ \E b \in BOOLEAN : Idle(b)
                   \/ \E pc, st : /\ Goto(pc, st) /\ Humble(shimSnap.st, st)
                                  /\ Advances(pc)
<1> USE DEF StoragePcs, GraphPcs, DeletionPcs, CleanPcs
<1>1. TypeOK
  BY DEF IInv
<1>2. NoDgd \in Dgds /\ dgd[shimKey] \in Dgds
  BY <1>1, EmptyTypes DEF TypeOK
<1>3. shimPc # "idle" /\ UNCHANGED <<api, downloaded, timedOut, uids, caches>>
  BY DEF ShimRefused, ShimGet, ShimSync, ShimFind, ShimStorageFault,
     ShimSyncFault, ShimDeletionFault, ShimCleanJobsFault, ShimCleanPvcsFault,
     ShimMDFault, world
<1>4. CASE ShimRefused
  <2>1. Goes
    BY <1>4 DEF ShimRefused
  <2> QED BY <1>3, <2>1, QuietPass
<1>5. CASE ShimGet
  <2>1. PICK pc, st : /\ Goto(pc, st)
                      /\ pc \in GraphPcs \cup {"sync", "writeRequeue"}
                      /\ st \in {shimSnap.st, FailClosed(shimSnap.st)}
    BY <1>5 DEF ShimGet
  <2>2. Humble(shimSnap.st, st)
    BY <1>1, <2>1, HumbleSnap
  <2>3. Advances(pc)
    BY <1>5, <2>1 DEF Advances, ShimGet
  <2> QED BY <1>3, <2>1, <2>2, <2>3, QuietPass
<1>6. CASE ShimSync \/ ShimSyncFault
  <2>1. PICK g \in Dgds :
          shimPc = "sync" /\ Goto("writeRequeue", Reconciled(shimSnap.st, g))
    BY <1>2, <1>6 DEF ShimSync, ShimSyncFault, Step
  <2>2. Humble(shimSnap.st, Reconciled(shimSnap.st, g))
    BY <1>1, HumbleSnap
  <2>3. Advances("writeRequeue")
    BY DEF Advances
  <2> QED BY <1>3, <2>1, <2>2, <2>3, QuietPass
<1>7. CASE ShimFind
  <2>1. PICK pc : /\ Goto(pc, shimSnap.st)
                  /\ \/ pc = "cleanJobs" /\ ~There(dgd[shimKey])
                     \/ pc = "delete"
                     \/ pc = "release" /\ dgd[shimKey].owner # me
    BY <1>7 DEF ShimFind, Step
  <2>2. Advances(pc)
    BY <1>7, <2>1 DEF Advances, ShimFind
  <2> QED BY <1>1, <1>3, <2>1, <2>2, HumbleSnap, QuietPass
<1>8. CASE ShimStorageFault
  <2>1. PICK st : /\ Goto("write", st)
                  /\ st \in {PvcFailed(shimSnap.st), JobFailed(shimSnap.st)}
    BY <1>8 DEF ShimStorageFault, Step
  <2>2. Humble(shimSnap.st, st)
    BY <1>1, <2>1, HumbleSnap
  <2>3. Advances("write")
    BY DEF Advances
  <2> QED BY <1>3, <2>1, <2>2, <2>3, QuietPass
<1>9. ASSUME shimPc \in DeletionPcs, GiveUpOrRetry PROVE Move
  <2>1. CASE timedOut[shimKey]
    <3>1. Goto("release", shimSnap.st) /\ Advances("release")
      BY <1>9, <2>1 DEF GiveUpOrRetry, Step, Advances
    <3> QED BY <1>1, <1>3, <3>1, HumbleSnap, QuietPass
  <2>2. CASE ~timedOut[shimKey]
    <3>1. Goes
      BY <1>9, <2>2 DEF GiveUpOrRetry
    <3> QED BY <1>3, <3>1, QuietPass
  <2> QED BY <2>1, <2>2
<1>10. CASE ShimDeletionFault \/ ShimCleanPvcsFault
  BY <1>9, <1>10 DEF ShimDeletionFault, ShimCleanPvcsFault
<1>11. CASE ShimCleanJobsFault
  <2>1. Goto("cleanPvcsFailed", shimSnap.st) /\ Advances("cleanPvcsFailed")
    BY <1>11 DEF ShimCleanJobsFault, Step, Advances
  <2> QED BY <1>1, <1>3, <2>1, HumbleSnap, QuietPass
<1>12. CASE ShimMDFault
  <2>1. CASE shimPc = "terminate" /\ Step("find", shimSnap.st)
    <3>1. Goto("find", shimSnap.st) /\ Advances("find")
      BY <2>1 DEF Step, Advances
    <3> QED BY <1>1, <1>3, <3>1, HumbleSnap, QuietPass
  <2>2. CASE Idle(TRUE)
    <3>1. Goes
      BY <2>2
    <3> QED BY <1>3, <3>1, QuietPass
  <2> QED BY <1>12, <2>1, <2>2 DEF ShimMDFault
<1> QED BY <1>4, <1>5, <1>6, <1>7, <1>8, <1>10, <1>11, <1>12

\* The steps that write to the cluster, and go on.
LEMMA ResourceWritesMove ==
  ASSUME IInv, TypeOK',
         \/ ShimPvcCreate \/ ShimPvcDelete \/ ShimJobCreate \/ ShimJobDelete
         \/ ShimCreate \/ ShimUpdate \/ ShimGraphFault \/ ShimDelete
         \/ ShimCleanJobs \/ ShimCleanPvcs
  PROVE  Move
<1> USE DEF StoragePcs, GraphPcs, DeletionPcs, CleanPcs
<1>1. /\ TypeOK /\ shimKey \in Names /\ claim \in Claims
      /\ shimSnap \in ModelDeployments
  BY Constants DEF IInv, TypeOK, claim
<1>2. /\ shimPc # "idle"
      /\ UNCHANGED <<md, downloaded, timedOut, uids, caches>>
  BY DEF ShimPvcCreate, ShimPvcDelete, ShimJobCreate, ShimJobDelete, ShimCreate,
     ShimUpdate, ShimGraphFault, ShimDelete, ShimCleanJobs, ShimCleanPvcs, world
<1>3. ASSUME NEW pc, NEW st, Goto(pc, st), Humble(shimSnap.st, st), Advances(pc)
      PROVE  PassGoesOn /\ UNCHANGED shimKey
  BY <1>2, <1>3, PassSteps DEF Goto
<1>4. /\ \A n \in Names : ObjectMoves(n)
      /\ HistoryMoves
      /\ UNCHANGED <<mdCache, pvcCache, jobCache>>
  BY <1>2, Stays DEF caches
<1>5. CASE ShimPvcCreate
  <2>1. Goto("writeRequeue", PvcPending(shimSnap.st)) /\ Advances("writeRequeue")
    BY <1>5 DEF ShimPvcCreate, Step, Advances
  <2>2. PassGoesOn /\ UNCHANGED shimKey
    BY <1>1, <1>3, <2>1, HumbleSnap
  <2>3. \A c \in Claims : ClaimMoves(c)
    <3>1. NewPvc(shimKey, shimSnap).owner = me
      BY DEF NewPvc, me
    <3> QED BY <1>1, <1>5, <3>1 DEF ShimPvcCreate, ClaimMoves, TypeOK
  <2>4. (\A n \in Names : GraphMoves(n)) /\ \A n \in Names : JobMoves(n)
    BY <1>2, <1>5, Stays DEF ShimPvcCreate
  <2> QED BY <1>4, <2>2, <2>3, <2>4 DEF Move
<1>6. CASE ShimPvcDelete
  <2>1. Goto("writeRequeue", PvcPending(shimSnap.st)) /\ Advances("writeRequeue")
    BY <1>6 DEF ShimPvcDelete, Step, Advances
  <2>2. PassGoesOn /\ UNCHANGED shimKey
    BY <1>1, <1>3, <2>1, HumbleSnap
  <2>3. \A c \in Claims : ClaimMoves(c)
    <3>1. DeletedPvc(claim).owner \in {Nobody, pvc[claim].owner}
      BY <1>1, ResourceTypes
    <3> QED BY <1>1, <1>6, <3>1 DEF ShimPvcDelete, ClaimMoves, TypeOK
  <2>4. (\A n \in Names : GraphMoves(n)) /\ \A n \in Names : JobMoves(n)
    BY <1>2, <1>6, Stays DEF ShimPvcDelete
  <2> QED BY <1>4, <2>2, <2>3, <2>4 DEF Move
<1>7. CASE ShimJobCreate
  <2>1. Goto("writeRequeue", JobPending(shimSnap.st)) /\ Advances("writeRequeue")
    BY <1>7 DEF ShimJobCreate, Step, Advances
  <2>2. PassGoesOn /\ UNCHANGED shimKey
    BY <1>1, <1>3, <2>1, HumbleSnap
  <2>3. \A n \in Names : JobMoves(n)
    <3>1. /\ NewJob(shimKey, shimSnap).owner = me
          /\ NewJob(shimKey, shimSnap).state # "Complete"
      BY DEF NewJob, me
    <3>2. \A n \in Names : job[n].state = "Complete" => job[n].owner \in downloaded'
      BY <1>2 DEF IInv, DownloadsTrue
    <3> QED BY <1>1, <1>7, <3>1, <3>2 DEF ShimJobCreate, JobMoves, TypeOK
  <2>4. (\A n \in Names : GraphMoves(n)) /\ \A c \in Claims : ClaimMoves(c)
    BY <1>7, Stays DEF ShimJobCreate
  <2> QED BY <1>4, <2>2, <2>3, <2>4 DEF Move
<1>8. ASSUME \/ job' = job
             \/ job' = [job EXCEPT ![shimKey] = NoJob]
      PROVE  \A n \in Names : JobMoves(n)
  <2>1. NoJob.owner = Nobody /\ NoJob.state # "Complete"
    BY DEF NoJob
  <2>2. \A n \in Names : job[n].state = "Complete" => job[n].owner \in downloaded'
    BY <1>2 DEF IInv, DownloadsTrue
  <2> QED BY <1>1, <1>8, <2>1, <2>2 DEF JobMoves, TypeOK
<1>9. CASE ShimJobDelete
  <2>1. Goto("writeRequeue", JobPending(shimSnap.st)) /\ Advances("writeRequeue")
    BY <1>9 DEF ShimJobDelete, Step, Advances
  <2>2. PassGoesOn /\ UNCHANGED shimKey
    BY <1>1, <1>3, <2>1, HumbleSnap
  <2>3. (\A n \in Names : GraphMoves(n)) /\ \A c \in Claims : ClaimMoves(c)
    BY <1>9, Stays DEF ShimJobDelete
  <2> QED BY <1>4, <1>8, <1>9, <2>2, <2>3 DEF Move, ShimJobDelete
<1>10. CASE ShimCleanJobs
  <2>1. Goto("cleanPvcs", shimSnap.st) /\ Advances("cleanPvcs")
    BY <1>10 DEF ShimCleanJobs, Step, Advances
  <2>2. PassGoesOn /\ UNCHANGED shimKey
    BY <1>1, <1>3, <2>1, HumbleSnap
  <2>3. (\A n \in Names : GraphMoves(n)) /\ \A c \in Claims : ClaimMoves(c)
    BY <1>10, Stays DEF ShimCleanJobs
  <2> QED BY <1>4, <1>8, <1>10, <2>2, <2>3 DEF Move, ShimCleanJobs
<1>11. ASSUME \/ dgd' = dgd
              \/ dgd' = [dgd EXCEPT ![shimKey] = DeletedDgd(@)]
              \/ /\ shimPc \in GraphPcs
                 /\ dgd' = [dgd EXCEPT ![shimKey] = NewDgd(shimKey, shimSnap)]
              \/ dgd' = [dgd EXCEPT ![shimKey].gen = shimSnap.gen]
       PROVE  \A n \in Names : GraphMoves(n)
  <2>1. dgd[shimKey] \in Dgds
    BY <1>1 DEF TypeOK
  <2>2. /\ DeletedDgd(dgd[shimKey]).owner \in {Nobody, dgd[shimKey].owner}
        /\ NewDgd(shimKey, shimSnap).owner = me
    BY <1>1, <2>1, ResourceTypes DEF NewDgd, me
  <2>3. [dgd EXCEPT ![shimKey].gen = shimSnap.gen][shimKey].owner
          = dgd[shimKey].owner
    BY <1>1, <2>1 DEF TypeOK, Dgds
  <2> QED BY <1>1, <1>11, <2>2, <2>3 DEF GraphMoves, TypeOK
<1>12. CASE ShimCreate
  <2>1. PICK pc, st : /\ Goto(pc, st) /\ pc \in {"sync", "writeRequeue"}
                      /\ st \in {shimSnap.st, FailClosed(shimSnap.st)}
    BY <1>12 DEF ShimCreate, Step
  <2>2. PassGoesOn /\ UNCHANGED shimKey
    BY <1>1, <1>3, <2>1, HumbleSnap DEF Advances
  <2>3. \A n \in Names : GraphMoves(n)
    BY <1>11, <1>12 DEF ShimCreate
  <2>4. (\A n \in Names : JobMoves(n)) /\ \A c \in Claims : ClaimMoves(c)
    BY <1>2, <1>12, Stays DEF ShimCreate
  <2> QED BY <1>4, <2>2, <2>3, <2>4 DEF Move
<1>13. CASE ShimUpdate \/ ShimGraphFault
  <2>1. PICK pc, st : /\ Goto(pc, st) /\ pc \in {"sync", "writeRequeue"}
                      /\ st \in {shimSnap.st, FailClosed(shimSnap.st),
                                 KeepServing(shimSnap.st)}
    BY <1>13 DEF ShimUpdate, ShimGraphFault, Step
  <2>2. PassGoesOn /\ UNCHANGED shimKey
    BY <1>1, <1>3, <2>1, HumbleSnap DEF Advances
  <2>3. \A n \in Names : GraphMoves(n)
    BY <1>11, <1>13 DEF ShimUpdate, ShimGraphFault
  <2>4. (\A n \in Names : JobMoves(n)) /\ \A c \in Claims : ClaimMoves(c)
    BY <1>2, <1>13, Stays DEF ShimUpdate, ShimGraphFault
  <2> QED BY <1>4, <2>2, <2>3, <2>4 DEF Move
<1>14. ASSUME shimPc \in DeletionPcs, GiveUpOrRetry
       PROVE  (PassEnds \/ PassGoesOn) /\ UNCHANGED shimKey
  <2>1. CASE timedOut[shimKey]
    <3>1. Goto("release", shimSnap.st) /\ Advances("release")
      BY <1>14, <2>1 DEF GiveUpOrRetry, Step, Advances
    <3> QED BY <1>1, <1>3, <3>1, HumbleSnap
  <2>2. CASE ~timedOut[shimKey]
    BY <1>2, <1>14, <2>2, PassSteps DEF GiveUpOrRetry, Idle
  <2> QED BY <2>1, <2>2
<1>15. CASE ShimDelete
  <2>1. (PassEnds \/ PassGoesOn) /\ UNCHANGED shimKey
    <3>1. CASE There(dgd[shimKey])
      BY <1>2, <1>15, <3>1, PassSteps DEF ShimDelete, Idle
    <3>2. CASE ~There(dgd[shimKey])
      BY <1>14, <1>15, <3>2 DEF ShimDelete
    <3> QED BY <3>1, <3>2
  <2>2. \A n \in Names : GraphMoves(n)
    BY <1>11, <1>15 DEF ShimDelete
  <2>3. (\A n \in Names : JobMoves(n)) /\ \A c \in Claims : ClaimMoves(c)
    BY <1>2, <1>15, Stays DEF ShimDelete
  <2> QED BY <1>4, <2>1, <2>2, <2>3 DEF Move
<1>16. CASE ShimCleanPvcs
  <2>1. (PassEnds \/ PassGoesOn) /\ UNCHANGED shimKey
    <3>1. CASE shimPc = "cleanPvcs"
      <4>1. Goto("release", shimSnap.st) /\ Advances("release")
        BY <1>16, <3>1 DEF ShimCleanPvcs, Step, Advances
      <4> QED BY <1>1, <1>3, <4>1, HumbleSnap
    <3>2. CASE shimPc # "cleanPvcs"
      BY <1>14, <1>16, <3>2 DEF ShimCleanPvcs
    <3> QED BY <3>1, <3>2
  <2>2. \A c \in Claims : ClaimMoves(c)
    <3>1. DeletedPvc(claim).owner \in {Nobody, pvc[claim].owner}
      BY <1>1, ResourceTypes
    <3> QED BY <1>1, <1>16, <3>1 DEF ShimCleanPvcs, ClaimMoves, TypeOK
  <2>3. (\A n \in Names : GraphMoves(n)) /\ \A n \in Names : JobMoves(n)
    BY <1>2, <1>16, Stays DEF ShimCleanPvcs
  <2> QED BY <1>4, <2>1, <2>2, <2>3 DEF Move
<1> QED BY <1>5, <1>6, <1>7, <1>9, <1>10, <1>12, <1>13, <1>15, <1>16

\* The steps that write the ModelDeployment.
LEMMA ObjectWritesMove ==
  ASSUME IInv, TypeOK',
         \/ ShimAddFinalizer \/ ShimUpdateStatus \/ ShimTerminate \/ ShimRelease
  PROVE  Move
<1> USE DEF StoragePcs, GraphPcs, DeletionPcs, CleanPcs
<1>1. /\ TypeOK /\ shimKey \in Names /\ shimSnap \in ModelDeployments
      /\ shimPc # "idle" /\ Exists(shimSnap)
  BY DEF IInv, TypeOK, SnapByPc, ShimAddFinalizer, ShimUpdateStatus,
         ShimTerminate, ShimRelease
<1>2. /\ UNCHANGED <<pvc, job, dgd, downloaded, uids, mdCache, pvcCache, jobCache>>
  BY DEF ShimAddFinalizer, ShimUpdateStatus, ShimTerminate, ShimRelease, world
<1>3. /\ \A n \in Names : GraphMoves(n)
      /\ \A n \in Names : JobMoves(n)
      /\ \A c \in Claims : ClaimMoves(c)
  BY <1>2, Stays
<1>4. md \in [Names -> ModelDeployments] /\ md[shimKey] \in ModelDeployments
  BY <1>1 DEF TypeOK
<1>5. shimFresh => /\ Exists(md[shimKey])
                   /\ shimSnap.uid = md[shimKey].uid
                   /\ shimSnap.deleting = md[shimKey].deleting
                   /\ shimSnap.vol = md[shimKey].vol
  BY DEF IInv, FlagsTrue, Incarnations, Older, Exists
<1>6. ASSUME NEW new \in ModelDeployments, ShimStore(new),
             StatusTrue(shimKey, new),
             \/ /\ new.uid = md[shimKey].uid /\ new.vol = md[shimKey].vol
                /\ md[shimKey].fin => new.fin
                /\ md[shimKey].deleting => new.deleting
             \/ ~Exists(new)
      PROVE  \A n \in Names : ObjectMoves(n)
  <2> TAKE n \in Names
  <2>1. CASE n = shimKey
    BY <1>1, <1>2, <1>4, <1>6, <2>1
       DEF ShimStore, ObjectMoves, Evolves, TypeOK
  <2>2. CASE n # shimKey
    BY <1>1, <1>2, <1>4, <1>6, <2>2
       DEF ShimStore, ObjectMoves, Evolves, TypeOK, IInv, DownloadsTrue
  <2> QED BY <2>1, <2>2
<1>7. CASE ShimAddFinalizer
  <2> DEFINE new == [md[shimKey] EXCEPT !.fin = TRUE]
  <2>1. ShimStore(new)
    BY <1>7, Zenon DEF ShimAddFinalizer
  <2>2. /\ new.uid = md[shimKey].uid /\ new.vol = md[shimKey].vol
        /\ new.fin = TRUE /\ new.deleting = md[shimKey].deleting
        /\ new.st = md[shimKey].st
    BY <1>4 DEF ModelDeployments
  <2>3. new \in ModelDeployments
    BY <1>4 DEF ModelDeployments
  <2> HIDE DEF new
  <2>4. StatusTrue(shimKey, new)
    BY <1>1, <2>2 DEF IInv, DownloadsTrue, StatusTrue, Of
  <2>5. PassEnds /\ HistoryMoves /\ UNCHANGED shimKey
    BY <1>1, <1>7, PassSteps, Stays DEF ShimAddFinalizer, Idle, world
  <2> QED BY <1>2, <1>3, <1>6, <2>1, <2>2, <2>3, <2>4, <2>5 DEF Move
<1>8. ASSUME shimFresh, ShimStore([md[shimKey] EXCEPT !.st = shimSnap.st])
      PROVE  /\ \A n \in Names : ObjectMoves(n)
             /\ md'[shimKey].uid = md[shimKey].uid
             /\ md'[shimKey].deleting = md[shimKey].deleting
  <2> DEFINE new == [md[shimKey] EXCEPT !.st = shimSnap.st]
  <2>1. /\ new \in ModelDeployments /\ ShimStore(new)
        /\ new.uid = md[shimKey].uid /\ new.vol = md[shimKey].vol
        /\ new.fin = md[shimKey].fin /\ new.deleting = md[shimKey].deleting
        /\ new.st = shimSnap.st
    BY ZenonT(40), <1>1, <1>4, <1>8, ObjectTypes DEF ModelDeployments
  <2> HIDE DEF new
  <2>2. StatusTrue(shimKey, new)
    BY <1>5, <1>8, <2>1 DEF IInv, DownloadsTrue, StatusTrue, Of
  <2>3. md'[shimKey] = new
    BY <1>1, <1>4, <2>1 DEF ShimStore
  <2> QED BY <1>6, <2>1, <2>2, <2>3
<1>9. CASE ShimUpdateStatus
  <2>1. \A n \in Names : ObjectMoves(n)
    BY <1>8, <1>9 DEF ShimUpdateStatus
  <2>2. PassEnds /\ UNCHANGED shimKey
    BY <1>1, <1>9, PassSteps DEF ShimUpdateStatus, Idle
  <2>3. HistoryMoves
    BY <1>9, Stays DEF ShimUpdateStatus, world
  <2> QED BY <1>2, <1>3, <2>1, <2>2, <2>3 DEF Move
<1>10. CASE ShimTerminate
  <2>1. /\ \A n \in Names : ObjectMoves(n)
        /\ md'[shimKey].uid = md[shimKey].uid
        /\ md'[shimKey].deleting = md[shimKey].deleting
    <3>1. CASE shimFresh
      BY <1>8, <1>10, <3>1 DEF ShimTerminate
    <3>2. CASE ~shimFresh
      BY <1>2, <1>10, <3>2, Stays DEF ShimTerminate
    <3> QED BY <3>1, <3>2
  <2>2. Goto("find", shimSnap.st) /\ Advances("find")
    BY <1>10 DEF ShimTerminate, Step, Advances
  <2>3. PassGoesOn /\ UNCHANGED shimKey
    BY <1>1, <2>1, <2>2, HumbleSnap, PassSteps DEF Goto
  <2>4. HistoryMoves
    BY <1>10, Stays DEF ShimTerminate, world
  <2> QED BY <1>2, <1>3, <2>1, <2>3, <2>4 DEF Move
<1>11. CASE ShimRelease
  <2>1. md[shimKey].deleting
    BY <1>5, <1>11 DEF ShimRelease, IInv, SnapByPc
  <2>2. ShimStore(Absent)
    BY <1>11, <2>1 DEF ShimRelease
  <2>3. Absent \in ModelDeployments /\ StatusTrue(shimKey, Absent)
    BY EmptyTypes, AbsentFields DEF StatusTrue
  <2>4. \A n \in Names : ObjectMoves(n)
    BY <1>6, <2>2, <2>3, AbsentFields
  <2>5. PassEnds /\ UNCHANGED shimKey
    BY <1>1, <1>11, PassSteps DEF ShimRelease, Idle
  <2>6. HistoryMoves
    BY <1>2, <2>5 DEF HistoryMoves, PassEnds
  <2> QED BY <1>2, <1>3, <2>4, <2>5, <2>6 DEF Move
<1> QED BY <1>7, <1>9, <1>10, <1>11

\* Someone other than the shim writes object n.
LEMMA StoreMoves ==
  ASSUME IInv, NEW n \in Names, NEW new \in ModelDeployments, Store(n, new),
         StatusTrue(n, new),
         \/ /\ new.uid = md[n].uid /\ new.vol = md[n].vol
            /\ md[n].fin => new.fin
            /\ md[n].deleting => new.deleting
            /\ UNCHANGED uids
         \/ ~Exists(new) /\ UNCHANGED uids
         \/ /\ ~Exists(md[n]) /\ new.uid = uids[n] + 1
            /\ uids' = [uids EXCEPT ![n] = @ + 1],
         UNCHANGED <<pvc, job, dgd, downloaded, timedOut, mdCache, pvcCache,
                     jobCache, shimPc, shimKey, shimSnap>>
  PROVE  Move
<1> USE DEF IInv
<1>1. \A m \in Names : ObjectMoves(m)
  <2> TAKE m \in Names
  <2>1. CASE m = n
    BY <2>1 DEF Store, ObjectMoves, Evolves, TypeOK
  <2>2. CASE m # n
    BY <2>2 DEF Store, ObjectMoves, Evolves, TypeOK, DownloadsTrue
  <2> QED BY <2>1, <2>2
<1>2. PassGoesOn
  <2>1. shimFresh' => shimFresh /\ md'[shimKey] = md[shimKey]
    BY DEF Store, TypeOK
  <2> QED BY <2>1 DEF PassGoesOn, SameObject
<1> QED BY <1>1, <1>2, Stays DEF Move

\* Someone other than the shim writes graph n.
LEMMA GraphStoreMoves ==
  ASSUME IInv, NEW n \in Names, NEW new, StoreGraph(n, new),
         new.owner \in {dgd[n].owner, Nobody, Stranger},
         UNCHANGED <<md, pvc, job, downloaded, timedOut, uids, caches,
                     shimPc, shimKey, shimSnap, shimFresh>>
  PROVE  Move
<1>1. \A m \in Names : GraphMoves(m)
  BY DEF IInv, TypeOK, StoreGraph, GraphMoves
<1> QED BY <1>1, Stays DEF Move, caches

\* The Jobs and claims the cluster and the users change.
LEMMA StorageMoves ==
  ASSUME IInv,
         \/ /\ UNCHANGED <<job, downloaded>>
            /\ \E c \in Claims :
                 \/ pvc' = [pvc EXCEPT ![c] = DeletedPvc(c)]
                 \/ pvc' = [pvc EXCEPT ![c] = NoPvc]
                 \/ \E x \in PvcPhases : pvc' = [pvc EXCEPT ![c].phase = x]
         \/ /\ UNCHANGED pvc
            /\ \E n \in Names :
                 \/ job' = [job EXCEPT ![n] = NoJob] /\ UNCHANGED downloaded
                 \/ /\ job' = [job EXCEPT ![n].state = "Complete"]
                    /\ downloaded' = downloaded \cup {job[n].owner}
                 \/ /\ \E x \in JobStates \ {"Complete"} :
                         job' = [job EXCEPT ![n].state = x]
                    /\ UNCHANGED downloaded
         \/ UNCHANGED <<pvc, job, downloaded>>,
         UNCHANGED <<md, dgd, uids, caches, shimPc, shimKey, shimSnap, shimFresh>>,
         \A n \in Names : timedOut[n] => timedOut'[n]
  PROVE  Move
<1> USE DEF IInv
<1>1. /\ TypeOK /\ NoPvc.owner = Nobody /\ NoJob.owner = Nobody
      /\ NoJob.state # "Complete"
      /\ shimKey \in Names /\ shimSnap \in ModelDeployments
  BY DEF NoPvc, NoJob, TypeOK
<1>2. \A c \in Claims : ClaimMoves(c)
  <2> TAKE c \in Claims
  <2>1. CASE UNCHANGED pvc
    BY <2>1 DEF ClaimMoves
  <2>2. ASSUME NEW d \in Claims,
               \/ pvc' = [pvc EXCEPT ![d] = DeletedPvc(d)]
               \/ pvc' = [pvc EXCEPT ![d] = NoPvc]
        PROVE  ClaimMoves(c)
    <3>1. DeletedPvc(d).owner \in {Nobody, pvc[d].owner}
      BY <1>1, ResourceTypes
    <3> QED BY <1>1, <2>2, <3>1 DEF ClaimMoves, TypeOK
  <2>3. ASSUME NEW d \in Claims, NEW x \in PvcPhases,
               pvc' = [pvc EXCEPT ![d].phase = x]
        PROVE  ClaimMoves(c)
    BY <1>1, <2>3 DEF ClaimMoves, TypeOK, Pvcs
  <2> QED BY <2>1, <2>2, <2>3
<1>3. \A n \in Names : JobMoves(n)
  <2> TAKE n \in Names
  <2>1. CASE UNCHANGED <<job, downloaded>>
    BY <2>1 DEF JobMoves, DownloadsTrue
  <2>2. ASSUME NEW m \in Names,
               job' = [job EXCEPT ![m] = NoJob], UNCHANGED downloaded
        PROVE  JobMoves(n)
    BY <1>1, <2>2 DEF JobMoves, DownloadsTrue, TypeOK
  <2>3. ASSUME NEW m \in Names,
               job' = [job EXCEPT ![m].state = "Complete"],
               downloaded' = downloaded \cup {job[m].owner}
        PROVE  JobMoves(n)
    <3>1. CASE n = m
      BY <1>1, <2>3, <3>1 DEF JobMoves, TypeOK, Jobs
    <3>2. CASE n # m
      BY <1>1, <2>3, <3>2 DEF JobMoves, TypeOK, DownloadsTrue
    <3> QED BY <3>1, <3>2
  <2>4. ASSUME NEW m \in Names, NEW x \in JobStates \ {"Complete"},
               job' = [job EXCEPT ![m].state = x], UNCHANGED downloaded
        PROVE  JobMoves(n)
    <3>1. CASE n = m
      BY <1>1, <2>4, <3>1 DEF JobMoves, TypeOK, Jobs
    <3>2. CASE n # m
      BY <1>1, <2>4, <3>2 DEF JobMoves, TypeOK, DownloadsTrue
    <3> QED BY <3>1, <3>2
  <2> QED BY <2>1, <2>2, <2>3, <2>4
<1>4. HistoryMoves
  BY DEF HistoryMoves
<1>5. UNCHANGED <<md, uids, mdCacheFresh, dgd, shimPc, shimSnap, shimFresh>>
  BY DEF caches
<1> QED BY <1>2, <1>3, <1>4, <1>5, Stays DEF Move, caches

LEMMA ClusterMoves ==
  ASSUME IInv, TypeOK', Cluster \/ OperatorUp PROVE Move
<1> USE DEF api, world, caches, pass
<1>1. TypeOK
  BY DEF IInv
<1>2. ASSUME NEW c \in Claims, CollectPvc(c) \/ PvcBind(c) \/ PvcUnprotect(c)
      PROVE  Move
  BY <1>2, StorageMoves DEF CollectPvc, PvcBind, PvcUnprotect, PvcPhases
<1>3. ASSUME NEW n \in Names, CollectJob(n) \/ JobComplete(n) PROVE Move
  BY <1>3, StorageMoves DEF CollectJob, JobComplete
<1>4. ASSUME NEW n \in Names, CollectGraph(n) \/ GraphFinalize(n) PROVE Move
  <2>1. PICK g : StoreGraph(n, g) /\ g.owner \in {dgd[n].owner, Nobody}
    <3>1. /\ DeletedDgd(dgd[n]).owner \in {Nobody, dgd[n].owner}
          /\ NoDgd.owner = Nobody
      BY <1>1, ResourceTypes DEF TypeOK, NoDgd
    <3> QED BY <1>4, <3>1 DEF CollectGraph, GraphFinalize
  <2> QED BY <1>4, <2>1, GraphStoreMoves DEF CollectGraph, GraphFinalize
<1>5. ASSUME NEW n \in Names, GraphProgress(n) PROVE Move
  <2>1. PICK g : StoreGraph(n, g) /\ g.owner = dgd[n].owner
    BY <1>1, <1>5 DEF GraphProgress, TypeOK, Dgds
  <2> QED BY <1>5, <2>1, GraphStoreMoves DEF GraphProgress
<1>6. ASSUME NEW n \in Names, FinalizerTimeout(n) PROVE Move
  <2>1. \A m \in Names : timedOut[m] => timedOut'[m]
    BY <1>1, <1>6 DEF FinalizerTimeout, TypeOK
  <2> QED BY <1>6, <2>1, StorageMoves DEF FinalizerTimeout
<1>7. ASSUME NEW n \in Names, CoreBind(n) PROVE Move
  <2> DEFINE new == [md[n] EXCEPT !.bound = TRUE]
  <2>1. Store(n, new)
    BY <1>7, Zenon DEF CoreBind
  <2>2. new \in ModelDeployments
    BY <1>1, ObjectTypes DEF TypeOK
  <2>3. /\ new.uid = md[n].uid /\ new.vol = md[n].vol /\ new.fin = md[n].fin
        /\ new.deleting = md[n].deleting /\ new.st = md[n].st
    BY <1>1 DEF TypeOK, ModelDeployments
  <2> HIDE DEF new
  <2>4. StatusTrue(n, new)
    BY <2>3 DEF IInv, DownloadsTrue, StatusTrue, Of
  <2> QED BY <1>7, <2>1, <2>2, <2>3, <2>4, StoreMoves DEF CoreBind
<1>8. CASE OperatorUp
  BY <1>8, StorageMoves DEF OperatorUp
<1> QED BY <1>2, <1>3, <1>4, <1>5, <1>6, <1>7, <1>8 DEF Cluster

LEMMA UsersMove ==
  ASSUME IInv, TypeOK',
         \/ \E n \in Names : \/ UserCreate(n) \/ UserEdit(n) \/ UserPause(n)
                             \/ UserDelete(n) \/ UserDeleteJob(n)
                             \/ UserDeleteGraph(n) \/ UserCreateGraph(n)
         \/ \E c \in Claims : UserDeletePvc(c)
         \/ Degrade \/ OperatorDown
  PROVE  Move
<1> USE DEF api, caches, pass, rest
<1>1. TypeOK
  BY DEF IInv
<1>2. ASSUME NEW n \in Names, UserCreate(n) PROVE Move
  <2>1. PICK v \in Volumes : Store(n, NewMD(uids[n] + 1, v))
    BY <1>2 DEF UserCreate
  <2> DEFINE new == NewMD(uids[n] + 1, v)
  <2>2. uids[n] + 1 \in 0..MaxUid
    BY <1>1, <1>2, Constants DEF UserCreate, TypeOK
  <2>3. new \in ModelDeployments /\ new.uid = uids[n] + 1
        /\ new.st.down = "Unknown"
    BY <2>2, EmptyTypes DEF NewMD, EmptyStatus
  <2>4. Store(n, new)
    BY <2>1
  <2> HIDE DEF new
  <2>5. StatusTrue(n, new)
    BY <2>3 DEF StatusTrue
  <2> QED BY <1>2, <2>3, <2>4, <2>5, StoreMoves DEF UserCreate
<1>3. ASSUME NEW n \in Names, NEW new \in ModelDeployments, Store(n, new),
             new.uid = md[n].uid, new.vol = md[n].vol, new.fin = md[n].fin,
             md[n].deleting => new.deleting, new.st = md[n].st,
             UNCHANGED <<rest, uids>>
      PROVE  Move
  <2>1. StatusTrue(n, new)
    BY <1>3 DEF IInv, DownloadsTrue, StatusTrue, Of
  <2> QED BY <1>3, <2>1, StoreMoves
<1>4. ASSUME NEW n \in Names, UserEdit(n) PROVE Move
  <2>1. PICK s \in Shapes : Store(n, [md[n] EXCEPT !.shape = s, !.gen = @ + 1])
    BY <1>4 DEF UserEdit
  <2> DEFINE new == [md[n] EXCEPT !.shape = s, !.gen = @ + 1]
  <2>2. new \in ModelDeployments
    BY <1>1, <1>4, ObjectTypes DEF UserEdit, TypeOK
  <2>3. /\ new.uid = md[n].uid /\ new.vol = md[n].vol /\ new.fin = md[n].fin
        /\ new.deleting = md[n].deleting /\ new.st = md[n].st
    BY <1>1 DEF TypeOK, ModelDeployments
  <2>4. Store(n, new) /\ UNCHANGED <<rest, uids>>
    BY <1>4, <2>1 DEF UserEdit
  <2> HIDE DEF new
  <2> QED BY <1>3, <2>2, <2>3, <2>4
<1>5. ASSUME NEW n \in Names, UserPause(n) PROVE Move
  <2> DEFINE new == [md[n] EXCEPT !.paused = ~@]
  <2>1. Store(n, new) /\ UNCHANGED <<rest, uids>>
    BY <1>5, Zenon DEF UserPause
  <2>2. new \in ModelDeployments
    BY <1>1, ObjectTypes DEF TypeOK
  <2>3. /\ new.uid = md[n].uid /\ new.vol = md[n].vol /\ new.fin = md[n].fin
        /\ new.deleting = md[n].deleting /\ new.st = md[n].st
    BY <1>1 DEF TypeOK, ModelDeployments
  <2> HIDE DEF new
  <2> QED BY <1>3, <2>1, <2>2, <2>3
<1>6. ASSUME NEW n \in Names, UserDelete(n) PROVE Move
  <2>1. UNCHANGED <<rest, uids>>
    BY <1>6 DEF UserDelete
  <2>2. CASE md[n].fin
    <3> DEFINE new == [md[n] EXCEPT !.deleting = TRUE]
    <3>1. Store(n, new)
      BY <1>6, <2>2, Zenon DEF UserDelete
    <3>2. new \in ModelDeployments
      BY <1>1, ObjectTypes DEF TypeOK
    <3>3. /\ new.uid = md[n].uid /\ new.vol = md[n].vol /\ new.fin = md[n].fin
          /\ new.deleting = TRUE /\ new.st = md[n].st
      BY <1>1 DEF TypeOK, ModelDeployments
    <3> HIDE DEF new
    <3> QED BY <1>3, <2>1, <3>1, <3>2, <3>3
  <2>3. CASE ~md[n].fin
    <3>1. Store(n, Absent)
      BY <1>6, <2>3 DEF UserDelete
    <3>2. StatusTrue(n, Absent)
      BY AbsentFields DEF StatusTrue
    <3> QED BY <2>1, <3>1, <3>2, AbsentFields, EmptyTypes, StoreMoves
  <2> QED BY <2>2, <2>3
<1>7. ASSUME NEW n \in Names, UserDeleteJob(n) PROVE Move
  BY <1>7, StorageMoves DEF UserDeleteJob
<1>8. ASSUME NEW n \in Names, UserDeleteGraph(n) \/ UserCreateGraph(n) PROVE Move
  <2>1. PICK g : StoreGraph(n, g) /\ g.owner \in {dgd[n].owner, Nobody, Stranger}
    <3>1. DeletedDgd(dgd[n]).owner \in {Nobody, dgd[n].owner}
      BY <1>1, ResourceTypes DEF TypeOK
    <3>2. [NoDgd EXCEPT !.owner = Stranger].owner = Stranger
      BY DEF NoDgd
    <3> QED BY <1>8, <3>1, <3>2 DEF UserDeleteGraph, UserCreateGraph
  <2> QED BY <1>8, <2>1, GraphStoreMoves DEF UserDeleteGraph, UserCreateGraph
<1>9. ASSUME NEW c \in Claims, UserDeletePvc(c) PROVE Move
  BY <1>9, StorageMoves DEF UserDeletePvc
<1>10. CASE Degrade
  <2>1. CASE \E n \in Names :
               StoreGraph(n, [dgd[n] EXCEPT !.state = "Failed"])
             /\ UNCHANGED <<pvc, job>>
    <3>1. PICK n \in Names : StoreGraph(n, [dgd[n] EXCEPT !.state = "Failed"])
      BY <2>1
    <3>2. PICK g : g = [dgd[n] EXCEPT !.state = "Failed"]
      OBVIOUS
    <3>3. StoreGraph(n, g) /\ g.owner = dgd[n].owner
      BY <1>1, <3>1, <3>2 DEF TypeOK, Dgds
    <3> QED BY <1>10, <2>1, <3>3, GraphStoreMoves DEF Degrade
  <2>2. CASE /\ \E c \in Claims : pvc' = [pvc EXCEPT ![c].phase = "Lost"]
             /\ UNCHANGED <<job, dgd>>
    BY <1>10, <2>2, StorageMoves DEF Degrade, PvcPhases
  <2>3. CASE /\ \E n \in Names :
                  job' = [job EXCEPT ![n].state = IF @ = "Active" THEN "LastTry"
                                                  ELSE "Failed"]
             /\ UNCHANGED <<pvc, dgd>>
    <3>1. PICK n \in Names, x \in JobStates \ {"Complete"} :
            job' = [job EXCEPT ![n].state = x]
      BY <2>3 DEF JobStates
    <3> QED BY <1>10, <2>3, <3>1, StorageMoves DEF Degrade
  <2> QED BY <1>10, <2>1, <2>2, <2>3 DEF Degrade
<1>11. CASE OperatorDown
  BY <1>11, StorageMoves DEF OperatorDown
<1> QED BY <1>2, <1>4, <1>5, <1>6, <1>7, <1>8, <1>9, <1>10, <1>11

-----------------------------------------------------------------------------
(* Deliveries, the start of a pass, a restart *)

LEMMA DeliveriesKeep == ASSUME IInv, TypeOK', Deliver PROVE IInv'
<1> USE DEF IInv
<1>1. UNCHANGED <<md, pvc, job, dgd, downloaded, timedOut, uids, shimPc,
                  shimKey, shimSnap, shimFresh>>
  BY DEF Deliver, DeliverMD, DeliverPvc, DeliverJob, api, world, pass
<1>2. \A n \in Names :
        /\ mdCache'[n] \in {mdCache[n], md[n]}
        /\ mdCacheFresh'[n] => mdCacheFresh[n] \/ mdCache'[n] = md[n]
        /\ mdCacheFresh[n] => mdCache'[n] = mdCache[n]
        /\ jobCache'[n] \in {jobCache[n], job[n]}
  BY DEF Deliver, DeliverMD, DeliverPvc, DeliverJob, TypeOK
<1>3. \A c \in Claims : pvcCache'[c] \in {pvcCache[c], pvc[c]}
  BY DEF Deliver, DeliverMD, DeliverPvc, DeliverJob, TypeOK
<1>4. ASSUME NEW n \in Names
      PROVE  Older(mdCache'[n], md[n], uids[n])
  <2>1. md[n].uid \in Nat /\ uids[n] \in Nat
    BY Uids, Constants
  <2>2. Older(md[n], md[n], uids[n])
    BY <2>1 DEF Incarnations, Older
  <2> QED BY <1>2, <2>2 DEF Incarnations
<1>5. ASSUME NEW x, Known(x), x.uid \in Nat PROVE Known(x)'
  <2> SUFFICES ASSUME x.name \in Names, Exists(mdCache'[x.name])
               PROVE  x.uid <= mdCache'[x.name].uid
    BY <1>1, <1>5 DEF Known
  <2>1. CASE mdCache'[x.name] = mdCache[x.name]
    BY <1>5, <2>1 DEF Known
  <2>2. CASE mdCache'[x.name] = md[x.name]
    BY <1>5, <2>2 DEF Known, Incarnations, Exists
  <2> QED BY <1>2, <2>1, <2>2
<1>6. Incarnations'
  <2>1. Exists(mdCache'[shimKey]) => shimSnap.uid <= mdCache'[shimKey].uid
    <3>1. shimKey \in Names
      BY DEF TypeOK
    <3>2. CASE mdCache'[shimKey] = mdCache[shimKey]
      BY <3>2 DEF Incarnations
    <3>3. CASE mdCache'[shimKey] = md[shimKey]
      BY <3>1, <3>3 DEF Incarnations, Older, Exists
    <3> QED BY <1>2, <3>1, <3>2, <3>3
  <2> QED BY <1>1, <1>4, <2>1 DEF Incarnations
<1>7. FlagsTrue'
  BY <1>1, <1>2 DEF FlagsTrue
<1>8. SnapByPc'
  BY <1>1 DEF SnapByPc
<1>9. OwnersKnown'
  <2>1. \A x \in Owners : x.uid \in Nat
    BY Constants DEF Owners
  <2>2. \A x \in downloaded' : Known(x)'
    BY <1>1, <1>5, <2>1 DEF OwnersKnown, TypeOK
  <2>3. ASSUME NEW n \in Names PROVE Known(job[n].owner)' /\ Known(dgd[n].owner)'
    <3>1. PICK x, y : x = job[n].owner /\ y = dgd[n].owner
      OBVIOUS
    <3>2. Known(x) /\ Known(y) /\ x.uid \in Nat /\ y.uid \in Nat
      BY <2>1, <3>1, Uids DEF OwnersKnown
    <3> QED BY <1>1, <1>5, <3>1, <3>2 DEF Known
  <2>4. ASSUME NEW c \in Claims
        PROVE  Known(pvc[c].owner)' /\ Known(pvcCache[c].owner)'
    <3>1. PICK x, y : x = pvc[c].owner /\ y = pvcCache'[c].owner
      OBVIOUS
    <3>2. Known(x) /\ Known(y) /\ x.uid \in Nat /\ y.uid \in Nat
      BY <1>3, <2>1, <3>1, Uids DEF OwnersKnown
    <3> QED BY <1>1, <1>5, <3>1, <3>2 DEF Known
  <2> QED BY <2>2, <2>3, <2>4 DEF OwnersKnown
<1>10. DownloadsTrue'
  <2>1. ASSUME NEW n \in Names
        PROVE  /\ jobCache'[n].state = "Complete" =>
                    jobCache'[n].owner \in downloaded
               /\ StatusTrue(n, mdCache'[n])
    BY <1>2 DEF DownloadsTrue
  <2> QED BY <1>1, <2>1 DEF DownloadsTrue, StatusTrue, me
<1>11. GraphInPlace'
  BY <1>1 DEF GraphInPlace, me
<1> QED BY <1>6, <1>7, <1>8, <1>9, <1>10, <1>11

LEMMA RestartKeeps == ASSUME IInv, TypeOK', ShimRestart PROVE IInv'
<1> USE DEF IInv
<1>1. /\ UNCHANGED <<md, pvc, job, dgd, downloaded, timedOut, uids, shimKey>>
      /\ mdCache' = md /\ pvcCache' = pvc /\ jobCache' = job
      /\ shimPc' = "idle" /\ shimSnap' = Absent /\ ~shimFresh'
  BY DEF ShimRestart, api
<1>2. \A n \in Names : md[n].uid \in Nat /\ uids[n] \in Nat
  BY Uids, Constants
<1>3. Incarnations'
  <2>1. \A n \in Names : Older(md[n], md[n], uids[n])
    BY <1>2 DEF Incarnations, Older
  <2>2. shimKey \in Names
    BY DEF TypeOK
  <2>3. Older(Absent, md[shimKey], uids[shimKey])
    BY <1>2, <2>2, AbsentFields DEF Older
  <2> QED BY <1>1, <1>2, <2>1, <2>2, <2>3, AbsentFields DEF Incarnations
<1>4. FlagsTrue'
  BY <1>1 DEF FlagsTrue
<1>5. SnapByPc'
  BY <1>1 DEF SnapByPc, StoragePcs, GraphPcs, DeletionPcs, CleanPcs
<1>6. OwnersKnown'
  <2>1. ASSUME NEW x, Known(x) PROVE Known(x)'
    BY <1>1, <2>1, AbsentFields DEF Known, Incarnations, Exists
  <2>2. \A x \in downloaded' : Known(x)'
    BY <1>1, <2>1 DEF OwnersKnown
  <2>3. ASSUME NEW n \in Names PROVE Known(job[n].owner)' /\ Known(dgd[n].owner)'
    <3>1. PICK x, y : x = job[n].owner /\ y = dgd[n].owner
      OBVIOUS
    <3>2. Known(x) /\ Known(y)
      BY <3>1 DEF OwnersKnown
    <3> QED BY <1>1, <2>1, <3>1, <3>2 DEF Known
  <2>4. ASSUME NEW c \in Claims
        PROVE  Known(pvc[c].owner)' /\ Known(pvcCache[c].owner)'
    <3>1. PICK x : x = pvc[c].owner
      OBVIOUS
    <3>2. Known(x)
      BY <3>1 DEF OwnersKnown
    <3> QED BY <1>1, <2>1, <3>1, <3>2 DEF Known
  <2> QED BY <2>2, <2>3, <2>4 DEF OwnersKnown
<1>7. DownloadsTrue'
  BY <1>1, AbsentFields DEF DownloadsTrue, StatusTrue, GraphPcs
<1>8. GraphInPlace'
  BY <1>1 DEF GraphInPlace, CleanPcs
<1> QED BY <1>3, <1>4, <1>5, <1>6, <1>7, <1>8

\* A pass starts on the object the cache shows, or does not start.
LEMMA ReconcileKeeps == ASSUME IInv, TypeOK', ShimReconcile PROVE IInv'
<1> USE DEF IInv
<1>1. UNCHANGED <<md, pvc, job, dgd, downloaded, timedOut, uids, mdCache,
                  mdCacheFresh, pvcCache, jobCache>>
  BY DEF ShimReconcile, api, world, caches
<1>2. shimPc = "idle" /\ shimSnap = Absent /\ ~shimFresh
  BY DEF ShimReconcile, SnapByPc
<1>3. PICK n \in Names :
        /\ shimKey' = n
        /\ IF Assigned(mdCache[n]) /\ (mdCache[n].deleting => mdCache[n].fin)
           THEN LET r == Route(n, mdCache[n])
                IN  /\ shimPc' = r.pc
                    /\ shimSnap' = [mdCache[n] EXCEPT !.st = r.st]
                    /\ shimFresh' = mdCacheFresh[n]
           ELSE UNCHANGED <<shimPc, shimSnap, shimFresh>>
  BY DEF ShimReconcile, TypeOK
<1> DEFINE o == mdCache[n]
<1>4. /\ o \in ModelDeployments /\ o.uid \in Nat /\ uids[n] \in Nat
      /\ Older(o, md[n], uids[n])
  BY Uids, Constants DEF TypeOK, Incarnations
<1> HIDE DEF o
<1>5. ASSUME NEW x, Known(x), x.uid \in Nat, shimSnap'.uid \in {0, o.uid}
      PROVE  Known(x)'
  BY <1>1, <1>3, <1>5 DEF Known, Exists, o
<1>6. ASSUME shimSnap'.uid \in {0, o.uid} PROVE OwnersKnown'
  <2>1. \A x \in Owners : x.uid \in Nat
    BY Constants DEF Owners
  <2>2. \A x \in downloaded' : Known(x)'
    BY <1>1, <1>5, <1>6, <2>1 DEF OwnersKnown, TypeOK
  <2>3. ASSUME NEW m \in Names PROVE Known(job[m].owner)' /\ Known(dgd[m].owner)'
    <3>1. PICK x, y : x = job[m].owner /\ y = dgd[m].owner
      OBVIOUS
    <3>2. Known(x) /\ Known(y) /\ x.uid \in Nat /\ y.uid \in Nat
      BY <2>1, <3>1, Uids DEF OwnersKnown
    <3> QED BY <1>1, <1>5, <1>6, <3>1, <3>2 DEF Known
  <2>4. ASSUME NEW c \in Claims
        PROVE  Known(pvc[c].owner)' /\ Known(pvcCache[c].owner)'
    <3>1. PICK x, y : x = pvc[c].owner /\ y = pvcCache[c].owner
      OBVIOUS
    <3>2. Known(x) /\ Known(y) /\ x.uid \in Nat /\ y.uid \in Nat
      BY <2>1, <3>1, Uids DEF OwnersKnown
    <3> QED BY <1>1, <1>5, <1>6, <3>1, <3>2 DEF Known
  <2> QED BY <2>2, <2>3, <2>4 DEF OwnersKnown
<1>7. CASE Assigned(o) /\ (o.deleting => o.fin)
  <2>1. PICK pc, st : pc = Route(n, o).pc /\ st = Route(n, o).st
    OBVIOUS
  <2>2. Routed(n, o, pc, st)
    BY <1>4, <2>1, RouteFacts
  <2>3. /\ shimPc' = pc /\ shimSnap' = [o EXCEPT !.st = st]
        /\ shimFresh' = mdCacheFresh[n]
    BY <1>3, <1>7, <2>1 DEF o
  <2>4. /\ SameObject(o, shimSnap') /\ shimSnap'.st = st /\ Exists(o)
    BY <1>4, <1>7, <2>2, <2>3, ObjectTypes
       DEF Routed, ModelDeployments, Assigned
  <2>5. Incarnations'
    <3>1. Older(shimSnap', md[n], uids[n])
      BY <1>4, <2>4 DEF Older, SameObject, Exists
    <3>2. shimSnap'.uid <= o.uid
      BY <1>4, <2>4 DEF SameObject
    <3> QED BY <1>1, <1>3, <3>1, <3>2 DEF Incarnations, o
  <2>6. FlagsTrue'
    BY <1>1, <1>3, <2>3, <2>4 DEF FlagsTrue, SameObject, Exists, o
  <2>7. SnapByPc'
    BY <2>2, <2>3, <2>4
       DEF SnapByPc, Routed, SameObject, Exists, StoragePcs, GraphPcs,
           DeletionPcs, CleanPcs
  <2>8. OwnersKnown'
    BY <1>6, <2>4 DEF SameObject
  <2>9. SeenComplete(n, o) => Of(n, o) \in downloaded
    BY DEF SeenComplete, DownloadsTrue
  <2>10. DownloadsTrue'
    <3>1. me' = Of(n, o) /\ Of(n, shimSnap') = Of(n, o)
      BY <1>3, <2>4 DEF me, Of, SameObject
    <3>2. StatusTrue(n, shimSnap')
      <4>1. StatusTrue(n, o)
        BY DEF DownloadsTrue, o
      <4> QED BY <2>2, <2>4, <2>9, <3>1, <4>1
              DEF Routed, StatusTrue, SameObject
    <3>3. pc \in GraphPcs /\ o.vol # "none" => Of(n, o) \in downloaded
      BY <2>2, <2>9 DEF Routed, GraphPcs, StoragePcs
    <3>4. \A m \in Names :
            /\ job'[m].state = "Complete" => job'[m].owner \in downloaded'
            /\ jobCache'[m].state = "Complete" => jobCache'[m].owner \in downloaded'
            /\ StatusTrue(m, md[m])' /\ StatusTrue(m, mdCache[m])'
      BY <1>1 DEF DownloadsTrue, StatusTrue
    <3>5. StatusTrue(shimKey, shimSnap)'
      BY <1>1, <1>3, <3>2 DEF StatusTrue
    <3>6. (shimPc \in GraphPcs /\ shimSnap.vol # "none" => me \in downloaded)'
      BY <1>1, <2>3, <2>4, <3>1, <3>3 DEF SameObject
    <3> QED BY <3>4, <3>5, <3>6 DEF DownloadsTrue
  <2>11. GraphInPlace'
    BY <1>1, <2>2, <2>3
       DEF GraphInPlace, Routed, CleanPcs, StoragePcs
  <2> QED BY <2>5, <2>6, <2>7, <2>8, <2>10, <2>11
<1>8. CASE ~(Assigned(o) /\ (o.deleting => o.fin))
  <2>1. shimPc' = "idle" /\ shimSnap' = Absent /\ ~shimFresh'
    BY <1>2, <1>3, <1>8 DEF o
  <2>2. Incarnations'
    <3>1. Older(Absent, md[n], uids[n]) /\ Absent.uid <= o.uid
      BY <1>4, AbsentFields DEF Older
    <3> QED BY <1>1, <1>3, <2>1, <3>1 DEF Incarnations, o
  <2>3. FlagsTrue' /\ SnapByPc'
    BY <1>1, <2>1 DEF FlagsTrue, SnapByPc, StoragePcs, GraphPcs, DeletionPcs,
                      CleanPcs
  <2>4. OwnersKnown'
    BY <1>6, <2>1, AbsentFields
  <2>5. DownloadsTrue' /\ GraphInPlace'
    BY <1>1, <2>1, AbsentFields
       DEF DownloadsTrue, StatusTrue, GraphPcs, GraphInPlace, CleanPcs
  <2> QED BY <2>2, <2>3, <2>4, <2>5
<1> QED BY <1>7, <1>8

-----------------------------------------------------------------------------
(* The theorems *)

LEMMA InvInit == Init => IInv
<1> SUFFICES ASSUME Init PROVE IInv
  OBVIOUS
<1>1. TypeOK
  BY TypeInit
<1>2. /\ \A n \in Names : /\ md[n].uid = 1 /\ uids[n] = 1
                          /\ md[n].st.down = "Unknown"
                          /\ mdCache[n] = Absent /\ ~mdCacheFresh[n]
                          /\ job[n] = NoJob /\ jobCache[n] = NoJob
                          /\ dgd[n] = NoDgd
      /\ shimPc = "idle" /\ shimKey \in Names /\ shimSnap = Absent
      /\ ~shimFresh /\ downloaded = {}
  <2>1. \A n \in Names : md[n].uid = 1 /\ md[n].st.down = "Unknown"
    <3>1. PICK v : md = [n \in Names |-> NewMD(1, v[n])]
      BY DEF Init
    <3> QED BY <3>1 DEF NewMD, EmptyStatus
  <2> QED BY <2>1, Constants DEF Init
<1>3. \A c \in Claims : /\ pvc[c].owner \in {Nobody, Stranger}
                        /\ pvcCache[c].owner \in {Nobody, Stranger}
  BY DEF Init, NoPvc, StrangersPvc
<1>4. /\ NoJob.owner = Nobody /\ NoJob.state # "Complete" /\ NoDgd.owner = Nobody
      /\ Known(Nobody) /\ Known(Stranger)
      /\ \A n \in Names : \A o : Of(n, o) # Nobody
  BY Constants DEF NoJob, NoDgd, Known, Nobody, Stranger, Of
<1>5. Incarnations
  BY <1>2, AbsentFields DEF Incarnations, Older
<1>6. FlagsTrue /\ SnapByPc
  BY <1>2 DEF FlagsTrue, SnapByPc, StoragePcs, GraphPcs, DeletionPcs, CleanPcs
<1>7. OwnersKnown
  BY <1>2, <1>3, <1>4 DEF OwnersKnown
<1>8. DownloadsTrue
  BY <1>2, <1>4, AbsentFields DEF DownloadsTrue, StatusTrue, GraphPcs
<1>9. GraphInPlace
  BY <1>2, <1>4 DEF GraphInPlace, CleanPcs
<1> QED BY <1>1, <1>5, <1>6, <1>7, <1>8, <1>9 DEF IInv

\* Every step is one of the four kinds.
LEMMA StepKinds ==
  ASSUME IInv, TypeOK', [Next]_vars
  PROVE  Move \/ Deliver \/ ShimReconcile \/ ShimRestart
<1>1. CASE UNCHANGED vars
  <2>1. UNCHANGED <<md, pvc, job, dgd, downloaded, timedOut, uids, mdCache,
                    mdCacheFresh, pvcCache, jobCache, shimPc, shimKey,
                    shimSnap, shimFresh>>
    BY <1>1 DEF vars, api, world, caches, pass
  <2> QED BY <2>1, Stays DEF Move
<1>2. CASE ShimStep
  BY <1>2, ReadsMove, ResourceWritesMove, ObjectWritesMove DEF ShimStep
<1>3. CASE Cluster \/ OperatorUp
  BY <1>3, ClusterMoves
<1>4. CASE Environment
  <2>1. CASE ShimFault
    BY <2>1, ReadsMove, ResourceWritesMove DEF ShimFault
  <2> QED BY <1>4, <2>1, UsersMove DEF Environment
<1> QED BY <1>1, <1>2, <1>3, <1>4 DEF Next

LEMMA InvStep == IInv /\ [Next]_vars => IInv'
<1> SUFFICES ASSUME IInv, [Next]_vars PROVE IInv'
  OBVIOUS
<1>1. TypeOK'
  BY TypeStep DEF IInv
<1> QED BY <1>1, StepKinds, MoveKeeps, DeliveriesKeep, ReconcileKeeps,
           RestartKeeps

\* Every variable of the Dynamo shim's model stays within its type.
THEOREM TypeCorrect == Spec => []TypeOK
<1> QED BY TypeInit, TypeStep, PTL DEF Spec

LEMMA Inductive == Spec => []IInv
<1> QED BY InvInit, InvStep, PTL DEF Spec

\* However the caches of objects, claims and Jobs lag, and whatever earlier
\* incarnations left behind: a graph of an object with a model cache, and its
\* condition ModelDownloaded, come after a completed download of this very
\* incarnation.
THEOREM DownloadedFirstHolds == Spec => []DownloadedFirst
<1>1. IInv => DownloadedFirst
  BY DEF IInv, DownloadsTrue, StatusTrue, GraphInPlace, DownloadedFirst
<1> QED BY <1>1, Inductive, PTL

\* The clean-up of a pass, stale or not, touches Jobs and claims only once the
\* graph of its incarnation is gone.
THEOREM GraphGoesFirstHolds == Spec => GraphGoesFirst
<1>1. IInv /\ [Next]_vars =>
        [(/\ shimPc \in {"cleanJobs", "cleanPvcs", "cleanPvcsFailed"}
          /\ shimPc' # shimPc
          /\ pvc' # pvc \/ job' # job) => dgd[shimKey].owner # me]_vars
  BY DEF IInv, GraphInPlace, CleanPcs
<1> QED BY <1>1, Inductive, PTL DEF Spec, GraphGoesFirst

-----------------------------------------------------------------------------
(* Downloads are kept when no two objects resolve to one claim *)

\* What the invariant says of a download that has begun.
LEMMA StartedKnown ==
  ASSUME IInv, NEW n \in Names, NEW u \in Nat, u # 0, Started(n, u)
  PROVE  /\ u <= uids[n]
         /\ shimKey = n /\ Exists(shimSnap) => u <= shimSnap.uid
<1> USE DEF IInv
<1> DEFINE x == [name |-> n, uid |-> u]
<1>1. CASE x \in downloaded \/ job[n].owner = x
  <2>1. Known(x) /\ x.name = n /\ x.uid = u
    BY <1>1 DEF OwnersKnown
  <2> HIDE DEF x
  <2> QED BY <2>1 DEF Known
<1>2. CASE shimPc = "jobCreate" /\ shimKey = n /\ shimSnap.uid = u
  BY <1>2 DEF Incarnations, Older
<1> QED BY <1>1, <1>2 DEF Started

\* No step but the start of a pass is the first of a download.
LEMMA StartedBefore ==
  ASSUME IInv, OwnResources, Move \/ Deliver \/ ShimRestart,
         NEW n \in Names, NEW u, u # 0, Started(n, u)'
  PROVE  Started(n, u)
<1> DEFINE x == [name |-> n, uid |-> u]
<1>1. x \in downloaded' \/ job'[n].owner = x
      \/ (shimPc' = "jobCreate" /\ shimKey' = n /\ shimSnap'.uid = u)
  BY DEF Started
<1>2. SUFFICES ASSUME ~(x \in downloaded), job[n].owner # x
               PROVE  shimPc = "jobCreate" /\ shimKey = n /\ shimSnap.uid = u
  BY DEF Started
<1>3. x # Nobody
  BY DEF Nobody
<1>4. CASE Move
  <2>1. x \notin downloaded'
    <3>1. ASSUME NEW m \in Names, x = job[m].owner PROVE FALSE
      <4>1. m # n /\ x.name = n
        BY <1>2, <3>1
      <4>2. x.name = m
        BY <1>3, <3>1 DEF OwnResources
      <4> QED BY <4>1, <4>2
    <3> HIDE DEF x
    <3> QED BY <1>2, <1>4, <3>1 DEF Move, HistoryMoves
  <2>2. CASE job'[n].owner = x
    <3>1. n = shimKey /\ shimPc = "jobCreate" /\ x = me
      BY <1>2, <1>3, <1>4, <2>2 DEF Move, JobMoves
    <3>2. shimSnap.uid = u
      BY <3>1 DEF me, Of
    <3> QED BY <3>1, <3>2
  <2>3. CASE shimPc' = "jobCreate" /\ shimKey' = n /\ shimSnap'.uid = u
    BY <1>4, <2>3
       DEF Move, PassEnds, PassGoesOn, Advances, SameObject, StoragePcs
  <2> QED BY <1>1, <2>1, <2>2, <2>3
<1>5. CASE Deliver \/ ShimRestart
  <2>1. /\ downloaded' = downloaded /\ job' = job
        /\ shimPc' = "idle" \/ UNCHANGED <<shimPc, shimKey, shimSnap>>
    BY <1>5 DEF Deliver, DeliverMD, DeliverPvc, DeliverJob, ShimRestart,
                api, world, pass
  <2> QED BY <1>1, <1>2, <2>1
<1> QED BY <1>4, <1>5

LEMMA ClaimInit == Init => ClaimInv
<1> SUFFICES ASSUME Init PROVE ClaimInv
  OBVIOUS
<1>1. /\ \A n \in Names : job[n] = NoJob
      /\ \A c \in Claims : /\ pvc[c].owner \in {Nobody, Stranger}
                           /\ pvcCache[c].owner \in {Nobody, Stranger}
      /\ downloaded = {} /\ shimPc = "idle"
  BY DEF Init, NoPvc, StrangersPvc
<1>2. /\ NoJob.owner = Nobody /\ Nobody.name \notin Names
      /\ Stranger.name \notin Names
  BY Constants DEF NoJob, Nobody, Stranger
<1>3. OwnResources
  BY <1>1, <1>2, Constants DEF OwnResources
<1>4. ClaimsInOrder
  BY <1>1, <1>2, Constants DEF ClaimsInOrder
<1>5. ClaimsSettled
  BY <1>1, <1>2 DEF ClaimsSettled, Started
<1> QED BY <1>3, <1>4, <1>5 DEF ClaimInv

LEMMA OwnStays ==
  ASSUME IInv, ClaimsApart, OwnResources,
         Move \/ Deliver \/ ShimReconcile \/ ShimRestart
  PROVE  OwnResources'
<1> SUFFICES ASSUME NEW n \in Names
             PROVE  /\ job'[n].owner = Nobody \/ job'[n].owner.name = n
                    /\ pvc'[ClaimOf[n]].owner \in {Nobody, Stranger}
                         \/ pvc'[ClaimOf[n]].owner.name = n
                    /\ pvcCache'[ClaimOf[n]].owner \in {Nobody, Stranger}
                         \/ pvcCache'[ClaimOf[n]].owner.name = n
  BY DEF OwnResources
<1>1. /\ job[n].owner = Nobody \/ job[n].owner.name = n
      /\ pvc[ClaimOf[n]].owner \in {Nobody, Stranger}
           \/ pvc[ClaimOf[n]].owner.name = n
      /\ pvcCache[ClaimOf[n]].owner \in {Nobody, Stranger}
           \/ pvcCache[ClaimOf[n]].owner.name = n
  BY DEF OwnResources
<1>2. ClaimOf[n] \in Claims /\ shimKey \in Names /\ me.name = shimKey
  BY Constants DEF IInv, TypeOK, me, Of
<1>3. CASE Move
  <2>1. job'[n].owner = Nobody \/ job'[n].owner.name = n
    BY <1>1, <1>2, <1>3 DEF Move, JobMoves
  <2>2. pvc'[ClaimOf[n]].owner \in {Nobody, Stranger}
          \/ pvc'[ClaimOf[n]].owner.name = n
    BY <1>1, <1>2, <1>3 DEF Move, ClaimMoves, claim, ClaimsApart
  <2>3. pvcCache' = pvcCache
    BY <1>3 DEF Move
  <2> QED BY <1>1, <2>1, <2>2, <2>3
<1>4. CASE Deliver \/ ShimReconcile \/ ShimRestart
  <2>1. job' = job /\ pvc' = pvc
    BY <1>4 DEF Deliver, DeliverMD, DeliverPvc, DeliverJob, ShimReconcile,
                ShimRestart, api
  <2>2. pvcCache'[ClaimOf[n]] \in {pvcCache[ClaimOf[n]], pvc[ClaimOf[n]]}
    BY <1>2, <1>4 DEF Deliver, DeliverMD, DeliverPvc, DeliverJob, ShimReconcile,
                      ShimRestart, caches, IInv, TypeOK
  <2> QED BY <1>1, <2>1, <2>2
<1> QED BY <1>3, <1>4

LEMMA OrderStays ==
  ASSUME IInv, ClaimsApart, OwnResources, ClaimsInOrder,
         Move \/ Deliver \/ ShimReconcile \/ ShimRestart
  PROVE  ClaimsInOrder'
<1> SUFFICES ASSUME NEW n \in Names,
                    pvc'[ClaimOf[n]].owner.name = n,
                    pvcCache'[ClaimOf[n]].owner.name = n
             PROVE  pvcCache'[ClaimOf[n]].owner.uid <= pvc'[ClaimOf[n]].owner.uid
  BY DEF ClaimsInOrder
<1>1. /\ ClaimOf[n] \in Claims /\ shimKey \in Names
      /\ pvc[ClaimOf[n]].owner.uid \in Nat
      /\ Nobody.name # n
  BY Uids, Constants DEF IInv, TypeOK, Owners, Nobody
<1>2. CASE Move
  <2>1. pvcCache' = pvcCache
    BY <1>2 DEF Move
  <2>2. CASE pvc'[ClaimOf[n]].owner \in {pvc[ClaimOf[n]].owner, Nobody}
    BY <1>1, <2>1, <2>2 DEF ClaimsInOrder
  <2>3. CASE ClaimOf[n] = claim /\ shimPc = "pvcCreate"
             /\ pvc'[ClaimOf[n]].owner = me
    <3>1. n = shimKey
      BY <1>1, <2>3 DEF claim, ClaimsApart
    <3>2. Known(pvcCache[ClaimOf[n]].owner) /\ Exists(shimSnap)
      BY <1>1, <2>3 DEF IInv, OwnersKnown, SnapByPc
    <3> QED BY <2>1, <2>3, <3>1, <3>2 DEF Known, me, Of
  <2> QED BY <1>1, <1>2, <2>2, <2>3 DEF Move, ClaimMoves
<1>3. CASE Deliver \/ ShimReconcile \/ ShimRestart
  <2>1. pvc' = pvc
    BY <1>3 DEF Deliver, DeliverMD, DeliverPvc, DeliverJob, ShimReconcile,
                ShimRestart, api
  <2>2. pvcCache'[ClaimOf[n]] \in {pvcCache[ClaimOf[n]], pvc[ClaimOf[n]]}
    BY <1>1, <1>3 DEF Deliver, DeliverMD, DeliverPvc, DeliverJob, ShimReconcile,
                      ShimRestart, caches, IInv, TypeOK
  <2> QED BY <1>1, <2>1, <2>2 DEF ClaimsInOrder
<1> QED BY <1>2, <1>3

LEMMA SettledStays ==
  ASSUME IInv, ClaimsApart, ClaimInv, Move \/ Deliver \/ ShimRestart
  PROVE  ClaimsSettled'
<1> USE DEF IInv
<1> SUFFICES ASSUME NEW n \in Names, Exists(md'[n]), md'[n].vol = "managed",
                    Started(n, md[n].uid)'
             PROVE  /\ pvc'[ClaimOf[n]].owner.name = n =>
                         pvc'[ClaimOf[n]].owner.uid = md'[n].uid
                    /\ pvcCache'[ClaimOf[n]].owner.name = n =>
                         pvcCache'[ClaimOf[n]].owner.uid = md'[n].uid
                    /\ ~(/\ shimPc' = "pvcDelete" /\ shimKey' = n
                         /\ shimSnap'.uid = md'[n].uid)
  BY DEF ClaimsSettled, Started
<1>1. PICK u : u = md'[n].uid
  OBVIOUS
<1>2. ClaimOf[n] \in Claims /\ shimKey \in Names /\ Nobody.name # n
  BY Constants DEF TypeOK, Nobody
<1>3. md[n].uid \in Nat /\ uids[n] \in Nat /\ u # 0
  BY <1>1, Uids, Constants DEF Exists
<1>4. UNCHANGED <<md, uids>> \/ Evolves(n)
  BY DEF Move, ObjectMoves, Deliver, DeliverMD, DeliverPvc, DeliverJob,
         ShimRestart, api, world
<1>5. u \in Nat
  BY <1>1, <1>3, <1>4 DEF Evolves, Exists
<1>6. Started(n, u)
  <2>1. Started(n, u)'
    BY <1>1 DEF Started
  <2> QED BY <1>3, <2>1, StartedBefore DEF ClaimInv
<1>7. u <= uids[n] /\ (shimKey = n /\ Exists(shimSnap) => u <= shimSnap.uid)
  BY <1>3, <1>5, <1>6, StartedKnown
<1>8. Exists(md[n]) /\ md[n].uid = u /\ md[n].vol = "managed"
  BY <1>1, <1>3, <1>4, <1>7 DEF Evolves, Exists
<1>9. /\ pvc[ClaimOf[n]].owner.name = n => pvc[ClaimOf[n]].owner.uid = u
      /\ pvcCache[ClaimOf[n]].owner.name = n => pvcCache[ClaimOf[n]].owner.uid = u
      /\ ~(shimPc = "pvcDelete" /\ shimKey = n /\ shimSnap.uid = u)
  BY <1>6, <1>8 DEF ClaimInv, ClaimsSettled
<1>10. CASE Move
  <2>1. pvc'[ClaimOf[n]].owner.name = n => pvc'[ClaimOf[n]].owner.uid = u
    <3>1. CASE pvc'[ClaimOf[n]].owner \in {pvc[ClaimOf[n]].owner, Nobody}
      BY <1>2, <1>9, <3>1
    <3>2. CASE ClaimOf[n] = claim /\ shimPc = "pvcCreate"
               /\ pvc'[ClaimOf[n]].owner = me
      <4>1. n = shimKey
        BY <1>2, <3>2 DEF claim, ClaimsApart
      <4>2. Exists(shimSnap) /\ shimSnap.uid <= uids[n] /\ shimSnap.uid \in Nat
        BY <3>2, <4>1, Uids DEF SnapByPc, Incarnations, Older
      <4>3. uids[n] = u
        BY <1>3, <1>8 DEF Incarnations, Exists
      <4>4. shimSnap.uid = u
        BY <1>5, <1>7, <4>1, <4>2, <4>3
      <4> QED BY <3>2, <4>4 DEF me, Of
    <3> QED BY <1>2, <1>10, <3>1, <3>2 DEF Move, ClaimMoves
  <2>2. ~(shimPc' = "pvcDelete" /\ shimKey' = n /\ shimSnap'.uid = u)
    BY <1>9, <1>10
       DEF Move, PassEnds, PassGoesOn, Advances, SameObject, StoragePcs
  <2>3. pvcCache' = pvcCache
    BY <1>10 DEF Move
  <2> QED BY <1>1, <1>9, <2>1, <2>2, <2>3
<1>11. CASE Deliver \/ ShimRestart
  <2>1. /\ pvc' = pvc
        /\ shimPc' = "idle" \/ UNCHANGED <<shimPc, shimKey, shimSnap>>
    BY <1>11 DEF Deliver, DeliverMD, DeliverPvc, DeliverJob, ShimRestart,
                 api, pass
  <2>2. pvcCache'[ClaimOf[n]] \in {pvcCache[ClaimOf[n]], pvc[ClaimOf[n]]}
    BY <1>2, <1>11 DEF Deliver, DeliverMD, DeliverPvc, DeliverJob, ShimRestart,
                       TypeOK
  <2> QED BY <1>1, <1>9, <2>1, <2>2
<1> QED BY <1>10, <1>11

\* A pass comes to the download only with the claim of its own incarnation
\* before its eyes, and deletes a claim only with one of another.
LEMMA SettledReconcile ==
  ASSUME IInv, ClaimInv, ShimReconcile
  PROVE  ClaimsSettled'
<1> USE DEF IInv
<1>1. UNCHANGED <<md, pvc, job, downloaded, uids, mdCache, pvcCache>>
  BY DEF ShimReconcile, api, world, caches
<1>2. shimPc = "idle"
  BY DEF ShimReconcile
<1>3. PICK k \in Names :
        /\ shimKey' = k
        /\ IF Assigned(mdCache[k]) /\ (mdCache[k].deleting => mdCache[k].fin)
           THEN LET r == Route(k, mdCache[k])
                IN  /\ shimPc' = r.pc
                    /\ shimSnap' = [mdCache[k] EXCEPT !.st = r.st]
                    /\ shimFresh' = mdCacheFresh[k]
           ELSE UNCHANGED <<shimPc, shimSnap, shimFresh>>
  BY DEF ShimReconcile, TypeOK
<1> DEFINE o == mdCache[k]
<1>4. o \in ModelDeployments /\ Older(o, md[k], uids[k])
  BY DEF TypeOK, Incarnations
<1>5. shimPc' \in {"jobCreate", "pvcDelete"} =>
        /\ Exists(o) /\ shimSnap'.uid = o.uid
        /\ Routed(k, o, shimPc', shimSnap'.st)
  <2> SUFFICES ASSUME shimPc' \in {"jobCreate", "pvcDelete"}
               PROVE  /\ Exists(o) /\ shimSnap'.uid = o.uid
                      /\ Routed(k, o, shimPc', shimSnap'.st)
    OBVIOUS
  <2>1. Assigned(o) /\ shimPc' = Route(k, o).pc
        /\ shimSnap' = [o EXCEPT !.st = Route(k, o).st]
    BY <1>2, <1>3
  <2>2. Routed(k, o, Route(k, o).pc, Route(k, o).st)
    BY <1>4, RouteFacts
  <2> HIDE DEF o
  <2>3. shimSnap'.st = Route(k, o).st /\ shimSnap'.uid = o.uid
    BY <1>4, <2>1 DEF ModelDeployments
  <2> QED BY <2>1, <2>2, <2>3 DEF Assigned
<1> HIDE DEF o
<1> SUFFICES ASSUME NEW n \in Names, Exists(md[n]), md[n].vol = "managed",
                    Started(n, md[n].uid)'
             PROVE  /\ pvc[ClaimOf[n]].owner.name = n =>
                         pvc[ClaimOf[n]].owner.uid = md[n].uid
                    /\ pvcCache[ClaimOf[n]].owner.name = n =>
                         pvcCache[ClaimOf[n]].owner.uid = md[n].uid
                    /\ ~(/\ shimPc' = "pvcDelete" /\ shimKey' = n
                         /\ shimSnap'.uid = md[n].uid)
  BY <1>1 DEF ClaimsSettled, Started
<1>6. ClaimOf[n] \in Claims /\ Nobody.name # n /\ Stranger.name # n
  BY Constants DEF Nobody, Stranger
<1>7. CASE Started(n, md[n].uid)
  <2>1. /\ pvc[ClaimOf[n]].owner.name = n =>
             pvc[ClaimOf[n]].owner.uid = md[n].uid
        /\ pvcCache[ClaimOf[n]].owner.name = n =>
             pvcCache[ClaimOf[n]].owner.uid = md[n].uid
    BY <1>7 DEF ClaimInv, ClaimsSettled
  <2>2. ASSUME shimPc' = "pvcDelete", shimKey' = n, shimSnap'.uid = md[n].uid
        PROVE  FALSE
    <3>1. k = n /\ o.uid = md[n].uid
          /\ pvcCache[ClaimOf[n]].owner \notin {Of(n, o), Nobody, Stranger}
      BY <1>3, <1>5, <2>2 DEF Routed
    <3>2. pvcCache[ClaimOf[n]].owner.name = n
          /\ pvcCache[ClaimOf[n]].owner \in Owners
      BY <1>6, <3>1, Uids DEF ClaimInv, OwnResources
    <3>3. pvcCache[ClaimOf[n]].owner = Of(n, o)
      BY <2>1, <3>1, <3>2 DEF Owners, Of
    <3> QED BY <3>1, <3>3
  <2> QED BY <2>1, <2>2
<1>8. CASE ~Started(n, md[n].uid)
  <2>1. shimPc' = "jobCreate" /\ k = n /\ o.uid = md[n].uid
    BY <1>1, <1>3, <1>5, <1>8 DEF Started
  <2>2. o.vol = "managed"
    BY <1>4, <1>5, <2>1 DEF Older
  <2>3. pvcCache[ClaimOf[n]].owner = Of(n, o)
    BY <1>5, <2>1, <2>2 DEF Routed
  <2>4. pvcCache[ClaimOf[n]].owner.uid = md[n].uid
        /\ pvcCache[ClaimOf[n]].owner.name = n
    BY <2>1, <2>3 DEF Of
  <2>5. pvc[ClaimOf[n]].owner.name = n => pvc[ClaimOf[n]].owner.uid = md[n].uid
    <3>1. /\ pvc[ClaimOf[n]].owner.uid \in Nat /\ md[n].uid \in Nat
          /\ md[n].uid = uids[n]
      BY <1>6, Uids, Constants DEF Incarnations, Exists, Owners
    <3>2. pvc[ClaimOf[n]].owner.name = n => pvc[ClaimOf[n]].owner.uid <= uids[n]
      BY <1>6 DEF OwnersKnown, Known
    <3>3. pvc[ClaimOf[n]].owner.name = n =>
            md[n].uid <= pvc[ClaimOf[n]].owner.uid
      BY <2>4 DEF ClaimInv, ClaimsInOrder
    <3> QED BY <3>1, <3>2, <3>3
  <2> QED BY <2>1, <2>4, <2>5
<1> QED BY <1>7, <1>8

LEMMA ClaimStep ==
  ClaimsApart /\ IInv /\ ClaimInv /\ [Next]_vars => ClaimInv'
<1> SUFFICES ASSUME ClaimsApart, IInv, ClaimInv, [Next]_vars PROVE ClaimInv'
  OBVIOUS
<1>1. TypeOK'
  BY TypeStep DEF IInv
<1> QED BY <1>1, StepKinds, OwnStays, OrderStays, SettledStays, SettledReconcile
        DEF ClaimInv

\* Of the passes that are about to delete a claim, only two steps do.
LEMMA WhoDeletesClaims ==
  ASSUME IInv, [Next]_vars,
         shimPc \in {"pvcDelete", "cleanPvcs", "cleanPvcsFailed"},
         shimPc' # shimPc, pvc' # pvc
  PROVE  ShimPvcDelete \/ ShimCleanPvcs
<1> USE DEF api, world, caches, pass, rest
<1>1. Next
  BY DEF vars
<1>2. ~Deliver
  BY DEF Deliver, DeliverMD, DeliverPvc, DeliverJob
<1>3. ShimStep => ShimPvcDelete \/ ShimCleanPvcs
  BY DEF ShimStep, ShimReconcile, ShimRefused, ShimAddFinalizer, ShimPvcCreate,
     ShimJobCreate, ShimJobDelete, ShimGet, ShimCreate, ShimUpdate, ShimSync,
     ShimUpdateStatus, ShimTerminate, ShimFind, ShimDelete, ShimCleanJobs,
     ShimRelease
<1>4. ~Cluster /\ ~OperatorUp
  BY DEF Cluster, CollectPvc, PvcBind, PvcUnprotect, CollectJob, CollectGraph,
     JobComplete, GraphProgress, GraphFinalize, FinalizerTimeout, CoreBind,
     OperatorUp
<1>5. ~ShimFault /\ ~ShimRestart
  BY DEF ShimFault, ShimStorageFault, ShimGraphFault, ShimSyncFault,
     ShimDeletionFault, ShimCleanJobsFault, ShimCleanPvcsFault, ShimMDFault,
     ShimRestart
<1>6. ~Environment
  BY <1>5 DEF Environment, UserCreate, UserEdit, UserPause, UserDelete,
     UserDeleteJob, UserDeletePvc, UserDeleteGraph, UserCreateGraph, Degrade,
     OperatorDown
<1> QED BY <1>1, <1>2, <1>3, <1>4, <1>6 DEF Next

LEMMA DownloadsKept ==
  ASSUME ClaimsApart, IInv, ClaimInv, [Next]_vars,
         shimPc \in {"pvcDelete", "cleanPvcs", "cleanPvcsFailed"},
         shimPc' # shimPc,
         NEW n \in Names, Exists(md[n]), ~md[n].deleting,
         Of(n, md[n]) \in downloaded
  PROVE  pvc'[ClaimOf[n]] = pvc[ClaimOf[n]]
<1> USE DEF IInv
<1>1. CASE pvc' = pvc
  BY <1>1
<1>2. CASE pvc' # pvc /\ n # shimKey
  <2>1. ClaimOf[n] # claim /\ ClaimOf[n] \in Claims
    BY <1>2, Constants DEF ClaimsApart, claim, TypeOK
  <2> QED BY <1>2, <2>1, WhoDeletesClaims
          DEF ShimPvcDelete, ShimCleanPvcs, TypeOK
<1>3. CASE pvc' # pvc /\ n = shimKey
  <2>1. Exists(shimSnap) /\ shimSnap.uid \in Nat /\ md[n].uid \in Nat
    BY Uids DEF SnapByPc
  <2>2. Started(n, md[n].uid)
    BY DEF Started, Of
  <2>3. shimSnap.uid = md[n].uid
    <3>1. md[n].uid <= shimSnap.uid
      BY <1>3, <2>1, <2>2, StartedKnown DEF Exists
    <3>2. shimSnap.uid <= uids[n] /\ uids[n] = md[n].uid
      BY <1>3 DEF Incarnations, Older, Exists
    <3> QED BY <2>1, <3>1, <3>2
  <2>4. shimSnap.vol = md[n].vol /\ (shimSnap.deleting => md[n].deleting)
    BY <1>3, <2>1, <2>3 DEF Incarnations, Older
  <2>5. shimPc # "pvcDelete"
    BY <1>3, <2>2, <2>3, <2>4 DEF ClaimInv, ClaimsSettled, SnapByPc
  <2>6. shimSnap.deleting
    BY <2>5 DEF SnapByPc, DeletionPcs, CleanPcs
  <2> QED BY <2>4, <2>6
<1> QED BY <1>1, <1>2, <1>3

\* The shim deletes claims by name, on the word of a cache that lags.  As long
\* as no two objects resolve to the same claim, it never deletes the claim into
\* which an object that stays has downloaded its model.
THEOREM DownloadsStay == ClaimsApart /\ Spec => KeepsDownloads
<1> SUFFICES ASSUME ClaimsApart PROVE Spec => KeepsDownloads
  OBVIOUS
<1>1. IInv /\ ClaimInv /\ [Next]_vars =>
        [(/\ shimPc \in {"pvcDelete", "cleanPvcs", "cleanPvcsFailed"}
          /\ shimPc' # shimPc)
         => \A n \in Names :
              (/\ Exists(md[n]) /\ ~md[n].deleting
               /\ Of(n, md[n]) \in downloaded
               /\ pvc[ClaimOf[n]].owner = Of(n, md[n]))
              => UNCHANGED pvc[ClaimOf[n]]]_vars
  BY DownloadsKept
<1>2. IInv /\ ClaimInv /\ [Next]_vars => ClaimInv'
  BY ClaimStep
<1> QED BY <1>1, <1>2, ClaimInit, Inductive, PTL DEF Spec, KeepsDownloads

-----------------------------------------------------------------------------
(* The shim keeps the promise of GuardedResource *)

\* Only a guarded object goes under deletion.
DeletionGuarded == \A n \in Names : md[n].deleting => Exists(md[n]) /\ md[n].fin

\* Objects differ in nothing the promise looks at.
SameLife(o, p) == p.uid = o.uid /\ p.fin = o.fin /\ p.deleting = o.deleting

\* The steps that touch an object or its clock.
LEMMA WritersKnown ==
  ASSUME [Next]_vars, md' # md \/ timedOut' # timedOut
  PROVE  \/ ShimAddFinalizer \/ ShimUpdateStatus \/ ShimTerminate \/ ShimRelease
         \/ \E n \in Names : \/ CoreBind(n) \/ FinalizerTimeout(n)
                             \/ UserCreate(n) \/ UserEdit(n) \/ UserPause(n)
                             \/ UserDelete(n)
<1> USE DEF api, world, caches, pass
<1>1. Next
  BY DEF vars
<1>2. ~Deliver /\ ~OperatorUp
  BY DEF Deliver, DeliverMD, DeliverPvc, DeliverJob, OperatorUp
<1>3. ShimStep => \/ ShimAddFinalizer \/ ShimUpdateStatus \/ ShimTerminate
                  \/ ShimRelease
  BY DEF ShimStep, ShimReconcile, ShimRefused, ShimPvcCreate, ShimPvcDelete,
     ShimJobCreate, ShimJobDelete, ShimGet, ShimCreate, ShimUpdate, ShimSync,
     ShimFind, ShimDelete, ShimCleanJobs, ShimCleanPvcs
<1>4. Cluster => \E n \in Names : CoreBind(n) \/ FinalizerTimeout(n)
  BY DEF Cluster, CollectPvc, PvcBind, PvcUnprotect, CollectJob, CollectGraph,
     JobComplete, GraphProgress, GraphFinalize
<1>5. ~ShimFault /\ ~ShimRestart
  BY DEF ShimFault, ShimStorageFault, ShimGraphFault, ShimSyncFault,
     ShimDeletionFault, ShimCleanJobsFault, ShimCleanPvcsFault, ShimMDFault,
     ShimRestart
<1>6. Environment => \E n \in Names : \/ UserCreate(n) \/ UserEdit(n)
                                      \/ UserPause(n) \/ UserDelete(n)
  BY <1>5 DEF Environment, UserDeleteJob, UserDeletePvc, UserDeleteGraph,
     UserCreateGraph, Degrade, OperatorDown
<1> QED BY <1>1, <1>2, <1>3, <1>4, <1>6 DEF Next

\* Writes that touch neither the finalizer nor the life of any object.
LEMMA QuietWrites ==
  ASSUME TypeOK,
         \/ ShimUpdateStatus \/ ShimTerminate
         \/ \E n \in Names : CoreBind(n) \/ UserEdit(n) \/ UserPause(n)
  PROVE  /\ \A m \in Names : SameLife(md[m], md'[m])
         /\ UNCHANGED <<dgd, timedOut>>
<1>1. shimKey \in Names
  BY DEF TypeOK
<1>2. PICK n, new :
        /\ n \in Names
        /\ md' = [md EXCEPT ![n] = new] /\ SameLife(md[n], new)
  <2>1. \A n \in Names : md[n] \in ModelDeployments
    BY DEF TypeOK
  <2>2. CASE ShimUpdateStatus \/ ShimTerminate
    <3> DEFINE new == [md[shimKey] EXCEPT !.st = shimSnap.st]
    <3>1. SameLife(md[shimKey], new) /\ SameLife(md[shimKey], md[shimKey])
      BY <1>1, <2>1 DEF SameLife, ModelDeployments
    <3>2. md' = [md EXCEPT ![shimKey] = new] \/ md' = md
      BY <2>2, Zenon DEF ShimUpdateStatus, ShimTerminate, ShimStore
    <3>3. md = [md EXCEPT ![shimKey] = md[shimKey]]
      BY <1>1 DEF TypeOK
    <3> HIDE DEF new
    <3> QED BY <1>1, <3>1, <3>2, <3>3
  <2>3. ASSUME NEW n \in Names, CoreBind(n)
        PROVE  \E new : md' = [md EXCEPT ![n] = new] /\ SameLife(md[n], new)
    <3> DEFINE new == [md[n] EXCEPT !.bound = TRUE]
    <3>1. SameLife(md[n], new)
      BY <2>1 DEF SameLife, ModelDeployments
    <3>2. md' = [md EXCEPT ![n] = new]
      BY <2>3, Zenon DEF CoreBind, Store
    <3> QED BY <3>1, <3>2
  <2>4. ASSUME NEW n \in Names, UserEdit(n)
        PROVE  \E new : md' = [md EXCEPT ![n] = new] /\ SameLife(md[n], new)
    <3>1. PICK s \in Shapes :
            md' = [md EXCEPT ![n] = [md[n] EXCEPT !.shape = s, !.gen = @ + 1]]
      BY <2>4 DEF UserEdit, Store
    <3>2. SameLife(md[n], [md[n] EXCEPT !.shape = s, !.gen = @ + 1])
      BY <2>1 DEF SameLife, ModelDeployments
    <3> QED BY <3>1, <3>2
  <2>5. ASSUME NEW n \in Names, UserPause(n)
        PROVE  \E new : md' = [md EXCEPT ![n] = new] /\ SameLife(md[n], new)
    <3> DEFINE new == [md[n] EXCEPT !.paused = ~@]
    <3>1. SameLife(md[n], new)
      BY <2>1 DEF SameLife, ModelDeployments
    <3>2. md' = [md EXCEPT ![n] = new]
      BY <2>5, Zenon DEF UserPause, Store
    <3> QED BY <3>1, <3>2
  <2> QED BY <2>2, <2>3, <2>4, <2>5
<1>3. \A m \in Names : SameLife(md[m], md'[m])
  BY <1>2 DEF TypeOK, SameLife
<1>4. UNCHANGED <<dgd, timedOut>>
  BY DEF ShimUpdateStatus, ShimTerminate, CoreBind, UserEdit, UserPause, world,
         rest
<1> QED BY <1>3, <1>4

\* The other writes, each of one object.
LEMMA LoudWrites ==
  ASSUME IInv
  PROVE  /\ ShimAddFinalizer =>
              \E new : /\ md' = [md EXCEPT ![shimKey] = new]
                       /\ new.uid = md[shimKey].uid /\ new.fin = TRUE
                       /\ ~new.deleting
                       /\ Exists(md[shimKey]) /\ ~md[shimKey].deleting
                       /\ UNCHANGED <<dgd, timedOut>>
         /\ ShimRelease =>
              /\ md' = [md EXCEPT ![shimKey] = Absent]
              /\ timedOut' = [timedOut EXCEPT ![shimKey] = FALSE]
              /\ shimPc = "release" /\ dgd' = dgd
              /\ Exists(md[shimKey]) /\ md[shimKey].deleting
              /\ shimSnap.uid = md[shimKey].uid
         /\ \A n \in Names : UserCreate(n) =>
              \E new : /\ md' = [md EXCEPT ![n] = new]
                       /\ new.uid = uids[n] + 1 /\ ~new.fin /\ ~new.deleting
                       /\ ~Exists(md[n])
                       /\ UNCHANGED <<dgd, timedOut>>
         /\ \A n \in Names : UserDelete(n) =>
              \E new : /\ md' = [md EXCEPT ![n] = new]
                       /\ IF md[n].fin
                          THEN new.uid = md[n].uid /\ new.fin /\ new.deleting
                          ELSE ~Exists(new) /\ ~new.fin /\ ~new.deleting
                       /\ Exists(md[n]) /\ ~md[n].deleting
                       /\ UNCHANGED <<dgd, timedOut>>
<1> USE DEF IInv
<1>1. shimKey \in Names /\ \A n \in Names : md[n] \in ModelDeployments
  BY DEF TypeOK
<1>2. shimFresh => /\ Exists(md[shimKey])
                   /\ shimSnap.uid = md[shimKey].uid
                   /\ shimSnap.deleting = md[shimKey].deleting
  BY DEF FlagsTrue
<1>3. ASSUME ShimAddFinalizer
      PROVE  \E new : /\ md' = [md EXCEPT ![shimKey] = new]
                      /\ new.uid = md[shimKey].uid /\ new.fin = TRUE
                      /\ ~new.deleting
                      /\ Exists(md[shimKey]) /\ ~md[shimKey].deleting
                      /\ UNCHANGED <<dgd, timedOut>>
  <2> DEFINE new == [md[shimKey] EXCEPT !.fin = TRUE]
  <2>1. md' = [md EXCEPT ![shimKey] = new]
    BY <1>3, Zenon DEF ShimAddFinalizer, ShimStore
  <2>2. /\ new.uid = md[shimKey].uid /\ new.fin = TRUE
        /\ new.deleting = md[shimKey].deleting
    BY <1>1 DEF ModelDeployments
  <2>3. Exists(md[shimKey]) /\ ~md[shimKey].deleting
    BY <1>2, <1>3 DEF ShimAddFinalizer, SnapByPc
  <2>4. UNCHANGED <<dgd, timedOut>>
    BY <1>3 DEF ShimAddFinalizer, world
  <2> HIDE DEF new
  <2> QED BY <2>1, <2>2, <2>3, <2>4
<1>4. ASSUME ShimRelease
      PROVE  /\ md' = [md EXCEPT ![shimKey] = Absent]
             /\ timedOut' = [timedOut EXCEPT ![shimKey] = FALSE]
             /\ shimPc = "release" /\ dgd' = dgd
             /\ Exists(md[shimKey]) /\ md[shimKey].deleting
             /\ shimSnap.uid = md[shimKey].uid
  <2>1. Exists(md[shimKey]) /\ md[shimKey].deleting
    BY <1>2, <1>4 DEF ShimRelease, SnapByPc, DeletionPcs
  <2> QED BY <1>2, <1>4, <2>1 DEF ShimRelease, ShimStore
<1>5. ASSUME NEW n \in Names, UserCreate(n)
      PROVE  \E new : /\ md' = [md EXCEPT ![n] = new]
                      /\ new.uid = uids[n] + 1 /\ ~new.fin /\ ~new.deleting
                      /\ ~Exists(md[n])
                      /\ UNCHANGED <<dgd, timedOut>>
  <2>1. PICK v \in Volumes : md' = [md EXCEPT ![n] = NewMD(uids[n] + 1, v)]
    BY <1>5 DEF UserCreate, Store
  <2>2. \A u : NewMD(u, v).uid = u /\ ~NewMD(u, v).fin /\ ~NewMD(u, v).deleting
    BY DEF NewMD
  <2>3. ~Exists(md[n]) /\ UNCHANGED <<dgd, timedOut>>
    BY <1>5 DEF UserCreate, rest
  <2> QED BY <2>1, <2>2, <2>3
<1>6. ASSUME NEW n \in Names, UserDelete(n)
      PROVE  \E new : /\ md' = [md EXCEPT ![n] = new]
                      /\ IF md[n].fin
                         THEN new.uid = md[n].uid /\ new.fin /\ new.deleting
                         ELSE ~Exists(new) /\ ~new.fin /\ ~new.deleting
                      /\ Exists(md[n]) /\ ~md[n].deleting
                      /\ UNCHANGED <<dgd, timedOut>>
  <2>1. Exists(md[n]) /\ ~md[n].deleting /\ UNCHANGED <<dgd, timedOut>>
    BY <1>6 DEF UserDelete, rest
  <2>2. CASE md[n].fin
    <3> DEFINE new == [md[n] EXCEPT !.deleting = TRUE]
    <3>1. md' = [md EXCEPT ![n] = new]
      BY <1>6, <2>2, Zenon DEF UserDelete, Store
    <3>2. new.uid = md[n].uid /\ new.fin = md[n].fin /\ new.deleting = TRUE
      BY <1>1 DEF ModelDeployments
    <3> HIDE DEF new
    <3> QED BY <2>1, <2>2, <3>1, <3>2
  <2>3. CASE ~md[n].fin
    <3>1. md' = [md EXCEPT ![n] = Absent]
      BY <1>6, <2>3 DEF UserDelete, Store
    <3> QED BY <2>1, <2>3, <3>1, AbsentFields
  <2> QED BY <2>2, <2>3
<1> QED BY <1>3, <1>4, <1>5, <1>6

LEMMA GuardedInit == Init => DeletionGuarded
BY DEF Init, DeletionGuarded, NewMD

LEMMA GuardedStep == IInv /\ DeletionGuarded /\ [Next]_vars => DeletionGuarded'
<1> SUFFICES ASSUME IInv, DeletionGuarded, [Next]_vars, NEW m \in Names,
                    md'[m].deleting
             PROVE  Exists(md'[m]) /\ md'[m].fin
  BY DEF DeletionGuarded
<1>1. md[m].deleting => Exists(md[m]) /\ md[m].fin
  BY DEF DeletionGuarded
<1>2. /\ TypeOK /\ shimKey \in Names
      /\ \A n \in Names : \A new :
           md' = [md EXCEPT ![n] = new] =>
             md'[m] = IF m = n THEN new ELSE md[m]
  BY DEF IInv, TypeOK
<1>3. CASE md' = md
  BY <1>1, <1>3
<1>4. CASE \/ ShimUpdateStatus \/ ShimTerminate
           \/ \E n \in Names : CoreBind(n) \/ UserEdit(n) \/ UserPause(n)
  BY <1>1, <1>2, <1>4, QuietWrites DEF SameLife, Exists
<1>5. CASE ShimAddFinalizer
  BY ZenonT(40), <1>1, <1>2, <1>5, LoudWrites
<1>6. CASE ShimRelease
  BY <1>1, <1>2, <1>6, LoudWrites, AbsentFields
<1>7. ASSUME NEW n \in Names, UserCreate(n)
      PROVE  Exists(md'[m]) /\ md'[m].fin
  BY <1>1, <1>2, <1>7, LoudWrites
<1>8. ASSUME NEW n \in Names, UserDelete(n)
      PROVE  Exists(md'[m]) /\ md'[m].fin
  BY <1>1, <1>2, <1>8, LoudWrites DEF Exists
<1>9. ASSUME NEW n \in Names, FinalizerTimeout(n) PROVE md' = md
  BY <1>9 DEF FinalizerTimeout, api
<1> QED BY <1>3, <1>4, <1>5, <1>6, <1>7, <1>8, <1>9, WritersKnown

\* A step that leaves the observed object and its clock alone can only make
\* its graph, which the finalizer then guards, or lose it.
LEMMA GraphSteps ==
  ASSUME IInv, IInv', SameLife(md[Observed], md'[Observed]),
         timedOut'[Observed] = timedOut[Observed]
  PROVE  Promise!Next \/ UNCHANGED Promise!vars
<1> DEFINE mine == Exists(md[Observed])
                     /\ dgd[Observed].owner = Of(Observed, md[Observed])
<1>1. ObjectState' = ObjectState /\ md'[Observed].fin = md[Observed].fin
  BY DEF SameLife, ObjectState, Exists
<1>2. CASE mine'
  <2>1. Exists(md[Observed]) /\ md[Observed].fin
    <3>1. Exists(md'[Observed]) /\ md'[Observed].fin
      BY <1>2, Constants DEF IInv, GraphInPlace
    <3> QED BY <1>1, <3>1 DEF SameLife, Exists
  <2>2. Promise!Provision
    BY <1>1, <1>2, <2>1 DEF Promise!Provision, ObjectState
  <2> QED BY <2>2 DEF Promise!Next
<1>3. CASE ~mine'
  <2>1. Promise!Lose
    BY <1>1, <1>3 DEF Promise!Lose
  <2> QED BY <2>1 DEF Promise!Next
<1> QED BY <1>2, <1>3

LEMMA PromiseInit == Init => Promise!Init
<1> SUFFICES ASSUME Init PROVE Promise!Init
  OBVIOUS
<1>1. md[Observed].uid = 1 /\ ~md[Observed].fin /\ ~md[Observed].deleting
  BY Constants DEF Init, NewMD
<1>2. dgd[Observed].owner.name # Observed /\ ~timedOut[Observed]
  BY Constants DEF Init, NoDgd, Nobody
<1> QED BY <1>1, <1>2 DEF Promise!Init, ObjectState, Exists, Of

LEMMA PromiseStep ==
  IInv /\ IInv' /\ DeletionGuarded /\ [Next]_vars
    => [Promise!Next]_Promise!vars
<1> SUFFICES ASSUME IInv, IInv', DeletionGuarded, [Next]_vars
             PROVE  Promise!Next \/ UNCHANGED Promise!vars
  OBVIOUS
<1> DEFINE n == Observed
<1>1. /\ TypeOK /\ shimKey \in Names /\ n \in Names
      /\ \A k \in Names : \A new :
           md' = [md EXCEPT ![k] = new] =>
             md'[n] = IF n = k THEN new ELSE md[n]
      /\ \A k \in Names : \A t :
           timedOut' = [timedOut EXCEPT ![k] = t] =>
             timedOut'[n] = IF n = k THEN t ELSE timedOut[n]
  BY Constants DEF IInv, TypeOK
<1>2. CASE md'[n] = md[n] /\ timedOut'[n] = timedOut[n]
  BY <1>2, GraphSteps DEF SameLife
<1>3. CASE \/ ShimUpdateStatus \/ ShimTerminate
           \/ \E k \in Names : CoreBind(k) \/ UserEdit(k) \/ UserPause(k)
  BY <1>1, <1>3, QuietWrites, GraphSteps
<1>4. CASE ShimAddFinalizer /\ n = shimKey
  <2>1. Exists(md[n]) /\ ~md[n].deleting
    BY <1>4, LoudWrites
  <2>2. /\ md'[n].uid = md[n].uid /\ md'[n].fin /\ ~md'[n].deleting
        /\ UNCHANGED <<dgd, timedOut>>
    <3>1. PICK new : /\ md' = [md EXCEPT ![shimKey] = new]
                     /\ new.uid = md[shimKey].uid /\ new.fin = TRUE
                     /\ ~new.deleting /\ UNCHANGED <<dgd, timedOut>>
      BY <1>4, LoudWrites
    <3>2. md'[n] = new
      BY <1>1, <1>4, <3>1
    <3> QED BY <1>4, <3>1, <3>2
  <2>3. Promise!Guard
    BY <2>1, <2>2 DEF Promise!Guard, ObjectState, Exists, Of
  <2> QED BY <2>3 DEF Promise!Next
<1>5. CASE ShimRelease /\ n = shimKey
  <2>1. /\ Exists(md[n]) /\ md[n].deleting /\ md[n].fin
        /\ shimPc = "release" /\ me = Of(n, md[n])
    BY <1>1, <1>5, LoudWrites DEF DeletionGuarded, me, Of
  <2>2. dgd[n].owner = Of(n, md[n]) => timedOut[n]
    BY <1>5, <2>1 DEF IInv, GraphInPlace
  <2>3. ~Exists(md'[n]) /\ ~md'[n].fin /\ ~timedOut'[n]
    BY SMTT(30), <1>1, <1>5, LoudWrites, AbsentFields
  <2>4. Promise!Release
    BY <2>1, <2>2, <2>3 DEF Promise!Release, ObjectState
  <2> QED BY <2>4 DEF Promise!Next
<1>6. CASE UserCreate(n)
  <2>1. /\ ~Exists(md[n]) /\ md'[n].uid = uids[n] + 1
        /\ ~md'[n].fin /\ ~md'[n].deleting /\ UNCHANGED <<dgd, timedOut>>
    BY <1>1, <1>6, LoudWrites
  <2>2. uids[n] \in Nat /\ dgd[n].owner.uid \in Nat
    BY <1>1, Uids, Constants DEF Owners
  <2>3. dgd[n].owner # Of(n, md'[n])
    <3>1. dgd[n].owner.name = n => dgd[n].owner.uid <= uids[n]
      BY <1>1 DEF IInv, OwnersKnown, Known
    <3>2. Of(n, md'[n]).name = n /\ Of(n, md'[n]).uid = uids[n] + 1
      BY <2>1 DEF Of
    <3> QED BY <2>2, <3>1, <3>2
  <2>4. Exists(md'[n])
    BY <2>1, <2>2 DEF Exists
  <2>5. Promise!Create
    BY <2>1, <2>3, <2>4 DEF Promise!Create, ObjectState
  <2> QED BY <2>5 DEF Promise!Next
<1>7. CASE UserDelete(n)
  <2>1. /\ Exists(md[n]) /\ ~md[n].deleting /\ UNCHANGED <<dgd, timedOut>>
        /\ IF md[n].fin
           THEN md'[n].uid = md[n].uid /\ md'[n].fin /\ md'[n].deleting
           ELSE ~Exists(md'[n]) /\ ~md'[n].fin /\ ~md'[n].deleting
    BY <1>1, <1>7, LoudWrites
  <2>2. md[n].fin \/ dgd[n].owner # Of(n, md[n])
    BY <1>1, <2>1 DEF IInv, GraphInPlace
  <2>3. md[n].fin \in BOOLEAN /\ md'[n].fin \in BOOLEAN
    BY <1>1 DEF IInv, TypeOK, ModelDeployments
  <2>4. Promise!Delete
    BY <2>1, <2>2, <2>3 DEF Promise!Delete, ObjectState, Exists, Of
  <2> QED BY <2>4 DEF Promise!Next
<1>8. CASE FinalizerTimeout(n)
  <2>1. /\ md' = md /\ dgd' = dgd /\ timedOut'[n]
        /\ md[n].deleting /\ Exists(md[n])
    BY <1>1, <1>8 DEF FinalizerTimeout, api, DeletionGuarded
  <2>2. Promise!Expire
    BY <2>1 DEF Promise!Expire, ObjectState
  <2> QED BY <2>2 DEF Promise!Next
<1>9. CASE (ShimAddFinalizer \/ ShimRelease) /\ n # shimKey
  BY <1>1, <1>2, <1>9, LoudWrites
<1>10. ASSUME NEW k \in Names, k # n,
              UserCreate(k) \/ UserDelete(k) \/ FinalizerTimeout(k)
       PROVE  md'[n] = md[n] /\ timedOut'[n] = timedOut[n]
  BY <1>1, <1>10, LoudWrites DEF FinalizerTimeout, api
<1>11. CASE UNCHANGED <<md, timedOut>>
  BY <1>2, <1>11
<1> QED BY <1>2, <1>3, <1>4, <1>5, <1>6, <1>7, <1>8, <1>9, <1>10, <1>11,
           WritersKnown

\* The shim's finalizer keeps the promise for the graph of every incarnation
\* of the observed object, and any name may be the observed one.
THEOREM PromiseKept == Spec => KeepsPromise
<1> QED BY PromiseInit, PromiseStep, Inductive, GuardedInit, GuardedStep, PTL
        DEF Spec, KeepsPromise, Promise!Spec
=============================================================================
