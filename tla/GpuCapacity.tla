----------------------------- MODULE GpuCapacity -----------------------------
(* What the web backend says of the GPUs of a cluster: the capacity of         *)
(* kubernetes.ts, read in two lists and for the pools in a third, the warnings *)
(* of gpuValidation.ts when a deployment is created, the banner the form shows *)
(* of the same capacity (CapacityWarning.tsx), the autoscaler that is detected *)
(* (autoscaler.ts) and why a deployment is pending.  The cluster moves between *)
(* the calls.                                                                  *)
EXTENDS Integers, Sequences, FiniteSets, FiniteSetsExt

CONSTANTS
  Nodes,      \* in the order they are listed: a sequence
  Pools,      \* the pool each node's labels name
  Labels,     \* per node: the words of its product and of its instance type, its memory
  GpuCounts,  \* what a node may have allocatable
  Pods,       \* the pods that ask for GPUs
  Asks,       \* what their containers ask for: the requests, else the limits
  Configs,    \* the deployments asked about: see Required
  Scalers,    \* what tells of an autoscaler: see Detection
  Events,     \* the warnings of a pod: sets of what its message names
  MaxMoves    \* bound: what else happens in the cluster

CapacityAssumption ==
  /\ GpuCounts \subseteq Nat /\ Asks \subseteq Nat
  /\ Nodes \in Seq(DOMAIN Pools \cap DOMAIN Labels) /\ Nodes # << >>
  /\ IsFiniteSet(Pods)
  /\ \A c \in Configs :
       /\ c.workers # << >> /\ c.workers \in Seq([replicas : Nat, gpus : Nat])
       /\ c.span \in Nat /\ (Len(c.workers) > 1 => c.span = 1)

VARIABLES
  alloc,   \* per node: status.allocatable["nvidia.com/gpu"], 0 without one
  pods,    \* per pod: the node it is bound to, what it asks for, its phase
  read,    \* the reading that is under way, or its answer
  moves

gvars == <<alloc, pods, read, moves>>

NodeSet == {Nodes[k] : k \in DOMAIN Nodes}
Nowhere == "nowhere"

-----------------------------------------------------------------------------
(* Names to models and to memory: the first entry of a table whose words all   *)
(* occur (detectGpuMemoryFromProduct, extractGpuModelFromInstanceType).        *)
MemoryTable ==
  << <<{"a100", "80"}, 80>>, <<{"a100"}, 40>>, <<{"h100"}, 80>>, <<{"h200"}, 141>>, <<{"a10"}, 24>>,
     <<{"l40"}, 48>>, <<{"l4"}, 24>>, <<{"t4"}, 16>>, <<{"v100", "32"}, 32>>, <<{"v100"}, 16>>,
     <<{"4090"}, 24>>, <<{"4080"}, 16>>, <<{"3090"}, 24>>, <<{"3080", "12"}, 12>>, <<{"3080"}, 10>> >>
ModelTable ==
  << <<{"_a10"}, "A10">>, <<{"_a100"}, "A100-80GB">>, <<{"_h100"}, "H100">>, <<{"nc", "_v3"}, "V100">>,
     <<{"nc", "t4"}, "T4">>, <<{"p5"}, "H100">>, <<{"p4d"}, "A100-40GB">>, <<{"p3"}, "V100">>,
     <<{"g4"}, "T4">>, <<{"g5"}, "A10G">>, <<{"g6e"}, "L40S">>, <<{"g6."}, "L4">>, <<{"a3"}, "H100">>,
     <<{"a2-ultra"}, "A100-80GB">>, <<{"a2"}, "A100-40GB">>, <<{"g2"}, "L4">> >>
Entries(table, words) == {k \in DOMAIN table : table[k][1] \subseteq words}
Looked(table, words) ==
  IF Entries(table, words) = {} THEN {} ELSE {table[Min(Entries(table, words))][2]}

(* The label in MiB comes first, then the product.                             *)
MemoryOf(n) ==
  IF Labels[n].memory > 0 THEN {Labels[n].memory} ELSE Looked(MemoryTable, Labels[n].product)
ModelOf(n) ==
  IF Labels[n].product # {} THEN {Labels[n].product} ELSE Looked(ModelTable, Labels[n].instance)

(* What a list of nodes says: the first of them that has something to say.     *)
FirstOf(says(_), among) ==
  LET telling == {k \in DOMAIN Nodes : Nodes[k] \in among /\ says(Nodes[k]) # {}}
  IN  IF telling = {} THEN {} ELSE says(Nodes[Min(telling)])

-----------------------------------------------------------------------------
(* getClusterGpuCapacity.  A pod counts where it is bound and as long as it is *)
(* pending or running; whether its node is ready or cordoned is not looked at. *)
\* Mutant: a pod counts when it runs.
TakesOnceRunning(p, n) == pods[p].on = n /\ pods[p].phase = "Running"

Takes(p, n) == pods[p].on = n /\ pods[p].phase \in {"Pending", "Running"}

Taken(n) == SumFunction([p \in Pods |-> IF Takes(p, n) THEN pods[p].gpus ELSE 0])
GpuNodes(listed) == {n \in NodeSet : listed[n] > 0}
Left(listed, taken, n) == IF listed[n] > taken[n] THEN listed[n] - taken[n] ELSE 0
Largest(f(_), S) == Max({0} \cup {f(x) : x \in S})

Capacity(listed, taken) ==
  LET with     == GpuNodes(listed)
      total    == SumFunctionOnSet(listed, with)
      occupied == SumFunctionOnSet(taken, with)
      left(n)  == Left(listed, taken, n)
      has(n)   == listed[n]
  IN  [total |-> total, available |-> total - occupied, maxContiguous |-> Largest(left, with),
       maxNode |-> Largest(has, with), memory |-> FirstOf(MemoryOf, with),
       left |-> [n \in with |-> left(n)]]

NoCapacity == [total |-> 0, available |-> 0, maxContiguous |-> 0, maxNode |-> 0, memory |-> {},
               left |-> << >>]

(* getDetailedClusterGpuCapacity lists the nodes again: a node the first list  *)
(* did not have counts with its GPUs, none of them available.                  *)
PoolInfo(again, left, pool) ==
  LET of == {n \in GpuNodes(again) : Pools[n] = pool} IN
  [gpus |-> SumFunctionOnSet(again, of), nodes |-> Cardinality(of),
   available |-> SumFunctionOnSet(left, of \cap DOMAIN left),
   model |-> FirstOf(ModelOf, of)]
PoolsOf(again, left) ==
  [pool \in {Pools[n] : n \in GpuNodes(again)} |-> PoolInfo(again, left, pool)]

-----------------------------------------------------------------------------
(* validateGpuFit.  A configuration has the replicas and the GPUs of each kind *)
(* of worker (one kind when aggregated), over `span` nodes each; the model may *)
(* ask for a least number per worker.                                          *)
Required(c) ==
  SumFunction([w \in DOMAIN c.workers |-> c.workers[w].replicas * c.workers[w].gpus * c.span])
PerWorker(c) == {c.workers[w].gpus : w \in DOMAIN c.workers}
Fit(c, capacity) ==
  IF c.cpuOnly THEN {}
  ELSE (IF Required(c) > capacity.available THEN {"total_insufficient"} ELSE {})
       \cup (IF Max(PerWorker(c)) > capacity.maxContiguous THEN {"contiguous_insufficient"} ELSE {})
       \cup (IF Min(PerWorker(c)) < c.least THEN {"model_minimum"} ELSE {})

(* The form's banner: what no node could hold at all, and what is not free,    *)
(* for which an autoscaler is named if one was detected, healthy or not.       *)
Banner(c, capacity, scaler) ==
  IF c.cpuOnly THEN "none"
  ELSE IF c.span = 1 /\ Max(PerWorker(c)) > capacity.maxNode THEN "exceeds"
  ELSE IF Required(c) <= capacity.available THEN "none"
  ELSE IF scaler.detected THEN "scales up" ELSE "stays pending"

(* detectAutoscaler: the pools AKS scales, then the status the autoscaler      *)
(* keeps, which is healthy while it is fresh, then its deployment.  A call that*)
(* fails finds nothing.                                                        *)
Found(type, healthy) == [type |-> type, detected |-> TRUE, healthy |-> healthy]
Detection(s) ==
  IF s.aks /\ s.managedPools > 0 THEN Found("aks-managed", TRUE)
  ELSE IF s.status \in {"fresh", "stale"} THEN Found("cluster-autoscaler", s.status = "fresh")
  ELSE IF s.ready \in {"ready", "unready"} THEN Found("cluster-autoscaler", s.ready = "ready")
  ELSE [type |-> "none", detected |-> FALSE, healthy |-> FALSE]

(* getPodFailureReasons: what a warning is about, and whether more nodes would *)
(* help; a taint or a selector the message names means they would not.         *)
Resources == <<"gpu", "cpu", "memory">>
ReasonOf(e) ==
  LET constraint == {"FailedScheduling", "insufficient"} \cap e # {}
      named == IF constraint THEN {k \in 1..3 : Resources[k] \in e} ELSE {}
  IN  [resource |-> IF named = {} THEN "other" ELSE Resources[Min(named)],
       helps |-> named # {} /\ {"taint", "selector", "mismatch"} \cap e = {},
       names |-> e]

(* PendingExplanation: what the page says of the reasons.                      *)
Explanation(reasons, scaler) ==
  LET about(r) == {x \in reasons : x.resource = r} IN
  [short    |-> {r \in {"gpu", "cpu", "memory"} : about(r) # {}},
   scaling  |-> about("gpu") # {} /\ (\E x \in reasons : x.helps) /\ scaler.detected,
   taints   |-> \E x \in reasons : "taint" \in x.names,
   selector |-> \E x \in reasons : "selector" \in x.names]

-----------------------------------------------------------------------------
Idle == [pc |-> "idle"]
Disturbed == IF read.pc = "idle" THEN read ELSE [read EXCEPT !.quiet = FALSE]
Pending == {p \in Pods : pods[p].phase = "Pending"}

(* A deployment is being created or described, or somebody asks why it pends.  *)
Ask(what, c, s) ==
  /\ read.pc = "idle"
  /\ read' = [pc |-> IF what = "why" THEN "pods" ELSE "nodes", what |-> what, config |-> c,
              scaler |-> Detection(s), listed |-> [n \in NodeSet |-> 0], capacity |-> NoCapacity,
              pools |-> << >>, says |-> Explanation({}, Detection(s)), pod |-> Nowhere, quiet |-> TRUE, failed |-> FALSE]
  /\ UNCHANGED <<alloc, pods, moves>>

ListNodes ==
  /\ read.pc = "nodes" /\ read' = [read EXCEPT !.pc = "pods", !.listed = alloc]
  /\ UNCHANGED <<alloc, pods, moves>>

ListPods ==
  LET capacity == Capacity(read.listed, [n \in NodeSet |-> Taken(n)]) IN
  /\ read.pc = "pods" /\ read.what # "why"
  /\ read' = [read EXCEPT !.pc = IF read.what = "pools" THEN "again" ELSE "done",
                          !.capacity = capacity]
  /\ UNCHANGED <<alloc, pods, moves>>

ListAgain ==
  /\ read.pc = "again"
  /\ read' = [read EXCEPT !.pc = "done", !.pools = PoolsOf(alloc, read.capacity.left)]
  /\ UNCHANGED <<alloc, pods, moves>>

(* Only the first pod that pends is asked about; none, and there is no reason. *)
FindPending ==
  /\ read.pc = "pods" /\ read.what = "why"
  /\ IF Pending = {} THEN read' = [read EXCEPT !.pc = "done"]
     ELSE \E p \in Pending : read' = [read EXCEPT !.pc = "events", !.pod = p]
  /\ UNCHANGED <<alloc, pods, moves>>

ListEvents(events) ==
  /\ read.pc = "events"
  /\ read' = [read EXCEPT !.pc = "done", !.says = Explanation({ReasonOf(e) : e \in events}, read.scaler)]
  /\ UNCHANGED <<alloc, pods, moves>>

(* A list that fails reads as a cluster without GPUs, or as a pod without a    *)
(* reason; a second list of the nodes that fails takes the first with it.      *)
Fails ==
  /\ read.pc \notin {"idle", "done"}
  /\ read' = [read EXCEPT !.pc = "done", !.capacity = NoCapacity, !.failed = TRUE]
  /\ UNCHANGED <<alloc, pods, moves>>

Leave == read.pc = "done" /\ read' = Idle /\ UNCHANGED <<alloc, pods, moves>>

(* The cluster: a node comes, goes or changes what it can give; the scheduler  *)
(* binds a pod where there is room; a pod starts to run and ends.              *)
InUse(n) ==
  SumFunction([p \in {q \in Pods : pods[q].on = n /\ pods[q].phase # "Succeeded"} |-> pods[p].gpus])
Moves == moves < MaxMoves /\ moves' = moves + 1 /\ read' = Disturbed
Resize(n, k) == Moves /\ k # alloc[n] /\ alloc' = [alloc EXCEPT ![n] = k] /\ UNCHANGED pods
Bind(p, n) ==
  /\ Moves /\ pods[p].on = Nowhere /\ pods[p].gpus + InUse(n) <= alloc[n]
  /\ pods' = [pods EXCEPT ![p].on = n] /\ UNCHANGED alloc
Advance(p) ==
  /\ Moves /\ pods[p].on # Nowhere /\ pods[p].phase # "Succeeded"
  /\ pods' = [pods EXCEPT ![p].phase = IF @ = "Pending" THEN "Running" ELSE "Succeeded"]
  /\ UNCHANGED alloc

Init ==
  /\ alloc \in [NodeSet -> GpuCounts]
  /\ pods \in [Pods -> [on : {Nowhere}, gpus : Asks, phase : {"Pending"}]]
  /\ read = Idle /\ moves = 0

Next ==
  \/ \E what \in {"fit", "pools", "why"}, c \in Configs, s \in Scalers : Ask(what, c, s)
  \/ ListNodes \/ ListPods \/ ListAgain \/ FindPending \/ Fails \/ Leave
  \/ \E events \in SUBSET Events : ListEvents(events)
  \/ \E n \in NodeSet : (\E k \in GpuCounts : Resize(n, k)) \/ (\E p \in Pods : Bind(p, n))
  \/ \E p \in Pods : Advance(p)

Spec == Init /\ [][Next]_gvars

-----------------------------------------------------------------------------
(* A deployment that is created without a warning has room in a cluster that   *)
(* nobody else changed since it was asked: a node with enough free GPUs for    *)
(* its largest worker, and enough of them in all.  The pools that are shown    *)
(* then add up to the cluster.  And the form never alarms about a deployment   *)
(* the backend takes without a word.                                           *)
Free(n) == IF alloc[n] > InUse(n) THEN alloc[n] - InUse(n) ELSE 0
CapacityIsHonest ==
  read.pc = "done" /\ read.what # "why" =>
    LET c == read.config
        of(pools, field) == SumFunction([p \in DOMAIN pools |-> pools[p][field]])
        free == SumFunction([n \in NodeSet |-> Free(n)])
    IN  /\ read.quiet /\ ~c.cpuOnly /\ Fit(c, read.capacity) = {} =>
             /\ \E n \in NodeSet : Free(n) >= Max(PerWorker(c))
             /\ Required(c) <= free
        /\ read.quiet /\ ~read.failed /\ read.what = "pools" =>
             /\ of(read.pools, "gpus") = read.capacity.total
             /\ of(read.pools, "available") = free
        /\ Banner(c, read.capacity, read.scaler) # "none" => Fit(c, read.capacity) # {}
=============================================================================
