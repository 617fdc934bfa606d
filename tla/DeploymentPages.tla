--------------------------- MODULE DeploymentPages ---------------------------
(* The pages that follow a deployment: DeploymentDetails.tsx of the Headlamp   *)
(* plugin, which asks every 15 s for the deployment and its pods together and  *)
(* keeps one state whatever its route, and DeploymentDetailsPage.tsx of the    *)
(* web UI, whose queries are kept per deployment and polled apart; with the    *)
(* phase toDeploymentStatus of the shared types makes of what the cluster says.*)
EXTENDS Naturals, FiniteSets

CONSTANTS
  Shown,        \* the deployments a user looks at
  PodNames,     \* the pods they may have
  PodStates,    \* among unscheduled, scheduled, running, ready and broken
  Replicas,     \* the reported replicas, "ready" or "waiting"
  Slots,        \* bound: requests in flight
  MaxChanges,   \* bound: changes of the cluster
  MaxOpens,     \* bound: pages opened
  MaxFailures   \* bound: requests that fail

Nobody == "nobody"
PagesAssumption == PodNames # {} /\ Nobody \notin Shown
Uis == {"plugin", "web"}

VARIABLES
  ui,        \* which of the two pages this behaviour is about
  cluster,   \* per deployment: is it there, its reported phase and replicas, its pods
  target,    \* the deployment of the open page, or Nobody
  data,      \* what the page keeps: per deployment in the web UI, once in the plugin
  flights,   \* the requests in flight: for which deployment, wanting what, read so far
  selected,  \* the pod whose logs are read, or Nobody
  spent      \* changes, opens and failures so far

dvars == <<ui, cluster, target, data, flights, selected, spent>>

(* resolveReplicaStatus of an aggregated deployment of one replica: the status *)
(* as reported, or derived from the pods while there is none.                  *)
ReadyReplicas(c) ==
  IF c.replicas # "unset" THEN c.replicas = "ready"
  ELSE DOMAIN c.pods # {} /\ \A p \in DOMAIN c.pods : c.pods[p] = "ready"
FirstOf(names) == CHOOSE n \in names : TRUE
SomePod(c, states) == \E p \in DOMAIN c.pods : c.pods[p] \in states

(* resolveDeploymentPhase.                                                     *)
UpAndRunning(c) == ReadyReplicas(c) /\ (c.reported = "Running" \/ SomePod(c, {"ready"}))
Phase(c) ==
  CASE c.reported = "Terminating" -> "Terminating"
    [] c.reported # "Terminating" /\ UpAndRunning(c) -> "Running"
    [] OTHER -> CASE SomePod(c, {"broken"})      -> "Failed"
                  [] ~SomePod(c, {"broken"}) /\ SomePod(c, {"running", "ready", "scheduled"}) -> "Deploying"
                  [] OTHER -> IF SomePod(c, {"unscheduled"}) THEN "Pending" ELSE c.reported

Answer(d) == [of |-> d, there |-> cluster[d].there, phase |-> Phase(cluster[d])]
PodsOf(d) == {<<d, p, cluster[d].pods[p]>> : p \in DOMAIN cluster[d].pods}

(* The place a deployment's data has on the page.                              *)
Place(d) == IF ui = "plugin" THEN "page" ELSE d
Places == Shown \cup {"page"}
Empty == [dep |-> {}, pods |-> {}, error |-> FALSE, loading |-> FALSE]

Free == [of |-> Nobody, wants |-> {}, dep |-> {}, pods |-> {}, read |-> {}, first |-> FALSE]
Queries == IF ui = "plugin" THEN {{"dep", "pods"}} ELSE {{"dep"}, {"pods"}}

-----------------------------------------------------------------------------
(* fetchDetails, or a query of the web UI, which joins the one in flight.      *)
NextSlot(s) == flights[s].of = Nobody /\ \A o \in Slots : o < s => flights[o].of # Nobody
Ask(s, d, wants, first) ==
  /\ NextSlot(s)
  /\ ui = "web" => \A o \in Slots : ~(flights[o].of = d /\ flights[o].wants = wants)
  /\ flights' = [flights EXCEPT ![s] = [Free EXCEPT !.of = d, !.wants = wants, !.first = first]]

(* The page is opened on a deployment, or moves to it from another one: the    *)
(* plugin keeps what it showed behind a loader, the web UI shows the kept data.*)
(* (Which of the deployments is opened first makes no difference.)             *)
Open(d) ==
  /\ target # d /\ spent.opens < MaxOpens
  /\ spent.opens = 0 => d = FirstOf(Shown)
  /\ target' = d /\ spent' = [spent EXCEPT !.opens = @ + 1]
  /\ data' = [data EXCEPT ![Place(d)].loading = (ui = "plugin"), ![Place(d)].error = FALSE]
  /\ selected' = IF ui = "web" THEN Nobody ELSE selected
  /\ \E s \in Slots, wants \in Queries : Ask(s, d, wants, ui = "plugin")
  /\ UNCHANGED <<ui, cluster>>

(* The list of deployments takes the place of the page: a deletion succeeded,  *)
(* or the user goes back.  What the plugin's page knew is gone with it, and so *)
(* is its interest in answers; the queries of the web UI go on.                *)
Leave ==
  /\ target # Nobody
  /\ target' = Nobody /\ selected' = Nobody
  /\ data' = [data EXCEPT !["page"] = Empty]
  /\ flights' = IF ui = "plugin" THEN [s \in Slots |-> Free] ELSE flights
  /\ UNCHANGED <<ui, cluster, spent>>

(* The interval; the plugin takes an error off the page before it asks.        *)
Poll(wants) ==
  /\ target # Nobody
  /\ \E s \in Slots : Ask(s, target, wants, FALSE)
  /\ data' = [data EXCEPT !["page"].error = IF ui = "plugin" THEN FALSE ELSE @]
  /\ UNCHANGED <<ui, cluster, target, selected, spent>>

(* The backend reads the deployment, with its phase, or the list of its pods;  *)
(* there is no list for a deployment that is gone.                             *)
Read(s, what) ==
  LET d == flights[s].of IN
  /\ what \in flights[s].wants \ flights[s].read
  /\ flights' = [flights EXCEPT ![s].read = @ \cup {what},
       ![s].dep  = IF what = "dep" \/ ~cluster[d].there THEN {Answer(d)} ELSE @,
       ![s].pods = IF what = "pods" THEN PodsOf(d) ELSE @]
  /\ UNCHANGED <<ui, cluster, target, data, selected, spent>>

(* The log view takes the first pod; only the web UI's takes another one when  *)
(* the pod is gone.                                                            *)
Named(pods) == {p[2] : p \in pods}
Choice(pods) ==
  CASE ui = "web" /\ selected \notin Named(pods) /\ pods # {} -> FirstOf(Named(pods))
    [] ui = "web" /\ pods = {}                                -> Nobody
    [] ui = "plugin" /\ selected = Nobody /\ pods # {}        -> FirstOf(Named(pods))
    [] OTHER                                                  -> selected

NotFound(f) == \E a \in f.dep : ~a.there

(* What a request does to the place of its deployment: a plugin takes both     *)
(* answers or an error, the web UI keeps its data under an error.              *)
\* Mutant: a new answer does not take the error of an old one away.
SettledStuck(kept, f, failed) ==
  IF failed \/ NotFound(f)
  THEN [kept EXCEPT !.loading = @ /\ ~f.first, !.error = TRUE]
  ELSE [dep   |-> IF "dep" \in f.wants THEN f.dep ELSE kept.dep,
        pods  |-> IF "pods" \in f.wants THEN f.pods ELSE kept.pods,
        error |-> kept.error, loading |-> kept.loading /\ ~f.first]
Settled(kept, f, failed) ==
  IF failed \/ NotFound(f)
  THEN [kept EXCEPT !.loading = @ /\ ~f.first, !.error = @ \/ "dep" \in f.wants]
  ELSE [dep   |-> IF "dep" \in f.wants THEN f.dep ELSE kept.dep,
        pods  |-> IF "pods" \in f.wants THEN f.pods ELSE kept.pods,
        error |-> kept.error /\ (ui = "plugin" \/ "dep" \notin f.wants),
        loading |-> kept.loading /\ ~f.first]

Settle(s, failed) ==
  LET f == flights[s]
      kept == Settled(data[Place(f.of)], f, failed)
      mine == ui = "plugin" \/ f.of = target
  IN  /\ f.of # Nobody
      /\ flights' = [flights EXCEPT ![s] = Free]
      /\ data' = [data EXCEPT ![Place(f.of)] = kept]
      /\ selected' = IF mine /\ ~failed /\ "pods" \in f.wants /\ ~NotFound(f)
                     THEN Choice(kept.pods) ELSE selected
      /\ UNCHANGED <<ui, cluster, target>>

Arrive(s) == flights[s].read = flights[s].wants /\ Settle(s, FALSE) /\ UNCHANGED spent
Fail(s) ==
  /\ spent.failures < MaxFailures /\ spent' = [spent EXCEPT !.failures = @ + 1]
  /\ Settle(s, TRUE)

-----------------------------------------------------------------------------
(* The cluster: pods come, move on and go, the controller reports, someone     *)
(* deletes the deployment.                                                     *)
Changed(d, c) ==
  /\ spent.changes < MaxChanges /\ spent' = [spent EXCEPT !.changes = @ + 1]
  /\ cluster' = [cluster EXCEPT ![d] = c]
  /\ UNCHANGED <<ui, target, data, flights, selected>>

Moves(d) ==
  /\ cluster[d].there
  /\ \/ \E p \in PodNames, state \in PodStates :
          Changed(d, [cluster[d] EXCEPT !.pods = [q \in {p} |-> state]])
     \/ \E ready \in Replicas : Changed(d, [cluster[d] EXCEPT !.reported = "Running", !.replicas = ready])
     \/ Changed(d, [cluster[d] EXCEPT !.there = FALSE, !.pods = << >>])

(* handleDelete of either page asks for the deletion of what the page shows.   *)
Delete ==
  /\ target # Nobody
  /\ \E a \in data[Place(target)].dep :
       Changed(a.of, [cluster[a.of] EXCEPT !.reported = "Terminating"])

Init ==
  /\ ui \in Uis /\ target = Nobody /\ selected = Nobody
  /\ cluster = [d \in Shown |-> [there |-> TRUE, reported |-> "Pending", replicas |-> "unset",
                             pods |-> [p \in {FirstOf(PodNames)} |-> "scheduled"]]]
  /\ data = [p \in Places |-> Empty] /\ flights = [s \in Slots |-> Free]
  /\ spent = [changes |-> 0, opens |-> 0, failures |-> 0]

Next ==
  \/ \E d \in Shown : Open(d) \/ Moves(d)
  \/ \E wants \in Queries : Poll(wants)
  \/ \E s \in Slots, what \in {"dep", "pods"} : Read(s, what)
  \/ \E s \in Slots : Arrive(s) \/ Fail(s)
  \/ Delete \/ Leave

(* The timers go on while the page is open, and requests are answered.         *)
Fairness ==
  /\ \A what \in {"dep", "pods"} : SF_dvars(\E wants \in Queries : what \in wants /\ Poll(wants))
  /\ \A s \in Slots : WF_dvars(Arrive(s) \/ \E what \in {"dep", "pods"} : Read(s, what))
Spec == Init /\ [][Next]_dvars /\ Fairness

-----------------------------------------------------------------------------
TypeOK ==
  /\ ui \in Uis /\ target \in Shown \cup {Nobody} /\ selected \in PodNames \cup {Nobody}
  /\ \A p \in Places : (\A a, b \in data[p].dep : a = b) /\ data[p].error \in BOOLEAN
  /\ \A s \in Slots : flights[s].of \in Shown \cup {Nobody} /\ flights[s].read \subseteq flights[s].wants

(* Once the cluster is quiet and answers, the page comes to show the           *)
(* deployment of its route as it is, with its pods, and stays with it; or that *)
(* it is gone, again and again.  No answer that was late and no failure leaves *)
(* it behind for good, and the log view of the web UI reads a pod that exists. *)
UpToDate(kept) ==
  /\ kept.dep = {Answer(target)} /\ kept.pods = PodsOf(target) /\ ~kept.error /\ ~kept.loading
  /\ (ui = "web" /\ kept.pods # {}) => selected \in Named(kept.pods)
Exists == target # Nobody /\ cluster[target].there
PageCatchesUp ==
  /\ <>[](Exists => UpToDate(data[Place(target)]))
  /\ []<>(target # Nobody => Exists \/ data[Place(target)].error)
=============================================================================
