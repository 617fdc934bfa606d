---------------------------- MODULE RuntimeInstall ----------------------------
(* Installing and removing a runtime (the operator behind a provider): the    *)
(* install, uninstall and uninstall-crds routes of                            *)
(* backend/src/routes/installation.ts with the helm and kubectl commands of    *)
(* services/helm.ts, the probe of services/kubernetes.ts that says whether the *)
(* runtime is there, and the page of the web frontend that offers the buttons  *)
(* (SettingsPage.tsx).                                                         *)
(*                                                                             *)
(* Every command is a process of its own and takes no lock, so two requests,   *)
(* other tools and the runtime's own operator interleave between commands.     *)
EXTENDS Naturals, Sequences, FiniteSets

CONSTANTS
  Requests,   \* requests in flight
  Clicked,    \* the one of them that the page sends
  Crds,       \* the custom resource definitions the charts bring
  Charts,     \* the charts of the provider, in the order of its annotation
  MaxChanges  \* bound: what others do to CRDs, releases and the registration

(* managed: preInstallMissingCrds, so the chart's CRDs are installed one by    *)
(* one when they are missing.  fetched: it comes from a fetchUrl.  crds: the   *)
(* CRDs it brings, none with skipCrds.  pre: those of its preCrdUrls.          *)
InstallAssumption ==
  /\ Charts \in Seq([managed : BOOLEAN, fetched : BOOLEAN, crds : Seq(Crds), pre : Seq(Crds)])
  /\ MaxChanges \in Nat

VARIABLES
  provider,    \* what the provider's registration declares, and that it is there
  crds,        \* who brought a CRD: "none", "foreign" or "ours"
  releases,    \* the Helm release of each chart
  operator,    \* the runtime's operator has a ready pod
  meddled,     \* what others did so far
  job,         \* the requests
  page         \* the settings page

ivars == <<provider, crds, releases, operator, meddled, job, page>>

NCharts == Len(Charts)
Providers == [registered : BOOLEAN, requiresCRD : BOOLEAN, probed : BOOLEAN,
              ready : BOOLEAN, charts : BOOLEAN]
ChartCrds(i) == {Charts[i].crds[k] : k \in DOMAIN Charts[i].crds}
PreCrds(i) == {Charts[i].pre[k] : k \in DOMAIN Charts[i].pre}
AllCrds == UNION {ChartCrds(i) \cup PreCrds(i) : i \in 1..NCharts}
(* The CRDs the installer itself sees to; helm brings those of the other       *)
(* charts, and only with a new release.                                        *)
EnsuredCrds(i) == PreCrds(i) \cup (IF Charts[i].managed THEN ChartCrds(i) ELSE {})

(* saw and alone are history: the CRDs that were there when the request last   *)
(* looked for one and found it missing, and that nobody else changed the       *)
(* cluster since it began.                                                     *)
NoJob == [op |-> "none", pc |-> "free", chart |-> 0, crd |-> 0, answer |-> 0,
          ok |-> TRUE, temp |-> FALSE, crashed |-> FALSE, saw |-> {}, alone |-> TRUE]
NoStatus == [verdict |-> "none", requiresCRD |-> TRUE, installable |-> FALSE]
Blank == [status |-> NoStatus, pending |-> FALSE, sent |-> FALSE]

-----------------------------------------------------------------------------
(* Probes.  Any failure to read a CRD says that it is not there; the selectors *)
(* of the operator's Pods are tried in turn, past those that fail, and what    *)
(* none of them finds is not there either.                                     *)
CrdFound(c, works) == works /\ crds[c] # "none"
PodFound(works) == works /\ operator
InstalledByProbe(works) == PodFound(works) /\ \A c \in AllCrds : CrdFound(c, works)

(* checkProviderInstallationStatus and getProviderInstallationContext: a       *)
(* provider without a runtime of its own reports its readiness, one without a  *)
(* probe is unknown.                                                           *)
Verdicts == {"installed", "not-installed", "unknown"}
Verdict(probeWorks) ==
  IF provider.requiresCRD /\ ~provider.probed THEN "unknown"
  ELSE IF IF provider.requiresCRD THEN InstalledByProbe(probeWorks) ELSE provider.ready
       THEN "installed" ELSE "not-installed"

(* GET /providers/:id/status: what the page is told.                           *)
Report(probeWorks) ==
  [verdict |-> Verdict(probeWorks), requiresCRD |-> provider.requiresCRD,
   installable |-> provider.requiresCRD /\ provider.charts
                     /\ ~(provider.requiresCRD /\ ~provider.probed)]

-----------------------------------------------------------------------------
(* The page.                                                                   *)
Loaded == page.status # NoStatus
Unknown == page.status.requiresCRD /\ page.status.verdict = "unknown"
Installed == page.status.verdict = "installed"
Waiting == Loaded /\ page.pending /\ page.status.requiresCRD
             /\ page.status.verdict = "not-installed"
Running(op) == page.sent /\ job[Clicked].op = op   \* isInstalling, isUninstalling
OffersInstall == /\ Loaded /\ page.status.requiresCRD
                 /\ ~Installed /\ ~Unknown /\ page.status.installable
                 /\ ~Running("install") /\ ~Waiting
OffersUninstall == /\ Loaded /\ page.status.requiresCRD /\ Installed
                   /\ ~Running("uninstall")

\* Mutant: the effect does not drop the pending mark, the page shows the status late.
PollKeepsWaiting(probeWorks) ==
  /\ provider.registered
  /\ page' = [page EXCEPT !.status = IF page.pending THEN @ ELSE Report(probeWorks)]
  /\ UNCHANGED <<provider, crds, releases, operator, meddled, job>>

(* The status query, every 30 s and every 5 s while the page waits.  The       *)
(* effect drops the pending mark once the runtime shows as installed.          *)
Poll(probeWorks) ==
  /\ provider.registered
  /\ page' = [page EXCEPT !.status = Report(probeWorks),
                !.pending = @ /\ Verdict(probeWorks) # "installed"]
  /\ UNCHANGED <<provider, crds, releases, operator, meddled, job>>

Begin(r, op) ==
  LET alone == \A s \in Requests : job[s].pc = "free" IN
  job' = [s \in Requests |->
            IF s = r THEN [NoJob EXCEPT !.op = op, !.pc = "context", !.alone = alone]
            ELSE [job[s] EXCEPT !.alone = @ /\ job[s].pc = "free"]]

ClickInstall ==
  /\ OffersInstall /\ ~page.sent /\ job[Clicked].pc = "free"
  /\ Begin(Clicked, "install")
  /\ page' = [page EXCEPT !.sent = TRUE]
  /\ UNCHANGED <<provider, crds, releases, operator, meddled>>

ClickUninstall ==
  /\ OffersUninstall /\ ~page.sent /\ job[Clicked].pc = "free"
  /\ Begin(Clicked, "uninstall")
  /\ page' = [page EXCEPT !.sent = TRUE]
  /\ UNCHANGED <<provider, crds, releases, operator, meddled>>

(* The answer reaches the page, which waits for the runtime after an install   *)
(* and stops waiting after an uninstall.  (The buttons exclude each other      *)
(* while the status stays; the model allows one request of the page at a time.)*)
Deliver ==
  LET q == job[Clicked] IN
  /\ page.sent /\ q.pc = "done"
  /\ page' = [page EXCEPT !.sent = FALSE,
                !.pending = IF q.answer = 200 /\ q.ok THEN q.op = "install" ELSE @]
  /\ UNCHANGED <<provider, crds, releases, operator, meddled, job>>

(* Leaving the page forgets all of it, the running request included.           *)
Leave ==
  /\ page # Blank
  /\ page' = Blank
  /\ UNCHANGED <<provider, crds, releases, operator, meddled, job>>

(* Another user, the plugin or curl posts without asking the page.             *)
Post(r, op) ==
  /\ job[r].pc = "free"
  /\ Begin(r, op)
  /\ UNCHANGED <<provider, crds, releases, operator, meddled, page>>

-----------------------------------------------------------------------------
(* The routes.                                                                 *)
Set(r, new) == job' = [job EXCEPT ![r] = new]
Goto(r, pc) == Set(r, [job[r] EXCEPT !.pc = pc])
Reply(r, code) == Set(r, [job[r] EXCEPT !.pc = "done", !.answer = code])
Cluster == UNCHANGED <<provider, crds, releases, operator>>
Rest == UNCHANGED <<meddled, page>>

(* The checks before the first command.                                        *)
CheckContext(r) ==
  LET op == job[r].op IN
  /\ job[r].pc = "context"
  /\ IF ~provider.registered THEN Reply(r, 404)
     ELSE IF op = "forget" THEN Goto(r, "forget")
     ELSE IF ~provider.requiresCRD THEN Reply(r, 400)
     ELSE IF ~provider.probed THEN Reply(r, 409)
     ELSE IF op = "install" /\ ~provider.charts THEN Reply(r, 400)
     ELSE Goto(r, "helm")
  /\ Cluster /\ Rest

(* helm version, then for an install repo add and repo update.  A command that  *)
(* fails or runs into its timeout ends the request, with 400 when helm cannot  *)
(* be run and else with 403, 409 or 500.                                       *)
\* Mutant: a failure leaves the chart's directory.
FailedUncleaned(r) ==
  Set(r, [job[r] EXCEPT !.pc = "done", !.answer = 500, !.chart = 0, !.crd = 0, !.saw = {}])
Failed(r) == Set(r, [job[r] EXCEPT !.pc = "done", !.answer = 500, !.temp = FALSE,
                       !.chart = 0, !.crd = 0, !.saw = {}])

\* Mutant: the end of the charts is not seen.
OnToBeyond(q, i) == [q EXCEPT !.pc = "install", !.chart = i, !.crd = 0]
(* What follows the preCrdUrls.  A managed chart is pulled here, and its       *)
(* fetchUrl is dropped; the other charts are fetched by install.               *)
AfterPre(i) ==
  IF Charts[i].managed THEN "pull" ELSE IF Charts[i].fetched THEN "fetch" ELSE "install"
(* installProvider goes on to chart i, or is done.                             *)
OnTo(q, i) ==
  IF i > NCharts THEN [q EXCEPT !.pc = "done", !.answer = 200, !.chart = 0, !.crd = 0]
  ELSE IF Charts[i].pre # << >> THEN [q EXCEPT !.pc = "pre", !.chart = i, !.crd = 1]
  ELSE [q EXCEPT !.pc = AfterPre(i), !.chart = i, !.crd = 0]

Prepare(r, outcome) ==
  LET q == job[r] IN
  /\ q.pc = "helm"
  /\ \/ outcome = "noHelm" /\ Reply(r, 400)
     \/ outcome = "failed" /\ q.op = "install" /\ Failed(r)
     \/ outcome = "ok" /\ q.op = "install" /\ Set(r, OnTo(q, 1))
     \/ outcome = "ok" /\ q.op = "uninstall"
        /\ Set(r, [q EXCEPT !.pc = "remove", !.chart = IF provider.charts THEN NCharts ELSE 0])
  /\ Cluster /\ Rest

(* kubectl apply -f of the next preCrdUrl, whether the CRD is there or not.    *)
(* Like every command, one that fails or is killed may have taken effect.      *)
ApplyPre(r, works, done) ==
  LET q == job[r]
      urls == Charts[q.chart].pre
  IN
  /\ q.pc = "pre" /\ (works => done)
  /\ crds' = IF done THEN [crds EXCEPT ![urls[q.crd]] = "ours"] ELSE crds
  /\ IF ~works THEN Failed(r)
     ELSE IF q.crd < Len(urls) THEN Set(r, [q EXCEPT !.crd = @ + 1])
     ELSE Set(r, [q EXCEPT !.pc = AfterPre(q.chart), !.crd = 0])
  /\ UNCHANGED <<provider, releases, operator>> /\ Rest

(* pullChartToTempDir: a failed pull removes its directory itself.             *)
PullChart(r, works) ==
  /\ job[r].pc = "pull"
  /\ IF works THEN Set(r, [job[r] EXCEPT !.pc = "crd", !.crd = 1, !.temp = TRUE])
     ELSE Failed(r)
  /\ Cluster /\ Rest

(* getChartCrdDocuments throws on a CRD file it cannot read or parse: nothing  *)
(* on the way up removes the directory.                                        *)
ReadCrdsThrows(r) ==
  /\ job[r].pc = "crd" /\ job[r].crd = 1
  /\ Set(r, [job[r] EXCEPT !.pc = "done", !.answer = 500, !.crashed = TRUE])
  /\ Cluster /\ Rest

(* ensureChartCrdsInstalled: kubectl get, then apply when there is none.       *)
Missing(q) == [q EXCEPT !.pc = "apply", !.saw = {c \in Crds : crds[c] # "none"}]
\* Mutant: what is there is applied again.
CheckCrdApplies(r, works) ==
  LET q == job[r] IN
  /\ q.pc = "crd"
  /\ IF q.crd > Len(Charts[q.chart].crds) THEN Goto(r, "install")
     ELSE IF works THEN Set(r, Missing(q)) ELSE Failed(r)
  /\ Cluster /\ Rest

CheckCrd(r, works) ==
  LET q == job[r]
      chartCrds == Charts[q.chart].crds
  IN
  /\ q.pc = "crd"
  /\ IF q.crd > Len(chartCrds) THEN Goto(r, "install")
     ELSE IF ~works THEN Failed(r)
     ELSE IF crds[chartCrds[q.crd]] # "none" THEN Set(r, [q EXCEPT !.crd = @ + 1])
     ELSE Set(r, Missing(q))
  /\ Cluster /\ Rest

(* kubectl apply --server-side --force-conflicts takes over what is there.     *)
ApplyCrd(r, works, done) ==
  LET q == job[r] IN
  /\ q.pc = "apply" /\ (works => done)
  /\ crds' = IF done THEN [crds EXCEPT ![Charts[q.chart].crds[q.crd]] = "ours"] ELSE crds
  /\ IF works THEN Set(r, [q EXCEPT !.pc = "crd", !.crd = @ + 1, !.saw = {}]) ELSE Failed(r)
  /\ UNCHANGED <<provider, releases, operator>> /\ Rest

(* install: helm pull of the fetchUrl into a directory all requests share.     *)
FetchChart(r, works) ==
  /\ job[r].pc = "fetch"
  /\ IF works THEN Goto(r, "install") ELSE Failed(r)
  /\ Cluster /\ Rest

(* helm upgrade --install begins.  Helm refuses a release on which another     *)
(* operation is pending or whose removal began; with a new release it first    *)
(* creates the missing CRDs of a chart, unless --skip-crds is given, of which  *)
(* a run that ends there may have created some.                                *)
Lacking(i) == {c \in ChartCrds(i) : crds[c] = "none" /\ releases[i] = "none" /\ ~Charts[i].managed}
StartHelm(r, works, brought) ==
  LET i == job[r].chart IN
  /\ job[r].pc = "install"
  /\ brought \subseteq Lacking(i)
  /\ crds' = [c \in Crds |-> IF c \in brought THEN "ours" ELSE crds[c]]
  /\ IF works
     THEN /\ releases[i] \notin {"pending", "removing"} /\ brought = Lacking(i)
          /\ releases' = [releases EXCEPT ![i] = "pending"]
          /\ Goto(r, "helming")
     ELSE Failed(r) /\ UNCHANGED releases
  /\ UNCHANGED <<provider, operator>> /\ Rest

(* It ends.  One that fails, or is killed after five minutes, may leave the    *)
(* release pending or even deployed; either way the directory of the chart is  *)
(* removed.                                                                    *)
EndHelm(r, works, left) ==
  LET q == job[r]
      release == releases[q.chart]
  IN
  /\ q.pc = "helming"
  /\ left \in IF release # "pending" THEN {release}
              ELSE IF works THEN {"deployed"} ELSE {"failed", "pending", "deployed"}
  /\ releases' = [releases EXCEPT ![q.chart] = left]
  /\ IF works THEN Set(r, OnTo([q EXCEPT !.temp = FALSE], q.chart + 1)) ELSE Failed(r)
  /\ UNCHANGED <<provider, crds, operator>> /\ Rest

(* Uninstall goes through the charts from the last to the first and goes on    *)
(* after a failure; helm fails on a release that is not there, and one that    *)
(* fails or is killed may have begun or even done the removal.                 *)
RemoveChart(r, works, left) ==
  LET q == job[r]
      release == releases[q.chart]
  IN
  /\ q.pc = "remove" /\ q.chart > 0
  /\ IF release = "none" THEN left = "none" /\ ~works
     ELSE left \in IF works THEN {"none"} ELSE {release, "removing", "none"}
  /\ releases' = [releases EXCEPT ![q.chart] = left]
  /\ Set(r, [q EXCEPT !.chart = @ - 1, !.ok = @ /\ works])
  /\ UNCHANGED <<provider, crds, operator>> /\ Rest

ChartsRemoved(r) ==
  /\ job[r].pc = "remove" /\ job[r].chart = 0
  /\ Reply(r, 200)
  /\ Cluster /\ Rest

(* uninstall-crds deletes the registration.  deleteInferenceProviderConfig     *)
(* returns its failures, the lost answer to a delete that worked among them,   *)
(* and the route does not look at what it returns.                             *)
Forget(r, works) ==
  /\ job[r].pc = "forget"
  /\ provider' = IF works THEN [provider EXCEPT !.registered = FALSE] ELSE provider
  /\ Set(r, [job[r] EXCEPT !.pc = "done", !.answer = 200])
  /\ UNCHANGED <<crds, releases, operator>> /\ Rest

Finished(r) ==
  /\ job[r].pc = "done" /\ ~(r = Clicked /\ page.sent)
  /\ Set(r, NoJob)
  /\ Cluster /\ Rest

-----------------------------------------------------------------------------
(* Others: the operator starts once its charts and CRDs are there and stops    *)
(* with them; another tool brings or removes a CRD; someone works on a release *)
(* with helm; the shim registers again.                                        *)
Runnable == /\ \A i \in 1..NCharts : releases[i] = "deployed"
            /\ \A c \in AllCrds : crds[c] # "none"

OperatorStarts ==
  /\ ~operator /\ Runnable /\ operator' = TRUE
  /\ UNCHANGED <<provider, crds, releases, meddled, job, page>>
OperatorStops ==
  /\ operator /\ ~Runnable /\ operator' = FALSE
  /\ UNCHANGED <<provider, crds, releases, meddled, job, page>>

Meddle == meddled < MaxChanges /\ meddled' = meddled + 1 /\ UNCHANGED <<operator, page>>
NoLongerAlone == [r \in Requests |-> [job[r] EXCEPT !.alone = FALSE]]

OthersChangeCrd(c) ==
  /\ Meddle
  /\ crds' = [crds EXCEPT ![c] = IF @ = "none" THEN "foreign" ELSE "none"]
  /\ job' = NoLongerAlone
  /\ UNCHANGED <<provider, releases>>

OthersChangeRelease(i) ==
  /\ Meddle
  /\ \E state \in {"none", "pending", "deployed"} :
       state # releases[i] /\ releases' = [releases EXCEPT ![i] = state]
  /\ job' = NoLongerAlone
  /\ UNCHANGED <<provider, crds>>

Register ==
  /\ Meddle /\ ~provider.registered
  /\ provider' = [provider EXCEPT !.registered = TRUE]
  /\ UNCHANGED <<crds, releases, job>>

Init ==
  /\ provider \in {p \in Providers : /\ p.registered
                                     /\ p.requiresCRD => ~p.ready
                                     /\ ~p.requiresCRD => ~p.probed /\ ~p.charts}
  /\ crds \in [Crds -> {"none", "foreign"}]
  /\ releases = [i \in 1..NCharts |-> "none"]
  /\ operator = FALSE /\ meddled = 0
  /\ job = [r \in Requests |-> NoJob]
  /\ page = Blank

(* How a command ends for its caller.  kubectl and helm fail alike on an error, *)
(* on their timeout and when they cannot be started.  Before an install `helm  *)
(* version`, repo add and repo update run in turn, of which the first says     *)
(* that there is no helm.                                                      *)
Preparations == {"ok", "failed", "noHelm"}
ReleaseStates == {"none", "pending", "deployed", "failed", "removing"}

Step(r) ==
  \/ CheckContext(r) \/ ReadCrdsThrows(r) \/ ChartsRemoved(r) \/ Finished(r)
  \/ \E outcome \in Preparations : Prepare(r, outcome)
  \/ \E works \in BOOLEAN :
       \/ PullChart(r, works) \/ CheckCrd(r, works) \/ FetchChart(r, works) \/ Forget(r, works)
       \/ \E done \in BOOLEAN : ApplyPre(r, works, done) \/ ApplyCrd(r, works, done)
       \/ \E brought \in SUBSET Crds : StartHelm(r, works, brought)
       \/ \E left \in ReleaseStates : EndHelm(r, works, left) \/ RemoveChart(r, works, left)

Next ==
  \/ \E works \in BOOLEAN : Poll(works)
  \/ ClickInstall \/ ClickUninstall \/ Deliver
  \/ \E r \in Requests : \/ \E op \in {"install", "uninstall", "forget"} : Post(r, op)
                         \/ Step(r)
  \/ Leave
  \/ OperatorStarts \/ OperatorStops
  \/ \E c \in Crds : OthersChangeCrd(c)
  \/ \E i \in 1..NCharts : OthersChangeRelease(i)
  \/ Register

(* A process is killed when its timeout fires and its handler goes on; answers *)
(* reach the page; its interval fires and a probe that works once in a while   *)
(* is heard; a runnable operator starts.                                       *)
Fairness ==
  /\ \A r \in Requests : WF_ivars(Step(r))
  /\ WF_ivars(Deliver) /\ WF_ivars(Poll(TRUE)) /\ WF_ivars(OperatorStarts)
Spec == Init /\ [][Next]_ivars /\ Fairness

-----------------------------------------------------------------------------
TypeOK ==
  /\ provider \in Providers
  /\ crds \in [Crds -> {"none", "foreign", "ours"}]
  /\ releases \in [1..NCharts -> ReleaseStates]
  /\ operator \in BOOLEAN /\ meddled \in 0..MaxChanges
  /\ \A r \in Requests : job[r].chart \in 0..NCharts /\ job[r].saw \subseteq Crds
  /\ {page.pending, page.sent} \subseteq BOOLEAN

(* A CRD that another tool brought becomes the install's in two ways only: it  *)
(* is one of the preCrdUrls, which are applied whatever is there, or it was    *)
(* not there yet when the install looked, and came before its forced apply.    *)
(* Helm's own CRDs, and a CRD the install has seen, never replace another's.   *)
TakesOver(c) ==
  \E r \in Requests :
    LET q == job[r] IN
    /\ job'[r] # q
    /\ \/ q.pc = "pre" /\ c = Charts[q.chart].pre[q.crd]
       \/ q.pc = "apply" /\ c = Charts[q.chart].crds[q.crd] /\ c \notin q.saw
ForeignCrdsKept ==
  [][\A c \in Crds : crds[c] = "foreign" /\ crds'[c] = "ours" => TakesOver(c)]_ivars

(* An install that is told to have succeeded, with nobody else at work, left   *)
(* every release deployed and every CRD it sees to in place; an uninstall that *)
(* succeeded left no release.                                                  *)
SuccessIsComplete ==
  \A r \in Requests :
    LET q == job[r] IN
    q.pc = "done" /\ q.answer = 200 /\ q.ok /\ q.alone /\ provider.charts =>
         /\ q.op = "install" =>
              \A i \in 1..NCharts : /\ releases[i] = "deployed"
                                    /\ \A c \in EnsuredCrds(i) : crds[c] # "none"
         /\ q.op = "uninstall" => \A i \in 1..NCharts : releases[i] = "none"

(* An answered install leaves no directory of its own behind, whichever step   *)
(* it ended at, except when the chart's CRD files could not be read.           *)
TempDirsRemoved ==
  \A r \in Requests : job[r].pc = "done" /\ ~job[r].crashed => ~job[r].temp

(* A page that waits for the runtime stops waiting when it is there to stay.   *)
WaitingEnds == <>[](operator /\ Runnable /\ provider.registered) => <>[]~Waiting
=============================================================================
