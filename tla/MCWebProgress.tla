--------------------------- MODULE MCWebProgress ---------------------------
(* The installer, the session and the details pages for TLC: the parts of the  *)
(* web backend and its clients that owe something in the end.  A behaviour is  *)
(* about one of them, which `part` names; the others keep an initial state in  *)
(* which nothing that is owed to them is left to do.                           *)
EXTENDS Naturals, Sequences, FiniteSets

CONSTANTS Installs, Crds, Charts, MaxMeddling, Tabs, Tokens, Protected, MaxRequests, MaxLogins,
          Shown, PodNames, PodStates, Replicas, Slots, MaxChanges, MaxOpens, MaxFailures

Parts == {"install", "session", "pages"}

VARIABLES
  part,
  provider, crds, releases, operator, meddled, job, page,
  stored, tabs, requests, valid, logins,
  ui, cluster, target, data, flights, selected, spent

installVars == <<provider, crds, releases, operator, meddled, job, page>>
sessionVars == <<stored, tabs, requests, valid, logins>>
pageVars    == <<ui, cluster, target, data, flights, selected, spent>>
allVars     == <<part, installVars, sessionVars, pageVars>>

-----------------------------------------------------------------------------
MCCharts == <<[managed |-> TRUE, fetched |-> FALSE, crds |-> <<"c1">>, pre |-> << >>],
              [managed |-> FALSE, fetched |-> TRUE, crds |-> <<"c1">>, pre |-> <<"c1">>]>>
Install == INSTANCE RuntimeInstall
  WITH Requests <- Installs, Clicked <- (CHOOSE r \in Installs : TRUE), MaxChanges <- MaxMeddling

SignIn == INSTANCE Session

Pages == INSTANCE DeploymentPages

ASSUME ProgressAssumption ==
  Install!InstallAssumption /\ SignIn!SessionAssumption /\ Pages!PagesAssumption

-----------------------------------------------------------------------------
(* An installer that nobody polls: its provider is not registered.             *)
InstallAsleep ==
  /\ provider = [registered |-> FALSE, requiresCRD |-> FALSE, probed |-> FALSE, ready |-> FALSE,
                 charts |-> FALSE]
  /\ crds = [c \in Crds |-> "none"] /\ releases = [i \in 1..Len(Charts) |-> "none"]
  /\ operator = FALSE /\ meddled = 0
  /\ job = [r \in Installs |-> Install!NoJob] /\ page = Install!Blank

Init ==
  /\ part \in Parts
  /\ IF part = "install" THEN Install!Init ELSE InstallAsleep
  /\ SignIn!Init
  /\ Pages!Init
  /\ part = "pages" \/ ui = "web"

Next ==
  \/ /\ part = "install" /\ Install!Next
     /\ UNCHANGED <<part, sessionVars, pageVars>>
  \/ /\ part = "session" /\ SignIn!Next
     /\ UNCHANGED <<part, installVars, pageVars>>
  \/ /\ part = "pages" /\ Pages!Next
     /\ UNCHANGED <<part, installVars, sessionVars>>

Fairness == Install!Fairness /\ SignIn!Fairness /\ Pages!Fairness
Spec == Init /\ [][Next]_allVars /\ Fairness

-----------------------------------------------------------------------------
(* The types of every part's state.                                            *)
TypeOK == part \in Parts /\ Install!TypeOK /\ SignIn!TypeOK /\ Pages!TypeOK

(* An install or uninstall that succeeded did all of it (installation.ts), and *)
(* an install that was answered leaves no directory of a chart (helm.ts).      *)
InstallsCleanly == Install!SuccessIsComplete /\ Install!TempDirsRemoved

(* An install takes over another tool's CRD only with a preCrdUrl, or when the *)
(* CRD came between its look and its apply (services/helm.ts).                 *)
ForeignCrdsKept == Install!ForeignCrdsKept

(* A page that waits for a runtime stops waiting when it is there to stay.     *)
WaitingEnds == Install!WaitingEnds

(* Only a refusal by the backend signs the user out.                           *)
OnlyARefusalSignsOut == SignIn!OnlyARefusalSignsOut

(* A tab does not go on with a token the cluster does not accept.              *)
StaleSessionEnds == SignIn!StaleSessionEnds

(* A details page comes to show its deployment as it is.                       *)
PageCatchesUp == Pages!PageCatchesUp
=============================================================================
