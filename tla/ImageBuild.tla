------------------------------ MODULE ImageBuild ------------------------------
(* Building a model image: POST /aikit/build, its preview and                  *)
(* /infrastructure/setup (backend/src/routes/aikit.ts), buildImage of          *)
(* services/aikit.ts, ensureRegistry of services/registry.ts and ensureBuilder *)
(* and build of services/buildkit.ts.  Each request makes the registry and the *)
(* builder itself, without a lock, then builds and pushes.                     *)
EXTENDS Naturals, Sequences, FiniteSets

CONSTANTS
  Builds,     \* requests in flight
  Models,     \* a GGUF file of a repository, with the tag its name gives
  NameOf,     \* sanitizeImageName of the repository of a model
  TagOf,      \* extractQuantization of the file of a model
  Premade,    \* the models of PREMADE_MODELS
  ImageOf,    \* the image of a premade model
  Ours,       \* the name of our builder
  Listings,   \* what others have in `docker buildx ls`: sequences of lines after ours
  MaxPolls,   \* checks that fit into the 60 s of waitForReady
  MaxLosses   \* bound: restarts of the registry pod

VARIABLES
  namespace,   \* the registry's namespace exists
  registry,    \* its Deployment: "none", "starting" or "ready"
  service,     \* its Service exists
  images,      \* the model behind each name and tag of the registry
  builder,     \* our builder: "none", "stopped" or "running"
  listed,      \* the lines of other builders that follow ours
  losses,      \* registry restarts so far
  build        \* the requests

bvars == <<namespace, registry, service, images, builder, listed, losses, build>>

Refs == {<<NameOf[m], TagOf[m]>> : m \in Models}
NoImage == "none"

Idle == [model |-> NoImage, setup |-> FALSE, pc |-> "free", polls |-> 0,
         tries |-> 0, answer |-> 0, ref |-> << >>, intact |-> TRUE]

(* The name kept for "no model" names no model, and the time waited is a       *)
(* number of polls.                                                            *)
BuildAssumption == NoImage \notin Models /\ MaxPolls \in Nat

-----------------------------------------------------------------------------
(* The image reference a build returns: the registry as the kubelets see it    *)
(* (localhost and the node port); the push goes to the Service.                *)
\* Mutant: the Service's name, which no kubelet resolves.
BuildRefInCluster(m) == <<"registry", NameOf[m], TagOf[m]>>
BuildRef(m)   == <<"localhost", NameOf[m], TagOf[m]>>
PushRef(m)    == <<NameOf[m], TagOf[m]>>

(* getImageRef, which the preview and the deployment form use.                 *)
PreviewRef(m) == IF m \in Premade THEN <<ImageOf[m]>>
                 ELSE <<"localhost", NameOf[m], TagOf[m]>>

(* getBuilderStatus parses `docker buildx ls`.  A line has a first word, tells *)
(* whether it belongs to a node, and whether it says running.                  *)
OwnLines == CASE builder = "none"    -> << >>
              [] builder = "stopped" -> <<[name |-> Ours, running |-> FALSE],
                                          [name |-> "node", running |-> FALSE]>>
              [] OTHER               -> <<[name |-> Ours, running |-> FALSE],
                                          [name |-> "node", running |-> TRUE]>>
Lines == OwnLines \o listed
BuilderFound == \E i \in DOMAIN Lines : Lines[i].name = Ours
BuilderReady == \E i, j \in DOMAIN Lines : /\ Lines[i].name = Ours
                                           /\ j >= i /\ Lines[j].running

-----------------------------------------------------------------------------
Set(b, new) == build' = [build EXCEPT ![b] = new]
Goto(b, pc) == Set(b, [build[b] EXCEPT !.pc = pc, !.tries = 0, !.polls = 0])
Answer(b, code) ==
  Set(b, [build[b] EXCEPT !.pc = "done", !.answer = code, !.tries = 0, !.polls = 0])
Infra == UNCHANGED <<namespace, registry, service, images, builder, listed, losses>>

(* A request: a premade model is answered at once, anything else needs the     *)
(* registry and the builder; setup stops when they are there.                  *)
Request(b, m, setup) ==
  /\ build[b].pc = "free"
  /\ m \in Premade => ~setup
  /\ Set(b, IF m \in Premade
            THEN [Idle EXCEPT !.model = m, !.pc = "done", !.answer = 200, !.ref = <<ImageOf[m]>>]
            ELSE [Idle EXCEPT !.model = m, !.setup = setup, !.pc = "ns"])
  /\ Infra

(* ensureNamespace is not retried; a 404 of the read creates it, and a create  *)
(* that finds it there by then fails.                                          *)
ReadNamespace(b, works) ==
  /\ build[b].pc = "ns"
  /\ IF ~works THEN Answer(b, 500)
     ELSE Goto(b, IF namespace THEN "readRegistry" ELSE "makeNs")
  /\ Infra

MakeNamespace(b, works) ==
  /\ build[b].pc = "makeNs"
  /\ namespace' = (namespace \/ works)
  /\ IF works /\ ~namespace THEN Goto(b, "readRegistry") ELSE Answer(b, 500)
  /\ UNCHANGED <<registry, service, images, builder, listed, losses>>

ReadRegistry(b, works) ==
  /\ build[b].pc = "readRegistry"
  /\ IF ~works THEN Answer(b, 500)
     ELSE Goto(b, IF registry # "none" THEN "readService" ELSE "makeRegistry")
  /\ Infra

ReadService(b, works) ==
  /\ build[b].pc = "readService"
  /\ IF ~works THEN Answer(b, 500) ELSE Goto(b, IF service THEN "wait" ELSE "makeService")
  /\ Infra

(* Creates inside withRetry: an answer that is lost makes the same create run  *)
(* again, and a 409 is not retried.                                            *)
Create(b, outcome, there, next) ==
  IF outcome = "answered" THEN IF there THEN Answer(b, 500) ELSE Goto(b, next)
  ELSE IF build[b].tries < 1
       THEN Set(b, [build[b] EXCEPT !.tries = @ + 1])
       ELSE Answer(b, 500)

MakeRegistry(b, outcome) ==
  /\ build[b].pc = "makeRegistry"
  /\ Create(b, outcome, registry # "none", "readService")
  /\ registry' = IF outcome # "failed" /\ registry = "none" THEN "starting" ELSE registry
  /\ UNCHANGED <<namespace, service, images, builder, listed, losses>>

MakeService(b, outcome) ==
  /\ build[b].pc = "makeService"
  /\ Create(b, outcome, service, "wait")
  /\ service' = (service \/ outcome # "failed")
  /\ UNCHANGED <<namespace, registry, images, builder, listed, losses>>

(* waitForReady: polls until ready or the time is up, with one last check.     *)
WaitRegistry(b) ==
  /\ build[b].pc = "wait"
  /\ IF registry = "ready" THEN Goto(b, "docker")
     ELSE IF build[b].polls < MaxPolls
          THEN Set(b, [build[b] EXCEPT !.polls = @ + 1])
          ELSE Answer(b, 500)
  /\ Infra

(* ensureBuilder: docker and buildx can be run, then the builder's status,     *)
(* create when it is not there, bootstrap when it does not run, status again.  *)
(* A listing that fails or times out reads as no builder.                      *)
FindBuilder(b, docker, works) ==
  /\ build[b].pc = "docker"
  /\ IF ~docker THEN Answer(b, 500)
     ELSE Goto(b, IF works /\ BuilderFound THEN "probe" ELSE "create")
  /\ Infra

CreateBuilder(b, works) ==
  /\ build[b].pc = "create"
  /\ builder' = IF works /\ builder = "none" THEN "stopped" ELSE builder
  /\ IF works /\ builder = "none" THEN Goto(b, "probe") ELSE Answer(b, 500)
  /\ UNCHANGED <<namespace, registry, service, images, listed, losses>>

ProbeBuilder(b, works) ==
  /\ build[b].pc = "probe"
  /\ Goto(b, IF works /\ BuilderReady THEN "confirm" ELSE "bootstrap")
  /\ Infra

Bootstrap(b, works) ==
  /\ build[b].pc = "bootstrap"
  /\ builder' = IF works /\ builder # "none" THEN "running" ELSE builder
  /\ IF works /\ builder # "none" THEN Goto(b, "confirm") ELSE Answer(b, 500)
  /\ UNCHANGED <<namespace, registry, service, images, listed, losses>>

ConfirmBuilder(b, works) ==
  LET ready == works /\ BuilderReady IN
  /\ build[b].pc = "confirm"
  /\ IF ~ready THEN Answer(b, 500)
     ELSE IF build[b].setup THEN Answer(b, 200) ELSE Goto(b, "build")
  /\ Infra

(* docker buildx build --push, killed after ten minutes.  It starts the        *)
(* builder itself when that is stopped.                                        *)
RunBuild(b, works) ==
  LET m == build[b].model
      pushed == works /\ registry = "ready" /\ service /\ builder # "none"
  IN
  /\ build[b].pc = "build"
  /\ images' = IF pushed THEN [images EXCEPT ![PushRef(m)] = m] ELSE images
  /\ builder' = IF pushed THEN "running" ELSE builder
  /\ build' = [c \in Builds |->
       IF c = b THEN [build[b] EXCEPT !.pc = "done", !.answer = IF pushed THEN 200 ELSE 500,
                                      !.ref = IF pushed THEN BuildRef(m) ELSE << >>]
       ELSE IF pushed /\ build[c].model # NoImage /\ build[c].model \notin Premade
               /\ build[c].model # m /\ PushRef(build[c].model) = PushRef(m)
            THEN [build[c] EXCEPT !.intact = FALSE] ELSE build[c]]
  /\ UNCHANGED <<namespace, registry, service, listed, losses>>

Collect(b) == build[b].pc = "done" /\ Set(b, Idle) /\ Infra

-----------------------------------------------------------------------------
(* The cluster: the registry's pod starts, and restarts with an empty          *)
(* directory; the builder's pod stops; others come and go in the listing.      *)
RegistryStarts ==
  /\ registry = "starting" /\ registry' = "ready"
  /\ UNCHANGED <<namespace, service, images, builder, listed, losses, build>>

RegistryRestarts ==
  /\ registry = "ready" /\ losses < MaxLosses
  /\ registry' = "starting" /\ losses' = losses + 1
  /\ images' = [r \in Refs |-> NoImage]
  /\ build' = [b \in Builds |-> [build[b] EXCEPT !.intact = FALSE]]
  /\ UNCHANGED <<namespace, service, builder, listed>>

BuilderStops ==
  /\ builder = "running" /\ losses < MaxLosses
  /\ builder' = "stopped" /\ losses' = losses + 1
  /\ UNCHANGED <<namespace, registry, service, images, listed, build>>

Init ==
  /\ namespace \in BOOLEAN /\ registry = "none" /\ service = FALSE
  /\ images = [r \in Refs |-> NoImage]
  /\ builder \in {"none", "stopped"} /\ listed \in Listings /\ losses = 0
  /\ build = [b \in Builds |-> Idle]

Step(b) ==
  \/ WaitRegistry(b) \/ Collect(b)
  \/ \E works \in BOOLEAN :
       \/ ReadNamespace(b, works) \/ MakeNamespace(b, works) \/ ReadRegistry(b, works)
       \/ ReadService(b, works) \/ \E docker \in BOOLEAN : FindBuilder(b, docker, works)
       \/ CreateBuilder(b, works) \/ ProbeBuilder(b, works) \/ Bootstrap(b, works)
       \/ ConfirmBuilder(b, works) \/ RunBuild(b, works)
  \/ \E outcome \in {"answered", "lost", "failed"} :
       MakeRegistry(b, outcome) \/ MakeService(b, outcome)

Next ==
  \/ \E b \in Builds : \/ \E m \in Models \cup Premade, s \in BOOLEAN : Request(b, m, s)
                       \/ Step(b)
  \/ RegistryStarts \/ RegistryRestarts \/ BuilderStops

Spec == Init /\ [][Next]_bvars

-----------------------------------------------------------------------------
TypeOK ==
  /\ {namespace, service} \subseteq BOOLEAN
  /\ registry \in {"none", "starting", "ready"}
  /\ builder \in {"none", "stopped", "running"}
  /\ images \in [Refs -> Models \cup {NoImage}]
  /\ \A b \in Builds : build[b].answer \in {0, 200, 500} /\ build[b].polls \in 0..MaxPolls

(* A build that is answered with an image pushed it: the reference is the one  *)
(* the preview named and the kubelet will pull, and behind it is the model     *)
(* that was asked for, as long as the registry keeps its data and no other     *)
(* model is built under the same name and tag.                                 *)
AnsweredImageIsThere ==
  \A b \in Builds :
    LET q == build[b] IN
    /\ q.ref # << >> => q.ref = PreviewRef(q.model)
    /\ q.answer = 200 /\ ~q.setup /\ q.model \notin Premade /\ q.intact =>
         /\ Len(q.ref) = 3 /\ <<q.ref[2], q.ref[3]>> \in Refs
         /\ images[<<q.ref[2], q.ref[3]>>] = q.model
=============================================================================
