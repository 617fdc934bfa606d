------------------------- MODULE BackendServicesProofs -------------------------
(* Theorems about BackendServices: what an image build answers with is in the  *)
(* registry, what is said of the GPUs is so, what the catalogue says of a      *)
(* model holds of it on the cluster, and a deployment is served as its recipe  *)
(* was resolved, for all constants.                                            *)
EXTENDS BackendServices, SequenceTheorems, FiniteSetTheorems, WellFoundedInduction, TLAPS

-----------------------------------------------------------------------------
(* What a request is made of.                                                  *)
Making == {"ns", "makeNs", "readRegistry", "makeRegistry", "readService", "makeService", "wait",
           "docker", "create", "probe", "bootstrap", "confirm", "build"}
RefsGiven == {<< >>} \cup {<<PremadeImage[m]>> : m \in Premade} \cup {Build!BuildRef(m) : m \in BuildModels}
BuildRequests ==
  [model : BuildModels \cup Premade \cup {Build!NoImage}, setup : BOOLEAN, pc : {"free", "done"} \cup Making,
   polls : 0..MaxPolls, tries : 0..1, answer : {0, 200, 500}, ref : RefsGiven, intact : BOOLEAN]

BuildTypes ==
  /\ {namespace, service} \subseteq BOOLEAN
  /\ registry \in {"none", "starting", "ready"} /\ builder \in {"none", "stopped", "running"}
  /\ images \in [Build!Refs -> BuildModels \cup {Build!NoImage}]
  /\ build \in [Builds -> BuildRequests]

(* A request being worked on is for a model that has to be built, and neither  *)
(* answer nor reference is there before the end; a reference that is given is  *)
(* the preview's; and a 200 to a build names the image that was pushed, behind *)
(* which its model stays for as long as nobody and nothing has replaced it.    *)
InTheMaking(q) == q.pc \in Making => q.model \in BuildModels \ Premade /\ q.answer = 0 /\ q.ref = << >>
Previewed(q)   == q.ref # << >> => q.ref = Build!PreviewRef(q.model)
Built(q)       == q.answer = 200 /\ ~q.setup /\ q.model \notin Premade
Pushed(q, reg) == Built(q) => /\ q.model \in BuildModels /\ q.ref = Build!BuildRef(q.model)
                              /\ q.intact => reg[Build!PushRef(q.model)] = q.model
SoundBuild(q, reg)  == InTheMaking(q) /\ Previewed(q) /\ Pushed(q, reg)

BuildInv == BuildTypes /\ \A b \in Builds : SoundBuild(build[b], images)

LEMMA BuildInit == ASSUME Build!BuildAssumption, Build!Init PROVE BuildInv
<1>1. Build!Idle \in BuildRequests /\ Build!Idle.pc = "free" /\ Build!Idle.ref = << >> /\ Build!Idle.answer = 0
  BY DEF Build!Idle, BuildRequests, RefsGiven, Build!BuildAssumption
<1>2. images \in [Build!Refs -> BuildModels \cup {Build!NoImage}]
  BY DEF Build!Init
<1>3. build = [b \in Builds |-> Build!Idle] /\ registry = "none" /\ service = FALSE
      /\ namespace \in BOOLEAN /\ builder \in {"none", "stopped"}
  BY DEF Build!Init
<1>4. BuildTypes
  BY <1>1, <1>2, <1>3 DEF BuildTypes
<1>5. SoundBuild(Build!Idle, images)
  BY <1>1 DEF SoundBuild, InTheMaking, Previewed, Pushed, Built, Making
<1> QED BY <1>3, <1>4, <1>5 DEF BuildInv

LEMMA RefOfModel == ASSUME NEW m \in BuildModels PROVE Build!PushRef(m) \in Build!Refs
  BY DEF Build!PushRef, Build!Refs

-----------------------------------------------------------------------------
(* A turn of a request that is being worked on: it goes on, with the answer    *)
(* still open, or it ends with a 500, or, when nothing was to be built, a 200. *)
Turn(q, new) ==
  /\ q.pc \in Making /\ new \in BuildRequests
  /\ new.model = q.model /\ new.setup = q.setup /\ new.ref = q.ref /\ new.intact = q.intact
  /\ \/ new.pc \in Making /\ new.answer = q.answer
     \/ new.pc = "done" /\ (new.answer = 500 \/ (new.answer = 200 /\ q.setup = TRUE))

LEMMA TurnIsSound ==
  ASSUME NEW q \in BuildRequests, NEW new, NEW reg, Turn(q, new), SoundBuild(q, reg) PROVE SoundBuild(new, reg)
<1>1. q.model \in BuildModels \ Premade /\ q.answer = 0 /\ q.ref = << >>
  BY DEF Turn, SoundBuild, InTheMaking
<1>2. InTheMaking(new)
  BY <1>1 DEF Turn, InTheMaking, Making
<1>3. Previewed(new)
  BY <1>1 DEF Turn, Previewed, Build!PreviewRef
<1>4. ~Built(new)
  BY <1>1 DEF Turn, Built
<1> QED BY <1>2, <1>3, <1>4 DEF SoundBuild, Pushed

LEMMA GotoTurns ==
  ASSUME Build!BuildAssumption, NEW q \in BuildRequests, q.pc \in Making, NEW pc \in Making
  PROVE  Turn(q, [q EXCEPT !.pc = pc, !.tries = 0, !.polls = 0])
<1>1. PICK new : new = [q EXCEPT !.pc = pc, !.tries = 0, !.polls = 0]
  OBVIOUS
<1>2. new = [model |-> q.model, setup |-> q.setup, pc |-> pc, polls |-> 0,
               tries |-> 0, answer |-> q.answer, ref |-> q.ref, intact |-> q.intact]
  BY <1>1 DEF BuildRequests
<1>3. new \in BuildRequests
  <2>1. pc \in {"free", "done"} \cup Making /\ 0 \in 0..MaxPolls /\ 0 \in 0..1
    BY DEF Build!BuildAssumption
  <2> QED BY <1>2, <2>1 DEF BuildRequests
<1>4. new.model = q.model /\ new.setup = q.setup /\ new.ref = q.ref /\ new.intact = q.intact
      /\ new.pc = pc /\ new.answer = q.answer
  BY <1>2, Zenon
<1> QED BY <1>1, <1>3, <1>4 DEF Turn

(* A request that ends: what becomes of its fields.                            *)
Ends(q, new, code, ref) ==
  /\ new \in BuildRequests /\ new.pc = "done" /\ new.answer = code /\ new.ref = ref
  /\ new.model = q.model /\ new.setup = q.setup /\ new.intact = q.intact

EndedWith(q, code) == [q EXCEPT !.pc = "done", !.answer = code, !.tries = 0, !.polls = 0]

LEMMA AnswerEnds ==
  ASSUME Build!BuildAssumption, NEW q \in BuildRequests, NEW code \in {200, 500}
  PROVE  Ends(q, EndedWith(q, code), code, q.ref)
<1>0. PICK new : new = EndedWith(q, code)
  OBVIOUS
<1>1. new = [model |-> q.model, setup |-> q.setup, pc |-> "done", polls |-> 0,
             tries |-> 0, answer |-> code, ref |-> q.ref, intact |-> q.intact]
  BY <1>0 DEF BuildRequests, EndedWith
<1>2. new \in BuildRequests
  <2>1. code \in {0, 200, 500} /\ 0 \in 0..MaxPolls /\ 0 \in 0..1
    BY DEF Build!BuildAssumption
  <2> QED BY <1>1, <2>1 DEF BuildRequests
<1>3. new.model = q.model /\ new.setup = q.setup /\ new.ref = q.ref /\ new.intact = q.intact
      /\ new.pc = "done" /\ new.answer = code
  BY <1>1, Zenon
<1>4. Ends(q, new, code, q.ref)
  BY <1>2, <1>3, Zenon DEF Ends
<1> QED BY <1>0, <1>4

LEMMA PushEnds ==
  ASSUME NEW q \in BuildRequests, NEW code \in {200, 500}, NEW ref \in RefsGiven
  PROVE  Ends(q, [q EXCEPT !.pc = "done", !.answer = code, !.ref = ref], code, ref)
<1>0. PICK new : new = [q EXCEPT !.pc = "done", !.answer = code, !.ref = ref]
  OBVIOUS
<1>1. new = [model |-> q.model, setup |-> q.setup, pc |-> "done", polls |-> q.polls,
             tries |-> q.tries, answer |-> code, ref |-> ref, intact |-> q.intact]
  BY <1>0 DEF BuildRequests
<1>2. new \in BuildRequests
  BY <1>1 DEF BuildRequests
<1>3. new.model = q.model /\ new.setup = q.setup /\ new.ref = ref /\ new.intact = q.intact
      /\ new.pc = "done" /\ new.answer = code
  BY <1>1, Zenon
<1>4. Ends(q, new, code, ref)
  BY <1>2, <1>3, Zenon DEF Ends
<1> QED BY <1>0, <1>4

LEMMA TriesTurn ==
  ASSUME NEW q \in BuildRequests, q.pc \in Making, q.tries < 1
  PROVE  Turn(q, [q EXCEPT !.tries = @ + 1])
<1>1. PICK new : new = [q EXCEPT !.tries = q.tries + 1]
  OBVIOUS
<1>2. q.tries + 1 \in 0..1
  BY DEF BuildRequests
<1>3. new \in BuildRequests
  BY <1>1, <1>2 DEF BuildRequests
<1>4. new.model = q.model /\ new.setup = q.setup /\ new.ref = q.ref /\ new.intact = q.intact
      /\ new.pc = q.pc /\ new.answer = q.answer
  BY <1>1 DEF BuildRequests
<1> QED BY <1>1, <1>3, <1>4 DEF Turn

LEMMA PollsTurn ==
  ASSUME Build!BuildAssumption, NEW q \in BuildRequests, q.pc \in Making, q.polls < MaxPolls
  PROVE  Turn(q, [q EXCEPT !.polls = @ + 1])
<1>1. PICK new : new = [q EXCEPT !.polls = q.polls + 1]
  OBVIOUS
<1>2. q.polls + 1 \in 0..MaxPolls
  BY DEF BuildRequests, Build!BuildAssumption
<1>3. new \in BuildRequests
  BY <1>1, <1>2 DEF BuildRequests
<1>4. new.model = q.model /\ new.setup = q.setup /\ new.ref = q.ref /\ new.intact = q.intact
      /\ new.pc = q.pc /\ new.answer = q.answer
  BY <1>1 DEF BuildRequests
<1> QED BY <1>1, <1>3, <1>4 DEF Turn

-----------------------------------------------------------------------------
(* Everything a request does but starting, building and being collected is a   *)
(* turn of it.                                                                 *)
TakesTurn(b) == \E new : Turn(build[b], new) /\ build' = [build EXCEPT ![b] = new]

LEMMA GoesOn ==
  ASSUME Build!BuildAssumption, NEW b \in Builds, build[b] \in BuildRequests, build[b].pc \in Making
  PROVE  /\ \A pc \in Making : Build!Goto(b, pc) => TakesTurn(b)
         /\ Build!Answer(b, 500) => TakesTurn(b)
         /\ build[b].setup = TRUE => (Build!Answer(b, 200) => TakesTurn(b))
<1>1. ASSUME NEW pc \in Making, Build!Goto(b, pc) PROVE TakesTurn(b)
  <2>1. Turn(build[b], [build[b] EXCEPT !.pc = pc, !.tries = 0, !.polls = 0])
    BY GotoTurns
  <2> QED BY <1>1, <2>1, Zenon DEF Build!Goto, Build!Set, TakesTurn
<1>2. ASSUME NEW code \in {200, 500}, code = 200 => build[b].setup = TRUE, Build!Answer(b, code)
      PROVE  TakesTurn(b)
  <2>1. PICK q \in BuildRequests : q = build[b]
    OBVIOUS
  <2>2. PICK new : new = EndedWith(q, code)
    OBVIOUS
  <2>3. Ends(q, new, code, q.ref)
    BY <2>2, AnswerEnds
  <2>4. q.pc \in Making /\ (code = 200 => q.setup = TRUE)
    BY <1>2, <2>1, Zenon
  <2>5. code = 500 \/ code = 200
    OBVIOUS
  <2>6. Turn(q, new)
    BY <2>3, <2>4, <2>5, Zenon DEF Turn, Ends
  <2> QED BY <1>2, <2>1, <2>2, <2>6, Zenon DEF Build!Answer, EndedWith, Build!Set, TakesTurn
<1>3. 500 \in {200, 500} /\ 200 \in {200, 500} /\ 500 # 200
  OBVIOUS
<1> QED BY <1>1, <1>2, <1>3

LEMMA TurnKeeps ==
  ASSUME BuildInv, NEW b \in Builds, TakesTurn(b), images' = images,
         {namespace', service'} \subseteq BOOLEAN,
         registry' \in {"none", "starting", "ready"}, builder' \in {"none", "stopped", "running"}
  PROVE  BuildInv'
<1>1. PICK new : Turn(build[b], new) /\ build' = [build EXCEPT ![b] = new]
  BY Zenon DEF TakesTurn
<1>2. build \in [Builds -> BuildRequests] /\ SoundBuild(build[b], images) /\ build[b] \in BuildRequests
  BY DEF BuildInv, BuildTypes
<1>3. new \in BuildRequests /\ SoundBuild(new, images)
  BY <1>1, <1>2, TurnIsSound DEF Turn
<1>4. BuildTypes'
  BY <1>1, <1>2, <1>3 DEF BuildInv, BuildTypes
<1>5. ASSUME NEW c \in Builds PROVE SoundBuild(build'[c], images')
  BY <1>1, <1>2, <1>3 DEF BuildInv
<1> QED BY <1>4, <1>5 DEF BuildInv, SoundBuild, InTheMaking, Previewed, Pushed

(* Of the actions that make something, each ends in one of those steps.        *)
LEMMA StepTurns ==
  ASSUME Build!BuildAssumption, BuildInv, NEW b \in Builds, NEW works \in BOOLEAN, NEW docker \in BOOLEAN,
         \/ Build!WaitRegistry(b)
         \/ Build!ReadNamespace(b, works) \/ Build!MakeNamespace(b, works) \/ Build!ReadRegistry(b, works)
         \/ Build!ReadService(b, works) \/ Build!FindBuilder(b, docker, works)
         \/ Build!CreateBuilder(b, works) \/ Build!ProbeBuilder(b, works) \/ Build!Bootstrap(b, works)
         \/ Build!ConfirmBuilder(b, works)
  PROVE  TakesTurn(b)
<1>1. build[b] \in BuildRequests
  BY DEF BuildInv, BuildTypes
<1>2. build[b].pc \in Making
  BY DEF Build!WaitRegistry, Build!ReadNamespace, Build!MakeNamespace, Build!ReadRegistry, Build!ReadService, Build!FindBuilder,
         Build!CreateBuilder, Build!ProbeBuilder, Build!Bootstrap, Build!ConfirmBuilder, Making
<1>3. /\ \A pc \in Making : Build!Goto(b, pc) => TakesTurn(b)
      /\ Build!Answer(b, 500) => TakesTurn(b)
      /\ build[b].setup = TRUE => (Build!Answer(b, 200) => TakesTurn(b))
  BY <1>1, <1>2, GoesOn
<1>4. {"readRegistry", "makeNs", "readService", "makeRegistry", "wait", "makeService", "docker",
       "probe", "create", "confirm", "bootstrap", "build"} \subseteq Making
  BY DEF Making
<1>5. CASE Build!WaitRegistry(b)
  <2>1. CASE registry # "ready" /\ build[b].polls < MaxPolls
    <3>1. Turn(build[b], [build[b] EXCEPT !.polls = @ + 1])
      BY <1>1, <1>2, <2>1, PollsTurn
    <3> QED BY <1>5, <2>1, <3>1, Zenon DEF Build!WaitRegistry, Build!Set, TakesTurn
  <2>2. CASE ~(registry # "ready" /\ build[b].polls < MaxPolls)
    <3>1. Build!Goto(b, "docker") \/ Build!Answer(b, 500)
      BY <1>5, <2>2, Zenon DEF Build!WaitRegistry
    <3> QED BY <1>3, <1>4, <3>1
  <2> QED BY <2>1, <2>2
<1>6. CASE Build!ReadNamespace(b, works)
  <2>1. Build!Answer(b, 500) \/ \E pc \in {"readRegistry", "makeNs"} : Build!Goto(b, pc)
    BY <1>6, Zenon DEF Build!ReadNamespace
  <2> QED BY <1>3, <1>4, <2>1
<1>7. CASE Build!MakeNamespace(b, works)
  <2>1. Build!Answer(b, 500) \/ Build!Goto(b, "readRegistry")
    BY <1>7, Zenon DEF Build!MakeNamespace
  <2> QED BY <1>3, <1>4, <2>1
<1>8. CASE Build!ReadRegistry(b, works)
  <2>1. Build!Answer(b, 500) \/ \E pc \in {"readService", "makeRegistry"} : Build!Goto(b, pc)
    BY <1>8, Zenon DEF Build!ReadRegistry
  <2> QED BY <1>3, <1>4, <2>1
<1>9. CASE Build!ReadService(b, works)
  <2>1. Build!Answer(b, 500) \/ \E pc \in {"wait", "makeService"} : Build!Goto(b, pc)
    BY <1>9, Zenon DEF Build!ReadService
  <2> QED BY <1>3, <1>4, <2>1
<1>10. CASE Build!FindBuilder(b, docker, works)
  <2>1. Build!Answer(b, 500) \/ \E pc \in {"probe", "create"} : Build!Goto(b, pc)
    BY <1>10, Zenon DEF Build!FindBuilder
  <2> QED BY <1>3, <1>4, <2>1
<1>11. CASE Build!CreateBuilder(b, works)
  <2>1. Build!Answer(b, 500) \/ Build!Goto(b, "probe")
    BY <1>11, Zenon DEF Build!CreateBuilder
  <2> QED BY <1>3, <1>4, <2>1
<1>12. CASE Build!ProbeBuilder(b, works)
  <2>1. \E pc \in {"confirm", "bootstrap"} : Build!Goto(b, pc)
    BY <1>12, Zenon DEF Build!ProbeBuilder
  <2> QED BY <1>3, <1>4, <2>1
<1>13. CASE Build!Bootstrap(b, works)
  <2>1. Build!Answer(b, 500) \/ Build!Goto(b, "confirm")
    BY <1>13, Zenon DEF Build!Bootstrap
  <2> QED BY <1>3, <1>4, <2>1
<1>14. CASE Build!ConfirmBuilder(b, works)
  <2>1. Build!Answer(b, 500) \/ Build!Goto(b, "build") \/ (build[b].setup /\ Build!Answer(b, 200))
    BY <1>14, Zenon DEF Build!ConfirmBuilder
  <2>2. build[b].setup \in BOOLEAN
    BY <1>1 DEF BuildRequests
  <2> QED BY <1>3, <1>4, <2>1, <2>2
<1> QED BY <1>5, <1>6, <1>7, <1>8, <1>9, <1>10, <1>11, <1>12, <1>13, <1>14

(* A create inside withRetry is a turn whatever became of its answer.          *)
LEMMA CreateTurns ==
  ASSUME Build!BuildAssumption, BuildInv, NEW b \in Builds, build[b].pc \in Making,
         NEW outcome, NEW there, NEW next \in Making, Build!Create(b, outcome, there, next)
  PROVE  TakesTurn(b)
<1>1. build[b] \in BuildRequests
  BY DEF BuildInv, BuildTypes
<1>2. CASE outcome # "answered" /\ build[b].tries < 1
  <2>1. Turn(build[b], [build[b] EXCEPT !.tries = @ + 1])
    BY <1>1, <1>2, TriesTurn
  <2> QED BY <1>2, <2>1, Zenon DEF Build!Create, Build!Set, TakesTurn
<1>3. CASE ~(outcome # "answered" /\ build[b].tries < 1)
  <2>1. Build!Goto(b, next) \/ Build!Answer(b, 500)
    BY <1>3, Zenon DEF Build!Create
  <2> QED BY <1>1, <2>1, GoesOn
<1> QED BY <1>2, <1>3

-----------------------------------------------------------------------------
(* A new request, and one that is collected.                                   *)
LEMMA NewRecord ==
  ASSUME NEW q \in BuildRequests, NEW m, NEW setup \in BOOLEAN,
         NEW new, new = [q EXCEPT !.model = m, !.setup = setup, !.pc = "ns"]
  PROVE  new = [model |-> m, setup |-> setup, pc |-> "ns", polls |-> q.polls,
              tries |-> q.tries, answer |-> q.answer, ref |-> q.ref, intact |-> q.intact]
  BY DEF BuildRequests

LEMMA RequestKeeps ==
  ASSUME Build!BuildAssumption, BuildInv, NEW b \in Builds, NEW m \in BuildModels \cup Premade, NEW setup \in BOOLEAN,
         Build!Request(b, m, setup)
  PROVE  BuildInv'
<1>1. build \in [Builds -> BuildRequests] /\ BuildTypes
  BY DEF BuildInv, BuildTypes
<1>2. UNCHANGED <<namespace, registry, service, images, builder>>
  BY DEF Build!Request, Build!Infra
<1>3. PICK new : new \in BuildRequests /\ SoundBuild(new, images) /\ build' = [build EXCEPT ![b] = new]
  <2>1. CASE m \in Premade
    <3>1. PICK new : new = [Build!Idle EXCEPT !.model = m, !.pc = "done", !.answer = 200, !.ref = <<PremadeImage[m]>>]
      OBVIOUS
    <3>2. build' = [build EXCEPT ![b] = new]
      BY <2>1, <3>1, Zenon DEF Build!Request, Build!Set
    <3>3. PICK idle : idle = Build!Idle
      OBVIOUS
    <3>4. idle \in BuildRequests
      BY <3>3 DEF Build!Idle, BuildRequests, RefsGiven, Build!BuildAssumption
    <3>5. new = [idle EXCEPT !.model = m, !.pc = "done", !.answer = 200, !.ref = <<PremadeImage[m]>>]
      BY <3>1, <3>3
    <3>6. new = [model |-> m, setup |-> idle.setup, pc |-> "done", polls |-> idle.polls,
                 tries |-> idle.tries, answer |-> 200, ref |-> <<PremadeImage[m]>>, intact |-> idle.intact]
      BY <3>4, <3>5 DEF BuildRequests
    <3>7. <<PremadeImage[m]>> \in RefsGiven
      BY <2>1 DEF RefsGiven
    <3>8. new \in BuildRequests
      BY <2>1, <3>4, <3>6, <3>7 DEF BuildRequests
    <3>9. new.pc = "done" /\ new.model = m /\ new.ref = <<PremadeImage[m]>>
      BY <3>6, Zenon
    <3>10. SoundBuild(new, images)
      BY <2>1, <3>9 DEF SoundBuild, InTheMaking, Making, Previewed, Build!PreviewRef, Pushed, Built
    <3> QED BY <3>2, <3>8, <3>10
  <2>2. CASE m \notin Premade
    <3>1. PICK new : new = [Build!Idle EXCEPT !.model = m, !.setup = setup, !.pc = "ns"]
      OBVIOUS
    <3>2. build' = [build EXCEPT ![b] = new]
      BY <2>2, <3>1, Zenon DEF Build!Request, Build!Set
    <3>3. PICK idle : idle = Build!Idle
      OBVIOUS
    <3>4. idle \in BuildRequests /\ idle.ref = << >> /\ idle.answer = 0
      BY <3>3 DEF Build!Idle, BuildRequests, RefsGiven, Build!BuildAssumption
    <3> PICK t \in BOOLEAN : t = setup
      OBVIOUS
    <3>5. new = [idle EXCEPT !.model = m, !.setup = t, !.pc = "ns"]
      BY <3>1, <3>3, Zenon
    <3>6. new = [model |-> m, setup |-> t, pc |-> "ns", polls |-> idle.polls,
                 tries |-> idle.tries, answer |-> idle.answer, ref |-> idle.ref, intact |-> idle.intact]
      BY ZenonT(40), <3>4, <3>5, NewRecord
    <3>7. "ns" \in Making
      BY DEF Making
    <3>8. new \in BuildRequests
      BY <2>2, <3>4, <3>6, <3>7 DEF BuildRequests
    <3>9. new.model = m /\ new.ref = << >> /\ new.answer = 0
      BY <3>4, <3>6, Zenon
    <3>10. SoundBuild(new, images)
      BY <2>2, <3>9 DEF SoundBuild, InTheMaking, Previewed, Pushed, Built
    <3> QED BY <3>2, <3>8, <3>10
  <2> QED BY <2>1, <2>2
<1>4. BuildTypes'
  BY <1>1, <1>2, <1>3 DEF BuildTypes
<1>5. ASSUME NEW c \in Builds PROVE SoundBuild(build'[c], images')
  BY <1>1, <1>2, <1>3 DEF BuildInv
<1> QED BY <1>4, <1>5 DEF BuildInv, SoundBuild, InTheMaking, Previewed, Pushed

LEMMA CollectKeeps == ASSUME Build!BuildAssumption, BuildInv, NEW b \in Builds, Build!Collect(b) PROVE BuildInv'
<1>1. build \in [Builds -> BuildRequests] /\ BuildTypes
  BY DEF BuildInv, BuildTypes
<1>2. UNCHANGED <<namespace, registry, service, images, builder>>
  BY DEF Build!Collect, Build!Infra
<1>3. Build!Idle \in BuildRequests /\ Build!Idle.pc = "free" /\ Build!Idle.ref = << >> /\ Build!Idle.answer = 0
  BY DEF Build!Idle, BuildRequests, RefsGiven, Build!BuildAssumption
<1>4. SoundBuild(Build!Idle, images)
  BY <1>3 DEF SoundBuild, InTheMaking, Previewed, Pushed, Built, Making
<1>5. build' = [build EXCEPT ![b] = Build!Idle]
  BY DEF Build!Collect, Build!Set
<1>6. BuildTypes'
  BY <1>1, <1>2, <1>3, <1>5 DEF BuildTypes
<1>7. ASSUME NEW c \in Builds PROVE SoundBuild(build'[c], images')
  BY <1>1, <1>2, <1>4, <1>5 DEF BuildInv
<1> QED BY <1>6, <1>7 DEF BuildInv, SoundBuild, InTheMaking, Previewed, Pushed

(* The push.  It answers its own request, and takes intact from every other    *)
(* request whose image it has replaced.                                        *)
LEMMA NotIntact ==
  ASSUME NEW q \in BuildRequests, NEW old, NEW reg, SoundBuild(q, old)
  PROVE  /\ [q EXCEPT !.intact = FALSE] \in BuildRequests
         /\ SoundBuild([q EXCEPT !.intact = FALSE], reg)
<1>1. PICK new : new = [q EXCEPT !.intact = FALSE]
  OBVIOUS
<1>2. new = [model |-> q.model, setup |-> q.setup, pc |-> q.pc, polls |-> q.polls,
             tries |-> q.tries, answer |-> q.answer, ref |-> q.ref, intact |-> FALSE]
  BY <1>1 DEF BuildRequests
<1>3. new \in BuildRequests
  BY <1>2 DEF BuildRequests
<1>4. new.model = q.model /\ new.setup = q.setup /\ new.pc = q.pc /\ new.answer = q.answer
      /\ new.ref = q.ref /\ new.intact = FALSE
  BY <1>2, Zenon
<1>5. SoundBuild(new, reg)
  BY <1>4 DEF SoundBuild, InTheMaking, Previewed, Pushed, Built
<1> QED BY <1>1, <1>3, <1>5

LEMMA RunBuildKeeps ==
  ASSUME Build!BuildAssumption, BuildInv, NEW b \in Builds, NEW works \in BOOLEAN, Build!RunBuild(b, works)
  PROVE  BuildInv'
<1>1. build \in [Builds -> BuildRequests] /\ BuildTypes /\ \A c \in Builds : SoundBuild(build[c], images)
  BY DEF BuildInv, BuildTypes
<1> DEFINE m == build[b].model
<1>2. m \in BuildModels \ Premade /\ build[b].pc = "build" /\ build[b] \in BuildRequests
  BY <1>1 DEF Build!RunBuild, SoundBuild, InTheMaking, Making
<1>3. PICK pushed \in BOOLEAN :
        /\ images' = IF pushed THEN [images EXCEPT ![Build!PushRef(m)] = m] ELSE images
        /\ builder' = IF pushed THEN "running" ELSE builder
        /\ build' = [c \in Builds |->
             IF c = b THEN [build[b] EXCEPT !.pc = "done", !.answer = IF pushed THEN 200 ELSE 500,
                                            !.ref = IF pushed THEN Build!BuildRef(m) ELSE << >>]
             ELSE IF pushed /\ build[c].model # Build!NoImage /\ build[c].model \notin Premade
                     /\ build[c].model # m /\ Build!PushRef(build[c].model) = Build!PushRef(m)
                  THEN [build[c] EXCEPT !.intact = FALSE] ELSE build[c]]
  <2>1. PICK pushed \in BOOLEAN : pushed = (works /\ registry = "ready" /\ service /\ builder # "none")
    OBVIOUS
  <2> QED BY <2>1, ZenonT(40) DEF Build!RunBuild
<1>4. UNCHANGED <<namespace, registry, service>>
  BY DEF Build!RunBuild
<1>5. Build!PushRef(m) \in Build!Refs
  BY <1>2, RefOfModel
<1>6. images \in [Build!Refs -> BuildModels \cup {Build!NoImage}]
  BY <1>1 DEF BuildTypes
<1>7. images' \in [Build!Refs -> BuildModels \cup {Build!NoImage}]
  BY <1>2, <1>3, <1>5, <1>6
<1>8. build'[b] \in BuildRequests /\ SoundBuild(build'[b], images')
  <2>1. PICK code \in {200, 500}, ref \in RefsGiven :
          code = (IF pushed THEN 200 ELSE 500) /\ ref = (IF pushed THEN Build!BuildRef(m) ELSE << >>)
    BY <1>2 DEF RefsGiven
  <2>2. build'[b] = [build[b] EXCEPT !.pc = "done", !.answer = code, !.ref = ref]
    BY <1>3, <2>1, ZenonT(40)
  <2>3. PICK q \in BuildRequests, new \in {build'[b]} :
          q = build[b] /\ new = [q EXCEPT !.pc = "done", !.answer = code, !.ref = ref]
    BY <1>2, <2>2
  <2>4. Ends(q, new, code, ref)
    <3>1. Ends(q, [q EXCEPT !.pc = "done", !.answer = code, !.ref = ref], code, ref)
      BY ZenonT(40), PushEnds
    <3> QED BY <2>3, <3>1
  <2>5. new \in BuildRequests
    BY <2>4 DEF Ends
  <2>6. new.model = m /\ new.pc = "done" /\ new.answer = code /\ new.ref = ref
    BY <2>3, <2>4, Zenon DEF Ends
  <2>7. InTheMaking(new)
    BY <2>6 DEF InTheMaking, Making
  <2>8. Previewed(new)
    BY <1>2, <2>1, <2>6 DEF Previewed, Build!PreviewRef, Build!BuildRef
  <2>9. Pushed(new, images')
    <3>1. CASE pushed
      <4>1. images'[Build!PushRef(m)] = m
        BY <1>3, <1>5, <1>6, <3>1
      <4> QED BY <1>2, <2>1, <2>6, <3>1, <4>1 DEF Pushed
    <3>2. CASE ~pushed
      BY <2>1, <2>6, <3>2 DEF Pushed, Built
    <3> QED BY <3>1, <3>2
  <2> QED BY <2>3, <2>5, <2>7, <2>8, <2>9 DEF SoundBuild
<1>9. ASSUME NEW c \in Builds, c # b PROVE build'[c] \in BuildRequests /\ SoundBuild(build'[c], images')
  <2>1. build[c] \in BuildRequests /\ SoundBuild(build[c], images)
    BY <1>1
  <2>2. CASE build'[c] = [build[c] EXCEPT !.intact = FALSE]
    BY <2>1, <2>2, NotIntact
  <2>3. CASE build'[c] # [build[c] EXCEPT !.intact = FALSE]
    <3>1. build'[c] = build[c]
      BY <1>3, <1>9, <2>3, Zenon
    <3>2. ~(pushed /\ build[c].model # Build!NoImage /\ build[c].model \notin Premade
            /\ build[c].model # m /\ Build!PushRef(build[c].model) = Build!PushRef(m))
      BY <1>3, <1>9, <2>3, Zenon
    <3>3. Pushed(build[c], images')
      <4>1. ASSUME Built(build[c]), build[c].intact PROVE images'[Build!PushRef(build[c].model)] = build[c].model
        <5>1. build[c].model \in BuildModels /\ images[Build!PushRef(build[c].model)] = build[c].model
          BY <2>1, <4>1 DEF SoundBuild, Pushed
        <5>2. build[c].model # Build!NoImage /\ build[c].model \notin Premade
          BY <4>1, <5>1 DEF Built, Build!BuildAssumption
        <5>3. Build!PushRef(build[c].model) \in Build!Refs
          BY <5>1, RefOfModel
        <5> QED BY <1>3, <1>5, <1>6, <3>2, <5>1, <5>2, <5>3
      <4> QED BY <2>1, <4>1 DEF SoundBuild, Pushed
    <3> QED BY <2>1, <3>1, <3>3 DEF SoundBuild
  <2> QED BY <2>2, <2>3
<1>10. BuildTypes'
  <2>1. build' \in [Builds -> BuildRequests]
    <3>1. \A c \in Builds : build'[c] \in BuildRequests
      BY <1>8, <1>9
    <3>2. build' = [c \in Builds |-> build'[c]]
      BY <1>3, ZenonT(40)
    <3> QED BY <3>1, <3>2
  <2> QED BY <1>1, <1>3, <1>4, <1>7, <2>1 DEF BuildTypes
<1>11. \A c \in Builds : SoundBuild(build'[c], images')
  BY <1>8, <1>9
<1> QED BY <1>10, <1>11 DEF BuildInv, SoundBuild, InTheMaking, Previewed, Pushed

-----------------------------------------------------------------------------
(* The cluster: a restart empties the registry, and every request knows.       *)
LEMMA RestartKeeps == ASSUME BuildInv, Build!RegistryRestarts PROVE BuildInv'
<1>1. build \in [Builds -> BuildRequests] /\ BuildTypes /\ \A c \in Builds : SoundBuild(build[c], images)
  BY DEF BuildInv, BuildTypes
<1>2. /\ UNCHANGED <<namespace, service, builder>> /\ registry' = "starting"
      /\ images' = [r \in Build!Refs |-> Build!NoImage]
      /\ build' = [b \in Builds |-> [build[b] EXCEPT !.intact = FALSE]]
  BY DEF Build!RegistryRestarts
<1>3. \A c \in Builds : build'[c] \in BuildRequests /\ SoundBuild(build'[c], images')
  <2> TAKE c \in Builds
  <2>1. build'[c] = [build[c] EXCEPT !.intact = FALSE]
    BY <1>2
  <2> QED BY <1>1, <2>1, NotIntact
<1>4. build' \in [Builds -> BuildRequests]
  BY <1>2, <1>3
<1>5. BuildTypes'
  BY <1>1, <1>2, <1>4 DEF BuildTypes
<1> QED BY <1>3, <1>5 DEF BuildInv, SoundBuild, InTheMaking, Previewed, Pushed

LEMMA ClusterKeeps == ASSUME BuildInv, Build!RegistryStarts \/ Build!BuilderStops \/ UNCHANGED Build!bvars PROVE BuildInv'
<1>1. UNCHANGED <<namespace, service, images, build>>
  BY DEF Build!RegistryStarts, Build!BuilderStops, Build!bvars
<1>2. registry' \in {"none", "starting", "ready"} /\ builder' \in {"none", "stopped", "running"}
  BY DEF Build!RegistryStarts, Build!BuilderStops, Build!bvars, BuildInv, BuildTypes
<1> QED BY <1>1, <1>2 DEF BuildInv, BuildTypes, SoundBuild, InTheMaking, Previewed, Pushed

LEMMA BuildKept == ASSUME Build!BuildAssumption, BuildInv, [Build!Next]_(Build!bvars) PROVE BuildInv'
<1>1. BuildTypes
  BY DEF BuildInv
<1>2. ASSUME NEW b \in Builds, NEW works \in BOOLEAN, NEW docker \in BOOLEAN,
         \/ Build!WaitRegistry(b)
         \/ Build!ReadNamespace(b, works) \/ Build!MakeNamespace(b, works) \/ Build!ReadRegistry(b, works)
         \/ Build!ReadService(b, works) \/ Build!FindBuilder(b, docker, works)
         \/ Build!CreateBuilder(b, works) \/ Build!ProbeBuilder(b, works) \/ Build!Bootstrap(b, works)
         \/ Build!ConfirmBuilder(b, works)
      PROVE  BuildInv'
  <2>1. TakesTurn(b)
    BY <1>2, StepTurns
  <2>2. images' = images /\ registry' = registry /\ service' = service
    BY <1>2 DEF Build!WaitRegistry, Build!ReadNamespace, Build!MakeNamespace, Build!ReadRegistry, Build!ReadService, Build!FindBuilder,
                Build!CreateBuilder, Build!ProbeBuilder, Build!Bootstrap, Build!ConfirmBuilder, Build!Infra
  <2>3. namespace' \in BOOLEAN
    BY <1>1, <1>2 DEF BuildTypes, Build!WaitRegistry, Build!ReadNamespace, Build!MakeNamespace, Build!ReadRegistry, Build!ReadService,
                Build!FindBuilder, Build!CreateBuilder, Build!ProbeBuilder, Build!Bootstrap, Build!ConfirmBuilder, Build!Infra
  <2>4. builder' \in {"none", "stopped", "running"}
    BY <1>1, <1>2 DEF BuildTypes, Build!WaitRegistry, Build!ReadNamespace, Build!MakeNamespace, Build!ReadRegistry, Build!ReadService,
                Build!FindBuilder, Build!CreateBuilder, Build!ProbeBuilder, Build!Bootstrap, Build!ConfirmBuilder, Build!Infra
  <2> QED BY <1>1, <2>1, <2>2, <2>3, <2>4, TurnKeeps DEF BuildTypes
<1>3. ASSUME NEW b \in Builds, NEW outcome, Build!MakeRegistry(b, outcome) \/ Build!MakeService(b, outcome)
      PROVE  BuildInv'
  <2>1. PICK next \in Making : build[b].pc \in Making /\ \E there : Build!Create(b, outcome, there, next)
    <3>1. {"makeRegistry", "makeService", "readService", "wait"} \subseteq Making
      BY DEF Making
    <3>2. build[b].pc \in Making /\ \E next \in {"readService", "wait"}, there \in BOOLEAN :
            Build!Create(b, outcome, there, next)
      BY <1>1, <1>3, <3>1 DEF Build!MakeRegistry, Build!MakeService, BuildTypes
    <3> QED BY <3>1, <3>2
  <2>2. TakesTurn(b)
    BY <2>1, CreateTurns
  <2>3. UNCHANGED <<namespace, images, builder>>
    BY <1>3 DEF Build!MakeRegistry, Build!MakeService
  <2>4. registry' \in {"none", "starting", "ready"}
    BY <1>1, <1>3 DEF Build!MakeRegistry, Build!MakeService, BuildTypes
  <2>5. service' \in BOOLEAN
    BY <1>1, <1>3 DEF Build!MakeRegistry, Build!MakeService, BuildTypes
  <2> QED BY <1>1, <2>2, <2>3, <2>4, <2>5, TurnKeeps DEF BuildTypes
<1> QED BY <1>2, <1>3, RequestKeeps, CollectKeeps, RunBuildKeeps, RestartKeeps, ClusterKeeps
        DEF Build!Next, Build!Step

-----------------------------------------------------------------------------
(* What the invariant says of the types, and of an answer: the reference is    *)
(* BuildRef of the model, whose last two parts are the name and the tag the    *)
(* image was pushed under.                                                     *)
LEMMA InvAnswered == ASSUME BuildInv PROVE Build!AnsweredImageIsThere
<1> SUFFICES ASSUME NEW b \in Builds
             PROVE  LET q == build[b] IN
                    /\ q.ref # << >> => q.ref = Build!PreviewRef(q.model)
                    /\ q.answer = 200 /\ ~q.setup /\ q.model \notin Premade /\ q.intact =>
                         /\ Len(q.ref) = 3 /\ <<q.ref[2], q.ref[3]>> \in Build!Refs
                         /\ images[<<q.ref[2], q.ref[3]>>] = q.model
  BY Zenon DEF Build!AnsweredImageIsThere
<1>1. PICK q : q = build[b]
  OBVIOUS
<1>2. Previewed(q) /\ Pushed(q, images)
  BY <1>1 DEF BuildInv, SoundBuild
<1>3. ASSUME q.answer = 200, ~q.setup, q.model \notin Premade, q.intact
      PROVE  /\ Len(q.ref) = 3 /\ <<q.ref[2], q.ref[3]>> \in Build!Refs
             /\ images[<<q.ref[2], q.ref[3]>>] = q.model
  <2>1. q.model \in BuildModels /\ q.ref = Build!BuildRef(q.model) /\ images[Build!PushRef(q.model)] = q.model
    BY <1>2, <1>3 DEF Pushed, Built
  <2>2. Len(q.ref) = 3 /\ <<q.ref[2], q.ref[3]>> = Build!PushRef(q.model)
    BY <2>1 DEF Build!BuildRef, Build!PushRef
  <2> QED BY <2>1, <2>2, RefOfModel
<1> QED BY <1>1, <1>2, <1>3 DEF Previewed

LEMMA InvTypes == ASSUME BuildInv PROVE Build!TypeOK
  BY DEF BuildInv, BuildTypes, BuildRequests, Build!TypeOK

(* Any number of requests make the registry and the builder side by side, lose *)
(* answers, fail and build the same names; a build that answers 200 has pushed *)
(* its image under the reference it gives, and no restart or other build of    *)
(* that name left unnoticed takes it away.                                     *)
THEOREM AnsweredHolds == Build!BuildAssumption /\ Build!Spec => []Build!AnsweredImageIsThere
<1> SUFFICES ASSUME Build!BuildAssumption PROVE Build!Spec => []Build!AnsweredImageIsThere
  OBVIOUS
<1>1. Build!Init => BuildInv
  BY BuildInit
<1>2. BuildInv /\ [Build!Next]_(Build!bvars) => BuildInv'
  BY BuildKept
<1>3. BuildInv => Build!AnsweredImageIsThere
  BY InvAnswered
<1> QED BY <1>1, <1>2, <1>3, PTL DEF Build!Spec

(* Every variable keeps its type; no request polls longer than it may.         *)
THEOREM BuildTypesHold == Build!BuildAssumption /\ Build!Spec => []Build!TypeOK
<1> SUFFICES ASSUME Build!BuildAssumption PROVE Build!Spec => []Build!TypeOK
  OBVIOUS
<1>1. Build!Init => BuildInv
  BY BuildInit
<1>2. BuildInv /\ [Build!Next]_(Build!bvars) => BuildInv'
  BY BuildKept
<1>3. BuildInv => Build!TypeOK
  BY InvTypes
<1> QED BY <1>1, <1>2, <1>3, PTL DEF Build!Spec

-----------------------------------------------------------------------------
(* Sums.  The natural numbers are well-founded, which the library states of    *)
(* sets as well: a set of finite sets has a minimal one, and what holds of     *)
(* the empty set and of a set when it holds of it without one of its elements  *)
(* holds of every finite set.                                                  *)
LEMMA LeastNumber ==
  ASSUME NEW T \in SUBSET Nat, T # {}
  PROVE  \E n \in T : \A m \in T : n <= m
<1> DEFINE R == {ss \in Nat \X Nat : ss[1] < ss[2]}
<1>1. IsWellFoundedOn(R, Nat)
  BY NatLessThanWellFounded DEF OpToRel
<1>2. \A x, y \in Nat : <<y, x>> \in R <=> y < x
  OBVIOUS
<1> HIDE DEF R
<1>3. PICK n \in T : \A y \in T : ~ (<<y, n>> \in R)
  BY <1>1, WFMin, Zenon
<1>4. \A m \in T : ~(m < n)
  BY <1>2, <1>3, Zenon
<1>5. \A m \in T : n <= m
  BY <1>4
<1> QED BY <1>5

LEMMA MinimalSet ==
  ASSUME NEW T, T # {}, \A s \in T : IsFiniteSet(s)
  PROVE  \E s \in T : \A x \in s : s \ {x} \notin T
<1> DEFINE Sizes == {Cardinality(s) : s \in T}
<1>1. Sizes \in SUBSET Nat /\ Sizes # {}
  BY FS_CardinalityType
<1>2. PICK n \in Sizes : \A m \in Sizes : n <= m
  <2> HIDE DEF Sizes
  <2> QED BY <1>1, LeastNumber
<1>3. PICK s \in T : n = Cardinality(s)
  OBVIOUS
<1>4. ASSUME NEW x \in s, s \ {x} \in T PROVE FALSE
  <2>1. Cardinality(s \ {x}) = Cardinality(s) - 1 /\ Cardinality(s) \in Nat
    BY <1>4, FS_RemoveElement, FS_CardinalityType
  <2>2. n <= Cardinality(s \ {x})
    BY <1>2, <1>4
  <2> QED BY <1>3, <2>1, <2>2
<1> QED BY <1>4

(* Every part of a finite set is good if the empty set is, and each that is    *)
(* good without any one of its elements.                                       *)
LEMMA PartByPart ==
  ASSUME NEW S, IsFiniteSet(S), NEW Good, {} \in Good,
         \A s \in SUBSET S : s # {} /\ (\A x \in s : s \ {x} \in Good) => s \in Good
  PROVE  SUBSET S \subseteq Good
<1> DEFINE Bad == (SUBSET S) \ Good
<1>1. CASE Bad = {}
  BY <1>1
<1>2. CASE Bad # {}
  <2>1. \A s \in Bad : IsFiniteSet(s)
    BY FS_Subset
  <2>2. PICK s \in Bad : \A x \in s : s \ {x} \notin Bad
    <3> HIDE DEF Bad
    <3> QED BY <1>2, <2>1, MinimalSet
  <2>3. \A x \in s : s \ {x} \in Good
    BY <2>2
  <2> QED BY <2>2, <2>3
<1> QED BY <1>1, <1>2

One(s) == CHOOSE x \in s : TRUE
Adds(F, f, S) == \A s \in SUBSET S : F[s] = IF s = {} THEN 0 ELSE f[One(s)] + F[s \ {One(s)}]

LEMMA OneIsIn == \A s : s # {} => One(s) \in s
BY DEF One

LEMMA AddsExists ==
  ASSUME NEW f, NEW S, IsFiniteSet(S)
  PROVE  \E F : F = [s \in SUBSET S |-> F[s]] /\ Adds(F, f, S)
<1> DEFINE Upto(n) == {s \in SUBSET S : Cardinality(s) <= n}
           Ok(n, F) == \A s \in Upto(n) : F[s] = IF s = {} THEN 0 ELSE f[One(s)] + F[s \ {One(s)}]
           Good(n) == \E F : Ok(n, F)
           Bad == {n \in Nat : ~Good(n)}
<1>1. \A s \in SUBSET S : IsFiniteSet(s) /\ Cardinality(s) \in Nat /\ Cardinality(s) <= Cardinality(S)
  BY FS_Subset, FS_CardinalityType
<1>2. \A s \in SUBSET S : s # {} => /\ s \ {One(s)} \in SUBSET S
                                    /\ Cardinality(s \ {One(s)}) = Cardinality(s) - 1
  BY <1>1, OneIsIn, FS_RemoveElement
<1>3. ASSUME NEW n \in Nat, n = 0 \/ Good(n - 1)
      PROVE  Good(n)
  <2>1. PICK G : n = 0 \/ Ok(n - 1, G)
    BY <1>3, Zenon
  <2> DEFINE F == [s \in SUBSET S |-> IF s = {} THEN 0 ELSE f[One(s)] + G[s \ {One(s)}]]
  <2>2. ASSUME NEW s \in Upto(n), s # {}
        PROVE  F[s \ {One(s)}] = G[s \ {One(s)}]
    <3>1. s \in SUBSET S /\ Cardinality(s) \in Nat /\ Cardinality(s) <= n
      BY <1>1, <2>2
    <3> DEFINE t == s \ {One(s)}
    <3>2. t \in SUBSET S /\ Cardinality(t) \in Nat /\ Cardinality(t) = Cardinality(s) - 1
      BY <1>1, <1>2, <2>2, <3>1
    <3>3. n # 0 /\ Cardinality(t) <= n - 1
      BY <3>1, <3>2
    <3>4. t \in Upto(n - 1)
      BY <3>2, <3>3
    <3>5. G[t] = IF t = {} THEN 0 ELSE f[One(t)] + G[t \ {One(t)}]
      BY <2>1, <3>3, <3>4
    <3>6. F[t] = IF t = {} THEN 0 ELSE f[One(t)] + G[t \ {One(t)}]
      BY <3>2
    <3> QED BY <3>5, <3>6, Zenon
  <2>3. Ok(n, F)
    <3> SUFFICES ASSUME NEW s \in Upto(n)
                 PROVE F[s] = IF s = {} THEN 0 ELSE f[One(s)] + F[s \ {One(s)}]
      OBVIOUS
    <3>1. F[s] = IF s = {} THEN 0 ELSE f[One(s)] + G[s \ {One(s)}]
      OBVIOUS
    <3> HIDE DEF F
    <3> QED BY <2>2, <3>1
  <2> HIDE DEF Ok, F
  <2> QED BY <2>3
<1>4. Bad = {}
  <2> HIDE DEF Good
  <2> SUFFICES ASSUME Bad # {} PROVE FALSE
    OBVIOUS
  <2>1. PICK n \in Bad : \A m \in Bad : n <= m
    BY LeastNumber
  <2>2. CASE n = 0
    BY <1>3, <2>2
  <2>3. CASE n # 0
    <3>1. n - 1 \in Nat /\ ~(n <= n - 1)
      BY <2>3
    <3>2. Good(n - 1)
      BY <2>1, <3>1
    <3> QED BY <1>3, <3>2
  <2> QED BY <2>2, <2>3
<1>5. Cardinality(S) \in Nat
  BY FS_CardinalityType
<1>6. Good(Cardinality(S))
  <2> HIDE DEF Good
  <2> QED BY <1>4, <1>5
<1>7. PICK G : Ok(Cardinality(S), G)
  BY <1>6
<1> DEFINE F == [s \in SUBSET S |-> G[s]]
<1>8. ASSUME NEW s \in SUBSET S PROVE F[s] = IF s = {} THEN 0 ELSE f[One(s)] + F[s \ {One(s)}]
  <2>1. G[s] = IF s = {} THEN 0 ELSE f[One(s)] + G[s \ {One(s)}]
    BY <1>1, <1>7
  <2>2. s # {} => F[s \ {One(s)}] = G[s \ {One(s)}]
    BY <1>2
  <2> QED BY <2>1, <2>2
<1>9. F = [s \in SUBSET S |-> F[s]]
  OBVIOUS
<1> HIDE DEF F
<1>10. Adds(F, f, S)
  BY <1>8 DEF Adds
<1> QED BY <1>9, <1>10

Total(f, S) == Gpus!SumFunctionOnSet(f, S)

LEMMA TotalAdds ==
  ASSUME NEW f, NEW S, IsFiniteSet(S)
  PROVE  \E F : Adds(F, f, S) /\ Total(f, S) = F[S]
<1> DEFINE Is(g) == g = [s \in SUBSET S |-> IF s = {} THEN 0
                                       ELSE f[CHOOSE x \in s : TRUE] + g[s \ {CHOOSE x \in s : TRUE}]]
           F == CHOOSE g : Is(g)
<1>1. Is(F)
  <2>1. PICK G : G = [s \in SUBSET S |-> G[s]] /\ Adds(G, f, S)
    BY AddsExists
  <2>2. \A s \in SUBSET S : G[s] = IF s = {} THEN 0 ELSE f[CHOOSE x \in s : TRUE] + G[s \ {CHOOSE x \in s : TRUE}]
    BY <2>1 DEF Adds, One
  <2>3. Is(G)
    BY <2>1, <2>2, Zenon
  <2> QED BY <2>3, Zenon
<1>2. Total(f, S) = F[S]
  BY Zenon DEF Total, Gpus!SumFunctionOnSet, Gpus!FoldFunctionOnSet, Gpus!MapThenFoldSet
<1> HIDE DEF F
<1>3. Adds(F, f, S)
  BY <1>1 DEF Adds, One
<1> QED BY <1>2, <1>3

LEMMA OneSum ==
  ASSUME NEW f, NEW S, IsFiniteSet(S), NEW F, NEW G, Adds(F, f, S), NEW T, Adds(G, f, T), S \subseteq T
  PROVE  F[S] = G[S]
<1> DEFINE Good == {s \in SUBSET S : F[s] = G[s]}
<1>1. \A s \in SUBSET S : /\ F[s] = IF s = {} THEN 0 ELSE f[One(s)] + F[s \ {One(s)}]
                          /\ G[s] = IF s = {} THEN 0 ELSE f[One(s)] + G[s \ {One(s)}]
  BY DEF Adds
<1>2. {} \in Good
  BY <1>1
<1>3. ASSUME NEW s \in SUBSET S, s # {}, \A x \in s : s \ {x} \in Good PROVE s \in Good
  <2>1. One(s) \in s
    BY <1>3, OneIsIn
  <2> QED BY <1>1, <1>3, <2>1
<1>4. SUBSET S \subseteq Good
  <2> HIDE DEF Good
  <2> QED BY <1>2, <1>3, PartByPart
<1> QED BY <1>4

(* The sum over a set is the element that is chosen first and the sum of the   *)
(* others.                                                                     *)
LEMMA TotalSteps ==
  ASSUME NEW f, NEW S, IsFiniteSet(S)
  PROVE  /\ Total(f, {}) = 0
         /\ S # {} => Total(f, S) = f[One(S)] + Total(f, S \ {One(S)})
<1>1. Total(f, {}) = 0
  <2>1. PICK F : Adds(F, f, {}) /\ Total(f, {}) = F[{}]
    BY TotalAdds, FS_EmptySet
  <2> QED BY <2>1 DEF Adds
<1>2. ASSUME S # {} PROVE Total(f, S) = f[One(S)] + Total(f, S \ {One(S)})
  <2> DEFINE t == S \ {One(S)}
  <2>1. IsFiniteSet(t) /\ t \subseteq S
    BY FS_Subset
  <2>2. PICK F : Adds(F, f, S) /\ Total(f, S) = F[S]
    BY TotalAdds
  <2>3. PICK G : Adds(G, f, t) /\ Total(f, t) = G[t]
    BY <2>1, TotalAdds
  <2>4. G[t] = F[t]
    <3> HIDE DEF t
    <3> QED BY <2>1, <2>2, <2>3, OneSum
  <2>5. F[S] = f[One(S)] + F[t]
    BY <1>2, <2>2 DEF Adds
  <2> QED BY <2>2, <2>3, <2>4, <2>5
<1> QED BY <1>1, <1>2

LEMMA TotalIsInt ==
  ASSUME NEW f, NEW S, IsFiniteSet(S), \A x \in S : f[x] \in Int
  PROVE  \A s \in SUBSET S : Total(f, s) \in Int
<1> DEFINE Good == {s \in SUBSET S : Total(f, s) \in Int}
<1>1. {} \in Good
  <2>1. Total(f, {}) = 0
    BY TotalSteps
  <2> QED BY <2>1
<1>2. ASSUME NEW s \in SUBSET S, s # {}, \A x \in s : s \ {x} \in Good PROVE s \in Good
  <2>1. One(s) \in s /\ IsFiniteSet(s)
    BY <1>2, OneIsIn, FS_Subset
  <2>2. Total(f, s) = f[One(s)] + Total(f, s \ {One(s)})
    BY <1>2, <2>1, TotalSteps
  <2> QED BY <1>2, <2>1, <2>2
<1>3. SUBSET S \subseteq Good
  <2> HIDE DEF Good
  <2> QED BY <1>1, <1>2, PartByPart
<1> QED BY <1>3

(* And it is any element and the sum of the others.                            *)
LEMMA TotalOut ==
  ASSUME NEW f, NEW S, IsFiniteSet(S), \A x \in S : f[x] \in Int
  PROVE  \A s \in SUBSET S : \A x \in s : Total(f, s) = f[x] + Total(f, s \ {x})
<1> DEFINE Out(s, x) == Total(f, s) = f[x] + Total(f, s \ {x})
           Good == {s \in SUBSET S : \A x \in s : Out(s, x)}
<1>1. {} \in Good
  OBVIOUS
<1>2. ASSUME NEW s \in SUBSET S, s # {}, \A x \in s : s \ {x} \in Good PROVE s \in Good
  <2> SUFFICES ASSUME NEW x \in s PROVE Out(s, x)
    BY <1>2
  <2> DEFINE c == One(s)
             A == s \ {c}
             B == s \ {x}
             C == A \ {x}
  <2>1. c \in s /\ IsFiniteSet(s)
    BY <1>2, OneIsIn, FS_Subset
  <2>2. Total(f, s) = f[c] + Total(f, A)
    BY <1>2, <2>1, TotalSteps
  <2>3. CASE x = c
    BY <2>2, <2>3
  <2>4. CASE x # c
    <3>1. A \in Good /\ B \in Good /\ x \in A /\ c \in B /\ C = B \ {c}
      BY <1>2, <2>1, <2>4
    <3>2. Out(A, x) /\ Out(B, c)
      BY <3>1
    <3>3. Total(f, A) = f[x] + Total(f, C) /\ Total(f, B) = f[c] + Total(f, C)
      BY <3>1, <3>2
    <3>4. C \in SUBSET S /\ f[x] \in Int /\ f[c] \in Int
      BY <2>1
    <3>5. Total(f, C) \in Int
      BY <3>4, TotalIsInt
    <3> HIDE DEF A, B, C, c
    <3>6. Total(f, s) = f[x] + Total(f, B)
      BY <2>2, <3>3, <3>4, <3>5
    <3> QED BY <3>6 DEF B
  <2> QED BY <2>3, <2>4
<1>3. SUBSET S \subseteq Good
  <2> HIDE DEF Good
  <2> QED BY <1>1, <1>2, PartByPart
<1> QED BY <1>3

(* Sums of what is less are less, and the difference of two sums is the sum of *)
(* the differences.                                                            *)
LEMMA TotalLess ==
  ASSUME NEW f, NEW g, NEW S, IsFiniteSet(S),
         \A x \in S : f[x] \in Int /\ g[x] \in Int /\ f[x] <= g[x]
  PROVE  Total(f, S) <= Total(g, S)
<1> DEFINE Good == {s \in SUBSET S : Total(f, s) <= Total(g, s)}
<1>1. {} \in Good
  <2>1. Total(f, {}) = 0 /\ Total(g, {}) = 0
    BY TotalSteps
  <2> QED BY <2>1
<1>2. ASSUME NEW s \in SUBSET S, s # {}, \A x \in s : s \ {x} \in Good PROVE s \in Good
  <2>1. PICK x \in s : s \ {x} \in Good
    BY <1>2
  <2>2. Total(f, s) = f[x] + Total(f, s \ {x}) /\ Total(g, s) = g[x] + Total(g, s \ {x})
    BY TotalOut
  <2>3. Total(f, s \ {x}) \in Int /\ Total(g, s \ {x}) \in Int
    BY TotalIsInt
  <2>4. Total(f, s \ {x}) <= Total(g, s \ {x})
    BY <2>1
  <2>5. Total(f, s) <= Total(g, s)
    BY <2>2, <2>3, <2>4
  <2> QED BY <2>5
<1>3. SUBSET S \subseteq Good
  <2> HIDE DEF Good
  <2> QED BY <1>1, <1>2, PartByPart
<1> QED BY <1>3

LEMMA TotalSame ==
  ASSUME NEW f, NEW g, NEW S, IsFiniteSet(S), \A x \in S : f[x] \in Int /\ f[x] = g[x]
  PROVE  Total(f, S) = Total(g, S)
<1>1. Total(f, S) <= Total(g, S) /\ Total(g, S) <= Total(f, S)
  BY TotalLess
<1>2. Total(f, S) \in Int /\ Total(g, S) \in Int
  BY TotalIsInt
<1> QED BY <1>1, <1>2

LEMMA TotalMinus ==
  ASSUME NEW f, NEW g, NEW h, NEW S, IsFiniteSet(S),
         \A x \in S : f[x] \in Int /\ g[x] \in Int /\ h[x] = f[x] - g[x]
  PROVE  Total(h, S) = Total(f, S) - Total(g, S)
<1> DEFINE Good == {s \in SUBSET S : Total(h, s) = Total(f, s) - Total(g, s)}
<1>1. {} \in Good
  <2>1. Total(f, {}) = 0 /\ Total(g, {}) = 0 /\ Total(h, {}) = 0
    BY TotalSteps
  <2> QED BY <2>1
<1>2. ASSUME NEW s \in SUBSET S, s # {}, \A x \in s : s \ {x} \in Good PROVE s \in Good
  <2>1. PICK x \in s : s \ {x} \in Good
    BY <1>2
  <2>2. /\ Total(f, s) = f[x] + Total(f, s \ {x}) /\ Total(g, s) = g[x] + Total(g, s \ {x})
        /\ Total(h, s) = h[x] + Total(h, s \ {x})
    BY TotalOut
  <2>3. Total(f, s \ {x}) \in Int /\ Total(g, s \ {x}) \in Int
    BY TotalIsInt
  <2>4. Total(h, s \ {x}) = Total(f, s \ {x}) - Total(g, s \ {x})
    BY <2>1
  <2>5. Total(h, s) = Total(f, s) - Total(g, s)
    BY <2>2, <2>3, <2>4
  <2> QED BY <2>5
<1>3. SUBSET S \subseteq Good
  <2> HIDE DEF Good
  <2> QED BY <1>1, <1>2, PartByPart
<1> QED BY <1>3

(* What is zero adds nothing.                                                  *)
LEMMA TotalOfPart ==
  ASSUME NEW f, NEW S, IsFiniteSet(S), NEW P \in SUBSET S,
         \A x \in S : f[x] \in Int /\ (x \notin P => f[x] = 0)
  PROVE  Total(f, S) = Total(f, P)
<1> DEFINE Good == {s \in SUBSET S : Total(f, s) = Total(f, s \cap P)}
<1>1. {} \in Good
  OBVIOUS
<1>2. ASSUME NEW s \in SUBSET S, s # {}, \A x \in s : s \ {x} \in Good PROVE s \in Good
  <2>1. PICK x \in s : s \ {x} \in Good
    BY <1>2
  <2>2. Total(f, s) = f[x] + Total(f, s \ {x})
    BY TotalOut
  <2>3. Total(f, s \ {x}) \in Int /\ Total(f, s \ {x}) = Total(f, (s \ {x}) \cap P)
    BY <2>1, TotalIsInt
  <2>4. CASE x \in P
    <3>1. (s \cap P) \ {x} = (s \ {x}) \cap P /\ x \in s \cap P /\ s \cap P \in SUBSET S
      BY <2>4
    <3>2. Total(f, s \cap P) = f[x] + Total(f, (s \cap P) \ {x})
      BY <3>1, TotalOut
    <3> QED BY <2>2, <2>3, <3>1, <3>2
  <2>5. CASE x \notin P
    <3>1. (s \ {x}) \cap P = s \cap P /\ f[x] = 0
      BY <2>5
    <3>2. Total(f, s \ {x}) = Total(f, s \cap P)
      BY <2>3, <3>1, Zenon
    <3>3. Total(f, s) = Total(f, s \ {x})
      BY <2>2, <2>3, <3>1
    <3> QED BY <3>2, <3>3, Zenon
  <2> QED BY <2>4, <2>5
<1>3. SUBSET S \subseteq Good
  <2> HIDE DEF Good
  <2> QED BY <1>1, <1>2, PartByPart
<1>4. S \cap P = P
  OBVIOUS
<1> QED BY <1>3, <1>4

(* A sum may be taken in groups.                                               *)
LEMMA TotalOfTwo ==
  ASSUME NEW f, NEW A, NEW B, IsFiniteSet(A), IsFiniteSet(B), A \cap B = {},
         \A x \in A \cup B : f[x] \in Int
  PROVE  Total(f, A \cup B) = Total(f, A) + Total(f, B)
<1> DEFINE Good == {s \in SUBSET B : Total(f, A \cup s) = Total(f, A) + Total(f, s)}
<1>1. IsFiniteSet(A \cup B)
  BY FS_Union
<1>2. Total(f, A) \in Int
  BY <1>1, TotalIsInt
<1>3. {} \in Good
  <2>1. A \cup {} = A /\ Total(f, {}) = 0
    BY TotalSteps
  <2> QED BY <1>2, <2>1
<1>4. ASSUME NEW s \in SUBSET B, s # {}, \A x \in s : s \ {x} \in Good PROVE s \in Good
  <2>1. PICK x \in s : s \ {x} \in Good
    BY <1>4
  <2>2. A \cup s \in SUBSET (A \cup B) /\ x \in A \cup s /\ (A \cup s) \ {x} = A \cup (s \ {x}) /\ s \in SUBSET (A \cup B)
        /\ s \ {x} \in SUBSET (A \cup B) /\ f[x] \in Int
    OBVIOUS
  <2>3. Total(f, A \cup s) = f[x] + Total(f, (A \cup s) \ {x}) /\ Total(f, s) = f[x] + Total(f, s \ {x})
    BY <1>1, <2>2, TotalOut
  <2>4. Total(f, s \ {x}) \in Int
    BY <1>1, <2>2, TotalIsInt
  <2>5. Total(f, A \cup (s \ {x})) = Total(f, A) + Total(f, s \ {x})
    BY <2>1
  <2>6. Total(f, A \cup s) = f[x] + (Total(f, A) + Total(f, s \ {x}))
    BY <2>2, <2>3, <2>5, Zenon
  <2>7. Total(f, A \cup s) = Total(f, A) + Total(f, s)
    <3>1. PICK a, b \in Int : a = Total(f, A) /\ b = Total(f, s \ {x})
      BY <1>2, <2>4
    <3> QED BY <2>2, <2>3, <2>6, <3>1
  <2> QED BY <2>7
<1>5. SUBSET B \subseteq Good
  <2> HIDE DEF Good
  <2> QED BY <1>3, <1>4, PartByPart
<1> QED BY <1>5

(* h has, for each of the groups G that S is split into, the sum over it.      *)
SumsOfGroups(h, G, f, S, group, of) ==
  /\ IsFiniteSet(S) /\ IsFiniteSet(G)
  /\ \A x \in S : f[x] \in Int /\ group[x] \in G
  /\ \A p \in G : /\ of[p] \in SUBSET S /\ \A x \in S : x \in of[p] <=> group[x] = p
                  /\ h[p] = Total(f, of[p])

LEMMA TotalOfGroups ==
  ASSUME NEW f, NEW S, NEW group, NEW G, NEW h, NEW of, SumsOfGroups(h, G, f, S, group, of)
  PROVE  Total(h, G) = Total(f, S)
<1> SUFFICES ASSUME IsFiniteSet(S), IsFiniteSet(G), \A x \in S : f[x] \in Int /\ group[x] \in G,
                    \A p \in G : /\ of[p] \in SUBSET S /\ \A x \in S : x \in of[p] <=> group[x] = p
                                 /\ h[p] = Total(f, of[p])
             PROVE  Total(h, G) = Total(f, S)
  BY DEF SumsOfGroups
<1> DEFINE Of(s) == {x \in S : group[x] \in s}
           Good == {s \in SUBSET G : Total(h, s) = Total(f, Of(s))}
<1>1. {} \in Good
  <2>1. Of({}) = {}
    OBVIOUS
  <2>2. Total(h, {}) = 0 /\ Total(f, {}) = 0
    BY TotalSteps
  <2> QED BY <2>1, <2>2
<1>2. ASSUME NEW p \in G PROVE h[p] \in Int
  <2>1. PICK B \in SUBSET S : h[p] = Total(f, B)
    OBVIOUS
  <2> QED BY <2>1, TotalIsInt
<1>3. ASSUME NEW s \in SUBSET G, s # {}, \A p \in s : s \ {p} \in Good PROVE s \in Good
  <2>1. PICK p \in s : s \ {p} \in Good
    BY <1>3
  <2>2. Total(h, s) = h[p] + Total(h, s \ {p})
    BY <1>2, TotalOut
  <2> DEFINE A == Of(s \ {p})
             B == of[p]
  <2>3. A \cap B = {} /\ Of(s) = A \cup B /\ A \in SUBSET S /\ B \in SUBSET S
    OBVIOUS
  <2>4. IsFiniteSet(A) /\ IsFiniteSet(B) /\ Total(f, A) \in Int /\ Total(f, B) \in Int
    BY <2>3, FS_Subset, TotalIsInt
  <2>5. h[p] = Total(f, B) /\ Total(h, s \ {p}) = Total(f, A)
    BY <2>1
  <2> HIDE DEF A, B
  <2>6. Total(f, A \cup B) = Total(f, A) + Total(f, B)
    BY <2>3, <2>4, TotalOfTwo
  <2>7. Total(h, s) = Total(f, B) + Total(f, A) /\ Total(f, Of(s)) = Total(f, A) + Total(f, B)
    BY <2>2, <2>3, <2>5, <2>6, Zenon
  <2>8. Total(f, B) + Total(f, A) = Total(f, A) + Total(f, B)
    BY <2>4
  <2> QED BY <2>7, <2>8, Zenon
<1>4. SUBSET G \subseteq Good
  <2> HIDE DEF Good
  <2> QED BY <1>1, <1>3, PartByPart
<1>5. Total(h, G) = Total(f, Of(G))
  BY <1>4
<1>6. Of(G) = S
  OBVIOUS
<1> QED BY <1>5, <1>6

LEMMA TotalIsNat ==
  ASSUME NEW f, NEW S, IsFiniteSet(S), \A x \in S : f[x] \in Nat
  PROVE  Total(f, S) \in Nat
<1> DEFINE zero == [x \in S |-> 0]
<1>1. \A x \in S : zero[x] = 0
  OBVIOUS
<1> HIDE DEF zero
<1>2. PICK P : P = {}
  OBVIOUS
<1>3. P \in SUBSET S /\ \A x \in S : zero[x] \in Int /\ (x \notin P => zero[x] = 0)
  BY <1>1, <1>2
<1>4. Total(zero, S) = Total(zero, P)
  BY <1>3, TotalOfPart
<1>5. Total(zero, P) = 0
  BY <1>2, TotalSteps
<1>6. Total(zero, S) <= Total(f, S)
  BY <1>1, TotalLess
<1>7. Total(f, S) \in Int
  BY TotalIsInt
<1> QED BY <1>4, <1>5, <1>6, <1>7

LEMMA SumFunctionIs == \A f : Gpus!SumFunction(f) = Total(f, DOMAIN f)
BY Zenon DEF Gpus!SumFunction, Total

LEMMA Largest ==
  ASSUME NEW S, IsFiniteSet(S), S \subseteq Int, S # {}
  PROVE  \E x \in S : \A y \in S : x >= y
<1> DEFINE Good == {{}} \cup {s \in SUBSET S : \E x \in s : \A y \in s : x >= y}
<1>1. ASSUME NEW s \in SUBSET S, s # {}, \A x \in s : s \ {x} \in Good PROVE s \in Good
  <2>1. PICK z \in s : s \ {z} \in Good
    BY <1>1
  <2>2. CASE s \ {z} = {}
    <3>1. \A y \in s : z >= y
      BY <2>2
    <3> QED BY <3>1
  <2>3. CASE s \ {z} # {}
    <3>1. PICK x \in s \ {z} : \A y \in s \ {z} : x >= y
      BY <2>1, <2>3
    <3>2. x \in Int /\ z \in Int
      OBVIOUS
    <3>3. CASE x >= z
      <4>1. \A y \in s : x >= y
        BY <3>1, <3>3
      <4> QED BY <4>1
    <3>4. CASE ~(x >= z)
      <4>1. \A y \in s : z >= y
        BY <3>1, <3>2, <3>4
      <4> QED BY <4>1
    <3> QED BY <3>3, <3>4
  <2> QED BY <2>2, <2>3
<1>2. SUBSET S \subseteq Good
  <2>1. {} \in Good
    OBVIOUS
  <2> HIDE DEF Good
  <2> QED BY <1>1, <2>1, PartByPart
<1> QED BY <1>2

LEMMA MaxIs ==
  ASSUME NEW S, IsFiniteSet(S), S \subseteq Int, S # {}
  PROVE  Gpus!Max(S) \in S /\ \A y \in S : Gpus!Max(S) >= y
BY Largest, Zenon DEF Gpus!Max

(* What the assumptions on the constants give.                                 *)
LEMMA GpusFinite == \A S : Gpus!IsFiniteSet(S) <=> IsFiniteSet(S)
BY DEF Gpus!IsFiniteSet, IsFiniteSet

LEMMA ImageIsFinite ==
  ASSUME NEW S, IsFiniteSet(S), NEW f
  PROVE  IsFiniteSet({f[x] : x \in S})
<1> DEFINE T == {f[x] : x \in S}
           g == [x \in S |-> f[x]]
<1>1. g \in [S -> T] /\ \A t \in T : \E s \in S : g[s] = t
  OBVIOUS
<1>2. g \in Surjection(S, T)
  BY <1>1 DEF Surjection
<1> QED BY <1>2, FS_Surjection

LEMMA CapacityFacts ==
  /\ Gpus!NodeSet # {} /\ IsFiniteSet(Gpus!NodeSet)
  /\ NodeGpus \subseteq Nat /\ Asks \subseteq Nat /\ IsFiniteSet(Pods)
  /\ \A c \in Configs : /\ c.workers # << >> /\ c.workers \in Seq([replicas : Nat, gpus : Nat])
                        /\ c.span \in Nat
<1>1. Gpus!CapacityAssumption
  BY ServicesAssumption
<1>2. PICK S : Nodes \in Seq(S)
  BY <1>1 DEF Gpus!CapacityAssumption
<1>3. DOMAIN Nodes = 1..Len(Nodes) /\ Len(Nodes) \in Nat /\ Nodes # << >>
  BY <1>1, <1>2 DEF Gpus!CapacityAssumption
<1>4. Len(Nodes) # 0
  BY <1>2, <1>3, EmptySeq
<1>5. IsFiniteSet(DOMAIN Nodes)
  BY <1>3, FS_Interval
<1>6. IsFiniteSet({Nodes[k] : k \in DOMAIN Nodes})
  BY <1>5, ImageIsFinite
<1>7. 1 \in DOMAIN Nodes
  BY <1>3, <1>4
<1>8. Gpus!NodeSet # {} /\ IsFiniteSet(Gpus!NodeSet)
  BY <1>6, <1>7 DEF Gpus!NodeSet
<1> QED BY <1>1, <1>8, GpusFinite DEF Gpus!CapacityAssumption

-----------------------------------------------------------------------------
(* The nodes and the pods as they may be, and what a reading has seen of them: *)
(* undisturbed, what it listed is what there is.                               *)
CapacityTypes ==
  /\ alloc \in [Gpus!NodeSet -> Nat]
  /\ pods \in [Pods -> [on : Gpus!NodeSet \cup {Gpus!Nowhere}, gpus : Nat,
                        phase : {"Pending", "Running", "Succeeded"}]]

Counted(taken) ==
  /\ read.listed \in [Gpus!NodeSet -> Nat]
  /\ read.capacity = Gpus!Capacity(read.listed, taken)
  /\ read.quiet => read.listed = alloc /\ \A n \in Gpus!NodeSet : taken[n] = Gpus!Taken(n)

ReadHolds ==
  read.pc # "idle" =>
    /\ {"pc", "what", "config", "listed", "capacity", "pools", "quiet", "failed"} \subseteq DOMAIN read
    /\ read.config \in Configs
    /\ read.failed => read.pc = "done" /\ read.capacity = Gpus!NoCapacity
    /\ (read.pc = "again" => read.what # "why") /\ (read.pc = "events" => read.what = "why")
    /\ read.pc = "pods" /\ read.what # "why" =>
         read.listed \in [Gpus!NodeSet -> Nat] /\ (read.quiet => read.listed = alloc)
    /\ read.pc \in {"again", "done"} /\ read.what # "why" /\ ~read.failed =>
         \E taken \in [Gpus!NodeSet -> Nat] : Counted(taken)
    /\ read.pc = "done" /\ read.what = "pools" /\ read.quiet /\ ~read.failed =>
         read.pools = Gpus!PoolsOf(alloc, read.capacity.left)

CapacityInv == CapacityTypes /\ ReadHolds

(* The pods that are counted on a node are the ones the scheduler counts.      *)
LEMMA TakenIsInUse ==
  ASSUME CapacityTypes, NEW n
  PROVE  Gpus!InUse(n) = Gpus!Taken(n) /\ Gpus!Taken(n) \in Nat
<1> DEFINE P == {p \in Pods : pods[p].on = n /\ pods[p].phase # "Succeeded"}
           f == [p \in Pods |-> IF Gpus!Takes(p, n) THEN pods[p].gpus ELSE 0]
           g == [p \in P |-> pods[p].gpus]
<1>1. IsFiniteSet(Pods) /\ P \in SUBSET Pods
  BY CapacityFacts
<1>2. IsFiniteSet(P)
  BY <1>1, FS_Subset
<1>3. \A p \in Pods : pods[p].gpus \in Nat /\ (p \in P <=> Gpus!Takes(p, n))
  BY DEF CapacityTypes, Gpus!Takes
<1>4. \A p \in Pods : f[p] \in Nat /\ (p \notin P => f[p] = 0)
  BY <1>3
<1>5. \A p \in P : g[p] = f[p] /\ g[p] \in Int
  BY <1>1, <1>3
<1>6. Gpus!Taken(n) = Gpus!SumFunction(f) /\ Gpus!InUse(n) = Gpus!SumFunction(g)
  BY Zenon DEF Gpus!Taken, Gpus!InUse
<1>7. DOMAIN f = Pods /\ DOMAIN g = P
  OBVIOUS
<1> HIDE DEF P, f, g
<1>8. Gpus!Taken(n) = Total(f, Pods) /\ Gpus!InUse(n) = Total(g, P)
  BY <1>6, <1>7, SumFunctionIs
<1>9. \A p \in Pods : f[p] \in Int /\ (p \notin P => f[p] = 0)
  BY <1>4
<1>10. Total(f, Pods) = Total(f, P)
  BY <1>1, <1>9, TotalOfPart
<1>11. Total(g, P) = Total(f, P)
  BY <1>2, <1>5, TotalSame
<1>12. Total(f, Pods) \in Nat
  BY <1>1, <1>4, TotalIsNat
<1> QED BY <1>8, <1>10, <1>11, <1>12

-----------------------------------------------------------------------------
(* What a reading of the capacity says, once the nodes and the pods of it are  *)
(* known: what is left is what is listed less what is taken, nowhere less than *)
(* nothing.                                                                    *)
LEMMA WhatIsSaid ==
  ASSUME NEW seen \in [Gpus!NodeSet -> Nat], NEW taken \in [Gpus!NodeSet -> Nat],
         NEW with, with = Gpus!GpuNodes(seen), NEW said, said = Gpus!Capacity(seen, taken)
  PROVE  /\ with \in SUBSET Gpus!NodeSet /\ IsFiniteSet(with)
         /\ said.total = Total(seen, with)
         /\ said.available = Total(seen, with) - Total(taken, with)
         /\ said.available \in Int
         /\ DOMAIN said.left = with
         /\ \A n \in with : said.left[n] = Gpus!Left(seen, taken, n)
         /\ said.maxContiguous \in Nat /\ said.maxNode \in Nat
         /\ said.maxNode >= said.maxContiguous
         /\ said.maxContiguous = 0 \/ \E n \in with : said.maxContiguous = Gpus!Left(seen, taken, n)
<1>1. with \in SUBSET Gpus!NodeSet /\ IsFiniteSet(with)
  BY CapacityFacts, FS_Subset DEF Gpus!GpuNodes
<1>2. said.total = Total(seen, with)
  BY Zenon DEF Gpus!Capacity, Total
<1>3. said.available = Total(seen, with) - Total(taken, with)
  BY Zenon DEF Gpus!Capacity, Total
<1>4. said.available \in Int
  <2>1. \A n \in with : seen[n] \in Int /\ taken[n] \in Int
    BY <1>1
  <2>2. Total(seen, with) \in Int /\ Total(taken, with) \in Int
    BY <1>1, <2>1, TotalIsInt
  <2> QED BY <1>3, <2>2
<1>5. DOMAIN said.left = with /\ \A n \in with : said.left[n] = Gpus!Left(seen, taken, n)
  BY Zenon DEF Gpus!Capacity
<1> DEFINE free == [n \in with |-> Gpus!Left(seen, taken, n)]
           lefts == {free[n] : n \in with}
           has == {seen[n] : n \in with}
<1>6. said.maxContiguous = Gpus!Max({0} \cup {Gpus!Left(seen, taken, n) : n \in with})
  BY Zenon DEF Gpus!Capacity, Gpus!Largest
<1>7. said.maxNode = Gpus!Max({0} \cup has)
  BY Zenon DEF Gpus!Capacity, Gpus!Largest
<1>8. {Gpus!Left(seen, taken, n) : n \in with} = lefts
  OBVIOUS
<1>9. \A n \in with : free[n] = Gpus!Left(seen, taken, n)
  OBVIOUS
<1>10. \A n \in with : seen[n] \in Nat /\ free[n] \in Nat /\ free[n] <= seen[n]
  BY <1>1, <1>9 DEF Gpus!Left
<1> HIDE DEF free
<1>11. IsFiniteSet(lefts) /\ IsFiniteSet(has)
  BY <1>1, ImageIsFinite
<1>12. PICK L, H : L = {0} \cup lefts /\ H = {0} \cup has
  OBVIOUS
<1>13. L \subseteq Nat /\ H \subseteq Nat /\ L \subseteq Int /\ H \subseteq Int /\ L # {} /\ H # {}
  BY <1>10, <1>12
<1>14. IsFiniteSet(L) /\ IsFiniteSet(H)
  <2>1. IsFiniteSet({0})
    BY FS_Singleton
  <2> QED BY <1>11, <1>12, <2>1, FS_Union
<1>15. said.maxContiguous \in L
  <2>1. said.maxContiguous = Gpus!Max(L)
    BY <1>6, <1>8, <1>12
  <2> QED BY <2>1, <1>13, <1>14, MaxIs
<1>16. said.maxNode \in H /\ \A y \in H : said.maxNode >= y
  <2>1. said.maxNode = Gpus!Max(H)
    BY <1>7, <1>12
  <2> QED BY <2>1, <1>13, <1>14, MaxIs
<1>17. said.maxNode >= said.maxContiguous
  <2>1. CASE said.maxContiguous = 0
    BY <2>1, <1>12, <1>13, <1>16
  <2>2. CASE said.maxContiguous \in lefts
    <3>1. PICK n \in with : said.maxContiguous = free[n]
      BY <2>2
    <3>2. said.maxNode >= seen[n] /\ said.maxNode \in Nat
      BY <1>12, <1>13, <1>16
    <3> QED BY <3>1, <3>2, <1>10
  <2> QED BY <2>1, <2>2, <1>12, <1>15
<1>18. said.maxContiguous \in Nat /\ said.maxNode \in Nat
  BY <1>13, <1>15, <1>16
<1>19. said.maxContiguous = 0 \/ \E n \in with : said.maxContiguous = Gpus!Left(seen, taken, n)
  BY <1>9, <1>12, <1>15
<1> QED BY <1>1, <1>2, <1>3, <1>4, <1>5, <1>17, <1>18, <1>19

(* What a deployment requires is a number, and so is what a worker of it asks. *)
LEMMA RequiredIs ==
  ASSUME NEW c \in Configs
  PROVE  Gpus!Required(c) \in Nat /\ Gpus!Max(Gpus!PerWorker(c)) \in Nat
<1> DEFINE w == c.workers
           asks == [k \in DOMAIN w |-> w[k].replicas * w[k].gpus * c.span]
           each == [k \in DOMAIN w |-> w[k].gpus]
<1>1. w # << >> /\ w \in Seq([replicas : Nat, gpus : Nat]) /\ c.span \in Nat
  BY CapacityFacts
<1>2. DOMAIN w = 1..Len(w) /\ Len(w) \in Nat /\ Len(w) # 0
  BY <1>1, EmptySeq
<1>3. IsFiniteSet(DOMAIN w) /\ 1 \in DOMAIN w
  BY <1>2, FS_Interval
<1>4. \A k \in DOMAIN w : w[k].replicas \in Nat /\ w[k].gpus \in Nat
  <2> SUFFICES ASSUME NEW k \in DOMAIN w PROVE w[k].replicas \in Nat /\ w[k].gpus \in Nat
    OBVIOUS
  <2>1. w[k] \in [replicas : Nat, gpus : Nat]
    BY <1>1, <1>2, ElementOfSeq
  <2> QED BY <2>1
<1>5. \A k \in DOMAIN w : asks[k] \in Nat /\ each[k] \in Nat
  <2> SUFFICES ASSUME NEW k \in DOMAIN w PROVE asks[k] \in Nat /\ each[k] \in Nat
    OBVIOUS
  <2>1. PICK a \in Nat, b \in Nat, d \in Nat : a = w[k].replicas /\ b = w[k].gpus /\ d = c.span
    BY <1>1, <1>4
  <2>2. asks[k] = a * b * d /\ each[k] = b
    BY <2>1, Zenon
  <2>3. a * b * d \in Nat
    OBVIOUS
  <2> QED BY <2>2, <2>3
<1>6. Gpus!Required(c) = Gpus!SumFunction(asks) /\ DOMAIN asks = DOMAIN w
  BY Zenon DEF Gpus!Required
<1>7. Gpus!PerWorker(c) = {each[k] : k \in DOMAIN w}
  BY DEF Gpus!PerWorker
<1> HIDE DEF w, asks, each
<1>8. Gpus!Required(c) \in Nat
  BY <1>3, <1>5, <1>6, SumFunctionIs, TotalIsNat
<1>9. IsFiniteSet(Gpus!PerWorker(c)) /\ Gpus!PerWorker(c) \subseteq Nat /\ Gpus!PerWorker(c) # {}
  BY <1>3, <1>5, <1>7, ImageIsFinite
<1> QED BY <1>8, <1>9, MaxIs

(* The free GPUs of the cluster, which only the nodes that have some have.     *)
LEMMA FreeOnlyWhereListed ==
  ASSUME CapacityTypes, NEW free, free = [n \in Gpus!NodeSet |-> Gpus!Free(n)],
         NEW with, with = Gpus!GpuNodes(alloc)
  PROVE  /\ \A n \in Gpus!NodeSet : free[n] \in Nat
         /\ Gpus!SumFunction(free) = Total(free, with)
<1>1. \A n \in Gpus!NodeSet : alloc[n] \in Nat /\ Gpus!InUse(n) \in Nat
  BY TakenIsInUse DEF CapacityTypes
<1>2. \A n \in Gpus!NodeSet : free[n] \in Nat /\ free[n] \in Int /\ (n \notin with => free[n] = 0)
  BY <1>1 DEF Gpus!Free, Gpus!GpuNodes
<1>3. with \in SUBSET Gpus!NodeSet /\ IsFiniteSet(Gpus!NodeSet)
  BY CapacityFacts DEF Gpus!GpuNodes
<1>4. Gpus!SumFunction(free) = Total(free, Gpus!NodeSet)
  BY SumFunctionIs
<1>5. Total(free, Gpus!NodeSet) = Total(free, with)
  BY <1>2, <1>3, TotalOfPart
<1> QED BY <1>2, <1>4, <1>5

(* An undisturbed answer: what it says is left is free.                        *)
LEMMA LeftIsFree ==
  ASSUME CapacityTypes, NEW taken \in [Gpus!NodeSet -> Nat],
         \A n \in Gpus!NodeSet : taken[n] = Gpus!Taken(n)
  PROVE  \A n \in Gpus!NodeSet : Gpus!Left(alloc, taken, n) = Gpus!Free(n)
BY TakenIsInUse DEF Gpus!Left, Gpus!Free

LEMMA RoomForAll ==
  ASSUME CapacityInv, read.pc = "done", read.what # "why", read.quiet, ~read.config.cpuOnly,
         Gpus!Fit(read.config, read.capacity) = {},
         NEW free, free = [n \in Gpus!NodeSet |-> Gpus!Free(n)]
  PROVE  /\ \E n \in Gpus!NodeSet : Gpus!Free(n) >= Gpus!Max(Gpus!PerWorker(read.config))
         /\ Gpus!Required(read.config) <= Gpus!SumFunction(free)
<1> DEFINE most == Gpus!Max(Gpus!PerWorker(read.config))
           all == Gpus!Required(read.config)
           with == Gpus!GpuNodes(alloc)
<1>1. most \in Nat /\ all \in Nat
  BY RequiredIs DEF CapacityInv, ReadHolds
<1>2. ~(all > read.capacity.available) /\ ~(most > read.capacity.maxContiguous)
  BY Zenon DEF Gpus!Fit
<1>3. /\ \A n \in Gpus!NodeSet : free[n] \in Nat /\ free[n] = Gpus!Free(n)
      /\ Gpus!SumFunction(free) = Total(free, with)
  BY FreeOnlyWhereListed DEF CapacityInv
<1>4. with \in SUBSET Gpus!NodeSet /\ IsFiniteSet(with) /\ Gpus!NodeSet # {}
  BY CapacityFacts, FS_Subset DEF Gpus!GpuNodes
<1>5. CASE read.failed
  <2>1. read.capacity = Gpus!NoCapacity
    BY <1>5 DEF CapacityInv, ReadHolds
  <2>2. all = 0 /\ most = 0
    BY <1>1, <1>2, <2>1 DEF Gpus!NoCapacity
  <2>3. \A n \in with : free[n] \in Nat
    BY <1>3, <1>4
  <2>4. Total(free, with) \in Nat
    BY <1>4, <2>3, TotalIsNat
  <2> QED BY <1>3, <1>4, <2>2, <2>4
<1>6. CASE ~read.failed
  <2>1. PICK taken \in [Gpus!NodeSet -> Nat] : Counted(taken)
    BY <1>6 DEF CapacityInv, ReadHolds
  <2>2. /\ alloc \in [Gpus!NodeSet -> Nat] /\ read.capacity = Gpus!Capacity(alloc, taken)
        /\ \A n \in Gpus!NodeSet : taken[n] = Gpus!Taken(n)
    BY <2>1 DEF Counted
  <2>3. /\ read.capacity.available = Total(alloc, with) - Total(taken, with)
        /\ read.capacity.available \in Int /\ read.capacity.maxContiguous \in Nat
        /\ \/ read.capacity.maxContiguous = 0
           \/ \E n \in with : read.capacity.maxContiguous = Gpus!Left(alloc, taken, n)
    BY <2>2, WhatIsSaid
  <2>4. \A n \in Gpus!NodeSet : Gpus!Left(alloc, taken, n) = free[n]
    BY <1>3, <2>2, LeftIsFree DEF CapacityInv
  <2>5. \E n \in Gpus!NodeSet : Gpus!Free(n) >= most
    <3>1. CASE read.capacity.maxContiguous = 0
      <4>1. most = 0
        BY <1>1, <1>2, <3>1
      <4> HIDE DEF most
      <4> QED BY <1>3, <1>4, <4>1
    <3>2. CASE read.capacity.maxContiguous # 0
      <4>1. PICK n \in with : read.capacity.maxContiguous = free[n]
        BY <1>4, <2>3, <2>4, <3>2
      <4>2. free[n] >= most
        BY <1>1, <1>2, <2>3, <4>1
      <4> HIDE DEF most
      <4> QED BY <1>3, <1>4, <4>1, <4>2
    <3> QED BY <3>1, <3>2
  <2>6. all <= Total(free, with)
    <3> DEFINE rest == [n \in with |-> alloc[n] - taken[n]]
    <3>1. \A n \in with : /\ alloc[n] \in Int /\ taken[n] \in Int /\ free[n] \in Int
                          /\ rest[n] \in Int /\ rest[n] = alloc[n] - taken[n] /\ rest[n] <= free[n]
      <4> SUFFICES ASSUME NEW n \in with
                   PROVE  /\ alloc[n] \in Int /\ taken[n] \in Int /\ free[n] \in Int
                          /\ rest[n] \in Int /\ rest[n] = alloc[n] - taken[n] /\ rest[n] <= free[n]
        OBVIOUS
      <4>1. alloc[n] \in Nat /\ taken[n] \in Nat /\ free[n] \in Nat /\ n \in Gpus!NodeSet
        BY <1>3, <1>4, <2>2
      <4>2. free[n] = IF alloc[n] > taken[n] THEN alloc[n] - taken[n] ELSE 0
        BY <2>4, <4>1 DEF Gpus!Left
      <4>3. rest[n] = alloc[n] - taken[n]
        OBVIOUS
      <4> QED BY <4>1, <4>2, <4>3
    <3> HIDE DEF rest
    <3>2. Total(rest, with) = Total(alloc, with) - Total(taken, with)
      BY <1>4, <3>1, TotalMinus
    <3>3. Total(rest, with) <= Total(free, with)
      BY <1>4, <3>1, TotalLess
    <3>4. Total(rest, with) \in Int /\ Total(free, with) \in Int
      BY <1>4, <3>1, TotalIsInt
    <3> QED BY <1>1, <1>2, <2>3, <3>2, <3>3, <3>4
  <2> QED BY <1>3, <2>5, <2>6
<1> QED BY <1>5, <1>6

LEMMA PoolsAddUp ==
  ASSUME CapacityInv, read.pc = "done", read.what = "pools", read.quiet, ~read.failed,
         NEW free, free = [n \in Gpus!NodeSet |-> Gpus!Free(n)],
         NEW gpus, gpus = [p \in DOMAIN read.pools |-> read.pools[p].gpus],
         NEW spare, spare = [p \in DOMAIN read.pools |-> read.pools[p].available]
  PROVE  /\ Gpus!SumFunction(gpus) = read.capacity.total
         /\ Gpus!SumFunction(spare) = Gpus!SumFunction(free)
<1> DEFINE with == Gpus!GpuNodes(alloc)
           named == {Pools[n] : n \in with}
           apart == read.capacity.left
<1>1. PICK taken \in [Gpus!NodeSet -> Nat] : Counted(taken)
  BY DEF CapacityInv, ReadHolds
<1>2. /\ alloc \in [Gpus!NodeSet -> Nat] /\ read.capacity = Gpus!Capacity(alloc, taken)
      /\ \A n \in Gpus!NodeSet : taken[n] = Gpus!Taken(n)
  BY <1>1 DEF Counted
<1>3. /\ with \in SUBSET Gpus!NodeSet /\ IsFiniteSet(with)
      /\ read.capacity.total = Total(alloc, with)
      /\ DOMAIN apart = with
      /\ \A n \in with : apart[n] = Gpus!Left(alloc, taken, n)
  BY <1>2, WhatIsSaid
<1>4. /\ \A n \in Gpus!NodeSet : free[n] \in Nat /\ free[n] = Gpus!Free(n)
      /\ Gpus!SumFunction(free) = Total(free, with)
  BY FreeOnlyWhereListed DEF CapacityInv
<1>5. \A n \in with : apart[n] = free[n] /\ apart[n] \in Int /\ alloc[n] \in Int
  BY <1>2, <1>3, <1>4, LeftIsFree DEF CapacityInv
<1>6. read.pools = [p \in named |-> Gpus!PoolInfo(alloc, apart, p)]
  BY Zenon DEF CapacityInv, ReadHolds, Gpus!PoolsOf
<1> HIDE DEF apart
<1>7. DOMAIN gpus = named /\ DOMAIN spare = named
  BY <1>6
<1>8. \A p \in named : gpus[p] = Total(alloc, {n \in with : Pools[n] = p})
  <2> SUFFICES ASSUME NEW p \in named PROVE gpus[p] = Total(alloc, {n \in with : Pools[n] = p})
    BY Zenon
  <2>1. gpus[p] = Gpus!PoolInfo(alloc, apart, p).gpus
    BY <1>6
  <2> QED BY <2>1, Zenon DEF Gpus!PoolInfo, Total
<1>9. \A p \in named : spare[p] = Total(apart, {n \in with : Pools[n] = p})
  <2> SUFFICES ASSUME NEW p \in named PROVE spare[p] = Total(apart, {n \in with : Pools[n] = p})
    BY Zenon
  <2>1. spare[p] = Gpus!PoolInfo(alloc, apart, p).available
    BY <1>6
  <2>2. spare[p] = Total(apart, {n \in with : Pools[n] = p} \cap DOMAIN apart)
    BY <2>1, Zenon DEF Gpus!PoolInfo, Total
  <2>3. {n \in with : Pools[n] = p} \cap DOMAIN apart = {n \in with : Pools[n] = p}
    BY <1>3
  <2> QED BY <2>2, <2>3
<1>10. IsFiniteSet(named) /\ {n \in with : Pools[n] \in named} = with
  BY <1>3, ImageIsFinite
<1>11. PICK G : G = named
  OBVIOUS
<1>12. PICK W : W = with
  OBVIOUS
<1>13. PICK of : of = [p \in G |-> {n \in W : Pools[n] = p}]
  OBVIOUS
<1>14. IsFiniteSet(W) /\ IsFiniteSet(G)
  BY <1>3, <1>10, <1>11, <1>12
<1>15. \A n \in W : apart[n] \in Int /\ alloc[n] \in Int /\ Pools[n] \in G
  BY <1>5, <1>11, <1>12
<1>16. \A p \in G : of[p] \in SUBSET W /\ \A n \in W : n \in of[p] <=> Pools[n] = p
  BY <1>13
<1>17. \A p \in G : gpus[p] = Total(alloc, of[p])
  BY <1>8, <1>11, <1>12, <1>13
<1>18. \A p \in G : spare[p] = Total(apart, of[p])
  BY <1>9, <1>11, <1>12, <1>13
<1>19. Total(gpus, G) = Total(alloc, W) /\ Total(spare, G) = Total(apart, W)
  <2> HIDE DEF with, named
  <2>1. SumsOfGroups(gpus, G, alloc, W, Pools, of)
    BY <1>14, <1>15, <1>16, <1>17 DEF SumsOfGroups
  <2>2. SumsOfGroups(spare, G, apart, W, Pools, of)
    BY <1>14, <1>15, <1>16, <1>18 DEF SumsOfGroups
  <2> QED BY <2>1, <2>2, TotalOfGroups
<1>20. Total(apart, with) = Total(free, with)
  <2>1. \A n \in W : apart[n] \in Int /\ apart[n] = free[n]
    BY <1>5, <1>12
  <2>2. Total(apart, W) = Total(free, W)
    BY <1>14, <2>1, TotalSame
  <2> QED BY <1>12, <2>2, Zenon
<1>21. Gpus!SumFunction(gpus) = Total(gpus, named) /\ Gpus!SumFunction(spare) = Total(spare, named)
  BY <1>7, SumFunctionIs
<1> QED BY <1>3, <1>4, <1>11, <1>12, <1>20, <1>21, <1>19

LEMMA NoIdleAlarm ==
  ASSUME CapacityInv, read.pc = "done", read.what # "why",
         Gpus!Banner(read.config, read.capacity, read.scaler) # "none"
  PROVE  Gpus!Fit(read.config, read.capacity) # {}
<1> DEFINE most == Gpus!Max(Gpus!PerWorker(read.config))
           all == Gpus!Required(read.config)
<1>1. most \in Nat /\ all \in Nat
  BY RequiredIs DEF CapacityInv, ReadHolds
<1>2. /\ read.capacity.maxContiguous \in Nat /\ read.capacity.maxNode \in Nat
      /\ read.capacity.maxNode >= read.capacity.maxContiguous
  <2>1. CASE read.failed
    BY <2>1 DEF CapacityInv, ReadHolds, Gpus!NoCapacity
  <2>2. CASE ~read.failed
    <3>1. PICK taken \in [Gpus!NodeSet -> Nat] : Counted(taken)
      BY <2>2 DEF CapacityInv, ReadHolds
    <3> QED BY <3>1, WhatIsSaid DEF Counted
  <2> QED BY <2>1, <2>2
<1>3. /\ ~read.config.cpuOnly
      /\ ~(all <= read.capacity.available) \/ most > read.capacity.maxNode
  BY Zenon DEF Gpus!Banner
<1>4. read.capacity.available \in Int
  <2>1. CASE read.failed
    BY <2>1 DEF CapacityInv, ReadHolds, Gpus!NoCapacity
  <2>2. CASE ~read.failed
    <3>1. PICK taken \in [Gpus!NodeSet -> Nat] : Counted(taken)
      BY <2>2 DEF CapacityInv, ReadHolds
    <3> QED BY <3>1, WhatIsSaid DEF Counted
  <2> QED BY <2>1, <2>2
<1>5. all > read.capacity.available \/ most > read.capacity.maxContiguous
  BY <1>1, <1>2, <1>3, <1>4
<1> QED BY <1>3, <1>5, Zenon DEF Gpus!Fit

LEMMA CapacityInvSuffices == CapacityInv => Gpus!CapacityIsHonest
<1> SUFFICES ASSUME CapacityInv, read.pc = "done", read.what # "why"
             PROVE  Gpus!CapacityIsHonest
  BY DEF Gpus!CapacityIsHonest
<1> DEFINE free == [n \in Gpus!NodeSet |-> Gpus!Free(n)]
           gpus == [p \in DOMAIN read.pools |-> read.pools[p].gpus]
           spare == [p \in DOMAIN read.pools |-> read.pools[p].available]
           c == read.config
<1>1. read.quiet /\ ~c.cpuOnly /\ Gpus!Fit(c, read.capacity) = {} =>
        /\ \E n \in Gpus!NodeSet : Gpus!Free(n) >= Gpus!Max(Gpus!PerWorker(c))
        /\ Gpus!Required(c) <= Gpus!SumFunction(free)
  BY RoomForAll
<1>2. read.quiet /\ ~read.failed /\ read.what = "pools" =>
        /\ Gpus!SumFunction(gpus) = read.capacity.total
        /\ Gpus!SumFunction(spare) = Gpus!SumFunction(free)
  BY PoolsAddUp
<1>3. Gpus!Banner(c, read.capacity, read.scaler) # "none" => Gpus!Fit(c, read.capacity) # {}
  BY NoIdleAlarm
<1> QED BY <1>1, <1>2, <1>3, Zenon DEF Gpus!CapacityIsHonest

LEMMA CapacityBegins == Gpus!Init => CapacityInv
<1> SUFFICES ASSUME Gpus!Init PROVE CapacityInv
  OBVIOUS
<1>1. alloc \in [Gpus!NodeSet -> Nat]
  BY CapacityFacts DEF Gpus!Init
<1>2. pods \in [Pods -> [on : Gpus!NodeSet \cup {Gpus!Nowhere}, gpus : Nat,
                        phase : {"Pending", "Running", "Succeeded"}]]
  BY CapacityFacts DEF Gpus!Init
<1>3. read.pc = "idle"
  BY DEF Gpus!Init, Gpus!Idle
<1> QED BY <1>1, <1>2, <1>3 DEF CapacityInv, CapacityTypes, ReadHolds

(* The cluster moves: the reading is disturbed, and owes nothing any more.     *)
LEMMA MovesKeep ==
  ASSUME CapacityInv, Gpus!Moves, CapacityTypes'
  PROVE  CapacityInv'
<1>1. CASE read.pc = "idle"
  BY <1>1 DEF Gpus!Moves, Gpus!Disturbed, CapacityInv, ReadHolds
<1>2. CASE read.pc # "idle"
  <2>1. "quiet" \in DOMAIN read /\ ReadHolds
    BY <1>2 DEF CapacityInv, ReadHolds
  <2>2. read' = [read EXCEPT !.quiet = FALSE]
    BY <1>2 DEF Gpus!Moves, Gpus!Disturbed
  <2>3. /\ read'.pc = read.pc /\ read'.what = read.what /\ read'.config = read.config
        /\ read'.listed = read.listed /\ read'.capacity = read.capacity /\ read'.failed = read.failed
        /\ ~read'.quiet /\ DOMAIN read' = DOMAIN read
    BY <1>2, <2>1, <2>2 DEF ReadHolds
  <2>4. \A taken : Counted(taken) => Counted(taken)'
    BY <2>3 DEF Counted
  <2>5. ReadHolds'
    BY <1>2, <2>1, <2>3, <2>4 DEF ReadHolds
  <2> QED BY <2>5 DEF CapacityInv
<1> QED BY <1>1, <1>2

LEMMA CapacityStep == CapacityInv /\ [Gpus!Next]_(Gpus!gvars) => CapacityInv'
<1> SUFFICES ASSUME CapacityInv, [Gpus!Next]_(Gpus!gvars) PROVE CapacityInv'
  OBVIOUS
<1>1. CapacityTypes /\ ReadHolds
  BY DEF CapacityInv
<1>2. CASE UNCHANGED Gpus!gvars
  <2>1. \A taken : Counted(taken) => Counted(taken)'
    BY <1>2 DEF Counted, Gpus!gvars, Gpus!Taken, Gpus!Takes
  <2> QED BY <1>1, <1>2, <2>1 DEF CapacityInv, CapacityTypes, ReadHolds, Gpus!gvars
<1>3. ASSUME NEW what \in {"fit", "pools", "why"}, NEW c \in Configs, NEW s \in Scalers,
             Gpus!Ask(what, c, s)
      PROVE  CapacityInv'
  <2>1. CapacityTypes'
    BY <1>1, <1>3 DEF Gpus!Ask, CapacityTypes
  <2>2. ReadHolds'
    BY <1>3 DEF Gpus!Ask, ReadHolds
  <2> QED BY <2>1, <2>2 DEF CapacityInv
<1>4. CASE Gpus!ListNodes
  <2>1. CapacityTypes'
    BY <1>1, <1>4 DEF Gpus!ListNodes, CapacityTypes
  <2>2. ReadHolds'
    BY <1>1, <1>4 DEF Gpus!ListNodes, CapacityTypes, ReadHolds
  <2> QED BY <2>1, <2>2 DEF CapacityInv
<1>5. CASE Gpus!ListPods
  <2> DEFINE taken == [n \in Gpus!NodeSet |-> Gpus!Taken(n)]
  <2>1. CapacityTypes'
    BY <1>1, <1>5 DEF Gpus!ListPods, CapacityTypes
  <2>2. \A n \in Gpus!NodeSet : Gpus!Taken(n) \in Nat /\ Gpus!Taken(n)' = Gpus!Taken(n)
    BY <1>1, <1>5, TakenIsInUse DEF Gpus!ListPods, Gpus!Taken, Gpus!Takes
  <2>3. read.pc = "pods" /\ read.what # "why" /\ alloc' = alloc
    BY <1>5 DEF Gpus!ListPods
  <2>4. read' = [read EXCEPT !.pc = IF read.what = "pools" THEN "again" ELSE "done",
                             !.capacity = Gpus!Capacity(read.listed, taken)]
    BY <1>5, Zenon DEF Gpus!ListPods
  <2>5. /\ taken \in [Gpus!NodeSet -> Nat]
        /\ \A n \in Gpus!NodeSet : taken[n] = Gpus!Taken(n)'
    BY <2>2
  <2>6. PICK seen : seen = taken
    OBVIOUS
  <2> HIDE DEF taken
  <2>7. /\ read'.what = read.what /\ read'.config = read.config /\ read'.listed = read.listed
        /\ read'.quiet = read.quiet /\ read'.failed = read.failed /\ DOMAIN read' = DOMAIN read
        /\ read'.capacity = Gpus!Capacity(read.listed, seen)
        /\ read'.pc = IF read.what = "pools" THEN "again" ELSE "done"
    BY <1>1, <2>3, <2>4, <2>6 DEF ReadHolds
  <2>8. Counted(seen)' /\ seen \in [Gpus!NodeSet -> Nat]
    BY <1>1, <2>3, <2>5, <2>7, <2>6 DEF ReadHolds, Counted
  <2>9. ReadHolds'
    BY <1>1, <2>3, <2>7, <2>8 DEF ReadHolds
  <2> QED BY <2>1, <2>9 DEF CapacityInv
<1>6. CASE Gpus!ListAgain
  <2>1. CapacityTypes'
    BY <1>1, <1>6 DEF Gpus!ListAgain, CapacityTypes
  <2>2. /\ read.pc = "again" /\ alloc' = alloc /\ pods' = pods
        /\ read'.what = read.what /\ read'.config = read.config /\ read'.listed = read.listed
        /\ read'.quiet = read.quiet /\ read'.failed = read.failed /\ DOMAIN read' = DOMAIN read
        /\ read'.capacity = read.capacity /\ read'.pc = "done"
        /\ read'.pools = Gpus!PoolsOf(alloc, read.capacity.left)
    BY <1>1, <1>6 DEF Gpus!ListAgain, ReadHolds
  <2>3. \A taken : Counted(taken) => Counted(taken)'
    BY <2>2 DEF Counted, Gpus!Taken, Gpus!Takes
  <2>4. Gpus!PoolsOf(alloc, read.capacity.left)' = Gpus!PoolsOf(alloc, read.capacity.left)
    BY <2>2 DEF Gpus!PoolsOf, Gpus!PoolInfo
  <2>5. ReadHolds'
    BY <1>1, <2>2, <2>3, <2>4 DEF ReadHolds
  <2> QED BY <2>1, <2>5 DEF CapacityInv
<1>7. CASE Gpus!FindPending
  <2>1. CapacityTypes'
    BY <1>1, <1>7 DEF Gpus!FindPending, CapacityTypes
  <2>2. /\ read'.what = read.what /\ read'.config = read.config /\ read.what = "why"
        /\ read'.failed = read.failed /\ DOMAIN read' = DOMAIN read
        /\ read'.capacity = read.capacity /\ read'.pc \in {"done", "events"} /\ read.pc = "pods"
    BY <1>1, <1>7 DEF Gpus!FindPending, ReadHolds
  <2>3. ReadHolds'
    BY <1>1, <2>2 DEF ReadHolds
  <2> QED BY <2>1, <2>3 DEF CapacityInv
<1>8. CASE Gpus!Fails
  <2>1. CapacityTypes'
    BY <1>1, <1>8 DEF Gpus!Fails, CapacityTypes
  <2>2. /\ read'.config = read.config /\ read.pc # "idle"
        /\ read'.failed /\ DOMAIN read' = DOMAIN read
        /\ read'.capacity = Gpus!NoCapacity /\ read'.pc = "done"
    BY <1>1, <1>8 DEF Gpus!Fails, ReadHolds
  <2>3. ReadHolds'
    BY <1>1, <2>2 DEF ReadHolds, Gpus!NoCapacity
  <2> QED BY <2>1, <2>3 DEF CapacityInv
<1>9. CASE Gpus!Leave
  BY <1>1, <1>9 DEF Gpus!Leave, Gpus!Idle, CapacityInv, CapacityTypes, ReadHolds
<1>10. ASSUME NEW events \in SUBSET Events, Gpus!ListEvents(events) PROVE CapacityInv'
  <2>1. CapacityTypes'
    BY <1>1, <1>10 DEF Gpus!ListEvents, CapacityTypes
  <2>2. /\ read'.what = read.what /\ read'.config = read.config /\ read.pc = "events"
        /\ read'.failed = read.failed /\ DOMAIN read' = DOMAIN read
        /\ read'.capacity = read.capacity /\ read'.pc = "done"
    BY <1>1, <1>10 DEF Gpus!ListEvents, ReadHolds
  <2>3. ReadHolds'
    BY <1>1, <2>2 DEF ReadHolds
  <2> QED BY <2>1, <2>3 DEF CapacityInv
<1>11. ASSUME NEW n \in Gpus!NodeSet, NEW k \in NodeGpus, Gpus!Resize(n, k) PROVE CapacityInv'
  <2>1. CapacityTypes'
    BY <1>1, <1>11, CapacityFacts DEF Gpus!Resize, CapacityTypes
  <2> QED BY <1>11, <2>1, MovesKeep DEF Gpus!Resize
<1>12. ASSUME NEW n \in Gpus!NodeSet, NEW p \in Pods, Gpus!Bind(p, n) PROVE CapacityInv'
  <2>1. CapacityTypes'
    BY <1>1, <1>12 DEF Gpus!Bind, CapacityTypes
  <2> QED BY <1>12, <2>1, MovesKeep DEF Gpus!Bind
<1>13. ASSUME NEW p \in Pods, Gpus!Advance(p) PROVE CapacityInv'
  <2>1. CapacityTypes'
    BY <1>1, <1>13 DEF Gpus!Advance, CapacityTypes
  <2> QED BY <1>13, <2>1, MovesKeep DEF Gpus!Advance
<1> QED BY <1>2, <1>3, <1>4, <1>5, <1>6, <1>7, <1>8, <1>9, <1>10, <1>11, <1>12, <1>13, Zenon
        DEF Gpus!Next

LEMMA CapacityHolds == Gpus!Spec => []Gpus!CapacityIsHonest
<1>1. CapacityInv => Gpus!CapacityIsHonest
  BY CapacityInvSuffices
<1> QED BY <1>1, CapacityBegins, CapacityStep, PTL DEF Gpus!Spec

-----------------------------------------------------------------------------
(* The catalogue.                                                              *)
LEMMA FitFacts == Fitting!ModelFitAssumption
BY ServicesAssumption

LEMMA MinIs ==
  ASSUME NEW S \in SUBSET Nat, S # {}
  PROVE  Fitting!Min(S) \in S /\ \A y \in S : Fitting!Min(S) <= y
BY LeastNumber, Zenon DEF Fitting!Min

LEMMA EnginesFit ==
  ASSUME NEW m
  PROVE  /\ Fitting!IsGguf(m) => Fitting!SupportedEngines(m) = {"llamacpp"}
         /\ "llamacpp" \in Fitting!SupportedEngines(m) <=> Fitting!IsGguf(m)
         /\ Fitting!Compatible(m) => Fitting!SupportedEngines(m) # {}
BY DEF Fitting!SupportedEngines, Fitting!Compatible

LEMMA LeftOutForAReason ==
  ASSUME NEW m, ~Fitting!Compatible(m)
  PROVE  Fitting!Reason(m) # "none"
BY DEF Fitting!Reason, Fitting!Compatible

(* A model of a known family has the architecture of it, which vLLM serves.    *)
LEMMA FamilyIsEnough ==
  ASSUME NEW m, m.archs = {}, m.families # {},
         m.families \subseteq {Fitting!Families[k][1] : k \in DOMAIN Fitting!Families}
  PROVE  Fitting!Compatible(m)
<1> DEFINE matching == {k \in DOMAIN Fitting!Families : Fitting!Families[k][1] \in m.families}
<1>1. DOMAIN Fitting!Families \subseteq Nat
  BY DEF Fitting!Families
<1>2. matching # {} /\ matching \in SUBSET Nat
  BY <1>1
<1>3. Fitting!Min(matching) \in matching
  <2> HIDE DEF matching
  <2> QED BY <1>2, MinIs
<1>4. Fitting!Inferred(m) = {Fitting!Families[Fitting!Min(matching)][2]}
  BY <1>2, Zenon DEF Fitting!Inferred
<1>5. PICK a \in Fitting!Architectures : Fitting!ArchsOf(m) = {a}
  BY <1>3, <1>4 DEF Fitting!ArchsOf, Fitting!Architectures
<1>6. Fitting!Allowed["vllm"] = Fitting!Architectures
  BY DEF Fitting!Allowed, Fitting!Engines
<1>7. Fitting!SupportedEngines(m) # {}
  BY <1>5, <1>6 DEF Fitting!SupportedEngines, Fitting!Engines
<1> QED BY <1>5, <1>7 DEF Fitting!Compatible

(* What is missing is there with what is asked for.                            *)
LEMMA Ceiling ==
  ASSUME NEW a \in Nat, NEW b \in Nat \ {0}
  PROVE  Fitting!CeilDiv(a, b) \in Nat /\ Fitting!CeilDiv(a, b) * b >= a
BY DEF Fitting!CeilDiv

LEMMA BadgeAdds ==
  ASSUME NEW needed \in Nat, NEW capacity \in Nat
  PROVE  /\ Fitting!FitLevel(needed, capacity) = "too-large" => Fitting!UpgradeDelta(needed, capacity) > 0
         /\ Fitting!UpgradeDelta(needed, capacity) > 0 =>
              /\ Fitting!FitLevel(needed, capacity) \in {"too-large", "marginal"}
              /\ Fitting!FitLevel(needed, capacity + Fitting!UpgradeDelta(needed, capacity)) # "too-large"
<1>1. PICK target \in Nat : target = Fitting!CeilDiv(6 * needed, 5) /\ target * 5 >= 6 * needed
  BY Ceiling
<1>2. Fitting!UpgradeDelta(needed, capacity) =
        IF capacity <= 0 \/ 10 * needed <= 8 * capacity THEN 0
        ELSE IF target > capacity THEN target - capacity ELSE 0
  BY <1>1 DEF Fitting!UpgradeDelta
<1> QED BY <1>1, <1>2 DEF Fitting!FitLevel

LEMMA FittingCounts == \A S : Fitting!Cardinality(S) = Cardinality(S)
BY DEF Fitting!Cardinality, Cardinality

(* The elements of a finite set of numbers, in order: each has its place.      *)
PlacesUpto(S, k) == {j \in S : j <= k}

LEMMA PlaceIs ==
  ASSUME NEW S \in SUBSET Nat, IsFiniteSet(S)
  PROVE  /\ \A k \in S : Cardinality(PlacesUpto(S, k)) \in 1..Cardinality(S)
         /\ \A k, l \in S : Cardinality(PlacesUpto(S, k)) = Cardinality(PlacesUpto(S, l)) => k = l
<1>1. ASSUME NEW k \in S PROVE IsFiniteSet(PlacesUpto(S, k)) /\ Cardinality(PlacesUpto(S, k)) \in 1..Cardinality(S)
  <2>1. PlacesUpto(S, k) \in SUBSET S /\ k \in PlacesUpto(S, k)
    BY DEF PlacesUpto
  <2>2. IsFiniteSet(PlacesUpto(S, k)) /\ Cardinality(PlacesUpto(S, k)) <= Cardinality(S)
    BY <2>1, FS_Subset
  <2>3. Cardinality(PlacesUpto(S, k)) # 0
    BY <2>1, <2>2, FS_EmptySet
  <2> QED BY <2>2, <2>3, FS_CardinalityType
<1>2. ASSUME NEW k \in S, NEW l \in S, k < l PROVE Cardinality(PlacesUpto(S, k)) # Cardinality(PlacesUpto(S, l))
  <2>1. PlacesUpto(S, k) \in SUBSET PlacesUpto(S, l) /\ l \in PlacesUpto(S, l) /\ l \notin PlacesUpto(S, k)
    <3>1. k \in Nat /\ l \in Nat /\ \A j \in S : j \in Nat
      OBVIOUS
    <3>2. \A j \in S : j <= k => j <= l /\ j # l
      BY <1>2, <3>1
    <3>3. l <= l
      BY <3>1
    <3> QED BY <3>2, <3>3 DEF PlacesUpto
  <2> QED BY <1>1, <2>1, FS_Subset
<1>3. \A k, l \in S : k < l \/ k = l \/ l < k
  OBVIOUS
<1> QED BY <1>1, <1>2, <1>3

LEMMA NthIs ==
  ASSUME NEW S \in SUBSET Nat, IsFiniteSet(S), NEW n \in 1..Cardinality(S)
  PROVE  Fitting!Nth(S, n) \in S /\ Cardinality(PlacesUpto(S, Fitting!Nth(S, n))) = n
<1> DEFINE T == 1..Cardinality(S)
           f == [k \in S |-> Cardinality(PlacesUpto(S, k))]
<1>1. Cardinality(S) \in Nat
  BY FS_CardinalityType
<1>2. IsFiniteSet(T) /\ Cardinality(T) = Cardinality(S)
  BY <1>1, FS_Interval
<1>3. f \in Injection(S, T)
  <2>1. \A k \in S : f[k] = Cardinality(PlacesUpto(S, k)) /\ f[k] \in T
    BY PlaceIs
  <2>2. f \in [S -> T]
    BY <2>1
  <2> HIDE DEF f
  <2>3. \A k, l \in S : f[k] = f[l] => k = l
    BY <2>1, PlaceIs
  <2> QED BY <2>2, <2>3 DEF Injection, IsInjective
<1>4. f \in Surjection(S, T)
  <2> HIDE DEF T, f
  <2> QED BY <1>2, <1>3, FS_Injection
<1>5. PICK k \in S : f[k] = n
  BY <1>4 DEF Surjection
<1>6. Cardinality(PlacesUpto(S, k)) = n
  BY <1>5
<1>7. \A j \in S : {i \in S : i <= j} = PlacesUpto(S, j)
  BY DEF PlacesUpto
<1>8. \A j \in S : Fitting!Cardinality({i \in S : i <= j}) = Cardinality(PlacesUpto(S, j))
  BY <1>7, FittingCounts
<1> QED BY <1>6, <1>8, Zenon DEF Fitting!Nth

(* What is fetched is part of what is fetched for a later page.                *)
LEMMA FetchedIs ==
  ASSUME NEW tag \in DOMAIN Hub, NEW offset \in Nat, NEW failing
  PROVE  /\ Fitting!Fetched(tag, offset, failing) \in Seq(Models)
         /\ \A more \in Nat : \A k \in 1..Len(Fitting!Fetched(tag, offset, failing)) :
              /\ k <= Len(Fitting!Fetched(tag, offset + more, failing))
              /\ Fitting!Fetched(tag, offset + more, failing)[k] = Fitting!Fetched(tag, offset, failing)[k]
<1> DEFINE seq == Hub[tag]
           cut(o) == Fitting!Least(Limit + o + Extra, Len(seq))
<1>1. Limit \in Nat /\ Extra \in Nat /\ seq \in Seq(Models) /\ Len(seq) \in Nat
  BY FitFacts DEF Fitting!ModelFitAssumption
<1>2. \A o \in Nat : cut(o) \in Nat /\ cut(o) <= Len(seq)
  BY <1>1 DEF Fitting!Least
<1>3. \A more \in Nat : cut(offset) <= cut(offset + more)
  BY <1>1 DEF Fitting!Least
<1>4. \A k \in 1..Len(seq) : seq[k] \in Models
  BY <1>1, ElementOfSeq
<1>5. ASSUME NEW o \in Nat
      PROVE  /\ SubSeq(seq, 1, cut(o)) \in Seq(Models) /\ Len(SubSeq(seq, 1, cut(o))) = cut(o)
             /\ \A k \in 1..cut(o) : SubSeq(seq, 1, cut(o))[k] = seq[k]
  <2>1. PICK c \in Nat : c = cut(o) /\ c <= Len(seq)
    BY <1>2
  <2>2. \A i \in 1..c : seq[i] \in Models
    BY <1>1, <1>4, <2>1
  <2>3. /\ SubSeq(seq, 1, c) \in Seq(Models)
        /\ Len(SubSeq(seq, 1, c)) = IF 1 <= c THEN c - 1 + 1 ELSE 0
        /\ \A i \in 1..(c - 1 + 1) : SubSeq(seq, 1, c)[i] = seq[1 + i - 1]
    BY <2>2, SubSeqProperties
  <2> QED BY <2>1, <2>3
<1> HIDE DEF cut, seq
<1>6. CASE tag \in failing
  BY <1>6, EmptySeq DEF Fitting!Fetched
<1>7. CASE tag \notin failing
  <2>1. \A o \in Nat : Fitting!Fetched(tag, o, failing) = SubSeq(seq, 1, cut(o))
    BY <1>7, Zenon DEF Fitting!Fetched, cut, seq
  <2>2. ASSUME NEW more \in Nat, NEW k \in 1..Len(Fitting!Fetched(tag, offset, failing))
        PROVE  /\ k <= Len(Fitting!Fetched(tag, offset + more, failing))
               /\ Fitting!Fetched(tag, offset + more, failing)[k] = Fitting!Fetched(tag, offset, failing)[k]
    <3>1. PICK o \in Nat : o = offset + more
      OBVIOUS
    <3>2. /\ Fitting!Fetched(tag, offset, failing) = SubSeq(seq, 1, cut(offset))
          /\ Fitting!Fetched(tag, o, failing) = SubSeq(seq, 1, cut(o))
      BY <2>1
    <3>3. cut(offset) \in Nat /\ cut(o) \in Nat /\ cut(offset) <= cut(o)
      BY <1>2, <1>3, <3>1
    <3>4. k \in 1..cut(offset) /\ k \in 1..cut(o) /\ Len(Fitting!Fetched(tag, o, failing)) = cut(o)
      BY <1>5, <3>2, <3>3
    <3>5. SubSeq(seq, 1, cut(o))[k] = seq[k] /\ SubSeq(seq, 1, cut(offset))[k] = seq[k]
      BY <1>5, <3>4
    <3> QED BY <3>1, <3>2, <3>3, <3>4, <3>5
  <2>3. Fitting!Fetched(tag, offset, failing) \in Seq(Models)
    BY <1>5, <2>1
  <2> QED BY <2>2, <2>3
<1> QED BY <1>6, <1>7

LEMMA FetchedGrows ==
  ASSUME NEW tag \in DOMAIN Hub, NEW offset \in Nat, NEW more \in Nat, NEW failing,
         NEW s, s = Fitting!Fetched(tag, offset, failing),
         NEW t, t = Fitting!Fetched(tag, offset + more, failing)
  PROVE  s \in Seq(Models) /\ \A k \in 1..Len(s) : k <= Len(t) /\ t[k] = s[k]
BY FetchedIs

LEMMA MergedIs ==
  ASSUME NEW offset \in Nat, NEW failing
  PROVE  /\ Fitting!Merged(offset, failing) \in Seq(Models)
         /\ \A k \in DOMAIN Fitting!Merged(offset, failing) :
              \E j \in DOMAIN Fitting!Merged(offset + Limit, failing) :
                Fitting!Merged(offset + Limit, failing)[j] = Fitting!Merged(offset, failing)[k]
<1>1. Limit \in Nat /\ "text-generation" \in DOMAIN Hub /\ "image-text-to-text" \in DOMAIN Hub
  BY FitFacts DEF Fitting!ModelFitAssumption
<1>2. PICK s1, s2, t1, t2 :
        /\ s1 = Fitting!Fetched("text-generation", offset, failing)
        /\ s2 = Fitting!Fetched("image-text-to-text", offset, failing)
        /\ t1 = Fitting!Fetched("text-generation", offset + Limit, failing)
        /\ t2 = Fitting!Fetched("image-text-to-text", offset + Limit, failing)
  OBVIOUS
<1>3. s1 \in Seq(Models) /\ s2 \in Seq(Models) /\ t1 \in Seq(Models) /\ t2 \in Seq(Models)
  <2>1. offset + Limit \in Nat
    BY <1>1
  <2> QED BY <1>1, <1>2, <2>1, FetchedIs
<1>4. /\ \A k \in 1..Len(s1) : k <= Len(t1) /\ t1[k] = s1[k]
      /\ \A k \in 1..Len(s2) : k <= Len(t2) /\ t2[k] = s2[k]
  <2>1. PICK one, two, more : one = "text-generation" /\ two = "image-text-to-text" /\ more = Limit
    OBVIOUS
  <2>2. one \in DOMAIN Hub /\ two \in DOMAIN Hub /\ more \in Nat
    BY <1>1, <2>1
  <2>3. /\ s1 = Fitting!Fetched(one, offset, failing) /\ t1 = Fitting!Fetched(one, offset + more, failing)
        /\ s2 = Fitting!Fetched(two, offset, failing) /\ t2 = Fitting!Fetched(two, offset + more, failing)
    BY <1>2, <2>1
  <2>4. \A k \in 1..Len(s1) : k <= Len(t1) /\ t1[k] = s1[k]
    BY <2>2, <2>3, FetchedGrows
  <2>5. \A k \in 1..Len(s2) : k <= Len(t2) /\ t2[k] = s2[k]
    BY <2>2, <2>3, FetchedGrows
  <2> QED BY <2>4, <2>5
<1>5. Fitting!Merged(offset, failing) = s1 \o s2 /\ Fitting!Merged(offset + Limit, failing) = t1 \o t2
  BY <1>2 DEF Fitting!Merged
<1>6. /\ Len(s1) \in Nat /\ Len(s2) \in Nat /\ Len(t1) \in Nat /\ Len(t2) \in Nat
  BY <1>3, LenProperties
<1>7. /\ s1 \o s2 \in Seq(Models) /\ DOMAIN (s1 \o s2) = 1..(Len(s1) + Len(s2))
      /\ DOMAIN (t1 \o t2) = 1..(Len(t1) + Len(t2))
      /\ \A i \in 1..(Len(s1) + Len(s2)) : (s1 \o s2)[i] = IF i <= Len(s1) THEN s1[i] ELSE s2[i - Len(s1)]
      /\ \A i \in 1..(Len(t1) + Len(t2)) : (t1 \o t2)[i] = IF i <= Len(t1) THEN t1[i] ELSE t2[i - Len(t1)]
  BY <1>3, ConcatProperties, LenProperties
<1>8. ASSUME NEW k \in DOMAIN (s1 \o s2)
      PROVE  \E j \in DOMAIN (t1 \o t2) : (t1 \o t2)[j] = (s1 \o s2)[k]
  <2>1. CASE k <= Len(s1)
    <3>1. k \in 1..Len(s1) /\ k \in DOMAIN (t1 \o t2) /\ k <= Len(t1)
      BY <1>4, <1>6, <1>7, <2>1
    <3> QED BY <1>4, <1>6, <1>7, <2>1, <3>1
  <2>2. CASE ~(k <= Len(s1))
    <3>1. PICK i \in 1..Len(s2) : i = k - Len(s1)
      BY <1>6, <1>7, <2>2
    <3>2. i <= Len(t2) /\ t2[i] = s2[i]
      BY <1>4
    <3>3. PICK j \in 1..(Len(t1) + Len(t2)) : j = Len(t1) + i
      BY <1>6, <3>2
    <3>4. ~(j <= Len(t1)) /\ j - Len(t1) = i
      BY <1>6, <3>3
    <3>5. (t1 \o t2)[j] = t2[i] /\ (s1 \o s2)[k] = s2[i]
      BY <1>7, <2>2, <3>1, <3>4
    <3> QED BY <1>7, <3>2, <3>5
  <2> QED BY <2>1, <2>2
<1> QED BY <1>5, <1>7, <1>8

LEMMA OfferedIs ==
  ASSUME NEW offset \in Nat, NEW signed, NEW failing,
         NEW merged, merged = Fitting!Merged(offset, failing),
         NEW offered, offered = Fitting!Offered(signed, offset, failing)
  PROVE  /\ offered \in SUBSET Nat /\ IsFiniteSet(offered)
         /\ \A k \in offered : /\ k \in DOMAIN merged /\ merged[k] \in Models
                               /\ Fitting!Compatible(merged[k]) /\ (signed \/ ~merged[k].gated)
         /\ \A k, l \in offered : merged[k] = merged[l] => k = l
         /\ \A k \in DOMAIN merged :
              (\A j \in 1..(k - 1) : merged[j] # merged[k])
                /\ Fitting!Compatible(merged[k]) /\ (signed \/ ~merged[k].gated) => k \in offered
<1>1. merged \in Seq(Models) /\ DOMAIN merged = 1..Len(merged) /\ Len(merged) \in Nat
  BY MergedIs, LenProperties
<1>2. offered = {k \in DOMAIN merged : /\ \A j \in 1..(k - 1) : merged[j] # merged[k]
                                       /\ Fitting!Compatible(merged[k]) /\ (signed \/ ~merged[k].gated)}
  BY Zenon DEF Fitting!Offered
<1>3. offered \in SUBSET (DOMAIN merged) /\ offered \in SUBSET Nat
  BY <1>1, <1>2
<1>4. IsFiniteSet(offered)
  <2>1. IsFiniteSet(DOMAIN merged)
    BY <1>1, FS_Interval
  <2> QED BY <1>3, <2>1, FS_Subset
<1>5. \A k \in DOMAIN merged : merged[k] \in Models
  BY <1>1, ElementOfSeq
<1>6. ASSUME NEW k \in offered, NEW l \in offered, merged[k] = merged[l] PROVE k = l
  <2>1. k \in 1..Len(merged) /\ l \in 1..Len(merged)
    BY <1>1, <1>3
  <2>2. ~(k \in 1..(l - 1)) /\ ~(l \in 1..(k - 1))
    BY <1>2, <1>6
  <2> QED BY <1>1, <2>1, <2>2
<1> QED BY <1>2, <1>3, <1>4, <1>5, <1>6

LEMMA AsManyPlaces ==
  ASSUME NEW S, IsFiniteSet(S), NEW f, \A k, l \in S : f[k] = f[l] => k = l
  PROVE  IsFiniteSet({f[k] : k \in S}) /\ Cardinality({f[k] : k \in S}) = Cardinality(S)
<1> DEFINE T == {f[k] : k \in S}
           g == [k \in S |-> f[k]]
<1>1. g \in [S -> T] /\ (\A k, l \in S : g[k] = g[l] => k = l) /\ \A t \in T : \E k \in S : g[k] = t
  OBVIOUS
<1>2. g \in Injection(S, T) /\ g \in Surjection(S, T)
  BY <1>1 DEF Injection, IsInjective, Surjection
<1> HIDE DEF T, g
<1>3. IsFiniteSet(T) /\ Cardinality(T) = Cardinality(S)
  BY <1>2, FS_Surjection
<1> QED BY <1>3 DEF T

(* The next page is cut out of no fewer models.                                *)
LEMMA MoreIsOffered ==
  ASSUME NEW offset \in Nat, NEW signed, NEW failing
  PROVE  Cardinality(Fitting!Offered(signed, offset, failing))
           <= Cardinality(Fitting!Offered(signed, offset + Limit, failing))
<1>1. PICK n \in Nat : n = offset + Limit
  BY FitFacts DEF Fitting!ModelFitAssumption
<1>2. PICK m1, m2, o1, o2 : /\ m1 = Fitting!Merged(offset, failing) /\ m2 = Fitting!Merged(n, failing)
                            /\ o1 = Fitting!Offered(signed, offset, failing)
                            /\ o2 = Fitting!Offered(signed, n, failing)
  OBVIOUS
<1> DEFINE A == {m1[k] : k \in o1}
           B == {m2[k] : k \in o2}
<1>3. /\ IsFiniteSet(o1)
      /\ \A k \in o1 : k \in DOMAIN m1 /\ Fitting!Compatible(m1[k]) /\ (signed \/ ~m1[k].gated)
      /\ \A k, l \in o1 : m1[k] = m1[l] => k = l
  BY <1>2, OfferedIs
<1>4. IsFiniteSet(o2) /\ \A k, l \in o2 : m2[k] = m2[l] => k = l
  BY <1>2, OfferedIs
<1>5. \A k \in DOMAIN m2 :
        (\A j \in 1..(k - 1) : m2[j] # m2[k])
          /\ Fitting!Compatible(m2[k]) /\ (signed \/ ~m2[k].gated) => k \in o2
  BY <1>2, OfferedIs
<1>6. m2 \in Seq(Models) /\ DOMAIN m2 = 1..Len(m2) /\ Len(m2) \in Nat
  BY <1>2, MergedIs, LenProperties
<1>7. ASSUME NEW k \in o1 PROVE m1[k] \in B
  <2>1. PICK j \in DOMAIN m2 : m2[j] = m1[k]
    BY <1>1, <1>2, <1>3, MergedIs
  <2> DEFINE same == {i \in DOMAIN m2 : m2[i] = m1[k]}
  <2>2. same \in SUBSET Nat /\ same # {}
    BY <1>6, <2>1
  <2>3. PICK i \in same : \A x \in same : i <= x
    <3> HIDE DEF same
    <3> QED BY <2>2, LeastNumber
  <2>4. i \in DOMAIN m2 /\ m2[i] = m1[k] /\ i \in 1..Len(m2)
    BY <1>6, <2>3
  <2>5. \A x \in 1..(i - 1) : m2[x] # m2[i]
    <3> SUFFICES ASSUME NEW x \in 1..(i - 1), m2[x] = m2[i] PROVE FALSE
      OBVIOUS
    <3>1. x \in same /\ ~(i <= x)
      BY <1>6, <2>4
    <3> QED BY <2>3, <3>1
  <2>6. i \in o2
    BY <1>3, <1>5, <2>4, <2>5
  <2> QED BY <2>4, <2>6
<1>8. A \in SUBSET B
  BY <1>7
<1>9. /\ IsFiniteSet(A) /\ Cardinality(A) = Cardinality(o1)
      /\ IsFiniteSet(B) /\ Cardinality(B) = Cardinality(o2)
  BY <1>3, <1>4, AsManyPlaces
<1> HIDE DEF A, B
<1>10. Cardinality(A) <= Cardinality(B)
  BY <1>8, <1>9, FS_Subset
<1> QED BY <1>1, <1>2, <1>9, <1>10

(* What a page shows: the models at the next places of what is offered.        *)
LEMMA PageIs ==
  ASSUME NEW offset \in Nat, NEW signed, NEW failing, NEW cluster,
         NEW offered, offered = Fitting!Offered(signed, offset, failing),
         NEW got, got = Fitting!Page(signed, offset, failing, cluster),
         NEW count, count = IF offset < Cardinality(offered)
                            THEN Fitting!Least(Limit, Cardinality(offered) - offset) ELSE 0
  PROVE  /\ DOMAIN got.cards = 1..count /\ count \in Nat
         /\ got.more <=> offset + count < Cardinality(offered)
         /\ \A n \in 1..count :
              \E k \in offered :
                /\ got.cards[n] = Fitting!Card(Fitting!Merged(offset, failing)[k], Fitting!BadgeMemory(cluster))
                /\ Cardinality(PlacesUpto(offered, k)) = offset + n
<1>1. PICK total \in Nat : total = Cardinality(offered)
  BY OfferedIs, FS_CardinalityType
<1>2. Fitting!Cardinality(offered) = total
  BY <1>1, FittingCounts
<1>3. /\ got.cards = [n \in 1..count |->
           Fitting!Card(Fitting!Merged(offset, failing)[Fitting!Nth(offered, offset + n)], Fitting!BadgeMemory(cluster))]
      /\ got.more = (offset + count < total)
  BY <1>1, <1>2, Zenon DEF Fitting!Page
<1>4. Limit \in Nat
  BY FitFacts DEF Fitting!ModelFitAssumption
<1>5. count \in Nat /\ \A n \in 1..count : offset + n \in 1..total
  BY <1>1, <1>4 DEF Fitting!Least
<1>6. ASSUME NEW n \in 1..count
      PROVE  \E k \in offered :
                /\ got.cards[n] = Fitting!Card(Fitting!Merged(offset, failing)[k], Fitting!BadgeMemory(cluster))
                /\ Cardinality(PlacesUpto(offered, k)) = offset + n
  <2>1. PICK place : place = offset + n /\ place \in 1..Cardinality(offered)
    BY <1>1, <1>5
  <2>2. /\ Fitting!Nth(offered, place) \in offered
        /\ Cardinality(PlacesUpto(offered, Fitting!Nth(offered, place))) = place
    BY <2>1, OfferedIs, NthIs
  <2>3. got.cards[n] = Fitting!Card(Fitting!Merged(offset, failing)[Fitting!Nth(offered, place)],
                                     Fitting!BadgeMemory(cluster))
    BY <1>3, <2>1
  <2> QED BY <2>1, <2>2, <2>3
<1> QED BY <1>1, <1>3, <1>5, <1>6

LEMMA FittingSums == \A f : Fitting!SumFunction(f) = Total(f, DOMAIN f)
BY Zenon DEF Fitting!SumFunction, Fitting!SumFunctionOnSet, Fitting!FoldFunctionOnSet, Fitting!MapThenFoldSet,
             Gpus!SumFunctionOnSet, Gpus!FoldFunctionOnSet, Gpus!MapThenFoldSet, Total

(* The table of the GPUs, and what a label finds in it.                        *)
LEMMA GpusAreKnown ==
  ASSUME NEW g \in DOMAIN Fitting!GpuModels
  PROVE  /\ Fitting!GpuModels[g].memory \in Nat /\ Fitting!GpuModels[g].memory >= 16
         /\ Fitting!GpuModels[g].bandwidth \in Nat
<1>1. g \in 1..10
  BY DEF Fitting!GpuModels
<1>2. \A k \in 1..10 : Fitting!GpuModels[k].memory \in Nat /\ Fitting!GpuModels[k].memory >= 16
  BY DEF Fitting!GpuModels
<1>3. \A k \in 1..10 : Fitting!GpuModels[k].bandwidth \in Nat
  BY DEF Fitting!GpuModels
<1> QED BY <1>1, <1>2, <1>3

LEMMA KnownIs ==
  ASSUME NEW label
  PROVE  \A g \in Fitting!Known(label) : g \in DOMAIN Fitting!GpuModels /\ Fitting!Known(label) = {g}
<1> DEFINE matching == {k \in DOMAIN Fitting!GpuModels : Fitting!GpuModels[k].aliases \cap label # {}}
<1>1. DOMAIN Fitting!GpuModels \subseteq Nat
  BY DEF Fitting!GpuModels
<1>2. matching \in SUBSET Nat /\ matching \subseteq DOMAIN Fitting!GpuModels
  BY <1>1
<1>3. Fitting!Known(label) = IF matching = {} THEN {} ELSE {Fitting!Min(matching)}
  BY Zenon DEF Fitting!Known
<1> HIDE DEF matching
<1>4. matching # {} => Fitting!Min(matching) \in matching
  BY <1>2, MinIs
<1> QED BY <1>2, <1>3, <1>4

(* The numbers of a card.                                                      *)
LEMMA CardIs ==
  ASSUME NEW m \in Models, NEW capacity \in Nat, NEW c, c = Fitting!Card(m, capacity)
  PROVE  /\ c.id = m /\ c.engines = Fitting!SupportedEngines(m)
         /\ c.level = "too-large" => c.delta > 0
         /\ c.delta > 0 => /\ c.level \in {"too-large", "marginal"}
                           /\ Fitting!FitLevel(c.memory, c.capacity + c.delta) # "too-large"
<1>1. Fitting!ParameterCount(m) \in Nat
  BY FitFacts DEF Fitting!ModelFitAssumption, Fitting!ParameterCount
<1>2. PICK needed \in Nat : needed = Fitting!EstimatedMemory(Fitting!ParameterCount(m))
  <2>1. Fitting!ParameterCount(m) * 1171875 \in Nat
    BY <1>1
  <2> QED BY <2>1, Ceiling DEF Fitting!EstimatedMemory
<1>3. c.id = m /\ c.engines = Fitting!SupportedEngines(m)
  BY Zenon DEF Fitting!Card
<1>4. /\ c.memory = needed /\ c.capacity = capacity
      /\ c.level = IF Fitting!ParameterCount(m) = 0 THEN "unknown" ELSE Fitting!FitLevel(needed, capacity)
      /\ c.delta = IF Fitting!ParameterCount(m) = 0 THEN 0 ELSE Fitting!UpgradeDelta(needed, capacity)
  BY <1>2, Zenon DEF Fitting!Card
<1> QED BY <1>3, <1>4, BadgeAdds

LEMMA MemoryIs == ASSUME NEW cluster \in Clusters PROVE Fitting!BadgeMemory(cluster) \in Nat
<1> DEFINE gpus == [k \in DOMAIN cluster |-> cluster[k].gpus]
<1>1. /\ cluster \in Seq([label : SUBSET Fitting!Aliases, gpus : 1..64, nodes : 1..64])
      /\ DOMAIN cluster = 1..Len(cluster) /\ Len(cluster) \in Nat
  BY FitFacts, LenProperties DEF Fitting!ModelFitAssumption
<1>2. IsFiniteSet(DOMAIN cluster)
  BY <1>1, FS_Interval
<1>3. \A k \in DOMAIN cluster : gpus[k] \in Nat
  <2> SUFFICES ASSUME NEW k \in DOMAIN cluster PROVE gpus[k] \in Nat
    OBVIOUS
  <2>1. cluster[k] \in [label : SUBSET Fitting!Aliases, gpus : 1..64, nodes : 1..64]
    BY <1>1, ElementOfSeq
  <2> QED BY <2>1
<1>4. DOMAIN gpus = DOMAIN cluster
  OBVIOUS
<1>5. Fitting!SumFunction(gpus) \in Nat
  <2> HIDE DEF gpus
  <2>1. Fitting!SumFunction(gpus) = Total(gpus, DOMAIN gpus)
    BY FittingSums
  <2> QED BY <1>2, <1>3, <1>4, <2>1, TotalIsNat
<1>6. CASE cluster = << >> \/ Fitting!Known(cluster[1].label) = {}
  BY <1>6 DEF Fitting!BadgeMemory
<1>7. CASE ~(cluster = << >> \/ Fitting!Known(cluster[1].label) = {})
  <2>1. PICK g \in DOMAIN Fitting!GpuModels : g = CHOOSE x \in Fitting!Known(cluster[1].label) : TRUE
    BY <1>7, KnownIs
  <2>2. Fitting!BadgeMemory(cluster) = Fitting!GpuModels[g].memory * Fitting!SumFunction(gpus)
    BY <1>7, <2>1, Zenon DEF Fitting!BadgeMemory
  <2>3. Fitting!GpuModels[g].memory \in Nat
    BY GpusAreKnown
  <2>4. PICK a \in Nat, b \in Nat : a = Fitting!GpuModels[g].memory /\ b = Fitting!SumFunction(gpus)
    BY <1>5, <2>3
  <2>5. a * b \in Nat
    OBVIOUS
  <2> QED BY <2>2, <2>4, <2>5
<1> QED BY <1>6, <1>7

LEMMA SearchHolds ==
  ASSUME NEW signed \in BOOLEAN, NEW offset \in Offsets, NEW failing \in SUBSET DOMAIN Hub,
         NEW cluster \in Clusters, told = Fitting!Page(signed, offset, failing, cluster)
  PROVE  Fitting!SearchIsSound /\ Fitting!BadgeIsSound
<1>1. offset \in Nat /\ Limit \in Nat /\ Limit # 0 /\ offset + Limit \in Nat
  BY FitFacts DEF Fitting!ModelFitAssumption
<1>2. PICK offered, merged, count :
        /\ offered = Fitting!Offered(signed, offset, failing) /\ merged = Fitting!Merged(offset, failing)
        /\ count = IF offset < Cardinality(offered)
                   THEN Fitting!Least(Limit, Cardinality(offered) - offset) ELSE 0
  OBVIOUS
<1>3. PICK capacity \in Nat : capacity = Fitting!BadgeMemory(cluster)
  BY MemoryIs
<1>4. /\ DOMAIN told.cards = 1..count /\ count \in Nat
      /\ told.more <=> offset + count < Cardinality(offered)
      /\ \A n \in 1..count :
           \E k \in offered : /\ told.cards[n] = Fitting!Card(merged[k], capacity)
                              /\ Cardinality(PlacesUpto(offered, k)) = offset + n
  BY <1>1, <1>2, <1>3, PageIs
<1>5. /\ told.signed = signed /\ told.offset = offset /\ told.failing = failing /\ told.cluster = cluster
  BY Zenon DEF Fitting!Page
<1>6. /\ \A k \in offered : /\ merged[k] \in Models /\ Fitting!Compatible(merged[k])
                            /\ signed \/ ~merged[k].gated
      /\ \A k, l \in offered : merged[k] = merged[l] => k = l
  BY <1>1, <1>2, OfferedIs
<1>7. ASSUME NEW n \in DOMAIN told.cards, NEW k \in offered, told.cards[n] = Fitting!Card(merged[k], capacity)
      PROVE  /\ told.cards[n].id = merged[k] /\ told.cards[n].engines = Fitting!SupportedEngines(merged[k])
             /\ told.cards[n].level = "too-large" => told.cards[n].delta > 0
             /\ told.cards[n].delta > 0 =>
                  /\ told.cards[n].level \in {"too-large", "marginal"}
                  /\ Fitting!FitLevel(told.cards[n].memory, told.cards[n].capacity + told.cards[n].delta)
                       # "too-large"
  BY <1>6, <1>7, CardIs
<1>8. \A i, j \in DOMAIN told.cards : told.cards[i].id = told.cards[j].id => i = j
  <2> SUFFICES ASSUME NEW i \in 1..count, NEW j \in 1..count, told.cards[i].id = told.cards[j].id
               PROVE  i = j
    BY <1>4
  <2>1. PICK k \in offered : /\ told.cards[i] = Fitting!Card(merged[k], capacity)
                             /\ Cardinality(PlacesUpto(offered, k)) = offset + i
    BY <1>4
  <2>2. PICK l \in offered : /\ told.cards[j] = Fitting!Card(merged[l], capacity)
                             /\ Cardinality(PlacesUpto(offered, l)) = offset + j
    BY <1>4
  <2>3. merged[k] = merged[l]
    BY <1>4, <1>7, <2>1, <2>2
  <2>4. k = l
    BY <1>6, <2>3
  <2> QED BY <1>1, <1>4, <2>1, <2>2, <2>4
<1>9. ASSUME NEW n \in DOMAIN told.cards
      PROVE  LET c == told.cards[n] IN
             /\ c.engines # {} /\ (("llamacpp" \in c.engines) <=> Fitting!IsGguf(c.id))
             /\ Fitting!IsGguf(c.id) => c.engines = {"llamacpp"}
             /\ c.id.gated => told.signed
             /\ c.level = "too-large" => c.delta > 0
             /\ c.delta > 0 => /\ c.level \in {"too-large", "marginal"}
                              /\ Fitting!FitLevel(c.memory, c.capacity + c.delta) # "too-large"
  <2>1. PICK k \in offered : told.cards[n] = Fitting!Card(merged[k], capacity)
    BY <1>4
  <2>2. Fitting!Compatible(merged[k]) /\ (signed \/ ~merged[k].gated)
    BY <1>6
  <2> QED BY <1>5, <1>7, <2>1, <2>2, EnginesFit
<1>10. ASSUME NEW m \in Models
       PROVE  /\ ~Fitting!Compatible(m) => Fitting!Reason(m) # "none"
              /\ m.archs = {} /\ m.families # {} => Fitting!Compatible(m)
  <2>1. m.families \subseteq {Fitting!Families[k][1] : k \in DOMAIN Fitting!Families}
    BY FitFacts, Zenon DEF Fitting!ModelFitAssumption
  <2> QED BY <2>1, FamilyIsEnough, LeftOutForAReason
<1>11. told.more => Fitting!Page(told.signed, told.offset + Limit, told.failing, told.cluster).cards # << >>
  <2> SUFFICES ASSUME offset + count < Cardinality(offered)
               PROVE  Fitting!Page(signed, offset + Limit, failing, cluster).cards # << >>
    BY <1>4, <1>5
  <2>1. PICK next \in Nat : next = offset + Limit
    BY <1>1
  <2>2. PICK more, size :
          /\ more = Fitting!Offered(signed, next, failing)
          /\ size = IF next < Cardinality(more) THEN Fitting!Least(Limit, Cardinality(more) - next) ELSE 0
    OBVIOUS
  <2>3. DOMAIN Fitting!Page(signed, next, failing, cluster).cards = 1..size
    BY <2>2, PageIs
  <2>4. Cardinality(offered) <= Cardinality(more) /\ Cardinality(offered) \in Nat /\ Cardinality(more) \in Nat
    BY <1>1, <1>2, <2>1, <2>2, MoreIsOffered, OfferedIs, FS_CardinalityType
  <2>5. offset + Limit < Cardinality(offered)
    BY <1>1, <1>2, <1>4, <2>4 DEF Fitting!Least
  <2>6. size \in Nat /\ size # 0
    BY <1>1, <2>1, <2>2, <2>4, <2>5 DEF Fitting!Least
  <2>7. 1 \in DOMAIN Fitting!Page(signed, next, failing, cluster).cards
    BY <2>3, <2>6
  <2>8. DOMAIN << >> = {}
    OBVIOUS
  <2> QED BY <2>1, <2>7, <2>8
<1>12. Fitting!SearchIsSound
  BY <1>8, <1>9, <1>10, <1>11, Zenon DEF Fitting!SearchIsSound
<1>13. Fitting!BadgeIsSound
  BY <1>9, Zenon DEF Fitting!BadgeIsSound
<1> QED BY <1>12, <1>13

-----------------------------------------------------------------------------
(* Estimates.  Quotients keep the order of what is divided.                    *)
LEMMA QuotientIs ==
  ASSUME NEW a \in Nat, NEW b \in Nat \ {0}
  PROVE  a \div b \in Nat /\ (a \div b) * b <= a /\ a < (a \div b) * b + b
OBVIOUS

LEMMA QuotientsKeep ==
  ASSUME NEW a \in Nat, NEW c \in Nat, a <= c, NEW b \in Nat \ {0}
  PROVE  a \div b <= c \div b
<1>1. PICK q \in Nat, r \in Nat : q = a \div b /\ r = c \div b
  BY QuotientIs
<1>2. q * b <= a /\ c < r * b + b
  BY <1>1, QuotientIs
<1>3. q * b < (r + 1) * b
  BY <1>2
<1>4. q < r + 1
  BY <1>3
<1> QED BY <1>1, <1>4

LEMMA ProductsKeep ==
  ASSUME NEW a \in Nat, NEW b \in Nat, NEW c \in Nat, a <= b
  PROVE  a * c <= b * c /\ a * c \in Nat /\ b * c \in Nat
OBVIOUS

(* The room for the cache grows with the group.                                *)
LEMMA RoomIs ==
  ASSUME NEW gpu, gpu.memory \in Nat, gpu.memory >= 16, NEW params \in Nat, NEW bytes \in {1, 2},
         NEW t \in Nat
  PROVE  /\ Fitting!KvRoom(gpu, params, bytes, t) \in Int
         /\ \A u \in Nat : t <= u =>
              Fitting!KvRoom(gpu, params, bytes, t) <= Fitting!KvRoom(gpu, params, bytes, u)
<1>1. PICK each \in Nat : each = Fitting!UsableUnits(gpu)
  BY DEF Fitting!UsableUnits
<1>2. PICK all \in Nat : all = Fitting!WeightUnits(params, bytes)
  BY DEF Fitting!WeightUnits
<1>3. \A u \in Nat : Fitting!KvRoom(gpu, params, bytes, u) = each * u - all
  BY <1>1, <1>2 DEF Fitting!KvRoom
<1>4. each * t - all \in Int
  OBVIOUS
<1>5. ASSUME NEW u \in Nat, t <= u PROVE each * t - all <= each * u - all
  <2>1. each * t <= each * u
    BY <1>5
  <2> QED BY <2>1
<1> QED BY <1>3, <1>4, <1>5

(* The size that is derived is one of those allowed, and fits if any does.     *)
LEMMA DerivedIs ==
  ASSUME NEW gpu, gpu.memory \in Nat, gpu.memory >= 16, NEW params \in Nat, NEW bytes \in {1, 2},
         NEW bound \in 1..64, NEW tp, tp = Fitting!Derived(gpu, params, bytes, bound)
  PROVE  /\ tp \in 1..bound
         /\ \A t \in 1..bound : Fitting!KvRoom(gpu, params, bytes, t) > 0 =>
              Fitting!KvRoom(gpu, params, bytes, tp) > 0
<1> DEFINE S == {p \in Fitting!Powers : p >= bound \/ Fitting!KvRoom(gpu, params, bytes, p) > 0}
           m == Fitting!Min(S)
<1>1. S \in SUBSET Nat /\ 64 \in S /\ \A p \in S : p >= 1
  BY DEF Fitting!Powers
<1>2. m \in S
  <2> HIDE DEF S
  <2> QED BY <1>1, MinIs
<1>3. m \in Nat /\ m >= 1 /\ (m >= bound \/ Fitting!KvRoom(gpu, params, bytes, m) > 0)
  BY <1>1, <1>2
<1>4. tp = IF bound < m THEN bound ELSE m
  BY Zenon DEF Fitting!Derived, Fitting!Least
<1> HIDE DEF m
<1>5. tp \in 1..bound /\ (tp = bound \/ Fitting!KvRoom(gpu, params, bytes, tp) > 0)
  BY <1>3, <1>4
<1>6. ASSUME NEW t \in 1..bound, Fitting!KvRoom(gpu, params, bytes, t) > 0, tp = bound
      PROVE  Fitting!KvRoom(gpu, params, bytes, tp) > 0
  <2>1. t \in Nat /\ tp \in Nat /\ t <= tp
    BY <1>6
  <2> QED BY <1>6, <2>1, RoomIs, SMTT(40)
<1> QED BY <1>5, <1>6

(* More GPUs are not slower: what the haircut takes is less than they add.     *)
LEMMA GroupsKeep ==
  ASSUME NEW t \in Nat, NEW u \in Nat, t <= u, t >= 1
  PROVE  /\ t * Fitting!Twentieths(t) <= u * Fitting!Twentieths(u)
         /\ t * Fitting!Twentieths(t) \in Nat /\ u * Fitting!Twentieths(u) \in Nat
<1>1. \A n \in Nat : Fitting!Twentieths(n) = IF n <= 1 THEN 20 ELSE IF n <= 4 THEN 17 ELSE 15
  BY DEF Fitting!Twentieths
<1> QED BY <1>1

LEMMA PerChatKeeps ==
  ASSUME NEW gpu, gpu.bandwidth \in Nat, NEW params \in Nat \ {0}, NEW bytes \in {1, 2},
         NEW t \in Nat, NEW u \in Nat, t <= u, t >= 1
  PROVE  Fitting!PerChat(gpu, params, bytes, t) <= Fitting!PerChat(gpu, params, bytes, u)
<1>1. PICK a \in Nat, b \in Nat : a = t * Fitting!Twentieths(t) /\ b = u * Fitting!Twentieths(u) /\ a <= b
  BY GroupsKeep
<1>2. PICK over \in Nat \ {0} : over = 100 * params * bytes
  OBVIOUS
<1>3. PICK rate \in Nat : rate = 8 * gpu.bandwidth
  OBVIOUS
<1>4. Fitting!Twentieths(t) \in Nat /\ Fitting!Twentieths(u) \in Nat
  BY DEF Fitting!Twentieths
<1>5. rate * t * Fitting!Twentieths(t) = rate * a /\ rate * u * Fitting!Twentieths(u) = rate * b
  BY <1>1, <1>4
<1>6. /\ Fitting!PerChat(gpu, params, bytes, t) = (rate * a + over) \div (2 * over)
      /\ Fitting!PerChat(gpu, params, bytes, u) = (rate * b + over) \div (2 * over)
  BY <1>2, <1>3, <1>5, Zenon DEF Fitting!PerChat
<1>7. rate * a <= rate * b /\ rate * a \in Nat /\ rate * b \in Nat
  BY <1>1
<1>8. PICK x \in Nat, y \in Nat, z \in Nat \ {0} :
        x = rate * a + over /\ y = rate * b + over /\ z = 2 * over /\ x <= y
  BY <1>7
<1>9. x \div z <= y \div z
  BY <1>8, QuotientsKeep
<1> QED BY <1>6, <1>8, <1>9

LEMMA ConcurrentKeeps ==
  ASSUME NEW gpu, gpu.memory \in Nat, gpu.memory >= 16, NEW params \in Nat, NEW bytes \in {1, 2},
         NEW t \in Nat, NEW u \in Nat, t <= u, NEW each \in Nat \ {0}
  PROVE  Fitting!Concurrent(gpu, params, bytes, t, each) <= Fitting!Concurrent(gpu, params, bytes, u, each)
<1>1. PICK a \in Int, b \in Int : /\ a = Fitting!KvRoom(gpu, params, bytes, t)
                                  /\ b = Fitting!KvRoom(gpu, params, bytes, u) /\ a <= b
  <2>1. Fitting!KvRoom(gpu, params, bytes, t) \in Int /\ Fitting!KvRoom(gpu, params, bytes, u) \in Int
    BY RoomIs
  <2>2. Fitting!KvRoom(gpu, params, bytes, t) <= Fitting!KvRoom(gpu, params, bytes, u)
    BY RoomIs
  <2> QED BY <2>1, <2>2
<1>2. /\ Fitting!Concurrent(gpu, params, bytes, t, each) = IF a <= 0 THEN 0 ELSE a \div each
      /\ Fitting!Concurrent(gpu, params, bytes, u, each) = IF b <= 0 THEN 0 ELSE b \div each
  BY <1>1, Zenon DEF Fitting!Concurrent
<1>3. CASE a <= 0
  <2>1. b > 0 => b \div each \in Nat
    BY QuotientIs
  <2> QED BY <1>2, <1>3, <2>1
<1>4. CASE ~(a <= 0)
  BY <1>1, <1>2, <1>4, QuotientsKeep
<1> QED BY <1>3, <1>4

(* The pool that is picked is one of the cluster's.                            *)
LEMMA SelectedIs ==
  ASSUME NEW cluster \in Clusters, NEW label, NEW s \in Fitting!Selected(cluster, label)
  PROVE  \E k \in DOMAIN cluster :
           /\ \E g \in Fitting!Known(cluster[k].label) :
                g \in DOMAIN Fitting!GpuModels /\ s.gpu = Fitting!GpuModels[g]
           /\ s.perNode = Fitting!PerNode(cluster[k])
<1> DEFINE there == {k \in DOMAIN cluster : Fitting!Known(cluster[k].label) # {}}
           specs(k) == Fitting!GpuModels[CHOOSE g \in Fitting!Known(cluster[k].label) : TRUE]
           matching == {k \in there : Fitting!Known(cluster[k].label) = Fitting!Known(label)}
           best == {k \in there : \A j \in there : specs(j).memory <= specs(k).memory}
           from == IF matching # {} THEN matching ELSE best
           size == [k \in there |-> specs(k).memory]
           sizes == {size[k] : k \in there}
<1>1. cluster \in Seq([label : SUBSET Fitting!Aliases, gpus : 1..64, nodes : 1..64])
  BY FitFacts DEF Fitting!ModelFitAssumption
<1>2. DOMAIN cluster = 1..Len(cluster) /\ Len(cluster) \in Nat
  BY <1>1, LenProperties
<1>3. there \in SUBSET Nat /\ IsFiniteSet(there)
  <2>1. there \in SUBSET (1..Len(cluster)) /\ IsFiniteSet(1..Len(cluster))
    BY <1>2, FS_Interval
  <2>2. IsFiniteSet(there)
    <3> HIDE DEF there
    <3> QED BY <2>1, FS_Subset
  <2> QED BY <1>2, <2>1, <2>2
<1>4. there # {} /\ s = [gpu |-> specs(Fitting!Min(from)), perNode |-> Fitting!PerNode(cluster[Fitting!Min(from)])]
  BY Zenon DEF Fitting!Selected
<1>5. \A k \in there : \E g \in Fitting!Known(cluster[k].label) :
        g \in DOMAIN Fitting!GpuModels /\ specs(k) = Fitting!GpuModels[g]
  BY KnownIs
<1>6. best # {}
  <2>1. \A k \in there : size[k] = specs(k).memory /\ size[k] \in Int
    BY <1>5, GpusAreKnown
  <2>2. sizes \subseteq Int /\ sizes # {} /\ IsFiniteSet(sizes)
    <3> HIDE DEF there, size
    <3>1. IsFiniteSet(sizes)
      BY <1>3, ImageIsFinite
    <3>2. sizes \subseteq Int /\ sizes # {}
      BY <1>4, <2>1
    <3> QED BY <3>1, <3>2
  <2>3. PICK x \in sizes : \A y \in sizes : x >= y
    <3> HIDE DEF sizes
    <3> QED BY <2>2, Largest
  <2>4. PICK k \in there : x = size[k]
    BY <2>3
  <2>5. \A j \in there : size[j] <= size[k]
    BY <2>1, <2>3, <2>4
  <2> QED BY <2>1, <2>4, <2>5
<1>7. from \in SUBSET there /\ from # {}
  BY <1>6
<1>8. Fitting!Min(from) \in there
  <2> HIDE DEF from, there
  <2>1. from \in SUBSET Nat
    BY <1>3, <1>7
  <2> QED BY <1>7, <2>1, MinIs
<1>9. PICK k \in there : k = Fitting!Min(from)
  BY <1>8
<1>10. s.gpu = specs(k) /\ s.perNode = Fitting!PerNode(cluster[k])
  BY <1>4, <1>9
<1> QED BY <1>5, <1>9, <1>10

(* What is taken per sequence is a number.                                     *)
LEMMA SizesAre ==
  ASSUME NEW q \in Inquiries, NEW dims, dims = q.model.dims \/ dims = {}, NEW kv, NEW d \in dims
  PROVE  /\ dims = {d}
         /\ Fitting!KvUnits(d, Fitting!BytesOf(kv), Fitting!Context(q.context, dims)) \in Nat
<1>1. /\ q.model \in Models \cup {x.model : x \in Inquiries}
      /\ q.context \in Nat
  BY FitFacts DEF Fitting!ModelFitAssumption
<1>2. dims = {d} /\ {d.layers, d.heads, d.dim, d.window} \subseteq Nat
  <2>1. d \in q.model.dims /\ dims = q.model.dims
    OBVIOUS
  <2>2. PICK m \in Models \cup {x.model : x \in Inquiries} : m = q.model
    BY <1>1
  <2>3. \A e \in m.dims : m.dims = {e} /\ {e.layers, e.heads, e.dim, e.window} \subseteq Nat
    BY FitFacts DEF Fitting!ModelFitAssumption
  <2> QED BY <2>1, <2>2, <2>3
<1>3. \A w \in Nat : Fitting!Max({w}) = w
  BY DEF Fitting!Max
<1>5. PICK tokens \in Nat : tokens = Fitting!Context(q.context, dims)
  <2>1. PICK windows : windows = {x.window : x \in dims} \ {0}
    OBVIOUS
  <2>2. PICK asks \in Nat : asks = q.context
    BY <1>1
  <2>3. PICK x : x = IF asks # 0 THEN asks ELSE IF windows # {} THEN Fitting!Max(windows) ELSE 4096
    OBVIOUS
  <2>4. Fitting!Context(asks, dims) = Fitting!Least(32768, x)
    BY <2>1, <2>3 DEF Fitting!Context
  <2>5. x \in Nat
    <3>1. windows = {} \/ \E w \in Nat : windows = {w}
      BY <1>2, <2>1
    <3>2. windows = {} \/ Fitting!Max(windows) \in Nat
      BY <1>3, <3>1
    <3> QED BY <2>3, <3>2
  <2> QED BY <2>2, <2>4, <2>5 DEF Fitting!Least
<1>6. tokens \div 512 \in Nat
  BY QuotientIs
<1>7. PICK l \in Nat, h \in Nat, n \in Nat, b \in Nat, w \in Nat :
        /\ l = d.layers /\ h = d.heads /\ n = d.dim /\ b = Fitting!BytesOf(kv) /\ w = tokens \div 512
  BY <1>2, <1>6 DEF Fitting!BytesOf
<1>8. Fitting!KvUnits(d, Fitting!BytesOf(kv), Fitting!Context(q.context, dims)) = 2 * l * h * n * b * w
  BY <1>5, <1>7 DEF Fitting!KvUnits
<1>9. 2 * l * h * n * b * w \in Nat
  <2>1. PICK x \in Nat : x = 2 * l * h
    OBVIOUS
  <2>2. PICK y \in Nat : y = x * n * b
    OBVIOUS
  <2>3. y * w \in Nat
    OBVIOUS
  <2> QED BY <2>1, <2>2, <2>3
<1> QED BY <1>2, <1>8, <1>9

(* What EstimateIsSound says of the answer alone.                              *)
SoundAnswer(a, s, q, params, bytes) ==
  /\ a.gpu = s.gpu /\ a.perNode = s.perNode /\ a.tp \in 1..s.perNode
  /\ a.kv = "fp8" => a.gpu.fp8
  /\ q.tp = 0 /\ params > 0 =>
       \A t \in 1..a.perNode : Fitting!KvRoom(a.gpu, params, bytes, t) > 0 =>
         Fitting!KvRoom(a.gpu, params, bytes, a.tp) > 0
  /\ params > 0 => \A t \in 1..a.tp :
       /\ Fitting!PerChat(a.gpu, params, bytes, t) <= a.perChat
       /\ \A u \in a.perSequence : \A n \in a.concurrent :
            Fitting!Concurrent(a.gpu, params, bytes, t, u) <= n

LEMMA AnswerHolds ==
  ASSUME NEW q \in Inquiries, NEW dims, dims = q.model.dims \/ dims = {}, NEW s,
         \E g \in DOMAIN Fitting!GpuModels : s.gpu = Fitting!GpuModels[g], s.perNode \in 1..64,
         NEW a, a = Fitting!Answer(s, q, dims),
         NEW params, params = Fitting!ParameterCount(q.model),
         NEW bytes, bytes = Fitting!BytesOf(q.weights)
  PROVE  SoundAnswer(a, s, q, params, bytes)
<1>1. s.gpu.memory \in Nat /\ s.gpu.memory >= 16 /\ s.gpu.bandwidth \in Nat
  BY GpusAreKnown
<1>2. q.tp \in Nat /\ params \in Nat /\ bytes \in {1, 2}
  <2>1. PICK m \in Models \cup {x.model : x \in Inquiries} : m = q.model
    OBVIOUS
  <2>2. m.total \in Nat /\ m.named \in Nat
    BY FitFacts DEF Fitting!ModelFitAssumption
  <2>3. q.tp \in Nat
    BY FitFacts DEF Fitting!ModelFitAssumption
  <2> QED BY <2>1, <2>2, <2>3 DEF Fitting!ParameterCount, Fitting!BytesOf
<1> DEFINE kv == IF q.kv = "fp8" /\ ~s.gpu.fp8 THEN "fp16" ELSE q.kv
           size(d) == Fitting!KvUnits(d, Fitting!BytesOf(kv), Fitting!Context(q.context, dims))
           sized == {x \in dims : params > 0 /\ size(x) > 0}
<1>3. /\ a.gpu = s.gpu /\ a.perNode = s.perNode /\ a.kv = kv
      /\ a.tp = IF q.tp # 0 THEN Fitting!Least(q.tp, s.perNode)
                ELSE IF params = 0 THEN 1 ELSE Fitting!Derived(s.gpu, params, bytes, s.perNode)
  BY Zenon DEF Fitting!Answer
<1>4. a.perChat = IF params = 0 THEN 0 ELSE Fitting!PerChat(s.gpu, params, bytes, a.tp)
  BY Zenon DEF Fitting!Answer
<1>5. /\ a.perSequence = {size(d) : d \in sized}
      /\ a.concurrent = {Fitting!Concurrent(s.gpu, params, bytes, a.tp, size(d)) : d \in sized}
  BY Zenon DEF Fitting!Answer
<1>6. a.tp \in 1..s.perNode
  <2>1. CASE q.tp # 0
    BY <1>2, <1>3, <2>1 DEF Fitting!Least
  <2>2. CASE q.tp = 0 /\ params = 0
    BY <1>3, <2>2
  <2>3. CASE q.tp = 0 /\ params # 0
    <3>1. a.tp = Fitting!Derived(s.gpu, params, bytes, s.perNode)
      BY <1>2, <1>3, <2>3
    <3> QED BY <1>1, <1>2, <3>1, DerivedIs, Zenon
  <2> QED BY <2>1, <2>2, <2>3
<1>7. ASSUME q.tp = 0, params > 0, NEW t \in 1..a.perNode, Fitting!KvRoom(a.gpu, params, bytes, t) > 0
      PROVE  Fitting!KvRoom(a.gpu, params, bytes, a.tp) > 0
  <2>1. a.tp = Fitting!Derived(s.gpu, params, bytes, s.perNode)
    BY <1>2, <1>3, <1>7
  <2>2. \A x \in 1..s.perNode : Fitting!KvRoom(s.gpu, params, bytes, x) > 0 =>
          Fitting!KvRoom(s.gpu, params, bytes, a.tp) > 0
    BY <1>1, <1>2, <2>1, DerivedIs, Zenon
  <2> QED BY <1>3, <1>7, <2>2
<1>8. ASSUME params > 0, NEW t \in 1..a.tp
      PROVE  /\ Fitting!PerChat(a.gpu, params, bytes, t) <= a.perChat
             /\ \A u \in a.perSequence : \A n \in a.concurrent :
                  Fitting!Concurrent(a.gpu, params, bytes, t, u) <= n
  <2>1. t \in Nat /\ a.tp \in Nat /\ t <= a.tp /\ t >= 1 /\ params \in Nat \ {0}
    BY <1>2, <1>6, <1>8
  <2>2. Fitting!PerChat(a.gpu, params, bytes, t) <= a.perChat
    BY <1>1, <1>2, <1>3, <1>4, <2>1, PerChatKeeps
  <2>3. ASSUME NEW u \in a.perSequence, NEW n \in a.concurrent
        PROVE  Fitting!Concurrent(a.gpu, params, bytes, t, u) <= n
    <3>1. PICK d \in dims : u = size(d) /\ size(d) > 0
      BY <1>5, <2>3
    <3>2. PICK e \in dims : n = Fitting!Concurrent(s.gpu, params, bytes, a.tp, size(e))
      BY <1>5, <2>3
    <3>3. dims = {d} /\ u \in Nat
      <4> HIDE DEF kv
      <4> QED BY <3>1, SizesAre
    <3>4. e = d
      BY <3>3
    <3> HIDE DEF size
    <3>5. u \in Nat \ {0} /\ n = Fitting!Concurrent(s.gpu, params, bytes, a.tp, u)
      BY <3>1, <3>2, <3>3, <3>4
    <3> QED BY <1>1, <1>2, <1>3, <2>1, <3>5, ConcurrentKeeps
  <2> QED BY <2>2, <2>3
<1>9. a.kv = "fp8" => a.gpu.fp8
  BY <1>3
<1> QED BY <1>3, <1>6, <1>7, <1>8, <1>9, Zenon DEF SoundAnswer

LEMMA EstimateHolds ==
  ASSUME NEW cluster \in Clusters, NEW q \in Inquiries, NEW reached \in BOOLEAN,
         told = Fitting!Estimated(cluster, q, reached)
  PROVE  Fitting!EstimateIsSound
<1> SUFFICES ASSUME told.at = "estimated" PROVE Fitting!EstimateIsSound
  BY DEF Fitting!EstimateIsSound
<1> DEFINE S == Fitting!Selected(cluster, q.label)
           one == CHOOSE x \in S : TRUE
           dims == IF reached THEN q.model.dims ELSE {}
<1>1. S # {}
  BY Zenon DEF Fitting!Estimated
<1>2. told.cluster = cluster /\ told.asked = q /\ told.answer = Fitting!Answer(one, q, dims)
  BY <1>1, Zenon DEF Fitting!Estimated
<1>3. PICK s \in S : s = one
  BY <1>1
<1>4. PICK k \in DOMAIN cluster :
        /\ \E g \in Fitting!Known(cluster[k].label) :
             g \in DOMAIN Fitting!GpuModels /\ s.gpu = Fitting!GpuModels[g]
        /\ s.perNode = Fitting!PerNode(cluster[k])
  BY SelectedIs
<1>5. PICK g \in Fitting!Known(cluster[k].label) :
        g \in DOMAIN Fitting!GpuModels /\ s.gpu = Fitting!GpuModels[g]
  BY <1>4
<1>6. PICK gpus \in 1..64, nodes \in 1..64 :
        gpus = cluster[k].gpus /\ nodes = cluster[k].nodes /\ nodes <= gpus
  <2>1. /\ cluster \in Seq([label : SUBSET Fitting!Aliases, gpus : 1..64, nodes : 1..64])
        /\ \A j \in DOMAIN cluster : cluster[j].nodes <= cluster[j].gpus
    BY FitFacts DEF Fitting!ModelFitAssumption
  <2>2. k \in 1..Len(cluster)
    BY <2>1, LenProperties
  <2>3. cluster[k] \in [label : SUBSET Fitting!Aliases, gpus : 1..64, nodes : 1..64]
    BY <2>1, <2>2, ElementOfSeq
  <2> QED BY <2>1, <2>3
<1>7. PICK per \in Nat : per = s.perNode /\ per * nodes <= gpus /\ per \in 1..64
  <2>1. PICK per \in Nat : per = gpus \div nodes /\ per * nodes <= gpus /\ gpus < per * nodes + nodes
    BY QuotientIs
  <2>2. per >= 1
    BY <1>6, <2>1
  <2>3. per <= per * nodes
    BY <2>1
  <2>4. per \in 1..64
    BY <2>1, <2>2, <2>3
  <2>5. per = s.perNode
    BY <1>4, <1>6, <2>1 DEF Fitting!PerNode
  <2> QED BY <2>1, <2>4, <2>5
<1>8. PICK params, bytes, a, d : /\ params = Fitting!ParameterCount(q.model) /\ bytes = Fitting!BytesOf(q.weights)
                                 /\ a = told.answer /\ d = dims
  OBVIOUS
<1>9. a = Fitting!Answer(s, q, d) /\ (d = q.model.dims \/ d = {})
  BY <1>2, <1>3, <1>8
<1> HIDE DEF S, one, dims
<1>10. SoundAnswer(a, s, q, params, bytes)
  <2>1. s.perNode \in 1..64
    BY <1>7
  <2>2. params = Fitting!ParameterCount(q.model) /\ bytes = Fitting!BytesOf(q.weights)
    BY <1>8
  <2> QED BY <1>5, <1>9, <2>1, <2>2, AnswerHolds
<1>11. a.tp >= 1 /\ a.tp * nodes <= gpus
  <2>1. PICK tp \in Nat : tp = a.tp /\ tp >= 1 /\ tp <= per
    BY <1>7, <1>10 DEF SoundAnswer
  <2>2. tp * nodes <= per * nodes
    BY <2>1
  <2>3. tp * nodes \in Nat /\ per * nodes \in Nat
    OBVIOUS
  <2> QED BY <1>7, <2>1, <2>2, <2>3
<1>12. \E j \in DOMAIN told.cluster :
         LET pool == told.cluster[j] IN
         /\ \E x \in Fitting!Known(pool.label) : Fitting!GpuModels[x] = a.gpu
         /\ a.tp * pool.nodes <= pool.gpus
  <2>1. PICK pool : pool = told.cluster[k] /\ k \in DOMAIN told.cluster
    BY <1>2
  <2>2. \E x \in Fitting!Known(pool.label) : Fitting!GpuModels[x] = a.gpu
    BY <1>2, <1>5, <1>10, <2>1 DEF SoundAnswer
  <2>3. a.tp * pool.nodes <= pool.gpus
    BY <1>2, <1>6, <1>11, <2>1
  <2> QED BY <2>1, <2>2, <2>3
<1>13. told.answer = a /\ told.asked = q /\ params = Fitting!ParameterCount(q.model)
       /\ bytes = Fitting!BytesOf(q.weights)
  BY <1>2, <1>8
<1> QED BY <1>10, <1>11, <1>12, <1>13, ZenonT(60) DEF Fitting!EstimateIsSound, SoundAnswer

LEMMA FitHolds == Fitting!Spec => []Fitting!FitIsHonest
<1> DEFINE Told == \/ told = Fitting!Nothing
                   \/ \E signed \in BOOLEAN, offset \in Offsets, failing \in SUBSET DOMAIN Hub, cluster \in Clusters :
                        told = Fitting!Page(signed, offset, failing, cluster)
                   \/ \E cluster \in Clusters, q \in Inquiries, reached \in BOOLEAN :
                        told = Fitting!Estimated(cluster, q, reached)
<1>1. Fitting!Init => Told
  BY DEF Fitting!Init
<1>2. ASSUME Told, [Fitting!Next]_told PROVE Told'
  BY <1>2 DEF Fitting!Next, Fitting!Search, Fitting!Estimate
<1>3. ASSUME Told PROVE Fitting!FitIsHonest
  <2>1. CASE told = Fitting!Nothing
    <3>1. told.at = "nothing"
      BY <2>1 DEF Fitting!Nothing
    <3> QED BY <3>1 DEF Fitting!FitIsHonest, Fitting!SearchIsSound, Fitting!EstimateIsSound, Fitting!BadgeIsSound
  <2>2. ASSUME NEW signed \in BOOLEAN, NEW offset \in Offsets, NEW failing \in SUBSET DOMAIN Hub,
               NEW cluster \in Clusters, told = Fitting!Page(signed, offset, failing, cluster)
        PROVE  Fitting!FitIsHonest
    <3>1. told.at = "found"
      BY <2>2, Zenon DEF Fitting!Page
    <3>2. Fitting!EstimateIsSound
      BY <3>1 DEF Fitting!EstimateIsSound
    <3> QED BY <2>2, <3>2, SearchHolds DEF Fitting!FitIsHonest
  <2>3. ASSUME NEW cluster \in Clusters, NEW q \in Inquiries, NEW reached \in BOOLEAN,
               told = Fitting!Estimated(cluster, q, reached)
        PROVE  Fitting!FitIsHonest
    <3>1. told.at # "found"
      BY <2>3 DEF Fitting!Estimated
    <3>2. Fitting!SearchIsSound /\ Fitting!BadgeIsSound
      BY <3>1 DEF Fitting!SearchIsSound, Fitting!BadgeIsSound
    <3> QED BY <2>3, <3>2, EstimateHolds DEF Fitting!FitIsHonest
  <2> QED BY <1>3, <2>1, <2>2, <2>3
<1> QED BY <1>1, <1>2, <1>3, PTL DEF Fitting!Spec

-----------------------------------------------------------------------------
(* Recipes.  The places of a sequence of tokens that set a flag, and what the  *)
(* last of them gives it.                                                      *)
TokenSeq == Seq(Resolver!Tokens)
Sets(t, key) == {n \in DOMAIN t : t[n][1] = "flag" /\ t[n][2] = key}
LastSays(t, key, v) ==
  \E n \in Sets(t, key) : v = Resolver!ValueAt(t, n) /\ \A m \in Sets(t, key) : m <= n

LEMMA TokensAre ==
  ASSUME NEW t \in TokenSeq
  PROVE  Len(t) \in Nat /\ DOMAIN t = 1..Len(t)
BY LenProperties DEF TokenSeq

LEMMA FlagsAre == \A t, key : key \in Resolver!FlagsOf(t) <=> Sets(t, key) # {}
BY DEF Resolver!FlagsOf, Sets

LEMMA SomeoneIsLast ==
  ASSUME NEW t \in TokenSeq, NEW key \in Resolver!FlagsOf(t)
  PROVE  \E v : LastSays(t, key, v)
<1>1. Sets(t, key) # {} /\ Sets(t, key) \in SUBSET (1..Len(t)) /\ Len(t) \in Nat
  BY FlagsAre, TokensAre DEF Sets
<1>2. IsFiniteSet(Sets(t, key)) /\ Sets(t, key) \subseteq Int
  <2>1. PICK last \in Nat : last = Len(t)
    BY <1>1
  <2>2. IsFiniteSet(1..last)
    BY FS_Interval
  <2> QED BY <1>1, <2>1, <2>2, FS_Subset
<1>3. PICK n \in Sets(t, key) : \A m \in Sets(t, key) : n >= m
  <2> PICK S : S = Sets(t, key)
    OBVIOUS
  <2> QED BY <1>1, <1>2, Largest
<1>4. \A m \in Sets(t, key) : m <= n
  BY <1>2, <1>3
<1> QED BY <1>3, <1>4, Zenon DEF LastSays

LEMMA OneIsLast ==
  ASSUME NEW t \in TokenSeq, NEW key, NEW v, NEW w, LastSays(t, key, v), LastSays(t, key, w)
  PROVE  v = w
<1>1. PICK n \in Sets(t, key) : v = Resolver!ValueAt(t, n) /\ \A m \in Sets(t, key) : m <= n
  BY DEF LastSays
<1>2. PICK l \in Sets(t, key) : w = Resolver!ValueAt(t, l) /\ \A m \in Sets(t, key) : m <= l
  BY DEF LastSays
<1>3. n \in Nat /\ l \in Nat
  BY TokensAre DEF Sets
<1> QED BY <1>1, <1>2, <1>3

(* Two sequences in a row, each of which a word starts only as a value.        *)
Joined(a, b, c) ==
  /\ c \in TokenSeq /\ Len(c) = Len(a) + Len(b)
  /\ \A n \in 1..Len(a) : c[n] = a[n]
  /\ \A n \in 1..Len(b) : c[Len(a) + n] = b[n]
  /\ \A n \in 1..Len(c) : n \in 1..Len(a) \/ \E k \in 1..Len(b) : n = Len(a) + k

LEMMA JoinIs ==
  ASSUME NEW a \in TokenSeq, NEW b \in TokenSeq
  PROVE  Joined(a, b, a \o b)
<1> DEFINE c == a \o b
<1>1. a \in Seq(Resolver!Tokens) /\ b \in Seq(Resolver!Tokens)
  BY DEF TokenSeq
<1>2. /\ c \in Seq(Resolver!Tokens) /\ Len(c) = Len(a) + Len(b)
      /\ \A n \in 1..Len(a) + Len(b) : c[n] = IF n <= Len(a) THEN a[n] ELSE b[n - Len(a)]
  BY <1>1, ConcatProperties
<1>3. PICK x \in Nat, y \in Nat : x = Len(a) /\ y = Len(b)
  BY TokensAre
<1>4. \A n \in 1..x : n \in 1..(x + y) /\ n <= x
  BY <1>3
<1>5. \A n \in 1..y : (x + n) \in 1..(x + y) /\ ~(x + n <= x) /\ (x + n) - x = n
  BY <1>3
<1>6. \A n \in 1..(x + y) : n \in 1..x \/ \E k \in 1..y : n = x + k
  <2> SUFFICES ASSUME NEW n \in 1..(x + y), n \notin 1..x PROVE \E k \in 1..y : n = x + k
    OBVIOUS
  <2>1. n - x \in 1..y /\ n = x + (n - x)
    BY <1>3
  <2> QED BY <2>1
<1> HIDE DEF c
<1>7. Len(c) = x + y /\ \A n \in 1..(x + y) : c[n] = IF n <= x THEN a[n] ELSE b[n - x]
  BY <1>2, <1>3
<1>8. \A n \in 1..x : c[n] = a[n]
  BY <1>4, <1>7
<1>9. \A n \in 1..y : c[x + n] = b[n]
  BY <1>5, <1>7
<1>10. \A n \in 1..Len(c) : n \in 1..Len(a) \/ \E k \in 1..Len(b) : n = Len(a) + k
  BY <1>3, <1>6, <1>7
<1>11. c \in TokenSeq
  BY <1>2 DEF TokenSeq
<1>12. Len(c) = Len(a) + Len(b)
  BY <1>2
<1>13. \A n \in 1..Len(a) : c[n] = a[n]
  BY <1>3, <1>8
<1>14. \A n \in 1..Len(b) : c[Len(a) + n] = b[n]
  BY <1>3, <1>9
<1>15. Joined(a, b, c)
  BY <1>10, <1>11, <1>12, <1>13, <1>14, Zenon DEF Joined
<1> QED BY <1>15 DEF c

LEMMA JoinKeeps ==
  ASSUME NEW a \in TokenSeq, NEW b \in TokenSeq, NEW c, Joined(a, b, c),
         Resolver!SingleValued(a), Resolver!SingleValued(b)
  PROVE  /\ \A n \in 1..Len(a) : Resolver!IsValue(c, n) <=> Resolver!IsValue(a, n)
         /\ \A n \in 1..Len(b) : Resolver!IsValue(c, Len(a) + n) <=> Resolver!IsValue(b, n)
         /\ \A n \in 1..Len(a) : a[n][1] = "flag" => Resolver!ValueAt(c, n) = Resolver!ValueAt(a, n)
         /\ \A n \in 1..Len(b) : Resolver!ValueAt(c, Len(a) + n) = Resolver!ValueAt(b, n)
<1>1. PICK x \in Nat, y \in Nat : x = Len(a) /\ y = Len(b)
  BY TokensAre
<1>2. /\ Len(c) = x + y
      /\ \A n \in 1..x : c[n] = a[n]
      /\ \A n \in 1..y : c[x + n] = b[n]
  BY <1>1 DEF Joined
<1>3. \A n \in 1..x : Resolver!IsValue(c, n) <=> Resolver!IsValue(a, n)
  <2> TAKE n \in 1..x
  <2>1. n \in 2..(x + y) <=> n \in 2..x
    OBVIOUS
  <2>2. n \in 2..x => n - 1 \in 1..x
    OBVIOUS
  <2> QED BY <1>1, <1>2, <2>1, <2>2 DEF Resolver!IsValue
<1>4. \A n \in 1..y : b[n][1] = "word" => n \in 2..y
  BY <1>1, TokensAre DEF Resolver!SingleValued, Resolver!IsValue
<1>5. \A n \in 1..y : Resolver!IsValue(c, x + n) <=> Resolver!IsValue(b, n)
  <2> TAKE n \in 1..y
  <2>1. CASE n = 1
    <3>1. b[n][1] # "word" /\ c[x + n] = b[n]
      BY <1>2, <1>4, <2>1
    <3> QED BY <2>1, <3>1 DEF Resolver!IsValue
  <2>2. CASE n # 1
    <3>1. n - 1 \in 1..y /\ x + (n - 1) = (x + n) - 1 /\ n \in 2..y /\ (x + n) \in 2..(x + y)
      BY <2>2
    <3>2. c[(x + n) - 1] = b[n - 1] /\ c[x + n] = b[n]
      BY <1>2, <3>1
    <3> QED BY <1>1, <1>2, <3>1, <3>2 DEF Resolver!IsValue
  <2> QED BY <2>1, <2>2
<1>6. ~Resolver!IsValue(c, x + y + 1) /\ ~Resolver!IsValue(b, y + 1) /\ ~Resolver!IsValue(a, x + 1)
  BY <1>1, <1>2 DEF Resolver!IsValue
<1>7. \A n \in 1..x : Resolver!ValueAt(c, n) = Resolver!ValueAt(a, n)
  <2> TAKE n \in 1..x
  <2>1. CASE n + 1 \in 1..x
    <3>1. (Resolver!IsValue(c, n + 1) <=> Resolver!IsValue(a, n + 1)) /\ c[n + 1] = a[n + 1] /\ c[n] = a[n]
      BY <1>2, <1>3, <2>1
    <3> QED BY <3>1, Zenon DEF Resolver!ValueAt
  <2>2. CASE n + 1 \notin 1..x
    <3>1. n = x
      BY <2>2
    <3>2. ~Resolver!IsValue(c, n + 1)
      <4>1. CASE y = 0
        BY <1>6, <3>1, <4>1
      <4>2. CASE y # 0
        <5>1. 1 \in 1..y
          BY <4>2
        <5>2. ~Resolver!IsValue(b, 1)
          BY DEF Resolver!IsValue
        <5> QED BY <1>5, <3>1, <5>1, <5>2
      <4> QED BY <4>1, <4>2
    <3>3. ~Resolver!IsValue(a, n + 1) /\ c[n] = a[n]
      BY <1>2, <1>6, <3>1
    <3> QED BY <3>2, <3>3, Zenon DEF Resolver!ValueAt
  <2> QED BY <2>1, <2>2
<1>8. \A n \in 1..y : Resolver!ValueAt(c, x + n) = Resolver!ValueAt(b, n)
  <2> TAKE n \in 1..y
  <2>1. PICK k \in Nat : k = n + 1 /\ x + k = (x + n) + 1
    OBVIOUS
  <2>2. c[x + n] = b[n]
    BY <1>2
  <2>3. CASE k \in 1..y
    <3>1. (Resolver!IsValue(c, (x + n) + 1) <=> Resolver!IsValue(b, n + 1)) /\ c[(x + n) + 1] = b[n + 1]
      BY <1>2, <1>5, <2>1, <2>3
    <3> QED BY <2>2, <3>1, Zenon DEF Resolver!ValueAt
  <2>4. CASE k \notin 1..y
    <3>1. n = y
      BY <2>1, <2>4
    <3>2. ~Resolver!IsValue(c, (x + n) + 1) /\ ~Resolver!IsValue(b, n + 1)
      BY <1>6, <3>1
    <3> QED BY <2>2, <3>2, Zenon DEF Resolver!ValueAt
  <2> QED BY <2>3, <2>4
<1> QED BY <1>1, <1>3, <1>5, <1>7, <1>8

LEMMA JoinSays ==
  ASSUME NEW a \in TokenSeq, NEW b \in TokenSeq, NEW c, Joined(a, b, c),
         Resolver!SingleValued(a), Resolver!SingleValued(b)
  PROVE  /\ Resolver!SingleValued(c)
         /\ Resolver!FlagsOf(c) = Resolver!FlagsOf(a) \cup Resolver!FlagsOf(b)
         /\ \A key, v : LastSays(b, key, v) => LastSays(c, key, v)
         /\ \A key, v : key \notin Resolver!FlagsOf(b) /\ LastSays(a, key, v) => LastSays(c, key, v)
<1>1. PICK x \in Nat, y \in Nat : x = Len(a) /\ y = Len(b) /\ DOMAIN a = 1..x /\ DOMAIN b = 1..y
  BY TokensAre
<1>2. /\ DOMAIN c = 1..(x + y)
      /\ \A n \in 1..x : c[n] = a[n]
      /\ \A n \in 1..y : c[x + n] = b[n]
      /\ \A n \in 1..(x + y) : n \in 1..x \/ \E k \in 1..y : n = x + k
  <2>1. /\ c \in TokenSeq /\ Len(c) = Len(a) + Len(b)
        /\ \A n \in 1..Len(a) : c[n] = a[n]
        /\ \A n \in 1..Len(b) : c[Len(a) + n] = b[n]
        /\ \A n \in 1..Len(c) : n \in 1..Len(a) \/ \E k \in 1..Len(b) : n = Len(a) + k
    BY DEF Joined
  <2>2. DOMAIN c = 1..Len(c)
    BY <2>1, TokensAre
  <2> QED BY <1>1, <2>1, <2>2
<1>3. /\ \A n \in 1..x : Resolver!IsValue(c, n) <=> Resolver!IsValue(a, n)
      /\ \A n \in 1..y : Resolver!IsValue(c, x + n) <=> Resolver!IsValue(b, n)
      /\ \A n \in 1..x : a[n][1] = "flag" => Resolver!ValueAt(c, n) = Resolver!ValueAt(a, n)
      /\ \A n \in 1..y : Resolver!ValueAt(c, x + n) = Resolver!ValueAt(b, n)
  <2>1. /\ \A n \in 1..Len(a) : Resolver!IsValue(c, n) <=> Resolver!IsValue(a, n)
        /\ \A n \in 1..Len(b) : Resolver!IsValue(c, Len(a) + n) <=> Resolver!IsValue(b, n)
        /\ \A n \in 1..Len(a) : a[n][1] = "flag" => Resolver!ValueAt(c, n) = Resolver!ValueAt(a, n)
        /\ \A n \in 1..Len(b) : Resolver!ValueAt(c, Len(a) + n) = Resolver!ValueAt(b, n)
    BY JoinKeeps
  <2> QED BY <1>1, <2>1
<1>4. Resolver!SingleValued(c)
  <2> SUFFICES ASSUME NEW n \in 1..(x + y), c[n][1] = "word" PROVE Resolver!IsValue(c, n)
    BY <1>2 DEF Resolver!SingleValued
  <2>1. CASE n \in 1..x
    BY <1>1, <1>2, <1>3, <2>1 DEF Resolver!SingleValued
  <2>2. ASSUME NEW k \in 1..y, n = x + k PROVE Resolver!IsValue(c, n)
    <3>1. Resolver!IsValue(b, k)
      BY <1>1, <1>2, <2>2 DEF Resolver!SingleValued
    <3> QED BY <1>3, <2>2, <3>1
  <2> QED BY <1>2, <2>1, <2>2
<1>5. ASSUME NEW key PROVE /\ \A n \in 1..x : n \in Sets(c, key) <=> n \in Sets(a, key)
                           /\ \A n \in 1..y : x + n \in Sets(c, key) <=> n \in Sets(b, key)
                           /\ Sets(a, key) \subseteq 1..x /\ Sets(b, key) \subseteq 1..y
                           /\ Sets(c, key) \subseteq 1..(x + y)
  <2>1. \A n \in 1..x : n \in 1..(x + y)
    OBVIOUS
  <2>2. \A n \in 1..y : x + n \in 1..(x + y)
    OBVIOUS
  <2> QED BY <1>1, <1>2, <2>1, <2>2 DEF Sets
<1>6. ASSUME NEW key PROVE key \in Resolver!FlagsOf(c) <=> key \in Resolver!FlagsOf(a) \/ key \in Resolver!FlagsOf(b)
  <2>1. ASSUME NEW n \in Sets(c, key) PROVE Sets(a, key) # {} \/ Sets(b, key) # {}
    <3>1. n \in 1..(x + y)
      BY <1>5
    <3>2. CASE n \in 1..x
      BY <1>5, <3>2
    <3>3. ASSUME NEW k \in 1..y, n = x + k PROVE Sets(b, key) # {}
      BY <1>5, <3>3
    <3> QED BY <1>2, <3>1, <3>2, <3>3
  <2>2. ASSUME NEW n \in Sets(a, key) PROVE Sets(c, key) # {}
    BY <1>5, <2>2
  <2>3. ASSUME NEW n \in Sets(b, key) PROVE Sets(c, key) # {}
    BY <1>5, <2>3
  <2> QED BY <2>1, <2>2, <2>3, FlagsAre
<1>7. Resolver!FlagsOf(c) = Resolver!FlagsOf(a) \cup Resolver!FlagsOf(b)
  BY <1>6
<1>8. ASSUME NEW key, NEW v, LastSays(b, key, v) PROVE LastSays(c, key, v)
  <2>1. PICK n \in Sets(b, key) : v = Resolver!ValueAt(b, n) /\ \A m \in Sets(b, key) : m <= n
    BY <1>8, Zenon DEF LastSays
  <2>2. x + n \in Sets(c, key) /\ v = Resolver!ValueAt(c, x + n)
    BY <1>3, <1>5, <2>1
  <2>3. \A m \in Sets(c, key) : m <= x + n
    <3> TAKE m \in Sets(c, key)
    <3>1. n \in 1..y
      BY <1>5
    <3>2. CASE m \in 1..x
      BY <3>1, <3>2
    <3>3. ASSUME NEW k \in 1..y, m = x + k PROVE m <= x + n
      <4>1. k <= n
        BY <1>5, <2>1, <3>3
      <4> QED BY <3>1, <3>3, <4>1
    <3> QED BY <1>2, <1>5, <3>2, <3>3
  <2> QED BY <2>2, <2>3, Zenon DEF LastSays
<1>9. ASSUME NEW key, NEW v, key \notin Resolver!FlagsOf(b), LastSays(a, key, v) PROVE LastSays(c, key, v)
  <2>1. PICK n \in Sets(a, key) : v = Resolver!ValueAt(a, n) /\ \A m \in Sets(a, key) : m <= n
    BY <1>9, Zenon DEF LastSays
  <2>2. n \in 1..x /\ a[n][1] = "flag"
    BY <1>1, <2>1 DEF Sets
  <2>3. n \in Sets(c, key) /\ v = Resolver!ValueAt(c, n)
    BY <1>3, <1>5, <2>1, <2>2
  <2>4. \A m \in Sets(c, key) : m <= n
    <3> TAKE m \in Sets(c, key)
    <3>1. Sets(b, key) = {}
      BY <1>9, FlagsAre
    <3>2. m \in 1..x
      BY <1>2, <1>5, <3>1
    <3> QED BY <1>5, <2>1, <3>2
  <2> QED BY <2>3, <2>4, Zenon DEF LastSays
<1> QED BY <1>4, <1>7, <1>8, <1>9

(* Part of a sequence of tokens: p names the place each was at.                *)
TakenFrom(e, t, where, p) ==
  /\ e \in TokenSeq
  /\ \A i \in DOMAIN e : p[i] \in where /\ e[i] = t[p[i]]
  /\ \A n \in where : \E i \in DOMAIN e : p[i] = n
  /\ \A i, j \in DOMAIN e : i < j => p[i] < p[j]

LEMMA NthAgrees == \A S, n : Resolver!Nth(S, n) = Fitting!Nth(S, n)
<1>1. \A S : Resolver!Cardinality(S) = Fitting!Cardinality(S)
  BY DEF Resolver!Cardinality, Fitting!Cardinality
<1> QED BY <1>1, Zenon DEF Resolver!Nth, Fitting!Nth

LEMMA KeepIs ==
  ASSUME NEW t \in TokenSeq, NEW where \in SUBSET DOMAIN t
  PROVE  \E p : TakenFrom(Resolver!Keep(t, where), t, where, p)
<1>1. where \in SUBSET (1..Len(t)) /\ Len(t) \in Nat
  BY TokensAre
<1>2. where \in SUBSET Nat /\ IsFiniteSet(where)
  <2>1. PICK last \in Nat : last = Len(t)
    BY <1>1
  <2>2. IsFiniteSet(1..last)
    BY FS_Interval
  <2> QED BY <1>1, <2>1, <2>2, FS_Subset
<1>3. PICK size \in Nat : size = Cardinality(where)
  BY <1>2, FS_CardinalityType
<1>4. PICK p : p = [n \in 1..size |-> Resolver!Nth(where, n)]
  OBVIOUS
<1>5. \A n \in 1..size : p[n] = Fitting!Nth(where, n)
  BY <1>4, NthAgrees
<1>6. ASSUME NEW n \in 1..size PROVE p[n] \in where /\ Cardinality(PlacesUpto(where, p[n])) = n
  BY <1>2, <1>3, <1>5, NthIs
<1>7. \A n \in where : \E i \in 1..size : p[i] = n
  <2> TAKE n \in where
  <2>1. PICK i \in 1..size : i = Cardinality(PlacesUpto(where, n))
    BY <1>2, <1>3, PlaceIs
  <2>2. p[i] \in where /\ Cardinality(PlacesUpto(where, p[i])) = i
    BY <1>6
  <2>3. p[i] = n
    BY <1>2, <2>1, <2>2, PlaceIs
  <2> QED BY <2>3
<1>8. ASSUME NEW i \in 1..size, NEW j \in 1..size, i < j PROVE p[i] < p[j]
  <2>1. PICK x \in where, y \in where : x = p[i] /\ y = p[j]
    BY <1>6
  <2>2. Cardinality(PlacesUpto(where, x)) = i /\ Cardinality(PlacesUpto(where, y)) = j
    BY <1>6, <2>1
  <2>3. ASSUME y <= x PROVE FALSE
    <3>1. PlacesUpto(where, y) \in SUBSET PlacesUpto(where, x)
      BY <1>2, <2>1, <2>3 DEF PlacesUpto
    <3>2. IsFiniteSet(PlacesUpto(where, x))
      BY <1>2, FS_Subset DEF PlacesUpto
    <3>3. j <= i
      BY <2>2, <3>1, <3>2, FS_Subset
    <3> QED BY <1>8, <3>3
  <2>4. x \in Nat /\ y \in Nat
    BY <1>2
  <2> QED BY <2>1, <2>3, <2>4
<1>9. PICK e : e = Resolver!Keep(t, where)
  OBVIOUS
<1>10. e = [n \in 1..size |-> t[p[n]]]
  <2>1. Resolver!Cardinality(where) = size
    BY <1>3 DEF Resolver!Cardinality, Cardinality
  <2>2. e = [n \in 1..size |-> t[Resolver!Nth(where, n)]]
    BY <1>9, <2>1, Zenon DEF Resolver!Keep
  <2> QED BY <1>4, <2>2
<1>11. e \in TokenSeq /\ DOMAIN e = 1..size
  <2>1. \A n \in 1..size : t[p[n]] \in Resolver!Tokens
    BY <1>1, <1>6, ElementOfSeq DEF TokenSeq
  <2>2. e \in [1..size -> Resolver!Tokens]
    BY <1>10, <2>1
  <2> QED BY <1>10, <2>2, IsASeq DEF TokenSeq
<1>12. \A i \in 1..size : p[i] \in where /\ e[i] = t[p[i]]
  BY <1>6, <1>10
<1> QED BY <1>7, <1>8, <1>9, <1>11, <1>12, Zenon DEF TakenFrom

(* Places that hold a flag together with its value.                            *)
Closed(t, where) ==
  \A n \in DOMAIN t : Resolver!IsValue(t, n) => (n \in where <=> n - 1 \in where)

Adjacent(e, where, p) ==
  \A i \in DOMAIN e : p[i] + 1 \in where => i + 1 \in DOMAIN e /\ p[i + 1] = p[i] + 1

LEMMA PicksAdjacent ==
  ASSUME NEW t \in TokenSeq, NEW where \in SUBSET DOMAIN t, NEW e, NEW p, TakenFrom(e, t, where, p)
  PROVE  Adjacent(e, where, p)
<1> SUFFICES ASSUME NEW i \in DOMAIN e, p[i] + 1 \in where
             PROVE  i + 1 \in DOMAIN e /\ p[i + 1] = p[i] + 1
  BY DEF Adjacent
<1>1. PICK size \in Nat : size = Len(e) /\ DOMAIN e = 1..size
  BY TokensAre DEF TakenFrom
<1>2. PICK j \in 1..size : p[j] = p[i] + 1
  BY <1>1 DEF TakenFrom
<1>3. \A k \in 1..size : p[k] \in Nat
  BY <1>1, TokensAre DEF TakenFrom
<1>4. \A k, l \in 1..size : k < l => p[k] < p[l]
  BY <1>1 DEF TakenFrom
<1>5. i < j
  <2>1. ~(j < i) /\ j # i
    BY <1>1, <1>2, <1>3, <1>4
  <2> QED BY <1>1, <2>1
<1>6. i + 1 \in 1..size
  BY <1>1, <1>5
<1>7. p[i] < p[i + 1]
  BY <1>1, <1>4, <1>6
<1>8. ~(i + 1 < j)
  BY <1>1, <1>2, <1>3, <1>4, <1>6, <1>7
<1> QED BY <1>1, <1>2, <1>5, <1>6, <1>8

LEMMA PicksKeep ==
  ASSUME NEW t \in TokenSeq, NEW where \in SUBSET DOMAIN t, NEW e, NEW p, TakenFrom(e, t, where, p),
         Resolver!SingleValued(t), Closed(t, where)
  PROVE  /\ Resolver!SingleValued(e)
         /\ \A i \in DOMAIN e : Resolver!ValueAt(e, i) = Resolver!ValueAt(t, p[i])
<1>1. PICK size \in Nat : size = Len(e) /\ DOMAIN e = 1..size
  BY TokensAre DEF TakenFrom
<1>2. PICK last \in Nat : last = Len(t) /\ DOMAIN t = 1..last
  BY TokensAre
<1>3. \A i \in 1..size : p[i] \in where /\ p[i] \in 1..last /\ e[i] = t[p[i]]
  BY <1>1, <1>2 DEF TakenFrom
<1>next. \A i \in 1..size : p[i] + 1 \in where => i + 1 \in 1..size /\ p[i + 1] = p[i] + 1
  <2>1. Adjacent(e, where, p)
    BY PicksAdjacent
  <2> QED BY <1>1, <2>1 DEF Adjacent
<1>4. ASSUME NEW i \in 1..size, e[i][1] = "word"
      PROVE  i - 1 \in 1..size /\ p[i] = p[i - 1] + 1 /\ Resolver!IsValue(e, i)
  <2>1. Resolver!IsValue(t, p[i])
    BY <1>2, <1>3, <1>4 DEF Resolver!SingleValued
  <2>2. p[i] - 1 \in where /\ p[i] \in 2..last
    BY <1>2, <1>3, <2>1 DEF Closed, Resolver!IsValue
  <2>3. PICK j \in 1..size : p[j] = p[i] - 1
    BY <1>1, <2>2 DEF TakenFrom
  <2>4. p[j] + 1 = p[i] /\ p[j] + 1 \in where
    BY <1>3, <2>2, <2>3
  <2>5. j + 1 \in 1..size /\ p[j + 1] = p[i]
    BY <1>next, <2>4
  <2>6. j + 1 = i
    <3>1. \A k, l \in 1..size : k < l => p[k] < p[l]
      BY <1>1 DEF TakenFrom
    <3>2. ~(j + 1 < i) /\ ~(i < j + 1)
      BY <1>3, <2>5, <3>1
    <3> QED BY <2>5, <3>2
  <2>7. i - 1 = j /\ i \in 2..size
    BY <2>3, <2>6
  <2>8. e[j] = t[p[i] - 1] /\ e[i] = t[p[i]]
    BY <1>3, <2>3
  <2>9. Resolver!IsValue(e, i)
    BY <1>1, <2>1, <2>7, <2>8 DEF Resolver!IsValue
  <2> QED BY <2>4, <2>7, <2>9
<1>5. Resolver!SingleValued(e)
  BY <1>1, <1>4 DEF Resolver!SingleValued
<1>6. ASSUME NEW i \in 1..size PROVE Resolver!ValueAt(e, i) = Resolver!ValueAt(t, p[i])
  <2>1. CASE Resolver!IsValue(t, p[i] + 1)
    <3>1. p[i] + 1 \in 2..last /\ (p[i] + 1) - 1 = p[i]
      BY <1>2, <1>3, <2>1 DEF Resolver!IsValue
    <3>2. p[i] + 1 \in where
      BY <1>2, <1>3, <2>1, <3>1 DEF Closed
    <3>3. i + 1 \in 1..size /\ p[i + 1] = p[i] + 1
      BY <1>next, <3>2
    <3>4. e[i + 1] = t[p[i] + 1]
      BY <1>3, <3>3
    <3>5. e[i + 1][1] = "word"
      BY <2>1, <3>4 DEF Resolver!IsValue
    <3>6. Resolver!IsValue(e, i + 1)
      BY <1>4, <3>3, <3>5
    <3> QED BY <2>1, <3>4, <3>6 DEF Resolver!ValueAt
  <2>2. CASE ~Resolver!IsValue(t, p[i] + 1)
    <3>1. ASSUME Resolver!IsValue(e, i + 1) PROVE FALSE
      <4>1. i + 1 \in 1..size /\ e[i + 1][1] = "word" /\ (i + 1) - 1 = i
        BY <1>1, <3>1 DEF Resolver!IsValue
      <4>2. p[i + 1] = p[i] + 1
        BY <1>4, <4>1
      <4>3. Resolver!IsValue(t, p[i + 1])
        BY <1>2, <1>3, <4>1 DEF Resolver!SingleValued
      <4> QED BY <2>2, <4>2, <4>3
    <3> QED BY <1>3, <2>2, <3>1 DEF Resolver!ValueAt
  <2> QED BY <2>1, <2>2
<1> QED BY <1>1, <1>5, <1>6

LEMMA PicksSay ==
  ASSUME NEW t \in TokenSeq, NEW where \in SUBSET DOMAIN t, NEW e, NEW p, TakenFrom(e, t, where, p),
         Resolver!SingleValued(t), Closed(t, where), NEW key
  PROVE  /\ key \in Resolver!FlagsOf(e) <=> Sets(t, key) \cap where # {}
         /\ \A v : /\ LastSays(t, key, v)
                   /\ \A n \in Sets(t, key) : (\A m \in Sets(t, key) : m <= n) => n \in where
                   => LastSays(e, key, v)
<1>1. PICK size \in Nat : size = Len(e) /\ DOMAIN e = 1..size
  BY TokensAre DEF TakenFrom
<1>2. PICK last \in Nat : last = Len(t) /\ DOMAIN t = 1..last
  BY TokensAre
<1>3. /\ \A i \in 1..size : p[i] \in where /\ p[i] \in 1..last /\ e[i] = t[p[i]]
      /\ \A n \in where : \E i \in 1..size : p[i] = n
      /\ \A i, j \in 1..size : i < j => p[i] < p[j]
  BY <1>1, <1>2 DEF TakenFrom
<1>4. \A i \in 1..size : i \in Sets(e, key) <=> p[i] \in Sets(t, key)
  BY <1>1, <1>2, <1>3 DEF Sets
<1>5. Sets(e, key) \subseteq 1..size /\ Sets(t, key) \subseteq 1..last
  BY <1>1, <1>2 DEF Sets
<1>6. Sets(e, key) # {} <=> Sets(t, key) \cap where # {}
  <2>1. ASSUME NEW i \in Sets(e, key) PROVE Sets(t, key) \cap where # {}
    BY <1>3, <1>4, <1>5
  <2>2. ASSUME NEW n \in Sets(t, key) \cap where PROVE Sets(e, key) # {}
    BY <1>3, <1>4
  <2> QED BY <2>1, <2>2
<1>7. ASSUME NEW v, LastSays(t, key, v),
             \A n \in Sets(t, key) : (\A m \in Sets(t, key) : m <= n) => n \in where
      PROVE  LastSays(e, key, v)
  <2>1. PICK n \in Sets(t, key) : v = Resolver!ValueAt(t, n) /\ \A m \in Sets(t, key) : m <= n
    BY <1>7, Zenon DEF LastSays
  <2>2. PICK i \in 1..size : p[i] = n
    BY <1>3, <1>7, <2>1
  <2>3. i \in Sets(e, key) /\ v = Resolver!ValueAt(e, i)
    <3>1. Resolver!ValueAt(e, i) = Resolver!ValueAt(t, p[i])
      BY <1>1, PicksKeep
    <3> QED BY <1>4, <2>1, <2>2, <3>1
  <2>4. \A j \in Sets(e, key) : j <= i
    <3> TAKE j \in Sets(e, key)
    <3>1. j \in 1..size /\ p[j] \in Sets(t, key)
      BY <1>4, <1>5
    <3>2. p[j] <= p[i]
      BY <2>1, <2>2, <3>1
    <3>3. ~(i < j)
      BY <1>3, <3>1, <3>2
    <3> QED BY <3>1, <3>3
  <2> QED BY <2>3, <2>4, Zenon DEF LastSays
<1> QED BY <1>6, <1>7, FlagsAre

(* What is left of a sequence of tokens without the flags of some keys.        *)
Cleared(t, keys, e) ==
  /\ e \in TokenSeq /\ Resolver!SingleValued(e)
  /\ \A key : key \in Resolver!FlagsOf(e) <=> key \in Resolver!FlagsOf(t) /\ key \notin keys
  /\ \A key, v : key \notin keys /\ LastSays(t, key, v) => LastSays(e, key, v)

Gone(t, keys, n) == t[n][1] = "flag" /\ t[n][2] \in keys
Staying(t, keys) ==
  {n \in DOMAIN t : ~Gone(t, keys, n) /\ ~(Resolver!IsValue(t, n) /\ Gone(t, keys, n - 1))}

LEMMA WithoutKeeps == \A t, keys : Resolver!Without(t, keys) = Resolver!Keep(t, Staying(t, keys))
BY Zenon DEF Resolver!Without, Staying, Gone

LEMMA WithoutType ==
  ASSUME NEW t \in TokenSeq, NEW keys
  PROVE  Resolver!Without(t, keys) \in TokenSeq
<1>1. Staying(t, keys) \in SUBSET DOMAIN t
  BY DEF Staying
<1>2. PICK p : TakenFrom(Resolver!Keep(t, Staying(t, keys)), t, Staying(t, keys), p)
  BY <1>1, KeepIs
<1> QED BY <1>2, WithoutKeeps DEF TakenFrom

LEMMA StayingIsClosed ==
  ASSUME NEW t \in TokenSeq, NEW keys
  PROVE  Closed(t, Staying(t, keys))
<1> SUFFICES ASSUME NEW n \in DOMAIN t, Resolver!IsValue(t, n)
             PROVE  n \in Staying(t, keys) <=> n - 1 \in Staying(t, keys)
  BY DEF Closed
<1>1. PICK last \in Nat : last = Len(t) /\ DOMAIN t = 1..last
  BY TokensAre
<1>2. PICK m \in 1..last : m = n - 1 /\ n \in 2..last /\ t[n][1] = "word" /\ t[m][1] = "flag"
  BY <1>1 DEF Resolver!IsValue
<1>3. ~Gone(t, keys, n) /\ ~Resolver!IsValue(t, m)
  BY <1>2 DEF Gone, Resolver!IsValue
<1>4. n \in Staying(t, keys) <=> ~Gone(t, keys, m)
  BY <1>2, <1>3 DEF Staying
<1>5. m \in Staying(t, keys) <=> ~Gone(t, keys, m)
  BY <1>1, <1>2, <1>3 DEF Staying
<1> QED BY <1>2, <1>4, <1>5

LEMMA WithoutClears ==
  ASSUME NEW t \in TokenSeq, NEW keys, Resolver!SingleValued(t)
  PROVE  Cleared(t, keys, Resolver!Without(t, keys))
<1> DEFINE stay == Staying(t, keys)
<1>1. stay \in SUBSET DOMAIN t /\ Closed(t, stay)
  BY StayingIsClosed DEF Staying
<1>2. \A key : key \in keys => Sets(t, key) \cap stay = {}
  BY DEF Sets, Staying, Gone
<1>3. \A key : key \notin keys => Sets(t, key) \subseteq stay
  BY DEF Sets, Staying, Gone, Resolver!IsValue
<1> HIDE DEF stay
<1>4. PICK e : e = Resolver!Without(t, keys)
  OBVIOUS
<1>5. PICK p : TakenFrom(e, t, stay, p)
  <2>1. e = Resolver!Keep(t, stay)
    BY <1>4, WithoutKeeps DEF stay
  <2> QED BY <1>1, <2>1, KeepIs
<1>6. e \in TokenSeq /\ Resolver!SingleValued(e)
  BY <1>1, <1>5, PicksKeep DEF TakenFrom
<1>7. ASSUME NEW key
      PROVE  key \in Resolver!FlagsOf(e) <=> key \in Resolver!FlagsOf(t) /\ key \notin keys
  <2>1. key \in Resolver!FlagsOf(e) <=> Sets(t, key) \cap stay # {}
    BY <1>1, <1>5, PicksSay
  <2> QED BY <1>2, <1>3, <2>1, FlagsAre
<1>8. ASSUME NEW key, NEW v, key \notin keys, LastSays(t, key, v) PROVE LastSays(e, key, v)
  <2>1. \A n \in Sets(t, key) : n \in stay
    BY <1>3, <1>8
  <2>2. /\ LastSays(t, key, v)
        /\ \A n \in Sets(t, key) : (\A m \in Sets(t, key) : m <= n) => n \in stay
    BY <1>8, <2>1
  <2> QED BY <1>1, <1>5, <2>2, PicksSay
<1> QED BY <1>4, <1>6, <1>7, <1>8 DEF Cleared

(* A sequence of tokens, split.                                                *)
IsFirst(t, n) ==
  t[n][1] = "flag" /\ \A k \in 1..(n - 1) : t[k][1] = "flag" => t[k][2] # t[n][2]
Rest(t) == {n \in DOMAIN t : ~IsFirst(t, n) /\ ~(Resolver!IsValue(t, n) /\ IsFirst(t, n - 1))}
HeadOf(t, key) == CHOOSE n \in {m \in DOMAIN t : IsFirst(t, m)} : t[n][2] = key

LEMMA ParsedIs ==
  ASSUME NEW t
  PROVE  /\ Resolver!Parsed(t).extra = Resolver!Keep(t, Rest(t))
         /\ DOMAIN Resolver!Parsed(t).args = Resolver!FlagsOf(t)
         /\ \A k \in Resolver!FlagsOf(t) : Resolver!Parsed(t).args[k] = Resolver!ValueAt(t, HeadOf(t, k))
BY DEF Resolver!Parsed, Rest, IsFirst, HeadOf

LEMMA FirstOf ==
  ASSUME NEW t \in TokenSeq, NEW key \in Resolver!FlagsOf(t)
  PROVE  \E h \in Sets(t, key) :
           /\ \A n \in Sets(t, key) : h <= n
           /\ \A n \in Sets(t, key) : IsFirst(t, n) <=> n = h
           /\ \A n \in DOMAIN t : IsFirst(t, n) /\ t[n][2] = key => n = h
<1>1. PICK last \in Nat : last = Len(t) /\ DOMAIN t = 1..last
  BY TokensAre
<1>2. Sets(t, key) # {} /\ Sets(t, key) \in SUBSET Nat /\ Sets(t, key) \subseteq 1..last
  BY <1>1, FlagsAre DEF Sets
<1>3. PICK h \in Sets(t, key) : \A n \in Sets(t, key) : h <= n
  BY <1>2, LeastNumber
<1>4. IsFirst(t, h)
  <2>1. t[h][1] = "flag" /\ t[h][2] = key /\ h \in 1..last
    BY <1>1 DEF Sets
  <2>2. ASSUME NEW k \in 1..(h - 1), t[k][1] = "flag", t[k][2] = key PROVE FALSE
    <3>1. k \in 1..last /\ ~(h <= k)
      BY <1>1, <2>1
    <3>2. k \in Sets(t, key)
      BY <1>1, <2>2, <3>1 DEF Sets
    <3> QED BY <1>3, <3>1, <3>2
  <2> QED BY <2>1, <2>2 DEF IsFirst
<1>5. ASSUME NEW n \in DOMAIN t, IsFirst(t, n), t[n][2] = key PROVE n = h
  <2>1. n \in Sets(t, key)
    BY <1>5 DEF Sets, IsFirst
  <2>2. h <= n /\ n \in Nat /\ h \in Nat /\ h >= 1
    BY <1>2, <1>3, <2>1
  <2>3. CASE h < n
    <3>1. h \in 1..(n - 1)
      BY <2>2, <2>3
    <3>2. t[h][1] = "flag" /\ t[h][2] = t[n][2]
      BY <1>5 DEF Sets
    <3> QED BY <1>5, <3>1, <3>2 DEF IsFirst
  <2> QED BY <2>2, <2>3
<1>6. \A n \in Sets(t, key) : n \in DOMAIN t /\ t[n][2] = key
  BY DEF Sets
<1> QED BY <1>3, <1>4, <1>5, <1>6

LEMMA RestIsClosed ==
  ASSUME NEW t \in TokenSeq
  PROVE  Closed(t, Rest(t))
<1> SUFFICES ASSUME NEW n \in DOMAIN t, Resolver!IsValue(t, n)
             PROVE  n \in Rest(t) <=> n - 1 \in Rest(t)
  BY DEF Closed
<1>1. PICK last \in Nat : last = Len(t) /\ DOMAIN t = 1..last
  BY TokensAre
<1>2. PICK m \in 1..last : m = n - 1 /\ n \in 2..last /\ t[n][1] = "word" /\ t[m][1] = "flag"
  BY <1>1 DEF Resolver!IsValue
<1>3. ~IsFirst(t, n) /\ ~Resolver!IsValue(t, m)
  BY <1>2 DEF IsFirst, Resolver!IsValue
<1>4. n \in Rest(t) <=> ~IsFirst(t, m)
  BY <1>2, <1>3 DEF Rest
<1>5. m \in Rest(t) <=> ~IsFirst(t, m)
  BY <1>1, <1>2, <1>3 DEF Rest
<1> QED BY <1>2, <1>4, <1>5

(* What is split has the flags of the sequence in its map, and a flag in its   *)
(* list only if it has it in the map.                                          *)
LEMMA ParsedFlags ==
  ASSUME NEW t \in TokenSeq
  PROVE  /\ Resolver!Parsed(t).extra \in TokenSeq
         /\ DOMAIN Resolver!Parsed(t).args = Resolver!FlagsOf(t)
         /\ Resolver!FlagsOf(Resolver!Parsed(t).extra) \subseteq Resolver!FlagsOf(t)
<1>1. Rest(t) \in SUBSET DOMAIN t
  BY DEF Rest
<1>2. PICK e : e = Resolver!Parsed(t).extra
  OBVIOUS
<1>3. PICK p : TakenFrom(e, t, Rest(t), p)
  <2>1. e = Resolver!Keep(t, Rest(t))
    BY <1>2, ParsedIs
  <2> QED BY <1>1, <2>1, KeepIs
<1>4. ASSUME NEW key \in Resolver!FlagsOf(e) PROVE key \in Resolver!FlagsOf(t)
  <2>1. PICK i \in DOMAIN e : e[i][1] = "flag" /\ e[i][2] = key
    BY FlagsAre DEF Sets
  <2>2. p[i] \in DOMAIN t /\ e[i] = t[p[i]]
    BY <1>1, <1>3 DEF TakenFrom
  <2>3. p[i] \in Sets(t, key)
    BY <2>1, <2>2 DEF Sets
  <2> QED BY <2>3, FlagsAre
<1>5. e \in TokenSeq
  BY <1>3 DEF TakenFrom
<1>6. DOMAIN Resolver!Parsed(t).args = Resolver!FlagsOf(t)
  BY ParsedIs
<1> QED BY <1>2, <1>4, <1>5, <1>6

(* Where every word is a value, the last one of a key is in the list if that   *)
(* has the key, and in the map if it has not.                                  *)
Split(t, args, extra) ==
  /\ extra \in TokenSeq /\ Resolver!SingleValued(extra)
  /\ DOMAIN args = Resolver!FlagsOf(t) /\ Resolver!FlagsOf(extra) \subseteq Resolver!FlagsOf(t)
  /\ \A key, v : LastSays(t, key, v) /\ key \in Resolver!FlagsOf(extra) => LastSays(extra, key, v)
  /\ \A key, v : LastSays(t, key, v) /\ key \notin Resolver!FlagsOf(extra) => args[key] = v

LEMMA ParsedSplits ==
  ASSUME NEW t \in TokenSeq, Resolver!SingleValued(t)
  PROVE  Split(t, Resolver!Parsed(t).args, Resolver!Parsed(t).extra)
<1>1. Rest(t) \in SUBSET DOMAIN t /\ Closed(t, Rest(t))
  BY RestIsClosed DEF Rest
<1>2. PICK e, args : e = Resolver!Parsed(t).extra /\ args = Resolver!Parsed(t).args
  OBVIOUS
<1>3. PICK p : TakenFrom(e, t, Rest(t), p)
  <2>1. e = Resolver!Keep(t, Rest(t))
    BY <1>2, ParsedIs
  <2> QED BY <1>1, <2>1, KeepIs
<1>4. e \in TokenSeq /\ Resolver!SingleValued(e)
  BY <1>1, <1>3, PicksKeep DEF TakenFrom
<1>5. DOMAIN args = Resolver!FlagsOf(t) /\ Resolver!FlagsOf(e) \subseteq Resolver!FlagsOf(t)
  BY <1>2, ParsedFlags
<1>6. ASSUME NEW key, NEW v, LastSays(t, key, v)
      PROVE  /\ key \in Resolver!FlagsOf(e) => LastSays(e, key, v)
             /\ key \notin Resolver!FlagsOf(e) => args[key] = v
  <2>1. PICK l \in Sets(t, key) : v = Resolver!ValueAt(t, l) /\ \A m \in Sets(t, key) : m <= l
    BY <1>6, Zenon DEF LastSays
  <2>2. key \in Resolver!FlagsOf(t)
    BY <2>1, FlagsAre
  <2>3. PICK h \in Sets(t, key) :
           /\ \A n \in Sets(t, key) : h <= n
           /\ \A n \in Sets(t, key) : IsFirst(t, n) <=> n = h
           /\ \A n \in DOMAIN t : IsFirst(t, n) /\ t[n][2] = key => n = h
    BY <2>2, FirstOf
  <2>4. \A n \in Sets(t, key) : n \in Rest(t) <=> n # h
    <3>1. \A n \in Sets(t, key) : n \in DOMAIN t /\ ~Resolver!IsValue(t, n)
      BY DEF Sets, Resolver!IsValue
    <3> QED BY <2>3, <3>1 DEF Rest
  <2>5. \A n \in Sets(t, key) : n \in Nat
    BY TokensAre DEF Sets
  <2>6. key \in Resolver!FlagsOf(e) <=> Sets(t, key) \cap Rest(t) # {}
    BY <1>1, <1>3, PicksSay
  <2>7. ASSUME key \in Resolver!FlagsOf(e) PROVE LastSays(e, key, v)
    <3>1. PICK other \in Sets(t, key) : other # h
      BY <2>4, <2>6, <2>7
    <3>2. l # h
      BY <2>1, <2>3, <2>5, <3>1
    <3>3. \A n \in Sets(t, key) : (\A m \in Sets(t, key) : m <= n) => n = l
      BY <2>1, <2>5
    <3>4. /\ LastSays(t, key, v)
          /\ \A n \in Sets(t, key) : (\A m \in Sets(t, key) : m <= n) => n \in Rest(t)
      BY <1>6, <2>4, <3>2, <3>3
    <3> QED BY <1>1, <1>3, <3>4, PicksSay
  <2>8. ASSUME key \notin Resolver!FlagsOf(e) PROVE args[key] = v
    <3>1. l = h
      BY <2>4, <2>6, <2>8
    <3>2. args[key] = Resolver!ValueAt(t, HeadOf(t, key))
      BY <1>2, <2>2, ParsedIs
    <3> DEFINE heads == {m \in DOMAIN t : IsFirst(t, m)}
    <3>3. h \in heads /\ t[h][2] = key /\ \A n \in heads : t[n][2] = key => n = h
      BY <2>3 DEF Sets
    <3>4. HeadOf(t, key) = CHOOSE n \in heads : t[n][2] = key
      BY DEF HeadOf
    <3> HIDE DEF heads
    <3>5. (CHOOSE n \in heads : t[n][2] = key) = h
      BY <3>3
    <3> QED BY <2>1, <3>1, <3>2, <3>4, <3>5
  <2> QED BY <2>7, <2>8
<1> QED BY <1>2, <1>4, <1>5, <1>6, Zenon DEF Split

(* Sequences of tokens in a row: the last of them that sets a flag sets it.    *)
Covers(s, m, e) ==
  /\ Resolver!SingleValued(e)
  /\ \A key : key \in Resolver!FlagsOf(e) <=> \E n \in 1..m : key \in Resolver!FlagsOf(s[n])
  /\ \A key, v : \A n \in 1..m :
       /\ LastSays(s[n], key, v)
       /\ \A k \in (n + 1)..m : key \notin Resolver!FlagsOf(s[k])
       => LastSays(e, key, v)
Spreads(s, m, e) ==
  /\ e \in TokenSeq
  /\ (\A n \in 1..m : Resolver!SingleValued(s[n])) => Covers(s, m, e)

LEMMA SpreadsFirst ==
  ASSUME NEW s, s[1] \in TokenSeq
  PROVE  Spreads(s, 1, s[1])
<1>1. 1..1 = {1}
  OBVIOUS
<1> QED BY <1>1 DEF Spreads, Covers

LEMMA SpreadsNext ==
  ASSUME NEW s, NEW m \in Nat, m > 1, s[m] \in TokenSeq, NEW e, Spreads(s, m - 1, e)
  PROVE  Spreads(s, m, e \o s[m])
<1>1. PICK b, c : b = s[m] /\ c = e \o b
  OBVIOUS
<1>2. e \in TokenSeq /\ b \in TokenSeq
  BY <1>1 DEF Spreads
<1>3. Joined(e, b, c)
  BY <1>1, <1>2, JoinIs
<1>4. c \in TokenSeq
  BY <1>3 DEF Joined
<1>5. ASSUME \A n \in 1..m : Resolver!SingleValued(s[n]) PROVE Covers(s, m, c)
  <2>1. \A n \in 1..m : n = m \/ n \in 1..(m - 1)
    OBVIOUS
  <2>2. m \in 1..m /\ \A n \in 1..(m - 1) : n \in 1..m
    OBVIOUS
  <2>3. Covers(s, m - 1, e) /\ Resolver!SingleValued(e) /\ Resolver!SingleValued(b)
    <3>1. \A n \in 1..(m - 1) : Resolver!SingleValued(s[n])
      BY <1>5, <2>2
    <3>2. Covers(s, m - 1, e)
      BY <3>1 DEF Spreads
    <3> QED BY <1>1, <1>5, <2>2, <3>2 DEF Covers
  <2>4. /\ Resolver!SingleValued(c)
        /\ Resolver!FlagsOf(c) = Resolver!FlagsOf(e) \cup Resolver!FlagsOf(b)
        /\ \A key, v : LastSays(b, key, v) => LastSays(c, key, v)
        /\ \A key, v : key \notin Resolver!FlagsOf(b) /\ LastSays(e, key, v) => LastSays(c, key, v)
    BY <1>2, <1>3, <2>3, JoinSays
  <2>5. ASSUME NEW key
        PROVE  key \in Resolver!FlagsOf(c) <=> \E n \in 1..m : key \in Resolver!FlagsOf(s[n])
    <3>1. key \in Resolver!FlagsOf(e) <=> \E n \in 1..(m - 1) : key \in Resolver!FlagsOf(s[n])
      BY <2>3 DEF Covers
    <3>2. key \in Resolver!FlagsOf(c) <=> key \in Resolver!FlagsOf(e) \/ key \in Resolver!FlagsOf(s[m])
      BY <1>1, <2>4
    <3> QED BY <2>1, <2>2, <3>1, <3>2, Zenon
  <2>6. ASSUME NEW key, NEW v, NEW n \in 1..m, LastSays(s[n], key, v),
               \A k \in (n + 1)..m : key \notin Resolver!FlagsOf(s[k])
        PROVE  LastSays(c, key, v)
    <3>1. CASE n = m
      BY <1>1, <2>4, <2>6, <3>1
    <3>2. CASE n # m
      <4>1. n \in 1..(m - 1) /\ m \in (n + 1)..m /\ \A k \in (n + 1)..(m - 1) : k \in (n + 1)..m
        BY <3>2
      <4>2. \A k \in (n + 1)..(m - 1) : key \notin Resolver!FlagsOf(s[k])
        BY <2>6, <4>1
      <4>3. LastSays(e, key, v)
        BY <2>3, <2>6, <4>1, <4>2 DEF Covers
      <4>4. key \notin Resolver!FlagsOf(b)
        BY <1>1, <2>6, <4>1
      <4> QED BY <2>4, <4>3, <4>4
    <3> QED BY <3>1, <3>2
  <2> QED BY <2>4, <2>5, <2>6 DEF Covers
<1> QED BY <1>1, <1>4, <1>5 DEF Spreads

(* What FlattenSeq makes of a sequence of them.                                *)
Flat(s, m, F) == \A i \in 1..m : F[i] = IF i = 1 THEN s[i] ELSE F[i - 1] \o s[i]

LEMMA FlatExists ==
  ASSUME NEW s, NEW m \in Nat
  PROVE  \E F : Flat(s, m, F)
<1> DEFINE Bad == {n \in Nat : ~\E F : Flat(s, n, F)}
<1>1. ASSUME NEW n \in Nat, NEW G, n = 0 \/ Flat(s, n - 1, G) PROVE \E F : Flat(s, n, F)
  <2>1. PICK F : F = [i \in 1..n |-> IF i # n THEN G[i] ELSE IF n = 1 THEN s[n] ELSE G[n - 1] \o s[n]]
    OBVIOUS
  <2>2. ASSUME NEW i \in 1..n PROVE F[i] = IF i = 1 THEN s[i] ELSE F[i - 1] \o s[i]
    <3>1. CASE i = n
      <4>1. F[i] = IF n = 1 THEN s[n] ELSE G[n - 1] \o s[n]
        BY <2>1, <3>1
      <4>2. n # 1 => F[i - 1] = G[n - 1]
        BY <2>1, <3>1
      <4> QED BY <3>1, <4>1, <4>2
    <3>2. CASE i # n
      <4>1. i \in 1..(n - 1) /\ n # 0
        BY <3>2
      <4>2. G[i] = IF i = 1 THEN s[i] ELSE G[i - 1] \o s[i]
        BY <1>1, <4>1 DEF Flat
      <4>3. F[i] = G[i]
        BY <2>1, <3>2
      <4>4. i # 1 => F[i - 1] = G[i - 1]
        BY <2>1, <3>2
      <4> QED BY <4>2, <4>3, <4>4
    <3> QED BY <3>1, <3>2
  <2>3. Flat(s, n, F)
    BY <2>2 DEF Flat
  <2> QED BY <2>3
<1>2. Bad = {}
  <2> SUFFICES ASSUME Bad # {} PROVE FALSE
    OBVIOUS
  <2>1. PICK n \in Bad : \A k \in Bad : n <= k
    BY LeastNumber
  <2>2. CASE n = 0
    BY <1>1, <2>2
  <2>3. CASE n # 0
    <3>1. n - 1 \in Nat /\ ~(n <= n - 1)
      BY <2>3
    <3>2. PICK G : Flat(s, n - 1, G)
      BY <2>1, <3>1
    <3> QED BY <1>1, <3>2
  <2> QED BY <2>2, <2>3
<1> QED BY <1>2

LEMMA FlatSpreads ==
  ASSUME NEW s, NEW m \in Nat, NEW F, Flat(s, m, F), \A i \in 1..m : s[i] \in TokenSeq
  PROVE  \A i \in 1..m : Spreads(s, i, F[i])
<1> DEFINE Bad == {i \in 1..m : ~Spreads(s, i, F[i])}
<1> SUFFICES ASSUME Bad # {} PROVE FALSE
  OBVIOUS
<1>1. PICK i \in Bad : \A k \in Bad : i <= k
  <2>1. Bad \in SUBSET Nat
    OBVIOUS
  <2> HIDE DEF Bad
  <2> QED BY <2>1, LeastNumber
<1>2. CASE i = 1
  <2>1. F[i] = s[1] /\ s[1] \in TokenSeq
    BY <1>2 DEF Flat
  <2> QED BY <1>2, <2>1, SpreadsFirst
<1>3. CASE i # 1
  <2>1. i - 1 \in 1..m /\ ~(i <= i - 1) /\ i \in Nat /\ i > 1
    BY <1>3
  <2>2. PICK e : e = F[i - 1]
    OBVIOUS
  <2>3. Spreads(s, i - 1, e)
    BY <1>1, <2>1, <2>2
  <2>4. F[i] = e \o s[i]
    BY <1>3, <2>2 DEF Flat
  <2>5. Spreads(s, i, e \o s[i])
    BY <2>1, <2>3, SpreadsNext
  <2> QED BY <2>4, <2>5
<1> QED BY <1>2, <1>3

LEMMA FlattenSpreads ==
  ASSUME NEW m \in Nat, NEW s, s = [n \in 1..m |-> s[n]], \A n \in 1..m : s[n] \in TokenSeq
  PROVE  Spreads(s, m, Resolver!FlattenSeq(s))
<1>1. Len(s) = m /\ s \in Seq(TokenSeq)
  <2>1. s \in [1..m -> TokenSeq]
    OBVIOUS
  <2> QED BY <2>1, IsASeq, LenProperties
<1>2. CASE m = 0
  <2>1. Resolver!FlattenSeq(s) = s
    BY <1>1, <1>2 DEF Resolver!FlattenSeq
  <2>2. DOMAIN s = {} /\ s \in TokenSeq
    <3>1. 1..0 = {}
      OBVIOUS
    <3>2. s \in [1..0 -> Resolver!Tokens]
      BY <1>2, <3>1
    <3> QED BY <1>2, <3>1, <3>2, IsASeq DEF TokenSeq
  <2>3. \A n \in 1..m : FALSE
    BY <1>2
  <2>4. Resolver!SingleValued(s) /\ Resolver!FlagsOf(s) = {}
    BY <2>2 DEF Resolver!SingleValued, Resolver!FlagsOf
  <2> QED BY <2>1, <2>2, <2>3, <2>4, Zenon DEF Spreads, Covers
<1>3. CASE m # 0
  <2> DEFINE Is(g) == g = [i \in 1..m |-> IF i = 1 THEN s[i] ELSE g[i - 1] \o s[i]]
             flatten == CHOOSE g : Is(g)
  <2>1. Resolver!FlattenSeq(s) = flatten[m]
    BY <1>1, <1>3 DEF Resolver!FlattenSeq
  <2>2. PICK G : Flat(s, m, G)
    BY FlatExists
  <2>3. PICK F : F = [i \in 1..m |-> G[i]]
    OBVIOUS
  <2>4. ASSUME NEW i \in 1..m PROVE F[i] = IF i = 1 THEN s[i] ELSE F[i - 1] \o s[i]
    <3>1. G[i] = IF i = 1 THEN s[i] ELSE G[i - 1] \o s[i]
      BY <2>2 DEF Flat
    <3>2. F[i] = G[i] /\ (i # 1 => F[i - 1] = G[i - 1])
      BY <2>3
    <3> QED BY <3>1, <3>2
  <2>5. Is(F)
    <3>1. PICK H : H = [i \in 1..m |-> IF i = 1 THEN s[i] ELSE F[i - 1] \o s[i]]
      OBVIOUS
    <3>2. \A i \in 1..m : F[i] = H[i]
      BY <2>4, <3>1
    <3>3. F = H
      BY <2>3, <3>1, <3>2
    <3> QED BY <3>1, <3>3
  <2>6. Is(flatten)
    <3> HIDE DEF Is
    <3> QED BY <2>5
  <2>7. Flat(s, m, flatten)
    <3> HIDE DEF flatten
    <3>1. PICK g : g = flatten
      OBVIOUS
    <3>2. Is(g)
      BY <2>6, <3>1
    <3>3. \A i \in 1..m : g[i] = IF i = 1 THEN s[i] ELSE g[i - 1] \o s[i]
      BY <3>2
    <3> QED BY <3>1, <3>3 DEF Flat
  <2> HIDE DEF flatten
  <2>8. m \in 1..m
    BY <1>3
  <2>9. Spreads(s, m, flatten[m])
    BY <2>7, <2>8, FlatSpreads
  <2> QED BY <2>1, <2>9
<1> QED BY <1>2, <1>3

(* The layers are sequences of tokens.                                         *)
LEMMA RecipeFacts == Resolver!RecipeAssumption
BY ServicesAssumption

LEMMA EmptyIsTokens == << >> \in TokenSeq
BY EmptySeq DEF TokenSeq

LEMMA ArgvType ==
  ASSUME NEW c, Resolver!IsCommand(c)
  PROVE  Resolver!ArgvOf(c) \in TokenSeq
<1>1. c.argv \in TokenSeq
  BY DEF Resolver!IsCommand, TokenSeq
<1> QED BY <1>1, EmptyIsTokens DEF Resolver!ArgvOf

LEMMA AfterType ==
  ASSUME NEW t \in TokenSeq, NEW n \in Nat, n >= 1
  PROVE  /\ SubSeq(t, n, Len(t)) \in TokenSeq
         /\ SubSeq(t, n, Len(t)) # << >> => Tail(SubSeq(t, n, Len(t))) \in TokenSeq
<1>1. PICK last \in Nat : last = Len(t)
  BY TokensAre
<1>2. \A i \in n..last : t[i] \in Resolver!Tokens
  <2> TAKE i \in n..last
  <2>1. i \in 1..Len(t)
    BY <1>1
  <2> QED BY <2>1, ElementOfSeq DEF TokenSeq
<1>3. SubSeq(t, n, last) \in Seq(Resolver!Tokens)
  <2>1. n \in Int /\ last \in Int
    OBVIOUS
  <2> QED BY <1>2, <2>1, SubSeqProperties
<1>4. PICK rest : rest = SubSeq(t, n, last)
  OBVIOUS
<1>5. rest # << >> => Tail(rest) \in Seq(Resolver!Tokens)
  BY <1>3, <1>4, HeadTailProperties
<1> QED BY <1>1, <1>3, <1>4, <1>5 DEF TokenSeq

LEMMA ServedType ==
  ASSUME NEW t \in TokenSeq
  PROVE  Resolver!Served(t) \in TokenSeq
<1>1. \A n \in {2, 3} : /\ SubSeq(t, n, Len(t)) \in TokenSeq
                        /\ SubSeq(t, n, Len(t)) # << >> => Tail(SubSeq(t, n, Len(t))) \in TokenSeq
  <2> TAKE n \in {2, 3}
  <2>1. n \in Nat /\ n >= 1
    OBVIOUS
  <2> QED BY <2>1, AfterType
<1> DEFINE after(n) == LET rest == SubSeq(t, n, Len(t))
                       IN  IF rest # << >> /\ rest[1][1] = "word" THEN Tail(rest) ELSE rest
<1>2. after(2) \in TokenSeq /\ after(3) \in TokenSeq
  BY <1>1
<1>3. Resolver!Served(t) \in {after(2), after(3), t}
  <2>1. Resolver!Served(t) =
          IF Len(t) >= 2 /\ t[1] = Resolver!Word("vllm") /\ t[2] = Resolver!Word("serve") THEN after(3)
          ELSE IF Len(t) >= 1 /\ t[1] = Resolver!Word("serve") THEN after(2) ELSE t
    BY Zenon DEF Resolver!Served
  <2> HIDE DEF after
  <2> QED BY <2>1, Zenon
<1> HIDE DEF after
<1> QED BY <1>2, <1>3, Zenon

LEMMA AtType ==
  ASSUME NEW layers, Resolver!PerHardware(layers), NEW h
  PROVE  Resolver!At(layers, h) \in TokenSeq
BY EmptyIsTokens DEF Resolver!PerHardware, Resolver!At, TokenSeq

LEMMA JoinType ==
  ASSUME NEW a \in TokenSeq, NEW b \in TokenSeq
  PROVE  a \o b \in TokenSeq
BY JoinIs DEF Joined

LEMMA FeatureType ==
  ASSUME recipe \in KnownRecipes, NEW f, NEW h
  PROVE  Resolver!FeatureArgs(f, h) \in TokenSeq
<1>1. CASE f \notin DOMAIN recipe.features
  BY <1>1, EmptyIsTokens DEF Resolver!FeatureArgs
<1>2. CASE f \in DOMAIN recipe.features
  <2>1. recipe.features[f].args \in TokenSeq /\ Resolver!PerHardware(recipe.features[f].on)
    BY <1>2, RecipeFacts DEF Resolver!RecipeAssumption, TokenSeq
  <2>2. PICK a, b : a = recipe.features[f].args /\ b = Resolver!At(recipe.features[f].on, h)
    OBVIOUS
  <2>3. b \in TokenSeq
    BY <2>1, <2>2, AtType
  <2>4. Resolver!FeatureArgs(f, h) = a \o b
    BY <1>2, <2>2 DEF Resolver!FeatureArgs
  <2> QED BY <2>1, <2>2, <2>3, <2>4, JoinType
<1> QED BY <1>1, <1>2

LEMMA RulesType ==
  /\ DOMAIN Resolver!DeepSeekRules = {"tool_calling", "reasoning"}
  /\ \A f \in {"tool_calling", "reasoning"} : Resolver!DeepSeekRules[f] \in TokenSeq
<1> DEFINE said == {"tokenizer-mode", "deepseek_v4", "tool-call-parser", "enable-auto-tool-choice",
                    "reasoning-parser"}
<1>1. \A s \in said : Resolver!Flag(s, Resolver!Bare) \in Resolver!Tokens /\ Resolver!Word(s) \in Resolver!Tokens
  <2> TAKE s \in said
  <2>1. s \in Resolver!Texts /\ Resolver!Bare \in Resolver!Texts
    BY DEF Resolver!Texts
  <2>2. "flag" \in {"flag", "word", "odd"} /\ "word" \in {"flag", "word", "odd"}
    OBVIOUS
  <2>3. <<"flag", s, Resolver!Bare>> \in {"flag", "word", "odd"} \X Resolver!Texts \X Resolver!Texts
    BY <2>1, <2>2
  <2>4. <<"word", s, Resolver!Bare>> \in {"flag", "word", "odd"} \X Resolver!Texts \X Resolver!Texts
    BY <2>1, <2>2
  <2> QED BY <2>3, <2>4, Zenon DEF Resolver!Flag, Resolver!Word, Resolver!Tokens
<1>2. DOMAIN Resolver!DeepSeekRules = {"tool_calling", "reasoning"}
  BY DEF Resolver!DeepSeekRules
<1>3. Resolver!DeepSeekRules["reasoning"] \in TokenSeq
  <2>1. Resolver!DeepSeekRules["reasoning"] =
          <<Resolver!Flag("reasoning-parser", Resolver!Bare), Resolver!Word("deepseek_v4")>>
    BY DEF Resolver!DeepSeekRules
  <2>2. PICK a \in Resolver!Tokens, b \in Resolver!Tokens :
          a = Resolver!Flag("reasoning-parser", Resolver!Bare) /\ b = Resolver!Word("deepseek_v4")
    BY <1>1
  <2> QED BY <2>1, <2>2 DEF TokenSeq
<1>4. Resolver!DeepSeekRules["tool_calling"] \in TokenSeq
  <2>1. Resolver!DeepSeekRules["tool_calling"] =
          <<Resolver!Flag("tokenizer-mode", Resolver!Bare), Resolver!Word("deepseek_v4"),
            Resolver!Flag("tool-call-parser", Resolver!Bare), Resolver!Word("deepseek_v4"),
            Resolver!Flag("enable-auto-tool-choice", Resolver!Bare)>>
    BY DEF Resolver!DeepSeekRules
  <2>2. PICK a \in Resolver!Tokens, b \in Resolver!Tokens, c \in Resolver!Tokens, d \in Resolver!Tokens :
          /\ a = Resolver!Flag("tokenizer-mode", Resolver!Bare) /\ b = Resolver!Word("deepseek_v4")
          /\ c = Resolver!Flag("tool-call-parser", Resolver!Bare)
          /\ d = Resolver!Flag("enable-auto-tool-choice", Resolver!Bare)
    <3>2. /\ Resolver!Flag("tokenizer-mode", Resolver!Bare) \in Resolver!Tokens
          /\ Resolver!Word("deepseek_v4") \in Resolver!Tokens
          /\ Resolver!Flag("tool-call-parser", Resolver!Bare) \in Resolver!Tokens
          /\ Resolver!Flag("enable-auto-tool-choice", Resolver!Bare) \in Resolver!Tokens
      BY <1>1
    <3> QED BY <3>2
  <2>3. <<a, b, c, b, d>> \in Seq(Resolver!Tokens)
    OBVIOUS
  <2> QED BY <2>1, <2>2, <2>3 DEF TokenSeq
<1> QED BY <1>2, <1>3, <1>4

LEMMA FlattenType ==
  ASSUME NEW m \in Nat, NEW s, s = [n \in 1..m |-> s[n]], \A n \in 1..m : s[n] \in TokenSeq
  PROVE  Resolver!FlattenSeq(s) \in TokenSeq
BY FlattenSpreads DEF Spreads

LEMMA DeepSeekType ==
  ASSUME NEW chosen
  PROVE  Resolver!ForDeepSeek(chosen) \in TokenSeq
<1> DEFINE rule(n) == LET f == <<"tool_calling", "reasoning">>[n]
                      IN  IF f \in chosen THEN Resolver!DeepSeekRules[f] ELSE << >>
<1>1. \A n \in 1..2 : <<"tool_calling", "reasoning">>[n] \in {"tool_calling", "reasoning"}
  OBVIOUS
<1>2. \A n \in 1..2 : rule(n) \in TokenSeq
  BY <1>1, RulesType, EmptyIsTokens
<1>3. Resolver!ForDeepSeek(chosen) =
        IF ~recipe.deepSeek THEN << >> ELSE Resolver!FlattenSeq([n \in 1..2 |-> rule(n)])
  BY Zenon DEF Resolver!ForDeepSeek
<1> HIDE DEF rule
<1>4. PICK s : s = [n \in 1..2 |-> rule(n)]
  OBVIOUS
<1>5. s = [n \in 1..2 |-> s[n]] /\ \A n \in 1..2 : s[n] \in TokenSeq
  BY <1>2, <1>4
<1>6. Resolver!FlattenSeq(s) \in TokenSeq
  BY <1>5, FlattenType
<1> QED BY <1>3, <1>4, <1>6, EmptyIsTokens

(* The features that are chosen, in their order.                               *)
LEMMA ChosenAre ==
  ASSUME recipe \in KnownRecipes, request \in Requests, request.features # Undefined, NEW h
  PROVE  \E m \in Nat : /\ DOMAIN request.features = 1..m
                        /\ \A n \in 1..m : Resolver!FeatureArgs(request.features[n], h) \in TokenSeq
<1>1. request.features \in Seq(STRING)
  BY RecipeFacts DEF Resolver!RecipeAssumption
<1>2. PICK m \in Nat : DOMAIN request.features = 1..m
  BY <1>1, LenProperties
<1> QED BY <1>2, FeatureType

LEMMA TokensType ==
  ASSUME recipe \in KnownRecipes, request \in Requests, NEW c, Resolver!IsCommand(c), NEW h
  PROVE  Resolver!TokensOf(c, h) \in TokenSeq
<1>1. PICK a : a = Resolver!Served(Resolver!ArgvOf(c))
  OBVIOUS
<1>2. a \in TokenSeq
  BY <1>1, ArgvType, ServedType
<1>3. PICK o : o = Resolver!At(recipe.overrides, h)
  OBVIOUS
<1>4. o \in TokenSeq
  <2>1. Resolver!PerHardware(recipe.overrides)
    BY RecipeFacts DEF Resolver!RecipeAssumption
  <2> QED BY <1>3, <2>1, AtType
<1>5. Resolver!WithFeatures(a, h) \in TokenSeq
  <2>1. CASE request.features = Undefined
    BY <1>2, <2>1 DEF Resolver!WithFeatures
  <2>2. CASE request.features # Undefined
    <3>1. PICK m \in Nat : /\ DOMAIN request.features = 1..m
                           /\ \A n \in 1..m : Resolver!FeatureArgs(request.features[n], h) \in TokenSeq
      BY <2>2, ChosenAre
    <3>2. PICK s : s = [n \in DOMAIN request.features |-> Resolver!FeatureArgs(request.features[n], h)]
      OBVIOUS
    <3>3. Resolver!FlattenSeq(s) \in TokenSeq
      <4>1. s = [n \in 1..m |-> s[n]] /\ \A n \in 1..m : s[n] \in TokenSeq
        BY <3>1, <3>2
      <4> QED BY <4>1, FlattenType
    <3>4. PICK ds : ds = Resolver!ForDeepSeek({request.features[n] : n \in DOMAIN request.features})
      OBVIOUS
    <3>5. ds \in TokenSeq
      BY <3>4, DeepSeekType
    <3>6. PICK w, x : /\ w = Resolver!Without(a, Resolver!KnownFlags(h))
                      /\ x = Resolver!Without(Resolver!FlattenSeq(s), Resolver!FlagsOf(ds))
      OBVIOUS
    <3>7. w \in TokenSeq /\ x \in TokenSeq
      BY <1>2, <3>3, <3>6, WithoutType
    <3>8. Resolver!WithFeatures(a, h) = w \o (x \o ds)
      BY <2>2, <3>2, <3>4, <3>6 DEF Resolver!WithFeatures, Resolver!Replacing
    <3>9. x \o ds \in TokenSeq
      BY <3>5, <3>7, JoinType
    <3> QED BY <3>7, <3>8, <3>9, JoinType
  <2> QED BY <2>1, <2>2
<1>6. Resolver!TokensOf(c, h) = Resolver!WithFeatures(a, h) \o o
  BY <1>1, <1>3 DEF Resolver!TokensOf
<1> QED BY <1>4, <1>5, <1>6, JoinType

(* The layers, where nothing was said of features and where some were chosen.  *)
LEMMA PlainLayers ==
  ASSUME request.features = Undefined, NEW a \in TokenSeq, NEW o \in TokenSeq,
         a = Resolver!Served(Resolver!ArgvOf(result.from)), o = Resolver!At(recipe.overrides, result.hardware)
  PROVE  /\ Resolver!Layers \in Seq(TokenSeq) /\ Len(Resolver!Layers) = 2
         /\ DOMAIN Resolver!Layers = 1..2 /\ Resolver!Layers[1] = a /\ Resolver!Layers[2] = o
<1>1. Resolver!Layers = (<<a>> \o << >>) \o <<o>>
  BY DEF Resolver!Layers
<1>2. <<a>> \in Seq(TokenSeq) /\ <<o>> \in Seq(TokenSeq)
  OBVIOUS
<1>3. <<a>> \o << >> = <<a>>
  BY <1>2, ConcatEmptySeq
<1>4. PICK A, O, L : A = <<a>> /\ O = <<o>> /\ L = A \o O
  OBVIOUS
<1>5. /\ A \in Seq(TokenSeq) /\ O \in Seq(TokenSeq) /\ Len(A) = 1 /\ Len(O) = 1
      /\ A[1] = a /\ O[1] = o
  BY <1>2, <1>4
<1>6. /\ L \in Seq(TokenSeq) /\ Len(L) = Len(A) + Len(O)
      /\ \A i \in 1..Len(A) + Len(O) : L[i] = IF i <= Len(A) THEN A[i] ELSE O[i - Len(A)]
  BY <1>4, <1>5, ConcatProperties
<1>7. Len(L) = 2 /\ L[1] = a /\ L[2] = o
  <2>1. Len(A) + Len(O) = 2 /\ 1 \in 1..2 /\ 2 \in 1..2 /\ ~(2 <= 1) /\ 2 - 1 = 1
    BY <1>5
  <2> QED BY <1>5, <1>6, <2>1
<1>8. DOMAIN L = 1..2
  BY <1>6, <1>7, LenProperties
<1>9. Resolver!Layers = L
  BY <1>1, <1>3, <1>4
<1> QED BY <1>6, <1>7, <1>8, <1>9

Stacked(L, a, s, m, ds, o) ==
  /\ L \in Seq(TokenSeq) /\ Len(L) = m + 3
  /\ DOMAIN L = 1..(m + 3) /\ L[1] = a /\ L[m + 2] = ds /\ L[m + 3] = o
  /\ \A n \in 1..m : L[n + 1] = s[n]

LEMMA StackIs ==
  ASSUME NEW m \in Nat, NEW s, s = [n \in 1..m |-> s[n]], \A n \in 1..m : s[n] \in TokenSeq,
         NEW a \in TokenSeq, NEW ds \in TokenSeq, NEW o \in TokenSeq
  PROVE  Stacked((<<a>> \o (s \o <<ds>>)) \o <<o>>, a, s, m, ds, o)
<1>1. /\ s \in Seq(TokenSeq) /\ Len(s) = m
      /\ <<a>> \in Seq(TokenSeq) /\ <<ds>> \in Seq(TokenSeq) /\ <<o>> \in Seq(TokenSeq)
      /\ Len(<<a>>) = 1 /\ Len(<<ds>>) = 1 /\ Len(<<o>>) = 1
      /\ <<a>>[1] = a /\ <<ds>>[1] = ds /\ <<o>>[1] = o
  <2>1. s \in [1..m -> TokenSeq]
    OBVIOUS
  <2>2. s \in Seq(TokenSeq) /\ Len(s) = m
    BY <2>1, IsASeq, LenProperties
  <2> QED BY <2>2
<1>2. PICK A, D, O : A = <<a>> /\ D = <<ds>> /\ O = <<o>>
  OBVIOUS
<1>3. /\ s \in Seq(TokenSeq) /\ Len(s) = m
      /\ A \in Seq(TokenSeq) /\ D \in Seq(TokenSeq) /\ O \in Seq(TokenSeq)
      /\ Len(A) = 1 /\ Len(D) = 1 /\ Len(O) = 1
      /\ A[1] = a /\ D[1] = ds /\ O[1] = o
  BY <1>1, <1>2
<1>4. PICK x : x = s \o D
  OBVIOUS
<1>5. x \in Seq(TokenSeq) /\ Len(x) = m + 1 /\ (\A n \in 1..m : x[n] = s[n]) /\ x[m + 1] = ds
  <2>1. /\ x \in Seq(TokenSeq) /\ Len(x) = Len(s) + Len(D)
        /\ \A i \in 1..Len(s) + Len(D) : x[i] = IF i <= Len(s) THEN s[i] ELSE D[i - Len(s)]
    BY <1>3, <1>4, ConcatProperties
  <2>2. \A i \in 1..(m + 1) : x[i] = IF i <= m THEN s[i] ELSE D[i - m]
    BY <1>3, <2>1
  <2>3. (m + 1) - m = 1 /\ m + 1 \in 1..(m + 1) /\ ~(m + 1 <= m) /\ \A n \in 1..m : n \in 1..(m + 1) /\ n <= m
    OBVIOUS
  <2> QED BY <1>3, <2>1, <2>2, <2>3
<1>6. PICK y : y = A \o x
  OBVIOUS
<1>7. /\ y \in Seq(TokenSeq) /\ Len(y) = m + 2 /\ y[1] = a /\ y[m + 2] = ds
      /\ \A n \in 1..m : y[n + 1] = s[n]
  <2>1. /\ y \in Seq(TokenSeq) /\ Len(y) = Len(A) + Len(x)
        /\ \A i \in 1..Len(A) + Len(x) : y[i] = IF i <= Len(A) THEN A[i] ELSE x[i - Len(A)]
    BY <1>3, <1>5, <1>6, ConcatProperties
  <2>2. Len(y) = m + 2 /\ \A i \in 1..(m + 2) : y[i] = IF i <= 1 THEN A[i] ELSE x[i - 1]
    <3>1. Len(A) + Len(x) = m + 2 /\ Len(A) = 1
      BY <1>3, <1>5
    <3> QED BY <2>1, <3>1
  <2>3. /\ (m + 2) - 1 = m + 1 /\ m + 2 \in 1..(m + 2) /\ ~(m + 2 <= 1) /\ 1 \in 1..(m + 2) /\ 1 <= 1
        /\ \A n \in 1..m : n + 1 \in 1..(m + 2) /\ ~(n + 1 <= 1) /\ (n + 1) - 1 = n
    OBVIOUS
  <2> QED BY <1>3, <1>5, <2>1, <2>2, <2>3
<1>8. PICK z : z = y \o O
  OBVIOUS
<1>9. /\ z \in Seq(TokenSeq) /\ Len(z) = m + 3 /\ z[m + 3] = o
      /\ \A n \in 1..(m + 2) : z[n] = y[n]
  <2>1. /\ z \in Seq(TokenSeq) /\ Len(z) = Len(y) + Len(O)
        /\ \A i \in 1..Len(y) + Len(O) : z[i] = IF i <= Len(y) THEN y[i] ELSE O[i - Len(y)]
    BY <1>3, <1>7, <1>8, ConcatProperties
  <2>2. Len(z) = m + 3 /\ \A i \in 1..(m + 3) : z[i] = IF i <= m + 2 THEN y[i] ELSE O[i - (m + 2)]
    <3>1. Len(y) + Len(O) = m + 3 /\ Len(y) = m + 2
      BY <1>3, <1>7
    <3> QED BY <2>1, <3>1
  <2>3. /\ (m + 3) - (m + 2) = 1 /\ m + 3 \in 1..(m + 3) /\ ~(m + 3 <= m + 2)
        /\ \A n \in 1..(m + 2) : n \in 1..(m + 3) /\ n <= m + 2
    OBVIOUS
  <2> QED BY <1>3, <2>1, <2>2, <2>3
<1>10. DOMAIN z = 1..(m + 3)
  BY <1>9, LenProperties
<1>11. 1 \in 1..(m + 2) /\ m + 2 \in 1..(m + 2) /\ \A n \in 1..m : n + 1 \in 1..(m + 2)
  OBVIOUS
<1>12. Stacked(z, a, s, m, ds, o)
  BY <1>7, <1>9, <1>10, <1>11 DEF Stacked
<1> QED BY <1>2, <1>4, <1>6, <1>8, <1>12

(* A sequence of tokens that layers of them come to, of which one counts only  *)
(* for some flags: the uppermost that counts for a flag sets it.               *)
ComesFrom(t, L, S, N) ==
  /\ Resolver!SingleValued(t)
  /\ \A key : key \in Resolver!FlagsOf(t) <=> \E n \in 1..N : key \in S[n]
  /\ \A key, v : \A n \in 1..N :
       key \in S[n] /\ LastSays(L[n], key, v) /\ (\A k \in (n + 1)..N : key \notin S[k])
       => LastSays(t, key, v)

LEMMA PlainComes ==
  ASSUME NEW a \in TokenSeq, NEW o \in TokenSeq, Resolver!SingleValued(a), Resolver!SingleValued(o),
         NEW L, L[1] = a, L[2] = o,
         NEW S, S[1] = Resolver!FlagsOf(a), S[2] = Resolver!FlagsOf(o)
  PROVE  ComesFrom(a \o o, L, S, 2)
<1>1. PICK t : t = a \o o
  OBVIOUS
<1>2. Joined(a, o, t)
  BY <1>1, JoinIs
<1>3. /\ Resolver!SingleValued(t)
      /\ Resolver!FlagsOf(t) = Resolver!FlagsOf(a) \cup Resolver!FlagsOf(o)
      /\ \A key, v : LastSays(o, key, v) => LastSays(t, key, v)
      /\ \A key, v : key \notin Resolver!FlagsOf(o) /\ LastSays(a, key, v) => LastSays(t, key, v)
  BY <1>2, JoinSays
<1>4. 1..2 = {1, 2} /\ 2 \in 2..2
  OBVIOUS
<1>5. ASSUME NEW key PROVE key \in Resolver!FlagsOf(t) <=> \E n \in 1..2 : key \in S[n]
  BY <1>3, <1>4
<1>6. ASSUME NEW key, NEW v, NEW n \in 1..2, key \in S[n], LastSays(L[n], key, v),
             \A k \in (n + 1)..2 : key \notin S[k]
      PROVE  LastSays(t, key, v)
  <2>1. CASE n = 1
    <3>1. key \notin S[2]
      BY <1>4, <1>6, <2>1
    <3> QED BY <1>3, <1>6, <2>1, <3>1
  <2>2. CASE n = 2
    BY <1>3, <1>6, <2>2
  <2> QED BY <1>4, <2>1, <2>2
<1> QED BY <1>1, <1>3, <1>5, <1>6 DEF ComesFrom

LEMMA StackComes ==
  ASSUME NEW m \in Nat, NEW s, NEW f, Covers(s, m, f), f \in TokenSeq,
         NEW a \in TokenSeq, NEW ds \in TokenSeq, NEW o \in TokenSeq, NEW keys,
         Resolver!SingleValued(a), Resolver!SingleValued(ds), Resolver!SingleValued(o),
         NEW w, Cleared(a, keys, w), NEW x, Cleared(f, Resolver!FlagsOf(ds), x),
         NEW L, Stacked(L, a, s, m, ds, o),
         NEW S, S[1] = Resolver!FlagsOf(a) \ keys, \A n \in 2..(m + 3) : S[n] = Resolver!FlagsOf(L[n])
  PROVE  ComesFrom((w \o (x \o ds)) \o o, L, S, m + 3)
<1>1. PICK y, z, t : y = x \o ds /\ z = w \o y /\ t = z \o o
  OBVIOUS
<1>2. x \in TokenSeq /\ w \in TokenSeq /\ Resolver!SingleValued(x) /\ Resolver!SingleValued(w)
  BY DEF Cleared
<1>3. Joined(x, ds, y)
  BY <1>1, <1>2, JoinIs
<1>4. /\ Resolver!SingleValued(y)
      /\ Resolver!FlagsOf(y) = Resolver!FlagsOf(x) \cup Resolver!FlagsOf(ds)
      /\ \A key, v : LastSays(ds, key, v) => LastSays(y, key, v)
      /\ \A key, v : key \notin Resolver!FlagsOf(ds) /\ LastSays(x, key, v) => LastSays(y, key, v)
  BY <1>2, <1>3, JoinSays
<1>5. y \in TokenSeq /\ Joined(w, y, z)
  <2>1. y \in TokenSeq
    BY <1>3 DEF Joined
  <2> QED BY <1>1, <1>2, <2>1, JoinIs
<1>6. /\ Resolver!SingleValued(z)
      /\ Resolver!FlagsOf(z) = Resolver!FlagsOf(w) \cup Resolver!FlagsOf(y)
      /\ \A key, v : LastSays(y, key, v) => LastSays(z, key, v)
      /\ \A key, v : key \notin Resolver!FlagsOf(y) /\ LastSays(w, key, v) => LastSays(z, key, v)
  BY <1>2, <1>4, <1>5, JoinSays
<1>7. z \in TokenSeq /\ Joined(z, o, t)
  <2>1. z \in TokenSeq
    BY <1>5 DEF Joined
  <2> QED BY <1>1, <2>1, JoinIs
<1>8. /\ Resolver!SingleValued(t)
      /\ Resolver!FlagsOf(t) = Resolver!FlagsOf(z) \cup Resolver!FlagsOf(o)
      /\ \A key, v : LastSays(o, key, v) => LastSays(t, key, v)
      /\ \A key, v : key \notin Resolver!FlagsOf(o) /\ LastSays(z, key, v) => LastSays(t, key, v)
  BY <1>6, <1>7, JoinSays
<1>9. /\ S[1] = Resolver!FlagsOf(a) \ keys /\ S[m + 2] = Resolver!FlagsOf(ds) /\ S[m + 3] = Resolver!FlagsOf(o)
      /\ \A n \in 1..m : S[n + 1] = Resolver!FlagsOf(s[n])
  <2>1. m + 2 \in 2..(m + 3) /\ m + 3 \in 2..(m + 3) /\ \A n \in 1..m : n + 1 \in 2..(m + 3)
    OBVIOUS
  <2> QED BY <2>1 DEF Stacked
<1>10. \A n \in 1..(m + 3) : n = 1 \/ n = m + 2 \/ n = m + 3 \/ \E i \in 1..m : n = i + 1
  <2> SUFFICES ASSUME NEW n \in 1..(m + 3), n # 1, n # m + 2, n # m + 3 PROVE \E i \in 1..m : n = i + 1
    OBVIOUS
  <2>1. n - 1 \in 1..m /\ n = (n - 1) + 1
    OBVIOUS
  <2> QED BY <2>1
<1>11. 1 \in 1..(m + 3) /\ m + 2 \in 1..(m + 3) /\ m + 3 \in 1..(m + 3) /\ \A i \in 1..m : i + 1 \in 1..(m + 3)
  OBVIOUS
<1>12. ASSUME NEW key
       PROVE  key \in Resolver!FlagsOf(t) <=> \E n \in 1..(m + 3) : key \in S[n]
  <2>1. key \in Resolver!FlagsOf(w) <=> key \in S[1]
    BY <1>9 DEF Cleared
  <2>2. key \in Resolver!FlagsOf(x) \/ key \in S[m + 2] <=> key \in Resolver!FlagsOf(f) \/ key \in S[m + 2]
    BY <1>9 DEF Cleared
  <2>3. key \in Resolver!FlagsOf(f) <=> \E i \in 1..m : key \in S[i + 1]
    BY <1>9 DEF Covers
  <2>4. key \in Resolver!FlagsOf(t) <=>
          key \in S[1] \/ (\E i \in 1..m : key \in S[i + 1]) \/ key \in S[m + 2] \/ key \in S[m + 3]
    BY <1>4, <1>6, <1>8, <1>9, <2>1, <2>2, <2>3
  <2>5. (\E n \in 1..(m + 3) : key \in S[n]) <=>
          key \in S[1] \/ (\E i \in 1..m : key \in S[i + 1]) \/ key \in S[m + 2] \/ key \in S[m + 3]
    BY <1>10, <1>11, Zenon
  <2> QED BY <2>4, <2>5
<1>13. ASSUME NEW key, NEW v, NEW n \in 1..(m + 3), key \in S[n], LastSays(L[n], key, v),
              \A k \in (n + 1)..(m + 3) : key \notin S[k]
       PROVE  LastSays(t, key, v)
  <2>1. n # m + 3 => key \notin Resolver!FlagsOf(o)
    <3>1. n # m + 3 => m + 3 \in (n + 1)..(m + 3)
      OBVIOUS
    <3> QED BY <1>9, <1>13, <3>1
  <2>2. n # m + 3 /\ n # m + 2 => key \notin Resolver!FlagsOf(ds)
    <3>1. n # m + 3 /\ n # m + 2 => m + 2 \in (n + 1)..(m + 3)
      OBVIOUS
    <3> QED BY <1>9, <1>13, <3>1
  <2>3. CASE n = m + 3
    BY <1>8, <1>13, <2>3 DEF Stacked
  <2>4. CASE n = m + 2
    <3>1. m + 2 # m + 3 /\ L[n] = ds
      BY <2>4 DEF Stacked
    <3> QED BY <1>4, <1>6, <1>8, <1>13, <2>1, <2>4, <3>1
  <2>5. ASSUME NEW i \in 1..m, n = i + 1 PROVE LastSays(t, key, v)
    <3>1. n # m + 3 /\ n # m + 2
      BY <2>5
    <3>2. LastSays(s[i], key, v)
      BY <1>13, <2>5 DEF Stacked
    <3>3. \A k \in (i + 1)..m : key \notin Resolver!FlagsOf(s[k])
      <4> TAKE k \in (i + 1)..m
      <4>1. k + 1 \in (n + 1)..(m + 3) /\ k \in 1..m
        BY <2>5
      <4> QED BY <1>9, <1>13, <4>1
    <3>4. LastSays(f, key, v)
      BY <3>2, <3>3 DEF Covers
    <3>5. LastSays(x, key, v)
      BY <2>2, <3>1, <3>4 DEF Cleared
    <3> QED BY <1>4, <1>6, <1>8, <2>1, <2>2, <3>1, <3>5
  <2>6. CASE n = 1
    <3>1. n # m + 3 /\ n # m + 2 /\ L[n] = a
      BY <2>6 DEF Stacked
    <3>2. key \notin keys /\ LastSays(w, key, v)
      BY <1>9, <1>13, <2>6, <3>1 DEF Cleared
    <3>3. key \notin Resolver!FlagsOf(y)
      <4>1. ASSUME key \in Resolver!FlagsOf(f) PROVE FALSE
        <5>1. PICK i \in 1..m : key \in S[i + 1]
          BY <1>9, <4>1 DEF Covers
        <5>2. i + 1 \in (n + 1)..(m + 3)
          BY <2>6
        <5> QED BY <1>13, <5>1, <5>2
      <4>2. key \notin Resolver!FlagsOf(x)
        BY <4>1 DEF Cleared
      <4> QED BY <1>4, <2>2, <3>1, <4>2
    <3> QED BY <1>6, <1>8, <2>1, <3>1, <3>2, <3>3
  <2> QED BY <1>10, <2>3, <2>4, <2>5, <2>6
<1> QED BY <1>1, <1>8, <1>12, <1>13 DEF ComesFrom

(* The last place of a flag, as the specification finds it.                    *)
LEMMA LastIs ==
  ASSUME NEW t \in TokenSeq, NEW key \in Resolver!FlagsOf(t), NEW sets,
         sets = Sets(t, key), NEW l,
         l = CHOOSE k \in DOMAIN t : k \in sets /\ \A m \in (k + 1)..Len(t) : m \notin sets
  PROVE  LastSays(t, key, Resolver!ValueAt(t, l))
<1>1. PICK last \in Nat : last = Len(t) /\ DOMAIN t = 1..last
  BY TokensAre
<1>2. sets \in SUBSET (1..last)
  BY <1>1 DEF Sets
<1>3. PICK v : LastSays(t, key, v)
  BY SomeoneIsLast
<1>4. PICK n \in sets : \A m \in sets : m <= n
  BY <1>3 DEF LastSays
<1>5. n \in DOMAIN t /\ \A m \in (n + 1)..Len(t) : m \notin sets
  BY <1>1, <1>2, <1>4
<1>6. l \in DOMAIN t /\ l \in sets /\ \A m \in (l + 1)..Len(t) : m \notin sets
  BY <1>4, <1>5, Zenon
<1>7. \A m \in sets : m <= l
  <2> TAKE m \in sets
  <2>1. m \in 1..last /\ l \in 1..last /\ m \notin (l + 1)..last
    BY <1>1, <1>2, <1>6
  <2> QED BY <2>1
<1> QED BY <1>6, <1>7, Zenon DEF LastSays

LEMMA SettingIs ==
  ASSUME result.extra \in TokenSeq, NEW key \in Resolver!FlagsOf(result.extra)
  PROVE  LastSays(result.extra, key, Resolver!Setting(key))
<1>1. PICK t, later : /\ t = result.extra
                      /\ later = {n \in DOMAIN t : t[n][1] = "flag" /\ t[n][2] = key}
  OBVIOUS
<1>2. later = Sets(t, key) /\ t \in TokenSeq
  BY <1>1 DEF Sets
<1>3. PICK v : LastSays(t, key, v)
  BY <1>1, SomeoneIsLast
<1>4. PICK n \in later : \A k \in later : k <= n
  BY <1>2, <1>3 DEF LastSays
<1>5. PICK l : l = CHOOSE m \in later : \A k \in later : k <= m
  OBVIOUS
<1>6. l \in later /\ \A k \in later : k <= l
  BY <1>4, <1>5
<1>7. Resolver!Setting(key) = Resolver!ValueAt(t, l)
  <2>1. Resolver!Setting(key) =
          IF later # {} THEN Resolver!ValueAt(t, CHOOSE m \in later : \A k \in later : k <= m)
          ELSE result.args[key]
    BY <1>1 DEF Resolver!Setting
  <2> QED BY <1>4, <1>5, <2>1
<1> QED BY <1>1, <1>2, <1>6, <1>7, Zenon DEF LastSays

LEMMA SettingOfMap ==
  ASSUME NEW key, key \notin Resolver!FlagsOf(result.extra)
  PROVE  Resolver!Setting(key) = result.args[key]
<1>1. Sets(result.extra, key) = {}
  BY FlagsAre
<1>2. {n \in DOMAIN result.extra : result.extra[n][1] = "flag" /\ result.extra[n][2] = key} = {}
  BY <1>1 DEF Sets
<1> QED BY <1>2 DEF Resolver!Setting

(* What the layers say is what the uppermost of them says last.                *)
LEMMA SaysIs ==
  ASSUME NEW N \in Nat, DOMAIN Resolver!Layers = 1..N, Len(Resolver!Layers) = N,
         \A n \in 1..N : Resolver!Layers[n] \in TokenSeq,
         NEW t, ComesFrom(t, Resolver!Layers, [n \in 1..N |-> Resolver!SetBy(n)], N),
         NEW key \in Resolver!FlagsOf(t)
  PROVE  LastSays(t, key, Resolver!Says(key))
<1>1. PICK L, S : L = Resolver!Layers /\ S = [n \in 1..N |-> Resolver!SetBy(n)]
  OBVIOUS
<1>2. ComesFrom(t, L, S, N) /\ \A n \in 1..N : L[n] \in TokenSeq
  BY <1>1
<1> DEFINE those == {n \in 1..N : key \in S[n]}
<1>3. those # {} /\ those \in SUBSET Nat
  BY <1>2 DEF ComesFrom
<1>4. PICK top \in those : \A k \in those : top >= k
  <2>1. IsFiniteSet(those) /\ those \subseteq Int
    <3>1. IsFiniteSet(1..N)
      BY FS_Interval
    <3> QED BY <3>1, FS_Subset
  <2> HIDE DEF those
  <2> QED BY <1>3, <2>1, Largest
<1> DEFINE Top(n) == key \in S[n] /\ \A k \in (n + 1)..N : key \notin S[k]
<1>5. top \in 1..N /\ Top(top)
  <2>1. \A k \in (top + 1)..N : k \in 1..N /\ ~(top >= k)
    OBVIOUS
  <2> QED BY <1>4, <2>1
<1>6. PICK n : n = CHOOSE m \in 1..N : Top(m)
  OBVIOUS
<1>7. n \in 1..N /\ Top(n)
  <2> HIDE DEF Top
  <2> QED BY <1>5, <1>6
<1>8. PICK l : l = CHOOSE k \in DOMAIN L[n] :
                     k \in Sets(L[n], key) /\ \A m \in (k + 1)..Len(L[n]) : m \notin Sets(L[n], key)
  OBVIOUS
<1>9. Resolver!Says(key) = Resolver!ValueAt(L[n], l)
  <2>1. \A m \in 1..N : Top(m) <=> /\ key \in Resolver!SetBy(m)
                                   /\ \A k \in (m + 1)..Len(L) : key \notin Resolver!SetBy(k)
    <3> TAKE m \in 1..N
    <3>1. S[m] = Resolver!SetBy(m) /\ \A k \in (m + 1)..N : k \in 1..N /\ S[k] = Resolver!SetBy(k)
      BY <1>1
    <3> QED BY <1>1, <3>1
  <2> HIDE DEF Top
  <2>2. n = CHOOSE m \in DOMAIN L : /\ key \in Resolver!SetBy(m)
                                    /\ \A k \in (m + 1)..Len(L) : key \notin Resolver!SetBy(k)
    BY <1>1, <1>6, <2>1
  <2>3. PICK u : u = L[n]
    OBVIOUS
  <2> DEFINE sets(k) == u[k][1] = "flag" /\ u[k][2] = key
  <2>4. u \in TokenSeq
    BY <1>2, <1>7, <2>3
  <2>5. \A k \in 1..Len(u) : k \in Sets(u, key) <=> sets(k)
    BY <2>4, TokensAre DEF Sets
  <2>6. DOMAIN u = 1..Len(u) /\ Len(u) \in Nat
    BY <2>4, TokensAre
  <2>7. \A k \in DOMAIN u : (k \in Sets(u, key) /\ \A m \in (k + 1)..Len(u) : m \notin Sets(u, key))
                            <=> sets(k) /\ \A m \in (k + 1)..Len(u) : ~sets(m)
    <3> TAKE k \in DOMAIN u
    <3>1. \A m \in (k + 1)..Len(u) : m \in 1..Len(u)
      BY <2>6
    <3> HIDE DEF sets
    <3> QED BY <2>5, <2>6, <3>1
  <2>8. l = CHOOSE k \in DOMAIN u : sets(k) /\ \A m \in (k + 1)..Len(u) : ~sets(m)
    <3> HIDE DEF sets
    <3> QED BY <1>8, <2>3, <2>7
  <2> QED BY <1>1, <2>2, <2>3, <2>8 DEF Resolver!Says
<1>10. key \in Resolver!FlagsOf(L[n])
  <2>1. S[n] = Resolver!SetBy(n)
    BY <1>1, <1>7
  <2> QED BY <1>1, <1>7, <2>1 DEF Resolver!SetBy
<1>11. LastSays(L[n], key, Resolver!ValueAt(L[n], l))
  <2>1. PICK u, sets : u = L[n] /\ sets = Sets(u, key)
    OBVIOUS
  <2>2. u \in TokenSeq /\ key \in Resolver!FlagsOf(u)
    BY <1>2, <1>7, <1>10, <2>1
  <2>3. l = CHOOSE k \in DOMAIN u : k \in sets /\ \A m \in (k + 1)..Len(u) : m \notin sets
    BY <1>8, <2>1
  <2>4. LastSays(u, key, Resolver!ValueAt(u, l))
    BY <2>1, <2>2, <2>3, LastIs
  <2> QED BY <2>1, <2>4
<1> QED BY <1>2, <1>7, <1>9, <1>11 DEF ComesFrom

(* The sequence of tokens that is resolved comes from the layers.              *)
Above(t, N) ==
  /\ Resolver!Layers \in Seq(TokenSeq) /\ Len(Resolver!Layers) = N /\ DOMAIN Resolver!Layers = 1..N
  /\ ComesFrom(t, Resolver!Layers, [n \in 1..N |-> Resolver!SetBy(n)], N)

LEMMA PlainAbove ==
  ASSUME recipe \in KnownRecipes, request \in Requests, Resolver!IsCommand(result.from),
         request.features = Undefined,
         \A n \in DOMAIN Resolver!Layers : Resolver!SingleValued(Resolver!Layers[n])
  PROVE  Above(Resolver!TokensOf(result.from, result.hardware), 2)
<1>1. PICK a, o : /\ a = Resolver!Served(Resolver!ArgvOf(result.from))
                  /\ o = Resolver!At(recipe.overrides, result.hardware)
  OBVIOUS
<1>2. a \in TokenSeq /\ o \in TokenSeq
  <2>1. Resolver!PerHardware(recipe.overrides)
    BY RecipeFacts DEF Resolver!RecipeAssumption
  <2>2. o \in TokenSeq
    BY <1>1, <2>1, AtType
  <2>3. PICK c : c = result.from
    OBVIOUS
  <2>4. Resolver!ArgvOf(c) \in TokenSeq
    BY <2>3, ArgvType
  <2>5. a \in TokenSeq
    BY <1>1, <2>3, <2>4, ServedType
  <2> QED BY <2>2, <2>5
<1>3. PICK L : L = Resolver!Layers
  OBVIOUS
<1>4. L \in Seq(TokenSeq) /\ Len(L) = 2 /\ DOMAIN L = 1..2 /\ L[1] = a /\ L[2] = o
  BY <1>1, <1>2, <1>3, PlainLayers
<1>5. PICK S : S = [n \in 1..2 |-> Resolver!SetBy(n)]
  OBVIOUS
<1>6. S[1] = Resolver!FlagsOf(a) /\ S[2] = Resolver!FlagsOf(o)
  <2>1. S[1] = Resolver!SetBy(1) /\ S[2] = Resolver!SetBy(2)
    BY <1>5
  <2>2. \A n : Resolver!SetBy(n) = Resolver!FlagsOf(L[n])
    BY <1>3 DEF Resolver!SetBy
  <2> QED BY <1>4, <2>1, <2>2
<1>7. Resolver!SingleValued(a) /\ Resolver!SingleValued(o)
  <2>1. 1 \in DOMAIN L /\ 2 \in DOMAIN L
    BY <1>4
  <2> QED BY <1>3, <1>4, <2>1
<1>8. ComesFrom(a \o o, L, S, 2)
  BY <1>2, <1>4, <1>6, <1>7, PlainComes
<1>9. Resolver!TokensOf(result.from, result.hardware) = a \o o
  BY <1>1 DEF Resolver!TokensOf, Resolver!WithFeatures
<1> QED BY <1>3, <1>4, <1>5, <1>8, <1>9 DEF Above

LEMMA ChosenAbove ==
  ASSUME recipe \in KnownRecipes, request \in Requests, Resolver!IsCommand(result.from),
         request.features # Undefined,
         \A n \in DOMAIN Resolver!Layers : Resolver!SingleValued(Resolver!Layers[n])
  PROVE  \E N \in Nat : Above(Resolver!TokensOf(result.from, result.hardware), N)
<1>1. PICK h, c : h = result.hardware /\ c = result.from
  OBVIOUS
<1>2. PICK m \in Nat : /\ DOMAIN request.features = 1..m
                       /\ \A n \in 1..m : Resolver!FeatureArgs(request.features[n], h) \in TokenSeq
  BY ChosenAre
<1>3. PICK s : s = [n \in DOMAIN request.features |-> Resolver!FeatureArgs(request.features[n], h)]
  OBVIOUS
<1>4. s = [n \in 1..m |-> s[n]] /\ \A n \in 1..m : s[n] \in TokenSeq
  BY <1>2, <1>3
<1>5. PICK a, o, ds : /\ a = Resolver!Served(Resolver!ArgvOf(c))
                      /\ o = Resolver!At(recipe.overrides, h)
                      /\ ds = Resolver!ForDeepSeek({request.features[n] : n \in DOMAIN request.features})
  OBVIOUS
<1>6. a \in TokenSeq /\ o \in TokenSeq /\ ds \in TokenSeq
  <2>1. Resolver!PerHardware(recipe.overrides)
    BY RecipeFacts DEF Resolver!RecipeAssumption
  <2>2. o \in TokenSeq
    BY <1>5, <2>1, AtType
  <2>3. Resolver!ArgvOf(c) \in TokenSeq
    BY <1>1, ArgvType
  <2>4. a \in TokenSeq
    BY <1>5, <2>3, ServedType
  <2>5. ds \in TokenSeq
    BY <1>5, DeepSeekType
  <2> QED BY <2>2, <2>4, <2>5
<1>7. PICK L : L = Resolver!Layers
  OBVIOUS
<1>8. Stacked(L, a, s, m, ds, o)
  <2>1. L = (<<a>> \o (s \o <<ds>>)) \o <<o>>
    BY <1>1, <1>3, <1>5, <1>7 DEF Resolver!Layers
  <2> QED BY <1>4, <1>6, <2>1, StackIs
<1>9. PICK S : S = [n \in 1..(m + 3) |-> Resolver!SetBy(n)]
  OBVIOUS
<1>10. PICK keys : keys = Resolver!KnownFlags(h)
  OBVIOUS
<1>11. S[1] = Resolver!FlagsOf(a) \ keys /\ \A n \in 2..(m + 3) : S[n] = Resolver!FlagsOf(L[n])
  <2>1. S[1] = Resolver!SetBy(1) /\ \A n \in 2..(m + 3) : S[n] = Resolver!SetBy(n) /\ n # 1
    BY <1>9
  <2>2. Resolver!SetBy(1) = Resolver!FlagsOf(L[1]) \ keys
    BY <1>1, <1>7, <1>10 DEF Resolver!SetBy
  <2>3. \A n : n # 1 => Resolver!SetBy(n) = Resolver!FlagsOf(L[n])
    BY <1>7 DEF Resolver!SetBy
  <2>4. L[1] = a
    BY <1>8 DEF Stacked
  <2> QED BY <2>1, <2>2, <2>3, <2>4
<1>12. /\ Resolver!SingleValued(a) /\ Resolver!SingleValued(ds) /\ Resolver!SingleValued(o)
       /\ \A n \in 1..m : Resolver!SingleValued(s[n])
  <2>1. DOMAIN L = 1..(m + 3) /\ L[1] = a /\ L[m + 2] = ds /\ L[m + 3] = o /\ \A n \in 1..m : L[n + 1] = s[n]
    BY <1>8 DEF Stacked
  <2>2. 1 \in DOMAIN L /\ m + 2 \in DOMAIN L /\ m + 3 \in DOMAIN L /\ \A n \in 1..m : n + 1 \in DOMAIN L
    BY <2>1
  <2>3. \A n \in DOMAIN L : Resolver!SingleValued(L[n])
    BY <1>7
  <2> QED BY <2>1, <2>2, <2>3
<1>13. PICK f : f = Resolver!FlattenSeq(s)
  OBVIOUS
<1>14. f \in TokenSeq /\ Covers(s, m, f)
  <2>1. Spreads(s, m, f)
    BY <1>4, <1>13, FlattenSpreads
  <2> QED BY <1>12, <2>1 DEF Spreads
<1>15. PICK w, x : w = Resolver!Without(a, keys) /\ x = Resolver!Without(f, Resolver!FlagsOf(ds))
  OBVIOUS
<1>16. Cleared(a, keys, w) /\ Cleared(f, Resolver!FlagsOf(ds), x)
  <2>1. Resolver!SingleValued(f)
    BY <1>14 DEF Covers
  <2> QED BY <1>6, <1>12, <1>14, <1>15, <2>1, WithoutClears
<1>17. ComesFrom((w \o (x \o ds)) \o o, L, S, m + 3)
  BY <1>6, <1>8, <1>11, <1>12, <1>14, <1>16, StackComes
<1>18. Resolver!TokensOf(result.from, result.hardware) = (w \o (x \o ds)) \o o
  <2>1. Resolver!TokensOf(c, h) = Resolver!WithFeatures(a, h) \o o
    BY <1>5 DEF Resolver!TokensOf
  <2>2. Resolver!WithFeatures(a, h) = w \o (x \o ds)
    BY <1>3, <1>5, <1>10, <1>13, <1>15 DEF Resolver!WithFeatures, Resolver!Replacing
  <2> QED BY <1>1, <2>1, <2>2
<1>19. m + 3 \in Nat
  OBVIOUS
<1>20. Above(Resolver!TokensOf(result.from, result.hardware), m + 3)
  <2>1. L \in Seq(TokenSeq) /\ Len(L) = m + 3 /\ DOMAIN L = 1..(m + 3)
    BY <1>8 DEF Stacked
  <2> QED BY <1>7, <1>9, <1>17, <1>18, <2>1 DEF Above
<1> QED BY <1>19, <1>20

(* What a resolution is in every state that has one.                           *)
ResolvedFor(c, h, tokens) ==
  /\ result.from = c /\ result.hardware = h /\ Resolver!IsCommand(c)
  /\ result.args = Resolver!Parsed(tokens).args /\ result.extra = Resolver!Parsed(tokens).extra
  /\ result.gpu = Resolver!GpuCount(result.args, c)
Resolved == \E c, h : ResolvedFor(c, h, Resolver!TokensOf(c, h))

LEMMA ResolvedSays ==
  ASSUME recipe \in KnownRecipes, request \in Requests, Resolved,
         \A n \in DOMAIN Resolver!Layers : Resolver!SingleValued(Resolver!Layers[n])
  PROVE  /\ Resolver!SetFlags = UNION {Resolver!SetBy(n) : n \in DOMAIN Resolver!Layers}
         /\ Resolver!SingleValued(result.extra)
         /\ \A key \in Resolver!SetFlags : Resolver!Setting(key) = Resolver!Says(key)
<1>1. PICK t : t = Resolver!TokensOf(result.from, result.hardware)
  OBVIOUS
<1>2. PICK N \in Nat : Above(t, N)
  <2>1. Resolver!IsCommand(result.from) /\ 2 \in Nat
    BY DEF Resolved, ResolvedFor
  <2> QED BY <1>1, <2>1, PlainAbove, ChosenAbove
<1>3. PICK args, extra : args = result.args /\ extra = result.extra
  OBVIOUS
<1>4. t \in TokenSeq
  <2>1. PICK c, h : c = result.from /\ h = result.hardware /\ Resolver!IsCommand(c)
    BY DEF Resolved, ResolvedFor
  <2> QED BY <1>1, <2>1, TokensType
<1>5. Resolver!SingleValued(t)
  BY <1>2 DEF Above, ComesFrom
<1>6. Split(t, args, extra)
  <2>1. args = Resolver!Parsed(t).args /\ extra = Resolver!Parsed(t).extra
    BY <1>1, <1>3 DEF Resolved, ResolvedFor
  <2> QED BY <1>4, <1>5, <2>1, ParsedSplits
<1>7. Resolver!SetFlags = Resolver!FlagsOf(t)
  BY <1>3, <1>6 DEF Resolver!SetFlags, Split
<1>8. Resolver!SetFlags = UNION {Resolver!SetBy(n) : n \in DOMAIN Resolver!Layers}
  <2>1. PICK S : S = [n \in 1..N |-> Resolver!SetBy(n)]
    OBVIOUS
  <2>2. DOMAIN Resolver!Layers = 1..N /\ \A key : key \in Resolver!FlagsOf(t) <=> \E n \in 1..N : key \in S[n]
    BY <1>2, <2>1 DEF Above, ComesFrom
  <2>3. \A n \in 1..N : S[n] = Resolver!SetBy(n)
    BY <2>1
  <2> QED BY <1>7, <2>2, <2>3
<1>9. ASSUME NEW key \in Resolver!SetFlags PROVE Resolver!Setting(key) = Resolver!Says(key)
  <2>1. PICK v : v = Resolver!Says(key)
    OBVIOUS
  <2>2. LastSays(t, key, v)
    <3>1. /\ Resolver!Layers \in Seq(TokenSeq) /\ Len(Resolver!Layers) = N /\ DOMAIN Resolver!Layers = 1..N
          /\ ComesFrom(t, Resolver!Layers, [n \in 1..N |-> Resolver!SetBy(n)], N)
      BY <1>2 DEF Above
    <3>2. \A n \in 1..N : Resolver!Layers[n] \in TokenSeq
      BY <3>1, ElementOfSeq
    <3>3. key \in Resolver!FlagsOf(t)
      BY <1>7
    <3>4. LastSays(t, key, Resolver!Says(key))
      BY <3>1, <3>2, <3>3, SaysIs
    <3> QED BY <2>1, <3>4
  <2>3. CASE key \in Resolver!FlagsOf(extra)
    <3>1. LastSays(extra, key, v) /\ extra \in TokenSeq
      BY <1>6, <2>2, <2>3 DEF Split
    <3>2. LastSays(extra, key, Resolver!Setting(key))
      BY <1>3, <2>3, <3>1, SettingIs
    <3>3. Resolver!Setting(key) = v
      BY <3>1, <3>2, OneIsLast
    <3> QED BY <2>1, <3>3
  <2>4. CASE key \notin Resolver!FlagsOf(extra)
    <3>1. args[key] = v
      BY <1>6, <2>2, <2>4 DEF Split
    <3>2. Resolver!Setting(key) = args[key]
      BY <1>3, <2>4, SettingOfMap
    <3> QED BY <2>1, <3>1, <3>2
  <2> QED BY <2>3, <2>4
<1>10. Resolver!SingleValued(result.extra)
  BY <1>3, <1>6 DEF Split
<1> QED BY <1>8, <1>9, <1>10

(* An admitted deployment has a flag in its map or in its list, never in both. *)
LEMMA AdmittedShards ==
  ASSUME recipe \in KnownRecipes, request \in Requests, Resolved, Resolver!Admissible,
         \E n \in 1..2 : Resolver!ReadsAsNumber(Resolver!Sharding[n])
  PROVE  LET shards(n) == IF Resolver!ReadsAsNumber(Resolver!Sharding[n])
                          THEN Numbers[Resolver!Setting(Resolver!Sharding[n])] ELSE 1
         IN  result.gpu = shards(1) * shards(2)
<1>1. PICK t, c : t = Resolver!TokensOf(result.from, result.hardware) /\ c = result.from
  OBVIOUS
<1>2. PICK args, extra : args = result.args /\ extra = result.extra
  OBVIOUS
<1>3. args = Resolver!Parsed(t).args /\ extra = Resolver!Parsed(t).extra /\ result.gpu = Resolver!GpuCount(args, c)
  BY <1>1, <1>2 DEF Resolved, ResolvedFor
<1>4. t \in TokenSeq
  <2>1. PICK h : h = result.hardware
    OBVIOUS
  <2>2. Resolver!IsCommand(c)
    BY <1>1 DEF Resolved, ResolvedFor
  <2> QED BY <1>1, <2>1, <2>2, TokensType
<1>5. Resolver!FlagsOf(extra) = {}
  <2>1. Resolver!FlagsOf(extra) \subseteq DOMAIN args
    BY <1>3, <1>4, ParsedFlags
  <2>2. Resolver!FlagsOf(extra) \cap DOMAIN args = {}
    BY <1>2 DEF Resolver!Admissible
  <2> QED BY <2>1, <2>2
<1>6. \A key : Resolver!Setting(key) = args[key]
  <2> TAKE key
  <2>1. key \notin Resolver!FlagsOf(result.extra)
    BY <1>2, <1>5
  <2> QED BY <1>2, <2>1, SettingOfMap
<1>7. \A key : Resolver!ReadsAsNumber(key) <=> key \in DOMAIN args /\ args[key] \in DOMAIN Numbers
  <2>1. Resolver!SetFlags = DOMAIN args
    BY <1>2, <1>5 DEF Resolver!SetFlags
  <2> QED BY <1>6, <2>1 DEF Resolver!ReadsAsNumber
<1>8. \A w \in DOMAIN Numbers : Numbers[w] \in Nat /\ Numbers[w] > 0
  <2>1. \A w \in DOMAIN Numbers : Numbers[w] \in Nat \ {0}
    BY RecipeFacts DEF Resolver!RecipeAssumption
  <2> QED BY <2>1
<1>9. ASSUME NEW key
      PROVE  /\ Resolver!ReadsAsNumber(key) <=> Resolver!Read(args, key) > 0
             /\ Resolver!Factor(args, key) = IF Resolver!ReadsAsNumber(key) THEN Numbers[Resolver!Setting(key)] ELSE 1
  <2>1. CASE Resolver!ReadsAsNumber(key)
    <3>1. Resolver!Read(args, key) = Numbers[args[key]] /\ args[key] \in DOMAIN Numbers
      BY <1>7, <2>1 DEF Resolver!Read
    <3>2. Resolver!Read(args, key) > 0
      BY <1>8, <3>1
    <3> QED BY <1>6, <2>1, <3>1, <3>2 DEF Resolver!Factor
  <2>2. CASE ~Resolver!ReadsAsNumber(key)
    <3>1. Resolver!Read(args, key) = 0
      BY <1>7, <2>2 DEF Resolver!Read
    <3> QED BY <2>2, <3>1 DEF Resolver!Factor
  <2> QED BY <2>1, <2>2
<1>10. \E n \in 1..2 : Resolver!Read(args, Resolver!Sharding[n]) > 0
  BY <1>9
<1>11. result.gpu = Resolver!Factor(args, Resolver!Sharding[1]) * Resolver!Factor(args, Resolver!Sharding[2])
  BY <1>3, <1>10 DEF Resolver!GpuCount
<1> QED BY <1>9, <1>11

(* The invariant: what is resolved is so for the recipe and the request.       *)
RecipeInv ==
  /\ recipe \in KnownRecipes /\ request \in Requests
  /\ at = "fetching" =>
       source \in DOMAIN recipe.alternatives /\ recipe.alternatives[source].has = "reference"
  /\ at \in {"resolved", "admitted", "refused"} => Resolved
  /\ at = "admitted" => Resolver!Admissible

LEMMA RecipeInvSuffices == RecipeInv => Resolver!ServedAsResolved
<1> SUFFICES ASSUME RecipeInv, at \in {"resolved", "admitted", "refused"}
             PROVE  /\ (\A n \in DOMAIN Resolver!Layers : Resolver!SingleValued(Resolver!Layers[n])) =>
                         /\ Resolver!SetFlags = UNION {Resolver!SetBy(n) : n \in DOMAIN Resolver!Layers}
                         /\ Resolver!SingleValued(result.extra)
                         /\ \A key \in Resolver!SetFlags : Resolver!Setting(key) = Resolver!Says(key)
                    /\ at = "admitted" /\ (\E n \in 1..2 : Resolver!ReadsAsNumber(Resolver!Sharding[n])) =>
                         LET shards(n) == IF Resolver!ReadsAsNumber(Resolver!Sharding[n])
                                          THEN Numbers[Resolver!Setting(Resolver!Sharding[n])] ELSE 1
                         IN  result.gpu = shards(1) * shards(2)
  BY Zenon DEF Resolver!ServedAsResolved
<1>1. recipe \in KnownRecipes /\ request \in Requests /\ Resolved
  BY DEF RecipeInv
<1>2. at = "admitted" => Resolver!Admissible
  BY DEF RecipeInv
<1>3. (\A n \in DOMAIN Resolver!Layers : Resolver!SingleValued(Resolver!Layers[n])) =>
         /\ Resolver!SetFlags = UNION {Resolver!SetBy(n) : n \in DOMAIN Resolver!Layers}
         /\ Resolver!SingleValued(result.extra)
         /\ \A key \in Resolver!SetFlags : Resolver!Setting(key) = Resolver!Says(key)
  BY <1>1, ResolvedSays, Zenon
<1>4. at = "admitted" /\ (\E n \in 1..2 : Resolver!ReadsAsNumber(Resolver!Sharding[n])) =>
        LET shards(n) == IF Resolver!ReadsAsNumber(Resolver!Sharding[n])
                         THEN Numbers[Resolver!Setting(Resolver!Sharding[n])] ELSE 1
        IN  result.gpu = shards(1) * shards(2)
  BY <1>1, <1>2, AdmittedShards, Zenon
<1> QED BY <1>3, <1>4, Zenon

(* Neither the recipe nor the request changes, so what a command resolves to   *)
(* does not either.                                                            *)
LEMMA SameFeature ==
  ASSUME recipe' = recipe, NEW f, NEW h
  PROVE  Resolver!FeatureArgs(f, h)' = Resolver!FeatureArgs(f, h)
BY DEF Resolver!FeatureArgs

LEMMA SameRules ==
  ASSUME recipe' = recipe, NEW chosen
  PROVE  Resolver!ForDeepSeek(chosen)' = Resolver!ForDeepSeek(chosen)
BY DEF Resolver!ForDeepSeek

LEMMA SameKnown ==
  ASSUME recipe' = recipe, NEW h
  PROVE  Resolver!KnownFlags(h)' = Resolver!KnownFlags(h)
<1>1. PICK features, rules : features = recipe.features /\ rules = DOMAIN Resolver!DeepSeekRules
  OBVIOUS
<1>2. \A f : Resolver!FeatureArgs(f, h)' = Resolver!FeatureArgs(f, h)
  BY SameFeature
<1>3. Resolver!ForDeepSeek(rules)' = Resolver!ForDeepSeek(rules)
  BY SameRules
<1>4. Resolver!KnownFlags(h) =
        UNION {Resolver!FlagsOf(Resolver!FeatureArgs(f, h)) : f \in DOMAIN features}
        \cup Resolver!FlagsOf(Resolver!ForDeepSeek(rules))
  BY <1>1 DEF Resolver!KnownFlags
<1>5. Resolver!KnownFlags(h)' =
        UNION {Resolver!FlagsOf(Resolver!FeatureArgs(f, h)') : f \in DOMAIN features}
        \cup Resolver!FlagsOf(Resolver!ForDeepSeek(rules)')
  BY <1>1 DEF Resolver!KnownFlags
<1> QED BY <1>2, <1>3, <1>4, <1>5

LEMMA SameWith ==
  ASSUME recipe' = recipe, request' = request, NEW t, NEW h
  PROVE  Resolver!WithFeatures(t, h)' = Resolver!WithFeatures(t, h)
<1>1. PICK features : features = request.features
  OBVIOUS
<1>2. \A f : Resolver!FeatureArgs(f, h)' = Resolver!FeatureArgs(f, h)
  BY SameFeature
<1>3. PICK chosen : chosen = {features[n] : n \in DOMAIN features}
  OBVIOUS
<1>4. Resolver!ForDeepSeek(chosen)' = Resolver!ForDeepSeek(chosen)
  BY SameRules
<1>5. Resolver!KnownFlags(h)' = Resolver!KnownFlags(h)
  BY SameKnown
<1>6. PICK s : s = [n \in DOMAIN features |-> Resolver!FeatureArgs(features[n], h)]
  OBVIOUS
<1>7. s = [n \in DOMAIN features |-> Resolver!FeatureArgs(features[n], h)']
  BY <1>2, <1>6
<1>8. Resolver!WithFeatures(t, h) =
        IF features = Undefined THEN t
        ELSE Resolver!Without(t, Resolver!KnownFlags(h))
             \o Resolver!Replacing(Resolver!FlattenSeq(s), Resolver!ForDeepSeek(chosen))
  BY <1>1, <1>3, <1>6 DEF Resolver!WithFeatures
<1>9. Resolver!WithFeatures(t, h)' =
        IF features = Undefined THEN t
        ELSE Resolver!Without(t, Resolver!KnownFlags(h)')
             \o Resolver!Replacing(Resolver!FlattenSeq(s), Resolver!ForDeepSeek(chosen)')
  BY <1>1, <1>3, <1>7 DEF Resolver!WithFeatures
<1> QED BY <1>4, <1>5, <1>8, <1>9

LEMMA SameTokens ==
  ASSUME recipe' = recipe, request' = request, NEW c, NEW h
  PROVE  Resolver!TokensOf(c, h)' = Resolver!TokensOf(c, h)
<1>1. PICK t : t = Resolver!Served(Resolver!ArgvOf(c))
  OBVIOUS
<1>2. Resolver!WithFeatures(t, h)' = Resolver!WithFeatures(t, h)
  BY SameWith
<1>3. Resolver!TokensOf(c, h) = Resolver!WithFeatures(t, h) \o Resolver!At(recipe.overrides, h)
  BY <1>1 DEF Resolver!TokensOf
<1>4. Resolver!TokensOf(c, h)' = Resolver!WithFeatures(t, h)' \o Resolver!At(recipe.overrides, h)
  BY <1>1 DEF Resolver!TokensOf
<1> QED BY <1>2, <1>3, <1>4

LEMMA ResolvesTo ==
  ASSUME recipe' = recipe, request' = request, NEW c, Resolver!IsCommand(c), result' = Resolver!Resolution(c)
  PROVE  Resolved'
<1>1. PICK h : h = Resolver!HardwareOf(c)
  OBVIOUS
<1>2. PICK t : t = Resolver!TokensOf(c, h)
  OBVIOUS
<1>3. t = Resolver!TokensOf(c, h)'
  BY <1>2, SameTokens
<1>4. PICK r : r = Resolver!Resolution(c)
  OBVIOUS
<1>5. /\ r.from = c /\ r.hardware = h
      /\ r.args = Resolver!Parsed(t).args /\ r.extra = Resolver!Parsed(t).extra
      /\ r.gpu = Resolver!GpuCount(Resolver!Parsed(t).args, c)
  BY <1>1, <1>2, <1>4 DEF Resolver!Resolution
<1>6. result' = r
  BY <1>4
<1>7. ResolvedFor(c, h, t)'
  BY <1>5, <1>6 DEF ResolvedFor
<1> QED BY <1>3, <1>7 DEF Resolved

LEMMA StaysResolved ==
  ASSUME recipe' = recipe, request' = request, result' = result, Resolved
  PROVE  Resolved'
<1>1. PICK c, h : ResolvedFor(c, h, Resolver!TokensOf(c, h))
  BY DEF Resolved
<1>2. PICK t : t = Resolver!TokensOf(c, h) /\ t = Resolver!TokensOf(c, h)'
  BY SameTokens
<1>3. ResolvedFor(c, h, t)'
  BY <1>1, <1>2 DEF ResolvedFor
<1> QED BY <1>2, <1>3 DEF Resolved

LEMMA CommandsAre ==
  ASSUME recipe \in KnownRecipes
  PROVE  /\ Resolver!IsCommand(Resolver!Recommended)
         /\ \A n \in DOMAIN recipe.alternatives :
              recipe.alternatives[n].has # "neither" => Resolver!IsCommand(recipe.alternatives[n].command)
<1>1. Resolver!IsCommand(Resolver!NoCommand)
  <2>1. << >> \in Seq(Resolver!Tokens)
    BY EmptySeq
  <2>2. Resolver!NoCommand.shape = "text" /\ Resolver!NoCommand.argv = << >>
    BY DEF Resolver!NoCommand
  <2> QED BY <2>1, <2>2 DEF Resolver!IsCommand
<1>2. recipe.recommended # << >> => Resolver!IsCommand(recipe.recommended[1])
  BY RecipeFacts, Zenon DEF Resolver!RecipeAssumption
<1>3. Resolver!IsCommand(Resolver!Recommended)
  BY <1>1, <1>2, Zenon DEF Resolver!Recommended
<1>4. \A n \in DOMAIN recipe.alternatives :
        recipe.alternatives[n].has # "neither" => Resolver!IsCommand(recipe.alternatives[n].command)
  BY RecipeFacts, Zenon DEF Resolver!RecipeAssumption
<1> QED BY <1>3, <1>4

LEMMA RecipeBegins == Resolver!Init => RecipeInv
BY DEF Resolver!Init, RecipeInv

LEMMA RecipeStep == RecipeInv /\ [Resolver!Next]_(Resolver!rvars) => RecipeInv'
<1> SUFFICES ASSUME RecipeInv, [Resolver!Next]_(Resolver!rvars)
             PROVE  RecipeInv'
  OBVIOUS
<1>1. recipe \in KnownRecipes /\ request \in Requests
  BY DEF RecipeInv
<1>2. CASE Resolver!Resolve
  <2>1. recipe' = recipe /\ request' = request
    BY <1>2 DEF Resolver!Resolve
  <2>2. PICK best : best = IF {request.strategy, request.hardware, request.variant} = {Undefined} THEN {}
                           ELSE Resolver!Best
    OBVIOUS
  <2>3. best \subseteq DOMAIN recipe.alternatives
    BY <2>2 DEF Resolver!Best
  <2> DEFINE inline == {n \in best : recipe.alternatives[n].has = "inline"
                                     /\ Resolver!Structured(recipe.alternatives[n].command)}
             named  == {n \in best : recipe.alternatives[n].has = "reference"}
  <2>4. \/ \E n \in inline : at' = "resolved" /\ result' = Resolver!Resolution(recipe.alternatives[n].command)
        \/ \E n \in named : at' = "fetching" /\ source' = n
        \/ at' = "resolved" /\ result' = Resolver!Resolution(Resolver!Recommended)
    BY <1>2, <2>2, Zenon DEF Resolver!Resolve
  <2>5. ASSUME NEW n \in inline, at' = "resolved",
               result' = Resolver!Resolution(recipe.alternatives[n].command)
        PROVE  RecipeInv'
    <3>1. PICK c : c = recipe.alternatives[n].command
      OBVIOUS
    <3>2. n \in DOMAIN recipe.alternatives /\ recipe.alternatives[n].has # "neither"
      BY <2>3
    <3>3. Resolver!IsCommand(c)
      BY <1>1, <3>1, <3>2, CommandsAre
    <3>4. Resolved'
      BY <2>1, <2>5, <3>1, <3>3, ResolvesTo
    <3> QED BY <1>1, <2>1, <2>5, <3>4 DEF RecipeInv
  <2>6. ASSUME NEW n \in named, at' = "fetching", source' = n
        PROVE  RecipeInv'
    <3>1. n \in DOMAIN recipe.alternatives /\ recipe.alternatives[n].has = "reference"
      BY <2>3
    <3> QED BY <1>1, <2>1, <2>6, <3>1 DEF RecipeInv
  <2>7. ASSUME at' = "resolved", result' = Resolver!Resolution(Resolver!Recommended)
        PROVE  RecipeInv'
    <3>1. PICK c : c = Resolver!Recommended
      OBVIOUS
    <3>2. Resolver!IsCommand(c)
      BY <1>1, <3>1, CommandsAre
    <3>3. Resolved'
      BY <2>1, <2>7, <3>1, <3>2, ResolvesTo
    <3> QED BY <1>1, <2>1, <2>7, <3>3 DEF RecipeInv
  <2> HIDE DEF inline, named
  <2> QED BY <2>4, <2>5, <2>6, <2>7
<1>3. ASSUME NEW good \in BOOLEAN, Resolver!Fetched(good) PROVE RecipeInv'
  <2>1. recipe' = recipe /\ request' = request /\ at = "fetching" /\ at' = "resolved"
    BY <1>3 DEF Resolver!Fetched
  <2>2. PICK d : d = recipe.alternatives[source].command
    OBVIOUS
  <2>3. PICK c : c = IF good /\ Resolver!Structured(d) THEN d ELSE Resolver!Recommended
    OBVIOUS
  <2>4. result' = Resolver!Resolution(c)
    BY <1>3, <2>2, <2>3 DEF Resolver!Fetched
  <2>5. Resolver!IsCommand(c)
    <3>1. source \in DOMAIN recipe.alternatives /\ recipe.alternatives[source].has # "neither"
      BY <2>1 DEF RecipeInv
    <3>2. Resolver!IsCommand(d) /\ Resolver!IsCommand(Resolver!Recommended)
      BY <1>1, <2>2, <3>1, CommandsAre
    <3> QED BY <2>3, <3>2
  <2>6. Resolved'
    BY <2>1, <2>4, <2>5, ResolvesTo
  <2> QED BY <1>1, <2>1, <2>6 DEF RecipeInv
<1>4. CASE Resolver!Deploy
  <2>1. /\ recipe' = recipe /\ request' = request /\ result' = result /\ at = "resolved"
        /\ at' = IF Resolver!Admissible THEN "admitted" ELSE "refused"
    BY <1>4 DEF Resolver!Deploy
  <2>2. Resolved
    BY <2>1 DEF RecipeInv
  <2>3. Resolved'
    BY <2>1, <2>2, StaysResolved
  <2>4. at' = "admitted" => Resolver!Admissible'
    BY <2>1 DEF Resolver!Admissible
  <2>5. at' # "fetching"
    BY <2>1
  <2> QED BY <1>1, <2>1, <2>3, <2>4, <2>5 DEF RecipeInv
<1>5. CASE UNCHANGED Resolver!rvars
  <2>1. recipe' = recipe /\ request' = request /\ at' = at /\ source' = source /\ result' = result
    BY <1>5 DEF Resolver!rvars
  <2>2. Resolved => Resolved'
    BY <2>1, StaysResolved
  <2>3. Resolver!Admissible => Resolver!Admissible'
    BY <2>1 DEF Resolver!Admissible
  <2> QED BY <1>1, <2>1, <2>2, <2>3 DEF RecipeInv
<1> QED BY <1>2, <1>3, <1>4, <1>5, Zenon DEF Resolver!Next

LEMMA RecipeHolds == Resolver!Spec => []Resolver!ServedAsResolved
BY RecipeBegins, RecipeStep, RecipeInvSuffices, PTL DEF Resolver!Spec
=============================================================================
