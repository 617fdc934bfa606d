--------------------------- MODULE DeploymentAdvice ---------------------------
(* The AI Configurator of the web backend (services/aiconfigurator.ts): a      *)
(* command line tool of the host that is looked for, with a cached answer, run *)
(* in a directory of its own for each analysis and read from the files it      *)
(* leaves; and the panel of the deployment form that asks and applies          *)
(* (AIConfiguratorPanel.tsx).                                                  *)
EXTENDS Integers, Sequences, FiniteSets

CONSTANTS
  Analyses,  \* the analyses served at a time
  Inputs,    \* what is asked: gpu (the words of its type), gpus, target, wellNamed
  Outputs,   \* what the tool may leave: agg and disagg, each at most one best row
  Hosts,     \* where the backend runs: "local", "cluster", "disabled"
  Ttl,       \* STATUS_CACHE_TTL_MS
  ErrorTtl,  \* what is left of it when the tool could not be started
  MaxTime    \* bound: how long a behaviour is followed

(* A value the tool did not give.                                              *)
Missing == -1
Worst == -999999

(* A best row, if there is one, that says how many tokens a second it makes    *)
(* makes some, and one that says how soon the first comes is no slower than    *)
(* the number that stands for never.                                           *)
BestRow(rows) ==
  rows # << >> => /\ Len(rows) = 1
                  /\ rows[1].rate \in {Missing} \cup (Nat \ {0})
                  /\ rows[1].ttft \in {Missing} \cup {t \in Nat : t < -Worst}
AdviceAssumption ==
  /\ Ttl \in Nat \ {0} /\ ErrorTtl \in 1..Ttl
  /\ \A input \in Inputs : input.gpus \in Nat
  /\ \A o \in Outputs : BestRow(o.agg) /\ BestRow(o.disagg)

VARIABLES
  host,   \* where the backend runs
  tool,   \* the command: "there", "broken" (it exits with an error) or "missing"
  now,    \* Date.now()
  status, \* cachedStatus: available, since when and for how long
  dirs,   \* the directories of analyses that are on disk
  run,    \* per analysis: how far it is, its input, what it was told, its answer
  panel,  \* what the panel waits for, asked last and shows
  stood,  \* history: when the tool was last there, broken and missing
  litter  \* history: the directories that could not be removed

avars == <<host, tool, now, status, dirs, run, panel, stood, litter>>

Idle == [pc |-> "idle"]
NoStatus == [available |-> FALSE, at |-> 0, until |-> 0]

-----------------------------------------------------------------------------
(* mapGpuToSystem takes the first key the type contains: "gb200" has "b200".   *)
GpuSystems ==
  << <<"h100", "h100_sxm">>, <<"h200", "h200_sxm">>, <<"a100", "a100_sxm">>, <<"b200", "b200_sxm">>,
     <<"gb200", "gb200_sxm">>, <<"l40s", "l40s">>, <<"l40", "l40s">> >>
System(gpu) ==
  LET keys == {k \in DOMAIN GpuSystems : GpuSystems[k][1] \in gpu}
  IN  IF keys = {} THEN "h100_sxm" ELSE GpuSystems[CHOOSE k \in keys : \A j \in keys : k <= j][2]
Backend(system) == IF system = "h100_sxm" THEN "vllm" ELSE "trtllm"

(* getDefaultConfig, the answer to whatever goes wrong.                        *)
Default(input) ==
  [success |-> FALSE, mode |-> "aggregated", tp |-> IF input.gpus < 8 THEN input.gpus ELSE 8,
   prefill |-> 0, decode |-> 0, replicas |-> 1, backend |-> "none", input |-> input]

(* parseOutputFiles: of the best aggregated and the best disaggregated row,    *)
(* the one with more tokens a second, or with the shorter time to the first    *)
(* token.  A value that is missing is the worst there is.                      *)
\* Mutant: a time that is missing reads as none at all.
ScoreOfZero(row, target) ==
  IF row = << >> THEN 0
  ELSE IF target = "latency" THEN (IF row[1].ttft = Missing THEN 0 ELSE -row[1].ttft)
       ELSE IF row[1].rate = Missing THEN 0 ELSE row[1].rate

Score(row, target) ==
  IF target = "latency"
  THEN IF row = << >> THEN Worst ELSE IF row[1].ttft = Missing THEN Worst ELSE -row[1].ttft
  ELSE IF row = << >> THEN 0 ELSE IF row[1].rate = Missing THEN 0 ELSE row[1].rate

Disaggregates(output, target) == Score(output.disagg, target) > Score(output.agg, target)
Parsed(input, output) ==
  LET disagg == Disaggregates(output, input.target)
      best   == IF disagg /\ output.disagg # << >> THEN output.disagg ELSE output.agg
  IN  IF best = << >> THEN Default(input)
      ELSE [success |-> TRUE, mode |-> IF disagg THEN "disaggregated" ELSE "aggregated",
            tp |-> best[1].tp, replicas |-> best[1].replicas,
            prefill |-> IF disagg THEN best[1].prefill ELSE 0,
            decode |-> IF disagg THEN best[1].decode ELSE 0,
            backend |-> Backend(System(input.gpu)), input |-> input]

-----------------------------------------------------------------------------
(* checkStatus, and what the analysis makes of it.                             *)
Valid == status.until > 0 /\ now < status.until
Told(r, input, available, pc) ==
  run' = [run EXCEPT ![r] =
    [pc |-> IF pc = "checking" THEN pc ELSE IF available THEN "starting" ELSE "done",
     input |-> input, told |-> available, at |-> now, answer |-> Default(input)]]

Receive(r, input) ==
  /\ run[r].pc = "idle"
  /\ IF ~input.wellNamed \/ host # "local" THEN Told(r, input, FALSE, "done")
     ELSE IF Valid THEN Told(r, input, status.available, "known")
     ELSE Told(r, input, FALSE, "checking")

(* The version of the tool is asked for; what comes of it is kept from the     *)
(* time the question was put, an error to start it for less long.              *)
Check(r) ==
  LET available == tool = "there" IN
  /\ run[r].pc = "checking"
  /\ status' = [available |-> available, at |-> run[r].at,
                until |-> run[r].at + IF tool = "missing" THEN ErrorTtl ELSE Ttl]
  /\ run' = [run EXCEPT ![r].pc = IF available THEN "starting" ELSE "done", ![r].told = available, ![r].at = now]
  /\ UNCHANGED <<host, tool, now, dirs, panel, stood, litter>>

MakeDirectory(r, made) ==
  /\ run[r].pc = "starting"
  /\ run' = [run EXCEPT ![r].pc = IF made THEN "running" ELSE "cleaning"]
  /\ dirs' = IF made THEN dirs \cup {r} ELSE dirs
  /\ UNCHANGED <<host, tool, now, status, panel, stood, litter>>

(* The tool ends: with files, with an error, or it could not be started.       *)
Finish(r, answer) ==
  /\ run[r].pc = "running"
  /\ run' = [run EXCEPT ![r].pc = "cleaning", ![r].answer = answer]
  /\ UNCHANGED <<host, tool, now, status, dirs, panel, stood, litter>>
Succeed(r) == tool = "there" /\ \E o \in Outputs : Finish(r, Parsed(run[r].input, o))
Fail(r) == run[r].pc = "running" /\ Finish(r, Default(run[r].input))

(* finally: the directory goes, and if it does not, nobody hears of it.        *)
Clean(r, gone) ==
  /\ run[r].pc = "cleaning"
  /\ run' = [run EXCEPT ![r].pc = "done"]
  /\ dirs' = IF gone THEN dirs \ {r} ELSE dirs
  /\ litter' = IF gone THEN litter ELSE litter \cup ({r} \cap dirs)
  /\ UNCHANGED <<host, tool, now, status, panel, stood>>

-----------------------------------------------------------------------------
(* The panel is there while the Dynamo runtime is chosen.  Asking clears what  *)
(* it shows, and until the answer it offers neither to ask nor to apply.  A    *)
(* backend that is not local is only asked by others than the panel.           *)
NoPanel == [waits |-> {}, asked |-> {}, shows |-> {}]
Press(r, input) ==
  /\ host = "local" /\ panel.waits = {}
  /\ panel' = [waits |-> {r}, asked |-> {input}, shows |-> {}]
  /\ Receive(r, input)
  /\ UNCHANGED <<host, tool, now, status, dirs, stood, litter>>

Post(r, input) ==
  /\ Receive(r, input) /\ UNCHANGED <<host, tool, now, status, dirs, panel, stood, litter>>

Respond(r) ==
  /\ run[r].pc = "done"
  /\ run' = [run EXCEPT ![r] = Idle] /\ dirs' = dirs \ {r} /\ litter' = litter \ {r}
  /\ panel' = IF r \in panel.waits THEN [panel EXCEPT !.waits = {}, !.shows = {run[r].answer}] ELSE panel
  /\ UNCHANGED <<host, tool, now, status, stood>>

Discard ==
  /\ panel.shows # {} /\ panel' = [panel EXCEPT !.shows = {}]
  /\ UNCHANGED <<host, tool, now, status, dirs, run, stood, litter>>

(* Another runtime, and back: a panel that knows nothing of the first.         *)
SwitchRuntime ==
  /\ panel # NoPanel /\ panel' = NoPanel
  /\ UNCHANGED <<host, tool, now, status, dirs, run, stood, litter>>

Become(state) ==
  /\ tool # state /\ tool' = state /\ stood' = [stood EXCEPT ![state] = now]
  /\ UNCHANGED <<host, now, status, dirs, run, panel, litter>>
Tick ==
  /\ now < MaxTime /\ now' = now + 1 /\ stood' = [stood EXCEPT ![tool] = now + 1]
  /\ UNCHANGED <<host, tool, status, dirs, run, panel, litter>>

Init ==
  /\ host \in Hosts /\ tool \in {"there", "broken", "missing"} /\ now = 0
  /\ status = NoStatus /\ dirs = {} /\ litter = {}
  /\ run = [r \in Analyses |-> Idle] /\ panel = NoPanel
  /\ stood = [state \in {"there", "broken", "missing"} |-> IF state = tool THEN 0 ELSE -Ttl]

Next ==
  \/ \E r \in Analyses :
       \/ \E input \in Inputs : Press(r, input) \/ Post(r, input)
       \/ Check(r) \/ Succeed(r) \/ Fail(r) \/ Respond(r)
       \/ \E done \in BOOLEAN : MakeDirectory(r, done) \/ Clean(r, done)
  \/ Discard \/ SwitchRuntime \/ Tick
  \/ \E state \in {"there", "broken", "missing"} : Become(state)

Spec == Init /\ [][Next]_avars

-----------------------------------------------------------------------------
(* An analysis that was told the tool is available was told so of a time less  *)
(* than the cache's life ago; one that was told it is missing, of the shorter. *)
(* Its answer, when it is a success, is of the kind of row that exists and is  *)
(* no worse than the other by what was asked for; whatever fails, it is the    *)
(* default for the GPUs there are, and the directory is gone unless removing   *)
(* it failed.  The panel shows the answer to what it asked last.               *)
NoWorse(answer, output) ==
  LET of == [aggregated |-> output.agg, disaggregated |-> output.disagg]
      time(row) == IF row[1].ttft = Missing THEN -Worst ELSE row[1].ttft
      mine == of[answer.mode]
      other == of[IF answer.mode = "aggregated" THEN "disaggregated" ELSE "aggregated"]
  IN  /\ mine # << >> /\ answer.tp = mine[1].tp /\ answer.replicas = mine[1].replicas
      /\ other # << >> =>
           IF answer.input.target = "latency" THEN time(mine) <= time(other) ELSE mine[1].rate >= other[1].rate
AdviceIsSound ==
  /\ \A r \in Analyses : run[r].pc # "idle" /\ run[r].pc # "checking" /\ run[r].input.wellNamed /\ host = "local" =>
       IF run[r].told THEN stood["there"] > run[r].at - Ttl
       ELSE stood["broken"] > run[r].at - Ttl \/ stood["missing"] > run[r].at - ErrorTtl
  /\ \A r \in Analyses : run[r].pc = "done" =>
       LET answer == run[r].answer IN
       /\ r \in dirs => r \in litter
       /\ IF answer.success THEN \E o \in Outputs : NoWorse(answer, o)
          ELSE answer.mode = "aggregated" /\ answer.tp <= run[r].input.gpus
  /\ \A answer \in panel.shows : panel.asked = {answer.input}
=============================================================================
