------------------------ MODULE ProviderRegistration ------------------------
(* The registration of one provider: the processes of its shim, of which the   *)
(* lease lets one lead, create or update the InferenceProviderConfig, write    *)
(* its status with every heartbeat and sign off when they stop (Register,      *)
(* StartHeartbeat and Unregister of the ProviderConfigManagers, shim/config.go,*)
(* cmd/main.go); the backend judges the provider by what is stored             *)
(* (providerHealth.ts, getRuntimesStatus).  Time passes in heartbeat intervals.*)
EXTENDS Naturals, FiniteSets

CONSTANTS
  Shims,        \* the processes, as numbers in the order in which they come up
  Styles,       \* among kaito, kuberay (and llmd, vllm) and dynamo
  Stale,        \* STALENESS_THRESHOLD_MS in intervals
  Attempts,     \* bound: what stands for the five attempts of a first status
  MaxTroubles   \* bound: changes of the operator, deletions of the config, failures

(* The staleness threshold is longer than an interval (providerHealth.ts).     *)
RegistrationAssumption ==
  Shims \subseteq Nat /\ Stale \in Nat \ {0} /\ Attempts \in Nat \ {0}

Never == Stale + 2                 \* the age of a heartbeat that is not there
Older(age) == IF age > Stale THEN age ELSE age + 1

VARIABLES
  style,      \* whose manager this behaviour is about
  config,     \* the InferenceProviderConfig: there, ready, beat (its age), why (the reason)
  upstream,   \* does the operator behind the provider answer the probe as healthy
  shims,      \* per process: stage, attempts left, heartbeat due, first probe, cached copy
  calls,      \* the writes in flight; a copy is fresh while nobody wrote after it
  troubles,   \* changes and failures so far
  calm,       \* history: intervals (at most 2) since something disturbed the provider
  quiet,      \* history: intervals since a process was up
  left        \* history: the last process has signed off, and no other came

rvars == <<style, config, upstream, shims, calls, troubles, calm, quiet, left>>

Leading == {"registering", "announcing", "running"}
Up      == Leading \cup {"stopping"}
Stages  == Up \cup {"new", "gone"}

NoConfig == [there |-> FALSE, ready |-> FALSE, beat |-> Never, why |-> "none"]
Main(s) == \E c \in calls : c.by = s /\ c.waited /\ ~c.beat

Idle(stage) == [stage |-> stage, tries |-> 0, due |-> FALSE, probed |-> FALSE,
                there |-> FALSE, fresh |-> FALSE]
GivenUp(c) == [c EXCEPT !.waited = FALSE, !.beat = FALSE]
Orphaned(cs, s) == {IF c.by = s THEN GivenUp(c) ELSE c : c \in cs}
Send(s, what, beat, ready) ==
  calls' = calls \cup {[by |-> s, what |-> what, beat |-> beat, ready |-> ready, age |-> 0,
                        fresh |-> shims[s].fresh, waited |-> TRUE]}
Gone(s) == [shims EXCEPT ![s] = Idle("gone")]

-----------------------------------------------------------------------------
(* A process comes up and leads, its cache filled from the API server.  One    *)
(* that lost the lease may still be stopping.                                  *)
Start(s) ==
  /\ shims[s].stage = "new" /\ \A o \in Shims : o < s => shims[o].stage # "new"
  /\ \A o \in Shims : shims[o].stage \notin Leading
  /\ shims' = [shims EXCEPT ![s].stage = "registering", ![s].there = config.there,
                            ![s].fresh = TRUE]
  /\ calm' = 0 /\ quiet' = 0 /\ left' = FALSE
  /\ UNCHANGED <<style, config, upstream, calls, troubles>>

(* RegisterProviderConfig.                                                     *)
Register(s) ==
  /\ shims[s].stage = "registering" /\ ~Main(s)
  /\ Send(s, IF shims[s].there THEN "spec" ELSE "create", FALSE, FALSE)
  /\ UNCHANGED <<style, config, upstream, shims, troubles, calm, quiet, left>>

(* What the probe of the upstream operator tells; it may fail.                 *)
Probe(answer) ==
  \/ answer = upstream /\ UNCHANGED <<troubles, calm>>
  \/ /\ ~answer /\ troubles < MaxTroubles
     /\ troubles' = troubles + 1 /\ calm' = 0

(* An attempt that failed; after the last one Register fails, and the process  *)
(* exits.                                                                      *)
AfterFailure(s) ==
  IF shims[s].tries > 1 THEN [shims EXCEPT ![s].tries = @ - 1] ELSE Gone(s)

(* The first status.  Only KAITO's manager probes again at every attempt; the  *)
(* copy of a config that was just created may not be in the cache yet.         *)
Announce(s) ==
  /\ shims[s].stage = "announcing" /\ ~Main(s)
  /\ \E ready \in BOOLEAN :
       /\ IF style = "kaito" THEN Probe(ready)
          ELSE ready = shims[s].probed /\ UNCHANGED <<troubles, calm>>
       /\ IF shims[s].there THEN Send(s, "status", FALSE, ready) /\ UNCHANGED shims
          ELSE shims' = AfterFailure(s) /\ UNCHANGED calls
  /\ UNCHANGED <<style, config, upstream, quiet, left>>

(* A tick of the heartbeat: UpdateStatusFromProbe or updateHeartbeat, which    *)
(* only logs an error.                                                         *)
Heartbeat(s) ==
  /\ shims[s].stage = "running" /\ shims[s].due
  /\ shims' = [shims EXCEPT ![s].due = FALSE]
  /\ \E ready \in BOOLEAN :
       /\ Probe(ready)
       /\ IF shims[s].there THEN Send(s, "status", TRUE, ready) ELSE UNCHANGED calls
  /\ UNCHANGED <<style, config, upstream, quiet, left>>

(* The context is cancelled, by a signal or with the lease: Register fails; a  *)
(* registered process goes on to Unregister, and gives up its heartbeat.       *)
Stop(s) ==
  /\ shims[s].stage \in Leading
  /\ shims' = IF shims[s].stage = "running"
              THEN [shims EXCEPT ![s].stage = "stopping", ![s].due = FALSE] ELSE Gone(s)
  /\ calls' = Orphaned(calls, s) /\ calm' = 0
  /\ UNCHANGED <<style, config, upstream, troubles, quiet, left>>

(* MarkUnregistered, which is tried once.                                      *)
Unregister(s) ==
  /\ shims[s].stage = "stopping" /\ ~Main(s)
  /\ IF shims[s].there THEN Send(s, "bye", FALSE, FALSE) /\ UNCHANGED shims
     ELSE shims' = Gone(s) /\ UNCHANGED calls
  /\ UNCHANGED <<style, config, upstream, troubles, calm, quiet, left>>

(* A crash, an eviction, or the end of the grace period.                       *)
Kill(s) ==
  /\ shims[s].stage \in Up
  /\ shims' = Gone(s) /\ calls' = Orphaned(calls, s) /\ calm' = 0
  /\ UNCHANGED <<style, config, upstream, troubles, quiet, left>>

-----------------------------------------------------------------------------
(* Whether the API server takes a write: an Update carries the version that    *)
(* was read.                                                                   *)
\* Mutant: the status is patched without a version.
AcceptedBlindly(c) == IF c.what = "create" THEN ~config.there ELSE config.there
Accepted(c) == IF c.what = "create" THEN ~config.there ELSE config.there /\ c.fresh

(* What it leaves.  The shared helper replaces the status and its conditions,  *)
(* KAITO's manager sets its condition, MarkUnregistered keeps the rest.        *)
\* Mutant: a heartbeat leaves the condition of the one who signed off.
WrittenBesides(c) ==
  CASE c.what = "create" -> [NoConfig EXCEPT !.there = TRUE]
    [] c.what = "spec"   -> config
    [] c.what = "status" -> [config EXCEPT !.ready = c.ready, !.beat = c.age]
    [] c.what = "bye"    -> [config EXCEPT !.ready = FALSE, !.beat = c.age, !.why = "Unregistered"]
Written(c) ==
  CASE c.what = "create" -> [NoConfig EXCEPT !.there = TRUE]
    [] c.what = "spec"   -> config
    [] c.what = "status" -> [config EXCEPT !.ready = c.ready, !.beat = c.age,
                                           !.why = IF style = "kaito" THEN "probed" ELSE "none"]
    [] c.what = "bye"    -> [config EXCEPT !.ready = FALSE, !.beat = c.age, !.why = "Unregistered"]

(* How the sender goes on after the answer to its call.                        *)
Answered(c, ok) ==
  CASE c.beat          -> shims
    [] c.what = "bye"  -> Gone(c.by)
    [] c.what = "status" /\ ~c.beat ->
         IF ok THEN [shims EXCEPT ![c.by].stage = "running", ![c.by].tries = 0] ELSE AfterFailure(c.by)
    [] c.what \in {"create", "spec"} ->
         IF ok THEN [shims EXCEPT ![c.by].stage = "announcing",
                                  ![c.by].probed = (style # "kaito" /\ upstream),
                                  ![c.by].tries = IF style = "dynamo" THEN 1 ELSE Attempts]
         ELSE Gone(c.by)

(* The write arrives; whoever waits for it is told.  A process that exits      *)
(* leaves its other calls behind.                                              *)
Left(cs, after) == {IF after[c.by].stage = "gone" THEN GivenUp(c) ELSE c : c \in cs}
Arrive(c) ==
  LET after == IF c.waited THEN Answered(c, Accepted(c)) ELSE shims
      rest == calls \ {c}
  IN  /\ UNCHANGED <<style, upstream, troubles, quiet>>
      /\ calm' = IF c.waited /\ c.what # "bye" THEN calm ELSE 0
      /\ IF Accepted(c)
         THEN /\ config' = Written(c)
              /\ shims' = [s \in Shims |-> [after[s] EXCEPT !.fresh = FALSE]]
              /\ calls' = Left({[o EXCEPT !.fresh = FALSE] : o \in rest}, after)
              /\ left' = (left \/ (c.what = "bye" /\ \A s \in Shims : shims[s].stage \notin Leading))
         ELSE /\ shims' = after /\ calls' = Left(rest, after) /\ UNCHANGED <<config, left>>

(* The call fails for its sender; it may arrive all the same, then or later.   *)
Fail(c) ==
  LET after == Answered(c, FALSE) IN
  /\ c.waited /\ troubles < MaxTroubles
  /\ troubles' = troubles + 1 /\ calm' = 0
  /\ shims' = after
  /\ calls' = Left((calls \ {c}) \cup {GivenUp(c)}, after)
  /\ UNCHANGED <<style, config, upstream, quiet, left>>
Lose(c) ==
  /\ ~c.waited /\ calls' = calls \ {c}
  /\ UNCHANGED <<style, config, upstream, shims, troubles, calm, quiet, left>>

(* The watch brings the cache of a process up to date.                         *)
Deliver(s) ==
  /\ shims[s].stage \in Up /\ ~shims[s].fresh
  /\ shims' = [shims EXCEPT ![s].there = config.there, ![s].fresh = TRUE]
  /\ UNCHANGED <<style, config, upstream, calls, troubles, calm, quiet, left>>

(* The operator is installed, fails or recovers; the config is deleted.        *)
Change ==
  /\ troubles < MaxTroubles /\ troubles' = troubles + 1 /\ calm' = 0
  /\ \/ upstream' = ~upstream /\ UNCHANGED <<config, shims, calls>>
     \/ /\ config.there /\ config' = NoConfig /\ UNCHANGED upstream
        /\ shims' = [s \in Shims |-> [shims[s] EXCEPT !.fresh = FALSE]]
        /\ calls' = {[c EXCEPT !.fresh = FALSE] : c \in calls}
  /\ UNCHANGED <<style, quiet, left>>

(* An interval passes.  Until then a process has settled into running or is    *)
(* gone, its calls have ended and its cache is up to date; a call that was     *)
(* given up is not on its way for longer than one more interval.               *)
Tick ==
  /\ \A c \in calls : ~c.waited /\ c.age = 0
  /\ \A s \in Shims : /\ shims[s].stage \in {"new", "gone", "running"} /\ ~shims[s].due
                      /\ shims[s].stage = "running" => shims[s].fresh
  /\ config' = [config EXCEPT !.beat = Older(@)]
  /\ shims' = [s \in Shims |-> [shims[s] EXCEPT !.due = (shims[s].stage = "running")]]
  /\ calls' = {[c EXCEPT !.age = 1] : c \in calls}
  /\ calm' = IF calm < 2 THEN calm + 1 ELSE calm
  /\ quiet' = IF \E s \in Shims : shims[s].stage = "running" THEN 0 ELSE Older(quiet)
  /\ UNCHANGED <<style, upstream, troubles, left>>

Init ==
  /\ style \in Styles /\ upstream \in BOOLEAN
  /\ config = NoConfig
  /\ shims = [s \in Shims |-> Idle("new")]
  /\ calls = {} /\ troubles = 0
  /\ calm = 0 /\ quiet = Stale + 1 /\ left = FALSE

Next ==
  \/ \E s \in Shims : \/ Start(s) \/ Register(s) \/ Announce(s) \/ Heartbeat(s)
                      \/ Stop(s) \/ Unregister(s) \/ Kill(s) \/ Deliver(s)
  \/ \E c \in calls : Arrive(c) \/ Fail(c) \/ Lose(c)
  \/ Change \/ Tick

Spec == Init /\ [][Next]_rvars

-----------------------------------------------------------------------------
(* getProviderHealth.                                                          *)
IsStale   == config.beat = Stale + 1
Connected == config.beat # Never /\ ~IsStale /\ config.why # "Unregistered"
Healthy   == config.ready /\ ~IsStale
(* What getRuntimesStatus adds to what it finds out of the operator itself:    *)
(* whether the shim is there, and whose explanation is shown.                  *)
Reported ==
  [registered |-> config.there, connected |-> Connected,
   message |-> CASE IsStale                                     -> "ShimStale"
                 [] ~IsStale /\ ~Healthy /\ config.why # "none" -> config.why
                 [] OTHER                                       -> "operator"]
(* describeIntegrationStatus of the settings page.                             *)
Integration ==
  CASE ~Reported.registered                      -> "Not set up"
    [] Reported.registered /\ Reported.connected -> "Connected"
    [] OTHER                                     -> "Not responding"

TypeOK ==
  /\ style \in Styles /\ upstream \in BOOLEAN
  /\ config \in [there : BOOLEAN, ready : BOOLEAN, beat : 0..Never,
                 why : {"none", "probed", "Unregistered"}]
  /\ \A s \in Shims : shims[s].stage \in Stages /\ shims[s].tries \in 0..Attempts
  /\ \A c \in calls : c.by \in Shims /\ c.age \in 0..1
  /\ calm \in 0..2 /\ quiet \in 0..(Stale + 1) /\ left \in BOOLEAN

(* Who signed off stays signed off until a process comes up again, whatever of *)
(* its heartbeats is still on its way; and a provider that is shown as         *)
(* connected had a process within the threshold, after which the page says     *)
(* that nobody reports any more (providerHealth.ts, Unregister).               *)
RegistrationIsHonest ==
  /\ left => ~config.ready /\ Integration # "Connected"
  /\ quiet > Stale => /\ Integration # "Connected"
                      /\ config.beat # Never => Reported.message = "ShimStale"

(* Two undisturbed intervals after its start, a late farewell of the process   *)
(* before it, a conflict or an error, a running provider whose config was not  *)
(* deleted is shown as connected, and as ready exactly when its operator is    *)
(* (UpdateStatusFromProbe, updateHeartbeat).                                   *)
HealthIsCurrent ==
  (calm = 2 /\ config.there /\ \E s \in Shims : shims[s].stage = "running") =>
    /\ Integration = "Connected" /\ Healthy = upstream
    /\ Reported.message \in {"operator"} \cup (IF upstream THEN {} ELSE {"probed"})
=============================================================================
