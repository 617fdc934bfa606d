--------------------- MODULE ProviderRegistrationProofs ---------------------
(* Theorems about ProviderRegistration, for any number of processes, attempts, *)
(* failures and changes, and any staleness threshold.                          *)
EXTENDS ProviderRegistration, TLAPS

(* The states a process and a call can be in.                                  *)
Shim == [stage : Stages, tries : Nat, due : BOOLEAN, probed : BOOLEAN, there : BOOLEAN,
         fresh : BOOLEAN]
Call == [by : Shims, what : {"create", "spec", "status", "bye"}, beat : BOOLEAN, ready : BOOLEAN,
         age : 0..1, fresh : BOOLEAN, waited : BOOLEAN]
Types ==
  /\ \A c \in calls : c.beat => c.what = "status"
  /\ style \in Styles /\ upstream \in BOOLEAN /\ left \in BOOLEAN
  /\ shims \in [Shims -> Shim] /\ calls \subseteq Call
  /\ config \in [there : BOOLEAN, ready : BOOLEAN, beat : 0..Never,
                 why : {"none", "probed", "Unregistered"}]
  /\ quiet \in 0..(Stale + 1)

(* A call that is waited for is of the place of its sender.                    *)
Waits(c) ==
  CASE c.what \in {"create", "spec"} -> ~c.beat /\ shims[c.by].stage = "registering"
    [] c.what = "status" -> shims[c.by].stage = IF c.beat THEN "running" ELSE "announcing"
    [] c.what = "bye"    -> ~c.beat /\ shims[c.by].stage = "stopping"
CallsInPlace == \A c \in calls : c.waited => Waits(c)

(* A process has one main call at a time.                                      *)
OneMainCall ==
  \A c, d \in calls : c.waited /\ d.waited /\ c.by = d.by /\ ~c.beat /\ ~d.beat => c = d

(* After the last farewell nobody leads, the status is that of the farewell or *)
(* of a config without status, and no status on its way is of the newest copy. *)
FarewellHolds ==
  left => /\ \A s \in Shims : shims[s].stage \notin Leading
          /\ ~config.ready /\ (config.beat = Never \/ config.why = "Unregistered")
          /\ \A c \in calls : c.fresh => c.what # "status"

(* No heartbeat, stored or on its way, is younger than the last process.       *)
BeatsAreOld ==
  /\ (\E s \in Shims : shims[s].stage \in Up) => quiet = 0
  /\ quiet <= config.beat
  /\ \A c \in calls : quiet <= c.age

RegistrationInv == Types /\ CallsInPlace /\ OneMainCall /\ FarewellHolds /\ BeatsAreOld

LEMMA CallFacts ==
  ASSUME NEW c \in Call
  PROVE  /\ GivenUp(c) \in Call /\ ~GivenUp(c).waited
         /\ GivenUp(c).by = c.by /\ GivenUp(c).what = c.what
         /\ GivenUp(c).age = c.age /\ GivenUp(c).fresh = c.fresh
         /\ [c EXCEPT !.fresh = FALSE] \in Call /\ [c EXCEPT !.age = 1] \in Call
<1>1. GivenUp(c) \in Call
  BY DEF GivenUp, Call
<1>2. ~GivenUp(c).waited
  BY DEF GivenUp, Call
<1>3. GivenUp(c).by = c.by /\ GivenUp(c).what = c.what /\ GivenUp(c).age = c.age
      /\ GivenUp(c).fresh = c.fresh
  BY DEF GivenUp, Call
<1>4. [c EXCEPT !.fresh = FALSE] \in Call
  BY DEF Call
<1>5. [c EXCEPT !.age = 1] \in Call
  BY DEF Call
<1> QED BY <1>1, <1>2, <1>3, <1>4, <1>5

LEMMA ShimFacts == ASSUME NEW s \in Shims, shims \in [Shims -> Shim] PROVE
    /\ shims[s] \in Shim
    /\ \A x \in Shim : [shims EXCEPT ![s] = x] \in [Shims -> Shim]
    /\ Idle("gone") \in Shim /\ Idle("gone").stage = "gone"
    /\ Gone(s) \in [Shims -> Shim] /\ Gone(s)[s].stage = "gone"
    /\ \A o \in Shims : o # s => Gone(s)[o] = shims[o]
  BY DEF Shim, Idle, Gone, Stages, Up, Leading

LEMMA RegistrationInit == ASSUME RegistrationAssumption, Init PROVE RegistrationInv
<1> USE DEF RegistrationAssumption, Init
<1>1. Types
  <2>1. Idle("new") \in Shim
    BY DEF Idle, Shim, Stages
  <2>2. config \in [there : BOOLEAN, ready : BOOLEAN, beat : 0..Never,
                    why : {"none", "probed", "Unregistered"}]
    BY DEF NoConfig, Never
  <2>3. shims \in [Shims -> Shim]
    BY <2>1
  <2>4. quiet \in 0..(Stale + 1)
    OBVIOUS
  <2>5. style \in Styles /\ upstream \in BOOLEAN /\ left \in BOOLEAN /\ calls \subseteq Call
    OBVIOUS
  <2> QED BY <2>2, <2>3, <2>4, <2>5 DEF Types
<1>2. CallsInPlace /\ OneMainCall /\ FarewellHolds
  BY DEF CallsInPlace, OneMainCall, FarewellHolds
<1>3. BeatsAreOld
  <2>1. \A s \in Shims : shims[s].stage = "new"
    BY DEF Idle
  <2>2. quiet <= config.beat
    BY DEF NoConfig, Never
  <2> QED BY <2>1, <2>2 DEF BeatsAreOld, Up, Leading
<1> QED BY <1>1, <1>2, <1>3 DEF RegistrationInv

LEMMA FailedType ==
  ASSUME NEW s \in Shims, shims \in [Shims -> Shim]
  PROVE  AfterFailure(s) \in [Shims -> Shim]
<1>1. CASE shims[s].tries > 1
  <2>1. [shims[s] EXCEPT !.tries = @ - 1] \in Shim
    BY <1>1, ShimFacts DEF Shim
  <2>2. AfterFailure(s) = [shims EXCEPT ![s] = [shims[s] EXCEPT !.tries = @ - 1]]
    BY <1>1 DEF AfterFailure
  <2> QED BY <2>1, <2>2, ShimFacts
<1>2. CASE ~(shims[s].tries > 1)
  BY <1>2, ShimFacts DEF AfterFailure
<1> QED BY <1>1, <1>2

LEMMA AnsweredType ==
  ASSUME RegistrationAssumption, Types, NEW c \in calls, NEW ok \in BOOLEAN
  PROVE  Answered(c, ok) \in [Shims -> Shim]
<1>0. c \in Call /\ c.by \in Shims /\ shims \in [Shims -> Shim] /\ shims[c.by] \in Shim
  BY DEF Types, Call
<1>1. CASE c.beat
  BY <1>0, <1>1 DEF Answered, Types
<1>2. CASE ~c.beat /\ c.what = "bye"
  BY <1>0, <1>2, ShimFacts DEF Answered
<1>3. CASE ~c.beat /\ c.what = "status"
  <2>1. [shims[c.by] EXCEPT !.stage = "running", !.tries = 0] \in Shim
    BY <1>0 DEF Shim, Stages, Up, Leading
  <2>2. [shims EXCEPT ![c.by].stage = "running", ![c.by].tries = 0] \in [Shims -> Shim]
    BY <2>1, <1>0
  <2> QED BY <2>2, <1>0, <1>3, FailedType DEF Answered
<1>4. CASE ~c.beat /\ c.what \in {"create", "spec"}
  <2> DEFINE x == [shims[c.by] EXCEPT !.stage = "announcing", !.probed = (style # "kaito" /\ upstream),
                                      !.tries = IF style = "dynamo" THEN 1 ELSE Attempts]
  <2>1. x \in Shim
    BY <1>0 DEF Shim, Stages, Up, Leading, RegistrationAssumption, Types
  <2>2. ok => Answered(c, ok) = [shims EXCEPT ![c.by] = x]
    BY <1>0, <1>4 DEF Answered
  <2>3. ~ok => Answered(c, ok) = Gone(c.by)
    BY <1>4 DEF Answered
  <2> QED BY <2>1, <2>2, <2>3, <1>0, ShimFacts
<1> QED BY <1>0, <1>1, <1>2, <1>3, <1>4 DEF Call

(* The types are kept, one lemma for the steps of a process and one for those  *)
(* of a call, the operator and the clock.                                      *)
LEMMA SendType ==
  ASSUME Types, NEW s \in Shims, NEW what \in {"create", "spec", "status", "bye"},
         NEW beat \in BOOLEAN, NEW ready \in BOOLEAN, Send(s, what, beat, ready),
         beat => what = "status"
  PROVE  calls' \subseteq Call /\ \A c \in calls' : c.beat => c.what = "status"
<1>1. shims[s].fresh \in BOOLEAN
  BY DEF Types, Shim
<1> DEFINE new == [by |-> s, what |-> what, beat |-> beat, ready |-> ready, age |-> 0,
                   fresh |-> shims[s].fresh, waited |-> TRUE]
<1>2. new \in Call
  BY <1>1 DEF Call
<1>3. calls' = calls \cup {new}
  BY DEF Send
<1>4. new.beat = beat /\ new.what = what
  OBVIOUS
<1> HIDE DEF new
<1> QED BY <1>2, <1>3, <1>4 DEF Types

LEMMA OrphanedType ==
  ASSUME Types, NEW s \in Shims
  PROVE  Orphaned(calls, s) \subseteq Call /\ \A c \in Orphaned(calls, s) : c.beat => c.what = "status"
<1>1. \A c \in Call : GivenUp(c) \in Call /\ ~GivenUp(c).beat
  <2>1. \A c \in Call : ~GivenUp(c).beat
    BY DEF GivenUp, Call
  <2> QED BY <2>1, CallFacts
<1> QED BY <1>1 DEF Orphaned, Types

(* Where the calls stay in place: they are those of before, or some of them,   *)
(* and whoever is still waited for has a sender at the same stage.             *)
LEMMA CallsKept ==
  ASSUME CallsInPlace, OneMainCall, NEW S \in SUBSET calls, NEW f,
         calls' \subseteq {f[c] : c \in S},
         \A c \in S : f[c].waited => /\ c.waited /\ f[c].by = c.by /\ f[c].what = c.what
                                     /\ f[c].beat = c.beat
                                     /\ shims'[c.by].stage = shims[c.by].stage
  PROVE  CallsInPlace' /\ OneMainCall'
<1>1. CallsInPlace'
  <2> SUFFICES ASSUME NEW d \in calls', d.waited PROVE Waits(d)'
    BY DEF CallsInPlace
  <2>1. PICK c \in S : d = f[c]
    OBVIOUS
  <2>2. Waits(c) /\ d.by = c.by /\ d.what = c.what /\ d.beat = c.beat
        /\ shims'[d.by].stage = shims[c.by].stage
    BY <2>1 DEF CallsInPlace
  <2> QED BY <2>2 DEF Waits
<1>2. OneMainCall'
  BY DEF OneMainCall
<1> QED BY <1>1, <1>2

(* Where a process sends: nobody's stage changes, and a main call is its only  *)
(* one.                                                                        *)
LEMMA SendKept ==
  ASSUME RegistrationInv, NEW s \in Shims, NEW what, NEW beat \in BOOLEAN, NEW ready,
         Send(s, what, beat, ready), beat \/ ~Main(s),
         \A o \in Shims : shims'[o].stage = shims[o].stage,
         UNCHANGED <<config, quiet, left>>,
         beat => what = "status" /\ shims[s].stage = "running",
         what = "status" => shims[s].stage = IF beat THEN "running" ELSE "announcing",
         what \in {"create", "spec"} => shims[s].stage = "registering",
         what = "bye" => shims[s].stage = "stopping",
         what \in {"create", "spec", "status", "bye"}
  PROVE  CallsInPlace' /\ OneMainCall' /\ FarewellHolds' /\ BeatsAreOld'
<1>1. PICK new : /\ calls' = calls \cup {new} /\ new.by = s /\ new.what = what
                 /\ new.beat = beat /\ new.age = 0 /\ new.waited /\ new.fresh = shims[s].fresh
  <2> DEFINE sent == [by |-> s, what |-> what, beat |-> beat, ready |-> ready, age |-> 0,
                      fresh |-> shims[s].fresh, waited |-> TRUE]
  <2>1. calls' = calls \cup {sent}
    BY DEF Send
  <2>2. sent.by = s /\ sent.what = what /\ sent.beat = beat /\ sent.age = 0 /\ sent.waited
        /\ sent.fresh = shims[s].fresh
    OBVIOUS
  <2> HIDE DEF sent
  <2> QED BY <2>1, <2>2
<1>3. \A c \in calls : c.by \in Shims
  BY DEF RegistrationInv, Types, Call
<1>4. CallsInPlace'
  <2>1. \A c \in calls : c.waited => Waits(c)'
    BY <1>3 DEF RegistrationInv, CallsInPlace, Waits
  <2>2. Waits(new)'
    BY <1>1 DEF Waits
  <2> QED BY <1>1, <2>1, <2>2 DEF CallsInPlace
<1>5. OneMainCall'
  BY <1>1 DEF RegistrationInv, OneMainCall, Main
<1>6. FarewellHolds'
  <2>1. shims[s].stage \notin Leading => what # "status"
    BY DEF Leading
  <2> QED BY <1>1, <2>1 DEF RegistrationInv, FarewellHolds
<1>7. BeatsAreOld'
  <2>1. shims[s].stage \in Up
    BY DEF Up, Leading
  <2> QED BY <1>1, <2>1 DEF RegistrationInv, BeatsAreOld
<1> QED BY <1>4, <1>5, <1>6, <1>7

(* Where nothing is written and nobody comes up.                               *)
LEMMA StatusKept ==
  ASSUME RegistrationAssumption, RegistrationInv, NEW S \in SUBSET calls, NEW f,
         calls' \subseteq {f[c] : c \in S},
         \A c \in S : f[c].what = c.what /\ f[c].age = c.age /\ (f[c].fresh => c.fresh),
         \A s \in Shims : /\ shims'[s].stage \in Leading => shims[s].stage \in Leading
                          /\ shims'[s].stage \in Up => shims[s].stage \in Up,
         config' \in {config, NoConfig}, UNCHANGED <<quiet, left>>
  PROVE  FarewellHolds' /\ BeatsAreOld'
<1>1. ~NoConfig.ready /\ NoConfig.beat = Never
  BY DEF NoConfig
<1>2. FarewellHolds'
  BY <1>1 DEF RegistrationInv, FarewellHolds
<1>3. quiet <= Never
  BY DEF RegistrationInv, Types, RegistrationAssumption, Never
<1>4. BeatsAreOld'
  BY <1>1, <1>3 DEF RegistrationInv, BeatsAreOld
<1> QED BY <1>2, <1>4

LEMMA StartKept ==
  ASSUME RegistrationAssumption, RegistrationInv, NEW s \in Shims, Start(s)
  PROVE  RegistrationInv'
<1> USE DEF RegistrationInv
<1>1. shims[s].stage = "new" /\ calls' = calls /\ config' = config /\ quiet' = 0 /\ ~left'
  BY DEF Start
<1> DEFINE up == [shims[s] EXCEPT !.stage = "registering", !.there = config.there, !.fresh = TRUE]
<1>2. up \in Shim /\ shims' = [shims EXCEPT ![s] = up]
  <2>1. shims[s] \in Shim /\ config.there \in BOOLEAN
    BY DEF Types
  <2>2. up \in Shim
    BY <2>1 DEF Shim, Stages, Up, Leading
  <2>3. shims' = [shims EXCEPT ![s] = up]
    BY DEF Start, Types
  <2> QED BY <2>2, <2>3
<1> HIDE DEF up
<1>3. Types'
  <2>1. style' = style /\ upstream' = upstream /\ left' = FALSE
    BY DEF Start
  <2>2. shims' \in [Shims -> Shim]
    BY <1>2 DEF Types
  <2>3. quiet' \in 0..(Stale + 1)
    BY <1>1 DEF RegistrationAssumption
  <2> QED BY <1>1, <2>1, <2>2, <2>3 DEF Types
<1>4. \A c \in calls : c.waited => c.by # s
  BY <1>1 DEF CallsInPlace, Waits, Types, Call
<1>5. CallsInPlace'
  BY <1>1, <1>2, <1>4 DEF CallsInPlace, Waits, Types, Call
<1>6. OneMainCall' /\ FarewellHolds'
  BY <1>1 DEF OneMainCall, FarewellHolds
<1>7. BeatsAreOld'
  BY <1>1 DEF BeatsAreOld, Types, Call, Never
<1> QED BY <1>3, <1>5, <1>6, <1>7

LEMMA RegisterKept ==
  ASSUME RegistrationAssumption, RegistrationInv, NEW s \in Shims, Register(s)
  PROVE  RegistrationInv'
<1> DEFINE what == IF shims[s].there THEN "spec" ELSE "create"
<1>1. Send(s, what, FALSE, FALSE) /\ what \in {"create", "spec"} /\ ~Main(s)
      /\ shims[s].stage = "registering"
      /\ UNCHANGED <<style, config, upstream, shims, quiet, left>>
  BY DEF Register
<1> HIDE DEF what
<1>2. CallsInPlace' /\ OneMainCall' /\ FarewellHolds' /\ BeatsAreOld'
  BY <1>1, SendKept
<1>3. Types'
  BY <1>1, SendType DEF Types, RegistrationInv
<1> QED BY <1>2, <1>3 DEF RegistrationInv

(* Where the calls, the config and everybody's stage stay as they are, but for *)
(* somebody who is gone and whose calls are given up, and somebody who stops.  *)
LEMMA GivenUpKept ==
  ASSUME RegistrationAssumption, RegistrationInv, NEW s \in Shims,
         calls' = calls \/ calls' = Orphaned(calls, s),
         shims' \in [Shims -> Shim],
         \A o \in Shims : o # s => shims'[o].stage = shims[o].stage,
         \/ shims'[s].stage = shims[s].stage
         \/ /\ shims'[s].stage = "gone"
            /\ calls' = Orphaned(calls, s) \/ \A c \in calls : c.waited => c.by # s
         \/ /\ shims[s].stage = "running" /\ shims'[s].stage = "stopping"
            /\ calls' = Orphaned(calls, s),
         UNCHANGED <<style, config, quiet, left>>, upstream' \in BOOLEAN
  PROVE  RegistrationInv'
<1> USE DEF RegistrationInv
<1>1. Types'
  BY OrphanedType DEF Types
<1>2. \A o \in Shims : /\ shims'[o].stage \in Leading => shims[o].stage \in Leading
                       /\ shims'[o].stage \in Up => shims[o].stage \in Up
  BY DEF Leading, Up
<1>3. CASE calls' = calls
  <2> DEFINE f == [c \in calls |-> c]
  <2>1. calls' \subseteq {f[c] : c \in calls}
    BY <1>3
  <2>2. \A c \in calls : f[c] = c /\ c.by \in Shims
    BY DEF Types, Call
  <2>3. \A c \in calls : c.waited => shims'[c.by].stage = shims[c.by].stage
    <3>1. CASE shims'[s].stage = shims[s].stage
      BY <2>2, <3>1
    <3>2. CASE \A c \in calls : c.waited => c.by # s
      BY <2>2, <3>2
    <3>3. CASE calls' = Orphaned(calls, s)
      <4>1. \A c \in calls : c.by # s \/ ~c.waited
        <5>1. \A c \in calls : c \in Call /\ ~GivenUp(c).waited /\ GivenUp(c).by = c.by
          BY CallFacts DEF Types
        <5> QED BY <1>3, <3>3, <5>1 DEF Orphaned
      <4> QED BY <2>2, <4>1
    <3> QED BY <3>1, <3>2, <3>3
  <2> HIDE DEF f
  <2>4. \A c \in calls : f[c].waited => /\ c.waited /\ f[c].by = c.by /\ f[c].what = c.what
                                         /\ f[c].beat = c.beat
                                         /\ shims'[c.by].stage = shims[c.by].stage
    BY <2>2, <2>3
  <2>5. CallsInPlace' /\ OneMainCall'
    BY <2>1, <2>4, CallsKept
  <2>6. \A c \in calls : f[c].what = c.what /\ f[c].age = c.age /\ (f[c].fresh => c.fresh)
    BY <2>2
  <2>7. FarewellHolds' /\ BeatsAreOld'
    BY <1>2, <2>1, <2>6, StatusKept
  <2> QED BY <1>1, <2>5, <2>7
<1>4. CASE calls' = Orphaned(calls, s)
  <2> DEFINE f == [c \in calls |-> IF c.by = s THEN GivenUp(c) ELSE c]
  <2>1. calls' \subseteq {f[c] : c \in calls}
    BY <1>4 DEF Orphaned
  <2>2. \A c \in calls : /\ f[c].waited => f[c] = c /\ c.by # s /\ c.by \in Shims
                         /\ f[c].what = c.what /\ f[c].age = c.age /\ f[c].fresh = c.fresh
    <3>1. \A c \in calls : c \in Call /\ c.by \in Shims
      BY DEF Types, Call
    <3> QED BY <3>1, CallFacts
  <2> HIDE DEF f
  <2>4. \A c \in calls : f[c].waited => /\ c.waited /\ f[c].by = c.by /\ f[c].what = c.what
                                         /\ f[c].beat = c.beat
                                         /\ shims'[c.by].stage = shims[c.by].stage
    BY <2>2
  <2>5. CallsInPlace' /\ OneMainCall'
    BY <2>1, <2>4, CallsKept
  <2>6. \A c \in calls : f[c].what = c.what /\ f[c].age = c.age /\ (f[c].fresh => c.fresh)
    BY <2>2
  <2>7. FarewellHolds' /\ BeatsAreOld'
    BY <1>2, <2>1, <2>6, StatusKept
  <2> QED BY <1>1, <2>5, <2>7
<1> QED BY <1>3, <1>4

LEMMA FailureStage ==
  ASSUME NEW s \in Shims, shims \in [Shims -> Shim]
  PROVE  /\ \A o \in Shims : o # s => AfterFailure(s)[o] = shims[o]
         /\ AfterFailure(s)[s].stage \in {shims[s].stage, "gone"}
  BY ShimFacts DEF AfterFailure

LEMMA AnnounceKept ==
  ASSUME RegistrationAssumption, RegistrationInv, NEW s \in Shims, Announce(s)
  PROVE  RegistrationInv'
<1>0. shims \in [Shims -> Shim] /\ UNCHANGED <<style, config, upstream, quiet, left>>
      /\ shims[s].stage = "announcing" /\ ~Main(s) /\ upstream \in BOOLEAN
  BY DEF Announce, RegistrationInv, Types
<1>1. CASE shims[s].there
  <2>1. PICK ready \in BOOLEAN : Send(s, "status", FALSE, ready) /\ UNCHANGED shims
    BY <1>1 DEF Announce
  <2>2. CallsInPlace' /\ OneMainCall' /\ FarewellHolds' /\ BeatsAreOld'
    BY <1>0, <2>1, SendKept
  <2>3. Types'
    BY <1>0, <2>1, SendType DEF Types, RegistrationInv
  <2> QED BY <2>2, <2>3 DEF RegistrationInv
<1>2. CASE ~shims[s].there
  <2>1. shims' = AfterFailure(s) /\ calls' = calls
    BY <1>2 DEF Announce
  <2>2. \A c \in calls : c.waited => c.by # s
    BY <1>0 DEF Main, RegistrationInv, CallsInPlace, Waits, Types, Call
  <2>3. shims' \in [Shims -> Shim]
    BY <1>0, <2>1, FailedType
  <2>4. /\ \A o \in Shims : o # s => shims'[o].stage = shims[o].stage
        /\ shims'[s].stage \in {shims[s].stage, "gone"}
    BY <1>0, <2>1, FailureStage
  <2> QED BY <1>0, <2>1, <2>2, <2>3, <2>4, GivenUpKept
<1> QED BY <1>1, <1>2

LEMMA HeartbeatKept ==
  ASSUME RegistrationAssumption, RegistrationInv, NEW s \in Shims, Heartbeat(s)
  PROVE  RegistrationInv'
<1>0. UNCHANGED <<style, config, upstream, quiet, left>> /\ shims[s].stage = "running"
      /\ upstream \in BOOLEAN
  BY DEF Heartbeat, RegistrationInv, Types
<1>1. /\ shims' \in [Shims -> Shim] /\ \A o \in Shims : shims'[o].stage = shims[o].stage
  <2>1. shims \in [Shims -> Shim] /\ shims' = [shims EXCEPT ![s] = [shims[s] EXCEPT !.due = FALSE]]
    BY DEF Heartbeat, RegistrationInv, Types
  <2>2. [shims[s] EXCEPT !.due = FALSE] \in Shim /\ [shims[s] EXCEPT !.due = FALSE].stage = shims[s].stage
    BY <2>1 DEF Shim
  <2> QED BY <2>1, <2>2
<1>2. CASE shims[s].there
  <2>1. PICK ready \in BOOLEAN : Send(s, "status", TRUE, ready)
    BY <1>2 DEF Heartbeat
  <2>2. CallsInPlace' /\ OneMainCall' /\ FarewellHolds' /\ BeatsAreOld'
    BY <1>0, <1>1, <2>1, SendKept
  <2>3. Types'
    BY <1>0, <1>1, <2>1, SendType DEF Types, RegistrationInv
  <2> QED BY <2>2, <2>3 DEF RegistrationInv
<1>3. CASE ~shims[s].there
  <2>1. calls' = calls
    BY <1>3 DEF Heartbeat
  <2> QED BY <1>0, <1>1, <2>1, GivenUpKept
<1> QED BY <1>2, <1>3

LEMMA StopKept ==
  ASSUME RegistrationAssumption, RegistrationInv, NEW s \in Shims, Stop(s) \/ Kill(s)
  PROVE  RegistrationInv'
<1>0. UNCHANGED <<style, config, upstream, quiet, left>> /\ calls' = Orphaned(calls, s)
      /\ upstream \in BOOLEAN /\ shims \in [Shims -> Shim]
  BY DEF Stop, Kill, RegistrationInv, Types
<1>1. CASE shims' = Gone(s)
  BY <1>0, <1>1, ShimFacts, GivenUpKept
<1>2. CASE shims' # Gone(s)
  <2> DEFINE x == [shims[s] EXCEPT !.stage = "stopping", !.due = FALSE]
  <2>1. shims[s].stage = "running" /\ shims' = [shims EXCEPT ![s] = x]
    BY <1>0, <1>2 DEF Stop, Kill
  <2>2. x \in Shim /\ x.stage = "stopping"
    BY <1>0 DEF Shim, Stages, Up, Leading
  <2> HIDE DEF x
  <2> QED BY <1>0, <2>1, <2>2, GivenUpKept
<1> QED BY <1>1, <1>2

LEMMA UnregisterKept ==
  ASSUME RegistrationAssumption, RegistrationInv, NEW s \in Shims, Unregister(s)
  PROVE  RegistrationInv'
<1>0. shims \in [Shims -> Shim] /\ UNCHANGED <<style, config, upstream, quiet, left>>
      /\ shims[s].stage = "stopping" /\ ~Main(s) /\ upstream \in BOOLEAN
  BY DEF Unregister, RegistrationInv, Types
<1>1. CASE shims[s].there
  <2>1. Send(s, "bye", FALSE, FALSE) /\ UNCHANGED shims
    BY <1>1 DEF Unregister
  <2>2. CallsInPlace' /\ OneMainCall' /\ FarewellHolds' /\ BeatsAreOld'
    BY <1>0, <2>1, SendKept
  <2>3. Types'
    BY <1>0, <2>1, SendType DEF Types, RegistrationInv
  <2> QED BY <2>2, <2>3 DEF RegistrationInv
<1>2. CASE ~shims[s].there
  <2>1. shims' = Gone(s) /\ calls' = calls
    BY <1>2 DEF Unregister
  <2>2. \A c \in calls : c.waited => c.by # s
    BY <1>0 DEF Main, RegistrationInv, CallsInPlace, Waits, Types, Call
  <2> QED BY <1>0, <2>1, <2>2, ShimFacts, GivenUpKept
<1> QED BY <1>1, <1>2

LEMMA DeliverKept ==
  ASSUME RegistrationAssumption, RegistrationInv, NEW s \in Shims, Deliver(s)
  PROVE  RegistrationInv'
<1> DEFINE x == [shims[s] EXCEPT !.there = config.there, !.fresh = TRUE]
<1>1. shims \in [Shims -> Shim] /\ config.there \in BOOLEAN /\ upstream \in BOOLEAN
  BY DEF RegistrationInv, Types
<1>2. x \in Shim /\ x.stage = shims[s].stage
  BY <1>1 DEF Shim
<1>3. shims' = [shims EXCEPT ![s] = x] /\ UNCHANGED <<style, config, upstream, calls, quiet, left>>
  BY <1>1 DEF Deliver
<1> HIDE DEF x
<1> QED BY <1>1, <1>2, <1>3, GivenUpKept

LEMMA LoseKept ==
  ASSUME RegistrationAssumption, RegistrationInv, NEW c \in calls, Lose(c)
  PROVE  RegistrationInv'
  BY DEF Lose, RegistrationInv, Types, CallsInPlace, Waits, OneMainCall, FarewellHolds, BeatsAreOld

LEMMA ChangeKept ==
  ASSUME RegistrationAssumption, RegistrationInv, Change
  PROVE  RegistrationInv'
<1> USE DEF RegistrationInv
<1>0. shims \in [Shims -> Shim] /\ calls \subseteq Call /\ upstream \in BOOLEAN
      /\ UNCHANGED <<style, quiet, left>>
  BY DEF Change, Types
<1>1. CASE UNCHANGED <<config, shims, calls>> /\ upstream' = ~upstream
  BY <1>0, <1>1 DEF Types, CallsInPlace, Waits, OneMainCall, FarewellHolds, BeatsAreOld
<1>2. CASE /\ config' = NoConfig /\ UNCHANGED upstream
           /\ shims' = [s \in Shims |-> [shims[s] EXCEPT !.fresh = FALSE]]
           /\ calls' = {[c EXCEPT !.fresh = FALSE] : c \in calls}
  <2> DEFINE f == [c \in calls |-> [c EXCEPT !.fresh = FALSE]]
  <2>1. calls' \subseteq {f[c] : c \in calls}
    BY <1>2
  <2>2. \A c \in calls : /\ f[c].by = c.by /\ f[c].what = c.what /\ f[c].beat = c.beat
                         /\ f[c].waited = c.waited /\ f[c].age = c.age /\ ~f[c].fresh
                         /\ f[c] \in Call /\ c.by \in Shims
    BY <1>0 DEF Call
  <2> HIDE DEF f
  <2>3. shims' \in [Shims -> Shim] /\ \A s \in Shims : shims'[s].stage = shims[s].stage
    <3>1. \A s \in Shims : /\ [shims[s] EXCEPT !.fresh = FALSE] \in Shim
                           /\ [shims[s] EXCEPT !.fresh = FALSE].stage = shims[s].stage
      BY <1>0 DEF Shim
    <3> QED BY <1>2, <3>1
  <2>4. Types'
    <3>1. config' \in [there : BOOLEAN, ready : BOOLEAN, beat : 0..Never,
                       why : {"none", "probed", "Unregistered"}]
      BY <1>2 DEF NoConfig, Never, RegistrationAssumption
    <3> QED BY <1>0, <1>2, <2>1, <2>2, <2>3, <3>1 DEF Types
  <2>5. \A c \in calls : f[c].waited => /\ c.waited /\ f[c].by = c.by /\ f[c].what = c.what
                                         /\ f[c].beat = c.beat
                                         /\ shims'[c.by].stage = shims[c.by].stage
    BY <2>2, <2>3
  <2>6. CallsInPlace' /\ OneMainCall'
    BY <2>1, <2>5, CallsKept
  <2>7. \A c \in calls : f[c].what = c.what /\ f[c].age = c.age /\ (f[c].fresh => c.fresh)
    BY <2>2
  <2>8. FarewellHolds' /\ BeatsAreOld'
    BY ZenonT(40), <1>0, <1>2, <2>1, <2>3, <2>7, StatusKept
  <2> QED BY <2>4, <2>6, <2>8
<1> QED BY <1>1, <1>2 DEF Change

LEMMA TickKept ==
  ASSUME RegistrationAssumption, RegistrationInv, Tick
  PROVE  RegistrationInv'
<1> USE DEF RegistrationInv
<1>0. shims \in [Shims -> Shim] /\ calls \subseteq Call /\ UNCHANGED <<style, upstream, left>>
      /\ Stale \in Nat /\ quiet \in 0..(Stale + 1) /\ config.beat \in 0..Never
      /\ \A c \in calls : ~c.waited /\ c.age = 0
  BY DEF Tick, Types, RegistrationAssumption
<1>1. /\ config'.there = config.there /\ config'.ready = config.ready /\ config'.why = config.why
      /\ config'.beat = Older(config.beat)
  BY DEF Tick, Types
<1>2. /\ Older(config.beat) \in 0..Never /\ Older(quiet) \in 0..(Stale + 1)
      /\ quiet <= config.beat => Older(quiet) <= Older(config.beat)
      /\ config.beat = Never <=> Older(config.beat) = Never
  BY <1>0 DEF Older, Never
<1>3. shims' \in [Shims -> Shim] /\ \A s \in Shims : shims'[s].stage = shims[s].stage
  <2>1. \A s \in Shims : \A b \in BOOLEAN : /\ [shims[s] EXCEPT !.due = b] \in Shim
                                            /\ [shims[s] EXCEPT !.due = b].stage = shims[s].stage
    BY <1>0 DEF Shim
  <2>2. shims' = [s \in Shims |-> [shims[s] EXCEPT !.due = (shims[s].stage = "running")]]
    BY DEF Tick
  <2> QED BY <2>1, <2>2
<1>4. \A d \in calls' : /\ d \in Call /\ ~d.waited /\ d.age = 1
                        /\ \E c \in calls : d.what = c.what /\ d.beat = c.beat /\ d.fresh = c.fresh
  <2>1. \A c \in calls : /\ [c EXCEPT !.age = 1] \in Call /\ ~[c EXCEPT !.age = 1].waited
                         /\ [c EXCEPT !.age = 1].age = 1 /\ [c EXCEPT !.age = 1].what = c.what
                         /\ [c EXCEPT !.age = 1].beat = c.beat /\ [c EXCEPT !.age = 1].fresh = c.fresh
    BY <1>0 DEF Call
  <2>2. calls' = {[c EXCEPT !.age = 1] : c \in calls}
    BY DEF Tick
  <2> QED BY <2>1, <2>2
<1>5. Types'
  <2>1. config' \in [there : BOOLEAN, ready : BOOLEAN, beat : 0..Never,
                     why : {"none", "probed", "Unregistered"}]
    BY <1>0, <1>2 DEF Tick, Types
  <2>2. quiet' \in 0..(Stale + 1)
    BY <1>0, <1>2 DEF Tick
  <2> QED BY <1>0, <1>3, <1>4, <2>1, <2>2 DEF Types
<1>6. CallsInPlace' /\ OneMainCall'
  BY <1>4 DEF CallsInPlace, OneMainCall
<1>7. FarewellHolds'
  BY <1>0, <1>1, <1>2, <1>3, <1>4 DEF FarewellHolds
<1>8. BeatsAreOld'
  <2>1. (\E s \in Shims : shims'[s].stage \in Up) => quiet' = 0
    BY <1>3 DEF Tick, Up, Leading
  <2>2. quiet' \in {0, Older(quiet)}
    BY DEF Tick
  <2>3. quiet' <= config'.beat
    BY <1>0, <1>1, <1>2, <2>2 DEF BeatsAreOld
  <2>4. \A c \in calls' : quiet' <= c.age
    <3> SUFFICES ASSUME NEW c \in calls' PROVE quiet' <= c.age
      OBVIOUS
    <3>1. calls # {}
      BY <1>4
    <3>2. quiet = 0
      BY <1>0, <3>1 DEF BeatsAreOld
    <3>3. Older(quiet) <= 1
      BY <1>0, <3>2 DEF Older
    <3> QED BY <1>4, <2>2, <3>3
  <2> QED BY <2>1, <2>3, <2>4 DEF BeatsAreOld
<1> QED BY <1>5, <1>6, <1>7, <1>8

(* How the sender goes on: nobody else's stage changes.                        *)
LEMMA AnsweredStages ==
  ASSUME RegistrationInv, NEW c \in calls, c.waited, NEW ok \in BOOLEAN
  PROVE  /\ \A o \in Shims : o # c.by => Answered(c, ok)[o] = shims[o]
         /\ c.beat => Answered(c, ok) = shims
         /\ c.what = "bye" => Answered(c, ok)[c.by].stage = "gone"
         /\ ~ok \/ c.what = "bye" => Answered(c, ok)[c.by].stage \in {shims[c.by].stage, "gone"}
         /\ ~c.beat /\ c.what # "bye" => shims[c.by].stage \in {"registering", "announcing"}
<1> USE DEF RegistrationInv
<1>0. c \in Call /\ c.by \in Shims /\ shims \in [Shims -> Shim] /\ (c.beat => c.what = "status")
      /\ Waits(c)
  BY DEF Types, Call, CallsInPlace
<1>1. CASE c.beat
  BY <1>0, <1>1 DEF Answered
<1>2. CASE c.what = "bye"
  BY <1>0, <1>2, ShimFacts DEF Answered, Waits
<1>3. CASE ~c.beat /\ c.what = "status"
  BY <1>0, <1>3, FailureStage DEF Answered, Waits
<1>4. CASE c.what \in {"create", "spec"}
  BY <1>0, <1>4, ShimFacts DEF Answered, Waits
<1> QED BY <1>0, <1>1, <1>2, <1>3, <1>4 DEF Call

(* Where an answer, or an error in its stead, ends the wait for c: of the      *)
(* calls of S, as they are then, those of a process that exits are given up.   *)
EndsWait(c, S, g, base, after) ==
  /\ c.waited => /\ \A o \in Shims : o # c.by => after[o] = shims[o]
                 /\ c.beat => after = shims
                 /\ c.what = "bye" => after[c.by].stage = "gone"
  /\ ~c.waited => after = shims
  /\ \A o \in Shims : shims'[o].stage = after[o].stage
  /\ calls' = Left(base, after) /\ \A y \in base : \E x \in S : y = g[x]
  /\ \A x \in S : /\ g[x] \in Call /\ g[x].by = x.by /\ g[x].what = x.what /\ g[x].age = x.age
                  /\ g[x].beat => x.beat
                  /\ g[x].waited => x.waited /\ x # c /\ g[x].beat = x.beat

LEMMA AnsweredKept ==
  ASSUME RegistrationInv, NEW c \in calls, NEW S \in SUBSET calls, NEW g, NEW base, NEW after,
         EndsWait(c, S, g, base, after)
  PROVE  /\ CallsInPlace' /\ OneMainCall' /\ calls' \subseteq Call
         /\ \A d \in calls' : /\ d.beat => d.what = "status"
                              /\ \E x \in S : d.what = x.what /\ d.age = x.age /\ d.fresh = g[x].fresh
<1> USE DEF EndsWait
<1> USE DEF RegistrationInv
<1> DEFINE f == [x \in S |-> IF after[g[x].by].stage = "gone" THEN GivenUp(g[x]) ELSE g[x]]
<1>1. calls' \subseteq {f[x] : x \in S}
  BY DEF Left
<1>2. \A x \in S : /\ f[x] \in Call /\ f[x].by = x.by /\ f[x].what = x.what /\ f[x].age = x.age
                   /\ f[x].fresh = g[x].fresh /\ (f[x].beat => x.beat)
                   /\ f[x].waited => /\ x.waited /\ x # c /\ f[x].beat = x.beat
                                     /\ after[x.by].stage # "gone"
  <2> SUFFICES ASSUME NEW x \in S
               PROVE  /\ f[x] \in Call /\ f[x].by = x.by /\ f[x].what = x.what /\ f[x].age = x.age
                      /\ f[x].fresh = g[x].fresh /\ (f[x].beat => x.beat)
                      /\ f[x].waited => /\ x.waited /\ x # c /\ f[x].beat = x.beat
                                        /\ after[x.by].stage # "gone"
    OBVIOUS
  <2>0. PICK y \in Call : /\ y = g[x] /\ y.by = x.by /\ y.what = x.what /\ y.age = x.age
                          /\ y.beat => x.beat
                          /\ y.waited => x.waited /\ x # c /\ y.beat = x.beat
    OBVIOUS
  <2>1. ~GivenUp(y).beat
    BY DEF GivenUp, Call
  <2>2. /\ GivenUp(y) \in Call /\ ~GivenUp(y).waited
        /\ GivenUp(y).by = y.by /\ GivenUp(y).what = y.what
        /\ GivenUp(y).age = y.age /\ GivenUp(y).fresh = y.fresh
    BY CallFacts
  <2>3. f[x] = IF after[x.by].stage = "gone" THEN GivenUp(y) ELSE y
    BY <2>0
  <2> HIDE DEF f
  <2>4. CASE after[x.by].stage = "gone"
    BY <2>0, <2>1, <2>2, <2>3, <2>4
  <2>5. CASE after[x.by].stage # "gone"
    BY <2>0, <2>3, <2>5
  <2> QED BY <2>4, <2>5
<1> HIDE DEF f
<1>3. ASSUME NEW x \in S, f[x].waited PROVE after[x.by].stage = shims[x.by].stage
  <2>0. x.waited /\ x # c /\ after[x.by].stage # "gone" /\ x.by \in Shims /\ Waits(x)
        /\ (x.beat => x.what = "status")
    BY <1>2, <1>3 DEF CallsInPlace, Types, Call
  <2>1. CASE ~c.waited \/ x.by # c.by \/ c.beat
    BY <2>0, <2>1, AnsweredStages
  <2>2. CASE c.waited /\ x.by = c.by /\ ~c.beat
    <3>1. c.what # "bye"
      BY <2>0, <2>2, AnsweredStages
    <3>2. shims[c.by].stage \in {"registering", "announcing"}
      BY <2>2, <3>1, AnsweredStages
    <3>3. x.beat
      BY <2>0, <2>2 DEF OneMainCall
    <3>4. shims[x.by].stage = "running"
      BY <2>0, <3>3 DEF Waits
    <3> QED BY <2>2, <3>2, <3>4
  <2> QED BY <2>1, <2>2
<1>4. \A x \in S : f[x].waited => /\ x.waited /\ f[x].by = x.by /\ f[x].what = x.what
                                  /\ f[x].beat = x.beat
                                  /\ shims'[x.by].stage = shims[x.by].stage
  BY <1>2, <1>3 DEF Types, Call
<1>5. CallsInPlace' /\ OneMainCall'
  BY <1>1, <1>4, CallsKept
<1>6. \A d \in calls' : /\ d.beat => d.what = "status"
                        /\ \E x \in S : d.what = x.what /\ d.age = x.age /\ d.fresh = g[x].fresh
  BY <1>1, <1>2 DEF Types
<1> QED BY <1>1, <1>2, <1>5, <1>6

LEMMA FailKept ==
  ASSUME RegistrationAssumption, RegistrationInv, NEW c \in calls, Fail(c)
  PROVE  RegistrationInv'
<1> USE DEF RegistrationInv
<1>a. PICK g : g = [x \in calls |-> IF x = c THEN GivenUp(c) ELSE x]
  OBVIOUS
<1>b. PICK after : after = Answered(c, FALSE)
  OBVIOUS
<1>0. /\ c.waited /\ UNCHANGED <<style, config, upstream, quiet, left>>
      /\ calls \subseteq Call /\ shims' = after
      /\ calls' = Left((calls \ {c}) \cup {GivenUp(c)}, after)
  BY <1>b DEF Fail, Types
<1>1. \A x \in calls : /\ g[x] \in Call /\ g[x].by = x.by /\ g[x].what = x.what /\ g[x].age = x.age
                       /\ g[x].beat => x.beat
                       /\ g[x].waited => x.waited /\ x # c /\ g[x].beat = x.beat
  <2>1. ~GivenUp(c).beat
    BY <1>0 DEF GivenUp, Call
  <2> QED BY <1>a, <1>0, <2>1, CallFacts
<1>2. \A y \in (calls \ {c}) \cup {GivenUp(c)} : \E x \in calls : y = g[x]
  BY <1>a
<1>3. \A x \in calls : g[x].fresh = x.fresh
  BY <1>a, <1>0, CallFacts
<1>4. shims' \in [Shims -> Shim]
  BY <1>b, <1>0, AnsweredType
<1>5. \A o \in Shims : shims'[o].stage \in {shims[o].stage, "gone"}
  BY <1>b, <1>0, AnsweredStages
<1>6. /\ CallsInPlace' /\ OneMainCall' /\ calls' \subseteq Call
      /\ \A d \in calls' : /\ d.beat => d.what = "status"
                           /\ \E x \in calls : d.what = x.what /\ d.age = x.age /\ d.fresh = g[x].fresh
  <2>1. PICK base : calls' = Left(base, after) /\ \A y \in base : \E x \in calls : y = g[x]
    BY <1>0, <1>2
  <2>2. c.waited => /\ \A o \in Shims : o # c.by => after[o] = shims[o]
                    /\ c.beat => after = shims
                    /\ c.what = "bye" => after[c.by].stage = "gone"
    BY <1>b, <1>0, AnsweredStages
  <2>3. ~c.waited => after = shims
    BY <1>0
  <2>4. \A o \in Shims : shims'[o].stage = after[o].stage
    BY <1>0
  <2>5. EndsWait(c, calls, g, base, after)
    BY <1>1, <2>1, <2>2, <2>3, <2>4 DEF EndsWait
  <2> QED BY <2>5, AnsweredKept
<1>7. Types'
  BY <1>0, <1>4, <1>6 DEF Types
<1>8. FarewellHolds'
  <2>1. \A o \in Shims : shims'[o].stage \in Leading => shims[o].stage \in Leading
    BY <1>5 DEF Leading
  <2>2. \A d \in calls' : \E x \in calls : d.what = x.what /\ d.fresh = x.fresh
    BY <1>3, <1>6
  <2> QED BY <1>0, <2>1, <2>2 DEF FarewellHolds
<1>9. BeatsAreOld'
  BY <1>0, <1>5, <1>6 DEF BeatsAreOld, Leading, Up
<1> QED BY <1>6, <1>7, <1>8, <1>9

(* What is written is a config, no younger than the call.                      *)
LEMMA WrittenFacts ==
  ASSUME RegistrationAssumption, RegistrationInv, NEW c \in calls
  PROVE  /\ Written(c) \in [there : BOOLEAN, ready : BOOLEAN, beat : 0..Never,
                            why : {"none", "probed", "Unregistered"}]
         /\ Written(c).beat \in {config.beat, c.age, Never}
         /\ c.what = "bye" => ~Written(c).ready /\ Written(c).why = "Unregistered"
         /\ c.what = "spec" => Written(c) = config
         /\ c.what = "create" => ~Written(c).ready /\ Written(c).beat = Never
<1>0. /\ c \in Call /\ Stale \in Nat
      /\ config \in [there : BOOLEAN, ready : BOOLEAN, beat : 0..Never,
                     why : {"none", "probed", "Unregistered"}]
  BY DEF RegistrationAssumption, RegistrationInv, Types
<1>1. c.age \in 0..Never /\ Never \in 0..Never /\ c.ready \in BOOLEAN
      /\ c.what \in {"create", "spec", "status", "bye"}
  BY <1>0 DEF Call, Never
<1>2. CASE c.what = "create"
  BY <1>1, <1>2 DEF Written, NoConfig
<1>3. CASE c.what = "spec"
  BY <1>0, <1>3 DEF Written
<1>4. CASE c.what = "status"
  BY <1>0, <1>1, <1>4 DEF Written
<1>5. CASE c.what = "bye"
  BY <1>0, <1>1, <1>5 DEF Written
<1> QED BY <1>1, <1>2, <1>3, <1>4, <1>5

LEMMA ArriveKept ==
  ASSUME RegistrationAssumption, RegistrationInv, NEW c \in calls, Arrive(c)
  PROVE  RegistrationInv'
<1> USE DEF RegistrationInv
<1>1. PICK ok \in BOOLEAN : ok = Accepted(c)
  BY DEF Accepted, Types, Call
<1>2. PICK after : /\ after = IF c.waited THEN Answered(c, ok) ELSE shims
                   /\ after = IF c.waited THEN Answered(c, Accepted(c)) ELSE shims
  BY <1>1
<1>3. /\ ok => /\ config' = Written(c)
               /\ shims' = [s \in Shims |-> [after[s] EXCEPT !.fresh = FALSE]]
               /\ calls' = Left({[o EXCEPT !.fresh = FALSE] : o \in calls \ {c}}, after)
               /\ left' = (left \/ (c.what = "bye" /\ \A s \in Shims : shims[s].stage \notin Leading))
      /\ ~ok => shims' = after /\ calls' = Left(calls \ {c}, after) /\ UNCHANGED <<config, left>>
      /\ UNCHANGED <<style, upstream, quiet>>
  BY <1>1, <1>2 DEF Arrive
<1>4. after \in [Shims -> Shim] /\ calls \subseteq Call
  BY <1>2, AnsweredType DEF Types
<1>5. shims' \in [Shims -> Shim] /\ \A s \in Shims : shims'[s].stage = after[s].stage
  <2>1. \A s \in Shims : /\ [after[s] EXCEPT !.fresh = FALSE] \in Shim
                         /\ [after[s] EXCEPT !.fresh = FALSE].stage = after[s].stage
    BY <1>4 DEF Shim
  <2> QED BY <1>3, <1>4, <2>1
<1>6. /\ c.waited => /\ \A o \in Shims : o # c.by => after[o] = shims[o]
                     /\ c.beat => after = shims
                     /\ c.what = "bye" => after[c.by].stage = "gone"
      /\ ~c.waited => after = shims
  BY <1>2, AnsweredStages
<1>a. PICK S \in SUBSET calls : S = calls \ {c}
  OBVIOUS
<1>7. PICK g : \A x \in S : g[x] = IF ok THEN [x EXCEPT !.fresh = FALSE] ELSE x
  <2> DEFINE h == [x \in S |-> IF ok THEN [x EXCEPT !.fresh = FALSE] ELSE x]
  <2>1. \A x \in S : h[x] = IF ok THEN [x EXCEPT !.fresh = FALSE] ELSE x
    OBVIOUS
  <2> HIDE DEF h
  <2> QED BY <2>1
<1>8. PICK base : calls' = Left(base, after) /\ \A y \in base : \E x \in S : y = g[x]
  <2>1. CASE ok
    <3>1. calls' = Left({[o EXCEPT !.fresh = FALSE] : o \in S}, after)
      BY <1>3, <1>a, <2>1
    <3>2. \A y \in {[o EXCEPT !.fresh = FALSE] : o \in S} : \E x \in S : y = g[x]
      BY <1>7, <2>1
    <3> QED BY <3>1, <3>2
  <2>2. CASE ~ok
    <3>1. calls' = Left(S, after)
      BY <1>3, <1>a, <2>2
    <3> QED BY <1>7, <2>2, <3>1
  <2> QED BY <2>1, <2>2
<1>9. ASSUME NEW x \in S
      PROVE  /\ g[x] \in Call /\ g[x].by = x.by /\ g[x].what = x.what /\ g[x].age = x.age
             /\ g[x].beat => x.beat
             /\ g[x].waited => x.waited /\ x # c /\ g[x].beat = x.beat
             /\ g[x].fresh => x.fresh /\ ~ok
  <2>1. x \in Call /\ x # c
    BY <1>4, <1>a
  <2>2. CASE ok
    <3> DEFINE y == [x EXCEPT !.fresh = FALSE]
    <3>1. /\ y \in Call /\ y.by = x.by /\ y.what = x.what /\ y.age = x.age
          /\ y.beat = x.beat /\ y.waited = x.waited /\ ~y.fresh
      BY <2>1 DEF Call
    <3>2. g[x] = y
      BY <1>7, <2>2
    <3> HIDE DEF y
    <3> QED BY <2>1, <3>1, <3>2
  <2>3. CASE ~ok
    <3>1. g[x] = x
      BY <1>7, <2>3
    <3> QED BY <2>1, <2>3, <3>1
  <2> QED BY <2>2, <2>3
<1>10. /\ CallsInPlace' /\ OneMainCall' /\ calls' \subseteq Call
       /\ \A d \in calls' : /\ d.beat => d.what = "status"
                            /\ \E x \in S : /\ d.what = x.what /\ d.age = x.age
                                            /\ d.fresh = g[x].fresh
  <2>1. EndsWait(c, S, g, base, after)
    BY <1>5, <1>6, <1>8, <1>9 DEF EndsWait
  <2> QED BY <2>1, AnsweredKept
<1>b. \A d \in calls' : \E x \in calls : d.what = x.what /\ (d.fresh => x.fresh /\ ~ok)
  BY <1>9, <1>10
<1>11. Types'
  <2>1. left' \in BOOLEAN /\ style' = style /\ upstream' = upstream /\ quiet' = quiet
    BY <1>3 DEF Types
  <2>2. config' \in [there : BOOLEAN, ready : BOOLEAN, beat : 0..Never,
                     why : {"none", "probed", "Unregistered"}]
    BY <1>3, WrittenFacts DEF Types
  <2> QED BY <1>5, <1>10, <2>1, <2>2 DEF Types
<1>12. /\ c.waited => shims[c.by].stage \in Up
       /\ c.waited /\ c.what # "bye" => shims[c.by].stage \in Leading
  BY <1>4 DEF CallsInPlace, Waits, Up, Leading, Types, Call
<1>13. /\ \A s \in Shims : shims'[s].stage \in Leading => \E o \in Shims : shims[o].stage \in Leading
       /\ \A s \in Shims : shims'[s].stage \in Up => \E o \in Shims : shims[o].stage \in Up
  <2>1. c.by \in Shims /\ "gone" \notin Leading
    BY <1>4 DEF Call, Leading
  <2> QED BY <1>5, <1>6, <1>12, <2>1
<1>14. FarewellHolds'
  <2>1. CASE ~ok
    <3>1. UNCHANGED <<config, left>>
      BY <1>3, <2>1
    <3> QED BY <1>b, <1>13, <3>1 DEF FarewellHolds
  <2>2. CASE ok
    <3> SUFFICES ASSUME left'
                 PROVE  /\ \A s \in Shims : shims'[s].stage \notin Leading
                        /\ ~config'.ready /\ (config'.beat = Never \/ config'.why = "Unregistered")
                        /\ \A d \in calls' : d.fresh => d.what # "status"
      BY DEF FarewellHolds
    <3>1. \A s \in Shims : shims'[s].stage \notin Leading
      BY <1>3, <1>13, <2>2 DEF FarewellHolds
    <3>2. \A d \in calls' : ~d.fresh
      BY <1>b, <2>2
    <3>3. c.what # "status"
      <4>1. c.what = "status" => c.fresh /\ left
        BY <1>1, <1>3, <2>2 DEF Accepted
      <4> QED BY <4>1 DEF FarewellHolds
    <3>4. c.what # "bye" => left
      BY <1>3, <2>2
    <3>5. c.what \in {"create", "spec", "bye"}
      BY <1>4, <3>3 DEF Call
    <3>6. ~config'.ready /\ (config'.beat = Never \/ config'.why = "Unregistered")
      BY <1>3, <2>2, <3>4, <3>5, WrittenFacts DEF FarewellHolds
    <3> QED BY <3>1, <3>2, <3>6
  <2> QED BY <2>1, <2>2
<1>15. BeatsAreOld'
  <2>1. quiet <= Never
    BY DEF Types, Never, RegistrationAssumption
  <2>2. quiet' <= config'.beat
    BY <1>3, <2>1, WrittenFacts DEF BeatsAreOld
  <2> QED BY <1>3, <1>10, <1>13, <2>2 DEF BeatsAreOld
<1> QED BY <1>10, <1>11, <1>14, <1>15

LEMMA RegistrationStep ==
  ASSUME RegistrationAssumption, RegistrationInv, [Next]_rvars PROVE RegistrationInv'
<1>1. CASE UNCHANGED rvars
  BY <1>1 DEF rvars, RegistrationInv, Types, CallsInPlace, Waits, OneMainCall, FarewellHolds,
              BeatsAreOld
<1>2. CASE Next
  <2>1. ASSUME NEW s \in Shims,
               \/ Start(s) \/ Register(s) \/ Announce(s) \/ Heartbeat(s)
               \/ Stop(s) \/ Unregister(s) \/ Kill(s) \/ Deliver(s)
        PROVE  RegistrationInv'
    BY <2>1, StartKept, RegisterKept, AnnounceKept, HeartbeatKept, StopKept, UnregisterKept,
       DeliverKept
  <2>2. ASSUME NEW c \in calls, Arrive(c) \/ Fail(c) \/ Lose(c) PROVE RegistrationInv'
    BY <2>2, ArriveKept, FailKept, LoseKept
  <2>3. CASE Change \/ Tick
    BY <2>3, ChangeKept, TickKept
  <2> QED BY <1>2, <2>1, <2>2, <2>3 DEF Next
<1> QED BY <1>1, <1>2

LEMMA HonestFromInv ==
  ASSUME RegistrationAssumption, RegistrationInv PROVE RegistrationIsHonest
<1> USE DEF RegistrationInv
<1>0. Stale \in Nat /\ config.beat \in 0..Never /\ quiet \in 0..(Stale + 1)
  BY DEF RegistrationAssumption, Types
<1>1. ~Connected => Integration # "Connected"
  BY DEF Integration, Reported
<1>2. ASSUME left PROVE ~config.ready /\ Integration # "Connected"
  BY <1>1, <1>2 DEF FarewellHolds, Connected
<1>3. ASSUME quiet > Stale
      PROVE  /\ Integration # "Connected"
             /\ config.beat # Never => Reported.message = "ShimStale"
  <2>1. config.beat = Never \/ IsStale
    BY <1>0, <1>3 DEF BeatsAreOld, IsStale, Never
  <2>2. Integration # "Connected"
    BY <1>1, <2>1 DEF Connected
  <2>3. IsStale => Reported.message = "ShimStale"
    BY DEF Reported
  <2> QED BY <2>1, <2>2, <2>3
<1> QED BY <1>2, <1>3 DEF RegistrationIsHonest

(* Who signed off stays signed off until another process comes up, and nobody  *)
(* is shown as connected when the last process is gone for longer than the     *)
(* threshold: for all processes, failures and orders of arrival (Unregister,   *)
(* MarkUnregistered, getProviderHealth).                                       *)
THEOREM SignedOff == ASSUME RegistrationAssumption PROVE Spec => []RegistrationIsHonest
<1>1. Init => RegistrationInv
  BY RegistrationInit
<1>2. RegistrationInv /\ [Next]_rvars => RegistrationInv'
  BY RegistrationStep
<1>3. RegistrationInv => RegistrationIsHonest
  BY HonestFromInv
<1> QED BY <1>1, <1>2, <1>3, PTL DEF Spec
-----------------------------------------------------------------------------
(* How a provider that nothing disturbs comes to be shown as it is.  One       *)
(* process leads; a cache that nobody wrote after says whether the config is   *)
(* there.                                                                      *)
OneLeader == \A s, o \in Shims : shims[s].stage \in Leading /\ shims[o].stage \in Leading => s = o
CacheTrue == \A s \in Shims : shims[s].fresh => shims[s].there = config.there

(* The config says what is the case, in a heartbeat no older than this.        *)
Current(age) ==
  config.ready = upstream /\ config.beat \in 0..age /\ config.why \in {"none", "probed"}

(* Since the last tick the running process has its heartbeat before it, or on  *)
(* its way and sure to be taken, or behind it; a config that is not there is   *)
(* missed by none.                                                             *)
Awaits(s)  == shims[s].due /\ shims[s].fresh /\ \A c \in calls : ~c.waited
Beating(s) == /\ ~shims[s].due /\ config.there
              /\ \A c, d \in calls : c.waited /\ d.waited => c = d
              /\ \A c \in calls : c.waited => /\ c.beat /\ c.by = s /\ c.fresh
                                              /\ c.ready = upstream /\ c.age = 0
              /\ \E c \in calls : c.waited
HasBeaten(s) == /\ ~shims[s].due /\ \A c \in calls : ~c.waited
                /\ config.there => Current(0)
Settled ==
  /\ calm \in 0..2
  /\ calm > 0 => /\ \A s \in Shims : shims[s].stage \in {"new", "gone", "running"}
                 /\ \A s \in Shims : shims[s].stage = "running" => Awaits(s) \/ Beating(s) \/ HasBeaten(s)
  /\ calm = 2 /\ config.there /\ (\E s \in Shims : shims[s].stage = "running") => Current(1)

HealthInv == OneLeader /\ CacheTrue /\ Settled

LEMMA HealthInit == Init => HealthInv
  BY DEF Init, HealthInv, OneLeader, CacheTrue, Settled, Idle, Leading

(* What a process becomes when it does not come up or read its cache anew: it  *)
(* leads only if it led, and its copy is no newer.                             *)
Keeps(new) ==
  \A o \in Shims : /\ new[o].stage \in Leading => shims[o].stage \in Leading
                   /\ new[o].fresh => shims[o].fresh /\ new[o].there = shims[o].there

LEMMA KeepsGone == ASSUME NEW s \in Shims, shims \in [Shims -> Shim] PROVE Keeps(Gone(s))
<1>1. ~Idle("gone").fresh /\ Idle("gone").stage \notin Leading /\ Gone(s)[s] = Idle("gone")
  BY DEF Idle, Leading, Gone
<1> QED BY <1>1, ShimFacts DEF Keeps

LEMMA KeepsFailure == ASSUME NEW s \in Shims, shims \in [Shims -> Shim] PROVE Keeps(AfterFailure(s))
<1>1. CASE shims[s].tries > 1
  <2>1. PICK x : x = [shims[s] EXCEPT !.tries = @ - 1]
    OBVIOUS
  <2>2. x.stage = shims[s].stage /\ x.fresh = shims[s].fresh /\ x.there = shims[s].there
    BY <2>1, ShimFacts DEF Shim
  <2>3. AfterFailure(s) = [shims EXCEPT ![s] = x]
    BY <1>1, <2>1 DEF AfterFailure
  <2> QED BY <2>2, <2>3 DEF Keeps
<1>2. CASE ~(shims[s].tries > 1)
  BY <1>2, KeepsGone DEF AfterFailure
<1> QED BY <1>1, <1>2

LEMMA KeepsAnswered ==
  ASSUME RegistrationInv, NEW c \in calls, c.waited, NEW ok \in BOOLEAN
  PROVE  Keeps(Answered(c, ok))
<1>0. /\ c \in Call /\ c.by \in Shims /\ shims \in [Shims -> Shim] /\ shims[c.by] \in Shim
      /\ Waits(c) /\ (c.beat => c.what = "status")
  BY DEF RegistrationInv, Types, Call, CallsInPlace
<1>1. CASE c.beat
  BY <1>0, <1>1 DEF Answered, Keeps
<1>2. CASE ~c.beat /\ c.what = "bye"
  BY <1>0, <1>2, KeepsGone DEF Answered
<1>3. CASE ~c.beat /\ c.what = "status"
  <2>1. PICK x : x = [shims[c.by] EXCEPT !.stage = "running", !.tries = 0]
    OBVIOUS
  <2>2. x.fresh = shims[c.by].fresh /\ x.there = shims[c.by].there
    BY <1>0, <2>1 DEF Shim
  <2>3. ok => Answered(c, ok) = [shims EXCEPT ![c.by] = x]
    BY <1>0, <1>3, <2>1 DEF Answered
  <2>4. ~ok => Answered(c, ok) = AfterFailure(c.by)
    BY <1>3 DEF Answered
  <2>5. shims[c.by].stage \in Leading
    BY <1>0, <1>3 DEF Waits, Leading
  <2>6. ok => Keeps(Answered(c, ok))
    BY <1>0, <2>2, <2>3, <2>5 DEF Keeps
  <2>7. ~ok => Keeps(Answered(c, ok))
    BY <1>0, <2>4, KeepsFailure
  <2> QED BY <2>6, <2>7
<1>4. CASE ~c.beat /\ c.what \in {"create", "spec"}
  <2>1. PICK x : x = [shims[c.by] EXCEPT !.stage = "announcing", !.probed = (style # "kaito" /\ upstream),
                                         !.tries = IF style = "dynamo" THEN 1 ELSE Attempts]
    OBVIOUS
  <2>2. x.fresh = shims[c.by].fresh /\ x.there = shims[c.by].there
    BY <1>0, <2>1 DEF Shim
  <2>3. ok => Answered(c, ok) = [shims EXCEPT ![c.by] = x]
    BY <1>0, <1>4, <2>1 DEF Answered
  <2>4. ~ok => Answered(c, ok) = Gone(c.by)
    BY <1>4 DEF Answered
  <2>5. shims[c.by].stage \in Leading
    BY <1>0, <1>4 DEF Waits, Leading
  <2> QED BY <1>0, <2>2, <2>3, <2>4, <2>5, KeepsGone DEF Keeps
<1> QED BY <1>0, <1>1, <1>2, <1>3, <1>4 DEF Call

LEMMA LeadersKept ==
  ASSUME OneLeader, CacheTrue, Keeps(shims'),
         config'.there = config.there \/ \A s \in Shims : ~shims'[s].fresh
  PROVE  OneLeader' /\ CacheTrue'
  BY DEF OneLeader, CacheTrue, Keeps

(* Whatever happens, one process leads and no newest copy is wrong.            *)
LEMMA LeadersStep ==
  ASSUME RegistrationAssumption, RegistrationInv, OneLeader, CacheTrue, Next
  PROVE  OneLeader' /\ CacheTrue'
<1>0. shims \in [Shims -> Shim] /\ calls \subseteq Call
  BY DEF RegistrationInv, Types
<1>1. ASSUME NEW s \in Shims, Start(s) PROVE OneLeader' /\ CacheTrue'
  <2>1. PICK x : x = [shims[s] EXCEPT !.stage = "registering", !.there = config.there, !.fresh = TRUE]
    OBVIOUS
  <2>2. x.stage = "registering" /\ x.there = config.there
    BY <1>0, <2>1 DEF Shim
  <2>3. shims' = [shims EXCEPT ![s] = x] /\ config' = config
        /\ \A o \in Shims : shims[o].stage \notin Leading
    BY <1>0, <1>1, <2>1 DEF Start
  <2> QED BY <1>0, <2>2, <2>3 DEF OneLeader, CacheTrue
<1>2. ASSUME NEW s \in Shims, Deliver(s) PROVE OneLeader' /\ CacheTrue'
  <2>1. PICK x : x = [shims[s] EXCEPT !.there = config.there, !.fresh = TRUE]
    OBVIOUS
  <2>2. x.stage = shims[s].stage /\ x.there = config.there
    BY <1>0, <2>1 DEF Shim
  <2>3. shims' = [shims EXCEPT ![s] = x] /\ config' = config
    BY <1>0, <1>2, <2>1 DEF Deliver
  <2> QED BY <1>0, <2>2, <2>3 DEF OneLeader, CacheTrue
<1>3. Keeps(shims)
  BY DEF Keeps
<1>4. ASSUME NEW s \in Shims, Register(s) PROVE OneLeader' /\ CacheTrue'
  BY <1>3, <1>4, LeadersKept DEF Register
<1>5. ASSUME NEW s \in Shims, Announce(s) PROVE OneLeader' /\ CacheTrue'
  <2>1. config' = config /\ (shims' = shims \/ shims' = AfterFailure(s))
    BY <1>5 DEF Announce
  <2> QED BY <1>0, <1>3, <2>1, KeepsFailure, LeadersKept
<1>6. ASSUME NEW s \in Shims, Heartbeat(s) PROVE OneLeader' /\ CacheTrue'
  <2>1. PICK x : x = [shims[s] EXCEPT !.due = FALSE]
    OBVIOUS
  <2>2. x.stage = shims[s].stage /\ x.there = shims[s].there /\ x.fresh = shims[s].fresh
    BY <1>0, <2>1 DEF Shim
  <2>3. shims' = [shims EXCEPT ![s] = x] /\ config' = config
    BY <1>0, <1>6, <2>1 DEF Heartbeat
  <2>4. Keeps(shims')
    BY <1>0, <2>2, <2>3 DEF Keeps
  <2> QED BY <2>3, <2>4, LeadersKept
<1>7. ASSUME NEW s \in Shims, Stop(s) \/ Kill(s) \/ Unregister(s) PROVE OneLeader' /\ CacheTrue'
  <2>1. PICK x : x = [shims[s] EXCEPT !.stage = "stopping", !.due = FALSE]
    OBVIOUS
  <2>2. x.stage = "stopping" /\ x.there = shims[s].there /\ x.fresh = shims[s].fresh
    BY <1>0, <2>1 DEF Shim
  <2>3. config' = config /\ (shims' = [shims EXCEPT ![s] = x] \/ shims' = Gone(s) \/ shims' = shims)
    BY <1>0, <1>7, <2>1 DEF Stop, Kill, Unregister
  <2>4. shims' = [shims EXCEPT ![s] = x] => Keeps(shims')
    BY <1>0, <2>2 DEF Keeps, Leading
  <2> QED BY <1>0, <1>3, <2>3, <2>4, KeepsGone, LeadersKept
<1>8. ASSUME NEW c \in calls, Arrive(c) PROVE OneLeader' /\ CacheTrue'
  <2>1. PICK ok \in BOOLEAN : ok = Accepted(c)
    BY <1>0 DEF Accepted, Call, RegistrationInv, Types
  <2>2. PICK after : after = IF c.waited THEN Answered(c, ok) ELSE shims
    OBVIOUS
  <2>3. /\ ok => shims' = [s \in Shims |-> [after[s] EXCEPT !.fresh = FALSE]]
        /\ ~ok => shims' = after /\ config' = config
    BY <1>8, <2>1, <2>2 DEF Arrive
  <2>4. after \in [Shims -> Shim] /\ Keeps(after)
    BY <1>0, <1>3, <2>2, AnsweredType, KeepsAnswered DEF RegistrationInv, Types
  <2>5. \A s \in Shims : /\ [after[s] EXCEPT !.fresh = FALSE].stage = after[s].stage
                         /\ ~[after[s] EXCEPT !.fresh = FALSE].fresh
    BY <2>4 DEF Shim
  <2>6. ok => Keeps(shims') /\ \A s \in Shims : ~shims'[s].fresh
    BY <2>3, <2>4, <2>5 DEF Keeps
  <2> QED BY <2>3, <2>4, <2>6, LeadersKept
<1>9. ASSUME NEW c \in calls, Fail(c) PROVE OneLeader' /\ CacheTrue'
  <2>1. c.waited /\ shims' = Answered(c, FALSE) /\ config' = config
    BY <1>9 DEF Fail
  <2> QED BY <2>1, KeepsAnswered, LeadersKept
<1>10. ASSUME NEW c \in calls, Lose(c) PROVE OneLeader' /\ CacheTrue'
  BY <1>3, <1>10, LeadersKept DEF Lose
<1>11. CASE Change
  <2>1. CASE UNCHANGED <<config, shims, calls>> /\ upstream' = ~upstream
    BY <1>3, <2>1, LeadersKept
  <2>2. CASE /\ config' = NoConfig /\ UNCHANGED upstream
             /\ shims' = [s \in Shims |-> [shims[s] EXCEPT !.fresh = FALSE]]
             /\ calls' = {[c EXCEPT !.fresh = FALSE] : c \in calls}
    <3>1. \A s \in Shims : /\ [shims[s] EXCEPT !.fresh = FALSE].stage = shims[s].stage
                           /\ ~[shims[s] EXCEPT !.fresh = FALSE].fresh
      BY <1>0 DEF Shim
    <3>2. Keeps(shims') /\ \A s \in Shims : ~shims'[s].fresh
      BY <2>2, <3>1 DEF Keeps
    <3> QED BY <3>2, LeadersKept
  <2> QED BY <1>11, <2>1, <2>2 DEF Change
<1>12. CASE Tick
  <2>1. shims' = [s \in Shims |-> [shims[s] EXCEPT !.due = (shims[s].stage = "running")]]
        /\ config'.there = config.there
    BY <1>12 DEF Tick, RegistrationInv, Types
  <2>2. \A s \in Shims : \A b \in BOOLEAN : /\ [shims[s] EXCEPT !.due = b].stage = shims[s].stage
                                            /\ [shims[s] EXCEPT !.due = b].fresh = shims[s].fresh
                                            /\ [shims[s] EXCEPT !.due = b].there = shims[s].there
    BY <1>0 DEF Shim
  <2>3. Keeps(shims')
    BY <2>1, <2>2 DEF Keeps
  <2> QED BY <2>1, <2>3, LeadersKept
<1> QED BY <1>1, <1>2, <1>4, <1>5, <1>6, <1>7, <1>8, <1>9, <1>10, <1>11, <1>12 DEF Next

(* A step that disturbs the provider starts the count anew.                    *)
LEMMA Disturbed == ASSUME calm' = 0 PROVE Settled'
  BY DEF Settled

(* Of the processes only the one that runs has steps in a calm interval.       *)
LEMMA OthersRest ==
  ASSUME Settled, NEW s \in Shims, shims[s].stage \in {"registering", "announcing", "stopping"}
  PROVE  calm = 0
  BY DEF Settled

LEMMA OneRuns ==
  ASSUME OneLeader, NEW s \in Shims, NEW o \in Shims,
         shims[s].stage = "running", shims[o].stage = "running"
  PROVE  s = o
  BY DEF OneLeader, Leading

(* Where all stages and the config stay, it is the running process to look at. *)
LEMMA SettledBy ==
  ASSUME Settled, OneLeader, NEW s \in Shims, shims[s].stage = "running", calm > 0,
         \A o \in Shims : shims'[o].stage = shims[o].stage,
         UNCHANGED <<calm, upstream>>,
         Awaits(s)' \/ Beating(s)' \/ HasBeaten(s)',
         config' = config \/ Current(1)'
  PROVE  Settled'
<1>1. calm' \in 0..2 /\ \A o \in Shims : shims'[o].stage \in {"new", "gone", "running"}
  BY DEF Settled
<1>2. \A o \in Shims : shims'[o].stage = "running" => o = s
  BY OneRuns
<1>3. ASSUME calm' = 2, config'.there, config' = config PROVE Current(1)'
  <2>1. Current(1)
    BY <1>3 DEF Settled
  <2> QED BY <1>3, <2>1 DEF Current
<1>4. \A o \in Shims : shims'[o].stage = "running" => (Awaits(o) \/ Beating(o) \/ HasBeaten(o))'
  BY <1>2
<1> QED BY <1>1, <1>3, <1>4 DEF Settled

LEMMA HeartbeatSettled ==
  ASSUME RegistrationInv, HealthInv, NEW s \in Shims, Heartbeat(s) PROVE Settled'
<1>0. /\ shims \in [Shims -> Shim] /\ shims[s].stage = "running" /\ shims[s].due
      /\ UNCHANGED <<config, upstream>> /\ OneLeader /\ CacheTrue /\ Settled
  BY DEF RegistrationInv, Types, Heartbeat, HealthInv
<1>1. PICK ready \in BOOLEAN : /\ Probe(ready)
                               /\ IF shims[s].there THEN Send(s, "status", TRUE, ready) ELSE UNCHANGED calls
  BY DEF Heartbeat
<1>2. calm' = 0 \/ (ready = upstream /\ calm' = calm)
  BY <1>1 DEF Probe
<1>3. CASE calm' # 0
  <2>0. calm > 0 /\ calm' = calm /\ ready = upstream
    BY <1>0, <1>2, <1>3 DEF Settled
  <2>1. Awaits(s)
    BY <1>0, <2>0 DEF Settled, Beating, HasBeaten
  <2>2. PICK x : x = [shims[s] EXCEPT !.due = FALSE]
    OBVIOUS
  <2>3. x.stage = shims[s].stage /\ ~x.due
    BY <1>0, <2>2 DEF Shim
  <2>4. shims' = [shims EXCEPT ![s] = x]
    BY <1>0, <2>2 DEF Heartbeat
  <2>5. \A o \in Shims : shims'[o].stage = shims[o].stage
    BY <1>0, <2>3, <2>4
  <2>6. ~shims'[s].due
    BY <1>0, <2>3, <2>4
  <2>7. shims[s].there = config.there
    BY <1>0, <2>1 DEF Awaits, CacheTrue
  <2>8. CASE shims[s].there
    <3>1. PICK new : new = [by |-> s, what |-> "status", beat |-> TRUE, ready |-> ready, age |-> 0,
                            fresh |-> shims[s].fresh, waited |-> TRUE]
      OBVIOUS
    <3>2. calls' = calls \cup {new}
      BY <1>1, <2>8, <3>1, Zenon DEF Send
    <3>3. /\ new.by = s /\ new.beat /\ new.ready = ready /\ new.age = 0 /\ new.fresh = shims[s].fresh
          /\ new.waited
      BY <3>1
    <3>4. Beating(s)'
      BY <1>0, <2>0, <2>1, <2>6, <2>7, <2>8, <3>2, <3>3 DEF Beating, Awaits
    <3> QED BY <1>0, <2>0, <2>5, <3>4, SettledBy
  <2>9. CASE ~shims[s].there
    <3>1. calls' = calls
      BY <1>1, <2>9
    <3>2. HasBeaten(s)'
      BY <1>0, <2>1, <2>6, <2>7, <2>9, <3>1 DEF HasBeaten, Awaits
    <3> QED BY <1>0, <2>0, <2>5, <3>2, SettledBy
  <2> QED BY <2>8, <2>9
<1> QED BY <1>3, Disturbed

LEMMA DeliverSettled ==
  ASSUME RegistrationInv, HealthInv, NEW s \in Shims, Deliver(s) PROVE Settled'
<1>0. /\ shims \in [Shims -> Shim] /\ shims[s].stage \in Up /\ ~shims[s].fresh
      /\ UNCHANGED <<config, upstream, calls, calm>> /\ OneLeader /\ Settled
  BY DEF RegistrationInv, Types, Deliver, HealthInv
<1>1. CASE calm > 0
  <2>1. shims[s].stage = "running"
    BY <1>0, <1>1 DEF Settled, Up, Leading
  <2>2. Beating(s) \/ HasBeaten(s)
    BY <1>0, <1>1, <2>1 DEF Settled, Awaits
  <2>3. PICK x : x = [shims[s] EXCEPT !.there = config.there, !.fresh = TRUE]
    OBVIOUS
  <2>4. x.stage = shims[s].stage /\ x.due = shims[s].due
    BY <1>0, <2>3 DEF Shim
  <2>5. shims' = [shims EXCEPT ![s] = x]
    BY <1>0, <2>3 DEF Deliver
  <2>6. (\A o \in Shims : shims'[o].stage = shims[o].stage) /\ shims'[s].due = shims[s].due
    BY <1>0, <2>4, <2>5
  <2>7. Beating(s) => Beating(s)'
    BY <1>0, <2>6 DEF Beating
  <2>8. HasBeaten(s) => HasBeaten(s)'
    BY <1>0, <2>6 DEF HasBeaten, Current
  <2> QED BY <1>0, <1>1, <2>1, <2>2, <2>6, <2>7, <2>8, SettledBy
<1>2. CASE ~(calm > 0)
  <2>1. calm' = 0
    BY <1>0, <1>2 DEF Settled
  <2> QED BY <2>1, Disturbed
<1> QED BY <1>1, <1>2

LEMMA LoseSettled ==
  ASSUME HealthInv, NEW c \in calls, Lose(c) PROVE Settled'
<1>0. /\ ~c.waited /\ calls' = calls \ {c} /\ UNCHANGED <<config, upstream, shims, calm>> /\ Settled
  BY DEF Lose, HealthInv
<1>1. ASSUME NEW s \in Shims, Awaits(s) \/ Beating(s) \/ HasBeaten(s)
      PROVE  (Awaits(s) \/ Beating(s) \/ HasBeaten(s))'
  <2>1. Awaits(s) => Awaits(s)'
    BY <1>0 DEF Awaits
  <2>2. Beating(s) => Beating(s)'
    BY <1>0 DEF Beating
  <2>3. HasBeaten(s) => HasBeaten(s)'
    BY <1>0 DEF HasBeaten, Current
  <2> QED BY <1>1, <2>1, <2>2, <2>3
<1>2. Current(1) => Current(1)'
  BY <1>0 DEF Current
<1> QED BY <1>0, <1>1, <1>2 DEF Settled

(* The heartbeat arrives: its copy is the newest, so it is taken.              *)
LEMMA ArriveSettled ==
  ASSUME RegistrationInv, HealthInv, NEW c \in calls, Arrive(c) PROVE Settled'
<1>0. /\ shims \in [Shims -> Shim] /\ OneLeader /\ Settled /\ UNCHANGED upstream
      /\ c \in Call /\ c.by \in Shims /\ (c.beat => c.what = "status")
  BY DEF RegistrationInv, Types, Arrive, HealthInv, Call
<1>1. CASE c.waited /\ c.what # "bye" /\ calm > 0
  <2> DEFINE s == c.by
  <2>1. Waits(c) /\ calm' = calm
    BY <1>1 DEF RegistrationInv, CallsInPlace, Arrive
  <2>2. shims[s].stage = "running" /\ c.what = "status" /\ c.beat
    BY <1>0, <1>1, <2>1 DEF Waits, Settled, Call
  <2>3. Beating(s)
    BY <1>0, <1>1, <2>2 DEF Settled, Awaits, HasBeaten
  <2>4. /\ c.fresh /\ c.ready = upstream /\ c.age = 0 /\ config.there /\ ~shims[s].due
        /\ \A d \in calls : d.waited => d = c
    BY <1>1, <2>3 DEF Beating
  <2>5. Accepted(c) /\ Answered(c, Accepted(c)) = shims
    BY <2>2, <2>4 DEF Accepted, Answered
  <2>6. /\ config' = Written(c)
        /\ shims' = [o \in Shims |-> [shims[o] EXCEPT !.fresh = FALSE]]
        /\ calls' = Left({[o EXCEPT !.fresh = FALSE] : o \in calls \ {c}}, shims)
    BY <1>1, <2>5 DEF Arrive
  <2>7. /\ config'.ready = upstream /\ config'.beat = 0 /\ config'.why \in {"none", "probed"}
    <3>1. Written(c) = [config EXCEPT !.ready = c.ready, !.beat = c.age,
                                      !.why = IF style = "kaito" THEN "probed" ELSE "none"]
      BY <2>2 DEF Written
    <3> QED BY <2>4, <2>6, <3>1 DEF RegistrationInv, Types
  <2>8. Current(0)' /\ Current(1)'
    BY <1>0, <2>7 DEF Current
  <2>9. \A o \in Shims : shims'[o].stage = shims[o].stage /\ shims'[o].due = shims[o].due
    <3>1. \A o \in Shims : /\ [shims[o] EXCEPT !.fresh = FALSE].stage = shims[o].stage
                           /\ [shims[o] EXCEPT !.fresh = FALSE].due = shims[o].due
      BY <1>0 DEF Shim
    <3> QED BY <2>6, <3>1
  <2>10. \A d \in calls' : ~d.waited
    <3>1. ASSUME NEW o \in calls \ {c}
          PROVE  /\ ~[o EXCEPT !.fresh = FALSE].waited /\ ~GivenUp([o EXCEPT !.fresh = FALSE]).waited
      <4>1. o \in Call /\ ~o.waited
        BY <2>4 DEF RegistrationInv, Types
      <4>2. [o EXCEPT !.fresh = FALSE] \in Call /\ ~[o EXCEPT !.fresh = FALSE].waited
        BY <4>1 DEF Call
      <4> QED BY <4>2, CallFacts
    <3> QED BY <2>6, <3>1 DEF Left
  <2>11. HasBeaten(s)'
    BY <1>0, <2>4, <2>8, <2>9, <2>10 DEF HasBeaten
  <2> QED BY <1>0, <1>1, <2>1, <2>2, <2>8, <2>9, <2>11, SettledBy
<1>2. CASE ~(c.waited /\ c.what # "bye" /\ calm > 0)
  <2>1. calm' = 0
    BY <1>0, <1>2 DEF Arrive, Settled
  <2> QED BY <2>1, Disturbed
<1> QED BY <1>1, <1>2

(* An interval ends: who runs has beaten, unless nothing is there to be told.  *)
LEMMA TickSettled ==
  ASSUME RegistrationAssumption, RegistrationInv, HealthInv, Tick PROVE Settled'
<1>0. /\ shims \in [Shims -> Shim] /\ calls \subseteq Call /\ Settled /\ UNCHANGED upstream
      /\ Stale \in Nat \ {0} /\ \A c \in calls : ~c.waited
      /\ \A s \in Shims : /\ shims[s].stage \in {"new", "gone", "running"} /\ ~shims[s].due
                          /\ shims[s].stage = "running" => shims[s].fresh
  BY DEF RegistrationInv, Types, Tick, HealthInv, RegistrationAssumption
<1>1. calm' = IF calm < 2 THEN calm + 1 ELSE calm
  BY DEF Tick
<1>2. \A s \in Shims : /\ shims'[s].stage = shims[s].stage /\ shims'[s].fresh = shims[s].fresh
                       /\ shims'[s].due = (shims[s].stage = "running")
  <2>1. shims' = [s \in Shims |-> [shims[s] EXCEPT !.due = (shims[s].stage = "running")]]
    BY DEF Tick
  <2>2. \A s \in Shims : \A b \in BOOLEAN : /\ [shims[s] EXCEPT !.due = b].stage = shims[s].stage
                                            /\ [shims[s] EXCEPT !.due = b].fresh = shims[s].fresh
                                            /\ [shims[s] EXCEPT !.due = b].due = b
    BY <1>0 DEF Shim
  <2> QED BY <2>1, <2>2
<1>3. \A d \in calls' : ~d.waited
  <2>1. \A c \in calls : ~[c EXCEPT !.age = 1].waited
    BY <1>0 DEF Call
  <2> QED BY <2>1 DEF Tick
<1>4. \A s \in Shims : shims'[s].stage = "running" => Awaits(s)'
  BY <1>0, <1>2, <1>3 DEF Awaits
<1>5. ASSUME calm' = 2, config'.there, NEW s \in Shims, shims'[s].stage = "running" PROVE Current(1)'
  <2>1. calm > 0 /\ shims[s].stage = "running"
    BY <1>0, <1>1, <1>2, <1>5 DEF Settled
  <2>2. HasBeaten(s)
    BY <1>0, <2>1 DEF Settled, Awaits, Beating
  <2>3. /\ config'.there = config.there /\ config'.ready = config.ready /\ config'.why = config.why
        /\ config'.beat = Older(config.beat)
    BY DEF Tick, RegistrationInv, Types
  <2>4. Current(0)
    BY <1>5, <2>2, <2>3 DEF HasBeaten
  <2>5. Older(config.beat) = 1
    BY <1>0, <2>4 DEF Current, Older
  <2> QED BY <1>0, <2>3, <2>4, <2>5 DEF Current
<1> QED BY <1>0, <1>1, <1>2, <1>4, <1>5 DEF Settled

LEMMA HealthStep ==
  ASSUME RegistrationAssumption, RegistrationInv, HealthInv, [Next]_rvars PROVE HealthInv'
<1>1. CASE UNCHANGED rvars
  BY <1>1 DEF rvars, HealthInv, OneLeader, CacheTrue, Settled, Awaits, Beating, HasBeaten, Current
<1>2. CASE Next
  <2>1. OneLeader' /\ CacheTrue'
    BY <1>2, LeadersStep DEF HealthInv
  <2>2. Settled /\ calm \in 0..2
    BY DEF HealthInv, Settled
  <2>3. ASSUME NEW s \in Shims, Start(s) \/ Stop(s) \/ Kill(s) PROVE Settled'
    BY <2>3, Disturbed DEF Start, Stop, Kill
  <2>4. ASSUME NEW s \in Shims, Register(s) \/ Announce(s) \/ Unregister(s) PROVE Settled'
    <3>1. calm = 0
      BY <2>2, <2>4, OthersRest DEF Register, Announce, Unregister
    <3>2. calm' = 0
      BY <2>4, <3>1 DEF Register, Announce, Unregister, Probe
    <3> QED BY <3>2, Disturbed
  <2>5. ASSUME NEW c \in calls, Fail(c) PROVE Settled'
    BY <2>5, Disturbed DEF Fail
  <2>6. ASSUME Change PROVE Settled'
    <3>1. calm' = 0
      BY <2>6 DEF Change
    <3> QED BY <3>1, Disturbed
  <2>7. ASSUME NEW s \in Shims, Heartbeat(s) \/ Deliver(s) PROVE Settled'
    BY <2>7, HeartbeatSettled, DeliverSettled
  <2>8. ASSUME NEW c \in calls, Arrive(c) \/ Lose(c) PROVE Settled'
    BY <2>8, ArriveSettled, LoseSettled
  <2>9. ASSUME Tick PROVE Settled'
    BY <2>9, TickSettled
  <2>10. Settled'
    BY <1>2, <2>3, <2>4, <2>5, <2>6, <2>7, <2>8, <2>9 DEF Next
  <2> QED BY <2>1, <2>10 DEF HealthInv
<1> QED BY <1>1, <1>2

LEMMA CurrentFromInv ==
  ASSUME RegistrationAssumption, RegistrationInv, HealthInv PROVE HealthIsCurrent
<1> SUFFICES ASSUME calm = 2, config.there, NEW s \in Shims, shims[s].stage = "running"
             PROVE  /\ Integration = "Connected" /\ Healthy = upstream
                    /\ Reported.message \in {"operator"} \cup (IF upstream THEN {} ELSE {"probed"})
  BY DEF HealthIsCurrent
<1>1. Current(1) /\ Stale \in Nat \ {0} /\ upstream \in BOOLEAN
  BY DEF HealthInv, Settled, RegistrationAssumption, RegistrationInv, Types
<1>2. config.beat # Never /\ ~IsStale
  BY <1>1 DEF Current, Never, IsStale
<1>3. Connected /\ config.why \in {"none", "probed"}
  BY <1>1, <1>2 DEF Connected, Current
<1>4. Healthy = upstream
  BY <1>1, <1>2 DEF Healthy, Current
<1>5. Reported.registered = TRUE /\ Reported.connected = TRUE
  <2>1. config.there = TRUE /\ Connected = TRUE
    BY <1>3 DEF RegistrationInv, Types, Connected
  <2> QED BY <2>1 DEF Reported
<1>6. Integration = "Connected"
  <2>1. ~(~Reported.registered) /\ Reported.registered /\ Reported.connected
    BY <1>5
  <2> QED BY <2>1, Zenon DEF Integration
<1>7. Reported.message = CASE IsStale                                     -> "ShimStale"
                           [] ~IsStale /\ ~Healthy /\ config.why # "none" -> config.why
                           [] OTHER                                       -> "operator"
  BY Zenon DEF Reported
<1> HIDE DEF IsStale, Healthy
<1>8. CASE ~upstream /\ config.why = "probed"
  <2>1. Reported.message = "probed"
    BY <1>2, <1>4, <1>7, <1>8
  <2> QED BY <1>4, <1>6, <1>8, <2>1
<1>9. CASE upstream \/ config.why = "none"
  <2>1. Healthy \/ config.why = "none"
    BY <1>4, <1>9
  <2>2. Reported.message = "operator"
    BY <1>2, <1>7, <2>1
  <2> QED BY <1>4, <1>6, <2>2
<1> QED BY <1>1, <1>3, <1>4, <1>6, <1>8, <1>9

(* Two undisturbed intervals after the last start, farewell, conflict or       *)
(* failure, a running provider is shown as connected, and as ready exactly     *)
(* when its operator is: its heartbeat is never refused for a copy that is out *)
(* of date, in whatever order the watch, the probe and the writes come         *)
(* (UpdateStatusFromProbe, updateHeartbeat, getProviderHealth).                *)
THEOREM ShownAsItIs == ASSUME RegistrationAssumption PROVE Spec => []HealthIsCurrent
<1>1. Init => RegistrationInv /\ HealthInv
  BY RegistrationInit, HealthInit
<1>2. RegistrationInv /\ HealthInv /\ [Next]_rvars => RegistrationInv' /\ HealthInv'
  BY RegistrationStep, HealthStep
<1>3. RegistrationInv /\ HealthInv => HealthIsCurrent
  BY CurrentFromInv
<1> QED BY <1>1, <1>2, <1>3, PTL DEF Spec

-----------------------------------------------------------------------------
(* A process has no more attempts left than it was given.                      *)
Within(new) == \A o \in Shims : new[o].tries <= Attempts

LEMMA WithinOne ==
  ASSUME shims \in [Shims -> Shim], Within(shims), NEW s \in Shims, NEW x, x.tries <= Attempts
  PROVE  Within([shims EXCEPT ![s] = x])
BY DEF Within

LEMMA WithinFailure ==
  ASSUME RegistrationAssumption, Types, Within(shims), NEW s \in Shims
  PROVE  Within(Gone(s)) /\ Within(AfterFailure(s))
<1>0. shims \in [Shims -> Shim] /\ shims[s] \in Shim /\ shims[s].tries \in Nat /\ Attempts \in Nat
  BY DEF Types, Shim, RegistrationAssumption
<1>1. Within(Gone(s))
  <2>1. Idle("gone").tries <= Attempts
    BY <1>0 DEF Idle
  <2> QED BY <1>0, <2>1, WithinOne DEF Gone
<1>2. CASE shims[s].tries > 1
  <2>1. PICK x : x = [shims[s] EXCEPT !.tries = @ - 1]
    OBVIOUS
  <2>2. x.tries = shims[s].tries - 1
    BY <1>0, <2>1 DEF Shim
  <2>3. AfterFailure(s) = [shims EXCEPT ![s] = x]
    BY <1>2, <2>1 DEF AfterFailure
  <2>4. x.tries <= Attempts
    BY <1>0, <2>2 DEF Within
  <2> QED BY <1>0, <1>1, <2>3, <2>4, WithinOne
<1>3. CASE ~(shims[s].tries > 1)
  BY <1>1, <1>3 DEF AfterFailure
<1> QED BY <1>2, <1>3

LEMMA WithinAnswered ==
  ASSUME RegistrationAssumption, Types, Within(shims), NEW c \in calls, NEW ok \in BOOLEAN
  PROVE  Within(Answered(c, ok))
<1>0. /\ c \in Call /\ c.by \in Shims /\ shims \in [Shims -> Shim] /\ shims[c.by] \in Shim
      /\ Attempts \in Nat /\ Attempts > 0
  <2>1. c \in Call /\ shims \in [Shims -> Shim]
    BY DEF Types
  <2>2. Attempts \in Nat /\ Attempts > 0
    BY DEF RegistrationAssumption
  <2> QED BY <2>1, <2>2 DEF Call
<1>1. CASE c.beat
  <2>1. Answered(c, ok) = shims
    <3>1. c.what = "status"
      BY <1>1 DEF Types
    <3> QED BY <1>0, <1>1, <3>1 DEF Answered
  <2> QED BY <2>1
<1>2. CASE ~c.beat /\ c.what = "bye"
  <2>1. Answered(c, ok) = Gone(c.by)
    BY <1>0, <1>2 DEF Answered
  <2> QED BY <1>0, <2>1, WithinFailure
<1>3. CASE ~c.beat /\ c.what = "status"
  <2>1. PICK x : x = [shims[c.by] EXCEPT !.stage = "running", !.tries = 0]
    OBVIOUS
  <2>2. x.tries <= Attempts
    BY <1>0, <2>1 DEF Shim
  <2>3. ok => Answered(c, ok) = [shims EXCEPT ![c.by] = x]
    BY <1>0, <1>3, <2>1 DEF Answered
  <2>4. ~ok => Answered(c, ok) = AfterFailure(c.by)
    BY <1>3 DEF Answered
  <2>5. Within([shims EXCEPT ![c.by] = x])
    BY <1>0, <2>2, WithinOne
  <2> QED BY <1>0, <2>3, <2>4, <2>5, WithinFailure
<1>4. CASE ~c.beat /\ c.what \in {"create", "spec"}
  <2>1. PICK x : x = [shims[c.by] EXCEPT !.stage = "announcing", !.probed = (style # "kaito" /\ upstream),
                                         !.tries = IF style = "dynamo" THEN 1 ELSE Attempts]
    OBVIOUS
  <2>2. x.tries <= Attempts
    BY <1>0, <2>1 DEF Shim
  <2>3. ok => Answered(c, ok) = [shims EXCEPT ![c.by] = x]
    BY <1>0, <1>4, <2>1 DEF Answered
  <2>4. ~ok => Answered(c, ok) = Gone(c.by)
    BY <1>4 DEF Answered
  <2>5. Within([shims EXCEPT ![c.by] = x])
    BY <1>0, <2>2, WithinOne
  <2> QED BY <1>0, <2>3, <2>4, <2>5, WithinFailure
<1> QED BY <1>0, <1>1, <1>2, <1>3, <1>4 DEF Call

(* A change of another field of a process leaves it its attempts.              *)
LEMMA WithinStep ==
  ASSUME RegistrationAssumption, Types, Within(shims), [Next]_rvars
  PROVE  Within(shims')
<1>0. shims \in [Shims -> Shim] /\ \A s \in Shims : shims[s] \in Shim
  BY DEF Types
<1>1. CASE UNCHANGED rvars
  BY <1>1 DEF rvars
<1>2. ASSUME NEW s \in Shims, Start(s) \/ Deliver(s) PROVE Within(shims')
  BY <1>0, <1>2 DEF Start, Deliver, Within, Shim
<1>3. ASSUME NEW s \in Shims, Register(s) PROVE Within(shims')
  BY <1>3 DEF Register
<1>4. ASSUME NEW s \in Shims, Announce(s) PROVE Within(shims')
  BY <1>4, WithinFailure DEF Announce
<1>5. ASSUME NEW s \in Shims, Heartbeat(s) PROVE Within(shims')
  BY <1>0, <1>5 DEF Heartbeat, Within, Shim
<1>6. ASSUME NEW s \in Shims, Stop(s) PROVE Within(shims')
  <2>1. CASE shims[s].stage = "running"
    BY <1>0, <1>6, <2>1 DEF Stop, Within, Shim
  <2>2. CASE shims[s].stage # "running"
    BY <1>6, <2>2, WithinFailure DEF Stop
  <2> QED BY <2>1, <2>2
<1>7. ASSUME NEW s \in Shims, Unregister(s) \/ Kill(s) PROVE Within(shims')
  BY <1>7, WithinFailure DEF Unregister, Kill
<1>8. ASSUME NEW c \in calls, Arrive(c) PROVE Within(shims')
  <2>1. PICK after : after = IF c.waited THEN Answered(c, Accepted(c)) ELSE shims
    OBVIOUS
  <2>2. Within(after) /\ after \in [Shims -> Shim]
    <3>1. Accepted(c) \in BOOLEAN
      BY DEF Accepted, Types, Call
    <3>2. CASE c.waited
      BY <2>1, <3>1, <3>2, WithinAnswered, AnsweredType
    <3>3. CASE ~c.waited
      BY <1>0, <2>1, <3>3
    <3> QED BY <3>2, <3>3
  <2>3. shims' = after \/ shims' = [s \in Shims |-> [after[s] EXCEPT !.fresh = FALSE]]
    BY <1>8, <2>1 DEF Arrive
  <2>4. \A s \in Shims : [after[s] EXCEPT !.fresh = FALSE].tries = after[s].tries
    BY <2>2 DEF Shim
  <2> QED BY <2>2, <2>3, <2>4 DEF Within
<1>9. ASSUME NEW c \in calls, Fail(c) PROVE Within(shims')
  BY <1>9, WithinAnswered DEF Fail
<1>10. ASSUME NEW c \in calls, Lose(c) PROVE Within(shims')
  BY <1>10 DEF Lose
<1>11. CASE Change
  <2>1. \A s \in Shims : [shims[s] EXCEPT !.fresh = FALSE].tries = shims[s].tries
    BY <1>0 DEF Shim
  <2> QED BY <1>11, <2>1 DEF Change, Within
<1>12. CASE Tick
  <2>1. \A s \in Shims : [shims[s] EXCEPT !.due = (shims[s].stage = "running")].tries = shims[s].tries
    BY <1>0 DEF Shim
  <2> QED BY <1>12, <2>1 DEF Tick, Within
<1> QED BY <1>1, <1>2, <1>3, <1>4, <1>5, <1>6, <1>7, <1>8, <1>9, <1>10, <1>11, <1>12 DEF Next

(* The types of the registration: a heartbeat is of an age the threshold tells *)
(* apart, and a process has no more attempts than Register gives it.           *)
THEOREM RegistrationTyped == ASSUME RegistrationAssumption PROVE Spec => []TypeOK
<1> DEFINE Inv == RegistrationInv /\ HealthInv /\ Within(shims)
<1>1. Init => Inv
  <2>1. Init => Within(shims)
    BY DEF Init, Within, Idle, RegistrationAssumption
  <2> QED BY <2>1, RegistrationInit, HealthInit
<1>2. Inv /\ [Next]_rvars => Inv'
  BY RegistrationStep, HealthStep, WithinStep DEF RegistrationInv, Within
<1>3. Inv => TypeOK
  <2> SUFFICES ASSUME Inv PROVE TypeOK
    OBVIOUS
  <2>1. Types /\ calm \in 0..2
    BY DEF RegistrationInv, HealthInv, Settled
  <2>2. \A s \in Shims : shims[s].stage \in Stages /\ shims[s].tries \in 0..Attempts
    BY <2>1 DEF Types, Shim, Within, RegistrationAssumption
  <2>3. \A c \in calls : c.by \in Shims /\ c.age \in 0..1
    BY <2>1 DEF Types, Call
  <2> QED BY <2>1, <2>2, <2>3 DEF TypeOK, Types
<1> QED BY <1>1, <1>2, <1>3, PTL DEF Spec
=============================================================================
