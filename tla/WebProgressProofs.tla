-------------------------- MODULE WebProgressProofs --------------------------
(* Safety of the parts that the run WebProgress checks, for every number of    *)
(* requests, charts, tabs, tokens and deployments.  What they owe in the end   *)
(* is left to TLC.                                                             *)
EXTENDS MCWebProgress, TLAPS

(* A behaviour of the whole, seen from one part, is a behaviour of that part.  *)
LEMMA StepOfParts ==
  ASSUME [Next]_allVars
  PROVE  /\ [Install!Next]_(Install!ivars)
         /\ [SignIn!Next]_(SignIn!svars)
         /\ [Pages!Next]_(Pages!dvars)
<1>1. [Install!Next]_(Install!ivars)
  BY Zenon DEF Next, allVars, installVars, Install!ivars
<1>2. [SignIn!Next]_(SignIn!svars)
  BY Zenon DEF Next, allVars, sessionVars, SignIn!svars
<1>3. [Pages!Next]_(Pages!dvars)
  BY Zenon DEF Next, allVars, pageVars, Pages!dvars
<1> QED BY <1>1, <1>2, <1>3

-----------------------------------------------------------------------------
(* The session.  A request is refused only where AUTH_ENABLED is set.          *)
Stages == {"sent", "handler", "refused", "upstream401", "done"}
Sent == [tab : Tabs, token : Tokens \cup {SignIn!None}, stage : Stages]
Tab == [page : SignIn!Pages, settings : {"loading", "failed", "on", "off"}, signed : BOOLEAN]
SessionInv ==
  /\ stored \in Tokens \cup {SignIn!None} /\ valid \subseteq Tokens
  /\ tabs \in [Tabs -> Tab] /\ requests \subseteq Sent
  /\ \A r \in requests : r.stage = "refused" => Protected = TRUE

LEMMA SessionStart == SignIn!Init => SessionInv
<1> SUFFICES ASSUME SignIn!Init PROVE SessionInv
  OBVIOUS
<1>1. [page |-> "closed", settings |-> "loading", signed |-> FALSE] \in Tab
  BY DEF Tab, SignIn!Pages
<1> QED BY <1>1 DEF SignIn!Init, SessionInv

(* Routing keeps a tab a tab.                                                  *)
LEMMA RouteFits ==
  ASSUME NEW t \in Tab
  PROVE  SignIn!Route(t) \in Tab
<1>1. SignIn!Routed(t) \in SignIn!Pages
  BY DEF SignIn!Routed, SignIn!Pages
<1> QED BY <1>1 DEF SignIn!Route, Tab

(* A step of a request leads to one of its stages, to "refused" only where the *)
(* requests are checked.                                                       *)
LEMMA SessionKeeps ==
  ASSUME SessionInv, [SignIn!Next]_(SignIn!svars)
  PROVE  SessionInv'
<1>1. CASE UNCHANGED SignIn!svars
  BY <1>1 DEF SignIn!svars, SessionInv
<1>2. ASSUME NEW i \in Tabs, NEW link \in Tokens \cup {SignIn!None}, SignIn!Open(i, link) PROVE SessionInv'
  <2>1. PICK t : t = [page |-> IF link = SignIn!None THEN "start" ELSE "link",
                      settings |-> "loading", signed |-> link # SignIn!None]
    OBVIOUS
  <2>2. t \in Tab
    BY <2>1 DEF Tab, SignIn!Pages
  <2>3. tabs' = [tabs EXCEPT ![i] = t] /\ UNCHANGED <<requests, valid>>
        /\ stored' \in Tokens \cup {SignIn!None}
    BY <1>2, <2>1 DEF SignIn!Open, SessionInv
  <2> QED BY <2>2, <2>3 DEF SessionInv
<1>3. ASSUME NEW i \in Tabs, NEW works \in BOOLEAN, SignIn!SettingsAnswer(i, works) PROVE SessionInv'
  <2>1. PICK t : t = [tabs[i] EXCEPT
          !.settings = IF ~works THEN "failed" ELSE IF Protected THEN "on" ELSE "off",
          !.signed = stored # SignIn!None]
    OBVIOUS
  <2>2. t \in Tab
    BY <2>1 DEF SessionInv, Tab
  <2>3. tabs' = [tabs EXCEPT ![i] = SignIn!Route(t)] /\ UNCHANGED <<stored, requests, valid>>
    BY <1>3, <2>1 DEF SignIn!SettingsAnswer, SessionInv
  <2>4. SignIn!Route(t) \in Tab
    BY <2>2, RouteFits
  <2> QED BY <2>3, <2>4 DEF SessionInv
<1>4. ASSUME NEW i \in Tabs, NEW token \in Tokens, SignIn!Paste(i, token) PROVE SessionInv'
  <2>1. PICK t : t = [tabs[i] EXCEPT !.signed = TRUE]
    OBVIOUS
  <2>2. t \in Tab
    BY <2>1 DEF SessionInv, Tab
  <2>3. tabs' = [tabs EXCEPT ![i] = SignIn!Route(t)] /\ stored' = token /\ UNCHANGED <<requests, valid>>
    BY <1>4, <2>1 DEF SignIn!Paste, SessionInv
  <2>4. SignIn!Route(t) \in Tab
    BY <2>2, RouteFits
  <2> QED BY <2>3, <2>4 DEF SessionInv
<1>5. ASSUME NEW i \in Tabs, SignIn!Close(i) PROVE SessionInv'
  <2>1. PICK t : t = [tabs[i] EXCEPT !.page = "closed"]
    OBVIOUS
  <2>2. t \in Tab
    BY <2>1 DEF SessionInv, Tab, SignIn!Pages
  <2>3. tabs' = [tabs EXCEPT ![i] = t] /\ requests' \subseteq requests /\ UNCHANGED <<stored, valid>>
    BY <1>5, <2>1 DEF SignIn!Close, SessionInv
  <2> QED BY <2>2, <2>3 DEF SessionInv
<1>6. ASSUME NEW i \in Tabs, SignIn!Send(i) PROVE SessionInv'
  <2>1. PICK r : r = [tab |-> i, token |-> stored, stage |-> "sent"]
    OBVIOUS
  <2>2. r \in Sent /\ r.stage # "refused"
    BY <2>1 DEF SessionInv, Sent, Stages
  <2>3. requests' = requests \cup {r} /\ UNCHANGED <<stored, tabs, valid>>
    BY <1>6, <2>1 DEF SignIn!Send
  <2> QED BY <2>2, <2>3 DEF SessionInv
<1>7. ASSUME NEW r \in requests, NEW stage \in Stages, SignIn!Step(r, stage),
             stage = "refused" => Protected = TRUE
      PROVE  SessionInv'
  <2>1. PICK new : new = [r EXCEPT !.stage = stage]
    OBVIOUS
  <2>2. new \in Sent /\ new.stage = stage
    BY <2>1 DEF SessionInv, Sent
  <2>3. requests' = (requests \ {r}) \cup {new} /\ UNCHANGED <<stored, tabs, valid>>
    BY <1>7, <2>1 DEF SignIn!Step
  <2> QED BY <1>7, <2>2, <2>3 DEF SessionInv
<1>8. ASSUME NEW i \in Tabs, SignIn!Answered(i) PROVE SessionInv'
  <2>1. PICK r \in requests :
          \/ \E reviewed \in BOOLEAN : SignIn!Authenticate(r, reviewed)
          \/ \E stage \in {"done", "upstream401"} : SignIn!Handle(r, stage)
          \/ SignIn!Arrive(r)
    BY <1>8 DEF SignIn!Answered
  <2>2. ASSUME NEW reviewed \in BOOLEAN, SignIn!Authenticate(r, reviewed) PROVE SessionInv'
    <3>1. Protected \in BOOLEAN
      BY ProgressAssumption DEF SignIn!SessionAssumption
    <3>2. \/ SignIn!Step(r, "handler")
          \/ SignIn!Step(r, "refused") /\ Protected = TRUE
      BY <2>2, <3>1 DEF SignIn!Authenticate
    <3> QED BY <1>7, <3>2 DEF Stages
  <2>3. ASSUME NEW stage \in {"done", "upstream401"}, SignIn!Handle(r, stage) PROVE SessionInv'
    BY <1>7, <2>3 DEF SignIn!Handle, Stages
  <2>4. CASE SignIn!Arrive(r)
    <3>1. requests' \subseteq requests /\ valid' = valid /\ stored' \in {stored, SignIn!None}
      BY <2>4 DEF SignIn!Arrive
    <3>2. r.tab \in Tabs
      BY DEF SessionInv, Sent
    <3>3. PICK t : t = [tabs[r.tab] EXCEPT !.signed = FALSE]
      OBVIOUS
    <3>4. t \in Tab
      BY <3>2, <3>3 DEF SessionInv, Tab
    <3>5. SignIn!Route(t) \in Tab
      BY <3>4, RouteFits
    <3>6. tabs' = tabs \/ tabs' = [tabs EXCEPT ![r.tab] = SignIn!Route(t)]
      BY <2>4, <3>2, <3>3 DEF SignIn!Arrive, SessionInv
    <3> QED BY <3>1, <3>2, <3>5, <3>6 DEF SessionInv
  <2> QED BY <2>1, <2>2, <2>3, <2>4
<1>9. ASSUME NEW token \in Tokens, SignIn!Expire(token) PROVE SessionInv'
  BY <1>9 DEF SignIn!Expire, SessionInv
<1> QED BY <1>1, <1>2, <1>3, <1>4, <1>5, <1>6, <1>8, <1>9 DEF SignIn!Next

LEMMA SessionHolds == Spec => []SessionInv
<1>1. Init => SessionInv
  BY SessionStart DEF Init
<1>2. SessionInv /\ [Next]_allVars => SessionInv'
  BY SessionKeeps, StepOfParts
<1> QED BY <1>1, <1>2, PTL DEF Spec

(* The stored token goes only with a request that the backend, which checks    *)
(* requests, has refused: neither an upstream's 401 nor another tab takes it   *)
(* (handleUnauthorized of hooks/useAuth.ts, isAuthenticationError).            *)
THEOREM RefusedOnly == Spec => OnlyARefusalSignsOut
<1> DEFINE Step == stored # SignIn!None /\ stored' = SignIn!None =>
                     Protected /\ \E r \in requests \ requests' : r.stage = "refused"
<1>1. ASSUME SessionInv, [SignIn!Next]_(SignIn!svars) PROVE [Step]_(SignIn!svars)
  <2> SUFFICES ASSUME SignIn!Next, stored # SignIn!None, stored' = SignIn!None
               PROVE  Protected /\ \E r \in requests \ requests' : r.stage = "refused"
    BY <1>1
  <2>1. SignIn!None \notin Tokens
    BY ProgressAssumption DEF SignIn!SessionAssumption
  <2>2. ASSUME NEW i \in Tabs, NEW link \in Tokens \cup {SignIn!None}, SignIn!Open(i, link) PROVE FALSE
    BY <2>2 DEF SignIn!Open
  <2>3. ASSUME NEW i \in Tabs, NEW token \in Tokens, SignIn!Paste(i, token) PROVE FALSE
    BY <2>1, <2>3 DEF SignIn!Paste
  <2>4. ASSUME NEW r \in requests, SignIn!Arrive(r) PROVE Protected /\ \E s \in requests \ requests' : s.stage = "refused"
    <3>1. r.stage = "refused" /\ requests' = requests \ {r}
      BY <2>4 DEF SignIn!Arrive, SignIn!SignsOut
    <3> QED BY <1>1, <3>1 DEF SessionInv
  <2>5. stored' # stored
    OBVIOUS
  <2> QED BY <2>2, <2>3, <2>4, <2>5
          DEF SignIn!Next, SignIn!SettingsAnswer, SignIn!Close, SignIn!Send, SignIn!Answered, SignIn!Authenticate,
              SignIn!Handle, SignIn!Step, SignIn!Expire
<1>2. SessionInv /\ [Next]_allVars => [Step]_(SignIn!svars)
  BY <1>1, StepOfParts
<1> QED BY <1>2, SessionHolds, PTL DEF Spec, OnlyARefusalSignsOut, SignIn!OnlyARefusalSignsOut
-----------------------------------------------------------------------------
(* The details pages.  A page keeps one answer at most of each deployment, and *)
(* pods of the deployments; a request in flight is for a deployment, and has   *)
(* read some of what it wants.                                                 *)
One(answers) == \A a, b \in answers : a = b
Podded(pods) == \A x \in pods : x[2] \in PodNames
Keeps(k) ==
  /\ k = [dep |-> k.dep, pods |-> k.pods, error |-> k.error, loading |-> k.loading]
  /\ One(k.dep) /\ Podded(k.pods) /\ k.error \in BOOLEAN
Flight(f) ==
  /\ f = [of |-> f.of, wants |-> f.wants, dep |-> f.dep, pods |-> f.pods, read |-> f.read, first |-> f.first]
  /\ f.of \in Shown \cup {Pages!Nobody} /\ f.read \subseteq f.wants
  /\ f.of = Pages!Nobody => f.wants = {}
  /\ One(f.dep) /\ Podded(f.pods)
Deployed(c) ==
  /\ c = [there |-> c.there, reported |-> c.reported, replicas |-> c.replicas, pods |-> c.pods]
  /\ DOMAIN c.pods \subseteq PodNames
PagesInv ==
  /\ ui \in Pages!Uis /\ target \in Shown \cup {Pages!Nobody} /\ selected \in PodNames \cup {Pages!Nobody}
  /\ DOMAIN data = Pages!Places /\ \A p \in Pages!Places : Keeps(data[p])
  /\ DOMAIN flights = Slots /\ \A s \in Slots : Flight(flights[s])
  /\ DOMAIN cluster = Shown /\ \A d \in Shown : Deployed(cluster[d])

LEMMA FirstIsOne == ASSUME NEW names, names # {} PROVE Pages!FirstOf(names) \in names
BY DEF Pages!FirstOf

LEMMA PlaceIsThere == ASSUME NEW d \in Shown PROVE Pages!Place(d) \in Pages!Places /\ "page" \in Pages!Places
BY DEF Pages!Place, Pages!Places

LEMMA EmptyFits == Keeps(Pages!Empty) /\ Flight(Pages!Free)
BY DEF Keeps, Flight, One, Podded, Pages!Empty, Pages!Free

LEMMA PagesStart == Pages!Init => PagesInv
<1> SUFFICES ASSUME Pages!Init PROVE PagesInv
  OBVIOUS
<1>1. Pages!FirstOf(PodNames) \in PodNames
  BY ProgressAssumption, FirstIsOne DEF Pages!PagesAssumption
<1>2. PICK c : c = [there |-> TRUE, reported |-> "Pending", replicas |-> "unset",
                    pods |-> [p \in {Pages!FirstOf(PodNames)} |-> "scheduled"]]
  OBVIOUS
<1>3. Deployed(c)
  BY <1>1, <1>2 DEF Deployed
<1>4. cluster = [d \in Shown |-> c]
  BY <1>2 DEF Pages!Init
<1> QED BY <1>3, <1>4, EmptyFits DEF Pages!Init, PagesInv

(* The data and the requests after a step, each by itself.                     *)
LEMMA DataKeeps ==
  ASSUME PagesInv, NEW p \in Pages!Places, NEW k, Keeps(k), data' = [data EXCEPT ![p] = k]
  PROVE  DOMAIN data' = Pages!Places /\ \A q \in Pages!Places : Keeps(data'[q])
BY DEF PagesInv

LEMMA FlightsKeep ==
  ASSUME PagesInv, NEW s \in Slots, NEW f, Flight(f), flights' = [flights EXCEPT ![s] = f]
  PROVE  DOMAIN flights' = Slots /\ \A o \in Slots : Flight(flights'[o])
BY DEF PagesInv

LEMMA AskKeeps ==
  ASSUME PagesInv, NEW s \in Slots, NEW d \in Shown, NEW wants, NEW first, Pages!Ask(s, d, wants, first)
  PROVE  DOMAIN flights' = Slots /\ \A o \in Slots : Flight(flights'[o])
<1>1. PICK f : f = [Pages!Free EXCEPT !.of = d, !.wants = wants, !.first = first]
  OBVIOUS
<1>2. d # Pages!Nobody
  BY ProgressAssumption DEF Pages!PagesAssumption
<1>3. Flight(f)
  BY <1>1, <1>2 DEF Flight, Pages!Free, One, Podded
<1>4. flights' = [flights EXCEPT ![s] = f]
  BY <1>1 DEF Pages!Ask
<1> QED BY <1>3, <1>4, FlightsKeep

(* What arrives is kept, or shows as an error.                                 *)
LEMMA SettledFits ==
  ASSUME NEW k, Keeps(k), NEW f, Flight(f), NEW failed \in BOOLEAN
  PROVE  Keeps(Pages!Settled(k, f, failed))
<1>1. PICK new : new = Pages!Settled(k, f, failed)
  OBVIOUS
<1>2. CASE failed \/ Pages!NotFound(f)
  <2>1. new = [k EXCEPT !.loading = @ /\ ~f.first, !.error = @ \/ "dep" \in f.wants]
    BY <1>1, <1>2 DEF Pages!Settled
  <2>2. /\ new = [dep |-> new.dep, pods |-> new.pods, error |-> new.error, loading |-> new.loading]
        /\ new.dep = k.dep /\ new.pods = k.pods /\ new.error = (k.error \/ "dep" \in f.wants)
    BY <2>1 DEF Keeps
  <2>3. new.error \in BOOLEAN
    BY <2>2
  <2> QED BY <1>1, <2>2, <2>3 DEF Keeps
<1>3. CASE ~(failed \/ Pages!NotFound(f))
  <2>1. /\ new = [dep |-> new.dep, pods |-> new.pods, error |-> new.error, loading |-> new.loading]
        /\ new.dep \in {k.dep, f.dep} /\ new.pods \in {k.pods, f.pods}
        /\ new.error = (k.error /\ (ui = "plugin" \/ "dep" \notin f.wants))
    BY <1>1, <1>3 DEF Pages!Settled
  <2>2. new.error \in BOOLEAN
    BY <2>1
  <2> QED BY <1>1, <2>1, <2>2 DEF Keeps, Flight
<1> QED BY <1>2, <1>3

LEMMA SettleKeeps ==
  ASSUME PagesInv, NEW s \in Slots, NEW failed \in BOOLEAN, Pages!Settle(s, failed)
  PROVE  PagesInv'
<1>1. PICK f : f = flights[s]
  OBVIOUS
<1>2. PICK k : k = Pages!Settled(data[Pages!Place(f.of)], f, failed)
  OBVIOUS
<1>3. /\ f.of # Pages!Nobody /\ flights' = [flights EXCEPT ![s] = Pages!Free]
      /\ data' = [data EXCEPT ![Pages!Place(f.of)] = k]
      /\ selected' = Pages!Choice(k.pods) \/ selected' = selected
      /\ UNCHANGED <<ui, cluster, target>>
  BY <1>1, <1>2 DEF Pages!Settle
<1>4. Flight(f) /\ f.of \in Shown
  BY <1>1, <1>3 DEF PagesInv, Flight
<1>5. Pages!Place(f.of) \in Pages!Places
  BY <1>4, PlaceIsThere
<1>6. Keeps(k)
  BY <1>2, <1>4, <1>5, SettledFits DEF PagesInv
<1>7. Pages!Choice(k.pods) \in PodNames \cup {Pages!Nobody}
  <2>1. PICK names : names = Pages!Named(k.pods)
    OBVIOUS
  <2>2. names \subseteq PodNames
    BY <1>6, <2>1 DEF Pages!Named, Keeps, Podded
  <2>3. k.pods # {} => Pages!FirstOf(names) \in names
    <3>1. k.pods # {} => names # {}
      BY <2>1 DEF Pages!Named
    <3> QED BY <3>1, FirstIsOne
  <2>4. Pages!Choice(k.pods) \in {Pages!Nobody, selected}
        \/ (k.pods # {} /\ Pages!Choice(k.pods) = Pages!FirstOf(names))
    BY <2>1 DEF Pages!Choice
  <2> QED BY <2>2, <2>3, <2>4 DEF PagesInv
<1>8. DOMAIN data' = Pages!Places /\ \A q \in Pages!Places : Keeps(data'[q])
  BY <1>3, <1>5, <1>6, DataKeeps
<1>9. DOMAIN flights' = Slots /\ \A o \in Slots : Flight(flights'[o])
  BY <1>3, EmptyFits, FlightsKeep
<1> QED BY <1>3, <1>7, <1>8, <1>9 DEF PagesInv

LEMMA ChangedKeeps ==
  ASSUME PagesInv, NEW d, NEW c, d \in Shown => Deployed(c), Pages!Changed(d, c)
  PROVE  PagesInv'
<1>1. cluster' = [cluster EXCEPT ![d] = c] /\ UNCHANGED <<ui, target, data, flights, selected>>
  BY DEF Pages!Changed
<1>2. DOMAIN cluster' = Shown /\ \A e \in Shown : Deployed(cluster'[e])
  BY <1>1 DEF PagesInv
<1> QED BY <1>1, <1>2 DEF PagesInv

LEMMA PagesKeep ==
  ASSUME PagesInv, [Pages!Next]_(Pages!dvars)
  PROVE  PagesInv'
<1>1. CASE UNCHANGED Pages!dvars
  BY <1>1 DEF Pages!dvars, PagesInv
<1>2. ASSUME NEW d \in Shown, Pages!Open(d) PROVE PagesInv'
  <2>1. PICK p \in Pages!Places : p = Pages!Place(d)
    BY PlaceIsThere
  <2>2. PICK k : k = [data[p] EXCEPT !.loading = (ui = "plugin"), !.error = FALSE]
    OBVIOUS
  <2>3. Keeps(k)
    <3>1. Keeps(data[p])
      BY DEF PagesInv
    <3>2. /\ k = [dep |-> k.dep, pods |-> k.pods, error |-> k.error, loading |-> k.loading]
          /\ k.dep = data[p].dep /\ k.pods = data[p].pods /\ k.error = FALSE
      BY <2>2, <3>1 DEF Keeps
    <3> QED BY <3>1, <3>2 DEF Keeps
  <2>4. data' = [data EXCEPT ![p] = k]
    BY <1>2, <2>1, <2>2 DEF Pages!Open, PagesInv
  <2>5. DOMAIN data' = Pages!Places /\ \A q \in Pages!Places : Keeps(data'[q])
    BY <2>3, <2>4, DataKeeps
  <2>6. PICK s \in Slots, wants \in Pages!Queries : Pages!Ask(s, d, wants, ui = "plugin")
    BY <1>2 DEF Pages!Open
  <2>7. DOMAIN flights' = Slots /\ \A o \in Slots : Flight(flights'[o])
    BY <2>6, AskKeeps
  <2>8. target' = d /\ selected' \in {Pages!Nobody, selected} /\ UNCHANGED <<ui, cluster>>
    BY <1>2 DEF Pages!Open
  <2> QED BY <2>5, <2>7, <2>8 DEF PagesInv
<1>3. ASSUME NEW d \in Shown, Pages!Moves(d) PROVE PagesInv'
  <2>1. ASSUME NEW p \in PodNames, NEW state, Pages!Changed(d, [cluster[d] EXCEPT !.pods = [q \in {p} |-> state]])
        PROVE  PagesInv'
    <3>1. Deployed([cluster[d] EXCEPT !.pods = [q \in {p} |-> state]])
      BY DEF PagesInv, Deployed
    <3> QED BY <2>1, <3>1, ChangedKeeps
  <2>2. ASSUME NEW ready, Pages!Changed(d, [cluster[d] EXCEPT !.reported = "Running", !.replicas = ready])
        PROVE  PagesInv'
    <3>1. PICK c : c = [cluster[d] EXCEPT !.reported = "Running", !.replicas = ready]
      OBVIOUS
    <3>2. Deployed(cluster[d])
      BY DEF PagesInv
    <3>3. /\ c = [there |-> c.there, reported |-> c.reported, replicas |-> c.replicas, pods |-> c.pods]
          /\ c.pods \in {cluster[d].pods, << >>}
      BY <3>1, <3>2 DEF Deployed
    <3>4. DOMAIN c.pods \subseteq PodNames
      BY <3>2, <3>3 DEF Deployed
    <3>5. Deployed(c)
      BY <3>3, <3>4 DEF Deployed
    <3> QED BY <2>2, <3>1, <3>5, ChangedKeeps
  <2>3. CASE Pages!Changed(d, [cluster[d] EXCEPT !.there = FALSE, !.pods = << >>])
    <3>1. PICK c : c = [cluster[d] EXCEPT !.there = FALSE, !.pods = << >>]
      OBVIOUS
    <3>2. Deployed(cluster[d])
      BY DEF PagesInv
    <3>3. /\ c = [there |-> c.there, reported |-> c.reported, replicas |-> c.replicas, pods |-> c.pods]
          /\ c.pods \in {cluster[d].pods, << >>}
      BY <3>1, <3>2 DEF Deployed
    <3>4. DOMAIN c.pods \subseteq PodNames
      BY <3>2, <3>3 DEF Deployed
    <3>5. Deployed(c)
      BY <3>3, <3>4 DEF Deployed
    <3> QED BY <2>3, <3>1, <3>5, ChangedKeeps
  <2> QED BY <1>3, <2>1, <2>2, <2>3 DEF Pages!Moves
<1>4. ASSUME NEW wants \in Pages!Queries, Pages!Poll(wants) PROVE PagesInv'
  <2>1. target \in Shown
    BY <1>4 DEF Pages!Poll, PagesInv
  <2>2. PICK s \in Slots : Pages!Ask(s, target, wants, FALSE)
    BY <1>4 DEF Pages!Poll
  <2>3. DOMAIN flights' = Slots /\ \A o \in Slots : Flight(flights'[o])
    BY <2>1, <2>2, AskKeeps
  <2>4. "page" \in Pages!Places
    BY DEF Pages!Places
  <2>5. PICK k : k = [data["page"] EXCEPT !.error = IF ui = "plugin" THEN FALSE ELSE @]
    OBVIOUS
  <2>6. Keeps(k)
    <3>1. Keeps(data["page"])
      BY <2>4 DEF PagesInv
    <3>2. /\ k = [dep |-> k.dep, pods |-> k.pods, error |-> k.error, loading |-> k.loading]
          /\ k.dep = data["page"].dep /\ k.pods = data["page"].pods /\ k.error \in {FALSE, data["page"].error}
      BY <2>5, <3>1 DEF Keeps
    <3> QED BY <3>1, <3>2 DEF Keeps
  <2>7. data' = [data EXCEPT !["page"] = k] /\ UNCHANGED <<ui, cluster, target, selected>>
    BY <1>4, <2>4, <2>5 DEF Pages!Poll, PagesInv
  <2>8. DOMAIN data' = Pages!Places /\ \A q \in Pages!Places : Keeps(data'[q])
    BY <2>4, <2>6, <2>7, DataKeeps
  <2> QED BY <2>3, <2>7, <2>8 DEF PagesInv
<1>5. ASSUME NEW s \in Slots, NEW what \in {"dep", "pods"}, Pages!Read(s, what) PROVE PagesInv'
  <2>1. PICK d : d = flights[s].of
    OBVIOUS
  <2>2. what \in flights[s].wants /\ Flight(flights[s])
    BY <1>5 DEF Pages!Read, PagesInv
  <2>3. d \in Shown
    BY <2>1, <2>2 DEF Flight
  <2>4. PICK f : f = [flights[s] EXCEPT !.read = @ \cup {what},
          !.dep = IF what = "dep" \/ ~cluster[d].there THEN {Pages!Answer(d)} ELSE @,
          !.pods = IF what = "pods" THEN Pages!PodsOf(d) ELSE @]
    OBVIOUS
  <2>5. flights' = [flights EXCEPT ![s] = f] /\ UNCHANGED <<ui, cluster, target, data, selected>>
    BY <1>5, <2>1, <2>4 DEF Pages!Read, PagesInv
  <2>6. Podded(Pages!PodsOf(d))
    <3>1. DOMAIN cluster[d].pods \subseteq PodNames
      BY <2>3 DEF PagesInv, Deployed
    <3> QED BY <3>1 DEF Podded, Pages!PodsOf
  <2>7. /\ f = [of |-> f.of, wants |-> f.wants, dep |-> f.dep, pods |-> f.pods, read |-> f.read, first |-> f.first]
        /\ f.of = d /\ f.wants = flights[s].wants /\ f.read = flights[s].read \cup {what}
        /\ f.dep \in {{Pages!Answer(d)}, flights[s].dep} /\ f.pods \in {Pages!PodsOf(d), flights[s].pods}
    BY <2>1, <2>2, <2>4 DEF Flight
  <2>8. Flight(f)
    <3>1. One(f.dep)
      BY <2>2, <2>7 DEF One, Flight
    <3>2. Podded(f.pods)
      BY <2>2, <2>6, <2>7 DEF Flight
    <3> QED BY <2>1, <2>2, <2>7, <3>1, <3>2 DEF Flight
  <2>9. DOMAIN flights' = Slots /\ \A o \in Slots : Flight(flights'[o])
    BY <2>5, <2>8, FlightsKeep
  <2> QED BY <2>5, <2>9 DEF PagesInv
<1>6. ASSUME NEW s \in Slots, Pages!Arrive(s) \/ Pages!Fail(s) PROVE PagesInv'
  BY <1>6, SettleKeeps DEF Pages!Arrive, Pages!Fail
<1>7. CASE Pages!Delete
  <2>1. PICK a \in data[Pages!Place(target)].dep :
          Pages!Changed(a.of, [cluster[a.of] EXCEPT !.reported = "Terminating"])
    BY <1>7 DEF Pages!Delete
  <2>2. a.of \in Shown => Deployed([cluster[a.of] EXCEPT !.reported = "Terminating"])
    BY DEF PagesInv, Deployed
  <2> QED BY <2>1, <2>2, ChangedKeeps
<1>8. CASE Pages!Leave
  <2>1. /\ data' = [data EXCEPT !["page"] = Pages!Empty] /\ target' = Pages!Nobody
        /\ selected' = Pages!Nobody /\ UNCHANGED <<ui, cluster>>
        /\ flights' \in {[s \in Slots |-> Pages!Free], flights}
    BY <1>8 DEF Pages!Leave
  <2>2. DOMAIN data' = Pages!Places /\ \A q \in Pages!Places : Keeps(data'[q])
    BY <2>1, EmptyFits DEF PagesInv
  <2>3. DOMAIN flights' = Slots /\ \A o \in Slots : Flight(flights'[o])
    BY <2>1, EmptyFits DEF PagesInv
  <2> QED BY <2>1, <2>2, <2>3 DEF PagesInv
<1> QED BY <1>1, <1>2, <1>3, <1>4, <1>5, <1>6, <1>7, <1>8 DEF Pages!Next

LEMMA PagesHold == Spec => []PagesInv
<1>1. Init => PagesInv
  BY PagesStart DEF Init
<1>2. PagesInv /\ [Next]_allVars => PagesInv'
  BY PagesKeep, StepOfParts
<1> QED BY <1>1, <1>2, PTL DEF Spec
-----------------------------------------------------------------------------
(* The installer.  The steps of an install with a chart at hand, and what each *)
(* step of a request says of the request itself.                               *)
AtChart == {"pre", "pull", "crd", "apply", "fetch", "install", "helming"}
WithChart == {"crd", "apply", "install", "helming"}
Fields == {"op", "pc", "chart", "crd", "answer", "ok", "temp", "crashed", "saw", "alone"}
Job(q) ==
  /\ DOMAIN q = Fields
  /\ q.op \in {"none", "install", "uninstall", "forget"}
  /\ q.chart \in 0..Install!NCharts /\ q.crd \in Nat
  /\ q.ok \in BOOLEAN /\ q.temp \in BOOLEAN /\ q.crashed \in BOOLEAN /\ q.alone \in BOOLEAN
  /\ q.saw \subseteq Crds
Placed(q) ==
  /\ q.pc \in AtChart => q.op = "install" /\ q.chart > 0
  /\ q.pc \in {"pull", "crd", "apply"} => Charts[q.chart].managed = TRUE
  /\ q.pc = "fetch" => Charts[q.chart].managed = FALSE
  /\ q.pc \in {"crd", "apply"} => q.crd > 0
  /\ q.pc = "pre" => q.crd \in DOMAIN Charts[q.chart].pre
  /\ q.pc = "apply" => /\ q.crd \in DOMAIN Charts[q.chart].crds
                       /\ Charts[q.chart].crds[q.crd] \notin q.saw
  /\ q.pc = "remove" => q.op = "uninstall"
  /\ q.pc = "context" => q.op # "none"
  /\ q.pc = "helm" => q.op \in {"install", "uninstall"}
  /\ q.pc = "forget" => q.op = "forget"
  /\ q.temp = TRUE => q.pc \in WithChart \/ (q.pc = "done" /\ q.crashed = TRUE)

(* What a request that had the cluster for itself can rely on: an install, that*)
(* the charts before its own are there with the CRDs it sees to, and of its own*)
(* what its earlier steps brought; an uninstall that met no failure, that the  *)
(* releases of the charts behind it are gone.                                  *)
Present(cs, names) == \A c \in names : cs[c] # "none"
ChartDone(i, cs, rs) == rs[i] = "deployed" /\ Present(cs, Install!EnsuredCrds(i))
Achieved(q, cs, rs, charted) ==
  /\ q.pc \in AtChart => \A i \in 1..Install!NCharts : i < q.chart => ChartDone(i, cs, rs)
  /\ q.pc = "pre" =>
       \A k \in DOMAIN Charts[q.chart].pre : k < q.crd => cs[Charts[q.chart].pre[k]] # "none"
  /\ q.pc \in AtChart \ {"pre"} => Present(cs, Install!PreCrds(q.chart))
  /\ q.pc \in {"crd", "apply"} =>
       \A k \in DOMAIN Charts[q.chart].crds : k < q.crd => cs[Charts[q.chart].crds[k]] # "none"
  /\ q.pc \in {"install", "helming"} => Present(cs, Install!EnsuredCrds(q.chart))
  /\ q.pc = "helming" => rs[q.chart] = "pending"
  /\ q.pc = "done" /\ q.answer = 200 /\ q.op = "install" =>
       \A i \in 1..Install!NCharts : ChartDone(i, cs, rs)
  /\ q.pc = "remove" /\ q.ok /\ charted => \A i \in 1..Install!NCharts : i > q.chart => rs[i] = "none"
  /\ q.pc = "done" /\ q.answer = 200 /\ q.op = "uninstall" /\ q.ok /\ charted =>
       \A i \in 1..Install!NCharts : rs[i] = "none"

Alone(r) == job[r].alone = TRUE /\ job[r].pc # "free"
InstallInv ==
  /\ provider \in Install!Providers
  /\ crds \in [Crds -> {"none", "foreign", "ours"}]
  /\ releases \in [1..Install!NCharts -> Install!ReleaseStates]
  /\ operator \in BOOLEAN /\ meddled \in 0..MaxMeddling
  /\ page.pending \in BOOLEAN /\ page.sent \in BOOLEAN
  /\ page = [status |-> page.status, pending |-> page.pending, sent |-> page.sent]
  /\ DOMAIN job = Installs
  /\ \A r \in Installs : Job(job[r]) /\ Placed(job[r])
  /\ \A r \in Installs : Alone(r) =>
       /\ Achieved(job[r], crds, releases, provider.charts)
       /\ \A s \in Installs \ {r} : job[s].pc = "free"

LEMMA ElementFits == ASSUME NEW S, NEW list \in Seq(S), NEW i \in 1..Len(list)
                    PROVE  i \in DOMAIN list /\ list[i] \in S
OBVIOUS

LEMMA ChartsFit ==
  ASSUME NEW i \in 1..Install!NCharts
  PROVE  /\ i \in DOMAIN Charts /\ Charts[i].managed \in BOOLEAN /\ Charts[i].fetched \in BOOLEAN
         /\ Charts[i].crds \in Seq(Crds) /\ Charts[i].pre \in Seq(Crds)
         /\ Install!PreCrds(i) \subseteq Crds /\ Install!EnsuredCrds(i) \subseteq Crds
<1> DEFINE Chart == [managed : BOOLEAN, fetched : BOOLEAN, crds : Seq(Crds), pre : Seq(Crds)]
<1>1. Charts \in Seq(Chart)
  BY ProgressAssumption DEF Install!InstallAssumption
<1>2. i \in DOMAIN Charts /\ Charts[i] \in Chart
  <2> HIDE DEF Chart
  <2> QED BY <1>1, ElementFits DEF Install!NCharts
<1>3. PICK chart \in Chart : chart = Charts[i]
  BY <1>2
<1>4. /\ \A k \in DOMAIN chart.crds : chart.crds[k] \in Crds
      /\ \A k \in DOMAIN chart.pre : chart.pre[k] \in Crds
  OBVIOUS
<1>5. Install!PreCrds(i) \subseteq Crds /\ Install!EnsuredCrds(i) \subseteq Crds
  BY <1>3, <1>4 DEF Install!PreCrds, Install!ChartCrds, Install!EnsuredCrds
<1> QED BY <1>2, <1>5

LEMMA ChartsCounted == Install!NCharts \in Nat
BY ProgressAssumption DEF Install!InstallAssumption, Install!NCharts

LEMMA NoJobFits == Job(Install!NoJob) /\ Placed(Install!NoJob)
BY ChartsCounted DEF Install!NoJob, Job, Fields, AtChart, WithChart, Placed

(* A request takes a step: it keeps its place, and when it is alone what it    *)
(* relies on; the others, if it is alone, are not there.                       *)
LEMMA OneJob ==
  ASSUME InstallInv, NEW r \in Installs, NEW new, Job(new), Placed(new),
         job[r].pc # "free", job' = [job EXCEPT ![r] = new],
         UNCHANGED <<operator, meddled, page>>, provider' \in Install!Providers,
         crds' \in [Crds -> {"none", "foreign", "ours"}],
         releases' \in [1..Install!NCharts -> Install!ReleaseStates],
         new.alone = TRUE /\ new.pc # "free" =>
           Alone(r) /\ Achieved(new, crds', releases', provider'.charts)
  PROVE  InstallInv'
<1>1. /\ DOMAIN job' = Installs /\ job'[r] = new
      /\ \A s \in Installs \ {r} : job'[s] = job[s]
  BY DEF InstallInv
<1>2. ASSUME NEW s \in Installs PROVE Job(job'[s]) /\ Placed(job'[s])
  <2>1. Placed(job[s]) /\ Job(job[s])
    BY DEF InstallInv
  <2> QED BY <1>1, <2>1
<1>3. ASSUME NEW s \in Installs, job'[s].alone = TRUE, job'[s].pc # "free"
      PROVE  /\ Achieved(job'[s], crds', releases', provider'.charts)
             /\ \A o \in Installs \ {s} : job'[o].pc = "free"
  <2>1. CASE s = r
    <3>1. Alone(r) /\ Achieved(new, crds', releases', provider'.charts)
      BY <1>1, <1>3, <2>1
    <3>2. \A o \in Installs \ {r} : job[o].pc = "free"
      BY <3>1 DEF InstallInv
    <3> QED BY <1>1, <2>1, <3>1, <3>2
  <2>2. CASE s # r
    <3>1. Alone(s)
      BY <1>1, <1>3, <2>2 DEF Alone
    <3> QED BY <2>2, <3>1 DEF InstallInv
  <2> QED BY <2>1, <2>2
<1> QED BY <1>1, <1>2, <1>3 DEF InstallInv, Alone

(* What a request that is alone relies on.                                     *)
LEMMA Relied ==
  ASSUME InstallInv, NEW r \in Installs, Alone(r)
  PROVE  Achieved(job[r], crds, releases, provider.charts)
BY DEF InstallInv

(* The end of a request that failed.                                           *)
LEMMA FailedKeeps ==
  ASSUME InstallInv, NEW r \in Installs, job[r].pc # "free", Install!Failed(r),
         UNCHANGED <<provider, operator, meddled, page>>,
         crds' \in [Crds -> {"none", "foreign", "ours"}],
         releases' \in [1..Install!NCharts -> Install!ReleaseStates]
  PROVE  InstallInv'
<1>1. PICK q : q = job[r] /\ Job(q)
  BY DEF InstallInv
<1>2. PICK new : new = [q EXCEPT !.pc = "done", !.answer = 500, !.temp = FALSE, !.chart = 0, !.crd = 0,
                          !.saw = {}]
  OBVIOUS
<1>3. /\ DOMAIN new = Fields /\ new.op = q.op /\ new.pc = "done" /\ new.chart = 0 /\ new.crd = 0
      /\ new.answer = 500 /\ new.ok = q.ok /\ new.crashed = q.crashed
      /\ new.saw = {} /\ new.alone = q.alone
  BY <1>1, <1>2 DEF Job, Fields
<1>6. new.temp = FALSE
  BY <1>1, <1>2 DEF Job, Fields
<1>8. new.ok \in BOOLEAN /\ new.temp \in BOOLEAN /\ new.crashed \in BOOLEAN /\ new.alone \in BOOLEAN
  BY <1>1, <1>3, <1>6 DEF Job
<1>9. q.op \in {"none", "install", "uninstall", "forget"}
  BY <1>1 DEF Job
<1>7. Job(new)
  BY <1>3, <1>8, <1>9, ChartsCounted DEF Job
<1>4. Placed(new) /\ Achieved(new, crds', releases', provider'.charts)
  BY <1>3, <1>6 DEF Placed, Achieved, AtChart
<1>5. job' = [job EXCEPT ![r] = new]
  BY <1>1, <1>2 DEF Install!Failed, Install!Set
<1> QED BY <1>1, <1>3, <1>4, <1>5, <1>7, OneJob DEF InstallInv, Alone

(* A request that answers, or goes on, by the number of its next step alone.   *)
LEMMA MovesOn ==
  ASSUME InstallInv, NEW r \in Installs, job[r].pc # "free",
         NEW new, Job(new), Placed(new), job' = [job EXCEPT ![r] = new],
         new.alone = job[r].alone,
         Alone(r) => Achieved(new, crds, releases, provider.charts),
         UNCHANGED <<provider, crds, releases, operator, meddled, page>>
  PROVE  InstallInv'
BY OneJob DEF InstallInv, Alone

(* installProvider goes on to a chart, or is done.                             *)
LEMMA OnToFits ==
  ASSUME NEW q, Job(q), q.op = "install", q.temp = FALSE, NEW i \in 1..(Install!NCharts + 1),
         NEW cs, NEW rs, NEW charted, NEW new, new = Install!OnTo(q, i)
  PROVE  /\ Job(new) /\ Placed(new) /\ new.alone = q.alone
         /\ (\A j \in 1..Install!NCharts : j < i => ChartDone(j, cs, rs)) =>
              Achieved(new, cs, rs, charted)
<1>1. CASE i > Install!NCharts
  <2>1. new = [q EXCEPT !.pc = "done", !.answer = 200, !.chart = 0, !.crd = 0]
    BY <1>1 DEF Install!OnTo
  <2>2. /\ DOMAIN new = Fields /\ new.op = "install" /\ new.pc = "done" /\ new.chart = 0 /\ new.crd = 0
        /\ new.ok = q.ok /\ new.temp = FALSE /\ new.crashed = q.crashed
        /\ new.saw = q.saw /\ new.alone = q.alone
    BY <2>1 DEF Job, Fields
  <2>6. new.ok \in BOOLEAN /\ new.temp \in BOOLEAN /\ new.crashed \in BOOLEAN /\ new.alone \in BOOLEAN
    BY <2>2 DEF Job
  <2>7. q.op \in {"none", "install", "uninstall", "forget"} /\ q.saw \subseteq Crds
    BY DEF Job
  <2>3. Job(new)
    BY <2>2, <2>6, <2>7, ChartsCounted DEF Job
  <2>4. Placed(new)
    BY <2>2 DEF Placed, AtChart
  <2>5. (\A j \in 1..Install!NCharts : j < i => ChartDone(j, cs, rs)) => Achieved(new, cs, rs, charted)
    BY <1>1, <2>2, ChartsCounted DEF Achieved, AtChart
  <2> QED BY <2>2, <2>3, <2>4, <2>5
<1>2. CASE ~(i > Install!NCharts)
  <2>1. i \in 1..Install!NCharts
    BY <1>2, ChartsCounted
  <2>2. PICK list \in Seq(Crds) : list = Charts[i].pre
    BY <2>1, ChartsFit
  <2>3. PICK pc : pc = IF list # << >> THEN "pre" ELSE Install!AfterPre(i)
    OBVIOUS
  <2>4. PICK k \in Nat : k = IF list # << >> THEN 1 ELSE 0
    OBVIOUS
  <2>5. /\ pc \in {"pre", "pull", "fetch", "install"}
        /\ pc = "pre" => 1 \in DOMAIN list /\ k = 1
        /\ pc # "pre" => list = << >>
    BY <2>2, <2>3, <2>4 DEF Install!AfterPre
  <2>6. /\ pc = "pull" => Charts[i].managed = TRUE
        /\ pc \in {"fetch", "install"} => Charts[i].managed = FALSE
    BY <2>1, <2>3, ChartsFit DEF Install!AfterPre
  <2>13. new = [q EXCEPT !.pc = pc, !.chart = i, !.crd = k]
    BY <1>2, <2>2, <2>3, <2>4 DEF Install!OnTo
  <2>7. /\ DOMAIN new = Fields /\ new.op = "install" /\ new.pc = pc /\ new.chart = i /\ new.crd = k
        /\ new.ok = q.ok /\ new.temp = FALSE /\ new.crashed = q.crashed
        /\ new.saw = q.saw /\ new.alone = q.alone
    BY <2>13 DEF Job, Fields
  <2>11. new.ok \in BOOLEAN /\ new.temp \in BOOLEAN /\ new.crashed \in BOOLEAN /\ new.alone \in BOOLEAN
    BY <2>7 DEF Job
  <2>12. q.op \in {"none", "install", "uninstall", "forget"} /\ q.saw \subseteq Crds
    BY DEF Job
  <2>8. Job(new)
    BY <2>1, <2>7, <2>11, <2>12 DEF Job
  <2>9. Placed(new)
    BY <2>1, <2>2, <2>5, <2>6, <2>7 DEF Placed
  <2>10. ASSUME \A j \in 1..Install!NCharts : j < i => ChartDone(j, cs, rs)
         PROVE  Achieved(new, cs, rs, charted)
    <3>1. \A n \in DOMAIN list : ~(n < 1)
      BY <2>2
    <3>2. pc # "pre" => Present(cs, Install!PreCrds(i))
      BY <2>2, <2>5 DEF Present, Install!PreCrds
    <3>3. pc = "install" => Present(cs, Install!EnsuredCrds(i))
      BY <2>6, <3>2 DEF Present, Install!EnsuredCrds
    <3> QED BY <2>2, <2>5, <2>7, <2>10, <3>1, <3>2, <3>3 DEF Achieved, AtChart
  <2> QED BY <2>7, <2>8, <2>9, <2>10
<1> QED BY <1>1, <1>2

(* A step that changes only where the request is, and one that answers.        *)
SameBut(new, q) ==
  /\ new.op = q.op /\ new.chart = q.chart /\ new.crd = q.crd /\ new.ok = q.ok /\ new.temp = q.temp
  /\ new.crashed = q.crashed /\ new.saw = q.saw /\ new.alone = q.alone

LEMMA SameFits ==
  ASSUME NEW q, Job(q), NEW new, DOMAIN new = Fields, SameBut(new, q)
  PROVE  Job(new)
<1>1. new.ok \in BOOLEAN /\ new.temp \in BOOLEAN /\ new.crashed \in BOOLEAN /\ new.alone \in BOOLEAN
  BY DEF Job, SameBut
<1> QED BY <1>1 DEF Job, SameBut

LEMMA Went ==
  ASSUME InstallInv, NEW r \in Installs, NEW pc, Install!Goto(r, pc)
  PROVE  \E new : /\ Job(new) /\ job' = [job EXCEPT ![r] = new]
                  /\ SameBut(new, job[r]) /\ new.pc = pc
<1>1. PICK q : q = job[r] /\ Job(q)
  BY DEF InstallInv
<1>2. PICK new : new = [q EXCEPT !.pc = pc]
  OBVIOUS
<1>3. DOMAIN new = Fields /\ SameBut(new, q) /\ new.pc = pc
  BY <1>1, <1>2 DEF Job, Fields, SameBut
<1>4. Job(new)
  BY <1>1, <1>3, SameFits
<1>5. job' = [job EXCEPT ![r] = new]
  BY <1>1, <1>2 DEF Install!Goto, Install!Set
<1> QED BY <1>1, <1>3, <1>4, <1>5

LEMMA Answered ==
  ASSUME InstallInv, NEW r \in Installs, NEW code, Install!Reply(r, code)
  PROVE  \E new : /\ Job(new) /\ job' = [job EXCEPT ![r] = new]
                  /\ SameBut(new, job[r]) /\ new.pc = "done" /\ new.answer = code
<1>1. PICK q : q = job[r] /\ Job(q)
  BY DEF InstallInv
<1>2. PICK new : new = [q EXCEPT !.pc = "done", !.answer = code]
  OBVIOUS
<1>3. DOMAIN new = Fields /\ SameBut(new, q) /\ new.pc = "done" /\ new.answer = code
  BY <1>1, <1>2 DEF Job, Fields, SameBut
<1>4. Job(new)
  BY <1>1, <1>3, SameFits
<1>5. job' = [job EXCEPT ![r] = new]
  BY <1>1, <1>2 DEF Install!Reply, Install!Set
<1> QED BY <1>1, <1>3, <1>4, <1>5

(* A request that is answered with an error before it has a chart.             *)
LEMMA RefusedKeeps ==
  ASSUME InstallInv, NEW r \in Installs, job[r].pc \in {"context", "helm"},
         NEW code, code # 200, Install!Reply(r, code),
         UNCHANGED <<provider, crds, releases, operator, meddled, page>>
  PROVE  InstallInv'
<1>1. PICK new : /\ Job(new) /\ job' = [job EXCEPT ![r] = new]
                 /\ SameBut(new, job[r]) /\ new.pc = "done" /\ new.answer = code
  BY Answered
<1>2. Placed(job[r]) /\ Job(job[r])
  BY DEF InstallInv
<1>3. job[r].temp = FALSE
  BY <1>2 DEF Placed, WithChart, Job
<1>4. Placed(new) /\ Achieved(new, crds, releases, provider.charts)
  BY <1>1, <1>3 DEF Placed, Achieved, AtChart, SameBut
<1> QED BY <1>1, <1>4, MovesOn DEF SameBut

(* The steps of a request, each by itself.                                     *)
LEMMA ContextKeeps ==
  ASSUME InstallInv, NEW r \in Installs, Install!CheckContext(r)
  PROVE  InstallInv'
<1>1. /\ job[r].pc = "context"
      /\ UNCHANGED <<provider, crds, releases, operator, meddled, page>>
  BY DEF Install!CheckContext, Install!Cluster, Install!Rest
<1>2. Placed(job[r]) /\ Job(job[r])
  BY DEF InstallInv
<1>3. job[r].temp = FALSE
  BY <1>1, <1>2 DEF Placed, WithChart, Job
<1>4. ASSUME NEW pc \in {"forget", "helm"}, Install!Goto(r, pc), (pc = "forget") = (job[r].op = "forget")
      PROVE  InstallInv'
  <2>1. PICK new : /\ Job(new) /\ job' = [job EXCEPT ![r] = new]
                   /\ SameBut(new, job[r]) /\ new.pc = pc
    BY <1>4, Went
  <2>2. job[r].op \in {"install", "uninstall", "forget"}
    BY <1>1, <1>2 DEF Placed, Job
  <2>3. Placed(new) /\ Achieved(new, crds, releases, provider.charts)
    BY <1>3, <1>4, <2>1, <2>2 DEF Placed, Achieved, AtChart, SameBut
  <2> QED BY <1>1, <2>1, <2>3, MovesOn DEF SameBut
<1>5. ASSUME NEW code \in {400, 404, 409}, Install!Reply(r, code) PROVE InstallInv'
  BY <1>1, <1>5, RefusedKeeps
<1> QED BY <1>4, <1>5 DEF Install!CheckContext

LEMMA PrepareKeeps ==
  ASSUME InstallInv, NEW r \in Installs, NEW outcome, Install!Prepare(r, outcome)
  PROVE  InstallInv'
<1>1. /\ job[r].pc = "helm"
      /\ UNCHANGED <<provider, crds, releases, operator, meddled, page>>
  BY DEF Install!Prepare, Install!Cluster, Install!Rest
<1>2. Placed(job[r]) /\ Job(job[r])
  BY DEF InstallInv
<1>3. job[r].temp = FALSE
  BY <1>1, <1>2 DEF Placed, WithChart, Job
<1>4. CASE Install!Reply(r, 400)
  BY <1>1, <1>4, RefusedKeeps
<1>5. CASE Install!Failed(r)
  BY <1>1, <1>5, FailedKeeps DEF InstallInv
<1>6. CASE job[r].op = "install" /\ Install!Set(r, Install!OnTo(job[r], 1))
  <2>1. PICK new : new = Install!OnTo(job[r], 1)
    OBVIOUS
  <2>2. 1 \in 1..(Install!NCharts + 1) /\ ~(\E j \in 1..Install!NCharts : j < 1)
    BY ChartsCounted
  <2>3. /\ Job(new) /\ Placed(new) /\ new.alone = job[r].alone
        /\ Achieved(new, crds, releases, provider.charts)
    BY <1>2, <1>3, <1>6, <2>1, <2>2, OnToFits
  <2>4. job' = [job EXCEPT ![r] = new]
    BY <1>6, <2>1 DEF Install!Set
  <2> QED BY <1>1, <2>3, <2>4, MovesOn
<1>7. CASE /\ job[r].op = "uninstall"
           /\ Install!Set(r, [job[r] EXCEPT !.pc = "remove",
                                !.chart = IF provider.charts THEN Install!NCharts ELSE 0])
  <2>1. PICK n : n = IF provider.charts THEN Install!NCharts ELSE 0
    OBVIOUS
  <2>2. n \in 0..Install!NCharts /\ (provider.charts => n = Install!NCharts)
    BY <2>1, ChartsCounted
  <2>3. PICK q : q = job[r] /\ Job(q)
    BY <1>2
  <2>4. PICK new : new = [q EXCEPT !.pc = "remove", !.chart = n]
    OBVIOUS
  <2>5. /\ DOMAIN new = Fields /\ new.op = q.op /\ new.pc = "remove" /\ new.chart = n /\ new.crd = q.crd
        /\ new.ok = q.ok /\ new.temp = q.temp /\ new.crashed = q.crashed
        /\ new.saw = q.saw /\ new.alone = q.alone
    BY <2>3, <2>4 DEF Job, Fields
  <2>6. new.ok \in BOOLEAN /\ new.temp \in BOOLEAN /\ new.crashed \in BOOLEAN /\ new.alone \in BOOLEAN
    BY <2>3, <2>5 DEF Job
  <2>7. Job(new)
    BY <2>2, <2>3, <2>5, <2>6 DEF Job
  <2>8. Placed(new)
    BY <1>3, <1>7, <2>3, <2>5 DEF Placed, AtChart
  <2>9. Achieved(new, crds, releases, provider.charts)
    BY <2>2, <2>5, ChartsCounted DEF Achieved, AtChart
  <2>10. job' = [job EXCEPT ![r] = new]
    BY <1>7, <2>1, <2>3, <2>4 DEF Install!Set
  <2> QED BY <1>1, <2>3, <2>5, <2>7, <2>8, <2>9, <2>10, MovesOn
<1> QED BY <1>4, <1>5, <1>6, <1>7 DEF Install!Prepare

(* CRDs that come do no harm to what is there.                                 *)
LEMMA PresentStays ==
  ASSUME NEW names, names \subseteq Crds, NEW cs, NEW more, Present(cs, names),
         \A c \in Crds : cs[c] # "none" => more[c] # "none"
  PROVE  Present(more, names)
BY DEF Present

LEMMA ChartStays ==
  ASSUME NEW i \in 1..Install!NCharts, NEW cs, NEW more, NEW rs, NEW others, ChartDone(i, cs, rs),
         \A c \in Crds : cs[c] # "none" => more[c] # "none", others[i] = rs[i]
  PROVE  ChartDone(i, more, others)
BY ChartsFit, PresentStays DEF ChartDone

(* The chart a request is at.                                                  *)
LEMMA AtItsChart ==
  ASSUME InstallInv, NEW r \in Installs, job[r].pc \in AtChart
  PROVE  /\ job[r].chart \in 1..Install!NCharts /\ job[r].op = "install" /\ job[r].pc # "free"
         /\ Charts[job[r].chart].crds \in Seq(Crds) /\ Charts[job[r].chart].pre \in Seq(Crds)
<1>1. Placed(job[r]) /\ Job(job[r])
  BY DEF InstallInv
<1>2. job[r].chart \in 1..Install!NCharts /\ job[r].op = "install"
  BY <1>1, ChartsCounted DEF Placed, Job
<1> QED BY <1>2, ChartsFit DEF AtChart

(* kubectl apply of one CRD: it is there afterwards if the command worked.     *)
LEMMA OneApplied ==
  ASSUME NEW cs \in [Crds -> {"none", "foreign", "ours"}], NEW c \in Crds, NEW done \in BOOLEAN,
         NEW works \in BOOLEAN, works => done,
         NEW more, more = IF done THEN [cs EXCEPT ![c] = "ours"] ELSE cs
  PROVE  /\ more \in [Crds -> {"none", "foreign", "ours"}]
         /\ \A d \in Crds : cs[d] # "none" => more[d] # "none"
         /\ works => more[c] # "none"
<1>1. CASE done
  BY <1>1
<1>2. CASE ~done
  BY <1>2
<1> QED BY <1>1, <1>2

LEMMA PreKeeps ==
  ASSUME InstallInv, NEW r \in Installs, NEW works \in BOOLEAN, NEW done \in BOOLEAN,
         Install!ApplyPre(r, works, done)
  PROVE  InstallInv'
<1>1. /\ job[r].pc = "pre" /\ UNCHANGED <<provider, releases, operator, meddled, page>>
      /\ works => done
  BY DEF Install!ApplyPre, Install!Rest
<1>2. PICK q : q = job[r] /\ Job(q) /\ Placed(q)
  BY DEF InstallInv
<1>3. /\ crds \in [Crds -> {"none", "foreign", "ours"}]
      /\ releases \in [1..Install!NCharts -> Install!ReleaseStates] /\ provider \in Install!Providers
  BY DEF InstallInv
<1>4. PICK list \in Seq(Crds) : list = Charts[q.chart].pre
  BY <1>1, <1>2, AtItsChart DEF AtChart
<1>5. /\ q.op = "install" /\ q.chart \in 1..Install!NCharts /\ q.chart > 0
      /\ q.crd \in DOMAIN list /\ q.crd \in Nat
  BY <1>1, <1>2, <1>4, AtItsChart DEF AtChart, Placed, Job
<1>6. q.temp = FALSE
  BY <1>1, <1>2 DEF Placed, WithChart, Job
<1>7. list[q.crd] \in Crds /\ crds' = IF done THEN [crds EXCEPT ![list[q.crd]] = "ours"] ELSE crds
  BY <1>2, <1>4, <1>5 DEF Install!ApplyPre
<1>8. /\ crds' \in [Crds -> {"none", "foreign", "ours"}]
      /\ \A c \in Crds : crds[c] # "none" => crds'[c] # "none"
      /\ works => crds'[list[q.crd]] # "none"
  BY <1>1, <1>3, <1>7, OneApplied
<1>9. CASE ~works
  BY <1>1, <1>3, <1>8, <1>9, FailedKeeps DEF Install!ApplyPre
<1>10. ASSUME works, Alone(r)
       PROVE  /\ \A i \in 1..Install!NCharts : i < q.chart => ChartDone(i, crds', releases')
              /\ \A k \in DOMAIN list : k < q.crd + 1 => crds'[list[k]] # "none"
  <2>1. Achieved(q, crds, releases, provider.charts)
    BY <1>2, <1>10, Relied
  <2>2. ASSUME NEW i \in 1..Install!NCharts, i < q.chart PROVE ChartDone(i, crds', releases')
    <3>1. ChartDone(i, crds, releases)
      BY <1>1, <1>2, <2>1, <2>2 DEF Achieved, AtChart
    <3> QED BY <1>1, <1>8, <3>1, ChartStays
  <2>3. ASSUME NEW k \in DOMAIN list, k < q.crd + 1 PROVE crds'[list[k]] # "none"
    <3>1. k \in Nat /\ list[k] \in Crds
      BY <1>4
    <3>2. k < q.crd \/ k = q.crd
      BY <1>5, <2>3, <3>1
    <3>3. k < q.crd => crds[list[k]] # "none"
      BY <1>1, <1>2, <1>4, <2>1 DEF Achieved
    <3> QED BY <1>8, <1>10, <3>1, <3>2, <3>3
  <2> QED BY <2>2, <2>3
<1>11. CASE works /\ q.crd < Len(list)
  <2>1. PICK new : new = [q EXCEPT !.crd = @ + 1]
    OBVIOUS
  <2>2. /\ DOMAIN new = Fields /\ new.op = q.op /\ new.pc = "pre" /\ new.chart = q.chart /\ new.crd = q.crd + 1
        /\ new.ok = q.ok /\ new.temp = q.temp /\ new.crashed = q.crashed
        /\ new.saw = q.saw /\ new.alone = q.alone
    BY <1>1, <1>2, <2>1 DEF Job, Fields
  <2>3. new.ok \in BOOLEAN /\ new.temp \in BOOLEAN /\ new.crashed \in BOOLEAN /\ new.alone \in BOOLEAN
    BY <1>2, <2>2 DEF Job
  <2>4. Job(new)
    BY <1>2, <2>2, <2>3 DEF Job
  <2>5. q.crd + 1 \in DOMAIN list
    BY <1>4, <1>5, <1>11
  <2>6. Placed(new)
    BY <1>4, <1>5, <1>6, <2>2, <2>5 DEF Placed
  <2>7. ASSUME Alone(r) PROVE Achieved(new, crds', releases', provider'.charts)
    BY <1>4, <1>10, <1>11, <2>2, <2>7 DEF Achieved, AtChart
  <2>8. job' = [job EXCEPT ![r] = new]
    BY <1>2, <1>4, <1>11, <2>1 DEF Install!ApplyPre, Install!Set
  <2> QED BY <1>1, <1>2, <1>3, <1>8, <2>2, <2>4, <2>6, <2>7, <2>8, OneJob DEF Alone
<1>12. CASE works /\ ~(q.crd < Len(list))
  <2>1. PICK pc : pc = Install!AfterPre(q.chart)
    OBVIOUS
  <2>2. /\ pc \in {"pull", "fetch", "install"}
        /\ pc = "pull" => Charts[q.chart].managed = TRUE
        /\ pc \in {"fetch", "install"} => Charts[q.chart].managed = FALSE
    BY <1>5, <2>1, ChartsFit DEF Install!AfterPre
  <2>3. PICK new : new = [q EXCEPT !.pc = pc, !.crd = 0]
    OBVIOUS
  <2>4. /\ DOMAIN new = Fields /\ new.op = q.op /\ new.pc = pc /\ new.chart = q.chart /\ new.crd = 0
        /\ new.ok = q.ok /\ new.temp = q.temp /\ new.crashed = q.crashed
        /\ new.saw = q.saw /\ new.alone = q.alone
    BY <1>2, <2>3 DEF Job, Fields
  <2>5. new.ok \in BOOLEAN /\ new.temp \in BOOLEAN /\ new.crashed \in BOOLEAN /\ new.alone \in BOOLEAN
    BY <1>2, <2>4 DEF Job
  <2>6. Job(new)
    BY <1>2, <2>4, <2>5 DEF Job
  <2>7. Placed(new)
    BY <1>5, <1>6, <2>2, <2>4 DEF Placed
  <2>8. ASSUME Alone(r) PROVE Achieved(new, crds', releases', provider'.charts)
    <3>1. \A k \in DOMAIN list : k < q.crd + 1
      BY <1>4, <1>5, <1>12
    <3>2. \A k \in DOMAIN list : crds'[list[k]] # "none"
      BY <1>10, <1>12, <2>8, <3>1
    <3>3. Present(crds', Install!PreCrds(q.chart))
      BY <1>4, <3>2 DEF Present, Install!PreCrds
    <3>4. pc = "install" => Present(crds', Install!EnsuredCrds(q.chart))
      BY <2>2, <3>3 DEF Present, Install!EnsuredCrds
    <3> QED BY <1>10, <1>12, <2>2, <2>4, <2>8, <3>3, <3>4 DEF Achieved, AtChart
  <2>9. job' = [job EXCEPT ![r] = new]
    BY <1>2, <1>4, <1>12, <2>1, <2>3 DEF Install!ApplyPre, Install!Set
  <2> QED BY <1>1, <1>2, <1>3, <1>8, <2>2, <2>4, <2>6, <2>7, <2>8, <2>9, OneJob DEF Alone
<1> QED BY <1>9, <1>11, <1>12

LEMMA FetchKeeps ==
  ASSUME InstallInv, NEW r \in Installs, NEW works \in BOOLEAN, Install!FetchChart(r, works)
  PROVE  InstallInv'
<1>1. /\ job[r].pc = "fetch" /\ UNCHANGED <<provider, crds, releases, operator, meddled, page>>
  BY DEF Install!FetchChart, Install!Cluster, Install!Rest
<1>2. PICK q : q = job[r] /\ Job(q) /\ Placed(q)
  BY DEF InstallInv
<1>3. CASE ~works
  BY <1>1, <1>3, FailedKeeps DEF InstallInv, Install!FetchChart
<1>4. CASE works
  <2>1. PICK new : /\ Job(new) /\ job' = [job EXCEPT ![r] = new]
                   /\ SameBut(new, q) /\ new.pc = "install"
    BY <1>2, <1>4, Went DEF Install!FetchChart
  <2>2. q.chart > 0 /\ q.op = "install" /\ Charts[q.chart].managed = FALSE
    BY <1>1, <1>2 DEF Placed, AtChart
  <2>3. Placed(new)
    BY <2>1, <2>2 DEF Placed, SameBut, WithChart
  <2>4. ASSUME Alone(r) PROVE Achieved(new, crds, releases, provider.charts)
    <3>1. Achieved(q, crds, releases, provider.charts)
      BY <1>2, <2>4, Relied
    <3>2. Present(crds, Install!PreCrds(q.chart))
      BY <1>1, <1>2, <3>1 DEF Achieved, AtChart
    <3>3. Present(crds, Install!EnsuredCrds(q.chart))
      BY <2>2, <3>2 DEF Present, Install!EnsuredCrds
    <3> QED BY <1>1, <1>2, <2>1, <3>1, <3>2, <3>3 DEF Achieved, AtChart, SameBut
  <2> QED BY <1>1, <1>2, <2>1, <2>3, <2>4, MovesOn DEF SameBut
<1> QED BY <1>3, <1>4

LEMMA PullKeeps ==
  ASSUME InstallInv, NEW r \in Installs, NEW works \in BOOLEAN, Install!PullChart(r, works)
  PROVE  InstallInv'
<1>1. /\ job[r].pc = "pull" /\ UNCHANGED <<provider, crds, releases, operator, meddled, page>>
  BY DEF Install!PullChart, Install!Cluster, Install!Rest
<1>2. CASE ~works
  BY <1>1, <1>2, FailedKeeps DEF InstallInv, Install!PullChart
<1>3. CASE works
  <2>1. PICK q : q = job[r] /\ Job(q) /\ Placed(q)
    BY DEF InstallInv
  <2>2. PICK new : new = [q EXCEPT !.pc = "crd", !.crd = 1, !.temp = TRUE]
    OBVIOUS
  <2>3. /\ DOMAIN new = Fields /\ new.op = q.op /\ new.pc = "crd" /\ new.chart = q.chart /\ new.crd = 1
        /\ new.ok = q.ok /\ new.crashed = q.crashed
        /\ new.saw = q.saw /\ new.alone = q.alone
    BY <2>1, <2>2 DEF Job, Fields
  <2>4. new.temp = TRUE
    BY <2>1, <2>2 DEF Job, Fields
  <2>5. new.ok \in BOOLEAN /\ new.temp \in BOOLEAN /\ new.crashed \in BOOLEAN /\ new.alone \in BOOLEAN
    BY <2>1, <2>3, <2>4 DEF Job
  <2>6. Job(new)
    BY <2>1, <2>3, <2>5 DEF Job
  <2>7. Placed(new)
    BY <1>1, <2>1, <2>3 DEF Placed, AtChart, WithChart
  <2>10. \A k \in DOMAIN Charts[q.chart].crds : ~(k < 1)
    BY <1>1, <2>1, AtItsChart DEF AtChart
  <2>8. ASSUME Alone(r) PROVE Achieved(new, crds, releases, provider.charts)
    <3>1. Achieved(q, crds, releases, provider.charts)
      BY <2>1, <2>8, Relied
    <3> QED BY <1>1, <2>1, <2>3, <2>10, <3>1 DEF Achieved, AtChart
  <2>9. job' = [job EXCEPT ![r] = new]
    BY <1>3, <2>1, <2>2 DEF Install!PullChart, Install!Set
  <2> QED BY <1>1, <2>1, <2>3, <2>6, <2>7, <2>8, <2>9, MovesOn
<1> QED BY <1>2, <1>3

LEMMA ThrowKeeps ==
  ASSUME InstallInv, NEW r \in Installs, Install!ReadCrdsThrows(r)
  PROVE  InstallInv'
<1>1. /\ job[r].pc = "crd" /\ UNCHANGED <<provider, crds, releases, operator, meddled, page>>
  BY DEF Install!ReadCrdsThrows, Install!Cluster, Install!Rest
<1>2. PICK q : q = job[r] /\ Job(q) /\ Placed(q)
  BY DEF InstallInv
<1>3. PICK new : new = [q EXCEPT !.pc = "done", !.answer = 500, !.crashed = TRUE]
  OBVIOUS
<1>4. /\ DOMAIN new = Fields /\ new.op = q.op /\ new.pc = "done" /\ new.chart = q.chart /\ new.crd = q.crd
      /\ new.answer = 500 /\ new.ok = q.ok /\ new.temp = q.temp
      /\ new.saw = q.saw /\ new.alone = q.alone
  BY <1>2, <1>3 DEF Job, Fields
<1>5. new.crashed = TRUE
  BY <1>2, <1>3 DEF Job, Fields
<1>6. new.ok \in BOOLEAN /\ new.temp \in BOOLEAN /\ new.crashed \in BOOLEAN /\ new.alone \in BOOLEAN
  BY <1>2, <1>4, <1>5 DEF Job
<1>7. Job(new)
  BY <1>2, <1>4, <1>6 DEF Job
<1>8. Placed(new) /\ Achieved(new, crds, releases, provider.charts)
  BY <1>4, <1>5 DEF Placed, Achieved, AtChart
<1>9. job' = [job EXCEPT ![r] = new]
  BY <1>2, <1>3 DEF Install!ReadCrdsThrows, Install!Set
<1> QED BY <1>1, <1>2, <1>4, <1>7, <1>8, <1>9, MovesOn

LEMMA CheckKeeps ==
  ASSUME InstallInv, NEW r \in Installs, NEW works \in BOOLEAN, Install!CheckCrd(r, works)
  PROVE  InstallInv'
<1>1. /\ job[r].pc = "crd" /\ UNCHANGED <<provider, crds, releases, operator, meddled, page>>
  BY DEF Install!CheckCrd, Install!Cluster, Install!Rest
<1>2. PICK q : q = job[r] /\ Job(q) /\ Placed(q)
  BY DEF InstallInv
<1>3. PICK list \in Seq(Crds) : list = Charts[q.chart].crds
  BY <1>1, <1>2, AtItsChart DEF AtChart
<1>4. /\ q.op = "install" /\ q.chart \in 1..Install!NCharts /\ q.crd \in Nat /\ q.crd > 0
      /\ Charts[q.chart].managed = TRUE
  <2>1. q.op = "install" /\ q.chart \in 1..Install!NCharts
    BY <1>1, <1>2, AtItsChart DEF AtChart
  <2>2. q.crd \in Nat /\ q.crd > 0 /\ Charts[q.chart].managed = TRUE
    BY <1>1, <1>2 DEF Job, Placed
  <2> QED BY <2>1, <2>2
<1>5. CASE q.crd > Len(list)
  <2>1. PICK new : /\ Job(new) /\ job' = [job EXCEPT ![r] = new]
                   /\ SameBut(new, q) /\ new.pc = "install"
    BY <1>2, <1>3, <1>5, Went DEF Install!CheckCrd
  <2>2. Placed(new)
    BY <1>4, <2>1 DEF Placed, SameBut, WithChart, AtChart
  <2>3. ASSUME Alone(r) PROVE Achieved(new, crds, releases, provider.charts)
    <3>1. Achieved(q, crds, releases, provider.charts)
      BY <1>2, <2>3, Relied
    <3>2. \A k \in DOMAIN list : crds[list[k]] # "none"
      BY <1>1, <1>2, <1>3, <1>4, <1>5, <3>1 DEF Achieved
    <3>3. Present(crds, Install!PreCrds(q.chart))
      BY <1>1, <1>2, <3>1 DEF Achieved, AtChart
    <3>4. Present(crds, Install!EnsuredCrds(q.chart))
      BY <1>3, <3>2, <3>3 DEF Present, Install!EnsuredCrds, Install!ChartCrds
    <3> QED BY <1>1, <1>2, <2>1, <3>1, <3>3, <3>4 DEF Achieved, AtChart, SameBut
  <2> QED BY <1>1, <1>2, <2>1, <2>2, <2>3, MovesOn DEF SameBut
<1>6. CASE q.crd \in 1..Len(list) /\ ~works
  BY <1>1, <1>2, <1>3, <1>4, <1>6, FailedKeeps DEF InstallInv, Install!CheckCrd
<1>7. CASE q.crd \in 1..Len(list) /\ works /\ crds[list[q.crd]] # "none"
  <2>1. PICK new : new = [q EXCEPT !.crd = @ + 1]
    OBVIOUS
  <2>2. /\ DOMAIN new = Fields /\ new.op = q.op /\ new.pc = "crd" /\ new.chart = q.chart /\ new.crd = q.crd + 1
        /\ new.ok = q.ok /\ new.temp = q.temp /\ new.crashed = q.crashed
        /\ new.saw = q.saw /\ new.alone = q.alone
    BY <1>1, <1>2, <2>1 DEF Job, Fields
  <2>3. new.ok \in BOOLEAN /\ new.temp \in BOOLEAN /\ new.crashed \in BOOLEAN /\ new.alone \in BOOLEAN
    BY <1>2, <2>2 DEF Job
  <2>4. Job(new)
    BY <1>2, <2>2, <2>3 DEF Job
  <2>5. Placed(new)
    BY <1>4, <2>2 DEF Placed, WithChart, AtChart
  <2>6. ASSUME Alone(r) PROVE Achieved(new, crds, releases, provider.charts)
    <3>1. Achieved(q, crds, releases, provider.charts)
      BY <1>2, <2>6, Relied
    <3>2. \A k \in DOMAIN list : k < q.crd + 1 => crds[list[k]] # "none"
      BY SMTT(30), <1>1, <1>2, <1>3, <1>4, <1>7, <3>1 DEF Achieved
    <3> QED BY <1>1, <1>2, <1>3, <2>2, <3>1, <3>2 DEF Achieved, AtChart
  <2>7. job' = [job EXCEPT ![r] = new]
    BY <1>2, <1>3, <1>7, <2>1 DEF Install!CheckCrd, Install!Set
  <2> QED BY <1>1, <1>2, <2>2, <2>4, <2>5, <2>6, <2>7, MovesOn
<1>8. CASE q.crd \in 1..Len(list) /\ works /\ crds[list[q.crd]] = "none"
  <2>1. PICK there : there = {c \in Crds : crds[c] # "none"}
    OBVIOUS
  <2>2. PICK new : new = [q EXCEPT !.pc = "apply", !.saw = there]
    OBVIOUS
  <2>3. /\ DOMAIN new = Fields /\ new.op = q.op /\ new.pc = "apply" /\ new.chart = q.chart /\ new.crd = q.crd
        /\ new.ok = q.ok /\ new.temp = q.temp /\ new.crashed = q.crashed
        /\ new.saw = there /\ new.alone = q.alone
    BY <1>2, <2>2 DEF Job, Fields
  <2>4. new.ok \in BOOLEAN /\ new.temp \in BOOLEAN /\ new.crashed \in BOOLEAN /\ new.alone \in BOOLEAN
    BY <1>2, <2>3 DEF Job
  <2>5. Job(new)
    BY <1>2, <2>1, <2>3, <2>4 DEF Job
  <2>6. list[q.crd] \notin there /\ q.crd \in DOMAIN list
    BY <1>3, <1>8, <2>1
  <2>7. Placed(new)
    BY <1>3, <1>4, <2>3, <2>6 DEF Placed, WithChart, AtChart
  <2>8. ASSUME Alone(r) PROVE Achieved(new, crds, releases, provider.charts)
    <3>1. Achieved(q, crds, releases, provider.charts)
      BY <1>2, <2>8, Relied
    <3> QED BY <1>1, <1>2, <2>3, <3>1 DEF Achieved, AtChart
  <2>9. job' = [job EXCEPT ![r] = new]
    BY <1>2, <1>3, <1>8, <2>1, <2>2 DEF Install!CheckCrd, Install!Missing, Install!Set
  <2> QED BY <1>1, <1>2, <2>3, <2>5, <2>7, <2>8, <2>9, MovesOn
<1> QED BY <1>3, <1>4, <1>5, <1>6, <1>7, <1>8

LEMMA ApplyKeeps ==
  ASSUME InstallInv, NEW r \in Installs, NEW works \in BOOLEAN, NEW done \in BOOLEAN,
         Install!ApplyCrd(r, works, done)
  PROVE  InstallInv'
<1>1. /\ job[r].pc = "apply" /\ UNCHANGED <<provider, releases, operator, meddled, page>>
      /\ works => done
  BY DEF Install!ApplyCrd, Install!Rest
<1>2. PICK q : q = job[r] /\ Job(q) /\ Placed(q)
  BY DEF InstallInv
<1>3. /\ crds \in [Crds -> {"none", "foreign", "ours"}]
      /\ releases \in [1..Install!NCharts -> Install!ReleaseStates] /\ provider \in Install!Providers
  BY DEF InstallInv
<1>4. PICK list \in Seq(Crds) : list = Charts[q.chart].crds
  BY <1>1, <1>2, AtItsChart DEF AtChart
<1>5. /\ q.op = "install" /\ q.chart \in 1..Install!NCharts /\ q.chart > 0
      /\ q.crd \in DOMAIN list /\ q.crd \in Nat /\ q.crd > 0
      /\ Charts[q.chart].managed = TRUE
  <2>1. q.op = "install" /\ q.chart \in 1..Install!NCharts /\ q.chart > 0
    BY <1>1, <1>2, AtItsChart DEF AtChart
  <2>2. q.crd \in DOMAIN list /\ q.crd \in Nat /\ q.crd > 0 /\ Charts[q.chart].managed = TRUE
    BY <1>1, <1>2, <1>4 DEF Job, Placed
  <2> QED BY <2>1, <2>2
<1>6. list[q.crd] \in Crds /\ crds' = IF done THEN [crds EXCEPT ![list[q.crd]] = "ours"] ELSE crds
  BY <1>2, <1>4, <1>5 DEF Install!ApplyCrd
<1>7. /\ crds' \in [Crds -> {"none", "foreign", "ours"}]
      /\ \A c \in Crds : crds[c] # "none" => crds'[c] # "none"
      /\ works => crds'[list[q.crd]] # "none"
  BY <1>1, <1>3, <1>6, OneApplied
<1>8. CASE ~works
  BY <1>1, <1>3, <1>7, <1>8, FailedKeeps DEF Install!ApplyCrd
<1>9. CASE works
  <2>1. PICK new : new = [q EXCEPT !.pc = "crd", !.crd = @ + 1, !.saw = {}]
    OBVIOUS
  <2>2. /\ DOMAIN new = Fields /\ new.op = q.op /\ new.pc = "crd" /\ new.chart = q.chart /\ new.crd = q.crd + 1
        /\ new.ok = q.ok /\ new.temp = q.temp /\ new.crashed = q.crashed
        /\ new.saw = {} /\ new.alone = q.alone
    BY <1>2, <2>1 DEF Job, Fields
  <2>3. new.ok \in BOOLEAN /\ new.temp \in BOOLEAN /\ new.crashed \in BOOLEAN /\ new.alone \in BOOLEAN
    BY <1>2, <2>2 DEF Job
  <2>4. Job(new)
    BY <1>2, <1>5, <2>2, <2>3 DEF Job
  <2>5. Placed(new)
    BY <1>5, <2>2 DEF Placed, WithChart, AtChart
  <2>6. job' = [job EXCEPT ![r] = new]
    BY <1>2, <1>9, <2>1 DEF Install!ApplyCrd, Install!Set
  <2>7. ASSUME Alone(r) PROVE Achieved(new, crds', releases', provider'.charts)
    <3>1. Achieved(q, crds, releases, provider.charts)
      BY <1>2, <2>7, Relied
    <3>2. ASSUME NEW i \in 1..Install!NCharts, i < q.chart PROVE ChartDone(i, crds', releases')
      <4>1. ChartDone(i, crds, releases)
        BY <1>1, <1>2, <3>1, <3>2 DEF Achieved, AtChart
      <4> QED BY <1>1, <1>7, <4>1, ChartStays
    <3>3. Present(crds', Install!PreCrds(q.chart))
      <4>1. Present(crds, Install!PreCrds(q.chart)) /\ Install!PreCrds(q.chart) \subseteq Crds
        BY <1>1, <1>2, <1>5, <3>1, ChartsFit DEF Achieved, AtChart
      <4> QED BY <1>7, <4>1, PresentStays
    <3>4. ASSUME NEW k \in DOMAIN list, k < q.crd + 1 PROVE crds'[list[k]] # "none"
      <4>1. k \in Nat /\ list[k] \in Crds
        BY <1>4
      <4>2. k < q.crd \/ k = q.crd
        BY <1>5, <3>4, <4>1
      <4>3. k < q.crd => crds[list[k]] # "none"
        BY <1>1, <1>2, <1>4, <3>1 DEF Achieved
      <4> QED BY <1>7, <1>9, <4>1, <4>2, <4>3
    <3> QED BY <1>4, <2>2, <3>2, <3>3, <3>4 DEF Achieved, AtChart
  <2> QED BY <1>1, <1>2, <1>3, <1>7, <2>2, <2>4, <2>5, <2>6, <2>7, OneJob DEF Alone
<1> QED BY <1>8, <1>9

LEMMA StartKeeps ==
  ASSUME InstallInv, NEW r \in Installs, NEW works \in BOOLEAN, NEW brought \in SUBSET Crds,
         Install!StartHelm(r, works, brought)
  PROVE  InstallInv'
<1>1. /\ job[r].pc = "install" /\ UNCHANGED <<provider, operator, meddled, page>>
      /\ crds' = [c \in Crds |-> IF c \in brought THEN "ours" ELSE crds[c]]
  BY DEF Install!StartHelm, Install!Rest
<1>2. PICK q : q = job[r] /\ Job(q) /\ Placed(q)
  BY DEF InstallInv
<1>3. /\ crds \in [Crds -> {"none", "foreign", "ours"}]
      /\ releases \in [1..Install!NCharts -> Install!ReleaseStates] /\ provider \in Install!Providers
  BY DEF InstallInv
<1>4. /\ crds' \in [Crds -> {"none", "foreign", "ours"}]
      /\ \A c \in Crds : crds[c] # "none" => crds'[c] # "none"
  BY <1>1, <1>3
<1>5. CASE ~works
  BY <1>1, <1>3, <1>4, <1>5, FailedKeeps DEF Install!StartHelm
<1>6. CASE works
  <2>1. q.op = "install" /\ q.chart \in 1..Install!NCharts /\ q.chart > 0
    BY <1>1, <1>2, AtItsChart DEF AtChart
  <2>2. releases' = [releases EXCEPT ![q.chart] = "pending"] /\ Install!Goto(r, "helming")
    BY <1>2, <1>6 DEF Install!StartHelm
  <2>3. PICK new : /\ Job(new) /\ job' = [job EXCEPT ![r] = new]
                   /\ SameBut(new, q) /\ new.pc = "helming"
    BY <1>2, <2>2, Went
  <2>4. Placed(new)
    BY <2>1, <2>3 DEF Placed, SameBut, WithChart, AtChart
  <2>5. /\ releases' \in [1..Install!NCharts -> Install!ReleaseStates]
        /\ releases'[q.chart] = "pending"
        /\ \A i \in 1..Install!NCharts : i < q.chart => releases'[i] = releases[i]
    BY <1>3, <2>1, <2>2 DEF Install!ReleaseStates
  <2>6. ASSUME Alone(r) PROVE Achieved(new, crds', releases', provider'.charts)
    <3>1. Achieved(q, crds, releases, provider.charts)
      BY <1>2, <2>6, Relied
    <3>2. ASSUME NEW i \in 1..Install!NCharts, i < q.chart PROVE ChartDone(i, crds', releases')
      <4>1. ChartDone(i, crds, releases)
        BY <1>1, <1>2, <3>1, <3>2 DEF Achieved, AtChart
      <4> QED BY <1>4, <2>5, <3>2, <4>1, ChartStays
    <3>3. /\ Present(crds, Install!EnsuredCrds(q.chart)) /\ Install!EnsuredCrds(q.chart) \subseteq Crds
          /\ Present(crds, Install!PreCrds(q.chart)) /\ Install!PreCrds(q.chart) \subseteq Crds
      BY <1>1, <1>2, <2>1, <3>1, ChartsFit DEF Achieved, AtChart
    <3>4. Present(crds', Install!EnsuredCrds(q.chart)) /\ Present(crds', Install!PreCrds(q.chart))
      BY <1>4, <3>3, PresentStays
    <3> QED BY <2>3, <2>5, <3>2, <3>4 DEF Achieved, AtChart, SameBut
  <2> QED BY <1>1, <1>2, <1>3, <1>4, <2>3, <2>4, <2>5, <2>6, OneJob DEF SameBut, Alone
<1> QED BY <1>5, <1>6

LEMMA EndKeeps ==
  ASSUME InstallInv, NEW r \in Installs, NEW works \in BOOLEAN, NEW left \in Install!ReleaseStates,
         Install!EndHelm(r, works, left)
  PROVE  InstallInv'
<1>1. /\ job[r].pc = "helming" /\ UNCHANGED <<provider, crds, operator, meddled, page>>
  BY DEF Install!EndHelm, Install!Rest
<1>2. PICK q : q = job[r] /\ Job(q) /\ Placed(q)
  BY DEF InstallInv
<1>3. q.op = "install" /\ q.chart \in 1..Install!NCharts /\ q.chart > 0
  BY <1>1, <1>2, AtItsChart DEF AtChart
<1>4. /\ releases' = [releases EXCEPT ![q.chart] = left]
      /\ works /\ releases[q.chart] = "pending" => left = "deployed"
  BY <1>2 DEF Install!EndHelm
<1>5. /\ releases \in [1..Install!NCharts -> Install!ReleaseStates]
      /\ crds \in [Crds -> {"none", "foreign", "ours"}] /\ provider \in Install!Providers
  BY DEF InstallInv
<1>6. /\ releases' \in [1..Install!NCharts -> Install!ReleaseStates]
      /\ releases'[q.chart] = left
      /\ \A i \in 1..Install!NCharts : i # q.chart => releases'[i] = releases[i]
  BY <1>3, <1>4, <1>5
<1>7. CASE ~works
  BY <1>1, <1>5, <1>6, <1>7, FailedKeeps DEF Install!EndHelm
<1>8. CASE works
  <2>1. PICK clean : clean = [q EXCEPT !.temp = FALSE]
    OBVIOUS
  <2>2. /\ DOMAIN clean = Fields /\ clean.op = q.op /\ clean.chart = q.chart /\ clean.crd = q.crd
        /\ clean.ok = q.ok /\ clean.crashed = q.crashed
        /\ clean.saw = q.saw /\ clean.alone = q.alone
    BY <1>2, <2>1 DEF Job, Fields
  <2>3. clean.temp = FALSE
    BY <1>2, <2>1 DEF Job, Fields
  <2>4. clean.ok \in BOOLEAN /\ clean.temp \in BOOLEAN /\ clean.crashed \in BOOLEAN /\ clean.alone \in BOOLEAN
    BY <1>2, <2>2, <2>3 DEF Job
  <2>5. Job(clean)
    BY <1>2, <2>2, <2>4 DEF Job
  <2>6. PICK new : new = Install!OnTo(clean, q.chart + 1)
    OBVIOUS
  <2>7. q.chart + 1 \in 1..(Install!NCharts + 1)
    BY <1>3, ChartsCounted
  <2>8. job' = [job EXCEPT ![r] = new]
    BY <1>2, <1>8, <2>1, <2>6 DEF Install!EndHelm, Install!Set
  <2>9. /\ Job(new) /\ Placed(new) /\ new.alone = q.alone
        /\ (\A j \in 1..Install!NCharts : j < q.chart + 1 => ChartDone(j, crds', releases')) =>
             Achieved(new, crds', releases', provider'.charts)
    BY <1>3, <2>2, <2>3, <2>5, <2>6, <2>7, OnToFits
  <2>10. ASSUME Alone(r) PROVE Achieved(new, crds', releases', provider'.charts)
    <3>1. Achieved(q, crds, releases, provider.charts)
      BY <1>2, <2>10, Relied
    <3>2. ASSUME NEW j \in 1..Install!NCharts, j < q.chart PROVE ChartDone(j, crds', releases')
      <4>1. ChartDone(j, crds, releases)
        BY <1>1, <1>2, <3>1, <3>2 DEF Achieved, AtChart
      <4>2. releases'[j] = releases[j]
        BY <1>3, <1>6, <3>2
      <4> QED BY <1>1, <4>1, <4>2 DEF ChartDone
    <3>3. ChartDone(q.chart, crds', releases')
      <4>1. Present(crds, Install!EnsuredCrds(q.chart)) /\ releases[q.chart] = "pending"
        BY <1>1, <1>2, <3>1 DEF Achieved
      <4> QED BY <1>1, <1>4, <1>6, <1>8, <4>1 DEF ChartDone
    <3>4. \A j \in 1..Install!NCharts : j < q.chart + 1 => j < q.chart \/ j = q.chart
      BY <1>3
    <3> QED BY <2>9, <3>2, <3>3, <3>4
  <2> QED BY <1>1, <1>2, <1>5, <1>6, <2>8, <2>9, <2>10, OneJob DEF Alone
<1> QED BY <1>7, <1>8

LEMMA RemoveKeeps ==
  ASSUME InstallInv, NEW r \in Installs, NEW works \in BOOLEAN, NEW left \in Install!ReleaseStates,
         Install!RemoveChart(r, works, left)
  PROVE  InstallInv'
<1>1. /\ job[r].pc = "remove" /\ UNCHANGED <<provider, crds, operator, meddled, page>>
  BY DEF Install!RemoveChart, Install!Rest
<1>2. PICK q : q = job[r] /\ Job(q) /\ Placed(q)
  BY DEF InstallInv
<1>3. q.temp = FALSE /\ q.op = "uninstall" /\ q.chart \in 1..Install!NCharts
  <2>1. q.op = "uninstall" /\ q.chart \in 0..Install!NCharts
    BY <1>1, <1>2 DEF Placed, Job
  <2>2. q.temp = FALSE
    BY <1>1, <1>2 DEF Placed, WithChart, Job
  <2>3. q.chart > 0
    BY <1>2 DEF Install!RemoveChart
  <2> QED BY <2>1, <2>2, <2>3, ChartsCounted
<1>4. /\ crds \in [Crds -> {"none", "foreign", "ours"}] /\ provider \in Install!Providers
      /\ releases \in [1..Install!NCharts -> Install!ReleaseStates]
  BY DEF InstallInv
<1>5. releases' = [releases EXCEPT ![q.chart] = left] /\ (works => left = "none")
  BY <1>2 DEF Install!RemoveChart
<1>6. /\ releases' \in [1..Install!NCharts -> Install!ReleaseStates]
      /\ releases'[q.chart] = left
      /\ \A i \in 1..Install!NCharts : i # q.chart => releases'[i] = releases[i]
  BY <1>3, <1>4, <1>5
<1>7. PICK fine \in BOOLEAN : fine = (q.ok /\ works)
  OBVIOUS
<1>8. PICK new : new = [q EXCEPT !.chart = @ - 1, !.ok = @ /\ works]
  OBVIOUS
<1>9. job' = [job EXCEPT ![r] = new]
  BY <1>2, <1>8 DEF Install!RemoveChart, Install!Set
<1>10. /\ DOMAIN new = Fields /\ new.op = q.op /\ new.pc = "remove" /\ new.chart = q.chart - 1
       /\ new.crd = q.crd /\ new.temp = q.temp /\ new.crashed = q.crashed
       /\ new.saw = q.saw /\ new.alone = q.alone
  BY <1>1, <1>2, <1>8 DEF Job, Fields
<1>11. new.ok = fine
  BY <1>2, <1>7, <1>8 DEF Job, Fields
<1>12. new.ok \in BOOLEAN /\ new.temp \in BOOLEAN /\ new.crashed \in BOOLEAN /\ new.alone \in BOOLEAN
  BY <1>2, <1>10, <1>11 DEF Job
<1>13. q.chart - 1 \in 0..Install!NCharts
  BY <1>3, ChartsCounted
<1>14. Job(new)
  BY <1>2, <1>10, <1>12, <1>13 DEF Job
<1>15. Placed(new)
  BY <1>3, <1>10 DEF Placed, AtChart
<1>16. ASSUME Alone(r) PROVE Achieved(new, crds', releases', provider'.charts)
  <2>1. Achieved(q, crds, releases, provider.charts)
    BY <1>2, <1>16, Relied
  <2>2. ASSUME new.ok, provider.charts, NEW i \in 1..Install!NCharts, i > q.chart - 1
        PROVE  releases'[i] = "none"
    <3>1. q.ok /\ works
      BY <1>7, <1>11, <2>2
    <3>2. i > q.chart => releases[i] = "none"
      BY <1>1, <1>2, <2>1, <2>2, <3>1 DEF Achieved
    <3>3. i > q.chart \/ i = q.chart
      BY <1>3, <2>2
    <3>4. i > q.chart => releases'[i] = "none"
      BY <1>3, <1>6, <3>2
    <3> QED BY <1>5, <1>6, <3>1, <3>3, <3>4
  <2> QED BY <1>1, <1>10, <2>2 DEF Achieved, AtChart
<1> QED BY <1>1, <1>2, <1>4, <1>6, <1>9, <1>10, <1>14, <1>15, <1>16, OneJob DEF Alone

LEMMA RemovedKeeps ==
  ASSUME InstallInv, NEW r \in Installs, Install!ChartsRemoved(r)
  PROVE  InstallInv'
<1>1. /\ job[r].pc = "remove" /\ job[r].chart = 0
      /\ UNCHANGED <<provider, crds, releases, operator, meddled, page>>
  BY DEF Install!ChartsRemoved, Install!Cluster, Install!Rest
<1>2. PICK q : q = job[r] /\ Job(q) /\ Placed(q)
  BY DEF InstallInv
<1>3. q.temp = FALSE /\ q.op = "uninstall"
  BY <1>1, <1>2 DEF Placed, WithChart, Job
<1>4. PICK new : /\ Job(new) /\ job' = [job EXCEPT ![r] = new]
                 /\ SameBut(new, q) /\ new.pc = "done" /\ new.answer = 200
  BY <1>2, Answered DEF Install!ChartsRemoved
<1>5. Placed(new)
  BY <1>3, <1>4 DEF Placed, SameBut, AtChart
<1>6. ASSUME Alone(r) PROVE Achieved(new, crds, releases, provider.charts)
  <2>1. Achieved(q, crds, releases, provider.charts)
    BY <1>2, <1>6, Relied
  <2>2. q.ok /\ provider.charts => \A i \in 1..Install!NCharts : releases[i] = "none"
    BY <1>1, <1>2, <2>1 DEF Achieved
  <2> QED BY <1>3, <1>4, <2>2 DEF Achieved, AtChart, SameBut
<1> QED BY <1>1, <1>2, <1>4, <1>5, <1>6, MovesOn DEF SameBut

LEMMA ForgetKeeps ==
  ASSUME InstallInv, NEW r \in Installs, NEW works \in BOOLEAN, Install!Forget(r, works)
  PROVE  InstallInv'
<1>1. /\ job[r].pc = "forget" /\ UNCHANGED <<crds, releases, operator, meddled, page>>
  BY DEF Install!Forget, Install!Rest
<1>2. PICK q : q = job[r] /\ Job(q) /\ Placed(q)
  BY DEF InstallInv
<1>3. q.temp = FALSE /\ q.op = "forget"
  BY <1>1, <1>2 DEF Placed, WithChart, Job
<1>4. /\ crds \in [Crds -> {"none", "foreign", "ours"}] /\ provider \in Install!Providers
      /\ releases \in [1..Install!NCharts -> Install!ReleaseStates]
  BY DEF InstallInv
<1>5. provider' \in Install!Providers
  <2>1. [provider EXCEPT !.registered = FALSE] \in Install!Providers
    BY <1>4 DEF Install!Providers
  <2> QED BY <1>4, <2>1 DEF Install!Forget
<1>6. PICK new : new = [q EXCEPT !.pc = "done", !.answer = 200]
  OBVIOUS
<1>7. DOMAIN new = Fields /\ SameBut(new, q) /\ new.pc = "done" /\ new.answer = 200
  BY <1>2, <1>6 DEF Job, Fields, SameBut
<1>8. Job(new)
  BY <1>2, <1>7, SameFits
<1>9. Placed(new) /\ Achieved(new, crds', releases', provider'.charts)
  BY <1>3, <1>7 DEF Placed, Achieved, AtChart, SameBut
<1>10. job' = [job EXCEPT ![r] = new]
  BY <1>2, <1>6 DEF Install!Forget, Install!Set
<1>11. new.alone = q.alone
  BY <1>7 DEF SameBut
<1>12. new.alone = TRUE /\ new.pc # "free" => Alone(r) /\ Achieved(new, crds', releases', provider'.charts)
  BY <1>1, <1>2, <1>9, <1>11 DEF Alone
<1> QED BY <1>1, <1>2, <1>4, <1>5, <1>8, <1>9, <1>10, <1>11, <1>12, OneJob

LEMMA FinishedKeeps ==
  ASSUME InstallInv, NEW r \in Installs, Install!Finished(r)
  PROVE  InstallInv'
<1>1. /\ job[r].pc = "done" /\ UNCHANGED <<provider, crds, releases, operator, meddled, page>>
      /\ job' = [job EXCEPT ![r] = Install!NoJob]
  BY DEF Install!Finished, Install!Set, Install!Cluster, Install!Rest
<1>2. Install!NoJob.pc = "free"
  BY DEF Install!NoJob
<1> QED BY <1>1, <1>2, NoJobFits, OneJob DEF InstallInv

LEMMA StepKeeps ==
  ASSUME InstallInv, NEW r \in Installs, Install!Step(r)
  PROVE  InstallInv'
BY ContextKeeps, ThrowKeeps, StartKeeps, FinishedKeeps, PreKeeps, PullKeeps, CheckKeeps, ApplyKeeps,
   FetchKeeps, RemoveKeeps, RemovedKeeps, ForgetKeeps, PrepareKeeps, EndKeeps DEF Install!Step

(* A request begins: it is alone if no other is there, and the others are not  *)
(* alone from then on.                                                         *)
LEMMA BeginKeeps ==
  ASSUME InstallInv, NEW r, NEW op \in {"install", "uninstall", "forget"}, Install!Begin(r, op),
         UNCHANGED <<provider, crds, releases, operator, meddled>>,
         page'.pending \in BOOLEAN, page'.sent \in BOOLEAN,
         page' = [status |-> page'.status, pending |-> page'.pending, sent |-> page'.sent]
  PROVE  InstallInv'
<1>1. PICK idle \in BOOLEAN : idle = \A s \in Installs : job[s].pc = "free"
  OBVIOUS
<1>3. PICK new : new = [Install!NoJob EXCEPT !.op = op, !.pc = "context", !.alone = idle]
  OBVIOUS
<1>4. PICK f : f = [s \in Installs |-> IF s = r THEN new ELSE [job[s] EXCEPT !.alone = @ /\ job[s].pc = "free"]]
  OBVIOUS
<1>5. job' = f
  BY <1>1, <1>3, <1>4 DEF Install!Begin
<1>6. /\ DOMAIN new = Fields /\ new.op = op /\ new.pc = "context" /\ new.chart = 0 /\ new.crd = 0
      /\ new.saw = {}
  BY <1>3 DEF Install!NoJob, Fields
<1>7. new.ok = TRUE /\ new.temp = FALSE /\ new.crashed = FALSE
  BY <1>3 DEF Install!NoJob
<1>8. new.alone = idle
  BY <1>3 DEF Install!NoJob
<1>9. new.ok \in BOOLEAN /\ new.temp \in BOOLEAN /\ new.crashed \in BOOLEAN /\ new.alone \in BOOLEAN
  BY <1>7, <1>8
<1>10. Job(new)
  BY <1>6, <1>9, ChartsCounted DEF Job
<1>11. Placed(new) /\ Achieved(new, crds, releases, provider.charts)
  <2>1. Placed(new)
    BY <1>6, <1>7 DEF Placed, AtChart
  <2>2. Achieved(new, crds, releases, provider.charts)
    BY <1>6 DEF Achieved, AtChart
  <2> QED BY <2>1, <2>2
<1>12. ASSUME NEW s \in Installs, s # r
       PROVE  /\ Job(f[s]) /\ Placed(f[s]) /\ f[s].pc = job[s].pc
              /\ ~(f[s].alone = TRUE /\ f[s].pc # "free")
  <2>1. PICK q : q = job[s] /\ Job(q) /\ Placed(q)
    BY DEF InstallInv
  <2>2. PICK still \in BOOLEAN : still = (q.alone /\ q.pc = "free")
    OBVIOUS
  <2>3. f[s] = [q EXCEPT !.alone = @ /\ q.pc = "free"]
    BY <1>4, <1>12, <2>1
  <2>4. PICK o : o = f[s]
    OBVIOUS
  <2>5. /\ DOMAIN o = Fields /\ o.op = q.op /\ o.pc = q.pc /\ o.chart = q.chart /\ o.crd = q.crd
        /\ o.ok = q.ok /\ o.temp = q.temp /\ o.crashed = q.crashed /\ o.saw = q.saw
    BY <2>1, <2>3, <2>4 DEF Job, Fields
  <2>6. o.alone = still
    BY <2>1, <2>2, <2>3, <2>4 DEF Job, Fields
  <2>7. o.ok \in BOOLEAN /\ o.temp \in BOOLEAN /\ o.crashed \in BOOLEAN /\ o.alone \in BOOLEAN
    BY <2>1, <2>5, <2>6 DEF Job
  <2>8. Job(o)
    BY <2>1, <2>5, <2>7 DEF Job
  <2>9. Placed(o)
    BY <2>1, <2>5 DEF Placed
  <2>10. ~(o.alone = TRUE /\ o.pc # "free")
    BY <2>2, <2>5, <2>6
  <2> QED BY <2>1, <2>4, <2>5, <2>8, <2>9, <2>10
<1>13. ASSUME r \in Installs, idle = TRUE PROVE \A s \in Installs \ {r} : f[s].pc = "free"
  BY <1>1, <1>12, <1>13
<1>14. ASSUME r \in Installs PROVE f[r] = new
  BY <1>4, <1>14
<1>15. \A s \in Installs : Job(f[s]) /\ Placed(f[s])
  BY <1>10, <1>11, <1>12, <1>14
<1>16. \A s \in Installs : f[s].alone = TRUE /\ f[s].pc # "free" =>
         /\ Achieved(f[s], crds, releases, provider.charts)
         /\ \A t \in Installs \ {s} : f[t].pc = "free"
  BY <1>8, <1>11, <1>12, <1>13, <1>14
<1>17. DOMAIN f = Installs
  BY <1>4
<1> QED BY <1>5, <1>15, <1>16, <1>17 DEF InstallInv, Alone

(* Somebody else changes the cluster: nobody is alone any more.                *)
LEMMA OthersKeep ==
  ASSUME InstallInv, job' = Install!NoLongerAlone,
         provider' = provider, crds' \in [Crds -> {"none", "foreign", "ours"}],
         releases' \in [1..Install!NCharts -> Install!ReleaseStates],
         UNCHANGED <<operator, page>>, meddled' \in 0..MaxMeddling
  PROVE  InstallInv'
<1>1. ASSUME NEW r \in Installs PROVE Job(job'[r]) /\ Placed(job'[r]) /\ job'[r].alone = FALSE
  <2>1. PICK q : q = job[r] /\ Job(q) /\ Placed(q)
    BY DEF InstallInv
  <2>2. PICK o : o = job'[r]
    OBVIOUS
  <2>3. o = [q EXCEPT !.alone = FALSE]
    BY <2>1, <2>2 DEF Install!NoLongerAlone
  <2>4. /\ DOMAIN o = Fields /\ o.op = q.op /\ o.pc = q.pc /\ o.chart = q.chart /\ o.crd = q.crd
        /\ o.ok = q.ok /\ o.temp = q.temp /\ o.crashed = q.crashed /\ o.saw = q.saw
    BY <2>1, <2>3 DEF Job, Fields
  <2>5. o.alone = FALSE
    BY <2>1, <2>3 DEF Job, Fields
  <2>6. o.ok \in BOOLEAN /\ o.temp \in BOOLEAN /\ o.crashed \in BOOLEAN /\ o.alone \in BOOLEAN
    BY <2>1, <2>4, <2>5 DEF Job
  <2>7. Job(o)
    BY <2>1, <2>4, <2>6 DEF Job
  <2>8. Placed(o)
    BY <2>1, <2>4 DEF Placed
  <2> QED BY <2>2, <2>5, <2>7, <2>8
<1>2. provider \in Install!Providers
  BY DEF InstallInv
<1>3. DOMAIN job' = Installs
  BY DEF Install!NoLongerAlone
<1> QED BY <1>1, <1>2, <1>3 DEF InstallInv, Alone

LEMMA OthersCrdKeeps ==
  ASSUME InstallInv, NEW c \in Crds, Install!OthersChangeCrd(c)
  PROVE  InstallInv'
<1>1. /\ crds \in [Crds -> {"none", "foreign", "ours"}] /\ meddled \in 0..MaxMeddling
      /\ releases \in [1..Install!NCharts -> Install!ReleaseStates]
      /\ MaxMeddling \in Nat
  BY ProgressAssumption DEF InstallInv, Install!InstallAssumption
<1>2. /\ meddled' = meddled + 1 /\ meddled < MaxMeddling /\ UNCHANGED <<provider, releases, operator, page>>
      /\ crds' = [crds EXCEPT ![c] = IF @ = "none" THEN "foreign" ELSE "none"]
      /\ job' = Install!NoLongerAlone
  BY DEF Install!OthersChangeCrd, Install!Meddle
<1>3. crds' \in [Crds -> {"none", "foreign", "ours"}] /\ meddled' \in 0..MaxMeddling
  BY <1>1, <1>2
<1> QED BY <1>1, <1>2, <1>3, OthersKeep

LEMMA OthersReleaseKeeps ==
  ASSUME InstallInv, NEW i \in 1..Install!NCharts, Install!OthersChangeRelease(i)
  PROVE  InstallInv'
<1>1. /\ crds \in [Crds -> {"none", "foreign", "ours"}] /\ meddled \in 0..MaxMeddling
      /\ releases \in [1..Install!NCharts -> Install!ReleaseStates]
      /\ MaxMeddling \in Nat
  BY ProgressAssumption DEF InstallInv, Install!InstallAssumption
<1>2. PICK state \in {"none", "pending", "deployed"} : releases' = [releases EXCEPT ![i] = state]
  BY DEF Install!OthersChangeRelease
<1>3. /\ meddled' = meddled + 1 /\ meddled < MaxMeddling /\ UNCHANGED <<provider, crds, operator, page>>
      /\ job' = Install!NoLongerAlone
  BY DEF Install!OthersChangeRelease, Install!Meddle
<1>4. releases' \in [1..Install!NCharts -> Install!ReleaseStates]
  BY <1>1, <1>2 DEF Install!ReleaseStates
<1>5. meddled' \in 0..MaxMeddling /\ crds' \in [Crds -> {"none", "foreign", "ours"}]
  BY <1>1, <1>3
<1> QED BY <1>3, <1>4, <1>5, OthersKeep

LEMMA RegisterKeeps == ASSUME InstallInv, Install!Register PROVE InstallInv'
<1>1. /\ provider \in Install!Providers /\ meddled \in 0..MaxMeddling /\ MaxMeddling \in Nat
  BY ProgressAssumption DEF InstallInv, Install!InstallAssumption
<1>2. /\ meddled' = meddled + 1 /\ meddled < MaxMeddling /\ UNCHANGED <<crds, releases, operator, page, job>>
      /\ provider' = [provider EXCEPT !.registered = TRUE]
  BY DEF Install!Register, Install!Meddle
<1>3. provider' \in Install!Providers /\ provider'.charts = provider.charts
  BY <1>1, <1>2 DEF Install!Providers
<1>4. meddled' \in 0..MaxMeddling
  BY <1>1, <1>2
<1> QED BY <1>2, <1>3, <1>4 DEF InstallInv, Alone

(* The page keeps its marks, whatever it is shown.                             *)
LEMMA PageKeeps ==
  ASSUME InstallInv, NEW p, page' = p, p = [status |-> p.status, pending |-> p.pending, sent |-> p.sent],
         p.pending \in BOOLEAN, p.sent \in BOOLEAN,
         UNCHANGED <<provider, crds, releases, operator, meddled, job>>
  PROVE  InstallInv'
BY DEF InstallInv, Alone

LEMMA PageStepsKeep ==
  ASSUME InstallInv,
         (\E works \in BOOLEAN : Install!Poll(works)) \/ Install!Deliver \/ Install!Leave
  PROVE  InstallInv'
<1>1. PICK old : old = page /\ old = [status |-> old.status, pending |-> old.pending, sent |-> old.sent]
                 /\ old.pending \in BOOLEAN /\ old.sent \in BOOLEAN
  BY DEF InstallInv
<1>2. ASSUME NEW works \in BOOLEAN, Install!Poll(works) PROVE InstallInv'
  <2>1. PICK mark \in BOOLEAN : mark = (old.pending /\ Install!Verdict(works) # "installed")
    OBVIOUS
  <2>2. PICK status : status = Install!Report(works)
    OBVIOUS
  <2>3. PICK p : p = [old EXCEPT !.status = status, !.pending = @ /\ Install!Verdict(works) # "installed"]
    OBVIOUS
  <2>4. p = [status |-> p.status, pending |-> p.pending, sent |-> p.sent]
    BY <1>1, <2>3
  <2>5. p.sent = old.sent
    BY <1>1, <2>3
  <2>6. p.pending = mark
    BY <1>1, <2>1, <2>3
  <2>7. page' = p /\ UNCHANGED <<provider, crds, releases, operator, meddled, job>>
    BY <1>1, <1>2, <2>2, <2>3 DEF Install!Poll
  <2> QED BY <1>1, <2>4, <2>5, <2>6, <2>7, PageKeeps
<1>3. CASE Install!Deliver
  <2>1. PICK q : q = job[CHOOSE r \in Installs : TRUE]
    OBVIOUS
  <2>2. PICK p : p = [old EXCEPT !.sent = FALSE,
                        !.pending = IF q.answer = 200 /\ q.ok THEN q.op = "install" ELSE @]
    OBVIOUS
  <2>3. p = [status |-> p.status, pending |-> p.pending, sent |-> p.sent]
    BY <1>1, <2>2
  <2>4. p.sent = FALSE
    BY <1>1, <2>2
  <2>5. PICK mark \in BOOLEAN : mark = IF q.answer = 200 /\ q.ok THEN q.op = "install" ELSE old.pending
    BY <1>1
  <2>6. p.pending = mark
    BY <1>1, <2>2, <2>5
  <2>7. page' = p /\ UNCHANGED <<provider, crds, releases, operator, meddled, job>>
    BY <1>1, <1>3, <2>1, <2>2 DEF Install!Deliver
  <2> QED BY <2>3, <2>4, <2>6, <2>7, PageKeeps
<1>4. CASE Install!Leave
  <2>1. PICK p : p = Install!Blank
    OBVIOUS
  <2>2. p = [status |-> p.status, pending |-> p.pending, sent |-> p.sent]
        /\ p.pending = FALSE /\ p.sent = FALSE
    BY <2>1 DEF Install!Blank
  <2>3. page' = p /\ UNCHANGED <<provider, crds, releases, operator, meddled, job>>
    BY <1>4, <2>1 DEF Install!Leave
  <2> QED BY <2>2, <2>3, PageKeeps
<1> QED BY <1>2, <1>3, <1>4

LEMMA ClicksKeep == ASSUME InstallInv, Install!ClickInstall \/ Install!ClickUninstall PROVE InstallInv'
<1>1. PICK old : old = page /\ old = [status |-> old.status, pending |-> old.pending, sent |-> old.sent]
                 /\ old.pending \in BOOLEAN
  BY DEF InstallInv
<1>2. PICK p : p = [old EXCEPT !.sent = TRUE]
  OBVIOUS
<1>3. p = [status |-> p.status, pending |-> p.pending, sent |-> p.sent] /\ p.pending = old.pending
  BY <1>1, <1>2
<1>4. p.sent = TRUE
  BY <1>1, <1>2
<1>5. /\ page' = p /\ UNCHANGED <<provider, crds, releases, operator, meddled>>
      /\ \E op \in {"install", "uninstall", "forget"} : Install!Begin(CHOOSE r \in Installs : TRUE, op)
  BY <1>1, <1>2 DEF Install!ClickInstall, Install!ClickUninstall
<1> QED BY <1>1, <1>3, <1>4, <1>5, BeginKeeps

LEMMA InstallKeeps ==
  ASSUME InstallInv, [Install!Next]_(Install!ivars)
  PROVE  InstallInv'
<1>1. CASE UNCHANGED Install!ivars
  BY <1>1 DEF Install!ivars, InstallInv, Alone
<1>2. ASSUME NEW r \in Installs, NEW op \in {"install", "uninstall", "forget"}, Install!Post(r, op)
      PROVE  InstallInv'
  BY <1>2, BeginKeeps DEF Install!Post, InstallInv
<1>3. CASE Install!OperatorStarts \/ Install!OperatorStops
  BY <1>3 DEF Install!OperatorStarts, Install!OperatorStops, InstallInv, Alone
<1>4. CASE Install!Next
  BY <1>2, <1>3, <1>4, PageStepsKeep, ClicksKeep, StepKeeps, OthersCrdKeeps, OthersReleaseKeeps, RegisterKeeps
     DEF Install!Next
<1> QED BY <1>1, <1>4

LEMMA InstallStart == Init => InstallInv
<1> SUFFICES ASSUME Init PROVE InstallInv
  OBVIOUS
<1>1. /\ job = [r \in Installs |-> Install!NoJob] /\ page = Install!Blank
      /\ provider \in Install!Providers /\ operator = FALSE /\ meddled = 0
      /\ crds \in [Crds -> {"none", "foreign", "ours"}]
      /\ releases \in [1..Install!NCharts -> Install!ReleaseStates]
  <2>1. CASE Install!Init
    BY <2>1 DEF Install!Init, Install!ReleaseStates
  <2>2. CASE InstallAsleep
    BY <2>2 DEF InstallAsleep, Install!Providers, Install!NCharts, Install!ReleaseStates
  <2> QED BY <2>1, <2>2 DEF Init
<1>2. /\ page.pending = FALSE /\ page.sent = FALSE
      /\ page = [status |-> page.status, pending |-> page.pending, sent |-> page.sent]
  BY <1>1 DEF Install!Blank
<1>3. \A r \in Installs : job[r] = Install!NoJob /\ job[r].pc = "free"
  BY <1>1 DEF Install!NoJob
<1>4. meddled \in 0..MaxMeddling
  BY <1>1, ProgressAssumption DEF Install!InstallAssumption
<1> QED BY <1>1, <1>2, <1>3, <1>4, NoJobFits DEF InstallInv, Alone

LEMMA InstallHolds == Spec => []InstallInv
<1>1. InstallInv /\ [Next]_allVars => InstallInv'
  BY InstallKeeps, StepOfParts
<1> QED BY <1>1, InstallStart, PTL DEF Spec

(* An install or uninstall that succeeded with the cluster for itself did all  *)
(* of it, and one that was answered leaves no directory of a chart behind      *)
(* (routes/installation.ts, services/helm.ts).                                 *)
THEOREM InstallsDoAllOfIt == Spec => []InstallsCleanly
<1>1. InstallInv => InstallsCleanly
  <2> SUFFICES ASSUME InstallInv PROVE Install!SuccessIsComplete /\ Install!TempDirsRemoved
    BY DEF InstallsCleanly
  <2>1. ASSUME NEW r \in Installs, job[r].pc = "done", job[r].answer = 200, job[r].ok, job[r].alone, provider.charts
        PROVE  /\ job[r].op = "install" =>
                    \A i \in 1..Install!NCharts : /\ releases[i] = "deployed"
                                                  /\ \A c \in Install!EnsuredCrds(i) : crds[c] # "none"
               /\ job[r].op = "uninstall" => \A i \in 1..Install!NCharts : releases[i] = "none"
    <3>1. Alone(r)
      BY <2>1 DEF Alone
    <3>2. Achieved(job[r], crds, releases, provider.charts)
      BY <3>1, Relied
    <3>3. job[r].op = "install" => \A i \in 1..Install!NCharts : ChartDone(i, crds, releases)
      BY <2>1, <3>2 DEF Achieved
    <3>4. job[r].op = "uninstall" => \A i \in 1..Install!NCharts : releases[i] = "none"
      BY <2>1, <3>2 DEF Achieved
    <3> QED BY <3>3, <3>4 DEF ChartDone, Present
  <2>2. ASSUME NEW r \in Installs, job[r].pc = "done", ~job[r].crashed PROVE ~job[r].temp
    <3>1. Placed(job[r]) /\ Job(job[r])
      BY DEF InstallInv
    <3> QED BY <2>2, <3>1 DEF Placed, WithChart, Job
  <2>3. Install!SuccessIsComplete
    BY <2>1 DEF Install!SuccessIsComplete
  <2>4. Install!TempDirsRemoved
    BY <2>2 DEF Install!TempDirsRemoved
  <2> QED BY <2>3, <2>4
<1> QED BY <1>1, InstallHolds, PTL

(* An install takes over another tool's CRD in two places: where it applies    *)
(* its preCrdUrls, and where it applies a CRD that was missing when it looked  *)
(* (installProvider and ensureChartCrdsInstalled).  What helm itself creates   *)
(* was not there, and the other steps leave the CRDs alone.                    *)
THEOREM ForeignStays == Spec => ForeignCrdsKept
<1> DEFINE Step == \A c \in Crds : crds[c] = "foreign" /\ crds'[c] = "ours" => Install!TakesOver(c)
<1>1. ASSUME InstallInv, [Install!Next]_(Install!ivars) PROVE [Step]_(Install!ivars)
  <2> SUFFICES ASSUME Install!Next, NEW c \in Crds, crds[c] = "foreign", crds'[c] = "ours"
               PROVE  Install!TakesOver(c)
    BY <1>1
  <2>1. crds \in [Crds -> {"none", "foreign", "ours"}] /\ DOMAIN job = Installs
    BY <1>1 DEF InstallInv
  <2>2. UNCHANGED crds => FALSE
    OBVIOUS
  <2>3. ASSUME NEW s \in Installs, NEW works \in BOOLEAN, NEW done \in BOOLEAN,
               Install!ApplyPre(s, works, done)
        PROVE  Install!TakesOver(c)
    <3>1. PICK q : q = job[s] /\ Job(q) /\ Placed(q)
      BY <1>1 DEF InstallInv
    <3>2. q.pc = "pre" /\ crds' \in {crds, [crds EXCEPT ![Charts[q.chart].pre[q.crd]] = "ours"]}
      BY <2>3, <3>1 DEF Install!ApplyPre
    <3>3. c = Charts[q.chart].pre[q.crd]
      BY <2>1, <3>2
    <3>4. job'[s] # job[s]
      <4>1. CASE job'[s] = [q EXCEPT !.pc = "done", !.answer = 500, !.temp = FALSE, !.chart = 0, !.crd = 0,
                              !.saw = {}]
        <5>1. job'[s].pc = "done"
          BY <3>1, <4>1 DEF Job, Fields
        <5> QED BY <3>1, <3>2, <5>1
      <4>2. CASE job'[s] = [q EXCEPT !.crd = @ + 1]
        <5>1. job'[s].crd = q.crd + 1 /\ q.crd \in Nat
          BY <3>1, <4>2 DEF Job, Fields
        <5> QED BY <3>1, <5>1
      <4>3. CASE job'[s] = [q EXCEPT !.pc = Install!AfterPre(q.chart), !.crd = 0]
        <5>1. job'[s].pc \in {"pull", "fetch", "install"}
          BY <3>1, <4>3 DEF Job, Fields, Install!AfterPre
        <5> QED BY <3>1, <3>2, <5>1
      <4> QED BY <2>1, <2>3, <3>1, <4>1, <4>2, <4>3 DEF Install!ApplyPre, Install!Failed, Install!Set
    <3> QED BY <3>1, <3>2, <3>3, <3>4 DEF Install!TakesOver
  <2>4. ASSUME NEW s \in Installs, NEW works \in BOOLEAN, NEW done \in BOOLEAN,
               Install!ApplyCrd(s, works, done)
        PROVE  Install!TakesOver(c)
    <3>1. PICK q : q = job[s] /\ Job(q) /\ Placed(q)
      BY <1>1 DEF InstallInv
    <3>2. q.pc = "apply" /\ crds' \in {crds, [crds EXCEPT ![Charts[q.chart].crds[q.crd]] = "ours"]}
      BY <2>4, <3>1 DEF Install!ApplyCrd
    <3>3. c = Charts[q.chart].crds[q.crd] /\ c \notin q.saw
      BY <2>1, <3>1, <3>2 DEF Placed
    <3>4. job'[s] # job[s]
      <4>1. CASE job'[s] = [q EXCEPT !.pc = "done", !.answer = 500, !.temp = FALSE, !.chart = 0, !.crd = 0,
                              !.saw = {}]
        <5>1. job'[s].pc = "done"
          BY <3>1, <4>1 DEF Job, Fields
        <5> QED BY <3>1, <3>2, <5>1
      <4>2. CASE job'[s] = [q EXCEPT !.pc = "crd", !.crd = @ + 1, !.saw = {}]
        <5>1. job'[s].pc = "crd"
          BY <3>1, <4>2 DEF Job, Fields
        <5> QED BY <3>1, <3>2, <5>1
      <4> QED BY <2>1, <2>4, <3>1, <4>1, <4>2 DEF Install!ApplyCrd, Install!Failed, Install!Set
    <3> QED BY <3>1, <3>2, <3>3, <3>4 DEF Install!TakesOver
  <2>5. ASSUME NEW s \in Installs, NEW works \in BOOLEAN, NEW brought \in SUBSET Crds,
               Install!StartHelm(s, works, brought)
        PROVE  FALSE
    <3>1. /\ brought \subseteq Install!Lacking(job[s].chart)
          /\ crds' = [d \in Crds |-> IF d \in brought THEN "ours" ELSE crds[d]]
      BY <2>5 DEF Install!StartHelm
    <3>2. c \notin brought
      BY <3>1 DEF Install!Lacking
    <3> QED BY <3>1, <3>2
  <2>6. ASSUME NEW d \in Crds, Install!OthersChangeCrd(d) PROVE FALSE
    <3>1. crds' = [crds EXCEPT ![d] = IF @ = "none" THEN "foreign" ELSE "none"]
      BY <2>6 DEF Install!OthersChangeCrd
    <3> QED BY <2>1, <3>1
  <2>7. ASSUME NEW s \in Installs, Install!Step(s) PROVE Install!TakesOver(c)
    <3>1. CASE \E works \in BOOLEAN, left \in Install!ReleaseStates :
                 Install!EndHelm(s, works, left) \/ Install!RemoveChart(s, works, left)
      BY <2>2, <3>1 DEF Install!EndHelm, Install!RemoveChart
    <3>2. CASE \/ Install!CheckContext(s) \/ Install!ReadCrdsThrows(s) \/ Install!ChartsRemoved(s)
               \/ Install!Finished(s) \/ \E outcome \in Install!Preparations : Install!Prepare(s, outcome)
      BY <2>2, <3>2 DEF Install!CheckContext, Install!ReadCrdsThrows, Install!ChartsRemoved, Install!Finished,
                        Install!Prepare, Install!Cluster
    <3>3. CASE \E works \in BOOLEAN : \/ Install!PullChart(s, works) \/ Install!CheckCrd(s, works)
                                      \/ Install!FetchChart(s, works) \/ Install!Forget(s, works)
      BY <2>2, <3>3 DEF Install!PullChart, Install!CheckCrd, Install!FetchChart, Install!Forget, Install!Cluster
    <3> QED BY <2>3, <2>4, <2>5, <2>7, <3>1, <3>2, <3>3 DEF Install!Step
  <2>8. ASSUME \/ \E works \in BOOLEAN : Install!Poll(works)
               \/ Install!ClickInstall \/ Install!ClickUninstall \/ Install!Deliver \/ Install!Leave
               \/ \E s \in Installs : \E op \in {"install", "uninstall", "forget"} : Install!Post(s, op)
               \/ Install!OperatorStarts \/ Install!OperatorStops \/ Install!Register
               \/ \E i \in 1..Install!NCharts : Install!OthersChangeRelease(i)
        PROVE  FALSE
    BY <2>2, <2>8 DEF Install!Poll, Install!ClickInstall, Install!ClickUninstall, Install!Deliver,
       Install!Leave, Install!Post, Install!OperatorStarts, Install!OperatorStops, Install!Register,
       Install!OthersChangeRelease
  <2> QED BY <2>6, <2>7, <2>8 DEF Install!Next
<1>2. InstallInv /\ [Next]_allVars => [Step]_(Install!ivars)
  BY <1>1, StepOfParts
<1> QED BY <1>2, InstallHolds, PTL DEF Spec, ForeignCrdsKept, Install!ForeignCrdsKept

(* The types of the state of all three parts.                                  *)
THEOREM Typed == Spec => []TypeOK
<1>1. InstallInv /\ SessionInv /\ PagesInv => Install!TypeOK /\ SignIn!TypeOK /\ Pages!TypeOK
  <2> SUFFICES ASSUME InstallInv, SessionInv, PagesInv
               PROVE  Install!TypeOK /\ SignIn!TypeOK /\ Pages!TypeOK
    OBVIOUS
  <2>1. Install!TypeOK
    <3>1. \A r \in Installs : job[r].chart \in 0..Install!NCharts /\ job[r].saw \subseteq Crds
      BY DEF InstallInv, Job
    <3>2. {page.pending, page.sent} \subseteq BOOLEAN
      BY DEF InstallInv
    <3> QED BY <3>1, <3>2 DEF InstallInv, Install!TypeOK
  <2>2. SignIn!TypeOK
    <3>1. ASSUME NEW i \in Tabs PROVE tabs[i].page \in SignIn!Pages /\ tabs[i].signed \in BOOLEAN
      BY DEF SessionInv, Tab
    <3>2. ASSUME NEW s \in requests PROVE s.tab \in Tabs /\ s.token \in Tokens \cup {SignIn!None}
      BY DEF SessionInv, Sent
    <3> QED BY <3>1, <3>2 DEF SessionInv, SignIn!TypeOK
  <2>3. Pages!TypeOK
    BY DEF PagesInv, Pages!TypeOK, Keeps, Flight, One
  <2> QED BY <2>1, <2>2, <2>3
<1>2. Init => part \in Parts
  BY DEF Init
<1>3. part \in Parts /\ [Next]_allVars => (part \in Parts)'
  BY DEF Next, allVars
<1> QED BY <1>1, <1>2, <1>3, InstallHolds, SessionHolds, PagesHold, PTL DEF Spec, TypeOK
=============================================================================
