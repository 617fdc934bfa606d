------------------------------- MODULE Session -------------------------------
(* Signing in to the web UI: the token in the browser's storage, shared by its *)
(* tabs, the sign-in state each tab keeps (useAuth.ts, App.tsx, LoginPage.tsx, *)
(* lib/api.ts), the link `airunway login` opens, and the check the backend     *)
(* makes of every request (hono-app.ts, services/auth.ts).                     *)
EXTENDS Naturals, FiniteSets

CONSTANTS
  Tabs,
  Tokens,       \* the tokens a user may have from the cluster
  Protected,    \* whether AUTH_ENABLED is set
  MaxRequests,  \* bound: requests in flight at a time
  MaxLogins     \* bound: links opened and tokens pasted

None == "none"

SessionAssumption == None \notin Tokens /\ Protected \in BOOLEAN

VARIABLES
  stored,    \* the token in localStorage
  tabs,      \* per tab: the page, the settings it has read, signed (isAuthenticated)
  requests,  \* the requests in flight: tab, token sent, stage
  valid,     \* the tokens the cluster accepts
  logins     \* links and pasted tokens so far

svars == <<stored, tabs, requests, valid, logins>>

Pages == {"closed", "link", "start", "login", "app"}

(* What ProtectedRoute and LoginPage show once useAuth has loaded.             *)
Routed(t) ==
  IF ~t.signed /\ (t.page \in {"link", "login"} \/ t.settings = "on") THEN "login" ELSE "app"
Route(t) == [t EXCEPT !.page = Routed(t)]

(* handleLogin of the CLI with extractTokenFromKubeconfig opens the login page *)
(* with a token of the kubeconfig, which is stored as the page mounts; or a    *)
(* tab is opened by hand.                                                      *)
Open(i, link) ==
  /\ tabs[i].page = "closed"
  /\ IF link = None THEN UNCHANGED <<logins, stored>>
     ELSE logins < MaxLogins /\ logins' = logins + 1 /\ stored' = link
  /\ tabs' = [tabs EXCEPT ![i] = [page |-> IF link = None THEN "start" ELSE "link",
                                  settings |-> "loading", signed |-> link # None]]
  /\ UNCHANGED <<requests, valid>>

Close(i) ==
  /\ tabs[i].page # "closed"
  /\ tabs' = [tabs EXCEPT ![i].page = "closed"]
  /\ requests' = {r \in requests : r.tab # i}
  /\ UNCHANGED <<stored, valid, logins>>

(* The settings answer, and the effect of useAuth reads the stored token; when *)
(* they cannot be read, auth counts as disabled until they are read again.     *)
SettingsAnswer(i, works) ==
  /\ tabs[i].page # "closed" /\ tabs[i].settings \in {"loading", "failed"}
  /\ tabs' = [tabs EXCEPT ![i] = Route([@ EXCEPT
       !.settings = IF ~works THEN "failed" ELSE IF Protected THEN "on" ELSE "off",
       !.signed = stored # None])]
  /\ UNCHANGED <<stored, requests, valid, logins>>

(* handleManualLogin.                                                          *)
Paste(i, token) ==
  /\ tabs[i].page = "login" /\ logins < MaxLogins /\ logins' = logins + 1
  /\ stored' = token
  /\ tabs' = [tabs EXCEPT ![i] = Route([@ EXCEPT !.signed = TRUE])]
  /\ UNCHANGED <<requests, valid>>

-----------------------------------------------------------------------------
(* request() of lib/api.ts sends whatever token is stored at that moment.      *)
Send(i) ==
  /\ tabs[i].page = "app" /\ Cardinality(requests) < MaxRequests
  /\ \A r \in requests : r.tab # i
  /\ requests' = requests \cup {[tab |-> i, token |-> stored, stage |-> "sent"]}
  /\ UNCHANGED <<stored, tabs, valid, logins>>

Step(r, stage) ==
  /\ requests' = (requests \ {r}) \cup {[r EXCEPT !.stage = stage]}
  /\ UNCHANGED <<stored, tabs, valid, logins>>

\* Mutant: a bad token is refused without the auth header.
AuthenticateBare(r, reviewed) ==
  /\ r.stage = "sent"
  /\ Step(r, IF ~Protected \/ (reviewed /\ r.token \in valid) THEN "handler" ELSE "upstream401")

(* The auth middleware.  A TokenReview that fails counts as an invalid token.  *)
(* Only the middleware's answer carries the auth header.                       *)
Authenticate(r, reviewed) ==
  /\ r.stage = "sent"
  /\ Step(r, IF ~Protected \/ (r.token # None /\ reviewed /\ r.token \in valid)
             THEN "handler" ELSE "refused")

(* The handler answers, or the model server behind it does, maybe with a 401   *)
(* of its own.                                                                 *)
Handle(r, stage) == r.stage = "handler" /\ Step(r, stage)

\* Mutant: any 401 is one of the backend.
SignsOutAny(r) == r.stage \in {"refused", "upstream401"}

(* isAuthenticationError: a 401 with the header.                               *)
SignsOut(r) == r.stage = "refused"

(* The answer arrives: handleUnauthorized, in the tab that sent the request.   *)
Arrive(r) ==
  /\ r.stage \in {"refused", "done", "upstream401"}
  /\ requests' = requests \ {r}
  /\ stored' = IF SignsOut(r) THEN None ELSE stored
  /\ tabs' = IF SignsOut(r) THEN [tabs EXCEPT ![r.tab] = Route([@ EXCEPT !.signed = FALSE])] ELSE tabs
  /\ UNCHANGED <<valid, logins>>

(* Tokens expire and are issued again.                                         *)
Expire(token) ==
  /\ token \in valid /\ valid' = valid \ {token}
  /\ UNCHANGED <<stored, tabs, requests, logins>>

-----------------------------------------------------------------------------
Init ==
  /\ stored = None /\ requests = {} /\ logins = 0
  /\ tabs = [i \in Tabs |-> [page |-> "closed", settings |-> "loading", signed |-> FALSE]]
  /\ valid = Tokens

Answered(i) ==
  \E r \in requests :
    /\ r.tab = i
    /\ \/ \E reviewed \in BOOLEAN : Authenticate(r, reviewed)
       \/ \E stage \in {"done", "upstream401"} : Handle(r, stage)
       \/ Arrive(r)

Next ==
  \/ \E i \in Tabs :
       \/ \E link \in Tokens \cup {None} : Open(i, link)
       \/ \E works \in BOOLEAN : SettingsAnswer(i, works)
       \/ \E token \in Tokens : Paste(i, token)
       \/ Close(i) \/ Send(i) \/ Answered(i)
  \/ \E token \in Tokens : Expire(token)

(* Pages ask again for what they show, every 5 to 30 seconds, and requests are *)
(* answered.                                                                   *)
Fairness == \A i \in Tabs : WF_svars(Send(i)) /\ WF_svars(Answered(i))
Spec == Init /\ [][Next]_svars /\ Fairness

-----------------------------------------------------------------------------
TypeOK ==
  /\ stored \in Tokens \cup {None} /\ valid \subseteq Tokens
  /\ \A i \in Tabs : tabs[i].page \in Pages /\ tabs[i].signed \in BOOLEAN
  /\ \A r \in requests : r.tab \in Tabs /\ r.token \in Tokens \cup {None}

(* "Upstream/model 401s are application errors and should not log out the      *)
(* user": the stored token goes only when the backend refused a request that   *)
(* a tab of this browser sent.                                                 *)
OnlyARefusalSignsOut ==
  [][stored # None /\ stored' = None =>
       Protected /\ \E r \in requests \ requests' : r.stage = "refused"]_svars

(* A tab that knows auth is enabled does not go on showing the app without a   *)
(* token the cluster accepts: it comes to the login page, or to a good token.  *)
StaleSessionEnds ==
  \A i \in Tabs :
    (tabs[i].page = "app" /\ tabs[i].settings = "on")
      ~> (tabs[i].page # "app" \/ stored \in valid)
=============================================================================
