--------------------------- MODULE HuggingFaceLink ---------------------------
(* Connecting a HuggingFace account: the OAuth flow of the web UI              *)
(* (useHuggingFace.ts, HuggingFaceCallbackPage.tsx) and the one whose verifier *)
(* the backend keeps (routes/oauth.ts, the plugin's HuggingFaceCallback.tsx),  *)
(* and the secret the backend then writes into every provider's namespace      *)
(* (services/secrets.ts, routes/secrets.ts).  One browser tab, which can be    *)
(* left or reloaded at any time while the backend works on for it, and the     *)
(* other users of the cluster, who save and remove the same secrets.           *)
EXTENDS Naturals, Sequences, FiniteSets

CONSTANTS
  TargetNamespaces,  \* a sequence, in the order they are visited
  Existing,          \* those of them that exist at the start
  BackendCalls,      \* bound: the requests the backend works on at a time
  MaxFlows,          \* bound: flows started
  MaxFaults          \* bound: calls to the cluster or to HuggingFace that fail,
                     \* and requests of other users

VARIABLES
  side,      \* which client it is: the side that keeps the verifier
  flows,     \* the flows started
  session,   \* sessionStorage: the flow of the state and of the verifier, or 0
  pkceStore, \* the flows whose verifier the backend holds
  page,      \* what the tab shows, the flow it was called back for, and history:
             \* the namespaces its save wrote, and those somebody wrote since
  exchanged, \* the exchanges sent: the flow of the code and of the verifier
  redeemed,  \* the flows whose code HuggingFace has redeemed
  local,     \* hf_access_token: the flow of the token, or 0
  secrets,   \* per namespace: there, and the flow of the token in it, or 0
  work,      \* the requests at the backend
  faults

hvars == <<side, flows, session, pkceStore, page, exchanged, redeemed, local, secrets, work, faults>>

Namespaces == {TargetNamespaces[k] : k \in DOMAIN TargetNamespaces}
Foreign == MaxFlows + 1   \* the token of another user
NoSession == [state |-> 0, verifier |-> 0]
Fresh(shown, flow) == [shown |-> shown, flow |-> flow, written |-> {}, overtaken |-> {}]
May(fails) == faults' = (IF fails THEN faults + 1 ELSE faults) /\ faults' <= MaxFaults

(* A request: heard says who goes on with its answer, the page that shows it,  *)
(* a script whose page has been left, or nobody.                               *)
Free == [pc |-> "free", flow |-> 0, at |-> 0, failed |-> FALSE, heard |-> "nobody"]
Goes(c, new) == work' = [work EXCEPT ![c] = new]
IsFree(c) == work[c].pc = "free" /\ c = CHOOSE d \in BackendCalls : work[d].pc = "free"
Heard(c) == work[c].heard # "nobody"
Unheard == [c \in BackendCalls |-> [work[c] EXCEPT !.heard = "nobody"]]
Loop(w, pc) == [w EXCEPT !.pc = pc, !.at = 1, !.failed = FALSE]

-----------------------------------------------------------------------------
(* startOAuth: the verifier and the state of a new flow replace those of the   *)
(* last, and the tab leaves for HuggingFace, with all its scripts.             *)
Start ==
  LET i == flows + 1 IN
  /\ side = "browser" /\ page.shown = "settings" /\ i <= MaxFlows
  /\ flows' = i
  /\ session' = [state |-> i, verifier |-> i]
  /\ page' = Fresh("away", 0) /\ work' = Unheard
  /\ UNCHANGED <<side, pkceStore, exchanged, redeemed, local, secrets, faults>>

(* POST /huggingface/start; the client keeps the state.  (The plugin's button  *)
(* for it is commented out at this commit; its callback page, the client and   *)
(* the route are live.)                                                        *)
StartOnServer ==
  LET i == flows + 1 IN
  /\ side = "server" /\ page.shown = "settings" /\ i <= MaxFlows
  /\ flows' = i
  /\ pkceStore' = pkceStore \cup {i}
  /\ session' = [session EXCEPT !.state = i]
  /\ page' = Fresh("away", 0) /\ work' = Unheard
  /\ UNCHANGED <<side, exchanged, redeemed, local, secrets, faults>>

(* The user comes back without finishing.                                      *)
Return ==
  /\ page.shown = "away" /\ page' = Fresh("settings", 0)
  /\ UNCHANGED <<side, flows, session, pkceStore, exchanged, redeemed, local, secrets, work, faults>>

(* The user reloads the page, goes back or closes it: nobody hears the answers *)
(* of what the backend is doing.                                               *)
Unload ==
  /\ page.shown # "away"
  /\ page' = Fresh("away", 0) /\ work' = Unheard
  /\ UNCHANGED <<side, flows, session, pkceStore, exchanged, redeemed, local, secrets, faults>>

(* The page that says what came of it goes to the settings; the plugin's can   *)
(* be left before, and processCallback goes on without it.                     *)
Leave ==
  /\ page.shown \in {"success", "error"} \/ (page.shown = "processing" /\ side = "server")
  /\ page' = Fresh("settings", 0)
  /\ work' = [c \in BackendCalls |-> [work[c] EXCEPT !.heard = IF @ = "page" THEN "script" ELSE @]]
  /\ UNCHANGED <<side, flows, session, pkceStore, exchanged, redeemed, local, secrets, faults>>

(* Ten minutes pass, or the backend restarts.                                  *)
ForgetVerifier(i) ==
  /\ i \in pkceStore /\ pkceStore' = pkceStore \ {i}
  /\ UNCHANGED <<side, flows, session, page, exchanged, redeemed, local, secrets, work, faults>>

SendsCode(c, i, verifier) ==
  /\ page.shown = "away" /\ IsFree(c)
  /\ exchanged' = IF verifier = 0 THEN exchanged
                  ELSE exchanged \cup {[code |-> i, verifier |-> verifier]}
  /\ page' = Fresh(IF verifier = 0 THEN "error" ELSE "processing", i)
  /\ Goes(c, IF verifier = 0 THEN Free
             ELSE [Free EXCEPT !.pc = "exchange", !.flow = i, !.heard = "page"])
  /\ UNCHANGED <<side, flows, pkceStore, redeemed, local, secrets, faults>>

\* Mutant: the state is not compared.
CallbackUnchecked(c, i, agreed) ==
  /\ SendsCode(c, i, IF ~agreed THEN 0 ELSE IF side = "server" THEN i ELSE session.verifier)
  /\ session' = IF side = "server" THEN session ELSE NoSession

(* processCallback up to its first await, for whichever flow HuggingFace       *)
(* answers, or whose address is loaded again: the state must be the one of the *)
(* session.  The browser's flow takes the verifier out of the session as it    *)
(* sends it.                                                                   *)
Callback(c, i, agreed) ==
  LET mine == agreed /\ session.state = i IN
  /\ SendsCode(c, i, CASE ~mine           -> 0
                       [] side = "server" -> i
                       [] OTHER           -> session.verifier)
  /\ session' = CASE mine /\ side = "server" -> session
                  [] side = "server"         -> [session EXCEPT !.state = 0]
                  [] OTHER                   -> NoSession

ClearSession == IF side = "server" THEN [session EXCEPT !.state = 0] ELSE NoSession

(* The request has failed, and whoever hears of it clears the session.         *)
Fails(c) ==
  /\ Goes(c, Free)
  /\ page' = IF work[c].heard = "page" THEN [page EXCEPT !.shown = "error"] ELSE page
  /\ session' = IF Heard(c) THEN ClearSession ELSE session

(* handleOAuthCallback: HuggingFace redeems a code once, for its own verifier. *)
(* The user's name is read next; when that fails the code is spent already.    *)
(* The client that hears of it keeps the token and sends it to be saved.       *)
Exchange(c, works, named) ==
  LET w == work[c]
      i == w.flow
      held == side = "browser" \/ i \in pkceStore
      redeems == works /\ held /\ i \notin redeemed
      done == redeems /\ named
  IN
  /\ w.pc = "exchange"
  /\ May(held /\ i \notin redeemed /\ ~done)
  /\ redeemed' = IF redeems THEN redeemed \cup {i} ELSE redeemed
  /\ pkceStore' = IF done THEN pkceStore \ {i} ELSE pkceStore
  /\ local' = IF done /\ Heard(c) THEN i ELSE local
  /\ IF ~done THEN Fails(c)
     ELSE Goes(c, IF Heard(c) THEN [w EXCEPT !.pc = "validate"] ELSE Free)
          /\ UNCHANGED <<page, session>>
  /\ UNCHANGED <<side, flows, exchanged, secrets>>

-----------------------------------------------------------------------------
(* POST /secrets/huggingface: the token is tried first.                        *)
Validate(c, valid) ==
  /\ work[c].pc = "validate" /\ May(~valid)
  /\ IF valid THEN Goes(c, Loop(work[c], "namespace")) /\ UNCHANGED <<page, session>>
     ELSE Fails(c)
  /\ UNCHANGED <<side, flows, pkceStore, exchanged, redeemed, local, secrets>>

(* Another user saves a token, which is good, from another browser.            *)
SaveOther(c) ==
  /\ IsFree(c) /\ May(TRUE)
  /\ Goes(c, Loop([Free EXCEPT !.flow = Foreign], "namespace"))
  /\ UNCHANGED <<side, flows, session, pkceStore, page, exchanged, redeemed, local, secrets>>

(* A call of the cluster works, fails, or takes effect and counts as failed:   *)
(* its answer is lost, or withRetry sends a create again, which is refused.    *)
Outcomes == {"works", "fails", "lost"}
Acts(o) == o \in {"works", "lost"}

Here(w) == TargetNamespaces[w.at]
Ended(w) == w.at > Len(TargetNamespaces)
On(w, failed) == [w EXCEPT !.pc = "namespace", !.at = @ + 1, !.failed = @ \/ failed]

(* The secret of a namespace changes; the history of the page says by whom.    *)
Puts(c, n, token) ==
  /\ secrets' = [secrets EXCEPT ![n].token = token]
  /\ page' = IF work[c].heard = "page"
             THEN [page EXCEPT !.written = @ \cup {n}, !.overtaken = @ \ {n}]
             ELSE [page EXCEPT !.overtaken = @ \cup (page.written \cap {n})]

(* ensureNamespace: a namespace that is not there is created.                  *)
EnsureNamespace(c, o) ==
  LET w == work[c] IN
  /\ w.pc = "namespace" /\ ~Ended(w) /\ May(o # "works")
  /\ Goes(c, IF o = "works" THEN [w EXCEPT !.pc = "read"] ELSE On(w, TRUE))
  /\ secrets' = [secrets EXCEPT ![Here(w)].there = @ \/ Acts(o)]
  /\ UNCHANGED <<side, flows, session, pkceStore, page, exchanged, redeemed, local>>

(* upsertSecretInNamespace: read, then replace what is there or create what is *)
(* not, without a lock between; a secret that vanished is created, and one     *)
(* that appeared is not replaced: the create is refused, which is a failure.   *)
ReadSecret(c, works) ==
  LET w == work[c] IN
  /\ w.pc = "read" /\ May(~works)
  /\ Goes(c, IF ~works THEN On(w, TRUE)
             ELSE [w EXCEPT !.pc = IF secrets[Here(w)].token # 0 THEN "replace" ELSE "create"])
  /\ UNCHANGED <<side, flows, session, pkceStore, page, exchanged, redeemed, local, secrets>>

ReplaceSecret(c, o) ==
  LET w == work[c]
      there == secrets[Here(w)].token # 0
  IN
  /\ w.pc = "replace" /\ May(o # "works")
  /\ Goes(c, IF o = "works" /\ ~there THEN [w EXCEPT !.pc = "create"] ELSE On(w, o # "works"))
  /\ IF Acts(o) /\ there THEN Puts(c, Here(w), w.flow) ELSE UNCHANGED <<secrets, page>>
  /\ UNCHANGED <<side, flows, session, pkceStore, exchanged, redeemed, local>>

\* Mutant: a create that is refused because the secret is there counts as done.
Refused(o, free) == o # "works"
CreateFails(o, free) == o # "works" \/ ~free

CreateSecret(c, o) ==
  LET w == work[c]
      free == secrets[Here(w)].token = 0
  IN
  /\ w.pc = "create" /\ May(o # "works")
  /\ Goes(c, On(w, CreateFails(o, free)))
  /\ IF Acts(o) /\ free THEN Puts(c, Here(w), w.flow) ELSE UNCHANGED <<secrets, page>>
  /\ UNCHANGED <<side, flows, session, pkceStore, exchanged, redeemed, local>>

(* The answer to the save; the page says what came of it.                      *)
SaveAnswers(c) ==
  LET w == work[c] IN
  /\ w.pc = "namespace" /\ Ended(w)
  /\ Goes(c, Free)
  /\ page' = IF w.heard = "page"
             THEN [page EXCEPT !.shown = IF w.failed THEN "error" ELSE "success"] ELSE page
  /\ session' = IF Heard(c) /\ (w.failed \/ side = "server") THEN ClearSession ELSE session
  /\ UNCHANGED <<side, flows, pkceStore, exchanged, redeemed, local, secrets, faults>>

-----------------------------------------------------------------------------
(* DELETE /secrets/huggingface, from any browser, or from this tab, whose      *)
(* settings page offers it as long as there is a secret; a namespace that      *)
(* fails is passed over.                                                       *)
Disconnect(c, ours) ==
  /\ IsFree(c) /\ May(~ours)
  /\ ours => page.shown = "settings" /\ \E n \in Namespaces : secrets[n].token # 0
  /\ Goes(c, Loop([Free EXCEPT !.heard = IF ours THEN "script" ELSE "nobody"], "drop"))
  /\ UNCHANGED <<side, flows, session, pkceStore, page, exchanged, redeemed, local, secrets>>

DeleteSecret(c, o) ==
  LET w == work[c] IN
  /\ w.pc = "drop" /\ ~Ended(w) /\ May(o # "works")
  /\ Goes(c, [w EXCEPT !.at = @ + 1])
  /\ IF Acts(o) THEN Puts(c, Here(w), 0) ELSE UNCHANGED <<secrets, page>>
  /\ UNCHANGED <<side, flows, session, pkceStore, exchanged, redeemed, local>>

(* The answer is a 200 whatever failed, and the settings page forgets the      *)
(* token.                                                                      *)
DeleteAnswers(c) ==
  /\ work[c].pc = "drop" /\ Ended(work[c])
  /\ Goes(c, Free)
  /\ local' = IF Heard(c) THEN 0 ELSE local
  /\ UNCHANGED <<side, flows, session, pkceStore, page, exchanged, redeemed, secrets, faults>>

-----------------------------------------------------------------------------
Init ==
  /\ side \in {"browser", "server"} /\ flows = 0 /\ session = NoSession /\ pkceStore = {}
  /\ page = Fresh("settings", 0)
  /\ exchanged = {} /\ redeemed = {} /\ local = 0
  /\ secrets = [n \in Namespaces |-> [there |-> n \in Existing, token |-> 0]]
  /\ work = [c \in BackendCalls |-> Free]
  /\ faults = 0

Tab ==
  \/ Start \/ StartOnServer \/ Return \/ Unload \/ Leave
  \/ \E c \in BackendCalls, i \in 1..flows, agreed \in BOOLEAN : Callback(c, i, agreed)

Saving(c) ==
  \/ \E works \in BOOLEAN : Validate(c, works) \/ ReadSecret(c, works)
  \/ \E o \in Outcomes : EnsureNamespace(c, o) \/ ReplaceSecret(c, o) \/ CreateSecret(c, o)
  \/ SaveAnswers(c)

Backend(c) ==
  \/ Saving(c)
  \/ \E works, named \in BOOLEAN : Exchange(c, works, named)
  \/ SaveOther(c)
  \/ \E ours \in BOOLEAN : Disconnect(c, ours)
  \/ \E o \in Outcomes : DeleteSecret(c, o)
  \/ DeleteAnswers(c)

Next ==
  \/ Tab
  \/ \E i \in 1..flows : ForgetVerifier(i)
  \/ \E c \in BackendCalls : Backend(c)

Spec == Init /\ [][Next]_hvars

-----------------------------------------------------------------------------
TypeOK ==
  /\ session.state \in 0..MaxFlows /\ session.verifier \in 0..MaxFlows
  /\ pkceStore \subseteq 1..flows /\ redeemed \subseteq 1..flows /\ local \in 0..MaxFlows
  /\ \A n \in Namespaces : secrets[n].token \in 0..Foreign
  /\ page.overtaken \subseteq page.written /\ page.written \subseteq Namespaces

(* A code is only ever sent to HuggingFace with the verifier of its own flow,  *)
(* whichever flow the user finishes and however many the tab has started.      *)
VerifierOfItsCode == \A x \in exchanged : x.verifier = x.code

(* A page that says the account is connected is right, whoever else saves or   *)
(* removes the same secrets between the reads and the writes of its save: the  *)
(* save wrote its token into every target namespace, and it is still there but *)
(* where another request has written or removed it after that write.           *)
ConnectedMeansEverywhere ==
  page.shown = "success" =>
    \A n \in Namespaces :
      /\ secrets[n].there /\ n \in page.written
      /\ secrets[n].token # page.flow => n \in page.overtaken
=============================================================================
