-------------------------- MODULE WebClientsProofs --------------------------
(* Theorems about what the users of the web UI have before them, for all the   *)
(* constants of WebClients; WebProofs brings them to the whole backend.        *)
EXTENDS WebClients, SequenceTheorems, WellFoundedInduction, TLAPS

-----------------------------------------------------------------------------
(* Connecting a HuggingFace account.                                           *)

(* The browser's session holds the state and the verifier of one flow.  It is  *)
(* what makes VerifierOfItsCode inductive: Callback compares the state only.   *)
SessionOfOneFlow ==
  /\ flows \in Nat /\ side \in {"browser", "server"}
  /\ DOMAIN session = {"state", "verifier"}
  /\ session = [state |-> session.state, verifier |-> session.verifier]
  /\ side = "browser" => session.verifier = session.state

LinkInv == SessionOfOneFlow /\ Link!VerifierOfItsCode

LEMMA LinkInit == Link!Init => LinkInv
  BY DEF Link!Init, LinkInv, SessionOfOneFlow, Link!VerifierOfItsCode, Link!NoSession

(* Ending a flow empties the browser's session, and the server's of its state. *)
LEMMA SessionCleared == ASSUME SessionOfOneFlow, flows' \in Nat, side' = side, session' = Link!ClearSession
                        PROVE  SessionOfOneFlow'
  BY DEF SessionOfOneFlow, Link!ClearSession, Link!NoSession

(* What the backend answers clears the session or leaves it.                   *)
LEMMA BackendLeaves ==
  ASSUME NEW c \in BackendCalls, Link!Backend(c)
  PROVE  UNCHANGED <<side, flows, exchanged>> /\ session' \in {session, Link!ClearSession}
<1>1. ASSUME NEW works \in BOOLEAN, Link!Validate(c, works) \/ Link!ReadSecret(c, works)
      PROVE  UNCHANGED <<side, flows, exchanged>> /\ session' \in {session, Link!ClearSession}
  BY <1>1 DEF Link!Validate, Link!ReadSecret, Link!Fails
<1>2. ASSUME NEW o, Link!EnsureNamespace(c, o) \/ Link!ReplaceSecret(c, o) \/ Link!CreateSecret(c, o)
                    \/ Link!DeleteSecret(c, o)
      PROVE  UNCHANGED <<side, flows, exchanged>> /\ session' \in {session, Link!ClearSession}
  BY <1>2 DEF Link!EnsureNamespace, Link!ReplaceSecret, Link!CreateSecret, Link!DeleteSecret
<1>3. CASE Link!SaveAnswers(c) \/ Link!SaveOther(c) \/ Link!DeleteAnswers(c)
  BY <1>3 DEF Link!SaveAnswers, Link!SaveOther, Link!DeleteAnswers
<1>4. ASSUME NEW works, NEW named, Link!Exchange(c, works, named)
      PROVE  UNCHANGED <<side, flows, exchanged>> /\ session' \in {session, Link!ClearSession}
  BY <1>4 DEF Link!Exchange, Link!Fails
<1>5. ASSUME NEW ours, Link!Disconnect(c, ours)
      PROVE  UNCHANGED <<side, flows, exchanged>> /\ session' \in {session, Link!ClearSession}
  BY <1>5 DEF Link!Disconnect
<1> QED BY <1>1, <1>2, <1>3, <1>4, <1>5 DEF Link!Backend, Link!Saving

LEMMA SessionKept == ASSUME SessionOfOneFlow, [Link!Next]_(Link!hvars) PROVE SessionOfOneFlow'
<1>1. CASE UNCHANGED <<side, flows, session>>
  BY <1>1 DEF SessionOfOneFlow
<1>2. CASE Link!Start
  BY <1>2 DEF Link!Start, SessionOfOneFlow
<1>3. CASE Link!StartOnServer
  BY <1>3 DEF Link!StartOnServer, SessionOfOneFlow
<1>4. ASSUME NEW c \in BackendCalls, NEW i \in 1..flows, NEW agreed \in BOOLEAN, Link!Callback(c, i, agreed)
      PROVE  SessionOfOneFlow'
  <2>1. UNCHANGED <<side, flows>>
    BY <1>4 DEF Link!Callback, Link!SendsCode
  <2>2. CASE side = "server"
    <3>1. session' = session \/ session' = [session EXCEPT !.state = 0]
      BY <1>4, <2>2 DEF Link!Callback
    <3> QED BY <2>1, <2>2, <3>1 DEF SessionOfOneFlow
  <2>3. CASE side # "server"
    <3>1. session' = Link!NoSession
      BY <1>4, <2>3 DEF Link!Callback
    <3> QED BY <2>1, <3>1 DEF SessionOfOneFlow, Link!NoSession
  <2> QED BY <2>2, <2>3
<1>5. ASSUME NEW c \in BackendCalls, Link!Backend(c) PROVE SessionOfOneFlow'
  <2>1. UNCHANGED <<side, flows>> /\ session' \in {session, Link!ClearSession}
    BY <1>5, BackendLeaves
  <2>3. CASE session' = session
    BY <2>1, <2>3 DEF SessionOfOneFlow
  <2>4. CASE session' = Link!ClearSession
    <3>1. flows' \in Nat
      BY <2>1 DEF SessionOfOneFlow
    <3> QED BY <2>1, <2>4, <3>1, SessionCleared
  <2> QED BY <2>1, <2>3, <2>4
<1> QED BY <1>1, <1>2, <1>3, <1>4, <1>5
        DEF Link!Next, Link!Tab, Link!hvars, Link!Return, Link!Unload, Link!Leave, Link!ForgetVerifier

(* Only Callback sends a code, and only when the session is of its flow.       *)
LEMMA VerifierKept == ASSUME SessionOfOneFlow, Link!VerifierOfItsCode, [Link!Next]_(Link!hvars)
                      PROVE  Link!VerifierOfItsCode'
<1>1. ASSUME NEW c \in BackendCalls, NEW i \in 1..flows, NEW agreed \in BOOLEAN, Link!Callback(c, i, agreed)
      PROVE  Link!VerifierOfItsCode'
  <2>1. PICK verifier : verifier = CASE ~(agreed /\ session.state = i) -> 0
                                     [] side = "server" -> i
                                     [] OTHER           -> session.verifier
    OBVIOUS
  <2>2. verifier \in {0, i}
    BY <2>1 DEF SessionOfOneFlow
  <2>3. Link!SendsCode(c, i, verifier)
    BY <1>1, <2>1, Zenon DEF Link!Callback
  <2>4. exchanged' \subseteq exchanged \cup {[code |-> i, verifier |-> i]}
    BY <2>2, <2>3 DEF Link!SendsCode
  <2> QED BY <2>4 DEF Link!VerifierOfItsCode
<1>2. CASE UNCHANGED exchanged
  BY <1>2 DEF Link!VerifierOfItsCode
<1> QED BY <1>1, <1>2, BackendLeaves
        DEF Link!Next, Link!Tab, Link!hvars, Link!Start, Link!StartOnServer, Link!Return, Link!Unload, Link!Leave,
            Link!ForgetVerifier

(* In any number of flows, started, given up, reloaded and finished in any     *)
(* order, a code goes to HuggingFace with the verifier of its own flow or not  *)
(* at all.                                                                     *)
THEOREM VerifierSent == Link!Spec => []Link!VerifierOfItsCode
<1>1. LinkInv /\ [Link!Next]_(Link!hvars) => LinkInv'
  BY SessionKept, VerifierKept DEF LinkInv
<1> QED BY <1>1, LinkInit, PTL DEF Link!Spec, LinkInv

-----------------------------------------------------------------------------
(* Saving the token, among any number of requests that save and remove the     *)
(* same secrets.  What is known of the page: where its save has written, its   *)
(* token is still there unless somebody wrote since.  And of a request: the    *)
(* namespace it is at exists; and the save the page waits for has written      *)
(* every namespace it has passed, as long as nothing failed.                   *)
Listed == TargetNamespaces \in Seq(Link!Namespaces)

Places == [Link!Namespaces -> [there : BOOLEAN, token : Nat]]

PageOK(p, s) ==
  /\ p \in [shown : {"settings", "away", "processing", "success", "error"}, flow : Nat,
            written : SUBSET Link!Namespaces, overtaken : SUBSET Link!Namespaces]
  /\ p.overtaken \subseteq p.written
  /\ \A n \in p.written : s[n].token = p.flow \/ n \in p.overtaken
  /\ p.shown = "success" => \A n \in Link!Namespaces : s[n].there = TRUE /\ n \in p.written

LoopPlaces == {"namespace", "read", "replace", "create"}
CallPlaces == LoopPlaces \cup {"free", "exchange", "validate", "drop"}
CallTypes == [pc : CallPlaces, flow : Nat, at : Nat, failed : BOOLEAN, heard : {"page", "script", "nobody"}]

CallOK(w, p, s) ==
  /\ w \in CallTypes
  /\ w.pc \in LoopPlaces \cup {"drop"} => w.at \in 1..(Len(TargetNamespaces) + 1)
  /\ w.pc \in LoopPlaces \ {"namespace"} =>
       w.at <= Len(TargetNamespaces) /\ s[TargetNamespaces[w.at]].there = TRUE
  /\ w.heard = "page" => /\ p.shown = "processing" /\ w.flow = p.flow
                         /\ w.pc \in LoopPlaces \cup {"exchange", "validate"}
  /\ w.heard = "page" /\ w.pc \in LoopPlaces /\ w.failed = FALSE =>
       \A k \in 1..(w.at - 1) : s[TargetNamespaces[k]].there = TRUE /\ TargetNamespaces[k] \in p.written

SaveInv ==
  /\ Listed /\ MaxFlows \in Nat /\ flows \in Nat
  /\ secrets \in Places
  /\ work = [c \in BackendCalls |-> work[c]]
  /\ PageOK(page, secrets)
  /\ \A c \in BackendCalls : CallOK(work[c], page, secrets)
  /\ \A c, d \in BackendCalls : work[c].heard = "page" /\ work[d].heard = "page" => c = d

(* The namespace the loop is at is one of those the secrets are kept in.       *)
LEMMA HereIsOne == ASSUME Listed, NEW k \in 1..Len(TargetNamespaces)
                   PROVE  TargetNamespaces[k] \in Link!Namespaces
  BY DEF Listed, Link!Namespaces

LEMMA FreeIsOK == ASSUME NEW p, NEW s
                  PROVE  CallOK(Link!Free, p, s) /\ Link!Free.heard = "nobody" /\ Link!Free.pc = "free"
<1>1. PICK w : w = Link!Free
  OBVIOUS
<1>2. /\ w = [pc |-> "free", flow |-> 0, at |-> 0, failed |-> FALSE, heard |-> "nobody"]
      /\ w \in CallTypes /\ w.pc = "free" /\ w.heard = "nobody"
  BY <1>1 DEF Link!Free, CallTypes, CallPlaces
<1>3. CallOK(w, p, s)
  BY <1>2 DEF CallOK, LoopPlaces
<1> QED BY <1>1, <1>2, <1>3

LEMMA FreshIsOK == ASSUME NEW says \in {"settings", "away", "processing", "error"}, NEW i \in Nat, NEW s
                   PROVE  /\ PageOK(Link!Fresh(says, i), s)
                          /\ Link!Fresh(says, i).shown = says /\ Link!Fresh(says, i).flow = i
<1>1. PICK p : p = Link!Fresh(says, i)
  OBVIOUS
<1>2. p = [shown |-> says, flow |-> i, written |-> {}, overtaken |-> {}]
  BY <1>1 DEF Link!Fresh
<1>3. PageOK(p, s)
  BY <1>2 DEF PageOK
<1> QED BY <1>1, <1>2, <1>3

LEMMA SaveInit == ASSUME Listed, MaxFlows \in Nat, Link!Init PROVE SaveInv
<1>1. secrets \in Places
  <2>1. secrets = [n \in Link!Namespaces |-> [there |-> n \in Existing, token |-> 0]]
    BY DEF Link!Init
  <2>2. \A n \in Link!Namespaces : [there |-> n \in Existing, token |-> 0] \in [there : BOOLEAN, token : Nat]
    OBVIOUS
  <2> QED BY <2>1, <2>2 DEF Places
<1>2. PageOK(page, secrets)
  BY FreshIsOK DEF Link!Init
<1>3. work = [c \in BackendCalls |-> Link!Free]
  BY DEF Link!Init
<1>4. \A c \in BackendCalls : CallOK(work[c], page, secrets) /\ work[c].heard = "nobody"
  BY <1>3, FreeIsOK
<1> QED BY <1>1, <1>2, <1>3, <1>4 DEF SaveInv, Link!Init

(* Namespaces stay; and a request is as good as it was when they do, and when  *)
(* the page it is heard by goes on waiting.                                    *)
Grown(s, t) == \A n \in Link!Namespaces : s[n].there = TRUE => t[n].there = TRUE

LEMMA StillOK ==
  ASSUME Listed, NEW w, NEW p, NEW s, NEW q, NEW t, CallOK(w, p, s), Grown(s, t),
         w.heard = "page" => q.shown = p.shown /\ q.flow = p.flow /\ p.written \subseteq q.written
  PROVE  CallOK(w, q, t)
<1>1. Len(TargetNamespaces) \in Nat /\ w \in CallTypes /\ w.at \in Nat
  BY DEF Listed, CallOK, CallTypes
<1>2. \A k \in 1..Len(TargetNamespaces) :
        s[TargetNamespaces[k]].there = TRUE => t[TargetNamespaces[k]].there = TRUE
  BY HereIsOne DEF Grown
<1>3. w.pc \in LoopPlaces \ {"namespace"} =>
        w.at <= Len(TargetNamespaces) /\ t[TargetNamespaces[w.at]].there = TRUE
  BY <1>1, <1>2 DEF CallOK
<1>4. ASSUME w.heard = "page", w.pc \in LoopPlaces, w.failed = FALSE, NEW k \in 1..(w.at - 1)
      PROVE  t[TargetNamespaces[k]].there = TRUE /\ TargetNamespaces[k] \in q.written
  <2>1. w.at \in 1..(Len(TargetNamespaces) + 1)
    BY <1>4 DEF CallOK
  <2>2. k \in 1..Len(TargetNamespaces)
    BY <1>1, <1>4, <2>1
  <2>3. s[TargetNamespaces[k]].there = TRUE /\ TargetNamespaces[k] \in p.written
    BY <1>4 DEF CallOK
  <2> QED BY <1>2, <1>4, <2>2, <2>3
<1> QED BY <1>1, <1>3, <1>4 DEF CallOK

(* A request of the loop goes on in the same namespace, or in the next.        *)
LEMMA PcMoves ==
  ASSUME Listed, NEW w, NEW p, NEW s, CallOK(w, p, s), w.pc \in LoopPlaces, w.at <= Len(TargetNamespaces),
         s[TargetNamespaces[w.at]].there = TRUE, NEW pc \in LoopPlaces
  PROVE  CallOK([w EXCEPT !.pc = pc], p, s) /\ [w EXCEPT !.pc = pc].heard = w.heard
<1>1. PICK new : new = [w EXCEPT !.pc = pc]
  OBVIOUS
<1>2. new \in CallTypes /\ new.pc = pc /\ new.at = w.at /\ new.flow = w.flow
      /\ new.failed = w.failed /\ new.heard = w.heard
  BY <1>1 DEF CallOK, CallTypes, CallPlaces
<1>3. CallOK(new, p, s)
  BY <1>2 DEF CallOK
<1> QED BY <1>1, <1>2, <1>3

LEMMA OnMoves ==
  ASSUME Listed, NEW w, NEW p, NEW s, CallOK(w, p, s), w.pc \in LoopPlaces, w.at <= Len(TargetNamespaces),
         NEW failed \in BOOLEAN,
         w.heard = "page" /\ failed = FALSE =>
           s[TargetNamespaces[w.at]].there = TRUE /\ TargetNamespaces[w.at] \in p.written
  PROVE  CallOK(Link!On(w, failed), p, s) /\ Link!On(w, failed).heard = w.heard
<1>1. PICK new : new = Link!On(w, failed)
  OBVIOUS
<1>2. PICK t \in BOOLEAN : t = (w.failed \/ failed)
  OBVIOUS
<1>3. new = [w EXCEPT !.pc = "namespace", !.at = w.at + 1, !.failed = t]
  BY <1>1, <1>2, Zenon DEF Link!On
<1>4. w \in CallTypes /\ w.at \in 1..(Len(TargetNamespaces) + 1) /\ Len(TargetNamespaces) \in Nat
  BY DEF CallOK, Listed
<1>5. new \in CallTypes /\ new.pc = "namespace" /\ new.at = w.at + 1 /\ new.flow = w.flow
      /\ new.failed = t /\ new.heard = w.heard
  <2>1. "namespace" \in CallPlaces /\ w.at + 1 \in Nat
    BY <1>4 DEF CallPlaces, LoopPlaces
  <2>2. w = [pc |-> w.pc, flow |-> w.flow, at |-> w.at, failed |-> w.failed, heard |-> w.heard]
    BY <1>4 DEF CallTypes
  <2>3. new = [pc |-> "namespace", flow |-> w.flow, at |-> w.at + 1, failed |-> t, heard |-> w.heard]
    BY <1>3, <2>2
  <2> QED BY <1>4, <2>1, <2>3 DEF CallTypes
<1>6. new.at \in 1..(Len(TargetNamespaces) + 1)
  BY <1>4, <1>5
<1>7. ASSUME new.heard = "page", new.failed = FALSE, NEW k \in 1..(new.at - 1)
      PROVE  s[TargetNamespaces[k]].there = TRUE /\ TargetNamespaces[k] \in p.written
  <2>1. w.failed = FALSE /\ failed = FALSE /\ w.heard = "page"
    BY <1>2, <1>4, <1>5, <1>7 DEF CallTypes
  <2>2. k = w.at \/ k \in 1..(w.at - 1)
    BY <1>4, <1>5, <1>7
  <2> QED BY <2>1, <2>2 DEF CallOK
<1>8. new.heard = "page" => p.shown = "processing" /\ new.flow = p.flow
  BY <1>5 DEF CallOK
<1>9. CallOK(new, p, s)
  BY <1>5, <1>6, <1>7, <1>8 DEF CallOK, LoopPlaces
<1> QED BY <1>1, <1>5, <1>9

(* One request goes on, and everything is as good as it was.                   *)
LEMMA CallReplaced ==
  ASSUME SaveInv, NEW c \in BackendCalls, NEW new, Link!Goes(c, new), flows' \in Nat,
         secrets' \in Places, PageOK(page', secrets'), CallOK(new, page', secrets'),
         \A d \in BackendCalls : d # c => CallOK(work[d], page', secrets'),
         new.heard = "page" => \A d \in BackendCalls : d # c => work[d].heard # "page"
  PROVE  SaveInv'
<1>1. work' = [work EXCEPT ![c] = new] /\ work = [d \in BackendCalls |-> work[d]]
  BY DEF Link!Goes, SaveInv
<1>2. /\ work' = [d \in BackendCalls |-> work'[d]] /\ work'[c] = new
      /\ \A d \in BackendCalls : d # c => work'[d] = work[d]
  BY <1>1
<1>3. \A d \in BackendCalls : CallOK(work'[d], page', secrets')
  BY <1>2
<1>4. \A d, e \in BackendCalls : work'[d].heard = "page" /\ work'[e].heard = "page" => d = e
  BY <1>2 DEF SaveInv
<1> QED BY <1>2, <1>3, <1>4 DEF SaveInv

(* One request goes on and writes nothing; namespaces may have been created.   *)
LEMMA QuietStep ==
  ASSUME SaveInv, NEW c \in BackendCalls, NEW new, Link!Goes(c, new), page' = page, flows' = flows,
         secrets' \in Places, Grown(secrets, secrets'),
         \A n \in Link!Namespaces : secrets'[n].token = secrets[n].token,
         CallOK(new, page, secrets'), new.heard = "page" => work[c].heard = "page"
  PROVE  SaveInv'
<1>1. \A d \in BackendCalls : CallOK(work[d], page, secrets')
  BY StillOK DEF SaveInv
<1>2. PICK p : p = page
  OBVIOUS
<1>3. PageOK(p, secrets) /\ p.written \subseteq Link!Namespaces
  BY <1>2 DEF SaveInv, PageOK
<1>4. PageOK(p, secrets')
  BY <1>3 DEF PageOK, Grown
<1>5. PageOK(page', secrets') /\ CallOK(new, page', secrets')
  BY <1>2, <1>4
<1>6. new.heard = "page" => \A d \in BackendCalls : d # c => work[d].heard # "page"
  BY DEF SaveInv
<1>7. flows' \in Nat /\ \A d \in BackendCalls : d # c => CallOK(work[d], page', secrets')
  BY <1>1 DEF SaveInv
<1> QED BY <1>5, <1>6, <1>7, CallReplaced

(* A request that writes: its own page notes it as written, everybody else's   *)
(* as overtaken.                                                               *)
LEMMA PutsOK ==
  ASSUME SaveInv, NEW c \in BackendCalls, NEW n \in Link!Namespaces, NEW i \in Nat, Link!Puts(c, n, i),
         work[c].heard = "page" => i = page.flow
  PROVE  /\ secrets' \in Places /\ PageOK(page', secrets')
         /\ \A d \in BackendCalls : CallOK(work[d], page', secrets')
         /\ secrets'[n].there = secrets[n].there
         /\ work[c].heard = "page" => n \in page'.written
<1>1. secrets \in Places /\ PageOK(page, secrets) /\ Listed
  BY DEF SaveInv
<1>2. secrets' = [secrets EXCEPT ![n] = [there |-> secrets[n].there, token |-> i]]
  <2>1. [secrets[n] EXCEPT !.token = i] = [there |-> secrets[n].there, token |-> i]
    BY <1>1 DEF Places
  <2> QED BY <2>1 DEF Link!Puts
<1>3. /\ secrets' \in Places /\ secrets'[n].token = i /\ secrets'[n].there = secrets[n].there
      /\ \A m \in Link!Namespaces : secrets'[m].there = secrets[m].there
      /\ \A m \in Link!Namespaces : m # n => secrets'[m].token = secrets[m].token
  BY <1>1, <1>2 DEF Places
<1>4. Grown(secrets, secrets')
  BY <1>3 DEF Grown
<1>5. /\ page'.shown = page.shown /\ page'.flow = page.flow
      /\ page'.overtaken \subseteq Link!Namespaces /\ page'.written \subseteq Link!Namespaces
      /\ page.written \subseteq page'.written
      /\ page' \in [shown : {"settings", "away", "processing", "success", "error"}, flow : Nat,
                    written : SUBSET Link!Namespaces, overtaken : SUBSET Link!Namespaces]
      /\ work[c].heard = "page" => page'.written = page.written \cup {n} /\ page'.overtaken = page.overtaken \ {n}
      /\ work[c].heard # "page" => page'.written = page.written
                                   /\ page'.overtaken = page.overtaken \cup (page.written \cap {n})
  BY <1>1 DEF PageOK, Link!Puts
<1>6. PageOK(page', secrets')
  <2>1. page'.overtaken \subseteq page'.written
    BY <1>1, <1>5 DEF PageOK
  <2>2. ASSUME NEW m \in page'.written PROVE secrets'[m].token = page'.flow \/ m \in page'.overtaken
    <3>1. m \in Link!Namespaces
      BY <1>5
    <3>2. CASE m = n
      BY <1>3, <1>5, <3>2
    <3>3. CASE m # n
      <4>1. m \in page.written
        BY <1>5, <3>3
      <4> QED BY <1>1, <1>3, <1>5, <3>1, <3>3, <4>1 DEF PageOK
    <3> QED BY <3>2, <3>3
  <2>3. ASSUME page'.shown = "success", NEW m \in Link!Namespaces
        PROVE  secrets'[m].there = TRUE /\ m \in page'.written
    BY <1>1, <1>3, <1>5, <2>3 DEF PageOK
  <2>4. PICK p, s : p = page' /\ s = secrets'
    OBVIOUS
  <2>5. PageOK(p, s)
    BY <1>5, <2>1, <2>2, <2>3, <2>4 DEF PageOK
  <2> QED BY <2>4, <2>5
<1>7. \A d \in BackendCalls : CallOK(work[d], page', secrets')
  <2>1. PICK q, t : q = page' /\ t = secrets'
    OBVIOUS
  <2>2. ASSUME NEW d \in BackendCalls PROVE CallOK(work[d], q, t)
    <3>1. CallOK(work[d], page, secrets)
      BY DEF SaveInv
    <3>2. Grown(secrets, t) /\ q.shown = page.shown /\ q.flow = page.flow /\ page.written \subseteq q.written
      BY <1>4, <1>5, <2>1
    <3> QED BY <1>1, <3>1, <3>2, StillOK
  <2> QED BY <2>1, <2>2
<1> QED BY <1>3, <1>5, <1>6, <1>7

(* A step of the loop that writes, and goes on to the next namespace.          *)
LEMMA WrittenStep ==
  ASSUME SaveInv, NEW c \in BackendCalls, NEW failed \in BOOLEAN, work[c].pc \in LoopPlaces \ {"namespace"},
         Link!Goes(c, Link!On(work[c], failed)), Link!Puts(c, Link!Here(work[c]), work[c].flow), flows' = flows
  PROVE  SaveInv'
<1>1. PICK w, n : w = work[c] /\ n = TargetNamespaces[w.at]
  OBVIOUS
<1>2. /\ Listed /\ CallOK(w, page, secrets) /\ w.at <= Len(TargetNamespaces) /\ w.flow \in Nat
      /\ w.at \in 1..(Len(TargetNamespaces) + 1) /\ Len(TargetNamespaces) \in Nat
      /\ secrets[n].there = TRUE /\ (w.heard = "page" => w.flow = page.flow) /\ w.pc \in LoopPlaces
  BY <1>1 DEF SaveInv, CallOK, CallTypes, Listed
<1>3. n \in Link!Namespaces
  BY <1>1, <1>2, HereIsOne
<1>4. Link!Puts(c, n, w.flow)
  BY <1>1 DEF Link!Here
<1>5. /\ secrets' \in Places /\ PageOK(page', secrets')
      /\ \A d \in BackendCalls : CallOK(work[d], page', secrets')
      /\ secrets'[n].there = TRUE /\ (w.heard = "page" => n \in page'.written)
  <2>1. w.heard = "page" => w.flow = page.flow
    BY <1>2
  <2> QED BY <1>1, <1>2, <1>3, <1>4, <2>1, PutsOK
<1>6. PICK p, s : p = page' /\ s = secrets'
  OBVIOUS
<1>7. CallOK(Link!On(w, failed), p, s) /\ Link!On(w, failed).heard = w.heard
  <2>1. CallOK(w, p, s)
    BY <1>1, <1>5, <1>6
  <2>2. w.heard = "page" /\ failed = FALSE =>
          s[TargetNamespaces[w.at]].there = TRUE /\ TargetNamespaces[w.at] \in p.written
    BY <1>1, <1>5, <1>6
  <2> QED BY <1>2, <2>1, <2>2, OnMoves
<1>8. PICK new : new = Link!On(w, failed)
  OBVIOUS
<1>9. CallOK(new, page', secrets') /\ Link!Goes(c, new) /\ new.heard = w.heard /\ flows' \in Nat
  BY <1>1, <1>6, <1>7, <1>8 DEF SaveInv
<1>10. new.heard = "page" => \A d \in BackendCalls : d # c => work[d].heard # "page"
  BY <1>1, <1>9 DEF SaveInv
<1> QED BY <1>5, <1>9, <1>10, CallReplaced

(* A step of the loop that goes on to the next namespace and counts as failed, *)
(* or that stays in the namespace.                                             *)
LEMMA PassedStep ==
  ASSUME SaveInv, NEW c \in BackendCalls, work[c].pc \in LoopPlaces, work[c].at <= Len(TargetNamespaces),
         page' = page, flows' = flows, secrets' \in Places, Grown(secrets, secrets'),
         \A n \in Link!Namespaces : secrets'[n].token = secrets[n].token,
         \/ Link!Goes(c, Link!On(work[c], TRUE))
         \/ /\ secrets'[Link!Here(work[c])].there = TRUE
            /\ \E pc \in LoopPlaces : Link!Goes(c, [work[c] EXCEPT !.pc = pc])
  PROVE  SaveInv'
<1>1. PICK w, s : w = work[c] /\ s = secrets'
  OBVIOUS
<1>2. CallOK(w, page, s) /\ Listed
  <2>1. Listed /\ CallOK(w, page, secrets) /\ Grown(secrets, s)
    BY <1>1 DEF SaveInv
  <2> QED BY <2>1, StillOK
<1>3. CASE Link!Goes(c, Link!On(w, TRUE))
  <2>1. PICK new : new = Link!On(w, TRUE)
    OBVIOUS
  <2>2. CallOK(new, page, s) /\ new.heard = w.heard
    BY <1>1, <1>2, <2>1, OnMoves
  <2> QED BY <1>1, <1>3, <2>1, <2>2, QuietStep
<1>4. ASSUME NEW pc \in LoopPlaces, Link!Goes(c, [w EXCEPT !.pc = pc]), s[TargetNamespaces[w.at]].there = TRUE
      PROVE  SaveInv'
  <2>1. PICK new : new = [w EXCEPT !.pc = pc]
    OBVIOUS
  <2>2. CallOK(new, page, s) /\ new.heard = w.heard
    BY <1>1, <1>2, <1>4, <2>1, PcMoves
  <2> QED BY <1>1, <1>4, <2>1, <2>2, QuietStep
<1> QED BY <1>1, <1>3, <1>4 DEF Link!Here

LEMMA LoopKept ==
  ASSUME SaveInv, NEW c \in BackendCalls, NEW o, NEW works \in BOOLEAN,
         \/ Link!ReadSecret(c, works) \/ Link!EnsureNamespace(c, o)
         \/ Link!ReplaceSecret(c, o) \/ Link!CreateSecret(c, o)
  PROVE  SaveInv'
<1>1. PICK w, n : w = work[c] /\ n = TargetNamespaces[w.at]
  OBVIOUS
<1>2. /\ CallOK(w, page, secrets) /\ w \in CallTypes /\ Listed /\ secrets \in Places
      /\ Len(TargetNamespaces) \in Nat /\ n = Link!Here(w)
  BY <1>1 DEF SaveInv, CallOK, Listed, Link!Here
<1>3. w.pc \in LoopPlaces /\ w.at \in 1..Len(TargetNamespaces)
  <2>1. CASE Link!EnsureNamespace(c, o)
    BY <1>1, <1>2, <2>1 DEF Link!EnsureNamespace, Link!Ended, CallOK, LoopPlaces
  <2>2. CASE ~Link!EnsureNamespace(c, o)
    <3>1. w.pc \in LoopPlaces \ {"namespace"}
      BY <1>1, <2>2 DEF Link!ReadSecret, Link!ReplaceSecret, Link!CreateSecret, LoopPlaces
    <3> QED BY <1>2, <3>1 DEF CallOK
  <2> QED BY <2>1, <2>2
<1>4. n \in Link!Namespaces
  BY <1>1, <1>2, <1>3, HereIsOne
<1>5. w.at <= Len(TargetNamespaces) /\ flows' = flows
  <2>1. flows' = flows
    BY Zenon DEF Link!ReadSecret, Link!EnsureNamespace, Link!ReplaceSecret, Link!CreateSecret
  <2> QED BY <1>2, <1>3, <2>1
<1>6. ASSUME UNCHANGED <<secrets, page>>,
             \/ Link!Goes(c, Link!On(w, TRUE))
             \/ /\ w.pc # "namespace" /\ \E pc \in LoopPlaces : Link!Goes(c, [w EXCEPT !.pc = pc])
      PROVE  SaveInv'
  <2>1. w.pc # "namespace" => secrets[n].there = TRUE
    BY <1>1, <1>2, <1>3 DEF CallOK
  <2>2. Grown(secrets, secrets') /\ secrets' \in Places
        /\ \A m \in Link!Namespaces : secrets'[m].token = secrets[m].token
    BY <1>2, <1>6 DEF Grown
  <2>3. w.pc # "namespace" => secrets'[n].there = TRUE
    BY <1>6, <2>1
  <2> QED BY <1>1, <1>2, <1>3, <1>5, <1>6, <2>2, <2>3, PassedStep
<1>7. CASE Link!EnsureNamespace(c, o)
  <2>1. PICK t \in BOOLEAN : t = (secrets[n].there \/ Link!Acts(o))
    OBVIOUS
  <2>2. secrets' = [secrets EXCEPT ![n].there = @ \/ Link!Acts(o)]
    BY <1>1, <1>2, <1>7 DEF Link!EnsureNamespace
  <2>4. secrets[n] \in [there : BOOLEAN, token : Nat]
    BY <1>2, <1>4 DEF Places
  <2>5. secrets' = [secrets EXCEPT ![n] = [there |-> t, token |-> secrets[n].token]]
    <3>1. [secrets[n] EXCEPT !.there = t] = [there |-> t, token |-> secrets[n].token]
      BY <2>4
    <3>2. secrets' = [secrets EXCEPT ![n] = [secrets[n] EXCEPT !.there = (secrets[n].there \/ Link!Acts(o))]]
      BY <2>2
    <3> QED BY <2>1, <3>1, <3>2
  <2>6. (secrets[n].there = TRUE => t = TRUE) /\ (Link!Acts(o) => t = TRUE)
    BY <2>1, <2>4
  <2>7. /\ secrets' \in Places /\ Grown(secrets, secrets') /\ secrets'[n].there = t
        /\ \A m \in Link!Namespaces : secrets'[m].token = secrets[m].token
    BY <1>2, <1>4, <2>4, <2>5, <2>6 DEF Places, Grown
  <2>8. page' = page
    BY <1>7 DEF Link!EnsureNamespace
  <2>9. CASE o = "works"
    <3>1. Link!Goes(c, [w EXCEPT !.pc = "read"])
      BY <1>1, <1>7, <2>9, Zenon DEF Link!EnsureNamespace
    <3>2. secrets'[n].there = TRUE
      BY <2>6, <2>7, <2>9 DEF Link!Acts
    <3>3. "read" \in LoopPlaces
      BY DEF LoopPlaces
    <3> QED BY <1>1, <1>2, <1>3, <1>5, <2>7, <2>8, <3>1, <3>2, <3>3, PassedStep
  <2>10. CASE o # "works"
    <3>1. Link!Goes(c, Link!On(w, TRUE))
      BY <1>1, <1>7, <2>10, Zenon DEF Link!EnsureNamespace
    <3> QED BY <1>1, <1>2, <1>3, <1>5, <2>7, <2>8, <3>1, PassedStep
  <2> QED BY <2>9, <2>10
<1>8. CASE Link!ReadSecret(c, works)
  <2>1. PICK pc \in LoopPlaces : pc = IF secrets[n].token # 0 THEN "replace" ELSE "create"
    BY DEF LoopPlaces
  <2>2. Link!Goes(c, IF ~works THEN Link!On(w, TRUE) ELSE [w EXCEPT !.pc = pc])
    BY <1>1, <1>2, <1>8, <2>1, Zenon DEF Link!ReadSecret
  <2>3. Link!Goes(c, Link!On(w, TRUE)) \/ Link!Goes(c, [w EXCEPT !.pc = pc])
    BY <2>2, Zenon
  <2>4. w.pc # "namespace" /\ UNCHANGED <<secrets, page>>
    BY <1>1, <1>8 DEF Link!ReadSecret
  <2> QED BY <1>6, <2>3, <2>4
<1>9. CASE Link!ReplaceSecret(c, o)
  <2>1. w.pc = "replace"
    BY <1>1, <1>9 DEF Link!ReplaceSecret
  <2>2. CASE Link!Acts(o) /\ secrets[n].token # 0
    <3>1. PICK failed \in BOOLEAN : failed = (o # "works")
      OBVIOUS
    <3>2. Link!Puts(c, n, w.flow)
      BY <1>1, <1>2, <1>9, <2>2, Zenon DEF Link!ReplaceSecret
    <3>3. Link!Goes(c, Link!On(w, o # "works"))
      BY <1>1, <1>2, <1>9, <2>2, Zenon DEF Link!ReplaceSecret
    <3>4. Link!Goes(c, Link!On(w, failed))
      BY <3>1, <3>3, Zenon
    <3> QED BY <1>1, <1>2, <1>5, <2>1, <3>2, <3>4, WrittenStep DEF LoopPlaces
  <2>3. CASE ~(Link!Acts(o) /\ secrets[n].token # 0)
    <3>1. UNCHANGED <<secrets, page>>
      BY <1>1, <1>2, <1>9, <2>3, Zenon DEF Link!ReplaceSecret
    <3>2. CASE o = "works"
      <4>1. Link!Goes(c, [w EXCEPT !.pc = "create"])
        <5>1. ~(secrets[n].token # 0)
          BY <2>3, <3>2 DEF Link!Acts
        <5> QED BY <1>1, <1>2, <1>9, <3>2, <5>1, Zenon DEF Link!ReplaceSecret
      <4>2. "create" \in LoopPlaces
        BY DEF LoopPlaces
      <4> QED BY <1>6, <2>1, <3>1, <4>1, <4>2
    <3>3. CASE o # "works"
      <4>1. Link!Goes(c, Link!On(w, o # "works"))
        BY <1>1, <1>2, <1>9, <3>3, Zenon DEF Link!ReplaceSecret
      <4>2. (o # "works") = TRUE
        BY <3>3
      <4>3. Link!Goes(c, Link!On(w, TRUE))
        BY <4>1, <4>2, Zenon
      <4> QED BY <1>6, <3>1, <4>3
    <3> QED BY <3>2, <3>3
  <2> QED BY <2>2, <2>3
<1>10. CASE Link!CreateSecret(c, o)
  <2>1. w.pc = "create"
    BY <1>1, <1>10 DEF Link!CreateSecret
  <2>2. PICK failed \in BOOLEAN : failed = Link!CreateFails(o, secrets[n].token = 0)
    BY DEF Link!CreateFails
  <2>3. Link!Goes(c, Link!On(w, failed))
    BY <1>1, <1>2, <1>10, <2>2, Zenon DEF Link!CreateSecret
  <2>4. CASE Link!Acts(o) /\ secrets[n].token = 0
    <3>1. Link!Puts(c, n, w.flow)
      BY <1>1, <1>2, <1>10, <2>4, Zenon DEF Link!CreateSecret
    <3> QED BY <1>1, <1>2, <1>5, <2>1, <2>3, <3>1, WrittenStep DEF LoopPlaces
  <2>5. CASE ~(Link!Acts(o) /\ secrets[n].token = 0)
    <3>1. UNCHANGED <<secrets, page>>
      BY <1>1, <1>2, <1>10, <2>5, Zenon DEF Link!CreateSecret
    <3>2. failed = TRUE
      BY <2>2, <2>5 DEF Link!Acts, Link!CreateFails
    <3> QED BY <1>6, <2>3, <3>1, <3>2
  <2> QED BY <2>4, <2>5
<1> QED BY <1>7, <1>8, <1>9, <1>10

(* A request is over; the page that waited for it, and no other, says so.      *)
LEMMA CallEnds ==
  ASSUME SaveInv, NEW c \in BackendCalls, Link!Goes(c, Link!Free), secrets' = secrets, flows' = flows,
         PageOK(page', secrets), page' = page \/ work[c].heard = "page"
  PROVE  SaveInv'
<1>1. PICK new, q : new = Link!Free /\ q = page'
  OBVIOUS
<1>2. CallOK(new, q, secrets) /\ new.heard = "nobody"
  BY <1>1, FreeIsOK
<1>3. ASSUME NEW d \in BackendCalls, d # c PROVE CallOK(work[d], q, secrets)
  <2>1. CallOK(work[d], page, secrets) /\ Listed /\ Grown(secrets, secrets)
    BY DEF SaveInv, Grown
  <2>2. CASE q = page
    BY <2>1, <2>2
  <2>3. CASE work[c].heard = "page"
    <3>1. work[d].heard # "page"
      BY <1>3, <2>3 DEF SaveInv
    <3> QED BY <2>1, <3>1, StillOK
  <2> QED BY <1>1, <2>2, <2>3
<1>4. /\ Link!Goes(c, new) /\ secrets' \in Places /\ PageOK(page', secrets')
      /\ CallOK(new, page', secrets') /\ flows' \in Nat /\ new.heard # "page"
      /\ \A d \in BackendCalls : d # c => CallOK(work[d], page', secrets')
  BY <1>1, <1>2, <1>3 DEF SaveInv
<1> QED BY <1>4, CallReplaced

(* The page goes from waiting to what came of it.                              *)
LEMMA PageSays ==
  ASSUME SaveInv, NEW says \in {"error", "success"},
         says = "success" => \A n \in Link!Namespaces : secrets[n].there = TRUE /\ n \in page.written
  PROVE  PageOK([page EXCEPT !.shown = says], secrets)
<1>1. PageOK(page, secrets)
  BY DEF SaveInv
<1>2. PICK p : p = [page EXCEPT !.shown = says]
  OBVIOUS
<1>3. /\ p \in [shown : {"settings", "away", "processing", "success", "error"}, flow : Nat,
                written : SUBSET Link!Namespaces, overtaken : SUBSET Link!Namespaces]
      /\ p.shown = says /\ p.flow = page.flow /\ p.written = page.written /\ p.overtaken = page.overtaken
  BY <1>1, <1>2 DEF PageOK
<1>4. PageOK(p, secrets)
  BY <1>1, <1>3 DEF PageOK
<1> QED BY <1>2, <1>4

LEMMA FailKept ==
  ASSUME SaveInv, NEW c \in BackendCalls, Link!Fails(c), secrets' = secrets, flows' = flows
  PROVE  SaveInv'
<1>1. Link!Goes(c, Link!Free)
  BY DEF Link!Fails
<1>2. PageOK([page EXCEPT !.shown = "error"], secrets) /\ PageOK(page, secrets)
  BY PageSays DEF SaveInv
<1>3. page' = page \/ (work[c].heard = "page" /\ page' = [page EXCEPT !.shown = "error"])
  BY DEF Link!Fails
<1>4. PageOK(page', secrets)
  BY <1>2, <1>3
<1> QED BY <1>1, <1>3, <1>4, CallEnds

LEMMA AnswerSaveKept ==
  ASSUME SaveInv, NEW c \in BackendCalls, Link!SaveAnswers(c)
  PROVE  SaveInv'
<1>1. PICK w : w = work[c]
  OBVIOUS
<1>2. /\ w.pc = "namespace" /\ w.at > Len(TargetNamespaces) /\ CallOK(w, page, secrets) /\ Listed
      /\ UNCHANGED <<flows, secrets>> /\ Link!Goes(c, Link!Free) /\ PageOK(page, secrets)
  BY <1>1 DEF Link!SaveAnswers, Link!Ended, SaveInv
<1>3. CASE w.heard # "page"
  <2>1. page' = page
    BY <1>1, <1>3 DEF Link!SaveAnswers
  <2> QED BY <1>2, <2>1, CallEnds
<1>4. CASE w.heard = "page"
  <2>1. PICK says \in {"error", "success"} : says = IF w.failed THEN "error" ELSE "success"
    OBVIOUS
  <2>2. page' = [page EXCEPT !.shown = says]
    BY <1>1, <1>4, <2>1, Zenon DEF Link!SaveAnswers
  <2>3. ASSUME says = "success", NEW n \in Link!Namespaces
        PROVE  secrets[n].there = TRUE /\ n \in page.written
    <3>1. PICK k \in DOMAIN TargetNamespaces : TargetNamespaces[k] = n
      BY DEF Link!Namespaces
    <3>2. w.failed = FALSE
      BY <1>2, <2>1, <2>3 DEF CallOK, CallTypes
    <3>3. k \in 1..(w.at - 1)
      BY <1>2, <3>1 DEF Listed, CallOK, LoopPlaces
    <3> QED BY <1>2, <1>4, <3>1, <3>2, <3>3 DEF CallOK, LoopPlaces
  <2>4. PageOK([page EXCEPT !.shown = says], secrets)
    BY <2>3, PageSays
  <2> QED BY <1>1, <1>2, <1>4, <2>2, <2>4, CallEnds
<1> QED BY <1>3, <1>4

LEMMA LoopIsOK ==
  ASSUME Listed, NEW w, NEW p, NEW s, w \in CallTypes, NEW pc \in {"namespace", "drop"},
         w.heard = "page" => pc = "namespace" /\ p.shown = "processing" /\ w.flow = p.flow
  PROVE  CallOK(Link!Loop(w, pc), p, s) /\ Link!Loop(w, pc).heard = w.heard
<1>1. PICK new : new = Link!Loop(w, pc)
  OBVIOUS
<1>2. /\ new \in CallTypes /\ new.pc = pc /\ new.at = 1 /\ new.flow = w.flow /\ new.heard = w.heard
  BY <1>1 DEF Link!Loop, CallTypes, CallPlaces, LoopPlaces
<1>3. 1 \in 1..(Len(TargetNamespaces) + 1) /\ 1..(new.at - 1) = {}
  BY <1>2 DEF Listed
<1>4. CallOK(new, p, s)
  BY <1>2, <1>3 DEF CallOK, LoopPlaces
<1> QED BY <1>1, <1>2, <1>4

LEMMA SecretsStay == ASSUME SaveInv, secrets' = secrets
                     PROVE  /\ secrets' \in Places /\ Grown(secrets, secrets')
                            /\ \A n \in Link!Namespaces : secrets'[n].token = secrets[n].token
  BY DEF SaveInv, Grown

LEMMA ExchangeKept ==
  ASSUME SaveInv, NEW c \in BackendCalls, NEW works, NEW named, Link!Exchange(c, works, named)
  PROVE  SaveInv'
<1>1. PICK w : w = work[c]
  OBVIOUS
<1>2. w.pc = "exchange" /\ UNCHANGED <<flows, secrets>> /\ CallOK(w, page, secrets)
  BY <1>1 DEF Link!Exchange, SaveInv
<1>3. \/ Link!Fails(c)
      \/ page' = page /\ (Link!Goes(c, [w EXCEPT !.pc = "validate"]) \/ Link!Goes(c, Link!Free))
  BY <1>1, Zenon DEF Link!Exchange
<1>4. CASE Link!Fails(c)
  BY <1>2, <1>4, FailKept
<1>5. CASE page' = page /\ Link!Goes(c, [w EXCEPT !.pc = "validate"])
  <2>1. PICK new : new = [w EXCEPT !.pc = "validate"]
    OBVIOUS
  <2>2. /\ new \in CallTypes /\ new.pc = "validate" /\ new.at = w.at /\ new.flow = w.flow
        /\ new.heard = w.heard
    BY <1>2, <2>1 DEF CallOK, CallTypes, CallPlaces
  <2>3. CallOK(new, page, secrets')
    BY <1>2, <2>2 DEF CallOK, LoopPlaces
  <2> QED BY <1>1, <1>2, <1>5, <2>1, <2>2, <2>3, SecretsStay, QuietStep
<1>6. CASE page' = page /\ Link!Goes(c, Link!Free)
  BY <1>2, <1>6, CallEnds DEF SaveInv
<1> QED BY <1>3, <1>4, <1>5, <1>6

LEMMA ValidateKept ==
  ASSUME SaveInv, NEW c \in BackendCalls, NEW valid, Link!Validate(c, valid)
  PROVE  SaveInv'
<1>1. PICK w : w = work[c]
  OBVIOUS
<1>2. w.pc = "validate" /\ UNCHANGED <<flows, secrets>> /\ CallOK(w, page, secrets) /\ Listed
  BY <1>1 DEF Link!Validate, SaveInv
<1>3. CASE Link!Fails(c)
  BY <1>2, <1>3, FailKept
<1>4. CASE page' = page /\ Link!Goes(c, Link!Loop(w, "namespace"))
  <2>1. CallOK(Link!Loop(w, "namespace"), page, secrets) /\ Link!Loop(w, "namespace").heard = w.heard
    <3>1. w \in CallTypes /\ (w.heard = "page" => page.shown = "processing" /\ w.flow = page.flow)
      BY <1>2 DEF CallOK
    <3> QED BY <1>2, <3>1, LoopIsOK
  <2>2. PICK new : new = Link!Loop(w, "namespace")
    OBVIOUS
  <2>3. CallOK(new, page, secrets') /\ new.heard = w.heard
    BY <1>2, <2>1, <2>2
  <2> QED BY <1>1, <1>2, <1>4, <2>2, <2>3, SecretsStay, QuietStep
<1> QED BY <1>1, <1>3, <1>4, Zenon DEF Link!Validate

(* A request that no page waits for begins.                                    *)
LEMMA BesideBegins ==
  ASSUME SaveInv, NEW c \in BackendCalls, NEW w \in CallTypes, w.heard # "page", NEW pc \in {"namespace", "drop"},
         Link!Goes(c, Link!Loop(w, pc)), UNCHANGED <<flows, page, secrets>>
  PROVE  SaveInv'
<1>1. CallOK(Link!Loop(w, pc), page, secrets) /\ Link!Loop(w, pc).heard = w.heard
  BY LoopIsOK DEF SaveInv
<1>2. PICK new : new = Link!Loop(w, pc)
  OBVIOUS
<1>3. CallOK(new, page, secrets') /\ new.heard # "page" /\ Link!Goes(c, new)
  BY <1>1, <1>2
<1> QED BY <1>3, SecretsStay, QuietStep

LEMMA FreeType ==
  ASSUME MaxFlows \in Nat
  PROVE  /\ [Link!Free EXCEPT !.flow = Link!Foreign] \in CallTypes
         /\ [Link!Free EXCEPT !.flow = Link!Foreign].heard = "nobody"
         /\ [Link!Free EXCEPT !.flow = Link!Foreign].flow = Link!Foreign
         /\ \A h \in {"script", "nobody"} : /\ [Link!Free EXCEPT !.heard = h] \in CallTypes
                                            /\ [Link!Free EXCEPT !.heard = h].heard = h
                                            /\ [Link!Free EXCEPT !.heard = h].flow = 0
<1>1. Link!Free = [pc |-> "free", flow |-> 0, at |-> 0, failed |-> FALSE, heard |-> "nobody"]
      /\ Link!Foreign \in Nat
  BY DEF Link!Free, Link!Foreign
<1>2. Link!Free \in CallTypes
  BY <1>1 DEF CallTypes, CallPlaces
<1> QED BY <1>1, <1>2 DEF CallTypes

LEMMA OthersBeginKept ==
  ASSUME SaveInv, NEW c \in BackendCalls,
         Link!SaveOther(c) \/ \E ours \in BOOLEAN : Link!Disconnect(c, ours)
  PROVE  SaveInv'
<1>1. MaxFlows \in Nat
  BY DEF SaveInv
<1>2. CASE Link!SaveOther(c)
  <2>1. PICK w : w = [Link!Free EXCEPT !.flow = Link!Foreign]
    OBVIOUS
  <2>2. w \in CallTypes /\ w.heard = "nobody"
    BY <1>1, <2>1, FreeType
  <2>3. Link!Goes(c, Link!Loop(w, "namespace")) /\ UNCHANGED <<flows, page, secrets>>
    BY <1>2, <2>1, Zenon DEF Link!SaveOther
  <2> QED BY <2>2, <2>3, BesideBegins
<1>3. ASSUME NEW ours \in BOOLEAN, Link!Disconnect(c, ours) PROVE SaveInv'
  <2>1. PICK h \in {"script", "nobody"} : h = IF ours THEN "script" ELSE "nobody"
    OBVIOUS
  <2>2. PICK w : w = [Link!Free EXCEPT !.heard = h]
    OBVIOUS
  <2>3. w \in CallTypes /\ w.heard = h
    BY <1>1, <2>2, FreeType
  <2>4. Link!Goes(c, Link!Loop(w, "drop")) /\ UNCHANGED <<flows, page, secrets>>
    BY <1>3, <2>1, <2>2, Zenon DEF Link!Disconnect
  <2> QED BY <2>3, <2>4, BesideBegins
<1> QED BY <1>2, <1>3

LEMMA DropKept ==
  ASSUME SaveInv, NEW c \in BackendCalls, NEW o, Link!DeleteSecret(c, o)
  PROVE  SaveInv'
<1>1. PICK w, n : w = work[c] /\ n = TargetNamespaces[w.at]
  OBVIOUS
<1>2. /\ w.pc = "drop" /\ CallOK(w, page, secrets) /\ w \in CallTypes /\ Listed /\ flows' = flows
      /\ w.at \in 1..Len(TargetNamespaces) /\ Len(TargetNamespaces) \in Nat /\ w.heard # "page"
  BY <1>1 DEF Link!DeleteSecret, Link!Ended, SaveInv, CallOK, Listed, LoopPlaces
<1>3. n \in Link!Namespaces
  BY <1>1, <1>2, HereIsOne
<1>4. PICK new : new = [w EXCEPT !.at = @ + 1]
  OBVIOUS
<1>5. new \in CallTypes /\ new.pc = "drop" /\ new.at = w.at + 1 /\ new.heard = w.heard
  BY <1>2, <1>4 DEF CallTypes
<1>6. \A p, s : CallOK(new, p, s)
  BY <1>2, <1>5 DEF CallOK, LoopPlaces
<1>7. Link!Goes(c, new)
  BY <1>1, <1>4, Zenon DEF Link!DeleteSecret
<1>8. CASE UNCHANGED <<secrets, page>>
  BY <1>2, <1>5, <1>6, <1>7, <1>8, SecretsStay, QuietStep
<1>9. CASE Link!Puts(c, n, 0)
  <2>1. /\ secrets' \in Places /\ PageOK(page', secrets')
        /\ \A d \in BackendCalls : CallOK(work[d], page', secrets')
    BY <1>1, <1>2, <1>3, <1>9, PutsOK
  <2>2. CallOK(new, page', secrets') /\ flows' \in Nat
    BY <1>2, <1>6 DEF SaveInv
  <2> QED BY <1>2, <1>5, <1>7, <2>1, <2>2, CallReplaced
<1> QED BY <1>1, <1>8, <1>9, Zenon DEF Link!DeleteSecret, Link!Here

(* The page is left: what it waited for goes on without it.                    *)
LEMMA HeardNoMore ==
  ASSUME NEW w, NEW p, NEW s, NEW q, NEW h \in {"script", "nobody"}, CallOK(w, p, s)
  PROVE  CallOK([w EXCEPT !.heard = h], q, s) /\ [w EXCEPT !.heard = h].heard = h
<1>1. PICK new : new = [w EXCEPT !.heard = h]
  OBVIOUS
<1>2. /\ new \in CallTypes /\ new.pc = w.pc /\ new.at = w.at /\ new.flow = w.flow
      /\ new.failed = w.failed /\ new.heard = h /\ h # "page"
  BY <1>1 DEF CallOK, CallTypes
<1>3. CallOK(new, q, s)
  BY <1>2 DEF CallOK
<1> QED BY <1>1, <1>2, <1>3

LEMMA PageLeft ==
  ASSUME SaveInv, NEW says \in {"settings", "away"}, page' = Link!Fresh(says, 0), secrets' = secrets,
         flows' \in Nat, work' = [c \in BackendCalls |-> work'[c]],
         \A c \in BackendCalls :
           \/ work'[c] = work[c] /\ work[c].heard # "page"
           \/ \E h \in {"script", "nobody"} : work'[c] = [work[c] EXCEPT !.heard = h]
  PROVE  SaveInv'
<1>1. PICK q : q = page'
  OBVIOUS
<1>2. PageOK(Link!Fresh(says, 0), secrets)
  BY FreshIsOK
<1>3. ASSUME NEW c \in BackendCalls
      PROVE  CallOK(work'[c], q, secrets) /\ work'[c].heard # "page"
  <2>1. CallOK(work[c], page, secrets) /\ Listed /\ Grown(secrets, secrets)
    BY DEF SaveInv, Grown
  <2>2. CASE work'[c] = work[c] /\ work[c].heard # "page"
    <3>1. CallOK(work[c], q, secrets)
      BY <2>1, <2>2, StillOK
    <3> QED BY <2>2, <3>1
  <2>3. ASSUME NEW h \in {"script", "nobody"}, work'[c] = [work[c] EXCEPT !.heard = h]
        PROVE  CallOK(work'[c], q, secrets) /\ work'[c].heard # "page"
    <3>1. CallOK([work[c] EXCEPT !.heard = h], q, secrets) /\ [work[c] EXCEPT !.heard = h].heard = h
      BY <2>1, HeardNoMore
    <3> QED BY <2>3, <3>1
  <2> QED BY <2>2, <2>3
<1> QED BY <1>1, <1>2, <1>3 DEF SaveInv

LEMMA UnloadKept ==
  ASSUME SaveInv, Link!Start \/ Link!StartOnServer \/ Link!Unload
  PROVE  SaveInv'
<1>1. page' = Link!Fresh("away", 0) /\ work' = Link!Unheard /\ secrets' = secrets /\ flows' \in Nat
  BY DEF Link!Start, Link!StartOnServer, Link!Unload, SaveInv
<1>2. \A c \in BackendCalls : \E h \in {"script", "nobody"} : work'[c] = [work[c] EXCEPT !.heard = h]
  BY <1>1 DEF Link!Unheard
<1>3. work' = [c \in BackendCalls |-> work'[c]]
  BY <1>1 DEF Link!Unheard
<1> QED BY <1>1, <1>2, <1>3, PageLeft

LEMMA ReturnKept ==
  ASSUME SaveInv, Link!Return
  PROVE  SaveInv'
<1>1. page.shown = "away" /\ page' = Link!Fresh("settings", 0) /\ UNCHANGED <<secrets, flows, work>>
  BY DEF Link!Return
<1>2. \A c \in BackendCalls : work'[c] = work[c] /\ work[c].heard # "page"
  BY <1>1 DEF SaveInv, CallOK
<1>3. work' = [c \in BackendCalls |-> work'[c]] /\ flows' \in Nat
  BY <1>1 DEF SaveInv
<1> QED BY <1>1, <1>2, <1>3, PageLeft

LEMMA LeaveKept ==
  ASSUME SaveInv, Link!Leave
  PROVE  SaveInv'
<1>1. /\ page' = Link!Fresh("settings", 0) /\ UNCHANGED <<secrets, flows>>
      /\ work' = [c \in BackendCalls |-> [work[c] EXCEPT !.heard = IF @ = "page" THEN "script" ELSE @]]
  BY DEF Link!Leave
<1>2. ASSUME NEW c \in BackendCalls
      PROVE  \E h \in {"script", "nobody"} : work'[c] = [work[c] EXCEPT !.heard = h]
  <2>1. PICK h : h = IF work[c].heard = "page" THEN "script" ELSE work[c].heard
    OBVIOUS
  <2>2. h \in {"script", "nobody"}
    BY <2>1 DEF SaveInv, CallOK, CallTypes
  <2>3. work'[c] = [work[c] EXCEPT !.heard = h]
    BY <1>1, <2>1
  <2> QED BY <2>2, <2>3
<1>3. work' = [c \in BackendCalls |-> work'[c]] /\ flows' \in Nat
  BY <1>1 DEF SaveInv
<1> QED BY <1>1, <1>2, <1>3, PageLeft

(* The tab comes back with a code, and is the only page there is.              *)
LEMMA CallbackKept ==
  ASSUME SaveInv, NEW c \in BackendCalls, NEW i \in 1..flows, NEW agreed, Link!Callback(c, i, agreed)
  PROVE  SaveInv'
<1>1. PICK verifier : verifier = CASE ~(agreed /\ session.state = i) -> 0
                                   [] side = "server" -> i
                                   [] OTHER           -> session.verifier
  OBVIOUS
<1>2. Link!SendsCode(c, i, verifier)
  BY <1>1, Zenon DEF Link!Callback
<1>2a. i \in Nat /\ UNCHANGED <<flows, secrets>> /\ page.shown = "away" /\ flows' \in Nat
  BY <1>2 DEF Link!SendsCode, SaveInv
<1>3. PICK says \in {"processing", "error"} : says = IF verifier = 0 THEN "error" ELSE "processing"
  OBVIOUS
<1>4. page' = Link!Fresh(says, i)
  BY <1>2, <1>3, Zenon DEF Link!SendsCode
<1>5. PageOK(page', secrets) /\ page'.shown = says /\ page'.flow = i
  <2>1. PageOK(Link!Fresh(says, i), secrets) /\ Link!Fresh(says, i).shown = says /\ Link!Fresh(says, i).flow = i
    BY <1>2a, FreshIsOK
  <2> QED BY <1>4, <2>1
<1>6. PICK q : q = page'
  OBVIOUS
<1>7. \A d \in BackendCalls : CallOK(work[d], q, secrets) /\ work[d].heard # "page"
  <2>1. ASSUME NEW d \in BackendCalls PROVE CallOK(work[d], q, secrets) /\ work[d].heard # "page"
    <3>1. CallOK(work[d], page, secrets) /\ Listed /\ Grown(secrets, secrets)
      BY DEF SaveInv, Grown
    <3>2. work[d].heard # "page"
      BY <1>2a, <3>1 DEF CallOK
    <3> QED BY <3>1, <3>2, StillOK
  <2> QED BY <2>1
<1>8. CASE verifier = 0
  <2>1. PICK new : new = Link!Free
    OBVIOUS
  <2>2. Link!Goes(c, new)
    BY <1>2, <1>8, <2>1, Zenon DEF Link!SendsCode
  <2>3. CallOK(new, q, secrets) /\ new.heard # "page"
    BY <2>1, FreeIsOK
  <2>4. CallOK(new, page', secrets') /\ PageOK(page', secrets') /\ secrets' \in Places
        /\ \A d \in BackendCalls : d # c => CallOK(work[d], page', secrets')
    BY <1>2a, <1>5, <1>6, <1>7, <2>3 DEF SaveInv
  <2> QED BY <1>2a, <2>2, <2>3, <2>4, CallReplaced
<1>9. CASE verifier # 0
  <2>1. PICK new : new = [Link!Free EXCEPT !.pc = "exchange", !.flow = i, !.heard = "page"]
    OBVIOUS
  <2>2. Link!Goes(c, new)
    BY <1>2, <1>9, <2>1, Zenon DEF Link!SendsCode
  <2>3. new = [pc |-> "exchange", flow |-> i, at |-> 0, failed |-> FALSE, heard |-> "page"]
    BY <2>1 DEF Link!Free
  <2>4. new \in CallTypes /\ new.pc = "exchange" /\ new.flow = i
    BY <1>2a, <2>3 DEF CallTypes, CallPlaces
  <2>5. says = "processing"
    BY <1>3, <1>9
  <2>6. CallOK(new, q, secrets)
    BY <1>5, <1>6, <2>4, <2>5 DEF CallOK, LoopPlaces
  <2>7. CallOK(new, page', secrets') /\ PageOK(page', secrets') /\ secrets' \in Places
        /\ \A d \in BackendCalls : d # c => CallOK(work[d], page', secrets')
    BY <1>2a, <1>5, <1>6, <1>7, <2>6 DEF SaveInv
  <2> QED BY <1>2a, <1>7, <2>2, <2>7, CallReplaced
<1> QED BY <1>8, <1>9

LEMMA SaveKept == ASSUME SaveInv, [Link!Next]_(Link!hvars) PROVE SaveInv'
<1>1. CASE UNCHANGED <<flows, secrets, work, page>>
  BY <1>1 DEF SaveInv
<1>2. CASE Link!Start \/ Link!StartOnServer \/ Link!Unload
  BY <1>2, UnloadKept
<1>3. CASE Link!Return
  BY <1>3, ReturnKept
<1>4. CASE Link!Leave
  BY <1>4, LeaveKept
<1>5. ASSUME NEW c \in BackendCalls, NEW i \in 1..flows, NEW agreed \in BOOLEAN, Link!Callback(c, i, agreed)
      PROVE  SaveInv'
  BY <1>5, CallbackKept
<1>6. ASSUME NEW c \in BackendCalls, Link!Backend(c) PROVE SaveInv'
  <2>1. ASSUME NEW works \in BOOLEAN, Link!Validate(c, works) PROVE SaveInv'
    BY <2>1, ValidateKept
  <2>2. ASSUME NEW works \in BOOLEAN, Link!ReadSecret(c, works) PROVE SaveInv'
    BY <2>2, LoopKept
  <2>3. ASSUME NEW o \in Link!Outcomes,
               Link!EnsureNamespace(c, o) \/ Link!ReplaceSecret(c, o) \/ Link!CreateSecret(c, o)
        PROVE  SaveInv'
    <3>1. TRUE \in BOOLEAN
      OBVIOUS
    <3> QED BY <2>3, <3>1, LoopKept
  <2>4. CASE Link!SaveAnswers(c)
    BY <2>4, AnswerSaveKept
  <2>5. ASSUME NEW works \in BOOLEAN, NEW named \in BOOLEAN, Link!Exchange(c, works, named) PROVE SaveInv'
    BY <2>5, ExchangeKept
  <2>6. CASE Link!SaveOther(c) \/ \E ours \in BOOLEAN : Link!Disconnect(c, ours)
    BY <2>6, OthersBeginKept
  <2>7. ASSUME NEW o \in Link!Outcomes, Link!DeleteSecret(c, o) PROVE SaveInv'
    BY <2>7, DropKept
  <2>8. CASE Link!DeleteAnswers(c)
    BY <2>8, CallEnds DEF Link!DeleteAnswers, SaveInv
  <2> QED BY <1>6, <2>1, <2>2, <2>3, <2>4, <2>5, <2>6, <2>7, <2>8 DEF Link!Backend, Link!Saving
<1> QED BY <1>1, <1>2, <1>3, <1>4, <1>5, <1>6
        DEF Link!Next, Link!Tab, Link!hvars, Link!ForgetVerifier

(* For any list of namespaces, one that repeats a name included, any number of *)
(* requests that save and remove the same secrets at a time, any failures, and *)
(* a page that is left, reloaded or called back at any moment: a page that     *)
(* says the account is connected is right.  Its save wrote its token into      *)
(* every target namespace, and the token is still there but where another      *)
(* request has written or removed it after that write.                         *)
THEOREM ConnectedHolds == Link!Spec => []Link!ConnectedMeansEverywhere
<1>1. Link!Init => SaveInv
  BY SaveInit, ClientsAssumption DEF Listed
<1>2. SaveInv /\ [Link!Next]_(Link!hvars) => SaveInv'
  BY SaveKept
<1>3. SaveInv => Link!ConnectedMeansEverywhere
  BY DEF SaveInv, PageOK, Link!ConnectedMeansEverywhere
<1> QED BY <1>1, <1>2, <1>3, PTL DEF Link!Spec

(* The types of the link: no flow is named that was not started.               *)
RequestRange(w, top) ==
  w.flow \in 0..top \cup {Link!Foreign} /\ (w.pc \in {"exchange", "validate"} => w.flow \in 1..top)

LinkRanges ==
  /\ MaxFlows \in Nat /\ flows \in 0..MaxFlows
  /\ session.state \in 0..flows /\ session.verifier \in 0..flows
  /\ session = [state |-> session.state, verifier |-> session.verifier]
  /\ pkceStore \subseteq 1..flows /\ redeemed \subseteq 1..flows /\ local \in 0..flows
  /\ secrets \in Places
  /\ \A n \in Link!Namespaces : secrets[n].token \in 0..flows \cup {Link!Foreign}
  /\ work = [c \in BackendCalls |-> work[c]]
  /\ \A c \in BackendCalls : RequestRange(work[c], flows)

LEMMA RangesInit == ASSUME Link!Init, SaveInv PROVE LinkRanges
<1>1. work = [c \in BackendCalls |-> Link!Free] /\ MaxFlows \in Nat /\ secrets \in Places /\ flows = 0
  BY DEF Link!Init, SaveInv
<1>2. \A n \in Link!Namespaces : secrets[n].token = 0
  BY DEF Link!Init
<1>3. session = [state |-> 0, verifier |-> 0]
  BY DEF Link!Init, Link!NoSession
<1>4. Link!Free.flow = 0 /\ Link!Free.pc = "free"
  BY DEF Link!Free
<1>5. \A c \in BackendCalls : RequestRange(work[c], flows)
  BY <1>1, <1>4 DEF RequestRange
<1> QED BY <1>1, <1>2, <1>3, <1>5 DEF LinkRanges, Link!Init

(* A request keeps its flow, or is a new one of another user or of none.       *)
WorkRanges == /\ work = [c \in BackendCalls |-> work[c]]
              /\ \A c \in BackendCalls : RequestRange(work[c], flows)

LEMMA StepRange ==
  ASSUME LinkRanges, NEW c \in BackendCalls, NEW new, Link!Goes(c, new), flows' = flows,
         RequestRange(new, flows)
  PROVE  WorkRanges'
  BY DEF LinkRanges, WorkRanges, Link!Goes

LEMMA KeepsFlow ==
  ASSUME LinkRanges, NEW c \in BackendCalls, NEW new, Link!Goes(c, new), flows' = flows,
         new.flow \in {0, Link!Foreign, work[c].flow}, new.pc \notin {"exchange", "validate"}
  PROVE  WorkRanges'
<1>1. RequestRange(new, flows)
  BY DEF LinkRanges, RequestRange
<1> QED BY <1>1, StepRange

LEMMA FreeRange ==
  ASSUME LinkRanges, NEW c \in BackendCalls, Link!Goes(c, Link!Free), flows' = flows
  PROVE  WorkRanges'
<1>1. PICK new : new = Link!Free
  OBVIOUS
<1>2. new.flow = 0 /\ new.pc = "free"
  BY <1>1 DEF Link!Free
<1> QED BY <1>1, <1>2, KeepsFlow

LEMMA OnRange ==
  ASSUME LinkRanges, SaveInv, NEW c \in BackendCalls, NEW failed, Link!Goes(c, Link!On(work[c], failed)),
         flows' = flows
  PROVE  WorkRanges'
<1>1. PICK new : new = Link!On(work[c], failed)
  OBVIOUS
<1>2. work[c] \in CallTypes
  BY DEF SaveInv, CallOK
<1>3. new.flow = work[c].flow /\ new.pc = "namespace"
  BY <1>1, <1>2 DEF Link!On, CallTypes
<1> QED BY <1>1, <1>3, KeepsFlow

LEMMA PcRange ==
  ASSUME LinkRanges, SaveInv, NEW c \in BackendCalls, NEW pc \in LoopPlaces,
         Link!Goes(c, [work[c] EXCEPT !.pc = pc]), flows' = flows
  PROVE  WorkRanges'
<1>1. PICK new : new = [work[c] EXCEPT !.pc = pc]
  OBVIOUS
<1>2. work[c] \in CallTypes
  BY DEF SaveInv, CallOK
<1>3. new.flow = work[c].flow /\ new.pc = pc /\ pc \notin {"exchange", "validate"}
  BY <1>1, <1>2 DEF CallTypes, LoopPlaces
<1> QED BY <1>1, <1>3, KeepsFlow

LEMMA LoopRange ==
  ASSUME LinkRanges, NEW c \in BackendCalls, NEW w, NEW pc \in {"namespace", "drop"}, w \in CallTypes,
         w.flow \in {0, Link!Foreign, work[c].flow}, Link!Goes(c, Link!Loop(w, pc)), flows' = flows
  PROVE  WorkRanges'
<1>1. PICK new : new = Link!Loop(w, pc)
  OBVIOUS
<1>2. new.flow = w.flow /\ new.pc = pc
  BY <1>1 DEF Link!Loop, CallTypes
<1> QED BY <1>1, <1>2, KeepsFlow

(* What is written into a secret is a flow, another user's, or nothing.        *)
SecretRanges == \A n \in Link!Namespaces : secrets[n].token \in 0..flows \cup {Link!Foreign}

LEMMA PutsRange ==
  ASSUME LinkRanges, flows' = flows, NEW c, NEW n, NEW i, Link!Puts(c, n, i), i \in 0..flows \cup {Link!Foreign}
  PROVE  SecretRanges'
<1>1. secrets' = [secrets EXCEPT ![n].token = i] /\ secrets \in Places
  BY DEF Link!Puts, LinkRanges
<1>2. ASSUME NEW m \in Link!Namespaces PROVE secrets'[m].token \in {secrets[m].token, i}
  BY <1>1 DEF Places
<1> QED BY <1>2 DEF LinkRanges, SecretRanges

LEMMA BackendRanges ==
  ASSUME LinkRanges, SaveInv, NEW c \in BackendCalls, Link!Backend(c)
  PROVE  /\ flows' = flows /\ WorkRanges' /\ SecretRanges'
         /\ pkceStore' \subseteq pkceStore /\ redeemed' \subseteq 1..flows /\ local' \in 0..flows
<1> DEFINE Goal == /\ flows' = flows /\ WorkRanges' /\ SecretRanges'
                   /\ pkceStore' \subseteq pkceStore /\ redeemed' \subseteq 1..flows /\ local' \in 0..flows
<1>1. /\ work[c] \in CallTypes /\ work[c].flow \in 0..flows \cup {Link!Foreign} /\ flows \in Nat
      /\ redeemed \subseteq 1..flows /\ local \in 0..flows /\ MaxFlows \in Nat
      /\ (work[c].pc \in {"exchange", "validate"} => work[c].flow \in 1..flows)
  BY DEF SaveInv, CallOK, LinkRanges, RequestRange
<1>2. UNCHANGED <<flows, secrets>> => SecretRanges'
  BY DEF LinkRanges, SecretRanges
<1>3. ASSUME NEW works \in BOOLEAN, Link!Validate(c, works) PROVE Goal
  <2>1. UNCHANGED <<flows, pkceStore, redeemed, local, secrets>>
    BY <1>3 DEF Link!Validate
  <2>2. Link!Goes(c, Link!Free) \/ Link!Goes(c, Link!Loop(work[c], "namespace"))
    BY <1>3, Zenon DEF Link!Validate, Link!Fails
  <2>3. WorkRanges'
    <3>1. CASE Link!Goes(c, Link!Free)
      BY <2>1, <3>1, FreeRange
    <3>2. CASE Link!Goes(c, Link!Loop(work[c], "namespace"))
      <4>1. PICK w : w = work[c]
        OBVIOUS
      <4>2. w \in CallTypes /\ w.flow \in {0, Link!Foreign, work[c].flow} /\ Link!Goes(c, Link!Loop(w, "namespace"))
        BY <1>1, <3>2, <4>1
      <4> QED BY <2>1, <4>2, LoopRange
    <3> QED BY <2>2, <3>1, <3>2
  <2> QED BY <1>1, <1>2, <2>1, <2>3
<1>4. ASSUME NEW works \in BOOLEAN, Link!ReadSecret(c, works) PROVE Goal
  <2>1. UNCHANGED <<flows, pkceStore, redeemed, local, secrets>>
    BY <1>4 DEF Link!ReadSecret
  <2>2. PICK pc \in LoopPlaces : pc = IF secrets[Link!Here(work[c])].token # 0 THEN "replace" ELSE "create"
    BY DEF LoopPlaces
  <2>3. Link!Goes(c, IF ~works THEN Link!On(work[c], TRUE) ELSE [work[c] EXCEPT !.pc = pc])
    BY <1>4, <2>2, Zenon DEF Link!ReadSecret
  <2>4. Link!Goes(c, Link!On(work[c], TRUE)) \/ Link!Goes(c, [work[c] EXCEPT !.pc = pc])
    BY <2>3, Zenon
  <2>5. WorkRanges'
    BY <2>1, <2>4, OnRange, PcRange
  <2> QED BY <1>1, <1>2, <2>1, <2>5
<1>5. ASSUME NEW o, Link!EnsureNamespace(c, o) PROVE Goal
  <2>1. UNCHANGED <<flows, pkceStore, redeemed, local>>
        /\ secrets' = [secrets EXCEPT ![Link!Here(work[c])].there = @ \/ Link!Acts(o)]
    BY <1>5 DEF Link!EnsureNamespace
  <2>2. Link!Goes(c, IF o = "works" THEN [work[c] EXCEPT !.pc = "read"] ELSE Link!On(work[c], TRUE))
    BY <1>5, Zenon DEF Link!EnsureNamespace
  <2>3. Link!Goes(c, Link!On(work[c], TRUE)) \/ Link!Goes(c, [work[c] EXCEPT !.pc = "read"])
    BY <2>2, Zenon
  <2>4. WorkRanges'
    <3>1. "read" \in LoopPlaces
      BY DEF LoopPlaces
    <3> QED BY <2>1, <2>3, <3>1, OnRange, PcRange
  <2>5. SecretRanges'
    <3>1. PICK h, b : h = Link!Here(work[c]) /\ b = (secrets[h].there \/ Link!Acts(o))
      OBVIOUS
    <3>2. secrets' = [secrets EXCEPT ![h].there = b]
      BY <2>1, <3>1
    <3>3. ASSUME NEW m \in Link!Namespaces PROVE secrets'[m].token = secrets[m].token
      BY <3>2 DEF LinkRanges, Places
    <3> QED BY <2>1, <3>3 DEF LinkRanges, SecretRanges
  <2> QED BY <1>1, <2>1, <2>4, <2>5
<1>6. ASSUME NEW o, Link!ReplaceSecret(c, o) PROVE Goal
  <2>1. UNCHANGED <<flows, pkceStore, redeemed, local>>
    BY <1>6 DEF Link!ReplaceSecret
  <2>2. PICK there : there = (secrets[Link!Here(work[c])].token # 0)
    OBVIOUS
  <2>3. Link!Goes(c, IF o = "works" /\ ~there THEN [work[c] EXCEPT !.pc = "create"] ELSE Link!On(work[c], o # "works"))
    BY <1>6, <2>2, Zenon DEF Link!ReplaceSecret
  <2>4. Link!Goes(c, Link!On(work[c], o # "works")) \/ Link!Goes(c, [work[c] EXCEPT !.pc = "create"])
    BY <2>3, Zenon
  <2>5. WorkRanges'
    <3>1. "create" \in LoopPlaces
      BY DEF LoopPlaces
    <3> QED BY <2>1, <2>4, <3>1, OnRange, PcRange
  <2>6. Link!Puts(c, Link!Here(work[c]), work[c].flow) \/ secrets' = secrets
    BY <1>6, Zenon DEF Link!ReplaceSecret
  <2>7. SecretRanges'
    BY <1>1, <1>2, <2>1, <2>6, PutsRange
  <2> QED BY <1>1, <2>1, <2>5, <2>7
<1>7. ASSUME NEW o, Link!CreateSecret(c, o) PROVE Goal
  <2>1. UNCHANGED <<flows, pkceStore, redeemed, local>>
    BY <1>7 DEF Link!CreateSecret
  <2>2. Link!Goes(c, Link!On(work[c], Link!CreateFails(o, secrets[Link!Here(work[c])].token = 0)))
    BY <1>7, Zenon DEF Link!CreateSecret
  <2>3. WorkRanges'
    BY <2>1, <2>2, OnRange
  <2>4. Link!Puts(c, Link!Here(work[c]), work[c].flow) \/ secrets' = secrets
    BY <1>7, Zenon DEF Link!CreateSecret
  <2>5. SecretRanges'
    BY <1>1, <1>2, <2>1, <2>4, PutsRange
  <2> QED BY <1>1, <2>1, <2>3, <2>5
<1>8. ASSUME Link!SaveAnswers(c) PROVE Goal
  <2>1. UNCHANGED <<flows, pkceStore, redeemed, local, secrets>> /\ Link!Goes(c, Link!Free)
    BY <1>8 DEF Link!SaveAnswers
  <2> QED BY <1>1, <1>2, <2>1, FreeRange
<1>9. ASSUME NEW works, NEW named, Link!Exchange(c, works, named) PROVE Goal
  <2>1. /\ UNCHANGED <<flows, secrets>> /\ work[c].pc = "exchange" /\ pkceStore' \subseteq pkceStore
        /\ redeemed' \subseteq redeemed \cup {work[c].flow} /\ local' \in {local, work[c].flow}
    BY <1>9 DEF Link!Exchange
  <2>2. Link!Goes(c, Link!Free) \/ Link!Goes(c, [work[c] EXCEPT !.pc = "validate"])
    BY <1>9, Zenon DEF Link!Exchange, Link!Fails
  <2>3. WorkRanges'
    <3>1. CASE Link!Goes(c, Link!Free)
      BY <2>1, <3>1, FreeRange
    <3>2. CASE Link!Goes(c, [work[c] EXCEPT !.pc = "validate"])
      <4>1. PICK new : new = [work[c] EXCEPT !.pc = "validate"]
        OBVIOUS
      <4>2. new.flow = work[c].flow
        BY <1>1, <4>1 DEF CallTypes
      <4>3. RequestRange(new, flows)
        BY <1>1, <2>1, <4>2 DEF RequestRange
      <4> QED BY <2>1, <3>2, <4>1, <4>3, StepRange
    <3> QED BY <2>2, <3>1, <3>2
  <2> QED BY <1>1, <1>2, <2>1, <2>3
<1>10. ASSUME Link!SaveOther(c) PROVE Goal
  <2>1. UNCHANGED <<flows, pkceStore, redeemed, local, secrets>>
    BY <1>10 DEF Link!SaveOther
  <2>2. PICK w : w = [Link!Free EXCEPT !.flow = Link!Foreign]
    OBVIOUS
  <2>3. Link!Goes(c, Link!Loop(w, "namespace"))
    BY <1>10, <2>2, Zenon DEF Link!SaveOther
  <2>4. w \in CallTypes /\ w.flow = Link!Foreign
    BY <1>1, <2>2, FreeType
  <2>5. WorkRanges'
    BY <2>1, <2>3, <2>4, LoopRange
  <2> QED BY <1>1, <1>2, <2>1, <2>5
<1>11. ASSUME NEW ours \in BOOLEAN, Link!Disconnect(c, ours) PROVE Goal
  <2>1. UNCHANGED <<flows, pkceStore, redeemed, local, secrets>>
    BY <1>11 DEF Link!Disconnect
  <2>2. PICK h \in {"script", "nobody"} : h = IF ours THEN "script" ELSE "nobody"
    OBVIOUS
  <2>3. PICK w : w = [Link!Free EXCEPT !.heard = h]
    OBVIOUS
  <2>4. Link!Goes(c, Link!Loop(w, "drop"))
    BY <1>11, <2>2, <2>3, Zenon DEF Link!Disconnect
  <2>5. w \in CallTypes /\ w.flow = 0
    BY <1>1, <2>3, FreeType
  <2>6. WorkRanges'
    BY <2>1, <2>4, <2>5, LoopRange
  <2> QED BY <1>1, <1>2, <2>1, <2>6
<1>12. ASSUME NEW o, Link!DeleteSecret(c, o) PROVE Goal
  <2>1. UNCHANGED <<flows, pkceStore, redeemed, local>> /\ work[c].pc = "drop"
    BY <1>12 DEF Link!DeleteSecret
  <2>2. PICK new : new = [work[c] EXCEPT !.at = @ + 1]
    OBVIOUS
  <2>3. Link!Goes(c, new)
    BY <1>12, <2>2, Zenon DEF Link!DeleteSecret
  <2>4. new.flow = work[c].flow /\ new.pc = "drop"
    BY <1>1, <2>1, <2>2 DEF CallTypes
  <2>5. WorkRanges'
    BY <2>1, <2>3, <2>4, KeepsFlow
  <2>6. Link!Puts(c, Link!Here(work[c]), 0) \/ secrets' = secrets
    BY <1>12, Zenon DEF Link!DeleteSecret
  <2>7. SecretRanges'
    BY <1>1, <1>2, <2>1, <2>6, PutsRange
  <2> QED BY <1>1, <2>1, <2>5, <2>7
<1>13. ASSUME Link!DeleteAnswers(c) PROVE Goal
  <2>1. UNCHANGED <<flows, pkceStore, redeemed, secrets>> /\ Link!Goes(c, Link!Free) /\ local' \in {0, local}
    BY <1>13 DEF Link!DeleteAnswers
  <2> QED BY <1>1, <1>2, <2>1, FreeRange
<1> HIDE DEF Goal
<1>14. Link!Saving(c) => Goal
  BY <1>3, <1>4, <1>5, <1>6, <1>7, <1>8, Zenon DEF Link!Saving
<1>15. Goal
  BY <1>9, <1>10, <1>11, <1>12, <1>13, <1>14, Zenon DEF Link!Backend
<1> QED BY <1>15 DEF Goal

(* The session names flows that were started.                                  *)
SessionRanges == /\ session.state \in 0..flows /\ session.verifier \in 0..flows
                 /\ session = [state |-> session.state, verifier |-> session.verifier]

LEMMA SessionClears == ASSUME LinkRanges, flows' = flows, session' \in {session, Link!ClearSession, Link!NoSession}
                       PROVE  SessionRanges'
  BY DEF LinkRanges, SessionRanges, Link!ClearSession, Link!NoSession

(* A new flow makes the ranges longer.                                         *)
LEMMA StartRanges ==
  ASSUME LinkRanges, SaveInv, Link!Start \/ Link!StartOnServer
  PROVE  LinkRanges'
<1>1. /\ flows' = flows + 1 /\ flows' \in 0..MaxFlows /\ work' = Link!Unheard
      /\ pkceStore' \subseteq pkceStore \cup {flows'} /\ UNCHANGED <<redeemed, local, secrets>>
  BY DEF Link!Start, Link!StartOnServer, LinkRanges
<1>2. flows \in Nat /\ 0..flows \subseteq 0..flows' /\ 1..flows \subseteq 1..flows' /\ flows' \in 1..flows'
  BY <1>1 DEF LinkRanges
<1>3. SessionRanges'
  BY <1>1, <1>2 DEF LinkRanges, SessionRanges, Link!Start, Link!StartOnServer
<1>4. ASSUME NEW c \in BackendCalls PROVE RequestRange(work'[c], flows')
  <2>1. work[c] \in CallTypes /\ RequestRange(work[c], flows)
    BY DEF SaveInv, CallOK, LinkRanges
  <2>2. work'[c].flow = work[c].flow /\ work'[c].pc = work[c].pc
    BY <1>1, <2>1 DEF Link!Unheard, CallTypes
  <2> QED BY <1>2, <2>1, <2>2 DEF RequestRange
<1>5. \A n \in Link!Namespaces : secrets'[n].token \in 0..flows' \cup {Link!Foreign}
  BY <1>1, <1>2 DEF LinkRanges
<1>6. work' = [c \in BackendCalls |-> work'[c]]
  BY <1>1 DEF Link!Unheard
<1> QED BY <1>1, <1>2, <1>3, <1>4, <1>5, <1>6 DEF LinkRanges, SessionRanges

LEMMA RangesKept == ASSUME LinkRanges, SaveInv, SaveInv', [Link!Next]_(Link!hvars) PROVE LinkRanges'
<1> DEFINE Quiet == /\ flows' = flows /\ WorkRanges' /\ SecretRanges' /\ SessionRanges'
                    /\ pkceStore' \subseteq 1..flows /\ redeemed' \subseteq 1..flows /\ local' \in 0..flows
<1>1. Quiet => LinkRanges'
  BY DEF LinkRanges, WorkRanges, SecretRanges, SessionRanges, SaveInv
<1>2. UNCHANGED <<flows, secrets>> => SecretRanges'
  BY DEF LinkRanges, SecretRanges
<1>3. UNCHANGED <<flows, session>> => SessionRanges'
  BY DEF LinkRanges, SessionRanges
<1>4. UNCHANGED <<flows, work>> => WorkRanges'
  BY DEF LinkRanges, WorkRanges
<1>5. pkceStore \subseteq 1..flows /\ redeemed \subseteq 1..flows /\ local \in 0..flows
  BY DEF LinkRanges
<1>6. CASE UNCHANGED <<flows, secrets, session, work, pkceStore, redeemed, local>>
  BY <1>1, <1>2, <1>3, <1>4, <1>5, <1>6
<1>7. CASE Link!Start \/ Link!StartOnServer
  BY <1>7, StartRanges
<1>8. CASE Link!Unload \/ Link!Leave
  <2>1. UNCHANGED <<flows, session, pkceStore, redeemed, local, secrets>>
    BY <1>8 DEF Link!Unload, Link!Leave
  <2>2. WorkRanges'
    <3>1. work' = [c \in BackendCalls |-> work'[c]]
      BY <1>8 DEF Link!Unload, Link!Leave, Link!Unheard
    <3>2. ASSUME NEW c \in BackendCalls PROVE RequestRange(work'[c], flows')
      <4>1. work[c] \in CallTypes /\ RequestRange(work[c], flows)
        BY DEF SaveInv, CallOK, LinkRanges
      <4>2. \E h : work'[c] = [work[c] EXCEPT !.heard = h]
        BY <1>8 DEF Link!Unload, Link!Leave, Link!Unheard
      <4>3. work'[c].flow = work[c].flow /\ work'[c].pc = work[c].pc
        BY <4>1, <4>2 DEF CallTypes
      <4> QED BY <2>1, <4>1, <4>3 DEF RequestRange
    <3> QED BY <3>1, <3>2 DEF WorkRanges
  <2> QED BY <1>1, <1>2, <1>3, <1>5, <2>1, <2>2
<1>9. ASSUME NEW c \in BackendCalls, NEW i \in 1..flows, NEW agreed, Link!Callback(c, i, agreed) PROVE LinkRanges'
  <2>1. PICK verifier : verifier = CASE ~(agreed /\ session.state = i) -> 0
                                     [] side = "server" -> i
                                     [] OTHER           -> session.verifier
    OBVIOUS
  <2>2. Link!SendsCode(c, i, verifier)
    BY <1>9, <2>1, Zenon DEF Link!Callback
  <2>3. UNCHANGED <<flows, pkceStore, redeemed, local, secrets>>
    BY <2>2 DEF Link!SendsCode
  <2>4. session' \in {session, Link!NoSession, [session EXCEPT !.state = 0]}
    BY <1>9 DEF Link!Callback
  <2>5. SessionRanges'
    BY <2>3, <2>4 DEF LinkRanges, SessionRanges, Link!NoSession
  <2>6. WorkRanges'
    <3>1. CASE Link!Goes(c, Link!Free)
      BY <2>3, <3>1, FreeRange
    <3>2. CASE Link!Goes(c, [Link!Free EXCEPT !.pc = "exchange", !.flow = i, !.heard = "page"])
      <4>1. PICK new : new = [Link!Free EXCEPT !.pc = "exchange", !.flow = i, !.heard = "page"]
        OBVIOUS
      <4>2. new.flow = i
        BY <4>1 DEF Link!Free
      <4>3. RequestRange(new, flows)
        BY <4>2 DEF RequestRange, LinkRanges
      <4> QED BY <2>3, <3>2, <4>1, <4>3, StepRange
    <3> QED BY <2>2, <3>1, <3>2, Zenon DEF Link!SendsCode
  <2> QED BY <1>1, <1>2, <1>5, <2>3, <2>5, <2>6
<1>10. ASSUME NEW c \in BackendCalls, Link!Backend(c) PROVE LinkRanges'
  <2>1. /\ flows' = flows /\ WorkRanges' /\ SecretRanges'
        /\ pkceStore' \subseteq pkceStore /\ redeemed' \subseteq 1..flows /\ local' \in 0..flows
    BY <1>10, BackendRanges
  <2>2. SessionRanges'
    BY <1>10, <2>1, BackendLeaves, SessionClears
  <2> QED BY <1>1, <1>5, <2>1, <2>2
<1>11. ASSUME NEW i, Link!ForgetVerifier(i) PROVE LinkRanges'
  <2>1. UNCHANGED <<flows, session, redeemed, local, secrets, work>> /\ pkceStore' \subseteq pkceStore
    BY <1>11 DEF Link!ForgetVerifier
  <2> QED BY <1>1, <1>2, <1>3, <1>4, <1>5, <2>1
<1> QED BY <1>6, <1>7, <1>8, <1>9, <1>10, <1>11
        DEF Link!Next, Link!Tab, Link!hvars, Link!Return

(* Every flow that is named anywhere is one that was started.                  *)
THEOREM LinkTyped == Link!Spec => []Link!TypeOK
<1>1. Link!Init => SaveInv
  BY SaveInit, ClientsAssumption DEF Listed
<1>2. Link!Init /\ SaveInv => LinkRanges
  BY RangesInit
<1>3. SaveInv /\ [Link!Next]_(Link!hvars) => SaveInv'
  BY SaveKept
<1>4. LinkRanges /\ SaveInv /\ SaveInv' /\ [Link!Next]_(Link!hvars) => LinkRanges'
  BY RangesKept
<1>5. SaveInv /\ LinkRanges => Link!TypeOK
  <2> SUFFICES ASSUME SaveInv, LinkRanges PROVE Link!TypeOK
    OBVIOUS
  <2>1. MaxFlows \in Nat /\ 0..flows \subseteq 0..MaxFlows /\ Link!Foreign = MaxFlows + 1
    BY DEF LinkRanges, Link!Foreign
  <2>2. \A n \in Link!Namespaces : secrets[n].token \in 0..Link!Foreign
    BY <2>1 DEF LinkRanges
  <2>3. page.overtaken \subseteq page.written /\ page.written \subseteq Link!Namespaces
    BY DEF SaveInv, PageOK
  <2> QED BY <2>1, <2>2, <2>3 DEF LinkRanges, Link!TypeOK
<1> QED BY <1>1, <1>2, <1>3, <1>4, <1>5, PTL DEF Link!Spec

-----------------------------------------------------------------------------
(* The chat panel.                                                             *)

Prompts == [of : Pages, pc : {"posted", "reading", "ended"}, aborted : BOOLEAN, some : BOOLEAN]
Messages == [role : {"user", "assistant"}, send : Nat, text : BOOLEAN]
Awaited(i) == prompts[i].pc # "ended" /\ prompts[i].aborted = FALSE

(* The state of a panel that is there.  The reason why the property holds is   *)
(* the fourth part: at most one send is awaited, the last one, it is the one   *)
(* whose controller the ref holds, and it is of the deployment shown.          *)
PanelTypes ==
  /\ shownOf \in Pages /\ streaming \in BOOLEAN
  /\ prompts \in Seq(Prompts) /\ messages \in Seq(Messages)
  /\ current \in 0..Len(prompts) /\ error \in 0..Len(prompts)
OwnMessages ==
  \A k \in 1..Len(messages) :
    messages[k].send \in 1..Len(prompts) /\ prompts[messages[k].send].of = shownOf
OwnError == error # 0 => error = Len(prompts) /\ prompts[error].of = shownOf
OneAwaited ==
  \A i \in 1..Len(prompts) : Awaited(i) => i = current /\ i = Len(prompts) /\ prompts[i].of = shownOf
LockedIfAwaited == (streaming = TRUE) <=> \E i \in 1..Len(prompts) : Awaited(i)
PanelInv ==
  /\ mounted \in BOOLEAN
  /\ mounted => PanelTypes /\ OwnMessages /\ OwnError /\ OneAwaited /\ LockedIfAwaited

LEMMA PanelStart == Chat!Init => PanelInv
<1> SUFFICES ASSUME Chat!Init PROVE PanelInv
  OBVIOUS
<1>1. prompts = << >> /\ messages = << >> /\ Len(prompts) = 0 /\ Len(messages) = 0
  BY DEF Chat!Init
<1>2. prompts \in Seq(Prompts) /\ messages \in Seq(Messages)
  BY <1>1
<1>3. /\ shownOf \in Pages /\ mounted = TRUE /\ streaming = FALSE
      /\ current = 0 /\ error = 0
  BY DEF Chat!Init
<1>4. PanelTypes
  <2>1. streaming \in BOOLEAN
    BY <1>3
  <2>2. current \in 0..Len(prompts) /\ error \in 0..Len(prompts)
    BY <1>1, <1>3
  <2> QED BY <1>2, <1>3, <2>1, <2>2 DEF PanelTypes
<1>5. OwnMessages /\ OwnError /\ OneAwaited /\ LockedIfAwaited
  BY <1>1, <1>3 DEF OwnMessages, OwnError, OneAwaited, LockedIfAwaited
<1> QED BY <1>3, <1>4, <1>5 DEF PanelInv

(* What the other handlers do to the sends: they end one, give up the one the  *)
(* ref holds, or move one on.  Their number and their deployments stay.        *)
LEMMA GivenUp ==
  ASSUME PanelTypes
  PROVE  /\ Chat!Aborted(prompts) \in Seq(Prompts)
         /\ Len(Chat!Aborted(prompts)) = Len(prompts)
         /\ \A i \in 1..Len(prompts) :
              /\ Chat!Aborted(prompts)[i].of = prompts[i].of
              /\ Chat!Aborted(prompts)[i].pc = prompts[i].pc
              /\ Chat!Aborted(prompts)[i].aborted = IF i = current THEN TRUE ELSE prompts[i].aborted
<1>1. CASE current = 0
  <2>1. Chat!Aborted(prompts) = prompts
    BY <1>1 DEF Chat!Aborted
  <2>2. \A i \in 1..Len(prompts) : i # current
    BY <1>1
  <2> QED BY <2>1, <2>2 DEF PanelTypes
<1>2. CASE current # 0
  <2>1. current \in 1..Len(prompts) /\ prompts[current] \in Prompts
    BY <1>2, ElementOfSeq DEF PanelTypes
  <2>2. PICK p : p = [prompts[current] EXCEPT !.aborted = TRUE]
    OBVIOUS
  <2>3. /\ p \in Prompts /\ p.of = prompts[current].of /\ p.pc = prompts[current].pc
        /\ p.aborted = TRUE
    BY <2>1, <2>2 DEF Prompts
  <2>4. Chat!Aborted(prompts) = [prompts EXCEPT ![current] = p]
    BY <1>2, <2>2 DEF Chat!Aborted
  <2>5. /\ [prompts EXCEPT ![current] = p] \in Seq(Prompts)
        /\ Len([prompts EXCEPT ![current] = p]) = Len(prompts)
        /\ \A j \in 1..Len(prompts) : [prompts EXCEPT ![current] = p][j] = IF j = current THEN p ELSE prompts[j]
    BY <2>1, <2>3, ExceptSeq DEF PanelTypes
  <2> QED BY <2>3, <2>4, <2>5
<1> QED BY <1>1, <1>2

LEMMA Moved ==
  ASSUME PanelTypes, NEW i \in 1..Len(prompts), NEW p \in Prompts, p.of = prompts[i].of,
         prompts' = [prompts EXCEPT ![i] = p]
  PROVE  /\ prompts' \in Seq(Prompts)
         /\ Len(prompts') = Len(prompts)
         /\ \A j \in 1..Len(prompts) : prompts'[j] = IF j = i THEN p ELSE prompts[j]
         /\ \A j \in 1..Len(prompts) : prompts'[j].of = prompts[j].of
<1>1. /\ [prompts EXCEPT ![i] = p] \in Seq(Prompts)
      /\ Len([prompts EXCEPT ![i] = p]) = Len(prompts)
      /\ \A j \in 1..Len(prompts) : [prompts EXCEPT ![i] = p][j] = IF j = i THEN p ELSE prompts[j]
  BY ExceptSeq DEF PanelTypes
<1> QED BY <1>1

(* A message taken from the conversation leaves the others as they are.        *)
LEMMA Taken ==
  ASSUME NEW s \in Seq(Messages), NEW k \in 1..Len(s)
  PROVE  /\ Chat!RemoveAt(s, k) \in Seq(Messages)
         /\ \A n \in 1..Len(Chat!RemoveAt(s, k)) : \E m \in 1..Len(s) : Chat!RemoveAt(s, k)[n] = s[m]
<1>1. Len(s) \in Nat /\ \A n \in 1..Len(s) : s[n] \in Messages
  BY LenProperties, ElementOfSeq
<1>2. PICK before : before = SubSeq(s, 1, k - 1)
  OBVIOUS
<1>3. PICK after : after = SubSeq(s, k + 1, Len(s))
  OBVIOUS
<1>4. /\ before \in Seq(Messages) /\ Len(before) = k - 1
      /\ \A n \in 1..(k - 1) : before[n] = s[n]
  <2>1. k - 1 \in Int /\ \A n \in 1..(k - 1) : s[n] \in Messages
    BY <1>1
  <2>2. /\ SubSeq(s, 1, k - 1) \in Seq(Messages)
        /\ Len(SubSeq(s, 1, k - 1)) = IF 1 <= k - 1 THEN k - 1 - 1 + 1 ELSE 0
        /\ \A n \in 1..(k - 1 - 1 + 1) : SubSeq(s, 1, k - 1)[n] = s[1 + n - 1]
    BY <2>1, SubSeqProperties
  <2> QED BY <1>1, <1>2, <2>2
<1>5. /\ after \in Seq(Messages) /\ Len(after) = Len(s) - k
      /\ \A n \in 1..(Len(s) - k) : after[n] = s[k + n]
  <2>1. k + 1 \in Int /\ Len(s) \in Int /\ \A n \in (k + 1)..Len(s) : s[n] \in Messages
    BY <1>1
  <2>2. /\ SubSeq(s, k + 1, Len(s)) \in Seq(Messages)
        /\ Len(SubSeq(s, k + 1, Len(s))) = IF k + 1 <= Len(s) THEN Len(s) - (k + 1) + 1 ELSE 0
        /\ \A n \in 1..(Len(s) - (k + 1) + 1) : SubSeq(s, k + 1, Len(s))[n] = s[k + 1 + n - 1]
    BY <2>1, SubSeqProperties
  <2> QED BY <1>1, <1>3, <2>2
<1>6. /\ before \o after \in Seq(Messages)
      /\ Len(before \o after) = Len(before) + Len(after)
      /\ \A n \in 1..(Len(before) + Len(after)) :
           (before \o after)[n] = IF n <= Len(before) THEN before[n] ELSE after[n - Len(before)]
  BY <1>4, <1>5, ConcatProperties
<1>7. Chat!RemoveAt(s, k) = before \o after
  BY <1>2, <1>3 DEF Chat!RemoveAt
<1>8. ASSUME NEW n \in 1..Len(before \o after)
      PROVE  \E m \in 1..Len(s) : (before \o after)[n] = s[m]
  <2>1. CASE n <= k - 1
    BY <1>1, <1>4, <1>6, <2>1
  <2>2. CASE n > k - 1
    <3>1. n + 1 \in 1..Len(s) /\ (before \o after)[n] = s[n + 1]
      BY <1>1, <1>4, <1>5, <1>6, <2>2
    <3> QED BY <3>1
  <2> QED BY <1>1, <2>1, <2>2
<1> QED BY <1>6, <1>7, <1>8
(* A handler's end: finally takes the send out of what is awaited, and if it   *)
(* was, unlocks the input.                                                     *)
LEMMA EndKeeps ==
  ASSUME PanelInv, mounted = TRUE, NEW i \in 1..Len(prompts), prompts[i].pc # "ended",
         Chat!Finally(i)
  PROVE  /\ shownOf' = shownOf /\ mounted' = mounted
         /\ prompts' \in Seq(Prompts) /\ Len(prompts') = Len(prompts)
         /\ current' \in 0..Len(prompts) /\ streaming' \in BOOLEAN
         /\ \A j \in 1..Len(prompts) : prompts'[j].of = prompts[j].of
         /\ OneAwaited' /\ LockedIfAwaited'
<1>1. /\ PanelTypes /\ OneAwaited /\ LockedIfAwaited
      /\ Len(prompts) \in Nat /\ prompts[i] \in Prompts
  BY ElementOfSeq, LenProperties DEF PanelInv, PanelTypes
<1>2. PICK p : p = [prompts[i] EXCEPT !.pc = "ended"]
  OBVIOUS
<1>3. p \in Prompts /\ p.of = prompts[i].of /\ p.pc = "ended" /\ p.aborted = prompts[i].aborted
  BY <1>1, <1>2 DEF Prompts
<1>4. prompts' = [prompts EXCEPT ![i] = p]
  BY <1>2 DEF Chat!Finally
<1>5. /\ prompts' \in Seq(Prompts) /\ Len(prompts') = Len(prompts)
      /\ \A j \in 1..Len(prompts) : prompts'[j] = IF j = i THEN p ELSE prompts[j]
      /\ \A j \in 1..Len(prompts) : prompts'[j].of = prompts[j].of
  BY <1>1, <1>3, <1>4, Moved
<1>6. /\ shownOf' = shownOf /\ mounted' = mounted
      /\ current' = IF current = i THEN 0 ELSE current
      /\ streaming' = IF Chat!Heard(i) THEN FALSE ELSE streaming
  BY DEF Chat!Finally
<1>7. \A j \in 1..Len(prompts) : Awaited(j)' <=> Awaited(j) /\ j # i
  BY <1>3, <1>5 DEF Awaited
<1>8. Awaited(i) <=> Chat!Heard(i)
  <2>1. prompts[i].aborted \in BOOLEAN
    BY <1>1 DEF Prompts
  <2> QED BY <2>1 DEF Awaited, Chat!Heard
<1>9. OneAwaited'
  BY <1>1, <1>5, <1>6, <1>7 DEF OneAwaited, PanelTypes
<1>10. LockedIfAwaited'
  <2>1. CASE Awaited(i)
    <3>1. \A j \in 1..Len(prompts) : ~Awaited(j)'
      BY <1>1, <1>7, <2>1 DEF OneAwaited
    <3> QED BY <1>5, <1>6, <1>8, <2>1, <3>1 DEF LockedIfAwaited
  <2>2. CASE ~Awaited(i)
    <3>1. \A j \in 1..Len(prompts) : Awaited(j)' <=> Awaited(j)
      BY <1>7, <2>2
    <3> QED BY <1>1, <1>5, <1>6, <1>8, <2>2, <3>1 DEF LockedIfAwaited
  <2> QED BY <2>1, <2>2
<1>11. current' \in 0..Len(prompts) /\ streaming' \in BOOLEAN
  <2>1. current \in 0..Len(prompts) /\ streaming \in BOOLEAN
    BY <1>1 DEF PanelTypes
  <2>2. current' \in 0..Len(prompts)
    BY <1>1, <1>6, <2>1
  <2>3. streaming' \in BOOLEAN
    BY <1>6, <2>1, Zenon
  <2> QED BY <2>2, <2>3
<1> QED BY <1>5, <1>6, <1>9, <1>10, <1>11

LEMMA SendKeeps ==
  ASSUME PanelInv, Chat!Send
  PROVE  PanelInv'
<1>0. PICK n : n = Len(prompts)
  OBVIOUS
<1> DEFINE all == Chat!Aborted(prompts)
           new == [of |-> shownOf, pc |-> "posted", aborted |-> FALSE, some |-> FALSE]
           two == <<Chat!Message("user", n + 1, TRUE), Chat!Message("assistant", n + 1, FALSE)>>
<1>1. /\ mounted = TRUE /\ PanelTypes /\ OwnMessages /\ OneAwaited /\ LockedIfAwaited
      /\ n \in Nat /\ Len(messages) \in Nat
  BY <1>0, LenProperties DEF PanelInv, PanelTypes, Chat!Send
<1>2. /\ prompts' = Append(all, new) /\ messages' = messages \o two
      /\ current' = n + 1 /\ error' = 0 /\ streaming' = TRUE
      /\ shownOf' = shownOf /\ mounted' = mounted /\ streaming = FALSE
  BY <1>0, <1>1 DEF Chat!Send, PanelTypes
<1>3. /\ all \in Seq(Prompts) /\ Len(all) = n
      /\ \A i \in 1..n : /\ all[i].of = prompts[i].of /\ all[i].pc = prompts[i].pc
                         /\ all[i].aborted = IF i = current THEN TRUE ELSE prompts[i].aborted
  BY <1>0, <1>1, GivenUp
<1>4. new \in Prompts
  BY <1>1 DEF Prompts, PanelTypes
<1>5. /\ two \in Seq(Messages) /\ Len(two) = 2
      /\ two[1].send = n + 1 /\ two[2].send = n + 1
  BY <1>1 DEF Messages, Chat!Message
<1> HIDE DEF all, two
<1>6. /\ prompts' \in Seq(Prompts) /\ Len(prompts') = n + 1
      /\ prompts'[n + 1] = new /\ \A i \in 1..n : prompts'[i] = all[i]
  BY <1>1, <1>2, <1>3, <1>4, AppendProperties
<1>7. /\ messages' \in Seq(Messages) /\ Len(messages') = Len(messages) + 2
      /\ \A k \in 1..Len(messages') :
           messages'[k] = IF k <= Len(messages) THEN messages[k] ELSE two[k - Len(messages)]
  <2>1. messages \in Seq(Messages) /\ messages' = messages \o two
    BY <1>1, <1>2 DEF PanelTypes
  <2>2. /\ messages \o two \in Seq(Messages)
        /\ Len(messages \o two) = Len(messages) + Len(two)
        /\ \A k \in 1..(Len(messages) + Len(two)) :
             (messages \o two)[k] = IF k <= Len(messages) THEN messages[k] ELSE two[k - Len(messages)]
    BY <1>5, <2>1, ConcatProperties
  <2> QED BY <1>5, <2>1, <2>2
<1>8. PanelTypes'
  BY <1>1, <1>2, <1>6, <1>7 DEF PanelTypes
<1>9. OwnMessages'
  <2> SUFFICES ASSUME NEW k \in 1..(Len(messages) + 2)
               PROVE  /\ messages'[k].send \in 1..(n + 1)
                      /\ prompts'[messages'[k].send].of = shownOf
    BY <1>2, <1>6, <1>7 DEF OwnMessages
  <2>1. CASE k <= Len(messages)
    <3>1. /\ messages'[k].send = messages[k].send /\ messages[k].send \in 1..n
          /\ prompts[messages[k].send].of = shownOf
      BY <1>0, <1>1, <1>7, <2>1 DEF OwnMessages
    <3>2. PICK j : j = messages[k].send
      OBVIOUS
    <3>3. j \in 1..n /\ j \in 1..(n + 1) /\ prompts[j].of = shownOf
      BY <1>1, <3>1, <3>2
    <3>4. prompts'[j].of = prompts[j].of
      BY <1>3, <1>6, <3>3
    <3> QED BY <3>1, <3>2, <3>3, <3>4
  <2>2. CASE k > Len(messages)
    <3>1. k - Len(messages) \in {1, 2} /\ messages'[k].send = n + 1
      BY <1>1, <1>5, <1>7, <2>2
    <3> QED BY <1>1, <1>6, <3>1
  <2> QED BY <1>1, <2>1, <2>2
<1>10. \A i \in 1..(n + 1) : Awaited(i)' <=> i = n + 1
  <2>1. \A i \in 1..n : ~Awaited(i)
    BY <1>0, <1>1, <1>2 DEF LockedIfAwaited
  <2>2. \A i \in 1..n : ~Awaited(i)'
    BY <1>3, <1>6, <2>1 DEF Awaited
  <2>3. Awaited(n + 1)'
    <3>1. new.pc = "posted" /\ new.aborted = FALSE
      OBVIOUS
    <3>2. prompts'[n + 1].pc = "posted" /\ prompts'[n + 1].aborted = FALSE
      BY <1>6, <3>1, Zenon
    <3> QED BY <3>2 DEF Awaited
  <2> QED BY <1>1, <2>2, <2>3
<1>11. OwnError' /\ OneAwaited' /\ LockedIfAwaited'
  BY <1>1, <1>2, <1>6, <1>10 DEF OwnError, OneAwaited, LockedIfAwaited
<1> QED BY <1>1, <1>2, <1>8, <1>9, <1>11 DEF PanelInv

LEMMA FailKeeps ==
  ASSUME PanelInv, mounted = TRUE, NEW i \in 1..Len(prompts), Chat!Fail(i)
  PROVE  PanelInv'
<1>1. /\ PanelTypes /\ OwnMessages /\ OwnError /\ OneAwaited
      /\ Len(prompts) \in Nat /\ prompts[i] \in Prompts
  BY ElementOfSeq, LenProperties DEF PanelInv, PanelTypes
<1>2. /\ shownOf' = shownOf /\ mounted' = mounted
      /\ prompts' \in Seq(Prompts) /\ Len(prompts') = Len(prompts)
      /\ current' \in 0..Len(prompts) /\ streaming' \in BOOLEAN
      /\ \A j \in 1..Len(prompts) : prompts'[j].of = prompts[j].of
      /\ OneAwaited' /\ LockedIfAwaited'
  BY EndKeeps DEF Chat!Fail, Chat!Live
<1>3. /\ messages' \in Seq(Messages)
      /\ \A k \in 1..Len(messages') : \E m \in 1..Len(messages) : messages'[k] = messages[m]
  <2>1. CASE UNCHANGED messages
    BY <1>1, <2>1 DEF PanelTypes
  <2>2. CASE \E k \in Chat!Replies(i) : messages' = Chat!RemoveAt(messages, k)
    <3>1. PICK k \in 1..Len(messages) : messages' = Chat!RemoveAt(messages, k)
      BY <1>1, <2>2, LenProperties DEF Chat!Replies, PanelTypes
    <3> QED BY <1>1, <3>1, Taken DEF PanelTypes
  <2> QED BY <2>1, <2>2 DEF Chat!Fail
<1>4. error' \in 0..Len(prompts) /\ OwnError'
  <2>1. CASE Chat!Heard(i)
    <3>1. error' = i /\ Awaited(i)
      BY <1>1, <2>1 DEF Chat!Fail, Chat!Live, Chat!Heard, Awaited, Prompts
    <3> QED BY <1>1, <1>2, <3>1 DEF OneAwaited, OwnError
  <2>2. CASE ~Chat!Heard(i)
    <3>1. error' = error
      BY <2>2 DEF Chat!Fail
    <3> QED BY <1>1, <1>2, <3>1 DEF OwnError, PanelTypes
  <2> QED BY <2>1, <2>2
<1>5. OwnMessages'
  BY <1>1, <1>2, <1>3 DEF OwnMessages
<1>6. PanelTypes'
  BY <1>1, <1>2, <1>3, <1>4 DEF PanelTypes
<1> QED BY <1>2, <1>4, <1>5, <1>6 DEF PanelInv

LEMMA DoneKeeps ==
  ASSUME PanelInv, mounted = TRUE, NEW i \in 1..Len(prompts), Chat!Done(i)
  PROVE  PanelInv'
<1>1. /\ PanelTypes /\ OwnMessages /\ OwnError
  BY DEF PanelInv
<1>2. /\ shownOf' = shownOf /\ mounted' = mounted
      /\ prompts' \in Seq(Prompts) /\ Len(prompts') = Len(prompts)
      /\ current' \in 0..Len(prompts) /\ streaming' \in BOOLEAN
      /\ \A j \in 1..Len(prompts) : prompts'[j].of = prompts[j].of
      /\ OneAwaited' /\ LockedIfAwaited'
  BY EndKeeps DEF Chat!Done
<1>3. messages' = messages /\ error' = error
  BY DEF Chat!Done
<1>4. PanelTypes'
  BY <1>1, <1>2, <1>3 DEF PanelTypes
<1>5. OwnMessages'
  BY <1>1, <1>2, <1>3 DEF OwnMessages
<1>6. OwnError'
  BY <1>1, <1>2, <1>3 DEF OwnError, PanelTypes
<1> QED BY <1>2, <1>4, <1>5, <1>6 DEF PanelInv

LEMMA ReadKeeps ==
  ASSUME PanelInv, mounted = TRUE, NEW i \in 1..Len(prompts), Chat!Respond(i) \/ Chat!Chunk(i)
  PROVE  PanelInv'
<1>1. /\ PanelTypes /\ OwnMessages /\ OwnError /\ OneAwaited /\ LockedIfAwaited
      /\ Len(prompts) \in Nat /\ prompts[i] \in Prompts
      /\ Len(messages) \in Nat /\ DOMAIN messages = 1..Len(messages)
      /\ \A k \in 1..Len(messages) : messages[k] \in Messages
  BY ElementOfSeq, LenProperties DEF PanelInv, PanelTypes
<1>2. /\ shownOf' = shownOf /\ mounted' = mounted /\ current' = current
      /\ error' = error /\ streaming' = streaming
  BY DEF Chat!Respond, Chat!Chunk
<1>3. PICK p : /\ p \in Prompts /\ p.of = prompts[i].of /\ p.aborted = prompts[i].aborted
               /\ p.pc # "ended" /\ prompts[i].pc # "ended"
               /\ prompts' = [prompts EXCEPT ![i] = p]
  <2>1. CASE Chat!Respond(i)
    <3>1. PICK p : p = [prompts[i] EXCEPT !.pc = "reading"]
      OBVIOUS
    <3>2. p \in Prompts /\ p.of = prompts[i].of /\ p.aborted = prompts[i].aborted /\ p.pc = "reading"
      BY <1>1, <3>1 DEF Prompts
    <3>3. prompts' = [prompts EXCEPT ![i] = p] /\ prompts[i].pc = "posted"
      BY <2>1, <3>1 DEF Chat!Respond
    <3> QED BY <3>2, <3>3
  <2>2. CASE Chat!Chunk(i)
    <3>1. PICK p : p = [prompts[i] EXCEPT !.some = TRUE]
      OBVIOUS
    <3>2. p \in Prompts /\ p.of = prompts[i].of /\ p.aborted = prompts[i].aborted /\ p.pc = prompts[i].pc
      BY <1>1, <3>1 DEF Prompts
    <3>3. prompts' = [prompts EXCEPT ![i] = p] /\ prompts[i].pc = "reading"
      BY <2>2, <3>1 DEF Chat!Chunk
    <3> QED BY <3>2, <3>3
  <2> QED BY <2>1, <2>2
<1>4. /\ prompts' \in Seq(Prompts) /\ Len(prompts') = Len(prompts)
      /\ \A j \in 1..Len(prompts) : prompts'[j] = IF j = i THEN p ELSE prompts[j]
      /\ \A j \in 1..Len(prompts) : prompts'[j].of = prompts[j].of
  BY <1>1, <1>3, Moved
<1>5. \A j \in 1..Len(prompts) : Awaited(j)' <=> Awaited(j)
  BY <1>3, <1>4 DEF Awaited
<1>6. /\ messages' \in Seq(Messages) /\ Len(messages') = Len(messages)
      /\ \A k \in 1..Len(messages) : messages'[k].send = messages[k].send
  <2>1. CASE UNCHANGED messages
    BY <1>1, <2>1 DEF PanelTypes
  <2>2. CASE Chat!Chunk(i)
    <3> DEFINE said(k) == IF messages[k].send = i /\ messages[k].role = "assistant"
                          THEN [messages[k] EXCEPT !.text = TRUE] ELSE messages[k]
    <3>1. messages' = [k \in 1..Len(messages) |-> said(k)]
      BY <1>1, <2>2 DEF Chat!Chunk
    <3>2. \A k \in 1..Len(messages) : said(k) \in Messages /\ said(k).send = messages[k].send
      BY <1>1 DEF Messages
    <3> HIDE DEF said
    <3>3. messages' \in [1..Len(messages) -> Messages]
      BY <3>1, <3>2
    <3>4. messages' \in Seq(Messages) /\ Len(messages') = Len(messages)
      BY <1>1, <3>3
    <3> QED BY <3>1, <3>2, <3>4
  <2> QED BY <2>1, <2>2 DEF Chat!Respond
<1>7. PanelTypes'
  BY <1>1, <1>2, <1>4, <1>6 DEF PanelTypes
<1>8. OwnMessages'
  BY <1>1, <1>2, <1>4, <1>6 DEF OwnMessages
<1>9. OwnError' /\ OneAwaited' /\ LockedIfAwaited'
  BY <1>1, <1>2, <1>4, <1>5 DEF OwnError, OneAwaited, LockedIfAwaited, PanelTypes
<1> QED BY <1>2, <1>7, <1>8, <1>9 DEF PanelInv

LEMMA ShowKeeps ==
  ASSUME PanelInv, NEW d \in Pages, Chat!Show(d)
  PROVE  PanelInv'
<1>1. /\ mounted = TRUE /\ PanelTypes /\ OneAwaited /\ Len(prompts) \in Nat
  BY LenProperties DEF PanelInv, PanelTypes, Chat!Show
<1>2. /\ shownOf' = d /\ mounted' = mounted /\ prompts' = Chat!Aborted(prompts)
      /\ current' = 0 /\ messages' = << >> /\ error' = 0 /\ streaming' = FALSE
  BY DEF Chat!Show
<1>3. /\ prompts' \in Seq(Prompts) /\ Len(prompts') = Len(prompts)
      /\ \A i \in 1..Len(prompts) :
           /\ prompts'[i].pc = prompts[i].pc
           /\ prompts'[i].aborted = IF i = current THEN TRUE ELSE prompts[i].aborted
  BY <1>1, <1>2, GivenUp
<1>4. \A i \in 1..Len(prompts) : ~Awaited(i)'
  BY <1>1, <1>3 DEF OneAwaited, Awaited
<1>5. messages' \in Seq(Messages) /\ Len(messages') = 0
  BY <1>2
<1>6. PanelTypes'
  <2>1. current' \in 0..Len(prompts') /\ error' \in 0..Len(prompts')
    BY <1>1, <1>2, <1>3
  <2>2. streaming' \in BOOLEAN
    BY <1>2
  <2> QED BY <1>2, <1>3, <1>5, <2>1, <2>2 DEF PanelTypes
<1>7. OwnMessages'
  BY <1>5 DEF OwnMessages
<1>8. OwnError' /\ OneAwaited' /\ LockedIfAwaited'
  BY <1>1, <1>2, <1>3, <1>4 DEF OwnError, OneAwaited, LockedIfAwaited
<1> QED BY <1>1, <1>2, <1>6, <1>7, <1>8 DEF PanelInv

LEMMA ClearKeeps ==
  ASSUME PanelInv, Chat!Clear
  PROVE  PanelInv'
<1>1. /\ mounted = TRUE /\ PanelTypes /\ OneAwaited /\ LockedIfAwaited /\ Len(prompts) \in Nat
  BY LenProperties DEF PanelInv, PanelTypes, Chat!Clear
<1>2. /\ messages' = << >> /\ error' = 0 /\ shownOf' = shownOf /\ mounted' = mounted
      /\ prompts' = prompts /\ current' = current /\ streaming' = streaming
  BY DEF Chat!Clear
<1>3. messages' \in Seq(Messages) /\ Len(messages') = 0
  BY <1>2
<1>4. PanelTypes'
  BY <1>1, <1>2, <1>3 DEF PanelTypes
<1>5. OwnMessages'
  BY <1>3 DEF OwnMessages
<1>6. OwnError' /\ OneAwaited' /\ LockedIfAwaited'
  BY <1>1, <1>2 DEF OwnError, OneAwaited, LockedIfAwaited, Awaited
<1> QED BY <1>1, <1>2, <1>4, <1>5, <1>6 DEF PanelInv

(* A panel that went away never comes back, and one that is there keeps the    *)
(* invariant in every step.                                                    *)
LEMMA PanelKeeps ==
  ASSUME PanelInv, [Chat!Next]_(Chat!pvars)
  PROVE  PanelInv'
<1>1. CASE UNCHANGED Chat!pvars
  BY <1>1, Zenon DEF Chat!pvars, PanelInv, PanelTypes, OwnMessages, OwnError, OneAwaited,
       LockedIfAwaited, Awaited
<1>2. CASE Chat!Next /\ mounted = FALSE
  <2>1. mounted' = FALSE
    BY <1>2 DEF Chat!Next, Chat!Send, Chat!Clear, Chat!Unmount, Chat!Show, Chat!Respond,
         Chat!Chunk, Chat!Done, Chat!Fail, Chat!Finally
  <2> QED BY <2>1 DEF PanelInv
<1>3. CASE Chat!Next /\ mounted = TRUE
  <2>1. CASE Chat!Send
    BY <2>1, SendKeeps
  <2>2. CASE Chat!Clear
    BY <2>2, ClearKeeps
  <2>3. CASE Chat!Unmount
    BY <2>3 DEF Chat!Unmount, PanelInv
  <2>4. ASSUME NEW d \in Pages, Chat!Show(d) PROVE PanelInv'
    BY <2>4, ShowKeeps
  <2>5. ASSUME NEW i \in Chat!Ids, Chat!Respond(i) \/ Chat!Chunk(i) \/ Chat!Done(i) \/ Chat!Fail(i)
        PROVE  PanelInv'
    <3>1. i \in 1..Len(prompts)
      BY <1>3, <2>5, LenProperties DEF Chat!Ids, PanelInv, PanelTypes
    <3> QED BY <1>3, <2>5, <3>1, ReadKeeps, DoneKeeps, FailKeeps
  <2> QED BY <1>3, <2>1, <2>2, <2>3, <2>4, <2>5 DEF Chat!Next
<1> QED BY <1>1, <1>2, <1>3 DEF PanelInv

(* The panel shows only messages and an error of the deployment it names, and  *)
(* its input is locked exactly while a reply is awaited that will be shown     *)
(* (ChatPanel.tsx): for any deployments, sends and changes of page.            *)
THEOREM PanelShowsItsOwn == Chat!Spec => []Chat!NothingFromElsewhere
<1>1. PanelInv => Chat!NothingFromElsewhere
  <2> SUFFICES ASSUME PanelInv, mounted = TRUE PROVE Chat!NothingFromElsewhere
    BY DEF Chat!NothingFromElsewhere, PanelInv
  <2>1. /\ PanelTypes /\ OwnMessages /\ OwnError /\ LockedIfAwaited
        /\ DOMAIN messages = 1..Len(messages) /\ DOMAIN prompts = 1..Len(prompts)
    BY LenProperties DEF PanelInv, PanelTypes
  <2>2. \A k \in DOMAIN messages : prompts[messages[k].send].of = shownOf
    BY <2>1 DEF OwnMessages
  <2>3. error # 0 => prompts[error].of = shownOf /\ error = Len(prompts)
    BY <2>1 DEF OwnError
  <2>4. (\E i \in Chat!Ids : Chat!Live(i) /\ ~prompts[i].aborted) <=> \E i \in 1..Len(prompts) : Awaited(i)
    <3>1. \A i \in 1..Len(prompts) : prompts[i].aborted \in BOOLEAN
      <4>1. \A i \in 1..Len(prompts) : prompts[i] \in Prompts
        BY <2>1, ElementOfSeq DEF PanelTypes
      <4> QED BY <4>1 DEF Prompts
    <3> QED BY <2>1, <3>1 DEF Chat!Ids, Chat!Live, Awaited
  <2>5. streaming = (\E i \in Chat!Ids : Chat!Live(i) /\ ~prompts[i].aborted)
    BY <2>1, <2>4 DEF LockedIfAwaited, PanelTypes
  <2> QED BY <2>2, <2>3, <2>5, Zenon DEF Chat!NothingFromElsewhere
<1>2. Chat!Spec => []PanelInv
  BY PanelStart, PanelKeeps, PTL DEF Chat!Spec
<1> QED BY <1>1, <1>2, PTL

(* The types of the panel.  Once it is gone its sends may still end, and       *)
(* change nothing that is shown.                                               *)
PanelTypedInv == PanelInv /\ (mounted = FALSE => Chat!TypeOK)

LEMMA PanelTyped == PanelTypedInv => Chat!TypeOK
<1> SUFFICES ASSUME PanelInv, mounted = TRUE PROVE Chat!TypeOK
  BY DEF PanelTypedInv, PanelInv
<1>1. PanelTypes /\ OwnMessages
  BY DEF PanelInv
<1>2. DOMAIN messages = 1..Len(messages) /\ DOMAIN prompts = 1..Len(prompts) /\ Len(prompts) \in Nat
  BY <1>1, LenProperties DEF PanelTypes
<1> QED BY <1>1, <1>2 DEF PanelTypes, OwnMessages, Chat!TypeOK, Chat!Ids

LEMMA GoneTyped ==
  ASSUME Chat!TypeOK, [Chat!Next]_(Chat!pvars), mounted' = FALSE PROVE Chat!TypeOK'
<1>1. CASE UNCHANGED Chat!pvars
  BY <1>1 DEF Chat!pvars, Chat!TypeOK, Chat!Ids
<1>2. CASE Chat!Unmount
  <2>1. DOMAIN prompts' = DOMAIN prompts
    BY <1>2 DEF Chat!Unmount, Chat!Aborted
  <2> QED BY <1>2, <2>1 DEF Chat!Unmount, Chat!TypeOK, Chat!Ids
<1>3. ASSUME NEW i \in Chat!Ids, Chat!Respond(i) \/ Chat!Done(i) \/ Chat!Fail(i) PROVE Chat!TypeOK'
  <2>1. mounted = FALSE /\ ~Chat!Heard(i)
    BY <1>3 DEF Chat!Respond, Chat!Done, Chat!Fail, Chat!Finally, Chat!Heard
  <2>2. /\ DOMAIN prompts' = DOMAIN prompts /\ UNCHANGED <<shownOf, messages, error, streaming>>
        /\ current' \in {current, 0}
    BY <1>3, <2>1 DEF Chat!Respond, Chat!Done, Chat!Fail, Chat!Finally
  <2> QED BY <2>2 DEF Chat!TypeOK, Chat!Ids
<1>4. Chat!Next => Chat!Unmount \/ \E i \in Chat!Ids : Chat!Respond(i) \/ Chat!Done(i) \/ Chat!Fail(i)
  BY DEF Chat!Next, Chat!Send, Chat!Clear, Chat!Show, Chat!Chunk, Chat!Heard
<1> QED BY <1>1, <1>2, <1>3, <1>4

(* The messages, the error and the reply in the ref are of sends there were.   *)
THEOREM ChatTyped == Chat!Spec => []Chat!TypeOK
<1>1. Chat!Init => PanelTypedInv
  BY PanelStart DEF PanelTypedInv, Chat!Init
<1>2. PanelTypedInv /\ [Chat!Next]_(Chat!pvars) => PanelTypedInv'
  BY PanelKeeps, PanelTyped, GoneTyped DEF PanelTypedInv
<1> QED BY <1>1, <1>2, PanelTyped, PTL DEF Chat!Spec

-----------------------------------------------------------------------------
(* The AI Configurator.                                                        *)

ToolStates == {"there", "broken", "missing"}
Answered(input) == {Advisor!Default(input)} \cup {Advisor!Parsed(input, o) : o \in Outputs}
Answers == UNION {Answered(input) : input \in Inputs}
Runs == [pc : {"checking", "starting", "running", "cleaning", "done"}, input : Inputs,
         told : BOOLEAN, at : Int, answer : Answers]

(* What is known of the tool: the history runs up to now, and an answer that   *)
(* is kept was true at some time after the question was put.                   *)
HistoryTrue ==
  /\ today \in Nat /\ tool \in ToolStates /\ stood \in [ToolStates -> Int]
  /\ \A state \in ToolStates : stood[state] <= today
  /\ stood[tool] = today
StatusTrue ==
  /\ known.available \in BOOLEAN /\ known.until \in Int
  /\ known.until > 0 =>
       IF known.available = TRUE THEN stood["there"] + Ttl >= known.until
       ELSE stood["broken"] + Ttl >= known.until \/ stood["missing"] + ErrorTtl >= known.until

(* An analysis under way: its input and answer belong together, what it was    *)
(* told was true lately, and its directory is there only while it may be.      *)
Lately(told_, at_) ==
  IF told_ = TRUE THEN stood["there"] > at_ - Ttl
  ELSE stood["broken"] > at_ - Ttl \/ stood["missing"] > at_ - ErrorTtl
UnderWay(r) ==
  /\ run[r] \in Runs /\ run[r].at <= today
  /\ run[r].answer \in Answered(run[r].input)
  /\ run[r].pc # "checking" /\ run[r].input.wellNamed /\ host = "local" => Lately(run[r].told, run[r].at)
  /\ run[r].pc \in {"checking", "starting"} => r \notin dirs
  /\ run[r].pc = "done" /\ r \in dirs => r \in litter
RunsTrue ==
  /\ DOMAIN run = Analyses
  /\ \A r \in Analyses : (run[r] = Advisor!Idle /\ r \notin dirs) \/ UnderWay(r)

(* The panel waits for an analysis of what it asked last, or shows its answer. *)
PanelTrue ==
  /\ \A r \in panel.waits : r \in Analyses /\ run[r].pc # "idle" /\ panel.asked = {run[r].input}
  /\ \A advice \in panel.shows : panel.asked = {advice.input}

AdviceInv == HistoryTrue /\ StatusTrue /\ RunsTrue /\ PanelTrue

(* A default is for the GPUs there are, and a success is of a row that exists  *)
(* and is no worse than the other by what was asked for.                       *)
Fits(input, advice) ==
  /\ advice.input = input
  /\ IF advice.success THEN \E o \in Outputs : Advisor!NoWorse(advice, o)
     ELSE advice.mode = "aggregated" /\ advice.tp <= input.gpus

LEMMA AdviceConstants ==
  /\ Ttl \in Nat \ {0} /\ ErrorTtl \in 1..Ttl
  /\ \A input \in Inputs : input.gpus \in Nat
  /\ \A o \in Outputs : Advisor!BestRow(o.agg) /\ Advisor!BestRow(o.disagg)
BY ClientsAssumption DEF Advisor!AdviceAssumption

LEMMA WorstNumber == Advisor!Worst \in Int /\ Advisor!Worst < -1
BY SMT DEF Advisor!Worst

LEMMA DefaultFits ==
  ASSUME NEW input \in Inputs
  PROVE  Fits(input, Advisor!Default(input))
<1>1. input.gpus \in Nat
  BY AdviceConstants
<1>2. PICK advice : advice = Advisor!Default(input)
  OBVIOUS
<1>3. /\ advice.success = FALSE /\ advice.mode = "aggregated" /\ advice.input = input
      /\ advice.tp = IF input.gpus < 8 THEN input.gpus ELSE 8
  BY <1>2 DEF Advisor!Default
<1>4. advice.tp <= input.gpus
  BY <1>1, <1>3
<1> QED BY <1>2, <1>3, <1>4 DEF Fits

(* Scores of best rows are numbers, and the row that is chosen is there and no *)
(* worse than the other.                                                       *)
LEMMA ParsedFits ==
  ASSUME NEW input \in Inputs, NEW o \in Outputs
  PROVE  Fits(input, Advisor!Parsed(input, o))
<1>1. PICK agg : agg = o.agg
  OBVIOUS
<1>2. PICK disagg : disagg = o.disagg
  OBVIOUS
<1>3. Advisor!BestRow(agg) /\ Advisor!BestRow(disagg)
  BY <1>1, <1>2, AdviceConstants
<1>4. PICK turned \in BOOLEAN : turned = TRUE <=> Advisor!Disaggregates(o, input.target)
  OBVIOUS
<1>5. PICK best : best = IF turned = TRUE /\ disagg # << >> THEN disagg ELSE agg
  OBVIOUS
<1>6. CASE best = << >>
  <2>1. Advisor!Parsed(input, o) = Advisor!Default(input)
    BY <1>1, <1>2, <1>4, <1>5, <1>6 DEF Advisor!Parsed
  <2> QED BY <2>1, DefaultFits
<1>7. CASE best # << >>
  <2>1. PICK advice : advice = Advisor!Parsed(input, o)
    OBVIOUS
  <2>2. /\ advice.success = TRUE /\ advice.input = input
        /\ advice.mode = IF turned = TRUE THEN "disaggregated" ELSE "aggregated"
        /\ advice.tp = best[1].tp /\ advice.replicas = best[1].replicas
    BY <1>1, <1>2, <1>4, <1>5, <1>7, <2>1 DEF Advisor!Parsed
  <2> DEFINE score(rows) == Advisor!Score(rows, input.target)
             time(rows) == IF rows[1].ttft = Advisor!Missing THEN -Advisor!Worst ELSE rows[1].ttft
  <2>3. turned = TRUE <=> score(disagg) > score(agg)
    BY <1>1, <1>2, <1>4 DEF Advisor!Disaggregates
  <2>4. ASSUME NEW rows, Advisor!BestRow(rows)
        PROVE  IF rows = << >>
               THEN score(rows) = IF input.target = "latency" THEN Advisor!Worst ELSE 0
               ELSE IF input.target = "latency"
               THEN time(rows) \in Int /\ score(rows) = -time(rows) /\ score(rows) >= Advisor!Worst
               ELSE /\ rows[1].rate \in {-1} \cup (Nat \ {0})
                    /\ score(rows) = IF rows[1].rate = -1 THEN 0 ELSE rows[1].rate
    BY <2>4, WorstNumber DEF Advisor!Score, Advisor!BestRow, Advisor!Missing
  <2> HIDE DEF score
  <2>5. turned = TRUE => disagg # << >>
    <3>1. CASE input.target = "latency"
      BY <1>3, <2>3, <2>4, <3>1, WorstNumber
    <3>2. CASE input.target # "latency"
      BY <1>3, <2>3, <2>4, <3>2
    <3> QED BY <3>1, <3>2
  <2>6. best = IF turned = TRUE THEN disagg ELSE agg
    BY <1>5, <2>5
  <2>7. agg # << >> /\ disagg # << >> =>
          IF input.target = "latency"
          THEN IF turned = TRUE THEN time(disagg) <= time(agg) ELSE time(agg) <= time(disagg)
          ELSE IF turned = TRUE THEN disagg[1].rate >= agg[1].rate ELSE agg[1].rate >= disagg[1].rate
    <3>1. CASE input.target = "latency"
      BY <1>3, <2>3, <2>4, <3>1, WorstNumber
    <3>2. CASE input.target # "latency"
      BY <1>3, <2>3, <2>4, <3>2
    <3> QED BY <3>1, <3>2
  <2>8. Advisor!NoWorse(advice, o)
    <3>1. CASE turned = TRUE
      BY <1>1, <1>2, <1>7, <2>2, <2>6, <2>7, <3>1 DEF Advisor!NoWorse
    <3>2. CASE turned = FALSE
      BY <1>1, <1>2, <1>7, <2>2, <2>6, <2>7, <3>2 DEF Advisor!NoWorse
    <3> QED BY <3>1, <3>2
  <2> QED BY <2>1, <2>2, <2>8 DEF Fits
<1> QED BY <1>6, <1>7

LEMMA AnswersFit ==
  ASSUME NEW input \in Inputs, NEW advice \in Answered(input)
  PROVE  Fits(input, advice)
BY DefaultFits, ParsedFits DEF Answered

LEMMA AdviceStart == Advisor!Init => AdviceInv
<1> SUFFICES ASSUME Advisor!Init PROVE AdviceInv
  OBVIOUS
<1>1. HistoryTrue
  BY AdviceConstants DEF Advisor!Init, HistoryTrue, ToolStates
<1>2. StatusTrue
  <2>1. known = Advisor!NoStatus
    BY DEF Advisor!Init
  <2>2. known.available = FALSE /\ known.until = 0
    BY <2>1 DEF Advisor!NoStatus
  <2>3. known.available \in BOOLEAN
    BY <2>2
  <2>4. known.until \in Int /\ ~(known.until > 0)
    BY <2>2
  <2>5. known.until > 0 =>
          IF known.available = TRUE THEN stood["there"] + Ttl >= known.until
          ELSE stood["broken"] + Ttl >= known.until \/ stood["missing"] + ErrorTtl >= known.until
    BY <2>4
  <2> QED BY <2>3, <2>4, <2>5, Zenon DEF StatusTrue
<1>3. RunsTrue
  BY DEF Advisor!Init, RunsTrue
<1>4. PanelTrue
  BY DEF Advisor!Init, PanelTrue, Advisor!NoPanel
<1> QED BY <1>1, <1>2, <1>3, <1>4 DEF AdviceInv
-----------------------------------------------------------------------------
(* How each step of the configurator moves the parts of the invariant.         *)

(* Time and the tool move on; what was true lately stays so, for the history   *)
(* only grows.                                                                 *)
LEMMA TimeKeeps ==
  ASSUME AdviceInv, Advisor!Tick \/ \E state \in ToolStates : Advisor!Become(state)
  PROVE  AdviceInv'
<1>1. /\ HistoryTrue /\ StatusTrue /\ RunsTrue /\ PanelTrue
      /\ Ttl \in Nat /\ ErrorTtl \in Nat
  BY AdviceConstants DEF AdviceInv
<1>2. UNCHANGED <<host, known, dirs, run, panel, litter>>
  BY DEF Advisor!Tick, Advisor!Become
<1>3. /\ HistoryTrue' /\ today' >= today
      /\ \A state \in ToolStates : stood'[state] >= stood[state]
  <2>1. CASE Advisor!Tick
    <3>1. /\ today' = today + 1 /\ tool' = tool
          /\ stood' = [stood EXCEPT ![tool] = today + 1]
      BY <2>1 DEF Advisor!Tick
    <3> QED BY <1>1, <3>1 DEF HistoryTrue
  <2>2. ASSUME NEW state \in ToolStates, Advisor!Become(state)
        PROVE  /\ HistoryTrue' /\ today' >= today
               /\ \A s \in ToolStates : stood'[s] >= stood[s]
    <3>1. today' = today /\ tool' = state /\ stood' = [stood EXCEPT ![state] = today]
      BY <2>2 DEF Advisor!Become
    <3> QED BY <1>1, <3>1 DEF HistoryTrue
  <2> QED BY <2>1, <2>2
<1>4. /\ stood \in [ToolStates -> Int] /\ stood' \in [ToolStates -> Int]
      /\ today \in Nat /\ today' \in Nat
      /\ stood'["there"] >= stood["there"] /\ stood'["broken"] >= stood["broken"]
      /\ stood'["missing"] >= stood["missing"]
      /\ stood["there"] \in Int /\ stood["broken"] \in Int /\ stood["missing"] \in Int
      /\ stood'["there"] \in Int /\ stood'["broken"] \in Int /\ stood'["missing"] \in Int
  BY <1>1, <1>3 DEF HistoryTrue, ToolStates
<1>5. StatusTrue'
  BY <1>1, <1>2, <1>4 DEF StatusTrue
<1>6. RunsTrue'
  <2> SUFFICES ASSUME NEW r \in Analyses, UnderWay(r) PROVE UnderWay(r)'
    BY <1>1, <1>2 DEF RunsTrue
  <2>1. run[r] \in Runs /\ run[r].at \in Int
    BY DEF UnderWay, Runs
  <2>2. Lately(run[r].told, run[r].at) => Lately(run[r].told, run[r].at)'
    BY <1>1, <1>2, <1>4, <2>1 DEF Lately
  <2>3. run[r].at <= today => run[r].at <= today'
    BY <1>3, <1>4, <2>1
  <2> QED BY <1>2, <2>2, <2>3 DEF UnderWay
<1>7. PanelTrue'
  BY <1>1, <1>2 DEF PanelTrue
<1> QED BY <1>3, <1>5, <1>6, <1>7 DEF AdviceInv

(* A step of one analysis that knows nothing new of the tool: what has to hold *)
(* of it afterwards is enough.                                                 *)
LEMMA OneRunKeeps ==
  ASSUME AdviceInv, NEW r \in Analyses, NEW new,
         run' = [run EXCEPT ![r] = new],
         UNCHANGED <<host, tool, today, stood>>,
         \A q \in Analyses \ {r} : (q \in dirs' <=> q \in dirs) /\ (q \in litter' <=> q \in litter),
         (new = Advisor!Idle /\ r \notin dirs') \/ UnderWay(r)'
  PROVE  HistoryTrue' /\ RunsTrue'
<1>1. HistoryTrue /\ RunsTrue
  BY DEF AdviceInv
<1>2. HistoryTrue'
  BY <1>1 DEF HistoryTrue
<1>3. DOMAIN run' = Analyses /\ run'[r] = new
  BY <1>1 DEF RunsTrue
<1>4. ASSUME NEW q \in Analyses, q # r
      PROVE  (run'[q] = Advisor!Idle /\ q \notin dirs') \/ UnderWay(q)'
  <2>1. run'[q] = run[q]
    BY <1>1, <1>4 DEF RunsTrue
  <2>2. CASE run[q] = Advisor!Idle /\ q \notin dirs
    BY <1>4, <2>1, <2>2
  <2>3. CASE UnderWay(q)
    <3>1. Lately(run[q].told, run[q].at)' <=> Lately(run[q].told, run[q].at)
      BY <2>1 DEF Lately
    <3> QED BY <1>4, <2>1, <2>3, <3>1 DEF UnderWay
  <2> QED BY <1>1, <2>2, <2>3 DEF RunsTrue
<1>5. RunsTrue'
  BY <1>3, <1>4 DEF RunsTrue
<1> QED BY <1>2, <1>5
(* analyze up to its first await, on a cached answer, on none or on no tool.   *)
LEMMA ReceiveKeeps ==
  ASSUME AdviceInv, NEW r \in Analyses, NEW input \in Inputs, Advisor!Receive(r, input),
         UNCHANGED <<host, tool, today, known, dirs, stood, litter>>
  PROVE  /\ HistoryTrue' /\ StatusTrue' /\ RunsTrue'
         /\ run[r].pc = "idle" /\ run'[r].pc # "idle" /\ run'[r].input = input
         /\ \A q \in Analyses : q # r => run'[q] = run[q]
<1>1. /\ HistoryTrue /\ StatusTrue /\ RunsTrue
      /\ Ttl \in Nat /\ ErrorTtl \in Nat /\ run[r].pc = "idle"
  BY AdviceConstants DEF AdviceInv, Advisor!Receive
<1>2. r \notin dirs
  BY <1>1 DEF RunsTrue, UnderWay, Runs
<1>3. PICK pc_ \in {"checking", "starting", "done"}, told_ \in BOOLEAN :
        /\ run' = [run EXCEPT ![r] = [pc |-> pc_, input |-> input, told |-> told_, at |-> today,
                                      answer |-> Advisor!Default(input)]]
        /\ pc_ # "checking" /\ input.wellNamed /\ host = "local" => Advisor!Valid /\ told_ = known.available
  <2>1. known.available \in BOOLEAN
    BY <1>1 DEF StatusTrue
  <2>2. CASE ~input.wellNamed \/ host # "local"
    BY <2>2 DEF Advisor!Receive, Advisor!Told
  <2>3. CASE ~(~input.wellNamed \/ host # "local") /\ Advisor!Valid
    <3>1. Advisor!Told(r, input, known.available, "known")
      BY <2>3 DEF Advisor!Receive
    <3>2. CASE known.available = TRUE
      BY <2>3, <3>1, <3>2 DEF Advisor!Told
    <3>3. CASE known.available = FALSE
      BY <2>3, <3>1, <3>3 DEF Advisor!Told
    <3> QED BY <2>1, <3>2, <3>3
  <2>4. CASE ~(~input.wellNamed \/ host # "local") /\ ~Advisor!Valid
    BY <2>4 DEF Advisor!Receive, Advisor!Told
  <2> QED BY <2>2, <2>3, <2>4
<1>4. PICK new : new = [pc |-> pc_, input |-> input, told |-> told_, at |-> today,
                        answer |-> Advisor!Default(input)]
  OBVIOUS
<1>5. /\ run' = [run EXCEPT ![r] = new]
      /\ new.pc = pc_ /\ new.input = input /\ new.told = told_ /\ new.at = today
      /\ new.answer = Advisor!Default(input)
  BY <1>3, <1>4
<1>6. run'[r] = new /\ \A q \in Analyses : q # r => run'[q] = run[q]
  BY <1>1, <1>5 DEF RunsTrue
<1>7. today \in Nat /\ today' = today
  BY <1>1 DEF HistoryTrue
<1>8. new \in Runs
  <2>1. Advisor!Default(input) \in Answers
    BY DEF Answers, Answered
  <2> QED BY <1>4, <1>7, <2>1 DEF Runs
<1>9. Advisor!Valid => Lately(known.available, today)
  <2>1. /\ known.until \in Int /\ stood["there"] \in Int /\ stood["broken"] \in Int
        /\ stood["missing"] \in Int
    BY <1>1 DEF StatusTrue, HistoryTrue, ToolStates
  <2> QED BY <1>1, <1>7, <2>1 DEF StatusTrue, Lately, Advisor!Valid
<1>10. UnderWay(r)'
  <2>1. pc_ # "checking" /\ input.wellNamed /\ host = "local" => Lately(told_, today)
    BY <1>3, <1>9
  <2>2. Lately(told_, today)' <=> Lately(told_, today)
    BY <1>7 DEF Lately
  <2>3. run'[r].pc # "checking" /\ run'[r].input.wellNamed /\ host' = "local" =>
          Lately(run[r].told, run[r].at)'
    BY <1>5, <1>6, <1>7, <2>1, <2>2 DEF Lately
  <2>4. run'[r].at <= today'
    BY <1>5, <1>6, <1>7
  <2>5. run'[r].answer \in Answered(run'[r].input)
    BY <1>5, <1>6 DEF Answered
  <2> QED BY <1>2, <1>6, <1>8, <2>3, <2>4, <2>5 DEF UnderWay
<1>11. HistoryTrue' /\ RunsTrue'
  BY <1>5, <1>10, OneRunKeeps
<1>12. StatusTrue'
  BY <1>1 DEF StatusTrue
<1> QED BY <1>1, <1>3, <1>5, <1>6, <1>11, <1>12

(* A step of an analysis under way by itself: check, directory, tool, finally. *)
LEMMA WorkKeeps ==
  ASSUME AdviceInv, NEW r \in Analyses,
         \/ Advisor!Check(r) \/ Advisor!Succeed(r) \/ Advisor!Fail(r)
         \/ \E done \in BOOLEAN : Advisor!MakeDirectory(r, done) \/ Advisor!Clean(r, done)
  PROVE  AdviceInv'
<1>1. /\ HistoryTrue /\ StatusTrue /\ RunsTrue /\ PanelTrue
      /\ Ttl \in Nat /\ ErrorTtl \in Nat /\ panel' = panel /\ host' = host /\ today' = today
      /\ tool' = tool /\ stood' = stood
  BY AdviceConstants DEF AdviceInv, Advisor!Check, Advisor!Succeed, Advisor!Fail, Advisor!Finish,
     Advisor!MakeDirectory, Advisor!Clean
<1>2. run[r].pc \in {"checking", "starting", "running", "cleaning"} /\ UnderWay(r)
  <2>1. run[r].pc \in {"checking", "starting", "running", "cleaning"}
    BY DEF Advisor!Check, Advisor!Succeed, Advisor!Fail, Advisor!Finish, Advisor!MakeDirectory,
       Advisor!Clean
  <2> QED BY <1>1, <2>1 DEF RunsTrue, Advisor!Idle
<1>3. run[r] \in Runs /\ today \in Nat
  BY <1>1, <1>2 DEF UnderWay, HistoryTrue
<1>4. PICK new :
        /\ run' = [run EXCEPT ![r] = new]
        /\ new \in Runs /\ new.input = run[r].input
        /\ new.answer \in Answered(new.input)
        /\ new.at <= today
        /\ new.pc # "checking" /\ new.input.wellNamed /\ host = "local" => Lately(new.told, new.at)
        /\ new.pc \in {"checking", "starting"} => r \notin dirs'
        /\ new.pc = "done" /\ r \in dirs' => r \in litter'
        /\ StatusTrue'
        /\ \A q \in Analyses \ {r} : (q \in dirs' <=> q \in dirs) /\ (q \in litter' <=> q \in litter)
  <2>1. CASE Advisor!Check(r)
    <3>1. PICK told_ \in BOOLEAN : told_ = TRUE <=> tool = "there"
      OBVIOUS
    <3>phase. PICK p \in {"starting", "done"} : p = IF told_ = TRUE THEN "starting" ELSE "done"
      OBVIOUS
    <3>2. PICK new : new = [run[r] EXCEPT !.pc = p, !.told = told_, !.at = today]
      OBVIOUS
    <3>clock. today \in Int
      BY <1>3
    <3>3. /\ new \in Runs /\ new.input = run[r].input /\ new.answer = run[r].answer
          /\ new.at = today /\ new.told = told_
          /\ new.pc = IF told_ = TRUE THEN "starting" ELSE "done"
      <4>1. new.input = run[r].input /\ new.answer = run[r].answer /\ new.at = today /\ new.pc = p
        BY <1>3, <3>2 DEF Runs
      <4>2. new.told = told_
        BY <1>3, <3>2 DEF Runs
      <4>3. new \in Runs
        BY <1>3, <3>2, <3>clock DEF Runs
      <4> QED BY <3>phase, <4>1, <4>2, <4>3
    <3>4. /\ run' = [run EXCEPT ![r] = new] /\ dirs' = dirs /\ litter' = litter
          /\ run[r].pc = "checking"
      <4>1. told_ = (tool = "there")
        BY <3>1
      <4> QED BY <2>1, <3>phase, <3>2, <4>1 DEF Advisor!Check
    <3>5. /\ known'.available \in BOOLEAN /\ known'.available = told_
          /\ known'.until = run[r].at + IF tool = "missing" THEN ErrorTtl ELSE Ttl
      <4>1. told_ = (tool = "there")
        BY <3>1
      <4>2. known' = [available |-> told_, at |-> run[r].at,
                      until |-> run[r].at + IF tool = "missing" THEN ErrorTtl ELSE Ttl]
        BY <2>1, <4>1 DEF Advisor!Check
      <4> QED BY <4>2
    <3>6. stood[tool] = today /\ tool \in ToolStates /\ run[r].at \in Int /\ run[r].at <= today
      BY <1>1, <1>2, <1>3 DEF HistoryTrue, UnderWay, Runs
    <3>7. StatusTrue'
      <4>1. CASE tool = "there"
        BY <1>1, <1>3, <3>1, <3>5, <3>6, <4>1 DEF StatusTrue
      <4>2. CASE tool = "broken"
        BY <1>1, <1>3, <3>1, <3>5, <3>6, <4>2 DEF StatusTrue
      <4>3. CASE tool = "missing"
        BY <1>1, <1>3, <3>1, <3>5, <3>6, <4>3 DEF StatusTrue
      <4> QED BY <3>6, <4>1, <4>2, <4>3 DEF ToolStates
    <3>8. Lately(told_, today)
      <4>1. Ttl > 0 /\ ErrorTtl > 0
        BY AdviceConstants
      <4> QED BY <1>1, <1>3, <3>1, <3>6, <4>1 DEF Lately, ToolStates
    <3>9. r \notin dirs
      BY <1>2, <3>4 DEF UnderWay
    <3>10. new.at <= today /\ new.answer \in Answered(new.input)
      BY <1>2, <1>3, <3>3 DEF UnderWay
    <3> QED BY <3>3, <3>4, <3>7, <3>8, <3>9, <3>10
  <2>2. CASE Advisor!Succeed(r) \/ Advisor!Fail(r)
    <3>1. PICK told_ : /\ told_ \in Answered(run[r].input)
                       /\ Advisor!Finish(r, told_)
      BY <2>2 DEF Advisor!Succeed, Advisor!Fail, Answered
    <3>2. PICK new : new = [run[r] EXCEPT !.pc = "cleaning", !.answer = told_]
      OBVIOUS
    <3>3. told_ \in Answers
      BY <1>3, <3>1 DEF Answers, Runs
    <3>4. /\ new \in Runs /\ new.input = run[r].input /\ new.answer = told_
          /\ new.at = run[r].at /\ new.told = run[r].told /\ new.pc = "cleaning"
      BY <1>3, <3>2, <3>3 DEF Runs
    <3>5. /\ run' = [run EXCEPT ![r] = new] /\ dirs' = dirs /\ litter' = litter /\ known' = known
          /\ run[r].pc = "running"
      BY <3>1, <3>2 DEF Advisor!Finish
    <3>6. StatusTrue'
      BY <1>1, <3>5 DEF StatusTrue
    <3> QED BY <1>2, <3>1, <3>4, <3>5, <3>6 DEF UnderWay
  <2>3. ASSUME NEW done \in BOOLEAN, Advisor!MakeDirectory(r, done) \/ Advisor!Clean(r, done)
        PROVE  \E p \in {"running", "cleaning", "done"} :
                 /\ run' = [run EXCEPT ![r].pc = p] /\ run[r].pc # "checking"
                 /\ p = "done" /\ r \in dirs' => r \in litter'
                 /\ known' = known
                 /\ \A q \in Analyses \ {r} : (q \in dirs' <=> q \in dirs) /\ (q \in litter' <=> q \in litter)
    BY <2>3 DEF Advisor!MakeDirectory, Advisor!Clean
  <2>4. CASE \E done \in BOOLEAN : Advisor!MakeDirectory(r, done) \/ Advisor!Clean(r, done)
    <3>1. PICK p \in {"running", "cleaning", "done"} :
            /\ run' = [run EXCEPT ![r].pc = p] /\ run[r].pc # "checking"
            /\ p = "done" /\ r \in dirs' => r \in litter'
            /\ known' = known
            /\ \A q \in Analyses \ {r} : (q \in dirs' <=> q \in dirs) /\ (q \in litter' <=> q \in litter)
      BY <2>3, <2>4
    <3>2. PICK new : new = [run[r] EXCEPT !.pc = p]
      OBVIOUS
    <3>3. /\ new \in Runs /\ new.input = run[r].input /\ new.answer = run[r].answer
          /\ new.at = run[r].at /\ new.told = run[r].told /\ new.pc = p
      BY <1>3, <3>2 DEF Runs
    <3>4. run' = [run EXCEPT ![r] = new]
      BY <3>1, <3>2
    <3>5. StatusTrue'
      BY <1>1, <3>1 DEF StatusTrue
    <3> QED BY <1>2, <3>1, <3>3, <3>4, <3>5 DEF UnderWay
  <2> QED BY <2>1, <2>2, <2>4
<1>5. run'[r] = new /\ \A q \in Analyses : q # r => run'[q] = run[q]
  BY <1>1, <1>4 DEF RunsTrue
<1>6. UnderWay(r)'
  <2>1. Lately(new.told, new.at) => Lately(run[r].told, run[r].at)'
    BY <1>1, <1>5 DEF Lately
  <2> QED BY <1>1, <1>4, <1>5, <2>1 DEF UnderWay
<1>7. HistoryTrue' /\ RunsTrue'
  BY <1>1, <1>4, <1>6, OneRunKeeps
<1>8. PanelTrue'
  <2>1. new.pc # "idle" /\ new.input = run[r].input
    BY <1>4 DEF Runs
  <2> QED BY <1>1, <1>5, <2>1 DEF PanelTrue
<1> QED BY <1>4, <1>7, <1>8 DEF AdviceInv

(* The panel: asking clears it and waits, an answer that is waited for is      *)
(* shown, and another runtime forgets all of it.                               *)
LEMMA PanelStepKeeps ==
  ASSUME AdviceInv,
         \/ Advisor!Discard \/ Advisor!SwitchRuntime
         \/ \E r \in Analyses : \/ \E input \in Inputs : Advisor!Press(r, input) \/ Advisor!Post(r, input)
                                \/ Advisor!Respond(r)
  PROVE  AdviceInv'
<1>1. HistoryTrue /\ StatusTrue /\ RunsTrue /\ PanelTrue
  BY DEF AdviceInv
<1>2. CASE Advisor!Discard \/ Advisor!SwitchRuntime
  <2>1. UNCHANGED <<host, tool, today, known, dirs, run, stood, litter>>
    BY <1>2 DEF Advisor!Discard, Advisor!SwitchRuntime
  <2>2. HistoryTrue' /\ StatusTrue' /\ RunsTrue'
    BY <1>1, <2>1, Zenon DEF HistoryTrue, StatusTrue, RunsTrue, UnderWay, Lately
  <2>3. CASE Advisor!Discard
    <3>1. PICK new : new = [panel EXCEPT !.shows = {}]
      OBVIOUS
    <3>2. panel' = new
      BY <2>3, <3>1 DEF Advisor!Discard
    <3>3. new.waits = panel.waits /\ new.asked = panel.asked /\ new.shows \subseteq panel.shows
      BY <3>1
    <3> QED BY <1>1, <2>1, <2>2, <3>2, <3>3 DEF PanelTrue, AdviceInv
  <2>4. CASE Advisor!SwitchRuntime
    <3>1. panel'.waits = {} /\ panel'.shows = {}
      BY <2>4 DEF Advisor!SwitchRuntime, Advisor!NoPanel
    <3> QED BY <2>2, <3>1 DEF PanelTrue, AdviceInv
  <2> QED BY <1>2, <2>3, <2>4
<1>3. ASSUME NEW r \in Analyses, NEW input \in Inputs, Advisor!Press(r, input)
      PROVE  AdviceInv'
  <2>1. /\ Advisor!Receive(r, input) /\ UNCHANGED <<host, tool, today, known, dirs, stood, litter>>
        /\ panel' = [waits |-> {r}, asked |-> {input}, shows |-> {}]
    BY <1>3 DEF Advisor!Press
  <2>2. /\ HistoryTrue' /\ StatusTrue' /\ RunsTrue'
        /\ run'[r].pc # "idle" /\ run'[r].input = input
    BY <2>1, ReceiveKeeps
  <2>3. panel'.waits = {r} /\ panel'.asked = {input} /\ panel'.shows = {}
    BY <2>1
  <2> QED BY <2>2, <2>3 DEF PanelTrue, AdviceInv
<1>4. ASSUME NEW r \in Analyses, NEW input \in Inputs, Advisor!Post(r, input)
      PROVE  AdviceInv'
  <2>1. /\ Advisor!Receive(r, input) /\ UNCHANGED <<host, tool, today, known, dirs, stood, litter>>
        /\ panel' = panel
    BY <1>4 DEF Advisor!Post
  <2>2. /\ HistoryTrue' /\ StatusTrue' /\ RunsTrue' /\ run[r].pc = "idle"
        /\ \A q \in Analyses : q # r => run'[q] = run[q]
    BY <2>1, ReceiveKeeps
  <2> QED BY <1>1, <2>1, <2>2 DEF PanelTrue, AdviceInv
<1>5. ASSUME NEW r \in Analyses, Advisor!Respond(r)
      PROVE  AdviceInv'
  <2>1. /\ run[r].pc = "done" /\ run' = [run EXCEPT ![r] = Advisor!Idle]
        /\ dirs' = dirs \ {r} /\ litter' = litter \ {r}
        /\ panel' = IF r \in panel.waits THEN [panel EXCEPT !.waits = {}, !.shows = {run[r].answer}] ELSE panel
        /\ UNCHANGED <<host, tool, today, known, stood>>
    BY <1>5 DEF Advisor!Respond
  <2>2. HistoryTrue' /\ RunsTrue'
    BY <2>1, OneRunKeeps
  <2>3. StatusTrue'
    BY <1>1, <2>1 DEF StatusTrue
  <2>4. \A q \in Analyses : q # r => run'[q] = run[q]
    BY <1>1, <2>1 DEF RunsTrue
  <2>5. CASE r \in panel.waits
    <3>1. PICK new : new = [panel EXCEPT !.waits = {}, !.shows = {run[r].answer}]
      OBVIOUS
    <3>2. panel' = new
      BY <2>1, <2>5, <3>1
    <3>3. new.waits = {} /\ new.shows = {run[r].answer} /\ new.asked = panel.asked
      BY <1>1, <2>5, <3>1
    <3>4. run[r].answer.input = run[r].input
      <4>1. UnderWay(r)
        BY <1>1, <2>1 DEF RunsTrue, Advisor!Idle
      <4>2. run[r].input \in Inputs /\ run[r].answer \in Answered(run[r].input)
        BY <4>1 DEF UnderWay, Runs
      <4> QED BY <4>2, AnswersFit DEF Fits
    <3> QED BY <1>1, <2>2, <2>3, <2>5, <3>2, <3>3, <3>4 DEF PanelTrue, AdviceInv
  <2>6. CASE r \notin panel.waits
    BY <1>1, <2>1, <2>2, <2>3, <2>4, <2>6 DEF PanelTrue, AdviceInv
  <2> QED BY <2>5, <2>6
<1> QED BY <1>2, <1>3, <1>4, <1>5

(* The advice: what an analysis is told of the tool was true within the life   *)
(* of the cached answer, its answer is no worse than the other row or the      *)
(* default, its directory goes, and the panel shows the answer to what it      *)
(* asked last (services/aiconfigurator.ts, AIConfiguratorPanel.tsx): for any   *)
(* number of analyses at a time and any lives of the cached answer.            *)
THEOREM AdviceHolds == Advisor!Spec => []Advisor!AdviceIsSound
<1>1. AdviceInv => Advisor!AdviceIsSound
  <2> SUFFICES ASSUME AdviceInv PROVE Advisor!AdviceIsSound
    OBVIOUS
  <2>1. RunsTrue /\ PanelTrue
    BY DEF AdviceInv
  <2>2. ASSUME NEW r \in Analyses, run[r].pc # "idle" PROVE UnderWay(r)
    BY <2>1, <2>2 DEF RunsTrue, Advisor!Idle
  <2>3. ASSUME NEW r \in Analyses, run[r].pc # "idle", run[r].pc # "checking",
               run[r].input.wellNamed, host = "local"
        PROVE  IF run[r].told THEN stood["there"] > run[r].at - Ttl
               ELSE stood["broken"] > run[r].at - Ttl \/ stood["missing"] > run[r].at - ErrorTtl
    <3>1. run[r].told \in BOOLEAN /\ Lately(run[r].told, run[r].at)
      BY <2>2, <2>3 DEF UnderWay, Runs
    <3>2. CASE run[r].told = TRUE
      BY <3>1, <3>2 DEF Lately
    <3>3. CASE run[r].told = FALSE
      BY <3>1, <3>3 DEF Lately
    <3> QED BY <3>1, <3>2, <3>3
  <2>4. ASSUME NEW r \in Analyses, run[r].pc = "done"
        PROVE  /\ r \in dirs => r \in litter
               /\ IF run[r].answer.success THEN \E o \in Outputs : Advisor!NoWorse(run[r].answer, o)
                  ELSE run[r].answer.mode = "aggregated" /\ run[r].answer.tp <= run[r].input.gpus
    <3>1. UnderWay(r)
      BY <2>2, <2>4
    <3>2. /\ run[r].input \in Inputs /\ run[r].answer \in Answered(run[r].input)
          /\ r \in dirs => r \in litter
      BY <2>4, <3>1 DEF UnderWay, Runs
    <3>3. Fits(run[r].input, run[r].answer)
      BY <3>2, AnswersFit
    <3> QED BY <3>2, <3>3 DEF Fits
  <2>5. \A a \in panel.shows : panel.asked = {a.input}
    BY <2>1 DEF PanelTrue
  <2> QED BY <2>3, <2>4, <2>5, Zenon DEF Advisor!AdviceIsSound
<1>2. AdviceInv /\ [Advisor!Next]_(Advisor!avars) => AdviceInv'
  <2> SUFFICES ASSUME AdviceInv, [Advisor!Next]_(Advisor!avars) PROVE AdviceInv'
    OBVIOUS
  <2>1. CASE UNCHANGED Advisor!avars
    <3>1. UNCHANGED <<host, tool, today, known, dirs, run, panel, stood, litter>>
      BY <2>1 DEF Advisor!avars
    <3> QED BY <3>1, Zenon DEF AdviceInv, HistoryTrue, StatusTrue, RunsTrue, PanelTrue, UnderWay, Lately
  <2>2. CASE Advisor!Next
    BY <2>2, TimeKeeps, WorkKeeps, PanelStepKeeps DEF Advisor!Next, ToolStates
  <2> QED BY <2>1, <2>2
<1>3. Advisor!Spec => []AdviceInv
  BY AdviceStart, <1>2, PTL DEF Advisor!Spec
<1> QED BY <1>1, <1>3, PTL

-----------------------------------------------------------------------------
(* The deploy page (DeploymentForm.tsx).                                       *)

(* The form's record, and what an effect leaves of it.                         *)
FormFields ==
  {"runtime", "manual", "managed", "backends", "provider", "engine", "mode", "source", "image", "gpu",
   "nodes", "tp", "pp", "quant", "args", "extras", "recipe", "recipes", "choice", "text", "router",
   "gateway", "storage", "compute", "runMode", "file", "premade"}
MaybeImages == Form!Images \cup {Form!Unset}
FormTypes(f) ==
  /\ DOMAIN f = FormFields
  /\ f.runtime \in Runtimes /\ f.provider \in Runtimes
  /\ f.gpu \in Nat /\ f.nodes \in Nat \ {0} /\ f.tp \in Nat /\ f.pp \in Nat
  /\ f.image \in MaybeImages /\ f.text \in MaybeImages
  /\ f.choice \in {"nightly", "stable", "custom"}
PropsTypes(p) == p.capacity \in Nat /\ p.ready \in SUBSET Runtimes

SameTyped(g, f) ==
  /\ g.manual = f.manual /\ g.managed = f.managed /\ g.storage = f.storage /\ g.router = f.router
  /\ g.choice = f.choice /\ g.text = f.text
SameDirect(g, f) ==
  /\ g.runtime = f.runtime /\ g.provider = f.provider /\ g.engine = f.engine /\ g.source = f.source
  /\ g.mode = f.mode /\ g.image = f.image /\ g.recipe = f.recipe
SameSize(g, f) == g.gpu = f.gpu /\ g.nodes = f.nodes /\ g.tp = f.tp /\ g.pp = f.pp

LEMMA FormConstants ==
  /\ Form!Unset \notin Runtimes /\ {"dynamo", "kaito", "vllm"} \subseteq Runtimes
  /\ ModesOf["vllm"]["vllm"] \subseteq {"aggregated"}
  /\ Need \in Nat \ {0} /\ Capacities \subseteq Nat \ {0}
  /\ \A a \in Advice : a.tp \in Nat \ {0} /\ a.pp \in Nat \ {0}
BY ClientsAssumption DEF Form!FormAssumption

LEMMA LeastOfSet == ASSUME NEW S, S \subseteq Nat, S # {} PROVE \E j \in S : \A i \in S : j <= i
<1> DEFINE below == {ss \in Nat \X Nat : ss[1] < ss[2]}
<1>1. IsWellFoundedOn(below, Nat)
  BY NatLessThanWellFounded, Zenon DEF OpToRel
<1>2. PICK j \in S : \A i \in S : ~(<<i, j>> \in below)
  BY <1>1, WFMin
<1>3. ASSUME NEW i \in S PROVE j <= i
  <2>1. i \in Nat /\ j \in Nat /\ <<i, j>> \notin below
    BY <1>2
  <2> QED BY <2>1
<1> QED BY <1>3

LEMMA FirstFits ==
  ASSUME NEW wanted \in SUBSET Runtimes, wanted # {}
  PROVE  Form!FirstIn(Priority, wanted) \in wanted
<1>1. Priority \in Seq(Runtimes) /\ Runtimes \subseteq {Priority[i] : i \in DOMAIN Priority}
  BY ClientsAssumption DEF Form!FormAssumption
<1> DEFINE hits == {i \in DOMAIN Priority : Priority[i] \in wanted}
<1>2. hits # {} /\ hits \subseteq Nat
  BY <1>1
<1>3. \E i \in hits : \A j \in hits : i <= j
  BY <1>2, LeastOfSet
<1> QED BY <1>2, <1>3, Zenon DEF Form!FirstIn

LEMMA DefaultIsOne == ASSUME NEW p, PropsTypes(p) PROVE Form!DefaultRuntime(p) \in Runtimes
<1>1. Priority \in Seq(Runtimes) /\ "dynamo" \in {Priority[i] : i \in DOMAIN Priority}
  BY ClientsAssumption DEF Form!FormAssumption
<1>2. Priority[1] \in Runtimes
  BY <1>1
<1> DEFINE fits == {r \in Runtimes : Form!Compatible(r, "aggregated")}
<1>3. /\ fits \cap p.ready # {} => Form!FirstIn(Priority, fits \cap p.ready) \in Runtimes
      /\ fits # {} => Form!FirstIn(Priority, fits) \in Runtimes
      /\ p.ready # {} => Form!FirstIn(Priority, p.ready) \in Runtimes
  BY FirstFits DEF PropsTypes
<1> QED BY <1>2, <1>3, FormConstants, Zenon DEF Form!DefaultRuntime

LEMMA CeilingIsNat == ASSUME NEW a \in Nat \ {0}, NEW b \in Nat \ {0}
                      PROVE  Form!Ceiling(a, b) \in Nat \ {0}
BY DEF Form!Ceiling
LEMMA RecommendedTypes ==
  ASSUME NEW p, PropsTypes(p)
  PROVE  /\ Form!Recommended(p).gpus \in Nat \ {0} /\ Form!Recommended(p).nodes \in Nat \ {0}
         /\ p.capacity = 0 => Form!Recommended(p).nodes = 1
<1>1. p.capacity \in Nat /\ Need \in Nat \ {0}
  BY FormConstants DEF PropsTypes
<1>2. p.capacity # 0 => Form!Ceiling(Need, p.capacity) \in Nat \ {0}
  BY <1>1, CeilingIsNat
<1>3. CASE p.capacity = 0
  <2>2. Form!Recommended(p) = [gpus |-> 1, nodes |-> 1]
    BY <1>3, SMT DEF Form!Recommended
  <2> QED BY <1>3, <2>2
<1>4. CASE p.capacity # 0 /\ Need > p.capacity
  BY <1>1, <1>2, <1>4 DEF Form!Recommended
<1>5. CASE p.capacity # 0 /\ ~(Need > p.capacity)
  BY <1>1, <1>5 DEF Form!Recommended
<1> QED BY <1>3, <1>4, <1>5

LEMMA FourRenders ==
  ASSUME NEW of, NEW op, NEW f, NEW p,
         NEW r1, r1 = Form!Render(of, op, f, p), NEW r2, r2 = Form!Render(f, p, r1, p),
         NEW r3, r3 = Form!Render(r1, p, r2, p)
  PROVE  Form!Settle(of, op, f, p) = Form!Render(r2, p, r3, p)
<1> DEFINE Next_(S) == {<<x[3], x[4], Form!Render(x[1], x[2], x[3], x[4]), x[4]>> : x \in S}
           Is(g) == g = [k \in 0..4 |-> IF k = 0 THEN {<<of, op, f, p>>} ELSE Next_(g[k - 1])]
           after == CHOOSE g : Is(g)
           r4 == Form!Render(r2, p, r3, p)
           five == [k \in 0..4 |-> CASE k = 0 -> {<<of, op, f, p>>} [] k = 1 -> {<<f, p, r1, p>>}
                      [] k = 2 -> {<<r1, p, r2, p>>} [] k = 3 -> {<<r2, p, r3, p>>}
                      [] OTHER -> {<<r3, p, r4, p>>}]
<1>1. /\ Next_({<<of, op, f, p>>}) = {<<f, p, r1, p>>} /\ Next_({<<f, p, r1, p>>}) = {<<r1, p, r2, p>>}
      /\ Next_({<<r1, p, r2, p>>}) = {<<r2, p, r3, p>>} /\ Next_({<<r2, p, r3, p>>}) = {<<r3, p, r4, p>>}
  OBVIOUS
<1> HIDE DEF Next_
<1>2. /\ five[0] = {<<of, op, f, p>>} /\ five[1] = {<<f, p, r1, p>>} /\ five[2] = {<<r1, p, r2, p>>}
      /\ five[3] = {<<r2, p, r3, p>>} /\ five[4] = {<<r3, p, r4, p>>}
  OBVIOUS
<1>3. Is(five)
  <2>1. \A k \in 0..4 : five[k] = IF k = 0 THEN {<<of, op, f, p>>} ELSE Next_(five[k - 1])
    <3> SUFFICES ASSUME NEW k \in 0..4
                 PROVE  five[k] = IF k = 0 THEN {<<of, op, f, p>>} ELSE Next_(five[k - 1])
      OBVIOUS
    <3> HIDE DEF five
    <3>1. k \in {0, 1, 2, 3, 4}
      OBVIOUS
    <3>2. k # 0 => five[k] = Next_(five[k - 1])
      <4>1. k = 1 => five[k] = {<<f, p, r1, p>>} /\ five[k - 1] = {<<of, op, f, p>>}
        BY <1>2
      <4>2. k = 2 => five[k] = {<<r1, p, r2, p>>} /\ five[k - 1] = {<<f, p, r1, p>>}
        BY <1>2
      <4>3. k = 3 => five[k] = {<<r2, p, r3, p>>} /\ five[k - 1] = {<<r1, p, r2, p>>}
        BY <1>2
      <4>4. k = 4 => five[k] = {<<r3, p, r4, p>>} /\ five[k - 1] = {<<r2, p, r3, p>>}
        BY <1>2
      <4> QED BY <3>1, <4>1, <4>2, <4>3, <4>4, <1>1, Zenon
    <3> QED BY <3>2, <1>2, Zenon
  <2>2. five = [k \in 0..4 |-> five[k]]
    OBVIOUS
  <2> HIDE DEF five
  <2> QED BY <2>1, <2>2, Zenon
<1> HIDE DEF five
<1>4. Is(after)
  BY <1>3, Zenon
<1> HIDE DEF after
<1>5. \A k \in 0..4 : after[k] = IF k = 0 THEN {<<of, op, f, p>>} ELSE Next_(after[k - 1])
  BY <1>4
<1>6. after[0] = {<<of, op, f, p>>} /\ after[1] = Next_(after[0]) /\ after[2] = Next_(after[1])
      /\ after[3] = Next_(after[2]) /\ after[4] = Next_(after[3])
  BY <1>5
<1>7. after[4] = {<<r3, p, r4, p>>}
  <2>1. after[1] = {<<f, p, r1, p>>}
    BY <1>6, <1>1
  <2>2. after[2] = {<<r1, p, r2, p>>}
    BY <2>1, <1>6, <1>1
  <2>3. after[3] = {<<r2, p, r3, p>>}
    BY <2>2, <1>6, <1>1
  <2> QED BY <2>3, <1>6, <1>1
<1>8. Form!Settle(of, op, f, p) = CHOOSE g \in {x[3] : x \in after[4]} : TRUE
  BY DEF after, Next_, Form!Settle
<1>9. {x[3] : x \in after[4]} = {r4}
  BY <1>7
<1> QED BY <1>8, <1>9

(* What the effects do, one after the other.                                   *)
Picks(of, op, f, p) ==
  /\ <<of.runtime, op.known, op.ready>> # <<f.runtime, p.known, p.ready>>
  /\ p.known /\ ~f.manual /\ Form!DefaultRuntime(p) # f.runtime
Syncs(of, f) ==
  <<of.runtime, Form!DirectRef(of)>> # <<f.runtime, Form!DirectRef(f)>> /\ f.runtime = "vllm"
Crossed(of, op, f, p) == Picks(of, op, f, p) /\ Syncs(of, f)
(* The parts of a form are of one provider, which another runtime's page only  *)
(* has when a recipe came late.                                                *)
OneProvider(f) ==
  /\ f.provider # f.runtime => f.provider = "vllm" /\ f.recipe # Form!Unset
  /\ f.provider # "vllm" => f.recipe = Form!Unset /\ f.source = Form!Unset /\ f.image = Form!Unset
Resized(of, op, f, p) == ~(Form!Topology(of, op) = Form!Topology(f, p) \/ f.managed)

Alike(g, f) == FormTypes(g) /\ SameTyped(g, f) /\ SameDirect(g, f) /\ SameSize(g, f)
LEMMA PlainField ==
  ASSUME NEW f, FormTypes(f), NEW x \in {"file", "gateway", "recipes", "quant", "premade"}, NEW v,
         NEW g, g = f \/ g = [f EXCEPT ![x] = v]
  PROVE  Alike(g, f)
<1>1. CASE g = f
  BY <1>1 DEF Alike, SameTyped, SameDirect, SameSize
<1>2. CASE g = [f EXCEPT ![x] = v]
  <2>1. DOMAIN g = FormFields /\ \A y \in FormFields \ {x} : g[y] = f[y]
    BY <1>2 DEF FormTypes
  <2>2. SameTyped(g, f) /\ SameDirect(g, f) /\ SameSize(g, f)
    BY <2>1 DEF FormFields, SameTyped, SameDirect, SameSize
  <2> QED BY <2>1, <2>2 DEF Alike, FormTypes, SameTyped, SameDirect, SameSize
<1> QED BY <1>1, <1>2

LEMMA AlikeAgain ==
  ASSUME NEW f, NEW g, NEW h, Alike(h, g), Alike(g, f)
  PROVE  Alike(h, f)
BY DEF Alike, SameTyped, SameDirect, SameSize

LEMMA PlainEffects ==
  ASSUME NEW of, NEW op, NEW f, NEW p, NEW g, FormTypes(g)
  PROVE  /\ Alike(Form!PickFile(g, p), g) /\ Alike(Form!ClearGateway(op, p, g), g)
         /\ Alike(Form!LoadRecipes(of, f, g), g) /\ Alike(Form!FlagPrecision(of, op, f, p, g), g)
         /\ Alike(Form!PickPremade(f, p, g), g)
<1>1. Alike(Form!PickFile(g, p), g)
  BY PlainField DEF Form!PickFile
<1>2. Alike(Form!ClearGateway(op, p, g), g)
  BY PlainField DEF Form!ClearGateway
<1>3. Alike(Form!LoadRecipes(of, f, g), g)
  BY PlainField DEF Form!LoadRecipes
<1>4. Alike(Form!FlagPrecision(of, op, f, p, g), g)
  BY PlainField DEF Form!FlagPrecision
<1>5. Alike(Form!PickPremade(f, p, g), g)
  BY PlainField DEF Form!PickPremade
<1> QED BY <1>1, <1>2, <1>3, <1>4, <1>5

LEMMA RuntimeEffect ==
  ASSUME NEW of, NEW op, NEW f, NEW p, PropsTypes(p), NEW g, FormTypes(g),
         NEW n, n = Form!PickRuntime(of, op, f, p, g)
  PROVE  /\ FormTypes(n) /\ SameTyped(n, g)
         /\ ~Picks(of, op, f, p) => n = g
         /\ Picks(of, op, f, p) => /\ n.runtime = Form!DefaultRuntime(p)
                                   /\ n.runtime = "vllm" => n.mode = "aggregated"
         /\ n.nodes = g.nodes \/ n.nodes = 1
         /\ OneProvider(g) => OneProvider(n)
<1>1. CASE ~Picks(of, op, f, p)
  BY <1>1 DEF Picks, Form!PickRuntime, SameTyped
<1>2. CASE Picks(of, op, f, p)
  <2> DEFINE r == Form!DefaultRuntime(p)
  <2>1. r \in Runtimes
    BY DefaultIsOne
  <2> HIDE DEF r
  <2>2. PICK new : new = [g EXCEPT !.runtime = r, !.provider = r,
                 !.engine = IF r = "vllm" THEN "vllm" ELSE Form!DefaultEngine(r),
                 !.mode = IF r \in {"kaito", "vllm"} THEN "aggregated" ELSE @,
                 !.nodes = IF r = "vllm" THEN 1 ELSE @,
                 !.source = IF r = "vllm" THEN "vllm" ELSE IF g.provider = "vllm" /\ r # "vllm" THEN Form!Unset ELSE @,
                 !.image = IF r = "vllm" THEN IF @ = Form!Unset THEN "nightly" ELSE @
                           ELSE IF g.provider = "vllm" /\ r # "vllm" THEN Form!Unset ELSE @,
                 !.recipe = IF r = "vllm" THEN @ ELSE Form!Unset]
    OBVIOUS
  <2>3. n = new
    BY <1>2, <2>2 DEF Picks, Form!PickRuntime, r
  <2>4. /\ DOMAIN new = FormFields /\ new.runtime = r /\ new.provider = r
        /\ r = "vllm" => new.mode = "aggregated"
        /\ new.nodes = IF r = "vllm" THEN 1 ELSE g.nodes
    BY <2>2 DEF FormTypes, FormFields
  <2>5. /\ new.image = IF r = "vllm" THEN IF g.image = Form!Unset THEN "nightly" ELSE g.image
                       ELSE IF g.provider = "vllm" /\ r # "vllm" THEN Form!Unset ELSE g.image
        /\ \A x \in {"gpu", "tp", "pp", "manual", "managed", "storage", "router", "choice", "text"} : new[x] = g[x]
    BY <2>2 DEF FormTypes, FormFields
  <2>6. new.image \in MaybeImages
    BY <2>5 DEF FormTypes, MaybeImages, Form!Images
  <2>7. FormTypes(new) /\ SameTyped(new, g)
    BY <2>1, <2>4, <2>5, <2>6 DEF FormTypes, SameTyped
  <2>8. /\ new.recipe = IF r = "vllm" THEN g.recipe ELSE Form!Unset
        /\ new.source = IF r = "vllm" THEN "vllm"
                        ELSE IF g.provider = "vllm" /\ r # "vllm" THEN Form!Unset ELSE g.source
    BY <2>2 DEF FormTypes, FormFields
  <2>9. OneProvider(g) => OneProvider(new)
    BY <2>4, <2>5, <2>8 DEF OneProvider
  <2> QED BY <1>2, <2>3, <2>4, <2>7, <2>9 DEF r
<1> QED BY <1>1, <1>2

LEMMA ImageEffect ==
  ASSUME NEW of, NEW f, FormTypes(f), NEW g, FormTypes(g), NEW n, n = Form!SyncDirect(of, f, g)
  PROVE  /\ FormTypes(n) /\ SameTyped(n, g) /\ n.runtime = g.runtime /\ n.mode = g.mode
         /\ n.recipe = g.recipe /\ n.nodes = g.nodes /\ n.tp = g.tp /\ n.pp = g.pp
         /\ ~Syncs(of, f) => n = g
         /\ Syncs(of, f) => /\ n.provider = "vllm" /\ n.engine = "vllm" /\ n.source = "vllm"
                            /\ n.image = Form!DirectRef(f) /\ n.gpu >= 1
<1>1. CASE ~Syncs(of, f)
  BY <1>1 DEF Syncs, Form!SyncDirect, SameTyped
<1>2. CASE Syncs(of, f)
  <2>1. PICK ref : ref = Form!DirectRef(f)
    OBVIOUS
  <2>2. ref \in MaybeImages
    BY <2>1 DEF FormTypes, MaybeImages, Form!Images, Form!DirectRef
  <2>3. n = [g EXCEPT !.provider = "vllm", !.engine = "vllm", !.source = "vllm", !.image = ref,
                      !.gpu = IF @ = 0 THEN 1 ELSE @]
    BY <1>2, <2>1 DEF Syncs, Form!SyncDirect, Form!Direct
  <2>4. /\ DOMAIN n = FormFields /\ n.provider = "vllm" /\ n.engine = "vllm" /\ n.source = "vllm"
        /\ n.image = ref /\ n.gpu = IF g.gpu = 0 THEN 1 ELSE g.gpu
    BY <2>3 DEF FormTypes, FormFields
  <2>5. \A x \in FormFields \ {"provider", "engine", "source", "image", "gpu"} : n[x] = g[x]
    BY <2>3 DEF FormTypes
  <2>6. /\ SameTyped(n, g) /\ n.runtime = g.runtime /\ n.mode = g.mode
        /\ n.recipe = g.recipe /\ n.nodes = g.nodes /\ n.tp = g.tp /\ n.pp = g.pp
    BY <2>5 DEF FormFields, SameTyped
  <2>7. FormTypes(n) /\ n.gpu >= 1
    BY <2>2, <2>4, <2>6, FormConstants DEF FormTypes, SameTyped
  <2> QED BY <1>2, <2>1, <2>4, <2>6, <2>7
<1> QED BY <1>1, <1>2

LEMMA GpuEffect ==
  ASSUME NEW of, NEW op, NEW f, NEW p, PropsTypes(p), NEW g, FormTypes(g),
         NEW n, n = Form!FirstGpus(of, op, f, p, g)
  PROVE  /\ FormTypes(n) /\ SameTyped(n, g) /\ SameDirect(n, g)
         /\ n.nodes = g.nodes /\ n.tp = g.tp /\ n.pp = g.pp
         /\ n.gpu = g.gpu \/ (n.gpu >= 1 /\ f.gpu = 0)
<1>1. CASE n = g
  BY <1>1 DEF SameTyped, SameDirect
<1>2. CASE f.gpu = 0 /\ n = [g EXCEPT !.gpu = Form!Recommended(p).gpus]
  <2>1. PICK k \in Nat \ {0} : k = Form!Recommended(p).gpus
    BY RecommendedTypes
  <2>2. DOMAIN n = FormFields /\ n.gpu = k /\ \A x \in FormFields \ {"gpu"} : n[x] = g[x]
    BY <1>2, <2>1 DEF FormTypes, FormFields
  <2>3. SameTyped(n, g) /\ SameDirect(n, g) /\ n.nodes = g.nodes /\ n.tp = g.tp /\ n.pp = g.pp
    BY <2>2 DEF FormFields, SameTyped, SameDirect
  <2> QED BY <1>2, <2>2, <2>3 DEF FormTypes, SameTyped, SameDirect
<1> QED BY <1>1, <1>2 DEF Form!FirstGpus

LEMMA LoneNode ==
  ASSUME NEW g, FormTypes(g), NEW n, n = Form!OneNode(g)
  PROVE  /\ FormTypes(n) /\ SameTyped(n, g) /\ SameDirect(n, g)
         /\ n.gpu = g.gpu /\ n.nodes = 1 /\ n.tp = 0 /\ n.pp = 0
<1>1. /\ DOMAIN n = FormFields /\ n.nodes = 1 /\ n.tp = 0 /\ n.pp = 0
      /\ \A x \in FormFields \ {"nodes", "tp", "pp"} : n[x] = g[x]
  BY DEF FormTypes, FormFields, Form!OneNode, Form!NoArgs
<1>2. SameTyped(n, g) /\ SameDirect(n, g) /\ n.gpu = g.gpu
  BY <1>1 DEF FormFields, SameTyped, SameDirect
<1> QED BY <1>1, <1>2 DEF FormTypes, SameTyped, SameDirect

LEMMA ManyNodes ==
  ASSUME NEW g, FormTypes(g), NEW many \in Nat \ {0}, NEW tp \in Nat, NEW n, n = Form!Spread(g, many, tp)
  PROVE  /\ FormTypes(n) /\ SameTyped(n, g) /\ SameDirect(n, g)
         /\ n.gpu = g.gpu /\ n.nodes = many /\ n.tp = tp /\ n.pp = many
<1>1. /\ DOMAIN n = FormFields /\ n.nodes = many /\ n.tp = tp /\ n.pp = many
      /\ \A x \in FormFields \ {"nodes", "tp", "pp"} : n[x] = g[x]
  BY DEF FormTypes, FormFields, Form!Spread
<1>2. SameTyped(n, g) /\ SameDirect(n, g) /\ n.gpu = g.gpu
  BY <1>1 DEF FormFields, SameTyped, SameDirect
<1> QED BY <1>1, <1>2 DEF FormTypes, SameTyped, SameDirect

(* The effect that manages the nodes: it does nothing, or leaves one node, or  *)
(* spreads a form that Dynamo serves aggregated with vLLM.                     *)
LEMMA NodesEffect ==
  ASSUME NEW of, NEW op, NEW f, NEW p, PropsTypes(p), NEW g, FormTypes(g),
         NEW n, n = Form!ManageNodes(of, op, f, p, g)
  PROVE  /\ FormTypes(n) /\ SameTyped(n, g) /\ SameDirect(n, g)
         /\ ~Resized(of, op, f, p) => n = g
         /\ Resized(of, op, f, p) =>
              \/ n.nodes = 1 /\ n.gpu = g.gpu
              \/ Form!Spreads(f) /\ n.nodes > 1 /\ n.pp = n.nodes /\ n.tp > 0
         /\ Resized(of, op, f, p) /\ p.capacity = 0 => n.nodes = 1
<1> DEFINE best == Form!Recommended(p)
<1>1. CASE ~Resized(of, op, f, p)
  BY <1>1 DEF Resized, Form!ManageNodes, SameTyped, SameDirect
<1>2. CASE Resized(of, op, f, p) /\ Form!Spreads(f) /\ best.nodes > 1
  <2>1. PICK many \in Nat \ {0}, tp \in Nat \ {0} : many = best.nodes /\ tp = best.gpus
    BY RecommendedTypes
  <2>2. PICK h : h = Form!Spread(g, many, tp)
    OBVIOUS
  <2>3. /\ FormTypes(h) /\ SameTyped(h, g) /\ SameDirect(h, g)
        /\ h.nodes = many /\ h.tp = tp /\ h.pp = many
    BY <2>2, ManyNodes
  <2>4. n = [h EXCEPT !.gpu = tp]
    BY <1>2, <2>1, <2>2 DEF Resized, Form!ManageNodes
  <2>5. DOMAIN n = FormFields /\ n.gpu = tp /\ \A x \in FormFields \ {"gpu"} : n[x] = h[x]
    BY <2>3, <2>4 DEF FormTypes, FormFields
  <2>6. SameTyped(n, h) /\ SameDirect(n, h) /\ n.nodes = many /\ n.tp = tp /\ n.pp = many
    BY <2>3, <2>5 DEF FormFields, SameTyped, SameDirect
  <2>7. FormTypes(n)
    BY <2>3, <2>5, <2>6 DEF FormTypes, SameTyped, SameDirect
  <2>8. SameTyped(n, g) /\ SameDirect(n, g)
    BY <2>3, <2>6 DEF SameTyped, SameDirect
  <2>9. p.capacity # 0
    BY <1>2, RecommendedTypes
  <2> QED BY <1>2, <2>1, <2>6, <2>7, <2>8, <2>9
<1>3. CASE Resized(of, op, f, p) /\ ~(Form!Spreads(f) /\ best.nodes > 1)
  <2>1. n = Form!OneNode(g)
    BY <1>3 DEF Resized, Form!ManageNodes
  <2> QED BY <1>3, <2>1, LoneNode
<1> QED BY <1>1, <1>2, <1>3

-----------------------------------------------------------------------------
(* One render.                                                                 *)

(* Direct vLLM deploys what the page shows.                                    *)
DirectShown(f) ==
  /\ f.provider = "vllm" /\ f.engine = "vllm" /\ f.source = "vllm"
  /\ f.mode = "aggregated" /\ f.image = Form!DirectRef(f) /\ f.gpu >= 1
(* More than one node is for Dynamo, and has its arguments.                    *)
NodesFit(f) ==
  f.nodes > 1 => Form!Spreads(f) /\ f.pp = f.nodes /\ f.tp > 0

LEMMA OneRender ==
  ASSUME NEW of, NEW op, NEW f, FormTypes(f), NEW p, PropsTypes(p),
         NEW n, n = Form!Render(of, op, f, p)
  PROVE  /\ FormTypes(n) /\ SameTyped(n, f)
         /\ n.runtime = IF Picks(of, op, f, p) THEN Form!DefaultRuntime(p) ELSE f.runtime
         /\ Picks(of, op, f, p) /\ n.runtime = "vllm" => n.mode = "aggregated"
         /\ ~Picks(of, op, f, p) => n.mode = f.mode
         /\ ~Picks(of, op, f, p) /\ f.runtime = "vllm" =>
              IF Syncs(of, f) THEN /\ n.provider = "vllm" /\ n.engine = "vllm" /\ n.source = "vllm"
                                   /\ n.image = Form!DirectRef(f) /\ n.gpu >= 1
              ELSE /\ n.provider = f.provider /\ n.engine = f.engine /\ n.source = f.source
                   /\ n.image = f.image
                   /\ n.gpu = f.gpu \/ n.gpu >= 1
         /\ ~Picks(of, op, f, p) /\ ~Syncs(of, f) => n.engine = f.engine
         /\ ~Picks(of, op, f, p) /\ Resized(of, op, f, p) =>
              \/ n.nodes = 1
              \/ Form!Spreads(f) /\ n.nodes > 1 /\ n.pp = n.nodes /\ n.tp > 0
         /\ ~Picks(of, op, f, p) /\ ~Resized(of, op, f, p) =>
              n.nodes = f.nodes /\ n.tp = f.tp /\ n.pp = f.pp
         /\ (Resized(of, op, f, p) /\ p.capacity = 0) \/ (f.nodes = 1 /\ (p.capacity = 0 \/ ~Resized(of, op, f, p)))
              => n.nodes = 1
         /\ ~Picks(of, op, f, p) /\ ~Syncs(of, f) /\ ~Resized(of, op, f, p) /\ f.gpu # 0 => n.gpu = f.gpu
         /\ OneProvider(f) /\ ~Crossed(of, op, f, p) => OneProvider(n)
<1>1. PICK a0 : a0 = Form!PickFile(f, p)
  OBVIOUS
<1>2. PICK a : a = Form!PickRuntime(of, op, f, p, a0)
  OBVIOUS
<1>3. PICK b : b = Form!ClearGateway(op, p, a)
  OBVIOUS
<1>4. PICK c : c = Form!LoadRecipes(of, f, b)
  OBVIOUS
<1>5. PICK d : d = Form!SyncDirect(of, f, c)
  OBVIOUS
<1>6. PICK e : e = Form!FirstGpus(of, op, f, p, d)
  OBVIOUS
<1>7. PICK h : h = Form!ManageNodes(of, op, f, p, e)
  OBVIOUS
<1>8. PICK i : i = Form!FlagPrecision(of, op, f, p, h)
  OBVIOUS
<1>9. n = Form!PickPremade(f, p, i)
  BY <1>1, <1>2, <1>3, <1>4, <1>5, <1>6, <1>7, <1>8 DEF Form!Render
<1>10. Alike(a0, f)
  BY <1>1, PlainEffects
<1>11. /\ FormTypes(a) /\ SameTyped(a, a0)
       /\ ~Picks(of, op, f, p) => a = a0
       /\ Picks(of, op, f, p) => /\ a.runtime = Form!DefaultRuntime(p)
                                 /\ a.runtime = "vllm" => a.mode = "aggregated"
       /\ a.nodes = a0.nodes \/ a.nodes = 1
       /\ OneProvider(a0) => OneProvider(a)
  <2>1. FormTypes(a0)
    BY <1>10 DEF Alike
  <2>2. OneProvider(a0) => OneProvider(a)
    BY <1>2, <2>1, RuntimeEffect
  <2>3. /\ FormTypes(a) /\ SameTyped(a, a0)
        /\ ~Picks(of, op, f, p) => a = a0
        /\ Picks(of, op, f, p) => /\ a.runtime = Form!DefaultRuntime(p)
                                  /\ a.runtime = "vllm" => a.mode = "aggregated"
        /\ a.nodes = a0.nodes \/ a.nodes = 1
    BY <1>2, <2>1, RuntimeEffect
  <2> QED BY <2>2, <2>3
<1>12. Alike(c, a)
  <2>1. Alike(b, a)
    BY <1>3, <1>11, PlainEffects
  <2>2. FormTypes(b)
    BY <2>1 DEF Alike
  <2>3. Alike(c, b)
    BY <1>4, <2>2, PlainEffects
  <2> QED BY <2>1, <2>3, AlikeAgain
<1>13. /\ FormTypes(d) /\ SameTyped(d, c) /\ d.runtime = c.runtime /\ d.mode = c.mode
       /\ d.recipe = c.recipe /\ d.nodes = c.nodes /\ d.tp = c.tp /\ d.pp = c.pp
       /\ ~Syncs(of, f) => d = c
       /\ Syncs(of, f) => /\ d.provider = "vllm" /\ d.engine = "vllm" /\ d.source = "vllm"
                          /\ d.image = Form!DirectRef(f) /\ d.gpu >= 1
  BY <1>5, <1>12, ImageEffect DEF Alike
<1>14. /\ FormTypes(e) /\ SameTyped(e, d) /\ SameDirect(e, d)
       /\ e.nodes = d.nodes /\ e.tp = d.tp /\ e.pp = d.pp
       /\ e.gpu = d.gpu \/ (e.gpu >= 1 /\ f.gpu = 0)
  BY <1>6, <1>13, GpuEffect
<1>15. /\ FormTypes(h) /\ SameTyped(h, e) /\ SameDirect(h, e)
       /\ ~Resized(of, op, f, p) => h = e
       /\ Resized(of, op, f, p) =>
            \/ h.nodes = 1 /\ h.gpu = e.gpu
            \/ Form!Spreads(f) /\ h.nodes > 1 /\ h.pp = h.nodes /\ h.tp > 0
       /\ Resized(of, op, f, p) /\ p.capacity = 0 => h.nodes = 1
  BY <1>7, <1>14, NodesEffect
<1>16. Alike(n, h)
  <2>1. Alike(i, h)
    BY <1>8, <1>15, PlainEffects
  <2>2. FormTypes(i)
    BY <2>1 DEF Alike
  <2>3. Alike(n, i)
    BY <1>9, <2>2, PlainEffects
  <2> QED BY <2>1, <2>3, AlikeAgain
<1>17. FormTypes(n) /\ SameTyped(n, f)
  BY <1>10, <1>11, <1>12, <1>13, <1>14, <1>15, <1>16 DEF Alike, SameTyped
<1>18. n.runtime = a.runtime /\ n.mode = a.mode
  BY <1>12, <1>13, <1>14, <1>15, <1>16 DEF Alike, SameDirect
<1>19. ~Picks(of, op, f, p) =>
         /\ a.runtime = f.runtime /\ a.mode = f.mode /\ a.provider = f.provider /\ a.engine = f.engine
         /\ a.source = f.source /\ a.image = f.image /\ a.gpu = f.gpu
         /\ a.nodes = f.nodes /\ a.tp = f.tp /\ a.pp = f.pp
  BY <1>10, <1>11 DEF Alike, SameDirect, SameSize
<1>20. /\ c.provider = a.provider /\ c.engine = a.engine /\ c.source = a.source /\ c.image = a.image
       /\ c.gpu = a.gpu /\ c.nodes = a.nodes /\ c.tp = a.tp /\ c.pp = a.pp
  BY <1>12 DEF Alike, SameDirect, SameSize
<1>21. n.provider = d.provider /\ n.engine = d.engine /\ n.source = d.source /\ n.image = d.image
  BY <1>14, <1>15, <1>16 DEF Alike, SameDirect
<1>22. n.gpu = h.gpu /\ n.nodes = h.nodes /\ n.tp = h.tp /\ n.pp = h.pp
  BY <1>16 DEF Alike, SameSize
<1>23. f.runtime = "vllm" => h.gpu = e.gpu
  BY <1>15 DEF Form!Spreads
<1>24. n.nodes \in Nat /\ d.gpu \in Nat /\ e.gpu \in Nat /\ f.gpu \in Nat
  BY <1>13, <1>14, <1>17 DEF FormTypes
<1>25. ~Picks(of, op, f, p) /\ f.runtime = "vllm" =>
              IF Syncs(of, f) THEN /\ n.provider = "vllm" /\ n.engine = "vllm" /\ n.source = "vllm"
                                   /\ n.image = Form!DirectRef(f) /\ n.gpu >= 1
              ELSE /\ n.provider = f.provider /\ n.engine = f.engine /\ n.source = f.source
                   /\ n.image = f.image
                   /\ n.gpu = f.gpu \/ n.gpu >= 1
  BY <1>13, <1>14, <1>19, <1>20, <1>21, <1>22, <1>23, <1>24
<1>26. a.nodes = f.nodes \/ a.nodes = 1
  BY <1>10, <1>11 DEF Alike, SameSize
<1>27. (Resized(of, op, f, p) /\ p.capacity = 0) \/ (f.nodes = 1 /\ (p.capacity = 0 \/ ~Resized(of, op, f, p)))
              => n.nodes = 1
  BY <1>13, <1>14, <1>15, <1>20, <1>22, <1>26
<1>28. ~Picks(of, op, f, p) /\ ~Syncs(of, f) /\ ~Resized(of, op, f, p) /\ f.gpu # 0 => n.gpu = f.gpu
  BY <1>13, <1>14, <1>15, <1>19, <1>20, <1>22
<1>29. /\ ~Picks(of, op, f, p) /\ ~Syncs(of, f) => n.engine = f.engine
       /\ ~Picks(of, op, f, p) /\ Resized(of, op, f, p) =>
              \/ n.nodes = 1
              \/ Form!Spreads(f) /\ n.nodes > 1 /\ n.pp = n.nodes /\ n.tp > 0
       /\ ~Picks(of, op, f, p) /\ ~Resized(of, op, f, p) =>
              n.nodes = f.nodes /\ n.tp = f.tp /\ n.pp = f.pp
  BY <1>13, <1>14, <1>15, <1>19, <1>20, <1>21, <1>22
<1>30. ASSUME OneProvider(f), ~Crossed(of, op, f, p) PROVE OneProvider(n)
  <2>1. OneProvider(a)
    BY <1>10, <1>11, <1>30 DEF Alike, SameDirect, OneProvider
  <2>2. OneProvider(c)
    BY <1>12, <2>1 DEF Alike, SameDirect, OneProvider
  <2>3. Syncs(of, f) => d.runtime = "vllm"
    BY <1>12, <1>13, <1>19, <1>30 DEF Crossed, Syncs, Alike, SameDirect
  <2>4. OneProvider(d)
    BY <1>13, <2>2, <2>3 DEF OneProvider
  <2>5. n.recipe = d.recipe /\ n.runtime = d.runtime
    BY <1>14, <1>15, <1>16 DEF Alike, SameDirect
  <2> QED BY <1>21, <2>4, <2>5 DEF OneProvider
<1> QED BY <1>11, <1>17, <1>18, <1>19, <1>25, <1>27, <1>28, <1>29, <1>30, Zenon

LEMMA PicksOnce ==
  ASSUME NEW of, NEW op, NEW f, FormTypes(f), NEW p, PropsTypes(p),
         NEW n, n = Form!Render(of, op, f, p)
  PROVE  ~Picks(f, p, n, p)
<1>1. n.manual = f.manual /\ n.runtime = IF Picks(of, op, f, p) THEN Form!DefaultRuntime(p) ELSE f.runtime
  BY OneRender DEF SameTyped
<1> QED BY <1>1 DEF Picks

(* The image of Direct vLLM is the one shown, or the effect has yet to run.    *)
Pending(of, f) ==
  f.runtime = "vllm" =>
    /\ f.mode = "aggregated"
    /\ DirectShown(f) \/ of.runtime # "vllm" \/ Form!DirectRef(of) # Form!DirectRef(f)

LEMMA RenderDirect ==
  ASSUME NEW of, NEW op, NEW f, FormTypes(f), NEW p, PropsTypes(p),
         NEW n, n = Form!Render(of, op, f, p), Pending(of, f)
  PROVE  /\ Pending(f, n)
         /\ ~Picks(of, op, f, p) /\ n.runtime = "vllm" => DirectShown(n)
<1>1. Form!DirectRef(n) = Form!DirectRef(f)
  BY OneRender DEF SameTyped, Form!DirectRef
<1>2. ASSUME ~Picks(of, op, f, p), n.runtime = "vllm" PROVE DirectShown(n) /\ n.mode = "aggregated"
  <2>1. f.runtime = "vllm" /\ n.mode = f.mode
    BY <1>2, OneRender
  <2>2. f.mode = "aggregated"
    BY <2>1 DEF Pending
  <2>3. CASE Syncs(of, f)
    <3>1. /\ n.provider = "vllm" /\ n.engine = "vllm" /\ n.source = "vllm"
          /\ n.image = Form!DirectRef(f) /\ n.gpu >= 1
      BY <1>2, <2>1, <2>3, OneRender
    <3> QED BY <3>1, <1>1, <2>1, <2>2 DEF DirectShown
  <2>4. CASE ~Syncs(of, f)
    <3>1. DirectShown(f)
      BY <2>1, <2>4 DEF Syncs, Pending
    <3>2. /\ n.provider = f.provider /\ n.engine = f.engine /\ n.source = f.source
          /\ n.image = f.image
          /\ n.gpu = f.gpu \/ n.gpu >= 1
      BY <1>2, <2>1, <2>4, OneRender
    <3> QED BY <3>1, <3>2, <1>1, <2>1, <2>2 DEF DirectShown
  <2> QED BY <2>3, <2>4
<1>3. ASSUME Picks(of, op, f, p), n.runtime = "vllm" PROVE n.mode = "aggregated" /\ f.runtime # "vllm"
  <2>1. n.runtime = Form!DefaultRuntime(p) /\ n.mode = "aggregated"
    BY <1>3, OneRender
  <2> QED BY <1>3, <2>1, Zenon DEF Picks
<1> QED BY <1>2, <1>3 DEF Pending

LEMMA RenderNodes ==
  ASSUME NEW of, NEW op, NEW f, FormTypes(f), NEW p, PropsTypes(p), NEW n, n = Form!Render(of, op, f, p),
         ~Picks(of, op, f, p), NodesFit(f) \/ Resized(of, op, f, p)
  PROVE  NodesFit(n)
<1> SUFFICES ASSUME n.nodes > 1 PROVE Form!Spreads(n) /\ n.pp = n.nodes /\ n.tp > 0
  BY DEF NodesFit
<1>1. Form!Spreads(f) /\ n.pp = n.nodes /\ n.tp > 0
  <2>1. CASE Resized(of, op, f, p)
    BY <2>1, OneRender
  <2>2. CASE ~Resized(of, op, f, p)
    BY <2>2, OneRender DEF NodesFit
  <2> QED BY <2>1, <2>2
<1>2. n.runtime = f.runtime /\ n.mode = f.mode
  BY OneRender
<1>3. n.engine = f.engine
  BY <1>1, OneRender DEF Syncs, Form!Spreads
<1> QED BY <1>1, <1>2, <1>3 DEF Form!Spreads

(* A render in which none of the effects has anything to react to.             *)
Quiet(of, op, f, p) == ~Picks(of, op, f, p) /\ ~Syncs(of, f) /\ ~Resized(of, op, f, p) /\ f.gpu # 0

LEMMA RenderQuiet ==
  ASSUME NEW of, NEW op, NEW f, FormTypes(f), NEW p, PropsTypes(p), NEW n, n = Form!Render(of, op, f, p),
         Quiet(of, op, f, p)
  PROVE  Quiet(f, p, n, p) /\ n.gpu = f.gpu
<1>1. /\ n.gpu = f.gpu /\ n.runtime = f.runtime /\ n.mode = f.mode /\ n.engine = f.engine
      /\ SameTyped(n, f)
  BY OneRender DEF Quiet
<1>2. ~Syncs(f, n)
  BY <1>1 DEF Syncs, SameTyped, Form!DirectRef
<1>3. ~Resized(f, p, n, p)
  BY <1>1 DEF Resized, SameTyped, Form!Topology
<1> QED BY <1>1, <1>2, <1>3, PicksOnce DEF Quiet

-----------------------------------------------------------------------------
(* All the renders of a step: whatever the effects do to each other, the form  *)
(* that comes out shows what it will deploy.                                   *)
LEMMA Settled ==
  ASSUME NEW of, NEW op, NEW f, FormTypes(f), NEW p, PropsTypes(p), NEW s, s = Form!Settle(of, op, f, p)
  PROVE  /\ FormTypes(s) /\ SameTyped(s, f)
         /\ ~Picks(of, op, f, p) => s.runtime = f.runtime
         /\ Pending(of, f) /\ s.runtime = "vllm" => DirectShown(s)
         /\ ~Picks(of, op, f, p) /\ (NodesFit(f) \/ Resized(of, op, f, p)) => NodesFit(s)
         /\ p.capacity = 0 /\ (f.nodes = 1 \/ Resized(of, op, f, p)) => s.nodes = 1
         /\ Quiet(of, op, f, p) => s.gpu = f.gpu
         /\ OneProvider(f) /\ ~Crossed(of, op, f, p) => OneProvider(s)
<1>1. PICK r1 : r1 = Form!Render(of, op, f, p)
  OBVIOUS
<1>2. PICK r2 : r2 = Form!Render(f, p, r1, p)
  OBVIOUS
<1>3. PICK r3 : r3 = Form!Render(r1, p, r2, p)
  OBVIOUS
<1>4. s = Form!Render(r2, p, r3, p)
  BY <1>1, <1>2, <1>3, FourRenders
<1>5. FormTypes(r1) /\ SameTyped(r1, f) /\ ~Picks(f, p, r1, p)
  BY <1>1, OneRender, PicksOnce
<1>6. FormTypes(r2) /\ SameTyped(r2, r1) /\ ~Picks(r1, p, r2, p) /\ r2.runtime = r1.runtime
  BY <1>2, <1>5, OneRender, PicksOnce
<1>7. FormTypes(r3) /\ SameTyped(r3, r2) /\ ~Picks(r2, p, r3, p) /\ r3.runtime = r2.runtime
  BY <1>3, <1>6, OneRender, PicksOnce
<1>8. FormTypes(s) /\ SameTyped(s, r3) /\ s.runtime = r3.runtime
  BY <1>4, <1>7, OneRender
<1>9. SameTyped(s, f)
  BY <1>5, <1>6, <1>7, <1>8 DEF SameTyped
<1>10. ~Picks(of, op, f, p) => s.runtime = f.runtime
  BY <1>1, <1>6, <1>7, <1>8, OneRender
<1>11. ASSUME Pending(of, f), s.runtime = "vllm" PROVE DirectShown(s)
  <2>1. Pending(f, r1)
    BY <1>1, <1>11, RenderDirect
  <2>2. Pending(r1, r2)
    BY <1>2, <1>5, <2>1, RenderDirect
  <2>3. Pending(r2, r3)
    BY <1>3, <1>6, <2>2, RenderDirect
  <2> QED BY <1>4, <1>7, <1>11, <2>3, RenderDirect
<1>12. ASSUME ~Picks(of, op, f, p), NodesFit(f) \/ Resized(of, op, f, p) PROVE NodesFit(s)
  <2>1. NodesFit(r1)
    BY <1>1, <1>12, RenderNodes
  <2>2. NodesFit(r2)
    BY <1>2, <1>5, <2>1, RenderNodes
  <2>3. NodesFit(r3)
    BY <1>3, <1>6, <2>2, RenderNodes
  <2> QED BY <1>4, <1>7, <2>3, RenderNodes
<1>13. ASSUME p.capacity = 0, f.nodes = 1 \/ Resized(of, op, f, p) PROVE s.nodes = 1
  <2>1. r1.nodes = 1
    BY <1>1, <1>13, OneRender
  <2>2. r2.nodes = 1
    BY <1>2, <1>5, <1>13, <2>1, OneRender
  <2>3. r3.nodes = 1
    BY <1>3, <1>6, <1>13, <2>2, OneRender
  <2> QED BY <1>4, <1>7, <1>13, <2>3, OneRender
<1>14. ASSUME Quiet(of, op, f, p) PROVE s.gpu = f.gpu
  <2>1. Quiet(f, p, r1, p) /\ r1.gpu = f.gpu
    BY <1>1, <1>14, RenderQuiet
  <2>2. Quiet(r1, p, r2, p) /\ r2.gpu = f.gpu
    BY <1>2, <1>5, <2>1, RenderQuiet
  <2>3. Quiet(r2, p, r3, p) /\ r3.gpu = f.gpu
    BY <1>3, <1>6, <2>2, RenderQuiet
  <2> QED BY <1>4, <1>7, <2>3, RenderQuiet
<1>15. ASSUME OneProvider(f), ~Crossed(of, op, f, p) PROVE OneProvider(s)
  <2>1. OneProvider(r1)
    BY <1>1, <1>15, OneRender
  <2>2. OneProvider(r2)
    BY <1>2, <1>5, <2>1, OneRender DEF Crossed
  <2>3. OneProvider(r3)
    BY <1>3, <1>6, <2>2, OneRender DEF Crossed
  <2> QED BY <1>4, <1>7, <2>3, OneRender DEF Crossed
<1> QED BY <1>8, <1>9, <1>10, <1>11, <1>12, <1>13, <1>14, <1>15

-----------------------------------------------------------------------------
(* The invariant of the page.                                                  *)
(* What only Dynamo has.                                                       *)
OwnParts(f) == (f.storage = TRUE => f.runtime = "dynamo") /\ (f.router # "default" => f.runtime = "dynamo")
ManualFits(f) == f.manual = TRUE => OwnParts(f) /\ NodesFit(f)
FormState(f, p) ==
  /\ FormTypes(f) /\ PropsTypes(p)
  /\ f.manual \in BOOLEAN /\ f.managed \in BOOLEAN /\ f.storage \in BOOLEAN
  /\ f.runtime = "vllm" => DirectShown(f)
  /\ ManualFits(f) /\ OneProvider(f)
  /\ p.capacity = 0 /\ f.managed = FALSE => f.nodes = 1
Question_(q) == q.mode = "aggregated" /\ q.image \in MaybeImages /\ q.custom \in BOOLEAN
FormStatus == {"idle", "validating", "submitting", "success", "error", "left"}
FormInv ==
  /\ FormState(form, props)
  /\ DOMAIN props = {"known", "ready", "capacity", "fp8", "gateway", "files", "premades"}
  /\ asked = << >> \/ Question_(asked[1])
  /\ status \in FormStatus

(* What an edit makes of the form, before the effects run: it may leave the    *)
(* image and the nodes to an effect that is sure to run.                       *)
Edited(of, f, p) ==
  /\ FormTypes(f) /\ f.manual \in BOOLEAN /\ f.managed \in BOOLEAN /\ f.storage \in BOOLEAN
  /\ Pending(of, f)
  /\ OneProvider(f) /\ ~Crossed(of, p, f, p)
  /\ f.manual = TRUE => OwnParts(f)
  /\ f.manual = TRUE => NodesFit(f) \/ Resized(of, p, f, p)
  /\ p.capacity = 0 /\ f.managed = FALSE => f.nodes = 1 \/ Resized(of, p, f, p)

LEMMA SettledState ==
  ASSUME NEW of, NEW op, NEW f, NEW p, PropsTypes(p), NEW s, s = Form!Settle(of, op, f, p),
         FormTypes(f), f.manual \in BOOLEAN, f.managed \in BOOLEAN, f.storage \in BOOLEAN,
         Pending(of, f),
         OneProvider(f), ~Crossed(of, op, f, p), f.manual = TRUE => OwnParts(f),
         f.manual = TRUE => NodesFit(f) \/ Resized(of, op, f, p),
         p.capacity = 0 /\ f.managed = FALSE => f.nodes = 1 \/ Resized(of, op, f, p)
  PROVE  FormState(s, p)
<1>1. f.manual = TRUE => ~Picks(of, op, f, p)
  BY DEF Picks
<1>2. FormTypes(s) /\ SameTyped(s, f)
  BY Settled
<1>3. f.manual = TRUE => s.runtime = f.runtime /\ NodesFit(s)
  BY <1>1, Settled
<1>4. s.runtime = "vllm" => DirectShown(s)
  BY Settled
<1>5. p.capacity = 0 /\ f.managed = FALSE => s.nodes = 1
  BY Settled
<1>6. OneProvider(s)
  BY Settled
<1>7. f.manual = TRUE => OwnParts(s)
  BY <1>2, <1>3 DEF OwnParts, SameTyped
<1> QED BY <1>2, <1>3, <1>4, <1>5, <1>6, <1>7 DEF FormState, ManualFits, SameTyped

LEMMA EditSettles ==
  ASSUME FormInv, NEW f, Edited(form, f, props), form' = Form!Settle(form, props, f, props),
         props' = props
  PROVE  FormState(form', props')
<1>1. PropsTypes(props)
  BY DEF FormInv, FormState
<1> QED BY <1>1, SettledState DEF Edited

(* An edit that stays with its runtime.  Nodes it does not set itself are      *)
(* taken care of by the effect, which runs when the engine, the mode or the    *)
(* management of the form changes.                                             *)
SameNodes(f, g) == f.nodes = 1 \/ (f.nodes = g.nodes /\ f.tp = g.tp /\ f.pp = g.pp)
SameServer(f, g) == f.managed = g.managed /\ f.engine = g.engine /\ f.mode = g.mode
Modest(f, g, p) ==
  /\ FormTypes(f) /\ f.runtime = g.runtime /\ f.manual = g.manual
  /\ f.managed \in BOOLEAN /\ f.storage \in BOOLEAN
  /\ f.storage = g.storage \/ f.runtime = "dynamo"
  /\ f.router = g.router \/ f.runtime = "dynamo"
  /\ f.provider = g.provider /\ f.source = g.source /\ f.image = g.image /\ f.recipe = g.recipe
  /\ f.runtime = "vllm" =>
       /\ f.engine = g.engine /\ f.mode = g.mode /\ (f.gpu = g.gpu \/ f.gpu >= 1)
  /\ \/ SameNodes(f, g) /\ (f.managed = FALSE \/ SameServer(f, g))
     \/ NodesFit(f) /\ (p.capacity # 0 \/ f.managed = TRUE)

LEMMA ModestEdits ==
  ASSUME NEW g, NEW p, FormState(g, p), NEW f, Modest(f, g, p)
  PROVE  Edited(g, f, p)
<1>1. Pending(g, f)
  BY DEF FormState, Modest, Pending, DirectShown
<1>2. f.manual \in BOOLEAN /\ (f.manual = TRUE => OwnParts(f))
  BY DEF FormState, Modest, ManualFits, OwnParts
<1>3. ASSUME f.manual = TRUE PROVE NodesFit(f) \/ Resized(g, p, f, p)
  <2>1. NodesFit(g)
    BY <1>3 DEF FormState, Modest, ManualFits
  <2>2. CASE NodesFit(f)
    BY <2>2
  <2>3. CASE SameNodes(f, g) /\ f.managed = FALSE
    <3>1. CASE f.engine = g.engine /\ f.mode = g.mode
      BY <2>1, <2>3, <3>1 DEF Modest, SameNodes, NodesFit, Form!Spreads
    <3>2. CASE ~(f.engine = g.engine /\ f.mode = g.mode)
      BY <2>3, <3>2 DEF Resized, Form!Topology
    <3> QED BY <3>1, <3>2
  <2>4. CASE SameNodes(f, g) /\ SameServer(f, g)
    BY <2>1, <2>4 DEF Modest, SameNodes, SameServer, NodesFit, Form!Spreads
  <2> QED BY <2>2, <2>3, <2>4 DEF Modest
<1>4. ASSUME p.capacity = 0, f.managed = FALSE PROVE f.nodes = 1 \/ Resized(g, p, f, p)
  <2>1. SameNodes(f, g)
    BY <1>4 DEF Modest
  <2>2. CASE g.managed = FALSE
    BY <1>4, <2>1, <2>2 DEF FormState, SameNodes
  <2>3. CASE g.managed = TRUE
    BY <1>4, <2>3 DEF Resized, Form!Topology
  <2> QED BY <2>2, <2>3 DEF FormState
<1>5. OneProvider(f) /\ ~Crossed(g, p, f, p)
  BY DEF FormState, Modest, OneProvider, Crossed, Picks
<1> QED BY <1>1, <1>2, <1>3, <1>4, <1>5 DEF Edited, Modest

(* The edits of the user, before the effects.  Each names what it changes.     *)
Edits_(new) ==
  /\ Edited(form, new, props) /\ form' = Form!Settle(form, props, new, props)
  /\ UNCHANGED <<kind, props, asked, sends, status>>

LEMMA FieldsKept ==
  ASSUME NEW g, FormTypes(g), NEW f, NEW X \in SUBSET FormFields,
         DOMAIN f = FormFields, \A x \in FormFields \ X : f[x] = g[x]
  PROVE  /\ "runtime" \notin X => f.runtime = g.runtime
         /\ "manual" \notin X => f.manual = g.manual
         /\ "managed" \notin X => f.managed = g.managed
         /\ "storage" \notin X => f.storage = g.storage
         /\ "router" \notin X => f.router = g.router
         /\ "recipe" \notin X => f.recipe = g.recipe
         /\ "provider" \notin X => f.provider = g.provider
         /\ "engine" \notin X => f.engine = g.engine
         /\ "source" \notin X => f.source = g.source
         /\ "mode" \notin X => f.mode = g.mode
         /\ "image" \notin X => f.image = g.image
         /\ "gpu" \notin X => f.gpu = g.gpu
         /\ "nodes" \notin X => f.nodes = g.nodes
         /\ "tp" \notin X => f.tp = g.tp
         /\ "pp" \notin X => f.pp = g.pp
         /\ "choice" \notin X => f.choice = g.choice
         /\ "text" \notin X => f.text = g.text
BY DEF FormFields

LEMMA ChoiceEdits ==
  ASSUME FormInv, NEW c \in {"nightly", "stable", "custom"}, NEW t \in {Form!Unset, "mine"},
         Form!ChooseImage(c) \/ Form!TypeImage(t)
  PROVE  \E new : Edits_(new)
<1>1. PICK new : /\ new = [form EXCEPT !.choice = c] \/ new = [form EXCEPT !.text = t]
                 /\ form' = Form!Settle(form, props, new, props)
                 /\ UNCHANGED <<kind, props, asked, sends, status>>
  BY DEF Form!ChooseImage, Form!TypeImage, Form!Edit
<1>2. FormTypes(form)
  BY DEF FormInv, FormState
<1>3. /\ DOMAIN new = FormFields /\ \A x \in FormFields \ {"choice", "text"} : new[x] = form[x]
      /\ new.choice \in {c, form.choice} /\ new.text \in {t, form.text}
  BY <1>1, <1>2 DEF FormTypes, FormFields
<1>4. FormTypes(new)
  BY <1>2, <1>3, FieldsKept DEF FormTypes, FormFields, MaybeImages, Form!Images
<1>5. Modest(new, form, props)
  BY <1>2, <1>3, <1>4, FieldsKept DEF FormInv, FormState, Modest, SameNodes, SameServer, FormFields
<1> QED BY <1>1, <1>5, ModestEdits DEF FormInv, Edits_

LEMMA FieldEdits ==
  ASSUME FormInv, NEW x \in {"on", "off"}, NEW y \in BOOLEAN, NEW z \in {"cpu", "gpu"}, NEW w \in {"direct", "build"},
         NEW u \in {"default", "kv"},
         Form!SetGateway(x) \/ Form!SetRouter(u) \/ Form!SetStorage(y) \/ Form!SetCompute(z)
         \/ Form!SetRunMode(w) \/ Form!Refresh
  PROVE  \E new : Edits_(new)
<1> DEFINE X == {"gateway", "router", "storage", "compute", "runMode", "recipes"}
<1>1. PICK new : /\ \/ new = [form EXCEPT !.gateway = x]
                    \/ new = [form EXCEPT !.router = u] /\ form.runtime = "dynamo"
                    \/ new = [form EXCEPT !.storage = y] /\ form.runtime = "dynamo"
                    \/ new = [form EXCEPT !.compute = z] \/ new = [form EXCEPT !.runMode = w]
                    \/ new = [form EXCEPT !.recipes = "reloading"]
                 /\ form' = Form!Settle(form, props, new, props)
                 /\ UNCHANGED <<kind, props, asked, sends, status>>
  BY DEF Form!SetGateway, Form!SetRouter, Form!SetStorage, Form!SetCompute, Form!SetRunMode,
         Form!Refresh, Form!Edit
<1>2. FormTypes(form)
  BY DEF FormInv, FormState
<1>3. /\ DOMAIN new = FormFields /\ \A k \in FormFields \ X : new[k] = form[k]
      /\ new.storage = form.storage \/ (new.storage = y /\ form.runtime = "dynamo")
      /\ new.router = form.router \/ form.runtime = "dynamo"
  BY <1>1, <1>2 DEF FormTypes, FormFields
<1>4. FormTypes(new) /\ Modest(new, form, props)
  <2>1. X \in SUBSET FormFields
    BY DEF FormFields
  <2>2. /\ new.runtime = form.runtime /\ new.manual = form.manual /\ new.managed = form.managed
        /\ new.provider = form.provider /\ new.engine = form.engine /\ new.source = form.source
        /\ new.mode = form.mode /\ new.image = form.image /\ new.gpu = form.gpu
        /\ new.recipe = form.recipe /\ new.nodes = form.nodes /\ new.tp = form.tp /\ new.pp = form.pp
        /\ new.choice = form.choice /\ new.text = form.text
    BY <1>2, <1>3, <2>1, FieldsKept
  <2>3. FormTypes(new)
    BY <1>2, <1>3, <2>2 DEF FormTypes
  <2> QED BY <1>3, <2>2, <2>3 DEF FormInv, FormState, Modest, SameNodes, SameServer
<1> QED BY <1>1, <1>4, ModestEdits DEF FormInv, Edits_

LEMMA ServerEdits ==
  ASSUME FormInv, NEW e, NEW m \in Form!Modes,
         Form!ChooseEngine(e) \/ Form!ChooseMode(m) \/ Form!DiscardAdvice
  PROVE  \E new : Edits_(new)
<1> DEFINE X == {"engine", "mode", "managed", "backends"}
<1>1. FormTypes(form) /\ FormState(form, props)
  BY DEF FormInv, FormState
<1>2. /\ FormTypes(Form!OneNode(form)) /\ SameTyped(Form!OneNode(form), form)
      /\ SameDirect(Form!OneNode(form), form)
      /\ Form!OneNode(form).gpu = form.gpu /\ Form!OneNode(form).nodes = 1
  BY <1>1, LoneNode
<1>3. PICK from, new :
        /\ from = form \/ from = Form!OneNode(form)
        /\ \/ new = [from EXCEPT !.engine = e, !.managed = FALSE] /\ form.runtime # "vllm"
           \/ new = [from EXCEPT !.mode = m, !.managed = FALSE] /\ form.runtime # "vllm"
           \/ new = [from EXCEPT !.managed = FALSE, !.backends = {}]
        /\ form' = Form!Settle(form, props, new, props)
        /\ UNCHANGED <<kind, props, asked, sends, status>>
  <2>1. CASE Form!ChooseEngine(e)
    BY <2>1, Zenon DEF Form!ChooseEngine, Form!ServerShown, Form!Edit
  <2>2. CASE Form!ChooseMode(m)
    <3>1. /\ m # form.mode /\ (m = "aggregated" \/ m \in ModesOf[form.runtime][form.engine])
          /\ \E from : /\ from = form \/ from = Form!OneNode(form)
                       /\ form' = Form!Settle(form, props, [from EXCEPT !.mode = m, !.managed = FALSE], props)
          /\ UNCHANGED <<kind, props, asked, sends, status>>
      BY <2>2, Zenon DEF Form!ChooseMode, Form!Edit
    <3>2. form.runtime = "vllm" => form.engine = "vllm" /\ form.mode = "aggregated"
      BY <1>1 DEF FormState, DirectShown
    <3>3. form.runtime # "vllm"
      BY <3>1, <3>2, FormConstants
    <3> QED BY <3>1, <3>3, Zenon
  <2>3. CASE Form!DiscardAdvice
    BY <2>3, Zenon DEF Form!DiscardAdvice, Form!Edit
  <2> QED BY <2>1, <2>2, <2>3
<1>4. FormTypes(from) /\ SameTyped(from, form) /\ SameDirect(from, form) /\ from.gpu = form.gpu
      /\ SameNodes(from, form)
  BY <1>1, <1>2, <1>3 DEF SameTyped, SameDirect, SameNodes
<1>5. /\ DOMAIN new = FormFields /\ \A x \in FormFields \ X : new[x] = from[x]
      /\ new.managed = FALSE
      /\ (new.mode = from.mode /\ new.engine = from.engine) \/ form.runtime # "vllm"
  BY <1>3, <1>4 DEF FormTypes, FormFields
<1>6. X \in SUBSET FormFields
  BY DEF FormFields
<1>7. /\ new.runtime = from.runtime /\ new.manual = from.manual /\ new.storage = from.storage
      /\ new.provider = from.provider /\ new.source = from.source
      /\ new.image = from.image /\ new.gpu = from.gpu
      /\ new.recipe = from.recipe /\ new.router = from.router
      /\ new.nodes = from.nodes /\ new.tp = from.tp /\ new.pp = from.pp
      /\ new.choice = from.choice /\ new.text = from.text
  BY <1>4, <1>5, <1>6, FieldsKept
<1>8. FormTypes(new)
  BY <1>4, <1>5, <1>7 DEF FormTypes
<1>9. Modest(new, form, props)
  BY <1>1, <1>4, <1>5, <1>7, <1>8 DEF FormState, Modest, SameNodes, SameTyped, SameDirect
<1> QED BY <1>1, <1>3, <1>9, ModestEdits DEF Edits_

LEMMA GpuEdits ==
  ASSUME FormInv, NEW n \in 1..Need, Form!SetGpu(n)
  PROVE  /\ \E new : Edits_(new)
         /\ form.managed = FALSE => form'.gpu = n
<1> DEFINE X == {"gpu", "managed"}
<1>1. FormTypes(form) /\ FormState(form, props) /\ n \in Nat \ {0} /\ Need \in Nat \ {0}
  BY FormConstants DEF FormInv, FormState
<1>2. PICK from, new :
        /\ \/ from = form \/ from = Form!OneNode(form)
           \/ /\ form.runtime = "dynamo" /\ form.engine = "vllm" /\ props.capacity # 0
              /\ Form!NodesFor(props, n) > 1
              /\ from = Form!Spread(form, Form!NodesFor(props, n), n)
        /\ new = [from EXCEPT !.gpu = n, !.managed = FALSE]
        /\ form.mode = "aggregated" \/ form.runtime = "kaito"
        /\ form' = Form!Settle(form, props, new, props)
        /\ UNCHANGED <<kind, props, asked, sends, status>>
  BY Zenon DEF Form!SetGpu, Form!Edit
<1>3. /\ FormTypes(from) /\ SameTyped(from, form) /\ SameDirect(from, form)
      /\ \/ SameNodes(from, form)
         \/ form.runtime = "dynamo" /\ form.engine = "vllm" /\ props.capacity # 0
            /\ from.pp = from.nodes /\ from.tp = n
  <2>1. CASE from = form
    BY <1>1, <2>1 DEF SameTyped, SameDirect, SameNodes
  <2>2. CASE from = Form!OneNode(form)
    BY <1>1, <2>2, LoneNode DEF SameNodes
  <2>3. CASE /\ form.runtime = "dynamo" /\ form.engine = "vllm" /\ props.capacity # 0
             /\ from = Form!Spread(form, Form!NodesFor(props, n), n)
    <3>1. PICK many \in Nat \ {0} : many = Form!NodesFor(props, n)
      BY <1>1, <2>3, CeilingIsNat DEF Form!NodesFor
    <3> QED BY SMTT(30), <1>1, <2>3, <3>1, ManyNodes
  <2>4. \/ from = form \/ from = Form!OneNode(form)
        \/ /\ form.runtime = "dynamo" /\ form.engine = "vllm" /\ props.capacity # 0
           /\ from = Form!Spread(form, Form!NodesFor(props, n), n)
    BY <1>2, Zenon
  <2> QED BY <2>1, <2>2, <2>3, <2>4, Zenon
<1>4. /\ DOMAIN new = FormFields /\ \A x \in FormFields \ X : new[x] = from[x]
      /\ new.gpu = n /\ new.managed = FALSE
  BY <1>2, <1>3 DEF FormTypes, FormFields
<1>5. X \in SUBSET FormFields
  BY DEF FormFields
<1>6. /\ new.runtime = from.runtime /\ new.manual = from.manual /\ new.storage = from.storage
      /\ new.provider = from.provider /\ new.engine = from.engine /\ new.source = from.source
      /\ new.mode = from.mode /\ new.image = from.image
      /\ new.recipe = from.recipe /\ new.router = from.router
      /\ new.nodes = from.nodes /\ new.tp = from.tp /\ new.pp = from.pp
      /\ new.choice = from.choice /\ new.text = from.text
  BY <1>3, <1>4, <1>5, FieldsKept
<1>7. FormTypes(new)
  BY <1>1, <1>3, <1>4, <1>6 DEF FormTypes
<1>8. SameNodes(new, form) \/ (NodesFit(new) /\ props.capacity # 0)
  <2>1. CASE SameNodes(from, form)
    BY <1>6, <2>1 DEF SameNodes
  <2>2. CASE form.runtime = "dynamo" /\ form.engine = "vllm" /\ props.capacity # 0
             /\ from.pp = from.nodes /\ from.tp = n
    <3>1. form.mode = "aggregated"
      BY <1>2, <2>2
    <3> QED BY <1>1, <1>3, <1>6, <2>2, <3>1 DEF NodesFit, Form!Spreads, SameDirect
  <2> QED BY <1>3, <2>1, <2>2
<1>9. Modest(new, form, props)
  <2>1. /\ new.runtime = form.runtime /\ new.manual = form.manual /\ new.storage = form.storage
        /\ new.provider = form.provider /\ new.engine = form.engine /\ new.source = form.source
        /\ new.mode = form.mode /\ new.image = form.image
        /\ new.recipe = form.recipe /\ new.router = form.router
    BY <1>3, <1>6 DEF SameTyped, SameDirect
  <2>2. new.gpu >= 1 /\ new.managed = FALSE /\ new.storage \in BOOLEAN
    BY <1>1, <1>4, <2>1 DEF FormState
  <2> QED BY <1>7, <1>8, <2>1, <2>2 DEF Modest
<1>10. ASSUME form.managed = FALSE PROVE form'.gpu = n
  <2>1. /\ new.runtime = form.runtime /\ new.engine = form.engine /\ new.mode = form.mode
        /\ new.managed = form.managed /\ new.choice = form.choice /\ new.text = form.text
    BY <1>3, <1>4, <1>6, <1>10 DEF SameTyped, SameDirect
  <2>2. Quiet(form, props, new, props)
    <3>1. Form!DirectRef(new) = Form!DirectRef(form)
      BY <2>1 DEF Form!DirectRef
    <3>2. ~Picks(form, props, new, props) /\ ~Syncs(form, new)
      BY <2>1, <3>1 DEF Picks, Syncs
    <3>3. ~Resized(form, props, new, props)
      BY <2>1 DEF Resized, Form!Topology
    <3>4. new.gpu # 0
      BY <1>1, <1>4
    <3> QED BY <3>2, <3>3, <3>4 DEF Quiet
  <2>3. PropsTypes(props)
    BY <1>1 DEF FormState
  <2>4. \A st : st = Form!Settle(form, props, new, props) => st.gpu = new.gpu
    BY <1>7, <2>2, <2>3, Settled
  <2> QED BY <1>2, <1>4, <2>4, Zenon
<1>11. Edited(form, new, props)
  BY <1>1, <1>9, ModestEdits
<1>12. Edits_(new)
  BY <1>2, <1>11, Zenon DEF Edits_
<1> QED BY <1>10, <1>12, Zenon

LEMMA AdviceEdits ==
  ASSUME FormInv, NEW a \in Advice, Form!ApplyAdvice(a)
  PROVE  \E new : Edits_(new)
<1> DEFINE X == {"managed", "backends", "engine", "mode", "gpu", "args"}
<1>1. FormTypes(form) /\ FormState(form, props) /\ a.tp \in Nat \ {0} /\ a.pp \in Nat \ {0}
  BY FormConstants DEF FormInv, FormState
<1>2. PICK from, new :
        /\ \/ from = Form!OneNode(form)
           \/ /\ a.mode = "aggregated" /\ a.engine = "vllm" /\ a.pp > 1
              /\ from = Form!Spread(form, a.pp, a.tp)
        /\ form.runtime = "dynamo"
        /\ new = [from EXCEPT !.managed = TRUE, !.backends = {a.engine}, !.engine = a.engine,
                              !.mode = a.mode, !.gpu = a.tp, !.args = @ \cup {"advice"}]
        /\ form' = Form!Settle(form, props, new, props)
        /\ UNCHANGED <<kind, props, asked, sends, status>>
  BY Zenon DEF Form!ApplyAdvice, Form!Edit
<1>3. /\ FormTypes(from) /\ SameTyped(from, form) /\ SameDirect(from, form)
      /\ \/ from.nodes = 1
         \/ a.mode = "aggregated" /\ a.engine = "vllm" /\ from.pp = from.nodes /\ from.tp = a.tp
  BY SMTT(30), <1>1, <1>2, LoneNode, ManyNodes
<1>4. /\ DOMAIN new = FormFields /\ \A x \in FormFields \ X : new[x] = from[x]
      /\ new.gpu = a.tp /\ new.managed = TRUE /\ new.engine = a.engine /\ new.mode = a.mode
  BY <1>2, <1>3 DEF FormTypes, FormFields
<1>5. X \in SUBSET FormFields
  BY DEF FormFields
<1>6. /\ new.runtime = from.runtime /\ new.manual = from.manual /\ new.storage = from.storage
      /\ new.provider = from.provider /\ new.source = from.source /\ new.image = from.image
      /\ new.recipe = from.recipe /\ new.router = from.router
      /\ new.nodes = from.nodes /\ new.tp = from.tp /\ new.pp = from.pp
      /\ new.choice = from.choice /\ new.text = from.text
  BY <1>3, <1>4, <1>5, FieldsKept
<1>7. FormTypes(new)
  BY <1>1, <1>3, <1>4, <1>6 DEF FormTypes
<1>8. /\ new.runtime = "dynamo" /\ new.manual = form.manual /\ new.storage = form.storage
      /\ new.provider = form.provider /\ new.source = form.source /\ new.image = form.image
      /\ new.recipe = form.recipe
  BY <1>2, <1>3, <1>6 DEF SameTyped, SameDirect
<1>9. NodesFit(new)
  BY <1>1, <1>3, <1>4, <1>6, <1>8 DEF NodesFit, Form!Spreads
<1>10. new.storage \in BOOLEAN /\ form.runtime = "dynamo"
  BY <1>1, <1>2, <1>8 DEF FormState
<1>11. Modest(new, form, props)
  BY <1>4, <1>7, <1>8, <1>9, <1>10 DEF Modest
<1>12. Edited(form, new, props)
  BY <1>1, <1>11, ModestEdits
<1> QED BY <1>2, <1>12, Zenon DEF Edits_

(* handleRuntimeChange: what the runtime does not have is reset, and the nodes *)
(* are spread anew or left to the effect.                                      *)
LEMMA RuntimeEdits ==
  ASSUME FormInv, NEW r \in Runtimes, Form!ChooseRuntime(r)
  PROVE  \E new : Edits_(new)
<1> DEFINE gpus == IF form.gpu = 0 THEN Form!Recommended(props).gpus ELSE form.gpu
           engine == IF form.engine \in Form!ModelEngines \cap EnginesOf[r] THEN form.engine
                     ELSE Form!DefaultEngine(r)
           manages == r = "dynamo" /\ form.mode = "aggregated" /\ engine = "vllm"
           leaves == form.provider = "vllm" /\ r # "vllm"
           X == {"runtime", "manual", "managed", "provider", "engine", "mode", "source", "image", "recipe",
                 "router", "premade", "compute", "backends", "storage"}
<1>1. FormTypes(form) /\ FormState(form, props) /\ PropsTypes(props)
  BY DEF FormInv, FormState
<1> DEFINE spread == IF manages /\ props.capacity = 0 THEN Form!NoArgs(form)
                     ELSE IF manages /\ Form!NodesFor(props, gpus) > 1
                          THEN Form!Spread(form, Form!NodesFor(props, gpus), gpus)
                          ELSE Form!OneNode(form)
           Chosen(f) == [f EXCEPT
             !.runtime = r, !.manual = TRUE, !.managed = FALSE, !.provider = r,
             !.engine = IF r = "vllm" THEN "vllm" ELSE engine,
             !.mode = IF r \in {"kaito", "vllm"} THEN "aggregated" ELSE @,
             !.source = IF r = "vllm" THEN "vllm" ELSE IF leaves THEN Form!Unset ELSE @,
             !.image = IF r = "vllm" THEN Form!DirectRef(form) ELSE IF leaves THEN Form!Unset ELSE @,
             !.recipe = IF r = "vllm" THEN @ ELSE Form!Unset,
             !.router = IF r = "dynamo" THEN @ ELSE "default",
             !.premade = r = "kaito" /\ @,
             !.compute = IF r # "kaito" THEN "cpu" ELSE @,
             !.backends = IF r # "dynamo" THEN {} ELSE @,
             !.storage = r = "dynamo" /\ @]
<1>2. Form!Edit(Chosen(spread))
  BY DEF Form!ChooseRuntime
<1>3. PICK from : from = spread
  OBVIOUS
<1>4. PICK new : new = Chosen(from)
  OBVIOUS
<1>5. Form!Edit(new)
  <2> HIDE DEF spread, Chosen
  <2> QED BY <1>2, <1>3, <1>4
<1>6. /\ FormTypes(from) /\ SameTyped(from, form) /\ SameDirect(from, form) /\ from.gpu = form.gpu
      /\ \/ from.nodes = 1
         \/ manages /\ props.capacity = 0 /\ from.nodes = form.nodes
         \/ manages /\ props.capacity # 0 /\ from.pp = from.nodes /\ from.tp > 0
  <2>1. CASE from = Form!OneNode(form)
    BY <1>1, <2>1, LoneNode
  <2>2. CASE manages /\ props.capacity = 0 /\ from = Form!NoArgs(form)
    <3>1. /\ DOMAIN from = FormFields /\ from.tp = 0 /\ from.pp = 0
          /\ \A x \in FormFields \ {"tp", "pp"} : from[x] = form[x]
      BY <1>1, <2>2 DEF FormTypes, FormFields, Form!NoArgs
    <3>2. SameTyped(from, form) /\ SameDirect(from, form) /\ from.gpu = form.gpu /\ from.nodes = form.nodes
      BY <3>1 DEF FormFields, SameTyped, SameDirect
    <3>3. FormTypes(from)
      BY <1>1, <3>1, <3>2 DEF FormTypes, SameTyped, SameDirect
    <3> QED BY <2>2, <3>2, <3>3
  <2>3. CASE manages /\ props.capacity # 0 /\ from = Form!Spread(form, Form!NodesFor(props, gpus), gpus)
    <3>1. gpus \in Nat \ {0}
      BY <1>1, RecommendedTypes DEF FormTypes
    <3>2. PICK tp \in Nat \ {0} : tp = gpus
      BY <3>1
    <3>3. PICK many \in Nat \ {0} : many = Form!NodesFor(props, gpus)
      BY <2>3, <3>2, CeilingIsNat, FormConstants DEF Form!NodesFor
    <3>4. from = Form!Spread(form, many, tp)
      BY <2>3, <3>2, <3>3
    <3>5. /\ FormTypes(from) /\ SameTyped(from, form) /\ SameDirect(from, form)
          /\ from.gpu = form.gpu /\ from.nodes = many /\ from.tp = tp /\ from.pp = many
      BY <1>1, <3>4, ManyNodes
    <3> QED BY <2>3, <3>5
  <2> QED BY <1>3, <2>1, <2>2, <2>3
<1> HIDE DEF gpus
<1>7. /\ DOMAIN new = FormFields /\ \A x \in FormFields \ X : new[x] = from[x]
  BY <1>4, <1>6 DEF FormTypes
<1>8. /\ new.runtime = r /\ new.manual = TRUE /\ new.managed = FALSE /\ new.provider = r
      /\ r = "vllm" => new.engine = "vllm" /\ new.mode = "aggregated" /\ new.source = "vllm"
      /\ r \notin {"kaito", "vllm"} => new.mode = from.mode
      /\ r # "vllm" => new.engine = engine
  BY <1>4, <1>6 DEF FormTypes, FormFields
<1>9. /\ new.image = IF r = "vllm" THEN Form!DirectRef(form) ELSE IF leaves THEN Form!Unset ELSE from.image
      /\ new.storage = (r = "dynamo" /\ from.storage)
      /\ new.router = IF r = "dynamo" THEN from.router ELSE "default"
      /\ new.recipe = IF r = "vllm" THEN from.recipe ELSE Form!Unset
      /\ new.source = IF r = "vllm" THEN "vllm" ELSE IF leaves THEN Form!Unset ELSE from.source
  BY <1>4, <1>6 DEF FormTypes, FormFields
<1>10. /\ new.gpu = from.gpu /\ new.nodes = from.nodes /\ new.tp = from.tp /\ new.pp = from.pp
      /\ new.choice = from.choice /\ new.text = from.text
  BY <1>6, <1>7, FieldsKept DEF FormFields
<1>11. FormTypes(new)
  <2>1. new.image \in MaybeImages
    BY <1>1, <1>6, <1>9 DEF FormTypes, MaybeImages, Form!Images, Form!DirectRef, SameDirect
  <2> QED BY <1>6, <1>7, <1>8, <1>10, <2>1 DEF FormTypes
<1>12. new.storage \in BOOLEAN /\ OwnParts(new)
  BY <1>8, <1>9 DEF OwnParts
<1>13. Pending(form, new)
  <2>1. Form!DirectRef(new) = Form!DirectRef(form)
    BY <1>6, <1>10 DEF SameTyped, Form!DirectRef
  <2>2. ASSUME r = "vllm", form.runtime = "vllm" PROVE new.gpu >= 1
    BY <1>1, <1>6, <1>10, <2>2 DEF FormState, DirectShown
  <2>3. r = "vllm" => new.image = Form!DirectRef(new)
    BY <1>9, <2>1
  <2> QED BY <1>8, <2>2, <2>3 DEF Pending, DirectShown
<1>14. props.capacity = 0 => new.nodes = 1 \/ Resized(form, props, new, props)
  <2>1. CASE form.managed = TRUE
    BY <1>8, <2>1 DEF Resized, Form!Topology
  <2>2. CASE form.managed = FALSE
    BY <1>1, <1>6, <1>10, <2>2 DEF FormState
  <2> QED BY <1>1, <2>1, <2>2 DEF FormState
<1>15. NodesFit(new) \/ Resized(form, props, new, props)
  <2>1. CASE new.nodes = 1
    BY <2>1 DEF NodesFit
  <2>2. CASE props.capacity = 0
    BY <1>14, <2>1, <2>2
  <2>3. CASE manages /\ from.pp = from.nodes /\ from.tp > 0
    <3>1. r = "dynamo" /\ new.mode = "aggregated" /\ new.engine = "vllm"
      BY <1>6, <1>8, <2>3 DEF SameDirect
    <3> QED BY <1>8, <1>10, <2>3, <3>1 DEF NodesFit, Form!Spreads
  <2> QED BY <1>6, <1>10, <2>1, <2>2, <2>3
<1>16. OneProvider(new)
  BY <1>1, <1>6, <1>8, <1>9 DEF FormState, SameDirect, OneProvider
<1>17. ~Crossed(form, props, new, props)
  BY <1>8 DEF Crossed, Picks
<1>18. Edited(form, new, props)
  BY <1>8, <1>11, <1>12, <1>13, <1>14, <1>15, <1>16, <1>17 DEF Edited
<1> QED BY <1>18, <1>5, Zenon DEF Edits_, Form!Edit

-----------------------------------------------------------------------------
(* What the answers and the queries make of the form.                          *)
LEMMA ListArrives ==
  ASSUME FormInv, NEW works \in BOOLEAN, Form!RecipesAnswer(works)
  PROVE  FormState(form', props')
<1>1. PICK v : v = IF works \/ form.recipes = "reloading" THEN "loaded" ELSE "failed"
  OBVIOUS
<1>2. PICK new : new = [form EXCEPT !.recipes = v]
  OBVIOUS
<1>3. form' = Form!Settle(form, props, new, props) /\ props' = props
  BY <1>1, <1>2 DEF Form!RecipesAnswer
<1>4. FormTypes(form) /\ FormState(form, props)
  BY DEF FormInv, FormState
<1>5. Alike(new, form)
  BY <1>2, <1>4, PlainField
<1>6. Modest(new, form, props)
  BY <1>4, <1>5 DEF Alike, FormState, Modest, SameNodes, SameServer, SameTyped, SameDirect, SameSize
<1>7. Edited(form, new, props)
  BY <1>4, <1>6, ModestEdits
<1> QED BY <1>3, <1>7, EditSettles

(* The recipe asked for is applied to whatever the form shows by now: one node *)
(* and the image that was asked about.                                         *)
LEMMA RecipeArrives ==
  ASSUME FormInv, NEW works \in BOOLEAN, NEW image \in {"recipe", Form!Unset}, NEW tp \in {0, Need},
         Form!RecipeResolved(works, image, tp)
  PROVE  FormState(form', props')
<1> DEFINE X == {"mode", "gpu", "tp", "quant", "args", "extras", "recipe", "router", "choice", "text",
                 "provider", "engine", "source", "image"}
<1>1. PICK q : q = asked[1]
  OBVIOUS
<1>2. PICK ref : ref = IF q.custom THEN q.image ELSE IF image = Form!Unset THEN q.image ELSE image
  OBVIOUS
<1>3. PICK one : one = Form!OneNode(form)
  OBVIOUS
<1>4. PICK args : args = [one EXCEPT
               !.mode = q.mode, !.gpu = IF tp = 0 THEN 1 ELSE tp, !.tp = tp, !.quant = Form!Unset,
               !.args = {"recipe"}, !.extras = TRUE, !.recipe = "applied", !.router = "default",
               !.choice = IF ref \in {"nightly", "stable"} THEN ref ELSE "custom",
               !.text = IF ref \in {"nightly", "stable"} THEN Form!Unset ELSE ref]
  OBVIOUS
<1>5. PICK new : new = Form!Direct(args, ref)
  OBVIOUS
<1>6. /\ asked # << >> /\ props' = props
      /\ form' = IF works THEN Form!Settle(form, props, new, props) ELSE form
  BY <1>1, <1>2, <1>3, <1>4, <1>5, Zenon DEF Form!RecipeResolved
<1>7. FormTypes(form) /\ FormState(form, props) /\ Question_(q)
  BY <1>1, <1>6 DEF FormInv, FormState
<1>8. ref \in MaybeImages
  BY <1>2, <1>7 DEF Question_, MaybeImages, Form!Images
<1>9. /\ FormTypes(one) /\ SameTyped(one, form) /\ SameDirect(one, form)
      /\ one.gpu = form.gpu /\ one.nodes = 1 /\ one.tp = 0 /\ one.pp = 0
  BY <1>3, <1>7, LoneNode
<1>10. tp \in Nat
  BY FormConstants
<1>11. /\ DOMAIN args = FormFields /\ \A x \in FormFields \ X : args[x] = one[x]
       /\ args.gpu = IF tp = 0 THEN 1 ELSE tp
       /\ args.mode = q.mode /\ args.tp = tp /\ args.recipe = "applied" /\ args.router = "default"
       /\ args.choice = IF ref \in {"nightly", "stable"} THEN ref ELSE "custom"
       /\ args.text = IF ref \in {"nightly", "stable"} THEN Form!Unset ELSE ref
  BY <1>4, <1>9 DEF FormTypes, FormFields
<1>12. /\ DOMAIN new = FormFields
       /\ \A x \in FormFields \ {"provider", "engine", "source", "image", "gpu"} : new[x] = args[x]
       /\ new.provider = "vllm" /\ new.engine = "vllm" /\ new.source = "vllm" /\ new.image = ref
       /\ new.gpu = IF args.gpu = 0 THEN 1 ELSE args.gpu
  BY <1>5, <1>11, Zenon DEF FormFields, Form!Direct
<1>13. /\ new.recipe = "applied" /\ new.router = "default"
       /\ new.mode = q.mode /\ new.tp = tp /\ new.choice = args.choice /\ new.text = args.text
       /\ new.gpu \in Nat /\ new.gpu >= 1
  BY <1>10, <1>11, <1>12 DEF FormFields
<1>14. \A x \in FormFields \ X : new[x] = one[x]
  BY <1>11, <1>12
<1>15. X \in SUBSET FormFields
  BY DEF FormFields
<1>16. /\ new.runtime = one.runtime /\ new.manual = one.manual /\ new.managed = one.managed
       /\ new.storage = one.storage /\ new.nodes = one.nodes /\ new.pp = one.pp
  BY <1>9, <1>12, <1>14, <1>15, FieldsKept
<1>17. new.choice \in {"nightly", "stable", "custom"} /\ new.text \in MaybeImages
  BY <1>8, <1>11, <1>13 DEF MaybeImages
<1>18. FormTypes(new)
  BY <1>8, <1>9, <1>10, <1>12, <1>13, <1>16, <1>17, FormConstants DEF FormTypes
<1>19. Form!DirectRef(new) = ref
  BY <1>11, <1>13 DEF Form!DirectRef
<1>20. new.mode = "aggregated"
  BY <1>7, <1>13 DEF Question_
<1>21. Pending(form, new)
  BY <1>12, <1>13, <1>19, <1>20 DEF Pending, DirectShown
<1>22. /\ new.runtime = form.runtime /\ new.manual = form.manual /\ new.managed = form.managed
       /\ new.storage = form.storage /\ new.nodes = 1
  BY <1>9, <1>16 DEF SameTyped, SameDirect
<1>23. OneProvider(new) /\ ~Crossed(form, props, new, props)
  BY <1>12, <1>13, <1>22 DEF OneProvider, Crossed, Picks, Form!Unset
<1>24. new.manual = TRUE => OwnParts(new)
  BY <1>7, <1>13, <1>22 DEF FormState, ManualFits, OwnParts
<1>25. Edited(form, new, props)
  BY <1>7, <1>18, <1>21, <1>22, <1>23, <1>24 DEF Edited, FormState, NodesFit
<1>26. ASSUME works PROVE FormState(form', props')
  BY <1>6, <1>25, <1>26, EditSettles
<1> QED BY <1>6, <1>7, <1>26

PropsFields == {"known", "ready", "capacity", "fp8", "gateway", "files", "premades"}
LEMMA Delivered ==
  ASSUME FormInv, NEW p, Form!Deliver(p), DOMAIN p = PropsFields, PropsTypes(p),
         p.capacity = 0 => props.capacity = 0
  PROVE  FormInv'
<1>1. props' = p /\ form' = Form!Settle(form, props, form, p) /\ UNCHANGED <<asked, status>>
  BY DEF Form!Deliver
<1>2. FormTypes(form) /\ FormState(form, props)
  BY DEF FormInv, FormState
<1>3. Pending(form, form)
  BY <1>2 DEF FormState, Pending, DirectShown
<1>4. p.capacity = 0 /\ form.managed = FALSE => form.nodes = 1
  BY <1>2 DEF FormState
<1>5. /\ form.manual \in BOOLEAN /\ form.managed \in BOOLEAN /\ form.storage \in BOOLEAN
      /\ form.manual = TRUE => OwnParts(form) /\ NodesFit(form)
      /\ OneProvider(form) /\ ~Crossed(form, props, form, p)
  BY <1>2 DEF FormState, ManualFits, Crossed, Syncs
<1>6. PICK s : s = Form!Settle(form, props, form, p)
  OBVIOUS
<1>7. FormState(s, p)
  BY <1>2, <1>3, <1>4, <1>5, <1>6, SettledState
<1> QED BY <1>1, <1>6, <1>7 DEF FormInv, PropsFields

LEMMA DeliveriesKeep == ASSUME FormInv, Form!Deliveries PROVE FormInv'
<1>1. DOMAIN props = PropsFields /\ PropsTypes(props)
  BY DEF FormInv, FormState, PropsFields
<1>2. ASSUME NEW ready \in ReadySets, Form!RuntimesChange(ready) PROVE FormInv'
  <2>1. PICK p : p = [props EXCEPT !.known = TRUE, !.ready = ready]
    OBVIOUS
  <2>2. DOMAIN p = PropsFields /\ p.ready = ready /\ p.capacity = props.capacity
    BY <1>1, <2>1 DEF PropsFields
  <2>3. ready \in SUBSET Runtimes
    BY ClientsAssumption DEF Form!FormAssumption
  <2> QED BY <1>1, <1>2, <2>1, <2>2, <2>3, Delivered DEF PropsTypes, Form!RuntimesChange
<1>3. ASSUME NEW n \in Capacities, Form!CapacityChanges(n) PROVE FormInv'
  <2>1. PICK p : p = [props EXCEPT !.capacity = n]
    OBVIOUS
  <2>2. DOMAIN p = PropsFields /\ p.ready = props.ready /\ p.capacity = n
    BY <1>1, <2>1 DEF PropsFields
  <2>3. n \in Nat \ {0}
    BY FormConstants
  <2> QED BY <1>1, <1>3, <2>1, <2>2, <2>3, Delivered DEF PropsTypes, Form!CapacityChanges
<1>4. ASSUME NEW x \in {"fp8", "gateway", "files", "premades"}, NEW v, Form!Deliver([props EXCEPT ![x] = v])
      PROVE  FormInv'
  <2>1. PICK p : p = [props EXCEPT ![x] = v]
    OBVIOUS
  <2>2. DOMAIN p = PropsFields /\ p.ready = props.ready /\ p.capacity = props.capacity
    BY <1>1, <2>1 DEF PropsFields
  <2> QED BY <1>1, <1>4, <2>1, <2>2, Delivered DEF PropsTypes
<1>5. ASSUME NEW x, Form!PrecisionChanges(x) \/ Form!GatewayChanges(x) \/ Form!FilesArrive \/ Form!PremadesArrive
      PROVE  FormInv'
  BY <1>4, <1>5 DEF Form!PrecisionChanges, Form!GatewayChanges, Form!FilesArrive, Form!PremadesArrive
<1> QED BY <1>2, <1>3, <1>5, Zenon DEF Form!Deliveries

LEMMA Asking == ASSUME FormInv, Form!AskRecipe PROVE FormInv'
<1>1. /\ form.runtime = "vllm" /\ UNCHANGED <<props, form, status>>
      /\ asked' = <<[image |-> Form!DirectRef(form), custom |-> form.choice = "custom", mode |-> form.mode]>>
  BY DEF Form!AskRecipe
<1>2. Form!DirectRef(form) \in MaybeImages
  BY DEF FormInv, FormState, FormTypes, MaybeImages, Form!Images, Form!DirectRef
<1>3. form.mode = "aggregated"
  BY <1>1 DEF FormInv, FormState, DirectShown
<1>4. Question_(asked'[1])
  BY <1>1, <1>2, <1>3 DEF Question_
<1> QED BY <1>1, <1>4 DEF FormInv

LEMMA EditsKeep == ASSUME FormInv, Form!Edits PROVE FormInv'
<1>1. ASSUME NEW new, Edits_(new) PROVE FormInv'
  <2>1. Edited(form, new, props) /\ form' = Form!Settle(form, props, new, props)
        /\ UNCHANGED <<props, asked, status>>
    BY <1>1 DEF Edits_
  <2>2. FormState(form', props')
    BY <2>1, EditSettles
  <2> QED BY <2>1, <2>2 DEF FormInv
<1>2. ASSUME NEW r \in Runtimes, Form!ChooseRuntime(r) PROVE FormInv'
  BY <1>1, <1>2, RuntimeEdits
<1>3. ASSUME NEW e, Form!ChooseEngine(e) PROVE FormInv'
  BY <1>1, <1>3, ServerEdits DEF Form!Modes
<1>4. ASSUME NEW m \in Form!Modes, Form!ChooseMode(m) PROVE FormInv'
  BY <1>1, <1>4, ServerEdits
<1>5. ASSUME NEW n \in 1..Need, Form!SetGpu(n) PROVE FormInv'
  BY <1>1, <1>5, GpuEdits
<1>6. ASSUME NEW c \in {"nightly", "stable", "custom"}, Form!ChooseImage(c) PROVE FormInv'
  BY <1>1, <1>6, ChoiceEdits
<1>7. ASSUME NEW t \in {Form!Unset, "mine"}, Form!TypeImage(t) PROVE FormInv'
  BY <1>1, <1>7, ChoiceEdits
<1>8. ASSUME NEW x \in {"on", "off"}, NEW y \in BOOLEAN, NEW z \in {"cpu", "gpu"}, NEW w \in {"direct", "build"},
             NEW u \in {"default", "kv"},
             Form!SetGateway(x) \/ Form!SetRouter(u) \/ Form!SetStorage(y) \/ Form!SetCompute(z) \/ Form!SetRunMode(w)
             \/ Form!Refresh
      PROVE  FormInv'
  BY <1>1, <1>8, FieldEdits
<1>9. ASSUME NEW a \in Advice, Form!ApplyAdvice(a) PROVE FormInv'
  BY <1>1, <1>9, AdviceEdits
<1>10. ASSUME Form!DiscardAdvice PROVE FormInv'
  BY <1>1, <1>10, ServerEdits DEF Form!Modes
<1>11. ASSUME NEW x \in {"on", "off"}, Form!SetGateway(x) PROVE FormInv'
  BY <1>8, <1>11
<1>12. ASSUME NEW x \in BOOLEAN, Form!SetStorage(x) PROVE FormInv'
  BY <1>8, <1>12
<1>13. ASSUME NEW x \in {"cpu", "gpu"}, Form!SetCompute(x) PROVE FormInv'
  BY <1>8, <1>13
<1>14. ASSUME NEW x \in {"direct", "build"}, Form!SetRunMode(x) PROVE FormInv'
  BY <1>8, <1>14
<1>15. ASSUME Form!Refresh PROVE FormInv'
  BY <1>8, <1>15
<1>16. ASSUME NEW x \in {"default", "kv"}, Form!SetRouter(x) PROVE FormInv'
  BY <1>8, <1>16
<1> QED BY <1>2, <1>3, <1>4, <1>5, <1>6, <1>7, <1>9, <1>10, <1>11, <1>12, <1>13, <1>14, <1>15, <1>16, Asking,
        Zenon
     DEF Form!Edits

LEMMA AnswersKeep == ASSUME FormInv, Form!Answers PROVE FormInv'
<1>1. ASSUME NEW works \in BOOLEAN, Form!RecipesAnswer(works) PROVE FormInv'
  <2>1. FormState(form', props')
    BY <1>1, ListArrives
  <2> QED BY <1>1, <2>1 DEF FormInv, Form!RecipesAnswer
<1>2. ASSUME NEW works \in BOOLEAN, NEW image \in {"recipe", Form!Unset}, NEW tp \in {0, Need},
             Form!RecipeResolved(works, image, tp)
      PROVE  FormInv'
  <2>1. FormState(form', props')
    BY <1>2, RecipeArrives
  <2>2. asked' = << >> /\ UNCHANGED <<props, status>>
    BY <1>2 DEF Form!RecipeResolved
  <2> QED BY <2>1, <2>2 DEF FormInv
<1>3. ASSUME NEW i, Form!Progress(i) PROVE FormInv'
  <2>1. UNCHANGED <<props, form, asked>> /\ status' \in FormStatus
    BY <1>3 DEF Form!Progress, Form!Post, Form!TimerFires, Form!InfraAnswers, Form!BuildAnswers,
                Form!PostAnswers, Form!Form, Form!Show, FormInv, FormStatus
  <2> QED BY <2>1 DEF FormInv
<1>4. ASSUME Form!Navigate PROVE FormInv'
  BY <1>4 DEF FormInv, Form!Navigate, FormStatus
<1> QED BY <1>1, <1>2, <1>3, <1>4, Zenon DEF Form!Answers

LEMMA FormStart == Form!Init => FormInv
<1> SUFFICES ASSUME Form!Init PROVE FormInv
  OBVIOUS
<1>1. PICK ready \in ReadySets, n \in {0} \cup Capacities :
        props = [Form!NoProps EXCEPT !.known = TRUE, !.ready = ready, !.capacity = n]
  BY DEF Form!Init
<1>2. DOMAIN props = PropsFields /\ props.ready = ready /\ props.capacity = n
  BY <1>1 DEF PropsFields, Form!NoProps
<1>3. PropsTypes(props)
  BY <1>2, FormConstants, ClientsAssumption DEF PropsTypes, Form!FormAssumption
<1>4. PICK r \in Runtimes : r = Form!DefaultRuntime(props)
  BY <1>3, DefaultIsOne
<1>5. PICK new : new = Form!Blank(r)
  OBVIOUS
<1>6. PICK old : old = Form!Unmounted(r)
  OBVIOUS
<1>7. form = Form!Settle(old, Form!NoProps, new, props) /\ asked = << >> /\ status = "idle"
  BY <1>4, <1>5, <1>6 DEF Form!Init
<1>8. /\ DOMAIN new = FormFields /\ new.runtime = r /\ new.provider = r /\ new.gpu = 0 /\ new.nodes = 1
      /\ new.tp = 0 /\ new.pp = 0 /\ new.text = Form!Unset /\ new.choice = "nightly"
      /\ new.mode = "aggregated" /\ new.manual = FALSE /\ new.managed = FALSE /\ new.storage = FALSE
      /\ new.image = IF r = "vllm" THEN "nightly" ELSE Form!Unset
      /\ new.source = IF r = "vllm" THEN "vllm" ELSE Form!Unset
      /\ new.recipe = Form!Unset
  BY <1>5 DEF FormFields, Form!Blank
<1>9. FormTypes(new)
  BY <1>8 DEF FormTypes, MaybeImages, Form!Images
<1>10. old.runtime = Form!Unset
  BY <1>6 DEF Form!Unmounted, Form!Blank
<1>11. Pending(old, new)
  BY <1>8, <1>10, FormConstants DEF Pending
<1>12. OneProvider(new) /\ ~Crossed(old, Form!NoProps, new, props)
  BY <1>4, <1>8 DEF OneProvider, Crossed, Picks
<1>13. FormState(form, props)
  BY <1>3, <1>7, <1>8, <1>9, <1>11, <1>12, SettledState
<1> QED BY <1>2, <1>7, <1>13 DEF FormInv, PropsFields, FormStatus

LEMMA FormKept == FormInv /\ [Form!Next]_(Form!fvars) => FormInv'
<1> SUFFICES ASSUME FormInv, [Form!Next]_(Form!fvars) PROVE FormInv'
  OBVIOUS
<1>1. CASE UNCHANGED Form!fvars
  BY <1>1 DEF Form!fvars, FormInv
<1>2. ASSUME NEW button \in BOOLEAN, Form!Submit(button) PROVE FormInv'
  BY <1>2 DEF Form!Submit, FormInv, FormStatus
<1> QED BY <1>1, <1>2, EditsKeep, DeliveriesKeep, AnswersKeep, Zenon DEF Form!Next

LEMMA FormHolds == Form!Spec => []FormInv
BY FormStart, FormKept, PTL DEF Form!Spec

(* Once the user has chosen the runtime, storage, router mode and several nodes *)
(* are there for Dynamo alone; with Direct vLLM what would be deployed is what *)
(* the page shows; image, source and provenance go with the provider they are  *)
(* of, and the provider differs from the page's only after a recipe that came  *)
(* late (DeploymentForm.tsx), in whatever order edits, answers and effects     *)
(* come: for any runtimes, engines, modes, models, capacities and advice.      *)
THEOREM SettingsFit == Form!Spec => []Form!SettingsFitTheRuntime
<1>1. FormInv => Form!SettingsFitTheRuntime
  BY DEF FormInv, FormState, ManualFits, OwnParts, OneProvider, NodesFit, DirectShown, Form!Spreads,
         Form!SettingsFitTheRuntime
<1> QED BY <1>1, FormHolds, PTL

(* The types of the deploy form.                                               *)
THEOREM FormTyped == Form!Spec => []Form!TypeOK
<1>1. FormInv => Form!TypeOK
  BY DEF FormInv, FormState, FormTypes, FormStatus, MaybeImages, Form!TypeOK
<1> QED BY <1>1, FormHolds, PTL

(* "manual topology edits do not trigger this effect and get snapped back"     *)
(* (DeploymentForm.tsx): a typed GPU count is still there after the effects.   *)
THEOREM EditsStay == Form!Spec => Form!ManualEditStays
<1>1. FormInv /\ [Form!Next]_(Form!fvars)
        => [\A n \in 1..Need : Form!SetGpu(n) /\ ~form.managed => form'.gpu = n]_(Form!fvars)
  <2> SUFFICES ASSUME FormInv, NEW n \in 1..Need, Form!SetGpu(n), ~form.managed PROVE form'.gpu = n
    OBVIOUS
  <2>1. form.managed = FALSE
    BY DEF FormInv, FormState
  <2> QED BY <2>1, GpuEdits
<1> QED BY <1>1, FormHolds, PTL DEF Form!Spec, Form!ManualEditStays

-----------------------------------------------------------------------------
(* What the button sends.                                                      *)
BodyFields ==
  {"provider", "engine", "mode", "source", "image", "gpu", "nodes", "tp", "pp", "quant", "args",
   "extras", "recipe", "router", "gateway", "storage", "compute", "runMode", "file", "premade"}
Shown(s) == s.body = [s.shown EXCEPT !.image = IF s.body.image = "built" THEN "built" ELSE @]
Sent(s) ==
  /\ DOMAIN s = {"pc", "button", "body", "shown", "timer"}
  /\ DOMAIN s.body = BodyFields /\ DOMAIN s.shown = BodyFields
  /\ s.button = TRUE => Shown(s)
SendsInv == (\E Any : sends \in Seq(Any)) /\ \A i \in DOMAIN sends : Sent(sends[i])

LEMMA SameBody ==
  ASSUME NEW f, NEW p
  PROVE  /\ DOMAIN Form!Request(f, p) = BodyFields /\ DOMAIN Form!Preview(f, p) = BodyFields
         /\ Form!KaitoReady(f) => Form!Request(f, p) = Form!Preview(f, p)
         /\ Form!Preview(f, p) = [x \in BodyFields |-> Form!Preview(f, p)[x]]
<1>1. PICK g : g = Form!NoGateway(f, p)
  OBVIOUS
<1>2. PICK b : b = Form!Body(g)
  OBVIOUS
<1>3. PICK d : d = Form!Body(Form!Direct(g, IF g.image = Form!Unset THEN Form!DirectRef(f) ELSE g.image))
  OBVIOUS
<1>4. /\ DOMAIN b = BodyFields /\ DOMAIN d = BodyFields /\ b.gpu = g.gpu
      /\ b = [x \in BodyFields |-> b[x]] /\ d = [x \in BodyFields |-> d[x]]
  BY <1>2, <1>3 DEF BodyFields, Form!Body
<1>5. g.gpu = f.gpu
  BY <1>1 DEF Form!NoGateway
<1>6. CASE f.runtime = "vllm"
  <2>1. Form!Request(f, p) = d /\ Form!Preview(f, p) = d
    BY <1>1, <1>3, <1>6 DEF Form!Request, Form!Preview
  <2> QED BY <1>4, <2>1
<1>7. CASE f.runtime = "kaito" /\ kind = "gguf"
  <2>1. PICK r : r = [b EXCEPT !.source = "huggingface", !.file = f.file, !.runMode = f.runMode,
                               !.compute = f.compute]
    OBVIOUS
  <2>2. Form!Request(f, p) = r /\ Form!Preview(f, p) = r
    BY <1>1, <1>2, <1>7, <2>1 DEF Form!Request, Form!Preview
  <2> QED BY <1>4, <2>1, <2>2
<1>8. CASE f.runtime = "kaito" /\ kind = "vllm"
  <2>1. PICK r : r = [b EXCEPT !.source = "vllm", !.compute = "gpu"]
    OBVIOUS
  <2>2. PICK q : q = [b EXCEPT !.source = "vllm", !.compute = "gpu", !.gpu = IF @ = 0 THEN 1 ELSE @]
    OBVIOUS
  <2>3. Form!Request(f, p) = q /\ Form!Preview(f, p) = r
    BY <1>1, <1>2, <1>8, <2>1, <2>2 DEF Form!Request, Form!Preview
  <2>4. DOMAIN r = BodyFields /\ DOMAIN q = BodyFields
    BY <1>4, <2>1, <2>2
  <2>5. ASSUME Form!KaitoReady(f) PROVE q = r
    <3>1. b.gpu # 0
      BY <1>4, <1>5, <1>8, <2>5 DEF Form!KaitoReady
    <3>2. q.gpu = b.gpu /\ r.gpu = b.gpu /\ q.source = r.source /\ q.compute = r.compute
      BY <1>4, <2>1, <2>2, <3>1 DEF BodyFields
    <3>3. \A x \in BodyFields \ {"source", "compute", "gpu"} : q[x] = b[x] /\ r[x] = b[x]
      BY <1>4, <2>1, <2>2
    <3>4. \A x \in BodyFields : q[x] = r[x]
      BY <3>2, <3>3
    <3>5. q = [x \in BodyFields |-> q[x]] /\ r = [x \in BodyFields |-> r[x]]
      BY <2>1, <2>2, <2>4, <1>4
    <3> QED BY <3>4, <3>5
  <2>6. r = [x \in BodyFields |-> r[x]]
    BY <1>4, <2>1
  <2> QED BY <2>3, <2>4, <2>5, <2>6
<1>9. CASE f.runtime = "kaito" /\ kind = "premade"
  <2>1. PICK r : r = [b EXCEPT !.source = "premade", !.compute = f.compute, !.premade = f.premade]
    OBVIOUS
  <2>2. Form!Request(f, p) = r
    BY <1>1, <1>2, <1>9, <2>1 DEF Form!Request
  <2>3. Form!Preview(f, p) = r \/ Form!Preview(f, p) = b
    BY <1>1, <1>2, <1>9, <2>1 DEF Form!Preview
  <2>4. f.premade => Form!Preview(f, p) = r
    BY <1>1, <1>2, <1>9, <2>1 DEF Form!Preview
  <2>5. Form!KaitoReady(f) => f.premade
    BY <1>9 DEF Form!KaitoReady
  <2> QED BY <1>4, <2>1, <2>2, <2>3, <2>4, <2>5
<1>10. CASE /\ f.runtime # "vllm" /\ ~(f.runtime = "kaito" /\ kind = "gguf")
            /\ ~(f.runtime = "kaito" /\ kind = "vllm") /\ ~(f.runtime = "kaito" /\ kind = "premade")
  <2>1. Form!Request(f, p) = b /\ Form!Preview(f, p) = b
    BY <1>1, <1>2, <1>10 DEF Form!Request, Form!Preview
  <2> QED BY <1>4, <2>1
<1> QED BY <1>6, <1>7, <1>8, <1>9, <1>10

LEMMA Submitted == ASSUME SendsInv, NEW button \in BOOLEAN, Form!Submit(button) PROVE SendsInv'
<1>1. PICK s : s = [pc |-> IF form.runtime = "kaito" /\ kind = "gguf" /\ form.runMode = "build"
                           THEN "infra" ELSE "validating", button |-> button,
                    body |-> Form!Request(form, props), shown |-> Form!Preview(form, props), timer |-> FALSE]
  OBVIOUS
<1>2. sends' = Append(sends, s) /\ (button = TRUE => Form!KaitoReady(form))
  BY <1>1 DEF Form!Submit, Form!ButtonEnabled
<1>3. /\ DOMAIN s = {"pc", "button", "body", "shown", "timer"} /\ s.button = button
      /\ s.body = Form!Request(form, props) /\ s.shown = Form!Preview(form, props)
  BY <1>1
<1>4. DOMAIN s.body = BodyFields /\ DOMAIN s.shown = BodyFields /\ (button = TRUE => s.body = s.shown)
  BY <1>2, <1>3, SameBody
<1>5. ASSUME s.body = s.shown PROVE Shown(s)
  <2>1. PICK v : v = IF s.body.image = "built" THEN "built" ELSE s.shown.image
    OBVIOUS
  <2>2. v = s.shown.image /\ "image" \in DOMAIN s.shown
    BY <1>4, <1>5, <2>1 DEF BodyFields
  <2>3. [s.shown EXCEPT !.image = v] = s.shown
    BY <2>2, <1>4, <1>3, <1>1, SameBody
  <2> QED BY <1>5, <2>1, <2>3 DEF Shown
<1>6. Sent(s)
  BY <1>3, <1>4, <1>5 DEF Sent
<1>7. PICK Any : sends \in Seq(Any)
  BY DEF SendsInv
<1>8. sends' \in Seq(Any \cup {s}) /\ \A i \in DOMAIN sends' : sends'[i] = s \/ (i \in DOMAIN sends /\ sends'[i] = sends[i])
  BY <1>2, <1>7
<1> QED BY <1>6, <1>8 DEF SendsInv

(* A send moves on, and a build's image replaces the one that was shown.       *)
LEMMA SentMoves ==
  ASSUME SendsInv, NEW i \in DOMAIN sends, NEW n, sends' = [sends EXCEPT ![i] = n], Sent(n)
  PROVE  SendsInv'
<1>1. PICK Any : sends \in Seq(Any)
  BY DEF SendsInv
<1>2. sends' \in Seq(Any \cup {n}) /\ DOMAIN sends' = DOMAIN sends
  BY <1>1
<1>3. \A j \in DOMAIN sends' : Sent(sends'[j])
  BY <1>2 DEF SendsInv
<1> QED BY <1>2, <1>3 DEF SendsInv

LEMMA SentProgress == ASSUME SendsInv, NEW i \in 1..MaxSends, Form!Progress(i) PROVE SendsInv'
<1>1. PICK s : s = sends[i]
  OBVIOUS
<1>2. i \in DOMAIN sends /\ Sent(s)
  BY <1>1 DEF Form!Progress, SendsInv
<1>3. ASSUME NEW to, NEW on, NEW n, n = [s EXCEPT !.pc = to] \/ n = [s EXCEPT !.timer = on]
                                         \/ n = [s EXCEPT !.pc = to, !.timer = on]
      PROVE  Sent(n)
  <2>1. /\ DOMAIN n = {"pc", "button", "body", "shown", "timer"}
        /\ n.button = s.button /\ n.body = s.body /\ n.shown = s.shown
    BY <1>2, <1>3 DEF Sent
  <2> QED BY <1>2, <2>1 DEF Sent, Shown
<1>4. ASSUME NEW to, NEW image, NEW n, n = [s EXCEPT !.pc = to, !.body.image = image],
             image = "built" \/ image = s.body.image
      PROVE  Sent(n)
  <2>1. PICK made : made = [s.body EXCEPT !.image = image]
    OBVIOUS
  <2>2. /\ DOMAIN n = {"pc", "button", "body", "shown", "timer"}
        /\ n.button = s.button /\ n.body = made /\ n.shown = s.shown
    BY <1>2, <1>4, <2>1 DEF Sent
  <2>3. DOMAIN made = BodyFields /\ made.image = image
    BY <1>2, <2>1 DEF Sent, BodyFields
  <2>4. ASSUME Shown(s) PROVE Shown(n)
    <3>1. PICK old : old = IF s.body.image = "built" THEN "built" ELSE s.shown.image
      OBVIOUS
    <3>2. s.body = [s.shown EXCEPT !.image = old] /\ s.body.image = old
      BY <1>2, <2>4, <3>1 DEF Shown, Sent, BodyFields
    <3>3. made = [s.shown EXCEPT !.image = image]
      BY <1>2, <2>1, <3>2 DEF Sent, BodyFields
    <3>4. image = IF made.image = "built" THEN "built" ELSE s.shown.image
      BY <1>4, <2>3, <3>1, <3>2
    <3> QED BY <2>2, <3>3, <3>4 DEF Shown
  <2> QED BY <1>2, <2>2, <2>3, <2>4 DEF Sent
<1>5. PICK n : /\ sends' = [sends EXCEPT ![i] = n]
               /\ \/ \E to, on : n = [s EXCEPT !.pc = to] \/ n = [s EXCEPT !.timer = on]
                                      \/ n = [s EXCEPT !.pc = to, !.timer = on]
                  \/ \E to, image : /\ n = [s EXCEPT !.pc = to, !.body.image = image]
                                    /\ image = "built" \/ image = s.body.image
  <2>1. ASSUME NEW to, Form!Move(i, to) PROVE sends' = [sends EXCEPT ![i] = [s EXCEPT !.pc = to]]
    BY <1>1, <2>1 DEF Form!Move
  <2>2. CASE Form!Post(i)
    BY <2>1, <2>2, Zenon DEF Form!Post
  <2>3. CASE Form!TimerFires(i)
    <3>1. sends' = [sends EXCEPT ![i] = [s EXCEPT !.timer = FALSE]]
      BY <1>1, <2>3 DEF Form!TimerFires
    <3> QED BY <3>1, Zenon
  <2>4. ASSUME NEW works \in BOOLEAN, Form!InfraAnswers(i, works)
        PROVE  \E to : sends' = [sends EXCEPT ![i] = [s EXCEPT !.pc = to]]
    BY <2>1, <2>4, Zenon DEF Form!InfraAnswers
  <2>5. ASSUME NEW works \in BOOLEAN, Form!BuildAnswers(i, works)
        PROVE  \E to, image : /\ sends' = [sends EXCEPT ![i] = [s EXCEPT !.pc = to, !.body.image = image]]
                              /\ image = "built" \/ image = s.body.image
    <3>1. PICK to, image : /\ to = IF works THEN "validating" ELSE "failed"
                           /\ image = IF works THEN "built" ELSE s.body.image
      OBVIOUS
    <3>2. sends' = [sends EXCEPT ![i].pc = to, ![i].body.image = image]
      BY <1>1, <2>5, <3>1, Zenon DEF Form!BuildAnswers
    <3>3. sends' = [sends EXCEPT ![i] = [s EXCEPT !.pc = to, !.body.image = image]]
      BY <1>1, <1>2, <3>2 DEF SendsInv
    <3> QED BY <3>1, <3>3, Zenon
  <2>6. ASSUME NEW works \in BOOLEAN, Form!PostAnswers(i, works)
        PROVE  \E to, on : sends' = [sends EXCEPT ![i] = [s EXCEPT !.pc = to, !.timer = on]]
    <3>1. PICK to : to = IF works THEN "created" ELSE "failed"
      OBVIOUS
    <3>2. sends' = [sends EXCEPT ![i].pc = to, ![i].timer = TRUE]
      BY <2>6, <3>1, Zenon DEF Form!PostAnswers
    <3>3. sends' = [sends EXCEPT ![i] = [s EXCEPT !.pc = to, !.timer = TRUE]]
      BY <1>1, <1>2, <3>2 DEF SendsInv
    <3> QED BY <3>3, Zenon
  <2> QED BY <2>2, <2>3, <2>4, <2>5, <2>6, ZenonT(40) DEF Form!Progress
<1>6. Sent(n)
  BY <1>3, <1>4, <1>5, Zenon
<1> QED BY <1>2, <1>5, <1>6, SentMoves

LEMMA SendsKept == SendsInv /\ [Form!Next]_(Form!fvars) => SendsInv'
<1> SUFFICES ASSUME SendsInv, [Form!Next]_(Form!fvars) PROVE SendsInv'
  OBVIOUS
<1>1. ASSUME sends' = sends PROVE SendsInv'
  BY <1>1 DEF SendsInv
<1>2. CASE UNCHANGED Form!fvars
  BY <1>1, <1>2 DEF Form!fvars
<1>3. ASSUME Form!Edits PROVE sends' = sends
  BY <1>3, Zenon DEF Form!Edits, Form!ChooseRuntime, Form!ChooseEngine, Form!ChooseMode, Form!SetGpu,
     Form!ChooseImage, Form!TypeImage, Form!SetGateway, Form!SetRouter, Form!SetStorage, Form!SetCompute,
     Form!SetRunMode, Form!ApplyAdvice, Form!DiscardAdvice, Form!Refresh, Form!AskRecipe, Form!Edit
<1>4. ASSUME Form!Deliveries PROVE sends' = sends
  BY <1>4, Zenon DEF Form!Deliveries, Form!RuntimesChange, Form!CapacityChanges, Form!PrecisionChanges,
     Form!GatewayChanges, Form!FilesArrive, Form!PremadesArrive, Form!Deliver
<1>5. ASSUME Form!Answers PROVE SendsInv'
  <2>1. ASSUME NEW works \in BOOLEAN, Form!RecipesAnswer(works) PROVE sends' = sends
    BY <2>1, Zenon DEF Form!RecipesAnswer
  <2>2. ASSUME NEW works, NEW image, NEW tp, Form!RecipeResolved(works, image, tp) PROVE sends' = sends
    BY <2>2, Zenon DEF Form!RecipeResolved
  <2>3. ASSUME Form!Navigate PROVE sends' = sends
    BY <2>3, Zenon DEF Form!Navigate
  <2> QED BY <1>1, <1>5, <2>1, <2>2, <2>3, SentProgress, Zenon DEF Form!Answers
<1> QED BY <1>1, <1>2, <1>3, <1>4, <1>5, Submitted, Zenon DEF Form!Next

LEMMA SentPreview == Form!Spec => Form!PreviewIsWhatIsSent
<1>1. Form!Init => SendsInv
  BY DEF Form!Init, SendsInv
<1>2. SendsInv' =>
        \A i \in DOMAIN sends' :
          LET s == sends'[i] IN
          s.button => s.body = [s.shown EXCEPT !.image = IF s.body.image = "built" THEN "built" ELSE @]
  BY DEF SendsInv, Sent, Shown
<1> QED BY <1>1, <1>2, SendsKept, PTL DEF Form!Spec, Form!PreviewIsWhatIsSent

-----------------------------------------------------------------------------
(* The plugin's page: a manifest that is shown is that of the settings.        *)
ManifestShown == pf.preview => shown = {Plugin!Manifest(pf, hfSecret)}
LEMMA SentManifest == Plugin!Spec => Plugin!ManifestIsWhatIsSent
<1>1. Plugin!Init => ManifestShown
  <2> SUFFICES ASSUME Plugin!Init PROVE ManifestShown
    OBVIOUS
  <2>1. pf = [runtime |-> "kaito", engine |-> "vllm", namespace |-> "kaito", name |-> "", gpu |-> 1,
              mode |-> "aggregated", storage |-> FALSE, args |-> FALSE, preview |-> FALSE]
    BY Zenon DEF Plugin!Init
  <2>2. pf.preview = FALSE
    BY <2>1
  <2> QED BY <2>2, Zenon DEF ManifestShown
<1>2. ASSUME NEW f, NEW h, Plugin!Becomes(f, h) PROVE ManifestShown'
  BY <1>2, Zenon DEF Plugin!Becomes, Plugin!Preview, ManifestShown
<1>3. ASSUME ManifestShown, UNCHANGED <<pf, shown, hfSecret>> PROVE ManifestShown'
  BY <1>3, Zenon DEF ManifestShown
<1>4. ASSUME ManifestShown, [Plugin!Next]_(Plugin!gvars)
      PROVE  /\ ManifestShown'
             /\ [sent' # sent /\ pf.preview => sent' = shown]_(Plugin!gvars)
  <2>1. CASE UNCHANGED Plugin!gvars
    BY <1>3, <1>4, <2>1 DEF Plugin!gvars
  <2>2. CASE Plugin!Submit
    BY <1>3, <1>4, <2>2, Zenon DEF Plugin!Submit, ManifestShown
  <2>3. ASSUME NEW works, Plugin!Answered(works) PROVE ManifestShown' /\ sent' = sent
    BY <1>3, <1>4, <2>3, Zenon DEF Plugin!Answered
  <2>4. ASSUME NEW works, Plugin!Load(works) PROVE ManifestShown' /\ sent' = sent
    BY <1>2, <2>4, Zenon DEF Plugin!Load
  <2>5. CASE Plugin!SecretStatus
    BY <1>2, <2>5, Zenon DEF Plugin!SecretStatus
  <2>6. ASSUME NEW f, Plugin!Change(f) PROVE ManifestShown' /\ sent' = sent
    BY <1>2, <2>6, Zenon DEF Plugin!Change
  <2> QED BY <1>4, <2>1, <2>2, <2>3, <2>4, <2>5, <2>6, Zenon
       DEF Plugin!Next, Plugin!ShowManifest, Plugin!SetNamespace, Plugin!ChooseRuntime, Plugin!ChooseEngine,
           Plugin!ChooseMode, Plugin!SetGpu, Plugin!SetName, Plugin!SetStorage, Plugin!SetArgs
<1> QED BY <1>1, <1>4, PTL DEF Plugin!Spec, Plugin!ManifestIsWhatIsSent

(* The types of the create form of the plugin.                                 *)
PluginForms(f) ==
  /\ DOMAIN f = {"runtime", "engine", "namespace", "name", "gpu", "mode", "storage", "args", "preview"}
  /\ f.runtime \in Plugin!RuntimeIds /\ f.mode \in {"aggregated", "disaggregated"}
PluginInv == PluginForms(pf) /\ MaxSettings \in Nat /\ Plugin!TypeOK

LEMMA PluginInit == Plugin!Init => PluginInv
<1>1. "kaito" \in Plugin!RuntimeIds /\ MaxSettings \in Nat
  <2>1. MaxSettings \in Nat /\ {"kaito"} \subseteq {PageRuntimes[k] : k \in DOMAIN PageRuntimes}
    BY ClientsAssumption, Zenon DEF Plugin!PluginAssumption
  <2> QED BY <2>1 DEF Plugin!RuntimeIds
<1> SUFFICES ASSUME Plugin!Init PROVE PluginInv
  OBVIOUS
<1>2. PluginForms(pf)
  BY <1>1 DEF Plugin!Init, PluginForms
<1>3. /\ view = "loading" /\ engines \in Supported /\ healthy \subseteq Plugin!RuntimeIds
      /\ hfSecret = FALSE /\ sending = FALSE /\ changed = 0
  BY DEF Plugin!Init
<1>4. changed \in 0..MaxSettings
  BY <1>1, <1>3
<1>5. pf.runtime \in Plugin!RuntimeIds /\ pf.mode \in {"aggregated", "disaggregated"}
  BY <1>2 DEF PluginForms
<1> QED BY <1>1, <1>2, <1>3, <1>4, <1>5, Zenon DEF PluginInv, Plugin!TypeOK

LEMMA PluginChanged ==
  ASSUME PluginInv, NEW f, PluginForms(f), Plugin!Change(f) PROVE PluginInv'
<1>1. /\ pf' = f /\ changed' = changed + 1 /\ changed < MaxSettings /\ hfSecret' = hfSecret
      /\ UNCHANGED <<view, engines, healthy, sending>>
  BY DEF Plugin!Change, Plugin!Becomes
<1> QED BY <1>1 DEF PluginInv, PluginForms, Plugin!TypeOK

LEMMA PluginFormsKept ==
  ASSUME NEW f, PluginForms(f)
  PROVE  /\ PluginForms(Plugin!Defaults(f)) /\ PluginForms(Plugin!Initial(f))
         /\ \A r \in Plugin!RuntimeIds : PluginForms(Plugin!OnRuntime(f, r))
<1>1. PluginForms(Plugin!Defaults(f))
  BY DEF PluginForms, Plugin!Defaults
<1>2. PluginForms(Plugin!Initial(f))
  <2>1. CASE Plugin!Picks = {}
    BY <2>1 DEF Plugin!Initial
  <2>2. CASE Plugin!Picks # {}
    <3> DEFINE k == CHOOSE j \in Plugin!Picks : \A i \in Plugin!Picks : j <= i
    <3>1. PICK to, engine : Plugin!Initial(f) = [f EXCEPT !.runtime = to, !.namespace = to, !.engine = engine] /\ to = PageRuntimes[k]
      BY <2>2 DEF Plugin!Initial
    <3>2. k \in DOMAIN PageRuntimes
      <4>1. Plugin!Picks \subseteq DOMAIN PageRuntimes /\ DOMAIN PageRuntimes \subseteq Nat
        BY ClientsAssumption, Zenon DEF Plugin!Picks, Plugin!PluginAssumption
      <4>2. \E j \in Plugin!Picks : \A i \in Plugin!Picks : j <= i
        BY <2>2, <4>1, LeastOfSet
      <4>3. k \in Plugin!Picks
        BY <4>2, Zenon
      <4> QED BY <4>1, <4>3
    <3>3. to \in Plugin!RuntimeIds
      BY <3>1, <3>2 DEF Plugin!RuntimeIds
    <3> QED BY <3>1, <3>3 DEF PluginForms
  <2> QED BY <2>1, <2>2
<1>3. ASSUME NEW r \in Plugin!RuntimeIds PROVE PluginForms(Plugin!OnRuntime(f, r))
  <2>1. PICK engine, mode : /\ Plugin!OnRuntime(f, r) = [f EXCEPT !.runtime = r, !.namespace = r, !.engine = engine, !.mode = mode]
                            /\ mode \in {f.mode, "aggregated"}
    BY DEF Plugin!OnRuntime
  <2> QED BY <2>1 DEF PluginForms
<1> QED BY <1>1, <1>2, <1>3

LEMMA PluginKept == ASSUME PluginInv, [Plugin!Next]_(Plugin!gvars) PROVE PluginInv'
<1>1. CASE UNCHANGED Plugin!gvars
  BY <1>1 DEF Plugin!gvars, PluginInv, PluginForms, Plugin!TypeOK
<1>2. PluginForms(pf)
  BY DEF PluginInv
<1>3. ASSUME NEW works \in BOOLEAN, Plugin!Load(works) PROVE PluginInv'
  <2>1. PluginForms(pf')
    BY <1>2, <1>3, PluginFormsKept DEF Plugin!Load, Plugin!Becomes
  <2>2. view' \in {"form", "empty"} /\ UNCHANGED <<engines, healthy, sending, hfSecret, changed>>
    BY <1>3 DEF Plugin!Load, Plugin!Becomes
  <2> QED BY <2>1, <2>2 DEF PluginInv, PluginForms, Plugin!TypeOK
<1>4. ASSUME NEW works \in BOOLEAN, Plugin!Answered(works) PROVE PluginInv'
  BY <1>4 DEF Plugin!Answered, PluginInv, PluginForms, Plugin!TypeOK
<1>5. CASE Plugin!SecretStatus \/ Plugin!Submit
  BY <1>5 DEF Plugin!SecretStatus, Plugin!Becomes, Plugin!Submit, PluginInv, PluginForms, Plugin!TypeOK
<1>6. ASSUME NEW runtime \in Plugin!RuntimeIds, Plugin!ChooseRuntime(runtime) PROVE PluginInv'
  BY <1>2, <1>6, PluginFormsKept, PluginChanged DEF Plugin!ChooseRuntime
<1>7. ASSUME NEW name \in {"", "own"}, Plugin!SetName(name) PROVE PluginInv'
  <2>1. PluginForms([pf EXCEPT !.name = name])
    BY <1>2 DEF PluginForms
  <2> QED BY <1>7, <2>1, PluginFormsKept, PluginChanged DEF Plugin!SetName
<1>8. ASSUME NEW mode \in {"aggregated", "disaggregated"}, Plugin!ChooseMode(mode) PROVE PluginInv'
  <2>1. PluginForms([pf EXCEPT !.mode = mode])
    BY <1>2 DEF PluginForms
  <2> QED BY <1>8, <2>1, PluginChanged DEF Plugin!ChooseMode
<1>9. ASSUME NEW e, Plugin!ChooseEngine(e) PROVE PluginInv'
  <2>1. PluginForms([pf EXCEPT !.engine = e])
    BY <1>2 DEF PluginForms
  <2> QED BY <1>9, <2>1, PluginChanged DEF Plugin!ChooseEngine
<1>10. ASSUME NEW n \in GpuCounts, Plugin!SetGpu(n) PROVE PluginInv'
  <2>1. PluginForms([pf EXCEPT !.gpu = n])
    BY <1>2 DEF PluginForms
  <2> QED BY <1>10, <2>1, PluginChanged DEF Plugin!SetGpu
<1>11. ASSUME NEW on \in BOOLEAN, Plugin!SetStorage(on) \/ Plugin!SetArgs(on) PROVE PluginInv'
  <2>1. PluginForms([pf EXCEPT !.storage = on]) /\ PluginForms([pf EXCEPT !.args = on])
    BY <1>2 DEF PluginForms
  <2> QED BY <1>11, <2>1, PluginChanged DEF Plugin!SetStorage, Plugin!SetArgs
<1>12. CASE Plugin!SetNamespace \/ Plugin!ShowManifest
  <2>1. PluginForms([pf EXCEPT !.namespace = "own"]) /\ PluginForms([pf EXCEPT !.preview = ~@])
    BY <1>2 DEF PluginForms
  <2> QED BY <1>12, <2>1, PluginChanged DEF Plugin!SetNamespace, Plugin!ShowManifest
<1> QED BY <1>1, <1>3, <1>4, <1>5, <1>6, <1>7, <1>8, <1>9, <1>10, <1>11, <1>12, Zenon DEF Plugin!Next

(* The runtime of the form is one that is offered, whatever is healthy.        *)
THEOREM PluginTyped == Plugin!Spec => []Plugin!TypeOK
<1>1. PluginInv => Plugin!TypeOK
  BY DEF PluginInv
<1> QED BY <1>1, PluginInit, PluginKept, PTL DEF Plugin!Spec

-----------------------------------------------------------------------------
(* The storage volumes of a deployment.                                        *)

(* Every volume of the list is one, and the list is no longer than MAX_VOLUMES.*)
StorageInv ==
  /\ editor \in {"web", "plugin", "api"}
  /\ vols \in Seq(Storage!Volume) /\ Len(vols) <= MaxVolumes
  /\ modes \in [1..MaxVolumes -> {"none", "new", "existing"}]
  /\ pvcs \subseteq Claims

LEMMA MaxVolumesNat == MaxVolumes \in Nat /\ MaxVolumes >= 2
<1>1. MaxVolumes \in 2..8
  BY ClientsAssumption, Zenon DEF Storage!StorageAssumption
<1> QED BY <1>1

LEMMA VolumeList ==
  ASSUME StorageInv
  PROVE  /\ Len(vols) \in Nat /\ vols \in [1..Len(vols) -> Storage!Volume] /\ DOMAIN vols = 1..Len(vols)
         /\ \A i \in Storage!Indices : vols[i] \in Storage!Volume
<1>1. vols \in Seq(Storage!Volume)
  BY DEF StorageInv
<1>2. Len(vols) \in Nat /\ vols \in [1..Len(vols) -> Storage!Volume] /\ DOMAIN vols = 1..Len(vols)
  BY <1>1, LenProperties
<1> QED BY <1>2 DEF Storage!Indices

LEMMA StorageInit == Storage!Init => StorageInv
BY MaxVolumesNat DEF Storage!Init, StorageInv

(* A card that changes leaves a list of volumes.                               *)
LEMMA VolumeUpdated ==
  ASSUME StorageInv, NEW i \in Storage!Indices, NEW v \in Storage!Volume, Storage!UpdateVolume(i, v)
  PROVE  vols' \in Seq(Storage!Volume) /\ Len(vols') = Len(vols)
BY DEF StorageInv, Storage!Indices, Storage!UpdateVolume

LEMMA VolumeFields ==
  ASSUME NEW v \in Storage!Volume
  PROVE  /\ DOMAIN v = {"name", "purpose", "mountPath", "readOnly", "size", "claimName", "storageClass", "accessMode"}
         /\ v.name \in VolumeNames /\ v.purpose \in Storage!Purposes /\ v.mountPath \in Paths \cup {""}
         /\ v.readOnly \in BOOLEAN /\ v.size \in {NoValue, "", "100Gi"} /\ v.claimName \in Claims \cup {""}
         /\ v.storageClass \in StorageClasses /\ v.accessMode \in {"", "ReadWriteOnce", "ReadWriteMany"}
BY DEF Storage!Volume

LEMMA VolumeAdded ==
  ASSUME StorageInv, Storage!AddVolume PROVE StorageInv'
<1> DEFINE new == [name |-> Storage!FreeName(vols), purpose |-> "custom",
                   mountPath |-> "", readOnly |-> FALSE, size |-> "100Gi",
                   claimName |-> "", storageClass |-> NoValue,
                   accessMode |-> IF editor = "web" THEN "ReadWriteMany" ELSE "ReadWriteOnce"]
<1>1. Storage!FreeName(vols) \in VolumeNames
  <2>1. \E n \in VolumeNames : \A i \in DOMAIN vols : vols[i].name # n
    BY VolumeList, Zenon DEF Storage!AddVolume, Storage!Indices
  <2> QED BY <2>1 DEF Storage!FreeName
<1>2. new \in Storage!Volume
  BY <1>1, ClientsAssumption DEF Storage!Volume, Storage!StorageAssumption, Storage!Purposes
<1>3. vols' = Append(vols, new) /\ Len(vols) < MaxVolumes
  BY DEF Storage!AddVolume
<1> HIDE DEF new
<1>4. vols' \in Seq(Storage!Volume) /\ Len(vols') = Len(vols) + 1
  BY <1>2, <1>3 DEF StorageInv
<1>5. Len(vols') <= MaxVolumes
  BY <1>3, <1>4, MaxVolumesNat DEF StorageInv
<1> QED BY <1>4, <1>5 DEF Storage!AddVolume, StorageInv

LEMMA VolumeRemoved ==
  ASSUME StorageInv, NEW i \in Storage!Indices, Storage!RemoveVolume(i) PROVE StorageInv'
<1>1. Len(vols) \in Nat /\ Len(vols) >= 1 /\ vols \in [1..Len(vols) -> Storage!Volume]
  BY VolumeList DEF Storage!Indices
<1>2. vols' = [j \in 1..(Len(vols) - 1) |-> IF j < i THEN vols[j] ELSE vols[j + 1]]
  BY DEF Storage!RemoveVolume, Storage!Drop
<1>3. vols' \in [1..(Len(vols) - 1) -> Storage!Volume]
  <2>1. \A j \in 1..(Len(vols) - 1) : j \in 1..Len(vols) /\ j + 1 \in 1..Len(vols)
    BY <1>1
  <2>2. \A j \in 1..(Len(vols) - 1) : (IF j < i THEN vols[j] ELSE vols[j + 1]) \in Storage!Volume
    BY <1>1, <2>1
  <2> QED BY <1>2, <2>2
<1>4. PICK n \in Nat : n = Len(vols) - 1 /\ vols' \in [1..n -> Storage!Volume]
  <2>1. Len(vols) - 1 \in Nat
    BY <1>1
  <2> QED BY <1>3, <2>1, Zenon
<1>5. vols' \in Seq(Storage!Volume) /\ Len(vols') = n
  BY <1>4
<1>6. Storage!Reindexed(i) \in [1..MaxVolumes -> {"none", "new", "existing"}]
  BY MaxVolumesNat DEF StorageInv, Storage!Reindexed, Storage!Indices
<1> QED BY <1>1, <1>4, <1>5, <1>6, MaxVolumesNat DEF StorageInv, Storage!RemoveVolume

LEMMA VolumeEdited ==
  ASSUME StorageInv, NEW i \in Storage!Indices, NEW v \in Storage!Volume, Storage!UpdateVolume(i, v),
         editor' = editor, pvcs' = pvcs,
         modes' = modes \/ \E m \in {"new", "existing"} : modes' = [modes EXCEPT ![i] = m]
  PROVE  StorageInv'
<1>1. vols' \in Seq(Storage!Volume) /\ Len(vols') = Len(vols)
  BY VolumeUpdated
<1> QED BY <1>1 DEF StorageInv

(* The fields of a card, one by one.                                           *)
LEMMA FieldEdited ==
  ASSUME StorageInv, NEW i \in Storage!Indices,
         \/ \E p \in Storage!Purposes : Storage!ChangePurpose(i, p)
         \/ \E n \in VolumeNames : Storage!Rename(i, n)
         \/ \E p \in TypedPaths \cup {""} : Storage!TypePath(i, p)
         \/ Storage!ToggleReadOnly(i)
         \/ \E m \in {"new", "existing"} : Storage!ChooseSource(i, m)
         \/ Storage!ClearSize(i)
         \/ Storage!TypeSize(i)
         \/ \E m \in TypedModes : Storage!ChooseAccess(i, m)
         \/ \E c \in StorageClasses : Storage!ChooseStorageClass(i, c)
         \/ \E c \in TypedClaims \cup {""} : Storage!TypeClaim(i, c)
  PROVE  StorageInv'
<1> DEFINE v == vols[i]
<1>1. v \in Storage!Volume
  BY VolumeList
<1> HIDE DEF v
<1>2. ASSUME NEW p \in Storage!Purposes, Storage!ChangePurpose(i, p) PROVE StorageInv'
  <2> DEFINE path == IF editor = "web" /\ Storage!DefaultPath(p) # ""
                        /\ v.mountPath \in {"", Storage!DefaultPath(v.purpose)}
                     THEN Storage!DefaultPath(p) ELSE v.mountPath
  <2>1. path \in Paths \cup {""}
    BY <1>1, VolumeFields, ClientsAssumption DEF Storage!StorageAssumption, Storage!DefaultPath, Storage!Purposes
  <2>2. Storage!UpdateVolume(i, [v EXCEPT !.purpose = p, !.mountPath = path])
    BY <1>2 DEF Storage!ChangePurpose, v
  <2> HIDE DEF path
  <2>3. [v EXCEPT !.purpose = p, !.mountPath = path] \in Storage!Volume
    BY <1>1, <2>1 DEF Storage!Volume
  <2> QED BY <1>2, <2>2, <2>3, VolumeEdited DEF Storage!ChangePurpose
<1>3. ASSUME NEW n \in VolumeNames, Storage!Rename(i, n) PROVE StorageInv'
  <2>1. [v EXCEPT !.name = n] \in Storage!Volume
    BY <1>1 DEF Storage!Volume
  <2> QED BY <1>3, <2>1, VolumeEdited DEF Storage!Rename, v
<1>4. ASSUME NEW p \in TypedPaths \cup {""}, Storage!TypePath(i, p) PROVE StorageInv'
  <2>1. [v EXCEPT !.mountPath = p] \in Storage!Volume
    BY <1>1, ClientsAssumption DEF Storage!Volume, Storage!StorageAssumption
  <2> QED BY <1>4, <2>1, VolumeEdited DEF Storage!TypePath, v
<1>5. ASSUME Storage!ToggleReadOnly(i) PROVE StorageInv'
  <2>1. [v EXCEPT !.readOnly = ~@] \in Storage!Volume
    BY <1>1 DEF Storage!Volume
  <2> QED BY <1>5, <2>1, VolumeEdited DEF Storage!ToggleReadOnly, v
<1>6. ASSUME NEW m \in {"new", "existing"}, Storage!ChooseSource(i, m) PROVE StorageInv'
  <2>1. PICK new : /\ Storage!UpdateVolume(i, new)
                   /\ \/ new = [v EXCEPT !.size = IF Storage!HasSize(v) THEN @ ELSE "100Gi", !.claimName = "",
                                         !.readOnly = FALSE,
                                         !.accessMode = IF @ = "" THEN "ReadWriteMany" ELSE @]
                      \/ new = [v EXCEPT !.size = NoValue, !.storageClass = NoValue, !.accessMode = ""]
    BY <1>6 DEF Storage!ChooseSource, v
  <2>2. NoValue \in StorageClasses
    BY ClientsAssumption DEF Storage!StorageAssumption
  <2>3. new \in Storage!Volume
    BY <1>1, <2>1, <2>2 DEF Storage!Volume
  <2> QED BY <1>6, <2>1, <2>3, VolumeEdited DEF Storage!ChooseSource
<1>7. ASSUME Storage!ClearSize(i) \/ Storage!TypeSize(i) PROVE StorageInv'
  <2>1. \A size \in {NoValue, "", "100Gi"} : [v EXCEPT !.size = size] \in Storage!Volume
    BY <1>1 DEF Storage!Volume
  <2>2. PICK size \in {NoValue, "", "100Gi"} : Storage!UpdateVolume(i, [v EXCEPT !.size = size])
    BY <1>7 DEF Storage!ClearSize, Storage!TypeSize, v
  <2> QED BY <1>7, <2>1, <2>2, VolumeEdited DEF Storage!ClearSize, Storage!TypeSize
<1>8. ASSUME NEW m \in TypedModes, Storage!ChooseAccess(i, m) PROVE StorageInv'
  <2>1. [v EXCEPT !.accessMode = m] \in Storage!Volume
    BY <1>1, ClientsAssumption DEF Storage!Volume, Storage!StorageAssumption
  <2> QED BY <1>8, <2>1, VolumeEdited DEF Storage!ChooseAccess, v
<1>9. ASSUME NEW c \in StorageClasses, Storage!ChooseStorageClass(i, c) PROVE StorageInv'
  <2>1. [v EXCEPT !.storageClass = c] \in Storage!Volume
    BY <1>1 DEF Storage!Volume
  <2> QED BY <1>9, <2>1, VolumeEdited DEF Storage!ChooseStorageClass, v
<1>10. ASSUME NEW c \in TypedClaims \cup {""}, Storage!TypeClaim(i, c) PROVE StorageInv'
  <2>1. [v EXCEPT !.claimName = c] \in Storage!Volume
    BY <1>1, ClientsAssumption DEF Storage!Volume, Storage!StorageAssumption
  <2> QED BY <1>10, <2>1, VolumeEdited DEF Storage!TypeClaim, v
<1> QED BY <1>2, <1>3, <1>4, <1>5, <1>6, <1>7, <1>8, <1>9, <1>10

LEMMA ClaimsLoaded ==
  ASSUME StorageInv, NEW found \in ClaimLists, Storage!LoadClaims(found) PROVE StorageInv'
<1>1. Len(vols) \in Nat /\ \A i \in 1..Len(vols) : vols[i] \in Storage!Volume
  BY VolumeList DEF Storage!Indices
<1>2. \A v \in Storage!Volume : [v EXCEPT !.claimName = ""] \in Storage!Volume
  BY DEF Storage!Volume
<1>3. vols' \in [1..Len(vols) -> Storage!Volume]
  BY <1>1, <1>2 DEF Storage!LoadClaims, Storage!Indices
<1>4. vols' \in Seq(Storage!Volume) /\ Len(vols') = Len(vols)
  BY <1>1, <1>3
<1>5. found \subseteq Claims
  BY ClientsAssumption DEF Storage!StorageAssumption
<1> QED BY <1>4, <1>5 DEF StorageInv, Storage!LoadClaims

LEMMA VolumesSent == ASSUME StorageInv, Storage!SendVolumes PROVE StorageInv'
<1>1. ClientVolumes \subseteq Storage!Volume /\ Companions \subseteq Storage!Volume
  BY ClientsAssumption DEF Storage!StorageAssumption
<1>2. PICK v \in ClientVolumes : vols' \in {<<v>>} \cup {<<v, w>> : w \in Companions}
  BY DEF Storage!SendVolumes
<1>3. CASE vols' = <<v>>
  BY <1>1, <1>3, MaxVolumesNat DEF StorageInv, Storage!SendVolumes
<1>4. ASSUME NEW w \in Companions, vols' = <<v, w>> PROVE StorageInv'
  BY <1>1, <1>4, MaxVolumesNat DEF StorageInv, Storage!SendVolumes
<1> QED BY <1>2, <1>3, <1>4

LEMMA StorageKept == ASSUME StorageInv, [Storage!Next]_(Storage!svars) PROVE StorageInv'
<1>1. CASE UNCHANGED Storage!svars
  BY <1>1 DEF Storage!svars, StorageInv
<1>2. CASE Storage!Edit
  BY <1>2, VolumeAdded, VolumeRemoved, FieldEdited, ClaimsLoaded DEF Storage!Edit
<1> QED BY <1>1, <1>2, VolumesSent DEF Storage!Next

(* The volumes are volumes, and never more than MAX_VOLUMES, whatever the user *)
(* of a form does or a client of the API sends.                                *)
THEOREM VolumesTyped == Storage!Spec => []Storage!TypeOK
<1>1. StorageInv => Storage!TypeOK
  BY DEF StorageInv, Storage!TypeOK, Storage!Indices
<1> QED BY <1>1, StorageInit, StorageKept, PTL DEF Storage!Spec

(* What the webhook fills in is what the schema resolves.                      *)
LEMMA DefaultsAgree ==
  ASSUME NEW v \in Storage!Volume, v.size # ""
  PROVE  /\ Storage!DefaultedVolume(v).name = v.name
         /\ Storage!DefaultedVolume(v).purpose = v.purpose
         /\ Storage!DefaultedVolume(v).size = v.size
         /\ Storage!DefaultedVolume(v).readOnly = v.readOnly
         /\ Storage!DefaultedVolume(v).storageClass = v.storageClass
         /\ Storage!DefaultedVolume(v).mountPath = Storage!ResolvedPath(v)
         /\ Storage!DefaultedVolume(v).claimName = Storage!ResolvedClaim(v)
         /\ Storage!DefaultedVolume(v).accessMode =
              IF Storage!HasSize(v) /\ v.accessMode = "" THEN "ReadWriteMany" ELSE v.accessMode
         /\ Storage!PreviewVolume(v) = Storage!DefaultedVolume(v)
<1>1. v.purpose \in Storage!Purposes
  BY VolumeFields
<1> QED BY <1>1, VolumeFields DEF Storage!DefaultedVolume, Storage!PreviewVolume, Storage!ResolvedPath, Storage!ResolvedClaim,
          Storage!HasSize, Storage!DefaultPath, Storage!Purposes

(* One volume is accepted by the schema as by the webhook after its defaults.  *)
Admitted(v) ==
  /\ v.size = NoValue => v.claimName # ""
  /\ ~(v.size # NoValue /\ v.readOnly)
  /\ v.size # NoValue /\ v.claimName # "" => v.claimName = AutoClaim[v.name]
  /\ v.accessMode # "" => v.size # NoValue
  /\ v.storageClass # NoValue => v.size # NoValue
  /\ v.mountPath \notin RelativePaths \cup SystemPaths
  /\ ~(v.purpose = "custom" /\ v.mountPath = "")

LEMMA VolumeJudgedAlike ==
  ASSUME NEW v \in Storage!Volume, v.size # ""
  PROVE  Storage!VolumeAccepted(v) <=> Admitted(Storage!DefaultedVolume(v))
<1> DEFINE d == Storage!DefaultedVolume(v)
<1>1. /\ d.name = v.name /\ d.purpose = v.purpose /\ d.size = v.size /\ d.readOnly = v.readOnly
      /\ d.storageClass = v.storageClass /\ d.mountPath = Storage!ResolvedPath(v)
      /\ d.claimName = Storage!ResolvedClaim(v)
      /\ d.accessMode = IF Storage!HasSize(v) /\ v.accessMode = "" THEN "ReadWriteMany" ELSE v.accessMode
  BY DefaultsAgree
<1>2. Storage!HasSize(v) <=> v.size # NoValue
  BY DEF Storage!HasSize
<1>3. {"", "/model-cache", "/compilation-cache"} \cap (RelativePaths \cup SystemPaths) = {}
  BY ClientsAssumption DEF Storage!StorageAssumption
<1>4. v.purpose \in Storage!Purposes
  BY VolumeFields
<1> HIDE DEF d
<1>5. v.mountPath \notin RelativePaths \cup SystemPaths <=> d.mountPath \notin RelativePaths \cup SystemPaths
  BY <1>1, <1>3, <1>4 DEF Storage!ResolvedPath, Storage!DefaultPath, Storage!Purposes
<1>6. (v.purpose = "custom" => v.mountPath # "") <=> ~(d.purpose = "custom" /\ d.mountPath = "")
  BY <1>1 DEF Storage!ResolvedPath, Storage!DefaultPath
<1>7. (Storage!HasSize(v) \/ v.claimName # "") <=> (d.size = NoValue => d.claimName # "")
  BY <1>1, <1>2 DEF Storage!ResolvedClaim
<1>8. (Storage!HasSize(v) /\ v.claimName # "" => v.claimName = AutoClaim[v.name])
        <=> (d.size # NoValue /\ d.claimName # "" => d.claimName = AutoClaim[d.name])
  BY <1>1, <1>2 DEF Storage!ResolvedClaim
<1>9. (v.accessMode # "" => Storage!HasSize(v)) <=> (d.accessMode # "" => d.size # NoValue)
  BY <1>1, <1>2
<1>10. Admitted(d) <=>
        /\ d.size = NoValue => d.claimName # ""
        /\ ~(d.size # NoValue /\ d.readOnly)
        /\ d.size # NoValue /\ d.claimName # "" => d.claimName = AutoClaim[d.name]
        /\ d.accessMode # "" => d.size # NoValue
        /\ d.storageClass # NoValue => d.size # NoValue
        /\ d.mountPath \notin RelativePaths \cup SystemPaths
        /\ ~(d.purpose = "custom" /\ d.mountPath = "")
  BY DEF Admitted
<1>11. Storage!VolumeAccepted(v) <=>
        /\ v.mountPath \notin RelativePaths \cup SystemPaths
        /\ v.purpose = "custom" => v.mountPath # ""
        /\ Storage!HasSize(v) \/ v.claimName # ""
        /\ ~(Storage!HasSize(v) /\ v.readOnly)
        /\ Storage!HasSize(v) /\ v.claimName # "" => v.claimName = AutoClaim[v.name]
        /\ v.accessMode # "" => Storage!HasSize(v)
        /\ v.storageClass # NoValue => Storage!HasSize(v)
  BY DEF Storage!VolumeAccepted
<1>12. Storage!VolumeAccepted(v) <=> Admitted(d)
  BY <1>1, <1>2, <1>5, <1>6, <1>7, <1>8, <1>9, <1>10, <1>11
<1> QED BY <1>12 DEF d

(* Route and webhook judge a list alike: its volumes one by one, then what two *)
(* of them may not share.                                                      *)
LEMMA ListJudgedAlike ==
  ASSUME StorageInv, \A i \in Storage!Indices : vols[i].size # ""
  PROVE  Storage!SchemaAccepts(vols) <=> Storage!WebhookAccepts(Storage!Each(Storage!DefaultedVolume, vols))
<1>1. Len(vols) <= MaxVolumes /\ DOMAIN vols = Storage!Indices
  BY VolumeList DEF StorageInv, Storage!Indices
<1>2. PICK ds : ds = [i \in DOMAIN vols |-> Storage!DefaultedVolume(vols[i])]
  OBVIOUS
<1>3. \A i \in DOMAIN vols : vols[i] \in Storage!Volume /\ vols[i].size # "" /\ ds[i] = Storage!DefaultedVolume(vols[i])
  BY <1>1, <1>2, VolumeList
<1>4. /\ DOMAIN ds = DOMAIN vols
      /\ \A i \in DOMAIN vols : /\ ds[i].name = vols[i].name /\ ds[i].purpose = vols[i].purpose
                                /\ ds[i].mountPath = Storage!ResolvedPath(vols[i])
                                /\ ds[i].claimName = Storage!ResolvedClaim(vols[i])
  BY <1>2, <1>3, DefaultsAgree
<1>5. (\A i \in DOMAIN vols : Storage!VolumeAccepted(vols[i])) <=> (\A i \in DOMAIN ds : Admitted(ds[i]))
  BY <1>3, <1>4, VolumeJudgedAlike
<1>6. /\ Storage!Distinct(vols, Storage!NameOf) <=> Storage!Distinct(ds, Storage!NameOf)
      /\ Storage!Distinct(vols, Storage!ResolvedPath) <=> Storage!Distinct(ds, Storage!PathOf)
      /\ Storage!Distinct(vols, Storage!ResolvedClaim) <=> Storage!Distinct(ds, Storage!ClaimOf)
  <2>1. Storage!Distinct(vols, Storage!NameOf) <=> Storage!Distinct(ds, Storage!NameOf)
    BY <1>4 DEF Storage!Distinct, Storage!NameOf
  <2>2. Storage!Distinct(vols, Storage!ResolvedPath) <=> Storage!Distinct(ds, Storage!PathOf)
    <3>1. Storage!Distinct(vols, Storage!ResolvedPath) <=>
            \A i, j \in DOMAIN vols : i # j /\ Storage!ResolvedPath(vols[i]) # "" =>
                                       Storage!ResolvedPath(vols[i]) # Storage!ResolvedPath(vols[j])
      BY Zenon DEF Storage!Distinct
    <3>2. Storage!Distinct(ds, Storage!PathOf) <=>
            \A i, j \in DOMAIN ds : i # j /\ ds[i].mountPath # "" => ds[i].mountPath # ds[j].mountPath
      BY DEF Storage!Distinct, Storage!PathOf
    <3>3. PICK named : named = [i \in DOMAIN vols |-> Storage!ResolvedPath(vols[i])]
      OBVIOUS
    <3>4. DOMAIN ds = DOMAIN vols /\ \A i \in DOMAIN vols : ds[i].mountPath = named[i] /\ Storage!ResolvedPath(vols[i]) = named[i]
      BY <1>4, <3>3
    <3>5. Storage!Distinct(vols, Storage!ResolvedPath) <=>
            \A i, j \in DOMAIN vols : i # j /\ named[i] # "" => named[i] # named[j]
      BY <3>1, <3>4
    <3>6. Storage!Distinct(ds, Storage!PathOf) <=>
            \A i, j \in DOMAIN vols : i # j /\ named[i] # "" => named[i] # named[j]
      BY ZenonT(40), <3>2, <3>4
    <3> QED BY <3>5, <3>6
  <2>3. Storage!Distinct(vols, Storage!ResolvedClaim) <=> Storage!Distinct(ds, Storage!ClaimOf)
    <3>1. Storage!Distinct(vols, Storage!ResolvedClaim) <=>
            \A i, j \in DOMAIN vols : i # j /\ Storage!ResolvedClaim(vols[i]) # "" =>
                                       Storage!ResolvedClaim(vols[i]) # Storage!ResolvedClaim(vols[j])
      BY Zenon DEF Storage!Distinct
    <3>2. Storage!Distinct(ds, Storage!ClaimOf) <=>
            \A i, j \in DOMAIN ds : i # j /\ ds[i].claimName # "" => ds[i].claimName # ds[j].claimName
      BY DEF Storage!Distinct, Storage!ClaimOf
    <3>3. PICK named : named = [i \in DOMAIN vols |-> Storage!ResolvedClaim(vols[i])]
      OBVIOUS
    <3>4. DOMAIN ds = DOMAIN vols /\ \A i \in DOMAIN vols : ds[i].claimName = named[i] /\ Storage!ResolvedClaim(vols[i]) = named[i]
      BY <1>4, <3>3
    <3>5. Storage!Distinct(vols, Storage!ResolvedClaim) <=>
            \A i, j \in DOMAIN vols : i # j /\ named[i] # "" => named[i] # named[j]
      BY <3>1, <3>4
    <3>6. Storage!Distinct(ds, Storage!ClaimOf) <=>
            \A i, j \in DOMAIN vols : i # j /\ named[i] # "" => named[i] # named[j]
      BY ZenonT(40), <3>2, <3>4
    <3> QED BY <3>5, <3>6
  <2> QED BY <2>1, <2>2, <2>3
<1>7. \A purpose : Storage!AtMostOne(vols, purpose) <=> Storage!AtMostOne(ds, purpose)
  <2> TAKE purpose
  <2>1. {i \in DOMAIN vols : vols[i].purpose = purpose} = {i \in DOMAIN ds : ds[i].purpose = purpose}
    BY <1>4
  <2> QED BY <2>1 DEF Storage!AtMostOne
<1>8. Storage!WebhookAccepts(ds) <=>
        /\ \A i \in DOMAIN ds : Admitted(ds[i])
        /\ Storage!Distinct(ds, Storage!NameOf) /\ Storage!Distinct(ds, Storage!PathOf) /\ Storage!Distinct(ds, Storage!ClaimOf)
        /\ Storage!AtMostOne(ds, "modelCache") /\ Storage!AtMostOne(ds, "compilationCache")
  BY Zenon DEF Storage!WebhookAccepts, Admitted
<1>9. Storage!SchemaAccepts(vols) <=> Storage!WebhookAccepts(ds)
  BY <1>1, <1>5, <1>6, <1>7, <1>8 DEF Storage!SchemaAccepts
<1> QED BY <1>2, <1>9 DEF Storage!Each

LEMMA PreviewedAsStored ==
  ASSUME StorageInv, Storage!SchemaAccepts(vols)
  PROVE  Storage!Each(Storage!PreviewVolume, vols) = Storage!Each(Storage!DefaultedVolume, vols)
<1>1. \A i \in DOMAIN vols : vols[i] \in Storage!Volume /\ vols[i].size # ""
  BY VolumeList DEF Storage!Indices, Storage!SchemaAccepts, Storage!VolumeAccepted
<1>2. \A i \in DOMAIN vols : Storage!PreviewVolume(vols[i]) = Storage!DefaultedVolume(vols[i])
  BY <1>1, DefaultsAgree
<1> QED BY <1>2 DEF Storage!Each

(* What POST /deployments lets through the webhook admits after its defaults,  *)
(* and the other way round, and the preview shows the volumes as they will be  *)
(* stored: for any names, paths, claims and classes (createDeploymentSchema,   *)
(* the controller's webhook).                                                  *)
THEOREM VolumesJudgedAlike == Storage!Spec => []Storage!RouteMatchesWebhook
<1>1. StorageInv => Storage!RouteMatchesWebhook
  BY ListJudgedAlike, PreviewedAsStored DEF Storage!RouteMatchesWebhook
<1> QED BY <1>1, StorageInit, StorageKept, PTL DEF Storage!Spec
=============================================================================
