---------------------- MODULE DeploymentRequestsProofs ----------------------
(* Two theorems about DeploymentRequests, for any number of requests, names,   *)
(* namespaces and retries: an answer of success is earned, and a list shows    *)
(* what the user can list.                                                     *)
EXTENDS DeploymentRequests, TLAPS

(* A request has these fields; where only reads get to, the request is a read; *)
(* and success is told to who deserves it.                                     *)
IsRequest(q) ==
  DOMAIN q = {"op", "name", "token", "pc", "tries", "answer", "made", "removed", "quiet",
              "todo", "allowed", "shown", "seen"}
ReadsOnly == {"pods", "log", "events", "cluster", "namespaces", "reviews", "lists"}
InItsPlace(q) ==
  /\ q.pc \in ReadsOnly => q.op \notin {"create", "delete"}
  /\ q.pc = "lookup" => q.op # "create"
Honest(q) ==
  /\ q.op = "create" /\ q.answer = 201 => q.made # {}
  /\ q.op = "delete" /\ q.answer = 200 => q.removed # {}
Good(q) == IsRequest(q) /\ InItsPlace(q) /\ Honest(q)

RequestsInv == req = [r \in Requests |-> req[r]] /\ \A r \in Requests : Good(req[r])

LEMMA RequestsInit == Init => RequestsInv
  BY DEF Init, RequestsInv, Good, IsRequest, InItsPlace, Honest, Blank, ReadsOnly

(* Every step of a request replaces the request by one.                        *)
LEMMA Replaced == ASSUME RequestsInv, NEW r \in Requests, NEW new, Update(r, new), Good(new)
                  PROVE  RequestsInv'
  BY DEF RequestsInv, Update

(* A request that stays what it was keeps its place and owes no more.          *)
LEMMA Moved == ASSUME NEW q, NEW new, Good(q), DOMAIN new = DOMAIN q, new.op = q.op,
                      new.pc \in ReadsOnly => q.op \notin {"create", "delete"},
                      new.pc = "lookup" => q.op # "create",
                      q.op = "create" /\ new.answer = 201 => new.made # {},
                      q.op = "delete" /\ new.answer = 200 => new.removed # {}
               PROVE  Good(new)
  BY DEF Good, IsRequest, InItsPlace, Honest

LEMMA GoodAgain == ASSUME NEW q, Good(q)
                   PROVE  Good([q EXCEPT !.tries = @ + 1, !.quiet = FALSE])
  BY Moved DEF Good, IsRequest, InItsPlace, Honest

LEMMA GoodGoto == ASSUME NEW q, NEW pc, Good(q),
                         pc \in ReadsOnly => q.op \notin {"create", "delete"},
                         pc = "lookup" => q.op # "create"
                  PROVE  Good([q EXCEPT !.pc = pc, !.tries = 0])
  BY Moved DEF Good, IsRequest, Honest

(* An answer that is not success, or not one to a create or a delete.          *)
LEMMA GoodAnswer == ASSUME NEW q, NEW code, Good(q),
                           q.op = "create" => code # 201, q.op = "delete" => code # 200
                    PROVE  Good([q EXCEPT !.pc = "done", !.answer = code, !.tries = 0])
<1> DEFINE new == [q EXCEPT !.pc = "done", !.answer = code, !.tries = 0]
<1>1. DOMAIN new = DOMAIN q /\ new.op = q.op /\ new.pc = "done" /\ new.answer = code
  BY DEF Good, IsRequest
<1> QED BY <1>1 DEF Good, IsRequest, InItsPlace, Honest, ReadsOnly

(* Only a free place takes a request.                                          *)
LEMMA SubmitKept == ASSUME RequestsInv, NEW r \in Requests, NEW op \in Ops, NEW n \in Names,
                           NEW token \in BOOLEAN, Submit(r, op, n, token)
                    PROVE  RequestsInv'
<1> DEFINE pc == CASE op = "create"  -> "provider"
                   [] op = "list"    -> "cluster"
                   [] op = "listOne" -> "lists"
                   [] OTHER          -> "lookup"
           new == [Blank EXCEPT !.op = op, !.name = n, !.token = token, !.seen = readable,
                     !.todo = IF op = "listOne" THEN {NamespaceOf[n]} ELSE {}, !.pc = pc]
<1>1. DOMAIN new = DOMAIN Blank /\ new.op = op /\ new.pc = pc /\ new.answer = 0
  BY DEF Blank
<1>2. DOMAIN Blank = {"op", "name", "token", "pc", "tries", "answer", "made", "removed", "quiet",
              "todo", "allowed", "shown", "seen"}
  BY DEF Blank
<1>3. pc = IF op = "create" THEN "provider" ELSE IF op = "list" THEN "cluster"
           ELSE IF op = "listOne" THEN "lists" ELSE "lookup"
  OBVIOUS
<1>4. Good(new)
  BY <1>1, <1>2, <1>3 DEF Good, IsRequest, InItsPlace, Honest, ReadsOnly
<1>5. Update(r, new)
  BY DEF Submit
<1> QED BY <1>4, <1>5, Replaced

LEMMA CreateKept == ASSUME RequestsInv, NEW r \in Requests, NEW o \in Outcomes, CreateObject(r, o)
                    PROVE  RequestsInv'
<1> DEFINE q == req[r]
           free == objects[q.name] = 0
           acts == o \in {"answered", "lost"} /\ free
           sent == IF acts THEN [q EXCEPT !.made = @ \cup {nextUid + 1}] ELSE q
           code == CASE o = "denied"   -> 403
                     [] o \in {"lost", "transient"} -> 500
                     [] OTHER -> CreateAnswer(r, free)
           final == [sent EXCEPT !.pc = "done", !.tries = 0, !.quiet = @ /\ o = "answered",
                       !.answer = code]
<1>1. Good(q) /\ q.op = "create" /\ q.pc = "send"
  BY DEF CreateObject, RequestsInv
<1>2. /\ DOMAIN sent = DOMAIN q /\ sent.op = q.op /\ sent.pc = q.pc /\ sent.answer = q.answer
      /\ acts => sent.made # {}
      /\ ~acts => sent.made = q.made
  BY <1>1 DEF Good, IsRequest
<1>3. Good(sent)
  <2>1. q.answer = 201 => sent.made # {}
    BY <1>1, <1>2 DEF Good, Honest
  <2> QED BY <1>1, <1>2, <2>1, Moved DEF Good, InItsPlace
<1>4. Good([sent EXCEPT !.tries = @ + 1, !.quiet = FALSE])
  BY <1>3, GoodAgain
<1>5. code = 201 => acts
  BY DEF CreateAnswer, Outcomes
<1>6. Good(final)
  <2>1. /\ DOMAIN final = DOMAIN sent /\ final.op = sent.op /\ final.pc = "done"
        /\ final.answer = code /\ final.made = sent.made
    BY <1>3 DEF Good, IsRequest
  <2>2. final.op = "create" /\ (final.answer = 201 => final.made # {})
    BY <1>1, <1>2, <1>5, <2>1
  <2> HIDE DEF final
  <2> QED BY <1>3, <2>1, <2>2 DEF Good, IsRequest, InItsPlace, Honest, ReadsOnly
<1>7. Update(r, [sent EXCEPT !.tries = @ + 1, !.quiet = FALSE]) \/ Update(r, final)
  BY DEF CreateObject, Again
<1> QED BY <1>4, <1>6, <1>7, Replaced

LEMMA DeleteKept == ASSUME RequestsInv, NEW r \in Requests, NEW o \in Outcomes, DeleteObject(r, o)
                    PROVE  RequestsInv'
<1> DEFINE q == req[r]
           there == objects[q.name] # 0
           acts == o \in {"answered", "lost"} /\ there
           sent == IF acts THEN [q EXCEPT !.removed = @ \cup {objects[q.name]}] ELSE q
           code == CASE o = "denied"   -> 403
                     [] o \in {"lost", "transient"} -> 500
                     [] OTHER -> DeleteAnswer(r, there)
           final == [sent EXCEPT !.pc = "done", !.tries = 0, !.quiet = @ /\ o = "answered",
                       !.answer = code]
<1>1. Good(q) /\ q.op = "delete" /\ q.pc = "send"
  BY DEF DeleteObject, RequestsInv
<1>2. /\ DOMAIN sent = DOMAIN q /\ sent.op = q.op /\ sent.pc = q.pc /\ sent.answer = q.answer
      /\ acts => sent.removed # {}
      /\ ~acts => sent.removed = q.removed
  BY <1>1 DEF Good, IsRequest
<1>3. Good(sent)
  <2>1. q.answer = 200 => sent.removed # {}
    BY <1>1, <1>2 DEF Good, Honest
  <2> QED BY <1>1, <1>2, <2>1, Moved DEF Good, InItsPlace
<1>4. Good([sent EXCEPT !.tries = @ + 1, !.quiet = FALSE])
  BY <1>3, GoodAgain
<1>5. code = 200 => acts
  BY DEF Outcomes, DeleteAnswer
<1>6. Good(final)
  <2>1. /\ DOMAIN final = DOMAIN sent /\ final.op = sent.op /\ final.pc = "done"
        /\ final.answer = code /\ final.removed = sent.removed
    BY <1>3 DEF Good, IsRequest
  <2>2. final.op = "delete" /\ (final.answer = 200 => final.removed # {})
    BY <1>1, <1>2, <1>5, <2>1
  <2> HIDE DEF final
  <2> QED BY <1>3, <2>1, <2>2 DEF Good, IsRequest, InItsPlace, Honest, ReadsOnly
<1>7. Update(r, [sent EXCEPT !.tries = @ + 1, !.quiet = FALSE]) \/ Update(r, final)
  BY DEF DeleteObject, Again
<1> QED BY <1>4, <1>6, <1>7, Replaced

(* The three ways in which every other step of a request ends.                 *)
LEMMA AgainKept == ASSUME RequestsInv, NEW r \in Requests, Again(r, req[r]) PROVE RequestsInv'
  BY GoodAgain, Replaced DEF RequestsInv, Again

LEMMA GotoKept == ASSUME RequestsInv, NEW r \in Requests, NEW pc, Goto(r, pc),
                         pc \in ReadsOnly => req[r].op \notin {"create", "delete"},
                         pc = "lookup" => req[r].op # "create"
                  PROVE  RequestsInv'
  BY GoodGoto, Replaced DEF RequestsInv, Goto

LEMMA AnswerKept == ASSUME RequestsInv, NEW r \in Requests, NEW code, Answer(r, code),
                           req[r].op = "create" => code # 201, req[r].op = "delete" => code # 200
                    PROVE  RequestsInv'
  BY GoodAnswer, Replaced DEF RequestsInv, Answer

(* A read takes no care of its answer: success is not told to a create or a    *)
(* delete here, for those never get to these places.                           *)
LEMMA ReadKept == ASSUME RequestsInv, NEW r \in Requests, NEW new, Update(r, new),
                         req[r].pc \in ReadsOnly,
                         DOMAIN new = DOMAIN req[r], new.op = req[r].op, new.pc # "lookup"
                  PROVE  RequestsInv'
<1>1. Good(req[r]) /\ req[r].op \notin {"create", "delete"}
  BY DEF RequestsInv, Good, InItsPlace
<1>2. Good(new)
  BY <1>1, Moved
<1> QED BY <1>2, Replaced

LEMMA LookupKept == ASSUME RequestsInv, NEW r \in Requests, NEW o \in Outcomes, Lookup(r, o)
                    PROVE  RequestsInv'
<1>1. req[r].op # "create" /\ req[r].pc = "lookup"
  BY DEF Lookup, RequestsInv, Good, InItsPlace
<1>2. CASE Again(r, req[r])
  BY <1>2, AgainKept
<1>3. CASE Answer(r, 404)
  BY <1>3, AnswerKept
<1>4. CASE LookupNext(req[r].op) = "done" /\ Answer(r, 200)
  <2>1. req[r].op # "delete"
    BY <1>4 DEF LookupNext
  <2> QED BY <1>1, <1>4, <2>1, AnswerKept
<1>5. CASE Goto(r, LookupNext(req[r].op))
  <2>1. req[r].op = "delete" => LookupNext(req[r].op) = "send"
    BY DEF LookupNext
  <2>2. LookupNext(req[r].op) # "lookup"
    BY DEF LookupNext
  <2> QED BY <1>1, <1>5, <2>1, <2>2, GotoKept DEF ReadsOnly
<1> QED BY <1>2, <1>3, <1>4, <1>5 DEF Lookup

(* The steps of the reads: they go on, or end, as they like.                   *)
LEMMA ReadStepKept ==
  ASSUME RequestsInv, NEW r \in Requests,
         \/ ListPods(r) \/ ReviewsDone(r) \/ ListsDone(r)
         \/ \E o \in Outcomes :
              \/ ReadLog(r, o) \/ ReadEvents(r, o) \/ ListCluster(r, o) \/ ListNamespaces(r, o)
              \/ \E ns \in Namespaces : ReviewAccess(r, ns, o) \/ ListNamespace(r, ns, o)
  PROVE  RequestsInv'
<1> DEFINE q == req[r]
<1>1. IsRequest(q)
  BY DEF RequestsInv, Good
<1>2. ASSUME q.pc \in ReadsOnly PROVE q.op \notin {"create", "delete"}
  BY <1>2 DEF RequestsInv, Good, InItsPlace
<1>3. ASSUME NEW code, Answer(r, code), q.pc \in ReadsOnly PROVE RequestsInv'
  BY <1>2, <1>3, AnswerKept
<1>4. ASSUME NEW pc, Goto(r, pc), q.pc \in ReadsOnly, pc # "lookup" PROVE RequestsInv'
  BY <1>2, <1>4, GotoKept
<1>5. CASE ListPods(r)
  BY <1>3, <1>4, <1>5 DEF ListPods, ReadsOnly
<1>6. CASE ReviewsDone(r)
  <2>1. CASE Answer(r, 200)
    BY <1>3, <1>6, <2>1 DEF ReviewsDone, ReadsOnly
  <2>2. CASE Update(r, [q EXCEPT !.pc = "lists", !.todo = q.allowed])
    <3> DEFINE new == [q EXCEPT !.pc = "lists", !.todo = q.allowed]
    <3>1. DOMAIN new = DOMAIN q /\ new.op = q.op /\ new.pc = "lists"
      BY <1>1 DEF IsRequest
    <3>2. q.pc \in ReadsOnly
      BY <1>6 DEF ReviewsDone, ReadsOnly
    <3> HIDE DEF new
    <3> QED BY <2>2, <3>1, <3>2, ReadKept DEF new
  <2> QED BY <1>6, <2>1, <2>2 DEF ReviewsDone
<1>7. CASE ListsDone(r)
  BY <1>3, <1>7 DEF ListsDone, ReadsOnly
<1>8. ASSUME NEW o \in Outcomes, ReadLog(r, o) \/ ReadEvents(r, o) PROVE RequestsInv'
  BY <1>3, <1>8, AgainKept DEF ReadLog, ReadEvents, ReadsOnly
<1>9. ASSUME NEW o \in Outcomes, ListCluster(r, o) PROVE RequestsInv'
  <2> DEFINE listed == o = "answered" /\ ~(o = "denied" \/ (o = "answered" /\ readable # Namespaces))
             new == [q EXCEPT !.pc = "done", !.answer = 200, !.tries = 0,
                       !.quiet = @ /\ o = "answered",
                       !.shown = IF listed THEN Namespaces ELSE {}]
  <2>1. q.pc \in ReadsOnly
    BY <1>9 DEF ListCluster, ReadsOnly
  <2>2. DOMAIN new = DOMAIN q /\ new.op = q.op /\ new.pc = "done"
    BY <1>1 DEF IsRequest
  <2>3. Again(r, q) \/ Goto(r, "namespaces") \/ Update(r, new)
    BY <1>9 DEF ListCluster
  <2> HIDE DEF new
  <2> QED BY <1>4, <2>1, <2>2, <2>3, AgainKept, ReadKept
<1>10. ASSUME NEW o \in Outcomes, ListNamespaces(r, o) PROVE RequestsInv'
  <2> DEFINE none == [q EXCEPT !.pc = "done", !.answer = 200, !.tries = 0, !.quiet = FALSE]
             some == [q EXCEPT !.pc = "reviews", !.tries = 0, !.todo = Namespaces]
  <2>1. q.pc \in ReadsOnly
    BY <1>10 DEF ListNamespaces, ReadsOnly
  <2>2. DOMAIN none = DOMAIN q /\ none.op = q.op /\ none.pc = "done"
    BY <1>1 DEF IsRequest
  <2>3. DOMAIN some = DOMAIN q /\ some.op = q.op /\ some.pc = "reviews"
    BY <1>1 DEF IsRequest
  <2>4. Again(r, q) \/ Update(r, none) \/ Update(r, some)
    BY <1>10 DEF ListNamespaces
  <2> HIDE DEF none, some
  <2> QED BY <2>1, <2>2, <2>3, <2>4, AgainKept, ReadKept
<1>11. ASSUME NEW o \in Outcomes, NEW ns \in Namespaces, ReviewAccess(r, ns, o) PROVE RequestsInv'
  <2> DEFINE new == [q EXCEPT !.todo = @ \ {ns}, !.quiet = @ /\ o = "answered",
                       !.allowed = IF o = "answered" /\ ns \in readable THEN @ \cup {ns} ELSE @]
  <2>1. q.pc = "reviews" /\ Update(r, new)
    BY <1>11 DEF ReviewAccess
  <2>2. DOMAIN new = DOMAIN q /\ new.op = q.op /\ new.pc = q.pc
    BY <1>1 DEF IsRequest
  <2> HIDE DEF new
  <2> QED BY <2>1, <2>2, ReadKept DEF ReadsOnly
<1>12. ASSUME NEW o \in Outcomes, NEW ns \in Namespaces, ListNamespace(r, ns, o) PROVE RequestsInv'
  <2> DEFINE new == [q EXCEPT !.todo = @ \ {ns}, !.quiet = @ /\ o = "answered",
                       !.shown = IF o = "answered" /\ ns \in Listable THEN @ \cup {ns} ELSE @]
  <2>1. q.pc = "lists" /\ Update(r, new)
    BY <1>12 DEF ListNamespace
  <2>2. DOMAIN new = DOMAIN q /\ new.op = q.op /\ new.pc = q.pc
    BY <1>1 DEF IsRequest
  <2> HIDE DEF new
  <2> QED BY <2>1, <2>2, ReadKept DEF ReadsOnly
<1> QED BY <1>5, <1>6, <1>7, <1>8, <1>9, <1>10, <1>11, <1>12

(* A create goes from validation over capacity to its call.                    *)
LEMMA BeforeSendKept == ASSUME RequestsInv, NEW r \in Requests, ValidateProvider(r) \/ CheckCapacity(r)
                        PROVE  RequestsInv'
<1>1. CASE ValidateProvider(r)
  <2>1. CASE Goto(r, "capacity")
    BY <2>1, GotoKept DEF ReadsOnly
  <2>2. ASSUME NEW refusal \in {404, 422}, Answer(r, refusal) PROVE RequestsInv'
    BY <2>2, AnswerKept
  <2> QED BY <1>1, <2>1, <2>2 DEF ValidateProvider
<1>2. CASE CheckCapacity(r)
  BY <1>2, GotoKept DEF CheckCapacity, ReadsOnly
<1> QED BY <1>1, <1>2

(* What others do is only noticed.                                             *)
LEMMA OthersKept == ASSUME RequestsInv,
                           \/ \E n \in Names : OthersCreate(n) \/ OthersDelete(n)
                           \/ \E ns \in Namespaces : ChangeRights(ns)
                    PROVE  RequestsInv'
<1>1. ASSUME NEW r \in Requests
      PROVE  Good([req[r] EXCEPT !.quiet = FALSE])
  BY Moved DEF RequestsInv, Good, IsRequest, InItsPlace, Honest
<1>2. ASSUME NEW r \in Requests, NEW now
      PROVE  Good([[req[r] EXCEPT !.quiet = FALSE] EXCEPT !.seen = @ \cup now])
  <2> DEFINE q == [req[r] EXCEPT !.quiet = FALSE]
             new == [q EXCEPT !.seen = @ \cup now]
  <2>1. Good(q)
    BY <1>1
  <2>2. /\ DOMAIN new = DOMAIN q /\ new.op = q.op /\ new.pc = q.pc /\ new.answer = q.answer
        /\ new.made = q.made /\ new.removed = q.removed
    BY <2>1 DEF Good, IsRequest
  <2> HIDE DEF q, new
  <2>3. Good(new)
    BY <2>1, <2>2 DEF Good, IsRequest, InItsPlace, Honest
  <2> QED BY <2>3 DEF new, q
<1>3. CASE \E n \in Names : OthersCreate(n) \/ OthersDelete(n)
  <2>1. req' = Noticed
    BY <1>3 DEF OthersCreate, OthersDelete
  <2> QED BY <1>1, <2>1 DEF Noticed, RequestsInv
<1>4. ASSUME NEW ns \in Namespaces, ChangeRights(ns) PROVE RequestsInv'
  <2>1. PICK now : req' = [r \in Requests |-> [Noticed[r] EXCEPT !.seen = @ \cup now]]
    BY <1>4 DEF ChangeRights
  <2>2. \A r \in Requests : req'[r] = [[req[r] EXCEPT !.quiet = FALSE] EXCEPT !.seen = @ \cup now]
    BY <2>1 DEF Noticed
  <2> QED BY <1>2, <2>1, <2>2 DEF RequestsInv
<1> QED BY <1>3, <1>4

LEMMA ShimKept == ASSUME RequestsInv, \E n \in Names : PutFinalizer(n) \/ TakeFinalizer(n)
                  PROVE  RequestsInv'
  BY DEF PutFinalizer, TakeFinalizer, RequestsInv, Good, IsRequest, InItsPlace, Honest

LEMMA RequestsKept == ASSUME RequestsInv, [Next]_vars PROVE RequestsInv'
<1>1. CASE UNCHANGED vars
  BY <1>1 DEF vars, RequestsInv, Good, IsRequest, InItsPlace, Honest
<1>2. CASE Environment
  BY <1>2, SubmitKept, OthersKept, ShimKept DEF Environment
<1>3. ASSUME NEW r \in Requests, Step(r) PROVE RequestsInv'
  <2>1. CASE \E o \in Outcomes : CreateObject(r, o) \/ DeleteObject(r, o) \/ Lookup(r, o)
    BY <2>1, CreateKept, DeleteKept, LookupKept
  <2>2. CASE ValidateProvider(r) \/ CheckCapacity(r)
    BY <2>2, BeforeSendKept
  <2> QED BY <1>3, <2>1, <2>2, ReadStepKept DEF Step
<1> QED BY <1>1, <1>2, <1>3 DEF Next

(* What a request deleted is on its way out: the uids it removed were given    *)
(* out, and the object of its name is one of them only while it is Terminating.*)
Ended(q, there, leaving, last) ==
  /\ q.removed \subseteq 1..last
  /\ q.op # "none" => q.name \in Names
  /\ q.op = "delete" /\ there[q.name] \in q.removed => q.name \in leaving

EndsInv ==
  /\ nextUid \in Nat /\ objects \in [Names -> 0..nextUid] /\ deleting \subseteq guarded
  /\ req = [r \in Requests |-> req[r]]
  /\ \A r \in Requests : IsRequest(req[r]) /\ Ended(req[r], objects, deleting, nextUid)

(* A step of the store keeps it sound and keeps the dead dead.                 *)
StoreKeeps ==
  /\ nextUid' \in Nat /\ objects' \in [Names -> 0..nextUid'] /\ deleting' \subseteq guarded'
  /\ \A q : Ended(q, objects, deleting, nextUid) => Ended(q, objects', deleting', nextUid')

LEMMA EndsInit == Init => EndsInv
  BY DEF Init, EndsInv, Ended, IsRequest, Blank

LEMMA NoStoreKeeps == ASSUME EndsInv, UNCHANGED <<objects, guarded, deleting, nextUid>> PROVE StoreKeeps
  BY DEF EndsInv, StoreKeeps

(* A new object is another one than those that were ever removed.              *)
LEMMA StoredKeeps == ASSUME EndsInv, NEW n \in Names, Store(n) PROVE StoreKeeps
<1>1. /\ nextUid \in Nat /\ objects \in [Names -> 0..nextUid] /\ deleting \subseteq guarded
      /\ objects' = [objects EXCEPT ![n] = nextUid + 1] /\ nextUid' = nextUid + 1
      /\ guarded' = guarded /\ deleting' = deleting
  BY DEF EndsInv, Store
<1>2. ASSUME NEW q, Ended(q, objects, deleting, nextUid)
      PROVE  Ended(q, objects', deleting', nextUid')
  <2>1. q.removed \subseteq 1..nextUid /\ 1..nextUid \subseteq 1..nextUid' /\ nextUid + 1 \notin 1..nextUid
    BY <1>1, <1>2 DEF Ended
  <2>2. ASSUME q.op = "delete", objects'[q.name] \in q.removed PROVE q.name \in deleting'
    <3>1. q.name \in Names /\ (objects[q.name] \in q.removed => q.name \in deleting)
      BY <1>2, <2>2 DEF Ended
    <3> QED BY <1>1, <2>1, <2>2, <3>1
  <2> QED BY <1>2, <2>1, <2>2 DEF Ended
<1>3. objects' \in [Names -> 0..nextUid'] /\ nextUid' \in Nat
  BY <1>1
<1> QED BY <1>1, <1>2, <1>3 DEF StoreKeeps

(* No object has the uid 0.                                                    *)
LEMMA MarkedKeeps == ASSUME EndsInv, NEW n \in Names, Mark(n), nextUid' = nextUid PROVE StoreKeeps
<1>1. nextUid \in Nat /\ objects \in [Names -> 0..nextUid] /\ deleting \subseteq guarded
  BY DEF EndsInv
<1>2. CASE n \in guarded
  <2>1. objects' = objects /\ guarded' = guarded /\ deleting' = deleting \cup {n}
    BY <1>2 DEF Mark
  <2> QED BY <1>1, <1>2, <2>1 DEF StoreKeeps, Ended
<1>3. CASE n \notin guarded
  <2>1. objects' = [objects EXCEPT ![n] = 0] /\ guarded' = guarded /\ deleting' = deleting
    BY <1>3 DEF Mark
  <2>2. 0 \notin 1..nextUid
    BY <1>1
  <2>3. ASSUME NEW q, Ended(q, objects, deleting, nextUid)
        PROVE  Ended(q, objects', deleting', nextUid')
    BY <1>1, <2>1, <2>2, <2>3 DEF Ended
  <2>4. nextUid' \in Nat /\ objects' \in [Names -> 0..nextUid'] /\ deleting' \subseteq guarded'
    BY <1>1, <2>1
  <2>5. \A q : Ended(q, objects, deleting, nextUid) => Ended(q, objects', deleting', nextUid')
    BY <2>3
  <2> QED BY <2>4, <2>5, Zenon DEF StoreKeeps
<1> QED BY <1>2, <1>3

LEMMA ShimKeeps == ASSUME EndsInv, NEW n \in Names, PutFinalizer(n) \/ TakeFinalizer(n) PROVE StoreKeeps
<1>1. nextUid \in Nat /\ objects \in [Names -> 0..nextUid] /\ deleting \subseteq guarded
  BY DEF EndsInv
<1>2. CASE PutFinalizer(n)
  BY <1>1, <1>2 DEF PutFinalizer, StoreKeeps
<1>3. CASE TakeFinalizer(n)
  <2>1. /\ objects' = [objects EXCEPT ![n] = 0] /\ guarded' = guarded \ {n}
        /\ deleting' = deleting \ {n} /\ nextUid' = nextUid
    BY <1>3 DEF TakeFinalizer
  <2>2. 0 \notin 1..nextUid
    BY <1>1
  <2>3. ASSUME NEW q, Ended(q, objects, deleting, nextUid)
        PROVE  Ended(q, objects', deleting', nextUid')
    BY <1>1, <2>1, <2>2, <2>3 DEF Ended
  <2>4. nextUid' \in Nat /\ objects' \in [Names -> 0..nextUid'] /\ deleting' \subseteq guarded'
    BY <1>1, <2>1
  <2>5. \A q : Ended(q, objects, deleting, nextUid) => Ended(q, objects', deleting', nextUid')
    BY <2>3
  <2> QED BY <2>4, <2>5, Zenon DEF StoreKeeps
<1> QED BY <1>2, <1>3

LEMMA EndsReplaced ==
  ASSUME EndsInv, StoreKeeps, NEW r \in Requests, NEW new, Update(r, new), IsRequest(new),
         Ended(new, objects', deleting', nextUid')
  PROVE  EndsInv'
  BY DEF EndsInv, StoreKeeps, Update

(* A step of a request that deletes nothing.                                   *)
Same(q, new) == /\ DOMAIN new = DOMAIN q /\ new.op = q.op /\ new.name = q.name
                /\ new.removed = q.removed

LEMMA SameKept ==
  ASSUME EndsInv, StoreKeeps, NEW r \in Requests, NEW new, Update(r, new), Same(req[r], new)
  PROVE  EndsInv'
<1>1. IsRequest(req[r]) /\ Ended(req[r], objects, deleting, nextUid)
  BY DEF EndsInv
<1>2. PICK q : q = req[r]
  OBVIOUS
<1>3. IsRequest(new)
  BY <1>1 DEF Same, IsRequest
<1>4. Ended(q, objects', deleting', nextUid')
  BY <1>1, <1>2 DEF StoreKeeps
<1>5. Ended(new, objects', deleting', nextUid')
  BY <1>2, <1>4 DEF Same, Ended
<1> QED BY <1>3, <1>5, EndsReplaced

LEMMA SameAgain == ASSUME NEW q, IsRequest(q)
                   PROVE  Same(q, [q EXCEPT !.tries = @ + 1, !.quiet = FALSE])
  BY DEF IsRequest, Same

LEMMA SameGoto == ASSUME NEW q, NEW pc, IsRequest(q)
                  PROVE  Same(q, [q EXCEPT !.pc = pc, !.tries = 0])
  BY DEF IsRequest, Same

LEMMA SameAnswer == ASSUME NEW q, NEW code, IsRequest(q)
                    PROVE  Same(q, [q EXCEPT !.pc = "done", !.answer = code, !.tries = 0])
  BY DEF IsRequest, Same

LEMMA SubmitEnds ==
  ASSUME EndsInv, NEW r \in Requests, NEW op \in Ops, NEW n \in Names, NEW token \in BOOLEAN,
         Submit(r, op, n, token)
  PROVE  EndsInv'
<1>1. PICK pc, todo :
        Update(r, [Blank EXCEPT !.op = op, !.name = n, !.token = token, !.seen = readable,
                     !.todo = todo, !.pc = pc])
  BY Zenon DEF Submit
<1>2. PICK new : new = [Blank EXCEPT !.op = op, !.name = n, !.token = token, !.seen = readable,
                          !.todo = todo, !.pc = pc]
  OBVIOUS
<1>3. IsRequest(new) /\ new.removed = {} /\ new.name = n
  BY <1>2 DEF IsRequest, Blank
<1>4. StoreKeeps
  BY NoStoreKeeps DEF Submit, Others, stored
<1>5. Ended(new, objects', deleting', nextUid')
  BY <1>3 DEF Ended
<1> QED BY <1>1, <1>2, <1>3, <1>4, <1>5, EndsReplaced

LEMMA CreateEnds ==
  ASSUME EndsInv, NEW r \in Requests, NEW o \in Outcomes, CreateObject(r, o)
  PROVE  EndsInv'
<1> DEFINE q == req[r]
           acts == o \in {"answered", "lost"} /\ objects[q.name] = 0
<1>1. IsRequest(q) /\ q.name \in Names
  BY DEF EndsInv, Ended, CreateObject
<1>2. StoreKeeps
  <2>1. CASE acts
    BY <1>1, <2>1, StoredKeeps DEF CreateObject
  <2>2. CASE ~acts
    BY <2>2, NoStoreKeeps DEF CreateObject, stored
  <2> QED BY <2>1, <2>2
<1>3. PICK mid : mid = IF acts THEN [q EXCEPT !.made = @ \cup {nextUid + 1}] ELSE q
  OBVIOUS
<1>4. IsRequest(mid) /\ Same(q, mid)
  <2>1. CASE mid = q
    BY <1>1, <2>1 DEF Same
  <2>2. CASE mid = [q EXCEPT !.made = @ \cup {nextUid + 1}]
    BY <1>1, <2>2 DEF IsRequest, Same
  <2> QED BY <1>3, <2>1, <2>2
<1>5. CASE TriesAgain(r, o)
  <2>1. Update(r, [mid EXCEPT !.tries = @ + 1, !.quiet = FALSE])
    BY <1>3, <1>5, Zenon DEF CreateObject, Again
  <2>2. Same(q, [mid EXCEPT !.tries = @ + 1, !.quiet = FALSE])
    BY <1>4, SameAgain DEF Same
  <2> QED BY <1>2, <2>1, <2>2, SameKept
<1>6. CASE ~TriesAgain(r, o)
  <2>1. PICK quiet : quiet = (mid.quiet /\ o = "answered")
    OBVIOUS
  <2>2. PICK code : code = CASE o = "denied" -> 403
                             [] o \in {"lost", "transient"} -> 500
                             [] OTHER -> CreateAnswer(r, objects[q.name] = 0)
    OBVIOUS
  <2>3. PICK new : new = [mid EXCEPT !.pc = "done", !.tries = 0, !.quiet = quiet, !.answer = code]
    OBVIOUS
  <2>4. Update(r, new)
    BY <1>3, <1>6, <2>1, <2>2, <2>3, Zenon DEF CreateObject
  <2>5. Same(q, new)
    BY <1>1, <1>4, <2>3 DEF IsRequest, Same
  <2> QED BY <1>2, <2>4, <2>5, SameKept
<1> QED BY <1>5, <1>6

(* The server marks what is deleted, or it is gone.                            *)
LEMMA DeleteEnds ==
  ASSUME EndsInv, NEW r \in Requests, NEW o \in Outcomes, DeleteObject(r, o)
  PROVE  EndsInv'
<1> DEFINE q == req[r]
           acts == o \in {"answered", "lost"} /\ objects[q.name] # 0
<1>1. /\ IsRequest(q) /\ q.op = "delete" /\ q.name \in Names
      /\ Ended(q, objects, deleting, nextUid)
      /\ nextUid \in Nat /\ objects \in [Names -> 0..nextUid] /\ nextUid' = nextUid
  BY DEF EndsInv, Ended, DeleteObject
<1>2. StoreKeeps
  <2>1. CASE acts
    BY <1>1, <2>1, MarkedKeeps DEF DeleteObject
  <2>2. CASE ~acts
    BY <2>2, NoStoreKeeps DEF DeleteObject, stored
  <2> QED BY <2>1, <2>2
<1>3. PICK mid : mid = IF acts THEN [q EXCEPT !.removed = @ \cup {objects[q.name]}] ELSE q
  OBVIOUS
<1>4. PICK rid : rid = IF acts THEN q.removed \cup {objects[q.name]} ELSE q.removed
  OBVIOUS
<1>5. IsRequest(mid) /\ mid.op = q.op /\ mid.name = q.name /\ mid.removed = rid
  <2>1. CASE acts
    BY <1>1, <1>3, <1>4, <2>1 DEF IsRequest
  <2>2. CASE ~acts
    BY <1>1, <1>3, <1>4, <2>2
  <2> QED BY <2>1, <2>2
<1>6. Ended(mid, objects', deleting', nextUid')
  <2>1. CASE acts
    <3>1. objects[q.name] \in 1..nextUid /\ rid = q.removed \cup {objects[q.name]}
      BY <1>1, <1>4, <2>1
    <3>2. rid \subseteq 1..nextUid
      BY <1>1, <3>1 DEF Ended
    <3>3. Mark(q.name)
      BY <2>1 DEF DeleteObject
    <3>4. q.name \in deleting' \/ objects'[q.name] = 0
      BY <1>1, <3>3 DEF Mark
    <3>5. 0 \notin 1..nextUid
      BY <1>1
    <3> QED BY <1>1, <1>5, <3>2, <3>4, <3>5 DEF Ended
  <2>2. CASE ~acts
    <3>1. UNCHANGED <<objects, deleting, nextUid>>
      BY <2>2 DEF DeleteObject, stored
    <3> QED BY <1>1, <1>4, <1>5, <2>2, <3>1 DEF Ended
  <2> QED BY <2>1, <2>2
<1>7. ASSUME NEW new, Update(r, new), Same(mid, new) PROVE EndsInv'
  <2>1. IsRequest(new) /\ Ended(new, objects', deleting', nextUid')
    BY <1>5, <1>6, <1>7 DEF Same, IsRequest, Ended
  <2> QED BY <1>2, <1>7, <2>1, EndsReplaced
<1>8. CASE TriesAgain(r, o)
  <2>1. Update(r, [mid EXCEPT !.tries = @ + 1, !.quiet = FALSE])
    BY <1>3, <1>8, Zenon DEF DeleteObject, Again
  <2> QED BY <1>5, <1>7, <2>1, SameAgain
<1>9. CASE ~TriesAgain(r, o)
  <2>1. PICK quiet : quiet = (mid.quiet /\ o = "answered")
    OBVIOUS
  <2>2. PICK code : code = CASE o = "denied" -> 403
                             [] o \in {"lost", "transient"} -> 500
                             [] OTHER -> DeleteAnswer(r, objects[q.name] # 0)
    OBVIOUS
  <2>3. PICK new : new = [mid EXCEPT !.pc = "done", !.tries = 0, !.quiet = quiet, !.answer = code]
    OBVIOUS
  <2>4. Update(r, new)
    BY <1>3, <1>9, <2>1, <2>2, <2>3, Zenon DEF DeleteObject
  <2>5. Same(mid, new)
    BY <1>5, <2>3 DEF IsRequest, Same
  <2> QED BY <1>7, <2>4, <2>5
<1> QED BY <1>8, <1>9

(* Every other step of a request reads.                                        *)
LEMMA ReadEnds ==
  ASSUME EndsInv, NEW r \in Requests, Others,
         \/ ValidateProvider(r) \/ CheckCapacity(r) \/ ListPods(r) \/ ReviewsDone(r) \/ ListsDone(r)
         \/ \E o \in Outcomes :
              \/ Lookup(r, o) \/ ReadLog(r, o) \/ ReadEvents(r, o) \/ ListCluster(r, o) \/ ListNamespaces(r, o)
              \/ \E ns \in Namespaces : ReviewAccess(r, ns, o) \/ ListNamespace(r, ns, o)
  PROVE  EndsInv'
<1> DEFINE q == req[r]
<1>1. IsRequest(q)
  BY DEF EndsInv
<1>2. StoreKeeps
  BY NoStoreKeeps DEF Others, stored
<1>3. CASE Again(r, q)
  BY <1>1, <1>2, <1>3, SameAgain, SameKept DEF Again
<1>4. ASSUME NEW pc, Goto(r, pc) PROVE EndsInv'
  BY <1>1, <1>2, <1>4, SameGoto, SameKept DEF Goto
<1>5. ASSUME NEW code, Answer(r, code) PROVE EndsInv'
  BY <1>1, <1>2, <1>5, SameAnswer, SameKept DEF Answer
<1>6. ASSUME NEW pc, NEW quiet, NEW todo, NEW allowed, NEW shown, NEW new, Update(r, new),
             \/ new = [q EXCEPT !.pc = pc, !.todo = todo]
             \/ new = [q EXCEPT !.todo = todo, !.quiet = quiet, !.allowed = allowed]
             \/ new = [q EXCEPT !.todo = todo, !.quiet = quiet, !.shown = shown]
      PROVE  EndsInv'
  <2>1. Same(q, new)
    BY <1>1, <1>6 DEF IsRequest, Same
  <2> QED BY <1>2, <1>6, <2>1, SameKept
<1>7. CASE ValidateProvider(r) \/ CheckCapacity(r) \/ ListPods(r) \/ ListsDone(r)
  BY <1>4, <1>5, <1>7, Zenon DEF ValidateProvider, CheckCapacity, ListPods, ListsDone
<1>8. CASE ReviewsDone(r)
  BY <1>5, <1>6, <1>8, Zenon DEF ReviewsDone
<1>9. ASSUME NEW o, Lookup(r, o) \/ ReadLog(r, o) \/ ReadEvents(r, o) PROVE EndsInv'
  BY <1>3, <1>4, <1>5, <1>9, Zenon DEF Lookup, ReadLog, ReadEvents
<1>10. ASSUME NEW o, ListCluster(r, o) PROVE EndsInv'
  <2>1. \/ Again(r, q) \/ Goto(r, "namespaces")
        \/ \E quiet, shown :
             Update(r, [q EXCEPT !.pc = "done", !.answer = 200, !.tries = 0, !.quiet = quiet, !.shown = shown])
    BY <1>10, Zenon DEF ListCluster
  <2>2. ASSUME NEW quiet, NEW shown,
               Update(r, [q EXCEPT !.pc = "done", !.answer = 200, !.tries = 0, !.quiet = quiet, !.shown = shown])
        PROVE  EndsInv'
    <3>1. PICK new : new = [q EXCEPT !.pc = "done", !.answer = 200, !.tries = 0, !.quiet = quiet, !.shown = shown]
      OBVIOUS
    <3>2. Same(q, new)
      BY <1>1, <3>1 DEF IsRequest, Same
    <3> QED BY <1>2, <2>2, <3>1, <3>2, SameKept
  <2> QED BY <1>3, <1>4, <2>1, <2>2
<1>11. ASSUME NEW o, ListNamespaces(r, o) PROVE EndsInv'
  <2>1. CASE Update(r, [q EXCEPT !.pc = "done", !.answer = 200, !.tries = 0, !.quiet = FALSE])
    <3>1. PICK new : new = [q EXCEPT !.pc = "done", !.answer = 200, !.tries = 0, !.quiet = FALSE]
      OBVIOUS
    <3>2. Same(q, new)
      BY <1>1, <3>1 DEF IsRequest, Same
    <3> QED BY <1>2, <2>1, <3>1, <3>2, SameKept
  <2>2. CASE Update(r, [q EXCEPT !.pc = "reviews", !.tries = 0, !.todo = Namespaces])
    <3>1. PICK new : new = [q EXCEPT !.pc = "reviews", !.tries = 0, !.todo = Namespaces]
      OBVIOUS
    <3>2. Same(q, new)
      BY <1>1, <3>1 DEF IsRequest, Same
    <3> QED BY <1>2, <2>2, <3>1, <3>2, SameKept
  <2> QED BY <1>3, <1>11, <2>1, <2>2, Zenon DEF ListNamespaces
<1>12. ASSUME NEW o, NEW ns \in Namespaces, ReviewAccess(r, ns, o) \/ ListNamespace(r, ns, o) PROVE EndsInv'
  <2>1. PICK todo, quiet, allowed, shown :
          \/ Update(r, [q EXCEPT !.todo = todo, !.quiet = quiet, !.allowed = allowed])
          \/ Update(r, [q EXCEPT !.todo = todo, !.quiet = quiet, !.shown = shown])
    BY <1>12, Zenon DEF ReviewAccess, ListNamespace
  <2> QED BY <1>6, <2>1, Zenon
<1> QED BY <1>7, <1>8, <1>9, <1>10, <1>11, <1>12

(* What others do is noticed, and leaves the dead dead.                        *)
LEMMA NoticedEnds ==
  ASSUME EndsInv, StoreKeeps,
         req' = Noticed \/ \E now : req' = [r \in Requests |-> [Noticed[r] EXCEPT !.seen = @ \cup now]]
  PROVE  EndsInv'
<1>1. req' = [r \in Requests |-> req'[r]]
  BY DEF Noticed
<1>2. ASSUME NEW r \in Requests
      PROVE  IsRequest(req'[r]) /\ Ended(req'[r], objects', deleting', nextUid')
  <2>1. IsRequest(req[r]) /\ Ended(req[r], objects, deleting, nextUid)
    BY DEF EndsInv
  <2>2. PICK q : q = req[r]
    OBVIOUS
  <2>3. PICK new : new = req'[r]
    OBVIOUS
  <2>4. Same(q, new)
    <3>1. CASE req' = Noticed
      BY <2>1, <2>2, <2>3, <3>1 DEF Noticed, IsRequest, Same
    <3>2. CASE \E now : req' = [s \in Requests |-> [Noticed[s] EXCEPT !.seen = @ \cup now]]
      <4>1. PICK now : req' = [s \in Requests |-> [Noticed[s] EXCEPT !.seen = @ \cup now]]
        BY <3>2
      <4>2. PICK mid : mid = [q EXCEPT !.quiet = FALSE]
        OBVIOUS
      <4>3. new = [mid EXCEPT !.seen = @ \cup now]
        BY <2>2, <2>3, <4>1, <4>2 DEF Noticed
      <4> QED BY <2>1, <2>2, <4>2, <4>3 DEF IsRequest, Same
    <3> QED BY <3>1, <3>2
  <2>5. Ended(q, objects', deleting', nextUid')
    BY <2>1, <2>2 DEF StoreKeeps
  <2>6. IsRequest(new) /\ Ended(new, objects', deleting', nextUid')
    BY <2>1, <2>2, <2>4, <2>5 DEF Same, IsRequest, Ended
  <2> QED BY <2>3, <2>6
<1> QED BY <1>1, <1>2 DEF EndsInv, StoreKeeps

LEMMA EndsKept == ASSUME EndsInv, [Next]_vars PROVE EndsInv'
<1>1. CASE UNCHANGED vars
  BY <1>1 DEF vars, EndsInv, Ended, IsRequest
<1>2. CASE Environment
  <2>1. ASSUME NEW n \in Names, OthersCreate(n) \/ OthersDelete(n) PROVE EndsInv'
    <3>1. StoreKeeps
      BY <2>1, StoredKeeps, MarkedKeeps DEF OthersCreate, OthersDelete
    <3> QED BY <2>1, <3>1, NoticedEnds DEF OthersCreate, OthersDelete
  <2>2. ASSUME NEW ns \in Namespaces, ChangeRights(ns) PROVE EndsInv'
    <3>1. StoreKeeps
      BY <2>2, NoStoreKeeps DEF ChangeRights, stored
    <3>2. \E now : req' = [r \in Requests |-> [Noticed[r] EXCEPT !.seen = @ \cup now]]
      BY <2>2, Zenon DEF ChangeRights
    <3> QED BY <3>1, <3>2, NoticedEnds
  <2>3. ASSUME NEW n \in Names, PutFinalizer(n) \/ TakeFinalizer(n) PROVE EndsInv'
    <3>1. StoreKeeps /\ req' = req
      BY <2>3, ShimKeeps DEF PutFinalizer, TakeFinalizer
    <3>2. ASSUME NEW r \in Requests
          PROVE  IsRequest(req[r]) /\ Ended(req[r], objects', deleting', nextUid')
      <4>1. IsRequest(req[r]) /\ Ended(req[r], objects, deleting, nextUid)
        BY DEF EndsInv
      <4>2. PICK q : q = req[r]
        OBVIOUS
      <4>3. Ended(q, objects', deleting', nextUid')
        BY <3>1, <4>1, <4>2 DEF StoreKeeps
      <4> QED BY <4>1, <4>2, <4>3
    <3> QED BY <3>1, <3>2 DEF EndsInv, StoreKeeps
  <2> QED BY <1>2, <2>1, <2>2, <2>3, SubmitEnds DEF Environment
<1>3. ASSUME NEW r \in Requests, Step(r) PROVE EndsInv'
  <2>1. CASE \E o \in Outcomes : CreateObject(r, o) \/ DeleteObject(r, o)
    BY <2>1, CreateEnds, DeleteEnds
  <2>2. CASE ~\E o \in Outcomes : CreateObject(r, o) \/ DeleteObject(r, o)
    <3>1. Others
      BY <1>3, <2>2, Zenon DEF Step, ValidateProvider, CheckCapacity, ListPods, ReviewsDone, ListsDone, Lookup,
         ReadLog, ReadEvents, ListCluster, ListNamespaces, ReviewAccess, ListNamespace
    <3> QED BY <1>3, <2>2, <3>1, ReadEnds, Zenon DEF Step
  <2> QED BY <2>1, <2>2
<1> QED BY <1>1, <1>2, <1>3 DEF Next

(* Success is told to a request that earned it, and what a request deleted is  *)
(* Terminating for as long as it is there: withRetry around a POST that may    *)
(* have lost its answer, and a DELETE by name that others race, in             *)
(* routes/deployments.ts and services/kubernetes.ts.                           *)
THEOREM Earned == Spec => []SuccessIsHonest
<1>1. Init => RequestsInv /\ EndsInv
  BY RequestsInit, EndsInit
<1>2. RequestsInv /\ EndsInv /\ [Next]_vars => RequestsInv' /\ EndsInv'
  BY RequestsKept, EndsKept
<1>3. RequestsInv /\ EndsInv => SuccessIsHonest
  BY DEF RequestsInv, Good, Honest, EndsInv, Ended, SuccessIsHonest
<1> QED BY <1>1, <1>2, <1>3, PTL DEF Spec

-----------------------------------------------------------------------------
(* The lists.  What a list request may show at each of its places: nothing     *)
(* before it has read; then the namespaces it has passed which the user can    *)
(* list, exactly those as long as it is quiet; and never one the user could    *)
(* not list at some time since it arrived.                                     *)
Listing(q) == q.op \in {"list", "listOne"}
Asked(q) == IF q.op = "list" THEN Namespaces ELSE {NamespaceOf[q.name]}

(* With a token, or the right to list the whole cluster, a list gets them all. *)
Entitled(q, rights) == q.token = TRUE \/ rights = Namespaces

Progress(q, rights) ==
  /\ q.pc \in {"cluster", "namespaces", "reviews", "lists", "done"}
  /\ q.pc # "done" => q.answer = 0
  /\ q.pc \in {"cluster", "namespaces", "reviews"} => q.op = "list" /\ q.shown = {}
  /\ q.pc \in {"cluster", "namespaces"} => q.allowed = {}
  /\ q.pc = "reviews" => /\ q.todo \subseteq Namespaces /\ q.allowed \subseteq Namespaces
                         /\ q.quiet = TRUE => q.allowed = rights \ q.todo
  /\ q.pc = "lists" => /\ q.todo \subseteq Asked(q)
                       /\ q.quiet = TRUE => q.shown = (rights \cap Asked(q)) \ q.todo
  /\ q.pc = "done" /\ q.quiet = TRUE /\ Entitled(q, rights) => q.shown = rights \cap Asked(q)

ListGood(q, rights) ==
  IsRequest(q) /\ (Listing(q) => /\ rights \subseteq q.seen /\ q.shown \subseteq q.seen
                                 /\ Progress(q, rights) /\ q.quiet \in BOOLEAN)

ListInv ==
  /\ readable \subseteq Namespaces
  /\ req = [r \in Requests |-> req[r]]
  /\ \A r \in Requests : ListGood(req[r], readable)

LEMMA ListInit == Init => ListInv
  BY DEF Init, ListInv, ListGood, Listing, IsRequest, Blank

LEMMA ListReplaced ==
  ASSUME ListInv, NEW r \in Requests, NEW new, Update(r, new), ListGood(new, readable), readable' = readable
  PROVE  ListInv'
  BY DEF ListInv, Update, ListGood, Listing, IsRequest, Progress, Asked, Entitled

(* Of the other requests nothing is asked here.                                *)
LEMMA NoList ==
  ASSUME NEW q, NEW rights, ListGood(q, rights), NEW new, IsRequest(new), new.op = q.op,
         q.pc \notin {"cluster", "namespaces", "reviews", "lists", "done"}
  PROVE  ListGood(new, rights)
  BY DEF ListGood, Listing, Progress

(* A step of a list keeps what the request asked for and has seen.             *)
Kept(q, new) == IsRequest(new) /\ new.op = q.op /\ new.name = q.name /\ new.seen = q.seen
                /\ new.token = q.token

LEMMA ListGoodAgain ==
  ASSUME NEW q, NEW rights, ListGood(q, rights)
  PROVE  ListGood([q EXCEPT !.tries = @ + 1, !.quiet = FALSE], rights)
<1>1. PICK new : new = [q EXCEPT !.tries = @ + 1, !.quiet = FALSE]
  OBVIOUS
<1>2. /\ Kept(q, new) /\ new.pc = q.pc /\ new.answer = q.answer /\ new.shown = q.shown
      /\ new.allowed = q.allowed /\ new.todo = q.todo /\ new.quiet = FALSE
  BY <1>1 DEF ListGood, IsRequest, Kept
<1>3. ListGood(new, rights)
  BY <1>2 DEF ListGood, Kept, Listing, Progress, Asked, Entitled
<1> QED BY <1>1, <1>3

LEMMA ListGoodGoto ==
  ASSUME NEW q, NEW pc, NEW rights, ListGood(q, rights),
         Listing(q) => q.pc = "cluster" /\ pc = "namespaces"
  PROVE  ListGood([q EXCEPT !.pc = pc, !.tries = 0], rights)
<1>1. PICK new : new = [q EXCEPT !.pc = pc, !.tries = 0]
  OBVIOUS
<1>2. /\ Kept(q, new) /\ new.pc = pc /\ new.answer = q.answer /\ new.shown = q.shown
      /\ new.allowed = q.allowed /\ new.todo = q.todo /\ new.quiet = q.quiet
  BY <1>1 DEF ListGood, IsRequest, Kept
<1>3. ListGood(new, rights)
  BY <1>2 DEF ListGood, Kept, Listing, Progress, Asked, Entitled
<1> QED BY <1>1, <1>3

LEMMA ListGoodAnswer ==
  ASSUME NEW q, NEW code, NEW rights, ListGood(q, rights),
         Listing(q) /\ q.quiet = TRUE => q.shown = rights \cap Asked(q)
  PROVE  ListGood([q EXCEPT !.pc = "done", !.answer = code, !.tries = 0], rights)
<1>1. PICK new : new = [q EXCEPT !.pc = "done", !.answer = code, !.tries = 0]
  OBVIOUS
<1>2. Kept(q, new) /\ new.pc = "done" /\ new.shown = q.shown /\ new.quiet = q.quiet
  BY <1>1 DEF ListGood, IsRequest, Kept
<1>3. ListGood(new, rights)
  BY <1>2 DEF ListGood, Kept, Listing, Progress, Asked, Entitled
<1> QED BY <1>1, <1>3

(* The list of the whole cluster: refused, it goes the way round; answered, it *)
(* is all there is to list; failed, it is empty and no longer quiet.           *)
LEMMA ListClusterKept ==
  ASSUME ListInv, NEW r \in Requests, NEW o \in Outcomes, ListCluster(r, o) PROVE ListInv'
<1> DEFINE q == req[r]
<1>1. /\ ListGood(q, readable) /\ IsRequest(q) /\ q.pc = "cluster" /\ readable' = readable
      /\ readable \subseteq Namespaces
  BY DEF ListInv, ListGood, ListCluster, Others
<1>2. CASE Again(r, q)
  BY <1>1, <1>2, ListGoodAgain, ListReplaced DEF Again
<1>3. CASE Goto(r, "namespaces")
  BY <1>1, <1>3, ListGoodGoto, ListReplaced DEF Goto
<1>4. ASSUME ~TriesAgain(r, o),
             ~((o = "denied" \/ (o = "answered" /\ readable # Namespaces)) /\ q.token)
      PROVE  ListInv'
  <2>1. PICK quiet \in BOOLEAN : quiet = (q.quiet /\ o = "answered")
    OBVIOUS
  <2>2. PICK shown : shown = IF o = "answered" /\ ~(o = "denied" \/ (o = "answered" /\ readable # Namespaces))
                             THEN Namespaces ELSE {}
    OBVIOUS
  <2>3. PICK new : new = [q EXCEPT !.pc = "done", !.answer = 200, !.tries = 0,
                            !.quiet = quiet, !.shown = shown]
    OBVIOUS
  <2>4. Update(r, new)
    BY <1>4, <2>1, <2>2, <2>3, Zenon DEF ListCluster
  <2>5. Kept(q, new) /\ new.pc = "done" /\ new.shown = shown /\ new.quiet = quiet
    BY <1>1, <2>3 DEF IsRequest, Kept
  <2>6. o = "answered" /\ readable = Namespaces => shown = Namespaces
    BY <2>2
  <2>7. quiet = TRUE => o = "answered"
    BY <2>1
  <2>8. shown = {} \/ (shown = Namespaces /\ readable = Namespaces)
    BY <2>2
  <2>9. Listing(q) => q.op = "list" /\ readable \subseteq q.seen
    BY <1>1 DEF ListGood, Progress
  <2>10. ListGood(new, readable)
    <3>1. Listing(new) => /\ Asked(new) = Namespaces /\ readable \subseteq new.seen
                          /\ new.shown \subseteq new.seen
      BY <2>5, <2>8, <2>9 DEF Kept, Listing, Asked
    <3>2. quiet = TRUE /\ Entitled(new, readable) => new.shown = readable \cap Namespaces
      <4>1. o = "answered" /\ q.token = TRUE => readable = Namespaces
        BY <1>4
      <4> QED BY <2>5, <2>6, <2>7, <4>1 DEF Entitled, Kept
    <3> QED BY <2>5, <3>1, <3>2 DEF ListGood, Kept, Progress
  <2> QED BY <1>1, <2>4, <2>10, ListReplaced
<1> QED BY <1>2, <1>3, <1>4 DEF ListCluster

LEMMA ListNamespacesKept ==
  ASSUME ListInv, NEW r \in Requests, NEW o \in Outcomes, ListNamespaces(r, o) PROVE ListInv'
<1> DEFINE q == req[r]
<1>1. /\ ListGood(q, readable) /\ IsRequest(q) /\ q.pc = "namespaces" /\ readable' = readable
      /\ readable \subseteq Namespaces
  BY DEF ListInv, ListGood, ListNamespaces, Others
<1>2. CASE Again(r, q)
  BY <1>1, <1>2, ListGoodAgain, ListReplaced DEF Again
<1>3. CASE Update(r, [q EXCEPT !.pc = "done", !.answer = 200, !.tries = 0, !.quiet = FALSE])
  <2>1. PICK new : new = [q EXCEPT !.pc = "done", !.answer = 200, !.tries = 0, !.quiet = FALSE]
    OBVIOUS
  <2>2. Kept(q, new) /\ new.pc = "done" /\ new.shown = q.shown /\ new.quiet = FALSE
    BY <1>1, <2>1 DEF IsRequest, Kept
  <2>3. ListGood(new, readable)
    BY <1>1, <2>2 DEF ListGood, Kept, Listing, Progress, Entitled
  <2> QED BY <1>1, <1>3, <2>1, <2>3, ListReplaced
<1>4. CASE Update(r, [q EXCEPT !.pc = "reviews", !.tries = 0, !.todo = Namespaces])
  <2>1. PICK new : new = [q EXCEPT !.pc = "reviews", !.tries = 0, !.todo = Namespaces]
    OBVIOUS
  <2>2. /\ Kept(q, new) /\ new.pc = "reviews" /\ new.answer = q.answer /\ new.shown = q.shown
        /\ new.allowed = q.allowed /\ new.todo = Namespaces /\ new.quiet = q.quiet
    BY <1>1, <2>1 DEF IsRequest, Kept
  <2>3. Listing(q) => /\ q.answer = 0 /\ q.op = "list" /\ q.shown = {} /\ q.allowed = {}
                      /\ readable \subseteq q.seen /\ q.quiet \in BOOLEAN
    BY <1>1 DEF ListGood, Progress
  <2>4. readable \ Namespaces = {}
    BY <1>1
  <2>5. ListGood(new, readable)
    BY <2>2, <2>3, <2>4 DEF ListGood, Kept, Listing, Progress, Entitled
  <2> QED BY <1>1, <1>4, <2>1, <2>5, ListReplaced
<1> QED BY <1>2, <1>3, <1>4 DEF ListNamespaces

(* A review takes a namespace off the list of those to do, and puts it on that *)
(* of the allowed when the user may list it.                                   *)
LEMMA ReviewKept ==
  ASSUME ListInv, NEW r \in Requests, NEW ns \in Namespaces, NEW o \in Outcomes, ReviewAccess(r, ns, o)
  PROVE  ListInv'
<1> DEFINE q == req[r]
<1>1. /\ ListGood(q, readable) /\ IsRequest(q) /\ q.pc = "reviews" /\ ns \in q.todo
      /\ readable' = readable /\ readable \subseteq Namespaces
  BY DEF ListInv, ListGood, ReviewAccess, Others
<1>2. PICK quiet \in BOOLEAN : quiet = (q.quiet /\ o = "answered")
  OBVIOUS
<1>3. PICK allowed : allowed = IF o = "answered" /\ ns \in readable THEN q.allowed \cup {ns} ELSE q.allowed
  OBVIOUS
<1>4. PICK new : new = [q EXCEPT !.todo = q.todo \ {ns}, !.quiet = quiet, !.allowed = allowed]
  OBVIOUS
<1>5. Update(r, new)
  BY <1>2, <1>3, <1>4, Zenon DEF ReviewAccess
<1>6. /\ Kept(q, new) /\ new.pc = "reviews" /\ new.answer = q.answer /\ new.shown = q.shown
      /\ new.allowed = allowed /\ new.todo = q.todo \ {ns} /\ new.quiet = quiet
  BY <1>1, <1>4 DEF IsRequest, Kept
<1>7. ASSUME Listing(q)
      PROVE  /\ new.todo \subseteq Namespaces /\ allowed \subseteq Namespaces
             /\ quiet = TRUE => allowed = readable \ new.todo
  <2>1. /\ q.todo \subseteq Namespaces /\ q.allowed \subseteq Namespaces
        /\ q.quiet = TRUE => q.allowed = readable \ q.todo
        /\ q.quiet \in BOOLEAN
    BY <1>1, <1>7 DEF ListGood, Progress
  <2>2. quiet = TRUE => q.quiet = TRUE /\ o = "answered"
    BY <1>2, <2>1
  <2>3. allowed \subseteq Namespaces
    BY <1>3, <2>1
  <2>4. ASSUME quiet = TRUE PROVE allowed = readable \ new.todo
    <3>1. q.allowed = readable \ q.todo /\ o = "answered"
      BY <2>1, <2>2, <2>4
    <3>2. CASE ns \in readable
      <4>1. allowed = q.allowed \cup {ns}
        BY <1>3, <3>1, <3>2
      <4> QED BY <1>1, <1>6, <3>1, <3>2, <4>1
    <3>3. CASE ns \notin readable
      <4>1. allowed = q.allowed
        BY <1>3, <3>3
      <4> QED BY <1>1, <1>6, <3>1, <3>3, <4>1
    <3> QED BY <3>2, <3>3
  <2> QED BY <1>6, <2>1, <2>3, <2>4
<1>8. ListGood(new, readable)
  <2>1. ASSUME Listing(new)
        PROVE  /\ readable \subseteq new.seen /\ new.shown \subseteq new.seen
               /\ new.answer = 0 /\ new.op = "list" /\ new.shown = {}
    BY <1>1, <1>6, <2>1 DEF ListGood, Kept, Listing, Progress, Entitled
  <2>2. Listing(new) => Listing(q)
    BY <1>6 DEF Kept, Listing
  <2> QED BY <1>6, <1>7, <2>1, <2>2 DEF ListGood, Kept, Progress, Entitled
<1> QED BY <1>1, <1>5, <1>8, ListReplaced

LEMMA ReviewsDoneKept == ASSUME ListInv, NEW r \in Requests, ReviewsDone(r) PROVE ListInv'
<1> DEFINE q == req[r]
<1>1. /\ ListGood(q, readable) /\ IsRequest(q) /\ q.pc = "reviews" /\ q.todo = {}
      /\ readable' = readable /\ readable \subseteq Namespaces
  BY DEF ListInv, ListGood, ReviewsDone, Others
<1>2. Listing(q) => /\ q.op = "list" /\ q.shown = {} /\ q.answer = 0 /\ q.allowed \subseteq Namespaces
                    /\ q.quiet = TRUE => q.allowed = readable
                    /\ readable \subseteq q.seen /\ q.quiet \in BOOLEAN
  BY <1>1 DEF ListGood, Progress
<1>3. CASE q.allowed = {} /\ Answer(r, 200)
  <2>1. Listing(q) /\ q.quiet = TRUE => q.shown = readable \cap Asked(q)
    BY <1>2, <1>3
  <2> QED BY <1>1, <1>3, <2>1, ListGoodAnswer, ListReplaced DEF Answer
<1>4. CASE Update(r, [q EXCEPT !.pc = "lists", !.todo = q.allowed])
  <2>1. PICK new : new = [q EXCEPT !.pc = "lists", !.todo = q.allowed]
    OBVIOUS
  <2>2. /\ Kept(q, new) /\ new.pc = "lists" /\ new.answer = q.answer /\ new.shown = q.shown
        /\ new.todo = q.allowed /\ new.quiet = q.quiet
    BY <1>1, <2>1 DEF IsRequest, Kept
  <2>3. ListGood(new, readable)
    <3>1. Listing(new) => Listing(q) /\ Asked(new) = Namespaces
      BY <1>2, <2>2 DEF Kept, Listing, Asked
    <3> QED BY <1>2, <2>2, <3>1 DEF ListGood, Kept, Progress, Entitled
  <2> QED BY <1>1, <1>4, <2>1, <2>3, ListReplaced
<1> QED BY <1>3, <1>4 DEF ReviewsDone

LEMMA ListNamespaceKept ==
  ASSUME ListInv, NEW r \in Requests, NEW ns \in Namespaces, NEW o \in Outcomes, ListNamespace(r, ns, o)
  PROVE  ListInv'
<1> DEFINE q == req[r]
<1>1. /\ ListGood(q, readable) /\ IsRequest(q) /\ q.pc = "lists" /\ ns \in q.todo
      /\ readable' = readable /\ readable \subseteq Namespaces
  BY DEF ListInv, ListGood, ListNamespace, Others
<1>2. PICK quiet \in BOOLEAN : quiet = (q.quiet /\ o = "answered")
  OBVIOUS
<1>3. PICK shown : shown = IF o = "answered" /\ ns \in readable THEN q.shown \cup {ns} ELSE q.shown
  OBVIOUS
<1>4. PICK new : new = [q EXCEPT !.todo = q.todo \ {ns}, !.quiet = quiet, !.shown = shown]
  OBVIOUS
<1>5. Update(r, new)
  BY <1>2, <1>3, <1>4, Zenon DEF ListNamespace, Listable
<1>6. /\ Kept(q, new) /\ new.pc = "lists" /\ new.answer = q.answer /\ new.shown = shown
      /\ new.todo = q.todo \ {ns} /\ new.quiet = quiet
  BY <1>1, <1>4 DEF IsRequest, Kept
<1>7. ASSUME Listing(q)
      PROVE  /\ new.todo \subseteq Asked(q) /\ shown \subseteq q.seen
             /\ quiet = TRUE => shown = (readable \cap Asked(q)) \ new.todo
  <2>1. /\ q.todo \subseteq Asked(q) /\ readable \subseteq q.seen /\ q.shown \subseteq q.seen
        /\ q.quiet = TRUE => q.shown = (readable \cap Asked(q)) \ q.todo
        /\ q.quiet \in BOOLEAN
    BY <1>1, <1>7 DEF ListGood, Progress
  <2>2. quiet = TRUE => q.quiet = TRUE /\ o = "answered"
    BY <1>2, <2>1
  <2>3. shown \subseteq q.seen
    BY <1>3, <2>1
  <2>4. ASSUME quiet = TRUE PROVE shown = (readable \cap Asked(q)) \ new.todo
    <3>1. q.shown = (readable \cap Asked(q)) \ q.todo /\ o = "answered"
      BY <2>1, <2>2, <2>4
    <3>2. CASE ns \in readable
      <4>1. shown = q.shown \cup {ns} /\ ns \in Asked(q)
        BY <1>1, <1>3, <2>1, <3>1, <3>2
      <4> QED BY <1>1, <1>6, <3>1, <3>2, <4>1
    <3>3. CASE ns \notin readable
      <4>1. shown = q.shown
        BY <1>3, <3>3
      <4> QED BY <1>1, <1>6, <3>1, <3>3, <4>1
    <3> QED BY <3>2, <3>3
  <2> QED BY <1>6, <2>1, <2>3, <2>4
<1>8. ListGood(new, readable)
  <2>1. ASSUME Listing(new)
        PROVE  Listing(q) /\ Asked(new) = Asked(q) /\ new.seen = q.seen /\ new.answer = 0
               /\ readable \subseteq new.seen
    BY <1>1, <1>6, <2>1 DEF ListGood, Kept, Listing, Progress, Asked, Entitled
  <2> QED BY <1>6, <1>7, <2>1 DEF ListGood, Kept, Progress, Entitled
<1> QED BY <1>1, <1>5, <1>8, ListReplaced

LEMMA ListsDoneKept == ASSUME ListInv, NEW r \in Requests, ListsDone(r) PROVE ListInv'
<1> DEFINE q == req[r]
<1>1. ListGood(q, readable) /\ q.pc = "lists" /\ q.todo = {} /\ readable' = readable /\ Answer(r, 200)
  BY DEF ListInv, ListsDone, Others
<1>2. Listing(q) /\ q.quiet = TRUE => q.shown = readable \cap Asked(q)
  BY <1>1 DEF ListGood, Progress
<1> QED BY <1>1, <1>2, ListGoodAnswer, ListReplaced DEF Answer

(* A list request begins with nothing shown, all the namespaces it asks for    *)
(* still to do, and the rights of the moment seen.                             *)
LEMMA ListSubmitKept ==
  ASSUME ListInv, NEW r \in Requests, NEW op \in Ops, NEW n \in Names, NEW token \in BOOLEAN,
         Submit(r, op, n, token)
  PROVE  ListInv'
<1>1. readable \subseteq Namespaces /\ readable' = readable
  BY DEF ListInv, Submit, Others
<1>2. PICK todo : todo = IF op = "listOne" THEN {NamespaceOf[n]} ELSE {}
  OBVIOUS
<1>3. PICK pc : pc = CASE op = "create"  -> "provider"
                       [] op = "list"    -> "cluster"
                       [] op = "listOne" -> "lists"
                       [] OTHER          -> "lookup"
  OBVIOUS
<1>4. PICK new : new = [Blank EXCEPT !.op = op, !.name = n, !.token = token, !.seen = readable, !.todo = todo, !.pc = pc]
  OBVIOUS
<1>5. Update(r, new)
  BY <1>2, <1>3, <1>4, Zenon DEF Submit
<1>6. /\ IsRequest(new) /\ new.op = op /\ new.name = n /\ new.seen = readable /\ new.todo = todo
      /\ new.pc = pc /\ new.answer = 0 /\ new.shown = {} /\ new.allowed = {} /\ new.quiet = TRUE
  BY <1>4 DEF Blank, IsRequest
<1>7. Listing(new) => \/ op = "list" /\ pc = "cluster"
                      \/ op = "listOne" /\ pc = "lists" /\ todo = {NamespaceOf[n]}
  BY <1>2, <1>3, <1>6 DEF Listing
<1>8. ListGood(new, readable)
  BY <1>6, <1>7 DEF ListGood, Listing, Progress, Asked, Entitled
<1> QED BY <1>1, <1>5, <1>8, ListReplaced

(* The steps of the requests that list nothing: their place is none of a list. *)
LEMMA ElsewhereKept ==
  ASSUME ListInv, NEW r \in Requests, NEW new, Update(r, new), readable' = readable,
         IsRequest(req[r]) => IsRequest(new) /\ new.op = req[r].op,
         req[r].pc \notin {"cluster", "namespaces", "reviews", "lists", "done"}
  PROVE  ListInv'
<1>1. ListGood(req[r], readable) /\ IsRequest(req[r])
  BY DEF ListInv, ListGood
<1> QED BY <1>1, NoList, ListReplaced

LEMMA SameRequest == ASSUME NEW q, NEW new, IsRequest(q), DOMAIN new = DOMAIN q, new.op = q.op
                     PROVE  IsRequest(new) /\ new.op = q.op
  BY DEF IsRequest

LEMMA AgainIsOne == ASSUME NEW q, IsRequest(q)
                    PROVE  /\ IsRequest([q EXCEPT !.tries = @ + 1, !.quiet = FALSE])
                           /\ [q EXCEPT !.tries = @ + 1, !.quiet = FALSE].op = q.op
  BY DEF IsRequest

LEMMA GotoIsOne == ASSUME NEW q, NEW pc, IsRequest(q)
                   PROVE  /\ IsRequest([q EXCEPT !.pc = pc, !.tries = 0])
                          /\ [q EXCEPT !.pc = pc, !.tries = 0].op = q.op
  BY DEF IsRequest

LEMMA AnswerIsOne == ASSUME NEW q, NEW code, IsRequest(q)
                     PROVE  /\ IsRequest([q EXCEPT !.pc = "done", !.answer = code, !.tries = 0])
                            /\ [q EXCEPT !.pc = "done", !.answer = code, !.tries = 0].op = q.op
  BY DEF IsRequest

LEMMA ElsewhereGoes ==
  ASSUME ListInv, NEW r \in Requests, readable' = readable,
         req[r].pc \notin {"cluster", "namespaces", "reviews", "lists", "done"},
         \/ Again(r, req[r])
         \/ \E pc : Goto(r, pc)
         \/ \E code : Answer(r, code)
  PROVE  ListInv'
<1>1. CASE Again(r, req[r])
  BY <1>1, AgainIsOne, ElsewhereKept DEF Again
<1>2. ASSUME NEW pc, Goto(r, pc) PROVE ListInv'
  BY <1>2, GotoIsOne, ElsewhereKept DEF Goto
<1>3. ASSUME NEW code, Answer(r, code) PROVE ListInv'
  BY <1>3, AnswerIsOne, ElsewhereKept DEF Answer
<1> QED BY <1>1, <1>2, <1>3

LEMMA ListCreateKept ==
  ASSUME ListInv, NEW r \in Requests, NEW o \in Outcomes, CreateObject(r, o) PROVE ListInv'
<1> DEFINE q == req[r]
           free == objects[q.name] = 0
           acts == o \in {"answered", "lost"} /\ free
<1>1. q.pc = "send" /\ readable' = readable
  BY DEF CreateObject
<1>2. PICK mid : mid = IF acts THEN [q EXCEPT !.made = @ \cup {nextUid + 1}] ELSE q
  OBVIOUS
<1>3. IsRequest(q) => IsRequest(mid) /\ mid.op = q.op
  <2>1. CASE mid = q
    BY <2>1
  <2>2. CASE mid = [q EXCEPT !.made = @ \cup {nextUid + 1}]
    BY <2>2 DEF IsRequest
  <2> QED BY <1>2, <2>1, <2>2
<1>4. CASE Again(r, mid)
  BY <1>1, <1>3, <1>4, AgainIsOne, ElsewhereKept DEF Again
<1>5. ASSUME ~TriesAgain(r, o) PROVE ListInv'
  <2>1. PICK quiet : quiet = (mid.quiet /\ o = "answered")
    OBVIOUS
  <2>2. PICK code : code = CASE o = "denied" -> 403
                             [] o \in {"lost", "transient"} -> 500
                             [] OTHER -> CreateAnswer(r, free)
    OBVIOUS
  <2>3. PICK new : new = [mid EXCEPT !.pc = "done", !.tries = 0, !.quiet = quiet, !.answer = code]
    OBVIOUS
  <2>4. Update(r, new)
    BY <1>2, <1>5, <2>1, <2>2, <2>3, Zenon DEF CreateObject
  <2>5. IsRequest(q) => IsRequest(new) /\ new.op = q.op
    BY <1>3, <2>3 DEF IsRequest
  <2> QED BY <1>1, <2>4, <2>5, ElsewhereKept
<1>6. TriesAgain(r, o) => Again(r, mid)
  BY <1>2, Zenon DEF CreateObject
<1> QED BY <1>4, <1>5, <1>6

LEMMA ListDeleteKept ==
  ASSUME ListInv, NEW r \in Requests, NEW o \in Outcomes, DeleteObject(r, o) PROVE ListInv'
<1> DEFINE q == req[r]
           there == objects[q.name] # 0
           acts == o \in {"answered", "lost"} /\ there
<1>1. q.pc = "send" /\ readable' = readable
  BY DEF DeleteObject
<1>2. PICK mid : mid = IF acts THEN [q EXCEPT !.removed = @ \cup {objects[q.name]}] ELSE q
  OBVIOUS
<1>3. IsRequest(q) => IsRequest(mid) /\ mid.op = q.op
  <2>1. CASE mid = q
    BY <2>1
  <2>2. CASE mid = [q EXCEPT !.removed = @ \cup {objects[q.name]}]
    BY <2>2 DEF IsRequest
  <2> QED BY <1>2, <2>1, <2>2
<1>4. CASE Again(r, mid)
  BY <1>1, <1>3, <1>4, AgainIsOne, ElsewhereKept DEF Again
<1>5. ASSUME ~TriesAgain(r, o) PROVE ListInv'
  <2>1. PICK quiet : quiet = (mid.quiet /\ o = "answered")
    OBVIOUS
  <2>2. PICK code : code = CASE o = "denied" -> 403
                             [] o \in {"lost", "transient"} -> 500
                             [] OTHER -> DeleteAnswer(r, there)
    OBVIOUS
  <2>3. PICK new : new = [mid EXCEPT !.pc = "done", !.tries = 0, !.quiet = quiet, !.answer = code]
    OBVIOUS
  <2>4. Update(r, new)
    BY <1>2, <1>5, <2>1, <2>2, <2>3, Zenon DEF DeleteObject
  <2>5. IsRequest(q) => IsRequest(new) /\ new.op = q.op
    BY <1>3, <2>3 DEF IsRequest
  <2> QED BY <1>1, <2>4, <2>5, ElsewhereKept
<1>6. TriesAgain(r, o) => Again(r, mid)
  BY <1>2, Zenon DEF DeleteObject
<1> QED BY <1>4, <1>5, <1>6

LEMMA ElsewhereStepKept ==
  ASSUME ListInv, NEW r \in Requests,
         \/ ValidateProvider(r) \/ CheckCapacity(r) \/ ListPods(r)
         \/ \E o \in Outcomes : Lookup(r, o) \/ ReadLog(r, o) \/ ReadEvents(r, o)
  PROVE  ListInv'
<1>1. CASE ValidateProvider(r)
  BY <1>1, ElsewhereGoes DEF ValidateProvider, Others
<1>2. CASE CheckCapacity(r)
  BY <1>2, ElsewhereGoes DEF CheckCapacity, Others
<1>3. CASE ListPods(r)
  BY <1>3, ElsewhereGoes DEF ListPods, Others
<1>4. ASSUME NEW o \in Outcomes, Lookup(r, o) PROVE ListInv'
  BY <1>4, ElsewhereGoes DEF Lookup, Others
<1>5. ASSUME NEW o \in Outcomes, ReadLog(r, o) PROVE ListInv'
  BY <1>5, ElsewhereGoes DEF ReadLog, Others
<1>6. ASSUME NEW o \in Outcomes, ReadEvents(r, o) PROVE ListInv'
  BY <1>6, ElsewhereGoes DEF ReadEvents, Others
<1> QED BY <1>1, <1>2, <1>3, <1>4, <1>5, <1>6

(* What others do ends the quiet of every request, and rights that are given   *)
(* meanwhile are seen by every request.                                        *)
LEMMA DisturbedIsGood ==
  ASSUME NEW q, NEW rights, ListGood(q, rights), NEW now, NEW new, IsRequest(new),
         new.op = q.op, new.name = q.name, new.token = q.token, new.pc = q.pc, new.answer = q.answer,
         new.todo = q.todo, new.allowed = q.allowed, new.shown = q.shown,
         new.quiet = FALSE, q.seen \subseteq new.seen,
         now \subseteq q.seen \/ now \subseteq new.seen
  PROVE  ListGood(new, now)
  BY DEF ListGood, Listing, Progress, Asked, Entitled

LEMMA ListOthersKept ==
  ASSUME ListInv, req' = Noticed, readable' = readable PROVE ListInv'
<1>1. /\ readable \subseteq Namespaces /\ \A r \in Requests : ListGood(req[r], readable)
  BY DEF ListInv
<1>2. req' = [r \in Requests |-> req'[r]]
  BY DEF Noticed
<1>3. ASSUME NEW r \in Requests PROVE ListGood(req'[r], readable)
  <2>1. req'[r] = [req[r] EXCEPT !.quiet = FALSE]
    BY DEF Noticed
  <2>2. ListGood(req[r], readable) /\ IsRequest(req[r])
    BY <1>1 DEF ListGood
  <2>3. /\ IsRequest(req'[r]) /\ req'[r].op = req[r].op /\ req'[r].name = req[r].name
        /\ req'[r].token = req[r].token /\ req'[r].pc = req[r].pc /\ req'[r].answer = req[r].answer /\ req'[r].todo = req[r].todo
        /\ req'[r].allowed = req[r].allowed /\ req'[r].shown = req[r].shown
        /\ req'[r].quiet = FALSE /\ req'[r].seen = req[r].seen
    BY <2>1, <2>2 DEF IsRequest
  <2>4. Listing(req[r]) => readable \subseteq req[r].seen
    BY <2>2 DEF ListGood
  <2>5. CASE Listing(req[r])
    BY <2>2, <2>3, <2>4, <2>5, DisturbedIsGood
  <2>6. CASE ~Listing(req[r])
    BY <2>3, <2>6 DEF ListGood, Listing
  <2> QED BY <2>5, <2>6
<1> QED BY <1>1, <1>2, <1>3 DEF ListInv

LEMMA ListRightsKept ==
  ASSUME ListInv, NEW ns \in Namespaces, ChangeRights(ns) PROVE ListInv'
<1>1. /\ readable \subseteq Namespaces /\ \A r \in Requests : ListGood(req[r], readable)
  BY DEF ListInv
<1>2. PICK now : now = IF ns \in readable THEN readable \ {ns} ELSE readable \cup {ns}
  OBVIOUS
<1>3. /\ readable' = now /\ now \subseteq Namespaces
      /\ req' = [r \in Requests |-> [Noticed[r] EXCEPT !.seen = @ \cup now]]
  BY <1>1, <1>2 DEF ChangeRights
<1>4. req' = [r \in Requests |-> req'[r]]
  BY <1>3
<1>5. ASSUME NEW r \in Requests PROVE ListGood(req'[r], now)
  <2>1. PICK mid : mid = [req[r] EXCEPT !.quiet = FALSE]
    OBVIOUS
  <2>2. req'[r] = [mid EXCEPT !.seen = @ \cup now]
    BY <1>3, <2>1 DEF Noticed
  <2>3. ListGood(req[r], readable) /\ IsRequest(req[r])
    BY <1>1 DEF ListGood
  <2>4. /\ IsRequest(mid) /\ mid.op = req[r].op /\ mid.name = req[r].name
        /\ mid.token = req[r].token /\ mid.pc = req[r].pc /\ mid.answer = req[r].answer /\ mid.todo = req[r].todo
        /\ mid.allowed = req[r].allowed /\ mid.shown = req[r].shown
        /\ mid.quiet = FALSE /\ mid.seen = req[r].seen
    BY <2>1, <2>3 DEF IsRequest
  <2>5. /\ IsRequest(req'[r]) /\ req'[r].op = mid.op /\ req'[r].name = mid.name
        /\ req'[r].token = mid.token /\ req'[r].pc = mid.pc /\ req'[r].answer = mid.answer /\ req'[r].todo = mid.todo
        /\ req'[r].allowed = mid.allowed /\ req'[r].shown = mid.shown
        /\ req'[r].quiet = FALSE /\ req'[r].seen = mid.seen \cup now
    BY <2>2, <2>4 DEF IsRequest
  <2>6. req[r].seen \subseteq req'[r].seen /\ now \subseteq req'[r].seen
    BY <2>4, <2>5
  <2> QED BY <2>3, <2>4, <2>5, <2>6, DisturbedIsGood
<1> QED BY <1>1, <1>3, <1>4, <1>5 DEF ListInv

LEMMA ListKept == ASSUME ListInv, [Next]_vars PROVE ListInv'
<1>1. ASSUME NEW r \in Requests, NEW op \in Ops, NEW n \in Names, NEW token \in BOOLEAN,
             Submit(r, op, n, token)
      PROVE  ListInv'
  BY <1>1, ListSubmitKept
<1>2. ASSUME NEW n \in Names, OthersCreate(n) \/ OthersDelete(n) PROVE ListInv'
  BY <1>2, ListOthersKept DEF OthersCreate, OthersDelete
<1>3. ASSUME NEW ns \in Namespaces, ChangeRights(ns) PROVE ListInv'
  BY <1>3, ListRightsKept
<1>4. ASSUME NEW r \in Requests, Step(r) PROVE ListInv'
  <2>1. CASE ReviewsDone(r)
    BY <2>1, <1>4, ReviewsDoneKept
  <2>2. CASE ListsDone(r)
    BY <2>2, <1>4, ListsDoneKept
  <2>3. CASE ValidateProvider(r) \/ CheckCapacity(r) \/ ListPods(r)
    BY <2>3, <1>4, ElsewhereStepKept
  <2>4. ASSUME NEW o \in Outcomes, Lookup(r, o) \/ ReadLog(r, o) \/ ReadEvents(r, o) PROVE ListInv'
    BY <2>4, <1>4, ElsewhereStepKept
  <2>5. ASSUME NEW o \in Outcomes, CreateObject(r, o) PROVE ListInv'
    BY <2>5, <1>4, ListCreateKept
  <2>6. ASSUME NEW o \in Outcomes, DeleteObject(r, o) PROVE ListInv'
    BY <2>6, <1>4, ListDeleteKept
  <2>7. ASSUME NEW o \in Outcomes, ListCluster(r, o) PROVE ListInv'
    BY <2>7, <1>4, ListClusterKept
  <2>8. ASSUME NEW o \in Outcomes, ListNamespaces(r, o) PROVE ListInv'
    BY <2>8, <1>4, ListNamespacesKept
  <2>9. ASSUME NEW o \in Outcomes, NEW ns \in Namespaces, ReviewAccess(r, ns, o) PROVE ListInv'
    BY <2>9, <1>4, ReviewKept
  <2>10. ASSUME NEW o \in Outcomes, NEW ns \in Namespaces, ListNamespace(r, ns, o) PROVE ListInv'
    BY <2>10, <1>4, ListNamespaceKept
  <2> QED BY <1>4, <2>1, <2>2, <2>3, <2>4, <2>5, <2>6, <2>7, <2>8, <2>9, <2>10, Zenon DEF Step
<1>5. CASE UNCHANGED vars
  BY <1>5 DEF vars, ListInv
<1>6. ASSUME NEW n \in Names, PutFinalizer(n) \/ TakeFinalizer(n) PROVE ListInv'
  BY <1>6 DEF PutFinalizer, TakeFinalizer, ListInv
<1> QED BY <1>1, <1>2, <1>3, <1>4, <1>5, <1>6, Zenon DEF Next, Environment

(* A list request that is answered has shown only namespaces the user could    *)
(* list at some time since the request arrived, and when no call of it failed  *)
(* and nobody changed anything meanwhile, it has shown every namespace it      *)
(* asked for that the user can list: through the cluster-wide list, through    *)
(* the way round over access reviews, or through one namespace's list          *)
(* (listDeployments and listDeploymentsAcrossAllowedNamespaces).               *)
THEOREM ListHonest == Spec => []ListIsHonest
<1>1. ListInv => ListIsHonest
  <2> SUFFICES ASSUME ListInv, NEW r \in Requests, Listing(req[r]), req[r].answer = 200
               PROVE  /\ req[r].shown \subseteq req[r].seen
                      /\ req[r].quiet /\ (req[r].token \/ readable = Namespaces) =>
                           req[r].shown = readable \cap Asked(req[r])
    BY DEF ListIsHonest, Listing, Asked
  <2>1. /\ req[r].shown \subseteq req[r].seen /\ Progress(req[r], readable)
        /\ req[r].quiet \in BOOLEAN
    BY DEF ListInv, ListGood
  <2>2. req[r].pc = "done"
    BY <2>1 DEF Progress
  <2>3. req[r].quiet = TRUE /\ Entitled(req[r], readable) => req[r].shown = readable \cap Asked(req[r])
    BY <2>1, <2>2 DEF Progress
  <2>4. req[r].token => req[r].token = TRUE
    OBVIOUS
  <2> QED BY <2>1, <2>3, <2>4 DEF Entitled
<1> QED BY <1>1, ListInit, ListKept, PTL DEF Spec
-----------------------------------------------------------------------------
(* The types: what a request made and removed are uids given out so far, and   *)
(* the attempts of a call stay within the bound of withRetry.                  *)
Typed(q) ==
  /\ IsRequest(q)
  /\ q.op \in Ops \cup {"none"}
  /\ q.pc # "free" => q.name \in Names
  /\ q.tries \in 0..MaxRetries
  /\ q.made \subseteq 1..MaxUid /\ q.removed \subseteq 1..MaxUid
  /\ q.shown \subseteq Namespaces

StoreTyped ==
  /\ objects \in [Names -> 0..MaxUid] /\ nextUid \in 0..MaxUid
  /\ guarded \subseteq Names /\ deleting \subseteq Names
  /\ readable \subseteq Namespaces /\ changes \in 0..MaxChanges
TypesInv ==
  /\ MaxRetries \in Nat /\ MaxUid \in Nat /\ MaxChanges \in Nat
  /\ StoreTyped /\ req = [r \in Requests |-> req[r]] /\ \A r \in Requests : Typed(req[r])

LEMMA TypesInit == ASSUME RequestsAssumption, Init PROVE TypesInv
  BY DEF RequestsAssumption, Init, TypesInv, StoreTyped, Typed, IsRequest, Blank

LEMMA TypesReplaced ==
  ASSUME TypesInv, NEW r \in Requests, NEW new, Update(r, new), Typed(new), StoreTyped'
  PROVE  TypesInv'
  BY DEF TypesInv, Update

(* A step of a request that keeps what it has done so far.                     *)
LEMMA TypedAs ==
  ASSUME NEW q, NEW new, Typed(q), q.pc # "free", DOMAIN new = DOMAIN q,
         new.op = q.op, new.name = q.name, new.tries \in 0..MaxRetries,
         new.made \subseteq q.made \cup 1..MaxUid, new.removed \subseteq q.removed \cup 1..MaxUid,
         new.shown \subseteq q.shown \cup Namespaces
  PROVE  Typed(new)
  BY DEF Typed, IsRequest

LEMMA TypedAgain ==
  ASSUME TypesInv, NEW r \in Requests, NEW o, TriesAgain(r, o),
         NEW q, Typed(q), q.pc # "free", q.tries = req[r].tries
  PROVE  Typed([q EXCEPT !.tries = @ + 1, !.quiet = FALSE])
<1> DEFINE new == [q EXCEPT !.tries = @ + 1, !.quiet = FALSE]
<1>1. q.tries < MaxRetries /\ q.tries \in 0..MaxRetries /\ MaxRetries \in Nat
  BY DEF TriesAgain, Typed, TypesInv
<1>2. /\ DOMAIN new = DOMAIN q /\ new.op = q.op /\ new.name = q.name /\ new.made = q.made
      /\ new.removed = q.removed /\ new.shown = q.shown /\ new.tries = q.tries + 1
  BY DEF Typed, IsRequest
<1>3. new.tries \in 0..MaxRetries
  BY <1>1, <1>2
<1> HIDE DEF new
<1>4. Typed(new)
  BY <1>2, <1>3, TypedAs
<1> QED BY <1>4 DEF new

LEMMA TypedGoto ==
  ASSUME NEW q, NEW pc, Typed(q), q.pc # "free", MaxRetries \in Nat
  PROVE  Typed([q EXCEPT !.pc = pc, !.tries = 0])
  BY TypedAs DEF Typed, IsRequest

LEMMA TypedAnswer ==
  ASSUME NEW q, NEW code, Typed(q), q.pc # "free", MaxRetries \in Nat
  PROVE  Typed([q EXCEPT !.pc = "done", !.answer = code, !.tries = 0])
  BY TypedAs DEF Typed, IsRequest

LEMMA TypedDone ==
  ASSUME NEW q, NEW code, NEW quiet, Typed(q), q.pc # "free", MaxRetries \in Nat
  PROVE  Typed([q EXCEPT !.pc = "done", !.tries = 0, !.quiet = quiet, !.answer = code])
<1> DEFINE new == [q EXCEPT !.pc = "done", !.tries = 0, !.quiet = quiet, !.answer = code]
<1>1. /\ DOMAIN new = DOMAIN q /\ new.op = q.op /\ new.name = q.name /\ new.made = q.made
      /\ new.removed = q.removed /\ new.shown = q.shown /\ new.tries = 0
  BY DEF Typed, IsRequest
<1> HIDE DEF new
<1>2. Typed(new)
  BY <1>1, TypedAs
<1> QED BY <1>2 DEF new

LEMMA SubmitTyped ==
  ASSUME TypesInv, NEW r \in Requests, NEW op \in Ops, NEW n \in Names, NEW token \in BOOLEAN,
         Submit(r, op, n, token)
  PROVE  TypesInv'
<1>1. PICK pc, todo :
        Update(r, [Blank EXCEPT !.op = op, !.name = n, !.token = token, !.seen = readable, !.todo = todo, !.pc = pc])
  BY Zenon DEF Submit
<1> DEFINE new == [Blank EXCEPT !.op = op, !.name = n, !.token = token, !.seen = readable, !.todo = todo, !.pc = pc]
<1>2. Typed(new)
  BY DEF Typed, IsRequest, Blank, TypesInv
<1>3. StoreTyped'
  BY DEF Submit, Others, stored, StoreTyped, TypesInv
<1> HIDE DEF new
<1> QED BY <1>1, <1>2, <1>3, TypesReplaced DEF new

LEMMA CreateTyped ==
  ASSUME TypesInv, NEW r \in Requests, NEW o, CreateObject(r, o)
  PROVE  TypesInv'
<1> DEFINE acts == o \in {"answered", "lost"} /\ objects[req[r].name] = 0
           new  == IF acts THEN [req[r] EXCEPT !.made = @ \cup {nextUid + 1}] ELSE req[r]
<1>1. /\ acts => nextUid < MaxUid
      /\ objects' = IF acts THEN [objects EXCEPT ![req[r].name] = nextUid + 1] ELSE objects
      /\ nextUid' = IF acts THEN nextUid + 1 ELSE nextUid
      /\ req[r].pc = "send" /\ UNCHANGED <<guarded, deleting, readable, changes>>
  BY DEF CreateObject, Store, stored
<1>2. \/ TriesAgain(r, o) /\ Again(r, new)
      \/ ~TriesAgain(r, o)
         /\ \E quiet, code : Update(r, [new EXCEPT !.pc = "done", !.tries = 0, !.quiet = quiet, !.answer = code])
  <2> DEFINE free == objects[req[r].name] = 0
             code == CASE o = "denied" -> 403 [] o \in {"lost", "transient"} -> 500
                       [] OTHER -> CreateAnswer(r, free)
  <2>1. \/ TriesAgain(r, o) /\ Again(r, new)
        \/ ~TriesAgain(r, o)
           /\ Update(r, [new EXCEPT !.pc = "done", !.tries = 0, !.quiet = @ /\ o = "answered", !.answer = code])
    BY Zenon DEF CreateObject
  <2> HIDE DEF new, code
  <2>2. PICK quiet : quiet = (new.quiet /\ o = "answered")
    OBVIOUS
  <2>3. [new EXCEPT !.pc = "done", !.tries = 0, !.quiet = @ /\ o = "answered", !.answer = code]
          = [new EXCEPT !.pc = "done", !.tries = 0, !.quiet = quiet, !.answer = code]
    BY <2>2
  <2> QED BY <2>1, <2>3
<1>3. Typed(req[r]) /\ nextUid \in 0..MaxUid /\ MaxUid \in Nat /\ MaxRetries \in Nat
      /\ objects \in [Names -> 0..MaxUid] /\ req[r].name \in Names
  BY <1>1 DEF Typed, TypesInv, StoreTyped
<1>4. acts => nextUid + 1 \in 1..MaxUid
  BY <1>1, <1>3
<1>5. Typed(new) /\ new.pc = "send" /\ new.tries = req[r].tries
  <2>1. CASE acts
    <3>1. /\ DOMAIN new = DOMAIN req[r] /\ new.op = req[r].op /\ new.name = req[r].name
          /\ new.pc = req[r].pc /\ new.tries = req[r].tries /\ new.made = req[r].made \cup {nextUid + 1}
          /\ new.removed = req[r].removed /\ new.shown = req[r].shown
      BY <1>3, <2>1 DEF Typed, IsRequest
    <3>2. req[r].pc = "send" /\ new.tries \in 0..MaxRetries
      BY <1>1, <1>3, <3>1 DEF Typed
    <3> HIDE DEF new, acts
    <3> QED BY <1>3, <1>4, <2>1, <3>1, <3>2, TypedAs
  <2>2. CASE ~acts
    BY <1>1, <1>3, <2>2
  <2> QED BY <2>1, <2>2
<1>6. StoreTyped'
  <2>1. CASE acts
    BY <1>1, <1>3, <1>4, <2>1 DEF StoreTyped, TypesInv
  <2>2. CASE ~acts
    BY <1>1, <2>2 DEF StoreTyped, TypesInv
  <2> QED BY <2>1, <2>2
<1> HIDE DEF new, acts
<1>7. CASE TriesAgain(r, o)
  <2>1. Update(r, [new EXCEPT !.tries = @ + 1, !.quiet = FALSE])
    BY <1>2, <1>7 DEF Again
  <2>2. Typed([new EXCEPT !.tries = @ + 1, !.quiet = FALSE])
    BY <1>5, <1>7, TypedAgain
  <2> QED BY <1>6, <2>1, <2>2, TypesReplaced
<1>8. CASE ~TriesAgain(r, o)
  <2>1. PICK quiet, code :
          Update(r, [new EXCEPT !.pc = "done", !.tries = 0, !.quiet = quiet, !.answer = code])
    BY <1>2, <1>8
  <2>2. Typed([new EXCEPT !.pc = "done", !.tries = 0, !.quiet = quiet, !.answer = code])
    BY <1>3, <1>5, TypedDone
  <2> QED BY <1>6, <2>1, <2>2, TypesReplaced
<1> QED BY <1>7, <1>8

LEMMA DeleteTyped ==
  ASSUME TypesInv, NEW r \in Requests, NEW o, DeleteObject(r, o)
  PROVE  TypesInv'
<1> DEFINE acts == o \in {"answered", "lost"} /\ objects[req[r].name] # 0
           new  == IF acts THEN [req[r] EXCEPT !.removed = @ \cup {objects[req[r].name]}] ELSE req[r]
<1>1. /\ objects' = objects \/ objects' = [objects EXCEPT ![req[r].name] = 0]
      /\ deleting' \subseteq deleting \cup {req[r].name}
      /\ req[r].pc = "send" /\ UNCHANGED <<guarded, nextUid, readable, changes>>
  BY DEF DeleteObject, Mark, stored
<1>2. \/ TriesAgain(r, o) /\ Again(r, new)
      \/ ~TriesAgain(r, o)
         /\ \E quiet, code : Update(r, [new EXCEPT !.pc = "done", !.tries = 0, !.quiet = quiet, !.answer = code])
  <2> DEFINE there == objects[req[r].name] # 0
             code == CASE o = "denied" -> 403 [] o \in {"lost", "transient"} -> 500
                       [] OTHER -> DeleteAnswer(r, there)
  <2>1. \/ TriesAgain(r, o) /\ Again(r, new)
        \/ ~TriesAgain(r, o)
           /\ Update(r, [new EXCEPT !.pc = "done", !.tries = 0, !.quiet = @ /\ o = "answered", !.answer = code])
    BY Zenon DEF DeleteObject
  <2> HIDE DEF new, code
  <2>2. PICK quiet : quiet = (new.quiet /\ o = "answered")
    OBVIOUS
  <2>3. [new EXCEPT !.pc = "done", !.tries = 0, !.quiet = @ /\ o = "answered", !.answer = code]
          = [new EXCEPT !.pc = "done", !.tries = 0, !.quiet = quiet, !.answer = code]
    BY <2>2
  <2> QED BY <2>1, <2>3
<1>3. /\ Typed(req[r]) /\ objects \in [Names -> 0..MaxUid] /\ MaxUid \in Nat /\ MaxRetries \in Nat
      /\ req[r].name \in Names
  BY <1>1 DEF TypesInv, StoreTyped, Typed
<1>4. acts => objects[req[r].name] \in 1..MaxUid
  BY <1>1, <1>3
<1>5. Typed(new) /\ new.pc = "send" /\ new.tries = req[r].tries
  <2>1. CASE acts
    <3>1. /\ DOMAIN new = DOMAIN req[r] /\ new.op = req[r].op /\ new.name = req[r].name
          /\ new.pc = req[r].pc /\ new.tries = req[r].tries /\ new.made = req[r].made
          /\ new.removed = req[r].removed \cup {objects[req[r].name]} /\ new.shown = req[r].shown
      BY <1>3, <2>1 DEF Typed, IsRequest
    <3>2. req[r].pc = "send" /\ new.tries \in 0..MaxRetries
      BY <1>1, <1>3, <3>1 DEF Typed
    <3> HIDE DEF new, acts
    <3> QED BY <1>3, <1>4, <2>1, <3>1, <3>2, TypedAs
  <2>2. CASE ~acts
    BY <1>1, <1>3, <2>2
  <2> QED BY <2>1, <2>2
<1>6. StoreTyped'
  BY <1>1, <1>3 DEF StoreTyped, TypesInv
<1> HIDE DEF new, acts
<1>7. CASE TriesAgain(r, o)
  <2>1. Update(r, [new EXCEPT !.tries = @ + 1, !.quiet = FALSE])
    BY <1>2, <1>7 DEF Again
  <2>2. Typed([new EXCEPT !.tries = @ + 1, !.quiet = FALSE])
    BY <1>5, <1>7, TypedAgain
  <2> QED BY <1>6, <2>1, <2>2, TypesReplaced
<1>8. CASE ~TriesAgain(r, o)
  <2>1. PICK quiet, code :
          Update(r, [new EXCEPT !.pc = "done", !.tries = 0, !.quiet = quiet, !.answer = code])
    BY <1>2, <1>8
  <2>2. Typed([new EXCEPT !.pc = "done", !.tries = 0, !.quiet = quiet, !.answer = code])
    BY <1>3, <1>5, TypedDone
  <2> QED BY <1>6, <2>1, <2>2, TypesReplaced
<1> QED BY <1>7, <1>8

(* Every other step of a request reads, and leaves the store alone.            *)
LEMMA ReadTyped ==
  ASSUME TypesInv, NEW r \in Requests, Others,
         \/ ValidateProvider(r) \/ CheckCapacity(r) \/ ListPods(r) \/ ReviewsDone(r) \/ ListsDone(r)
         \/ \E o \in Outcomes :
              \/ Lookup(r, o) \/ ReadLog(r, o) \/ ReadEvents(r, o) \/ ListCluster(r, o) \/ ListNamespaces(r, o)
              \/ \E ns \in Namespaces : ReviewAccess(r, ns, o) \/ ListNamespace(r, ns, o)
  PROVE  TypesInv'
<1> DEFINE q == req[r]
<1>1. Typed(q) /\ MaxRetries \in Nat /\ q.tries \in 0..MaxRetries
  BY DEF TypesInv, Typed
<1>2. StoreTyped'
  BY DEF Others, stored, StoreTyped, TypesInv
<1>3. q.pc # "free"
  BY DEF ValidateProvider, CheckCapacity, ListPods, ReviewsDone, ListsDone, Lookup, ReadLog, ReadEvents,
         ListCluster, ListNamespaces, ReviewAccess, ListNamespace
<1>4. ASSUME NEW o, TriesAgain(r, o), Again(r, q) PROVE TypesInv'
  BY <1>1, <1>2, <1>3, <1>4, TypedAgain, TypesReplaced DEF Again
<1>5. ASSUME NEW pc, Goto(r, pc) PROVE TypesInv'
  BY <1>1, <1>2, <1>3, <1>5, TypedGoto, TypesReplaced DEF Goto
<1>6. ASSUME NEW code, Answer(r, code) PROVE TypesInv'
  BY <1>1, <1>2, <1>3, <1>6, TypedAnswer, TypesReplaced DEF Answer
<1>7. ASSUME NEW new, Update(r, new), DOMAIN new = DOMAIN q, new.op = q.op, new.name = q.name,
             new.tries \in {0, q.tries}, new.made = q.made, new.removed = q.removed,
             new.shown \subseteq q.shown \cup Namespaces
      PROVE  TypesInv'
  <2>1. new.tries \in 0..MaxRetries
    BY <1>1, <1>7
  <2>2. Typed(new)
    BY <1>1, <1>3, <1>7, <2>1, TypedAs
  <2> QED BY <1>2, <1>7, <2>2, TypesReplaced
<1>8. CASE ValidateProvider(r) \/ CheckCapacity(r) \/ ListPods(r) \/ ListsDone(r)
  BY <1>5, <1>6, <1>8, Zenon DEF ValidateProvider, CheckCapacity, ListPods, ListsDone
<1>9. CASE ReviewsDone(r)
  <2>1. CASE Answer(r, 200)
    BY <1>6, <2>1
  <2>2. CASE Update(r, [q EXCEPT !.pc = "lists", !.todo = q.allowed])
    <3>1. PICK new : new = [q EXCEPT !.pc = "lists", !.todo = q.allowed]
      OBVIOUS
    <3>2. /\ DOMAIN new = DOMAIN q /\ new.op = q.op /\ new.name = q.name /\ new.tries = q.tries
          /\ new.made = q.made /\ new.removed = q.removed /\ new.shown = q.shown
      BY <1>1, <3>1 DEF Typed, IsRequest
    <3> QED BY <1>7, <2>2, <3>1, <3>2
  <2> QED BY <1>9, <2>1, <2>2 DEF ReviewsDone
<1>10. ASSUME NEW o, Lookup(r, o) \/ ReadLog(r, o) \/ ReadEvents(r, o) PROVE TypesInv'
  <2>1. \/ TriesAgain(r, o) /\ Again(r, q)
        \/ \E code : Answer(r, code)
        \/ \E pc : Goto(r, pc)
    BY <1>10, Zenon DEF Lookup, ReadLog, ReadEvents
  <2> QED BY <1>4, <1>5, <1>6, <2>1
<1>11. ASSUME NEW o, ListCluster(r, o) PROVE TypesInv'
  <2>1. CASE TriesAgain(r, o) /\ Again(r, q)
    BY <1>4, <2>1
  <2>2. CASE Goto(r, "namespaces")
    BY <1>5, <2>2
  <2>3. ASSUME NEW new, Update(r, new),
               new = [q EXCEPT !.pc = "done", !.answer = 200, !.tries = 0,
                       !.quiet = @ /\ o = "answered",
                       !.shown = IF o = "answered" /\ ~(o = "denied" \/ (o = "answered" /\ readable # Namespaces))
                                 THEN Namespaces ELSE {}]
        PROVE  TypesInv'
    <3>1. /\ DOMAIN new = DOMAIN q /\ new.op = q.op /\ new.name = q.name /\ new.tries = 0
          /\ new.made = q.made /\ new.removed = q.removed /\ new.shown \subseteq Namespaces
      BY <1>1, <2>3 DEF Typed, IsRequest
    <3> QED BY <1>7, <2>3, <3>1
  <2> QED BY <1>11, <2>1, <2>2, <2>3, Zenon DEF ListCluster
<1>12. ASSUME NEW o, ListNamespaces(r, o) PROVE TypesInv'
  <2>1. CASE TriesAgain(r, o) /\ Again(r, q)
    BY <1>4, <2>1
  <2>2. ASSUME NEW new, Update(r, new),
               \/ new = [q EXCEPT !.pc = "done", !.answer = 200, !.tries = 0, !.quiet = FALSE]
               \/ new = [q EXCEPT !.pc = "reviews", !.tries = 0, !.todo = Namespaces]
        PROVE  TypesInv'
    <3>1. /\ DOMAIN new = DOMAIN q /\ new.op = q.op /\ new.name = q.name /\ new.tries = 0
          /\ new.made = q.made /\ new.removed = q.removed /\ new.shown = q.shown
      BY <1>1, <2>2 DEF Typed, IsRequest
    <3> QED BY <1>7, <2>2, <3>1
  <2> QED BY <1>12, <2>1, <2>2, Zenon DEF ListNamespaces
<1>13. ASSUME NEW o, NEW ns \in Namespaces, ReviewAccess(r, ns, o) \/ ListNamespace(r, ns, o)
       PROVE  TypesInv'
  <2>1. PICK todo, quiet, allowed, shown, new :
          /\ Update(r, new) /\ shown \in SUBSET Namespaces
          /\ \/ new = [q EXCEPT !.todo = todo, !.quiet = quiet, !.allowed = allowed]
             \/ new = [q EXCEPT !.todo = todo, !.quiet = quiet, !.shown = shown]
    <3>1. CASE ReviewAccess(r, ns, o)
      <4>1. {} \in SUBSET Namespaces
        OBVIOUS
      <4> QED BY <3>1, <4>1, Zenon DEF ReviewAccess
    <3>2. CASE ListNamespace(r, ns, o)
      <4>1. PICK shown : shown = IF o = "answered" /\ ns \in Listable THEN q.shown \cup {ns} ELSE q.shown
        OBVIOUS
      <4>2. shown \in SUBSET Namespaces
        BY <1>1, <4>1 DEF Typed
      <4> QED BY <3>2, <4>1, <4>2, Zenon DEF ListNamespace
    <3> QED BY <1>13, <3>1, <3>2
  <2>2. /\ DOMAIN new = DOMAIN q /\ new.op = q.op /\ new.name = q.name /\ new.tries = q.tries
        /\ new.made = q.made /\ new.removed = q.removed /\ new.shown \subseteq q.shown \cup Namespaces
    BY <1>1, <2>1 DEF Typed, IsRequest
  <2> QED BY <1>7, <2>1, <2>2
<1> QED BY <1>8, <1>9, <1>10, <1>11, <1>12, <1>13

(* What others do: uids are given out as long as there are any.                *)
LEMMA OthersTyped ==
  ASSUME TypesInv,
         \/ \E n \in Names : OthersCreate(n) \/ OthersDelete(n)
         \/ \E ns \in Namespaces : ChangeRights(ns)
  PROVE  TypesInv'
<1>1. ASSUME NEW q, Typed(q), NEW new, NEW seen,
             new = [q EXCEPT !.quiet = FALSE] \/ new = [[q EXCEPT !.quiet = FALSE] EXCEPT !.seen = seen]
      PROVE  Typed(new)
  <2>1. /\ DOMAIN new = DOMAIN q /\ new.op = q.op /\ new.name = q.name /\ new.pc = q.pc
        /\ new.tries = q.tries /\ new.made = q.made /\ new.removed = q.removed /\ new.shown = q.shown
    BY <1>1 DEF Typed, IsRequest
  <2> QED BY <1>1, <2>1 DEF Typed, IsRequest
<1>2. \A r \in Requests : Typed(req[r])
  BY DEF TypesInv
<1>3. ASSUME NEW n \in Names, OthersCreate(n) \/ OthersDelete(n) PROVE TypesInv'
  <2>1. req' = [r \in Requests |-> [req[r] EXCEPT !.quiet = FALSE]]
    BY <1>3 DEF OthersCreate, OthersDelete, Noticed
  <2>2. \A r \in Requests : Typed(req'[r])
    BY <1>1, <1>2, <2>1
  <2>3. StoreTyped'
    BY <1>3 DEF OthersCreate, OthersDelete, Store, Mark, StoreTyped, TypesInv
  <2> QED BY <2>1, <2>2, <2>3 DEF TypesInv
<1>4. ASSUME NEW ns \in Namespaces, ChangeRights(ns) PROVE TypesInv'
  <2>1. PICK now : /\ req' = [r \in Requests |-> [Noticed[r] EXCEPT !.seen = @ \cup now]]
                   /\ now \subseteq Namespaces /\ readable' = now
    BY <1>4 DEF ChangeRights, TypesInv, StoreTyped
  <2>2. \A r \in Requests : \E seen : req'[r] = [[req[r] EXCEPT !.quiet = FALSE] EXCEPT !.seen = seen]
    BY <2>1, Zenon DEF Noticed
  <2>3. \A r \in Requests : Typed(req'[r])
    BY <1>1, <1>2, <2>2
  <2>4. StoreTyped'
    BY <1>4, <2>1 DEF ChangeRights, stored, StoreTyped, TypesInv
  <2> QED BY <2>1, <2>3, <2>4 DEF TypesInv
<1> QED BY <1>3, <1>4

LEMMA TypesKept == ASSUME TypesInv, [Next]_vars PROVE TypesInv'
<1>1. CASE UNCHANGED vars
  BY <1>1 DEF vars, TypesInv, StoreTyped
<1>2. CASE Environment
  <2>1. ASSUME NEW n \in Names, PutFinalizer(n) \/ TakeFinalizer(n) PROVE TypesInv'
    BY <2>1 DEF PutFinalizer, TakeFinalizer, TypesInv, StoreTyped
  <2> QED BY <1>2, <2>1, SubmitTyped, OthersTyped DEF Environment
<1>3. ASSUME NEW r \in Requests, Step(r) PROVE TypesInv'
  <2>1. CASE \E o \in Outcomes : CreateObject(r, o) \/ DeleteObject(r, o)
    BY <2>1, CreateTyped, DeleteTyped
  <2>2. CASE ~\E o \in Outcomes : CreateObject(r, o) \/ DeleteObject(r, o)
    <3>1. Others
      BY <1>3, <2>2, Zenon DEF Step, ValidateProvider, CheckCapacity, ListPods, ReviewsDone, ListsDone, Lookup,
         ReadLog, ReadEvents, ListCluster, ListNamespaces, ReviewAccess, ListNamespace
    <3> QED BY <1>3, <2>2, <3>1, ReadTyped, Zenon DEF Step
  <2> QED BY <2>1, <2>2
<1> QED BY <1>1, <1>2, <1>3 DEF Next

(* The types of the requests and of what they work on, for any bounds.         *)
THEOREM RequestTypesHold == RequestsAssumption /\ Spec => []TypeOK
<1> SUFFICES ASSUME RequestsAssumption PROVE Spec => []TypeOK
  OBVIOUS
<1>1. Init => TypesInv
  BY TypesInit
<1>2. TypesInv => TypeOK
  BY DEF TypesInv, StoreTyped, Typed, TypeOK
<1> QED BY <1>1, <1>2, TypesKept, PTL DEF Spec
=============================================================================
