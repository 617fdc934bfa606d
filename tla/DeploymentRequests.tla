------------------------- MODULE DeploymentRequests -------------------------
(* The requests of the web backend on ModelDeployments: the handlers of      *)
(* backend/src/routes/deployments.ts for POST /, GET /, GET /:name,          *)
(* /:name/manifest, /:name/pods, /:name/logs, /:name/pending-reasons and     *)
(* DELETE /:name, down to the calls of services/kubernetes.ts and the retry  *)
(* loop of lib/retry.ts.                                                     *)
(*                                                                           *)
(* Every awaited call of the API server is one action, so requests of        *)
(* several users and kubectl interleave between the calls of one request.    *)
(* A call can fail before the server acts, or act and lose its answer; both  *)
(* look the same to withRetry.  A ModelDeployment carries the finalizer of   *)
(* its provider's shim, so a deleted one is still there, Terminating, until  *)
(* the shim has cleaned up after it.                                         *)
EXTENDS Naturals, FiniteSets

CONSTANTS
  Requests,     \* requests in flight
  Names,        \* deployments, by namespace and name
  Namespaces,   \* the namespaces of the cluster
  NamespaceOf,  \* the namespace of a name
  MaxRetries,   \* withRetry: maxRetries
  MaxUid,       \* bound: objects created over a behaviour
  MaxChanges    \* bound: changes made by others (kubectl, role bindings)

RequestsAssumption ==
  /\ NamespaceOf \in [Names -> Namespaces]
  /\ MaxRetries \in Nat /\ MaxUid \in Nat /\ MaxChanges \in Nat

VARIABLES
  objects,   \* uid of the stored ModelDeployment of each name, 0 when there is none
  guarded,   \* the names whose ModelDeployment carries a shim's finalizer
  deleting,  \* the names whose ModelDeployment has a deletionTimestamp
  nextUid,   \* the last uid given out
  readable,  \* namespaces in which the caller (the user, or without a token the
             \* backend's service account) may list ModelDeployments
  changes,   \* changes made by others so far
  req        \* the requests

stored == <<objects, guarded, deleting>>
vars == <<objects, guarded, deleting, nextUid, readable, changes, req>>

Reads    == {"get", "pods", "logs", "pending"}
Ops      == Reads \cup {"create", "delete", "list", "listOne"}
Outcomes == {"answered", "lost", "transient", "denied"}

(* tries counts the failed attempts of the current call; token says whether   *)
(* the caller sent one. made and removed are history: the uids this request  *)
(* created, and those the server accepted its deletion of. quiet is history: *)
(* no call of the request failed and nobody else changed anything meanwhile. *)
Blank == [op |-> "none", name |-> "none", token |-> TRUE, pc |-> "free", tries |-> 0,
          answer |-> 0, made |-> {}, removed |-> {}, quiet |-> TRUE,
          todo |-> {}, allowed |-> {}, shown |-> {}, seen |-> {}]

TypeOK ==
  /\ objects \in [Names -> 0..MaxUid]
  /\ guarded \subseteq Names /\ deleting \subseteq Names
  /\ nextUid \in 0..MaxUid
  /\ readable \subseteq Namespaces
  /\ changes \in 0..MaxChanges
  /\ \A r \in Requests : /\ req[r].op \in Ops \cup {"none"}
                         /\ req[r].tries \in 0..MaxRetries
                         /\ req[r].made \cup req[r].removed \subseteq 1..MaxUid
                         /\ req[r].shown \subseteq Namespaces

Init ==
  /\ objects = [n \in Names |-> 0] /\ guarded = {} /\ deleting = {}
  /\ nextUid = 0
  /\ readable = Namespaces
  /\ changes = 0
  /\ req = [r \in Requests |-> Blank]

Update(r, new) == req' = [req EXCEPT ![r] = new]
Goto(r, pc)    == Update(r, [req[r] EXCEPT !.pc = pc, !.tries = 0])
Answer(r, code) == Update(r, [req[r] EXCEPT !.pc = "done", !.answer = code, !.tries = 0])

(* withRetry: the errors that are tried again, as long as attempts are left. *)
IsRetryable(outcome) == outcome \in {"lost", "transient"}
\* Mutant: there is no end to the retries.
TriesAgainEndlessly(r, outcome) == IsRetryable(outcome) /\ req[r].tries <= MaxRetries
TriesAgain(r, outcome) == IsRetryable(outcome) /\ req[r].tries < MaxRetries
Again(r, new) == Update(r, [new EXCEPT !.tries = @ + 1, !.quiet = FALSE])

Others == UNCHANGED <<stored, nextUid, readable, changes>>

(* The server stores a new object, without finalizers.                       *)
Store(n) ==
  /\ objects' = [objects EXCEPT ![n] = nextUid + 1] /\ nextUid' = nextUid + 1
  /\ UNCHANGED <<guarded, deleting>>

(* The server accepts a deletion: an object with a finalizer is marked and    *)
(* stays, marked already or not; one without is gone.                        *)
Mark(n) ==
  IF n \in guarded THEN deleting' = deleting \cup {n} /\ UNCHANGED <<objects, guarded>>
  ELSE objects' = [objects EXCEPT ![n] = 0] /\ UNCHANGED <<guarded, deleting>>

(* A request arrives.  Zod has accepted its shape.  Whether there is a token  *)
(* makes a difference to the cluster-wide list alone.                        *)
Submit(r, op, n, token) ==
  /\ req[r].pc = "free" /\ (op # "list" => token)
  /\ Update(r, [Blank EXCEPT !.op = op, !.name = n, !.token = token, !.seen = readable,
                  !.todo = IF op = "listOne" THEN {NamespaceOf[n]} ELSE {},
                  !.pc = CASE op = "create"  -> "provider"
                           [] op = "list"    -> "cluster"
                           [] op = "listOne" -> "lists"
                           [] OTHER          -> "lookup"])
  /\ Others

(* POST /: validateProviderCapabilities.  A provider that cannot be read is   *)
(* let through, one that does not exist or lacks the engine, mode, source or  *)
(* router mode is refused; a provider that declares nothing is let through.   *)
ValidateProvider(r) ==
  /\ req[r].pc = "provider"
  /\ \/ Goto(r, "capacity")
     \/ \E refusal \in {404, 422} : Answer(r, refusal)
  /\ Others

(* POST /: getClusterGpuCapacity and validateGpuFit only add warnings; a      *)
(* failed read is swallowed.                                                  *)
CheckCapacity(r) ==
  /\ req[r].pc = "capacity"
  /\ Goto(r, "send")
  /\ Others

\* Mutant: a name that is taken after a retry is taken for the own object.
CreateAnswerTrusting(r, free) == IF free \/ req[r].tries > 0 THEN 201 ELSE 409
CreateAnswer(r, free) == IF free THEN 201 ELSE 409

(* createNamespacedCustomObject inside withRetry.  The server refuses a name  *)
(* that is taken (409), also by an object that is Terminating; a 409 is not   *)
(* retried.                                                                   *)
CreateObject(r, outcome) ==
  LET q == req[r]
      free == objects[q.name] = 0
      acts == outcome \in {"answered", "lost"} /\ free
      new == IF acts THEN [q EXCEPT !.made = @ \cup {nextUid + 1}] ELSE q
  IN
  /\ q.pc = "send" /\ q.op = "create"
  /\ acts => nextUid < MaxUid
  /\ IF acts THEN Store(q.name) ELSE UNCHANGED <<stored, nextUid>>
  /\ IF TriesAgain(r, outcome) THEN Again(r, new)
     ELSE Update(r, [new EXCEPT !.pc = "done", !.tries = 0,
                       !.quiet = @ /\ outcome = "answered",
                       !.answer = CASE outcome = "denied"   -> 403
                                    [] outcome \in {"lost", "transient"} -> 500
                                    [] OTHER -> CreateAnswer(r, free)])
  /\ UNCHANGED <<readable, changes>>

(* getDeployment: every error, whatever it is, becomes null, which the        *)
(* routes and deleteDeployment report as not found.  An object that is        *)
(* Terminating is found.                                                      *)
LookupNext(op) ==
  CASE op = "delete"  -> "send"
    [] op = "get"     -> "done"
    [] op = "pending" -> "events"
    [] OTHER          -> "pods"

Lookup(r, outcome) ==
  LET q == req[r]
      found == outcome = "answered" /\ objects[q.name] # 0
  IN
  /\ q.pc = "lookup"
  /\ IF TriesAgain(r, outcome) THEN Again(r, q)
     ELSE IF ~found THEN Answer(r, 404)
     ELSE IF LookupNext(q.op) = "done" THEN Answer(r, 200)
     ELSE Goto(r, LookupNext(q.op))
  /\ Others

\* Mutant: a 404 after a retry is taken for the own deletion.
DeleteAnswerTrusting(r, there) == IF there \/ req[r].tries > 0 THEN 200 ELSE 404
DeleteAnswer(r, there) == IF there THEN 200 ELSE 404

(* deleteNamespacedCustomObject inside withRetry, by name and without a uid.  *)
(* The server accepts it as often as it finds an object, and a 404 of its     *)
(* reads "not found" and is answered as 404 too.                              *)
DeleteObject(r, outcome) ==
  LET q == req[r]
      there == objects[q.name] # 0
      acts == outcome \in {"answered", "lost"} /\ there
      new == IF acts THEN [q EXCEPT !.removed = @ \cup {objects[q.name]}] ELSE q
  IN
  /\ q.pc = "send" /\ q.op = "delete"
  /\ IF acts THEN Mark(q.name) ELSE UNCHANGED stored
  /\ IF TriesAgain(r, outcome) THEN Again(r, new)
     ELSE Update(r, [new EXCEPT !.pc = "done", !.tries = 0,
                       !.quiet = @ /\ outcome = "answered",
                       !.answer = CASE outcome = "denied"   -> 403
                                    [] outcome \in {"lost", "transient"} -> 500
                                    [] OTHER -> DeleteAnswer(r, there)])
  /\ UNCHANGED <<nextUid, readable, changes>>

(* /pods and /logs list the pods with the service account, swallowing errors. *)
(* /logs: no pods is an empty answer, a pod of another deployment is refused, *)
(* and a log that cannot be read is a 500.                                    *)
ListPods(r) ==
  /\ req[r].pc = "pods"
  /\ \/ req[r].op = "pods" /\ Answer(r, 200)
     \/ req[r].op = "logs" /\ \E code \in {200, 400} : Answer(r, code)
     \/ req[r].op = "logs" /\ Goto(r, "log")
  /\ Others

ReadLog(r, outcome) ==
  /\ req[r].pc = "log"
  /\ IF TriesAgain(r, outcome) THEN Again(r, req[r])
     ELSE Answer(r, IF outcome = "answered" THEN 200 ELSE 500)
  /\ Others

(* /pending-reasons: the events of the first pending pod; errors read as none.*)
ReadEvents(r, outcome) ==
  /\ req[r].pc = "events"
  /\ IF TriesAgain(r, outcome) THEN Again(r, req[r]) ELSE Answer(r, 200)
  /\ Others

(* GET / without a namespace.  The cluster-wide list with the user's token,   *)
(* and when that is forbidden the way round over the namespaces; without a    *)
(* token there is no way round, and every other error is an empty list too.   *)
ListCluster(r, outcome) ==
  LET forbidden == outcome = "denied" \/ (outcome = "answered" /\ readable # Namespaces)
      listed == outcome = "answered" /\ ~forbidden
  IN
  /\ req[r].pc = "cluster"
  /\ IF TriesAgain(r, outcome) THEN Again(r, req[r])
     ELSE IF forbidden /\ req[r].token THEN Goto(r, "namespaces")
     ELSE Update(r, [req[r] EXCEPT !.pc = "done", !.answer = 200, !.tries = 0,
                       !.quiet = @ /\ outcome = "answered",
                       !.shown = IF listed THEN Namespaces ELSE {}])
  /\ Others

(* listDeploymentsAcrossAllowedNamespaces: the service account lists the      *)
(* namespaces, one SelfSubjectAccessReview per namespace asks for the user,   *)
(* then each allowed namespace is listed with the user's token.               *)
ListNamespaces(r, outcome) ==
  /\ req[r].pc = "namespaces"
  /\ IF TriesAgain(r, outcome) THEN Again(r, req[r])
     ELSE IF outcome # "answered" THEN
       Update(r, [req[r] EXCEPT !.pc = "done", !.answer = 200, !.tries = 0, !.quiet = FALSE])
     ELSE Update(r, [req[r] EXCEPT !.pc = "reviews", !.tries = 0, !.todo = Namespaces])
  /\ Others

ReviewAccess(r, ns, outcome) ==
  /\ req[r].pc = "reviews" /\ ns \in req[r].todo
  /\ Update(r, [req[r] EXCEPT !.todo = @ \ {ns},
                  !.quiet = @ /\ outcome = "answered",
                  !.allowed = IF outcome = "answered" /\ ns \in readable
                              THEN @ \cup {ns} ELSE @])
  /\ Others

ReviewsDone(r) ==
  /\ req[r].pc = "reviews" /\ req[r].todo = {}
  /\ IF req[r].allowed = {} THEN Answer(r, 200)
     ELSE Update(r, [req[r] EXCEPT !.pc = "lists", !.todo = req[r].allowed])
  /\ Others

(* The namespaces the server lets this call list: the call carries the       *)
(* user's token.                                                              *)
Listable == readable

(* listDeploymentsInNamespace: an error is an empty list.                     *)
ListNamespace(r, ns, outcome) ==
  /\ req[r].pc = "lists" /\ ns \in req[r].todo
  /\ Update(r, [req[r] EXCEPT !.todo = @ \ {ns},
                  !.quiet = @ /\ outcome = "answered",
                  !.shown = IF outcome = "answered" /\ ns \in Listable
                            THEN @ \cup {ns} ELSE @])
  /\ Others

ListsDone(r) ==
  /\ req[r].pc = "lists" /\ req[r].todo = {}
  /\ Answer(r, 200)
  /\ Others

(* What the shim of the provider does: it puts its finalizer on an object and *)
(* takes it off a deleted one when it has cleaned up, with which it is gone.  *)
PutFinalizer(n) ==
  /\ objects[n] # 0 /\ n \notin guarded
  /\ guarded' = guarded \cup {n}
  /\ UNCHANGED <<objects, deleting, nextUid, readable, changes, req>>

TakeFinalizer(n) ==
  /\ n \in deleting
  /\ objects' = [objects EXCEPT ![n] = 0]
  /\ guarded' = guarded \ {n} /\ deleting' = deleting \ {n}
  /\ UNCHANGED <<nextUid, readable, changes, req>>

(* What others do meanwhile: kubectl creates and deletes, an administrator    *)
(* changes the caller's role bindings.                                        *)
Noticed == [r \in Requests |-> [req[r] EXCEPT !.quiet = FALSE]]

OthersCreate(n) ==
  /\ changes < MaxChanges /\ objects[n] = 0 /\ nextUid < MaxUid
  /\ Store(n)
  /\ changes' = changes + 1
  /\ req' = Noticed
  /\ UNCHANGED readable

OthersDelete(n) ==
  /\ changes < MaxChanges /\ objects[n] # 0
  /\ Mark(n)
  /\ changes' = changes + 1
  /\ req' = Noticed
  /\ UNCHANGED <<nextUid, readable>>

ChangeRights(ns) ==
  LET now == IF ns \in readable THEN readable \ {ns} ELSE readable \cup {ns} IN
  /\ changes < MaxChanges
  /\ readable' = now
  /\ changes' = changes + 1
  /\ req' = [r \in Requests |-> [Noticed[r] EXCEPT !.seen = @ \cup now]]
  /\ UNCHANGED <<stored, nextUid>>

Step(r) ==
  \/ ValidateProvider(r)
  \/ CheckCapacity(r)
  \/ ListPods(r)
  \/ ReviewsDone(r)
  \/ ListsDone(r)
  \/ \E o \in Outcomes :
       \/ CreateObject(r, o)
       \/ Lookup(r, o)
       \/ DeleteObject(r, o)
       \/ ReadLog(r, o)
       \/ ReadEvents(r, o)
       \/ ListCluster(r, o)
       \/ ListNamespaces(r, o)
       \/ \E ns \in Namespaces : ReviewAccess(r, ns, o) \/ ListNamespace(r, ns, o)

Environment ==
  \/ \E r \in Requests, op \in Ops, n \in Names, token \in BOOLEAN : Submit(r, op, n, token)
  \/ \E n \in Names : PutFinalizer(n) \/ TakeFinalizer(n) \/ OthersCreate(n) \/ OthersDelete(n)
  \/ \E ns \in Namespaces : ChangeRights(ns)

Next == Environment \/ \E r \in Requests : Step(r)

Spec == Init /\ [][Next]_vars

-----------------------------------------------------------------------------
(* A request that is told it succeeded did it, whatever answers were lost and *)
(* retried on the way and whoever else worked on the name: POST answers 201   *)
(* only to a request that made an object, and DELETE answers 200 only to one  *)
(* whose deletion the server accepted of an object.  What a request deleted   *)
(* does not come back to life: as long as the shim keeps it, it is            *)
(* Terminating, and a new object of the name is another one.                  *)
SuccessIsHonest ==
  \A r \in Requests :
    /\ req[r].op = "create" /\ req[r].answer = 201 => req[r].made # {}
    /\ req[r].op = "delete" /\ req[r].answer = 200 => req[r].removed # {}
    /\ req[r].op = "delete" /\ objects[req[r].name] \in req[r].removed => req[r].name \in deleting

(* The list shows a namespace only when the caller could list it at some time *)
(* during the request, and when nothing failed or changed it shows every      *)
(* namespace the caller can list.  (Without a token, which takes away the way *)
(* round, that needs the right to list the whole cluster.)                    *)
ListIsHonest ==
  \A r \in Requests :
    LET asked == IF req[r].op = "list" THEN Namespaces ELSE {NamespaceOf[req[r].name]} IN
    req[r].op \in {"list", "listOne"} /\ req[r].answer = 200 =>
      /\ req[r].shown \subseteq req[r].seen
      /\ req[r].quiet /\ (req[r].token \/ readable = Namespaces) =>
           req[r].shown = readable \cap asked
=============================================================================
