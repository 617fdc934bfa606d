------------------------------ MODULE ChatProxy ------------------------------
(* One chat request through the backend: handleDeploymentChat of              *)
(* backend/src/routes/deployments.ts.  It resolves the model name (asking the *)
(* model server under a timeout when it has to), posts the prompt to the      *)
(* frontend service through the API server, reads a bounded part of an error  *)
(* body, and goes through the gateway when the service does not exist.        *)
(* The client can go away at any time; its signal is passed to every fetch.   *)
EXTENDS Naturals

CONSTANTS
  MaxDetails,  \* bytes of an error body that are read: the limit plus one
  MaxBody      \* bound: bytes an error body can have

ChatAssumption == MaxDetails \in Nat \ {0} /\ MaxBody \in Nat

VARIABLES
  deployment,  \* what getDeployment returned, chosen when the request arrives
  pc,          \* the next step of the handler
  route,       \* the path the prompt takes: "direct", then maybe "gateway"
  aborted,     \* the client's signal
  timer,       \* the discovery timeout is armed
  listening,   \* the discovery listens to the client's signal
  scoped,      \* the discovery's own signal is aborted
  body,        \* the error body being read: its state and what is left of it
  details,     \* bytes of it kept
  status,      \* the upstream error behind the body
  delivered,   \* history: times a model server received the prompt
  answer       \* the status sent to the client, 0 before

cvars == <<deployment, pc, route, aborted, timer, listening, scoped, body, details,
           status, delivered, answer>>

Deployments ==
  [exists : BOOLEAN, running : BOOLEAN, service : BOOLEAN,
   named : BOOLEAN,     \* the request or the deployment names the served model
   gateway : BOOLEAN,   \* status.gateway has an endpoint
   alias : BOOLEAN]     \* status.gateway has a model name

NoBody == [state |-> "none", left |-> 0]
PassedOn == {400, 401, 403, 404, 408, 409, 410, 413, 415, 422, 429, 500, 501, 502, 503, 504}

(* The errors that come back: the API server's answer for a service that does *)
(* not exist, and answers of the model server (a 404 is one of them) or of a  *)
(* proxy on the way.                                                          *)
UpstreamErrors == {"missing", "notFound", "teapot", "unavailable"}
StatusOf(error) == CASE error \in {"missing", "notFound"} -> 404
                     [] error = "teapot" -> 418
                     [] OTHER -> 503

TypeOK ==
  /\ deployment \in Deployments
  /\ pc \in {"idle", "lookup", "discover", "wait", "post", "read", "failed", "done"}
  /\ route \in {"direct", "gateway"}
  /\ {aborted, timer, listening, scoped} \subseteq BOOLEAN
  /\ body.state \in {"none", "open", "drained", "cancelled", "errored"}
  /\ body.left \in 0..MaxBody /\ details \in 0..MaxDetails
  /\ status \in UpstreamErrors \cup {"none"}
  /\ delivered \in 0..2 /\ answer \in PassedOn \cup {0, 200}

Init ==
  /\ deployment = [exists |-> FALSE, running |-> FALSE, service |-> FALSE,
                   named |-> FALSE, gateway |-> FALSE, alias |-> FALSE]
  /\ pc = "idle" /\ route = "direct"
  /\ aborted = FALSE /\ timer = FALSE /\ listening = FALSE /\ scoped = FALSE
  /\ body = NoBody /\ details = 0 /\ status = "none" /\ delivered = 0 /\ answer = 0

Respond(code) == pc' = "done" /\ answer' = code

Arrive ==
  /\ pc = "idle" /\ pc' = "lookup"
  /\ deployment' \in Deployments
  /\ UNCHANGED <<route, aborted, timer, listening, scoped, body, details, status,
                 delivered, answer>>

(* getDeployment, the phase, the frontend service, then the direct model.     *)
Lookup ==
  /\ pc = "lookup"
  /\ CASE ~deployment.exists  -> Respond(404)
       [] ~deployment.running -> Respond(409)
       [] ~deployment.service -> Respond(409)
       [] deployment.named    -> pc' = "post" /\ UNCHANGED answer
       [] OTHER               -> pc' = "discover" /\ UNCHANGED answer
  /\ UNCHANGED <<deployment, route, aborted, timer, listening, scoped, body, details,
                 status, delivered>>

(* createRequestScopedTimeoutSignal                                           *)
StartDiscovery ==
  /\ pc = "discover" /\ pc' = "wait"
  /\ scoped' = aborted
  /\ timer' = ~aborted /\ listening' = ~aborted
  /\ UNCHANGED <<deployment, route, aborted, body, details, status, delivered, answer>>

Timeout ==
  /\ timer /\ pc = "wait"
  /\ timer' = FALSE /\ scoped' = TRUE
  /\ UNCHANGED <<deployment, pc, route, aborted, listening, body, details, status,
                 delivered, answer>>

(* GET v1/models answers, fails, or is cut off by the scoped signal.  Either  *)
(* way the model id is the fallback, and the cleanup runs.                    *)
EndDiscovery ==
  /\ pc = "wait" /\ pc' = "post"
  /\ timer' = FALSE /\ listening' = FALSE
  /\ UNCHANGED <<deployment, route, aborted, scoped, body, details, status, delivered,
                 answer>>

(* The cut-off is certain; an answer of the model server is not.              *)
DiscoveryCutOff == scoped /\ EndDiscovery
DiscoveryAnswered == ~scoped /\ EndDiscovery

ClientLeaves ==
  /\ pc \notin {"idle", "done"} /\ ~aborted
  /\ aborted' = TRUE
  /\ scoped' = (scoped \/ listening)
  /\ UNCHANGED <<deployment, pc, route, timer, listening, body, details, status, delivered,
                 answer>>

(* The POST of the prompt, along either path.  An aborted signal or a network *)
(* failure rejects the fetch, which the error handler answers with 500; the   *)
(* model server may have got the prompt before.                               *)
PostRejected ==
  /\ pc = "post"
  /\ Respond(500)
  /\ delivered' \in IF aborted THEN {delivered} ELSE {delivered, delivered + 1}
  /\ UNCHANGED <<deployment, route, aborted, timer, listening, scoped, body, details, status>>

(* An answer without a body is a 502.                                         *)
PostAccepted ==
  /\ pc = "post" /\ ~aborted
  /\ delivered' = delivered + 1
  /\ \E code \in {200, 502} : Respond(code)
  /\ UNCHANGED <<deployment, route, aborted, timer, listening, scoped, body, details, status>>

(* An error.  Only a service that is not there is certain not to have got the *)
(* prompt.                                                                    *)
PostRefused(error) ==
  /\ pc = "post" /\ ~aborted
  /\ error = "missing" => route = "direct"
  /\ pc' = "read" /\ status' = error /\ details' = 0
  /\ delivered' \in IF error = "missing" THEN {delivered} ELSE {delivered, delivered + 1}
  /\ \E n \in (IF error = "missing" THEN 1 ELSE 0)..MaxBody :
       body' = [state |-> "open", left |-> n]
  /\ UNCHANGED <<deployment, route, aborted, timer, listening, scoped, answer>>

(* readUpstreamErrorDetails: chunks of any size until the body ends or the    *)
(* limit is reached, when the rest is cancelled.  A read that fails releases   *)
(* the reader and throws.                                                     *)
KeptOf(chunk) == IF chunk > MaxDetails - details THEN MaxDetails - details ELSE chunk

ReadChunk(chunk) ==
  /\ pc = "read" /\ body.state = "open" /\ chunk \in 1..body.left
  /\ details' = details + KeptOf(chunk)
  /\ IF chunk >= MaxDetails - details
     THEN body' = [state |-> "cancelled", left |-> body.left - KeptOf(chunk)] /\ pc' = "failed"
     ELSE body' = [body EXCEPT !.left = @ - chunk] /\ UNCHANGED pc
  /\ UNCHANGED <<deployment, route, aborted, timer, listening, scoped, status, delivered,
                 answer>>

ReadEnd ==
  /\ pc = "read" /\ body.state = "open" /\ body.left = 0
  /\ body' = [body EXCEPT !.state = "drained"] /\ pc' = "failed"
  /\ UNCHANGED <<deployment, route, aborted, timer, listening, scoped, details, status,
                 delivered, answer>>

ReadFails ==
  /\ pc = "read" /\ body.state = "open"
  /\ body' = [body EXCEPT !.state = "errored"] /\ Respond(500)
  /\ UNCHANGED <<deployment, route, aborted, timer, listening, scoped, details, status,
                 delivered>>

\* Mutant: the gateway is tried after any error.
TriesGatewayAlways == deployment.gateway /\ route = "direct"

(* isMissingServiceProxyResponse, which parses the body and so needs all of   *)
(* it, and an endpoint: on through the gateway, by its alias or the name      *)
(* resolved as before.                                                        *)
MissingService == status = "missing" /\ body.left = 0
TriesGateway == deployment.gateway /\ route = "direct" /\ MissingService

HandleFailure ==
  /\ pc = "failed"
  /\ IF TriesGateway
     THEN /\ route' = "gateway"
          /\ pc' = IF deployment.alias \/ deployment.named THEN "post" ELSE "discover"
          /\ UNCHANGED answer
     ELSE /\ Respond(IF StatusOf(status) \in PassedOn THEN StatusOf(status) ELSE 502)
          /\ UNCHANGED route
  /\ UNCHANGED <<deployment, aborted, timer, listening, scoped, body, details, status,
                 delivered>>

Next ==
  \/ Arrive \/ Lookup
  \/ StartDiscovery \/ Timeout \/ DiscoveryCutOff \/ DiscoveryAnswered
  \/ ClientLeaves
  \/ PostRejected \/ PostAccepted \/ \E error \in UpstreamErrors : PostRefused(error)
  \/ \E chunk \in 1..MaxBody : ReadChunk(chunk)
  \/ ReadEnd \/ ReadFails \/ HandleFailure

Spec == Init /\ [][Next]_cvars

-----------------------------------------------------------------------------
(* A prompt is received by a model server at most once: the gateway is tried   *)
(* only when the API server said that the service is not there.               *)
AtMostOneModel == delivered <= 1

(* An answered request leaves nothing behind: no timer, no listener on the    *)
(* client's signal, no error body that is still open; and what it kept of the *)
(* body is the whole of it or as much as the limit allows.                    *)
NothingLeftBehind ==
  pc = "done" =>
    /\ ~timer /\ ~listening
    /\ body.state # "open"
    /\ body.state = "cancelled" => details = MaxDetails
    /\ body.state = "drained" => body.left = 0
=============================================================================
