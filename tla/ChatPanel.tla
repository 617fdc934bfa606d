------------------------------ MODULE ChatPanel ------------------------------
(* The chat panel of the web UI, ChatPanel.tsx: one conversation with the      *)
(* deployment the page shows, replies that arrive as a stream, an abort when   *)
(* the page shows another deployment or goes away.  Each handler and each      *)
(* resumption after an await is an action.                                     *)
EXTENDS Naturals, Sequences, FiniteSets, SequencesExt

CONSTANTS
  Deployments,  \* the deployments whose page may be shown
  MaxSends,     \* bound: messages sent
  MaxSwitches   \* bound: changes of the deployment that is shown

VARIABLES
  target,     \* the deployment shown
  mounted,    \* mountedRef
  messages,   \* the conversation: who wrote it, in which send, has it text
  error,      \* the send whose error is shown, or 0
  streaming,  \* isStreaming
  current,    \* abortControllerRef: the send whose controller it holds, or 0
  sends,      \* the sends, each with its deployment and how far it is
  switches    \* changes of deployment so far

pvars == <<target, mounted, messages, error, streaming, current, sends, switches>>

Ids == DOMAIN sends
Live(i) == sends[i].pc # "ended"
Message(role, i, text) == [role |-> role, send |-> i, text |-> text]

(* abort() of the controller in the ref, if there is one.                      *)
Aborted(all) == IF current = 0 THEN all ELSE [all EXCEPT ![current].aborted = TRUE]
Heard(i) == mounted /\ ~sends[i].aborted

(* handleSend up to its first await.                                           *)
Send ==
  LET i == Len(sends) + 1 IN
  /\ mounted /\ ~streaming /\ i <= MaxSends
  /\ sends' = Append(Aborted(sends), [of |-> target, pc |-> "posted", aborted |-> FALSE, some |-> FALSE])
  /\ current' = i /\ error' = 0 /\ streaming' = TRUE
  /\ messages' = messages \o <<Message("user", i, TRUE), Message("assistant", i, FALSE)>>
  /\ UNCHANGED <<target, mounted, switches>>

(* The finally block, after what the block before it did to the rest.          *)
Finally(i) ==
  /\ sends' = [sends EXCEPT ![i].pc = "ended"]
  /\ current' = IF current = i THEN 0 ELSE current
  /\ streaming' = IF Heard(i) THEN FALSE ELSE streaming
  /\ UNCHANGED <<target, mounted, switches>>

\* Mutant: the error of a send that was given up is shown.
FailAloud(i) ==
  /\ Live(i)
  /\ error' = i
  /\ UNCHANGED messages
  /\ Finally(i)

(* The catch block: an abort, and whatever comes after it, says nothing; an    *)
(* error is shown and takes an empty reply with it, the one message that has   *)
(* the reply's id, if it is there.                                             *)
Replies(i) == {k \in DOMAIN messages : messages[k].send = i /\ messages[k].role = "assistant"}
Fail(i) ==
  /\ Live(i)
  /\ error' = IF Heard(i) THEN i ELSE error
  /\ IF Heard(i) /\ ~sends[i].some /\ Replies(i) # {}
     THEN \E k \in Replies(i) : messages' = RemoveAt(messages, k)
     ELSE UNCHANGED messages
  /\ Finally(i)

(* The response arrives and its stream is read.                                *)
Respond(i) ==
  /\ sends[i].pc = "posted" /\ ~sends[i].aborted
  /\ sends' = [sends EXCEPT ![i].pc = "reading"]
  /\ UNCHANGED <<target, mounted, messages, error, streaming, current, switches>>

(* A chunk with text: appendAssistantContent.                                  *)
Chunk(i) ==
  /\ sends[i].pc = "reading" /\ Heard(i)
  /\ messages' = [k \in DOMAIN messages |->
                    IF messages[k].send = i /\ messages[k].role = "assistant"
                    THEN [messages[k] EXCEPT !.text = TRUE] ELSE messages[k]]
  /\ sends' = [sends EXCEPT ![i].some = TRUE]
  /\ UNCHANGED <<target, mounted, error, streaming, current, switches>>

(* "[DONE]", the end of the stream, or a read that returns after an abort.     *)
Done(i) ==
  /\ sends[i].pc = "reading"
  /\ Finally(i) /\ UNCHANGED <<messages, error>>

Clear ==
  /\ mounted /\ ~streaming /\ messages # << >>
  /\ messages' = << >> /\ error' = 0
  /\ UNCHANGED <<target, mounted, streaming, current, sends, switches>>

(* The effect on deploymentName and namespace.                                 *)
Show(d) ==
  /\ mounted /\ d # target /\ switches < MaxSwitches /\ switches' = switches + 1
  /\ target' = d
  /\ sends' = Aborted(sends) /\ current' = 0
  /\ messages' = << >> /\ error' = 0 /\ streaming' = FALSE
  /\ UNCHANGED mounted

(* The clean-up of the first effect.                                           *)
Unmount ==
  /\ mounted /\ mounted' = FALSE
  /\ sends' = Aborted(sends) /\ current' = 0
  /\ UNCHANGED <<target, messages, error, streaming, switches>>

Init ==
  /\ target \in Deployments /\ mounted = TRUE
  /\ messages = << >> /\ error = 0 /\ streaming = FALSE /\ current = 0
  /\ sends = << >> /\ switches = 0

Next ==
  \/ Send \/ Clear \/ Unmount
  \/ \E d \in Deployments : Show(d)
  \/ \E i \in Ids : Respond(i) \/ Chunk(i) \/ Done(i) \/ Fail(i)

Spec == Init /\ [][Next]_pvars

-----------------------------------------------------------------------------
TypeOK ==
  /\ target \in Deployments /\ mounted \in BOOLEAN /\ streaming \in BOOLEAN
  /\ error \in {0} \cup Ids /\ current \in {0} \cup Ids
  /\ \A k \in DOMAIN messages : messages[k].send \in Ids

(* What the panel shows is of the deployment it names: its messages, and the   *)
(* error under them, which is that of the last message sent.  And the input is *)
(* locked exactly while a reply is awaited that will be shown: one that was    *)
(* given up neither unlocks the input under the reply of the next deployment   *)
(* nor keeps it locked.                                                        *)
NothingFromElsewhere ==
  mounted =>
    /\ \A k \in DOMAIN messages : sends[messages[k].send].of = target
    /\ error # 0 => sends[error].of = target /\ error = Len(sends)
    /\ streaming = (\E i \in Ids : Live(i) /\ ~sends[i].aborted)
=============================================================================
