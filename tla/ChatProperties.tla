-------------------------- MODULE ChatProperties --------------------------
(***************************************************************************)
(* What a conversation thread promises to its users and to the retriever   *)
(* that reads its history, stated over module ChatThreads.                 *)
(***************************************************************************)
EXTENDS ChatThreads

\* Variables are well typed, and the locks and the event loop are only held by
\* requests at the points of the handler that are inside them.
TypeOK ==
  /\ status \in [Threads -> {"unborn", "stored", "gone"}]
  /\ messages \in [Threads -> Seq(Message)]
  /\ lock \in [Instances \X Threads -> Requests \cup {None}]
  /\ queue \in [Instances \X Threads -> Seq(Requests)]
  /\ loop \in [Instances -> Requests \cup {None}]
  /\ req \in [Requests -> Request]
  /\ \A q \in Requests : req[q].pc # "new" => req[q].thread \in Threads
  /\ \A q \in Requests, k \in Instances \X Threads :
       lock[k] = q => req[q].pc \in Holding /\ Key(q) = k
  /\ \A q \in Requests, i \in Instances :
       loop[i] = q => req[q].pc \in Section /\ Home[q] = i
  /\ faults \in Nat

\* The in-flight lock "prevents concurrent requests on the same thread from
\* producing interleaved message history": an answer directly follows the
\* question it answers, whichever requests wait, fail, crash or are deleted.
AnswersFollowQuestions ==
  \A t \in Threads : \A k \in DOMAIN messages[t] :
    messages[t][k].role = "assistant" =>
      k > 1 /\ messages[t][k - 1] = User(messages[t][k].of)

\* A turn whose answer the client received stays in the thread's history until
\* the thread is deleted or expires: no later request overwrites it.
AcknowledgedTurnKept ==
  \A q \in Requests :
    req[q].result = "ok" /\ status[req[q].thread] = "stored" =>
      \E k \in DOMAIN messages[req[q].thread] :
        /\ k > 1
        /\ messages[req[q].thread][k - 1] = User(q)
        /\ messages[req[q].thread][k] = Assistant(q)

\* The history a request's query is rewritten with ends with its own question
\* and otherwise only holds messages of requests that have ended: it is never
\* mixed with a turn still in progress.
WindowSettled ==
  \A q \in Requests : req[q].pc = "running" =>
    /\ req[q].window # <<>>
    /\ req[q].window[Len(req[q].window)] = User(q)
    /\ \A k \in DOMAIN req[q].window :
         req[q].window[k].of # q => req[req[q].window[k].of].pc = "done"

\* A thread's history is only ever appended to, and a thread that was deleted
\* or has expired does not come back: an answer that arrives afterwards is not
\* saved into a new row.
HistoryOnlyGrows ==
  [][\A t \in Threads :
       /\ status[t] = "gone" => status'[t] = "gone"
       /\ status[t] = "stored" /\ status'[t] = "stored" =>
            /\ Len(messages'[t]) >= Len(messages[t])
            /\ SubSeq(messages'[t], 1, Len(messages[t])) = messages[t]]_vars

\* Every request that found its thread gets a response (or dies with the
\* process): no failure, deletion or expiry leaves the lock held for ever.
EveryRequestEnds ==
  \A q \in Requests : req[q].pc \in Holding \cup {"waiting"} ~> req[q].pc = "done"
=============================================================================
