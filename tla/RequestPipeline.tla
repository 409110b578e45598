-------------------------- MODULE RequestPipeline --------------------------
(***************************************************************************)
(* RAGPipeline.run for several requests at once, over the thread pool they *)
(* share: every stage is a call handed to the event loop's default         *)
(* executor and awaited, the input guard for at most 5 and the retrieval   *)
(* for at most 30 seconds.  A call given up while it waits for a worker is *)
(* cancelled; one that runs keeps its worker until it returns, if it does. *)
(* The retriever is the deployed one, over the Chroma collection.          *)
(***************************************************************************)
EXTENDS Guardrails, Generation, Retrieval

CONSTANTS
  Requests,
  Queries,      \* bound: the queries asked
  Collection,   \* the rows of the Chroma collection
  Pages,        \* the page, [url, date], of each chunk
  LlmReplies,   \* bound: what an LLM may reply besides failing
  PoolSizes     \* bound: how many threads the executor may have

\* A reply without an answer is malformed, not text.
ASSUME PipelineAssumption ==
  /\ IsFiniteSet(Collection)
  /\ PoolSizes \subseteq Nat \ {0} /\ Queries \subseteq Query
  /\ \A reply \in LlmReplies :
       reply.kind = "text" =>
         AnswerText(reply.answer) \in Seq(STRING) /\ AnswerText(reply.answer) # <<>>

VARIABLES
  stage,      \* of each request: "new", the stage it awaits, "done"
  query,
  queue,      \* calls waiting for a worker, first in first out
  running,    \* calls that have one
  hung,       \* those of them that never return
  verdict,    \* input_result: "none", "passed", "refused", "late", "raised"
  found,      \* retrieval.candidates
  generated,  \* gen_response
  response,   \* what run returned
  embedder,   \* "ready", or "stuck" since the warm-up
  workers     \* threads of the executor

vars == <<stage, query, queue, running, hung, verdict, found, generated,
          response, embedder, workers>>

Call(r, s) == [request |-> r, stage |-> s]

-----------------------------------------------------------------------------
(* Responses *)

NoResponse == [sentinel |-> "none", answer |-> <<>>, citation |-> "", date |-> "",
               vetted |-> FALSE]
RefusalResponse == [NoResponse EXCEPT !.sentinel = "REFUSAL", !.citation = "amfi"]
InsufficientResponse ==
  [NoResponse EXCEPT !.sentinel = "INSUFFICIENT_CONTEXT", !.citation = "amfi"]

\* `vetted` records that the output guard has seen the answer.
Answer(gen, answer, vetted) ==
  [sentinel |-> "ANSWER", answer |-> answer, citation |-> gen.citation,
   date |-> gen.date, vetted |-> vetted]

Return(r, resp) ==
  /\ stage' = [stage EXCEPT ![r] = "done"]
  /\ response' = [response EXCEPT ![r] = resp]

\* run_in_executor: the call queues up, and the request waits for it.
Submit(r, s, waiting) ==
  /\ stage' = [stage EXCEPT ![r] = s]
  /\ queue' = Append(waiting, Call(r, s))

-----------------------------------------------------------------------------

\* The warm-up thread is given 60 seconds; startup goes on either way.
WarmupEmbedder == {"ready", "stuck"}

Init ==
  /\ stage = [r \in Requests |-> "new"]
  /\ query \in [Requests -> Queries]
  /\ queue = <<>>
  /\ running = {} /\ hung = {}
  /\ verdict = [r \in Requests |-> "none"]
  /\ found = [r \in Requests |-> <<>>]
  /\ generated = [r \in Requests |-> Insufficient]
  /\ response = [r \in Requests |-> NoResponse]
  /\ embedder \in WarmupEmbedder
  /\ workers \in PoolSizes

Ask(r) ==
  /\ stage[r] = "new"
  /\ Submit(r, "guard", queue)
  /\ UNCHANGED <<query, running, hung, verdict, found, generated, response, embedder, workers>>

\* A bug: a call gets a thread of its own.
StartUnbounded ==
  /\ queue # <<>>
  /\ queue' = Tail(queue)
  /\ running' = running \cup {Head(queue)}
  /\ UNCHANGED <<stage, query, hung, verdict, found, generated, response, embedder, workers>>

\* A worker takes the oldest call.  Embedding with a stuck model never returns.
Start ==
  /\ queue # <<>> /\ Cardinality(running) < workers
  /\ queue' = Tail(queue)
  /\ running' = running \cup {Head(queue)}
  /\ hung' = IF Head(queue).stage = "retrieve" /\ embedder = "stuck"
             THEN hung \cup {Head(queue)} ELSE hung
  /\ UNCHANGED <<stage, query, verdict, found, generated, response, embedder, workers>>

\* A retrieval may hang on the network too; one worker at least keeps returning.
Hang(r) ==
  /\ Call(r, "retrieve") \in running \ hung
  /\ Cardinality(hung) + 1 < workers   \* bound
  /\ hung' = hung \cup {Call(r, "retrieve")}
  /\ UNCHANGED <<stage, query, queue, running, verdict, found, generated, response,
                 embedder, workers>>

\* A bug: the call returns into a request that has given it up.
ReturnsLate(r, s) ==
  /\ Call(r, s) \in running \ hung
  /\ running' = running \ {Call(r, s)}
  /\ UNCHANGED <<query, hung, embedder, workers>>

\* The call returns to the request that awaits it.
Returns(r, s) ==
  /\ Call(r, s) \in running \ hung
  /\ stage[r] = s
  /\ running' = running \ {Call(r, s)}
  /\ UNCHANGED <<query, hung, embedder, workers>>

\* The call returns and nobody awaits it any more.
Discard(r, s) ==
  /\ Call(r, s) \in running \ hung
  /\ stage[r] # s
  /\ running' = running \ {Call(r, s)}
  /\ UNCHANGED <<stage, query, queue, hung, verdict, found, generated, response,
                 embedder, workers>>

\* wait_for gives up: a call still queued is cancelled.
Cancel(r, s) == RemoveFirst(queue, Call(r, s))

\* A bug: a refused query goes on to the retrieval.
FinishGuardOpen(r) ==
  /\ Returns(r, "guard")
  /\ verdict' = [verdict EXCEPT ![r] = "passed"]
  /\ Submit(r, "retrieve", queue)
  /\ UNCHANGED <<found, generated, response>>

FinishGuard(r) ==
  /\ Returns(r, "guard")
  /\ \E label \in LlmLabels :
       IF InputPassed(query[r], label)
       THEN /\ verdict' = [verdict EXCEPT ![r] = "passed"]
            /\ Submit(r, "retrieve", queue)
            /\ UNCHANGED response
       ELSE /\ verdict' = [verdict EXCEPT ![r] = "refused"]
            /\ Return(r, RefusalResponse)
            /\ UNCHANGED queue
  /\ UNCHANGED <<found, generated>>

\* A guard that raises lets the query through,
GuardRaises(r) ==
  /\ Returns(r, "guard")
  /\ verdict' = [verdict EXCEPT ![r] = "raised"]
  /\ Submit(r, "retrieve", queue)
  /\ UNCHANGED <<found, generated, response>>

\* A bug: a timer is set for a call once it has a worker, not for one that queues.
TimeoutGuardOfRunning(r) ==
  /\ Call(r, "guard") \in running
  /\ stage[r] = "guard"
  /\ verdict' = [verdict EXCEPT ![r] = "late"]
  /\ Submit(r, "retrieve", queue)
  /\ UNCHANGED <<query, running, hung, found, generated, response, embedder, workers>>

\* and so does one that is late.
TimeoutGuard(r) ==
  /\ stage[r] = "guard"
  /\ verdict' = [verdict EXCEPT ![r] = "late"]
  /\ Submit(r, "retrieve", Cancel(r, "guard"))
  /\ UNCHANGED <<query, running, hung, found, generated, response, embedder, workers>>

\* The pointer of the Chroma retriever is "", its BM25 index is empty and no
\* scheme filter is passed.
Retrieved ==
  UNION {RetrievalResults(dense, <<>>) : dense \in ChromaQuery(Collection, "", "any")}

Candidate(c) == [chunk |-> c, url |-> Pages[c].url, date |-> Pages[c].date]

FinishRetrieve(r) ==
  /\ Returns(r, "retrieve")
  /\ \E result \in Retrieved :
       /\ found' = [found EXCEPT ![r] = [i \in DOMAIN result.candidates |->
                                           Candidate(result.candidates[i])]]
       /\ IF result.below \/ result.candidates = <<>>
          THEN Return(r, InsufficientResponse) /\ UNCHANGED queue
          ELSE Submit(r, "generate", queue) /\ UNCHANGED response
  /\ UNCHANGED <<verdict, generated>>

RetrieveRaises(r) ==
  /\ Returns(r, "retrieve")
  /\ Return(r, InsufficientResponse)
  /\ UNCHANGED <<queue, verdict, found, generated>>

\* A bug: the timeout leaves the call to a worker.
TimeoutRetrieveUncancelled(r) ==
  /\ stage[r] = "retrieve"
  /\ Return(r, InsufficientResponse)
  /\ UNCHANGED <<query, queue, running, hung, verdict, found, generated, embedder, workers>>

TimeoutRetrieve(r) ==
  /\ stage[r] = "retrieve"
  /\ Return(r, InsufficientResponse)
  /\ queue' = Cancel(r, "retrieve")
  /\ UNCHANGED <<query, running, hung, verdict, found, generated, embedder, workers>>

\* Without a client every call to the LLM raises.
Replies ==
  {[kind |-> "raise", answer |-> <<>>, citation |-> "", date |-> ""]}
    \cup (IF LlmClient = "none" THEN {} ELSE LlmReplies)

FinishGenerate(r) ==
  /\ Returns(r, "generate")
  /\ \E reply \in Replies :
       LET gen == Generate(found[r], FALSE, reply) IN
       /\ generated' = [generated EXCEPT ![r] = gen]
       /\ IF gen.sentinel
          THEN Return(r, InsufficientResponse) /\ UNCHANGED queue
          ELSE Submit(r, "check", queue) /\ UNCHANGED response
  /\ UNCHANGED <<verdict, found>>

FinishCheck(r) ==
  /\ Returns(r, "check")
  /\ \E ruling \in Rulings :
       LET output == OutputVerdict(generated[r], found[r], ruling) IN
       Return(r, IF output.passed THEN Answer(generated[r], output.answer, TRUE)
                                  ELSE InsufficientResponse)
  /\ UNCHANGED <<queue, verdict, found, generated>>

\* An output guard that raises lets the answer through as it is.
CheckRaises(r) ==
  /\ Returns(r, "check")
  /\ Return(r, Answer(generated[r], generated[r].answer, FALSE))
  /\ UNCHANGED <<queue, verdict, found, generated>>

Finish(r) ==
  \/ FinishGuard(r) \/ GuardRaises(r)
  \/ FinishRetrieve(r) \/ RetrieveRaises(r)
  \/ FinishGenerate(r)
  \/ FinishCheck(r) \/ CheckRaises(r)
  \/ \E s \in {"guard", "retrieve"} : Discard(r, s)

Next ==
  \/ Start
  \/ \E r \in Requests :
       Ask(r) \/ Hang(r) \/ Finish(r) \/ TimeoutGuard(r) \/ TimeoutRetrieve(r)

Spec == Init /\ [][Next]_vars

\* The pool serves its queue, calls that are not stuck return, and the two
\* timers fire.  Nothing is assumed of requests to come or of a hanging call.
FairSpec ==
  /\ Spec
  /\ WF_vars(Start)
  /\ \A r \in Requests : /\ WF_vars(Finish(r))
                         /\ WF_vars(TimeoutGuard(r))
                         /\ WF_vars(TimeoutRetrieve(r))

-----------------------------------------------------------------------------
(* Properties *)

Stages == {"guard", "retrieve", "generate", "check"}
Calls == [request : Requests, stage : Stages]

TypeOK ==
  /\ stage \in [Requests -> Stages \cup {"new", "done"}]
  /\ query \in [Requests -> Queries]
  /\ queue \in Seq(Calls)
  /\ running \subseteq Calls /\ hung \subseteq running
  /\ Cardinality(running) <= workers
  /\ verdict \in [Requests -> {"none", "passed", "refused", "late", "raised"}]
  /\ \A r \in Requests :
       response[r].sentinel \in {"none", "REFUSAL", "INSUFFICIENT_CONTEXT", "ANSWER"}
  /\ embedder \in WarmupEmbedder
  /\ workers \in PoolSizes

\* The pool and the requests agree: a request that awaits a call has it exactly
\* once in the queue or on a worker, and no call somebody gave up is still in
\* the queue, where it would take a worker from a request that waits.
QueueHoldsAwaited ==
  /\ \A r \in Requests :
       stage[r] \in Stages =>
         \/ Call(r, stage[r]) \in running
         \/ \E i \in DOMAIN queue : queue[i] = Call(r, stage[r])
  /\ \A i \in DOMAIN queue :
       /\ stage[queue[i].request] = queue[i].stage
       /\ queue[i] \notin running
       /\ \A j \in DOMAIN queue : queue[i] = queue[j] => i = j

\* A query with personal data or an injected instruction, and one the rules
\* refuse where there is no LLM to overrule them, is answered only after the input
\* guard was late or raised.
RefusedStaysOut ==
  \A r \in Requests :
    /\ \/ query[r].pii # {}
       \/ query[r].injection
       \/ query[r].advisory /\ ~IntentLlm
    /\ found[r] # <<>> \/ response[r].sentinel = "ANSWER"
    => verdict[r] \in {"late", "raised"}

\* Whatever the LLM replied, an answer the output guard has seen is short enough,
\* gives no advice and cites a page of the registry; one it failed on still cites
\* a page of the registry or that of the best candidate.
ShownAnswerVetted ==
  \A r \in Requests :
    response[r].sentinel = "ANSWER" =>
      IF response[r].vetted
      THEN /\ Len(response[r].answer) \in 1..MaxSentences
           /\ \A i \in DOMAIN response[r].answer : response[r].answer[i] # "advice"
           /\ response[r].citation \in KnownSourceUrls
      ELSE response[r].citation \in KnownSourceUrls \cup {found[r][1].url}

\* A date the LLM left out is filled in from a candidate of the page the answer
\* cites, when there is one.  Only a date the reply has is shown as it is, whatever
\* it is: a JSON null counts as one and is shown as "None".
DateOfCitedPage ==
  \A r \in Requests :
    /\ response[r].sentinel = "ANSWER"
    /\ response[r].date \notin {FieldText(reply.date) : reply \in LlmReplies} \ {""}
    /\ response[r].citation \in {found[r][i].url : i \in DOMAIN found[r]}
    => \E i \in DOMAIN found[r] :
         found[r][i].url = response[r].citation /\ found[r][i].date = response[r].date

\* A call that returns after its request gave it up, whatever it returns, changes
\* neither the request nor its answer, nor what the later stages work on.
LateResultIgnored ==
  [][\A r \in Requests :
       /\ stage[r] = "done" => /\ stage'[r] = "done"
                               /\ response'[r] = response[r]
       /\ stage[r] # "retrieve" => found'[r] = found[r]
       /\ stage[r] # "guard" => verdict'[r] = verdict[r]]_vars

\* Every request is answered, even when no retrieval ever returns because the
\* embedder is stuck: the guards and retrievals behind the hanging calls time out,
\* and nothing reaches the stages without a timer.
EveryRequestEnds == \A r \in Requests : stage[r] = "guard" ~> stage[r] = "done"
=============================================================================
