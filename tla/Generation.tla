----------------------------- MODULE Generation -----------------------------
(***************************************************************************)
(* The generator as operators: the provider it talks to and what it makes  *)
(* of the reply.  A candidate is [chunk, url, date].  A reply is a record  *)
(* whose kind is "raise" (the call failed), "malformed" (no JSON object,   *)
(* or a missing or blank answer), "sentinel", or "text" with an answer, a  *)
(* citation and a date, each of them Null where the JSON has a null; a     *)
(* missing date is empty.  The prompt, which a reply need not heed, and    *)
(* the confidence, which nothing reads, are left out.                      *)
(***************************************************************************)
EXTENDS ServingEnvironment, Integers, SequencesExt

CONSTANTS
  AnthropicKey,   \* ANTHROPIC_API_KEY is set
  Null            \* a JSON null

\* The Groq key wins; without the package there is no client at all, whatever
\* other key is set.
LlmClient ==
  CASE GroqKey -> IF GroqInstalled THEN "groq" ELSE "none"
    [] ~GroqKey /\ AnthropicKey -> "anthropic"
    [] OTHER -> "none"

-----------------------------------------------------------------------------
(* The reply *)

\* str() makes a word of a JSON null: an answer and a date like any other, and a
\* citation that no registry has.
AnswerText(v) == IF v = Null THEN <<"None">> ELSE v
FieldText(v) == IF v = Null THEN "None" ELSE v

Insufficient == [sentinel |-> TRUE, answer |-> <<>>, citation |-> "", date |-> ""]

\* The date of the first candidate from that page, else of the first candidate.
LastUpdatedForUrl(url, candidates) ==
  LET from == SelectInSeq(candidates, LAMBDA c : c.url = url)
  IN candidates[IF from = 0 THEN 1 ELSE from].date

\* The cited page: one of the registry, else that of the best candidate.
CitedPage(reply, candidates) ==
  IF FieldText(reply.citation) \in KnownSourceUrls THEN FieldText(reply.citation)
                                                   ELSE candidates[1].url

Draft(reply, candidates, date) ==
  [sentinel |-> FALSE, answer |-> AnswerText(reply.answer),
   citation |-> CitedPage(reply, candidates), date |-> date]

\* A bug: a missing date is always taken from the first candidate.
ParseResponseTopDate(reply, candidates) ==
  Draft(reply, candidates, IF FieldText(reply.date) = "" THEN candidates[1].date
                                                         ELSE FieldText(reply.date))

ParseResponse(reply, candidates) ==
  Draft(reply, candidates,
        IF FieldText(reply.date) = ""
        THEN LastUpdatedForUrl(CitedPage(reply, candidates), candidates)
        ELSE FieldText(reply.date))

Generate(candidates, below, reply) ==
  IF candidates = <<>> \/ below \/ reply.kind # "text"
  THEN Insufficient
  ELSE ParseResponse(reply, candidates)
=============================================================================
