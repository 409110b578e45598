----------------------------- MODULE Guardrails -----------------------------
(***************************************************************************)
(* The checks of phase 8 before retrieval and after generation, as         *)
(* operators.  The patterns over text are abstract: a query is the record  *)
(* of the families of patterns that match it, an answer a sequence of      *)
(* sentences, each with its kind.  What is kept is the order of the        *)
(* checks, their early returns and the paths on which they let text pass.  *)
(***************************************************************************)
EXTENDS ServingEnvironment, Integers, Sequences

CONSTANTS
  IntentLlm,        \* the intent classifier is configured to ask an LLM
  JudgeLlm,         \* the groundedness judge is enabled
  MaxSentences      \* sentences an answer may keep

ASSUME GuardAssumption ==
  /\ {IntentLlm, JudgeLlm, GroqInstalled, GroqKey} \subseteq BOOLEAN
  /\ MaxSentences \in Nat \ {0}

Intents == {"FACTUAL", "ADVISORY", "PERFORMANCE_CALC", "OUT_OF_SCOPE"}

-----------------------------------------------------------------------------
(* Before retrieval *)

\* The order in which the PII patterns are applied.
PiiPatterns == <<"PAN", "phone", "Aadhaar", "email">>

\* A query's `pii` is its set of suspicious tokens, each the set of patterns
\* it matches: a number with a country code matches "phone" and "Aadhaar".
Query == [pii : SUBSET ((SUBSET {"PAN", "phone", "Aadhaar", "email"}) \ {{}}),
          injection : BOOLEAN, advisory : BOOLEAN, performance : BOOLEAN,
          nonFund : BOOLEAN, namedFund : BOOLEAN, knownScheme : BOOLEAN]

\* A redacted token is not there for the patterns that follow.
Scrub(q) ==
  {PiiPatterns[i] : i \in {j \in DOMAIN PiiPatterns :
     \E token \in q.pii :
       /\ PiiPatterns[j] \in token
       /\ \A k \in 1..(j - 1) : PiiPatterns[k] \notin token}}

\* The first family of injection patterns that matches, if any.
InjectionDetected(q) == q.injection

RuleBased(q) ==
  CASE q.advisory -> "ADVISORY"
    [] ~q.advisory /\ q.performance -> "PERFORMANCE_CALC"
    [] ~q.advisory /\ ~q.performance
         /\ (q.nonFund \/ (q.namedFund /\ ~q.knownScheme)) -> "OUT_OF_SCOPE"
    [] OTHER -> "FACTUAL"

\* Without groq or its key the classifier and the judge are built without a client.
IntentClient == IntentLlm /\ GroqClient
JudgeClient == JudgeLlm /\ GroqClient

\* An exception, and a label that is not an intent, fall back to the rules.
Classify(q, label) ==
  IF IntentClient /\ label \in Intents THEN label ELSE RuleBased(q)

\* The label the LLM gives, where there is one: what it returned, or no label.
LlmLabels == IF IntentClient THEN Intents \cup {"none"} ELSE {"none"}

InputVerdict(q, label) ==
  CASE Scrub(q) # {} -> "pii"
    [] Scrub(q) = {} /\ InjectionDetected(q) -> "injection"
    [] OTHER -> Classify(q, label)

InputPassed(q, label) == InputVerdict(q, label) = "FACTUAL"

-----------------------------------------------------------------------------
(* After generation *)

AdviceDetected(answer) == \E i \in DOMAIN answer : answer[i] = "advice"

\* The prompt's footer line starts with a capital letter after a full stop, so
\* the splitter counts it as a sentence of its own.
SplitSentences(answer) == answer

\* A bug: the limit itself is not counted in.
EnforceOneMore(answer) ==
  IF Len(SplitSentences(answer)) <= MaxSentences + 1
  THEN answer
  ELSE SubSeq(SplitSentences(answer), 1, MaxSentences)

Enforce(answer) ==
  IF Len(SplitSentences(answer)) <= MaxSentences
  THEN answer
  ELSE SubSeq(SplitSentences(answer), 1, MaxSentences)

\* A judge's ruling is grounded, with a score at or above the threshold or
\* below it, or not; an exception and an answer without context pass.
Rulings == IF JudgeClient THEN {"supported", "lowScore", "unsupported", "error"}
                          ELSE {"passthrough"}

Grounded(ruling, candidates) ==
  \/ ~JudgeClient
  \/ candidates = <<>>
  \/ ruling \in {"supported", "error"}

\* The verdict on a generated response, and the answer that may be shown.
OutputVerdict(response, candidates, ruling) ==
  LET kept == Enforce(response.answer) IN
  IF \/ AdviceDetected(response.answer)
     \/ response.citation \notin KnownSourceUrls
     \/ ~Grounded(ruling, candidates)
  THEN [passed |-> FALSE, answer |-> <<>>]
  ELSE [passed |-> TRUE, answer |-> kept]
=============================================================================
