------------------------- MODULE ServingEnvironment -------------------------
(***************************************************************************)
(* What the generator and the guardrails find in their environment.        *)
(***************************************************************************)
CONSTANTS
  GroqInstalled,    \* groq can be imported
  GroqKey,          \* GROQ_API_KEY is set
  KnownSourceUrls   \* the registry of pages an answer may cite

\* groq.Groq() raises without a key.
GroqClient == GroqInstalled /\ GroqKey
=============================================================================
