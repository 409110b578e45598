----------------------------- MODULE Retrieval -----------------------------
(***************************************************************************)
(* Hybrid retrieval as operators: query rewriting, the dense and sparse    *)
(* searches of each backend, reciprocal rank fusion, reranking and the     *)
(* score threshold.  A text is a set of words.  Similarities, BM25 scores  *)
(* and cross-encoder scores are not computed: a search returns its hits in *)
(* any order.  Fusion scores are exact, as multiples of 1/ScoreUnit.       *)
(***************************************************************************)
EXTENDS Integers, SequencesExt

CONSTANTS
  RrfK,            \* rrf_k
  MaxRank,         \* bound: the longest hit list of an instance
  ScoreUnit,       \* bound: a common multiple of rrf_k + 1, ..., rrf_k + MaxRank
  TopKSearch,      \* top_k_dense and top_k_sparse
  TopKRrf,         \* top_k_rrf
  TopNRerank,      \* top_n_rerank
  ThresholdInverse,\* the score threshold is 1 / ThresholdInverse
  RerankerConfig,  \* the "reranker" section of the configuration
  RewriterLlm,     \* the rewriter asks an LLM: use_llm and groq installed
  Abbreviations    \* abbreviations and the words they stand for

ASSUME RetrievalAssumption ==
  /\ {RrfK, MaxRank, TopKSearch, TopKRrf, TopNRerank} \subseteq Nat
  /\ {ScoreUnit, ThresholdInverse} \subseteq Nat \ {0}
  /\ \A i \in 1..MaxRank : ScoreUnit % (RrfK + i) = 0

Truncate(s, n) == SubSeq(s, 1, Min({n, Len(s)}))

\* The sequences a ranked search may return for a set of hits.
Rankings(hits, n) == {Truncate(s, n) : s \in SetToSeqs(hits)}

-----------------------------------------------------------------------------
(* Query rewriting *)

\* _ABBREVS is applied to whole words, in one pass.
ExpandAbbreviations(words) ==
  UNION {IF w \in DOMAIN Abbreviations THEN Abbreviations[w] ELSE {w} : w \in words}

\* What the LLM returns replaces the query unless it is empty; an exception and
\* a missing client leave the rule-based expansion.
Rewrite(words, llmText) ==
  IF RewriterLlm /\ llmText # {} THEN llmText ELSE ExpandAbbreviations(words)

-----------------------------------------------------------------------------
(* Searches: a row is [chunk, version, scheme, deleted, words]; scheme "any" *)
(* stands for no scheme filter                                               *)

SchemeAdmits(scheme, row) == scheme \in {"any", row.scheme}

\* The version filter is left out when the version is the empty string.
ChromaQuery(rows, version, scheme) ==
  Rankings({r.chunk : r \in {x \in rows : /\ ~x.deleted
                                          /\ version \in {"", x.version}
                                          /\ SchemeAdmits(scheme, x)}}, TopKSearch)

PgDenseSearch(rows, version, scheme) ==
  Rankings({r.chunk : r \in {x \in rows : /\ ~x.deleted
                                          /\ x.version = version
                                          /\ SchemeAdmits(scheme, x)}}, TopKSearch)

\* The in-memory index has no notion of deletion.
MemoryDenseSearch(rows, version, scheme) ==
  Rankings({r.chunk : r \in {x \in rows : /\ x.version = version
                                          /\ SchemeAdmits(scheme, x)}}, TopKSearch)

\* A document scores above zero exactly when it has a word of the query: idf is
\* the logarithm of a number above 1.
MemoryBm25Search(rows, words, version, scheme) ==
  Rankings({r.chunk : r \in {x \in rows : /\ x.version = version
                                          /\ SchemeAdmits(scheme, x)
                                          /\ x.words \cap words # {}}}, TopKSearch)

\* The statement has a placeholder for each of these ...
PgSparsePlaceholders(scheme) ==
  <<"rank query", "version">> \o (IF scheme = "any" THEN <<>> ELSE <<"scheme">>)
                              \o <<"match query", "limit">>

\* ... and is executed with these parameters.
PgSparseParams(scheme) ==
  <<"query", "version">> \o (IF scheme = "any" THEN <<>> ELSE <<"scheme">>)
                         \o <<"query", "query", "top_k">>

\* The driver raises unless there is a parameter for each placeholder: no
\* sequence of hits is returned then.
PgSparseSearch(rows, words, version, scheme) ==
  IF Len(PgSparseParams(scheme)) # Len(PgSparsePlaceholders(scheme))
  THEN {}
  ELSE Rankings({r.chunk : r \in {x \in rows : /\ ~x.deleted
                                               /\ x.version = version
                                               /\ SchemeAdmits(scheme, x)
                                               /\ words \subseteq x.words}}, TopKSearch)

-----------------------------------------------------------------------------
(* Fusion, reranking, threshold *)

\* The rank of a chunk in a hit list, 0 when it is not there.
Rank(list, c) == SelectInSeq(list, LAMBDA x : x = c)

\* A search returns a chunk at most once.
RankScore(list, c) ==
  IF Rank(list, c) = 0 THEN 0 ELSE ScoreUnit \div (RrfK + Rank(list, c))

\* A bug: a chunk found by both searches keeps only its dense contribution.
RrfScoreFirstListOnly(dense, sparse, c) ==
  IF Contains(dense, c) THEN RankScore(dense, c) ELSE RankScore(sparse, c)

RrfScore(dense, sparse, c) == RankScore(dense, c) + RankScore(sparse, c)

\* Python's sort is stable: ties stay in the order in which the dictionary got
\* its keys, dense hits before the remaining sparse hits.
Ahead(dense, sparse, c, d) ==
  \/ RrfScore(dense, sparse, c) > RrfScore(dense, sparse, d)
  \/ /\ RrfScore(dense, sparse, c) = RrfScore(dense, sparse, d)
     /\ Rank(dense \o sparse, c) < Rank(dense \o sparse, d)

\* The chunk with i - 1 others ahead of it is the i-th.
RrfFuse(dense, sparse) ==
  LET chunks == ToSet(dense \o sparse)
      place(c) == 1 + Cardinality({d \in chunks : Ahead(dense, sparse, d, c)})
  IN Truncate([i \in 1..Cardinality(chunks) |-> CHOOSE c \in chunks : place(c) = i], TopKRrf)

\* The factory reads the key "provider"; without it nothing is reranked.
RerankerProvider ==
  IF "provider" \in DOMAIN RerankerConfig THEN RerankerConfig.provider
                                          ELSE "passthrough"

\* Results are the candidates, best first, and the scaled score of the first.
PassthroughRerank(dense, sparse) ==
  LET fused == RrfFuse(dense, sparse) IN
  {[candidates |-> Truncate(fused, TopNRerank),
    top |-> IF fused = <<>> THEN 0 ELSE RrfScore(dense, sparse, fused[1])]}

CrossEncoderRerank(dense, sparse) ==
  {[candidates |-> s, top |-> t] :
     s \in Rankings(ToSet(RrfFuse(dense, sparse)), TopNRerank), t \in {0, ScoreUnit}}

Rerank(dense, sparse) ==
  IF RerankerProvider = "passthrough" THEN PassthroughRerank(dense, sparse)
                                      ELSE CrossEncoderRerank(dense, sparse)

\* candidates[0].score < threshold
BelowThreshold(result) ==
  result.candidates # <<>> /\ result.top * ThresholdInverse < ScoreUnit

\* What HybridRetriever.retrieve returns for the two hit lists.
RetrievalResults(dense, sparse) ==
  {[candidates |-> IF BelowThreshold(r) THEN <<>> ELSE r.candidates,
    below |-> BelowThreshold(r)] : r \in Rerank(dense, sparse)}
=============================================================================
