---------------------------- MODULE PageToAnswer ----------------------------
(***************************************************************************)
(* One page on its way to the candidates of a question: it is chunked, its *)
(* chunks are indexed under their ids, both searches run over the index    *)
(* and their hits are fused, reranked and cut by the threshold.  The steps *)
(* are sequential; what varies is the page and the order of the hits.      *)
(***************************************************************************)
EXTENDS Chunking, Retrieval

CONSTANTS
  Pages,      \* bound: the parsed pages of an instance
  Questions,  \* bound: the sets of words asked for
  Backend     \* "in_memory" or "pgvector"

\* What the page parser returns.
ASSUME PagesAssumption ==
  \A p \in Pages :
    /\ IsFiniteSet(DOMAIN p.facts)
    /\ p.sections \in Seq([heading : DOMAIN Slugify, body : Seq(Word)])
    /\ p.tables \in Seq([caption : DOMAIN Slugify, header : Nat,
                         rows : Seq([id : Nat, tokens : Nat])])

VARIABLES
  stage,      \* "page", "refused", "indexed", "searched" or "retrieved"
  page,
  index,      \* what is stored under each chunk id
  question,   \* the words of the rewritten query
  hits,       \* the two hit lists, [dense, sparse]
  result      \* [candidates, below]

vars == <<stage, page, index, question, hits, result>>

Nothing == [candidates |-> <<>>, below |-> FALSE]

Init ==
  /\ stage = "page"
  /\ page \in Pages
  /\ index = <<>>
  /\ question = {}
  /\ hits = [dense |-> <<>>, sparse |-> <<>>]
  /\ result = Nothing

\* The writer's guard, over the chunks of the whole page.
IdsDistinct(chunks) ==
  \A i, j \in DOMAIN chunks :
    i # j => \A c \in chunks[i], d \in chunks[j] : c.id # d.id

\* Each chunk is stored under its id.
Store(chunks) ==
  [id \in {c.id : c \in UNION ToSet(chunks)} |->
     CHOOSE c \in UNION ToSet(chunks) : c.id = id]

IndexPage ==
  /\ stage = "page"
  /\ IdsDistinct(Chunk(page))
  /\ stage' = "indexed"
  /\ index' = Store(Chunk(page))
  /\ UNCHANGED <<page, question, hits, result>>

\* DuplicateChunkIdError: nothing of the page is written and its source ends in
\* error.
RefusePage ==
  /\ stage = "page"
  /\ ~IdsDistinct(Chunk(page))
  /\ stage' = "refused"
  /\ UNCHANGED <<page, index, question, hits, result>>

\* The rows of the served version.
Rows == {[chunk |-> id, version |-> "live", scheme |-> "s", deleted |-> FALSE,
          words |-> index[id].units] : id \in DOMAIN index}

DenseHits ==
  IF Backend = "pgvector" THEN PgDenseSearch(Rows, "live", "any")
                          ELSE MemoryDenseSearch(Rows, "live", "any")

SparseHits(words) ==
  IF Backend = "pgvector" THEN PgSparseSearch(Rows, words, "live", "any")
                          ELSE MemoryBm25Search(Rows, words, "live", "any")

Search ==
  /\ stage = "indexed"
  /\ Cardinality(DOMAIN index) <= MaxRank   \* bound
  /\ stage' = "searched"
  /\ \E q \in Questions :
       /\ question' = Rewrite(q, {})
       /\ \E dense \in DenseHits, sparse \in SparseHits(question') :
            hits' = [dense |-> dense, sparse |-> sparse]
  /\ UNCHANGED <<page, index, result>>

Retrieve ==
  /\ stage = "searched"
  /\ stage' = "retrieved"
  /\ result' \in RetrievalResults(hits.dense, hits.sparse)
  /\ UNCHANGED <<page, index, question, hits>>

Next == IndexPage \/ RefusePage \/ Search \/ Retrieve

Spec == Init /\ [][Next]_vars

-----------------------------------------------------------------------------
(* Properties *)

\* The units of a page: what its chunks should hold between them.
FactUnits(p) == {<<"fact", f>> : f \in {g \in DOMAIN p.facts : p.facts[g] # ""}}

SectionUnits(p) == UNION {WordUnits(section.body) : section \in ToSet(p.sections)}

TableUnits(p) == UNION {{<<"row", row.id>> : row \in ToSet(table.rows)} :
                          table \in ToSet(p.tables)}

PageUnits(p) == FactUnits(p) \cup SectionUnits(p) \cup TableUnits(p)

\* No two sections, and no two tables, of a page share a slug.
SlugsDistinct(p) ==
  /\ \A i, j \in DOMAIN p.sections :
       i # j => Slugify[p.sections[i].heading] # Slugify[p.sections[j].heading]
  /\ \A i, j \in DOMAIN p.tables :
       i # j => Slugify[p.tables[i].caption] # Slugify[p.tables[j].caption]

IndexedUnits == UNION {index[id].units : id \in DOMAIN index}

Indexed == stage \in {"indexed", "searched", "retrieved"}

\* Splitting, overlapping, merging and windowing lose nothing of a page that is
\* indexed, and no two chunks of a page have one id, which would keep the whole
\* page out of the index, unless two of its headings share a slug.
IndexHoldsPage ==
  /\ Indexed => IndexedUnits = PageUnits(page)
  /\ SlugsDistinct(page) => stage # "refused"

\* The splitter never returns a piece above the target, however the separators
\* are nested, except for a single word.
PiecesFit ==
  \A i \in DOMAIN page.sections :
    \A piece \in ToSet(RecursiveSplit(page.sections[i].body)) :
      TokenCount(piece) <= TargetTokens \/ Len(piece) = 1

\* Two neighbouring words of a section are together in some chunk, what the
\* overlap is for, unless one of them had to be split itself: behind a split word
\* of fewer than 4 * target characters comes an empty piece, which has no tail.
NeighboursMeet ==
  Indexed /\ OverlapTokens > 0 =>
    \A i \in DOMAIN page.sections :
      LET body == page.sections[i].body IN
      \A j \in 2..Len(body) :
        WordTokens(body[j - 1]) <= TargetTokens /\ WordTokens(body[j]) <= TargetTokens =>
        \E id \in DOMAIN index :
          {<<"word", body[j - 1].id>>, <<"word", body[j].id>>} \subseteq index[id].units

\* The place of a chunk in a hit list, behind the last one when it is absent.
Place(list, c) == IF Contains(list, c) THEN SelectInSeq(list, LAMBDA x : x = c)
                                       ELSE MaxRank + 1

\* A chunk that neither search places behind another one, and that one of them
\* places ahead, comes before it among the candidates; so does a chunk that both
\* searches found before one that only one of them found, rrf_k being larger than
\* the lists are long.
FusionRespectsRanks ==
  stage = "retrieved" /\ RerankerProvider = "passthrough" /\ ~result.below =>
    \A c \in ToSet(hits.dense \o hits.sparse), d \in ToSet(result.candidates) :
      c # d /\
      (\/ /\ Place(hits.dense, c) <= Place(hits.dense, d)
          /\ Place(hits.sparse, c) <= Place(hits.sparse, d)
       \/ /\ RrfK >= MaxRank
          /\ c \in ToSet(hits.dense) \cap ToSet(hits.sparse)
          /\ d \notin ToSet(hits.dense) \cap ToSet(hits.sparse))
      => Place(result.candidates, c) < Place(result.candidates, d)
=============================================================================
