------------------------- MODULE PageToAnswerProofs -------------------------
(***************************************************************************)
(* What the chunks of a page hold, and the order of the candidates, for    *)
(* any pages, limits and hit lists.                                        *)
(***************************************************************************)
EXTENDS PageToAnswer, DataFacts

-----------------------------------------------------------------------------
(* Ranks and scores *)

Once(list) == \A i, j \in 1..Len(list) : list[i] = list[j] => i = j

\* A rank is the first place of a chunk, 0 for one that is not there.
LEMMA RankFacts ==
  ASSUME NEW H, NEW list \in Seq(H), NEW c
  PROVE  /\ Rank(list, c) \in 0..Len(list)
         /\ Rank(list, c) = 0 <=> c \notin ToSet(list)
         /\ Rank(list, c) # 0 => list[Rank(list, c)] = c
<1> DEFINE I == {i \in 1..Len(list) : list[i] = c}
<1>1. Len(list) \in Nat /\ DOMAIN list = 1..Len(list)
  OBVIOUS
<1>2. I = {} <=> c \notin ToSet(list)
  BY <1>1 DEF ToSet
<1>3. Rank(list, c) = IF I # {} THEN Min(I) ELSE 0
  BY DEF Rank, SelectInSeq
<1>4. I \subseteq Nat /\ I \subseteq 1..Len(list) /\ \A i \in I : list[i] = c
  BY <1>1
<1> HIDE DEF I
<1>5. CASE I # {}
  <2>1. Min(I) \in I
    BY <1>4, <1>5, MinOfNats
  <2>2. Rank(list, c) = Min(I)
    BY <1>3, <1>5
  <2>3. Rank(list, c) \in 1..Len(list) /\ list[Rank(list, c)] = c
    BY <1>4, <2>1, <2>2
  <2>4. QED
    BY <1>1, <1>2, <1>5, <2>3
<1>6. CASE I = {}
  BY <1>1, <1>2, <1>3, <1>6
<1>7. QED
  BY <1>5, <1>6

\* In a list without repetition it is the place.
LEMMA RankOnce ==
  ASSUME NEW H, NEW list \in Seq(H), Once(list), NEW i \in 1..Len(list)
  PROVE  Rank(list, list[i]) = i
<1>1. list[i] \in ToSet(list)
  BY DEF ToSet
<1>2. Rank(list, list[i]) \in 1..Len(list) /\ list[Rank(list, list[i])] = list[i]
  BY <1>1, RankFacts
<1>3. QED
  BY <1>2 DEF Once

Share(i) == ScoreUnit \div (RrfK + i)

\* The contributions of the ranks are exact.
LEMMA ShareExact ==
  ASSUME NEW i \in 1..MaxRank
  PROVE  Share(i) \in Nat \ {0} /\ Share(i) * (RrfK + i) = ScoreUnit
<1> DEFINE a == RrfK + i
<1>1. a \in Nat \ {0} /\ ScoreUnit \in Nat \ {0} /\ ScoreUnit % a = 0
  BY RetrievalAssumption
<1>2. Share(i) = ScoreUnit \div a
  BY DEF Share
<1> HIDE DEF a
<1>3. \A u \in Nat \ {0}, d \in Nat \ {0} :
        u % d = 0 => (u \div d) \in Nat \ {0} /\ (u \div d) * d = u
  OBVIOUS
<1>4. QED
  BY <1>1, <1>2, <1>3 DEF a

\* A better rank contributes more, and where rrf_k is at least the length of the
\* lists, two ranks contribute more than one.
LEMMA ShareFalls ==
  ASSUME NEW i \in 1..MaxRank, NEW j \in 1..MaxRank
  PROVE  /\ i < j => Share(i) > Share(j)
         /\ RrfK >= MaxRank => 2 * Share(i) > Share(j)
<1>1. \A x, y, a, b \in Nat \ {0} : x * a = y * b /\ a < b => x > y
  OBVIOUS
<1>2. \A x, y, a, b \in Nat \ {0} : x * a = y * b /\ a < 2 * b => 2 * x > y
  OBVIOUS
<1>3. RrfK \in Nat /\ MaxRank \in Nat
  BY RetrievalAssumption
<1>4. RrfK + i \in Nat \ {0} /\ RrfK + j \in Nat \ {0}
  BY <1>3
<1>5. /\ Share(i) \in Nat \ {0} /\ Share(j) \in Nat \ {0}
      /\ Share(i) * (RrfK + i) = Share(j) * (RrfK + j)
  BY ShareExact
<1>6. ASSUME i < j PROVE Share(i) > Share(j)
  <2>1. RrfK + i < RrfK + j
    BY <1>3, <1>6
  <2>2. QED
    BY <1>1, <1>4, <1>5, <2>1
<1>7. ASSUME RrfK >= MaxRank PROVE 2 * Share(i) > Share(j)
  <2>1. RrfK + i < 2 * (RrfK + j)
    BY <1>3, <1>7
  <2>2. QED
    BY <1>2, <1>4, <1>5, <2>1
<1>8. QED
  BY <1>6, <1>7

\* What a ranked list contributes to the score of a chunk.
LEMMA ScoreFacts ==
  ASSUME NEW H, NEW list \in Seq(H), Len(list) <= MaxRank
  PROVE  /\ \A c : RankScore(list, c) \in Nat
         /\ \A c : c \notin ToSet(list) => RankScore(list, c) = 0
         /\ \A c \in ToSet(list) : /\ Rank(list, c) \in 1..MaxRank
                                   /\ RankScore(list, c) = Share(Rank(list, c))
<1>1. Len(list) \in Nat /\ MaxRank \in Nat
  BY RetrievalAssumption
<1>2. ASSUME NEW c \in ToSet(list)
      PROVE  Rank(list, c) \in 1..MaxRank /\ RankScore(list, c) = Share(Rank(list, c))
  <2>1. Rank(list, c) \in 0..Len(list) /\ Rank(list, c) # 0
    BY RankFacts
  <2>2. QED
    BY <1>1, <2>1 DEF RankScore, Share
<1>3. ASSUME NEW c, c \notin ToSet(list)
      PROVE  RankScore(list, c) = 0
  BY <1>3, RankFacts DEF RankScore
<1>4. ASSUME NEW c
      PROVE  RankScore(list, c) \in Nat
  <2>1. CASE c \in ToSet(list)
    BY <1>2, <2>1, ShareExact
  <2>2. CASE c \notin ToSet(list)
    BY <1>3, <2>2
  <2>3. QED
    BY <2>1, <2>2
<1>5. QED
  BY <1>2, <1>3, <1>4

\* A chunk placed at or before another one contributes as much or more, and more
\* unless neither is there.
LEMMA PlacedAhead ==
  ASSUME NEW H, NEW list \in Seq(H), Once(list), Len(list) <= MaxRank,
         NEW c, NEW d, c # d, Place(list, c) <= Place(list, d)
  PROVE  /\ RankScore(list, c) >= RankScore(list, d)
         /\ c \in ToSet(list) => RankScore(list, c) > RankScore(list, d)
<1>1. MaxRank \in Nat /\ Len(list) \in Nat
  BY RetrievalAssumption
<1>2. \A x : x \in ToSet(list) => Place(list, x) = Rank(list, x)
  BY DEF Place, Rank, Contains, ToSet
<1>3. \A x : x \notin ToSet(list) => Place(list, x) = MaxRank + 1
  BY DEF Place, Contains, ToSet
<1>4. \A x : RankScore(list, x) \in Nat
  BY ScoreFacts
<1>5. CASE c \in ToSet(list) /\ d \in ToSet(list)
  <2>1. Rank(list, c) \in 1..MaxRank /\ Rank(list, d) \in 1..MaxRank
    BY <1>5, ScoreFacts
  <2>2. Rank(list, c) <= Rank(list, d)
    BY <1>2, <1>5
  <2>3. Rank(list, c) # Rank(list, d)
    BY <1>5, <2>1, RankFacts
  <2>4. Rank(list, c) < Rank(list, d)
    BY <2>1, <2>2, <2>3
  <2>5. Share(Rank(list, c)) > Share(Rank(list, d))
    BY <2>1, <2>4, ShareFalls
  <2>6. RankScore(list, c) > RankScore(list, d)
    BY <1>5, <2>5, ScoreFacts
  <2>7. QED
    BY <1>4, <2>6
<1>6. CASE c \in ToSet(list) /\ d \notin ToSet(list)
  <2>1. RankScore(list, d) = 0 /\ RankScore(list, c) \in Nat \ {0}
    BY <1>6, ScoreFacts, ShareExact
  <2>2. QED
    BY <2>1
<1>7. CASE c \notin ToSet(list)
  <2>1. d \notin ToSet(list)
    <3>1. SUFFICES ASSUME d \in ToSet(list) PROVE FALSE
      OBVIOUS
    <3>2. MaxRank + 1 <= Rank(list, d) /\ Rank(list, d) \in 1..MaxRank
      BY <1>2, <1>3, <1>7, <3>1, ScoreFacts
    <3>3. QED
      BY <1>1, <3>2
  <2>2. RankScore(list, c) = 0 /\ RankScore(list, d) = 0
    BY <1>7, <2>1, ScoreFacts
  <2>3. QED
    BY <1>7, <2>2
<1>8. QED
  BY <1>5, <1>6, <1>7

-----------------------------------------------------------------------------
(* Fusion *)

\* Two lists that two searches may have returned.
HitLists(dense, sparse) ==
  /\ \E H : dense \in Seq(H) /\ sparse \in Seq(H)
  /\ Once(dense) /\ Len(dense) <= MaxRank
  /\ Once(sparse) /\ Len(sparse) <= MaxRank

\* What FusionRespectsRanks asks of two chunks puts the first ahead.
LEMMA AheadOfRanks ==
  ASSUME NEW dense, NEW sparse, HitLists(dense, sparse),
         NEW c \in ToSet(dense \o sparse), NEW d \in ToSet(dense \o sparse), c # d,
         \/ /\ Place(dense, c) <= Place(dense, d)
            /\ Place(sparse, c) <= Place(sparse, d)
         \/ /\ RrfK >= MaxRank
            /\ c \in ToSet(dense) \cap ToSet(sparse)
            /\ d \notin ToSet(dense) \cap ToSet(sparse)
  PROVE  Ahead(dense, sparse, c, d)
<1>1. PICK H : dense \in Seq(H) /\ sparse \in Seq(H)
  BY DEF HitLists
<1>2. /\ Once(dense) /\ Len(dense) <= MaxRank
      /\ Once(sparse) /\ Len(sparse) <= MaxRank
  BY DEF HitLists
<1>3. \A x : RankScore(dense, x) \in Nat /\ RankScore(sparse, x) \in Nat
  BY <1>1, <1>2, ScoreFacts
<1>4. \A x \in ToSet(dense \o sparse) : x \in ToSet(dense) \/ x \in ToSet(sparse)
  <2>1. TAKE x \in ToSet(dense \o sparse)
  <2>2. PICK i \in 1..Len(dense) + Len(sparse) : (dense \o sparse)[i] = x
    BY <1>1, <2>1, ConcatProperties DEF ToSet
  <2>3. x = IF i <= Len(dense) THEN dense[i] ELSE sparse[i - Len(dense)]
    BY <1>1, <2>2, ConcatProperties
  <2>4. DOMAIN dense = 1..Len(dense) /\ DOMAIN sparse = 1..Len(sparse)
        /\ Len(dense) \in Nat /\ Len(sparse) \in Nat
    BY <1>1
  <2>5. QED
    BY <2>2, <2>3, <2>4 DEF ToSet
<1>5. RrfScore(dense, sparse, c) > RrfScore(dense, sparse, d)
  <2>1. CASE /\ Place(dense, c) <= Place(dense, d)
             /\ Place(sparse, c) <= Place(sparse, d)
    <3>1. /\ RankScore(dense, c) >= RankScore(dense, d)
          /\ c \in ToSet(dense) => RankScore(dense, c) > RankScore(dense, d)
      BY <1>1, <1>2, <2>1, PlacedAhead
    <3>2. /\ RankScore(sparse, c) >= RankScore(sparse, d)
          /\ c \in ToSet(sparse) => RankScore(sparse, c) > RankScore(sparse, d)
      BY <1>1, <1>2, <2>1, PlacedAhead
    <3>3. QED
      BY <1>3, <1>4, <3>1, <3>2 DEF RrfScore
  <2>2. CASE /\ RrfK >= MaxRank
             /\ c \in ToSet(dense) \cap ToSet(sparse)
             /\ d \notin ToSet(dense) \cap ToSet(sparse)
    <3>1. PICK i \in 1..MaxRank, j \in 1..MaxRank :
            RankScore(dense, c) = Share(i) /\ RankScore(sparse, c) = Share(j)
      BY <1>1, <1>2, <2>2, ScoreFacts
    <3>2. PICK k \in 1..MaxRank : RrfScore(dense, sparse, d) = Share(k)
      <4>1. CASE d \in ToSet(dense) /\ d \notin ToSet(sparse)
        <5>1. RankScore(sparse, d) = 0
          BY <1>1, <1>2, <4>1, ScoreFacts
        <5>2. /\ Rank(dense, d) \in 1..MaxRank
              /\ RankScore(dense, d) = Share(Rank(dense, d))
          BY <1>1, <1>2, <4>1, ScoreFacts
        <5>3. QED
          BY <1>3, <5>1, <5>2 DEF RrfScore
      <4>2. CASE d \notin ToSet(dense) /\ d \in ToSet(sparse)
        <5>1. RankScore(dense, d) = 0
          BY <1>1, <1>2, <4>2, ScoreFacts
        <5>2. /\ Rank(sparse, d) \in 1..MaxRank
              /\ RankScore(sparse, d) = Share(Rank(sparse, d))
          BY <1>1, <1>2, <4>2, ScoreFacts
        <5>3. QED
          BY <1>3, <5>1, <5>2 DEF RrfScore
      <4>3. QED
        BY <1>4, <2>2, <4>1, <4>2
    <3>3. 2 * Share(i) > Share(k) /\ 2 * Share(j) > Share(k)
      BY <2>2, ShareFalls
    <3>4. Share(i) \in Nat /\ Share(j) \in Nat /\ Share(k) \in Nat
      BY ShareExact
    <3>5. Share(i) + Share(j) > Share(k)
      BY <3>3, <3>4
    <3>6. QED
      BY <3>1, <3>2, <3>5 DEF RrfScore
  <2>3. QED
    BY <2>1, <2>2
<1>6. QED
  BY <1>5 DEF Ahead

\* The chunks of a list in the order of Ahead: everything ahead of one of them
\* comes before it, and none comes twice.
InOrder(list, dense, sparse) ==
  /\ \E S : list \in Seq(S)
  /\ Once(list)
  /\ ToSet(list) \subseteq ToSet(dense \o sparse)
  /\ \A i \in 1..Len(list) : \A c \in ToSet(dense \o sparse) :
       Ahead(dense, sparse, c, list[i]) => \E j \in 1..i - 1 : list[j] = c

LEMMA PrefixInOrder ==
  ASSUME NEW dense, NEW sparse, NEW list, InOrder(list, dense, sparse), NEW n \in Nat
  PROVE  InOrder(Truncate(list, n), dense, sparse)
<1> DEFINE p == Truncate(list, n)
<1>1. PICK S : list \in Seq(S)
  BY DEF InOrder
<1>2. /\ p \in Seq(S)
      /\ Len(p) = IF n <= Len(list) THEN n ELSE Len(list)
      /\ \A i \in 1..Len(p) : p[i] = list[i]
  BY <1>1, PrefixFacts DEF Truncate
<1>3. Len(list) \in Nat /\ Len(p) \in Nat /\ Len(p) <= Len(list)
  BY <1>1, <1>2
<1> HIDE DEF p
<1>4. Once(p)
  BY <1>2, <1>3 DEF InOrder, Once
<1>5. ToSet(p) \subseteq ToSet(list)
  BY <1>1, <1>2, <1>3 DEF ToSet
<1>6. ASSUME NEW i \in 1..Len(p), NEW c \in ToSet(dense \o sparse),
             Ahead(dense, sparse, c, p[i])
      PROVE  \E j \in 1..i - 1 : p[j] = c
  <2>1. i \in 1..Len(list) /\ p[i] = list[i]
    BY <1>2, <1>3
  <2>2. PICK j \in 1..i - 1 : list[j] = c
    BY <1>6, <2>1 DEF InOrder
  <2>3. j \in 1..Len(p)
    BY <1>3, <2>1
  <2>4. QED
    BY <1>2, <2>2, <2>3
<1>7. QED
  BY <1>2, <1>4, <1>5, <1>6 DEF InOrder, p

\* Fusion puts the chunks of the two lists in the order of Ahead.
LEMMA FusedInOrder ==
  ASSUME NEW dense, NEW sparse, HitLists(dense, sparse)
  PROVE  InOrder(RrfFuse(dense, sparse), dense, sparse)
<1> DEFINE all == dense \o sparse
           chunks == ToSet(all)
           score(c) == RrfScore(dense, sparse, c)
           rank(c) == Rank(all, c)
           R == {p \in chunks \X chunks : Ahead(dense, sparse, p[1], p[2])}
           place == [c \in chunks |-> 1 + Cardinality(Preceding(chunks, R, c))]
           n == Cardinality(chunks)
           ranked == [i \in 1..n |-> CHOOSE c \in chunks : place[c] = i]
<1>1. PICK H : dense \in Seq(H) /\ sparse \in Seq(H)
  BY DEF HitLists
<1>2. \A c \in chunks : score(c) \in Nat
  <2>1. /\ \A c : RankScore(dense, c) \in Nat
        /\ \A c : RankScore(sparse, c) \in Nat
    BY <1>1, ScoreFacts DEF HitLists
  <2>2. QED
    BY <2>1 DEF RrfScore
<1>3. /\ \A c \in chunks : rank(c) \in Nat
      /\ \A c, d \in chunks : rank(c) = rank(d) => c = d
  <2>1. all \in Seq(H)
    BY <1>1
  <2> HIDE DEF all
  <2>2. \A c \in chunks : rank(c) \in 0..Len(all) /\ all[rank(c)] = c
    BY <2>1, RankFacts
  <2>3. Len(all) \in Nat
    BY <2>1
  <2>4. QED
    BY <2>2, <2>3
<1>4. \A c, d \in chunks :
        <<c, d>> \in R <=> score(c) > score(d) \/ (score(c) = score(d) /\ rank(c) < rank(d))
  BY DEF Ahead
<1>5. IsFiniteSet(chunks)
  <2>1. all \in Seq(H)
    BY <1>1
  <2> HIDE DEF all
  <2>2. QED
    BY <2>1, FiniteElements
<1>6. RrfFuse(dense, sparse) = Truncate(ranked, TopKRrf)
  <2>1. \A c \in chunks : Preceding(chunks, R, c) = {d \in chunks : Ahead(dense, sparse, d, c)}
    BY DEF Preceding
  <2>2. \A c \in chunks : place[c] = 1 + Cardinality({d \in chunks : Ahead(dense, sparse, d, c)})
    BY <2>1
  <2> DEFINE spot(c) == 1 + Cardinality({d \in chunks : Ahead(dense, sparse, d, c)})
             given == [i \in 1..n |-> CHOOSE c \in chunks : spot(c) = i]
  <2>3. \A i \in 1..n : (CHOOSE c \in chunks : place[c] = i) = (CHOOSE c \in chunks : spot(c) = i)
    <3>1. \A c \in chunks : place[c] = spot(c)
      BY <2>2
    <3> HIDE DEF place, spot, chunks, n
    <3>2. TAKE i \in 1..n
    <3>3. QED
      BY <3>1
  <2>4. RrfFuse(dense, sparse) = Truncate(given, TopKRrf)
    BY DEF RrfFuse
  <2> HIDE DEF place, spot, chunks, n
  <2>5. ranked = given
    BY <2>3
  <2>6. QED
    BY <2>4, <2>5
<1> HIDE DEF R, chunks, score, rank
<1>7. /\ n \in Nat
      /\ \A c \in chunks : place[c] \in 1..n
      /\ \A c, d \in chunks : <<c, d>> \in R => place[c] < place[d]
      /\ \A c, d \in chunks : place[c] = place[d] => c = d
      /\ \A i \in 1..n : \E c \in chunks : place[c] = i
  <2>1. \A x \in chunks : <<x, x>> \notin R
    BY <1>2, <1>3, <1>4
  <2>2. \A x, y, z \in chunks : <<x, y>> \in R /\ <<y, z>> \in R => <<x, z>> \in R
    BY <1>2, <1>3, <1>4
  <2>3. \A x, y \in chunks : x # y => <<x, y>> \in R \/ <<y, x>> \in R
    BY <1>2, <1>3, <1>4
  <2>4. \A x \in chunks : place[x] = 1 + Cardinality(Preceding(chunks, R, x))
    OBVIOUS
  <2> HIDE DEF place, ranked, all
  <2>5. QED
    BY ONLY <1>5, <2>1, <2>2, <2>3, <2>4, Places
<1> HIDE DEF place, n
<1>8. \A i \in 1..n : ranked[i] \in chunks /\ place[ranked[i]] = i
  BY <1>7
<1>9. DOMAIN ranked = 1..n /\ ranked = [i \in 1..n |-> ranked[i]]
  OBVIOUS
<1> HIDE DEF ranked
<1>10. ranked \in Seq(chunks) /\ Len(ranked) = n
  BY <1>7, <1>8, <1>9
<1>11. InOrder(ranked, dense, sparse)
  <2>1. Once(ranked)
    BY <1>8, <1>10 DEF Once
  <2>2. ToSet(ranked) \subseteq chunks
    BY <1>8, <1>9 DEF ToSet
  <2>3. ASSUME NEW i \in 1..n, NEW c \in chunks, Ahead(dense, sparse, c, ranked[i])
        PROVE  \E j \in 1..i - 1 : ranked[j] = c
    <3>1. <<c, ranked[i]>> \in R
      BY <1>8, <2>3 DEF R
    <3>2. place[c] < place[ranked[i]] /\ place[c] \in 1..n
      BY <1>7, <1>8, <3>1
    <3>3. place[c] \in 1..i - 1
      BY <1>7, <1>8, <3>2
    <3>4. ranked[place[c]] = c
      BY <1>7, <1>8, <3>2
    <3>5. QED
      BY <3>3, <3>4
  <2>4. QED
    BY <1>10, <2>1, <2>2, <2>3 DEF InOrder, chunks
<1>12. QED
  BY <1>6, <1>11, PrefixInOrder, RetrievalAssumption

\* Without a reranker the candidates are a prefix of the fused list.
LEMMA CandidatesInOrder ==
  ASSUME NEW dense, NEW sparse, HitLists(dense, sparse), RerankerProvider = "passthrough",
         NEW r \in RetrievalResults(dense, sparse), ~r.below
  PROVE  InOrder(r.candidates, dense, sparse)
<1> DEFINE fused == RrfFuse(dense, sparse)
           top == IF fused = <<>> THEN 0 ELSE RrfScore(dense, sparse, fused[1])
<1>1. PICK x \in Rerank(dense, sparse) :
        r = [candidates |-> IF BelowThreshold(x) THEN <<>> ELSE x.candidates,
             below |-> BelowThreshold(x)]
  BY DEF RetrievalResults
<1>2. x \in PassthroughRerank(dense, sparse)
  BY <1>1 DEF Rerank
<1>3. PassthroughRerank(dense, sparse) = {[candidates |-> Truncate(fused, TopNRerank), top |-> top]}
  BY DEF PassthroughRerank
<1>4. InOrder(fused, dense, sparse)
  BY FusedInOrder
<1> HIDE DEF fused, top
<1>5. x.candidates = Truncate(fused, TopNRerank)
  BY <1>2, <1>3
<1>6. r.candidates = x.candidates
  BY <1>1
<1>7. QED
  BY <1>4, <1>5, <1>6, PrefixInOrder, RetrievalAssumption

\* In such a list a chunk comes before those it is ahead of.
LEMMA InOrderPlace ==
  ASSUME NEW dense, NEW sparse, NEW list, InOrder(list, dense, sparse),
         NEW c \in ToSet(dense \o sparse), NEW d \in ToSet(list), Ahead(dense, sparse, c, d)
  PROVE  Place(list, c) < Place(list, d)
<1>1. PICK S : list \in Seq(S)
  BY DEF InOrder
<1>2. PICK i \in 1..Len(list) : list[i] = d
  BY <1>1 DEF ToSet
<1>3. PICK j \in 1..i - 1 : list[j] = c
  BY <1>2 DEF InOrder
<1>4. j \in 1..Len(list) /\ j < i /\ Len(list) \in Nat
  BY <1>1
<1>5. Rank(list, c) = j /\ Rank(list, d) = i
  BY <1>1, <1>2, <1>3, <1>4, RankOnce DEF InOrder
<1>6. c \in ToSet(list)
  BY <1>1, <1>3, <1>4 DEF ToSet
<1>7. Place(list, c) = Rank(list, c) /\ Place(list, d) = Rank(list, d)
  BY <1>6 DEF Place, Rank, Contains, ToSet
<1>8. QED
  BY <1>4, <1>5, <1>7

-----------------------------------------------------------------------------
(* Counting tokens *)

Small(word) == WordTokens(word) <= TargetTokens

LEMMA WordTokensType == \A word \in Word : WordTokens(word) \in Nat
<1>1. \A a \in Nat, b \in Nat \ {0} : (a + b - 1) \div b \in Nat
  OBVIOUS
<1>2. CharsPerToken \in Nat
  BY ChunkingAssumption
<1>3. ASSUME NEW word \in Word
      PROVE  WordTokens(word) \in Nat
  <2>1. word.chars \in Nat
    BY DEF Word
  <2>2. CASE CharsPerToken = 0
    BY <2>2 DEF WordTokens
  <2>3. CASE CharsPerToken # 0
    BY <1>1, <1>2, <2>1, <2>3 DEF WordTokens
  <2>4. QED
    BY <2>2, <2>3
<1>4. QED
  BY <1>3

\* No words have no tokens, and one word has its own.
LEMMA CountFacts ==
  ASSUME NEW text \in Seq(Word)
  PROVE  /\ TokenCount(text) \in Nat
         /\ text = <<>> => TokenCount(text) = 0
         /\ Len(text) = 1 => TokenCount(text) = WordTokens(text[1])
<1> DEFINE N == Len(text)
           step == [n \in 1..N |-> [x \in Nat |-> x + WordTokens(text[n])]]
           Counts(f) == f = [n \in 0..N |-> IF n = 0 THEN 0 ELSE f[n - 1] + WordTokens(text[n])]
           upTo == CHOOSE f : Counts(f)
<1>1. N \in Nat /\ \A n \in 1..N : WordTokens(text[n]) \in Nat
  BY WordTokensType
<1>2. \A n \in 1..N : \A x \in Nat : step[n][x] = x + WordTokens(text[n]) /\ step[n][x] \in Nat
  BY <1>1
<1>3. PICK f : Passes(f, N, Nat, 0, step)
  <2> HIDE DEF step, N
  <2>1. QED
    BY <1>1, <1>2, Iteration
<1>4. \E g : Counts(g)
  <2> HIDE DEF step, N
  <2>1. f \in [0..N -> Nat] /\ f[0] = 0 /\ \A n \in 1..N : f[n] = step[n][f[n - 1]]
    BY <1>3 DEF Passes
  <2>2. \A n \in 1..N : f[n - 1] \in Nat
    BY <1>1, <2>1
  <2>3. \A n \in 1..N : f[n] = f[n - 1] + WordTokens(text[n])
    BY <1>2, <2>1, <2>2
  <2>4. f = [n \in 0..N |-> IF n = 0 THEN 0 ELSE f[n - 1] + WordTokens(text[n])]
    <3>1. \A n \in 0..N : f[n] = IF n = 0 THEN 0 ELSE f[n - 1] + WordTokens(text[n])
      BY <1>1, <2>1, <2>3
    <3>2. QED
      BY <2>1, <3>1
  <2>5. QED
    BY <2>4
<1>5. Counts(upTo)
  BY <1>4
<1>6. TokenCount(text) = upTo[N]
  BY DEF TokenCount
<1> HIDE DEF upTo, N
<1>7. upTo[0] = 0
  BY <1>1, <1>5
<1>8. N = 1 => upTo[1] = WordTokens(text[1])
  BY <1>1, <1>5, <1>7
<1>9. upTo[N] \in Nat
  <2> DEFINE T == {n \in Nat : n <= N => upTo[n] \in Nat}
  <2>1. 0 \in T
    BY <1>7
  <2>2. ASSUME NEW n \in Nat, n \in T PROVE n + 1 \in T
    <3>1. n + 1 <= N => upTo[n + 1] = upTo[n] + WordTokens(text[n + 1])
      BY <1>1, <1>5
    <3>2. n + 1 <= N => upTo[n] \in Nat /\ WordTokens(text[n + 1]) \in Nat
      BY <1>1, <2>2
    <3>3. QED
      BY <3>1, <3>2
  <2> HIDE DEF T
  <2>3. N \in T
    BY <1>1, <2>1, <2>2, SetInduction
  <2>4. QED
    BY <1>1, <2>3 DEF T
<1>10. QED
  BY <1>6, <1>7, <1>8, <1>9 DEF N

-----------------------------------------------------------------------------
(* Pieces of a text *)

Texts == Seq(Word)

Unit(word) == <<"word", word.id>>

LastOf(s) == s[Len(s)]

\* The piece closes with that unit.
Closes(piece, unit) == piece # <<>> /\ Unit(LastOf(piece)) = unit

\* Two units are together in a piece, or one closes a piece and the other is in the
\* next one, which the overlap then joins.
Meet(pieces, u, v) ==
  \E k \in 1..Len(pieces) :
    \/ {u, v} \subseteq WordUnits(pieces[k])
    \/ k < Len(pieces) /\ Closes(pieces[k], u) /\ v \in WordUnits(pieces[k + 1])

SameUnits(text, pieces) ==
  /\ \A k \in 1..Len(pieces) : WordUnits(pieces[k]) \subseteq WordUnits(text)
  /\ \A u \in WordUnits(text) : \E k \in 1..Len(pieces) : u \in WordUnits(pieces[k])

Fits(piece) == TokenCount(piece) <= TargetTokens \/ Len(piece) = 1

OpensWith(text, pieces) ==
  text # <<>> /\ Small(text[1]) => pieces # <<>> /\ Unit(text[1]) \in WordUnits(pieces[1])

ClosesWith(text, pieces) ==
  text # <<>> /\ Small(LastOf(text)) =>
    pieces # <<>> /\ Closes(LastOf(pieces), Unit(LastOf(text)))

NeighboursIn(text, pieces) ==
  \A j \in 2..Len(text) :
    Small(text[j - 1]) /\ Small(text[j]) => Meet(pieces, Unit(text[j - 1]), Unit(text[j]))

\* What the splitter makes of a text.
Good(text, pieces) ==
  /\ pieces \in Seq(Texts)
  /\ text = <<>> => pieces = <<>>
  /\ \A k \in 1..Len(pieces) : Fits(pieces[k])
  /\ SameUnits(text, pieces)
  /\ OpensWith(text, pieces) /\ ClosesWith(text, pieces)
  /\ NeighboursIn(text, pieces)

LEMMA ConcatAt ==
  ASSUME NEW S, NEW s \in Seq(S), NEW t \in Seq(S)
  PROVE  /\ s \o t \in Seq(S) /\ Len(s \o t) = Len(s) + Len(t)
         /\ Len(s) \in Nat /\ Len(t) \in Nat
         /\ \A i \in 1..Len(s) : (s \o t)[i] = s[i]
         /\ \A i \in 1..Len(t) : (s \o t)[Len(s) + i] = t[i]
<1>1. Len(s) \in Nat /\ Len(t) \in Nat
  OBVIOUS
<1>2. /\ s \o t \in Seq(S) /\ Len(s \o t) = Len(s) + Len(t)
      /\ \A i \in 1..Len(s) + Len(t) :
           (s \o t)[i] = IF i <= Len(s) THEN s[i] ELSE t[i - Len(s)]
  BY ConcatProperties
<1> DEFINE u == s \o t
<1> HIDE DEF u
<1>3. ASSUME NEW i \in 1..Len(t) PROVE u[Len(s) + i] = t[i]
  <2>1. Len(s) + i \in 1..Len(s) + Len(t) /\ ~ (Len(s) + i <= Len(s)) /\ Len(s) + i - Len(s) = i
    BY <1>1
  <2>2. QED
    BY <1>2, <2>1 DEF u
<1>4. QED
  BY <1>1, <1>2, <1>3 DEF u

LEMMA ConcatUnits ==
  ASSUME NEW a \in Texts, NEW b \in Texts
  PROVE  WordUnits(a \o b) = WordUnits(a) \cup WordUnits(b)
<1> DEFINE c == a \o b
<1>1. /\ c \in Texts /\ Len(c) = Len(a) + Len(b)
      /\ Len(a) \in Nat /\ Len(b) \in Nat
      /\ \A i \in 1..Len(a) : c[i] = a[i]
      /\ \A i \in 1..Len(b) : c[Len(a) + i] = b[i]
  BY ConcatAt DEF Texts
<1> HIDE DEF c
<1>2. DOMAIN a = 1..Len(a) /\ DOMAIN b = 1..Len(b) /\ DOMAIN c = 1..Len(c)
  BY <1>1 DEF Texts
<1>3. ASSUME NEW i \in 1..Len(c) PROVE Unit(c[i]) \in WordUnits(a) \cup WordUnits(b)
  <2>1. CASE i <= Len(a)
    BY <1>1, <1>2, <2>1 DEF WordUnits, Unit
  <2>2. CASE ~ (i <= Len(a))
    <3>1. i - Len(a) \in 1..Len(b) /\ Len(a) + (i - Len(a)) = i
      BY <1>1, <2>2
    <3>2. c[i] = b[i - Len(a)]
      BY <1>1, <3>1
    <3>3. QED
      BY <1>2, <3>1, <3>2 DEF WordUnits, Unit
  <2>3. QED
    BY <2>1, <2>2
<1>4. ASSUME NEW i \in 1..Len(a) PROVE Unit(a[i]) \in WordUnits(c)
  BY <1>1, <1>2 DEF WordUnits, Unit
<1>5. ASSUME NEW i \in 1..Len(b) PROVE Unit(b[i]) \in WordUnits(c)
  <2>1. Len(a) + i \in 1..Len(c) /\ c[Len(a) + i] = b[i]
    BY <1>1
  <2>2. QED
    BY <1>2, <2>1 DEF WordUnits, Unit
<1>6. QED
  BY <1>2, <1>3, <1>4, <1>5 DEF WordUnits, Unit, c

\* Pieces that meet in a list of pieces meet in a longer one.
LEMMA MeetConcat ==
  ASSUME NEW P \in Seq(Texts), NEW Q \in Seq(Texts), NEW u, NEW v
  PROVE  /\ Meet(P, u, v) => Meet(P \o Q, u, v)
         /\ Meet(Q, u, v) => Meet(P \o Q, u, v)
         /\ P # <<>> /\ Q # <<>> /\ Closes(LastOf(P), u) /\ v \in WordUnits(Q[1])
              => Meet(P \o Q, u, v)
<1> DEFINE R == P \o Q
           p == Len(P)
           q == Len(Q)
<1>1. /\ Len(R) = p + q /\ p \in Nat /\ q \in Nat
      /\ \A i \in 1..p : R[i] = P[i]
      /\ \A i \in 1..q : R[p + i] = Q[i]
  BY ConcatAt
<1>2. (P # <<>> => p # 0) /\ (Q # <<>> => q # 0)
  BY EmptySeq
<1> HIDE DEF R
<1>3. ASSUME Meet(P, u, v) PROVE Meet(R, u, v)
  <2>1. PICK k \in 1..p :
          \/ {u, v} \subseteq WordUnits(P[k])
          \/ k < p /\ Closes(P[k], u) /\ v \in WordUnits(P[k + 1])
    BY <1>3 DEF Meet
  <2>2. k \in 1..Len(R) /\ R[k] = P[k]
    BY <1>1
  <2>3. k < p => k < Len(R) /\ R[k + 1] = P[k + 1]
    BY <1>1
  <2>4. QED
    BY <2>1, <2>2, <2>3 DEF Meet
<1>4. ASSUME Meet(Q, u, v) PROVE Meet(R, u, v)
  <2>1. PICK k \in 1..q :
          \/ {u, v} \subseteq WordUnits(Q[k])
          \/ k < q /\ Closes(Q[k], u) /\ v \in WordUnits(Q[k + 1])
    BY <1>4 DEF Meet
  <2>2. p + k \in 1..Len(R) /\ R[p + k] = Q[k]
    BY <1>1
  <2>3. ASSUME k < q PROVE p + k < Len(R) /\ R[p + k + 1] = Q[k + 1]
    <3>1. k + 1 \in 1..q /\ p + (k + 1) = p + k + 1
      BY <1>1, <2>3
    <3>2. R[p + (k + 1)] = Q[k + 1]
      BY <1>1, <3>1
    <3>3. QED
      BY <1>1, <2>3, <3>1, <3>2
  <2>4. QED
    BY <2>1, <2>2, <2>3 DEF Meet
<1>5. ASSUME P # <<>>, Q # <<>>, Closes(LastOf(P), u), v \in WordUnits(Q[1])
      PROVE  Meet(R, u, v)
  <2>1. p \in 1..Len(R) /\ p < Len(R) /\ R[p] = P[p] /\ R[p + 1] = Q[1]
    BY <1>1, <1>2, <1>5
  <2>2. QED
    BY <1>5, <2>1 DEF Meet, LastOf
<1>6. QED
  BY <1>3, <1>4, <1>5 DEF R

\* The splits of two texts make one of the two texts together.
LEMMA JoinGood ==
  ASSUME NEW a \in Texts, NEW b \in Texts, NEW P, NEW Q, Good(a, P), Good(b, Q)
  PROVE  Good(a \o b, P \o Q)
<1> DEFINE c == a \o b
           R == P \o Q
           m == Len(a)
           n == Len(b)
           p == Len(P)
           q == Len(Q)
<1>1. /\ P \in Seq(Texts) /\ Q \in Seq(Texts)
      /\ a = <<>> => P = <<>>
      /\ b = <<>> => Q = <<>>
      /\ \A k \in 1..p : Fits(P[k])
      /\ \A k \in 1..q : Fits(Q[k])
      /\ SameUnits(a, P) /\ SameUnits(b, Q)
      /\ OpensWith(a, P) /\ OpensWith(b, Q)
      /\ ClosesWith(a, P) /\ ClosesWith(b, Q)
      /\ NeighboursIn(a, P) /\ NeighboursIn(b, Q)
  BY DEF Good
<1>2. /\ c \in Texts /\ Len(c) = m + n /\ m \in Nat /\ n \in Nat
      /\ \A i \in 1..m : c[i] = a[i]
      /\ \A i \in 1..n : c[m + i] = b[i]
  BY ConcatAt DEF Texts
<1>3. /\ R \in Seq(Texts) /\ Len(R) = p + q /\ p \in Nat /\ q \in Nat
      /\ \A i \in 1..p : R[i] = P[i]
      /\ \A i \in 1..q : R[p + i] = Q[i]
  BY <1>1, ConcatAt
<1>4. /\ a = <<>> <=> m = 0
      /\ b = <<>> <=> n = 0
      /\ P = <<>> <=> p = 0
      /\ Q = <<>> <=> q = 0
      /\ c = <<>> <=> m + n = 0
      /\ R = <<>> <=> p + q = 0
  BY <1>1, <1>2, <1>3, EmptySeq DEF Texts
<1>5. WordUnits(c) = WordUnits(a) \cup WordUnits(b)
  BY ConcatUnits
<1>6. \A u, v : /\ Meet(P, u, v) => Meet(R, u, v)
                /\ Meet(Q, u, v) => Meet(R, u, v)
                /\ P # <<>> /\ Q # <<>> /\ Closes(LastOf(P), u) /\ v \in WordUnits(Q[1])
                     => Meet(R, u, v)
  BY <1>1, MeetConcat
<1> HIDE DEF c, R, m, n, p, q
<1>7. \A k \in 1..Len(R) : (k \in 1..p /\ R[k] = P[k]) \/ (k - p \in 1..q /\ R[k] = Q[k - p])
  <2> TAKE k \in 1..Len(R)
  <2>1. CASE k <= p
    BY <1>3, <2>1
  <2>2. CASE ~ (k <= p)
    <3>1. k - p \in 1..q /\ p + (k - p) = k
      BY <1>3, <2>2
    <3>2. QED
      BY <1>3, <3>1
  <2>3. QED
    BY <2>1, <2>2
<1>8. \A k \in 1..Len(R) : Fits(R[k])
  BY <1>1, <1>7 DEF p, q
<1>9. SameUnits(c, R)
  <2>1. \A k \in 1..Len(R) : WordUnits(R[k]) \subseteq WordUnits(c)
    BY <1>1, <1>5, <1>7 DEF SameUnits, p, q
  <2>2. ASSUME NEW u \in WordUnits(a) PROVE \E k \in 1..Len(R) : u \in WordUnits(R[k])
    <3>1. PICK k \in 1..p : u \in WordUnits(P[k])
      BY <1>1, <2>2 DEF SameUnits, p
    <3>2. k \in 1..Len(R) /\ R[k] = P[k]
      BY <1>3
    <3>3. QED
      BY <3>1, <3>2
  <2>3. ASSUME NEW u \in WordUnits(b) PROVE \E k \in 1..Len(R) : u \in WordUnits(R[k])
    <3>1. PICK k \in 1..q : u \in WordUnits(Q[k])
      BY <1>1, <2>3 DEF SameUnits, q
    <3>2. p + k \in 1..Len(R) /\ R[p + k] = Q[k]
      BY <1>3
    <3>3. QED
      BY <3>1, <3>2
  <2>4. QED
    BY <1>5, <2>1, <2>2, <2>3 DEF SameUnits
<1>10. OpensWith(c, R)
  <2>1. CASE m = 0
    <3>1. p = 0 /\ (n # 0 => c[1] = b[1]) /\ (q # 0 => R[1] = Q[1])
      <4>1. p = 0
        BY <1>1, <1>4, <2>1
      <4>2. n # 0 => 1 \in 1..n /\ m + 1 = 1
        BY <1>2, <2>1
      <4>3. q # 0 => 1 \in 1..q /\ p + 1 = 1
        BY <1>3, <4>1
      <4>4. (n # 0 => c[m + 1] = b[1]) /\ (q # 0 => R[p + 1] = Q[1])
        BY <1>2, <1>3, <4>2, <4>3
      <4>5. QED
        BY <4>1, <4>2, <4>3, <4>4
    <3>2. QED
      BY <1>1, <1>2, <1>3, <1>4, <2>1, <3>1 DEF OpensWith
  <2>2. CASE m # 0
    <3>1. c[1] = a[1] /\ (p # 0 => R[1] = P[1])
      BY <1>2, <1>3, <2>2
    <3>2. QED
      BY <1>1, <1>2, <1>3, <1>4, <2>2, <3>1 DEF OpensWith
  <2>3. QED
    BY <2>1, <2>2
<1>11. ClosesWith(c, R)
  <2>1. CASE n = 0
    <3>1. q = 0 /\ Len(c) = m /\ Len(R) = p
      BY <1>1, <1>2, <1>3, <1>4, <2>1
    <3>2. (m # 0 => LastOf(c) = LastOf(a)) /\ (p # 0 => LastOf(R) = LastOf(P))
      BY <1>2, <1>3, <3>1 DEF LastOf, m, p
    <3>3. QED
      BY <1>1, <1>2, <1>3, <1>4, <2>1, <3>1, <3>2 DEF ClosesWith
  <2>2. CASE n # 0
    <3>1. LastOf(c) = LastOf(b) /\ (q # 0 => LastOf(R) = LastOf(Q))
      <4>1. n \in 1..n /\ (q # 0 => q \in 1..q)
        BY <1>2, <1>3, <2>2
      <4>2. c[m + n] = b[n] /\ (q # 0 => R[p + q] = Q[q])
        BY <1>2, <1>3, <4>1
      <4>3. QED
        BY <1>2, <1>3, <4>2 DEF LastOf, n, q
    <3>2. QED
      BY <1>1, <1>2, <1>3, <1>4, <2>2, <3>1 DEF ClosesWith
  <2>3. QED
    BY <2>1, <2>2
<1>12. NeighboursIn(c, R)
  <2> SUFFICES ASSUME NEW j \in 2..Len(c), Small(c[j - 1]), Small(c[j])
               PROVE  Meet(R, Unit(c[j - 1]), Unit(c[j]))
    BY DEF NeighboursIn
  <2>1. CASE j <= m
    <3>1. j \in 2..m /\ c[j - 1] = a[j - 1] /\ c[j] = a[j]
      BY <1>2, <2>1
    <3>2. Meet(P, Unit(c[j - 1]), Unit(c[j]))
      BY <1>1, <3>1 DEF NeighboursIn, m
    <3>3. QED
      BY <1>6, <3>2
  <2>2. CASE j = m + 1
    <3>1. m # 0 /\ n # 0 /\ c[j - 1] = a[m] /\ c[j] = b[1]
      <4>1. m # 0 /\ n # 0 /\ j - 1 = m /\ j = m + 1
        BY <1>2, <2>2
      <4>2. m \in 1..m /\ 1 \in 1..n
        BY <1>2, <4>1
      <4>3. c[m] = a[m] /\ c[m + 1] = b[1]
        BY <1>2, <4>2
      <4>4. QED
        BY <4>1, <4>3
    <3>2. P # <<>> /\ Closes(LastOf(P), Unit(a[m]))
      BY <1>1, <1>4, <3>1 DEF ClosesWith, LastOf, m
    <3>3. Q # <<>> /\ Unit(b[1]) \in WordUnits(Q[1])
      BY <1>1, <1>4, <3>1 DEF OpensWith
    <3>4. QED
      BY <1>6, <3>1, <3>2, <3>3
  <2>3. CASE j > m + 1
    <3>1. j - m \in 2..n /\ j - m - 1 \in 1..n /\ m + (j - m) = j /\ m + (j - m - 1) = j - 1
      BY <1>2, <2>3
    <3>2. c[j] = b[j - m] /\ c[j - 1] = b[j - m - 1]
      <4>1. j - m \in 1..n
        BY <1>2, <3>1
      <4>2. c[m + (j - m)] = b[j - m] /\ c[m + (j - m - 1)] = b[j - m - 1]
        BY <1>2, <3>1, <4>1
      <4>3. QED
        BY <3>1, <4>2
    <3>3. Meet(Q, Unit(c[j - 1]), Unit(c[j]))
      BY <1>1, <3>1, <3>2 DEF NeighboursIn, n
    <3>4. QED
      BY <1>6, <3>3
  <2>4. QED
    BY <1>2, <2>1, <2>2, <2>3
<1>13. QED
  BY <1>1, <1>3, <1>4, <1>8, <1>9, <1>10, <1>11, <1>12 DEF Good, c, R

\* A text that is one piece.
LEMMA WholeGood ==
  ASSUME NEW text \in Texts, text # <<>>, Fits(text)
  PROVE  Good(text, <<text>>)
<1> DEFINE P == <<text>>
<1>1. P \in Seq(Texts) /\ Len(P) = 1 /\ P[1] = text /\ P # <<>>
  OBVIOUS
<1>2. Len(text) \in Nat /\ Len(text) # 0 /\ DOMAIN text = 1..Len(text)
  BY EmptySeq DEF Texts
<1> HIDE DEF P
<1>3. \A j \in 1..Len(text) : Unit(text[j]) \in WordUnits(text)
  BY <1>2 DEF WordUnits, Unit
<1>4. SameUnits(text, P) /\ \A k \in 1..Len(P) : Fits(P[k])
  BY <1>1 DEF SameUnits
<1>5. OpensWith(text, P)
  BY <1>1, <1>2, <1>3 DEF OpensWith
<1>6. ClosesWith(text, P)
  BY <1>1 DEF ClosesWith, Closes, LastOf
<1>7. NeighboursIn(text, P)
  <2>1. \A j \in 2..Len(text) : Meet(P, Unit(text[j - 1]), Unit(text[j]))
    <3> TAKE j \in 2..Len(text)
    <3>1. j \in 1..Len(text) /\ j - 1 \in 1..Len(text)
      BY <1>2
    <3>2. QED
      BY <1>1, <1>3, <3>1 DEF Meet
  <2>2. QED
    BY <2>1 DEF NeighboursIn
<1>8. QED
  BY <1>1, <1>4, <1>5, <1>6, <1>7 DEF Good, P

LEMMA NothingGood == Good(<<>>, <<>>)
<1>1. <<>> \in Seq(Texts) /\ Len(<<>>) = 0 /\ WordUnits(<<>>) = {}
  BY EmptyListed DEF WordUnits
<1>2. QED
  BY <1>1 DEF Good, SameUnits, OpensWith, ClosesWith, NeighboursIn

\* A long word that is split by force.
LEMMA HardGood ==
  ASSUME NEW text \in Texts, Len(text) = 1, ~ (TokenCount(text) <= TargetTokens)
  PROVE  Good(text, HardSplit(text[1]))
<1> DEFINE word == text[1]
           head == 4 * TargetTokens
           one == IF word.chars <= head THEN word ELSE [word EXCEPT !.chars = head]
           rest == [word EXCEPT !.chars = @ - head]
           two == IF word.chars <= head THEN <<>> ELSE <<rest>>
           P == <<<<one>>, two>>
<1>1. word \in Word /\ text # <<>> /\ DOMAIN text = 1..1
  BY DEF Texts
<1>2. TargetTokens \in Nat \ {0}
  BY ChunkingAssumption
<1>3. word.chars \in Nat \ {0} /\ head \in Nat \ {0}
  BY <1>1, <1>2 DEF Word
<1>4. one \in Word /\ one.id = word.id
  BY <1>1, <1>3 DEF Word
<1>5. two \in Texts /\ (two = <<>> \/ (Len(two) = 1 /\ two[1].id = word.id))
  <2>1. CASE word.chars <= head
    BY <2>1, EmptyListed DEF Texts
  <2>2. CASE ~ (word.chars <= head)
    <3>1. word.chars - head \in Nat \ {0}
      BY <1>3, <2>2
    <3>2. rest \in Word /\ rest.id = word.id
      BY <1>1, <3>1 DEF Word
    <3>3. two = <<rest>>
      BY <2>2
    <3> HIDE DEF rest, two, word
    <3>4. QED
      BY <3>2, <3>3 DEF Texts
  <2>3. QED
    BY <2>1, <2>2
<1>6. HardSplit(word) = P
  BY DEF HardSplit
<1>7. ~ Small(word)
  BY <1>1, CountFacts DEF Small, Texts
<1>8. WordUnits(text) = {Unit(word)}
  BY <1>1 DEF WordUnits, Unit
<1> HIDE DEF word, one, two
<1>9. P \in Seq(Texts) /\ Len(P) = 2 /\ P[1] = <<one>> /\ P[2] = two
  BY <1>4, <1>5 DEF Texts
<1>10. WordUnits(<<one>>) = {Unit(word)}
  BY <1>4 DEF WordUnits, Unit
<1>11. WordUnits(two) \subseteq {Unit(word)}
  BY <1>5 DEF WordUnits, Unit, Texts
<1>12. Fits(<<one>>) /\ Fits(two)
  <2>1. two = <<>> => TokenCount(two) = 0
    BY <1>5, CountFacts DEF Texts
  <2>2. QED
    BY <1>2, <1>5, <2>1 DEF Fits
<1> HIDE DEF P
<1>13. SameUnits(text, P)
  BY <1>8, <1>9, <1>10, <1>11 DEF SameUnits
<1>14. \A k \in 1..Len(P) : Fits(P[k])
  BY <1>9, <1>12
<1>15. OpensWith(text, P) /\ ClosesWith(text, P)
  BY <1>7 DEF OpensWith, ClosesWith, LastOf, word
<1>16. NeighboursIn(text, P)
  BY DEF NeighboursIn
<1>17. QED
  BY <1>1, <1>6, <1>9, <1>13, <1>14, <1>15, <1>16 DEF Good, word

-----------------------------------------------------------------------------
(* The parts between the cuts *)

\* The parts of a text, which end at cut[1], cut[2], ..., and are shorter than it.
PartsOf(text, parts, cut) ==
  /\ parts \in Seq(Texts)
  /\ cut[0] = 0 /\ cut[Len(parts)] = Len(text)
  /\ \A k \in 0..Len(parts) : cut[k] \in 0..Len(text)
  /\ \A k \in 1..Len(parts) :
       /\ cut[k - 1] < cut[k]
       /\ parts[k] = SubSeq(text, cut[k - 1] + 1, cut[k])
       /\ Len(parts[k]) < Len(text)

\* A part of a text.
LEMMA PartFacts ==
  ASSUME NEW text \in Texts, NEW i \in 0..Len(text), NEW j \in 0..Len(text), i < j
  PROVE  /\ SubSeq(text, i + 1, j) \in Texts
         /\ Len(SubSeq(text, i + 1, j)) = j - i
<1>1. Len(text) \in Nat /\ \A k \in 1..Len(text) : text[k] \in Word
  BY DEF Texts
<1>2. i + 1 \in Int /\ j \in Int /\ i + 1 <= j
  BY <1>1
<1>3. \A k \in i + 1..j : text[k] \in Word
  BY <1>1
<1>4. /\ SubSeq(text, i + 1, j) \in Seq(Word)
      /\ Len(SubSeq(text, i + 1, j)) = IF i + 1 <= j THEN j - (i + 1) + 1 ELSE 0
  BY <1>2, <1>3, SubSeqProperties
<1>5. j - (i + 1) + 1 = j - i
  BY <1>1
<1>6. QED
  BY <1>2, <1>4, <1>5 DEF Texts

LEMMA SplitFacts ==
  ASSUME NEW text \in Texts, Len(text) > 1
  PROVE  \E cut : PartsOf(text, SplitAt(text, FirstSeparator(text)), cut)
<1> DEFINE L == Len(text)
           level == FirstSeparator(text)
           cuts == {0, L} \cup {i \in 1..(L - 1) : text[i].gap = level}
           n == Cardinality(cuts)
           R == {p \in cuts \X cuts : p[1] < p[2]}
           place == [c \in cuts |-> 1 + Cardinality(Preceding(cuts, R, c))]
           cut(k) == CHOOSE c \in cuts : Cardinality({d \in cuts : d < c}) = k
           at == [k \in 0..n - 1 |-> cut(k)]
           parts == SplitAt(text, level)
<1>1. L \in Nat /\ L > 1 /\ \A i \in 1..L : text[i] \in Word
  BY DEF Texts
<1>2. PICK m \in cuts : 0 < m /\ m < L
  <2> DEFINE gaps == {text[i].gap : i \in 1..(L - 1)}
  <2>1. gaps \subseteq Nat /\ gaps # {}
    BY <1>1 DEF Word
  <2>2. level = Min(gaps)
    BY DEF FirstSeparator
  <2>3. level \in gaps
    <3> HIDE DEF gaps, level
    <3>1. QED
      BY <2>1, <2>2, MinOfNats
  <2> HIDE DEF level
  <2>4. PICK i \in 1..(L - 1) : text[i].gap = level
    BY <2>3
  <2>5. i \in cuts /\ 0 < i /\ i < L
    BY <1>1, <2>4
  <2>6. QED
    BY <2>5
<1>3. cuts \subseteq 0..L /\ 0 \in cuts /\ L \in cuts
  BY <1>1
<1>4. parts = [k \in 1..(n - 1) |-> SubSeq(text, cut(k - 1) + 1, cut(k))]
  BY DEF SplitAt
<1> HIDE DEF cuts
<1>5. IsFiniteSet(cuts)
  <2>1. IsFiniteSet(0..L)
    BY <1>1, FS_Interval
  <2>2. QED
    BY <1>3, <2>1, FS_Subset
<1>6. \A c \in cuts : Preceding(cuts, R, c) = {d \in cuts : d < c}
  BY DEF Preceding
<1>7. \A c, d \in cuts : <<c, d>> \in R <=> c < d
  OBVIOUS
<1>8. \A c \in cuts : place[c] = 1 + Cardinality(Preceding(cuts, R, c))
  OBVIOUS
<1>9. \A c \in cuts : place[c] = 1 + Cardinality({d \in cuts : d < c})
  BY <1>6, <1>8
<1> HIDE DEF R, place, L
<1>10. /\ n \in Nat
       /\ \A c \in cuts : place[c] \in 1..n
       /\ \A c, d \in cuts : c < d => place[c] < place[d]
       /\ \A i \in 1..n : \E c \in cuts : place[c] = i
  <2>1. \A x \in cuts : <<x, x>> \notin R
    BY <1>1, <1>3, <1>7
  <2>2. \A x, y, z \in cuts : <<x, y>> \in R /\ <<y, z>> \in R => <<x, z>> \in R
    BY <1>1, <1>3, <1>7
  <2>3. \A x, y \in cuts : x # y => <<x, y>> \in R \/ <<y, x>> \in R
    BY <1>1, <1>3, <1>7
  <2>4. /\ Cardinality(cuts) \in Nat
        /\ \A c \in cuts : place[c] \in 1..Cardinality(cuts)
        /\ \A c, d \in cuts : <<c, d>> \in R => place[c] < place[d]
        /\ \A i \in 1..Cardinality(cuts) : \E c \in cuts : place[c] = i
    BY <1>5, <1>8, <2>1, <2>2, <2>3, Places
  <2>5. QED
    BY <1>7, <2>4
<1> HIDE DEF n
<1>11. \A k \in 0..n - 1 : cut(k) \in cuts /\ place[cut(k)] = k + 1
  <2> TAKE k \in 0..n - 1
  <2>1. k + 1 \in 1..n
    BY <1>10
  <2>2. PICK c \in cuts : place[c] = k + 1
    BY <1>10, <2>1
  <2>3. \A d \in cuts : Cardinality(Preceding(cuts, R, d)) \in Nat
    <3> TAKE d \in cuts
    <3>1. Preceding(cuts, R, d) \subseteq cuts
      BY <1>6
    <3>2. QED
      BY <1>5, <3>1, FS_Subset, FS_CardinalityType
  <2>4. \A d \in cuts : Cardinality({e \in cuts : e < d}) \in Nat
    BY <1>6, <2>3
  <2> DEFINE count(d) == Cardinality({e \in cuts : e < d})
  <2>5. \A d \in cuts : count(d) \in Nat /\ place[d] = 1 + count(d)
    BY <1>9, <2>4
  <2>6. cut(k) = CHOOSE d \in cuts : count(d) = k
    OBVIOUS
  <2> HIDE DEF count, cut
  <2>7. count(c) = k
    BY <2>2, <2>5
  <2>8. cut(k) \in cuts /\ count(cut(k)) = k
    BY <2>6, <2>7
  <2>9. QED
    BY <2>5, <2>8
<1>12. \A k \in 0..n - 1 : at[k] \in cuts /\ at[k] \in 0..L /\ place[at[k]] = k + 1
  BY <1>3, <1>11
<1>13. parts = [k \in 1..(n - 1) |-> SubSeq(text, at[k - 1] + 1, at[k])]
  <2> HIDE DEF cut
  <2>1. \A k \in 1..(n - 1) : at[k - 1] = cut(k - 1) /\ at[k] = cut(k)
    BY <1>10
  <2> HIDE DEF at
  <2>2. QED
    BY <1>4, <2>1
<1> HIDE DEF at, cut
<1>14. \A c, d \in cuts : place[c] < place[d] => c < d
  <2> SUFFICES ASSUME NEW c \in cuts, NEW d \in cuts, place[c] < place[d] PROVE c < d
    OBVIOUS
  <2>1. c \in Int /\ d \in Int /\ place[c] \in Int /\ place[d] \in Int
    BY <1>3, <1>10
  <2>2. ~ (d < c) /\ c # d
    BY <1>10, <2>1
  <2>3. QED
    BY <2>1, <2>2
<1>15. n >= 2
  <2>1. place[0] \in 1..n /\ place[m] \in 1..n /\ place[0] < place[m]
    BY <1>2, <1>3, <1>10
  <2>2. QED
    BY <1>10, <2>1
<1>16. at[0] = 0
  <2>1. at[0] \in cuts /\ place[at[0]] = 1 /\ at[0] \in 0..L
    BY <1>10, <1>12, <1>15
  <2>2. ~ (0 < at[0])
    BY <1>3, <1>10, <2>1
  <2>3. QED
    BY <2>1, <2>2
<1>17. at[n - 1] = L
  <2>1. at[n - 1] \in cuts /\ place[at[n - 1]] = n /\ at[n - 1] \in 0..L
    BY <1>10, <1>12, <1>15
  <2>2. ~ (at[n - 1] < L)
    BY <1>3, <1>10, <2>1
  <2>3. QED
    BY <1>1, <2>1, <2>2
<1>18. ASSUME NEW k \in 1..(n - 1)
       PROVE  /\ at[k - 1] \in 0..L /\ at[k] \in 0..L /\ at[k - 1] < at[k]
              /\ at[k] - at[k - 1] < L
  <2>1. k - 1 \in 0..n - 1 /\ k \in 0..n - 1
    BY <1>10
  <2>2. /\ at[k - 1] \in cuts /\ at[k - 1] \in 0..L /\ place[at[k - 1]] = k
        /\ at[k] \in cuts /\ at[k] \in 0..L /\ place[at[k]] = k + 1
    BY <1>12, <2>1
  <2>3. at[k - 1] < at[k]
    BY <1>14, <2>2
  <2>4. ~ (at[k - 1] = 0 /\ at[k] = L)
    <3>1. SUFFICES ASSUME at[k - 1] = 0, at[k] = L PROVE FALSE
      OBVIOUS
    <3>2. k < place[m] /\ place[m] < k + 1 /\ place[m] \in 1..n
      BY <1>2, <1>3, <1>10, <2>2, <3>1
    <3>3. QED
      BY <3>2
  <2>5. QED
    BY <1>1, <2>2, <2>3, <2>4
<1>19. /\ parts \in Seq(Texts) /\ Len(parts) = n - 1
       /\ \A k \in 1..(n - 1) : /\ parts[k] = SubSeq(text, at[k - 1] + 1, at[k])
                                 /\ Len(parts[k]) < L
  <2>1. \A k \in 1..(n - 1) :
          /\ SubSeq(text, at[k - 1] + 1, at[k]) \in Texts
          /\ Len(SubSeq(text, at[k - 1] + 1, at[k])) = at[k] - at[k - 1]
    BY <1>18, PartFacts DEF L
  <2> HIDE DEF parts
  <2>2. \A k \in 1..(n - 1) : parts[k] = SubSeq(text, at[k - 1] + 1, at[k]) /\ parts[k] \in Texts
    BY <1>13, <2>1
  <2>3. parts \in Seq(Texts) /\ Len(parts) = n - 1
    BY <1>10, <1>13, <1>15, <2>2
  <2>4. QED
    BY <1>18, <2>1, <2>2, <2>3
<1> HIDE DEF parts
<1>20. \A k \in 0..n - 1 : at[k] \in 0..L
  BY <1>12
<1>21. PartsOf(text, parts, at)
  BY <1>16, <1>17, <1>18, <1>19, <1>20 DEF PartsOf, L
<1>22. QED
  BY <1>21 DEF parts

-----------------------------------------------------------------------------
(* Gluing the parts *)

Merges == [out : Seq(Texts), buf : Texts]

NoMerge == [out |-> <<>>, buf |-> <<>>]

LEMMA FlushType == \A acc \in Merges : Flush(acc) \in Seq(Texts)
BY DEF Merges, Flush

LEMMA GlueType ==
  ASSUME NEW acc \in Merges, NEW part \in Texts, NEW split, split[part] \in Seq(Texts)
  PROVE  Glue(acc, part, split) \in Merges
<1>1. acc.out \in Seq(Texts) /\ acc.buf \in Texts /\ Flush(acc) \in Seq(Texts)
  BY FlushType DEF Merges
<1>2. acc.buf \o part \in Texts
  BY <1>1, ConcatAt DEF Texts
<1>3. Flush(acc) \o split[part] \in Seq(Texts)
  BY <1>1, ConcatAt
<1>4. <<>> \in Texts
  BY EmptyListed DEF Texts
<1>5. QED
  BY <1>1, <1>2, <1>3, <1>4 DEF Glue, Merges

\* The merges under way after each part.
MergeRuns(f, parts, split) ==
  /\ f[0] = NoMerge
  /\ \A k \in 0..Len(parts) : f[k] \in Merges
  /\ \A k \in 1..Len(parts) : f[k] = Glue(f[k - 1], parts[k], split)

SplitsInto(parts, split) ==
  parts \in Seq(Texts) /\ \A k \in 1..Len(parts) : split[parts[k]] \in Seq(Texts)

LEMMA MergePasses ==
  ASSUME NEW parts, NEW split, SplitsInto(parts, split)
  PROVE  \E f : MergeRuns(f, parts, split) /\ GreedyMerge(parts, split) = Flush(f[Len(parts)])
<1> DEFINE N == Len(parts)
           step == [n \in 1..N |-> [acc \in Merges |-> Glue(acc, parts[n], split)]]
           Runs(f) == f = [n \in 0..N |-> IF n = 0 THEN NoMerge
                                                  ELSE Glue(f[n - 1], parts[n], split)]
           upTo == CHOOSE f : Runs(f)
<1>1. N \in Nat /\ \A n \in 1..N : parts[n] \in Texts /\ split[parts[n]] \in Seq(Texts)
  BY DEF SplitsInto
<1>2. NoMerge \in Merges
  BY EmptyListed DEF NoMerge, Merges, Texts
<1>3. \A n \in 1..N : \A acc \in Merges :
        step[n][acc] = Glue(acc, parts[n], split) /\ step[n][acc] \in Merges
  BY <1>1, GlueType
<1>4. PICK f : Passes(f, N, Merges, NoMerge, step)
  <2> HIDE DEF step, N
  <2>1. QED
    BY <1>1, <1>2, <1>3, Iteration
<1>5. /\ f \in [0..N -> Merges] /\ f[0] = NoMerge
      /\ \A n \in 1..N : f[n] = Glue(f[n - 1], parts[n], split)
  <2> HIDE DEF step, N
  <2>1. f \in [0..N -> Merges] /\ f[0] = NoMerge /\ \A n \in 1..N : f[n] = step[n][f[n - 1]]
    BY <1>4 DEF Passes
  <2>2. \A n \in 1..N : f[n - 1] \in Merges
    BY <1>1, <2>1
  <2>3. QED
    BY <1>3, <2>1, <2>2
<1>6. Runs(f)
  <2> HIDE DEF step, N
  <2>1. \A n \in 0..N : f[n] = IF n = 0 THEN NoMerge ELSE Glue(f[n - 1], parts[n], split)
    BY <1>1, <1>5
  <2>2. QED
    BY <1>5, <2>1
<1>7. Runs(upTo)
  <2> HIDE DEF Runs
  <2>1. QED
    BY <1>6
<1>8. GreedyMerge(parts, split) = Flush(upTo[N])
  BY DEF GreedyMerge, NoMerge
<1> HIDE DEF upTo, N, step
<1>9. upTo[0] = NoMerge /\ \A n \in 1..N : upTo[n] = Glue(upTo[n - 1], parts[n], split)
  BY <1>1, <1>7
<1>10. \A k \in 0..N : upTo[k] \in Merges
  <2> DEFINE T == {n \in Nat : n <= N => upTo[n] \in Merges}
  <2>1. 0 \in T
    BY <1>2, <1>9
  <2>2. ASSUME NEW n \in Nat, n \in T PROVE n + 1 \in T
    <3>1. SUFFICES ASSUME n + 1 <= N PROVE upTo[n + 1] \in Merges
      OBVIOUS
    <3>2. n + 1 \in 1..N /\ (n + 1) - 1 = n /\ upTo[n] \in Merges
      BY <1>1, <2>2, <3>1
    <3>3. upTo[n + 1] = Glue(upTo[n], parts[n + 1], split)
      BY <1>9, <3>2
    <3>4. QED
      BY <1>1, <3>2, <3>3, GlueType
  <2> HIDE DEF T
  <2>3. \A n \in Nat : n \in T
    BY <2>1, <2>2, SetInduction
  <2>4. QED
    BY <1>1, <2>3 DEF T
<1>11. MergeRuns(upTo, parts, split)
  BY <1>9, <1>10 DEF MergeRuns, N
<1>12. QED
  BY <1>8, <1>11 DEF N

\* What is merged depends on the splits of the parts only.
LEMMA MergeAgrees ==
  ASSUME NEW parts, NEW split, NEW other, SplitsInto(parts, split),
         \A k \in 1..Len(parts) : split[parts[k]] = other[parts[k]]
  PROVE  GreedyMerge(parts, split) = GreedyMerge(parts, other)
<1>1. SplitsInto(parts, other)
  BY DEF SplitsInto
<1>2. PICK f : MergeRuns(f, parts, split) /\ GreedyMerge(parts, split) = Flush(f[Len(parts)])
  BY MergePasses
<1>3. PICK g : MergeRuns(g, parts, other) /\ GreedyMerge(parts, other) = Flush(g[Len(parts)])
  BY <1>1, MergePasses
<1>4. Len(parts) \in Nat
  BY DEF SplitsInto
<1> DEFINE T == {n \in Nat : n <= Len(parts) => f[n] = g[n]}
<1>5. 0 \in T
  BY <1>2, <1>3 DEF MergeRuns
<1>6. ASSUME NEW n \in Nat, n \in T PROVE n + 1 \in T
  <2>1. SUFFICES ASSUME n + 1 <= Len(parts) PROVE f[n + 1] = g[n + 1]
    OBVIOUS
  <2>2. n + 1 \in 1..Len(parts) /\ (n + 1) - 1 = n /\ f[n] = g[n]
    BY <1>4, <1>6, <2>1
  <2>3. /\ f[n + 1] = Glue(f[n], parts[n + 1], split)
        /\ g[n + 1] = Glue(f[n], parts[n + 1], other)
    BY <1>2, <1>3, <2>2 DEF MergeRuns
  <2>4. split[parts[n + 1]] = other[parts[n + 1]]
    BY <2>2
  <2>5. QED
    BY <2>3, <2>4 DEF Glue
<1> HIDE DEF T
<1>7. Len(parts) \in T
  BY <1>4, <1>5, <1>6, SetInduction
<1>8. QED
  BY <1>2, <1>3, <1>4, <1>7 DEF T

\* What has been put out is good for the text before the piece being glued.
Merging(acc, text) ==
  /\ acc \in Merges
  /\ acc.buf = <<>> \/ Fits(acc.buf)
  /\ \E a \in Texts : text = a \o acc.buf /\ Good(a, acc.out)

LEMMA FlushGood ==
  ASSUME NEW acc, NEW text, Merging(acc, text)
  PROVE  Good(text, Flush(acc))
<1>1. PICK a \in Texts : text = a \o acc.buf /\ Good(a, acc.out)
  BY DEF Merging
<1>2. acc.out \in Seq(Texts) /\ acc.buf \in Texts
  BY DEF Merging, Merges
<1>3. CASE acc.buf = <<>>
  <2>1. text = a
    BY <1>1, <1>3, ConcatEmptySeq DEF Texts
  <2>2. QED
    BY <1>1, <1>3, <2>1 DEF Flush
<1>4. CASE acc.buf # <<>>
  <2>1. Good(acc.buf, <<acc.buf>>)
    BY <1>2, <1>4, WholeGood DEF Merging
  <2>2. Good(a \o acc.buf, acc.out \o <<acc.buf>>)
    BY <1>1, <1>2, <2>1, JoinGood
  <2>3. Append(acc.out, acc.buf) = acc.out \o <<acc.buf>>
    BY <1>2, AppendIsConcat
  <2>4. QED
    BY <1>1, <1>4, <2>2, <2>3 DEF Flush
<1>5. QED
  BY <1>3, <1>4

LEMMA GlueGood ==
  ASSUME NEW acc, NEW text \in Texts, Merging(acc, text),
         NEW part \in Texts, NEW split, Good(part, split[part])
  PROVE  Merging(Glue(acc, part, split), text \o part)
<1>1. PICK a \in Texts : text = a \o acc.buf /\ Good(a, acc.out)
  BY DEF Merging
<1>2. acc \in Merges /\ acc.out \in Seq(Texts) /\ acc.buf \in Texts
  BY DEF Merging, Merges
<1>3. Glue(acc, part, split) \in Merges
  BY <1>2, GlueType DEF Good
<1>4. Good(text, Flush(acc))
  BY FlushGood
<1>5. text \o part \in Texts /\ acc.buf \o part \in Texts
  BY <1>2, ConcatAt DEF Texts
<1>6. (text \o part) \o <<>> = text \o part
  BY <1>5, ConcatEmptySeq DEF Texts
<1>7. CASE TokenCount(acc.buf \o part) <= TargetTokens
  <2> DEFINE new == [out |-> acc.out, buf |-> acc.buf \o part]
  <2>1. Glue(acc, part, split) = new
    BY <1>7 DEF Glue
  <2>2. new.out = acc.out /\ new.buf = acc.buf \o part
    OBVIOUS
  <2> HIDE DEF new
  <2>3. text \o part = a \o (acc.buf \o part)
    <3>1. a \in Seq(Word) /\ acc.buf \in Seq(Word) /\ part \in Seq(Word)
      BY <1>2 DEF Texts
    <3> DEFINE b == acc.buf
    <3>b. b \in Seq(Word)
      BY <3>1
    <3> HIDE DEF b
    <3>c. (a \o b) \o part = a \o (b \o part)
      BY <3>1, <3>b, ConcatAssociative
    <3>2. (a \o acc.buf) \o part = a \o (acc.buf \o part)
      BY <3>c DEF b
    <3>3. QED
      BY <1>1, <3>2
  <2>4. Fits(new.buf)
    BY <1>7, <2>2 DEF Fits
  <2>5. QED
    BY <1>1, <1>3, <2>1, <2>2, <2>3, <2>4 DEF Merging
<1>8. CASE ~ (TokenCount(acc.buf \o part) <= TargetTokens) /\ TokenCount(part) > TargetTokens
  <2> DEFINE new == [out |-> Flush(acc) \o split[part], buf |-> <<>>]
  <2>1. Glue(acc, part, split) = new
    BY <1>8 DEF Glue
  <2>2. new.out = Flush(acc) \o split[part] /\ new.buf = <<>>
    OBVIOUS
  <2> HIDE DEF new
  <2>3. Good(text \o part, new.out)
    BY <1>4, <2>2, JoinGood
  <2>4. text \o part = (text \o part) \o new.buf
    BY <1>6, <2>2
  <2>5. QED
    BY <1>3, <1>5, <2>1, <2>2, <2>3, <2>4 DEF Merging
<1>9. CASE ~ (TokenCount(acc.buf \o part) <= TargetTokens) /\ ~ (TokenCount(part) > TargetTokens)
  <2> DEFINE new == [out |-> Flush(acc), buf |-> part]
  <2>1. Glue(acc, part, split) = new
    BY <1>9 DEF Glue
  <2>2. new.out = Flush(acc) /\ new.buf = part
    OBVIOUS
  <2> HIDE DEF new
  <2>3. TokenCount(part) \in Nat /\ TargetTokens \in Nat
    BY CountFacts, ChunkingAssumption DEF Texts
  <2>4. Fits(new.buf)
    BY <1>9, <2>2, <2>3 DEF Fits
  <2>5. QED
    BY <1>3, <1>4, <2>1, <2>2, <2>4 DEF Merging
<1>10. QED
  BY <1>7, <1>8, <1>9

\* Merging the parts of a text splits it well if its parts are split well.
LEMMA MergeGood ==
  ASSUME NEW text \in Texts, NEW parts, NEW cut, PartsOf(text, parts, cut), NEW split,
         \A k \in 1..Len(parts) : Good(parts[k], split[parts[k]])
  PROVE  Good(text, GreedyMerge(parts, split))
<1> DEFINE N == Len(parts)
           Before(k) == SubSeq(text, 1, cut[k])
<1>1. N \in Nat /\ parts \in Seq(Texts) /\ \A k \in 1..N : parts[k] \in Texts
  BY DEF PartsOf
<1>2. SplitsInto(parts, split)
  BY <1>1 DEF SplitsInto, Good
<1>3. PICK f : MergeRuns(f, parts, split) /\ GreedyMerge(parts, split) = Flush(f[N])
  BY <1>2, MergePasses
<1>4. /\ \A k \in 0..N : cut[k] \in 0..Len(text)
      /\ \A k \in 1..N : cut[k - 1] < cut[k] /\ parts[k] = SubSeq(text, cut[k - 1] + 1, cut[k])
      /\ cut[0] = 0 /\ cut[N] = Len(text)
  BY DEF PartsOf
<1> HIDE DEF N
<1>5. \A k \in 0..N : Before(k) \in Texts
  <2> TAKE k \in 0..N
  <2>1. cut[k] \in 0..Len(text) /\ Len(text) \in Nat
    BY <1>4 DEF Texts
  <2>2. \A i \in 1..cut[k] : text[i] \in Word
    BY <2>1 DEF Texts
  <2>3. QED
    BY <2>1, <2>2, SubSeqProperties DEF Texts
<1>6. \A k \in 1..N : Before(k) = Before(k - 1) \o parts[k]
  <2> TAKE k \in 1..N
  <2>1. /\ cut[k - 1] \in 0..Len(text) /\ cut[k] \in 0..Len(text) /\ cut[k - 1] < cut[k]
        /\ Len(text) \in Nat
    BY <1>1, <1>4 DEF Texts
  <2> DEFINE p == cut[k - 1]
             q == cut[k]
  <2>a. 1 \in 1..Len(text) + 1 /\ p \in 1 - 1..Len(text) /\ q \in p..Len(text)
    BY <2>1
  <2> HIDE DEF p, q
  <2>b. SubSeq(text, 1, p) \o SubSeq(text, p + 1, q) = SubSeq(text, 1, q)
    BY <2>a, ConcatAdjacentSubSeq DEF Texts
  <2>2. SubSeq(text, 1, cut[k - 1]) \o SubSeq(text, cut[k - 1] + 1, cut[k]) = SubSeq(text, 1, cut[k])
    BY <2>b DEF p, q
  <2>3. QED
    BY <1>4, <2>2
<1>7. Before(0) = <<>>
  BY <1>4, SubSeqEmpty DEF Texts
<1>8. Before(N) = text
  BY <1>4, SubSeqFull DEF Texts
<1> HIDE DEF Before
<1> DEFINE T == {n \in Nat : n <= N => Merging(f[n], Before(n))}
<1>9. 0 \in T
  <2>1. f[0] = NoMerge /\ f[0] \in Merges
    BY <1>1, <1>3 DEF MergeRuns, N
  <2>2. NoMerge.buf = <<>> /\ NoMerge.out = <<>>
    BY DEF NoMerge
  <2>3. <<>> \in Texts /\ <<>> \o <<>> = <<>>
    BY EmptyListed, ConcatEmptySeq DEF Texts
  <2>4. Merging(f[0], Before(0))
    BY <1>7, <2>1, <2>2, <2>3, NothingGood DEF Merging
  <2>5. QED
    BY <2>4
<1>10. ASSUME NEW n \in Nat, n \in T PROVE n + 1 \in T
  <2>1. SUFFICES ASSUME n + 1 <= N PROVE Merging(f[n + 1], Before(n + 1))
    OBVIOUS
  <2>2. n + 1 \in 1..N /\ (n + 1) - 1 = n /\ n \in 0..N /\ Merging(f[n], Before(n))
    BY <1>1, <1>10, <2>1
  <2>3. f[n + 1] = Glue(f[n], parts[n + 1], split)
    BY <1>3, <2>2 DEF MergeRuns, N
  <2>4. Before(n + 1) = Before(n) \o parts[n + 1]
    BY <1>6, <2>2
  <2>5. Good(parts[n + 1], split[parts[n + 1]]) /\ parts[n + 1] \in Texts /\ Before(n) \in Texts
    BY <1>1, <1>5, <2>2 DEF N
  <2>6. QED
    BY <2>2, <2>3, <2>4, <2>5, GlueGood
<1> HIDE DEF T
<1>11. N \in T
  BY <1>1, <1>9, <1>10, SetInduction
<1>12. Merging(f[N], text)
  BY <1>1, <1>8, <1>11 DEF T
<1>13. QED
  BY <1>3, <1>12, FlushGood

-----------------------------------------------------------------------------
(* The recursion *)

\* The splits of all texts up to a length.
Splits(f, n) == f = [t \in TextsUpTo(n) |-> SplitOnce(t, f)]

LEMMA SplitOnceGood ==
  ASSUME NEW text \in Texts, NEW split,
         \A t \in Texts : Len(t) < Len(text) => Good(t, split[t])
  PROVE  Good(text, SplitOnce(text, split))
<1>1. CASE text = <<>>
  BY <1>1, NothingGood DEF SplitOnce
<1>2. CASE text # <<>> /\ TokenCount(text) <= TargetTokens
  BY <1>2, WholeGood DEF SplitOnce, Fits
<1>3. CASE text # <<>> /\ ~ (TokenCount(text) <= TargetTokens) /\ Len(text) > 1
  <2> DEFINE parts == SplitAt(text, FirstSeparator(text))
  <2>1. PICK cut : PartsOf(text, parts, cut)
    BY <1>3, SplitFacts
  <2>2. SplitOnce(text, split) = GreedyMerge(parts, split)
    BY <1>3 DEF SplitOnce
  <2> HIDE DEF parts
  <2>3. \A k \in 1..Len(parts) : parts[k] \in Texts /\ Len(parts[k]) < Len(text)
    BY <2>1 DEF PartsOf
  <2>4. Good(text, GreedyMerge(parts, split))
    BY <2>1, <2>3, MergeGood
  <2>5. QED
    BY <2>2, <2>4
<1>4. CASE text # <<>> /\ ~ (TokenCount(text) <= TargetTokens) /\ ~ (Len(text) > 1)
  <2>a. Len(text) \in Nat /\ Len(text) # 0
    BY <1>4, EmptySeq DEF Texts
  <2>b. ~ (Len(text) > 1)
    BY <1>4
  <2>c. \A n \in Nat : n # 0 /\ ~ (n > 1) => n = 1
    OBVIOUS
  <2>1. Len(text) = 1
    BY <2>a, <2>b, <2>c, Zenon
  <2>2. QED
    BY <1>4, <2>1, HardGood DEF SplitOnce
<1>5. QED
  BY <1>1, <1>2, <1>3, <1>4

LEMMA SplitsGood ==
  ASSUME NEW n \in Nat, NEW f, Splits(f, n), NEW text \in TextsUpTo(n)
  PROVE  Good(text, f[text])
<1> DEFINE T == {m \in Nat : \A t \in TextsUpTo(n) : Len(t) <= m => Good(t, f[t])}
<1>1. \A t \in TextsUpTo(n) : t \in Texts /\ Len(t) \in Nat /\ Len(t) <= n /\ f[t] = SplitOnce(t, f)
  BY DEF Splits, TextsUpTo, Texts
<1>2. \A t \in Texts : Len(t) \in Nat /\ (Len(t) <= n => t \in TextsUpTo(n))
  BY DEF TextsUpTo, Texts
<1>3. ASSUME NEW t \in TextsUpTo(n), \A s \in TextsUpTo(n) : Len(s) < Len(t) => Good(s, f[s])
      PROVE  Good(t, f[t])
  <2>1. \A s \in Texts : Len(s) < Len(t) => Good(s, f[s])
    BY <1>1, <1>2, <1>3
  <2>2. QED
    BY <1>1, <2>1, SplitOnceGood
<1>4. 0 \in T
  <2>1. ASSUME NEW t \in TextsUpTo(n), Len(t) <= 0 PROVE Good(t, f[t])
    <3>1. \A s \in TextsUpTo(n) : ~ (Len(s) < Len(t))
      BY <1>1, <2>1
    <3>2. QED
      BY <1>3, <3>1
  <2>2. QED
    BY <2>1
<1>5. ASSUME NEW m \in Nat, m \in T PROVE m + 1 \in T
  <2>1. ASSUME NEW t \in TextsUpTo(n), Len(t) <= m + 1 PROVE Good(t, f[t])
    <3>1. \A s \in TextsUpTo(n) : Len(s) < Len(t) => Len(s) <= m
      BY <1>1, <2>1
    <3>2. \A s \in TextsUpTo(n) : Len(s) < Len(t) => Good(s, f[s])
      BY <1>5, <3>1
    <3>3. QED
      BY <1>3, <3>2
  <2>2. QED
    BY <2>1
<1> HIDE DEF T
<1>6. n \in T
  BY <1>4, <1>5, SetInduction
<1>7. QED
  BY <1>1, <1>6 DEF T

\* One call depends on the splits of shorter texts only.
LEMMA SplitOnceAgrees ==
  ASSUME NEW text \in Texts, NEW split, NEW other,
         \A t \in Texts : Len(t) < Len(text) => Good(t, split[t]) /\ split[t] = other[t]
  PROVE  SplitOnce(text, split) = SplitOnce(text, other)
<1>1. CASE Len(text) > 1
  <2> DEFINE parts == SplitAt(text, FirstSeparator(text))
  <2>1. PICK cut : PartsOf(text, parts, cut)
    BY <1>1, SplitFacts
  <2>2. SplitsInto(parts, split)
    BY <2>1 DEF SplitsInto, PartsOf, Good
  <2>3. \A k \in 1..Len(parts) : split[parts[k]] = other[parts[k]]
    BY <2>1 DEF PartsOf
  <2>4. GreedyMerge(parts, split) = GreedyMerge(parts, other)
    BY <2>2, <2>3, MergeAgrees
  <2>5. QED
    BY <2>4 DEF SplitOnce
<1>2. CASE ~ (Len(text) > 1)
  BY <1>2 DEF SplitOnce
<1>3. QED
  BY <1>1, <1>2

\* The recursion is well founded: the splits of texts of any length exist.
LEMMA SplitsExist == \A n \in Nat : \E f : Splits(f, n)
<1> DEFINE T == {n \in Nat : \E f : Splits(f, n)}
<1>1. 0 \in T
  <2> DEFINE f == [t \in TextsUpTo(0) |-> <<>>]
  <2>1. \A t \in TextsUpTo(0) : t = <<>>
    BY EmptySeq DEF TextsUpTo
  <2>2. \A t \in TextsUpTo(0) : SplitOnce(t, f) = <<>>
    BY <2>1 DEF SplitOnce
  <2>3. f = [t \in TextsUpTo(0) |-> SplitOnce(t, f)]
    BY <2>2
  <2>4. Splits(f, 0)
    BY <2>3 DEF Splits
  <2>5. QED
    BY <2>4
<1>2. ASSUME NEW n \in Nat, n \in T PROVE n + 1 \in T
  <2>1. PICK f : Splits(f, n)
    BY <1>2
  <2> DEFINE g == [t \in TextsUpTo(n + 1) |-> SplitOnce(t, f)]
  <2>2. \A t \in Texts : Len(t) < n + 1 => t \in TextsUpTo(n) /\ t \in TextsUpTo(n + 1)
    BY DEF Texts, TextsUpTo
  <2>3. \A t \in TextsUpTo(n) : f[t] = SplitOnce(t, f) /\ Good(t, f[t])
    BY <2>1, SplitsGood DEF Splits
  <2>4. \A t \in TextsUpTo(n + 1) : g[t] = SplitOnce(t, f)
    OBVIOUS
  <2> HIDE DEF g
  <2>5. \A t \in Texts : Len(t) < n + 1 => Good(t, f[t]) /\ f[t] = g[t]
    BY <2>2, <2>3, <2>4
  <2>6. ASSUME NEW t \in TextsUpTo(n + 1) PROVE SplitOnce(t, f) = SplitOnce(t, g)
    <3>1. t \in Texts /\ Len(t) \in Nat /\ Len(t) <= n + 1
      BY DEF Texts, TextsUpTo
    <3>2. \A s \in Texts : Len(s) < Len(t) => Len(s) < n + 1
      BY <3>1 DEF Texts
    <3>3. QED
      BY <2>5, <3>1, <3>2, SplitOnceAgrees
  <2>7. g = [t \in TextsUpTo(n + 1) |-> SplitOnce(t, g)]
    BY <2>6 DEF g
  <2>8. Splits(g, n + 1)
    BY <2>7 DEF Splits
  <2>9. QED
    BY <2>8
<1> HIDE DEF T
<1>3. \A n \in Nat : n \in T
  BY <1>1, <1>2, SetInduction
<1>4. QED
  BY <1>3 DEF T

LEMMA RecursiveSplitGood == \A text \in Texts : Good(text, RecursiveSplit(text))
<1> TAKE text \in Texts
<1> DEFINE n == Len(text)
           split == CHOOSE f : Splits(f, n)
<1>1. n \in Nat /\ text \in TextsUpTo(n)
  BY DEF Texts, TextsUpTo
<1>2. RecursiveSplit(text) = split[text]
  BY DEF RecursiveSplit, Splits
<1>3. Splits(split, n)
  <2> HIDE DEF n
  <2>1. QED
    BY <1>1, SplitsExist
<1> HIDE DEF split, n
<1>4. QED
  BY <1>1, <1>2, <1>3, SplitsGood

-----------------------------------------------------------------------------
(* Overlap and tiny pieces *)

\* The tail of a text holds words of it, the last one among them.
LEMMA TailingFacts ==
  ASSUME NEW text \in Texts
  PROVE  /\ Tailing(text) \in Texts
         /\ WordUnits(Tailing(text)) \subseteq WordUnits(text)
         /\ OverlapTokens > 0 /\ text # <<>> => Unit(LastOf(text)) \in WordUnits(Tailing(text))
<1> DEFINE L == Len(text)
           m == Max({1, L - OverlapTokens + 1})
           tail == SubSeq(text, m, L)
<1>1. L \in Nat /\ OverlapTokens \in Nat /\ \A i \in 1..L : text[i] \in Word
  BY ChunkingAssumption DEF Texts
<1>2. m = IF 1 >= L - OverlapTokens + 1 THEN 1 ELSE L - OverlapTokens + 1
  BY <1>1, MaxOfTwo
<1>3. m \in Nat /\ m >= 1 /\ (OverlapTokens > 0 /\ L > 0 => m <= L)
  <2> HIDE DEF m, L
  <2>1. QED
    BY <1>1, <1>2
<1>4. text = <<>> \/ L > 0
  BY EmptySeq DEF Texts
<1> HIDE DEF m
<1>5. /\ tail \in Seq(Word)
      /\ Len(tail) = IF m <= L THEN L - m + 1 ELSE 0
      /\ \A i \in 1..L - m + 1 : tail[i] = text[m + i - 1]
  <2> HIDE DEF L
  <2>1. \A i \in m..L : text[i] \in Word
    BY <1>1, <1>3
  <2>2. QED
    BY <1>1, <1>3, <2>1, SubSeqProperties
<1> HIDE DEF tail, L
<1>6. \A i \in 1..Len(tail) : \E j \in 1..L : tail[i] = text[j]
  <2> TAKE i \in 1..Len(tail)
  <2>1. m <= L /\ i \in 1..L - m + 1 /\ m + i - 1 \in 1..L
    BY <1>1, <1>3, <1>5
  <2>2. QED
    BY <1>5, <2>1
<1>7. DOMAIN tail = 1..Len(tail) /\ DOMAIN text = 1..L
  BY <1>5 DEF L, Texts
<1>8. WordUnits(tail) \subseteq WordUnits(text)
  BY <1>6, <1>7 DEF WordUnits
<1>9. ASSUME OverlapTokens > 0, text # <<>> PROVE Unit(LastOf(text)) \in WordUnits(tail)
  <2>1. m <= L /\ L - m + 1 \in 1..Len(tail) /\ m + (L - m + 1) - 1 = L
    BY <1>1, <1>3, <1>4, <1>5, <1>9
  <2>2. tail[L - m + 1] = text[L]
    BY <1>5, <2>1
  <2>3. QED
    BY <1>7, <2>1, <2>2 DEF WordUnits, Unit, LastOf, L
<1>10. Tailing(text) = tail
  BY DEF Tailing, tail, m, L
<1>11. QED
  BY <1>5, <1>8, <1>9, <1>10 DEF Texts

\* Each piece keeps its units and gets some of the piece before it, the closing one
\* among them when there is an overlap.
LEMMA OverlappedFacts ==
  ASSUME NEW P \in Seq(Texts)
  PROVE  LET O == Overlapped(P)
         IN /\ O \in Seq(Texts) /\ Len(O) = Len(P)
            /\ \A k \in 1..Len(P) : WordUnits(P[k]) \subseteq WordUnits(O[k])
            /\ \A k \in 1..Len(P) : \A u \in WordUnits(O[k]) :
                 \E m \in 1..Len(P) : u \in WordUnits(P[m])
            /\ OverlapTokens > 0 =>
                 \A k \in 1..Len(P) - 1 : \A u :
                   Closes(P[k], u) => u \in WordUnits(O[k + 1])
<1> DEFINE O == Overlapped(P)
           N == Len(P)
           at(i) == IF i = 1 THEN P[i] ELSE Tailing(P[i - 1]) \o P[i]
<1>1. N \in Nat /\ DOMAIN P = 1..N /\ \A i \in 1..N : P[i] \in Texts
  OBVIOUS
<1>2. O = [i \in 1..N |-> at(i)]
  BY <1>1 DEF Overlapped
<1> HIDE DEF N, O
<1>3. \A i \in 2..N : /\ i - 1 \in 1..N /\ i \in 1..N /\ i # 1
                      /\ P[i - 1] \in Texts /\ P[i] \in Texts
  BY <1>1
<1>4. \A i \in 1..N : at(i) \in Texts
  <2>1. \A i \in 2..N : Tailing(P[i - 1]) \o P[i] \in Texts
    <3> TAKE i \in 2..N
    <3>1. Tailing(P[i - 1]) \in Texts
      BY <1>3, TailingFacts
    <3>2. QED
      BY <1>3, <3>1, ConcatAt DEF Texts
  <2>2. \A i \in 1..N : i = 1 \/ i \in 2..N
    BY <1>1
  <2>3. QED
    BY <1>1, <2>1, <2>2
<1>5. O \in Seq(Texts) /\ Len(O) = N
  <2> HIDE DEF at
  <2>1. O \in [1..N -> Texts]
    BY <1>2, <1>4
  <2>2. QED
    BY <1>1, <2>1
<1>6. \A i \in 2..N : WordUnits(O[i]) = WordUnits(Tailing(P[i - 1])) \cup WordUnits(P[i])
  <2> TAKE i \in 2..N
  <2>1. Tailing(P[i - 1]) \in Texts
    BY <1>3, TailingFacts
  <2>2. O[i] = Tailing(P[i - 1]) \o P[i]
    BY <1>2, <1>3
  <2>3. QED
    BY <1>3, <2>1, <2>2, ConcatUnits
<1>7. 1 \in 1..N => O[1] = P[1]
  BY <1>2
<1>8. \A k \in 1..N : k = 1 \/ k \in 2..N
  BY <1>1
<1> HIDE DEF at
<1>9. \A k \in 1..N : WordUnits(P[k]) \subseteq WordUnits(O[k])
  BY <1>6, <1>7, <1>8
<1>10. \A k \in 1..N : \A u \in WordUnits(O[k]) : \E m \in 1..N : u \in WordUnits(P[m])
  <2> TAKE k \in 1..N
  <2>1. CASE k = 1
    BY <1>7, <2>1
  <2>2. CASE k \in 2..N
    <3>1. WordUnits(Tailing(P[k - 1])) \subseteq WordUnits(P[k - 1])
      BY <1>3, <2>2, TailingFacts
    <3>2. QED
      BY <1>3, <1>6, <2>2, <3>1
  <2>3. QED
    BY <1>8, <2>1, <2>2
<1>11. ASSUME OverlapTokens > 0, NEW k \in 1..N - 1, NEW u, Closes(P[k], u)
       PROVE  u \in WordUnits(O[k + 1])
  <2>1. k + 1 \in 2..N /\ (k + 1) - 1 = k
    BY <1>1
  <2>2. P[k] \in Texts
    BY <1>3, <2>1
  <2>3. u \in WordUnits(Tailing(P[k]))
    BY <1>11, <2>2, TailingFacts DEF Closes
  <2>4. QED
    BY <1>6, <2>1, <2>3
<1>12. QED
  BY <1>5, <1>9, <1>10, <1>11 DEF O, N

\* Joining a piece loses no unit and tears nothing apart.
LEMMA JoinFacts ==
  ASSUME NEW merged \in Seq(Texts), NEW piece \in Texts
  PROVE  LET new == Join(merged, piece)
         IN /\ new \in Seq(Texts)
            /\ \A k \in 1..Len(merged) :
                 k \in 1..Len(new) /\ WordUnits(merged[k]) \subseteq WordUnits(new[k])
            /\ \E k \in 1..Len(new) : WordUnits(piece) \subseteq WordUnits(new[k])
            /\ \A k \in 1..Len(new) : \A u \in WordUnits(new[k]) :
                 \/ u \in WordUnits(piece)
                 \/ \E m \in 1..Len(merged) : u \in WordUnits(merged[m])
<1> DEFINE n == Len(merged)
<1>1. n \in Nat /\ \A k \in 1..n : merged[k] \in Texts
  OBVIOUS
<1>2. CASE merged # <<>> /\ TokenCount(piece) < MinTokens
  <2> DEFINE last == merged[n] \o piece
             new == [merged EXCEPT ![n] = last]
  <2>1. Join(merged, piece) = new
    BY <1>2 DEF Join
  <2>2. n \in 1..n
    BY <1>1, <1>2, EmptySeq
  <2>3. last \in Texts /\ WordUnits(last) = WordUnits(merged[n]) \cup WordUnits(piece)
    BY <1>1, <2>2, ConcatUnits, ConcatAt DEF Texts
  <2> HIDE DEF last
  <2>4. new \in Seq(Texts) /\ Len(new) = n
    BY <2>2, <2>3, ExceptSeq
  <2>5. new[n] = last /\ \A k \in 1..n : k # n => new[k] = merged[k]
    BY <2>2
  <2> HIDE DEF n, new
  <2>6. QED
    BY <2>1, <2>2, <2>3, <2>4, <2>5 DEF n
<1>3. CASE ~ (merged # <<>> /\ TokenCount(piece) < MinTokens)
  <2> DEFINE new == Append(merged, piece)
  <2>1. Join(merged, piece) = new
    BY <1>3 DEF Join
  <2>2. /\ new \in Seq(Texts) /\ Len(new) = n + 1 /\ new[n + 1] = piece
        /\ \A k \in 1..n : new[k] = merged[k]
    BY AppendProperties
  <2> HIDE DEF n, new
  <2>3. \A k \in 1..n + 1 : k = n + 1 \/ k \in 1..n
    BY <1>1
  <2>4. n + 1 \in 1..n + 1 /\ \A k \in 1..n : k \in 1..n + 1
    BY <1>1
  <2>5. QED
    BY <2>1, <2>2, <2>3, <2>4 DEF n
<1>4. QED
  BY <1>2, <1>3

\* The texts M hold the units of the first n pieces, each piece within one of them.
Gathered(M, O, n) ==
  /\ M \in Seq(Texts)
  /\ \A k \in 1..n :
       \E m \in 1..Len(M) : WordUnits(O[k]) \subseteq WordUnits(M[m])
  /\ \A m \in 1..Len(M) : \A u \in WordUnits(M[m]) :
       \E k \in 1..n : u \in WordUnits(O[k])

\* Merging the tiny pieces loses no unit and tears nothing apart.
LEMMA MergeTinyFacts ==
  ASSUME NEW O \in Seq(Texts)
  PROVE  Gathered(MergeTiny(O), O, Len(O))
<1> DEFINE N == Len(O)
           step == [n \in 1..N |-> [x \in Seq(Texts) |-> Join(x, O[n])]]
           Runs(f) == f = [n \in 0..N |-> IF n = 0 THEN <<>> ELSE Join(f[n - 1], O[n])]
           upTo == CHOOSE f : Runs(f)
<1>1. N \in Nat /\ \A n \in 1..N : O[n] \in Texts
  OBVIOUS
<1>2. <<>> \in Seq(Texts) /\ Len(<<>>) = 0
  BY EmptyListed
<1>3. \A n \in 1..N : \A x \in Seq(Texts) :
        step[n][x] = Join(x, O[n]) /\ step[n][x] \in Seq(Texts)
  BY <1>1, JoinFacts
<1>4. PICK f : Passes(f, N, Seq(Texts), <<>>, step)
  <2> HIDE DEF step, N
  <2>1. QED
    BY <1>1, <1>2, <1>3, Iteration
<1>5. /\ f \in [0..N -> Seq(Texts)] /\ f[0] = <<>>
      /\ \A n \in 1..N : f[n] = Join(f[n - 1], O[n])
  <2> HIDE DEF step, N
  <2>1. /\ f \in [0..N -> Seq(Texts)] /\ f[0] = <<>>
        /\ \A n \in 1..N : f[n] = step[n][f[n - 1]]
    BY <1>4 DEF Passes
  <2>2. \A n \in 1..N : f[n - 1] \in Seq(Texts)
    BY <1>1, <2>1
  <2>3. QED
    BY <1>3, <2>1, <2>2
<1>6. Runs(f)
  <2> HIDE DEF step, N
  <2>1. \A n \in 0..N : f[n] = IF n = 0 THEN <<>> ELSE Join(f[n - 1], O[n])
    BY <1>1, <1>5
  <2>2. QED
    BY <1>5, <2>1
<1>7. Runs(upTo)
  <2> HIDE DEF Runs
  <2>1. QED
    BY <1>6
<1>8. MergeTiny(O) = upTo[N]
  BY DEF MergeTiny
<1> HIDE DEF upTo, N, step
<1>9. upTo[0] = <<>> /\ \A n \in 1..N : upTo[n] = Join(upTo[n - 1], O[n])
  BY <1>1, <1>7
<1> DEFINE T == {n \in Nat : n <= N => Gathered(upTo[n], O, n)}
<1>10. 0 \in T
  <2>1. Gathered(upTo[0], O, 0)
    BY <1>2, <1>9 DEF Gathered
  <2>2. QED
    BY <2>1
<1>11. ASSUME NEW n \in Nat, n \in T PROVE n + 1 \in T
  <2>1. SUFFICES ASSUME n + 1 <= N PROVE Gathered(upTo[n + 1], O, n + 1)
    OBVIOUS
  <2>2. n + 1 \in 1..N /\ (n + 1) - 1 = n /\ Gathered(upTo[n], O, n)
    BY <1>1, <1>11, <2>1
  <2> DEFINE M == upTo[n]
             piece == O[n + 1]
             new == Join(M, piece)
  <2>3. upTo[n + 1] = new
    BY <1>9, <2>2
  <2> HIDE DEF M, piece
  <2>4. M \in Seq(Texts) /\ piece \in Texts
    BY <1>1, <2>2 DEF M, piece, Gathered
  <2>5. /\ new \in Seq(Texts)
        /\ \A k \in 1..Len(M) :
             k \in 1..Len(new) /\ WordUnits(M[k]) \subseteq WordUnits(new[k])
        /\ \E k \in 1..Len(new) : WordUnits(piece) \subseteq WordUnits(new[k])
        /\ \A k \in 1..Len(new) : \A u \in WordUnits(new[k]) :
             \/ u \in WordUnits(piece)
             \/ \E m \in 1..Len(M) : u \in WordUnits(M[m])
    BY <2>4, JoinFacts
  <2> HIDE DEF new
  <2>6. /\ \A k \in 1..n :
             \E m \in 1..Len(M) : WordUnits(O[k]) \subseteq WordUnits(M[m])
        /\ \A m \in 1..Len(M) : \A u \in WordUnits(M[m]) :
             \E k \in 1..n : u \in WordUnits(O[k])
    BY <2>2 DEF M, Gathered
  <2>7. ASSUME NEW k \in 1..n + 1
        PROVE  \E m \in 1..Len(new) : WordUnits(O[k]) \subseteq WordUnits(new[m])
    <3>1. CASE k = n + 1
      BY <2>5, <3>1 DEF piece
    <3>2. CASE k # n + 1
      <4>1. k \in 1..n
        BY <3>2
      <4>2. PICK m \in 1..Len(M) : WordUnits(O[k]) \subseteq WordUnits(M[m])
        BY <2>6, <4>1
      <4>3. QED
        BY <2>5, <4>2
    <3>3. QED
      BY <3>1, <3>2
  <2>8. ASSUME NEW m \in 1..Len(new), NEW u \in WordUnits(new[m])
        PROVE  \E k \in 1..n + 1 : u \in WordUnits(O[k])
    <3>1. n + 1 \in 1..n + 1 /\ \A k \in 1..n : k \in 1..n + 1
      OBVIOUS
    <3>2. QED
      BY <2>5, <2>6, <3>1 DEF piece
  <2>9. QED
    BY <2>3, <2>5, <2>7, <2>8 DEF Gathered
<1> HIDE DEF T
<1>12. N \in T
  BY <1>1, <1>10, <1>11, SetInduction
<1>13. Gathered(upTo[N], O, N)
  BY <1>1, <1>12 DEF T
<1>14. QED
  BY <1>8, <1>13 DEF N

-----------------------------------------------------------------------------
(* Chunks of a segment *)

\* The keys of a segment's chunks: the first two parts of their ids.
Key(id) == <<id[1], id[2]>>

\* A finite set of chunks, each with an id of its own under one of the keys, which
\* hold the units between them and nothing else.
Chunks(C, keys, units) ==
  /\ IsFiniteSet(C)
  /\ \A c \in C : Key(c.id) \in keys
  /\ \A c, d \in C : c.id = d.id => c = d
  /\ \A c \in C : c.units \subseteq units
  /\ \A u \in units : \E c \in C : u \in c.units

\* A set listed by the numbers up to n is finite.
LEMMA ListedFinite ==
  ASSUME NEW n \in Nat, NEW f, NEW C, C = {f[i] : i \in 1..n}
  PROVE  IsFiniteSet(C)
<1> DEFINE g == [i \in 1..n |-> f[i]]
<1>1. g \in Surjection(1..n, C)
  BY DEF Surjection
<1>2. IsFiniteSet(1..n)
  BY FS_Interval
<1> HIDE DEF g
<1>3. QED
  BY <1>1, <1>2, FS_Surjection

LEMMA FactChunks ==
  ASSUME NEW seg, IsFiniteSet(DOMAIN seg.facts)
  PROVE  Chunks(ChunkFacts(seg), {<<"fact", f>> : f \in DOMAIN seg.facts},
                {<<"fact", f>> : f \in {g \in DOMAIN seg.facts : seg.facts[g] # ""}})
<1> DEFINE F == {g \in DOMAIN seg.facts : seg.facts[g] # ""}
           chunk == [f \in F |-> [id |-> <<"fact", f, 0>>, type |-> "fact_table",
                                  tokens |-> 0, units |-> {<<"fact", f>>}]]
           C == ChunkFacts(seg)
<1>1. C = {chunk[f] : f \in F}
  BY DEF ChunkFacts
<1>2. \A f \in F : chunk[f].id = <<"fact", f, 0>> /\ chunk[f].units = {<<"fact", f>>}
  OBVIOUS
<1>3. IsFiniteSet(F)
  BY FS_Subset
<1>4. F \subseteq DOMAIN seg.facts /\ chunk = [f \in F |-> chunk[f]]
  OBVIOUS
<1> HIDE DEF F, chunk, C
<1>5. IsFiniteSet(C)
  <2>1. chunk \in Surjection(F, C)
    BY <1>1, <1>4 DEF Surjection
  <2>2. QED
    BY <1>3, <2>1, FS_Surjection
<1>6. \A f \in F : Key(chunk[f].id) = <<"fact", f>>
  BY <1>2 DEF Key
<1>7. \A f, g \in F : chunk[f].id = chunk[g].id => f = g
  BY <1>2
<1>8. QED
  <2>1. \A c \in C : Key(c.id) \in {<<"fact", f>> : f \in DOMAIN seg.facts}
    BY <1>1, <1>4, <1>6
  <2>2. \A c, d \in C : c.id = d.id => c = d
    BY <1>1, <1>7
  <2>3. \A c \in C : c.units \subseteq {<<"fact", f>> : f \in F}
    BY <1>1, <1>2
  <2>4. \A u \in {<<"fact", f>> : f \in F} : \E c \in C : u \in c.units
    BY <1>1, <1>2
  <2>5. QED
    BY <1>5, <2>1, <2>2, <2>3, <2>4 DEF Chunks, C, F

\* The chunks of a section hold its words, and two neighbours among them together.
LEMMA SectionChunks ==
  ASSUME NEW seg, seg.body \in Texts
  PROVE  /\ Chunks(ChunkSection(seg), {<<"section", seg.anchor>>}, WordUnits(seg.body))
         /\ OverlapTokens > 0 =>
              \A j \in 2..Len(seg.body) :
                Small(seg.body[j - 1]) /\ Small(seg.body[j]) =>
                \E c \in ChunkSection(seg) :
                  {Unit(seg.body[j - 1]), Unit(seg.body[j])} \subseteq c.units
<1> DEFINE body == seg.body
           P == RecursiveSplit(body)
           O == Overlapped(P)
           M == MergeTiny(O)
           n == Len(M)
           chunk == [i \in 1..n |->
                       [id |-> <<"section", seg.anchor, i - 1>>, type |-> "section_text",
                        tokens |-> TokenCount(M[i]), units |-> WordUnits(M[i])]]
           C == ChunkSection(seg)
<1>1. Good(body, P)
  BY RecursiveSplitGood
<1>2. P \in Seq(Texts) /\ SameUnits(body, P) /\ NeighboursIn(body, P)
  <2> HIDE DEF P
  <2>1. QED
    BY <1>1 DEF Good
<1> HIDE DEF P
<1>3. /\ O \in Seq(Texts) /\ Len(O) = Len(P)
      /\ \A k \in 1..Len(P) : WordUnits(P[k]) \subseteq WordUnits(O[k])
      /\ \A k \in 1..Len(P) : \A u \in WordUnits(O[k]) :
           \E m \in 1..Len(P) : u \in WordUnits(P[m])
      /\ OverlapTokens > 0 =>
           \A k \in 1..Len(P) - 1 : \A u :
             Closes(P[k], u) => u \in WordUnits(O[k + 1])
  BY <1>2, OverlappedFacts
<1> HIDE DEF O
<1>4. /\ M \in Seq(Texts)
      /\ \A k \in 1..Len(O) :
           \E m \in 1..Len(M) : WordUnits(O[k]) \subseteq WordUnits(M[m])
      /\ \A m \in 1..Len(M) : \A u \in WordUnits(M[m]) :
           \E k \in 1..Len(O) : u \in WordUnits(O[k])
  BY <1>3, MergeTinyFacts DEF Gathered
<1>5. n \in Nat /\ DOMAIN M = 1..n /\ Len(P) \in Nat
  BY <1>2, <1>4
<1>6. C = {chunk[i] : i \in 1..n}
  BY <1>5 DEF ChunkSection, M, O, P
<1>7. \A i \in 1..n : /\ chunk[i].id = <<"section", seg.anchor, i - 1>>
                      /\ chunk[i].units = WordUnits(M[i])
  OBVIOUS
<1> HIDE DEF M, C, chunk, n
<1>8. IsFiniteSet(C)
  BY <1>5, <1>6, ListedFinite
<1>9. \A i \in 1..n : Key(chunk[i].id) = <<"section", seg.anchor>>
  BY <1>7 DEF Key
<1>10. \A i, j \in 1..n : chunk[i].id = chunk[j].id => i = j
  <2> TAKE i, j \in 1..n
  <2>1. <<"section", seg.anchor, i - 1>> = <<"section", seg.anchor, j - 1>> => i - 1 = j - 1
    OBVIOUS
  <2>2. i \in Int /\ j \in Int
    BY <1>5
  <2>3. QED
    BY <1>7, <2>1, <2>2
<1>11. \A i \in 1..n : WordUnits(M[i]) \subseteq WordUnits(body)
  BY <1>2, <1>3, <1>4 DEF SameUnits, n
<1>12. \A u \in WordUnits(body) : \E i \in 1..n : u \in WordUnits(M[i])
  <2> TAKE u \in WordUnits(body)
  <2>1. PICK k \in 1..Len(P) : u \in WordUnits(P[k])
    BY <1>2 DEF SameUnits
  <2>2. QED
    BY <1>3, <1>4, <2>1 DEF n
<1>13. Chunks(C, {<<"section", seg.anchor>>}, WordUnits(body))
  <2>1. \A c \in C : Key(c.id) \in {<<"section", seg.anchor>>}
    BY <1>6, <1>9
  <2>2. \A c, d \in C : c.id = d.id => c = d
    BY <1>6, <1>10
  <2>3. \A c \in C : c.units \subseteq WordUnits(body)
    BY <1>6, <1>7, <1>11
  <2>4. \A u \in WordUnits(body) : \E c \in C : u \in c.units
    BY <1>6, <1>7, <1>12
  <2>5. QED
    BY <1>8, <2>1, <2>2, <2>3, <2>4 DEF Chunks
<1>14. ASSUME OverlapTokens > 0, NEW j \in 2..Len(body), Small(body[j - 1]), Small(body[j])
       PROVE  \E c \in C : {Unit(body[j - 1]), Unit(body[j])} \subseteq c.units
  <2> DEFINE u == Unit(body[j - 1])
             v == Unit(body[j])
  <2>1. Meet(P, u, v)
    BY <1>2, <1>14 DEF NeighboursIn
  <2> HIDE DEF u, v
  <2>2. PICK k \in 1..Len(P) :
          \/ {u, v} \subseteq WordUnits(P[k])
          \/ k < Len(P) /\ Closes(P[k], u) /\ v \in WordUnits(P[k + 1])
    BY <2>1 DEF Meet
  <2>3. \E m \in 1..Len(P) : {u, v} \subseteq WordUnits(O[m])
    <3>1. CASE {u, v} \subseteq WordUnits(P[k])
      BY <1>3, <3>1
    <3>2. CASE k < Len(P) /\ Closes(P[k], u) /\ v \in WordUnits(P[k + 1])
      <4>1. k \in 1..Len(P) - 1 /\ k + 1 \in 1..Len(P)
        BY <1>5, <3>2
      <4>2. u \in WordUnits(O[k + 1]) /\ v \in WordUnits(O[k + 1])
        BY <1>3, <1>14, <3>2, <4>1
      <4>3. QED
        BY <4>1, <4>2
    <3>3. QED
      BY <2>2, <3>1, <3>2
  <2>4. PICK i \in 1..n : {u, v} \subseteq WordUnits(M[i])
    BY <1>3, <1>4, <2>3 DEF n
  <2>5. QED
    BY <1>6, <1>7, <2>4 DEF u, v
<1>15. QED
  BY <1>13, <1>14 DEF C

\* A window that starts at a row ends at it or behind, within the table.
LEMMA WindowEndFacts ==
  ASSUME NEW seg, NEW N \in Nat, Len(seg.rows) = N, NEW first \in 1..N
  PROVE  WindowEnd(seg, first) \in first..N
<1> DEFINE bound == Min({first + TableRowLimit - 1, N})
           S == {e \in first..bound :
                   \A i \in (first + 1)..e : TableTokens(seg, first, i) <= TableTokenLimit}
<1>1. TableRowLimit \in Nat \ {0} /\ first + TableRowLimit - 1 \in Int
  BY ChunkingAssumption
<1>2. bound = IF first + TableRowLimit - 1 <= N THEN first + TableRowLimit - 1 ELSE N
  BY <1>1, MinOfTwo
<1>3. bound \in Nat /\ first <= bound /\ bound <= N
  <2> HIDE DEF bound
  <2>1. QED
    BY <1>1, <1>2
<1> HIDE DEF bound
<1>4. first \in S
  <2>1. first \in first..bound /\ (first + 1)..first = {}
    BY <1>3
  <2>2. QED
    BY <2>1
<1>5. S \subseteq 0..bound /\ S \subseteq first..N
  BY <1>3
<1>6. WindowEnd(seg, first) = Max(S)
  BY DEF WindowEnd, bound
<1> HIDE DEF S
<1>7. Max(S) \in S
  BY <1>3, <1>4, <1>5, MaxUpTo
<1>8. QED
  BY <1>5, <1>6, <1>7

\* The windows of a table are windows of its rows, and every row is in one.
LEMMA WindowFacts ==
  ASSUME NEW seg, NEW N \in Nat, Len(seg.rows) = N
  PROVE  \E window : /\ TableWindows(seg) = {window[n] : n \in 1..N}
                     /\ \A n \in 1..N : /\ window[n] \in (1..N) \X (1..N)
                                        /\ n \in window[n][1]..window[n][2]
<1> DEFINE step == [n \in 1..N |-> [x \in Nat |-> WindowFrom(seg, x, n)]]
           Runs(f) == f = [n \in 0..N |-> IF n = 0 THEN 1 ELSE WindowFrom(seg, f[n - 1], n)]
           start == CHOOSE f : Runs(f)
           window == [n \in 1..N |-> <<start[n], WindowEnd(seg, start[n])>>]
<1>1. \A n \in 1..N : \A x \in Nat :
        step[n][x] = WindowFrom(seg, x, n) /\ step[n][x] \in Nat
  BY DEF WindowFrom
<1>2. PICK f : Passes(f, N, Nat, 1, step)
  <2> HIDE DEF step
  <2>1. QED
    BY <1>1, Iteration
<1>3. /\ f \in [0..N -> Nat] /\ f[0] = 1
      /\ \A n \in 1..N : f[n] = WindowFrom(seg, f[n - 1], n)
  <2> HIDE DEF step
  <2>1. f \in [0..N -> Nat] /\ f[0] = 1 /\ \A n \in 1..N : f[n] = step[n][f[n - 1]]
    BY <1>2 DEF Passes
  <2>2. \A n \in 1..N : f[n - 1] \in Nat
    BY <2>1
  <2>3. QED
    BY <1>1, <2>1, <2>2
<1>4. Runs(f)
  <2> HIDE DEF step
  <2>1. \A n \in 0..N : f[n] = IF n = 0 THEN 1 ELSE WindowFrom(seg, f[n - 1], n)
    BY <1>3
  <2>2. QED
    BY <1>3, <2>1
<1>5. Runs(start)
  <2> HIDE DEF Runs
  <2>1. QED
    BY <1>4
<1>6. TableWindows(seg) = {<<start[n], WindowEnd(seg, start[n])>> : n \in 1..N}
  BY DEF TableWindows
<1> HIDE DEF start, step
<1>7. start[0] = 1 /\ \A n \in 1..N : start[n] = WindowFrom(seg, start[n - 1], n)
  BY <1>5
<1> DEFINE From(n) == start[n] \in 1..n /\ n <= WindowEnd(seg, start[n])
           T == {n \in Nat : n + 1 <= N => From(n + 1)}
<1>8. 0 \in T
  <2>1. SUFFICES ASSUME 1 <= N PROVE From(1)
    OBVIOUS
  <2>2. 1 \in 1..N /\ start[1] = WindowFrom(seg, 1, 1) /\ WindowFrom(seg, 1, 1) = 1
    BY <1>7, <2>1 DEF WindowFrom
  <2>3. WindowEnd(seg, 1) \in 1..N
    BY <2>2, WindowEndFacts
  <2>4. QED
    BY <2>2, <2>3
<1>9. ASSUME NEW n \in Nat, n \in T PROVE n + 1 \in T
  <2> DEFINE m == n + 1
  <2>1. SUFFICES ASSUME m + 1 <= N PROVE From(m + 1)
    OBVIOUS
  <2>2. m \in 1..N /\ m + 1 \in 1..N /\ (m + 1) - 1 = m /\ From(m)
    BY <1>9, <2>1
  <2>3. start[m + 1] = WindowFrom(seg, start[m], m + 1)
    BY <1>7, <2>2
  <2>4. CASE m + 1 <= WindowEnd(seg, start[m])
    <3>1. start[m + 1] = start[m]
      BY <2>3, <2>4 DEF WindowFrom
    <3>2. QED
      BY <2>2, <2>4, <3>1
  <2>5. CASE ~ (m + 1 <= WindowEnd(seg, start[m]))
    <3>1. start[m + 1] = m + 1
      BY <2>3, <2>5 DEF WindowFrom
    <3>2. WindowEnd(seg, m + 1) \in m + 1..N
      BY <2>2, WindowEndFacts
    <3>3. QED
      BY <2>2, <3>1, <3>2
  <2>6. QED
    BY <2>4, <2>5
<1> HIDE DEF T, From
<1>10. \A n \in Nat : n \in T
  BY <1>8, <1>9, SetInduction
<1>11. ASSUME NEW n \in 1..N
       PROVE  window[n] \in (1..N) \X (1..N) /\ n \in window[n][1]..window[n][2]
  <2>1. n - 1 \in T /\ (n - 1) + 1 = n
    BY <1>10
  <2>2. start[n] \in 1..n /\ n <= WindowEnd(seg, start[n])
    BY <2>1 DEF T, From
  <2>3. start[n] \in 1..N
    BY <2>2
  <2>4. WindowEnd(seg, start[n]) \in start[n]..N
    BY <2>3, WindowEndFacts
  <2>5. window[n] = <<start[n], WindowEnd(seg, start[n])>>
    OBVIOUS
  <2> HIDE DEF window
  <2>6. QED
    BY <2>2, <2>3, <2>4, <2>5
<1>12. TableWindows(seg) = {window[n] : n \in 1..N}
  BY <1>6
<1>13. QED
  BY <1>11, <1>12

Row(row) == <<"row", row.id>>

\* The chunks of a table hold its rows.
LEMMA TableChunks ==
  ASSUME NEW seg, NEW R, seg.rows \in Seq(R)
  PROVE  Chunks(ChunkTable(seg), {<<"table", seg.anchor>>},
                {Row(seg.rows[j]) : j \in 1..Len(seg.rows)})
<1> DEFINE N == Len(seg.rows)
           Units(w) == {Row(seg.rows[j]) : j \in w[1]..w[2]}
<1>1. N \in Nat
  OBVIOUS
<1>2. PICK window : /\ TableWindows(seg) = {window[n] : n \in 1..N}
                    /\ \A n \in 1..N : /\ window[n] \in (1..N) \X (1..N)
                                       /\ n \in window[n][1]..window[n][2]
  BY <1>1, WindowFacts
<1> DEFINE chunk == [n \in 1..N |->
                       [id |-> <<"table", seg.anchor, window[n]>>, type |-> "table",
                        tokens |-> TableTokens(seg, window[n][1], window[n][2]),
                        units |-> Units(window[n])]]
           C == ChunkTable(seg)
<1>3. C = {[id |-> <<"table", seg.anchor, w>>, type |-> "table",
            tokens |-> TableTokens(seg, w[1], w[2]),
            units |-> Units(w)] : w \in TableWindows(seg)}
  BY DEF ChunkTable, Row
<1>4. C = {chunk[n] : n \in 1..N}
  <2> HIDE DEF Units, C, N
  <2>1. QED
    BY <1>2, <1>3
<1>5. \A n \in 1..N : /\ chunk[n].id = <<"table", seg.anchor, window[n]>>
                      /\ chunk[n].units = Units(window[n])
  OBVIOUS
<1>6. \A m, n \in 1..N : window[m] = window[n] => chunk[m] = chunk[n]
  OBVIOUS
<1> HIDE DEF C, chunk
<1>7. IsFiniteSet(C)
  <2> HIDE DEF N
  <2>1. QED
    BY <1>1, <1>4, ListedFinite
<1>8. \A c \in C : Key(c.id) \in {<<"table", seg.anchor>>}
  BY <1>4, <1>5 DEF Key
<1>9. \A c, d \in C : c.id = d.id => c = d
  <2>1. \A m, n \in 1..N : chunk[m].id = chunk[n].id => window[m] = window[n]
    BY <1>5
  <2>2. QED
    BY <1>4, <1>6, <2>1
<1> DEFINE all == {Row(seg.rows[j]) : j \in 1..N}
<1>10. \A c \in C : c.units \subseteq all
  <2>1. \A n \in 1..N : \A j \in window[n][1]..window[n][2] : j \in 1..N
    BY <1>1, <1>2
  <2>2. \A n \in 1..N : Units(window[n]) \subseteq all
    BY <2>1
  <2> HIDE DEF Units, all
  <2>3. QED
    BY <1>4, <1>5, <2>2
<1>11. \A u \in all : \E c \in C : u \in c.units
  <2> TAKE u \in all
  <2>1. PICK n \in 1..N : u = Row(seg.rows[n])
    OBVIOUS
  <2>2. u \in Units(window[n])
    BY <1>2, <2>1
  <2>3. QED
    BY <1>4, <1>5, <2>2
<1> HIDE DEF all
<1>12. QED
  BY <1>7, <1>8, <1>9, <1>10, <1>11 DEF Chunks, C, all

-----------------------------------------------------------------------------
(* Segments of a page *)

\* One element, then the elements of two lists.
LEMMA ThreeParts ==
  ASSUME NEW S, NEW x \in S, NEW a \in Seq(S), NEW b \in Seq(S)
  PROVE  LET s == <<x>> \o a \o b
         IN /\ DOMAIN s = 1..1 + Len(a) + Len(b)
            /\ s[1] = x
            /\ \A i \in 1..Len(a) : s[1 + i] = a[i]
            /\ \A i \in 1..Len(b) : s[1 + Len(a) + i] = b[i]
<1> DEFINE p == <<x>>
           q == p \o a
           s == q \o b
           m == Len(a)
           n == Len(b)
<1>1. p \in Seq(S) /\ Len(p) = 1 /\ p[1] = x /\ m \in Nat /\ n \in Nat
  OBVIOUS
<1> HIDE DEF p
<1>2. /\ q \in Seq(S) /\ Len(q) = Len(p) + m
      /\ \A i \in 1..Len(p) : q[i] = p[i]
      /\ \A i \in 1..m : q[Len(p) + i] = a[i]
  <2>1. p \in Seq(S)
    BY <1>1
  <2>2. QED
    BY <2>1, ConcatAt
<1> HIDE DEF q
<1>3. /\ s \in Seq(S) /\ Len(s) = Len(q) + n
      /\ \A i \in 1..Len(q) : s[i] = q[i]
      /\ \A i \in 1..n : s[Len(q) + i] = b[i]
  <2>1. q \in Seq(S)
    BY <1>2
  <2>2. QED
    BY <2>1, ConcatAt
<1> HIDE DEF s, m, n
<1>4. DOMAIN s = 1..1 + m + n
  BY <1>1, <1>2, <1>3
<1>5. \A i \in 1..m : 1 + i \in 1..Len(q)
  BY <1>1, <1>2
<1>6. 1 \in 1..Len(q)
  BY <1>1, <1>2
<1>7. s[1] = x /\ \A i \in 1..m : s[1 + i] = a[i]
  BY <1>1, <1>2, <1>3, <1>5, <1>6
<1>8. \A i \in 1..n : s[1 + m + i] = b[i]
  BY <1>1, <1>2, <1>3
<1>9. QED
  BY <1>4, <1>7, <1>8 DEF s, q, p, m, n

FactSegment(p) == [type |-> "fact_table", facts |-> p.facts]

SectionSegment(p, i) ==
  [type |-> "section_text", anchor |-> Slugify[p.sections[i].heading],
   body |-> p.sections[i].body]

TableSegment(p, i) ==
  [type |-> "table", anchor |-> Slugify[p.tables[i].caption],
   header |-> p.tables[i].header, rows |-> p.tables[i].rows]

Sections(p) == Len(p.sections)

Tables(p) == Len(p.tables)

LEMMA PageTyped ==
  ASSUME NEW p \in Pages
  PROVE  /\ IsFiniteSet(DOMAIN p.facts)
         /\ Sections(p) \in Nat /\ DOMAIN p.sections = 1..Sections(p)
         /\ \A i \in 1..Sections(p) : p.sections[i].body \in Texts
         /\ Tables(p) \in Nat /\ DOMAIN p.tables = 1..Tables(p)
         /\ \A i \in 1..Tables(p) :
              p.tables[i].rows \in Seq([id : Nat, tokens : Nat])
<1> DEFINE A == [heading : DOMAIN Slugify, body : Seq(Word)]
           B == [caption : DOMAIN Slugify, header : Nat, rows : Seq([id : Nat, tokens : Nat])]
<1>1. IsFiniteSet(DOMAIN p.facts) /\ p.sections \in Seq(A) /\ p.tables \in Seq(B)
  BY PagesAssumption
<1>2. /\ \A x \in A : x.body \in Seq(Word)
      /\ \A x \in B : x.rows \in Seq([id : Nat, tokens : Nat])
  OBVIOUS
<1> HIDE DEF A, B
<1>3. /\ Len(p.sections) \in Nat /\ DOMAIN p.sections = 1..Len(p.sections)
      /\ \A i \in 1..Len(p.sections) : p.sections[i] \in A
      /\ Len(p.tables) \in Nat /\ DOMAIN p.tables = 1..Len(p.tables)
      /\ \A i \in 1..Len(p.tables) : p.tables[i] \in B
  BY <1>1
<1>4. QED
  BY <1>1, <1>2, <1>3 DEF Sections, Tables, Texts

LEMMA SegmentsOf ==
  ASSUME NEW p \in Pages
  PROVE  /\ DOMAIN Segment(p) = 1..1 + Sections(p) + Tables(p)
         /\ Segment(p)[1] = FactSegment(p)
         /\ \A i \in 1..Sections(p) : Segment(p)[1 + i] = SectionSegment(p, i)
         /\ \A i \in 1..Tables(p) : Segment(p)[1 + Sections(p) + i] = TableSegment(p, i)
<1> DEFINE a == [i \in DOMAIN p.sections |-> SectionSegment(p, i)]
           b == [i \in DOMAIN p.tables |-> TableSegment(p, i)]
           x == FactSegment(p)
           m == Sections(p)
           n == Tables(p)
<1>1. m \in Nat /\ n \in Nat /\ DOMAIN p.sections = 1..m /\ DOMAIN p.tables = 1..n
  BY PageTyped
<1>2. Segment(p) = <<x>> \o a \o b
  BY DEF Segment, FactSegment, SectionSegment, TableSegment
<1>3. /\ \A i \in 1..m : a[i] = SectionSegment(p, i)
      /\ \A i \in 1..n : b[i] = TableSegment(p, i)
  BY <1>1
<1> DEFINE S == {x} \cup {SectionSegment(p, i) : i \in 1..m}
                    \cup {TableSegment(p, i) : i \in 1..n}
<1>4. a \in [1..m -> S] /\ b \in [1..n -> S] /\ x \in S
  BY <1>1
<1> HIDE DEF S, a, b, x, m, n
<1>5. a \in Seq(S) /\ Len(a) = m /\ b \in Seq(S) /\ Len(b) = n
  BY <1>1, <1>4
<1>6. LET s == <<x>> \o a \o b
      IN /\ DOMAIN s = 1..1 + Len(a) + Len(b)
         /\ s[1] = x
         /\ \A i \in 1..Len(a) : s[1 + i] = a[i]
         /\ \A i \in 1..Len(b) : s[1 + Len(a) + i] = b[i]
  <2>1. x \in S /\ a \in Seq(S) /\ b \in Seq(S)
    BY <1>4, <1>5
  <2>2. QED
    BY <2>1, ThreeParts
<1>7. QED
  BY <1>2, <1>3, <1>5, <1>6 DEF x, m, n

\* The chunks of each segment, with their keys and the units they hold.
LEMMA FactsChunked ==
  ASSUME NEW p \in Pages
  PROVE  Chunks(Chunk(p)[1], {<<"fact", f>> : f \in DOMAIN p.facts},
                {<<"fact", f>> : f \in {g \in DOMAIN p.facts : p.facts[g] # ""}})
<1> DEFINE seg == FactSegment(p)
<1>1. 1 \in DOMAIN Segment(p) /\ Segment(p)[1] = seg
  BY SegmentsOf, PageTyped
<1>2. seg.type = "fact_table" /\ seg.facts = p.facts
  BY DEF FactSegment
<1> HIDE DEF seg
<1>3. Chunk(p)[1] = ChunkFacts(seg)
  BY <1>1, <1>2 DEF Chunk, ChunkSegment
<1>4. Chunks(ChunkFacts(seg), {<<"fact", f>> : f \in DOMAIN seg.facts},
             {<<"fact", f>> : f \in {g \in DOMAIN seg.facts : seg.facts[g] # ""}})
  BY <1>2, PageTyped, FactChunks
<1>5. QED
  BY <1>2, <1>3, <1>4

LEMMA SectionChunked ==
  ASSUME NEW p \in Pages, NEW i \in 1..Sections(p)
  PROVE  LET body == p.sections[i].body IN
         /\ Chunks(Chunk(p)[1 + i], {<<"section", Slugify[p.sections[i].heading]>>},
                   WordUnits(body))
         /\ OverlapTokens > 0 =>
              \A j \in 2..Len(body) :
                Small(body[j - 1]) /\ Small(body[j]) =>
                \E c \in Chunk(p)[1 + i] : {Unit(body[j - 1]), Unit(body[j])} \subseteq c.units
<1> DEFINE seg == SectionSegment(p, i)
<1>1. 1 + i \in DOMAIN Segment(p) /\ Segment(p)[1 + i] = seg
  BY SegmentsOf, PageTyped
<1>2. /\ seg.type = "section_text" /\ seg.anchor = Slugify[p.sections[i].heading]
      /\ seg.body = p.sections[i].body
  BY DEF SectionSegment
<1> HIDE DEF seg
<1>3. Chunk(p)[1 + i] = ChunkSection(seg)
  BY <1>1, <1>2 DEF Chunk, ChunkSegment
<1>4. seg.body \in Texts
  BY <1>2, PageTyped
<1>5. /\ Chunks(ChunkSection(seg), {<<"section", seg.anchor>>}, WordUnits(seg.body))
      /\ OverlapTokens > 0 =>
           \A j \in 2..Len(seg.body) :
             Small(seg.body[j - 1]) /\ Small(seg.body[j]) =>
             \E c \in ChunkSection(seg) :
               {Unit(seg.body[j - 1]), Unit(seg.body[j])} \subseteq c.units
  BY <1>4, SectionChunks
<1>6. Chunks(Chunk(p)[1 + i], {<<"section", Slugify[p.sections[i].heading]>>},
             WordUnits(p.sections[i].body))
  BY <1>2, <1>3, <1>5
<1> DEFINE text == seg.body
           body == p.sections[i].body
<1>7. OverlapTokens > 0 =>
        \A j \in 2..Len(body) :
          Small(body[j - 1]) /\ Small(body[j]) =>
          \E c \in Chunk(p)[1 + i] : {Unit(body[j - 1]), Unit(body[j])} \subseteq c.units
  <2>1. body = text
    BY <1>2
  <2>2. OverlapTokens > 0 =>
          \A j \in 2..Len(text) :
            Small(text[j - 1]) /\ Small(text[j]) =>
            \E c \in ChunkSection(seg) : {Unit(text[j - 1]), Unit(text[j])} \subseteq c.units
    BY <1>5
  <2> HIDE DEF text, body
  <2>3. QED
    BY <1>3, <2>1, <2>2
<1>8. QED
  BY <1>6, <1>7

LEMMA TableChunked ==
  ASSUME NEW p \in Pages, NEW i \in 1..Tables(p)
  PROVE  Chunks(Chunk(p)[1 + Sections(p) + i], {<<"table", Slugify[p.tables[i].caption]>>},
                {Row(p.tables[i].rows[j]) : j \in 1..Len(p.tables[i].rows)})
<1> DEFINE seg == TableSegment(p, i)
           k == 1 + Sections(p) + i
<1>1. k \in DOMAIN Segment(p) /\ Segment(p)[k] = seg
  BY SegmentsOf, PageTyped
<1>2. /\ seg.type = "table" /\ seg.anchor = Slugify[p.tables[i].caption]
      /\ seg.rows = p.tables[i].rows
  BY DEF TableSegment
<1> HIDE DEF seg, k
<1>3. Chunk(p)[k] = ChunkTable(seg)
  BY <1>1, <1>2 DEF Chunk, ChunkSegment
<1>4. seg.rows \in Seq([id : Nat, tokens : Nat])
  BY <1>2, PageTyped
<1>5. Chunks(ChunkTable(seg), {<<"table", seg.anchor>>},
             {Row(seg.rows[j]) : j \in 1..Len(seg.rows)})
  BY <1>4, TableChunks
<1>6. QED
  BY <1>2, <1>3, <1>5 DEF k

-----------------------------------------------------------------------------
(* The index *)

\* Sets of chunks that share no key.
Keyed(chunks, n, keys) ==
  /\ DOMAIN chunks = 1..n
  /\ \A i \in 1..n : \E units : Chunks(chunks[i], keys[i], units)
  /\ \A i, j \in 1..n : i # j => keys[i] \cap keys[j] = {}

\* All of them are stored, each under its id, and nothing else.
Stored(store, chunks, n) ==
  /\ \A i \in 1..n : \A c \in chunks[i] : c.id \in DOMAIN store /\ store[c.id] = c
  /\ \A id \in DOMAIN store : \E i \in 1..n : store[id] \in chunks[i]

\* Chunks under distinct keys have distinct ids.
LEMMA KeyedIds ==
  ASSUME NEW n \in Nat, NEW chunks, NEW keys, Keyed(chunks, n, keys)
  PROVE  IdsDistinct(chunks)
<1>1. \A i \in 1..n : \A c \in chunks[i] : Key(c.id) \in keys[i]
  BY DEF Keyed, Chunks
<1>2. SUFFICES ASSUME NEW i \in 1..n, NEW j \in 1..n, i # j,
                      NEW c \in chunks[i], NEW d \in chunks[j], c.id = d.id
               PROVE  FALSE
  BY DEF IdsDistinct, Keyed
<1>3. Key(c.id) \in keys[i] \cap keys[j]
  BY <1>1, <1>2
<1>4. QED
  BY <1>2, <1>3 DEF Keyed

\* Chunks with distinct ids are all stored, each under its id.
LEMMA StoreFacts ==
  ASSUME NEW n \in Nat, NEW chunks, DOMAIN chunks = 1..n, IdsDistinct(chunks),
         \A i \in 1..n : \A c, d \in chunks[i] : c.id = d.id => c = d
  PROVE  Stored(Store(chunks), chunks, n)
<1> DEFINE U == UNION ToSet(chunks)
           ids == {c.id : c \in U}
           at(id) == CHOOSE c \in U : c.id = id
           store == Store(chunks)
<1>1. store = [id \in ids |-> at(id)]
  BY DEF Store
<1>2. \A c : c \in U <=> \E i \in 1..n : c \in chunks[i]
  BY DEF ToSet
<1> HIDE DEF U
<1>3. \A c, d \in U : c.id = d.id => c = d
  BY <1>2 DEF IdsDistinct
<1>4. \A c \in U : at(c.id) = c
  BY <1>3
<1> HIDE DEF at, store
<1>5. \A c \in U : c.id \in DOMAIN store /\ store[c.id] = c
  BY <1>1, <1>4
<1>6. \A id \in DOMAIN store : store[id] \in U
  BY <1>1, <1>4
<1>7. QED
  BY <1>2, <1>5, <1>6 DEF store, Stored

\* Finitely many chunks are stored.
LEMMA StoreFinite ==
  ASSUME NEW n \in Nat, NEW chunks, DOMAIN chunks = 1..n,
         \A i \in 1..n : IsFiniteSet(chunks[i])
  PROVE  IsFiniteSet(DOMAIN Store(chunks))
<1> DEFINE sets == ToSet(chunks)
           U == UNION sets
           ids == {c.id : c \in U}
           f == [c \in U |-> c.id]
<1>1. DOMAIN Store(chunks) = ids
  BY DEF Store
<1>2. sets = {chunks[i] : i \in 1..n}
  BY DEF ToSet
<1> HIDE DEF sets
<1>3. IsFiniteSet(sets)
  BY <1>2, ListedFinite
<1>4. \A C \in sets : IsFiniteSet(C)
  BY <1>2
<1>5. IsFiniteSet(U)
  BY <1>3, <1>4, FS_UNION
<1> HIDE DEF U
<1>6. f \in Surjection(U, ids)
  BY DEF Surjection
<1> HIDE DEF f, ids
<1>7. IsFiniteSet(ids)
  BY <1>5, <1>6, FS_Surjection
<1>8. QED
  BY <1>1, <1>7

Segments(p) == 1 + Sections(p) + Tables(p)

\* A segment is the facts, a section or a table.
LEMMA SegmentCases ==
  ASSUME NEW p \in Pages, NEW k \in 1..Segments(p)
  PROVE  \/ k = 1
         \/ \E i \in 1..Sections(p) : k = 1 + i
         \/ \E i \in 1..Tables(p) : k = 1 + Sections(p) + i
<1>1. Sections(p) \in Nat /\ Tables(p) \in Nat
  BY PageTyped
<1>2. CASE k > 1 + Sections(p)
  <2>1. k - 1 - Sections(p) \in 1..Tables(p)
    BY <1>1, <1>2 DEF Segments
  <2>2. k = 1 + Sections(p) + (k - 1 - Sections(p))
    BY <1>1
  <2>3. QED
    BY <2>1, <2>2
<1>3. CASE k > 1 /\ ~ (k > 1 + Sections(p))
  <2>1. k - 1 \in 1..Sections(p) /\ k = 1 + (k - 1)
    BY <1>1, <1>3
  <2>2. QED
    BY <2>1
<1>4. CASE ~ (k > 1)
  BY <1>4
<1>5. QED
  BY <1>2, <1>3, <1>4

LEMMA ChunkDomain ==
  ASSUME NEW p \in Pages
  PROVE  DOMAIN Chunk(p) = 1..Segments(p) /\ Segments(p) \in Nat
BY SegmentsOf, PageTyped DEF Chunk, Segments

\* Every page has finitely many chunks.
LEMMA PageFinite == \A p \in Pages : IsFiniteSet(DOMAIN Store(Chunk(p)))
<1> TAKE p \in Pages
<1>1. DOMAIN Chunk(p) = 1..Segments(p) /\ Segments(p) \in Nat
  BY ChunkDomain
<1>2. ASSUME NEW k \in 1..Segments(p) PROVE IsFiniteSet(Chunk(p)[k])
  <2>1. CASE k = 1
    BY <2>1, FactsChunked DEF Chunks
  <2>2. CASE \E i \in 1..Sections(p) : k = 1 + i
    BY <2>2, SectionChunked DEF Chunks
  <2>3. CASE \E i \in 1..Tables(p) : k = 1 + Sections(p) + i
    BY <2>3, TableChunked DEF Chunks
  <2>4. QED
    BY <2>1, <2>2, <2>3, SegmentCases
<1>3. QED
  BY <1>1, <1>2, StoreFinite

\* When the slugs of a page are distinct, so are the ids of its chunks.
LEMMA PageIds ==
  ASSUME NEW p \in Pages, SlugsDistinct(p)
  PROVE  IdsDistinct(Chunk(p))
<1> DEFINE m == Sections(p)
           n == Tables(p)
           K == Segments(p)
           A == {<<"fact", f>> : f \in DOMAIN p.facts}
           B(i) == {<<"section", Slugify[p.sections[i].heading]>>}
           C(i) == {<<"table", Slugify[p.tables[i].caption]>>}
           keys == [k \in 1..K |-> IF k = 1 THEN A
                                   ELSE IF k <= 1 + m THEN B(k - 1) ELSE C(k - (1 + m))]
<1>1. m \in Nat /\ n \in Nat /\ K \in Nat /\ DOMAIN Chunk(p) = 1..K /\ K = 1 + m + n
  BY PageTyped, ChunkDomain DEF Segments
<1>2. DOMAIN p.sections = 1..m /\ DOMAIN p.tables = 1..n
  BY PageTyped
<1>3. /\ \A i \in 1..n : A \cap C(i) = {}
      /\ \A i \in 1..m : A \cap B(i) = {}
      /\ \A i \in 1..m : \A j \in 1..n : B(i) \cap C(j) = {}
  OBVIOUS
<1>4. \A i, j \in 1..m : i # j => B(i) \cap B(j) = {}
  BY <1>2 DEF SlugsDistinct
<1>5. \A i, j \in 1..n : i # j => C(i) \cap C(j) = {}
  BY <1>2 DEF SlugsDistinct
<1> HIDE DEF A, B, C, m, n, K
<1>6. keys[1] = A
  BY <1>1
<1>7. \A i \in 1..m : keys[1 + i] = B(i)
  <2> TAKE i \in 1..m
  <2>1. 1 + i \in 1..K /\ 1 + i # 1 /\ 1 + i <= 1 + m /\ (1 + i) - 1 = i
    BY <1>1
  <2>2. QED
    BY <2>1
<1>8. \A i \in 1..n : keys[1 + m + i] = C(i)
  <2> TAKE i \in 1..n
  <2>1. /\ 1 + m + i \in 1..K /\ 1 + m + i # 1 /\ ~ (1 + m + i <= 1 + m)
        /\ (1 + m + i) - (1 + m) = i
    BY <1>1
  <2>2. QED
    BY <2>1
<1> HIDE DEF keys
<1>9. \A k \in 1..K : \/ k = 1
                      \/ \E i \in 1..m : k = 1 + i
                      \/ \E i \in 1..n : k = 1 + m + i
  BY SegmentCases DEF m, n, K
<1>10. ASSUME NEW k \in 1..K PROVE \E units : Chunks(Chunk(p)[k], keys[k], units)
  <2>1. CASE k = 1
    BY <1>6, <2>1, FactsChunked DEF A
  <2>2. CASE \E i \in 1..m : k = 1 + i
    <3>1. PICK i \in 1..m : k = 1 + i
      BY <2>2
    <3>2. Chunks(Chunk(p)[1 + i], B(i), WordUnits(p.sections[i].body))
      BY SectionChunked DEF B, m
    <3>3. QED
      BY <1>7, <3>1, <3>2
  <2>3. CASE \E i \in 1..n : k = 1 + m + i
    <3>1. PICK i \in 1..n : k = 1 + m + i
      BY <2>3
    <3>2. \E units : Chunks(Chunk(p)[1 + m + i], C(i), units)
      BY TableChunked DEF C, m, n
    <3>3. QED
      BY <1>8, <3>1, <3>2
  <2>4. QED
    BY <1>9, <2>1, <2>2, <2>3
<1>11. ASSUME NEW k \in 1..K, NEW l \in 1..K, k # l PROVE keys[k] \cap keys[l] = {}
  <2>1. \A i \in 1..m : keys[1] \cap keys[1 + i] = {}
    BY <1>3, <1>6, <1>7
  <2>2. \A i \in 1..n : keys[1] \cap keys[1 + m + i] = {}
    BY <1>3, <1>6, <1>8
  <2>3. \A i \in 1..m : \A j \in 1..n : keys[1 + i] \cap keys[1 + m + j] = {}
    BY <1>3, <1>7, <1>8
  <2>4. \A i, j \in 1..m : 1 + i # 1 + j => keys[1 + i] \cap keys[1 + j] = {}
    BY <1>4, <1>7
  <2>5. \A i, j \in 1..n : 1 + m + i # 1 + m + j => keys[1 + m + i] \cap keys[1 + m + j] = {}
    BY <1>5, <1>8
  <2>6. CASE k = 1
    BY <1>9, <1>11, <2>1, <2>2, <2>6
  <2>7. CASE \E i \in 1..m : k = 1 + i
    <3>1. PICK i \in 1..m : k = 1 + i
      BY <2>7
    <3>2. CASE l = 1
      BY <2>1, <3>1, <3>2
    <3>3. CASE \E j \in 1..m : l = 1 + j
      BY <1>11, <2>4, <3>1, <3>3
    <3>4. CASE \E j \in 1..n : l = 1 + m + j
      BY <2>3, <3>1, <3>4
    <3>5. QED
      BY <1>9, <3>2, <3>3, <3>4
  <2>8. CASE \E i \in 1..n : k = 1 + m + i
    <3>1. PICK i \in 1..n : k = 1 + m + i
      BY <2>8
    <3>2. CASE l = 1
      BY <2>2, <3>1, <3>2
    <3>3. CASE \E j \in 1..m : l = 1 + j
      BY <2>3, <3>1, <3>3
    <3>4. CASE \E j \in 1..n : l = 1 + m + j
      BY <1>11, <2>5, <3>1, <3>4
    <3>5. QED
      BY <1>9, <3>2, <3>3, <3>4
  <2>9. QED
    BY <1>9, <2>6, <2>7, <2>8
<1>12. Keyed(Chunk(p), K, keys)
  BY <1>1, <1>10, <1>11 DEF Keyed
<1>13. QED
  BY <1>1, <1>12, KeyedIds

\* When the ids are distinct, the index has every chunk of the page under its id and
\* nothing else.
LEMMA PageStored ==
  ASSUME NEW p \in Pages, IdsDistinct(Chunk(p))
  PROVE  Stored(Store(Chunk(p)), Chunk(p), Segments(p))
<1>1. DOMAIN Chunk(p) = 1..Segments(p) /\ Segments(p) \in Nat
  BY ChunkDomain
<1>2. ASSUME NEW k \in 1..Segments(p)
      PROVE  \A c, d \in Chunk(p)[k] : c.id = d.id => c = d
  <2>1. CASE k = 1
    BY <2>1, FactsChunked DEF Chunks
  <2>2. CASE \E i \in 1..Sections(p) : k = 1 + i
    BY <2>2, SectionChunked DEF Chunks
  <2>3. CASE \E i \in 1..Tables(p) : k = 1 + Sections(p) + i
    BY <2>3, TableChunked DEF Chunks
  <2>4. QED
    BY <2>1, <2>2, <2>3, SegmentCases
<1>3. QED
  BY <1>1, <1>2, StoreFacts

UnitsOfTable(p, i) == {Row(p.tables[i].rows[j]) : j \in 1..Len(p.tables[i].rows)}

\* The units of a page are those of its segments.
LEMMA PageUnitsAre ==
  ASSUME NEW p \in Pages
  PROVE  /\ FactUnits(p) \subseteq PageUnits(p)
         /\ \A i \in 1..Sections(p) : WordUnits(p.sections[i].body) \subseteq PageUnits(p)
         /\ \A i \in 1..Tables(p) : UnitsOfTable(p, i) \subseteq PageUnits(p)
         /\ \A u \in PageUnits(p) : \/ u \in FactUnits(p)
                                    \/ \E i \in 1..Sections(p) : u \in WordUnits(p.sections[i].body)
                                    \/ \E i \in 1..Tables(p) : u \in UnitsOfTable(p, i)
<1> DEFINE RowsOf(table) == {<<"row", row.id>> : row \in ToSet(table.rows)}
<1>1. DOMAIN p.sections = 1..Sections(p) /\ DOMAIN p.tables = 1..Tables(p)
  BY PageTyped
<1>2. \A i \in 1..Tables(p) : UnitsOfTable(p, i) = RowsOf(p.tables[i])
  <2> TAKE i \in 1..Tables(p)
  <2> DEFINE rows == p.tables[i].rows
  <2>1. rows \in Seq([id : Nat, tokens : Nat])
    BY PageTyped
  <2> HIDE DEF rows
  <2>2. DOMAIN rows = 1..Len(rows)
    BY <2>1
  <2>3. QED
    BY <2>2 DEF rows, Row, UnitsOfTable, ToSet
<1>3. TableUnits(p) = UNION {RowsOf(table) : table \in ToSet(p.tables)}
  BY DEF TableUnits
<1> HIDE DEF RowsOf
<1>4. \A u : u \in TableUnits(p) <=> \E i \in 1..Tables(p) : u \in RowsOf(p.tables[i])
  BY <1>1, <1>3 DEF ToSet
<1>5. \A u : u \in SectionUnits(p)
               <=> \E i \in 1..Sections(p) : u \in WordUnits(p.sections[i].body)
  BY <1>1 DEF SectionUnits, ToSet
<1>6. QED
  BY <1>2, <1>4, <1>5 DEF PageUnits

\* What the stored chunks of a page hold is the page.
LEMMA StoreHoldsPage ==
  ASSUME NEW p \in Pages, IdsDistinct(Chunk(p))
  PROVE  LET store == Store(Chunk(p))
         IN UNION {store[id].units : id \in DOMAIN store} = PageUnits(p)
<1> DEFINE store == Store(Chunk(p))
           held == UNION {store[id].units : id \in DOMAIN store}
           all == PageUnits(p)
           m == Sections(p)
           n == Tables(p)
           K == Segments(p)
           F == FactUnits(p)
           W(i) == WordUnits(p.sections[i].body)
           X(i) == UnitsOfTable(p, i)
<1>1. /\ \A k \in 1..K : \A c \in Chunk(p)[k] : c.id \in DOMAIN store /\ store[c.id] = c
      /\ \A id \in DOMAIN store : \E k \in 1..K : store[id] \in Chunk(p)[k]
  BY PageStored DEF Stored
<1>2. /\ F \subseteq all
      /\ \A i \in 1..m : W(i) \subseteq all
      /\ \A i \in 1..n : X(i) \subseteq all
      /\ \A u \in all : \/ u \in F
                        \/ \E i \in 1..m : u \in W(i)
                        \/ \E i \in 1..n : u \in X(i)
  BY PageUnitsAre
<1>3. \A k \in 1..K : \/ k = 1
                      \/ \E i \in 1..m : k = 1 + i
                      \/ \E i \in 1..n : k = 1 + m + i
  BY SegmentCases
<1>4. \E keys : Chunks(Chunk(p)[1], keys, F)
  BY FactsChunked DEF FactUnits
<1>5. \A i \in 1..m : \E keys : Chunks(Chunk(p)[1 + i], keys, W(i))
  BY SectionChunked
<1>6. \A i \in 1..n : \E keys : Chunks(Chunk(p)[1 + m + i], keys, X(i))
  BY TableChunked DEF UnitsOfTable
<1>7. /\ 1 \in 1..K
      /\ \A i \in 1..m : 1 + i \in 1..K
      /\ \A i \in 1..n : 1 + m + i \in 1..K
  BY PageTyped DEF Segments
<1> HIDE DEF store, all, F, W, X, m, n, K
<1>8. \A k \in 1..K : \A c \in Chunk(p)[k] : c.units \subseteq held
  BY <1>1
<1>9. held \subseteq all
  <2> SUFFICES ASSUME NEW id \in DOMAIN store PROVE store[id].units \subseteq all
    OBVIOUS
  <2>1. PICK k \in 1..K : store[id] \in Chunk(p)[k]
    BY <1>1
  <2>2. CASE k = 1
    BY <1>2, <1>4, <2>1, <2>2 DEF Chunks
  <2>3. CASE \E i \in 1..m : k = 1 + i
    <3>1. PICK i \in 1..m : k = 1 + i
      BY <2>3
    <3>2. store[id].units \subseteq W(i)
      BY <1>5, <2>1, <3>1 DEF Chunks
    <3>3. QED
      BY <1>2, <3>2
  <2>4. CASE \E i \in 1..n : k = 1 + m + i
    <3>1. PICK i \in 1..n : k = 1 + m + i
      BY <2>4
    <3>2. store[id].units \subseteq X(i)
      BY <1>6, <2>1, <3>1 DEF Chunks
    <3>3. QED
      BY <1>2, <3>2
  <2>5. QED
    BY <1>3, <2>2, <2>3, <2>4
<1> HIDE DEF held
<1>10. F \subseteq held
  BY <1>4, <1>7, <1>8 DEF Chunks
<1>11. \A i \in 1..m : W(i) \subseteq held
  BY <1>5, <1>7, <1>8 DEF Chunks
<1>12. \A i \in 1..n : X(i) \subseteq held
  BY <1>6, <1>7, <1>8 DEF Chunks
<1>13. held = all
  BY <1>2, <1>9, <1>10, <1>11, <1>12
<1>14. QED
  BY <1>13 DEF held, store, all

-----------------------------------------------------------------------------
(* Hit lists *)

\* A ranking of some chunks of the index names each once, and no more than there are.
LEMMA FoundListed ==
  ASSUME NEW D, IsFiniteSet(D), NEW H, H \subseteq D, NEW n \in Nat, NEW list \in Rankings(H, n)
  PROVE  list \in Seq(D) /\ Once(list) /\ Len(list) <= Cardinality(D)
<1>1. PICK s \in SetToSeqs(H) : list = Truncate(s, n)
  BY DEF Rankings
<1>2. IsFiniteSet(H) /\ Cardinality(H) <= Cardinality(D)
  BY FS_Subset
<1>3. Cardinality(H) \in Nat /\ Cardinality(D) \in Nat
  BY <1>2, FS_CardinalityType
<1>4. /\ s \in Seq(H) /\ Len(s) = Cardinality(H)
      /\ \A i, j \in 1..Len(s) : s[i] = s[j] => i = j
  BY <1>2, OrderingFacts
<1>5. /\ list \in Seq(H)
      /\ Len(list) = IF n <= Len(s) THEN n ELSE Len(s)
      /\ \A i \in 1..Len(list) : list[i] = s[i]
  BY <1>1, <1>4, PrefixFacts DEF Truncate
<1>6. Len(list) <= Len(s) /\ \A i \in 1..Len(list) : i \in 1..Len(s)
  BY <1>3, <1>4, <1>5
<1>7. Once(list)
  BY <1>4, <1>5, <1>6 DEF Once
<1>8. list \in Seq(D)
  BY <1>5
<1>9. QED
  BY <1>2, <1>3, <1>4, <1>6, <1>7, <1>8

\* Whatever their conditions, the searches list chunks of the index.
LEMMA HitsListed ==
  ASSUME IsFiniteSet(DOMAIN index), Cardinality(DOMAIN index) <= MaxRank,
         NEW dense \in DenseHits, NEW words, NEW sparse \in SparseHits(words)
  PROVE  HitLists(dense, sparse)
<1> DEFINE D == DOMAIN index
           Found(R) == {r.chunk : r \in R}
<1>1. \A R : R \subseteq Rows => Found(R) \subseteq D
  BY DEF Rows
<1>2. TopKSearch \in Nat /\ MaxRank \in Nat /\ Cardinality(D) \in Nat
  BY RetrievalAssumption, FS_CardinalityType
<1>3. \E R : R \subseteq Rows /\ dense \in Rankings(Found(R), TopKSearch)
  <2>1. CASE Backend = "pgvector"
    <3> DEFINE R == {x \in Rows : /\ ~x.deleted
                                  /\ x.version = "live"
                                  /\ SchemeAdmits("any", x)}
    <3>1. R \subseteq Rows /\ dense \in Rankings(Found(R), TopKSearch)
      BY <2>1 DEF DenseHits, PgDenseSearch
    <3>2. QED
      BY <3>1
  <2>2. CASE Backend # "pgvector"
    <3> DEFINE R == {x \in Rows : x.version = "live" /\ SchemeAdmits("any", x)}
    <3>1. R \subseteq Rows /\ dense \in Rankings(Found(R), TopKSearch)
      BY <2>2 DEF DenseHits, MemoryDenseSearch
    <3>2. QED
      BY <3>1
  <2>3. QED
    BY <2>1, <2>2
<1>4. \E R : R \subseteq Rows /\ sparse \in Rankings(Found(R), TopKSearch)
  <2>1. CASE Backend = "pgvector"
    <3> DEFINE R == {x \in Rows : /\ ~x.deleted
                                  /\ x.version = "live"
                                  /\ SchemeAdmits("any", x)
                                  /\ words \subseteq x.words}
    <3>1. R \subseteq Rows /\ sparse \in Rankings(Found(R), TopKSearch)
      BY <2>1 DEF SparseHits, PgSparseSearch
    <3>2. QED
      BY <3>1
  <2>2. CASE Backend # "pgvector"
    <3> DEFINE R == {x \in Rows : /\ x.version = "live"
                                  /\ SchemeAdmits("any", x)
                                  /\ x.words \cap words # {}}
    <3>1. R \subseteq Rows /\ sparse \in Rankings(Found(R), TopKSearch)
      BY <2>2 DEF SparseHits, MemoryBm25Search
    <3>2. QED
      BY <3>1
  <2>3. QED
    BY <2>1, <2>2
<1> HIDE DEF D, Found
<1>5. dense \in Seq(D) /\ Once(dense) /\ Len(dense) <= Cardinality(D)
  <2>1. PICK R : R \subseteq Rows /\ dense \in Rankings(Found(R), TopKSearch)
    BY <1>3
  <2>2. IsFiniteSet(D) /\ Found(R) \subseteq D
    BY <1>1, <2>1 DEF D
  <2>3. QED
    BY <1>2, <2>1, <2>2, FoundListed
<1>6. sparse \in Seq(D) /\ Once(sparse) /\ Len(sparse) <= Cardinality(D)
  <2>1. PICK R : R \subseteq Rows /\ sparse \in Rankings(Found(R), TopKSearch)
    BY <1>4
  <2>2. IsFiniteSet(D) /\ Found(R) \subseteq D
    BY <1>1, <2>1 DEF D
  <2>3. QED
    BY <1>2, <2>1, <2>2, FoundListed
<1>7. Cardinality(D) <= MaxRank
  BY DEF D
<1>8. Len(dense) <= MaxRank /\ Len(sparse) <= MaxRank
  BY <1>2, <1>5, <1>6, <1>7
<1>9. QED
  BY <1>5, <1>6, <1>8 DEF HitLists

-----------------------------------------------------------------------------
(* The inductive invariant *)

PageInv == page \in Pages

IndexInv == Indexed => IdsDistinct(Chunk(page)) /\ index = Store(Chunk(page))

RefusedInv == stage = "refused" => ~IdsDistinct(Chunk(page))

HitsInv == stage \in {"searched", "retrieved"} => HitLists(hits.dense, hits.sparse)

ResultInv == stage = "retrieved" => result \in RetrievalResults(hits.dense, hits.sparse)

IInv == PageInv /\ IndexInv /\ RefusedInv /\ HitsInv /\ ResultInv

\* Each stage keeps what the stages before it made: the index is that of the page,
\* the hits are lists of its chunks, the result is one of these hits.
LEMMA PageInvariant == Spec => []IInv
<1> USE DEF IInv, PageInv, IndexInv, RefusedInv, Indexed, HitsInv, ResultInv
<1>1. Init => IInv
  BY DEF Init
<1>2. ASSUME IInv, [Next]_vars
      PROVE  IInv'
  <2>1. CASE IndexPage
    BY <1>2, <2>1 DEF IndexPage
  <2>a. CASE RefusePage
    BY <1>2, <2>a DEF RefusePage
  <2>2. CASE Search
    <3>1. /\ stage = "indexed" /\ stage' = "searched"
          /\ page' = page /\ index' = index /\ result' = result
          /\ Cardinality(DOMAIN index) <= MaxRank
      BY <2>2 DEF Search
    <3>2. IsFiniteSet(DOMAIN index)
      BY <1>2, <3>1, PageFinite
    <3>3. PICK dense \in DenseHits, sparse \in SparseHits(question') :
            hits' = [dense |-> dense, sparse |-> sparse]
      BY <2>2 DEF Search
    <3>4. HitLists(dense, sparse)
      BY <3>1, <3>2, HitsListed
    <3>5. hits'.dense = dense /\ hits'.sparse = sparse
      BY <3>3
    <3>6. HitsInv'
      BY <3>4, <3>5
    <3>7. QED
      BY <1>2, <3>1, <3>6
  <2>3. CASE Retrieve
    BY <1>2, <2>3 DEF Retrieve
  <2>4. CASE UNCHANGED vars
    BY <1>2, <2>4 DEF vars
  <2>5. QED
    BY <1>2, <2>1, <2>a, <2>2, <2>3, <2>4 DEF Next
<1>3. QED
  BY <1>1, <1>2, PTL DEF Spec

-----------------------------------------------------------------------------
(* Theorems *)

\* For any pages and limits, the splitter returns no piece above the target except
\* a single word, whichever separators are inside which.
THEOREM PiecesFitCorrect == Spec => []PiecesFit
<1>1. ASSUME IInv PROVE PiecesFit
  <2>1. page \in Pages
    BY <1>1 DEF IInv, PageInv
  <2>2. ASSUME NEW i \in DOMAIN page.sections,
               NEW piece \in ToSet(RecursiveSplit(page.sections[i].body))
        PROVE  TokenCount(piece) <= TargetTokens \/ Len(piece) = 1
    <3> DEFINE body == page.sections[i].body
               pieces == RecursiveSplit(body)
    <3>1. body \in Texts
      BY <2>1, PageTyped
    <3> HIDE DEF body
    <3>2. Good(body, pieces)
      BY <3>1, RecursiveSplitGood
    <3>3. piece \in ToSet(pieces)
      BY <2>2 DEF body
    <3> HIDE DEF pieces
    <3>4. pieces \in Seq(Texts) /\ \A k \in 1..Len(pieces) : Fits(pieces[k])
      BY <3>2 DEF Good
    <3>5. PICK k \in 1..Len(pieces) : piece = pieces[k]
      BY <3>3, <3>4 DEF ToSet
    <3>6. QED
      BY <3>4, <3>5 DEF Fits
  <2>3. QED
    BY <2>2 DEF PiecesFit
<1>2. QED
  BY <1>1, PageInvariant, PTL

\* For any pages and limits, the chunks of an indexed page hold between them every
\* fact, word and row of it and nothing else, and no page with distinct slugs is
\* refused.
THEOREM IndexHoldsPageCorrect == Spec => []IndexHoldsPage
<1>1. ASSUME IInv PROVE IndexHoldsPage
  <2>1. page \in Pages
    BY <1>1 DEF IInv, PageInv
  <2>2. ASSUME Indexed PROVE IndexedUnits = PageUnits(page)
    <3>1. IdsDistinct(Chunk(page)) /\ index = Store(Chunk(page))
      BY <1>1, <2>2 DEF IInv, IndexInv
    <3>2. UNION {index[id].units : id \in DOMAIN index} = PageUnits(page)
      BY <2>1, <3>1, StoreHoldsPage
    <3>3. QED
      BY <3>2 DEF IndexedUnits
  <2>3. SlugsDistinct(page) => stage # "refused"
    BY <1>1, <2>1, PageIds DEF IInv, RefusedInv
  <2>4. QED
    BY <2>2, <2>3 DEF IndexHoldsPage
<1>2. QED
  BY <1>1, PageInvariant, PTL

\* For any pages and limits, two neighbouring words of a section that need no split
\* of their own are together in a chunk when there is an overlap.
THEOREM NeighboursMeetCorrect == Spec => []NeighboursMeet
<1>1. ASSUME IInv PROVE NeighboursMeet
  <2>1. SUFFICES ASSUME Indexed, OverlapTokens > 0,
                        NEW i \in DOMAIN page.sections,
                        NEW j \in 2..Len(page.sections[i].body),
                        WordTokens(page.sections[i].body[j - 1]) <= TargetTokens,
                        WordTokens(page.sections[i].body[j]) <= TargetTokens
                 PROVE  \E id \in DOMAIN index :
                          {<<"word", page.sections[i].body[j - 1].id>>,
                           <<"word", page.sections[i].body[j].id>>} \subseteq index[id].units
    BY DEF NeighboursMeet
  <2> DEFINE body == page.sections[i].body
             C == Chunk(page)[1 + i]
  <2>2. page \in Pages /\ IdsDistinct(Chunk(page)) /\ index = Store(Chunk(page))
    BY <1>1, <2>1 DEF IInv, PageInv, IndexInv
  <2>3. i \in 1..Sections(page) /\ 1 + i \in 1..Segments(page)
    BY <2>1, <2>2, PageTyped DEF Segments
  <2>4. \A k \in 2..Len(body) :
          Small(body[k - 1]) /\ Small(body[k]) =>
          \E c \in C : {Unit(body[k - 1]), Unit(body[k])} \subseteq c.units
    BY <2>1, <2>2, <2>3, SectionChunked
  <2>5. Small(body[j - 1]) /\ Small(body[j])
    BY <2>1 DEF Small
  <2>6. PICK c \in C : {Unit(body[j - 1]), Unit(body[j])} \subseteq c.units
    BY <2>1, <2>4, <2>5
  <2>7. c.id \in DOMAIN index /\ index[c.id] = c
    BY <2>2, <2>3, PageStored DEF Stored
  <2>8. QED
    BY <2>6, <2>7 DEF Unit
<1>2. QED
  BY <1>1, PageInvariant, PTL

\* For any hit lists and any rrf_k, the candidates respect the ranks of the two
\* searches.
THEOREM FusionRespectsRanksCorrect == Spec => []FusionRespectsRanks
<1>1. ASSUME IInv PROVE FusionRespectsRanks
  <2> DEFINE dense == hits.dense
             sparse == hits.sparse
             list == result.candidates
  <2>1. SUFFICES ASSUME stage = "retrieved", RerankerProvider = "passthrough", ~result.below,
                        NEW c \in ToSet(dense \o sparse), NEW d \in ToSet(list), c # d,
                        \/ /\ Place(dense, c) <= Place(dense, d)
                           /\ Place(sparse, c) <= Place(sparse, d)
                        \/ /\ RrfK >= MaxRank
                           /\ c \in ToSet(dense) \cap ToSet(sparse)
                           /\ d \notin ToSet(dense) \cap ToSet(sparse)
                 PROVE  Place(list, c) < Place(list, d)
    BY DEF FusionRespectsRanks
  <2>2. HitLists(dense, sparse) /\ result \in RetrievalResults(dense, sparse)
    BY <1>1, <2>1 DEF IInv, HitsInv, ResultInv
  <2> HIDE DEF dense, sparse
  <2>3. InOrder(list, dense, sparse)
    BY <2>1, <2>2, CandidatesInOrder
  <2> HIDE DEF list
  <2>4. d \in ToSet(dense \o sparse)
    BY <2>1, <2>3 DEF InOrder
  <2>5. Ahead(dense, sparse, c, d)
    BY <2>1, <2>2, <2>4, AheadOfRanks
  <2>6. QED
    BY <2>1, <2>3, <2>5, InOrderPlace
<1>2. QED
  BY <1>1, PageInvariant, PTL
=============================================================================
