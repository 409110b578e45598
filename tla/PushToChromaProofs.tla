------------------------- MODULE PushToChromaProofs -------------------------
(***************************************************************************)
(* The daily job and the workflows around it, for any sources, pages,      *)
(* batch sizes, caps and numbers of runs: exit code 0 and a local "passed" *)
(* mean what they say, vectors stay with their texts, retries do not       *)
(* chain.                                                                  *)
(***************************************************************************)
EXTENDS PushToChroma, DataFacts

-----------------------------------------------------------------------------
(* Embedding *)

\* The texts the pages of the sources may show, and their vectors and hashes.
Shown == UNION {PageTexts(s) : s \in ToSet(Sources)}

Vectors == {EmbedText(t) : t \in Shown}

Hashes == {NormalizeForHash(t) : t \in Shown}

\* A vector was computed from a text with a hash.
Matches(vector, hash) ==
  \E t \in Shown : vector = EmbedText(t) /\ NormalizeForHash(t) = hash

ChunkType == [id : STRING, text : Shown]

\* A chunk with a vector of its own text, up to case.
Embedded ==
  {row \in [id : STRING, text : Shown, vector : Vectors] :
     Matches(row.vector, NormalizeForHash(row.text))}

\* A cache that has vectors of texts with the hash they are stored under.
Caches ==
  {c \in UNION {[D -> Vectors] : D \in SUBSET Hashes} : \A h \in DOMAIN c : Matches(c[h], h)}

LEMMA CacheIntro ==
  ASSUME NEW D \in SUBSET Hashes, NEW c \in [D -> Vectors], \A h \in D : Matches(c[h], h)
  PROVE  c \in Caches
BY DEF Caches

LEMMA CacheElim ==
  ASSUME NEW c \in Caches
  PROVE  /\ DOMAIN c \subseteq Hashes /\ c \in [DOMAIN c -> Vectors]
         /\ \A h \in DOMAIN c : c[h] \in Vectors /\ Matches(c[h], h)
BY DEF Caches

LEMMA MergeDomain ==
  ASSUME NEW c, NEW d
  PROVE  /\ DOMAIN Merge(c, d) = DOMAIN c \cup DOMAIN d
         /\ \A k \in DOMAIN Merge(c, d) : Merge(c, d)[k] = IF k \in DOMAIN d THEN d[k] ELSE c[k]
BY DEF Merge

LEMMA MergeType ==
  ASSUME NEW c \in Caches, NEW d \in Caches
  PROVE  Merge(c, d) \in Caches
<1> DEFINE m == Merge(c, d)
<1>1. DOMAIN m \in SUBSET Hashes
  BY CacheElim, MergeDomain
<1>2. ASSUME NEW h \in DOMAIN m
      PROVE  m[h] \in Vectors /\ Matches(m[h], h)
  <2>1. (h \in DOMAIN d /\ m[h] = d[h]) \/ (h \in DOMAIN c /\ m[h] = c[h])
    BY DEF Merge
  <2>2. QED
    BY <2>1, CacheElim
<1>3. m \in [DOMAIN m -> Vectors]
  BY <1>2 DEF Merge
<1> HIDE DEF m
<1>4. m \in Caches
  BY <1>1, <1>2, <1>3, CacheIntro
<1>5. QED
  BY <1>4 DEF m

LEMMA GetManyType ==
  ASSUME NEW c \in Caches, NEW H
  PROVE  GetMany(c, H) \in Caches /\ DOMAIN GetMany(c, H) = H \cap DOMAIN c
<1>1. DOMAIN GetMany(c, H) = H \cap DOMAIN c
  BY DEF GetMany
<1>2. GetMany(c, H) \in [H \cap DOMAIN c -> Vectors]
  BY CacheElim DEF GetMany
<1>3. \A h \in H \cap DOMAIN c : Matches(GetMany(c, H)[h], h)
  BY CacheElim DEF GetMany
<1>4. QED
  BY <1>1, <1>2, <1>3, CacheElim, CacheIntro

LEMMA HashType ==
  ASSUME NEW chunks \in Seq(ChunkType), NEW i \in DOMAIN chunks
  PROVE  /\ chunks[i] \in ChunkType /\ EmbedText(chunks[i].text) \in Vectors
         /\ ChunkHash(chunks[i]) \in Hashes
         /\ Matches(EmbedText(chunks[i].text), ChunkHash(chunks[i]))
<1>1. chunks[i] \in ChunkType
  BY ElementOfSeq, LenProperties
<1>2. chunks[i].text \in Shown
  BY <1>1 DEF ChunkType
<1>3. QED
  BY <1>1, <1>2 DEF Vectors, Hashes, ChunkHash, Matches

\* The misses are listed by their order: each is the k-th for some k.
LEMMA MissFacts ==
  ASSUME NEW n \in Nat, NEW misses, misses \subseteq 1..n
  PROVE  /\ Cardinality(misses) \in Nat
         /\ \A k \in 1..Cardinality(misses) : Miss(misses, k) \in misses
         /\ \A i \in misses : \E k \in 1..Cardinality(misses) : Miss(misses, k) = i
<1> DEFINE N == Cardinality(misses)
           before(x) == Cardinality({j \in misses : j < x})
<1>1. IsFiniteSet(misses)
  <2>1. IsFiniteSet(1..n)
    BY FS_Interval
  <2>2. QED
    BY <2>1, FS_Subset
<1>2. /\ N \in Nat
      /\ \A x \in misses : before(x) \in 0..N - 1
      /\ \A x, y \in misses : before(x) = before(y) => x = y
      /\ \A k \in 1..N : \E x \in misses : before(x) = k - 1
  <2>1. misses \subseteq Int
    OBVIOUS
  <2>2. QED
    BY <1>1, <2>1, IntegerPlaces
<1>3. \A k : Miss(misses, k) = CHOOSE i \in misses : before(i) = k - 1
  BY DEF Miss
<1> HIDE DEF N, before
<1>4. ASSUME NEW k \in 1..N
      PROVE  Miss(misses, k) \in misses /\ before(Miss(misses, k)) = k - 1
  BY <1>2, <1>3
<1>5. ASSUME NEW i \in misses PROVE \E k \in 1..N : Miss(misses, k) = i
  <2>1. before(i) + 1 \in 1..N
    BY <1>2
  <2>2. /\ Miss(misses, before(i) + 1) \in misses
        /\ before(Miss(misses, before(i) + 1)) = before(i)
    BY <1>2, <1>4, <2>1
  <2>3. QED
    BY <1>2, <2>1, <2>2
<1>6. QED
  BY <1>2, <1>4, <1>5 DEF N

\* The n-th miss is in the batch that covers it, at its place there, and gets the
\* vector of its own text.
LEMMA RowFacts ==
  ASSUME NEW chunks, NEW misses, NEW N \in Nat, N = Cardinality(misses), NEW n \in 1..N
  PROVE  LET c == chunks[Miss(misses, n)]
         IN BatchRows(BatchAt(chunks, misses, (n - 1) \div EmbedBatchSize))
              [((n - 1) % EmbedBatchSize) + 1]
            = [hash |-> ChunkHash(c), vector |-> EmbedText(c.text)]
<1> DEFINE B == EmbedBatchSize
           b == (n - 1) \div B
           k == ((n - 1) % B) + 1
           batch == BatchAt(chunks, misses, b)
           size == Min({B, N - b * B})
<1>1. B \in Nat \ {0} /\ n - 1 \in Nat
  BY PushAssumption
<1>2. n - 1 = B * b + ((n - 1) % B) /\ ((n - 1) % B) \in 0..B - 1 /\ b \in Nat
  <2> HIDE DEF B
  <2>1. \A p \in Nat : /\ p = B * (p \div B) + (p % B)
                       /\ (p % B) \in 0..B - 1 /\ p \div B \in Nat
    BY <1>1
  <2>2. QED
    BY <1>1, <2>1
<1> HIDE DEF B, b
<1>3. b * B \in Nat /\ b * B + k = n /\ k \in 1..B
  <2>1. \A x, y \in Nat : x * y \in Nat /\ x * y = y * x
    OBVIOUS
  <2>2. QED
    BY <1>1, <1>2, <2>1
<1>4. size = IF B <= N - b * B THEN B ELSE N - b * B
  BY <1>1, <1>3, MinOfTwo
<1> HIDE DEF k, size
<1>5. k \in 1..size
  BY <1>1, <1>3, <1>4
<1>6. batch = [i \in 1..size |-> chunks[Miss(misses, b * B + i)]]
  BY DEF BatchAt, B, size
<1>7. DOMAIN batch = 1..size /\ batch[k] = chunks[Miss(misses, n)]
  BY <1>3, <1>5, <1>6
<1> HIDE DEF batch
<1>8. BatchRows(batch)[k] = [hash |-> ChunkHash(batch[k]), vector |-> EmbedText(batch[k].text)]
  BY <1>5, <1>7 DEF BatchRows, EmbedBatch
<1>9. QED
  BY <1>7, <1>8 DEF batch, b, k, B

\* The vector stored under a hash is that of the last miss with it.
LEMMA NewRowsType ==
  ASSUME NEW chunks \in Seq(ChunkType), NEW misses \in SUBSET DOMAIN chunks
  PROVE  /\ NewRows(chunks, misses) \in Caches
         /\ DOMAIN NewRows(chunks, misses) = {ChunkHash(chunks[i]) : i \in misses}
<1> DEFINE N == Cardinality(misses)
           row(n) == BatchRows(BatchAt(chunks, misses, (n - 1) \div EmbedBatchSize))
                       [((n - 1) % EmbedBatchSize) + 1]
           H == {row(n).hash : n \in 1..N}
           final(h) == Max({n \in 1..N : row(n).hash = h})
           new == NewRows(chunks, misses)
<1>1. new = [h \in H |-> row(final(h)).vector]
  BY DEF NewRows
<1>2. DOMAIN chunks = 1..Len(chunks) /\ Len(chunks) \in Nat
  BY LenProperties
<1>3. /\ N \in Nat
      /\ \A n \in 1..N : Miss(misses, n) \in misses
      /\ \A i \in misses : \E n \in 1..N : Miss(misses, n) = i
  BY <1>2, MissFacts
<1>4. \A n \in 1..N : /\ row(n).hash = ChunkHash(chunks[Miss(misses, n)])
                      /\ row(n).vector = EmbedText(chunks[Miss(misses, n)].text)
  <2> TAKE n \in 1..N
  <2> DEFINE c == chunks[Miss(misses, n)]
  <2>1. row(n) = [hash |-> ChunkHash(c), vector |-> EmbedText(c.text)]
    BY <1>3, RowFacts
  <2> HIDE DEF row, c
  <2>2. row(n).hash = ChunkHash(c) /\ row(n).vector = EmbedText(c.text)
    BY <2>1
  <2>3. QED
    BY <2>2 DEF c
<1> HIDE DEF N, row, new
<1>5. H = {ChunkHash(chunks[i]) : i \in misses}
  BY <1>3, <1>4
<1>6. ASSUME NEW h \in H
      PROVE  row(final(h)).vector \in Vectors /\ Matches(row(final(h)).vector, h)
  <2> DEFINE S == {n \in 1..N : row(n).hash = h}
             m == Max(S)
  <2>1. S \subseteq 0..N /\ S # {}
    BY <1>3
  <2>2. m \in S
    BY <1>3, <2>1, MaxUpTo
  <2>3. m \in 1..N /\ row(m).hash = h
    BY <2>2
  <2> HIDE DEF m, S
  <2>4. Miss(misses, m) \in DOMAIN chunks
    BY <1>3, <2>3
  <2>5. row(m).vector \in Vectors /\ Matches(row(m).vector, h)
    BY <1>4, <2>3, <2>4, HashType
  <2>6. QED
    BY <2>5 DEF m, S
<1> HIDE DEF final
<1>7. H \in SUBSET Hashes
  <2> HIDE DEF H
  <2>1. QED
    BY <1>5, HashType
<1> HIDE DEF H
<1>8. DOMAIN new = H /\ new \in [H -> Vectors] /\ \A h \in H : Matches(new[h], h)
  BY <1>1, <1>6
<1>9. new \in Caches
  BY <1>7, <1>8, CacheIntro
<1>10. QED
  BY <1>5, <1>8, <1>9 DEF new

\* Whatever was cached and whatever fails, embedding yields each chunk with a vector
\* of its own text, and leaves a sound cache.
LEMMA EmbedType ==
  ASSUME NEW chunks \in Seq(ChunkType), NEW cache \in Caches, NEW failures
  PROVE  /\ Embed(chunks, cache, failures).cache \in Caches
         /\ Embed(chunks, cache, failures).out \in Seq(Embedded)
<1> DEFINE cached == GetMany(cache, {ChunkHash(chunks[i]) : i \in DOMAIN chunks})
           misses == Misses(chunks, cached)
           new == NewRows(chunks, misses)
           both == Merge(cached, new)
           out == [i \in DOMAIN chunks |->
                     [id |-> chunks[i].id, text |-> chunks[i].text,
                      vector |-> both[ChunkHash(chunks[i])]]]
           refused == [ok |-> FALSE, cache |-> cache, out |-> <<>>]
           done == [ok |-> TRUE, cache |-> PutMany(cache, new), out |-> out]
<1>1. cached \in Caches
  BY GetManyType
<1>2. misses \in SUBSET DOMAIN chunks
  BY DEF Misses
<1>3. new \in Caches /\ DOMAIN new = {ChunkHash(chunks[i]) : i \in misses}
  <2> HIDE DEF misses
  <2> QED BY <1>2, NewRowsType
<1>4. both \in Caches /\ PutMany(cache, new) \in Caches
  <2> HIDE DEF cached, new
  <2> QED BY <1>1, <1>3, MergeType DEF PutMany
<1>5. ASSUME NEW i \in DOMAIN chunks
      PROVE  ChunkHash(chunks[i]) \in DOMAIN both
  <2>1. ChunkHash(chunks[i]) \notin DOMAIN cached => i \in misses
    BY DEF Misses
  <2> HIDE DEF cached, misses, new
  <2>2. ChunkHash(chunks[i]) \in DOMAIN cached \cup DOMAIN new
    BY <1>3, <2>1
  <2>3. DOMAIN both = DOMAIN cached \cup DOMAIN new
    BY MergeDomain
  <2>4. QED
    BY <2>2, <2>3
<1>6. Embed(chunks, cache, failures) \in {refused, done}
  BY DEF Embed
<1> HIDE DEF cached, misses, new, both
<1>7. ASSUME NEW i \in DOMAIN chunks
      PROVE  out[i] \in Embedded
  <2> DEFINE h == ChunkHash(chunks[i])
             v == both[h]
  <2>1. v \in Vectors /\ Matches(v, h)
    BY <1>4, <1>5, CacheElim
  <2>2. chunks[i] \in ChunkType /\ h = NormalizeForHash(chunks[i].text)
    BY HashType DEF ChunkHash
  <2>3. chunks[i].id \in STRING /\ chunks[i].text \in Shown
    BY <2>2 DEF ChunkType
  <2>4. out[i] = [id |-> chunks[i].id, text |-> chunks[i].text, vector |-> v]
    OBVIOUS
  <2> HIDE DEF v, h, out
  <2>5. QED
    BY <2>1, <2>2, <2>3, <2>4 DEF Embedded
<1>8. out \in Seq(Embedded)
  <2>1. DOMAIN chunks = 1..Len(chunks) /\ Len(chunks) \in Nat
    BY LenProperties
  <2>2. out \in [1..Len(chunks) -> Embedded]
    BY <1>7, <2>1
  <2> HIDE DEF out
  <2>3. QED
    BY <2>1, <2>2, SeqDef
<1> HIDE DEF out
<1>9. refused.cache \in Caches /\ refused.out \in Seq(Embedded)
  BY EmptySeq
<1>10. done.cache \in Caches /\ done.out \in Seq(Embedded)
  BY <1>4, <1>8
<1>11. QED
  BY <1>6, <1>9, <1>10

-----------------------------------------------------------------------------
(* The invariant *)

JobType ==
  [pc : {"idle", "sources", "push", "exited"}, run : Nat, todo : Seq(ToSet(Sources)),
   failures : SUBSET ToSet(Sources), cache : Caches, rows : Seq(Embedded),
   offset : Nat, code : {0, 1}]

\* What the position of a process says of its work.
Progress(j) ==
  /\ j.offset \in 0..(Len(j.rows) + BatchSize - 1)
  /\ j.pc \in {"idle", "sources"} => j.offset = 0
  /\ j.pc = "push" => j.todo = <<>>
  /\ j.pc # "exited" => j.code = 1
  /\ j.pc = "exited" /\ j.code = 0 =>
       j.failures = {} /\ j.todo = <<>> /\ j.offset >= Len(j.rows)

\* The rows below the offset are in the collection.
Pushed(j, ids) == \A i \in 1..Len(j.rows) : i <= j.offset => j.rows[i].id \in ids

\* The report of a process that ended with 0 is its own.
Reported(j, rep) ==
  j.pc = "exited" /\ j.code = 0 => rep.run = j.run /\ rep.pushed = Len(j.rows)

Clocked(j, rep, n) ==
  /\ j.run \in 0..n /\ rep.run \in 0..n
  /\ j.pc # "idle" => j.run >= 1

ActorInv(a) ==
  /\ job[a] \in JobType
  /\ Progress(job[a])
  /\ Pushed(job[a], DOMAIN collection)
  /\ Reported(job[a], report[a])
  /\ Clocked(job[a], report[a], runs)

Stored ==
  {e \in [run : 1..runs, text : Shown, vector : Vectors] :
     Matches(e.vector, NormalizeForHash(e.text))}

CollectionInv == \A id \in DOMAIN collection : collection[id] \in Stored

\* A run that a retry dispatched is not a scheduled one.
RunType ==
  {run \in [event : {"none", "schedule", "workflow_dispatch"}, attempt : Nat, depth : {0, 1}] :
     run.event = "schedule" => run.depth = 0}

WorkflowInv ==
  /\ active \in RunType /\ pending \in RunType
  /\ DOMAIN last = {"run", "conclusion", "retried"} /\ last.run \in RunType
  /\ retries \in Seq({0, 1})
  /\ active = NoRun <=> job["ci"].pc = "idle"

PushInv ==
  /\ runs \in 0..MaxRuns
  /\ job = [a \in Actors |-> job[a]] /\ report = [a \in Actors |-> report[a]]
  /\ \A a \in Actors : ActorInv(a)
  /\ CollectionInv
  /\ WorkflowInv

-----------------------------------------------------------------------------
(* The steps of a process *)

LEMMA IdleType ==
  ASSUME NEW ids, NEW rep, NEW n \in Nat, rep.run \in 0..n
  PROVE  /\ Idle \in JobType /\ Progress(Idle) /\ Pushed(Idle, ids)
         /\ Reported(Idle, rep) /\ Clocked(Idle, rep, n)
<1>1. BatchSize \in Nat \ {0}
  BY PushAssumption
<1>2. <<>> \in Seq(ToSet(Sources)) /\ <<>> \in Seq(Embedded) /\ Len(<<>>) = 0
  BY EmptySeq
<1>3. <<>> \in Caches
  <2>1. DOMAIN <<>> = {} /\ <<>> = [h \in {} |-> h]
    OBVIOUS
  <2>2. <<>> \in [{} -> Vectors]
    BY <2>1
  <2>3. QED
    BY <2>2, CacheIntro
<1>4. Idle \in JobType
  BY <1>2, <1>3 DEF Idle, JobType
<1>5. QED
  BY <1>1, <1>2, <1>4 DEF Idle, Progress, Pushed, Reported, Clocked

\* A step of one actor leaves the other's invariant alone when the collection and the
\* clock only grow.
LEMMA OtherActor ==
  ASSUME NEW b \in Actors, ActorInv(b), job'[b] = job[b], report'[b] = report[b],
         DOMAIN collection \subseteq DOMAIN collection', runs \in Nat, runs' \in Nat,
         runs <= runs'
  PROVE  ActorInv(b)'
BY DEF ActorInv, Pushed, Clocked, JobType

LEMMA PageType ==
  ASSUME NEW s \in ToSet(Sources), NEW page \in FetchPage(s)
  PROVE  page.chunks \in Seq(ChunkType)
<1>1. CASE page \in Pages[s]
  <2>1. s \in DOMAIN Pages
    <3>1. Sources \in Seq(DOMAIN Pages)
      BY PushAssumption
    <3>2. PICK i \in DOMAIN Sources : s = Sources[i]
      BY DEF ToSet
    <3>3. QED
      BY <3>1, <3>2, ElementOfSeq, LenProperties
  <2>2. page.chunks \in Seq([id : STRING, text : DOMAIN Display])
    BY <1>1, <2>1, PushAssumption
  <2>3. /\ DOMAIN page.chunks = 1..Len(page.chunks) /\ Len(page.chunks) \in Nat
        /\ page.chunks \in [1..Len(page.chunks) -> [id : STRING, text : DOMAIN Display]]
    BY <2>2, LenProperties
  <2>4. ASSUME NEW i \in 1..Len(page.chunks)
        PROVE  page.chunks[i] \in ChunkType
    <3>1. page.chunks[i].text \in PageTexts(s)
      BY <1>1, <2>3 DEF PageTexts
    <3>2. page.chunks[i].text \in Shown
      BY <3>1 DEF Shown
    <3>3. QED
      BY <2>3, <3>2 DEF ChunkType
  <2>5. page.chunks \in [1..Len(page.chunks) -> ChunkType]
    BY <2>3, <2>4
  <2>6. QED
    BY <2>3, <2>5, SeqDef
<1>2. CASE page \notin Pages[s]
  <2>1. page.chunks = <<>>
    BY <1>2 DEF FetchPage, FetchHttpx
  <2>2. QED
    BY <2>1, EmptySeq
<1>3. QED
  BY <1>1, <1>2

LEMMA ChunkAndEmbedType ==
  ASSUME NEW s \in ToSet(Sources), NEW page \in FetchPage(s), NEW cache \in Caches, NEW failures
  PROVE  /\ ChunkAndEmbed(page, cache, failures).cache \in Caches
         /\ ChunkAndEmbed(page, cache, failures).out \in Seq(Embedded)
<1>1. Embed(page.chunks, cache, failures).cache \in Caches
      /\ Embed(page.chunks, cache, failures).out \in Seq(Embedded)
  BY PageType, EmbedType
<1>2. <<>> \in Seq(Embedded)
  BY EmptySeq
<1>3. QED
  BY <1>1, <1>2 DEF ChunkAndEmbed

\* The rows of a batch are in the collection afterwards, and nothing leaves it.
LEMMA UpsertType ==
  ASSUME CollectionInv, NEW batch \in Seq(Embedded), NEW run \in 1..runs
  PROVE  /\ DOMAIN Upsert(collection, batch, run)
              = {batch[i].id : i \in 1..Len(batch)} \cup DOMAIN collection
         /\ \A id \in DOMAIN Upsert(collection, batch, run) :
              Upsert(collection, batch, run)[id] \in Stored
<1> DEFINE ids == {batch[i].id : i \in DOMAIN batch}
           at(id) == CHOOSE i \in DOMAIN batch : batch[i].id = id
           new == [id \in ids |-> [run |-> run, text |-> batch[at(id)].text,
                                   vector |-> batch[at(id)].vector]]
           up == Upsert(collection, batch, run)
<1>1. DOMAIN batch = 1..Len(batch)
  BY LenProperties
<1>2. up = Merge(collection, new)
  BY DEF Upsert
<1>3. ASSUME NEW id \in ids
      PROVE  new[id] \in Stored
  <2> DEFINE i == at(id)
  <2>1. i \in DOMAIN batch
    OBVIOUS
  <2>2. new[id] = [run |-> run, text |-> batch[i].text, vector |-> batch[i].vector]
    OBVIOUS
  <2> HIDE DEF i, new
  <2>3. batch[i] \in Embedded
    BY <1>1, <2>1, ElementOfSeq
  <2>4. QED
    BY <2>2, <2>3 DEF Embedded, Stored
<1>4. DOMAIN new = ids
  OBVIOUS
<1> HIDE DEF new, ids, up
<1>5. DOMAIN up = ids \cup DOMAIN collection
  <2>1. DOMAIN Merge(collection, new) = DOMAIN collection \cup DOMAIN new
    BY MergeDomain
  <2>2. QED
    BY <1>2, <1>4, <2>1
<1>6. ASSUME NEW id \in DOMAIN up
      PROVE  up[id] \in Stored
  <2>1. up[id] = IF id \in DOMAIN new THEN new[id] ELSE collection[id]
    BY <1>2, MergeDomain
  <2>2. QED
    BY <1>3, <1>4, <1>5, <2>1 DEF CollectionInv
<1>7. QED
  BY <1>1, <1>5, <1>6 DEF ids, up

LEMMA JobUpdate ==
  ASSUME job = [b \in Actors |-> job[b]], NEW a \in Actors, NEW j,
         job' = [job EXCEPT ![a] = j]
  PROVE  /\ job'[a] = j /\ job' = [b \in Actors |-> job'[b]]
         /\ \A b \in Actors \ {a} : job'[b] = job[b]
OBVIOUS

LEMMA ReportUpdate ==
  ASSUME report = [b \in Actors |-> report[b]], NEW a \in Actors, NEW rep,
         report' = [report EXCEPT ![a] = rep]
  PROVE  /\ report'[a] = rep /\ report' = [b \in Actors |-> report'[b]]
         /\ \A b \in Actors \ {a} : report'[b] = report[b]
OBVIOUS

\* What a step of a process does to the shared state.
Framed(a) ==
  /\ ActorInv(a)'
  /\ job' = [b \in Actors |-> job'[b]] /\ report' = [b \in Actors |-> report'[b]]
  /\ \A b \in Actors \ {a} : job'[b] = job[b] /\ report'[b] = report[b]
  /\ DOMAIN collection \subseteq DOMAIN collection' /\ CollectionInv'

LEMMA ProcessSourceStep ==
  ASSUME PushInv, NEW a \in Actors, ProcessSource(a)
  PROVE  Framed(a) /\ job'[a].pc # "idle"
<1> DEFINE j == job[a]
           source == Head(j.todo)
<1>1. j \in JobType /\ j.pc = "sources" /\ j.todo # <<>> /\ ActorInv(a) /\ Progress(j)
  BY DEF PushInv, ActorInv, ProcessSource
<1>2. source \in ToSet(Sources) /\ Tail(j.todo) \in Seq(ToSet(Sources))
  BY <1>1, HeadTailProperties DEF JobType
<1>3. PICK page \in FetchPage(source), failures \in {0, MaxAttempts} :
        LET done == ChunkAndEmbed(page, j.cache, failures)
            next == [j EXCEPT !.todo = Tail(@), !.cache = done.cache]
        IN job' = [job EXCEPT ![a] =
                     IF done.ok THEN [next EXCEPT !.rows = @ \o done.out]
                                ELSE [next EXCEPT !.failures = @ \cup {source}]]
  BY DEF ProcessSource
<1> DEFINE done == ChunkAndEmbed(page, j.cache, failures)
           next == [j EXCEPT !.todo = Tail(@), !.cache = done.cache]
           ok == [next EXCEPT !.rows = @ \o done.out]
           failed == [next EXCEPT !.failures = @ \cup {source}]
<1>4. j.cache \in Caches /\ j.rows \in Seq(Embedded)
  BY <1>1 DEF JobType
<1>5. done.cache \in Caches /\ done.out \in Seq(Embedded)
  BY <1>2, <1>4, ChunkAndEmbedType
<1>6. job'[a] \in {ok, failed} /\ job' = [b \in Actors |-> job'[b]]
      /\ \A b \in Actors \ {a} : job'[b] = job[b]
  <2>1. job' = [job EXCEPT ![a] = IF done.ok THEN ok ELSE failed]
    BY <1>3
  <2> HIDE DEF ok, failed
  <2>2. QED
    BY <2>1, JobUpdate DEF PushInv
<1> HIDE DEF done
<1>7. next \in JobType /\ next.pc = "sources" /\ next.rows = j.rows /\ next.offset = j.offset
      /\ next.code = j.code /\ next.run = j.run
  BY <1>1, <1>2, <1>5 DEF JobType
<1> HIDE DEF next
<1>8. /\ j.rows \o done.out \in Seq(Embedded)
      /\ Len(j.rows \o done.out) = Len(j.rows) + Len(done.out)
      /\ Len(j.rows) \in Nat /\ Len(done.out) \in Nat
  BY <1>4, <1>5, ConcatProperties, LenProperties
<1>9. /\ ok \in JobType /\ ok.pc = "sources" /\ ok.offset = j.offset /\ ok.code = j.code
      /\ ok.run = j.run /\ ok.rows = j.rows \o done.out
      /\ failed \in JobType /\ failed.pc = "sources" /\ failed.offset = j.offset
      /\ failed.code = j.code /\ failed.run = j.run /\ failed.rows = j.rows
  BY <1>2, <1>7, <1>8 DEF JobType
<1> HIDE DEF ok, failed
<1> DEFINE Grown(k) ==
      /\ k.pc = "sources" /\ k.offset = j.offset /\ k.code = j.code
      /\ k.run = j.run /\ k \in JobType
      /\ Len(k.rows) \in Nat /\ Len(k.rows) >= Len(j.rows)
<1>10. Grown(ok)
  <2>1. Len(ok.rows) = Len(j.rows) + Len(done.out)
    BY <1>8, <1>9
  <2>2. Len(ok.rows) \in Nat /\ Len(ok.rows) >= Len(j.rows)
    <3>1. \A m, n \in Nat : m + n \in Nat /\ m + n >= m
      OBVIOUS
    <3>2. QED
      BY <1>8, <2>1, <3>1
  <2>3. QED
    BY <1>9, <2>2
<1>11. Grown(failed)
  BY <1>8, <1>9
<1>12. Grown(job'[a])
  <2> HIDE DEF Grown
  <2>1. QED
    BY <1>6, <1>10, <1>11
<1>13. /\ job'[a].pc = "sources" /\ job'[a].offset = j.offset /\ job'[a].code = j.code
       /\ job'[a].run = j.run /\ job'[a] \in JobType
       /\ Len(job'[a].rows) \in Nat /\ Len(job'[a].rows) >= Len(j.rows)
  BY <1>12
<1>14. j.offset = 0 /\ j.code = 1
  BY <1>1 DEF Progress
<1>15. UNCHANGED <<collection, report, runs>>
  BY DEF ProcessSource
<1>16. Progress(job'[a])
  BY <1>13, <1>14, PushAssumption DEF Progress
<1>17. ActorInv(a)'
  BY <1>1, <1>13, <1>14, <1>15, <1>16 DEF ActorInv, Pushed, Reported, Clocked
<1>18. CollectionInv'
  BY <1>15 DEF PushInv, CollectionInv, Stored
<1>19. QED
  BY <1>6, <1>13, <1>15, <1>17, <1>18 DEF Framed, PushInv

LEMMA ExitType ==
  ASSUME NEW j \in JobType, NEW code \in {0, 1}
  PROVE  /\ Exit(j, code) \in JobType /\ Exit(j, code).pc = "exited" /\ Exit(j, code).code = code
         /\ Exit(j, code).rows = j.rows /\ Exit(j, code).offset = j.offset
         /\ Exit(j, code).run = j.run /\ Exit(j, code).todo = j.todo
         /\ Exit(j, code).failures = j.failures
BY DEF JobType, Exit

\* A process that ends with an error promises nothing.
LEMMA ExitOne ==
  ASSUME NEW a \in Actors, ActorInv(a), job[a].pc # "idle", NEW rep, rep.run \in 0..runs
  PROVE  LET j == Exit(job[a], 1)
         IN /\ j \in JobType /\ Progress(j) /\ Pushed(j, DOMAIN collection)
            /\ Reported(j, rep) /\ Clocked(j, rep, runs) /\ j.pc # "idle"
<1>1. job[a] \in JobType
  BY DEF ActorInv
<1>2. QED
  BY <1>1, ExitType DEF ActorInv, Progress, Pushed, Reported, Clocked

LEMMA SourcesDoneStep ==
  ASSUME PushInv, NEW a \in Actors, SourcesDone(a)
  PROVE  Framed(a) /\ job'[a].pc # "idle"
<1>1. ActorInv(a) /\ job[a].pc = "sources" /\ job[a].todo = <<>> /\ job[a] \in JobType
  BY DEF PushInv, ActorInv, SourcesDone
<1>2. UNCHANGED <<collection, runs>> /\ CollectionInv'
  BY DEF SourcesDone, PushInv, CollectionInv, Stored
<1>3. CASE job[a].rows = <<>>
  <2> DEFINE rep == [run |-> job[a].run, status |-> "aborted", pushed |-> 0, total |-> 0]
             j == Exit(job[a], 1)
  <2>1. report' = [report EXCEPT ![a] = rep] /\ job' = [job EXCEPT ![a] = j]
    BY <1>3 DEF SourcesDone
  <2>2. rep.run \in 0..runs
    BY <1>1 DEF ActorInv, Clocked
  <2> HIDE DEF rep, j
  <2>3. /\ job'[a] = j /\ job' = [b \in Actors |-> job'[b]]
        /\ report'[a] = rep /\ report' = [b \in Actors |-> report'[b]]
        /\ \A b \in Actors \ {a} : job'[b] = job[b] /\ report'[b] = report[b]
    BY <2>1, JobUpdate, ReportUpdate DEF PushInv
  <2>4. /\ j \in JobType /\ Progress(j) /\ Pushed(j, DOMAIN collection)
        /\ Reported(j, rep) /\ Clocked(j, rep, runs) /\ j.pc # "idle"
    BY <1>1, <2>2, ExitOne DEF j
  <2>5. ActorInv(a)'
    BY <1>2, <2>3, <2>4 DEF ActorInv
  <2>6. QED
    BY <1>2, <2>3, <2>4, <2>5 DEF Framed
<1>4. CASE job[a].rows # <<>>
  <2> DEFINE j == [job[a] EXCEPT !.pc = "push"]
  <2>1. report' = report /\ job' = [job EXCEPT ![a] = j]
    BY <1>4 DEF SourcesDone
  <2>2. /\ j \in JobType /\ j.pc = "push" /\ j.rows = job[a].rows /\ j.offset = job[a].offset
        /\ j.todo = <<>> /\ j.code = job[a].code /\ j.run = job[a].run
    BY <1>1 DEF JobType
  <2> HIDE DEF j
  <2>3. /\ job'[a] = j /\ job' = [b \in Actors |-> job'[b]]
        /\ \A b \in Actors \ {a} : job'[b] = job[b]
    BY <2>1, JobUpdate DEF PushInv
  <2>4. ActorInv(a)'
    BY <1>1, <1>2, <2>1, <2>2, <2>3 DEF ActorInv, Progress, Pushed, Reported, Clocked
  <2>5. QED
    BY <1>2, <2>1, <2>2, <2>3, <2>4 DEF Framed, PushInv
<1>5. QED
  BY <1>3, <1>4

\* The process ends with 1 and neither the collection nor the reports change.
LEMMA ExitOneStep ==
  ASSUME PushInv, NEW a \in Actors, job[a].pc # "idle",
         job' = [job EXCEPT ![a] = Exit(job[a], 1)], UNCHANGED <<collection, report, runs>>
  PROVE  Framed(a) /\ job'[a].pc # "idle"
<1> DEFINE j == Exit(job[a], 1)
<1>1. ActorInv(a) /\ report[a].run \in 0..runs
  BY DEF PushInv, ActorInv, Clocked
<1>2. /\ j \in JobType /\ Progress(j) /\ Pushed(j, DOMAIN collection)
      /\ Reported(j, report[a]) /\ Clocked(j, report[a], runs) /\ j.pc # "idle"
  BY <1>1, ExitOne
<1> HIDE DEF j
<1>3. /\ job'[a] = j /\ job' = [b \in Actors |-> job'[b]]
      /\ \A b \in Actors \ {a} : job'[b] = job[b]
  BY JobUpdate DEF PushInv, j
<1>4. ActorInv(a)' /\ CollectionInv'
  BY <1>2, <1>3 DEF ActorInv, PushInv, CollectionInv, Stored
<1>5. QED
  BY <1>2, <1>3, <1>4 DEF Framed, PushInv

LEMMA PushFailsStep ==
  ASSUME PushInv, NEW a \in Actors, PushFails(a)
  PROVE  Framed(a) /\ job'[a].pc # "idle"
BY ExitOneStep DEF PushFails

LEMMA PushBatchStep ==
  ASSUME PushInv, NEW a \in Actors, PushBatch(a)
  PROVE  Framed(a) /\ job'[a].pc # "idle"
<1> DEFINE j == job[a]
           end == Min({j.offset + BatchSize, Len(j.rows)})
           batch == SubSeq(j.rows, j.offset + 1, end)
           k == [j EXCEPT !.offset = @ + BatchSize]
<1>1. /\ ActorInv(a) /\ j.pc = "push" /\ j.offset < Len(j.rows) /\ j \in JobType
      /\ UNCHANGED <<report, runs>>
  BY DEF PushInv, ActorInv, PushBatch, BatchesLeft
<1>2. j.offset \in Nat /\ Len(j.rows) \in Nat /\ BatchSize \in Nat \ {0}
      /\ j.rows \in Seq(Embedded) /\ j.run \in 1..runs /\ runs \in Nat
  BY <1>1, LenProperties, PushAssumption DEF JobType, ActorInv, Clocked, PushInv
<1>3. /\ end \in Nat /\ j.offset < end /\ end <= Len(j.rows)
      /\ end = Len(j.rows) \/ end = j.offset + BatchSize
  <2>1. end = IF j.offset + BatchSize <= Len(j.rows) THEN j.offset + BatchSize ELSE Len(j.rows)
    <3>1. j.offset + BatchSize \in Int /\ Len(j.rows) \in Int
      BY <1>2
    <3>2. QED
      BY <3>1, MinOfTwo
  <2> HIDE DEF end
  <2>2. QED
    BY <1>1, <1>2, <2>1
<1>4. /\ batch \in Seq(Embedded) /\ Len(batch) = end - j.offset
      /\ \A i \in 1..(end - j.offset) : batch[i] = j.rows[j.offset + i]
  <2> DEFINE first == j.offset + 1
  <2>1. \A i \in first..end : j.rows[i] \in Embedded
    BY <1>2, <1>3, ElementOfSeq
  <2>2. first \in Int /\ end \in Int /\ first <= end /\ end - first + 1 = end - j.offset
    BY <1>2, <1>3
  <2>3. \A i \in 1..(end - j.offset) : first + i - 1 = j.offset + i
    BY <1>2, <1>3
  <2>4. /\ SubSeq(j.rows, first, end) \in Seq(Embedded)
        /\ Len(SubSeq(j.rows, first, end)) = IF first <= end THEN end - first + 1 ELSE 0
        /\ \A i \in 1..(end - first + 1) : SubSeq(j.rows, first, end)[i] = j.rows[first + i - 1]
    <3> HIDE DEF end, first
    <3>1. QED
      BY <2>1, <2>2, SubSeqProperties
  <2>5. batch = SubSeq(j.rows, first, end)
    OBVIOUS
  <2> HIDE DEF batch, end, first
  <2>6. QED
    BY <2>2, <2>3, <2>4, <2>5
<1>5. CASE DuplicateIds(batch)
  <2>1. job' = [job EXCEPT ![a] = Exit(job[a], 1)] /\ UNCHANGED collection
    BY <1>5 DEF PushBatch
  <2>2. QED
    BY <1>1, <2>1, ExitOneStep
<1>6. CASE ~DuplicateIds(batch)
  <2>1. collection' = Upsert(collection, batch, j.run) /\ job' = [job EXCEPT ![a] = k]
    BY <1>6 DEF PushBatch
  <2>2. /\ k \in JobType /\ k.pc = "push" /\ k.offset = j.offset + BatchSize
        /\ k.rows = j.rows /\ k.todo = j.todo /\ k.code = j.code /\ k.run = j.run
    BY <1>1, <1>2 DEF JobType
  <2> HIDE DEF k, batch, end
  <2>3. CollectionInv
    BY DEF PushInv
  <2>4. DOMAIN collection' = {batch[i].id : i \in 1..Len(batch)} \cup DOMAIN collection
    BY <1>2, <1>4, <2>1, <2>3, UpsertType
  <2>5. \A id \in DOMAIN collection' : collection'[id] \in Stored
    BY <1>2, <1>4, <2>1, <2>3, UpsertType
  <2>6. CollectionInv'
    BY <1>1, <2>5 DEF CollectionInv, Stored
  <2>7. /\ job'[a] = k /\ job' = [b \in Actors |-> job'[b]]
        /\ \A b \in Actors \ {a} : job'[b] = job[b]
    BY <2>1, JobUpdate DEF PushInv
  <2>8. Pushed(k, DOMAIN collection')
    <3>1. SUFFICES ASSUME NEW i \in 1..Len(j.rows), i <= j.offset + BatchSize
                   PROVE  j.rows[i].id \in DOMAIN collection'
      BY <2>2 DEF Pushed
    <3>2. CASE i <= j.offset
      BY <1>1, <2>4, <3>2 DEF ActorInv, Pushed
    <3>3. CASE i > j.offset
      <4>1. i - j.offset \in 1..(end - j.offset) /\ j.offset + (i - j.offset) = i
        BY <1>2, <1>3, <3>1, <3>3
      <4>2. batch[i - j.offset] = j.rows[i]
        BY <1>4, <4>1
      <4>3. QED
        BY <1>4, <2>4, <4>1, <4>2
    <3>4. QED
      BY <1>2, <3>2, <3>3
  <2>9. Progress(k)
    BY <1>1, <1>2, <2>2 DEF ActorInv, Progress
  <2>10. ActorInv(a)'
    BY <1>1, <2>2, <2>7, <2>8, <2>9 DEF ActorInv, Reported, Clocked
  <2>11. QED
    BY <1>1, <2>2, <2>4, <2>6, <2>7, <2>10 DEF Framed, PushInv
<1>7. QED
  BY <1>5, <1>6

LEMMA WriteReportStep ==
  ASSUME PushInv, NEW a \in Actors, WriteReport(a)
  PROVE  Framed(a) /\ job'[a].pc # "idle"
<1> DEFINE rep == [run |-> job[a].run,
                   status |-> IF job[a].failures = {} THEN "ok" ELSE "partial",
                   pushed |-> Len(job[a].rows), total |-> Count(collection, job[a].run)]
           code == IF job[a].failures = {} THEN 0 ELSE 1
           j == Exit(job[a], code)
<1>1. /\ ActorInv(a) /\ job[a].pc = "push" /\ ~(job[a].offset < Len(job[a].rows))
      /\ job[a] \in JobType /\ job[a].todo = <<>>
      /\ report' = [report EXCEPT ![a] = rep] /\ job' = [job EXCEPT ![a] = j]
      /\ UNCHANGED <<collection, runs>>
  BY DEF PushInv, ActorInv, Progress, WriteReport, BatchesLeft
<1>2. rep.run = job[a].run /\ rep.pushed = Len(job[a].rows)
  OBVIOUS
<1>3. code \in {0, 1} /\ (code = 0 => job[a].failures = {})
  OBVIOUS
<1> HIDE DEF rep, code
<1>4. /\ j \in JobType /\ j.pc = "exited" /\ j.code = code
      /\ j.rows = job[a].rows /\ j.offset = job[a].offset
      /\ j.run = job[a].run /\ j.todo = job[a].todo
      /\ j.failures = job[a].failures
  BY <1>1, <1>3, ExitType
<1> HIDE DEF j
<1>5. /\ job'[a] = j /\ job' = [b \in Actors |-> job'[b]]
      /\ report'[a] = rep /\ report' = [b \in Actors |-> report'[b]]
      /\ \A b \in Actors \ {a} : job'[b] = job[b] /\ report'[b] = report[b]
  BY <1>1, JobUpdate, ReportUpdate DEF PushInv
<1>6. job[a].offset \in Nat /\ Len(job[a].rows) \in Nat
  BY <1>1, LenProperties DEF JobType
<1>7. Progress(j)
  BY <1>1, <1>3, <1>4, <1>6 DEF ActorInv, Progress
<1>8. ActorInv(a)'
  BY <1>1, <1>2, <1>4, <1>5, <1>7 DEF ActorInv, Pushed, Reported, Clocked
<1>9. CollectionInv'
  BY <1>1 DEF PushInv, CollectionInv, Stored
<1>10. QED
  BY <1>1, <1>4, <1>5, <1>8, <1>9 DEF Framed

-----------------------------------------------------------------------------
(* Every step *)

LEMMA Compose ==
  ASSUME PushInv, NEW a \in Actors, Framed(a), runs' \in runs..MaxRuns, WorkflowInv'
  PROVE  PushInv'
<1>1. runs \in 0..MaxRuns /\ MaxRuns \in Nat
  BY PushAssumption DEF PushInv
<1>2. runs' \in 0..MaxRuns /\ runs' \in Nat /\ runs \in Nat /\ runs <= runs'
  BY <1>1
<1>3. ASSUME NEW b \in Actors
      PROVE  ActorInv(b)'
  <2>1. CASE b = a
    BY <2>1 DEF Framed
  <2>2. CASE b # a
    BY <1>2, <2>2, OtherActor DEF Framed, PushInv
  <2>3. QED
    BY <2>1, <2>2
<1>4. QED
  BY <1>2, <1>3 DEF PushInv, Framed

LEMMA RunStepInv ==
  ASSUME PushInv, NEW a \in Actors, RunStep(a)
  PROVE  PushInv'
<1>1. Framed(a) /\ job'[a].pc # "idle"
  BY ProcessSourceStep, SourcesDoneStep, PushBatchStep, PushFailsStep, WriteReportStep DEF RunStep
<1>2. /\ job[a].pc # "idle" /\ UNCHANGED <<runs, active, pending, last, retries>>
  BY DEF RunStep, ProcessSource, SourcesDone, PushBatch, PushFails, WriteReport, ci
<1>3. (job'["ci"].pc = "idle") <=> (job["ci"].pc = "idle")
  <2>1. CASE a = "ci"
    BY <1>1, <1>2, <2>1
  <2>2. CASE a # "ci"
    BY <1>1, <2>2 DEF Framed, Actors
  <2>3. QED
    BY <2>1, <2>2
<1>4. WorkflowInv'
  BY <1>2, <1>3 DEF PushInv, WorkflowInv
<1>5. runs' \in runs..MaxRuns
  BY <1>2, PushAssumption DEF PushInv
<1>6. QED
  BY <1>1, <1>4, <1>5, Compose

LEMMA NoRunType == NoRun \in RunType
BY DEF NoRun, RunType

\* A process starts, with its own report or, in CI, with the committed one.
LEMMA StartJobStep ==
  ASSUME PushInv, NEW a \in Actors, StartJob(a), UNCHANGED collection,
         NEW rep, rep.run \in 0..runs, report' = [report EXCEPT ![a] = rep]
  PROVE  /\ Framed(a) /\ job'[a].pc # "idle"
         /\ runs' \in runs..MaxRuns
<1> DEFINE j == [Idle EXCEPT !.pc = "sources", !.run = runs + 1, !.todo = Sources]
<1>1. /\ runs < MaxRuns /\ runs' = runs + 1 /\ job' = [job EXCEPT ![a] = j]
      /\ runs \in Nat /\ MaxRuns \in Nat
  BY PushAssumption DEF StartJob, PushInv
<1>2. Idle \in JobType /\ Progress(Idle) /\ Idle.rows = <<>> /\ Idle.offset = 0 /\ Idle.code = 1
  BY <1>1, IdleType DEF Idle
<1>3. Sources \in Seq(ToSet(Sources))
  <2>1. Sources \in Seq(DOMAIN Pages)
    BY PushAssumption
  <2>2. /\ DOMAIN Sources = 1..Len(Sources) /\ Len(Sources) \in Nat
        /\ \A i \in DOMAIN Sources : Sources[i] \in ToSet(Sources)
        /\ Sources = [i \in DOMAIN Sources |-> Sources[i]]
    BY <2>1, LenProperties DEF ToSet
  <2>3. Sources \in [1..Len(Sources) -> ToSet(Sources)]
    BY <2>2
  <2>4. QED
    BY <2>2, <2>3, SeqDef
<1>4. /\ j \in JobType /\ j.pc = "sources" /\ j.rows = <<>> /\ j.offset = 0
      /\ j.code = 1 /\ j.run = runs + 1
  <2>1. runs + 1 \in Nat
    BY <1>1
  <2>2. j \in JobType
    BY <1>2, <1>3, <2>1 DEF JobType
  <2>3. DOMAIN Idle = {"pc", "run", "todo", "failures", "cache", "rows", "offset", "code"}
    BY DEF Idle
  <2>4. QED
    BY <1>2, <2>2, <2>3
<1> HIDE DEF j
<1>5. /\ job'[a] = j /\ job' = [b \in Actors |-> job'[b]]
      /\ report'[a] = rep /\ report' = [b \in Actors |-> report'[b]]
      /\ \A b \in Actors \ {a} : job'[b] = job[b] /\ report'[b] = report[b]
  BY <1>1, JobUpdate, ReportUpdate DEF PushInv
<1>6. Len(j.rows) = 0 /\ BatchSize \in Nat \ {0}
  BY <1>4, EmptySeq, PushAssumption
<1>7. ActorInv(a)'
  BY <1>1, <1>4, <1>5, <1>6 DEF ActorInv, Progress, Pushed, Reported, Clocked
<1>8. ASSUME NEW id \in DOMAIN collection
      PROVE  collection[id] \in Stored'
  <2>1. collection[id] \in Stored
    BY DEF PushInv, CollectionInv
  <2>2. 1..runs \subseteq 1..runs'
    BY <1>1
  <2>3. QED
    BY <2>1, <2>2 DEF Stored
<1>9. CollectionInv'
  BY <1>8 DEF CollectionInv
<1>10. runs' \in runs..MaxRuns
  BY <1>1
<1>11. QED
  BY <1>4, <1>5, <1>7, <1>9, <1>10 DEF Framed

\* A process is gone.
LEMMA EndJobStep ==
  ASSUME PushInv, NEW a \in Actors, job' = [job EXCEPT ![a] = Idle],
         UNCHANGED <<collection, report, runs>>
  PROVE  Framed(a) /\ runs' \in runs..MaxRuns
<1>1. runs \in Nat /\ MaxRuns \in Nat /\ runs <= MaxRuns /\ report[a].run \in 0..runs
  BY PushAssumption DEF PushInv, ActorInv, Clocked
<1>2. /\ Idle \in JobType /\ Progress(Idle) /\ Pushed(Idle, DOMAIN collection)
      /\ Reported(Idle, report[a]) /\ Clocked(Idle, report[a], runs)
  BY <1>1, IdleType
<1>3. /\ job'[a] = Idle /\ job' = [b \in Actors |-> job'[b]]
      /\ \A b \in Actors \ {a} : job'[b] = job[b]
  BY JobUpdate DEF PushInv
<1>4. ActorInv(a)' /\ CollectionInv'
  BY <1>2, <1>3 DEF ActorInv, PushInv, CollectionInv, Stored
<1>5. QED
  BY <1>1, <1>3, <1>4 DEF Framed, PushInv

LEMMA LocalStep ==
  ASSUME PushInv, LocalStart \/ LocalFinish \/ LocalKill
  PROVE  PushInv'
<1>1. "local" \in Actors /\ "ci" # "local" /\ "ci" \in Actors
  BY DEF Actors
<1>2. UNCHANGED <<active, pending, last, retries, collection>>
  BY DEF LocalStart, LocalFinish, LocalKill, ci
<1>3. Framed("local") /\ runs' \in runs..MaxRuns
  <2>1. CASE LocalStart
    <3>1. report["local"].run \in 0..runs
      BY <1>1 DEF PushInv, ActorInv, Clocked
    <3>2. report' = [report EXCEPT !["local"] = report["local"]]
      BY <2>1 DEF LocalStart, PushInv
    <3>3. QED
      BY <1>1, <1>2, <2>1, <3>1, <3>2, StartJobStep DEF LocalStart
  <2>2. CASE LocalFinish
    BY <1>1, <2>2, EndJobStep DEF LocalFinish
  <2>3. CASE LocalKill
    BY <1>1, <2>3, EndJobStep DEF LocalKill
  <2>4. QED
    BY <2>1, <2>2, <2>3
<1>4. job'["ci"] = job["ci"]
  BY <1>1, <1>3 DEF Framed
<1>5. WorkflowInv'
  BY <1>2, <1>4 DEF PushInv, WorkflowInv
<1>6. QED
  BY <1>1, <1>3, <1>5, Compose

LEMMA QueueStep ==
  ASSUME PushInv, Schedule \/ DispatchIngest \/ Rerun \/ RetryDispatch
  PROVE  PushInv'
<1>1. UNCHANGED <<collection, job, report, runs, active, last>>
  BY DEF Schedule, DispatchIngest, Rerun, RetryDispatch
<1>2. pending' \in RunType /\ retries' \in Seq({0, 1})
  <2>1. CASE Schedule \/ DispatchIngest
    BY <2>1 DEF Schedule, DispatchIngest, Trigger, RunType, PushInv, WorkflowInv
  <2>2. CASE Rerun
    <3>1. last.run \in RunType /\ retries' = retries
      BY <2>2 DEF Rerun, PushInv, WorkflowInv
    <3>2. pending' = [last.run EXCEPT !.attempt = @ + 1]
      BY <2>2 DEF Rerun, Trigger
    <3>3. QED
      BY <3>1, <3>2 DEF RunType, PushInv, WorkflowInv
  <2>3. CASE RetryDispatch
    <3>1. retries # <<>> /\ retries \in Seq({0, 1}) /\ retries' = Tail(retries)
      BY <2>3 DEF RetryDispatch, PushInv, WorkflowInv
    <3>2. Head(retries) \in {0, 1} /\ retries' \in Seq({0, 1})
      BY <3>1, HeadTailProperties
    <3>3. \/ pending' = [event |-> "workflow_dispatch", attempt |-> 1, depth |-> Head(retries)]
          \/ pending' = pending
      BY <2>3 DEF RetryDispatch, Trigger
    <3>4. QED
      BY <3>2, <3>3 DEF RunType, PushInv, WorkflowInv
  <2>4. QED
    BY <2>1, <2>2, <2>3
<1>3. WorkflowInv'
  BY <1>1, <1>2 DEF WorkflowInv, PushInv
<1>4. QED
  BY <1>1, <1>3 DEF PushInv, ActorInv, CollectionInv, Stored

LEMMA TakeRunStep ==
  ASSUME PushInv, TakeRun
  PROVE  PushInv'
<1>1. "ci" \in Actors /\ runs \in Nat
  BY DEF Actors, PushInv
<1>2. CommittedReport.run \in 0..runs
  BY <1>1 DEF CommittedReport
<1>3. Framed("ci") /\ job'["ci"].pc # "idle" /\ runs' \in runs..MaxRuns
  BY <1>1, <1>2, StartJobStep DEF TakeRun
<1>4. WorkflowInv'
  BY <1>3, NoRunType DEF TakeRun, PushInv, WorkflowInv
<1>5. QED
  BY <1>1, <1>3, <1>4, Compose

\* Only a scheduled run is retried, and it was not dispatched by a retry itself.
LEMMA CompleteStep ==
  ASSUME PushInv, NEW conclusion, Complete(conclusion)
  PROVE  PushInv'
<1>1. "ci" \in Actors /\ active \in RunType /\ retries \in Seq({0, 1})
  BY DEF Actors, PushInv, WorkflowInv
<1>2. Framed("ci") /\ runs' \in runs..MaxRuns
  BY <1>1, EndJobStep DEF Complete
<1>3. job'["ci"].pc = "idle"
  BY <1>1, JobUpdate DEF Complete, PushInv, Idle
<1>4. retries' \in Seq({0, 1})
  <2>1. CASE RetryRuns(active, conclusion)
    <3>1. active.event = "schedule" /\ active.depth = 0
      BY <1>1, <2>1 DEF RetryRuns, RunType
    <3>2. retries' = Append(retries, 1)
      BY <2>1, <3>1 DEF Complete
    <3>3. QED
      BY <1>1, <3>2, AppendProperties
  <2>2. CASE ~RetryRuns(active, conclusion)
    BY <1>1, <2>2 DEF Complete
  <2>3. QED
    BY <2>1, <2>2
<1>5. WorkflowInv'
  BY <1>1, <1>3, <1>4, NoRunType DEF Complete, PushInv, WorkflowInv
<1>6. QED
  BY <1>1, <1>2, <1>5, Compose

LEMMA PushInvStep ==
  ASSUME PushInv, [Next]_vars
  PROVE  PushInv'
<1>1. CASE \E a \in Actors : RunStep(a)
  BY <1>1, RunStepInv
<1>2. CASE LocalStart \/ LocalFinish \/ LocalKill
  BY <1>2, LocalStep
<1>3. CASE Schedule \/ DispatchIngest \/ Rerun \/ RetryDispatch
  BY <1>3, QueueStep
<1>4. CASE TakeRun
  BY <1>4, TakeRunStep
<1>5. CASE CiFinish \/ CiCancelled
  BY <1>5, CompleteStep DEF CiFinish, CiCancelled
<1>6. CASE UNCHANGED vars
  BY <1>6 DEF vars, PushInv, ActorInv, CollectionInv, Stored, WorkflowInv
<1>7. QED
  BY <1>1, <1>2, <1>3, <1>4, <1>5, <1>6 DEF Next

LEMMA PushInvInit ==
  ASSUME Init
  PROVE  PushInv
<1>1. /\ runs = 0 /\ job = [a \in Actors |-> Idle] /\ report = [a \in Actors |-> CommittedReport]
      /\ CommittedReport.run = 0 /\ MaxRuns \in Nat
  BY PushAssumption DEF Init, CommittedReport
<1>2. \A a \in Actors : ActorInv(a)
  BY <1>1, IdleType DEF ActorInv
<1>3. CollectionInv
  BY DEF Init, CollectionInv
<1>4. WorkflowInv
  BY NoRunType, EmptySeq DEF Init, WorkflowInv, Actors, Idle
<1>5. QED
  BY <1>1, <1>2, <1>3, <1>4 DEF PushInv

-----------------------------------------------------------------------------
(* The properties *)

LEMMA PushInvAlways == Spec => []PushInv
<1>1. Init => PushInv
  BY PushInvInit
<1>2. PushInv /\ [Next]_vars => PushInv'
  BY PushInvStep
<1>3. QED
  BY <1>1, <1>2, PTL DEF Spec

\* Every reachable state of the collection, the processes and the workflows is well
\* typed: what the collection holds is a text of a page of a registered source and
\* names a run that was started, and a workflow run is in progress exactly as long
\* as its process exists.
THEOREM PushTypeCorrect == Spec => []TypeOK
<1>1. PushInv => TypeOK
  <2> SUFFICES ASSUME PushInv
               PROVE  TypeOK
    OBVIOUS
  <2>1. ASSUME NEW id \in DOMAIN collection
        PROVE  /\ collection[id].run \in 1..runs
               /\ \E s \in ToSet(Sources) : collection[id].text \in PageTexts(s)
    BY DEF PushInv, CollectionInv, Stored, Shown
  <2>2. ASSUME NEW a \in Actors
        PROVE  /\ job[a].pc \in {"idle", "sources", "push", "exited"}
               /\ job[a].run \in 0..runs /\ report[a].run \in 0..runs
               /\ job[a].offset \in 0..(Len(job[a].rows) + BatchSize - 1)
    BY DEF PushInv, ActorInv, JobType, Clocked, Progress
  <2>3. QED
    BY <2>1, <2>2 DEF PushInv, WorkflowInv, TypeOK
<1>2. QED
  BY <1>1, PushInvAlways, PTL

\* Exit code 0 of run.py (run.py:343-372) means that no source failed or was left out
\* and that every chunk of the run is in the collection, whatever the batch size,
\* the caches and the other machine do.
THEOREM ExitZeroServedCorrect == Spec => []ExitZeroServed
<1>1. PushInv => ExitZeroServed
  <2>1. SUFFICES ASSUME PushInv, NEW a \in Actors, job[a].pc = "exited", job[a].code = 0
                 PROVE  /\ job[a].failures = {} /\ job[a].todo = <<>>
                        /\ \A i \in DOMAIN job[a].rows : job[a].rows[i].id \in DOMAIN collection
    BY DEF ExitZeroServed
  <2>2. ActorInv(a) /\ job[a] \in JobType
    BY <2>1 DEF PushInv, ActorInv
  <2>3. DOMAIN job[a].rows = 1..Len(job[a].rows) /\ Len(job[a].rows) \in Nat
        /\ job[a].offset \in Nat
    BY <2>2, LenProperties DEF JobType
  <2>4. job[a].failures = {} /\ job[a].todo = <<>> /\ job[a].offset >= Len(job[a].rows)
    BY <2>1, <2>2 DEF ActorInv, Progress
  <2>5. QED
    BY <2>2, <2>3, <2>4 DEF ActorInv, Pushed
<1>2. QED
  BY <1>1, PushInvAlways, PTL

\* A vector in the collection was computed from the text beside it, up to the case of
\* its letters, through whatever batches, cache hits and runs it came
\* (embedder.py:91-143): for every normalisation of texts.
THEOREM VectorMatchesTextCorrect == Spec => []VectorMatchesText
<1>1. ASSUME PushInv PROVE VectorMatchesText
  <2>1. SUFFICES ASSUME NEW id \in DOMAIN collection
                 PROVE  \E s \in ToSet(Sources) : \E t \in PageTexts(s) :
                          /\ collection[id].vector = EmbedText(t)
                          /\ NormalizeForHash(t) = NormalizeForHash(collection[id].text)
    BY DEF VectorMatchesText
  <2>2. Matches(collection[id].vector, NormalizeForHash(collection[id].text))
    BY <1>1 DEF PushInv, CollectionInv, Stored
  <2>3. PICK t \in Shown : /\ collection[id].vector = EmbedText(t)
                          /\ NormalizeForHash(t) = NormalizeForHash(collection[id].text)
    BY <2>2 DEF Matches
  <2>4. PICK s \in ToSet(Sources) : t \in PageTexts(s)
    BY DEF Shown
  <2>5. QED
    BY <2>3, <2>4
<1>2. QED
  BY <1>1, PushInvAlways, PTL

\* A retry is never retried (retry-failed-ingest.yml:14-16): in progress, waiting or
\* about to be dispatched, every run is at most one re-dispatch away from its cause.
THEOREM RetriesDoNotChainCorrect == Spec => []RetriesDoNotChain
<1>1. PushInv => RetriesDoNotChain
  <2> SUFFICES ASSUME PushInv
               PROVE  RetriesDoNotChain
    OBVIOUS
  <2>1. ASSUME NEW i \in DOMAIN retries
        PROVE  retries[i] <= 1
    BY ElementOfSeq, LenProperties DEF PushInv, WorkflowInv
  <2>2. active.depth <= 1 /\ pending.depth <= 1
    BY DEF PushInv, WorkflowInv, RunType
  <2>3. QED
    BY <2>1, <2>2 DEF RetriesDoNotChain
<1>2. QED
  BY <1>1, PushInvAlways, PTL

\* What must hold when run_local.py says that the run passed.
PassedStep ==
  job["local"].pc = "exited" /\ job'["local"].pc = "idle" /\ localOk' = "passed"
  => /\ report["local"].run = job["local"].run
     /\ report["local"].pushed = Len(job["local"].rows)
     /\ job["local"].offset >= Len(job["local"].rows)

LEMMA PassedStepHolds ==
  ASSUME PushInv, Next
  PROVE  PassedStep
<1>1. SUFFICES ASSUME job["local"].pc = "exited", job'["local"].pc = "idle", localOk' = "passed"
               PROVE  job["local"].code = 0
  BY DEF PushInv, ActorInv, Progress, Reported, PassedStep, Actors
<1>2. CASE LocalFinish
  BY <1>1, <1>2 DEF LocalFinish, LocalOk
<1>3. CASE LocalStart \/ LocalKill
  BY <1>1, <1>3 DEF LocalStart, LocalKill
<1>4. CASE \E a \in Actors : RunStep(a)
  <2>1. PICK a \in Actors : RunStep(a)
    BY <1>4
  <2>2. Framed(a) /\ job'[a].pc # "idle"
    BY <2>1, ProcessSourceStep, SourcesDoneStep, PushBatchStep, PushFailsStep, WriteReportStep
       DEF RunStep
  <2>3. QED
    BY <1>1, <2>2 DEF Framed, Actors
<1>5. CASE TakeRun
  <2>1. job'["local"] = job["local"]
    BY <1>5 DEF TakeRun, StartJob, PushInv, Actors
  <2>2. QED
    BY <1>1, <2>1
<1>6. CASE CiFinish \/ CiCancelled
  <2>1. job'["local"] = job["local"]
    BY <1>6 DEF CiFinish, CiCancelled, Complete, PushInv, Actors
  <2>2. QED
    BY <1>1, <2>1
<1>7. CASE Schedule \/ DispatchIngest \/ Rerun \/ RetryDispatch
  BY <1>1, <1>7 DEF Schedule, DispatchIngest, Rerun, RetryDispatch
<1>8. QED
  BY <1>2, <1>3, <1>4, <1>5, <1>6, <1>7 DEF Next

\* run_local.py (lines 109-235) passes only when this very run has written the report
\* and pushed every batch: a report left by an earlier run never passes for it.
THEOREM LocalPassMeansPushedCorrect == Spec => LocalPassMeansPushed
<1>1. PushInv /\ [Next]_vars => [PassedStep]_vars
  BY PassedStepHolds
<1>2. QED
  BY <1>1, PushInvAlways, PTL DEF Spec, LocalPassMeansPushed, PassedStep
=============================================================================
