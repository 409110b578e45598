------------------------------ MODULE Embedder ------------------------------
(***************************************************************************)
(* Hashing and embedding the chunks of a document, as operators.  A chunk  *)
(* is [id, text], a vector is known by the text it was computed from, and  *)
(* a cache maps hashes to vectors.                                         *)
(***************************************************************************)
EXTENDS Integers, SequencesExt

CONSTANTS
  Display,         \* the text after NFKC, currency, percent and blank rules
  Lower,           \* and that in lower case
  EmbedBatchSize,  \* batch_size
  MaxAttempts,     \* max_attempts
  HardCap          \* hard_cap

NormalizeForDisplay(text) == Display[text]

NormalizeForHash(text) == Lower[NormalizeForDisplay(text)]

\* The hash has the model id in it: a cache never mixes the vectors of two models.
ChunkHash(chunk) == NormalizeForHash(chunk.text)

-----------------------------------------------------------------------------

GetMany(cache, hashes) == [h \in hashes \cap DOMAIN cache |-> cache[h]]

\* {**old, **new}: the later entry of a key stays.
Merge(old, new) ==
  [k \in DOMAIN old \cup DOMAIN new |-> IF k \in DOMAIN new THEN new[k] ELSE old[k]]

PutMany(cache, new) == Merge(cache, new)

\* The chunks to embed, as positions, and the k-th of them.
Misses(chunks, cached) == {i \in DOMAIN chunks : ChunkHash(chunks[i]) \notin DOMAIN cached}

Miss(misses, k) == CHOOSE i \in misses : Cardinality({j \in misses : j < i}) = k - 1

\* The slice of the misses from b * batch_size on; the last one may be shorter.
BatchAt(chunks, misses, b) ==
  LET start == b * EmbedBatchSize IN
  [k \in 1..Min({EmbedBatchSize, Cardinality(misses) - start}) |->
     chunks[Miss(misses, start + k)]]

\* normalized_text or text: what is blank once normalized goes out as it is.
EmbedText(text) ==
  IF NormalizeForDisplay(text) = "" THEN text ELSE NormalizeForDisplay(text)

\* A bug: the vectors come back in another order than the texts went out.
EmbedBatchReversed(texts) == Reverse(texts)

\* The vectors of a batch of texts, in the order of the texts.
EmbedBatch(texts) == texts

\* A batch is tried max_attempts times.
EmbedWithRetry(failures) == failures < MaxAttempts

\* zip(batch, vectors): each vector goes to the hash of the chunk at its place.
BatchRows(batch) ==
  LET vectors == EmbedBatch([k \in DOMAIN batch |-> EmbedText(batch[k].text)])
  IN [k \in DOMAIN batch |-> [hash |-> ChunkHash(batch[k]), vector |-> vectors[k]]]

\* All batches together: of two rows with one hash the later one stays.
NewRows(chunks, misses) ==
  LET places == 1..Cardinality(misses)
      row(n) == BatchRows(BatchAt(chunks, misses, (n - 1) \div EmbedBatchSize))
                  [((n - 1) % EmbedBatchSize) + 1]
  IN [h \in {row(n).hash : n \in places} |->
        row(Max({n \in places : row(n).hash = h})).vector]

\* The number of batches, each of which may fail.
Batches(misses) == (Cardinality(misses) + EmbedBatchSize - 1) \div EmbedBatchSize

\* The outcome when no batch fails more than `failures` times: nothing is cached
\* unless every batch succeeds.
Embed(chunks, cache, failures) ==
  LET cached == GetMany(cache, {ChunkHash(chunks[i]) : i \in DOMAIN chunks})
      misses == Misses(chunks, cached)
      new == NewRows(chunks, misses)
  IN IF Len(chunks) > HardCap \/ (Batches(misses) > 0 /\ ~EmbedWithRetry(failures))
     THEN [ok |-> FALSE, cache |-> cache, out |-> <<>>]
     ELSE [ok |-> TRUE, cache |-> PutMany(cache, new),
           out |-> [i \in DOMAIN chunks |->
                      [id |-> chunks[i].id, text |-> chunks[i].text,
                       vector |-> Merge(cached, new)[ChunkHash(chunks[i])]]]]
=============================================================================
