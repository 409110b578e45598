# StockAiAnalysis: specifications, model checking and proofs

The repository is a facts-only assistant for mutual funds.  A scheduled job
scrapes a handful of pages, ingests them into a vector index, a BM25 table and a
fact table, and moves a *live pointer* to the new corpus version; a web API
answers questions on conversation threads from the live version.  This directory
holds TLA+ models of that system, the TLC configurations that check them, and
proofs of the main results for every value of the constants.

Line numbers are those of the repository; `PROJECT.json` ("map") names the lines
each definition stands for.

## 1. Inventory

| Component | State | Operations | What is hard | What makes it correct |
|---|---|---|---|---|
| Ingestion CLI and pipeline (`phase_5_ingestion_cli/cli.py`, phase 4.1 `pipeline.py`, `index_writer`, `snapshot`) | per process: position in the loop over sources, chunks written so far, results | ingest a source (BM25 document, fact, vector batch, orphan cleanup), smoke test, swap, gc; exit code | three stores without a common transaction; exceptions are caught per source; a crash anywhere; a run id may be used again | stores agree; a re-run converges; the pointer only names vetted, unchanging versions; the exit code does not lie; runs end |
| Vector index (`pg_vector_index`, `chroma_vector_index`) | rows keyed by (version, chunk) or by chunk | upsert, soft delete, purge, three reads | soft delete spans versions; Chroma's key has no version | as above, per backend |
| BM25, fact KV, pointer (`pg_bm25_index`, `pg_fact_kv`, `pg_corpus_pointer`) | unversioned tables; pointer and history rows | one autocommitted statement each | pointer and history are two statements | history covers the pointer |
| Smoke runner | none | three structural checks | reads an unversioned table | gates every swap |
| Purge cron (`purge.py`) | none | hard delete of old soft-deleted rows | runs beside ingestion | never touches a served row |
| Embedder and its cache | cache of vectors by hash | batched, retried, capped embedding | vectors meet chunks by position within a batch and by hash across batches and sources | every vector is that of its own text |
| Segmenter, chunker, normalizer, hasher | none | split a page by token budgets | greedy re-glueing, overlap, merging, row windows | nothing is lost; pieces fit; neighbours stay together; ids are unique |
| Scraping service | per run: results, attempts, next slot, robots cache; two files per source | per-source fetch with retries, checksum short-cut, validation, breaker, report | a death between two files; re-used run ids; breaker evaluated before each source only | reported changes are complete; failures bounded; sources spaced |
| Schedule and retry workflows | GitHub run state | schedule, dispatch, re-run, cancellation, retry | a retry of a retry; the one waiting run of the concurrency group | at most one run; retries do not chain |
| Push to Chroma (phase 4.3), `run_local.py` | one collection, a report per checkout | upsert in batches, report, exit code | two machines and one collection; a failure between batches; a report left by an earlier run | exit 0 and "passed" mean pushed; vectors belong to texts |
| Retrieval | none | rewriting, five searches, fusion, reranking, threshold | ranks, ties, two cuts | the order of the hits is respected |
| Generation | none | choice of client, reply to answer | replies that ignore the prompt | one page per answer, and its date |
| Guardrails | none | input and output checks | early returns, fall-backs, fail-open judge | what may reach the user |
| Request pipeline (`pipeline.py`) | thread pool and queue shared by all requests | four staged calls, two of them with a time-out | abandoned calls keep their thread; a stage can be late, raise, or never return | a late result changes nothing; only a failed guard lets unvetted text pass; requests end |
| Conversation API (`router`, `thread_manager`, `session_store`) | session rows; in-process locks | create, delete, chat; expiry | requests on one thread interleave at every `await`; delete takes no lock; a crash loses the locks | turns do not interleave, none is lost, a deleted thread stays deleted, every request ends |
| HTTP rate limiter | token bucket per address | consume | burst and refill add up; Retry-After is rounded | bound per window; Retry-After is enough |
| Page parser, web UI, object storage | - | - | - | not modelled: pattern matching over HTML, presentation, pure I/O |

Interactions: the CLI calls the stores in a fixed order and shares them with
other CLI processes, the purge cron and the retriever; the retriever reads the
live pointer and the rows of that version; the API calls the pipeline while it
holds a thread's lock, and the pipeline reads the history window the API took.
The daily job that is deployed does not go through the CLI: GitHub's workflow
runs `phase_4_3_push_to_chroma/run.py`, which fetches, chunks, embeds and pushes
into the Chroma collection the API searches; `run_local.py` does the same from a
developer's machine.

## 2. Modules

Ingestion and storage:

| Module | Models | State and actions |
|---|---|---|
| `VectorIndex` | both vector backends, as operators on the index | `rows[v][c]` is `none`, `live` or `deleted` (the `deleted_at` column); `PgUpsert`/`ChromaUpsert` differ in the key |
| `Ingestion` | any number of CLI processes over the stores | `job[r]` is the Python process (loop position, document, chunks left, pending fact, orphans, results); `StartRun` takes the sources the report leaves, possibly none; one action per store statement: `WriteBm25`, `PutFact`, `UpsertVectors`, `FindOrphans`, `SoftDeleteOrphans`, `DeleteBm25`, `RunSmoke`, `RecordHistory`, `FlipPointer`, `GcOldVersions`; `IngestError`, `LoadFails`, `UpsertVectorsFails` are exceptions, `Crash` kills the process, `Purge` is the cron |
| `CorpusSwap` | abstract: readers see a corpus replaced as a whole by a vetted one | `Publish` |
| `IngestionProperties`, `MCIngestion` | what the ingestion guarantees; a registry of two sources and three chunks | - |
| `IngestionProofs` | proofs (section 5) | - |
| `Chunking` | segmenter, chunker, slugs, as operators | words have an id, a length and the level of the separator behind them; the splitter is a recursive function on the texts up to a length, the loops are recursive functions over positions, so that both can be proved about |
| `Embedder` | normalisation, hash, cache, batches, retries, cap | operators; a vector is known by the text it was computed from |
| `Scraper`, `MCScraper`, `ScraperProofs` | the scraping CLI, one process at a time | `StartRun`, `BreakerTrips`, `NextSource` (breaker and limiter), `FetchOk`/`FetchFails` (one attempt each), `ParseOk`/`ParseFails`, `Emit`, `WriteReport`, `Crash` between any two; `todo` holds the positions in the registry of the targets left |
| `PushToChroma`, `MCPushToChroma`, `PushToChromaProofs` | `run.py` in CI and on a developer's machine over one collection, the ingest and retry workflows, `run_local.py` | `job[a]` is a process of `run.py`, `report[a]` the report in its checkout; `active`, `pending`, `last`, `retries` are GitHub's side; one action per source, per batch, per workflow event |

Answering:

| Module | Models | State and actions |
|---|---|---|
| `Retrieval` | rewriting, the five searches, fusion, reranking, threshold, as operators | fusion scores are exact multiples of 1/`ScoreUnit`, a common multiple of `rrf_k + 1 .. rrf_k + MaxRank`; a sort is by places; other scores are any order of the hits |
| `PageToAnswer`, `MCPageToAnswer`, `PageToAnswerProofs` | `Chunking` and `Retrieval` composed: one page is chunked, indexed under the chunk ids, searched, fused, cut | `IndexPage`, `RefusePage`, `Search`, `Retrieve`; sequential, what varies is the page and the order of the hits |
| `Generation`, `Guardrails`, `ServingEnvironment` | provider choice and reply parsing; both guards; what both find in their environment | operators |
| `RequestPipeline`, `MCRequestPipeline`, `RequestPipelineProofs` | `RAGPipeline.run` for several requests over the executor they share, composed of `Guardrails`, `Retrieval` and `Generation` | `queue`, `running`, `hung` are the executor; `stage[r]` is the await a request stands at; `Start` gives a call a worker, `Finish*`/`*Raises` return it, `Timeout*` give it up, `Hang` leaves a call running for ever, `Discard` is a late return |
| `ChatThreads` | the chat, create and delete handlers, the per-thread lock, the session store | `status`, `messages` are the session rows; `lock`, `queue` an `asyncio.Lock` per process and thread; `loop[i]` the handler occupying process i's event loop; `req[q]` the handler's locals. A handler gives way only at its two `await`s; between them each store call is an action |
| `ChatProperties`, `MCChat`, `ChatProofs` | properties of threads; three requests on two threads; proofs | - |
| `RateLimiter`, `MCRateLimiter`, `RateLimiterProofs` | the buckets of all addresses in one process | `Tick`, `Admit`, `Refuse`, `Restart`; `admitted`, `refused` are ghosts that record what happened |

Shared by the proofs: `DataFacts`, facts about numbers, induction, loops, places
in an order, and sequences.

How a step of the ingestion corresponds to the code, in the order of
`IndexWriter.upsert` (`index_writer.py:160-246`): everything before the first
write (load, segment, chunk, hash, embed) is `LoadDoc`, or `LoadFails` when it
raises; the loop of lines 186-225 is `WriteBm25` followed, for a fact chunk, by
`PutFact`; line 227 is `UpsertVectors`; lines 229-235 `FindOrphans`; 236
`SoftDeleteOrphans`; 237-246 `DeleteBm25` per orphan.  `handle` then calls
`try_swap` (`snapshot.py:72-87`): `RunSmoke`, and on success the two statements
of `set_live` and the gc callback.  The smoke test therefore runs after *every*
source, which is why a run of two required sources blocks at the first one.  `RunSmoke` is one
action although the checks are several autocommitted reads: with serial runs only
the purge could write in between, and it touches no served row; with fresh run ids
no other run writes to the version under test.

Abstracted: in `Ingestion` a document is the set of chunk ids derived from it,
and the contents of a BM25 or fact entry is the version that wrote it; `Chunking`
has the derivation.  A page is a model value in `Scraper` and a list of chunks in
`PushToChroma`.  A query is the set of families of patterns it matches, an answer
a sequence of kinds of sentences.  Time is left open in `Ingestion` and
`ChatThreads` (purge cutoff, TTL) and in `RequestPipeline` (either timer may fire
whenever it is set), and counted in `Scraper` and `RateLimiter`.  Definitions
preceded by "A bug:" are alternatives of the definition below them, used to show
that a property notices the error.

## 3. Runs

| Run | Question | Bounds | States |
|---|---|---|---|
| `ingest_fresh` | With fresh run ids, does any sequence of runs, exceptions and crashes implement `CorpusSwap`, and is the live version never handed to the gc? | 3 versions, `Keep = 1`, 2 faults: versions fall out of the window, and a run can fail and be followed by another | 208,490 |
| `ingest_rerun` | Does re-running a run id over what was left behind converge and keep the stores in agreement; does a run that took up a source and exits with 0 serve what it built? | 2 versions, each run up to twice, 2 faults, in any order | 1,881,737 |
| `ingest_chroma` | The same convergence with Chroma's key; does every run end, and does a complete fault-free run publish? | 2 versions, each run up to twice, 1 fault, fairness; no symmetry | 307,891 |
| `ingest_overlap` | Two processes without the concurrency group: do distinct run ids suffice? | 2 processes, 2 versions, 1 fault, all interleavings | 241,214 |
| `chat_threads` | Do turns interleave, get lost, come back, or block the thread, with deletion, expiry, a store failure or a crash at any point? | 3 requests, 2 threads, window of 2 turns, 1 fault; no symmetry | 74,586 |
| `page_to_answer` | Does anything of a page get lost between the page and the candidates? | bodies of 6 words with every arrangement of 3 separators, one of the words optionally 12 or 24 characters long; tables of 0-4 rows of three widths, below, at and above the window's limits; pages whose headings share a slug, which are refused; every order of up to 3 hits in both lists | 15,906 |
| `request_pipeline` | What do late, raising and hanging calls on a shared pool do to answers? | 2 requests, 1 or 2 workers, 4 queries (plain, personal data, injection, advice), 5 replies (obeys, no citation and too long, invents a page and advises, null for answer and date, sentinel), embedder ready or stuck, fairness; no symmetry | 619,616 |
| `push_to_chroma` | Is exit 0, or a local "passed", ever wrong; do vectors stay with their texts; can retries keep each other going? | 2 sources, 2 runs in all, on one machine or on both, batches of 2, pages that lose chunks, exceed the cap or repeat an id, workflow runs re-run once | 248,651 |
| `scraper` | Are reported changes complete, failures bounded, sources spaced? | 3 sources, 3 target sets, 2 attempts, 2 runs of one run id, breaker at 1/2, interval 3, jitters 0 and 2, fetches of length 0 and 4 | 710,071 |
| `rate_limiter` | How much does a window admit, and is Retry-After enough? | 2 clients, 2 requests per 3 seconds, 2 ticks to the second, 9 ticks: a window and a half | 1,814,611 |
| `claim_*` | section 4 | the smallest instance with the counterexample | - |

The runs of `MCIngestion` use sources `s1` (a fact chunk and a section chunk,
either of which may leave the page between runs) and `s2` (one fact).  Except in
`ingest_chroma` both are required and `MinChunks = 2`: the smallest registry in
which a smoke test can fail after the first source, a chunk can become an orphan,
a fact and a non-fact chunk coexist, and one source can fail while the other
succeeds.

Symmetry is used over versions, processes and client addresses, in safety runs
only.  `CHECK_DEADLOCK FALSE` is set where the systems really stop: the run ids,
requests or runs are used up.  Bounds on behaviour are in the guards and named:
`MaxFaults` (exceptions and crashes), `RunsPerVersion`, `MaxRuns`, `MaxAttempt`,
`MaxTime`, `MaxRank` (which `ScoreUnit` follows from), and in `RequestPipeline` the guard of `Hang`.

What each property says is in its comment.  The ones that are not obvious:

* `DenseInSparse` needs three decisions of the code at once: BM25 before the
  vectors, soft delete before the BM25 delete, and a soft delete that spans all
  versions (the BM25 table has none).  It holds across crashes, re-used run ids
  and both backends when runs do not overlap, and with overlapping runs when
  their ids are fresh.
* `UpsertConverges` relates the state after `upsert` returns to whatever a
  crashed or failed run of the same id left.
* `LiveVersionVetted` and `PublishedVersionsFrozen`: the pgvector key protects
  the served version from every later run with another run id.
* `HistoryOnlyGrows`, `AcknowledgedTurnKept`: `append_message` rewrites the whole
  thread from what it has just read, and stays correct because nothing else on
  the event loop runs between its read and its save.
* `SuccessIsServed` is about runs that took up at least one source.  The other
  kind of run exits with 0 as well (section 4).
* `IndexHoldsPage` has two halves: what is indexed is the whole page, and a page
  whose headings have distinct slugs is never refused for a duplicate id.
* `VectorMatchesText`: the embedder cuts the misses into batches, gives each
  vector to the chunk at its place in the batch and files it under that chunk's
  hash.  The run has a last batch that is not full, equal texts, a text that is
  blank once normalized, and a cache filled by other sources.
* `SourcesSpaced` counts the time of the fetches, their retries and the jitter.
* `NeighboursMeet`: the overlap is there so that two words on either side of a
  cut are together in some chunk.  It holds although the overlap is taken from
  the previous *piece* and tiny pieces are merged afterwards, except next to a
  word that had to be split itself (section 4).
* `FusionRespectsRanks` is checked for every pair of hit lists, ties included.
* `QueueHoldsAwaited`, `LateResultIgnored`: an abandoned call may keep a worker,
  but never a place in the queue, and what it returns reaches nobody.
* `ShownAnswerVetted`, `RefusedStaysOut`: the two guards fail open; a text that
  did not pass them is shown only after that guard was late or raised.
* `BreakerBoundsFailures`: since the breaker is looked at before a source and the
  fraction is taken over all sources, at most one failure more than tolerated
  happens.
* `ChangedIsComplete`: the two files of a changed source are of one fetch, over
  whatever a dead run of the same id left in the directory.
* `LocalPassMeansPushed`: the report on disk may be of an earlier run;
  `run_local.py` is right because it looks at the exit code as well.
* `RetriesDoNotChain`: the reason is the event of the run a retry starts, not the
  attempt count the workflow compares.
* `WindowBounded`: burst and refill together stay below twice `max_requests`.

Fairness.  `Ingestion!FairSpec` assumes that a running process keeps taking its
own steps (`WF` of `RunnerStep`); nothing forces a run to start, and failures are
never forced.  `ChatThreads!FairSpec` assumes the same of an accepted request:
the event loop runs ready callbacks, and `pipeline.run` returns.
`RequestPipeline` says when it does.  Its `FairSpec` assumes that idle workers
take calls from the queue (`ThreadPoolExecutor`), that a call which does not hang
returns (the LLM clients have their own time-outs), and that the event loop fires
the two `wait_for` timers.  Nothing is assumed of a retrieval that hangs.
`EveryRequestEnds` then holds because a stuck embedder keeps every request from
the stages without a timer, and because of the guard of `Hang`, which leaves one
worker to the calls that return.  That guard is a real limit of the result: with
every worker held by a retrieval that never returns, a request already past its
own retrieval waits for ever in generation, which has no time-out
(`pipeline.py:120-125`).

## 4. Where the documents and the code differ

Refuted by TLC; `findings` in `PROJECT.json` quotes the text.

* `claim_chroma_shadow`: with Chroma, building a candidate takes rows away from
  the live version (`chroma_vector_index.py:70`).
* `claim_two_retries`: the second of the two documented retries does not exist,
  since a re-dispatched run is not a scheduled one (`retry-failed-ingest.yml:14`).

Further divergences the models exhibit, without a run of their own.  Ingestion:

* Removed chunks are looked for in the run's own version (`index_writer.py:232`),
  which is new under a fresh run id, so nothing is ever soft-deleted there.
* A fault-free run over two required sources publishes its version and exits 1,
  because the smoke test after the first source counts.
* The pointer moves although a source of the run raised; a failed source does not
  roll back (`doc/edgecase.md:201`).
* An error between the two statements of `set_live` leaves a version in
  `corpus_history` that never was live (`pg_corpus_pointer.py:7` says otherwise;
  `LiveInHistory` is what does hold).
* A run whose report leaves no source exits with 0 and swaps nothing
  (`cli.py:171-174`), also when every changed source was dropped because its JSON
  file is missing (`cli.py:134-136`, a warning).  `cli.py:27` says of exit code 0:
  "All sources ingested and pointer swapped successfully."  Without its fourth
  conjunct `SuccessIsServed` fails in three states: no pointer, `StartRun` with no
  source, `FinishRun`.  And where some sources are dropped that way, exit 0 speaks
  of the others only.
* With a re-used run id the live version is edited in place
  (`PublishedVersionsFrozen` needs `RunsPerVersion = 1`), and an older version put
  live again keeps its place in the history, so the gc may be told to drop it
  (`GcKeepsLive` needs fresh run ids).
* A `fact_kv` entry of an older run satisfies the smoke test of a version that
  lost the fact.

Scraping, chunking and push:

* No caller passes `last_checksums`, so the CLI never reports "unchanged"; the
  extraction ratios the drift alert averages are never collected
  (`service.py:107,118`).
* Retries of a source, and the httpx fall-back, do not pass the politeness
  limiter; the breaker is not evaluated after the last source.
* The hard split of a long word can yield an empty piece, behind which there is
  no overlap.
* Two headings with one slug give two chunks one id: `IndexWriter` raises
  `DuplicateChunkIdError` before any write and the source ends in error
  (`index_writer.py:173-180`); on the path of `run.py`, which does not check, Chroma
  refuses the batch.
* A failed push leaves the committed `ingest_report.json` where the workflow
  uploads it from.
* A run stopped by its time-out ends as "cancelled", which is not retried.

Serving:

* The cut to three sentences happens on the answer with its footer
  (`length_enforcer.py:20-34`), so a three-sentence answer, which the prompt asks
  for (`prompt.py:16,18-19`), loses it.
* The sparse search of pgvector has four placeholders and is given five
  parameters (`PgSparsePlaceholders`, `PgSparseParams`).
* The reranker's configuration has the key `type` (`api.yaml:40`) while the
  factory reads `provider` (`reranker.py:82`): nothing is ever reranked.
* `str()` makes the word "None" of a JSON null (`generator.py:127,138`): a null
  answer is shown as "None" instead of being malformed, and a null date is shown as
  "None" instead of being filled in, as a missing one is.
* Without `groq` installed and with `GROQ_API_KEY` set there is no LLM, whatever
  other key there is.
* The rate limiter can admit up to `2 * max_requests - 1` requests in a window;
  its docstring says "20 requests per 60-second window" (`rate_limiter.py:3`).
* The window of "the last n turns" starts in mid-turn, and two server processes
  lose turns, as `thread_manager.py:4-5` says itself: the lock is per process.

## 5. Proofs

TLAPS checks these for every value of the constants, under the assumptions
named in the modules.  Every safety invariant and action property of the passing
runs is stated by a theorem.

### Ingestion (`IngestionProofs`)

`TypeCorrect` (`TypeOK`, which includes that a running process names a version
and, inside `handle`, a source).

For both backends, any number of processes and any faults; all but the last with
re-used run ids:

* `FactRowsBackedCorrect`.  The invariant `FactInv` adds that while a document is
  being written, each of its facts is in `fact_kv`, still to be written, or due.
* `DenseInSparseCorrect`, assuming `Serial`.  `SparseInv` adds the same for the
  chunks of the document in hand and that orphans awaiting their BM25 delete are
  no longer served in *any* version; without `Serial` another process could put
  such a row back.
* `LiveInHistoryCorrect`.  `HistoryInv` adds that a process between the two
  statements of `set_live` has recorded its version.
* `UpsertConvergesCorrect`, assuming `Serial`.  `ConvergeInv` follows the rows of
  the source in hand through `upsert`: the document is served once the batch is
  written, the orphans are exactly what is served beside it, and after the soft
  delete it is served alone.
* `SuccessIsServedCorrect`, assuming `Serial`.  `SwappedInv`: a run with one source
  ended "ok" has its version live; the exit code is 0 only when every result is
  "ok", so a run that took up a source and exits with 0 has one.
* `GcKeepsLiveCorrect`, assuming `Serial` and fresh run ids.  `GcInv`: a recorded
  version has been started, so no later run has it; the version of a run that has
  recorded it is the newest; no version is recorded twice.  Hence the live
  version is the last of the history when the gc is called, and `keep >= 1`
  spares it.

Assuming `FreshRuns` (pgvector, a run id is used once, the
smoke test requires every registered source), with overlapping runs and any
faults:

* `PublishedVersionsFrozenCorrect`, `LiveVersionVettedCorrect`,
  `ImplementsCorpusSwapCorrect` (the refinement of `CorpusSwap`) and
  `OverlapDenseInSparse`.  The invariant `SwapInv` says: an unused run id owns no
  row; two running processes never share a version; a process has written
  nothing for the sources it has not reached, so it finds no orphan in its own
  version; a process whose version is recorded writes no more rows; and a
  version that is recorded, or about to be, passes the smoke test's coverage.
  The fourth part is where `RequiredSources = Sources` is used: the smoke test
  cannot pass before the last source is written.

### Conversations (`ChatProofs`)

`ChatTypeCorrect`, for any number of requests, threads and
server processes.  `TypeOK` includes that a lock or an event loop is only held by
a request inside it.  A lemma says once what each step does to the
request that takes it (`Moved`) and to the locks (`LocksMoved`).

`AnswersFollowQuestionsCorrect`,
`AcknowledgedTurnKeptCorrect`, `WindowSettledCorrect` and
`HistoryOnlyGrowsCorrect`, for any number of requests and threads served by one
process (`SingleProcess`).  `LocksInv` is the converse of the holder conjuncts of
`TypeOK`: a request inside its thread's lock owns it, and one between two awaits
owns its event loop, so two requests inside the lock of one thread are the same
request (`OneHolder`).  `ThreadInv` adds what that exclusion buys: the copy
`append_message` is about to save equals the stored thread and the row still
exists (`CopyFresh`, `Stored`); while the thread lives, the last message is the
question of the request inside its lock (`Asked`); a message is of a request that
has asked on that thread (`Authors`); and a thread some request has found is
never created again (`Known`).  Without `Asked` the answer could be shown to
follow some message, not its question; without `Stored` a save could bring a
deleted thread back.

### Requests (`RequestPipelineProofs`)

For any number of requests, pool sizes, queries, replies and configurations:

* `QueueHoldsAwaitedCorrect` and `PipelineTypeCorrect`.  `PoolInv` adds what makes
  them inductive: a running call is of a stage its request has reached, so a new
  call is never one that is still running; the queue has no call twice; every
  awaited call is queued or running.  The step of a request is treated once
  (`MovesInv`) for all the actions by which it leaves a stage, queued or running.
* `RefusedStaysOutCorrect`.  The invariant says that a query the guard must refuse
  has never passed it, and that candidates and an answer come after a verdict.
* `LateResultIgnoredCorrect`, from the form of each step.
* `ShownAnswerVettedCorrect`.  `AnswersInv` adds that what the output guard is
  given has an answer and cites the registry or the best candidate of the same
  request (`Drafted`), and that an answered request is done, so that neither its
  candidates nor its answer change any more.  It uses that a reply with an empty
  answer is malformed (`PipelineAssumption`).
* `DateOfCitedPageCorrect`.  `DatesInv`: a drafted answer that cites one of the
  request's candidates carries the date of a candidate from that page, unless the
  reply had a date itself (a JSON null is one).  Formatting takes the date from the first
  candidate with the citation's page, the guard's cuts and fall-backs keep page
  and date together, and a request never exchanges its candidates once it has
  them.

### Rate limiter (`RateLimiterProofs`)

`RetryAfterSufficesCorrect`.  `Starved`: a client refused since its last admission
has been refilling ever since the first refusal without reaching the capacity, so
what it has is at least the time since then at the refill rate, and less than a
token.  The rounding of Retry-After does the rest.

`WindowBoundedCorrect`.  `Paid` is the account of a bucket: for every remembered
admission, a token for it and each later one, and what the bucket still has, come
out of one capacity and what was refilled since.  The capacity pays for half of
`2 * max_requests` admissions; the other half takes a window of refilling.  The ghost keeps that many admissions and no more; the
property is about any such stretch, since every stretch is at some time the
latest.

### Scraping (`ScraperProofs`)

* `SourcesSpacedCorrect`.  `SlotInv`: the next slot is an interval after the last
  source's start, or later; a source waits for the slot however much time the fetches
  before it took.
* `BreakerBoundsFailuresCorrect`.  `BreakerInv`: while a target is in the works,
  the failures so far are within the tolerance, since the breaker was looked at
  before it and no target but itself can have failed since.
* `ChangedIsCompleteCorrect`.  `FilesInv`: the files of the target in the works
  are those of the page just fetched, a target left to do has no result yet, and
  no target is met twice (`ScraperAssumption`: a registry names a source once), so
  that no later target writes over the files of a reported one.

### Push to Chroma (`PushToChromaProofs`)

`PushTypeCorrect`, `ExitZeroServedCorrect`, `VectorMatchesTextCorrect`,
`LocalPassMeansPushedCorrect` and `RetriesDoNotChainCorrect`, from one invariant
`PushInv` for any registry, pages, batch sizes and number of runs:

* of a process: the rows built so far are well formed and each row's vector is of
  its text; the rows before `offset` are in the collection; a report belongs to a
  run that was started, and one of the process's own run counts what it pushed;
* of the collection: each entry's vector is of its text.  That the embedder keeps
  this across cache hits, equal texts, failed attempts and the cap on the number of
  chunks is a lemma about `Embed` (`EmbedType`).  It rests on two about the batches:
  each miss is in one batch at one place (`MissFacts`), and what is filed under its
  hash is the vector of its own text or of a later miss with the same hash;
* of the workflows: a run at depth 1 of the retry chain was dispatched, never
  scheduled, so the retry workflow's condition on the event rules it out.

Nothing is ever deleted from the collection, which is why a second writer cannot
take a served chunk away again: at worst it replaces it.

### From a page to the candidates (`PageToAnswerProofs`)

`PiecesFitCorrect`, `IndexHoldsPageCorrect`, `NeighboursMeetCorrect` and
`FusionRespectsRanksCorrect`, for any pages, limits, separators, hit lists and cuts
(`PagesAssumption` says what a page is).  As a state machine the module is
sequential and `IInv` says little: the index is what `Store` makes of the page's
chunks, the hit lists name a chunk once, the result is that of the retrieval.  The
work is in the operators:

* *Splitting.*  `Good` says what the splitter makes of a text: each piece fits or
  is one word, pieces and text have the same words, the first (last) piece opens
  (closes) with the text's first (last) word unless that word had to be split, and
  two neighbours are in one piece or on either side of one cut.  It is kept by the
  greedy join of parts (`JoinGood`), by the step that flushes the buffer and splits
  an oversized part on its own (`MergeGood`), and so, by induction on the length of
  the text, by the recursion (`SplitsExist`, `SplitsGood`).  The two statements
  about ends are what makes it inductive: without them nothing is known of two
  neighbours of which one belongs to a part that was split again.
* *Overlap and tiny pieces.*  The overlap puts the last word of a piece in front of
  the next one, which brings together what `Good` leaves on the two sides of a cut;
  merging only joins whole pieces.
* *Tables.*  The windows over the rows cover every row, whatever the two limits.
* *Ids.*  Chunks of different segments have different ids when the slugs are
  distinct, so the page is indexed and not refused.  `SlugsDistinct` is a hypothesis of the
  properties and not of the model: the run also has pages on which it fails, and
  these are refused (section 4).
* *Fusion.*  Scores are sums of shares that fall with the rank; a sort of a finite
  set gives each element the place that the number of its predecessors says
  (`Places`), so a chunk that is ahead stays ahead through both cuts.

### Induction (`DataFacts`)

The induction theorems of the library take an operator as a parameter, which the
provers cannot instantiate.  Two facts of `DataFacts` stand in for them:
`SetInduction`, for a *set* of naturals, from the well-foundedness of their order,
and `Iteration`, that a loop over `1..n` within a set has its sequence of values.
A recursive function `f[n \in S]` is a `CHOOSE`: once `Iteration` or `SetInduction`
has shown that some function satisfies its equation, the equation can be used.
`SelectSeq`, `SortSeq`, `:>` and `@@` with their definitions by cases or by
recursion, and the folds, stay opaque to the provers in all but simple uses; where
a result depended on one, the model speaks of positions and sets.

### Only model-checked

Liveness: `RunEnds`, `CompleteRunPublishes`, and `EveryRequestEnds` of both
modules.  Fairness is about `ENABLED`, which is outside the prover's reach.

## 6. Not modelled

For good: the page parser (patterns over HTML without state: in `Scraper` and
`PushToChroma` a page either parses or makes the parser raise), the UI, object
storage, prompt and answer wording, the confidence and chunk ids of a response,
similarity, BM25 and cross-encoder scores (a search returns its hits in any
order), float rounding in the rate limiter, `update_metadata` and Chroma's
`hard_purge_older_than` (no caller).

Retrieval is "partly": the pgvector searches are written down as operators, but no
run goes through them, since the sparse one always raises (section 4) and the
deployed retriever is Chroma's.  Generation is "partly" for the fields left out.

Open:

`ChatThreads` and `RequestPipeline` in one module, so that `PipelineReturns` is the
end of `run`; today each assumes of the other what it shows itself.
