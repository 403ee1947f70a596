# Verification of paper-assistant

TLA+ models of `paper_agent` (the package under `src/paper_agent` of the
repository), TLC configurations that check them on small instances, and TLAPS
proofs of their central invariants for every value of the constants.

Every repository call that is one transaction, every Redis command and every
file access is one action of a model, and where a transaction reads rows without a
lock and writes what follows from them, it is two, because under READ COMMITTED others
commit in between. What a process keeps in memory between two of them is a variable per
process, lost when it crashes. File names below
are relative to `src/paper_agent`.

## 1. The system and its parts

`paper-assistant` keeps a local library of papers. Files are **ingested** into
PostgreSQL (identity, parsed document, structure, chunks, vectors), **searched**,
and put to language-model **agents** that call tools. Long questions become
**research tasks** whose work units are **delegated** to worker agents; large
tool results and worker reports are offloaded as **artifacts**. Concurrency comes
from the thread pool of the scheduler and from several processes (CLI calls,
tests, services) on one database; crashes are possible everywhere, and most of the
design consists of keys and versions that let a later call take over.

| Part (code) | State | Operations | Hard behaviour | What makes it correct |
|---|---|---|---|---|
| Delegated work-unit scheduling (`delegation/scheduler.py`, `research_tasks/`, `research_task_repository.py`) | `research_tasks`, `work_units`; per delegation its copies of both, pool threads | `delegate`, `Scheduler.run`, `_run_with_retry`, `_finalize_task` | parallel attempts, raising workers, crash between charge and outcome, repeated and overlapping delegations | settled outcomes are final and justified, retries bounded across reruns, inputs of a unit are its dependencies' artifacts, task status tells the truth, every delegation ends |
| Agent loop and memory (`agent/runtime.py`, `memory/stores.py`, `memory_repository.py`) | `AgentCheckpoint` and `SessionState` in Redis, `interactions` table; per run its checkpoint object, turn and loop position | `run`, `_resume_turn`, `_drive`, `_persist_memory` | crash between tool and save, resumption, time-out, expiring keys, two runs of a session | every call answered, no saved result lost or computed again, budget kept over resumptions |
| Artifact store (`artifacts/service.py`, `artifact_blob_store.py`, `artifact_repository.py`) | blob files, `research_artifacts` | `materialize`, `read_slice`, `search` | blobs shared by rows, expiry by readers, damaged files, crash between blob and row | a row implies its blob, only overdue rows expire |
| Ingestion and indexing (`ingestion/pipeline.py`, `indexing/service.py`, `repositories.py`, `index_repository.py`, `parsed_document_store.py`) | `paper_files.status`, `parsed_documents`, `document.json`, sections/elements/groups/`derived_data_states`, chunks, vectors/`indexing_states`; per run what it loaded | `_ingest_file`, `is_current`, `index_version` | chain of some ten transactions, changed versions of any stage, crashes, overlapping runs | a later run completes what it finds, "indexed" means complete and current, nothing outlives its source |
| File catalog and identity (`ingestion/scanner.py`, `fingerprint.py`, `dedup.py`, `identity.py`, `repositories.py`) | files by hash, locations, papers and versions, `ingestion_runs`; per run its scan and what it resolved | `ingest`, `classify_file`, `resolve`, `save_identity`, `mark_missing_locations` | overlapping ingestions, files replaced while they are read, directories that cannot be read, crashed runs | one version per text, papers told apart by what their files call them, a version stays with its file, a completed scan tells the truth |
| Structure and chunking (`ingestion/section_tree.py`, `elements.py`, `semantic_blocks.py`, `chunker.py`) | none but the document in hand | `build`, `extract`, `chunk` | skipped heading levels, text before headings, limits on tokens, overlapping dependency spans | sections are a tree, no token lost, limits kept, elements stay with their text |
| RAG over research tasks (`rag/`) | tasks and units of the first part, workers' reports | `run`, rounds of retrieval, delegation, collection | re-planning a task that has units, interrupted rounds, the same question again | answered tasks are closed, analyses are not repeated, answers follow the reports |
| Tool results (`artifacts/materializer.py`, `views.py`, `policies.py`, the tool adapters) | `tool_results` of a checkpoint; a reader's view and cursor | `materialize`, compact views, `read_artifact` | budgets per result and per session, previews smaller than a handle, item and fragment boundaries | nothing offloaded is out of reach and what a small result loses is known, pages partition the payload, what was read can be cited |
| Research graph (`research_graph/`, `research_graph_repository.py`) | `paper_profiles`, `claims`, `research_entities`, `paper_relations` | `extract_profile`, `save_*` | overlapping extractions, four transactions, re-indexing meanwhile | one active row per key and one history behind it, whole graphs, a profile's hash is that of its chunks |
| Policy, registry, context (`delegation/`) | none | `decide` | limits | pure functions |
| Worker runner (`delegation/runner.py`, `workers/`) | none of its own | one agent run and one report per attempt | – | report validated before it is stored |
| Retrieval, reading, context building | none | read-only queries and rankings | – | – |
| PDF parsing and normalization | none | text processing | – | – |
| Application, CLI, configuration | wiring | – | – | – |

How they interact: the scheduler calls a runner on pool threads, which is one
`AgentRuntime.run` under a session derived from the unit and an artifact
`materialize` of the report; agents call tools, whose large results go through
`materialize` and are read back by `read_slice`; the RAG service plans units for
the scheduler and reads their reports; ingestion structures and chunks documents
and calls the indexing service, whose rows retrieval reads and from whose chunks the
research graph is extracted. Everything is a synchronous call; what is
shared between processes is the database, Redis and the files.

## 2. Modules

| Module | Role |
|---|---|
| `WorkUnitScheduler` | delegation and the scheduler, call by call |
| `WorkUnitOutcomes` | abstract: what the scheduler promises about outcomes |
| `AgentLoop` | the agent's tool loop, checkpoints and memory |
| `AgentConversation` | abstract: what the stored checkpoints promise |
| `ArtifactStore` | blob files and rows under several clients |
| `Ingestion` | one file's way to "indexed", including the indexing service |
| `FileCatalog` | the directory, the files and which papers they are; `Ingestion` is one step of it |
| `DocumentChunking` | from the blocks of a document to its chunks: what one stage of `Ingestion` computes |
| `RodRag` | rounds of retrieval, delegation and collection on the scheduler's tables |
| `ToolResults` | offloading, previews, and reading an artifact page by page |
| `ResearchGraph` | extraction and supersession of profiles and claims |
| `MC...` | instances for TLC: graphs, configurations, sets of processes |
| `ArtifactProofs` | theorems about `ToolResults` and `ArtifactStore`, which share no name so that one module can extend both |
| `...Proofs` | theorems about the module of that name |

In every module a definition introduced as "Faulty variant" is a plausible bug in
the definition that follows it. No behaviour uses it; putting it in place
of that definition makes TLC refute one of the properties, which shows that the
property depends on the code.

### WorkUnitScheduler

`taskRow` and `unitRow` are the tables; `task`, `units`, `updated`, `todo`,
`layer`, `progressed` are the locals of `Scheduler.run` in delegation `r`, and
`worker`, `attempts` those of its pool threads. `Delegate`, `CreateTask` and
`SaveWorkUnit` are `ResearchTaskService.delegate`; `StartRun`, `SkipUnit`,
`AdmitUnit`, `DeferUnit`, `SubmitLayer`, `RepeatPass`, `DetectCycle`,
`BreakCycle`, `FinishLayer`, `AbortLayer`, `FinalizeTask` are `Scheduler.run`;
`StartWorker`, `BeginAttempt`, `AttemptSucceeds`, `AttemptFails`, `GiveUp`,
`WorkerRaises` are `_run_with_retry`. `Crash` drops a delegation with its pool.
`update_work_unit` writes the columns it is given and leaves the rest, which is
what `Attempting`, `Succeeded`, `Failed`, `Skipped`, `WithError`, `WithInputs`
do. `launched` and `call` are history: artifacts are named by the attempt
that made them. The runner is a call that succeeds, fails or raises.

`WorkUnitOutcomes` sees each unit only as open, completed, failed or skipped.
The refinement maps a row that is absent, pending or running to open.

### AgentLoop

`stored`, `session` are Redis, `interactions` the table; `ck`, `turn`, `todo`,
`current`, `exchange`, `recalled` are the locals of a run. A checkpoint's
`talk` stands for the conversation its `response_id` (or the replayed
`model_history`) denotes: the calls the model made and the outputs it was
sent. `Receive` lets the model answer with any number of calls up to
`CallsPerTurn`. A response that arrives at the step limit is never acted on, so
its calls are not represented. The text of questions, tool arguments and answers
is left out; so are the token counters.

`AgentConversation` sees phase and results of the stored checkpoint.

### ArtifactStore

`blob` is what lies at each content address, `row` the table. `Lookup`,
`Verify`, `Put`, `Save`, `Flush` are `materialize`; `Load`, `MarkExpired`, `Fetch`,
`MarkCorrupt` are `read_slice`; the sweep of `search` is `MarkExpired` for the
rows it selects. `Damage` is what a disk or a user does to a file: it loses it,
makes it no gzip file or one of another hash, or breaks the compressed data;
these three differ in the exception they cause. `Save` inserts a new row whole, or
selects the one that is there, without a lock; `Flush` then writes what the ORM writes:
the columns whose value differs from what was selected (`Refreshed`). `overlooked` is
history: artifacts whose last flush left a status other than "active", because the row
expired or was called corrupt after the SELECT. Rows of other projects, citations and
filters are left out.

### Ingestion

One `PaperVersion`. An optional row is a set of at most one element. What was derived
from what is in the data: a structure is a pair of parser and structurer, chunks
a pair of structure and chunker, vectors a pair of chunks and embedder, so that
"stale" can be seen and not merely flagged. A document carries in addition a
serial number, because documents contain the time of their generation and no
two parses hash alike; what is derived from them depends on the parser only.
`Config` is the set of versions a run is started with; the next run may have
another. The two transactions that replace rows after having looked at others are
several actions. `replace_structure` reads hash and state (`ConsultStructure`; `bound` is
the hash it will record), deletes the index (`InvalidateIndex`) and only later the
structure (`ReplaceStructure`), where it reads the state row again; `replace_chunks` is
`InvalidateIndex` and `ReplaceChunks`. Rows a run has deleted are locked until its commit
(`locks`), so that `ReplaceIndex` waits; where it found none to delete, nothing holds an
overlapping `replace_index` up, and what that commits survives the DELETE of the chunks
but for the vectors that cascade (`Deindexed`). A `replace_index` that has begun
before the DELETE holds key-share locks on the rows its vectors refer to, so that the
DELETE waits for it: this order is that of the actions. Two replacements of the same rows
collide on their unique order columns, and one of them `Fail`s. A run's objects are
dropped when it ends. `Fail` is the handler at the end of `_ingest_file`, `Crash` the death
of the process (or the handler's own failure).
Until a file has its identity, its run is assumed to overlap no other: creating
identities concurrently is the subject of `FileCatalog`.
`served`, `settled`, `troubled`, `overlapped`, `misled` and `torn` are history; a run is
misled when it takes the document of another parser for its own (finding 2), and `torn`
tells what a replacement committed over although it had changed since the run looked: the
hash on record, or the index.
`UpgradesBetweenRuns` is the deployment rule some statements suppose: runs that
overlap have one configuration.

### FileCatalog

`disk` is the project directory, which `Change` edits at any time; `file`,
`location`, `paperOf`, `namesOf` and `status` are the tables. A run goes from
`Scan` through `Fingerprint`, `Register`, `Check`, `Metadata`, `Resolve` and
`SaveIdentity` for each path to `MarkMissing` and `Complete`. `Fingerprint` and
`Metadata` open the path separately, so that a file may be replaced between the
two; `Derive` is the whole of `Ingestion`. A binary has a text (or none) and
tells a DOI, an arXiv id and a title with authors, or not (`NamesOf`): what the regular
expressions and normalizations of `metadata.py` find. `Identities` looks for a version
with the text, then for a paper by each of the three (`Found`), and a paper keeps the
names of the file it was made for (`SaveIdentity`). `doubtful` is history: the files,
texts and names two runs resolved at once, and those read of a file that had been
replaced.

### DocumentChunking

`sections` and `stack` are the locals of `_build_sections`, one action for each
block of the loop; `BuildGroups` is `ElementExtractor` and
`SemanticBlockBuilder`: two neighbouring blocks of a section are `Tied` when the
span of an element contains both, and `Spans` puts tied neighbours into one, which
is what sorting and merging the spans amounts to. `Packed` is the loop that fills
texts up to the limit, of sentences and of words. Both loops are recursive functions. `todo`, `current`, `chunks` are the locals of `SemanticChunker.chunk`,
one action for each part. A text is a sequence of tokens `<<block, sentence, n>>`,
so that losing, doubling or moving one shows.

### RodRag

`run` holds the locals of `RetrieveOffloadDelegateService.run`, `taskRow` and
`unitRow` are the tables. A unit is a query and a chunk, because ids are hashes of
both: a repeated question finds its task, units and artifacts again. The
scheduler is the part of `WorkUnitScheduler` that units without dependencies
need. `Accepted` is what `WorkerOutputValidator` lets pass of an analyst's output,
`ReportOf` what the collector can make of it.

### ToolResults

A payload is a sequence of items with sizes in tokens and the rest of its
fields; `PartsOf` says which lists a tool's payload has. What a view shows is a set of
positions in that sequence: nothing checked here depends on the order in which the
items of a preview are printed, and a set cannot repeat an item. The order in which
a list is filled does matter, and is `NotAfter` for the lists cut at their first item
that does not fit, and `Round` for the queues of `_select_balanced`, which skip it.
`CallTool` is `ToolResultMaterializer.materialize`: `ShouldOffload`, `Compact`,
`Cut` (the budget of the preview, handle first). A view fills some lists up to its
budget (`Selected`) and takes others as they are or their first 20 entries (`Taken`);
the fields it adds (`Wrapper`) may make it larger than the result it stands for, and then
it is cut too, inline as well as offloaded. `Open` and `Continue` are
`read_artifact` with a view and a cursor, `PageOf` and `Fragment` the pages of
`views.py`; `Slice` is the answer, a page with its citations and the fields around it,
which nothing cuts. What the checkpoint stores is what the model sees.

### ResearchGraph

One paper, several versions. Ids are hashes, so a row is a kind, a generation
(document hash and pipeline versions) and an item. A save is two actions, because
under READ COMMITTED the rows it looked at may change before it commits: `Look`
and `CommitRows` or `CommitEntities`, where the unique indexes are checked.
`LoadChunks` and `LoadHash` are the two statements of `load_extraction_request`.
A `Document` stands for a parsed document and for its hash; the other parts of a
generation are those of one configuration. `ReplaceStructure` records the hash of some
document, and `ReplaceChunks` stores the chunks of some document: not necessarily the
same, because of finding 2 and of the races of `Ingestion`. `indexed` and `torn` are
history: which chunks were stored under which hash, and which hashes were recorded while
an extraction stood between its two statements.

## 3. What is checked

Bounds are constants of the modules and all of them are named there as model
bounds. Deadlock checking is off where the program may legitimately stop: nobody
has to call it again, and the models bound the number of calls.

| Run | Instance | Shows |
|---|---|---|
| `scheduler_runs` | 6 units (two analyses and a verifier behind both; one with a dependency nobody planned; a cycle of two), 2 attempts, 2 threads, one delegation at a time, 4 in all | no row is charged beyond the budget; a running unit sees exactly its completed dependencies' artifacts; a final task status matches the rows; settled rows are coherent; the tables implement `WorkUnitOutcomes`: exactly what cannot run is skipped; under fairness every delegation ends |
| `agent_recovery` | 4 steps, 4 calls, 2 per response, required tool, one run at a time, 3 in all | a saved checkpoint accounts for every call the model waits for; results sent answer every call; no settled call is executed again; no fresh budget; the session follows the table; implements `AgentConversation`; under fairness every run ends |
| `agent_results_resent` | 3 steps | refutes that a result is delivered once (finding 1) |
| `artifact_races` | 2 clients, 2 artifacts of one content, 4 calls, 3 ticks, 1 damage | a row's blob is there and readable unless damaged; a returned descriptor is backed by a blob; only overdue rows expire, but for a row that expired between a save's SELECT and its flush |
| `ingestion_runs` | 5 configurations (each stage upgraded once), 2 runs that may overlap, 3 in all | vectors never outlive their sections and chunks, nor chunks their structure; overlapping runs that succeed leave a complete version, if no run was misled by another parser's document and no replacement committed over a hash or an index that had changed; until runs overlap, "indexed" means complete under the configuration that said so, no stage misses its input, a repeated run does no work |
| `ingestion_parser_rollback` | parser changed and changed back | refutes that the recorded hash is that of the document the structure came from (finding 2) |
| `catalog_runs` | 2 runs, 2 paths, 4 files (two copies of a text with a DOI, one that tells DOI and arXiv id, one arXiv id and title), 1 change of the directory | a completed scan that nothing disturbed tells the truth about every path; copies share a version; no two papers bear one name and a version's paper bears one of its files'; a file keeps its version |
| `document_chunks` | all 66,429 documents of up to 5 of 9 kinds of block, target 4, limit 5, minimum fill 2 | the sections are a tree and hold every block once; chunks are the text, token by token; limits are kept but for one element group; an element stays with the text about it |
| `rod_calls` | 2 chunks, 2 rounds, 2 attempts, 3 calls | an answered task is closed and its status true; settled analyses are not repeated; answers follow the reports of all rounds; under fairness every call ends |
| `tool_results` | one payload of each of 14 shapes, 3 tool calls, 5 calls in all, pages asked with 3, 5 or 7 tokens | pages are lossless; items read to the end can be cited; items omitted from an offloaded result are behind its handle, and those an inline one omits are the named cases; budgets are kept |
| `graph_extractions` | 2 versions, 3 documents, 3 claims of 2 statements, 2 entities, 2 extractions at once, 3 in all, 2 re-indexings | one active row per key and one chain of successors; returned extractions are whole; a profile bears a hash its chunks were stored under, or one recorded while they were read |
| `graph_reextraction` | one extraction after the other, one re-indexing | refutes that old results are superseded (finding 3) |

Why the bounds are enough for these questions. *Scheduler:* two dependencies
and a dependent are what it takes for a layer to run in parallel, half fail and
half complete; four delegations allow a crash, a raising worker, a failed and a
repeated delegation one after the other; two attempts are the constant of the
code. One delegation at a time, because what the other properties promise fails
when two overlap (section 5); the retry budget is proved for any overlap.
*Agent:* two calls per response are needed to crash
between them; four steps allow three rounds of tools and the step limit; three
runs allow a crash, a crash of the resumed run, and its end. *Artifacts:* two
rows on one blob and two clients are what every race in the service is made of.
*Ingestion:* every stage has one other version because the code only compares for
equality; three runs are a run, a change and a crash or an overlap, and what takes
over. A fourth run lets finding 2 meet an overlap (section 4), which is why
`OverlappingRunsConverge` excepts histories in which a run was misled; for the
others the theorem `RunsConverge` covers any number of runs. Both cases of `torn` occur
in the instance. Upgrades are deployed
between runs (`UpgradesBetweenRuns`): two versions of the pipeline at work on one
file undo each other's chunks.
*Catalog:* two copies, a relative that shares one name with them, and one that shares
another name with the relative only, met in any order by one run or two, are the cases
of the resolver; the chain is what keeps the last from the paper of the first
(section 4). No run is forced, which would double the states; files without a text are
read and resolved again by every later run all the same, and the theorems cover forced
runs. *Chunks:* five blocks allow a heading of each
level with text before, between and after; a text that refers to a figure on both
sides under a heading; and texts around both limits; sentences of 3, 1 and 7 tokens
around a limit of 5 are joined, cut, and cut in words. *RAG:* two chunks and two
queries make four units, enough for a completed, a failed and an abandoned one in a
task. *Tool results:* sizes count for hundreds of tokens; a preview of 4 holds a
handle and a little, some payloads fit nowhere whole, and two of them (`EdgeReading`,
`EdgeCatalog`) fit inline exactly and no longer do with the fields of their view; one
entry stands for the 20 at which lists are cut. *Graph:* two documents of
one version, one statement twice in a document and once only in one of them; two
re-indexings are enough for chunks of the one under the hash of the other.

Fairness is stated in `FairSpec` of `WorkUnitScheduler` and `AgentLoop` and in
`Spec` of `RodRag`, and is weak fairness of the steps of a delegation, a pool
thread, a run or a call: the interpreter keeps executing live threads, and runner,
provider and tools return because HTTP and database clients have timeouts and the
agent loop has a step limit. Calls, crashes, raising workers, missed deadlines and
expiry carry no fairness.

Some properties are claimed only of calls that do not overlap (each module says
which): the code takes no lock on a task, a session or a version, and no
document promises more. Where a document does, the disagreement is a finding
or is listed below it.

## 4. Findings

1. `runtime.py:1` calls the loop idempotent. A run resumed with all results in
   hand sends them from `_resume_turn` without clearing
   `pending_response_results`; if the model asks for more tools, they are sent again.
2. `docs/developLog.md` (problem 1) and `docs/使用说明.md` promise that a change
   of the parser rebuilds everything from that parser's document. `document.json`
   has one path per version while `parsed_documents` has a row per parser: after
   A, B, A the structure is rebuilt from B's document and filed under A's hash.
   When two runs overlap after such a rollback, one of them forced, the version may
   end up indexed with chunks and vectors from the one parser under the structure of
   the other. The attempt to prove `OverlappingRunsConverge` found this; it
   takes four runs, one more than the instance of `ingestion_runs` has. The research
   graph inherits the mistake: a profile of B's text is kept under A's hash, where
   every later extraction finds it by its id.
3. `docs/Phase4阶段总结.md` promises that old results become superseded when the
   input changes. `save_claims` only supersedes claims whose statement occurs again;
   the others stay active beside the new profile, and a profile that had been
   superseded and is extracted again is returned inactive.

What else was met while modelling, without a run of its own:

* `scheduler.py:3-6` promises that completed units are never re-executed. The
  scheduler decides from the copy it was handed, and `update_work_unit` overwrites
  unconditionally: a second, overlapping delegation of the same request executes a
  unit the first completed meanwhile and takes its row back to running.
* `save` of an artifact selects the row without a lock and flushes the columns that
  differ (`artifact_repository.py:99-120`). If another client's `mark_expired`, or the
  sweep of a search, commits in between, the flush renews `expires_at` and leaves the
  status: a row "expired" with time left, which `read_slice` refuses and `search` skips
  until the next materialization of the same content. `ExpiredRowsAreOverdue` excepts
  these artifacts (`overlooked`), and no others.
* `replace_structure` and `replace_chunks` delete the index first and the chunks a few
  statements later (`repositories.py:481-488`, `652-688`), under READ COMMITTED. A
  `replace_index` that commits in between, over an index that was not there to be
  deleted, loses its chunk vectors to the cascade and keeps the others with its
  `indexing_states` row. Because the digest of the source is deterministic,
  re-chunking gives the same one, `index_version` takes the version for unchanged, and
  it says "indexed" without chunk vectors until it is forced. `NothingOutlivesItsSource`
  and `OverlappingRunsConverge` except histories with such an overlap (`torn`), of which
  TLC finds instances.
* A structure is recorded under the hash its transaction read at its beginning; one
  parsed meanwhile makes it a hash that is no longer on record. The next run finds them
  different and structures again.
* The resolver looks up DOI, arXiv id, title and authors, in this order
  (`identity.py:37-51`), and a paper keeps the names of the first file
  (`repositories.py:193-202`). Of a file with a DOI, one with the DOI and an arXiv id,
  and one with the arXiv id, ingested in this order, the second joins the first's paper
  and the third gets a paper of its own; in another order there is one paper. That files
  which share a name share a paper is therefore not claimed; `PapersAreToldApart` says
  what the look-ups do guarantee.
* `artifacts/service.py:5` promises stable errors. A damaged DEFLATE stream raises
  `zlib.error`, which neither `put` nor `get` catches.
* An error payload of a tool is small, stays inline, and passes through the tool's
  compact view, which for `read_paper`, `search_artifact` and
  `collect_research_task` has no field for it (`materializer.py:786-804`): the
  model sees an empty answer.
* An inline result loses items with no handle to them, although `materializer.py:9-12`
  describes a small result as staying inline and a large one as offloaded behind its
  reference: a search the evidence beyond four per paper, a comparison its cells and
  evidence, a collection its citations, and several views the entries of a list beyond
  20 (`materializer.py:319`, `498-499`, `525`, `556-557`). `LeftOut` names these cases.
* `policies.py:70` compares the size of the raw result with the budget, and
  `materializer.py:802-806` cuts its compact view to the same budget. The view adds
  fields of its own, so that a result just within the budget is kept inline and then cut,
  without a handle; of `search_artifact` all hits go at once, because "results" is none of
  the keys `_enforce_model_budget` keeps. `CutAway` names this case (payloads
  `EdgeReading` and `EdgeCatalog` of the instance).
* `max_tokens` of `read_artifact` bounds the content of a page; its citations, one dict
  each, and the other fields come on top (`artifact_tool_adapters.py:94-102`), and
  `materializer.py:736-743` passes the answer on uncut. `ToolTokensAreBounded` bounds
  their number by the labels a page has room for.
* `_compact_rod` adds the tokens of the claims to `used` a second time where it has just
  selected the reports (`materializer.py:539`). An inline analysis with long claims
  loses its evidence artifacts although they fit, and since a small result has no handle
  either, the model cannot find them; without the later cut by
  `_enforce_model_budget`, forgetting the reports would overrun the budget. The attempt
  to prove `OmittedItemsAreReachable` found this, and `LeftOut` names the case (payload `LongClaims` of the instance).
* A citation label cut by a fragment boundary is in no page
  (`_content_contains_citation`); `ReadItemsAreCitable` supposes pages that hold an
  item up to its label.
* Two sections with one path (a heading that occurs twice under one parent): every
  chunk of the second is given the first's id (`chunker.py:166`), against
  `tests/unit/ingestion/test_structure_and_chunking.py`, whose document has no such
  headings. `ChunksAreBounded` claims the section of documents without them only.
* A first heading below level 1 becomes a subsection of "Front Matter"; any paragraph
  that starts with a word like "Figure" or "Equation" is an element, and so is
  never split.
* Two overlapping runs that resolve one text make two papers; the later
  `save_identity` wins and the other version stays without a file.
* The resolver looks for a version with the same text before it looks at the metadata
  (`identity.py:23-33`). Two PDFs of one text whose embedded metadata name different
  works get one version, and its paper bears the names of the first.
* A retrieval that finds nothing closes the task over units a crashed call left
  (`rod_service.py:365`); `AnsweredTasksAreClosed` excepts them.
* The analyst's validator lets pass what the collector refuses (a blank summary, a
  claim without citations): such a unit is completed and its report lost.

## 5. What is proved

For all values of the constants under the named assumptions of the modules
(bounds are naturals, a dependency list is a set of numbers, configurations
are configurations), and where the table says so under a hypothesis that restricts
the environment and not the code:

* `OneDelegationAtATime`, `OneRunAtATime`: the set of processes has one member. Any
  number of calls follow each other, crash and are taken up again. The code takes no
  lock, and section 4 tells what overlapping calls do.
* `SharedSpec`: the steps of `Ingestion` that keep `UpgradesBetweenRuns`.

`ToolResults` assumes of the tools (`PayloadsAssumption`) that a payload has only the
lists its adapter builds and that an item holds its citation label, which the adapters
write into it. Of the budgets (`BudgetsAssumption`) it assumes that they are positive,
as `OffloadPolicyConfig` validates, and that an `artifact_id`, which is a part of the
reference, is not larger than it.

| Theorem | Says | Argument |
|---|---|---|
| `WorkUnitSchedulerProofs!TypeCorrect` | `[]TypeOK` | inductive; one lemma per record update |
| `WorkUnitSchedulerProofs!ChargedAttemptsBounded` | `[]ChargedAttemptsWithinBudget`, for any overlap of delegations | `BudgetInv`: the row alone is not inductive, because a thread charges from its own stale copy; what is, is that every copy is within the budget, that a thread never exceeds what its copy leaves, and that threads exist only while their layer executes |
| `WorkUnitSchedulerProofs!RunningUnitsAreFed` | `[]RunningUnitsSeeTheirDependencies`, for any overlap | `LayerInv`: threads work on units of the layer only, what these depend on was completed before they were admitted, and what is completed the delegation no longer touches |
| `WorkUnitSchedulerProofs!SettledRowsCoherent`, `!TaskStatusTrue` | `[]SettledRowsAreCoherent`, `[]TaskStatusMatchesUnits`, if `OneDelegationAtATime` | `SoloInv`: what each row says is so (`RowInv`), each copy of a row is the row but for the attempts its thread is making (`CopyInv`), and how far the passes over the units have come (`PassInv`). A crash forgets the copies, and the rows alone have to carry the next delegation |
| `WorkUnitSchedulerProofs!OutcomesKept` | `ImplementsOutcomes`, if `OneDelegationAtATime` | each write of a final status is mapped to the step of `WorkUnitOutcomes` it stands for, everything else to a stutter. That a skipped unit cannot run rests on `OnCycle`, for a pass without progress leaves units that all wait for each other, and on `CompletedInOrder`, by which no unit of a cycle ever completes |
| `AgentLoopProofs!TypeCorrect` | `[]TypeOK` | inductive |
| `AgentLoopProofs!ToolBudgetRespected` | `[]ToolCallsWithinBudget`, for any overlap of runs | `BudgetInv`: an executing tool was admitted under an unspent budget of the very checkpoint its result is added to, and results travel with the checkpoint |
| `AgentLoopProofs!ConversationsAreResumable`, `!CallsAreAnswered` | `[]ResumableCheckpoint`, `[]NoCallLeftUnanswered`, for any overlap of runs | `ResumptionInv`: calls are dated by the step that brought them, so that a response never repeats a call that has a result; at each point of a run, the calls the model waits for are those of the turn, those pending, or those about to be sent |
| `AgentLoopProofs!SessionsFollow` | `[]SessionFollowsInteractions`, for any overlap of runs | `MemoryInv`: the session state a run has loaded is a subset of the table, and stays one because rows are never deleted; the exchange it is about to add was written before |
| `AgentLoopProofs!OneRunImplementsConversation` | `ImplementsConversation`, if `OneRunAtATime` | each save is mapped to the step of `AgentConversation` it stands for. `MirrorInv`: from its first save to its last, a run holds the results that are stored; `BudgetInv` gives the guard of `Learn`, `ResumptionInv` that the call is new |
| `AgentLoopProofs!SettledCallsRest` | `[]SettledCallsNeverRun`, if `OneRunAtATime` | `MirrorInv` again: what the run does not hold is not stored |
| `ArtifactProofs!TypeCorrect` | `[]TypeOK` of `ArtifactStore` | inductive |
| `ArtifactProofs!UndamagedArtifactsReadable` | `[]UndamagedArtifactsStayReadable` | `BlobsBeforeRows`: an undamaged file is absent or intact, and a client about to save or flush a row has an intact blob, because nothing deletes blobs |
| `ArtifactProofs!ExpiryIsDeserved` | `[]ExpiredRowsAreOverdue` | clients' readings of the clock are never ahead of it, and `mark_expired` compares again under the row's lock. A flush that leaves a status other than "active" marks its artifact `overlooked`, and one that leaves "active" heals it |
| `ArtifactProofs!DescriptorsAreBacked` | `[]ReturnedArtifactsAreIntact`, for any overlap of clients | `Backed`: from the check of the blob on, the file stays intact unless it is damaged, whoever else writes the same content meanwhile, and a row once there is never deleted |
| `ArtifactProofs!PagesLossless` | `[]PagesAreLossless` | `SessionInv`, below. Each page runs from its cursor to the next one (`IsPage`, `PageReads`), whether it is made of whole units or of a fragment of one, and what was read is the text up to the cursor (`PagesKept`) |
| `ArtifactProofs!ReadItemsCitable` | `[]ReadItemsAreCitable` | `PageCites`: a page that passes the end of an item whose label fits a page shows that label whole, because the fragment that begins the item holds the label, or the item came whole |
| `ArtifactProofs!OmittedReachable` | `[]OmittedItemsAreReachable` | an offloaded view keeps its handle, whatever its budget. Of an inline one, laws of the views: `FilledWhole` for lists filled up to a budget, `SelectBalancedIs` for the rounds (when everything fits, nothing of the first `PerPaper` ranks is skipped), and for a view that is cut in turn, that an item goes only if what has to be kept before it does not leave it room (`CutAway`) |
| `ArtifactProofs!TokensBounded` | `[]ToolTokensAreBounded` | a view, cut or not, is within its budget (`CutBounded`, from the laws of sums over sets of positions). A page is within `Cap`, and the labels that stand in it are disjoint pieces of it, so that their number is bounded by its size. The results kept inline are within the session's budget because the sum of all was, when the last of them was added; the sum of all is not, because offloaded previews and pages count as well |
| `IngestionProofs!TypeCorrect` | `[]TypeOK` | inductive |
| `IngestionProofs!SourcesOutlive` | `[]NothingOutlivesItsSource`, for any configurations and overlap | inductive as it stands: vectors of deleted sections and chunks cascade with them, a replacement that was not overtaken leaves no index, and foreign keys guard the way up. That vectors and state agree is claimed until a replacement was overtaken (`torn`) |
| `IngestionProofs!IndexedIsComplete`, `!InputsAreThere`, `!SettledRunsRest` | `[]IndexedStatusIsTrue`, `[]EveryStageFindsItsInput`, `[]SettledRunsDoNoWork` | `SoloInv`: until runs overlap, what tables and file say of each other wherever the runs before were cut off (`DataInv`), and what the run in flight has made sure of at each stage (`RunInv`), within its replacements too: a run that found no index to delete will find none when it commits |
| `IngestionProofs!RunsConverge` | `[]OverlappingRunsConverge`, for `SharedSpec` and histories with `~ misled` and `torn = {}` | `SharedInv`: a run cannot trust what it has checked, because another may delete it. What is inductive: the tables agree on one structure (`TablesAgree`), what a run holds is of its configuration (`RunAgrees`), and what it has seen done is done or some run is about to do it again, in the middle of a replacement or before one (`RunAwaits` with `Restructuring`, `Rechunking`, `Reindexing`) |
| `FileCatalogProofs!TypeCorrect` | `[]TypeOK` | `RunsHold`: what a run holds at each stage, without which a save could refer to a version that does not exist |
| `FileCatalogProofs!CompletedScansTellTheTruth` | `[]CompletedScansAreTruthful` | `AloneInv`: while nothing else moves, every path of the scan is on the disk and still to be done, in hand, or done; `MarkMissing` clears exactly the others |
| `FileCatalogProofs!CopiesGetOneVersion`, `!VersionsStay` | `[]CopiesShareAVersion`, `FilesKeepTheirVersion` | `IdentityInv`: the text registered for a file is its own, the version a run holds for it is that of its copies, also between the look-up and the save (`HolderInv`, `PendingInv`), and what two runs make up beside each other differs (`PairInv`) |
| `FileCatalogProofs!PapersDiffer` | `[]PapersAreToldApart` | `PaperInv` and `PendingInv`: a paper a run is about to create bears no name another paper has, and no name a second run is about to give (`PairInv`), unless the name is in doubt; `OwnerInv`: a version's paper bears a name of a copy, also while the version is not saved yet |
| `RodRagProofs!TypeCorrect` | `[]TypeOK` | inductive |
| `RodRagProofs!SettledRowsStay` | `SettledAnalysesStay` | `RowsFollow`: a call's copies agree with the rows wherever it decides by them |
| `RodRagProofs!AnsweredTasksClosed` | `[]AnsweredTasksAreClosed` | `StatusFollows`: a closed task tells the truth about the settled units while new ones are planned into it, and when a call collects, all units are settled |
| `RodRagProofs!AnswersFollow` | `[]AnswersFollowTheReports` | `RoundsFollow`: a further round begins only when no report so far is relevant |
| `ResearchGraphProofs!TypeCorrect` | `[]TypeOK` | `BaseInv`: with the types, a version's hash and chunks are those of its documents, and its chunks were stored under its hash (`LibraryInv`) |
| `ResearchGraphProofs!OneActiveRow`, `!ExtractedKeysStayActive` | `[]HistoryIsOneChain`, `[]KeysStayActive`, for any overlap of extractions | `ChainInv`: every key that has rows keeps an active one (`TablesInv`), and the rows a transaction saw have only grown since (`SawTables`), so that a second active row meets the unique index. |
| `ResearchGraphProofs!ReturnedAreWhole`, `!ProfilesTellTheirHash` | `[]ReturnedExtractionsAreWhole`, `[]ProfilesBearTheirHash`, for any overlap | `Progress`: what the four transactions of an extraction have left behind as far as it has come; `Fetched`: the hash read is one under which the chunks read were stored, or one recorded between the two statements. Whether the chunks are those of the document the hash is of is a matter of `Ingestion` (finding 2) |
| `DocumentChunkingProofs!TypeCorrect` | `[]TypeOK` | from `PackInv`, below |
| `DocumentChunkingProofs!SectionsAreATree` | `[]SectionsFormATree` | `StackInv`: the i-th open section is at level i, its path is the titles up to it on the stack, and no later section is at its level or above |
| `DocumentChunkingProofs!TextIsKept` | `[]ChunksKeepTheText` | every stage concatenates to what it was given: `SpansKeep`, `GroupsBuilt`, `SplitKeeps`, `TakenParts` for spans, groups, pieces and parts; `KeepSteps` for the chunks |
| `DocumentChunkingProofs!ChunksStayBounded` | `[]ChunksAreBounded` | `PackInv` and `ChunksFit`: the parts in hand are of the section taken and within the limit, or are one element group; and the last chunk does not fit with the parts of the next already, which only grow |
| `DocumentChunkingProofs!ElementsAreWhole` | `[]ElementsStayTogether` | `GroupsHold`: neighbours that are tied and have text are in one group, however spans merge; `DependentsKept`: an element group of a section taken up is one part that waits, or stands whole in a chunk |

`SessionInv`, on which the four theorems about `ToolResults` rest, is
`SessionKept /\ ReadKept`. A property of the list of results is inductive only
together with what each result owes to its own materialization (`Standing`: the
payload is one the tools may answer, tokens and handle are those of its view), since
`Open` finds a payload in the list long after `CallTool` has put it there; and
the text read is inductive only together with the cursor being one the pages can
produce (`At`), since `Continue` trusts whatever cursor the page before returned.

The library's induction theorems take a predicate, which the installed provers
cannot instantiate. Where data has no bound, the proofs use induction on sets
instead: a set of naturals that holds 0 and the successor of each of its members
is `Nat` (`NatSetInduction`), and a set of sequences that holds the empty one and is
closed under `Append` is all of them (`AppendInduction`). Both follow from the
well-foundedness of `<`. On them rest the laws of `FlattenSeq` (of concatenations, of
nested sequences, of members) and those of the loops `Packed` and `Spans`, `SumAt`,
`Filled`, `Round`, `SelectBalanced` and `Listed`, whose recursive functions
`StepsExist` shows to exist.

Only model-checked: liveness (`EveryDelegationEnds`, `EveryRunEnds`,
`EveryCallEnds`), because TLAPS treats neither fairness nor `ENABLED`. Every
invariant, action property and refinement that a passing run checks is stated by
a theorem, under the hypotheses above where the table names them. No module uses
`RECURSIVE` operators.

## 6. Not modelled, and why

PDF parsing, ranking, prompts and provider wire formats are text and
arithmetic without state. The CLI and the configuration only wire. Retrieval,
reading and the comparison of papers change nothing. What regular expressions find in a text is an input
of `DocumentChunking` and `FileCatalog`. Metadata that enters digests, `document.md`,
reuse of single vectors, session summaries and token counts of agents do not steer
anything checked here. `ingestion_items` and the trace of the RAG service are only
written. Overlapping calls of one RAG task are left to the statements of
`WorkUnitScheduler`; the wording rules by which claims are extracted and verified are
text processing.

## 7. Plan

All modules of the plan are written, and every safety property that is checked is
a theorem. What is open:

1. `Ingestion`: the convergence of overlapping runs of different configurations, once
   the code decides which of them prevails.
2. `AgentLoop`: what a resumed run does with the caller's new question.
3. `ToolResults`: the error payload of a tool in its compact view, and the materializer
   within the loop of `AgentLoop`, whose results are opaque there.
