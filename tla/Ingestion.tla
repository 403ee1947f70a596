------------------------------ MODULE Ingestion -------------------------------
(***************************************************************************)
(* IngestionPipeline._ingest_file on the file of one PaperVersion: parse,   *)
(* structure, chunk and index, each stage committed by itself and redone    *)
(* only when what it was derived from, or the version of the code that      *)
(* derives it, has changed.                                                 *)
(*                                                                         *)
(* The parsed document is a row and a file; structure, chunks and index are *)
(* rows.  All of them survive a crash, the objects of a run do not.  A run  *)
(* is one call of _ingest_file under some configuration; from one run to    *)
(* the next the parser and the versions of the later stages may change.     *)
(*                                                                         *)
(* Every transaction and every file access is one action, but for the two   *)
(* that read or clear tables first and write others later: under READ       *)
(* COMMITTED other runs commit in between.  Two transactions that replace   *)
(* the same rows collide on their unique constraints, and one of them       *)
(* raises (Fail).                                                           *)
(***************************************************************************)
EXTENDS Naturals

CONSTANTS
  Parser,      \* parser name, version and schema version
  Structurer,  \* structure_processor.version
  Chunker,     \* chunker.version
  Embedder,    \* embedding_version and index_version
  Configs,     \* the configurations runs are started with
  Runs,        \* runs on this version that may be in flight at once
  MaxParses,   \* model bound: documents parsed in all
  MaxCalls     \* model bound: runs in all

Config == [parser : Parser, structurer : Structurer, chunker : Chunker,
           embedder : Embedder]

ASSUME ConfigsAssumption == Configs \subseteq Config
ASSUME MaxParsesAssumption == MaxParses \in Nat
ASSUME MaxCallsAssumption == MaxCalls \in Nat

VARIABLES
  known,     \* the file has its paper_id and version_id
  status,    \* paper_files.status
  rows,      \* parsed_documents: document_hash of each parser
  file,      \* document.json of the version
  derived,   \* sections, elements, groups and the derived_data_states row
  chunks,    \* chunk rows
  index,     \* the indexing_states row: what it says is indexed
  vectors,   \* the embedding rows of each level
  pc,        \* where each run is
  cfg,       \* its configuration
  forced,    \* its force_reindex
  document,  \* the document it parsed or loaded
  bound,     \* the document_hash it will record with the structure
  plan,      \* the structure and groups it built or loaded
  texts,     \* the index documents it loaded
  locks,     \* runs whose open transaction has deleted rows of the index
  served,    \* history: configuration of the run that last set INDEXED
  settled,   \* history: the run found this configuration served, unforced
  troubled,  \* history: a run failed or died since no run was in flight
  overlapped, \* history: a run began while another was in flight
  misled,    \* history: a run loaded the document of another parser
  torn,      \* history: what was changed under a replacement in progress, the
             \* "hash" on record or the "index"
  parses, calls   \* for the model bounds

indexVars == <<index, vectors, locks>>
dataVars == <<rows, file, derived, chunks, index, vectors>>
runVars  == <<cfg, forced, document, bound, plan, texts>>
historyVars == <<served, settled, troubled, overlapped, misled, torn>>
vars == <<known, status, rows, file, derived, chunks, index, vectors, pc, cfg,
          forced, document, bound, plan, texts, locks, served, settled, troubled,
          overlapped, misled, torn, parses, calls>>

-----------------------------------------------------------------------------
(* An optional value is a set with at most one element.                      *)

(* A document and its hash: documents carry the time they were generated, so *)
(* that no two parses have the same hash.  What later stages derive depends   *)
(* on the parser only.                                                        *)
Document == Parser \X Nat

Structure == Parser \X Structurer
Chunks == Structure \X Chunker
Index == Chunks \X Embedder
Level == {"paper", "section", "chunk"}

Derived == [built : SUBSET Structure,    \* sections, elements, groups
            hash : SUBSET Document,      \* document_hash
            chunker : SUBSET Chunker]    \* chunking_version
NothingDerived == [built |-> {}, hash |-> {}, chunker |-> {}]

Status == {"discovered", "identity_resolved", "parsing", "parsed", "structured",
           "chunked", "indexed", "failed"}

PC == {"idle", "check", "check_index", "check_state", "metadata",
       "identity", "parsed", "load", "start_parse", "parse", "add", "structure",
       "reuse", "reuse_chunks", "restructure", "rebuild", "chunk", "rechunk",
       "chunked", "documents", "state", "embed", "done"}

TypeOK ==
  /\ known \in BOOLEAN
  /\ status \in Status
  /\ rows \in [Parser -> SUBSET Document]
  /\ file \in SUBSET Document
  /\ derived \in Derived
  /\ chunks \in SUBSET Chunks
  /\ index \in SUBSET Index
  /\ vectors \in [Level -> SUBSET Index]
  /\ pc \in [Runs -> PC]
  /\ cfg \in [Runs -> Configs]
  /\ forced \in [Runs -> BOOLEAN]
  /\ document \in [Runs -> SUBSET Document]
  /\ bound \in [Runs -> SUBSET Document]
  /\ plan \in [Runs -> SUBSET Structure]
  /\ texts \in [Runs -> SUBSET Chunks]
  /\ locks \in SUBSET Runs
  /\ served \in SUBSET Configs
  /\ settled \in [Runs -> BOOLEAN]
  /\ troubled \in BOOLEAN
  /\ overlapped \in BOOLEAN
  /\ misled \in BOOLEAN
  /\ torn \in SUBSET {"hash", "index"}
  /\ parses \in Nat
  /\ calls \in Nat

Init ==
  /\ known = FALSE
  /\ status = "discovered"
  /\ rows = [p \in Parser |-> {}]
  /\ file = {}
  /\ derived = NothingDerived
  /\ chunks = {}
  /\ index = {}
  /\ vectors = [l \in Level |-> {}]
  /\ pc = [r \in Runs |-> "idle"]
  /\ cfg \in [Runs -> Configs]
  /\ forced = [r \in Runs |-> FALSE]
  /\ document = [r \in Runs |-> {}]
  /\ bound = [r \in Runs |-> {}]
  /\ plan = [r \in Runs |-> {}]
  /\ texts = [r \in Runs |-> {}]
  /\ locks = {}
  /\ served = {}
  /\ settled = [r \in Runs |-> FALSE]
  /\ troubled = FALSE
  /\ overlapped = FALSE
  /\ misled = FALSE
  /\ torn = {}
  /\ parses = 0
  /\ calls = 0

-----------------------------------------------------------------------------
(* What a stage takes for current, as the run's configuration sees it.       *)

Idle == \A r \in Runs : pc[r] = "idle"

HasCurrentDocument(c) == rows[c.parser] # {}

(* Faulty variant: the structure is not bound to the parsed document. *)
StructureOfAnyDocument(c) ==
  HasCurrentDocument(c) /\ \E s \in derived.built : s[2] = c.structurer
StructureIsCurrent(c) ==
  /\ HasCurrentDocument(c)
  /\ \E s \in derived.built : s[2] = c.structurer
  /\ derived.hash = rows[c.parser]

ChunksAreCurrent(c) == StructureIsCurrent(c) /\ derived.chunker = {c.chunker}

(* Faulty variant: nothing is ever taken for indexed. *)
IndexNeverTrusted(r) == FALSE
(* source_digest and embedding_version are those of the documents read. *)
IndexIsCurrent(r) == \E t \in texts[r] : index = {<<t, cfg[r].embedder>>}

-----------------------------------------------------------------------------

Goto(r, next) == pc' = [pc EXCEPT ![r] = next]

(* get_or_add_file and upsert_location.  The first run of a file, until the  *)
(* file has its identity, overlaps no other.                                 *)
Begin(r, c, force) ==
  /\ pc[r] = "idle"
  /\ known \/ Idle
  /\ calls < MaxCalls
  /\ calls' = calls + 1
  /\ Goto(r, "check")
  /\ cfg' = [cfg EXCEPT ![r] = c]
  /\ forced' = [forced EXCEPT ![r] = force]
  /\ settled' = [settled EXCEPT ![r] =
                   status = "indexed" /\ served = {c} /\ ~ force]
  /\ troubled' = (troubled /\ ~ Idle)
  /\ overlapped' = (overlapped \/ ~ Idle)
  /\ UNCHANGED <<known, status, dataVars, document, bound, plan, texts, locks,
                 served, misled, torn, parses>>

(* get_identity and the database's part of _target_is_current. *)
CheckTarget(r) ==
  /\ pc[r] = "check"
  /\ Goto(r, IF known /\ ~ forced[r] /\ ChunksAreCurrent(cfg[r]) THEN "check_index"
             ELSE IF ~ known \/ forced[r] THEN "metadata"
             ELSE "identity")
  /\ UNCHANGED <<known, status, dataVars, runVars, locks, historyVars, parses,
                 calls>>

(* HierarchicalIndexingService.is_current, and index_version again, first     *)
(* load_documents and then get_state.                                         *)
LoadDocuments(r) ==
  /\ pc[r] \in {"check_index", "documents"}
  /\ pc[r] = "documents" => chunks # {}
  /\ texts' = [texts EXCEPT ![r] = chunks]
  /\ Goto(r, IF pc[r] = "documents" THEN "state" ELSE "check_state")
  /\ UNCHANGED <<known, status, dataVars, cfg, forced, document, bound, plan,
                 locks, historyVars, parses, calls>>

CheckIndex(r) ==
  /\ pc[r] = "check_state"
  /\ Goto(r, IF IndexIsCurrent(r) THEN "done" ELSE "identity")
  /\ UNCHANGED <<known, status, dataVars, runVars, locks, historyVars, parses,
                 calls>>

(* save_metadata; the resolver finds or invents the paper and the version. *)
SaveMetadata(r) ==
  /\ pc[r] = "metadata"
  /\ Goto(r, "identity")
  /\ UNCHANGED <<known, status, dataVars, runVars, locks, historyVars, parses,
                 calls>>

SaveIdentity(r) ==
  /\ pc[r] = "identity"
  /\ known' = TRUE
  /\ status' = "identity_resolved"
  /\ Goto(r, "parsed")
  /\ UNCHANGED <<dataVars, runVars, locks, historyVars, parses, calls>>

-----------------------------------------------------------------------------
(* The parsed document. *)

CheckParsed(r) ==
  /\ pc[r] = "parsed"
  /\ IF HasCurrentDocument(cfg[r]) /\ ~ forced[r]
       THEN status' = "parsed" /\ Goto(r, "load")
       ELSE UNCHANGED status /\ Goto(r, "start_parse")
  /\ UNCHANGED <<known, dataVars, runVars, locks, historyVars, parses, calls>>

(* parsed_document_store.load: the one document.json of the version. *)
LoadParsed(r) ==
  /\ pc[r] = "load"
  /\ file # {}
  /\ document' = [document EXCEPT ![r] = file]
  /\ misled' = (misled \/ \E d \in file : d[1] # cfg[r].parser)
  /\ Goto(r, "structure")
  /\ UNCHANGED <<known, status, dataVars, cfg, forced, bound, plan, texts, locks,
                 served, settled, troubled, overlapped, torn, parses, calls>>

StartParsing(r) ==
  /\ pc[r] = "start_parse"
  /\ status' = "parsing"
  /\ Goto(r, "parse")
  /\ UNCHANGED <<known, dataVars, runVars, locks, historyVars, parses, calls>>

(* Faulty variant: the document is only ever saved as a row. *)
ParseWithoutFile(r) ==
  /\ pc[r] = "parse"
  /\ parses < MaxParses
  /\ parses' = parses + 1
  /\ document' = [document EXCEPT ![r] = {<<cfg[r].parser, parses + 1>>}]
  /\ Goto(r, "add")
  /\ UNCHANGED <<known, status, dataVars, cfg, forced, bound, plan, texts, locks,
                 historyVars, calls>>

(* parser.parse, and parsed_document_store.save over whatever was there. *)
ParseAndSave(r) ==
  /\ pc[r] = "parse"
  /\ parses < MaxParses
  /\ parses' = parses + 1
  /\ document' = [document EXCEPT ![r] = {<<cfg[r].parser, parses + 1>>}]
  /\ file' = document'[r]
  /\ Goto(r, "add")
  /\ UNCHANGED <<known, status, rows, derived, chunks, indexVars, cfg, forced,
                 bound, plan, texts, historyVars, calls>>

AddDocument(r) ==
  /\ pc[r] = "add"
  /\ rows' = [rows EXCEPT ![cfg[r].parser] = document[r]]
  /\ status' = "parsed"
  /\ Goto(r, "structure")
  /\ UNCHANGED <<known, file, derived, chunks, indexVars, runVars, historyVars,
                 parses, calls>>

-----------------------------------------------------------------------------
(* Structure and chunks. *)

(* The structure transaction first reads the hash on record and what was      *)
(* derived from which ...                                                     *)
ConsultStructure(r) ==
  /\ pc[r] = "structure"
  /\ bound' = [bound EXCEPT ![r] = rows[cfg[r].parser]]
  /\ Goto(r, IF forced[r] \/ ~ StructureIsCurrent(cfg[r]) THEN "restructure"
             ELSE IF ChunksAreCurrent(cfg[r]) THEN "reuse_chunks" ELSE "reuse")
  /\ UNCHANGED <<known, status, dataVars, cfg, forced, document, plan, texts, locks,
                 historyVars, parses, calls>>

(* ... and then loads the structure that is there, ...                        *)
UseStructure(r) ==
  /\ pc[r] \in {"reuse", "reuse_chunks"}
  /\ plan' = [plan EXCEPT ![r] = derived.built]
  /\ bound' = [bound EXCEPT ![r] = {}]
  /\ status' = "structured"
  /\ Goto(r, IF pc[r] = "reuse" THEN "chunk" ELSE "chunked")
  /\ UNCHANGED <<known, dataVars, cfg, forced, document, texts, locks, historyVars,
                 parses, calls>>

(* ... or begins to replace it.  _invalidate_index comes first, here and in   *)
(* replace_chunks: the rows it finds are gone with the commit, and locked     *)
(* until then; of those another run commits meanwhile it knows nothing.       *)
InvalidateIndex(r) ==
  /\ pc[r] \in {"restructure", "chunk"}
  /\ locks = {}
  /\ locks' = IF index = {} THEN {} ELSE {r}
  /\ Goto(r, IF pc[r] = "chunk" THEN "rechunk" ELSE "rebuild")
  /\ UNCHANGED <<known, status, dataVars, runVars, historyVars, parses, calls>>

(* What the commit leaves of the index: rows this run deleted are gone, and    *)
(* vectors of deleted sections and chunks go with these (ON DELETE CASCADE).  *)
Deindexed(r, cascade) ==
  /\ index' = IF r \in locks THEN {} ELSE index
  /\ vectors' = [l \in Level |->
                   IF r \in locks \/ l \in cascade THEN {} ELSE vectors[l]]
  /\ locks' = locks \ {r}

(* Faulty variant: new chunks, and the index stays. *)
ReplaceChunksAlone(r) ==
  /\ pc[r] = "rechunk"
  /\ derived.built # {}
  /\ chunks' = {<<s, cfg[r].chunker>> : s \in plan[r]}
  /\ derived' = [derived EXCEPT !.chunker = {cfg[r].chunker}]
  /\ index' = index
  /\ vectors' = [vectors EXCEPT !["chunk"] = {}]
  /\ locks' = locks \ {r}
  /\ status' = "chunked"
  /\ Goto(r, "documents")
  /\ UNCHANGED <<known, rows, file, runVars, historyVars, parses, calls>>

Overtaken(r, what) == IF r \notin locks /\ index # {} THEN what \cup {"index"} ELSE what

Restructured(structure, hash) == [built |-> structure, hash |-> hash, chunker |-> {}]

(* replace_structure: what was derived from the old structure goes with it. *)
ReplaceStructure(r) ==
  /\ pc[r] = "rebuild"
  /\ plan' = [plan EXCEPT ![r] = {<<d[1], cfg[r].structurer>> : d \in document[r]}]
  /\ derived' = Restructured(plan'[r], bound[r])
  /\ bound' = [bound EXCEPT ![r] = {}]
  /\ chunks' = {}
  /\ Deindexed(r, {"section", "chunk"})
  /\ torn' = Overtaken(r, IF bound[r] = rows[cfg[r].parser] THEN torn
                          ELSE torn \cup {"hash"})
  /\ status' = "structured"
  /\ Goto(r, "chunk")
  /\ UNCHANGED <<known, rows, file, cfg, forced, document, texts, served, settled,
                 troubled, overlapped, misled, parses, calls>>

MarkChunked(r) ==
  /\ pc[r] = "chunked"
  /\ status' = "chunked"
  /\ Goto(r, "documents")
  /\ UNCHANGED <<known, dataVars, runVars, locks, historyVars, parses, calls>>

(* replace_chunks *)
ReplaceChunks(r) ==
  /\ pc[r] = "rechunk"
  /\ derived.built # {}
  /\ chunks' = {<<s, cfg[r].chunker>> : s \in plan[r]}
  /\ derived' = [derived EXCEPT !.chunker = {cfg[r].chunker}]
  /\ Deindexed(r, {"chunk"})
  /\ torn' = Overtaken(r, torn)
  /\ status' = "chunked"
  /\ Goto(r, "documents")
  /\ UNCHANGED <<known, rows, file, runVars, served, settled, troubled, overlapped,
                 misled, parses, calls>>

-----------------------------------------------------------------------------
(* HierarchicalIndexingService.index_version. *)

(* get_state *)
ConsultState(r) ==
  /\ pc[r] = "state"
  /\ Goto(r, IF IndexIsCurrent(r) /\ ~ forced[r] THEN "done" ELSE "embed")
  /\ UNCHANGED <<known, status, dataVars, runVars, locks, historyVars, parses,
                 calls>>

(* Faulty variant: vectors refer to chunks without a foreign key. *)
ReplaceIndexUnchecked(r) ==
  /\ pc[r] = "embed"
  /\ locks = {}
  /\ index' = {<<t, cfg[r].embedder>> : t \in texts[r]}
  /\ vectors' = [l \in Level |-> index']
  /\ status' = "indexed"
  /\ served' = {cfg[r]}
  /\ Goto(r, "done")
  /\ UNCHANGED <<known, rows, file, derived, chunks, runVars, locks, settled,
                 troubled, overlapped, misled, torn, parses, calls>>

(* embed_batch and replace_index: the vectors and the digest are those of the *)
(* documents loaded before; the rows they refer to must be there, and rows    *)
(* of the index that another run is about to delete hold it up.               *)
ReplaceIndex(r) ==
  /\ pc[r] = "embed"
  /\ locks = {}
  /\ chunks # {}
  /\ index' = {<<t, cfg[r].embedder>> : t \in texts[r]}
  /\ vectors' = [l \in Level |-> index']
  /\ status' = "indexed"
  /\ served' = {cfg[r]}
  /\ Goto(r, "done")
  /\ UNCHANGED <<known, rows, file, derived, chunks, runVars, locks, settled,
                 troubled, overlapped, misled, torn, parses, calls>>

(* The objects of a run go with it. *)
Return(r) ==
  /\ Goto(r, "idle")
  /\ document' = [document EXCEPT ![r] = {}]
  /\ bound' = [bound EXCEPT ![r] = {}]
  /\ plan' = [plan EXCEPT ![r] = {}]
  /\ texts' = [texts EXCEPT ![r] = {}]
  /\ UNCHANGED <<cfg, forced>>

(* The last update_status, of a run that worked and of one that had nothing   *)
(* to do.                                                                     *)
MarkIndexed(r) ==
  /\ pc[r] = "done"
  /\ status' = "indexed"
  /\ served' = {cfg[r]}
  /\ Return(r)
  /\ UNCHANGED <<known, dataVars, locks, settled, troubled, overlapped, misled, torn,
                 parses, calls>>

-----------------------------------------------------------------------------

(* What a run needs is not there: the exceptions of load, of replace_chunks   *)
(* and of index_version.                                                      *)
Bereft(r) ==
  \/ pc[r] = "load" /\ file = {}
  \/ pc[r] = "rechunk" /\ derived.built = {}
  \/ pc[r] \in {"documents", "embed"} /\ chunks = {}

(* Any step may raise; an open transaction is rolled back, and the handler of *)
(* _ingest_file marks the file.                                               *)
Fail(r) ==
  /\ pc[r] # "idle"
  /\ status' = "failed"
  /\ troubled' = TRUE
  /\ locks' = locks \ {r}
  /\ Return(r)
  /\ UNCHANGED <<known, dataVars, served, settled, overlapped, misled, torn, parses,
                 calls>>

(* The process dies, or not even the failure can be recorded. *)
Crash(r) ==
  /\ pc[r] # "idle"
  /\ troubled' = TRUE
  /\ locks' = locks \ {r}
  /\ Return(r)
  /\ UNCHANGED <<known, status, dataVars, served, settled, overlapped,
                 misled, torn, parses, calls>>

Step(r) ==
  \/ CheckTarget(r)
  \/ LoadDocuments(r)
  \/ CheckIndex(r)
  \/ SaveMetadata(r)
  \/ SaveIdentity(r)
  \/ CheckParsed(r)
  \/ LoadParsed(r)
  \/ StartParsing(r)
  \/ ParseAndSave(r)
  \/ AddDocument(r)
  \/ ConsultStructure(r)
  \/ UseStructure(r)
  \/ InvalidateIndex(r)
  \/ ReplaceStructure(r)
  \/ MarkChunked(r)
  \/ ReplaceChunks(r)
  \/ ConsultState(r)
  \/ ReplaceIndex(r)
  \/ MarkIndexed(r)

Next ==
  \E r \in Runs :
    \/ \E c \in Configs, force \in BOOLEAN : Begin(r, c, force)
    \/ Step(r)
    \/ Fail(r)
    \/ Crash(r)

Spec == Init /\ [][Next]_vars

-----------------------------------------------------------------------------
(* Properties that hold however runs on the version overlap.                 *)

(* What a search may hit is always there: vectors of chunks and sections      *)
(* exist only for chunks and sections, chunks only for a structure that claims *)
(* them; and the index is as its state says, whichever transactions of         *)
(* overlapping runs come between (replace_structure, replace_chunks and        *)
(* replace_index), unless one replaced the index after another had deleted it  *)
(* and before that one deleted the chunks: then the state stays, and the       *)
(* vectors of the chunks do not.                                              *)
NothingOutlivesItsSource ==
  /\ vectors["chunk"] # {} => chunks # {}
  /\ vectors["section"] # {} => derived.built # {}
  /\ chunks # {} => derived.chunker # {}
  /\ derived.chunker # {} => derived.built # {}
  /\ "index" \notin torn =>
       /\ index # {} => chunks # {}
       /\ \A l \in Level : vectors[l] = index

(* Everything the configuration asks for is there and derived from each      *)
(* other, down from the document on record for its parser.                   *)
Complete(c) ==
  /\ derived.hash # {} /\ derived.hash = rows[c.parser]
  /\ \E s \in derived.built : s[2] = c.structurer
  /\ derived.chunker = {c.chunker}
  /\ chunks = {<<s, c.chunker>> : s \in derived.built}
  /\ index = {<<t, c.embedder>> : t \in chunks}
  /\ \A l \in Level : vectors[l] = index

(* Upgrades are deployed between runs: those in flight at once share their   *)
(* configuration.                                                            *)
UpgradesBetweenRuns ==
  \A r, q \in Runs : pc'[r] # "idle" /\ pc'[q] # "idle" => cfg'[r] = cfg'[q]

(* Runs of one configuration that overlap still agree in the end: when none  *)
(* is in flight and none of them failed or died, the version is complete      *)
(* (IngestionPipeline._ingest_file), unless a run ever took the document of   *)
(* another parser for that of its own (StructureMatchesItsHash), or committed *)
(* a replacement over a hash or an index that another run had changed since   *)
(* it looked: a later run redoes a structure under an old hash, but takes an  *)
(* index whose state was left behind for current.                             *)
OverlappingRunsConverge ==
  Idle /\ calls > 0 /\ ~ troubled /\ ~ misled /\ torn = {} =>
    \E c \in Configs : Complete(c)

-----------------------------------------------------------------------------
(* Properties that hold until runs on the version overlap; crashes, failures *)
(* and changes of the configuration are allowed.                             *)

(* A file only says "indexed" when its version is complete under the          *)
(* configuration that said so, up to the step that takes the word back        *)
(* (update_status and replace_index).                                         *)
IndexedStatusIsTrue ==
  status = "indexed" /\ ~ overlapped => \E c \in served : Complete(c)

(* No stage misses what an earlier one should have left behind, after any     *)
(* crash and any change of configuration: a later run can always take over    *)
(* (the stage checks of _ingest_file).                                        *)
EveryStageFindsItsInput == ~ overlapped => \A r \in Runs : ~ Bereft(r)

(* Runs are idempotent: one that finds its configuration already served and   *)
(* is not forced does not parse, structure, chunk or embed again              *)
(* (docs/paper-agent-technical-spec.md, section 35).                          *)
SettledRunsDoNoWork ==
  ~ overlapped => \A r \in Runs : settled[r] =>
    pc[r] \notin {"start_parse", "parse", "add", "restructure", "rebuild", "chunk",
                  "rechunk", "embed"}

(* "document_hash" binds the structure to the document it was built from: the *)
(* hash it records is that of a document of the same parser                   *)
(* (docs/developLog.md:117).                                                  *)
StructureMatchesItsHash ==
  \A s \in derived.built, d \in derived.hash : s[1] = d[1]
=============================================================================
