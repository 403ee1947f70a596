--------------------------- MODULE IngestionProofs ----------------------------
(* Proofs about Ingestion, for any configurations and any overlap of runs.   *)
EXTENDS Ingestion, TLAPS

-----------------------------------------------------------------------------
(* Types.                                                                    *)

(* The initial states are well typed. *)
LEMMA InitTyped == Init => TypeOK
<1> SUFFICES ASSUME Init PROVE TypeOK
    OBVIOUS
<1>1. NothingDerived \in Derived
    BY DEF NothingDerived, Derived
<1>2. "discovered" \in Status /\ "idle" \in PC
    BY DEF Status, PC
<1>3. rows \in [Parser -> SUBSET Document]
    BY DEF Init
<1>4. QED
    BY <1>1, <1>2, <1>3 DEF Init, TypeOK

(* A structure built from a document is one the types know of. *)
LEMMA BuiltTyped ==
  ASSUME TypeOK, NEW r \in Runs
  PROVE  {<<d[1], cfg[r].structurer>> : d \in document[r]} \in SUBSET Structure
  BY ConfigsAssumption DEF TypeOK, Document, Structure, Config

LEMMA ChunkedTyped ==
  ASSUME TypeOK, NEW r \in Runs
  PROVE  {<<s, cfg[r].chunker>> : s \in plan[r]} \in SUBSET Chunks
  BY ConfigsAssumption DEF TypeOK, Chunks, Config

LEMMA IndexTyped ==
  ASSUME TypeOK, NEW r \in Runs
  PROVE  {<<t, cfg[r].embedder>> : t \in texts[r]} \in SUBSET Index
  BY ConfigsAssumption DEF TypeOK, Index, Config

LEMMA ParsedTyped ==
  ASSUME TypeOK, NEW r \in Runs
  PROVE  {<<cfg[r].parser, parses + 1>>} \in SUBSET Document
  BY ConfigsAssumption DEF TypeOK, Document, Config

(* A run begins and takes its first decisions. *)
LEMMA OpeningTyped ==
  ASSUME TypeOK, NEW r \in Runs,
         \/ \E c \in Configs, force \in BOOLEAN : Begin(r, c, force)
         \/ CheckTarget(r) \/ LoadDocuments(r) \/ CheckIndex(r)
         \/ SaveMetadata(r) \/ SaveIdentity(r)
  PROVE  TypeOK'
<1>1. ASSUME NEW c \in Configs, NEW force \in BOOLEAN, Begin(r, c, force)
      PROVE  TypeOK'
  <2>1. pc' \in [Runs -> PC]
    BY <1>1 DEF Begin, Goto, TypeOK, PC
  <2>2. settled' \in [Runs -> BOOLEAN]
    BY <1>1 DEF Begin, TypeOK
  <2> QED
    BY <1>1, <2>1, <2>2 DEF Begin, TypeOK, dataVars
<1>2. CASE CheckTarget(r)
  BY <1>2 DEF CheckTarget, Goto, TypeOK, PC, dataVars, runVars, historyVars
<1>3. CASE LoadDocuments(r)
  BY <1>3 DEF LoadDocuments, Goto, TypeOK, PC, dataVars, historyVars
<1>4. CASE CheckIndex(r)
  BY <1>4 DEF CheckIndex, Goto, TypeOK, PC, dataVars, runVars, historyVars
<1>5. CASE SaveMetadata(r)
  BY <1>5 DEF SaveMetadata, Goto, TypeOK, PC, dataVars, runVars, historyVars
<1>6. CASE SaveIdentity(r)
  BY <1>6 DEF SaveIdentity, Goto, TypeOK, PC, Status, dataVars, runVars, historyVars
<1> QED
  BY <1>1, <1>2, <1>3, <1>4, <1>5, <1>6

(* The document is loaded or parsed. *)
LEMMA ParsingTyped ==
  ASSUME TypeOK, NEW r \in Runs,
         \/ CheckParsed(r) \/ LoadParsed(r) \/ StartParsing(r)
         \/ ParseAndSave(r) \/ AddDocument(r)
  PROVE  TypeOK'
<1>1. CASE CheckParsed(r)
  BY <1>1 DEF CheckParsed, Goto, TypeOK, PC, Status, dataVars, runVars, historyVars
<1>2. CASE LoadParsed(r)
  BY <1>2 DEF LoadParsed, Goto, TypeOK, PC, dataVars, historyVars
<1>3. CASE StartParsing(r)
  BY <1>3 DEF StartParsing, Goto, TypeOK, PC, Status, dataVars, runVars, historyVars
<1>4. CASE ParseAndSave(r)
  <2>1. file' \in SUBSET Document /\ document' \in [Runs -> SUBSET Document]
    BY <1>4, ParsedTyped DEF ParseAndSave, TypeOK
  <2> QED
    BY <1>4, <2>1 DEF ParseAndSave, Goto, TypeOK, PC, indexVars, historyVars
<1>5. CASE AddDocument(r)
  <2>1. rows' \in [Parser -> SUBSET Document]
    BY <1>5 DEF AddDocument, TypeOK
  <2> QED
    BY <1>5, <2>1 DEF AddDocument, Goto, TypeOK, PC, Status, indexVars, runVars, historyVars
<1> QED
  BY <1>1, <1>2, <1>3, <1>4, <1>5

(* What a replacement leaves of the index. *)
LEMMA DeindexedTyped ==
  ASSUME TypeOK, NEW r \in Runs, NEW cascade, Deindexed(r, cascade)
  PROVE  index' \in SUBSET Index /\ vectors' \in [Level -> SUBSET Index]
         /\ locks' \in SUBSET Runs
  BY DEF Deindexed, TypeOK

(* Structure and chunks are used or replaced. *)
LEMMA DerivingTyped ==
  ASSUME TypeOK, NEW r \in Runs,
         \/ ConsultStructure(r) \/ UseStructure(r) \/ InvalidateIndex(r)
         \/ ReplaceStructure(r) \/ MarkChunked(r) \/ ReplaceChunks(r)
  PROVE  TypeOK'
<1>1. CASE ConsultStructure(r)
  <2>1. bound' \in [Runs -> SUBSET Document]
    BY <1>1, ConfigsAssumption DEF ConsultStructure, TypeOK, Config
  <2> QED
    BY <1>1, <2>1 DEF ConsultStructure, Goto, TypeOK, PC, dataVars, historyVars
<1>2. CASE UseStructure(r)
  <2>1. plan' \in [Runs -> SUBSET Structure]
    BY <1>2 DEF UseStructure, TypeOK, Derived
  <2> QED
    BY <1>2, <2>1 DEF UseStructure, Goto, TypeOK, PC, Status, dataVars, historyVars
<1>3. CASE InvalidateIndex(r)
  BY <1>3 DEF InvalidateIndex, Goto, TypeOK, PC, dataVars, runVars, historyVars
<1>4. CASE ReplaceStructure(r)
  <2>1. plan' \in [Runs -> SUBSET Structure]
    BY <1>4, BuiltTyped DEF ReplaceStructure, TypeOK
  <2>2. derived' \in Derived
    BY <1>4, <2>1 DEF ReplaceStructure, Restructured, Derived, TypeOK
  <2>3. index' \in SUBSET Index /\ vectors' \in [Level -> SUBSET Index]
        /\ locks' \in SUBSET Runs
    BY <1>4, DeindexedTyped DEF ReplaceStructure
  <2>4. torn' \in SUBSET {"hash", "index"}
    BY <1>4 DEF ReplaceStructure, Overtaken, TypeOK
  <2> QED
    BY <1>4, <2>1, <2>2, <2>3, <2>4 DEF ReplaceStructure, Goto, TypeOK, PC, Status
<1>5. CASE MarkChunked(r)
  BY <1>5 DEF MarkChunked, Goto, TypeOK, PC, Status, dataVars, runVars, historyVars
<1>6. CASE ReplaceChunks(r)
  <2>1. chunks' \in SUBSET Chunks
    BY <1>6, ChunkedTyped DEF ReplaceChunks
  <2>2. derived' \in Derived
    BY <1>6, ConfigsAssumption DEF ReplaceChunks, TypeOK, Derived, Config
  <2>3. index' \in SUBSET Index /\ vectors' \in [Level -> SUBSET Index]
        /\ locks' \in SUBSET Runs
    BY <1>6, DeindexedTyped DEF ReplaceChunks
  <2>4. torn' \in SUBSET {"hash", "index"}
    BY <1>6 DEF ReplaceChunks, Overtaken, TypeOK
  <2> QED
    BY <1>6, <2>1, <2>2, <2>3, <2>4 DEF ReplaceChunks, Goto, TypeOK, PC, Status, runVars
<1> QED
  BY <1>1, <1>2, <1>3, <1>4, <1>5, <1>6

(* The index is replaced, and a run ends. *)
LEMMA ClosingTyped ==
  ASSUME TypeOK, NEW r \in Runs,
         \/ ConsultState(r) \/ ReplaceIndex(r) \/ MarkIndexed(r)
         \/ Fail(r) \/ Crash(r)
  PROVE  TypeOK'
<1>1. CASE ConsultState(r)
  BY <1>1 DEF ConsultState, Goto, TypeOK, PC, dataVars, runVars, historyVars
<1>2. CASE ReplaceIndex(r)
  <2>1. index' \in SUBSET Index
    BY <1>2, IndexTyped DEF ReplaceIndex
  <2>2. vectors' \in [Level -> SUBSET Index]
    BY <1>2, <2>1 DEF ReplaceIndex
  <2> QED
    BY <1>2, <2>1, <2>2 DEF ReplaceIndex, Goto, TypeOK, PC, Status, runVars
<1>3. CASE MarkIndexed(r)
  BY <1>3 DEF MarkIndexed, Return, Goto, TypeOK, PC, Status, dataVars
<1>4. CASE Fail(r)
  BY <1>4 DEF Fail, Return, Goto, TypeOK, PC, Status, dataVars
<1>5. CASE Crash(r)
  BY <1>5 DEF Crash, Return, Goto, TypeOK, PC, dataVars
<1> QED
  BY <1>1, <1>2, <1>3, <1>4, <1>5

LEMMA NextTyped == TypeOK /\ [Next]_vars => TypeOK'
<1> SUFFICES ASSUME TypeOK, [Next]_vars PROVE TypeOK'
  OBVIOUS
<1>1. CASE Next
  <2> PICK r \in Runs : \/ \E c \in Configs, force \in BOOLEAN : Begin(r, c, force)
                        \/ Step(r)
                        \/ Fail(r)
                        \/ Crash(r)
    BY <1>1 DEF Next
  <2> QED
    BY OpeningTyped, ParsingTyped, DerivingTyped, ClosingTyped DEF Step
<1>2. CASE UNCHANGED vars
  BY <1>2 DEF vars, TypeOK
<1> QED
  BY <1>1, <1>2

(* Every reachable state is well typed. *)
THEOREM TypeCorrect == Spec => []TypeOK
  BY InitTyped, NextTyped, PTL DEF Spec

-----------------------------------------------------------------------------
(* Nothing outlives its source: inductive as it stands.                      *)

(* A replacement that was not overtaken leaves nothing of the index. *)
LEMMA NothingIndexed ==
  ASSUME NEW r \in Runs, NEW cascade, NEW what, Deindexed(r, cascade),
         "index" \notin Overtaken(r, what), \A l \in Level : vectors[l] = index
  PROVE  index' = {} /\ \A l \in Level : vectors'[l] = {}
<1>1. CASE r \in locks
  BY <1>1 DEF Deindexed
<1>2. CASE r \notin locks
  <2>1. index = {}
    BY <1>2 DEF Overtaken
  <2> QED
    BY <1>2, <2>1 DEF Deindexed
<1> QED
  BY <1>1, <1>2

(* Only three commits touch what it speaks of. *)
LEMMA StagesKeepSources ==
  ASSUME TypeOK, NothingOutlivesItsSource, NEW r \in Runs,
         ReplaceStructure(r) \/ ReplaceChunks(r) \/ ReplaceIndex(r)
  PROVE  NothingOutlivesItsSource'
<1>1. "chunk" \in Level /\ "section" \in Level
  BY DEF Level
<1>2. CASE ReplaceStructure(r)
  <2>1. /\ chunks' = {} /\ derived'.chunker = {}
        /\ vectors'["chunk"] = {} /\ vectors'["section"] = {}
    BY <1>1, <1>2 DEF ReplaceStructure, Restructured, Deindexed
  <2>2. ASSUME "index" \notin torn' PROVE index' = {} /\ \A l \in Level : vectors'[l] = {}
    <3> DEFINE what == IF bound[r] = rows[cfg[r].parser] THEN torn ELSE torn \cup {"hash"}
    <3>1. torn' = Overtaken(r, what) /\ Deindexed(r, {"section", "chunk"})
      BY <1>2 DEF ReplaceStructure
    <3>2. "index" \notin torn
      BY <2>2, <3>1 DEF Overtaken
    <3> QED
      BY <2>2, <3>1, <3>2, NothingIndexed DEF NothingOutlivesItsSource
  <2> QED
    BY <2>1, <2>2 DEF NothingOutlivesItsSource
<1>3. CASE ReplaceChunks(r)
  <2>1. derived'.built = derived.built /\ derived'.built # {} /\ derived'.chunker # {}
    BY <1>3 DEF ReplaceChunks, TypeOK, Derived
  <2>2. /\ vectors'["chunk"] = {}
        /\ vectors'["section"] \in {{}, vectors["section"]}
    BY <1>1, <1>3 DEF ReplaceChunks, Deindexed
  <2>3. ASSUME "index" \notin torn' PROVE index' = {} /\ \A l \in Level : vectors'[l] = {}
    <3>1. torn' = Overtaken(r, torn) /\ Deindexed(r, {"chunk"})
      BY <1>3 DEF ReplaceChunks
    <3>2. "index" \notin torn
      BY <2>3, <3>1 DEF Overtaken
    <3> QED
      BY <2>3, <3>1, <3>2, NothingIndexed DEF NothingOutlivesItsSource
  <2> QED
    BY <2>1, <2>2, <2>3 DEF NothingOutlivesItsSource
<1>4. CASE ReplaceIndex(r)
  BY <1>1, <1>4 DEF ReplaceIndex, NothingOutlivesItsSource
<1> QED
  BY <1>2, <1>3, <1>4

LEMMA OtherStepsKeepSources ==
  ASSUME NothingOutlivesItsSource, UNCHANGED <<derived, chunks, index, vectors, torn>>
  PROVE  NothingOutlivesItsSource'
  BY DEF NothingOutlivesItsSource

LEMMA OtherStepsTouchNothing ==
  ASSUME NEW r \in Runs,
         \/ \E c \in Configs, force \in BOOLEAN : Begin(r, c, force)
         \/ CheckTarget(r) \/ LoadDocuments(r) \/ CheckIndex(r)
         \/ SaveMetadata(r) \/ SaveIdentity(r)
         \/ CheckParsed(r) \/ LoadParsed(r) \/ StartParsing(r)
         \/ ParseAndSave(r) \/ AddDocument(r)
         \/ ConsultStructure(r) \/ UseStructure(r) \/ InvalidateIndex(r)
         \/ MarkChunked(r) \/ ConsultState(r) \/ MarkIndexed(r) \/ Fail(r) \/ Crash(r)
  PROVE  UNCHANGED <<derived, chunks, index, vectors, torn>>
  BY DEF Begin, CheckTarget, LoadDocuments, CheckIndex, SaveMetadata,
         SaveIdentity, CheckParsed, LoadParsed, StartParsing, ParseAndSave,
         AddDocument, ConsultStructure, UseStructure, InvalidateIndex, MarkChunked,
         ConsultState, MarkIndexed, Fail, Crash, dataVars, indexVars, historyVars

LEMMA NextKeepsSources ==
  TypeOK /\ NothingOutlivesItsSource /\ [Next]_vars => NothingOutlivesItsSource'
<1> SUFFICES ASSUME TypeOK, NothingOutlivesItsSource, [Next]_vars
             PROVE  NothingOutlivesItsSource'
  OBVIOUS
<1>1. CASE Next
  <2> PICK r \in Runs : \/ \E c \in Configs, force \in BOOLEAN : Begin(r, c, force)
                        \/ Step(r)
                        \/ Fail(r)
                        \/ Crash(r)
    BY <1>1 DEF Next
  <2> QED
    BY StagesKeepSources, OtherStepsKeepSources, OtherStepsTouchNothing DEF Step
<1>2. CASE UNCHANGED vars
  BY <1>2, OtherStepsKeepSources DEF vars
<1> QED
  BY <1>1, <1>2

LEMMA SourcesAtFirst == Init => NothingOutlivesItsSource
<1> SUFFICES ASSUME Init PROVE NothingOutlivesItsSource
  OBVIOUS
<1>1. \A l \in Level : vectors[l] = {}
  BY DEF Init
<1>2. index = {} /\ chunks = {} /\ derived.chunker = {}
  BY DEF Init, NothingDerived
<1> QED
  BY <1>1, <1>2 DEF NothingOutlivesItsSource, Level

(* However runs overlap, die and change the configuration, no vector refers   *)
(* to a section or a chunk, and no chunk to a structure, that is gone; and     *)
(* until a replacement is overtaken by an index, the vectors of every level    *)
(* are those the state of the index speaks of.                                *)
THEOREM SourcesOutlive == Spec => []NothingOutlivesItsSource
  BY SourcesAtFirst, NextKeepsSources, TypeCorrect, PTL DEF Spec

-----------------------------------------------------------------------------
(* Until runs overlap: the inductive invariant.                              *)

AtMostOne(S) == \A x, y \in S : x = y

(* What the tables and the file say of each other when at most one run is in  *)
(* flight, wherever the runs before it were cut off.                          *)
DataInv ==
  /\ AtMostOne(file) /\ AtMostOne(derived.built)
  /\ (\E p \in Parser : rows[p] # {}) => file # {}
  /\ \A k \in derived.chunker : chunks = {<<s, k>> : s \in derived.built}
  /\ \A l \in Level : vectors[l] = index
  /\ torn = {}
  /\ status = "indexed" => known /\ \E c \in served : Complete(c)

Opening == {"idle", "check", "metadata", "identity"}
Restructuring == {"structure", "restructure", "rebuild"}
Rechunking == {"chunk", "rechunk"}
Working == {"parsed", "load", "start_parse", "parse", "add", "reuse", "reuse_chunks",
            "chunked", "documents", "state", "embed"} \cup Restructuring \cup Rechunking

(* What the run in flight has made sure of. *)
RunInv(r) ==
  /\ pc[r] \notin Opening => known
  /\ pc[r] \in Working => status # "indexed"
  /\ pc[r] \in {"load"} \cup Restructuring => HasCurrentDocument(cfg[r])
  /\ pc[r] \in {"add"} \cup Restructuring =>
       document[r] # {} /\ AtMostOne(document[r]) /\ file # {}
  /\ pc[r] \in {"restructure", "rebuild"} => bound[r] = rows[cfg[r].parser]
  /\ pc[r] \in {"reuse"} \cup Rechunking => StructureIsCurrent(cfg[r])
  /\ pc[r] \in Rechunking => plan[r] = derived.built
  /\ pc[r] \in {"rebuild", "rechunk"} /\ r \notin locks => index = {}
  /\ pc[r] \in {"check_index", "check_state", "reuse_chunks", "chunked", "documents", "state",
               "embed"} =>
       ChunksAreCurrent(cfg[r])
  /\ pc[r] \in {"check_state", "state", "embed"} => texts[r] = chunks
  /\ pc[r] = "done" => Complete(cfg[r])
  /\ settled[r] /\ pc[r] # "idle" =>
       /\ pc[r] \in {"check", "check_index", "check_state", "done"}
       /\ known /\ ~ forced[r] /\ Complete(cfg[r])

SoloInv ==
  ~ overlapped =>
    /\ \A r, q \in Runs : pc[r] # "idle" /\ pc[q] # "idle" => r = q
    /\ DataInv
    /\ \A r \in Runs : RunInv(r)

(* An index that is current is that of all there is to index, and the other    *)
(* way round.                                                                *)
LEMMA CurrentIsComplete ==
  ASSUME DataInv, NEW r \in Runs, ChunksAreCurrent(cfg[r]), texts[r] = chunks
  PROVE  IndexIsCurrent(r) <=> Complete(cfg[r])
<1> DEFINE k == cfg[r].chunker
<1>1. chunks = {<<s, k>> : s \in derived.built}
  BY DEF DataInv, ChunksAreCurrent
<1>2. AtMostOne(chunks)
  BY <1>1 DEF DataInv, AtMostOne
<1>3. derived.hash = rows[cfg[r].parser] /\ derived.hash # {} /\ derived.chunker = {k}
  BY DEF ChunksAreCurrent, StructureIsCurrent, HasCurrentDocument
<1>4. PICK s \in derived.built : s[2] = cfg[r].structurer
  BY DEF ChunksAreCurrent, StructureIsCurrent
<1>5. PICK t : t \in chunks /\ chunks = {t}
  <2>1. <<s, k>> \in chunks
    BY <1>1
  <2>2. chunks = {<<s, k>>}
    BY <1>2, <2>1 DEF AtMostOne
  <2> QED
    BY <2>1, <2>2
<1>6. IndexIsCurrent(r) <=> index = {<<t, cfg[r].embedder>>}
  BY <1>5 DEF IndexIsCurrent
<1>7. {<<x, cfg[r].embedder>> : x \in chunks} = {<<t, cfg[r].embedder>>}
  BY <1>5
<1> QED
  BY <1>1, <1>3, <1>4, <1>6, <1>7 DEF Complete, DataInv

LEMMA CompleteIsCurrent ==
  ASSUME NEW c, Complete(c) PROVE HasCurrentDocument(c) /\ StructureIsCurrent(c) /\ ChunksAreCurrent(c)
  BY DEF Complete, HasCurrentDocument, StructureIsCurrent, ChunksAreCurrent

(* Steps that leave the tables as they are, and the word "indexed" untouched. *)
LEMMA DataStays ==
  ASSUME DataInv, UNCHANGED <<rows, file, derived, chunks, index, vectors, torn, served>>,
         known => known', status' \in {status} \cup (Status \ {"indexed"})
  PROVE  DataInv'
  BY DEF DataInv, Complete, AtMostOne

(* The run that moves is the only one in flight. *)
LEMMA OneMoves ==
  ASSUME TypeOK, SoloInv, NEW r \in Runs, NEW next \in PC, Goto(r, next), pc[r] # "idle",
         ~ overlapped => DataInv' /\ RunInv(r)', overlapped' = overlapped
  PROVE  SoloInv'
<1> SUFFICES ASSUME ~ overlapped
             PROVE  /\ \A p, q \in Runs : pc'[p] # "idle" /\ pc'[q] # "idle" => p = q
                    /\ DataInv'
                    /\ \A q \in Runs : RunInv(q)'
  BY DEF SoloInv
<1>1. \A q \in Runs \ {r} : pc[q] = "idle" /\ pc'[q] = "idle"
  BY DEF SoloInv, Goto, TypeOK
<1>2. ASSUME NEW q \in Runs \ {r} PROVE RunInv(q)'
  BY <1>1 DEF RunInv, Opening, Working, Restructuring, Rechunking
<1> QED
  BY <1>1, <1>2

LEMMA SoloBegins ==
  ASSUME TypeOK, SoloInv, NEW r \in Runs, NEW c \in Configs, NEW force \in BOOLEAN,
         Begin(r, c, force)
  PROVE  SoloInv'
<1> SUFFICES ASSUME ~ overlapped, Idle
             PROVE  /\ \A p, q \in Runs : pc'[p] # "idle" /\ pc'[q] # "idle" => p = q
                    /\ DataInv'
                    /\ \A q \in Runs : RunInv(q)'
  BY DEF SoloInv, Begin
<1>1. /\ pc'[r] = "check" /\ cfg'[r] = c /\ forced'[r] = force
      /\ settled'[r] = (status = "indexed" /\ served = {c} /\ ~ force)
      /\ \A q \in Runs \ {r} : pc'[q] = "idle"
      /\ UNCHANGED <<known, status, rows, file, derived, chunks, index, vectors, torn, served>>
  BY DEF Begin, Goto, TypeOK, dataVars, Idle
<1>2. DataInv /\ DataInv'
  BY <1>1, DataStays DEF SoloInv
<1>3. ASSUME NEW q \in Runs \ {r} PROVE RunInv(q)'
  BY <1>1 DEF RunInv, Opening, Working, Restructuring, Rechunking
<1>4. RunInv(r)'
  <2>1. settled'[r] => known /\ ~ forced'[r] /\ Complete(c)
    BY <1>1, <1>2 DEF DataInv
  <2>2. Complete(c) => Complete(c)'
    BY <1>1 DEF Complete
  <2> QED
    BY <1>1, <2>1, <2>2 DEF RunInv, Opening, Working, Restructuring, Rechunking
<1> QED
  BY <1>1, <1>2, <1>3, <1>4

(* What a run in flight reads, decides and marks. *)
LEMMA SoloOpens ==
  ASSUME TypeOK, SoloInv, NEW r \in Runs,
         CheckTarget(r) \/ SaveMetadata(r) \/ SaveIdentity(r) \/ CheckParsed(r) \/ StartParsing(r)
  PROVE  SoloInv'
<1>1. /\ UNCHANGED <<rows, file, derived, chunks, index, vectors, torn, served, cfg, forced,
                     settled, overlapped, document, plan, texts>>
      /\ pc[r] # "idle" /\ (known => known')
  BY DEF CheckTarget, SaveMetadata, SaveIdentity, CheckParsed, StartParsing, dataVars,
         runVars, historyVars
<1>2. status' \in {status} \cup (Status \ {"indexed"})
  BY DEF CheckTarget, SaveMetadata, SaveIdentity, CheckParsed, StartParsing, Status
<1>3. ASSUME ~ overlapped PROVE DataInv' /\ RunInv(r)
  BY <1>1, <1>2, <1>3, DataStays DEF SoloInv
<1>4. \A c : /\ Complete(c)' <=> Complete(c)
             /\ HasCurrentDocument(c)' <=> HasCurrentDocument(c)
             /\ ChunksAreCurrent(c)' <=> ChunksAreCurrent(c)
  BY <1>1 DEF Complete, HasCurrentDocument, ChunksAreCurrent, StructureIsCurrent
<1>5. CASE CheckTarget(r)
  <2>1. PICK next \in {"check_index", "metadata", "identity"} :
          /\ Goto(r, next)
          /\ next = "check_index" <=> known /\ ~ forced[r] /\ ChunksAreCurrent(cfg[r])
          /\ next = "metadata" <=> ~ known \/ forced[r]
    BY <1>5 DEF CheckTarget
  <2>2. pc'[r] = next /\ pc[r] = "check"
    BY <1>5, <2>1 DEF Goto, TypeOK, CheckTarget
  <2>3. ASSUME ~ overlapped PROVE RunInv(r)'
    <3>1. settled[r] => next = "check_index"
      BY <1>3, <2>1, <2>2, <2>3, CompleteIsCurrent DEF RunInv
    <3>2. known' = known
      BY <1>5 DEF CheckTarget
    <3> QED
      BY <1>1, <1>3, <1>4, <2>1, <2>2, <2>3, <3>1, <3>2 DEF RunInv, Opening, Working, Restructuring, Rechunking
  <2>4. next \in PC
    BY <2>1 DEF PC
  <2> QED
    BY <1>1, <1>3, <2>1, <2>3, <2>4, OneMoves
<1>6. CASE SaveMetadata(r)
  <2>1. Goto(r, "identity") /\ pc'[r] = "identity" /\ pc[r] = "metadata"
    BY <1>6 DEF Goto, TypeOK, SaveMetadata
  <2>2. ASSUME ~ overlapped PROVE RunInv(r)'
    BY <1>1, <1>3, <2>1, <2>2 DEF RunInv, Opening, Working, Restructuring, Rechunking
  <2> QED
    BY <1>1, <1>3, <2>1, <2>2, OneMoves DEF PC
<1>7. CASE SaveIdentity(r)
  <2>1. Goto(r, "parsed") /\ pc'[r] = "parsed" /\ pc[r] = "identity" /\ known' = TRUE
        /\ status' # "indexed"
    BY <1>7 DEF Goto, TypeOK, SaveIdentity
  <2>2. ASSUME ~ overlapped PROVE RunInv(r)'
    BY <1>1, <1>3, <2>1, <2>2 DEF RunInv, Opening, Working, Restructuring, Rechunking
  <2> QED
    BY <1>1, <1>3, <2>1, <2>2, OneMoves DEF PC
<1>8. CASE CheckParsed(r)
  <2>1. PICK next \in {"load", "start_parse"} :
          Goto(r, next) /\ (next = "load" => HasCurrentDocument(cfg[r]))
    BY <1>8 DEF CheckParsed
  <2>2. pc'[r] = next /\ pc[r] = "parsed" /\ known' = known /\ status' \in {status, "parsed"}
    BY <1>8, <2>1 DEF Goto, TypeOK, CheckParsed
  <2>3. ASSUME ~ overlapped PROVE RunInv(r)'
    BY <1>1, <1>3, <1>4, <2>1, <2>2, <2>3 DEF RunInv, Opening, Working, Restructuring, Rechunking
  <2>4. next \in PC
    BY <2>1 DEF PC
  <2> QED
    BY <1>1, <1>3, <2>1, <2>3, <2>4, OneMoves
<1>9. CASE StartParsing(r)
  <2>1. Goto(r, "parse") /\ pc'[r] = "parse" /\ pc[r] = "start_parse" /\ known' = known
        /\ status' = "parsing"
    BY <1>9 DEF Goto, TypeOK, StartParsing
  <2>2. ASSUME ~ overlapped PROVE RunInv(r)'
    BY <1>1, <1>3, <2>1, <2>2 DEF RunInv, Opening, Working, Restructuring, Rechunking
  <2> QED
    BY <1>1, <1>3, <2>1, <2>2, OneMoves DEF PC
<1> QED
  BY <1>5, <1>6, <1>7, <1>8, <1>9

(* The run loads the documents and compares them with the index. *)
LEMMA SoloChecksIndex ==
  ASSUME TypeOK, SoloInv, NEW r \in Runs,
         LoadDocuments(r) \/ CheckIndex(r) \/ ConsultState(r) \/ MarkChunked(r)
  PROVE  SoloInv'
<1>1. /\ UNCHANGED <<known, rows, file, derived, chunks, index, vectors, torn, served, cfg,
                     forced, settled, overlapped, document, plan>>
      /\ pc[r] # "idle" /\ status' \in {status, "chunked"}
  BY DEF LoadDocuments, CheckIndex, ConsultState, MarkChunked, dataVars, runVars, historyVars
<1>2. ASSUME ~ overlapped PROVE DataInv /\ DataInv' /\ RunInv(r)
  BY <1>1, <1>2, DataStays DEF SoloInv, Status
<1>3. \A c : /\ Complete(c)' <=> Complete(c)
             /\ HasCurrentDocument(c)' <=> HasCurrentDocument(c)
             /\ ChunksAreCurrent(c)' <=> ChunksAreCurrent(c)
  BY <1>1 DEF Complete, HasCurrentDocument, ChunksAreCurrent, StructureIsCurrent
<1>4. CASE LoadDocuments(r)
  <2>1. PICK next \in {"check_state", "state"} :
          Goto(r, next) /\ (next = "state" <=> pc[r] = "documents")
    BY <1>4 DEF LoadDocuments
  <2>2. /\ pc'[r] = next /\ pc[r] \in {"check_index", "documents"} /\ status' = status
        /\ texts'[r] = chunks
    BY <1>4, <2>1 DEF Goto, TypeOK, LoadDocuments
  <2>3. ASSUME ~ overlapped PROVE RunInv(r)'
    BY <1>1, <1>2, <1>3, <2>1, <2>2, <2>3 DEF RunInv, Opening, Working, Restructuring, Rechunking
  <2>4. next \in PC
    BY <2>1 DEF PC
  <2> QED
    BY <1>1, <1>2, <2>1, <2>3, <2>4, OneMoves
<1>5. CASE CheckIndex(r)
  <2>1. PICK next \in {"done", "identity"} :
          Goto(r, next) /\ (next = "done" <=> IndexIsCurrent(r))
    BY <1>5 DEF CheckIndex
  <2>2. pc'[r] = next /\ pc[r] = "check_state" /\ status' = status /\ texts' = texts
    BY <1>5, <2>1 DEF Goto, TypeOK, CheckIndex, runVars
  <2>3. ASSUME ~ overlapped PROVE RunInv(r)'
    <3>1. IndexIsCurrent(r) <=> Complete(cfg[r])
      BY <1>2, <2>2, <2>3, CurrentIsComplete DEF RunInv
    <3> QED
      BY <1>1, <1>2, <1>3, <2>1, <2>2, <2>3, <3>1 DEF RunInv, Opening, Working, Restructuring, Rechunking
  <2>4. next \in PC
    BY <2>1 DEF PC
  <2> QED
    BY <1>1, <1>2, <2>1, <2>3, <2>4, OneMoves
<1>6. CASE ConsultState(r)
  <2>1. PICK next \in {"done", "embed"} :
          Goto(r, next) /\ (next = "done" => IndexIsCurrent(r))
    BY <1>6 DEF ConsultState
  <2>2. pc'[r] = next /\ pc[r] = "state" /\ status' = status /\ texts' = texts
    BY <1>6, <2>1 DEF Goto, TypeOK, ConsultState, runVars
  <2>3. ASSUME ~ overlapped PROVE RunInv(r)'
    <3>1. IndexIsCurrent(r) <=> Complete(cfg[r])
      BY <1>2, <2>2, <2>3, CurrentIsComplete DEF RunInv
    <3> QED
      BY <1>1, <1>2, <1>3, <2>1, <2>2, <2>3, <3>1 DEF RunInv, Opening, Working, Restructuring, Rechunking
  <2>4. next \in PC
    BY <2>1 DEF PC
  <2> QED
    BY <1>1, <1>2, <2>1, <2>3, <2>4, OneMoves
<1>7. CASE MarkChunked(r)
  <2>1. Goto(r, "documents") /\ pc'[r] = "documents" /\ pc[r] = "chunked"
        /\ status' = "chunked"
    BY <1>7 DEF Goto, TypeOK, MarkChunked
  <2>2. ASSUME ~ overlapped PROVE RunInv(r)'
    BY <1>1, <1>2, <1>3, <2>1, <2>2 DEF RunInv, Opening, Working, Restructuring, Rechunking
  <2> QED
    BY <1>1, <1>2, <2>1, <2>2, OneMoves DEF PC
<1> QED
  BY <1>4, <1>5, <1>6, <1>7

(* The run gets its document. *)
LEMMA SoloParses ==
  ASSUME TypeOK, SoloInv, NEW r \in Runs, LoadParsed(r) \/ ParseAndSave(r) \/ AddDocument(r)
  PROVE  SoloInv'
<1>1. /\ UNCHANGED <<known, derived, chunks, index, vectors, torn, served, cfg, forced, settled,
                     overlapped, plan>>
      /\ pc[r] # "idle" /\ cfg[r] \in Config /\ cfg[r].parser \in Parser
  BY ConfigsAssumption DEF LoadParsed, ParseAndSave, AddDocument, dataVars, indexVars, runVars,
     historyVars, TypeOK, Config
<1>2. ASSUME ~ overlapped PROVE DataInv /\ RunInv(r)
  BY <1>2 DEF SoloInv
<1>3. CASE LoadParsed(r)
  <2>1. /\ Goto(r, "structure") /\ pc'[r] = "structure" /\ pc[r] = "load"
        /\ UNCHANGED <<status, rows, file>>
        /\ document'[r] = file /\ file # {}
    BY <1>3 DEF Goto, TypeOK, LoadParsed, dataVars
  <2>2. ASSUME ~ overlapped PROVE DataInv' /\ RunInv(r)'
    <3>1. DataInv'
      BY <1>1, <1>2, <2>1, <2>2, DataStays
    <3>2. AtMostOne(document'[r])
      BY <1>2, <2>1, <2>2 DEF DataInv
    <3> QED
      BY <1>1, <1>2, <2>1, <2>2, <3>1, <3>2 DEF RunInv, Opening, Working, Restructuring, Rechunking, HasCurrentDocument, AtMostOne
  <2> QED
    BY <1>1, <2>1, <2>2, OneMoves DEF PC
<1>4. CASE ParseAndSave(r)
  <2>1. /\ Goto(r, "add") /\ pc'[r] = "add" /\ pc[r] = "parse"
        /\ UNCHANGED <<status, rows>>
        /\ document'[r] = {<<cfg[r].parser, parses + 1>>} /\ file' = document'[r]
    BY <1>4 DEF Goto, TypeOK, ParseAndSave
  <2>2. ASSUME ~ overlapped PROVE DataInv' /\ RunInv(r)'
    <3>1. AtMostOne(document'[r]) /\ AtMostOne(file') /\ file' # {} /\ document'[r] # {}
      BY <2>1 DEF AtMostOne
    <3>2. DataInv'
      BY <1>1, <1>2, <2>1, <2>2, <3>1 DEF DataInv, RunInv, Working, Restructuring, Rechunking
    <3> QED
      BY <1>1, <1>2, <2>1, <2>2, <3>1, <3>2 DEF RunInv, Opening, Working, Restructuring, Rechunking, AtMostOne
  <2> QED
    BY <1>1, <2>1, <2>2, OneMoves DEF PC
<1>5. CASE AddDocument(r)
  <2>1. /\ Goto(r, "structure") /\ pc'[r] = "structure" /\ pc[r] = "add"
        /\ status' = "parsed" /\ UNCHANGED <<file, document>>
        /\ rows' = [rows EXCEPT ![cfg[r].parser] = document[r]]
    BY <1>5 DEF Goto, TypeOK, AddDocument, runVars
  <2>2. rows'[cfg[r].parser] = document[r]
    BY <1>1, <2>1 DEF TypeOK
  <2>3. ASSUME ~ overlapped PROVE DataInv' /\ RunInv(r)'
    <3>1. document[r] # {} /\ AtMostOne(document[r]) /\ file # {}
      BY <1>2, <2>1, <2>3 DEF RunInv
    <3>2. DataInv'
      BY <1>1, <1>2, <2>1, <2>3, <3>1 DEF DataInv, AtMostOne
    <3> QED
      BY <1>1, <1>2, <2>1, <2>2, <2>3, <3>1, <3>2
      DEF RunInv, Opening, Working, Restructuring, Rechunking, AtMostOne, HasCurrentDocument
  <2> QED
    BY <1>1, <2>1, <2>3, OneMoves DEF PC
<1> QED
  BY <1>3, <1>4, <1>5

(* The run decides about the structure. *)
LEMMA SoloConsults ==
  ASSUME TypeOK, SoloInv, NEW r \in Runs,
         ConsultStructure(r) \/ UseStructure(r) \/ InvalidateIndex(r)
  PROVE  SoloInv'
<1>1. /\ UNCHANGED <<known, rows, file, derived, chunks, index, vectors, torn, served, cfg,
                     forced, settled, overlapped, document>>
      /\ pc[r] # "idle" /\ status' \in {status, "structured"}
  BY DEF ConsultStructure, UseStructure, InvalidateIndex, historyVars, dataVars, runVars
<1>2. ASSUME ~ overlapped PROVE DataInv /\ DataInv' /\ RunInv(r)
  BY <1>1, <1>2, DataStays DEF SoloInv, Status
<1>3. /\ HasCurrentDocument(cfg[r])' <=> HasCurrentDocument(cfg[r])
      /\ StructureIsCurrent(cfg[r])' <=> StructureIsCurrent(cfg[r])
      /\ ChunksAreCurrent(cfg[r])' <=> ChunksAreCurrent(cfg[r])
  BY <1>1 DEF StructureIsCurrent, ChunksAreCurrent, HasCurrentDocument
<1>4. CASE ConsultStructure(r)
  <2>1. PICK next \in {"restructure", "reuse_chunks", "reuse"} :
          /\ Goto(r, next)
          /\ next = "reuse" => StructureIsCurrent(cfg[r])
          /\ next = "reuse_chunks" => ChunksAreCurrent(cfg[r])
    BY <1>4 DEF ConsultStructure
  <2>2. /\ pc'[r] = next /\ pc[r] = "structure" /\ status' = status
        /\ bound'[r] = rows[cfg[r].parser]
    BY <1>4, <2>1 DEF Goto, TypeOK, ConsultStructure
  <2>3. ASSUME ~ overlapped PROVE RunInv(r)'
    BY <1>1, <1>2, <1>3, <2>1, <2>2, <2>3
    DEF RunInv, Opening, Working, Restructuring, Rechunking, AtMostOne
  <2>4. next \in PC
    BY <2>1 DEF PC
  <2> QED
    BY <1>1, <1>2, <2>1, <2>3, <2>4, OneMoves
<1>5. CASE UseStructure(r)
  <2>1. PICK next \in {"chunked", "chunk"} :
          Goto(r, next) /\ (next = "chunk" <=> pc[r] = "reuse")
    BY <1>5 DEF UseStructure
  <2>2. /\ pc'[r] = next /\ pc[r] \in {"reuse", "reuse_chunks"} /\ status' = "structured"
        /\ plan'[r] = derived.built
    BY <1>5, <2>1 DEF Goto, TypeOK, UseStructure
  <2>3. ASSUME ~ overlapped PROVE RunInv(r)'
    BY <1>1, <1>2, <1>3, <2>1, <2>2, <2>3
    DEF RunInv, Opening, Working, Restructuring, Rechunking
  <2>4. next \in PC
    BY <2>1 DEF PC
  <2> QED
    BY <1>1, <1>2, <2>1, <2>3, <2>4, OneMoves
<1>6. CASE InvalidateIndex(r)
  <2>1. PICK next \in {"rechunk", "rebuild"} :
          Goto(r, next) /\ (next = "rechunk" <=> pc[r] = "chunk")
    BY <1>6 DEF InvalidateIndex
  <2>2. /\ pc'[r] = next /\ pc[r] \in {"restructure", "chunk"} /\ status' = status
        /\ bound' = bound /\ plan' = plan
        /\ r \notin locks' => index = {}
    BY <1>6, <2>1 DEF Goto, TypeOK, InvalidateIndex, runVars
  <2>3. ASSUME ~ overlapped PROVE RunInv(r)'
    BY <1>1, <1>2, <1>3, <2>1, <2>2, <2>3
    DEF RunInv, Opening, Working, Restructuring, Rechunking, AtMostOne
  <2>4. next \in PC
    BY <2>1 DEF PC
  <2> QED
    BY <1>1, <1>2, <2>1, <2>3, <2>4, OneMoves
<1> QED
  BY <1>4, <1>5, <1>6

(* A run that is alone leaves nothing of the index with what it replaces. *)
LEMMA SoloDeindexes ==
  ASSUME NEW r \in Runs, NEW cascade, Deindexed(r, cascade),
         \A l \in Level : vectors[l] = index, r \notin locks => index = {}
  PROVE  /\ index' = {} /\ \A l \in Level : vectors'[l] = {}
         /\ \A what : Overtaken(r, what) = what
  BY DEF Deindexed, Overtaken

(* The run replaces the structure and the chunks. *)
LEMMA SoloDerives ==
  ASSUME TypeOK, SoloInv, NEW r \in Runs, ReplaceStructure(r) \/ ReplaceChunks(r)
  PROVE  SoloInv'
<1>1. /\ UNCHANGED <<known, rows, file, served, cfg, forced, settled, overlapped, document>>
      /\ pc[r] # "idle" /\ status' \in {"structured", "chunked"}
  BY DEF ReplaceStructure, ReplaceChunks, runVars
<1>2. ASSUME ~ overlapped PROVE DataInv /\ RunInv(r)
  BY <1>2 DEF SoloInv
<1>3. ASSUME ~ overlapped
      PROVE  torn' = {} /\ index' = {} /\ \A l \in Level : vectors'[l] = index'
  <2>1. PICK cascade, what :
          /\ Deindexed(r, cascade) /\ torn' = Overtaken(r, what)
          /\ what = torn \/ (pc[r] = "rebuild" /\ bound[r] # rows[cfg[r].parser])
    BY DEF ReplaceStructure, ReplaceChunks
  <2>2. /\ r \notin locks => index = {}
        /\ \A l \in Level : vectors[l] = index
        /\ torn = {} /\ (pc[r] = "rebuild" => bound[r] = rows[cfg[r].parser])
    BY <1>2, <1>3 DEF DataInv, RunInv, ReplaceStructure, ReplaceChunks
  <2>3. /\ index' = {} /\ \A l \in Level : vectors'[l] = {}
        /\ torn' = what
    BY <2>1, <2>2, SoloDeindexes
  <2> QED
    BY <2>1, <2>2, <2>3
<1>4. CASE ReplaceStructure(r)
  <2>1. /\ Goto(r, "chunk") /\ pc'[r] = "chunk" /\ pc[r] = "rebuild"
        /\ plan'[r] = {<<d[1], cfg[r].structurer>> : d \in document[r]}
        /\ derived' = [built |-> plan'[r], hash |-> bound[r], chunker |-> {}]
        /\ chunks' = {}
    BY <1>4 DEF Goto, TypeOK, ReplaceStructure, Restructured
  <2>2. /\ derived'.built = plan'[r] /\ derived'.hash = bound[r]
        /\ derived'.chunker = {}
    BY <2>1
  <2>3. ASSUME ~ overlapped PROVE DataInv' /\ RunInv(r)'
    <3>1. PICK d \in document[r] : HasCurrentDocument(cfg[r])
      BY <1>2, <2>1, <2>3 DEF RunInv, Restructuring
    <3>2. AtMostOne(plan'[r]) /\ bound[r] = rows[cfg[r].parser]
      BY <1>2, <2>1, <2>3 DEF RunInv, AtMostOne, Restructuring
    <3>3. <<d[1], cfg[r].structurer>> \in derived'.built
      BY <2>1, <2>2, <3>1
    <3>4. StructureIsCurrent(cfg[r])'
      BY <1>1, <2>2, <3>1, <3>2, <3>3 DEF StructureIsCurrent, HasCurrentDocument
    <3>5. DataInv'
      BY <1>1, <1>2, <1>3, <2>2, <2>3, <3>2 DEF DataInv, AtMostOne
    <3>6. HasCurrentDocument(cfg[r])'
      BY <1>1, <3>1 DEF HasCurrentDocument
    <3> QED
      BY <1>1, <1>2, <2>1, <2>2, <2>3, <3>4, <3>5, <3>6
      DEF RunInv, Opening, Working, Restructuring, Rechunking
  <2> QED
    BY <1>1, <2>1, <2>3, OneMoves DEF PC
<1>5. CASE ReplaceChunks(r)
  <2>1. /\ Goto(r, "documents") /\ pc'[r] = "documents" /\ pc[r] = "rechunk"
        /\ derived'.built = derived.built /\ derived'.hash = derived.hash
        /\ derived'.chunker = {cfg[r].chunker}
        /\ chunks' = {<<s, cfg[r].chunker>> : s \in plan[r]}
    BY <1>5 DEF Goto, TypeOK, ReplaceChunks, Derived
  <2>2. ASSUME ~ overlapped PROVE DataInv' /\ RunInv(r)'
    <3>1. StructureIsCurrent(cfg[r]) /\ plan[r] = derived.built
      BY <1>2, <2>1, <2>2 DEF RunInv, Rechunking
    <3>2. ChunksAreCurrent(cfg[r])'
      BY <1>1, <2>1, <3>1 DEF ChunksAreCurrent, StructureIsCurrent, HasCurrentDocument
    <3>3. DataInv'
      BY <1>1, <1>2, <1>3, <2>1, <2>2, <3>1 DEF DataInv, AtMostOne
    <3> QED
      BY <1>1, <1>2, <2>1, <2>2, <3>2, <3>3
      DEF RunInv, Opening, Working, Restructuring, Rechunking
  <2> QED
    BY <1>1, <2>1, <2>2, OneMoves DEF PC
<1> QED
  BY <1>4, <1>5

(* The run indexes, and ends. *)
LEMMA SoloEnds ==
  ASSUME TypeOK, SoloInv, NEW r \in Runs,
         ReplaceIndex(r) \/ MarkIndexed(r) \/ Fail(r) \/ Crash(r)
  PROVE  SoloInv'
<1>1. /\ UNCHANGED <<known, rows, file, derived, chunks, torn, cfg, forced, settled, overlapped>>
      /\ pc[r] # "idle"
  BY DEF ReplaceIndex, MarkIndexed, Fail, Crash, Return, dataVars, runVars
<1>2. ASSUME ~ overlapped PROVE DataInv /\ RunInv(r)
  BY <1>2 DEF SoloInv
<1>3. CASE ReplaceIndex(r)
  <2>1. /\ Goto(r, "done") /\ pc'[r] = "done" /\ pc[r] = "embed"
        /\ index' = {<<t, cfg[r].embedder>> : t \in texts[r]} /\ served' = {cfg[r]}
        /\ \A l \in Level : vectors'[l] = index'
    BY <1>3 DEF Goto, TypeOK, ReplaceIndex
  <2>2. ASSUME ~ overlapped PROVE DataInv' /\ RunInv(r)'
    <3>1. ChunksAreCurrent(cfg[r]) /\ texts[r] = chunks /\ known
      BY <1>2, <2>1, <2>2 DEF RunInv, Opening
    <3>2. chunks = {<<s, cfg[r].chunker>> : s \in derived.built}
      BY <1>2, <2>2, <3>1 DEF DataInv, ChunksAreCurrent
    <3>3. Complete(cfg[r])'
      BY <1>1, <2>1, <3>1, <3>2
      DEF Complete, ChunksAreCurrent, StructureIsCurrent, HasCurrentDocument
    <3>4. DataInv'
      BY <1>1, <1>2, <2>1, <2>2, <3>1, <3>3 DEF DataInv, AtMostOne
    <3> QED
      BY <1>1, <1>2, <2>1, <2>2, <3>1, <3>3, <3>4 DEF RunInv, Opening, Working, Restructuring, Rechunking
  <2> QED
    BY <1>1, <2>1, <2>2, OneMoves DEF PC
<1>4. CASE MarkIndexed(r)
  <2>1. /\ Goto(r, "idle") /\ pc'[r] = "idle" /\ pc[r] = "done"
        /\ index' = index /\ vectors' = vectors /\ served' = {cfg[r]}
    BY <1>4 DEF Goto, TypeOK, MarkIndexed, Return, dataVars
  <2>2. ASSUME ~ overlapped PROVE DataInv' /\ RunInv(r)'
    <3>1. Complete(cfg[r]) /\ known
      BY <1>2, <2>1, <2>2 DEF RunInv, Opening
    <3>2. Complete(cfg[r])'
      BY <1>1, <2>1, <3>1 DEF Complete
    <3>3. DataInv'
      BY <1>1, <1>2, <2>1, <2>2, <3>1, <3>2 DEF DataInv, AtMostOne
    <3> QED
      BY <2>1, <3>3 DEF RunInv, Opening, Working, Restructuring, Rechunking
  <2> QED
    BY <1>1, <2>1, <2>2, OneMoves DEF PC
<1>5. CASE Fail(r) \/ Crash(r)
  <2>1. /\ Goto(r, "idle") /\ pc'[r] = "idle" /\ UNCHANGED <<index, vectors, served>>
        /\ status' \in {status, "failed"}
    BY <1>5 DEF Goto, TypeOK, Fail, Crash, Return, dataVars
  <2>2. ASSUME ~ overlapped PROVE DataInv' /\ RunInv(r)'
    <3>1. DataInv'
      BY <1>1, <1>2, <2>1, <2>2, DataStays DEF Status
    <3> QED
      BY <2>1, <3>1 DEF RunInv, Opening, Working, Restructuring, Rechunking
  <2> QED
    BY <1>1, <2>1, <2>2, OneMoves DEF PC
<1> QED
  BY <1>3, <1>4, <1>5

LEMMA SoloNext == TypeOK /\ SoloInv /\ [Next]_vars => SoloInv'
<1> SUFFICES ASSUME TypeOK, SoloInv, [Next]_vars PROVE SoloInv'
  OBVIOUS
<1>1. CASE Next
  <2> PICK r \in Runs : \/ \E c \in Configs, force \in BOOLEAN : Begin(r, c, force)
                        \/ Step(r)
                        \/ Fail(r)
                        \/ Crash(r)
    BY <1>1 DEF Next
  <2> QED
    BY SoloBegins, SoloOpens, SoloChecksIndex, SoloParses, SoloConsults, SoloDerives,
       SoloEnds DEF Step
<1>2. CASE UNCHANGED vars
  BY <1>2 DEF vars, SoloInv, DataInv, RunInv, AtMostOne, Complete, ChunksAreCurrent,
     StructureIsCurrent, HasCurrentDocument
<1> QED
  BY <1>1, <1>2

LEMMA Solo == Spec => [](TypeOK /\ SoloInv)
<1>1. Init => SoloInv
  <2> SUFFICES ASSUME Init PROVE SoloInv
    OBVIOUS
  <2>1. DataInv
    BY DEF Init, DataInv, NothingDerived, AtMostOne
  <2>2. \A r \in Runs : pc[r] = "idle"
    BY DEF Init
  <2>3. \A r \in Runs : RunInv(r)
    BY <2>2 DEF RunInv, Opening, Working, Restructuring, Rechunking
  <2> QED
    BY <2>1, <2>2, <2>3 DEF SoloInv
<1> QED
  BY <1>1, SoloNext, TypeCorrect, PTL DEF Spec

(* IndexedStatusIsTrue: until runs overlap, whatever the runs before it left    *)
(* half done under whichever configuration, a version that says "indexed" is  *)
(* complete under the configuration that said so.                             *)
THEOREM IndexedIsComplete == Spec => []IndexedStatusIsTrue
<1>1. SoloInv => IndexedStatusIsTrue
  BY DEF SoloInv, DataInv, IndexedStatusIsTrue
<1> QED
  BY <1>1, Solo, PTL

(* EveryStageFindsItsInput: a run can take over after any crash and any change *)
(* of configuration.                                                         *)
THEOREM InputsAreThere == Spec => []EveryStageFindsItsInput
<1>1. TypeOK /\ SoloInv => EveryStageFindsItsInput
  <2> SUFFICES ASSUME TypeOK, SoloInv, ~ overlapped, NEW r \in Runs PROVE ~ Bereft(r)
    BY DEF EveryStageFindsItsInput
  <2>1. DataInv /\ RunInv(r) /\ cfg[r].parser \in Parser
    BY ConfigsAssumption DEF SoloInv, TypeOK, Config
  <2>2. pc[r] = "load" => file # {}
    BY <2>1 DEF DataInv, RunInv, HasCurrentDocument
  <2>3. pc[r] = "rechunk" => derived.built # {}
    BY <2>1 DEF RunInv, StructureIsCurrent, Rechunking
  <2>4. ASSUME pc[r] \in {"documents", "embed"} PROVE chunks # {}
    <3>1. ChunksAreCurrent(cfg[r])
      BY <2>1, <2>4 DEF RunInv
    <3>2. PICK s \in derived.built : cfg[r].chunker \in derived.chunker
      BY <3>1 DEF ChunksAreCurrent, StructureIsCurrent
    <3>3. <<s, cfg[r].chunker>> \in chunks
      BY <2>1, <3>2 DEF DataInv
    <3> QED
      BY <3>3
  <2> QED
    BY <2>2, <2>3, <2>4 DEF Bereft
<1> QED
  BY <1>1, Solo, PTL

(* SettledRunsDoNoWork: a run that finds its configuration served, and is not   *)
(* forced, parses, structures, chunks and embeds nothing.                     *)
THEOREM SettledRunsRest == Spec => []SettledRunsDoNoWork
<1>1. SoloInv => SettledRunsDoNoWork
  BY DEF SoloInv, RunInv, SettledRunsDoNoWork
<1> QED
  BY <1>1, Solo, PTL

-----------------------------------------------------------------------------
(* Runs of one configuration, however they overlap: the inductive invariant.  *)

Reindexing == Rechunking \cup {"chunked", "documents", "state", "embed"}
Late == {"check_index", "check_state", "reuse", "reuse_chunks", "done"} \cup Reindexing
Post == Late \ ({"reuse"} \cup Rechunking)

(* What the configuration of the run makes of its document: the structure and  *)
(* the chunks.                                                               *)
Want(r) == <<cfg[r].parser, cfg[r].structurer>>
WantChunks(r) == <<Want(r), cfg[r].chunker>>

OneConfig == \A r, q \in Runs : pc[r] # "idle" /\ pc[q] # "idle" => cfg[r] = cfg[q]

TablesAgree ==
  /\ \A p \in Parser : \A d \in rows[p] : d[1] = p
  /\ StructureMatchesItsHash
  /\ AtMostOne(derived.built)
  /\ derived.chunker = {} => chunks = {}
  /\ \A k \in derived.chunker : chunks = {<<s, k>> : s \in derived.built}

(* What holds of a run whatever became of those beside it. *)
RunAgrees(r) ==
  /\ pc[r] \in {"add"} \cup Restructuring =>
       document[r] # {} /\ \A d \in document[r] : d[1] = cfg[r].parser
  /\ pc[r] \in {"load"} \cup Restructuring \cup Late => HasCurrentDocument(cfg[r])
  /\ pc[r] \in Late => derived.built = {Want(r)}
  /\ pc[r] \in Rechunking => plan[r] = {Want(r)}
  /\ pc[r] \in Post => derived.chunker \in {{}, {cfg[r].chunker}}
  /\ pc[r] = "check_state" => texts[r] \subseteq {WantChunks(r)}
  /\ pc[r] \in {"state", "embed"} => texts[r] = {WantChunks(r)}

(* What it has seen done is done, or a run that undid it is about to do it     *)
(* again.                                                                    *)
ThereIs(stages) == \E q \in Runs : pc[q] \in stages
RunAwaits(r) ==
  /\ pc[r] \in Late => derived.hash = rows[cfg[r].parser] \/ ThereIs(Restructuring)
  /\ pc[r] \in Post => derived.chunker = {cfg[r].chunker} \/ ThereIs(Rechunking)
  /\ pc[r] = "done" =>
       index = {<<WantChunks(r), cfg[r].embedder>>} \/ ThereIs(Reindexing)

SharedInv ==
  /\ OneConfig
  /\ ~ misled /\ torn = {} =>
       /\ TablesAgree
       /\ \A r \in Runs : RunAgrees(r)
       /\ ~ troubled => \A r \in Runs : RunAwaits(r)
       /\ OverlappingRunsConverge

(* A structure that is current is that of the run's configuration. *)
LEMMA CurrentIsWanted ==
  ASSUME TypeOK, TablesAgree, NEW r \in Runs, StructureIsCurrent(cfg[r])
  PROVE  derived.built = {Want(r)} /\ derived.hash = rows[cfg[r].parser]
<1>1. PICK s \in derived.built : s[2] = cfg[r].structurer
  BY DEF StructureIsCurrent
<1>2. derived.hash = rows[cfg[r].parser] /\ cfg[r].parser \in Parser
  BY ConfigsAssumption DEF StructureIsCurrent, TypeOK, Config
<1>3. PICK d \in derived.hash : d[1] = cfg[r].parser
  BY <1>2 DEF StructureIsCurrent, HasCurrentDocument, TablesAgree
<1>4. s[1] = cfg[r].parser
  BY <1>3 DEF TablesAgree, StructureMatchesItsHash
<1>5. s \in Parser \X Structurer
  BY DEF TypeOK, Derived, Structure
<1>6. s = Want(r)
  BY <1>1, <1>4, <1>5 DEF Want
<1> QED
  BY <1>1, <1>2, <1>6 DEF TablesAgree, AtMostOne

(* The chunks of a run past that stage are the wanted ones, or none. *)
LEMMA ChunksAreWanted ==
  ASSUME TablesAgree, NEW r \in Runs, RunAgrees(r), pc[r] \in Post
  PROVE  /\ chunks \subseteq {WantChunks(r)}
         /\ chunks # {} => chunks = {WantChunks(r)}
<1>1. derived.built = {Want(r)} /\ derived.chunker \in {{}, {cfg[r].chunker}}
  BY DEF RunAgrees, Post, Late
<1>2. CASE derived.chunker = {}
  BY <1>2 DEF TablesAgree
<1>3. CASE derived.chunker = {cfg[r].chunker}
  <2>1. chunks = {<<s, cfg[r].chunker>> : s \in derived.built}
    BY <1>3 DEF TablesAgree
  <2> QED
    BY <1>1, <2>1 DEF WantChunks
<1> QED
  BY <1>1, <1>2, <1>3

(* The other runs, when this one leaves the tables alone. *)
LEMMA OthersAgree ==
  ASSUME NEW q \in Runs, RunAgrees(q),
         UNCHANGED <<rows, derived, pc[q], cfg[q], document[q], plan[q], texts[q]>>
  PROVE  RunAgrees(q)'
<1>1. Want(q)' = Want(q) /\ WantChunks(q)' = WantChunks(q)
  BY DEF Want, WantChunks
<1> QED
  BY <1>1 DEF RunAgrees, HasCurrentDocument

LEMMA TablesStay ==
  ASSUME TablesAgree, UNCHANGED <<rows, derived, chunks>>
  PROVE  TablesAgree'
  BY DEF TablesAgree, StructureMatchesItsHash, AtMostOne

(* ... and when it is done with what they waited for. *)
LEMMA OthersAwait ==
  ASSUME OneConfig, NEW r \in Runs, NEW q \in Runs \ {r}, RunAwaits(q), pc[r] # "idle",
         \A p \in Runs \ {r} : pc'[p] = pc[p],
         UNCHANGED <<rows, derived, index, cfg>>,
         pc[r] \in Rechunking => pc'[r] \in Rechunking,
         pc[r] \in Restructuring =>
           pc'[r] \in Restructuring \/ derived.hash = rows[cfg[r].parser],
         pc[r] \in Reindexing =>
           pc'[r] \in Reindexing \/ index = {<<WantChunks(r), cfg[r].embedder>>}
  PROVE  RunAwaits(q)'
<1>1. Want(q)' = Want(q) /\ WantChunks(q)' = WantChunks(q)
  BY DEF Want, WantChunks
<1>2. pc[q] # "idle" => cfg[q] = cfg[r] /\ WantChunks(q) = WantChunks(r)
  BY DEF OneConfig, Want, WantChunks
<1>3. ASSUME pc'[q] \in Late
      PROVE  (derived.hash = rows[cfg[q].parser] \/ ThereIs(Restructuring))'
  <2>1. CASE derived.hash = rows[cfg[q].parser]
    BY <2>1
  <2>2. CASE derived.hash # rows[cfg[q].parser]
    <3>1. PICK p \in Runs : pc[p] \in Restructuring
      BY <1>3, <2>2 DEF RunAwaits, ThereIs
    <3>2. p = r => pc'[r] \in Restructuring
      BY <1>2, <1>3, <2>2, <3>1 DEF Late, Reindexing, Rechunking
    <3> QED
      BY <3>1, <3>2 DEF ThereIs
  <2> QED
    BY <2>1, <2>2
<1>4. ASSUME pc'[q] \in Post
      PROVE  (derived.chunker = {cfg[q].chunker} \/ ThereIs(Rechunking))'
  BY <1>4 DEF RunAwaits, ThereIs
<1>5. ASSUME pc'[q] = "done"
      PROVE  (\/ index = {<<WantChunks(q), cfg[q].embedder>>}
              \/ ThereIs(Reindexing))'
  <2>1. CASE index = {<<WantChunks(q), cfg[q].embedder>>}
    BY <1>1, <2>1
  <2>2. CASE index # {<<WantChunks(q), cfg[q].embedder>>}
    <3>1. PICK p \in Runs : pc[p] \in Reindexing
      BY <1>5, <2>2 DEF RunAwaits, ThereIs
    <3>2. pc'[p] \in Reindexing
      <4>1. CASE p = r
        BY <1>2, <1>5, <2>2, <3>1, <4>1
      <4>2. CASE p # r
        BY <3>1, <4>2
      <4> QED
        BY <4>1, <4>2
    <3> QED
      BY <3>2 DEF ThereIs
  <2> QED
    BY <2>1, <2>2
<1> QED
  BY <1>3, <1>4, <1>5 DEF RunAwaits

Agreed == TablesAgree /\ \A r \in Runs : RunAgrees(r)
Awaited == ~ troubled => \A r \in Runs : RunAwaits(r)

LEMMA SharedBegins ==
  ASSUME TypeOK, Agreed, Awaited, NEW r \in Runs, NEW c \in Configs, NEW force \in BOOLEAN,
         Begin(r, c, force)
  PROVE  Agreed' /\ Awaited'
<1>1. /\ pc'[r] = "check" /\ pc[r] = "idle"
      /\ \A q \in Runs \ {r} : pc'[q] = pc[q] /\ cfg'[q] = cfg[q]
      /\ UNCHANGED <<rows, derived, chunks, index, document, plan, texts>>
  BY DEF Begin, Goto, TypeOK, dataVars
<1>2. TablesAgree'
  BY <1>1, TablesStay DEF Agreed
<1>3. ASSUME NEW q \in Runs \ {r} PROVE RunAgrees(q)'
  BY <1>1, OthersAgree DEF Agreed
<1>4. RunAgrees(r)' /\ RunAwaits(r)'
  BY <1>1 DEF RunAgrees, RunAwaits, Late, Post, Reindexing, Rechunking, Restructuring
<1>5. ASSUME NEW q \in Runs \ {r}, ~ troubled' PROVE RunAwaits(q)'
  <2>1. CASE pc[q] = "idle"
    BY <1>1, <2>1 DEF RunAwaits, Late, Post, Reindexing, Rechunking, Restructuring
  <2>2. CASE pc[q] # "idle"
    <3>1. RunAwaits(q)
      BY <1>5, <2>2 DEF Begin, Idle, Awaited
    <3>2. /\ ThereIs(Restructuring) => ThereIs(Restructuring)'
          /\ ThereIs(Rechunking) => ThereIs(Rechunking)'
          /\ ThereIs(Reindexing) => ThereIs(Reindexing)'
      BY <1>1 DEF ThereIs, Restructuring, Rechunking, Reindexing
    <3>3. Want(q)' = Want(q) /\ WantChunks(q)' = WantChunks(q)
      BY <1>1 DEF Want, WantChunks
    <3> QED
      BY <1>1, <3>1, <3>2, <3>3 DEF RunAwaits
  <2> QED
    BY <2>1, <2>2
<1> QED
  BY <1>2, <1>3, <1>4, <1>5 DEF Agreed, Awaited

(* A step that leaves the tables alone keeps the invariant if it does for the  *)
(* run that takes it.                                                        *)
LEMMA QuietShares ==
  ASSUME TypeOK, OneConfig, Agreed, Awaited, NEW r \in Runs, NEW next \in PC, Goto(r, next),
         pc[r] # "idle", UNCHANGED <<rows, derived, chunks, index, cfg, troubled>>,
         \A q \in Runs \ {r} : UNCHANGED <<document[q], plan[q], texts[q]>>,
         pc[r] \in Rechunking => next \in Rechunking,
         pc[r] \in Restructuring =>
           next \in Restructuring \/ derived.hash = rows[cfg[r].parser],
         pc[r] \in Reindexing =>
           next \in Reindexing \/ index = {<<WantChunks(r), cfg[r].embedder>>},
         RunAgrees(r)', ~ troubled => RunAwaits(r)'
  PROVE  Agreed' /\ Awaited'
<1>1. pc'[r] = next /\ \A q \in Runs \ {r} : pc'[q] = pc[q]
  BY DEF Goto, TypeOK
<1>2. TablesAgree'
  BY TablesStay DEF Agreed
<1>3. \A q \in Runs \ {r} : RunAgrees(q)'
  BY <1>1, OthersAgree DEF Agreed
<1>4. ASSUME NEW q \in Runs \ {r}, ~ troubled PROVE RunAwaits(q)'
  <2>1. RunAwaits(q)
    BY <1>4 DEF Awaited
  <2> QED
    BY <1>1, <2>1, OthersAwait
<1> QED
  BY <1>2, <1>3, <1>4 DEF Agreed, Awaited

LEMMA SharedOpens ==
  ASSUME TypeOK, OneConfig, Agreed, Awaited, NEW r \in Runs,
         \/ CheckTarget(r) \/ SaveMetadata(r) \/ SaveIdentity(r) \/ CheckParsed(r)
         \/ StartParsing(r) \/ ParseAndSave(r)
         \/ ~ misled' /\ LoadParsed(r)
  PROVE  Agreed' /\ Awaited'
<1>1. /\ UNCHANGED <<rows, derived, chunks, index, cfg, troubled>>
      /\ \A q \in Runs \ {r} : UNCHANGED <<document[q], plan[q], texts[q]>>
      /\ pc[r] \notin {"idle"} \cup Restructuring \cup Reindexing
  BY DEF CheckTarget, SaveMetadata, SaveIdentity, CheckParsed, StartParsing, ParseAndSave,
         LoadParsed, dataVars, indexVars, runVars, historyVars, TypeOK, Reindexing,
         Restructuring, Rechunking
<1>2. Want(r)' = Want(r) /\ (HasCurrentDocument(cfg[r])' <=> HasCurrentDocument(cfg[r]))
  BY <1>1 DEF Want, HasCurrentDocument
<1>3. RunAgrees(r) /\ TablesAgree
  BY DEF Agreed
<1>4. ASSUME NEW next \in PC, Goto(r, next), RunAgrees(r)', ~ troubled => RunAwaits(r)'
      PROVE  Agreed' /\ Awaited'
  BY <1>1, <1>4, QuietShares DEF Reindexing
<1>5. CASE CheckTarget(r)
  <2>1. PICK next \in {"check_index", "metadata", "identity"} :
          Goto(r, next) /\ (next = "check_index" => ChunksAreCurrent(cfg[r]))
    BY <1>5 DEF CheckTarget
  <2>2. pc'[r] = next /\ next \in PC
    BY <2>1 DEF Goto, TypeOK, PC
  <2>3. CASE next = "check_index"
    <3>1. StructureIsCurrent(cfg[r]) /\ derived.chunker = {cfg[r].chunker}
          /\ HasCurrentDocument(cfg[r])
      BY <2>1, <2>3 DEF ChunksAreCurrent, StructureIsCurrent
    <3>2. derived.built = {Want(r)} /\ derived.hash = rows[cfg[r].parser]
      BY <1>3, <3>1, CurrentIsWanted
    <3>3. RunAgrees(r)'
      BY <1>1, <1>2, <2>2, <2>3, <3>1, <3>2 DEF RunAgrees, Late, Post, Reindexing, Rechunking, Restructuring
    <3>4. RunAwaits(r)'
      BY <1>1, <1>2, <2>2, <2>3, <3>1, <3>2 DEF RunAwaits, Late, Post, Reindexing, Rechunking, Restructuring
    <3> QED
      BY <1>4, <2>1, <2>2, <3>3, <3>4
  <2>4. CASE next # "check_index"
    <3>1. RunAgrees(r)' /\ RunAwaits(r)'
      BY <2>1, <2>2, <2>4 DEF RunAgrees, RunAwaits, Late, Post, Reindexing, Rechunking, Restructuring
    <3> QED
      BY <1>4, <2>1, <2>2, <3>1
  <2> QED
    BY <2>3, <2>4
<1>6. CASE SaveMetadata(r) \/ SaveIdentity(r) \/ StartParsing(r)
  <2>1. PICK next \in {"identity", "parsed", "parse"} : Goto(r, next)
    BY <1>6 DEF SaveMetadata, SaveIdentity, StartParsing
  <2>2. pc'[r] = next /\ next \in PC
    BY <2>1 DEF Goto, TypeOK, PC
  <2>3. RunAgrees(r)' /\ RunAwaits(r)'
    BY <2>1, <2>2 DEF RunAgrees, RunAwaits, Late, Post, Reindexing, Rechunking, Restructuring
  <2> QED
    BY <1>4, <2>1, <2>2, <2>3
<1>7. CASE CheckParsed(r)
  <2>1. PICK next \in {"load", "start_parse"} :
          Goto(r, next) /\ (next = "load" => HasCurrentDocument(cfg[r]))
    BY <1>7 DEF CheckParsed
  <2>2. pc'[r] = next /\ next \in PC
    BY <2>1 DEF Goto, TypeOK, PC
  <2>3. RunAgrees(r)' /\ RunAwaits(r)'
    BY <1>2, <2>1, <2>2 DEF RunAgrees, RunAwaits, Late, Post, Reindexing, Rechunking, Restructuring
  <2> QED
    BY <1>4, <2>1, <2>2, <2>3
<1>8. CASE ParseAndSave(r)
  <2>1. Goto(r, "add") /\ pc'[r] = "add" /\ document'[r] = {<<cfg[r].parser, parses + 1>>}
    BY <1>8 DEF Goto, TypeOK, ParseAndSave
  <2>2. RunAgrees(r)' /\ RunAwaits(r)'
    BY <1>1, <2>1 DEF RunAgrees, RunAwaits, Late, Post, Reindexing, Rechunking, Restructuring
  <2> QED
    BY <1>4, <2>1, <2>2 DEF PC
<1>9. CASE ~ misled' /\ LoadParsed(r)
  <2>1. /\ Goto(r, "structure") /\ pc'[r] = "structure" /\ pc[r] = "load"
        /\ document'[r] = file /\ file # {} /\ \A d \in file : d[1] = cfg[r].parser
    BY <1>9 DEF Goto, TypeOK, LoadParsed
  <2>2. RunAgrees(r)' /\ RunAwaits(r)'
    BY <1>1, <1>2, <1>3, <2>1 DEF RunAgrees, RunAwaits, Late, Post, Reindexing, Rechunking, Restructuring
  <2> QED
    BY <1>4, <2>1, <2>2 DEF PC
<1> QED
  BY <1>5, <1>6, <1>7, <1>8, <1>9

LEMMA SharedChecksIndex ==
  ASSUME TypeOK, OneConfig, Agreed, Awaited, NEW r \in Runs,
         \/ LoadDocuments(r) \/ CheckIndex(r) \/ ConsultState(r) \/ MarkChunked(r)
         \/ MarkIndexed(r)
  PROVE  Agreed' /\ Awaited'
<1>1. /\ UNCHANGED <<rows, derived, chunks, index, cfg, troubled>>
      /\ \A q \in Runs \ {r} : UNCHANGED <<document[q], plan[q], texts[q]>>
      /\ pc[r] \notin {"idle", "embed"} \cup Rechunking \cup Restructuring
  BY DEF LoadDocuments, CheckIndex, ConsultState, MarkChunked, MarkIndexed,
         Return, dataVars, runVars, historyVars, TypeOK, Rechunking, Restructuring
<1>2. /\ Want(r)' = Want(r) /\ WantChunks(r)' = WantChunks(r)
      /\ HasCurrentDocument(cfg[r])' <=> HasCurrentDocument(cfg[r])
  BY <1>1 DEF Want, WantChunks, HasCurrentDocument
<1>3. RunAgrees(r) /\ TablesAgree /\ (~ troubled => RunAwaits(r))
  BY DEF Agreed, Awaited
<1>4. ASSUME ThereIs(Restructuring) PROVE ThereIs(Restructuring)'
  <2>1. \A q \in Runs \ {r} : pc'[q] = pc[q]
    BY DEF Goto, TypeOK, LoadDocuments, CheckIndex, ConsultState, MarkChunked,
       MarkIndexed, Return
  <2> QED
    BY <1>1, <1>4, <2>1 DEF ThereIs
<1>5. ASSUME ThereIs(Rechunking) PROVE ThereIs(Rechunking)'
  <2>1. \A q \in Runs \ {r} : pc'[q] = pc[q]
    BY DEF Goto, TypeOK, LoadDocuments, CheckIndex, ConsultState, MarkChunked,
       MarkIndexed, Return
  <2> QED
    BY <1>1, <1>5, <2>1 DEF ThereIs
<1>6. CASE LoadDocuments(r)
  <2>1. PICK next \in {"check_state", "state"} :
          Goto(r, next) /\ (next = "state" <=> pc[r] = "documents")
    BY <1>6 DEF LoadDocuments
  <2>2. /\ pc'[r] = next /\ next \in PC /\ pc[r] \in {"check_index", "documents"}
        /\ texts'[r] = chunks /\ (next = "state" => chunks # {})
    BY <1>6, <2>1 DEF Goto, TypeOK, PC, LoadDocuments
  <2>3. chunks \subseteq {WantChunks(r)} /\ (chunks # {} => chunks = {WantChunks(r)})
    BY <1>3, <2>2, ChunksAreWanted DEF Post, Late, Reindexing, Rechunking
  <2>4. RunAgrees(r)'
    BY <1>1, <1>2, <1>3, <2>1, <2>2, <2>3 DEF RunAgrees, Late, Post, Reindexing, Rechunking, Restructuring
  <2>5. ~ troubled => RunAwaits(r)'
    BY <1>1, <1>2, <1>3, <1>4, <1>5, <2>1, <2>2 DEF RunAwaits, Late, Post, Reindexing, Rechunking, Restructuring
  <2> QED
    BY <1>1, <2>1, <2>2, <2>4, <2>5, QuietShares DEF Reindexing
<1>7. CASE CheckIndex(r) \/ ConsultState(r)
  <2>1. PICK next \in {"done", "identity", "embed"} :
          /\ Goto(r, next)
          /\ next = "done" => IndexIsCurrent(r)
          /\ next = "embed" => pc[r] = "state"
          /\ pc[r] = "state" => next \in {"done", "embed"}
    BY <1>7 DEF CheckIndex, ConsultState
  <2>2. /\ pc'[r] = next /\ next \in PC /\ pc[r] \in {"check_state", "state"}
        /\ texts' = texts
    BY <1>7, <2>1 DEF Goto, TypeOK, PC, CheckIndex, ConsultState, runVars
  <2>3. next = "done" => index = {<<WantChunks(r), cfg[r].embedder>>}
    BY <1>3, <2>1, <2>2 DEF IndexIsCurrent, RunAgrees
  <2>4. RunAgrees(r)'
    BY <1>1, <1>2, <1>3, <2>1, <2>2 DEF RunAgrees, Late, Post, Reindexing, Rechunking, Restructuring
  <2>5. ~ troubled => RunAwaits(r)'
    BY <1>1, <1>2, <1>3, <1>4, <1>5, <2>1, <2>2, <2>3 DEF RunAwaits, Late, Post, Reindexing, Rechunking, Restructuring
  <2> QED
    BY <1>1, <2>1, <2>2, <2>3, <2>4, <2>5, QuietShares DEF Reindexing
<1>8. CASE MarkChunked(r)
  <2>1. Goto(r, "documents") /\ pc'[r] = "documents" /\ pc[r] = "chunked"
    BY <1>8 DEF Goto, TypeOK, MarkChunked
  <2>2. RunAgrees(r)'
    BY <1>1, <1>2, <1>3, <2>1 DEF RunAgrees, Late, Post, Reindexing, Rechunking, Restructuring
  <2>3. ~ troubled => RunAwaits(r)'
    BY <1>1, <1>2, <1>3, <1>4, <1>5, <2>1 DEF RunAwaits, Late, Post, Reindexing, Rechunking, Restructuring
  <2> QED
    BY <1>1, <2>1, <2>2, <2>3, QuietShares DEF PC, Reindexing
<1>9. CASE MarkIndexed(r)
  <2>1. Goto(r, "idle") /\ pc'[r] = "idle" /\ pc[r] = "done"
    BY <1>9 DEF Goto, TypeOK, MarkIndexed, Return
  <2>2. RunAgrees(r)' /\ RunAwaits(r)'
    BY <2>1 DEF RunAgrees, RunAwaits, Late, Post, Reindexing, Rechunking, Restructuring
  <2> QED
    BY <1>1, <2>1, <2>2, QuietShares DEF PC, Reindexing
<1> QED
  BY <1>6, <1>7, <1>8, <1>9

(* The structure is consulted and used, and the index deleted. *)
LEMMA SharedConsults ==
  ASSUME TypeOK, OneConfig, Agreed, Awaited, NEW r \in Runs,
         ConsultStructure(r) \/ UseStructure(r) \/ InvalidateIndex(r)
  PROVE  Agreed' /\ Awaited'
<1>1. /\ UNCHANGED <<rows, derived, chunks, index, cfg, troubled, document, texts>>
      /\ \A q \in Runs \ {r} : UNCHANGED <<document[q], plan[q], texts[q]>>
      /\ pc[r] # "idle"
  BY DEF ConsultStructure, UseStructure, InvalidateIndex, dataVars, runVars, historyVars,
         TypeOK
<1>2. /\ Want(r)' = Want(r) /\ WantChunks(r)' = WantChunks(r)
      /\ HasCurrentDocument(cfg[r])' <=> HasCurrentDocument(cfg[r])
  BY <1>1 DEF Want, WantChunks, HasCurrentDocument
<1>3. RunAgrees(r) /\ TablesAgree /\ (~ troubled => RunAwaits(r))
  BY DEF Agreed, Awaited
<1>4. \A q \in Runs \ {r} : pc'[q] = pc[q]
  BY DEF Goto, TypeOK, ConsultStructure, UseStructure, InvalidateIndex
<1>5. CASE ConsultStructure(r)
  <2>1. PICK next \in {"restructure", "reuse_chunks", "reuse"} :
          /\ Goto(r, next)
          /\ next # "restructure" => StructureIsCurrent(cfg[r])
          /\ next = "reuse_chunks" => ChunksAreCurrent(cfg[r])
    BY <1>5 DEF ConsultStructure
  <2>2. /\ pc'[r] = next /\ next \in PC /\ pc[r] = "structure" /\ plan' = plan
    BY <1>5, <2>1 DEF Goto, TypeOK, PC, ConsultStructure
  <2>3. next # "restructure" =>
          derived.built = {Want(r)} /\ derived.hash = rows[cfg[r].parser]
    BY <1>3, <2>1, CurrentIsWanted
  <2>4. next = "reuse_chunks" => derived.chunker = {cfg[r].chunker}
    BY <2>1 DEF ChunksAreCurrent
  <2>5. RunAgrees(r)'
    BY <1>1, <1>2, <1>3, <2>1, <2>2, <2>3, <2>4
    DEF RunAgrees, Late, Post, Reindexing, Rechunking, Restructuring
  <2>6. RunAwaits(r)'
    BY <1>1, <1>2, <2>1, <2>2, <2>3, <2>4
    DEF RunAwaits, Late, Post, Reindexing, Rechunking, Restructuring
  <2>7. /\ pc[r] \notin Rechunking /\ pc[r] \notin Reindexing
        /\ next \in Restructuring \/ derived.hash = rows[cfg[r].parser]
    BY <2>1, <2>2, <2>3 DEF Reindexing, Rechunking, Restructuring
  <2> QED
    BY <1>1, <2>1, <2>2, <2>5, <2>6, <2>7, QuietShares
<1>6. CASE UseStructure(r)
  <2>1. PICK next \in {"chunked", "chunk"} :
          Goto(r, next) /\ (next = "chunk" <=> pc[r] = "reuse")
    BY <1>6 DEF UseStructure
  <2>2. /\ pc'[r] = next /\ next \in PC /\ pc[r] \in {"reuse", "reuse_chunks"}
        /\ plan'[r] = derived.built
    BY <1>6, <2>1 DEF Goto, TypeOK, PC, UseStructure
  <2>3. RunAgrees(r)'
    BY <1>1, <1>2, <1>3, <2>1, <2>2
    DEF RunAgrees, Late, Post, Reindexing, Rechunking, Restructuring
  <2>4. ASSUME ~ troubled PROVE RunAwaits(r)'
    <3>1. /\ ThereIs(Restructuring) => ThereIs(Restructuring)'
          /\ ThereIs(Rechunking) => ThereIs(Rechunking)'
      BY <1>4, <2>2 DEF ThereIs, Restructuring, Rechunking
    <3> QED
      BY <1>1, <1>2, <1>3, <2>1, <2>2, <2>4, <3>1
      DEF RunAwaits, Late, Post, Reindexing, Rechunking
  <2>5. pc[r] \notin Rechunking \cup Reindexing \cup Restructuring
    BY <2>2 DEF Reindexing, Rechunking, Restructuring
  <2> QED
    BY <1>1, <2>1, <2>2, <2>3, <2>4, <2>5, QuietShares
<1>7. CASE InvalidateIndex(r)
  <2>1. PICK next \in {"rechunk", "rebuild"} :
          Goto(r, next) /\ (next = "rechunk" <=> pc[r] = "chunk")
    BY <1>7 DEF InvalidateIndex
  <2>2. /\ pc'[r] = next /\ next \in PC /\ pc[r] \in {"restructure", "chunk"}
        /\ plan' = plan
    BY <1>7, <2>1 DEF Goto, TypeOK, PC, InvalidateIndex, runVars
  <2>3. RunAgrees(r)'
    BY <1>1, <1>2, <1>3, <2>1, <2>2
    DEF RunAgrees, Late, Post, Reindexing, Rechunking, Restructuring
  <2>4. ASSUME ~ troubled PROVE RunAwaits(r)'
    <3>1. ThereIs(Restructuring) => ThereIs(Restructuring)'
      BY <1>4, <2>1, <2>2 DEF ThereIs, Restructuring
    <3> QED
      BY <1>1, <1>2, <1>3, <2>1, <2>2, <2>4, <3>1
      DEF RunAwaits, Late, Post, Reindexing, Rechunking
  <2>5. /\ pc[r] \in Rechunking => next \in Rechunking
        /\ pc[r] \in Reindexing => next \in Reindexing
        /\ pc[r] \in Restructuring => next \in Restructuring
    BY <2>1, <2>2 DEF Reindexing, Rechunking, Restructuring
  <2> QED
    BY <1>1, <2>1, <2>2, <2>3, <2>4, <2>5, QuietShares
<1> QED
  BY <1>5, <1>6, <1>7

(* Failures and crashes leave only what holds whatever becomes of the others.  *)
LEMMA SharedFails ==
  ASSUME TypeOK, Agreed, NEW r \in Runs, Fail(r) \/ Crash(r)
  PROVE  Agreed' /\ Awaited'
<1>1. /\ UNCHANGED <<rows, derived, chunks, index, cfg>>
      /\ troubled' = TRUE /\ pc'[r] = "idle"
      /\ \A q \in Runs \ {r} : UNCHANGED <<pc[q], document[q], plan[q], texts[q]>>
  BY DEF Fail, Crash, Return, Goto, TypeOK, dataVars
<1>2. TablesAgree'
  BY <1>1, TablesStay DEF Agreed
<1>3. ASSUME NEW q \in Runs \ {r} PROVE RunAgrees(q)'
  BY <1>1, OthersAgree DEF Agreed
<1>4. RunAgrees(r)'
  BY <1>1 DEF RunAgrees, Late, Post, Reindexing, Rechunking, Restructuring
<1> QED
  BY <1>1, <1>2, <1>3, <1>4 DEF Agreed, Awaited

(* The steps that write the tables. *)
LEMMA SharedAdds ==
  ASSUME TypeOK, OneConfig, Agreed, Awaited, NEW r \in Runs, AddDocument(r)
  PROVE  Agreed' /\ Awaited'
<1>1. /\ UNCHANGED <<derived, chunks, index, cfg, troubled, document, plan, texts>>
      /\ pc[r] = "add" /\ pc'[r] = "structure" /\ \A q \in Runs \ {r} : pc'[q] = pc[q]
      /\ rows' = [rows EXCEPT ![cfg[r].parser] = document[r]]
      /\ cfg[r].parser \in Parser
  BY ConfigsAssumption DEF AddDocument, Goto, TypeOK, indexVars, runVars, historyVars, Config
<1>2. document[r] # {} /\ \A d \in document[r] : d[1] = cfg[r].parser
  BY <1>1 DEF Agreed, RunAgrees
<1>3. \A p \in Parser : \/ rows'[p] = rows[p]
                        \/ p = cfg[r].parser /\ rows'[p] = document[r]
  BY <1>1 DEF TypeOK
<1>4. TablesAgree'
  BY <1>1, <1>2, <1>3 DEF Agreed, TablesAgree, StructureMatchesItsHash, AtMostOne
<1>5. rows'[cfg[r].parser] = document[r]
  BY <1>1 DEF TypeOK
<1>6. ASSUME NEW q \in Runs PROVE RunAgrees(q)'
  <2>1. Want(q)' = Want(q) /\ WantChunks(q)' = WantChunks(q) /\ cfg[q].parser \in Parser
    BY <1>1, ConfigsAssumption DEF Want, WantChunks, TypeOK, Config
  <2>2. HasCurrentDocument(cfg[q]) => HasCurrentDocument(cfg[q])'
    BY <1>1, <1>2, <1>3, <2>1 DEF HasCurrentDocument
  <2>3. HasCurrentDocument(cfg[r])'
    BY <1>1, <1>2, <1>5 DEF HasCurrentDocument
  <2>4. CASE q = r
    BY <1>1, <1>2, <2>3, <2>4 DEF RunAgrees, Late, Post, Reindexing, Rechunking, Restructuring
  <2>5. CASE q # r
    BY <1>1, <2>1, <2>2, <2>5 DEF Agreed, RunAgrees
  <2> QED
    BY <2>4, <2>5
<1>7. ASSUME NEW q \in Runs, ~ troubled PROVE RunAwaits(q)'
  <2>1. Want(q)' = Want(q) /\ WantChunks(q)' = WantChunks(q) /\ RunAwaits(q)
    BY <1>1, <1>7 DEF Want, WantChunks, Awaited
  <2>2. ThereIs(Restructuring)'
    BY <1>1 DEF ThereIs, Restructuring
  <2>3. /\ ThereIs(Rechunking) => ThereIs(Rechunking)'
        /\ ThereIs(Reindexing) => ThereIs(Reindexing)'
    BY <1>1 DEF ThereIs, Rechunking, Reindexing
  <2>4. CASE q = r
    BY <1>1, <2>4 DEF RunAwaits, Late, Post, Reindexing, Rechunking, Restructuring
  <2>5. CASE q # r
    BY <1>1, <2>1, <2>2, <2>3, <2>5 DEF RunAwaits
  <2> QED
    BY <2>4, <2>5
<1> QED
  BY <1>1, <1>4, <1>6, <1>7 DEF Agreed, Awaited

LEMMA SharedRestructures ==
  ASSUME TypeOK, OneConfig, Agreed, NEW r \in Runs, ReplaceStructure(r), torn' = {}
  PROVE  Agreed' /\ Awaited'
<1>1. /\ UNCHANGED <<rows, cfg, troubled, document, texts>>
      /\ pc[r] = "rebuild" /\ pc'[r] = "chunk" /\ \A q \in Runs \ {r} : pc'[q] = pc[q]
      /\ \A q \in Runs \ {r} : plan'[q] = plan[q]
      /\ plan'[r] = {<<d[1], cfg[r].structurer>> : d \in document[r]}
      /\ derived' = [built |-> plan'[r], hash |-> bound[r], chunker |-> {}]
      /\ chunks' = {} /\ bound[r] = rows[cfg[r].parser]
  BY DEF ReplaceStructure, Restructured, Overtaken, Goto, TypeOK
<1>2. PICK d \in document[r] : \A e \in document[r] : e[1] = cfg[r].parser
  BY <1>1 DEF Agreed, RunAgrees, Restructuring
<1>3. plan'[r] = {Want(r)}
  <2>1. Want(r) \in plan'[r]
    BY <1>1, <1>2 DEF Want
  <2>2. \A s \in plan'[r] : s = Want(r)
    BY <1>1, <1>2 DEF Want
  <2> QED
    BY <2>1, <2>2
<1>4. /\ derived'.built = {Want(r)} /\ derived'.hash = rows[cfg[r].parser]
      /\ derived'.chunker = {}
  BY <1>1, <1>3
<1>5. cfg[r].parser \in Parser /\ HasCurrentDocument(cfg[r])
  BY <1>1, ConfigsAssumption DEF TypeOK, Config, Agreed, RunAgrees, Restructuring
<1>6. TablesAgree'
  <2>1. Want(r)[1] = cfg[r].parser
    BY DEF Want
  <2>2. \A e \in rows[cfg[r].parser] : e[1] = cfg[r].parser
    BY <1>5 DEF Agreed, TablesAgree
  <2>3. StructureMatchesItsHash'
    BY <1>4, <2>1, <2>2 DEF StructureMatchesItsHash
  <2>4. AtMostOne(derived'.built)
    BY <1>4 DEF AtMostOne
  <2> QED
    BY <1>1, <1>4, <2>3, <2>4 DEF Agreed, TablesAgree, AtMostOne
<1>7. ASSUME NEW q \in Runs, pc[q] # "idle"
      PROVE  /\ Want(q)' = Want(r) /\ Want(q) = Want(r) /\ WantChunks(q)' = WantChunks(q)
             /\ cfg'[q] = cfg[r]
  BY <1>1, <1>7 DEF Want, WantChunks, OneConfig
<1>8. ASSUME NEW q \in Runs PROVE RunAgrees(q)'
  <2>1. HasCurrentDocument(cfg[q])' <=> HasCurrentDocument(cfg[q])
    BY <1>1 DEF HasCurrentDocument
  <2>2. CASE q = r
    BY <1>1, <1>3, <1>4, <1>5, <1>7, <2>1, <2>2 DEF RunAgrees, Late, Post, Reindexing, Rechunking, Restructuring
  <2>3. CASE q # r /\ pc[q] # "idle"
    BY <1>1, <1>4, <1>7, <2>1, <2>3 DEF Agreed, RunAgrees
  <2>4. CASE q # r /\ pc[q] = "idle"
    BY <1>1, <2>4 DEF RunAgrees, Late, Post, Reindexing, Rechunking, Restructuring
  <2> QED
    BY <2>2, <2>3, <2>4
<1>9. ASSUME NEW q \in Runs PROVE RunAwaits(q)'
  <2>1. ThereIs(Rechunking)' /\ ThereIs(Reindexing)'
    BY <1>1 DEF ThereIs, Rechunking, Reindexing
  <2>2. pc'[q] # "idle" => cfg'[q] = cfg[r]
    BY <1>1, <1>7
  <2>3. pc'[q] \in Late => derived'.hash = rows'[cfg'[q].parser]
    BY <1>1, <1>4, <2>2 DEF Late, Reindexing, Rechunking
  <2> QED
    BY <2>1, <2>3 DEF RunAwaits
<1> QED
  BY <1>6, <1>8, <1>9 DEF Agreed, Awaited

LEMMA SharedRechunks ==
  ASSUME TypeOK, OneConfig, Agreed, Awaited, NEW r \in Runs, ReplaceChunks(r)
  PROVE  Agreed' /\ Awaited'
<1>1. /\ UNCHANGED <<rows, cfg, troubled, document, plan, texts>>
      /\ pc[r] = "rechunk" /\ pc'[r] = "documents" /\ \A q \in Runs \ {r} : pc'[q] = pc[q]
      /\ derived'.built = derived.built /\ derived'.hash = derived.hash
      /\ derived'.chunker = {cfg[r].chunker}
      /\ chunks' = {<<s, cfg[r].chunker>> : s \in plan[r]}
  BY DEF ReplaceChunks, Goto, TypeOK, runVars, Derived
<1>2. derived.built = {Want(r)} /\ plan[r] = {Want(r)} /\ HasCurrentDocument(cfg[r])
  BY <1>1 DEF Agreed, RunAgrees, Late, Reindexing, Rechunking
<1>3. TablesAgree'
  BY <1>1, <1>2 DEF Agreed, TablesAgree, StructureMatchesItsHash, AtMostOne
<1>4. ASSUME NEW q \in Runs
      PROVE  /\ Want(q)' = Want(q) /\ WantChunks(q)' = WantChunks(q)
             /\ pc[q] # "idle" => cfg[q] = cfg[r]
             /\ HasCurrentDocument(cfg[q])' <=> HasCurrentDocument(cfg[q])
  BY <1>1 DEF Want, WantChunks, OneConfig, HasCurrentDocument
<1>5. ASSUME NEW q \in Runs PROVE RunAgrees(q)'
  <2>1. CASE q = r
    BY <1>1, <1>2, <1>4, <2>1 DEF RunAgrees, Late, Post, Reindexing, Rechunking, Restructuring
  <2>2. CASE q # r
    <3>1. pc'[q] \in Post => derived'.chunker = {cfg'[q].chunker}
      BY <1>1, <1>4, <2>2 DEF Post, Late, Reindexing, Rechunking
    <3> QED
      BY <1>1, <1>4, <2>2, <3>1 DEF Agreed, RunAgrees
  <2> QED
    BY <2>1, <2>2
<1>6. ASSUME NEW q \in Runs, ~ troubled PROVE RunAwaits(q)'
  <2>1. ThereIs(Restructuring) => ThereIs(Restructuring)'
    BY <1>1 DEF ThereIs, Restructuring
  <2>2. ThereIs(Reindexing)'
    BY <1>1 DEF ThereIs, Reindexing
  <2>3. pc'[q] \in Late => pc[q] \in Late
    BY <1>1 DEF Late, Reindexing, Rechunking
  <2>4. pc'[q] \in Late => (derived.hash = rows[cfg[q].parser] \/ ThereIs(Restructuring))'
    BY <1>1, <1>6, <2>1, <2>3 DEF Awaited, RunAwaits
  <2>5. pc'[q] \in Post => derived'.chunker = {cfg'[q].chunker}
    BY <1>1, <1>4, <2>3 DEF Post, Late, Reindexing, Rechunking
  <2> QED
    BY <2>2, <2>4, <2>5 DEF RunAwaits
<1> QED
  BY <1>1, <1>3, <1>5, <1>6 DEF Agreed, Awaited

LEMMA SharedReindexes ==
  ASSUME TypeOK, OneConfig, Agreed, Awaited, NEW r \in Runs, ReplaceIndex(r)
  PROVE  Agreed' /\ Awaited'
<1>1. /\ UNCHANGED <<rows, derived, chunks, cfg, troubled, document, plan, texts>>
      /\ pc[r] = "embed" /\ pc'[r] = "done" /\ \A q \in Runs \ {r} : pc'[q] = pc[q]
      /\ index' = {<<t, cfg[r].embedder>> : t \in texts[r]}
  BY DEF ReplaceIndex, Goto, TypeOK, runVars
<1>2. RunAgrees(r) /\ index' = {<<WantChunks(r), cfg[r].embedder>>}
  BY <1>1 DEF Agreed, RunAgrees
<1>3. TablesAgree'
  BY <1>1, TablesStay DEF Agreed
<1>4. ASSUME NEW q \in Runs
      PROVE  /\ Want(q)' = Want(q) /\ WantChunks(q)' = WantChunks(q)
             /\ pc[q] # "idle" => cfg[q] = cfg[r] /\ WantChunks(q) = WantChunks(r)
             /\ HasCurrentDocument(cfg[q])' <=> HasCurrentDocument(cfg[q])
  BY <1>1 DEF Want, WantChunks, OneConfig, HasCurrentDocument
<1>5. ASSUME NEW q \in Runs PROVE RunAgrees(q)'
  <2>1. CASE q = r
    BY <1>1, <1>2, <1>4, <2>1 DEF RunAgrees, Late, Post, Reindexing, Rechunking, Restructuring
  <2>2. CASE q # r
    BY <1>1, <2>2, OthersAgree DEF Agreed
  <2> QED
    BY <2>1, <2>2
<1>6. ASSUME NEW q \in Runs, ~ troubled PROVE RunAwaits(q)'
  <2>1. /\ ThereIs(Restructuring) => ThereIs(Restructuring)'
        /\ ThereIs(Rechunking) => ThereIs(Rechunking)'
    BY <1>1 DEF ThereIs, Restructuring, Rechunking
  <2>2. pc'[q] \in Late => pc[q] \in Late
    BY <1>1 DEF Late, Reindexing, Rechunking
  <2>3. pc'[q] \in Post => pc[q] \in Post
    BY <1>1 DEF Late, Post, Reindexing, Rechunking, Restructuring
  <2>4. pc'[q] \in Late => (derived.hash = rows[cfg[q].parser] \/ ThereIs(Restructuring))'
    BY <1>1, <1>6, <2>1, <2>2 DEF Awaited, RunAwaits
  <2>5. pc'[q] \in Post => (derived.chunker = {cfg[q].chunker} \/ ThereIs(Rechunking))'
    BY <1>1, <1>6, <2>1, <2>3 DEF Awaited, RunAwaits
  <2>6. pc'[q] = "done" => (index = {<<WantChunks(q), cfg[q].embedder>>})'
    BY <1>1, <1>2, <1>4
  <2> QED
    BY <2>4, <2>5, <2>6 DEF RunAwaits
<1> QED
  BY <1>1, <1>3, <1>5, <1>6 DEF Agreed, Awaited

(* When the last run ends, it awaits nobody. *)
LEMMA LastRunConverges ==
  ASSUME TypeOK, Agreed, NothingOutlivesItsSource, torn = {}, NEW r \in Runs, RunAwaits(r),
         MarkIndexed(r), Idle'
  PROVE  Complete(cfg[r])' /\ cfg[r] \in Configs
<1>1. /\ UNCHANGED <<rows, derived, chunks, index, vectors, cfg>>
      /\ pc[r] = "done" /\ \A q \in Runs \ {r} : pc[q] = "idle"
  BY DEF MarkIndexed, Return, Goto, TypeOK, Idle, dataVars, runVars
<1>2. ~ ThereIs(Restructuring) /\ ~ ThereIs(Rechunking) /\ ~ ThereIs(Reindexing)
  BY <1>1 DEF ThereIs, Restructuring, Rechunking, Reindexing
<1>3. /\ derived.hash = rows[cfg[r].parser] /\ derived.chunker = {cfg[r].chunker}
      /\ index = {<<WantChunks(r), cfg[r].embedder>>}
  BY <1>1, <1>2 DEF RunAwaits, Late, Post, Reindexing, Rechunking, Restructuring
<1>4. derived.built = {Want(r)} /\ HasCurrentDocument(cfg[r])
  BY <1>1 DEF Agreed, RunAgrees, Late
<1>5. chunks = {<<s, cfg[r].chunker>> : s \in derived.built}
  BY <1>3 DEF Agreed, TablesAgree
<1>6. chunks = {WantChunks(r)} /\ Want(r)[2] = cfg[r].structurer
  BY <1>4, <1>5 DEF WantChunks, Want
<1>7. index = {<<t, cfg[r].embedder>> : t \in chunks}
  BY <1>3, <1>6
<1>8. \A l \in Level : vectors[l] = index
  BY DEF NothingOutlivesItsSource
<1>9. Complete(cfg[r])
  BY <1>3, <1>4, <1>5, <1>6, <1>7, <1>8 DEF Complete, HasCurrentDocument
<1> QED
  BY <1>1, <1>9 DEF Complete, TypeOK

(* The specification of runs that share their configuration while in flight.  *)
SharedSpec == Init /\ [][Next /\ UpgradesBetweenRuns]_vars

LEMMA SharedNext ==
  ASSUME TypeOK, NothingOutlivesItsSource, SharedInv, [Next /\ UpgradesBetweenRuns]_vars
  PROVE  SharedInv'
<1>1. CASE UNCHANGED vars
  BY <1>1 DEF vars, SharedInv, OneConfig, TablesAgree, StructureMatchesItsHash, AtMostOne,
     RunAgrees, HasCurrentDocument, Want, WantChunks, RunAwaits, ThereIs,
     OverlappingRunsConverge, Idle, Complete
<1>2. CASE Next /\ UpgradesBetweenRuns
  <2>1. OneConfig'
    BY <1>2 DEF UpgradesBetweenRuns, OneConfig
  <2>2. ASSUME ~ misled', torn' = {} PROVE Agreed' /\ Awaited' /\ OverlappingRunsConverge'
    <3>1. PICK r \in Runs : \/ \E c \in Configs, force \in BOOLEAN : Begin(r, c, force)
                            \/ Step(r)
                            \/ Fail(r)
                            \/ Crash(r)
      BY <1>2 DEF Next
    <3>2. ~ misled /\ torn \subseteq torn'
      <4>1. misled => misled'
        BY <3>1 DEF Begin, Step, Fail, Crash, CheckTarget, LoadDocuments, CheckIndex,
           SaveMetadata, SaveIdentity, CheckParsed, LoadParsed, StartParsing, ParseAndSave,
           AddDocument, ConsultStructure, UseStructure, InvalidateIndex, ReplaceStructure,
           MarkChunked, ReplaceChunks, ConsultState, ReplaceIndex, MarkIndexed, historyVars
      <4>2. torn' = torn \/ ReplaceStructure(r) \/ ReplaceChunks(r)
        BY <3>1, OtherStepsTouchNothing DEF Step, ReplaceIndex
      <4>3. ReplaceStructure(r) \/ ReplaceChunks(r) => torn \subseteq torn'
        BY DEF ReplaceStructure, ReplaceChunks, Overtaken
      <4> QED
        BY <2>2, <4>1, <4>2, <4>3
    <3>3. OneConfig /\ Agreed /\ Awaited /\ torn = {}
      BY <2>2, <3>2 DEF SharedInv, Agreed, Awaited
    <3>4. Agreed' /\ Awaited'
      BY <2>2, <3>1, <3>3, SharedBegins, SharedOpens, SharedConsults, SharedChecksIndex, SharedAdds,
         SharedRestructures, SharedRechunks, SharedReindexes, SharedFails DEF Step
    <3>5. ASSUME Idle', ~ troubled' PROVE \E c \in Configs : Complete(c)'
      <4>1. MarkIndexed(r)
        <5>1. pc'[r] = "idle"
          BY <3>5 DEF Idle
        <5> QED
          BY <3>1, <3>5, <5>1 DEF Begin, Step, Fail, Crash, CheckTarget, LoadDocuments, CheckIndex,
             SaveMetadata, SaveIdentity, CheckParsed, LoadParsed, StartParsing, ParseAndSave,
             AddDocument, ConsultStructure, UseStructure, InvalidateIndex, ReplaceStructure,
             MarkChunked, ReplaceChunks, ConsultState, ReplaceIndex, Goto, TypeOK
      <4>2. RunAwaits(r)
        BY <3>3, <3>5, <4>1 DEF Awaited, MarkIndexed
      <4> QED
        BY <3>2, <3>3, <3>5, <4>1, <4>2, LastRunConverges DEF MarkIndexed, Return
    <3>6. OverlappingRunsConverge'
      BY <3>5 DEF OverlappingRunsConverge
    <3> QED
      BY <3>4, <3>6
  <2> QED
    BY <2>1, <2>2 DEF SharedInv, Agreed, Awaited
<1> QED
  BY <1>1, <1>2

(* OverlappingRunsConverge, of the specification in which upgrades are         *)
(* deployed between runs: however many runs overlap, and whatever failed or    *)
(* changed before, once those in flight have all ended well the version is     *)
(* complete under a configuration, each stage derived from the one before.     *)
THEOREM RunsConverge == SharedSpec => []OverlappingRunsConverge
<1>1. SharedSpec => []TypeOK
  BY InitTyped, NextTyped, PTL DEF SharedSpec
<1>2. Init => SharedInv
  <2> SUFFICES ASSUME Init PROVE SharedInv
    OBVIOUS
  <2>1. \A r \in Runs : pc[r] = "idle"
    BY DEF Init
  <2>2. TablesAgree
    BY DEF Init, TablesAgree, StructureMatchesItsHash, NothingDerived, AtMostOne
  <2>3. OneConfig /\ \A r \in Runs : RunAgrees(r) /\ RunAwaits(r)
    BY <2>1 DEF OneConfig, RunAgrees, RunAwaits, Late, Post, Reindexing, Rechunking, Restructuring
  <2>4. OverlappingRunsConverge
    BY DEF Init, OverlappingRunsConverge
  <2> QED
    BY <2>2, <2>3, <2>4 DEF SharedInv
<1>3. SharedSpec => []NothingOutlivesItsSource
  <2>1. Init => NothingOutlivesItsSource
    BY SourcesAtFirst
  <2> QED
    BY <1>1, <2>1, NextKeepsSources, PTL DEF SharedSpec
<1>4. SharedSpec => []SharedInv
  BY <1>1, <1>2, <1>3, SharedNext, PTL DEF SharedSpec
<1>5. SharedInv => OverlappingRunsConverge
  BY DEF SharedInv, OverlappingRunsConverge
<1> QED
  BY <1>4, <1>5, PTL

=============================================================================
