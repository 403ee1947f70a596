------------------------------ MODULE FileCatalog -----------------------------
(***************************************************************************)
(* The project's files and which papers they are: IngestionPipeline.ingest  *)
(* scans the project directory, registers every PDF by the hash of its      *)
(* bytes, decides from its text which paper and version it is, has the      *)
(* version derived (parsed, chunked, indexed: module Ingestion; one step    *)
(* here), and marks the paths it did not see as missing.  Users change the  *)
(* directory and other runs ingest it meanwhile; a file's error ends its    *)
(* item, a crash ends the run.                                              *)
(*                                                                         *)
(* One project, one configuration of the pipeline; its file and version     *)
(* statuses are left to module Ingestion, and ingestion_items, which is only *)
(* written, is left out.  Every other transaction and every reading of the  *)
(* disk is an action.                                                       *)
(***************************************************************************)
EXTENDS Integers, FiniteSets

CONSTANTS
  Path,          \* relative paths, in the order of the scan: numbers
  Binary,        \* SHA-256 hashes of files
  Text,          \* content hashes of their text
  TextOf,        \* text of each binary, if it has any
  Name,          \* DOIs, arXiv ids, titles with authors
  NamesOf,       \* what the metadata of each binary tell of its paper
  Disks,         \* directories to begin with
  Arriving,      \* binaries that appear in them later
  Runs,          \* concurrent calls of ingest
  Forced,        \* those with force_reindex
  None,          \* SQL's NULL, or no file
  MaxChanges,    \* model bound: changes of the directory
  MaxIngests,    \* model bound: calls of ingest in all
  MaxIds         \* model bound: papers and versions made up

ASSUME PathAssumption == Path \subseteq Nat
(* What the resolver looks a paper up by. *)
Kind == {"doi", "arxiv", "title"}
Metadatum == [Kind -> Name \cup {None}]

ASSUME TextAssumption ==
  /\ TextOf \in [Binary -> Text \cup {None}]
  /\ NamesOf \in [Binary -> Metadatum]
ASSUME DisksAssumption ==
  Disks \subseteq [Path -> Binary \cup {None}] /\ Arriving \subseteq Binary
ASSUME NoneAssumption == None \notin Binary \cup Text \cup Name \cup Nat
ASSUME MaxIdsAssumption == MaxIds \in Nat

VARIABLES
  disk,       \* binary at each path, if any
  file,       \* paper_files: one row for each hash
  location,   \* paper_file_locations: one row for each path
  paperOf,    \* paper_versions: the paper of each version
  namesOf,    \* papers: doi, arxiv_id, and title with authors
  derived,    \* versions with an index
  nextId,     \* uuid4
  run,        \* where each run is, and what it holds
  status,     \* ingestion_runs.status
  alone,      \* history: runs since whose start nothing else moved
  doubtful,   \* history: files, texts and names that two runs resolved at once,
              \* or that were read of a file replaced since its fingerprint
  changes, ingests   \* for the model bounds

catalog == <<file, location, paperOf, namesOf, derived, nextId>>
history == <<alone, doubtful>>
vars == <<disk, file, location, paperOf, namesOf, derived, nextId, run, status,
          alone, doubtful, changes, ingests>>

-----------------------------------------------------------------------------

Id == 1 .. MaxIds
FileRow == [known : BOOLEAN, text : Text \cup {None}, version : Id \cup {None}]
LocationRow == [file : Binary \cup {None}, present : BOOLEAN]

(* The locals of ingest and _ingest_file: the path it was asked for (None for *)
(* all), what its scan found, whether anything failed, the paths still to be  *)
(* done, the one at work and its hash, whether that was a new or modified     *)
(* file, the binary its metadata were read of, and its paper and version.     *)
Stage == {"idle", "scan", "next", "register", "check", "metadata", "resolve",
          "save_identity", "derive", "complete"}
InFile == {"register", "check", "metadata", "resolve", "save_identity", "derive"}
Run == [stage : Stage, scope : Path \cup {None}, listed : SUBSET Path,
        troubled : BOOLEAN, todo : SUBSET Path, at : Path \cup {None},
        bytes : Binary \cup {None}, novel : BOOLEAN, read : Binary \cup {None},
        paper : Id \cup {None}, version : Id \cup {None}]
Idle == [stage |-> "idle", scope |-> None, listed |-> {}, troubled |-> FALSE,
         todo |-> {}, at |-> None, bytes |-> None, novel |-> FALSE, read |-> None,
         paper |-> None, version |-> None]
RunStatus == {"none", "running", "completed", "completed_with_errors"}

TypeOK ==
  /\ disk \in [Path -> Binary \cup {None}]
  /\ file \in [Binary -> FileRow]
  /\ location \in [Path -> LocationRow]
  /\ paperOf \in [Id -> Id \cup {None}]
  /\ namesOf \in [Id -> Metadatum]
  /\ derived \in SUBSET Id
  /\ nextId \in 1 .. MaxIds + 1
  /\ run \in [Runs -> Run]
  /\ status \in [Runs -> RunStatus]
  /\ alone \in SUBSET Runs
  /\ doubtful \subseteq Binary \cup Text \cup Name
  /\ changes \in Nat /\ ingests \in Nat

Init ==
  /\ disk \in Disks
  /\ file = [b \in Binary |-> [known |-> FALSE, text |-> None, version |-> None]]
  /\ location = [p \in Path |-> [file |-> None, present |-> FALSE]]
  /\ paperOf = [i \in Id |-> None]
  /\ namesOf = [i \in Id |-> [k \in Kind |-> None]]
  /\ derived = {}
  /\ nextId = 1
  /\ run = [r \in Runs |-> Idle]
  /\ status = [r \in Runs |-> "none"]
  /\ alone = {} /\ doubtful = {}
  /\ changes = 0 /\ ingests = 0

-----------------------------------------------------------------------------
(* ingest: its run, the scan, and what follows the files.                    *)

At(r) == run[r].at
Bytes(r) == run[r].bytes
InFlight(r) == run[r].stage # "idle"
OnDisk == {p \in Path : disk[p] # None}
Scope(s) == IF s = None THEN Path ELSE {s}
First(S) == CHOOSE p \in S : \A q \in S : p <= q

(* A run whose process died is not taken up again: its row stays "running". *)
Start(r, scope) ==
  /\ ~ InFlight(r)
  /\ ingests < MaxIngests
  /\ ingests' = ingests + 1
  /\ run' = [run EXCEPT ![r] = [Idle EXCEPT !.stage = "scan", !.scope = scope]]
  /\ status' = [status EXCEPT ![r] = "running"]
  /\ alone' = IF \E q \in Runs : InFlight(q) THEN {} ELSE {r}
  /\ UNCHANGED <<disk, catalog, doubtful, changes>>

(* DirectoryScanner.scan: a directory that cannot be read is left out. *)
Scan(r) ==
  /\ run[r].stage = "scan"
  /\ \E unreadable \in SUBSET (OnDisk \cap Scope(run[r].scope)) :
       LET found == (OnDisk \cap Scope(run[r].scope)) \ unreadable IN
         run' = [run EXCEPT ![r].stage = "next", ![r].listed = found, ![r].todo = found,
                            ![r].troubled = unreadable # {} \/ run[r].scope \in Path \ OnDisk]
  /\ UNCHANGED <<disk, catalog, status, history, changes, ingests>>

(* mark_missing_locations, after a scan of the whole project. *)
MarkMissing(r) ==
  /\ run[r].stage = "next" /\ run[r].todo = {} /\ run[r].scope = None
  /\ location' = [p \in Path |->
       [location[p] EXCEPT !.present = @ /\ p \in run[r].listed]]
  /\ run' = [run EXCEPT ![r].stage = "complete"]
  /\ UNCHANGED <<disk, file, paperOf, namesOf, derived, nextId, status, history,
                 changes, ingests>>

(* runs.complete *)
Complete(r) ==
  /\ \/ run[r].stage = "next" /\ run[r].todo = {} /\ run[r].scope # None
     \/ run[r].stage = "complete"
  /\ status' = [status EXCEPT ![r] =
       IF run[r].troubled THEN "completed_with_errors" ELSE "completed"]
  /\ run' = [run EXCEPT ![r] = [Idle EXCEPT !.scope = run[r].scope]]
  /\ UNCHANGED <<disk, catalog, history, changes, ingests>>

-----------------------------------------------------------------------------
(* _ingest_file: the binary, its file and its location.                      *)

(* The item of the path is done. *)
Finished(held, failed) ==
  [held EXCEPT !.stage = "next", !.troubled = @ \/ failed, !.at = None, !.bytes = None,
               !.novel = FALSE, !.read = None, !.paper = None, !.version = None]
Finish(r, failed) == run' = [run EXCEPT ![r] = Finished(run[r], failed)]

(* Sha256Fingerprinter: the file may be gone since the scan, or written to. *)
Fingerprint(r) ==
  /\ run[r].stage = "next" /\ run[r].todo # {}
  /\ LET p == First(run[r].todo) IN
       \E fails \in {disk[p] = None, TRUE} :
         run' = [run EXCEPT ![r] =
           IF fails THEN [run[r] EXCEPT !.todo = @ \ {p}, !.troubled = TRUE]
           ELSE [run[r] EXCEPT !.stage = "register", !.todo = @ \ {p}, !.at = p,
                               !.bytes = disk[p]]]
  /\ UNCHANGED <<disk, catalog, status, history, changes, ingests>>

(* Faulty variant: a file already at the path keeps it. *)
RegisterNewPaths(r) ==
  /\ run[r].stage = "register"
  /\ file' = [file EXCEPT ![Bytes(r)].known = TRUE]
  /\ location' = [location EXCEPT ![At(r)] =
       [file |-> IF @.file = None THEN Bytes(r) ELSE @.file, present |-> TRUE]]
  /\ run' = [run EXCEPT ![r].stage = "check", ![r].novel = ~ file[Bytes(r)].known]
  /\ UNCHANGED <<disk, paperOf, namesOf, derived, nextId, status, history, changes,
                 ingests>>

(* classify_file, get_or_add_file and upsert_location: a hash that is known is *)
(* unchanged or a duplicate, another one a new or modified file.              *)
Register(r) ==
  /\ run[r].stage = "register"
  /\ file' = [file EXCEPT ![Bytes(r)].known = TRUE]
  /\ location' = [location EXCEPT ![At(r)] = [file |-> Bytes(r), present |-> TRUE]]
  /\ run' = [run EXCEPT ![r].stage = "check", ![r].novel = ~ file[Bytes(r)].known]
  /\ UNCHANGED <<disk, paperOf, namesOf, derived, nextId, status, history, changes,
                 ingests>>

-----------------------------------------------------------------------------
(* ... its identity ...                                                      *)

Version(b) == file[b].version

(* Nothing to do for a known file whose version is up to date. *)
Settled(r) ==
  ~ run[r].novel /\ r \notin Forced /\ Version(Bytes(r)) \in derived

AfterCheck(r) ==
  IF Version(Bytes(r)) = None \/ r \in Forced \/ file[Bytes(r)].text = None
    THEN "metadata" ELSE "save_identity"

(* get_identity, and whether the version is current (has_current and          *)
(* _target_is_current).                                                       *)
Check(r) ==
  /\ run[r].stage = "check"
  /\ LET v == Version(Bytes(r)) IN
       IF Settled(r)
         THEN Finish(r, FALSE)
         ELSE run' = [run EXCEPT ![r] = [@ EXCEPT !.stage = AfterCheck(r), !.version = v,
                !.paper = IF v = None THEN None ELSE paperOf[v]]]
  /\ UNCHANGED <<disk, catalog, status, history, changes, ingests>>

(* metadata_extractor.extract opens the path again. *)
Metadata(r) ==
  /\ run[r].stage = "metadata"
  /\ disk[At(r)] # None
  /\ run' = [run EXCEPT ![r].stage = "resolve", ![r].read = disk[At(r)]]
  /\ doubtful' = IF disk[At(r)] = Bytes(r) THEN doubtful
                 ELSE doubtful \cup ({TextOf[disk[At(r)]], TextOf[Bytes(r)], Bytes(r)} \ {None})
  /\ UNCHANGED <<disk, catalog, status, alone, changes, ingests>>

(* DeterministicPaperIdentityResolver.resolve, within the transaction of      *)
(* save_metadata: the paper and version of a file with this text, else a      *)
(* fresh version of a paper found by DOI, or else by arXiv id, or else by     *)
(* title and authors, else both fresh.                                        *)

(* Faulty variant: only the same bytes are the same version. *)
NoSameText(t) == {}
SameText(t) == {b \in Binary : t # None /\ file[b].text = t /\ Version(b) # None}
Bearing(k, names) == {p \in Id : names[k] # None /\ namesOf[p][k] = names[k]}

(* Faulty variant: a DOI nobody bears ends the search. *)
FoundByFirstName(names) ==
  IF names["doi"] # None THEN Bearing("doi", names)
  ELSE IF names["arxiv"] # None THEN Bearing("arxiv", names)
  ELSE Bearing("title", names)

Found(names) ==
  IF Bearing("doi", names) # {} THEN Bearing("doi", names)
  ELSE IF Bearing("arxiv", names) # {} THEN Bearing("arxiv", names)
  ELSE Bearing("title", names)

Identities(b) ==
  IF SameText(TextOf[b]) # {}
    THEN {<<paperOf[Version(c)], Version(c)>> : c \in SameText(TextOf[b])}
  ELSE IF Found(NamesOf[b]) # {}
    THEN {<<p, nextId>> : p \in Found(NamesOf[b])}
  ELSE {<<nextId, nextId>>}

(* What another run made up but did not save yet is not seen, nor what it      *)
(* saved for the file since Check.                                            *)
Names(r) ==
  ({Bytes(r), TextOf[run[r].read]} \cup {NamesOf[run[r].read][k] : k \in Kind}) \ {None}
Unsaved == {q \in Runs : run[q].stage = "save_identity" /\ paperOf[run[q].version] = None}
Contested(r) ==
  {x \in Names(r) : \/ \E q \in Unsaved : x \in Names(q)
                    \/ x = Bytes(r) /\ Version(x) # None}

Resolve(r) ==
  /\ run[r].stage = "resolve"
  /\ file' = [file EXCEPT ![Bytes(r)].text = TextOf[run[r].read]]
  /\ IF run[r].version # None
       THEN /\ run' = [run EXCEPT ![r].stage = "save_identity"]
            /\ UNCHANGED <<nextId, doubtful>>
       ELSE /\ nextId \in Id
            /\ \E identity \in Identities(run[r].read) :
                 /\ run' = [run EXCEPT ![r].stage = "save_identity",
                       ![r].paper = identity[1], ![r].version = identity[2]]
                 /\ nextId' = IF nextId = identity[2] THEN nextId + 1 ELSE nextId
            /\ doubtful' = doubtful \cup Contested(r)
  /\ UNCHANGED <<disk, location, paperOf, namesOf, derived, status, alone, changes,
                 ingests>>

PaperExists(p) == \E v \in Id : paperOf[v] = p

(* Faulty variant: the file now at the path gets the identity. *)
FileAtPath(r) == IF location[At(r)].file = None THEN Bytes(r) ELSE location[At(r)].file
FileOf(r) == Bytes(r)

(* save_identity writes the paper and the version if they do not exist, and   *)
(* the file's reference to them in any case.  A paper that is there is given  *)
(* its own names, not the file's: it keeps those of its first file.           *)
SaveIdentity(r) ==
  /\ run[r].stage = "save_identity"
  /\ LET v == run[r].version
         p == run[r].paper
     IN /\ paperOf' = IF paperOf[v] = None THEN [paperOf EXCEPT ![v] = p] ELSE paperOf
        /\ namesOf' = IF PaperExists(p) THEN namesOf
                      ELSE [namesOf EXCEPT ![p] = NamesOf[run[r].read]]
        /\ file' = [file EXCEPT ![FileOf(r)].version = v]
  /\ run' = [run EXCEPT ![r].stage = "derive"]
  /\ UNCHANGED <<disk, location, derived, nextId, status, history, changes, ingests>>

-----------------------------------------------------------------------------
(* ... and the rest of the pipeline, whose step may fail half way.           *)

Derive(r) ==
  /\ run[r].stage = "derive"
  /\ derived' = derived \cup {run[r].version}
  /\ Finish(r, FALSE)
  /\ UNCHANGED <<disk, file, location, paperOf, namesOf, nextId, status, history,
                 changes, ingests>>

(* A version that is derived again loses its index before it gets the new one. *)
LeftBehind(r) ==
  IF run[r].stage = "derive" THEN {derived, derived \ {run[r].version}} ELSE {derived}

(* The handler of _ingest_file: any step may raise, Metadata when the path is *)
(* gone.                                                                      *)
Fail(r) ==
  /\ run[r].stage \in InFile
  /\ derived' \in LeftBehind(r)
  /\ Finish(r, TRUE)
  /\ UNCHANGED <<disk, file, location, paperOf, namesOf, nextId, status, history,
                 changes, ingests>>

(* The process dies, or a step of ingest raises: what is committed stays. *)
Crash(r) ==
  /\ InFlight(r)
  /\ derived' \in LeftBehind(r)
  /\ run' = [run EXCEPT ![r] = Idle]
  /\ UNCHANGED <<disk, file, location, paperOf, namesOf, nextId, status, history,
                 changes, ingests>>

-----------------------------------------------------------------------------

(* A file appears, is replaced or is removed. *)
Change(p) ==
  /\ changes < MaxChanges
  /\ changes' = changes + 1
  /\ \E b \in (Arriving \cup {None}) \ {disk[p]} : disk' = [disk EXCEPT ![p] = b]
  /\ alone' = {}
  /\ UNCHANGED <<catalog, run, status, doubtful, ingests>>

Step(r) ==
  \/ Scan(r)
  \/ Fingerprint(r)
  \/ Register(r)
  \/ Check(r)
  \/ Metadata(r)
  \/ Resolve(r)
  \/ SaveIdentity(r)
  \/ Derive(r)
  \/ MarkMissing(r)
  \/ Complete(r)

Next ==
  \/ \E r \in Runs :
       \/ \E scope \in Path \cup {None} : Start(r, scope)
       \/ Step(r)
       \/ Fail(r)
       \/ Crash(r)
  \/ \E p \in Path : Change(p)

Spec == Init /\ [][Next]_vars

-----------------------------------------------------------------------------

(* A scan of the whole project that status "completed" tells the truth,      *)
(* whatever crashed, failed or stale runs left in the tables before it, as    *)
(* long as nothing else moved meanwhile: a location is present exactly when   *)
(* its path is on the disk, and then leads to the file of these bytes, whose  *)
(* version is indexed ("missing only says that the path is not on the disk",  *)
(* docs/ user manual, section 15; IngestionPipeline.ingest).                  *)
CompletedScansAreTruthful ==
  \A r \in alone : status[r] = "completed" /\ run[r].scope = None =>
    \A p \in Path :
      /\ location[p].present <=> disk[p] # None
      /\ disk[p] # None => /\ location[p].file = disk[p]
                           /\ Version(disk[p]) \in derived

(* A file keeps the version it got, whatever happens to the paths it is found *)
(* at and in whichever order runs save what they resolved, unless two runs    *)
(* resolved its text at once (each takes the file for unresolved, and the     *)
(* later save_identity wins) or one read it of another file: identity.py:16,  *)
(* repositories.py:171.                                                       *)
FilesKeepTheirVersion ==
  [][\A b \in Binary :
       Version(b) # None /\ {b, TextOf[b]} \cap doubtful = {} => Version(b)' = Version(b)]_vars

(* Copies of a text are one version, in any order of scans, copies, crashes   *)
(* and failures, with the same exceptions ("duplicate: same SHA-256 or same   *)
(* content hash", docs/ user manual, section 8).                              *)
CopiesShareAVersion ==
  \A a, b \in Binary :
    /\ Version(a) # None /\ Version(b) # None
    /\ TextOf[a] = TextOf[b] /\ TextOf[a] # None
    /\ {a, b, TextOf[a]} \cap doubtful = {}
    => Version(a) = Version(b)

Bears(p, names) ==
  namesOf[p] = names \/ \E k \in Kind : names[k] # None /\ namesOf[p][k] = names[k]

(* The three look-ups, the first to succeed counting, keep papers apart: no   *)
(* two papers bear one DOI, one arXiv id or one title with authors, and the   *)
(* paper of a version bears a name of one of the version's files (or all of   *)
(* them, who may tell nothing), except for names two runs resolved at once    *)
(* and for files in doubt.  That files with one name share a paper does not   *)
(* follow, and is not so: a paper keeps the names of its first file.          *)
PapersAreToldApart ==
  /\ \A p, q \in Id, k \in Kind :
       namesOf[p][k] \notin doubtful \cup {None} /\ namesOf[p][k] = namesOf[q][k] => p = q
  /\ \A b \in Binary :
       Version(b) # None /\ {b, TextOf[b]} \cap doubtful = {} =>
         \E c \in Binary : /\ Version(c) = Version(b)
                           /\ Bears(paperOf[Version(b)], NamesOf[c])
=============================================================================
