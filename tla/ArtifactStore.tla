----------------------------- MODULE ArtifactStore ----------------------------
(***************************************************************************)
(* ArtifactService over the local blob store and the research_artifacts     *)
(* table.  A blob lives at the address of its content hash and is shared by *)
(* every artifact with that content (other projects, sessions, tool calls); *)
(* the row of an artifact says that it exists, until when, and whether it   *)
(* was found corrupt.  Several clients use both at once, files are damaged  *)
(* and clients die between any two steps.                                   *)
(*                                                                         *)
(* Every file access is one action (a blob is replaced atomically, by        *)
(* os.replace), and so is every transaction but that of repository.save,     *)
(* which reads the row without a lock and writes it two statements later.    *)
(***************************************************************************)
EXTENDS Integers

CONSTANTS
  Artifact,        \* artifact_ids (each belongs to one project)
  Content,         \* content hashes
  ContentOf,       \* content_hash of each artifact
  Clients,         \* threads and processes calling the service
  Retention,       \* retention_days
  MaxTime,         \* model bound: the clock stops here
  MaxDamage,       \* model bound: how often a file is damaged
  MaxServiceCalls  \* model bound: calls of the service in all

ASSUME ContentOfAssumption == ContentOf \in [Artifact -> Content]
ASSUME RetentionAssumption == Retention \in Nat
ASSUME MaxTimeAssumption == MaxTime \in Nat

VARIABLES
  blob,      \* the file at each content address
  row,       \* research_artifacts rows
  clock,
  pc,        \* where each client is
  on,        \* the artifact of its call
  now,       \* its reading of the clock
  loaded,    \* the row its save has read
  outcome,   \* how its last call ended
  spoiled,   \* history: contents whose file was ever damaged
  disturbed, \* history: the file of the client's artifact was damaged since
             \* the client saw it intact
  overlooked, \* history: artifacts whose last save kept a status written
              \* after it had read the row
  damages, calls    \* for the model bounds

clientVars == <<pc, on, now, loaded, outcome>>
historyVars == <<spoiled, disturbed, overlooked, damages>>
storeVars == <<blob, row, clock, pc, on, now, loaded, outcome, spoiled,
               disturbed, overlooked, damages, calls>>

-----------------------------------------------------------------------------

(* "garbled": not a gzip file, cut short, or of another hash; "undecodable": *)
(* the compressed data itself is broken, for which gzip.decompress raises    *)
(* zlib.error; "lost": removed by somebody else, nothing here deletes blobs. *)
Damaged == {"garbled", "undecodable", "lost"}
BlobState == {"absent", "intact"} \cup Damaged

RowStatus == {"absent", "active", "expired", "corrupt"}
Row == [status : RowStatus, expires : Nat]
NoRow == [status |-> "absent", expires |-> 0]
SavedRow(t) == [status |-> "active", expires |-> t + Retention]

PC == {"idle", "lookup", "verify", "put", "save", "flush",
       "load", "fetch", "mark_expired", "mark_corrupt", "sweep"}
Outcome == {"none", "returned", "content", "not_found", "missing", "expired",
            "corrupt", "undecodable", "listed"}

TypeOK ==
  /\ blob \in [Content -> BlobState]
  /\ row \in [Artifact -> Row]
  /\ clock \in 0 .. MaxTime
  /\ pc \in [Clients -> PC]
  /\ on \in [Clients -> Artifact]
  /\ now \in [Clients -> 0 .. MaxTime]
  /\ loaded \in [Clients -> Row]
  /\ outcome \in [Clients -> Outcome]
  /\ spoiled \in SUBSET Content
  /\ disturbed \in [Clients -> BOOLEAN]
  /\ overlooked \in SUBSET Artifact
  /\ damages \in Nat
  /\ calls \in Nat

StoreInit ==
  /\ blob = [c \in Content |-> "absent"]
  /\ row = [a \in Artifact |-> NoRow]
  /\ clock = 0
  /\ pc = [p \in Clients |-> "idle"]
  /\ on \in [Clients -> Artifact]
  /\ now = [p \in Clients |-> 0]
  /\ loaded = [p \in Clients |-> NoRow]
  /\ outcome = [p \in Clients |-> "none"]
  /\ spoiled = {}
  /\ disturbed = [p \in Clients |-> FALSE]
  /\ overlooked = {}
  /\ damages = 0
  /\ calls = 0

BlobOf(p) == blob[ContentOf[on[p]]]

Overdue(w, t) == w.status = "expired" \/ w.expires < t
Active(w, t) == w.status = "active" /\ w.expires >= t

-----------------------------------------------------------------------------
(* Calls and how they end. *)

Call(p, a, entry) ==
  /\ pc[p] = "idle"
  /\ calls < MaxServiceCalls
  /\ calls' = calls + 1
  /\ pc' = [pc EXCEPT ![p] = entry]
  /\ on' = [on EXCEPT ![p] = a]
  /\ now' = [now EXCEPT ![p] = clock]
  /\ outcome' = [outcome EXCEPT ![p] = "none"]
  /\ disturbed' = [disturbed EXCEPT ![p] = FALSE]
  /\ UNCHANGED <<blob, row, clock, loaded, spoiled, overlooked, damages>>

(* expires_at is computed from the clock at the start of the call. *)
Materialize(p, a) == Call(p, a, "lookup")
ReadSlice(p, a) == Call(p, a, "load")
Search(p) == Call(p, on[p], "sweep")

Proceed(p, next) ==
  /\ pc' = [pc EXCEPT ![p] = next]
  /\ UNCHANGED <<on, now, loaded, outcome>>

End(p, result) ==
  /\ pc' = [pc EXCEPT ![p] = "idle"]
  /\ loaded' = [loaded EXCEPT ![p] = NoRow]
  /\ outcome' = [outcome EXCEPT ![p] = result]
  /\ UNCHANGED <<on, now>>

-----------------------------------------------------------------------------
(* ArtifactService.materialize *)

(* Faulty variant: the row is reserved before the blob is written. *)
ReserveRow(p) ==
  /\ pc[p] = "lookup"
  /\ IF Active(row[on[p]], clock)
       THEN Proceed(p, "verify") /\ UNCHANGED row
       ELSE Proceed(p, "put") /\ row' = [row EXCEPT ![on[p]] = SavedRow(now[p])]
  /\ UNCHANGED <<blob, clock, historyVars, calls>>

Lookup(p) ==
  /\ pc[p] = "lookup"
  /\ IF Active(row[on[p]], clock) THEN Proceed(p, "verify") ELSE Proceed(p, "put")
  /\ UNCHANGED <<blob, row, clock, historyVars, calls>>

(* blob_store.get, of an active artifact: only PaperAgentErrors are caught. *)
Verify(p) ==
  /\ pc[p] = "verify"
  /\ CASE BlobOf(p) = "intact" -> End(p, "returned")
       [] BlobOf(p) = "undecodable" -> End(p, "undecodable")
       [] OTHER -> Proceed(p, "put")
  /\ disturbed' = [disturbed EXCEPT ![p] = FALSE]
  /\ UNCHANGED <<blob, row, clock, spoiled, overlooked, damages, calls>>

(* Faulty variant: a file that is there is trusted. *)
Trusted(file) == file \notin {"absent", "lost"}
Sound(file) == file = "intact"

(* blob_store.put: a sound file is kept, any other is written or replaced,   *)
(* but one that cannot even be decoded raises.                               *)
Put(p) ==
  /\ pc[p] = "put"
  /\ IF BlobOf(p) = "undecodable"
       THEN End(p, "undecodable") /\ UNCHANGED blob
       ELSE /\ Proceed(p, "save")
            /\ blob' = [blob EXCEPT ![ContentOf[on[p]]] =
                          IF Sound(@) THEN @ ELSE "intact"]
  /\ disturbed' = [disturbed EXCEPT ![p] = FALSE]
  /\ UNCHANGED <<row, clock, spoiled, overlooked, damages, calls>>

(* repository.save: INSERT .. ON CONFLICT DO NOTHING writes a new row whole   *)
(* and keeps it locked until the commit; a row that is there is selected,    *)
(* without a lock ...                                                        *)
Save(p) ==
  /\ pc[p] = "save"
  /\ \/ /\ row[on[p]].status = "absent"
        /\ row' = [row EXCEPT ![on[p]] = SavedRow(now[p])]
        /\ End(p, "returned")
     \/ /\ row[on[p]].status # "absent"
        /\ pc' = [pc EXCEPT ![p] = "flush"]
        /\ loaded' = [loaded EXCEPT ![p] = row[on[p]]]
        /\ UNCHANGED <<row, on, now, outcome>>
  /\ UNCHANGED <<blob, clock, historyVars, calls>>

(* ... and the flush updates the columns whose value differs from what was   *)
(* selected, and only those: a status another client has written since is    *)
(* kept when the row was selected as "active".                               *)
Refreshed(w, read, saved) ==
  [status  |-> IF read.status = saved.status THEN w.status ELSE saved.status,
   expires |-> IF read.expires = saved.expires THEN w.expires ELSE saved.expires]

Flush(p) ==
  /\ pc[p] = "flush"
  /\ row' = [row EXCEPT ![on[p]] = Refreshed(@, loaded[p], SavedRow(now[p]))]
  /\ overlooked' = IF row'[on[p]].status = "active"
                     THEN overlooked \ {on[p]} ELSE overlooked \cup {on[p]}
  /\ End(p, "returned")
  /\ UNCHANGED <<blob, clock, spoiled, disturbed, damages, calls>>

-----------------------------------------------------------------------------
(* ArtifactService.read_slice and search *)

Load(p) ==
  /\ pc[p] = "load"
  /\ now' = [now EXCEPT ![p] = clock]
  /\ LET found == row[on[p]] IN
       \/ /\ found.status = "absent"
          /\ pc' = [pc EXCEPT ![p] = "idle"]
          /\ outcome' = [outcome EXCEPT ![p] = "not_found"]
       \/ /\ found.status # "absent"
          /\ pc' = [pc EXCEPT ![p] =
                      IF Overdue(found, clock) THEN "mark_expired" ELSE "fetch"]
          /\ UNCHANGED outcome
  /\ UNCHANGED <<blob, row, clock, on, loaded, historyVars, calls>>

(* mark_expired: one UPDATE that looks at every row again. *)
ExpiredIfOverdue(w, t) ==
  IF w.status = "active" /\ w.expires < t THEN [w EXCEPT !.status = "expired"] ELSE w

(* Faulty variant: a reader expires by its id the row it found overdue. *)
ExpireWhatWasRead(p) ==
  /\ pc[p] \in {"mark_expired", "sweep"}
  /\ IF pc[p] = "sweep"
       THEN row' = [a \in Artifact |-> ExpiredIfOverdue(row[a], now[p])]
       ELSE row' = [row EXCEPT ![on[p]].status = "expired"]
  /\ End(p, IF pc[p] = "sweep" THEN "listed" ELSE "expired")
  /\ UNCHANGED <<blob, clock, historyVars, calls>>

MarkExpired(p) ==
  /\ pc[p] \in {"mark_expired", "sweep"}
  /\ row' = [a \in Artifact |-> ExpiredIfOverdue(row[a], now[p])]
  /\ End(p, IF pc[p] = "sweep" THEN "listed" ELSE "expired")
  /\ UNCHANGED <<blob, clock, historyVars, calls>>

Fetch(p) ==
  /\ pc[p] = "fetch"
  /\ CASE BlobOf(p) = "intact" -> End(p, "content")
       [] BlobOf(p) = "garbled" -> Proceed(p, "mark_corrupt")
       [] BlobOf(p) = "undecodable" -> End(p, "undecodable")
       [] OTHER -> End(p, "missing")
  /\ UNCHANGED <<blob, row, clock, historyVars, calls>>

(* update_status: whatever happened to the blob and the row meanwhile. *)
MarkCorrupt(p) ==
  /\ pc[p] = "mark_corrupt"
  /\ row' = [row EXCEPT ![on[p]].status = "corrupt"]
  /\ End(p, "corrupt")
  /\ UNCHANGED <<blob, clock, historyVars, calls>>

-----------------------------------------------------------------------------
(* The environment. *)

(* The client dies, or the database or the disk refuses: nothing is undone. *)
Crash(p) ==
  /\ pc[p] # "idle"
  /\ End(p, "none")
  /\ UNCHANGED <<blob, row, clock, historyVars, calls>>

Damage(c) ==
  /\ blob[c] \in {"intact", "garbled", "undecodable"}
  /\ damages < MaxDamage
  /\ damages' = damages + 1
  /\ \E state \in Damaged : blob' = [blob EXCEPT ![c] = state]
  /\ spoiled' = spoiled \cup {c}
  /\ disturbed' = [p \in Clients |-> disturbed[p] \/ ContentOf[on[p]] = c]
  /\ UNCHANGED <<row, clock, clientVars, overlooked, calls>>

Tick ==
  /\ clock < MaxTime
  /\ clock' = clock + 1
  /\ UNCHANGED <<blob, row, clientVars, historyVars, calls>>

Step(p) ==
  \/ Lookup(p)
  \/ Verify(p)
  \/ Put(p)
  \/ Save(p)
  \/ Flush(p)
  \/ Load(p)
  \/ MarkExpired(p)
  \/ Fetch(p)
  \/ MarkCorrupt(p)

StoreNext ==
  \/ \E p \in Clients :
       \/ \E a \in Artifact : Materialize(p, a) \/ ReadSlice(p, a)
       \/ Search(p)
       \/ Step(p)
       \/ Crash(p)
  \/ \E c \in Content : Damage(c)
  \/ Tick

StoreSpec == StoreInit /\ [][StoreNext]_storeVars

-----------------------------------------------------------------------------

(* "a Blob is written and verified before the Catalog row commits"           *)
(* (service.py:3-4): as long as nobody damages its file, an artifact that    *)
(* has a row has its blob, is never called corrupt, and never fails to be    *)
(* read for want of it, whichever client died on the way.                    *)
UndamagedArtifactsStayReadable ==
  /\ \A a \in Artifact : ContentOf[a] \notin spoiled =>
       /\ row[a].status # "absent" => blob[ContentOf[a]] = "intact"
       /\ row[a].status # "corrupt"
  /\ \A p \in Clients : ContentOf[on[p]] \notin spoiled =>
       outcome[p] \notin {"missing", "corrupt", "undecodable"}

(* Why it is so: a file not damaged is absent or intact, and a client only   *)
(* saves the row of an intact one.                                           *)
SoundClient(p) ==
  ContentOf[on[p]] \notin spoiled =>
    /\ pc[p] \in {"save", "flush"} => BlobOf(p) = "intact"
    /\ pc[p] \in {"verify", "fetch", "flush"} => row[on[p]].status # "absent"
    /\ pc[p] # "mark_corrupt"

BlobsBeforeRows ==
  /\ UndamagedArtifactsStayReadable
  /\ \A c \in Content \ spoiled : blob[c] \in {"absent", "intact"}
  /\ \A p \in Clients : SoundClient(p)

(* A descriptor is only returned for a blob that is there: materialize       *)
(* repairs a missing or corrupt one, its own or another artifact's, unless   *)
(* the file is damaged again afterwards (blob_store.put, "repaired by the    *)
(* same atomic replacement path").                                           *)
ReturnedArtifactsAreIntact ==
  \A p \in Clients : outcome[p] = "returned" /\ ~ disturbed[p] =>
    BlobOf(p) = "intact" /\ row[on[p]].status # "absent"

(* Why it is so: the file was intact when the client last looked, and rows   *)
(* are updated but never deleted.                                            *)
Backed(p) ==
  /\ (outcome[p] = "returned" \/ pc[p] \in {"save", "flush"}) /\ ~ disturbed[p] =>
       BlobOf(p) = "intact"
  /\ outcome[p] = "returned" \/ pc[p] \in {"verify", "flush"} =>
       row[on[p]].status # "absent"
  /\ pc[p] # "idle" => outcome[p] = "none"

(* An expired row is overdue, although readers expire rows from what they    *)
(* read some time ago and may be late (repository.mark_expired).  The one    *)
(* way to an expired row with time left is a save of a row that expired      *)
(* between its SELECT and its flush: the new expires_at is written, the      *)
(* status is not.  The next save of the artifact that nobody cuts across     *)
(* makes the row active again.                                               *)
ExpiredRowsAreOverdue ==
  \A a \in Artifact \ overlooked :
    row[a].status = "expired" => row[a].expires < clock
=============================================================================
