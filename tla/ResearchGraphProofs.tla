-------------------------- MODULE ResearchGraphProofs --------------------------
(* Proofs about ResearchGraph, for any documents, claims and entities, any    *)
(* number of extractions at once, and re-indexing beside them.                *)
EXTENDS ResearchGraph, WellFoundedInduction, TLAPS

-----------------------------------------------------------------------------
(* The inductive invariant.                                                  *)

(* A version's hash is that of one of its documents, and so are its chunks,   *)
(* which were stored under that hash.                                         *)
LibraryInv ==
  \A v \in Version :
    /\ hash[v] \in Document /\ VersionOf[hash[v]] = v
    /\ chunks[v] # None =>
         VersionOf[chunks[v]] = v /\ <<hash[v], chunks[v]>> \in indexed

(* The hash an extraction has read, or may still read, is one under which the *)
(* chunks it reads were stored, or was recorded while it read them.           *)
Matched == indexed \cup torn

Fetched(r) ==
  /\ stage[r] # "idle" => content[r] \in Document
  /\ stage[r] = "hash" => <<hash[VersionOf[content[r]]], content[r]>> \in Matched
  /\ stage[r] \notin {"idle", "hash"} =>
       generation[r] \in Document /\ <<generation[r], content[r]>> \in Matched

(* The tables keep what is in them: a row that is not stored has no successor, *)
(* and the key of every row that is stored has an active one.                 *)
TablesInv ==
  /\ HistoryIsOneChain
  /\ \A x \in Record \ stored : successor[x] = None
  /\ \A x \in stored : \E y \in active : SameKey(x, y)

(* A transaction saw tables that were as these are, and that grew since. *)
SawTables(r) ==
  /\ seen[r].active \subseteq seen[r].stored
  /\ seen[r].stored \subseteq stored
  /\ seen[r].entities \subseteq entities
  /\ \A x, y \in seen[r].active : SameKey(x, y) => x = y

(* What an extraction's transactions left behind, as far as it has come. *)
ClaimsStored(g, d) ==
  \A c \in ClaimsOf[d] : \E x \in stored : x.gen = g /\ SameKey(x, ClaimRow(g, c))
RelationsStored(g, d) == \A e \in EntitiesOf[d] : RelationRow(g, e) \in stored
AfterEntities == {"relations", "save_relations", "returned"}
AfterClaims == {"entities", "save_entities"} \cup AfterEntities
AfterProfile == {"claims", "save_claims"} \cup AfterClaims

Progress(r) ==
  /\ stage[r] \in AfterProfile => ProfileRow(generation[r]) \in stored
  /\ stage[r] \in AfterClaims => ClaimsStored(generation[r], content[r])
  /\ stage[r] \in AfterEntities => EntitiesOf[content[r]] \subseteq entities
  /\ stage[r] = "returned" => RelationsStored(generation[r], content[r])

RunsInv == \A r \in Runs : Fetched(r) /\ SawTables(r) /\ Progress(r)

-----------------------------------------------------------------------------
(* Rows and keys.                                                            *)

LEMMA RowsTyped ==
  /\ \A g \in Document : ProfileRow(g) \in Record
  /\ \A g \in Document, c \in Claim : ClaimRow(g, c) \in Record
  /\ \A g \in Document, e \in Entity : RelationRow(g, e) \in Record
  BY DEF Record

LEMMA RowFields ==
  /\ \A g : /\ ProfileRow(g).kind = "profile" /\ ProfileRow(g).gen = g
            /\ ProfileRow(g).item = 0
  /\ \A g, c : /\ ClaimRow(g, c).kind = "claim" /\ ClaimRow(g, c).gen = g
               /\ ClaimRow(g, c).item = c
  /\ \A g, e : /\ RelationRow(g, e).kind = "relation" /\ RelationRow(g, e).gen = g
               /\ RelationRow(g, e).item = e
  BY DEF ProfileRow, ClaimRow, RelationRow

(* A row is told by its kind, its generation and its item. *)
LEMMA RecordIdentity ==
  ASSUME NEW x \in Record, NEW y \in Record,
         x.kind = y.kind, x.gen = y.gen, x.item = y.item
  PROVE  x = y
  BY DEF Record, ProfileRow, ClaimRow, RelationRow

LEMMA RecordFields ==
  ASSUME NEW x \in Record
  PROVE  /\ x.gen \in Document
         /\ x.kind \in {"profile", "claim", "relation"}
         /\ x.kind = "profile" => x.item = 0
         /\ x.kind = "claim" => x.item \in Claim
  BY DEF Record, ProfileRow, ClaimRow, RelationRow

LEMMA KeysAreAnEquivalence ==
  /\ \A x : SameKey(x, x)
  /\ \A x, y : SameKey(x, y) => SameKey(y, x)
  /\ \A x, y, z : SameKey(x, y) /\ SameKey(y, z) => SameKey(x, z)
  BY DEF SameKey

LEMMA InsertedFromBatch ==
  ASSUME NEW batch, NEW old
  PROVE  /\ Inserted(batch, old) \subseteq batch
         /\ Inserted(batch, old) \cap old.stored = {}
  BY DEF Inserted

(* What a save is given is of one kind and one generation. *)
LEMMA BatchTyped ==
  ASSUME TypeOK, NEW r \in Runs, Fetched(r),
         stage[r] \in {"save_profile", "save_claims", "save_relations"}
  PROVE  /\ Batch(r) \subseteq Record
         /\ \A x \in Batch(r) : x.gen = generation[r]
         /\ \A x, y \in Batch(r) : x.kind = y.kind
<1>1. generation[r] \in Document /\ content[r] \in Document
  BY DEF Fetched
<1>2. ClaimsOf[content[r]] \subseteq Claim /\ EntitiesOf[content[r]] \subseteq Entity
  BY <1>1, DocumentAssumption
<1>3. CASE stage[r] = "save_profile"
  <2>1. Batch(r) = {ProfileRow(generation[r])}
    BY <1>3 DEF Batch
  <2> QED
    BY <1>1, <2>1, RowsTyped, RowFields
<1>4. CASE stage[r] = "save_claims"
  <2>1. Batch(r) = {ClaimRow(generation[r], c) : c \in ClaimsOf[content[r]]}
    BY <1>4 DEF Batch
  <2> QED
    BY <1>1, <1>2, <2>1, RowsTyped, RowFields
<1>5. CASE stage[r] = "save_relations"
  <2>1. Batch(r) = {RelationRow(generation[r], e) : e \in EntitiesOf[content[r]]}
    BY <1>5 DEF Batch, Named
  <2> QED
    BY <1>1, <1>2, <2>1, RowsTyped, RowFields
<1> QED
  BY <1>3, <1>4, <1>5

(* No two rows of one save have one key. *)
LEMMA InsertedKeys ==
  ASSUME TypeOK, NEW r \in Runs, Fetched(r), NEW old,
         stage[r] \in {"save_profile", "save_claims", "save_relations"},
         NEW x \in Inserted(Batch(r), old), NEW y \in Inserted(Batch(r), old),
         SameKey(x, y)
  PROVE  x = y
<1>1. /\ x \in Batch(r) /\ y \in Batch(r) /\ x \in Record /\ y \in Record
      /\ x.gen = y.gen /\ x.kind = y.kind
  BY BatchTyped, InsertedFromBatch
<1>2. CASE x.kind = "claim"
  <2>1. x.item \in Nat /\ y.item \in Nat
    BY <1>1, <1>2, RecordFields, ClaimAssumption
  <2>2. x # y => x.item < y.item /\ y.item < x.item
    BY <1>1, KeysAreAnEquivalence DEF Inserted
  <2> QED
    BY <2>1, <2>2
<1>3. CASE x.kind # "claim"
  <2>1. x.item = y.item
    BY <1>1, <1>3, RecordFields DEF SameKey
  <2> QED
    BY <1>1, <2>1, RecordIdentity
<1> QED
  BY <1>2, <1>3

-----------------------------------------------------------------------------
(* Types, and what an extraction has read.                                   *)

BaseInv == TypeOK /\ LibraryInv /\ \A r \in Runs : Fetched(r)

LEMMA BaseInit == Init => BaseInv
<1> SUFFICES ASSUME Init PROVE BaseInv
  OBVIOUS
<1>1. TypeOK
  BY DEF Init, TypeOK, Stage, Tables, Nothing
<1>2. LibraryInv
  BY DEF Init, LibraryInv
<1>3. \A r \in Runs : Fetched(r)
  BY DEF Init, Fetched
<1> QED
  BY <1>1, <1>2, <1>3 DEF BaseInv

(* An extraction that goes on or ends has read what it had read. *)
LEMMA MovedFetched ==
  ASSUME BaseInv, NEW r \in Runs, NEW next \in Stage \ {"hash"}, stage[r] # "idle",
         stage[r] # "hash", Advance(r, next) \/ Abort(r), UNCHANGED library
  PROVE  \A s \in Runs : Fetched(s)'
<1>1. CASE Advance(r, next)
  <2>1. /\ \A s \in Runs : stage'[s] = IF s = r THEN next ELSE stage[s]
        /\ content' = content /\ generation' = generation /\ hash' = hash
        /\ Matched' = Matched
    BY <1>1 DEF BaseInv, TypeOK, Advance, library, Matched
  <2> QED
    BY <2>1 DEF BaseInv, Fetched
<1>2. CASE Abort(r)
  <2>1. \A s \in Runs : s # r => /\ stage'[s] = stage[s] /\ content'[s] = content[s]
                                 /\ generation'[s] = generation[s]
    BY <1>2 DEF BaseInv, TypeOK, Abort
  <2>2. stage'[r] = "idle" /\ hash' = hash /\ Matched' = Matched
    BY <1>2 DEF BaseInv, TypeOK, Abort, library, Matched
  <2> QED
    BY <2>1, <2>2 DEF BaseInv, Fetched
<1> QED
  BY <1>1, <1>2

LEMMA MovedTypes ==
  ASSUME TypeOK, NEW r \in Runs, NEW next \in Stage, Advance(r, next) \/ Abort(r)
  PROVE  /\ stage' \in [Runs -> Stage]
         /\ content' \in [Runs -> Document \cup {None}]
         /\ generation' \in [Runs -> Document \cup {None}]
         /\ seen' \in [Runs -> Tables]
<1>1. Nothing \in Tables /\ "idle" \in Stage
  BY DEF Nothing, Tables, Stage
<1>2. CASE Advance(r, next)
  BY <1>1, <1>2 DEF Advance, TypeOK
<1>3. CASE Abort(r)
  BY <1>1, <1>3 DEF Abort, TypeOK
<1> QED
  BY <1>2, <1>3

(* A successful save: what the rows it supersedes point to is among its own. *)
LEMMA SupersededRows ==
  ASSUME BaseInv, NEW r \in Runs,
         stage[r] \in {"save_profile", "save_claims", "save_relations"},
         NEW new, new = Inserted(Batch(r), seen[r]),
         NEW old, old = Superseded(new, seen[r].active)
  PROVE  /\ new \subseteq Record /\ old \subseteq Record
         /\ old \subseteq seen[r].active
         /\ \A x \in new : x.gen = generation[r]
         /\ \A y \in old : \E x \in new : SameKey(x, y)
         /\ \A y \in old : /\ (CHOOSE x \in new : SameKey(x, y)) \in new
                           /\ SameKey(CHOOSE x \in new : SameKey(x, y), y)
<1>1. new \subseteq Record /\ \A x \in new : x.gen = generation[r]
  BY BatchTyped, InsertedFromBatch DEF BaseInv
<1>2. seen[r].active \subseteq Record
  BY DEF BaseInv, TypeOK, Tables
<1>3. /\ old \subseteq seen[r].active
      /\ \A y \in old : \E x \in new : SameKey(x, y)
  BY DEF Superseded
<1> QED
  BY <1>1, <1>2, <1>3

LEMMA BaseCommitRows ==
  ASSUME BaseInv, NEW r \in Runs, CommitRows(r)
  PROVE  BaseInv'
<1> DEFINE new == Inserted(Batch(r), seen[r])
           old == Superseded(new, seen[r].active)
<1>1. /\ stage[r] \in {"save_profile", "save_claims", "save_relations"}
      /\ UNCHANGED <<library, entities, extractions, reindexes>>
  BY DEF CommitRows
<1>2. /\ Advance(r, NextStage(stage[r])) \/ Abort(r)
      /\ NextStage(stage[r]) \in Stage \ {"hash"}
  BY <1>1 DEF CommitRows, NextStage, Stage
<1>3. \A s \in Runs : Fetched(s)'
  BY <1>1, <1>2, MovedFetched
<1>4. LibraryInv'
  BY <1>1 DEF BaseInv, LibraryInv, library
<1>5. /\ stored' \in SUBSET Record /\ active' \in SUBSET Record
      /\ successor' \in [Record -> Record \cup {None}]
      /\ source' \in [Document -> Document \cup {None}]
  <2>1. CASE Conflict(new, old)
    <3>1. UNCHANGED <<stored, active, successor, source>>
      BY <2>1 DEF CommitRows
    <3> QED
      BY <3>1 DEF BaseInv, TypeOK
  <2>2. CASE ~ Conflict(new, old)
    <3>1. Supersede(new, old)
      BY <2>2 DEF CommitRows
    <3>2. source' = IF ProfileRow(generation[r]) \in new
                      THEN [source EXCEPT ![generation[r]] = content[r]] ELSE source
      BY <2>2 DEF CommitRows
    <3>3. /\ new \subseteq Record /\ old \subseteq Record
          /\ \A y \in old : (CHOOSE x \in new : SameKey(x, y)) \in new
      BY <1>1, SupersededRows
    <3> HIDE DEF new, old
    <3>4. stored' \in SUBSET Record /\ active' \in SUBSET Record
      BY <3>1, <3>3 DEF Supersede, BaseInv, TypeOK
    <3>5. successor' \in [Record -> Record \cup {None}]
      BY <3>1, <3>3 DEF Supersede, BaseInv, TypeOK
    <3>6. source' \in [Document -> Document \cup {None}]
      BY <3>2 DEF BaseInv, TypeOK
    <3> QED
      BY <3>4, <3>5, <3>6
  <2> QED
    BY <2>1, <2>2
<1>6. TypeOK'
  <2>1. TypeOK
    BY DEF BaseInv
  <2>2. /\ stage' \in [Runs -> Stage]
        /\ content' \in [Runs -> Document \cup {None}]
        /\ generation' \in [Runs -> Document \cup {None}]
        /\ seen' \in [Runs -> Tables]
    BY <1>2, <2>1, MovedTypes
  <2> QED
    BY <1>1, <1>5, <2>1, <2>2 DEF TypeOK, library
<1> QED
  BY <1>3, <1>4, <1>6 DEF BaseInv

LEMMA BaseCommitEntities ==
  ASSUME BaseInv, NEW r \in Runs, CommitEntities(r)
  PROVE  BaseInv'
<1>1. /\ stage[r] = "save_entities"
      /\ UNCHANGED <<library, stored, active, successor, source, extractions, reindexes>>
  BY DEF CommitEntities
<1>2. /\ Advance(r, NextStage(stage[r])) \/ Abort(r)
      /\ NextStage(stage[r]) \in Stage \ {"hash"}
  BY <1>1 DEF CommitEntities, NextStage, Stage
<1>3. \A s \in Runs : Fetched(s)'
  BY <1>1, <1>2, MovedFetched
<1>4. LibraryInv'
  BY <1>1 DEF BaseInv, LibraryInv, library
<1>5. entities' \in SUBSET Entity
  <2>1. Named(r) \subseteq Entity
    BY <1>1, DocumentAssumption DEF BaseInv, Fetched, Named
  <2> QED
    BY <2>1 DEF CommitEntities, MissingEntities, BaseInv, TypeOK
<1>6. TypeOK'
  <2>1. TypeOK
    BY DEF BaseInv
  <2>2. /\ stage' \in [Runs -> Stage]
        /\ content' \in [Runs -> Document \cup {None}]
        /\ generation' \in [Runs -> Document \cup {None}]
        /\ seen' \in [Runs -> Tables]
    BY <1>2, <2>1, MovedTypes
  <2> QED
    BY <1>1, <1>5, <2>1, <2>2 DEF TypeOK, library
<1> QED
  BY <1>3, <1>4, <1>6 DEF BaseInv

LEMMA BaseLook ==
  ASSUME BaseInv, NEW r \in Runs, NEW tx \in Transactions, Look(r, tx)
  PROVE  BaseInv'
<1>1. /\ stage[r] = tx /\ UNCHANGED <<library, graph, extractions, reindexes>>
  BY DEF Look
<1>2. stage[r] # "idle" /\ stage[r] # "hash" /\ CommitOf(tx) \in Stage \ {"hash", "idle"}
  BY <1>1 DEF Transactions, CommitOf, Stage
<1>3. LibraryInv'
  BY <1>1 DEF BaseInv, LibraryInv, library
<1>4. CASE Abort(r)
  <2>1. \A s \in Runs : Fetched(s)'
    BY <1>1, <1>2, <1>4, MovedFetched
  <2>2. TypeOK'
    <3>1. TypeOK /\ CommitOf(tx) \in Stage
      BY <1>2 DEF BaseInv
    <3>2. /\ stage' \in [Runs -> Stage]
          /\ content' \in [Runs -> Document \cup {None}]
          /\ generation' \in [Runs -> Document \cup {None}]
          /\ seen' \in [Runs -> Tables]
      BY <1>4, <3>1, MovedTypes
    <3> QED
      BY <1>1, <3>1, <3>2 DEF TypeOK, library, graph
  <2> QED
    BY <1>3, <2>1, <2>2 DEF BaseInv
<1>5. CASE ~ Abort(r)
  <2>1. /\ stage' = [stage EXCEPT ![r] = CommitOf(tx)]
        /\ seen' = [seen EXCEPT ![r] =
              [stored |-> stored, active |-> active, entities |-> entities]]
        /\ UNCHANGED <<content, generation>>
    BY <1>5 DEF Look
  <2>2. [stored |-> stored, active |-> active, entities |-> entities] \in Tables
    BY DEF BaseInv, TypeOK, Tables
  <2>3. TypeOK'
    BY <1>1, <1>2, <2>1, <2>2 DEF BaseInv, TypeOK, library, graph
  <2>4. /\ \A s \in Runs : stage'[s] = IF s = r THEN CommitOf(tx) ELSE stage[s]
        /\ content' = content /\ generation' = generation /\ hash' = hash
        /\ Matched' = Matched
    BY <1>1, <2>1 DEF BaseInv, TypeOK, library, Matched
  <2>5. \A s \in Runs : Fetched(s)'
    BY <1>2, <2>4 DEF BaseInv, Fetched
  <2> QED
    BY <1>3, <2>3, <2>5 DEF BaseInv
<1> QED
  BY <1>4, <1>5

LEMMA BaseLoad ==
  ASSUME BaseInv, NEW r \in Runs, (\E v \in Version : LoadChunks(r, v)) \/ LoadHash(r)
  PROVE  BaseInv'
<1>1. CASE \E v \in Version : LoadChunks(r, v)
  <2>1. PICK v \in Version : LoadChunks(r, v)
    BY <1>1
  <2>2. /\ chunks[v] \in Document /\ VersionOf[chunks[v]] = v
        /\ <<hash[v], chunks[v]>> \in Matched
    BY <2>1 DEF LoadChunks, BaseInv, TypeOK, LibraryInv, Matched
  <2>3. TypeOK'
    BY <2>1, <2>2 DEF LoadChunks, BaseInv, TypeOK, Stage, library, graph
  <2>4. LibraryInv'
    BY <2>1 DEF LoadChunks, BaseInv, LibraryInv, library
  <2>5. /\ \A s \in Runs \ {r} : /\ stage'[s] = stage[s] /\ content'[s] = content[s]
                                 /\ generation'[s] = generation[s]
        /\ stage'[r] = "hash" /\ content'[r] = chunks[v]
        /\ hash' = hash /\ Matched' = Matched
    BY <2>1 DEF LoadChunks, BaseInv, TypeOK, library, Matched
  <2>6. \A s \in Runs : Fetched(s)'
    BY <2>2, <2>5 DEF BaseInv, Fetched
  <2> QED
    BY <2>3, <2>4, <2>6 DEF BaseInv
<1>2. CASE LoadHash(r)
  <2>1. content[r] \in Document /\ <<hash[VersionOf[content[r]]], content[r]>> \in Matched
    BY <1>2 DEF LoadHash, BaseInv, Fetched
  <2>2. hash[VersionOf[content[r]]] \in Document
    BY <2>1, DocumentAssumption DEF BaseInv, LibraryInv
  <2>3. TypeOK'
    BY <1>2, <2>2 DEF LoadHash, BaseInv, TypeOK, Stage, library, graph
  <2>4. LibraryInv'
    BY <1>2 DEF LoadHash, BaseInv, LibraryInv, library
  <2>5. /\ \A s \in Runs \ {r} : /\ stage'[s] = stage[s]
                                 /\ generation'[s] = generation[s]
        /\ stage'[r] = "profile" /\ generation'[r] = hash[VersionOf[content[r]]]
        /\ content' = content /\ hash' = hash /\ Matched' = Matched
    BY <1>2 DEF LoadHash, BaseInv, TypeOK, library, Matched
  <2>6. \A s \in Runs : Fetched(s)'
    BY <2>1, <2>2, <2>5 DEF BaseInv, Fetched
  <2> QED
    BY <2>3, <2>4, <2>6 DEF BaseInv
<1> QED
  BY <1>1, <1>2

LEMMA BaseFail ==
  ASSUME BaseInv, NEW r \in Runs, Fail(r)
  PROVE  BaseInv'
<1>1. Abort(r) /\ UNCHANGED <<library, graph, extractions, reindexes>>
  BY DEF Fail
<1>2. LibraryInv'
  BY <1>1 DEF BaseInv, LibraryInv, library
<1>3. /\ \A s \in Runs \ {r} : /\ stage'[s] = stage[s] /\ content'[s] = content[s]
                               /\ generation'[s] = generation[s]
      /\ stage'[r] = "idle" /\ hash' = hash /\ Matched' = Matched
  BY <1>1 DEF BaseInv, TypeOK, Abort, library, Matched
<1>4. \A s \in Runs : Fetched(s)'
  BY <1>3 DEF BaseInv, Fetched
<1>5. TypeOK'
  <2>1. TypeOK /\ "idle" \in Stage
    BY DEF BaseInv, Stage
  <2>2. /\ stage' \in [Runs -> Stage]
        /\ content' \in [Runs -> Document \cup {None}]
        /\ generation' \in [Runs -> Document \cup {None}]
        /\ seen' \in [Runs -> Tables]
    BY <1>1, <2>1, MovedTypes
  <2> QED
    BY <1>1, <2>1, <2>2 DEF TypeOK, library, graph
<1> QED
  BY <1>2, <1>4, <1>5 DEF BaseInv

(* A hash that is recorded while an extraction reads chunks is torn with them. *)
LEMMA BaseReplaceStructure ==
  ASSUME BaseInv, NEW d \in Document, ReplaceStructure(d)
  PROVE  BaseInv'
<1> DEFINE Readers == {r \in Runs : Reading(r, VersionOf[d])}
<1>1. /\ UNCHANGED <<indexed, graph, extractionVars>>
      /\ torn' = torn \cup {<<d, content[r]>> : r \in Readers}
      /\ chunks' = [chunks EXCEPT ![VersionOf[d]] = None]
      /\ hash' = [hash EXCEPT ![VersionOf[d]] = d]
      /\ reindexes' = reindexes + 1
  BY DEF ReplaceStructure
<1>2. VersionOf[d] \in Version
  BY DocumentAssumption
<1>3. TypeOK'
  <2>1. \A r \in Readers : content[r] \in Document
    BY DEF BaseInv, Fetched, Reading
  <2>2. torn' \in SUBSET (Document \X Document)
    BY <1>1, <2>1 DEF BaseInv, TypeOK
  <2> QED
    BY <1>1, <1>2, <2>2 DEF BaseInv, TypeOK, graph, extractionVars
<1>4. \A v \in Version : /\ hash'[v] = IF v = VersionOf[d] THEN d ELSE hash[v]
                         /\ chunks'[v] = IF v = VersionOf[d] THEN None ELSE chunks[v]
  BY <1>1, <1>2 DEF BaseInv, TypeOK
<1>5. LibraryInv'
  BY <1>1, <1>4 DEF BaseInv, LibraryInv
<1>6. Matched \subseteq Matched' /\ \A r \in Readers : <<d, content[r]>> \in Matched'
  BY <1>1 DEF Matched
<1>7. ASSUME NEW s \in Runs PROVE Fetched(s)'
  <2>1. stage' = stage /\ content' = content /\ generation' = generation
    BY <1>1 DEF extractionVars
  <2>2. Fetched(s)
    BY DEF BaseInv
  <2>3. ASSUME stage[s] = "hash"
        PROVE  <<hash'[VersionOf[content[s]]], content[s]>> \in Matched'
    <3>1. content[s] \in Document /\ VersionOf[content[s]] \in Version
      BY <2>2, <2>3, DocumentAssumption DEF Fetched
    <3>2. CASE VersionOf[content[s]] = VersionOf[d]
      <4>1. s \in Readers
        BY <2>3, <3>2 DEF Reading
      <4> QED
        BY <1>4, <1>6, <3>1, <3>2, <4>1
    <3>3. CASE VersionOf[content[s]] # VersionOf[d]
      BY <1>4, <1>6, <2>2, <2>3, <3>1, <3>3 DEF Fetched
    <3> QED
      BY <3>2, <3>3
  <2> QED
    BY <1>6, <2>1, <2>2, <2>3 DEF Fetched
<1> QED
  BY <1>3, <1>5, <1>7 DEF BaseInv

LEMMA BaseReplaceChunks ==
  ASSUME BaseInv, NEW d \in Document, ReplaceChunks(d)
  PROVE  BaseInv'
<1>1. /\ UNCHANGED <<hash, torn, graph, extractionVars>>
      /\ chunks' = [chunks EXCEPT ![VersionOf[d]] = d]
      /\ indexed' = indexed \cup {<<hash[VersionOf[d]], d>>}
      /\ reindexes' = reindexes + 1
  BY DEF ReplaceChunks
<1>2. VersionOf[d] \in Version /\ hash[VersionOf[d]] \in Document
  BY DocumentAssumption DEF BaseInv, LibraryInv
<1>3. TypeOK'
  BY <1>1, <1>2 DEF BaseInv, TypeOK, graph, extractionVars
<1>4. \A v \in Version : chunks'[v] = IF v = VersionOf[d] THEN d ELSE chunks[v]
  BY <1>1, <1>2 DEF BaseInv, TypeOK
<1>5. LibraryInv'
  <2>1. hash' = hash /\ indexed \subseteq indexed' /\ <<hash[VersionOf[d]], d>> \in indexed'
    BY <1>1
  <2>2. \A v \in Version : v # VersionOf[d] => chunks'[v] = chunks[v]
    BY <1>4
  <2>3. chunks'[VersionOf[d]] = d
    BY <1>2, <1>4
  <2> QED
    BY <2>1, <2>2, <2>3 DEF BaseInv, LibraryInv
<1>6. Matched \subseteq Matched'
  BY <1>1 DEF Matched
<1>7. \A r \in Runs : Fetched(r)'
  BY <1>1, <1>6 DEF BaseInv, Fetched, extractionVars
<1> QED
  BY <1>3, <1>5, <1>7 DEF BaseInv

LEMMA BaseStep == BaseInv /\ [Next]_vars => BaseInv'
<1> SUFFICES ASSUME BaseInv, [Next]_vars PROVE BaseInv'
  OBVIOUS
<1>1. CASE UNCHANGED vars
  BY <1>1 DEF vars, BaseInv, TypeOK, LibraryInv, Fetched, Matched
<1>2. ASSUME NEW r \in Runs, Extract(r) \/ Fail(r) PROVE BaseInv'
  BY <1>2, BaseLoad, BaseLook, BaseCommitRows, BaseCommitEntities, BaseFail DEF Extract
<1>3. ASSUME NEW d \in Document, ReplaceStructure(d) PROVE BaseInv'
  BY <1>3, BaseReplaceStructure
<1>4. ASSUME NEW d \in Document, ReplaceChunks(d) PROVE BaseInv'
  BY <1>4, BaseReplaceChunks
<1> QED
  BY <1>1, <1>2, <1>3, <1>4 DEF Next

(* Every reachable state is of its types: what an extraction stores are rows   *)
(* of documents, claims and entities, whichever version it read and however   *)
(* often that is replaced meanwhile.                                          *)
THEOREM TypeCorrect == Spec => []TypeOK
<1>1. BaseInv => TypeOK
  BY DEF BaseInv
<1> QED
  BY BaseInit, BaseStep, <1>1, PTL DEF Spec

-----------------------------------------------------------------------------
(* The chain of rows of one key.                                             *)

(* What a committed save leaves of the tables. *)
LEMMA SavedTables ==
  ASSUME BaseInv, TablesInv, NEW r \in Runs, SawTables(r),
         stage[r] \in {"save_profile", "save_claims", "save_relations"},
         NEW new, new = Inserted(Batch(r), seen[r]),
         NEW old, old = Superseded(new, seen[r].active),
         ~ Conflict(new, old), Supersede(new, old)
  PROVE  TablesInv'
<1>1. /\ new \cap stored = {}
      /\ \A x \in new, y \in active \ old : ~ SameKey(x, y)
  BY DEF Conflict
<1>2. /\ new \subseteq Record /\ old \subseteq Record /\ old \subseteq seen[r].active
      /\ \A y \in old : \E x \in new : SameKey(x, y)
      /\ \A y \in old : /\ (CHOOSE x \in new : SameKey(x, y)) \in new
                        /\ SameKey(CHOOSE x \in new : SameKey(x, y), y)
  BY SupersededRows
<1>3. \A x, y \in new : SameKey(x, y) => x = y
  BY InsertedKeys DEF BaseInv
<1>4. /\ stored' = stored \cup new
      /\ active' = (active \ old) \cup new
      /\ \A y \in Record : successor'[y] = IF y \in old
                             THEN CHOOSE x \in new : SameKey(x, y) ELSE successor[y]
  BY DEF Supersede
<1>5. /\ active \subseteq stored /\ stored \subseteq Record
      /\ \A x, y \in active : SameKey(x, y) => x = y
      /\ \A x \in active : successor[x] = None
      /\ \A x \in stored \ active : successor[x] \in stored /\ SameKey(x, successor[x])
      /\ \A S \in SUBSET (stored \ active) :
           S # {} => \E x \in S : successor[x] \notin S
      /\ \A x \in Record \ stored : successor[x] = None
      /\ \A x \in stored : \E y \in active : SameKey(x, y)
  BY DEF TablesInv, HistoryIsOneChain, BaseInv, TypeOK
(* The rows it saw active are active still, or it had conflicted. *)
<1>6. old \subseteq active
  <2> SUFFICES ASSUME NEW y \in old PROVE y \in active
    OBVIOUS
  <2>1. y \in stored
    BY <1>2 DEF SawTables
  <2>2. PICK z \in active : SameKey(y, z)
    BY <1>5, <2>1
  <2>3. PICK x \in new : SameKey(x, y)
    BY <1>2
  <2>4. z \in old
    BY <1>1, <2>2, <2>3, KeysAreAnEquivalence
  <2> QED
    BY <1>2, <2>2, <2>4 DEF SawTables
<1>7. active' \subseteq stored'
  BY <1>4, <1>5
<1>8. ASSUME NEW x \in active', NEW y \in active', SameKey(x, y) PROVE x = y
  BY <1>1, <1>3, <1>4, <1>5, <1>8, KeysAreAnEquivalence
<1>9. \A x \in active' : successor'[x] = None
  BY <1>1, <1>2, <1>4, <1>5, <1>6
<1>10. stored' \ active' = (stored \ active) \cup old
  BY <1>1, <1>4, <1>5, <1>6
<1>11. ASSUME NEW x \in stored' \ active'
       PROVE  successor'[x] \in stored' /\ SameKey(x, successor'[x])
  <2>1. CASE x \in old
    BY <1>2, <1>4, <2>1, KeysAreAnEquivalence
  <2>2. CASE x \notin old
    BY <1>4, <1>5, <1>10, <2>2
  <2> QED
    BY <2>1, <2>2
<1>12. ASSUME NEW S \in SUBSET (stored' \ active'), S # {}
       PROVE  \E x \in S : successor'[x] \notin S
  <2>1. CASE S \cap old # {}
    <3>1. PICK x \in S : x \in old
      BY <2>1
    <3>2. successor'[x] \in new
      BY <1>2, <1>4, <3>1
    <3>3. new \subseteq active'
      BY <1>4
    <3> QED
      BY <3>2, <3>3
  <2>2. CASE S \cap old = {}
    <3>1. S \in SUBSET (stored \ active)
      BY <1>10, <2>2
    <3>2. PICK x \in S : successor[x] \notin S
      BY <1>5, <1>12, <3>1
    <3>3. successor'[x] = successor[x]
      BY <1>4, <1>5, <2>2, <3>1
    <3> QED
      BY <3>2, <3>3
  <2> QED
    BY <2>1, <2>2
<1>13. \A x \in Record \ stored' : successor'[x] = None
  BY <1>4, <1>5, <1>6
<1>14. ASSUME NEW x \in stored' PROVE \E y \in active' : SameKey(x, y)
  <2>1. CASE x \in new
    BY <1>4, <2>1, KeysAreAnEquivalence
  <2>2. CASE x \in stored
    <3>1. PICK y \in active : SameKey(x, y)
      BY <1>5, <2>2
    <3>2. CASE y \in old
      BY <1>2, <1>4, <3>1, <3>2, KeysAreAnEquivalence
    <3>3. CASE y \notin old
      BY <1>4, <3>1, <3>3
    <3> QED
      BY <3>2, <3>3
  <2> QED
    BY <1>4, <2>1, <2>2
<1>15. HistoryIsOneChain'
  BY <1>7, <1>8, <1>9, <1>11, <1>12 DEF HistoryIsOneChain
<1> QED
  BY <1>13, <1>14, <1>15 DEF TablesInv

(* What a step does to the tables and to what a transaction saw of them. *)
LEMMA TablesChange ==
  ASSUME BaseInv, TablesInv, \A r \in Runs : SawTables(r), [Next]_vars
  PROVE  /\ TablesInv'
         /\ stored \subseteq stored' /\ entities \subseteq entities'
         /\ \A r \in Runs :
              seen'[r] \in {seen[r], Nothing,
                  [stored |-> stored, active |-> active, entities |-> entities]}
<1> DEFINE Now == [stored |-> stored, active |-> active, entities |-> entities]
           Seen == \A r \in Runs : seen'[r] \in {seen[r], Nothing, Now}
           Kept == UNCHANGED <<stored, active, successor>>
<1>1. Kept => TablesInv' /\ stored \subseteq stored'
  BY DEF TablesInv, HistoryIsOneChain
<1>2. ASSUME NEW r \in Runs, NEW next, Advance(r, next) \/ Abort(r) PROVE Seen
  <2>1. seen' = [seen EXCEPT ![r] = Nothing]
    BY <1>2 DEF Advance, Abort
  <2> QED
    BY <2>1 DEF BaseInv, TypeOK
<1>3. CASE UNCHANGED vars
  BY <1>1, <1>3 DEF vars
<1>4. ASSUME NEW r \in Runs, (\E v \in Version : LoadChunks(r, v)) \/ LoadHash(r)
      PROVE  Kept /\ Seen /\ entities' = entities
  BY <1>4 DEF LoadChunks, LoadHash, graph
<1>5. ASSUME NEW r \in Runs, NEW tx \in Transactions, Look(r, tx)
      PROVE  Kept /\ Seen /\ entities' = entities
  <2>1. Kept /\ entities' = entities
    BY <1>5 DEF Look, graph
  <2>2. CASE Abort(r)
    BY <1>2, <2>1, <2>2
  <2>3. CASE ~ Abort(r)
    <3>1. seen' = [seen EXCEPT ![r] = Now]
      BY <1>5, <2>3 DEF Look
    <3> HIDE DEF Now
    <3>2. Seen
      BY <3>1 DEF BaseInv, TypeOK
    <3> QED
      BY <2>1, <3>2
  <2> QED
    BY <2>2, <2>3
<1>6. ASSUME NEW r \in Runs, CommitRows(r)
      PROVE  TablesInv' /\ stored \subseteq stored' /\ Seen /\ entities' = entities
  <2> DEFINE new == Inserted(Batch(r), seen[r])
             old == Superseded(new, seen[r].active)
  <2>1. /\ stage[r] \in {"save_profile", "save_claims", "save_relations"}
        /\ entities' = entities
        /\ Advance(r, NextStage(stage[r])) \/ Abort(r)
    BY <1>6 DEF CommitRows
  <2>2. Seen
    BY <1>2, <2>1
  <2>3. CASE Conflict(new, old)
    <3>1. Kept
      BY <1>6, <2>3 DEF CommitRows
    <3> QED
      BY <1>1, <2>1, <2>2, <3>1
  <2>4. CASE ~ Conflict(new, old)
    <3>1. Supersede(new, old)
      BY <1>6, <2>4 DEF CommitRows
    <3>2. TablesInv'
      BY <2>1, <2>4, <3>1, SavedTables
    <3>3. stored \subseteq stored'
      BY <3>1 DEF Supersede
    <3> QED
      BY <2>1, <2>2, <3>2, <3>3
  <2> QED
    BY <2>3, <2>4
<1>7. ASSUME NEW r \in Runs, CommitEntities(r)
      PROVE  Kept /\ Seen /\ entities \subseteq entities'
  <2>1. Advance(r, NextStage(stage[r])) \/ Abort(r)
    BY <1>7 DEF CommitEntities
  <2> QED
    BY <1>2, <1>7, <2>1 DEF CommitEntities
<1>8. ASSUME NEW r \in Runs, Fail(r) PROVE Kept /\ Seen /\ entities' = entities
  BY <1>2, <1>8 DEF Fail, graph
<1>9. ASSUME NEW d \in Document, ReplaceStructure(d)
      PROVE  Kept /\ Seen /\ entities' = entities
  BY <1>9 DEF ReplaceStructure, graph, extractionVars
<1>10. ASSUME NEW d \in Document, ReplaceChunks(d)
       PROVE  Kept /\ Seen /\ entities' = entities
  BY <1>10 DEF ReplaceChunks, graph, extractionVars
<1> HIDE DEF Now, Seen, Kept
<1>11. ASSUME NEW r \in Runs, Extract(r) \/ Fail(r)
       PROVE  /\ TablesInv' /\ stored \subseteq stored' /\ Seen
              /\ entities \subseteq entities'
  BY <1>1, <1>4, <1>5, <1>6, <1>7, <1>8, <1>11 DEF Extract
<1>12. TablesInv' /\ stored \subseteq stored' /\ Seen /\ entities \subseteq entities'
  <2>1. CASE Next
    BY <1>1, <1>9, <1>10, <1>11, <2>1 DEF Next
  <2>2. CASE UNCHANGED vars
    BY <1>1, <1>3, <2>2 DEF vars, Seen, Kept
  <2> QED
    BY <2>1, <2>2
<1> QED
  BY <1>12 DEF Seen, Now

ChainInv == BaseInv /\ TablesInv /\ \A r \in Runs : SawTables(r)

LEMMA ChainInit == Init => ChainInv
<1> SUFFICES ASSUME Init PROVE ChainInv
  OBVIOUS
<1>1. TablesInv
  BY DEF Init, TablesInv, HistoryIsOneChain
<1>2. \A r \in Runs : SawTables(r)
  BY DEF Init, SawTables, Nothing
<1> QED
  BY <1>1, <1>2, BaseInit DEF ChainInv

LEMMA ChainStep == ChainInv /\ [Next]_vars => ChainInv'
<1> SUFFICES ASSUME ChainInv, [Next]_vars PROVE ChainInv'
  OBVIOUS
<1>1. BaseInv'
  BY BaseStep DEF ChainInv
<1>2. /\ TablesInv'
      /\ stored \subseteq stored' /\ entities \subseteq entities'
      /\ \A r \in Runs :
           seen'[r] \in {seen[r], Nothing,
               [stored |-> stored, active |-> active, entities |-> entities]}
  BY TablesChange DEF ChainInv
<1>3. ASSUME NEW r \in Runs PROVE SawTables(r)'
  <2>1. CASE seen'[r] = seen[r]
    BY <1>2, <2>1 DEF ChainInv, SawTables
  <2>2. CASE seen'[r] = Nothing
    BY <2>2 DEF SawTables, Nothing
  <2>3. CASE seen'[r] = [stored |-> stored, active |-> active, entities |-> entities]
    BY <1>2, <2>3 DEF SawTables, ChainInv, TablesInv, HistoryIsOneChain
  <2> QED
    BY <1>2, <2>1, <2>2, <2>3
<1> QED
  BY <1>1, <1>2, <1>3 DEF ChainInv

(* Whichever extractions overlap, conflict or die half way, a key has at most  *)
(* one active row, and every older row leads to it through its successors.     *)
THEOREM OneActiveRow == Spec => []HistoryIsOneChain
<1>1. ChainInv => HistoryIsOneChain
  BY DEF ChainInv, TablesInv
<1> QED
  BY ChainInit, ChainStep, <1>1, PTL DEF Spec

(* A paper that was extracted has an active profile ever after, and a         *)
(* statement that was stored an active claim, which compare and search can    *)
(* find, whichever extractions overlap, conflict or die half way (save_profile *)
(* and save_claims deactivate a row and insert its successor at once).         *)
KeysStayActive == \A x \in stored : \E y \in active : SameKey(x, y)

THEOREM ExtractedKeysStayActive == Spec => []KeysStayActive
<1>1. ChainInv => KeysStayActive
  BY DEF ChainInv, TablesInv, KeysStayActive
<1> QED
  BY ChainInit, ChainStep, <1>1, PTL DEF Spec

-----------------------------------------------------------------------------
(* What an extraction leaves behind.                                         *)

Below == OpToRel(<, Nat)

LEMMA LeastItem ==
  ASSUME NEW S \in SUBSET Nat, S # {}
  PROVE  \E m \in S : \A n \in S : m <= n
<1>1. IsWellFoundedOn(Below, Nat)
  BY NatLessThanWellFounded DEF Below
<1>2. PICK m \in S : \A n \in S : ~ (<<n, m>> \in Below)
  BY <1>1, WFMin
<1>3. \A n \in Nat : n < m => <<n, m>> \in Below
  BY DEF Below, OpToRel
<1>4. ASSUME NEW n \in S PROVE m <= n
  <2>1. m \in Nat /\ n \in Nat
    OBVIOUS
  <2>2. ~ (n < m)
    BY <1>2, <1>3, <2>1
  <2> QED
    BY <2>1, <2>2
<1> QED
  BY <1>4

(* A key of the batch has a row of its generation: one that was stored when    *)
(* the transaction looked, or else the earliest of the batch's own rows, which *)
(* is inserted.                                                               *)
LEMMA KeysGetRows ==
  ASSUME BaseInv, NEW r \in Runs, SawTables(r),
         stage[r] \in {"save_profile", "save_claims", "save_relations"},
         NEW P \in Batch(r)
  PROVE  \E x \in seen[r].stored \cup Inserted(Batch(r), seen[r]) :
           x.gen = generation[r] /\ SameKey(x, P)
<1> DEFINE missing == Batch(r) \ seen[r].stored
           rivals == {m \in missing : SameKey(m, P)}
<1>1. /\ Batch(r) \subseteq Record /\ \A x \in Batch(r) : x.gen = generation[r]
      /\ \A x, y \in Batch(r) : x.kind = y.kind
  BY BatchTyped DEF BaseInv
<1>2. CASE P \notin missing
  BY <1>1, <1>2, KeysAreAnEquivalence
<1>3. CASE P \in missing
  <2>1. PICK m \in rivals : \A n \in rivals : n # m => m.item < n.item
    <3>1. P \in rivals
      BY <1>3, KeysAreAnEquivalence
    <3>2. CASE P.kind = "claim"
      <4>1. \A m \in rivals : m.kind = "claim" /\ m.item \in Nat
        BY <1>1, <1>3, <3>2, RecordFields, ClaimAssumption
      <4>2. {m.item : m \in rivals} \in SUBSET Nat /\ {m.item : m \in rivals} # {}
        BY <3>1, <4>1
      <4>3. PICK k \in {m.item : m \in rivals} : \A n \in {m.item : m \in rivals} : k <= n
        BY <4>2, LeastItem
      <4>4. PICK m \in rivals : m.item = k
        BY <4>3
      <4>5. ASSUME NEW n \in rivals, n # m PROVE m.item < n.item
        <5>1. m.item <= n.item
          BY <4>3, <4>4
        <5>2. m.item # n.item
          BY <1>1, <4>5, RecordIdentity
        <5> QED
          BY <4>1, <5>1, <5>2
      <4> QED
        BY <4>5
    <3>3. CASE P.kind # "claim"
      <4>1. \A m \in rivals : m = P
        <5> SUFFICES ASSUME NEW m \in rivals PROVE m = P
          OBVIOUS
        <5>1. m.kind = P.kind /\ m.gen = P.gen /\ m \in Record /\ P \in Record
          BY <1>1
        <5>2. m.item = P.item
          BY <3>3, <5>1, RecordFields DEF SameKey
        <5> QED
          BY <5>1, <5>2, RecordIdentity
      <4> QED
        BY <3>1, <4>1
    <3> QED
      BY <3>2, <3>3
  <2>2. CASE \E y \in seen[r].active : SameKey(m, y) /\ y.gen = m.gen
    <3>1. PICK y \in seen[r].active : SameKey(m, y) /\ y.gen = m.gen
      BY <2>2
    <3>2. y \in seen[r].stored /\ y.gen = generation[r]
      BY <1>1, <3>1 DEF SawTables
    <3>3. SameKey(y, P)
      BY <3>1, KeysAreAnEquivalence
    <3> QED
      BY <3>2, <3>3
  <2>3. CASE ~ \E y \in seen[r].active : SameKey(m, y) /\ y.gen = m.gen
    <3>1. \A y \in missing : y # m /\ SameKey(m, y) => m.item < y.item
      BY <2>1, KeysAreAnEquivalence
    <3>2. m \in Inserted(Batch(r), seen[r])
      BY <2>1, <2>3, <3>1 DEF Inserted
    <3> QED
      BY <1>1, <2>1, <3>2
  <2> QED
    BY <2>2, <2>3
<1> QED
  BY <1>2, <1>3

(* Where a profile's or a relation's row is alone under its key, the row of    *)
(* that key and generation is that row.                                       *)
LEMMA AloneUnderKey ==
  ASSUME NEW x \in Record, NEW P \in Record, SameKey(x, P), x.gen = P.gen,
         P.kind # "claim"
  PROVE  x = P
<1>1. x.kind = P.kind /\ x.item = P.item
  BY RecordFields DEF SameKey
<1> QED
  BY <1>1, RecordIdentity

LEMMA ProgressKept ==
  ASSUME NEW r \in Runs, Progress(r), stored \subseteq stored', entities \subseteq entities',
         content'[r] = content[r], generation'[r] = generation[r],
         \/ stage'[r] = stage[r]
         \/ stage'[r] \notin AfterProfile
         \/ stage[r] = "claims" /\ stage'[r] = "save_claims"
         \/ stage[r] = "entities" /\ stage'[r] = "save_entities"
         \/ stage[r] = "relations" /\ stage'[r] = "save_relations"
  PROVE  Progress(r)'
<1>1. stage'[r] \in AfterProfile => stage[r] \in AfterProfile
  BY DEF AfterProfile, AfterClaims, AfterEntities
<1>2. stage'[r] \in AfterClaims => stage[r] \in AfterClaims
  BY DEF AfterProfile, AfterClaims, AfterEntities
<1>3. stage'[r] \in AfterEntities => stage[r] \in AfterEntities
  BY DEF AfterProfile, AfterClaims, AfterEntities
<1>4. stage'[r] = "returned" => stage[r] = "returned"
  BY DEF AfterProfile, AfterClaims, AfterEntities
<1>5. \A g, d : ClaimsStored(g, d) => ClaimsStored(g, d)'
  BY DEF ClaimsStored
<1>6. \A g, d : RelationsStored(g, d) => RelationsStored(g, d)'
  BY DEF RelationsStored
<1> QED
  BY <1>1, <1>2, <1>3, <1>4, <1>5, <1>6 DEF Progress

LEMMA ProgressSave ==
  ASSUME BaseInv, NEW r \in Runs, SawTables(r), Progress(r),
         stage[r] \in {"save_profile", "save_claims", "save_relations"},
         stored' = stored \cup Inserted(Batch(r), seen[r]), entities' = entities,
         Advance(r, NextStage(stage[r]))
  PROVE  Progress(r)'
<1>1. /\ stage'[r] = NextStage(stage[r])
      /\ content'[r] = content[r] /\ generation'[r] = generation[r]
  BY DEF BaseInv, TypeOK, Advance
<1>2. /\ generation[r] \in Document /\ content[r] \in Document
      /\ ClaimsOf[content[r]] \subseteq Claim /\ EntitiesOf[content[r]] \subseteq Entity
  BY DocumentAssumption DEF BaseInv, Fetched
<1>3. stored \subseteq stored' /\ stored' \subseteq Record
  BY BatchTyped, InsertedFromBatch DEF BaseInv, TypeOK
<1>4. ASSUME NEW P \in Batch(r)
      PROVE  /\ P \in Record /\ P.gen = generation[r]
             /\ \E x \in stored' : x.gen = generation[r] /\ SameKey(x, P)
  BY <1>4, KeysGetRows, BatchTyped DEF BaseInv, SawTables
<1>5. CASE stage[r] = "save_profile"
  <2>1. ProfileRow(generation[r]) \in Batch(r)
    BY <1>5 DEF Batch
  <2>2. ProfileRow(generation[r]) \in stored'
    BY <1>3, <1>4, <2>1, AloneUnderKey, RowFields
  <2>3. stage'[r] = "claims"
    BY <1>1, <1>5 DEF NextStage
  <2> QED
    BY <1>1, <2>2, <2>3 DEF Progress, AfterProfile, AfterClaims, AfterEntities
<1>6. CASE stage[r] = "save_claims"
  <2>1. \A c \in ClaimsOf[content[r]] : ClaimRow(generation[r], c) \in Batch(r)
    BY <1>6 DEF Batch
  <2>2. ClaimsStored(generation[r], content[r])'
    BY <1>1, <1>4, <2>1 DEF ClaimsStored
  <2>3. stage'[r] = "entities"
    BY <1>1, <1>6 DEF NextStage
  <2>4. ProfileRow(generation[r]) \in stored'
    BY <1>3, <1>6 DEF Progress, AfterProfile
  <2> QED
    BY <1>1, <2>2, <2>3, <2>4 DEF Progress, AfterProfile, AfterClaims, AfterEntities
<1>7. CASE stage[r] = "save_relations"
  <2>1. \A e \in EntitiesOf[content[r]] : RelationRow(generation[r], e) \in Batch(r)
    BY <1>7 DEF Batch, Named
  <2>2. ASSUME NEW e \in EntitiesOf[content[r]]
        PROVE  RelationRow(generation[r], e) \in stored'
    BY <1>3, <1>4, <2>1, AloneUnderKey, RowFields
  <2>3. RelationsStored(generation[r], content[r])'
    BY <1>1, <2>2 DEF RelationsStored
  <2>4. stage'[r] = "returned"
    BY <1>1, <1>7 DEF NextStage
  <2>5. /\ ProfileRow(generation[r]) \in stored'
        /\ ClaimsStored(generation[r], content[r])
        /\ EntitiesOf[content[r]] \subseteq entities
    BY <1>3, <1>7 DEF Progress, AfterProfile, AfterClaims, AfterEntities
  <2>6. ClaimsStored(generation[r], content[r])'
    BY <1>1, <1>3, <2>5 DEF ClaimsStored
  <2> QED
    BY <1>1, <2>3, <2>4, <2>5, <2>6 DEF Progress, AfterProfile, AfterClaims, AfterEntities
<1> QED
  BY <1>5, <1>6, <1>7

LEMMA ProgressStep ==
  ASSUME ChainInv, \A r \in Runs : Progress(r), [Next]_vars
  PROVE  \A r \in Runs : Progress(r)'
<1>1. /\ stored \subseteq stored' /\ entities \subseteq entities'
      /\ BaseInv /\ \A r \in Runs : SawTables(r)
  BY TablesChange DEF ChainInv
(* The runs a step does not concern, and those whose step only looks. *)
<1>2. ASSUME NEW r \in Runs, NEW s \in Runs \ {r}, Extract(r) \/ Fail(r)
      PROVE  Progress(s)'
  <2>1. /\ stage'[s] = stage[s] /\ content'[s] = content[s]
        /\ generation'[s] = generation[s]
    <3>1. CASE \E v \in Version : LoadChunks(r, v)
      BY <3>1 DEF BaseInv, TypeOK, LoadChunks
    <3>2. CASE LoadHash(r)
      BY <1>1, <3>2 DEF BaseInv, TypeOK, LoadHash
    <3>3. CASE \E next : Advance(r, next)
      BY <1>1, <3>3 DEF BaseInv, TypeOK, Advance
    <3>4. CASE Abort(r)
      BY <1>1, <3>4 DEF BaseInv, TypeOK, Abort
    <3>5. CASE \E tx \in Transactions : Look(r, tx)
      BY <1>1, <3>4, <3>5 DEF BaseInv, TypeOK, Look
    <3> QED
      BY <1>2, <3>1, <3>2, <3>3, <3>4, <3>5
         DEF Extract, CommitRows, CommitEntities, Fail
  <2>2. s \in Runs /\ Progress(s) /\ stored \subseteq stored' /\ entities \subseteq entities'
    BY <1>1
  <2> QED
    BY <2>1, <2>2, ProgressKept, Zenon
<1>3. ASSUME NEW r \in Runs, Abort(r) PROVE Progress(r)'
  <2>1. stage'[r] = "idle"
    BY <1>1, <1>3 DEF BaseInv, TypeOK, Abort
  <2> QED
    BY <2>1 DEF Progress, AfterProfile, AfterClaims, AfterEntities
<1>4. ASSUME NEW r \in Runs, (\E v \in Version : LoadChunks(r, v)) \/ LoadHash(r)
      PROVE  Progress(r)'
  <2>1. stage'[r] \in {"hash", "profile"}
    BY <1>1, <1>4 DEF BaseInv, TypeOK, LoadChunks, LoadHash
  <2> QED
    BY <2>1 DEF Progress, AfterProfile, AfterClaims, AfterEntities
<1>5. ASSUME NEW r \in Runs, NEW tx \in Transactions, Look(r, tx) PROVE Progress(r)'
  <2>1. CASE Abort(r)
    BY <1>3, <2>1
  <2>2. CASE ~ Abort(r)
    <3>1. /\ stage[r] = tx /\ stage'[r] = CommitOf(tx)
          /\ content' = content /\ generation' = generation
      BY <1>1, <1>5, <2>2 DEF Look, BaseInv, TypeOK
    <3>2. \/ stage'[r] \notin AfterProfile
          \/ stage[r] = "claims" /\ stage'[r] = "save_claims"
          \/ stage[r] = "entities" /\ stage'[r] = "save_entities"
          \/ stage[r] = "relations" /\ stage'[r] = "save_relations"
      BY <3>1 DEF Transactions, CommitOf, AfterProfile, AfterClaims, AfterEntities
    <3>3. /\ content'[r] = content[r] /\ generation'[r] = generation[r]
          /\ Progress(r) /\ stored \subseteq stored' /\ entities \subseteq entities'
      BY <1>1, <3>1
    <3> QED
      BY <3>2, <3>3, ProgressKept, Zenon
  <2> QED
    BY <2>1, <2>2
<1>6. ASSUME NEW r \in Runs, CommitRows(r) PROVE Progress(r)'
  <2> DEFINE new == Inserted(Batch(r), seen[r])
             old == Superseded(new, seen[r].active)
  <2>1. CASE Conflict(new, old)
    BY <1>3, <1>6, <2>1 DEF CommitRows
  <2>2. CASE ~ Conflict(new, old)
    <3>1. /\ stage[r] \in {"save_profile", "save_claims", "save_relations"}
          /\ Supersede(new, old) /\ entities' = entities
          /\ Advance(r, NextStage(stage[r]))
      BY <1>6, <2>2 DEF CommitRows
    <3>2. stored' = stored \cup Inserted(Batch(r), seen[r])
      BY <3>1 DEF Supersede
    <3> QED
      BY <1>1, <3>1, <3>2, ProgressSave
  <2> QED
    BY <2>1, <2>2
<1>7. ASSUME NEW r \in Runs, CommitEntities(r) PROVE Progress(r)'
  <2>1. CASE Abort(r)
    BY <1>3, <2>1
  <2>2. CASE ~ Abort(r)
    <3>1. /\ stage[r] = "save_entities" /\ Advance(r, NextStage(stage[r]))
          /\ entities' = entities \cup MissingEntities(r) /\ stored' = stored
      BY <1>7, <2>2 DEF CommitEntities
    <3>2. /\ stage'[r] = "relations" /\ content'[r] = content[r]
          /\ generation'[r] = generation[r]
      BY <1>1, <3>1 DEF Advance, NextStage, BaseInv, TypeOK
    <3>3. EntitiesOf[content[r]] \subseteq entities'
      BY <1>1, <3>1 DEF MissingEntities, Named, SawTables
    <3>4. /\ ProfileRow(generation[r]) \in stored
          /\ ClaimsStored(generation[r], content[r])
      BY <3>1 DEF Progress, AfterProfile, AfterClaims, AfterEntities
    <3>5. ClaimsStored(generation[r], content[r])'
      BY <3>1, <3>2, <3>4 DEF ClaimsStored
    <3> QED
      BY <3>1, <3>2, <3>3, <3>4, <3>5 DEF Progress
  <2> QED
    BY <2>1, <2>2
<1>8. ASSUME NEW r \in Runs, Extract(r) \/ Fail(r) PROVE \A s \in Runs : Progress(s)'
  <2>1. Progress(r)'
    BY <1>3, <1>4, <1>5, <1>6, <1>7, <1>8 DEF Extract, Fail
  <2> QED
    BY <1>2, <1>8, <2>1
<1>9. ASSUME UNCHANGED extractionVars PROVE \A s \in Runs : Progress(s)'
  <2> SUFFICES ASSUME NEW s \in Runs PROVE Progress(s)'
    OBVIOUS
  <2>1. /\ stage'[s] = stage[s] /\ content'[s] = content[s]
        /\ generation'[s] = generation[s]
    BY <1>9 DEF extractionVars
  <2>2. Progress(s) /\ stored \subseteq stored' /\ entities \subseteq entities'
    BY <1>1
  <2> QED
    BY <2>1, <2>2, ProgressKept, Zenon
<1>10. CASE Next
  BY <1>8, <1>9, <1>10 DEF Next, ReplaceStructure, ReplaceChunks
<1>11. CASE UNCHANGED vars
  BY <1>9, <1>11 DEF vars, extractionVars
<1> QED
  BY <1>10, <1>11

(* An extraction that returned left its whole graph behind, although it was    *)
(* stored in four transactions, beside others that store rows of the same keys *)
(* and fail between any two of them.                                          *)
THEOREM ReturnedAreWhole == Spec => []ReturnedExtractionsAreWhole
<1> DEFINE IInv == ChainInv /\ \A r \in Runs : Progress(r)
<1>1. Init => IInv
  BY ChainInit DEF Init, Progress, AfterProfile, AfterClaims, AfterEntities
<1>2. IInv /\ [Next]_vars => IInv'
  <2> SUFFICES ASSUME ChainInv, \A r \in Runs : Progress(r), [Next]_vars PROVE IInv'
    OBVIOUS
  <2> QED
    BY ChainStep, ProgressStep
<1>3. ASSUME IInv PROVE ReturnedExtractionsAreWhole
  <2> SUFFICES ASSUME NEW r \in Runs, stage[r] = "returned"
               PROVE  WholeGraphOf(generation[r], content[r])
    BY DEF ReturnedExtractionsAreWhole
  <2>1. Progress(r)
    BY <1>3
  <2> QED
    BY <2>1 DEF Progress, WholeGraphOf, ClaimsStored, RelationsStored,
                AfterProfile, AfterClaims, AfterEntities
<1> QED
  <2> HIDE DEF IInv
  <2> QED
    BY <1>1, <1>2, <1>3, PTL DEF Spec

(* A profile bears a hash under which the chunks it was extracted from were   *)
(* stored, or one recorded while its extraction stood between the statements  *)
(* of load_extraction_request that read chunks and hash.                      *)
THEOREM ProfilesTellTheirHash == Spec => []ProfilesBearTheirHash
<1> DEFINE IInv == BaseInv /\ ProfilesBearTheirHash
<1>1. Init => IInv
  BY BaseInit DEF Init, ProfilesBearTheirHash
<1>2. ASSUME BaseInv, ProfilesBearTheirHash, [Next]_vars
      PROVE  ProfilesBearTheirHash'
  <2>1. ASSUME source' = source, Matched \subseteq Matched'
        PROVE  ProfilesBearTheirHash'
    BY <1>2, <2>1 DEF ProfilesBearTheirHash, Matched
  <2>2. ASSUME NEW r \in Runs, CommitRows(r) PROVE ProfilesBearTheirHash'
    <3>1. /\ stage[r] \in {"save_profile", "save_claims", "save_relations"}
          /\ Matched' = Matched
          /\ source' = source \/ source' = [source EXCEPT ![generation[r]] = content[r]]
      BY <2>2 DEF CommitRows, library, Matched
    <3>2. <<generation[r], content[r]>> \in Matched
      BY <1>2, <3>1 DEF BaseInv, Fetched
    <3>3. CASE source' = [source EXCEPT ![generation[r]] = content[r]]
      BY <1>2, <3>1, <3>2, <3>3 DEF BaseInv, TypeOK, ProfilesBearTheirHash, Matched
    <3> QED
      BY <2>1, <3>1, <3>3
  <2>3. ASSUME NEW r \in Runs, Extract(r) \/ Fail(r) PROVE ProfilesBearTheirHash'
    BY <2>1, <2>2, <2>3
       DEF Extract, Fail, LoadChunks, LoadHash, Look, CommitEntities, graph, library,
           Matched
  <2>4. ASSUME NEW d \in Document, ReplaceStructure(d) \/ ReplaceChunks(d)
        PROVE  ProfilesBearTheirHash'
    BY <2>1, <2>4 DEF ReplaceStructure, ReplaceChunks, graph, Matched
  <2> QED
    BY <1>2, <2>1, <2>3, <2>4 DEF Next, vars, Matched
<1>3. IInv /\ [Next]_vars => IInv'
  BY <1>2, BaseStep
<1> QED
  <2>1. IInv => ProfilesBearTheirHash
    OBVIOUS
  <2> HIDE DEF IInv
  <2> QED
    BY <1>1, <1>3, <2>1, PTL DEF Spec

==============================================================================
