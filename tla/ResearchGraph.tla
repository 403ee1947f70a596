----------------------------- MODULE ResearchGraph ----------------------------
(***************************************************************************)
(* The research graph of one paper in one project: extract_profile reads    *)
(* the chunks of a version and stores, in four transactions, its profile,   *)
(* its claims, the entities it names and its relations to them.  Profiles,  *)
(* claims and relations are versioned: a row of another generation under the *)
(* same key supersedes the active one, and old rows are kept.  Extractions   *)
(* overlap, fail between any two statements and race with re-indexing of the *)
(* document they read.                                                       *)
(*                                                                         *)
(* A transaction is two actions: it looks, and it commits; the unique        *)
(* indexes of the tables are checked at the commit.  A Document stands for  *)
(* a parsed document, and for its hash; the other parts of a generation key *)
(* (extractor, prompt, chunking version) are those of one configuration.    *)
(***************************************************************************)
EXTENDS Integers

CONSTANTS
  Version,       \* versions of the paper
  Document,      \* parsed and chunked documents of these versions
  VersionOf,     \* version each document belongs to
  Claim,         \* positions of claims in an extraction
  Statement,     \* normalized statements, with their claim type
  StatementOf,   \* statement of each claim
  Entity,        \* normalized names, with their entity type
  ClaimsOf,      \* claims the extractor finds in each document
  EntitiesOf,    \* entities the extractor finds in each document
  Runs,          \* concurrent calls of extract_profile
  None,          \* SQL's NULL
  MaxExtractions, \* model bound: extractions in all
  MaxReindexes   \* model bound: how often structure or chunks are replaced

ASSUME ClaimAssumption == Claim \subseteq Nat \ {0}
ASSUME NoneAssumption == None \notin Document
ASSUME DocumentAssumption ==
  /\ VersionOf \in [Document -> Version]
  /\ StatementOf \in [Claim -> Statement]
  /\ ClaimsOf \in [Document -> SUBSET Claim]
  /\ EntitiesOf \in [Document -> SUBSET Entity]

VARIABLES
  chunks,     \* document whose chunks each version has, if any
  hash,       \* document whose hash each version records
  stored,     \* rows of paper_profiles, claims and paper_relations
  active,     \* those with is_active
  successor,  \* superseded_by_..._id
  entities,   \* rows of research_entities
  source,     \* history: the document each profile was extracted from
  indexed,    \* history: pairs <<hash, document>>: chunks stored under a hash
  torn,       \* history: hashes recorded while chunks of a document were read
  stage,      \* where each extraction is
  content,    \* document whose chunks it read
  generation, \* document whose hash it read
  seen,       \* the tables when its transaction looked
  extractions, reindexes    \* for the model bounds

library == <<chunks, hash, indexed, torn>>
graph == <<stored, active, successor, entities, source>>
extractionVars == <<stage, content, generation, seen, extractions>>
vars == <<chunks, hash, indexed, torn, stored, active, successor, entities,
          source, stage, content, generation, seen, extractions, reindexes>>

-----------------------------------------------------------------------------

(* Ids are hashes of what they name: one row of each kind, generation and item. *)
ProfileRow(g) == [kind |-> "profile", gen |-> g, item |-> 0]
ClaimRow(g, c) == [kind |-> "claim", gen |-> g, item |-> c]
RelationRow(g, e) == [kind |-> "relation", gen |-> g, item |-> e]
Record ==
  {ProfileRow(g) : g \in Document}
    \cup {ClaimRow(g, c) : g \in Document, c \in Claim}
    \cup {RelationRow(g, e) : g \in Document, e \in Entity}

(* The key of the partial unique index: the version for a profile, version   *)
(* and statement for a claim, and for a relation its endpoints alone.        *)
SameKey(x, y) ==
  /\ x.kind = y.kind
  /\ x.kind # "relation" => VersionOf[x.gen] = VersionOf[y.gen]
  /\ x.kind = "claim" => StatementOf[x.item] = StatementOf[y.item]
  /\ x.kind = "relation" => x.item = y.item

Stage == {"idle", "returned", "hash", "profile", "save_profile", "claims",
          "save_claims", "entities", "save_entities", "relations",
          "save_relations"}
Tables == [stored : SUBSET Record, active : SUBSET Record, entities : SUBSET Entity]
Nothing == [stored |-> {}, active |-> {}, entities |-> {}]

TypeOK ==
  /\ chunks \in [Version -> Document \cup {None}]
  /\ hash \in [Version -> Document \cup {None}]
  /\ stored \in SUBSET Record /\ active \in SUBSET Record
  /\ successor \in [Record -> Record \cup {None}]
  /\ entities \in SUBSET Entity
  /\ source \in [Document -> Document \cup {None}]
  /\ indexed \in SUBSET (Document \X Document)
  /\ torn \in SUBSET (Document \X Document)
  /\ stage \in [Runs -> Stage]
  /\ content \in [Runs -> Document \cup {None}]
  /\ generation \in [Runs -> Document \cup {None}]
  /\ seen \in [Runs -> Tables]
  /\ extractions \in Nat /\ reindexes \in Nat

Init ==
  /\ chunks \in [Version -> Document]
  /\ \A v \in Version : VersionOf[chunks[v]] = v
  /\ hash = chunks
  /\ stored = {} /\ active = {} /\ entities = {}
  /\ successor = [x \in Record |-> None]
  /\ source = [g \in Document |-> None]
  /\ indexed = {<<hash[v], chunks[v]>> : v \in Version} /\ torn = {}
  /\ stage = [r \in Runs |-> "idle"]
  /\ content = [r \in Runs |-> None]
  /\ generation = content
  /\ seen = [r \in Runs |-> Nothing]
  /\ extractions = 0 /\ reindexes = 0

-----------------------------------------------------------------------------
(* load_extraction_request: two statements of one READ COMMITTED session.    *)

Advance(r, next) ==
  /\ stage' = [stage EXCEPT ![r] = next]
  /\ seen' = [seen EXCEPT ![r] = Nothing]
  /\ UNCHANGED <<content, generation>>

Abort(r) ==
  /\ stage' = [stage EXCEPT ![r] = "idle"]
  /\ seen' = [seen EXCEPT ![r] = Nothing]
  /\ content' = [content EXCEPT ![r] = None]
  /\ generation' = [generation EXCEPT ![r] = None]

LoadChunks(r, v) ==
  /\ stage[r] \in {"idle", "returned"}
  /\ extractions < MaxExtractions
  /\ chunks[v] # None
  /\ extractions' = extractions + 1
  /\ content' = [content EXCEPT ![r] = chunks[v]]
  /\ generation' = [generation EXCEPT ![r] = None]
  /\ stage' = [stage EXCEPT ![r] = "hash"]
  /\ UNCHANGED <<library, graph, seen, reindexes>>

LoadHash(r) ==
  /\ stage[r] = "hash"
  /\ generation' = [generation EXCEPT ![r] = hash[VersionOf[content[r]]]]
  /\ stage' = [stage EXCEPT ![r] = "profile"]
  /\ UNCHANGED <<library, graph, content, seen, extractions, reindexes>>

-----------------------------------------------------------------------------
(* The four transactions.  Each looks at the tables first: which rows exist, *)
(* and which are active.                                                     *)

Transactions == {"profile", "claims", "entities", "relations"}
CommitOf(tx) ==
  CASE tx = "profile" -> "save_profile" [] tx = "claims" -> "save_claims"
    [] tx = "entities" -> "save_entities" [] tx = "relations" -> "save_relations"
NextStage(commit) ==
  CASE commit = "save_profile" -> "claims" [] commit = "save_claims" -> "entities"
    [] commit = "save_entities" -> "relations" [] commit = "save_relations" -> "returned"

(* Entities the extraction names; each is an endpoint of one relation. *)
Named(r) == EntitiesOf[content[r]]
EndpointsExist(r) == Named(r) \subseteq entities

Look(r, tx) ==
  /\ stage[r] = tx
  /\ IF tx = "relations" /\ ~ EndpointsExist(r)
       THEN Abort(r)
       ELSE /\ stage' = [stage EXCEPT ![r] = CommitOf(tx)]
            /\ seen' = [seen EXCEPT ![r] =
                  [stored |-> stored, active |-> active, entities |-> entities]]
            /\ UNCHANGED <<content, generation>>
  /\ UNCHANGED <<library, graph, extractions, reindexes>>

(* Faulty variant: an active row of any generation is taken for the new one. *)
SkipActiveKeys(batch, old) ==
  LET missing == batch \ old.stored IN
    {x \in missing :
       /\ \A y \in old.active : ~ SameKey(x, y)
       /\ \A y \in missing : y # x /\ SameKey(x, y) => x.item < y.item}

(* The rows a save inserts, of those it is given: none that exists, none     *)
(* whose key has an active row of the same generation (it only gets more     *)
(* evidence), and of two with one key the earlier.                           *)
Inserted(batch, old) ==
  LET missing == batch \ old.stored IN
    {x \in missing :
       /\ \A y \in old.active : SameKey(x, y) => y.gen # x.gen
       /\ \A y \in missing : y # x /\ SameKey(x, y) => x.item < y.item}

Superseded(new, act) == {y \in act : \E x \in new : SameKey(x, y)}

(* Faulty variant: nothing stops a second active row. *)
OnlyTheIdIsUnique(new, old) == new \cap stored # {}
Conflict(new, old) ==
  \/ new \cap stored # {}
  \/ \E x \in new : \E y \in active \ old : SameKey(x, y)

Supersede(new, old) ==
  /\ stored' = stored \cup new
  /\ active' = (active \ old) \cup new
  /\ successor' = [y \in Record |->
       IF y \in old THEN CHOOSE x \in new : SameKey(x, y) ELSE successor[y]]

Batch(r) ==
  CASE stage[r] = "save_profile" -> {ProfileRow(generation[r])}
    [] stage[r] = "save_claims" ->
         {ClaimRow(generation[r], c) : c \in ClaimsOf[content[r]]}
    [] stage[r] = "save_relations" ->
         {RelationRow(generation[r], e) : e \in Named(r)}

(* save_profile, save_claims and save_relations: a conflict with a row       *)
(* committed meanwhile rolls the transaction back, and ends the extraction.  *)
CommitRows(r) ==
  /\ stage[r] \in {"save_profile", "save_claims", "save_relations"}
  /\ LET new == Inserted(Batch(r), seen[r])
         old == Superseded(new, seen[r].active)
     IN IF Conflict(new, old)
          THEN Abort(r) /\ UNCHANGED <<stored, active, successor, source>>
          ELSE /\ Supersede(new, old)
               /\ source' = IF ProfileRow(generation[r]) \in new
                              THEN [source EXCEPT ![generation[r]] = content[r]]
                              ELSE source
               /\ Advance(r, NextStage(stage[r]))
  /\ UNCHANGED <<library, entities, extractions, reindexes>>

MissingEntities(r) == Named(r) \ seen[r].entities

(* save_entities: rows are shared by all generations and never superseded. *)
CommitEntities(r) ==
  /\ stage[r] = "save_entities"
  /\ IF MissingEntities(r) \cap entities # {}
       THEN Abort(r) /\ UNCHANGED entities
       ELSE /\ entities' = entities \cup MissingEntities(r)
            /\ Advance(r, NextStage(stage[r]))
  /\ UNCHANGED <<library, stored, active, successor, source, extractions, reindexes>>

(* The process dies, the database refuses, or the project has no file of the *)
(* version any more (_ensure_owned): open work is rolled back.               *)
Fail(r) ==
  /\ stage[r] \notin {"idle", "returned"}
  /\ Abort(r)
  /\ UNCHANGED <<library, graph, extractions, reindexes>>

-----------------------------------------------------------------------------
(* Ingestion beside it: a version is structured again, which deletes its     *)
(* chunks and records a hash, and is chunked afterwards.  The chunks need    *)
(* not be those of the document the hash is of: the pipeline may load the    *)
(* document.json of another parser, or store chunks of a structure another   *)
(* run has replaced.                                                         *)

Reading(r, v) == stage[r] = "hash" /\ VersionOf[content[r]] = v

(* Faulty variant: the chunks are left until they are replaced. *)
ReplaceStructureOnly(d) ==
  /\ reindexes < MaxReindexes
  /\ reindexes' = reindexes + 1
  /\ hash' = [hash EXCEPT ![VersionOf[d]] = d]
  /\ torn' = torn \cup {<<d, content[r]>> : r \in {q \in Runs : Reading(q, VersionOf[d])}}
  /\ UNCHANGED <<chunks, indexed, graph, extractionVars>>

ReplaceStructure(d) ==
  /\ reindexes < MaxReindexes
  /\ reindexes' = reindexes + 1
  /\ chunks' = [chunks EXCEPT ![VersionOf[d]] = None]
  /\ hash' = [hash EXCEPT ![VersionOf[d]] = d]
  /\ torn' = torn \cup {<<d, content[r]>> : r \in {q \in Runs : Reading(q, VersionOf[d])}}
  /\ UNCHANGED <<indexed, graph, extractionVars>>

ReplaceChunks(d) ==
  /\ reindexes < MaxReindexes
  /\ reindexes' = reindexes + 1
  /\ chunks' = [chunks EXCEPT ![VersionOf[d]] = d]
  /\ indexed' = indexed \cup {<<hash[VersionOf[d]], d>>}
  /\ UNCHANGED <<hash, torn, graph, extractionVars>>

Extract(r) ==
  \/ \E v \in Version : LoadChunks(r, v)
  \/ LoadHash(r)
  \/ \E tx \in Transactions : Look(r, tx)
  \/ CommitRows(r)
  \/ CommitEntities(r)

Next ==
  \/ \E r \in Runs : Extract(r) \/ Fail(r)
  \/ \E d \in Document : ReplaceStructure(d) \/ ReplaceChunks(d)

Spec == Init /\ [][Next]_vars

-----------------------------------------------------------------------------

(* "new results become active, the old record superseded_by"                 *)
(* (docs/research-graph-roadmap.md:55), whichever extractions overlap or die *)
(* half way: a key has at most one active row, every other row of it leads   *)
(* through its successors to that one, and an active row has no successor    *)
(* (which would make it unreadable).                                         *)
HistoryIsOneChain ==
  /\ active \subseteq stored
  /\ \A x, y \in active : SameKey(x, y) => x = y
  /\ \A x \in active : successor[x] = None
  /\ \A x \in stored \ active :
       successor[x] \in stored /\ SameKey(x, successor[x])
  /\ \A S \in SUBSET (stored \ active) :
       S # {} => \E x \in S : successor[x] \notin S

(* An extraction that returned left its whole graph behind, although it was  *)
(* stored in four transactions beside others: the profile, a row for every   *)
(* statement, every entity, and relations whose endpoints exist.             *)
WholeGraphOf(g, d) ==
  /\ ProfileRow(g) \in stored
  /\ \A c \in ClaimsOf[d] :
       \E x \in stored : x.gen = g /\ SameKey(x, ClaimRow(g, c))
  /\ \A e \in EntitiesOf[d] : e \in entities /\ RelationRow(g, e) \in stored

ReturnedExtractionsAreWhole ==
  \A r \in Runs : stage[r] = "returned" => WholeGraphOf(generation[r], content[r])

(* "derived records keep the canonical document hash"                        *)
(* (docs/research-graph-roadmap.md:13), and load_extraction_request reads    *)
(* chunks and hash in two statements: a profile bears a hash under which     *)
(* ingestion stored the very chunks it was extracted from, or one recorded   *)
(* exactly while its extraction stood between the two.  No other overlap of  *)
(* extractions, re-indexing and failures puts a text under a strange hash.   *)
ProfilesBearTheirHash ==
  \A g \in Document :
    source[g] # None => <<g, source[g]>> \in indexed \cup torn

(* "When the input or generation version changes, new results are created    *)
(* and old results become superseded" (docs/Phase4): once an extraction      *)
(* returned, nothing else is active for its version.                         *)
OldResultsAreSuperseded ==
  \A r \in Runs : stage[r] = "returned" =>
    \A x \in active :
      x.kind # "relation" /\ VersionOf[x.gen] = VersionOf[generation[r]] =>
        x.gen = generation[r]
=============================================================================
