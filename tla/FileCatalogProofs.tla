--------------------------- MODULE FileCatalogProofs ---------------------------
(* Proofs about FileCatalog, for every directory and every set of binaries,   *)
(* texts and works, any number of runs at once, crashes, failures and changes *)
(* of the directory.                                                         *)
EXTENDS FileCatalog, WellFoundedInduction, TLAPS

-----------------------------------------------------------------------------
(* What a run holds at each stage, which the types need.                      *)

Resolved == {b \in Binary : Version(b) # None}

HeldInv(r) ==
  /\ run[r].stage \in InFile => At(r) \in Path /\ Bytes(r) \in Binary
  /\ run[r].stage \in {"metadata", "resolve"} /\ run[r].version # None =>
       paperOf[run[r].version] # None /\ run[r].paper = paperOf[run[r].version]
  /\ run[r].stage = "resolve" => run[r].read \in Binary
  /\ run[r].stage \in {"save_identity", "derive"} => run[r].version \in Id
  /\ run[r].stage = "save_identity" =>
       /\ run[r].paper \in Id
       /\ \/ run[r].read \in Binary
          \/ paperOf[run[r].version] # None /\ run[r].paper = paperOf[run[r].version]

RunsHold ==
  /\ \A r \in Runs : HeldInv(r)
  /\ \A b \in Resolved : paperOf[Version(b)] # None

-----------------------------------------------------------------------------
(* The inductive invariant of a run that is alone.                           *)

(* The path leads to its file, which is indexed. *)
Ingested(p) ==
  /\ location[p] = [file |-> disk[p], present |-> TRUE]
  /\ Version(disk[p]) \in derived

(* What the run has found and not done yet. *)
Left(r) == run[r].todo \cup (IF run[r].stage \in InFile THEN {At(r)} ELSE {})

AtWork(r) ==
  /\ Bytes(r) = disk[At(r)]
  /\ run[r].stage # "register" => location[At(r)] = [file |-> Bytes(r), present |-> TRUE]
  /\ run[r].stage \in {"metadata", "resolve", "save_identity"} =>
       Version(Bytes(r)) \in {None, run[r].version}
  /\ run[r].stage = "derive" => Version(Bytes(r)) = run[r].version

ScannedAll(r) ==
  run[r].stage \notin {"idle", "scan"} /\ run[r].scope = None /\ ~ run[r].troubled

(* Every path of a scan without trouble is on the disk and still to be done or *)
(* done.                                                                      *)
ScanFollows(r) ==
  /\ run[r].listed = OnDisk
  /\ run[r].todo \subseteq OnDisk
  /\ \A p \in OnDisk \ Left(r) : Ingested(p)
  /\ run[r].stage = "complete" =>
       run[r].todo = {} /\ \A p \in Path : location[p].present <=> disk[p] # None

Truthful(r) ==
  \A p \in Path :
    /\ location[p].present <=> disk[p] # None
    /\ disk[p] # None => location[p].file = disk[p] /\ Version(disk[p]) \in derived

AloneInv(r) ==
  r \in alone =>
    /\ \A q \in Runs \ {r} : ~ InFlight(q)
    /\ InFlight(r) => status[r] = "running"
    /\ run[r].stage \in InFile => AtWork(r)
    /\ ScannedAll(r) => ScanFollows(r)
    /\ status[r] = "completed" /\ run[r].scope = None => Truthful(r)

-----------------------------------------------------------------------------
(* The inductive invariant of identities.                                    *)

(* Copies: files of one text; a file without text has no copy but itself. *)
Copies(a, b) == IF TextOf[b] = None THEN a = b ELSE TextOf[a] = TextOf[b]

(* No two runs resolved the copies of the file at once, and none read another *)
(* file for one of them.                                                      *)
Clean(b) == (IF TextOf[b] = None THEN b ELSE TextOf[b]) \notin doubtful
CleanName(n) == n # None /\ n \notin doubtful
Nameless(i) == \A k \in Kind : namesOf[i][k] = None
Unborne(names) == \A k \in Kind, i \in Id : CleanName(names[k]) => namesOf[i][k] # names[k]

FileInv(b) ==
  /\ file[b].text \in {None, TextOf[b]} \cup doubtful
  /\ b \in Resolved /\ Clean(b) => file[b].text = TextOf[b]
  /\ \A a \in Resolved : b \in Resolved /\ Clean(b) /\ Copies(a, b) => Version(a) = Version(b)

(* A paper has been made up before it is referred to, and its names are in    *)
(* the table with it; two papers of one name are two runs' that did not see   *)
(* each other.                                                                *)
PaperInv(i) ==
  /\ i >= nextId => paperOf[i] = None /\ ~ PaperExists(i)
  /\ PaperExists(i) \/ Nameless(i)
  /\ \A j \in Id, k \in Kind : CleanName(namesOf[i][k]) /\ namesOf[i][k] = namesOf[j][k] => i = j

(* Where a run may hold a version. *)
Holding == {"metadata", "resolve", "save_identity", "derive"}
Holds(r) == run[r].stage \in Holding /\ run[r].version # None
Pending(r) == run[r].stage = "save_identity" /\ paperOf[run[r].version] = None

HolderInv(r) ==
  /\ run[r].stage \notin {"resolve", "save_identity", "derive"} => run[r].read = None
  /\ run[r].stage \in {"metadata", "resolve"} /\ run[r].version # None =>
       Bytes(r) \in Resolved
  /\ run[r].stage \in {"resolve", "save_identity"} /\ run[r].read # None =>
       /\ TextOf[run[r].read] \in {None, TextOf[Bytes(r)]} \cup doubtful
       /\ Clean(Bytes(r)) => run[r].read = Bytes(r)
  /\ run[r].stage \in {"save_identity", "derive"} => run[r].version < nextId
  /\ run[r].stage = "derive" => Bytes(r) \in Resolved
  /\ run[r].stage \in Holding /\ Clean(Bytes(r)) =>
       /\ Holds(r) => \A b \in Resolved : Copies(b, Bytes(r)) => Version(b) = run[r].version
       /\ run[r].stage = "save_identity" =>
            /\ file[Bytes(r)].text = TextOf[Bytes(r)]
            /\ Pending(r) \/ \E b \in Resolved : Copies(b, Bytes(r))

(* What it is about to save. *)
PendingInv(r) ==
  /\ run[r].stage = "save_identity" /\ ~ Pending(r) =>
       run[r].paper = paperOf[run[r].version]
  /\ Pending(r) =>
       /\ run[r].read \in Binary
       /\ \/ /\ run[r].paper = run[r].version /\ ~ PaperExists(run[r].paper)
             /\ Unborne(NamesOf[run[r].read])
          \/ PaperExists(run[r].paper) /\ Bears(run[r].paper, NamesOf[run[r].read])

(* Runs beside each other: what they make up is theirs, and of copies they     *)
(* hold one version.                                                          *)
PairInv(r, q) ==
  /\ Holds(r) /\ Holds(q) /\ Clean(Bytes(r)) /\ Copies(Bytes(q), Bytes(r)) =>
       run[r].version = run[q].version
  /\ Pending(r) /\ Pending(q) /\ r # q =>
       /\ run[r].version # run[q].version
       /\ \A k \in Kind : ~ /\ CleanName(NamesOf[run[r].read][k])
                            /\ NamesOf[run[r].read][k] = NamesOf[run[q].read][k]

IdentityInv ==
  /\ \A b \in Binary : FileInv(b)
  /\ \A i \in Id : PaperInv(i)
  /\ \A r \in Runs : HolderInv(r) /\ PendingInv(r)
  /\ \A r, q \in Runs : PairInv(r, q)

(* ... and of papers: a version belongs to one that bears a name of a copy. *)
Owns(p, names, files, b) ==
  \E c \in files : /\ Copies(c, b)
                   /\ \/ names[p] = NamesOf[c]
                      \/ \E k \in Kind : NamesOf[c][k] # None /\ names[p][k] = NamesOf[c][k]
OfItsPaper(v, b) == Owns(paperOf[v], namesOf, Resolved, b)

OwnerInv ==
  /\ \A b \in Resolved : Clean(b) => OfItsPaper(Version(b), b)
  /\ \A r \in Runs : Holds(r) /\ ~ Pending(r) /\ Clean(Bytes(r)) =>
       OfItsPaper(run[r].version, Bytes(r))

-----------------------------------------------------------------------------
(* The order of the paths.                                                   *)

Below == OpToRel(<, Nat)

LEMMA FirstLeft ==
  ASSUME NEW S \in SUBSET Path, S # {}
  PROVE  First(S) \in S
<1>1. IsWellFoundedOn(Below, Nat)
  BY NatLessThanWellFounded DEF Below
<1>2. PICK m \in S : \A n \in S : ~ (<<n, m>> \in Below)
  BY <1>1, WFMin, PathAssumption
<1>3. \A n \in Nat : n < m => <<n, m>> \in Below
  BY PathAssumption DEF Below, OpToRel
<1>4. ASSUME NEW n \in S PROVE m <= n
  <2>1. m \in Nat /\ n \in Nat
    BY PathAssumption
  <2>2. ~ (n < m)
    BY <1>2, <1>3, <2>1
  <2> QED
    BY <2>1, <2>2
<1> QED
  BY <1>4 DEF First

-----------------------------------------------------------------------------
(* Types.                                                                    *)

LEMMA NoneIsNoId == None \notin Id
  BY NoneAssumption, MaxIdsAssumption DEF Id

LEMMA IdleIsRun == Idle \in Run
  BY DEF Idle, Run, Stage

Moves(r, e) ==
  /\ run' \in [Runs -> Run]
  /\ run'[r] = e
  /\ \A q \in Runs \ {r} : run'[q] = run[q]

LEMMA RunUpdate ==
  ASSUME TypeOK, NEW r \in Runs, NEW e \in Run, run' = [run EXCEPT ![r] = e]
  PROVE  Moves(r, e)
  BY DEF TypeOK, Moves

(* What each action does to its run. *)
LEMMA StartEffects ==
  ASSUME TypeOK, NEW r \in Runs, NEW scope \in Path \cup {None}, Start(r, scope)
  PROVE  Moves(r, [Idle EXCEPT !.stage = "scan", !.scope = scope])
<1>1. [Idle EXCEPT !.stage = "scan", !.scope = scope] \in Run
  BY DEF Idle, Run, Stage
<1> QED
  BY <1>1, RunUpdate DEF Start

LEMMA ScanEffects ==
  ASSUME TypeOK, NEW r \in Runs, Scan(r)
  PROVE  \E unreadable \in SUBSET (OnDisk \cap Scope(run[r].scope)) :
           LET found == (OnDisk \cap Scope(run[r].scope)) \ unreadable IN
             Moves(r, [run[r] EXCEPT !.stage = "next", !.listed = found, !.todo = found,
                         !.troubled = unreadable # {} \/ run[r].scope \in Path \ OnDisk])
<1>1. PICK unreadable \in SUBSET (OnDisk \cap Scope(run[r].scope)) :
        LET found == (OnDisk \cap Scope(run[r].scope)) \ unreadable IN
          run' = [run EXCEPT ![r].stage = "next", ![r].listed = found, ![r].todo = found,
                    ![r].troubled = unreadable # {} \/ run[r].scope \in Path \ OnDisk]
  BY DEF Scan
<1> DEFINE found == (OnDisk \cap Scope(run[r].scope)) \ unreadable
           trouble == unreadable # {} \/ run[r].scope \in Path \ OnDisk
           e == [run[r] EXCEPT !.stage = "next", !.listed = found, !.todo = found,
                               !.troubled = trouble]
<1>2. found \in SUBSET Path /\ trouble \in BOOLEAN
  BY DEF OnDisk
<1>3. run' = [run EXCEPT ![r].stage = "next", ![r].listed = found, ![r].todo = found,
                ![r].troubled = trouble]
  BY <1>1
<1> HIDE DEF found, trouble
<1>4. run \in [Runs -> Run] /\ run[r] \in Run
  BY DEF TypeOK
<1>5. e \in Run
  BY <1>2, <1>4 DEF Run, Stage
<1>6. run' = [run EXCEPT ![r] = e]
  BY <1>3, <1>4
<1>7. Moves(r, e)
  BY <1>5, <1>6, RunUpdate
<1> QED
  BY <1>7 DEF found, trouble

LEMMA StageEffects ==
  ASSUME TypeOK, NEW r \in Runs, NEW s \in Stage, run' = [run EXCEPT ![r].stage = s]
  PROVE  Moves(r, [run[r] EXCEPT !.stage = s])
<1> DEFINE e == [run[r] EXCEPT !.stage = s]
<1>1. e \in Run /\ run' = [run EXCEPT ![r] = e]
  BY ZenonT(30) DEF TypeOK, Run
<1> QED
  BY <1>1, RunUpdate

LEMMA CompleteEffects ==
  ASSUME TypeOK, NEW r \in Runs, Complete(r)
  PROVE  Moves(r, [Idle EXCEPT !.scope = run[r].scope])
<1>1. [Idle EXCEPT !.scope = run[r].scope] \in Run
  BY DEF TypeOK, Idle, Run, Stage
<1> QED
  BY <1>1, RunUpdate DEF Complete

LEMMA FinishEffects ==
  ASSUME TypeOK, NEW r \in Runs, NEW failed \in BOOLEAN, Finish(r, failed)
  PROVE  Moves(r, Finished(run[r], failed))
<1>1. run[r] \in Run
  BY DEF TypeOK
<1>2. Finished(run[r], failed) \in Run
  BY <1>1 DEF Finished, Run, Stage
<1>3. run' = [run EXCEPT ![r] = Finished(run[r], failed)]
  BY DEF Finish
<1> QED
  BY <1>2, <1>3, RunUpdate

LEMMA FingerprintEffects ==
  ASSUME TypeOK, NEW r \in Runs, Fingerprint(r)
  PROVE  \E p \in run[r].todo :
           \/ Moves(r, [run[r] EXCEPT !.todo = @ \ {p}, !.troubled = TRUE])
           \/ /\ disk[p] # None
              /\ Moves(r, [run[r] EXCEPT !.stage = "register", !.todo = @ \ {p},
                                         !.at = p, !.bytes = disk[p]])
<1> DEFINE p == First(run[r].todo)
           gone == [run[r] EXCEPT !.todo = @ \ {p}, !.troubled = TRUE]
           found == [run[r] EXCEPT !.stage = "register", !.todo = @ \ {p},
                                   !.at = p, !.bytes = disk[p]]
<1>1. p \in run[r].todo /\ p \in Path
  BY FirstLeft DEF Fingerprint, TypeOK, Run
<1>2. \/ run' = [run EXCEPT ![r] = gone]
      \/ disk[p] # None /\ run' = [run EXCEPT ![r] = found]
  BY DEF Fingerprint
<1> HIDE DEF p
<1>6. run[r] \in Run /\ disk[p] \in Binary \cup {None}
  BY <1>1 DEF TypeOK
<1>3. gone \in Run /\ found \in Run
  BY <1>1, <1>6, ZenonT(30) DEF Run, Stage
<1>4. CASE run' = [run EXCEPT ![r] = gone]
  BY <1>1, <1>3, <1>4, RunUpdate
<1>5. CASE disk[p] # None /\ run' = [run EXCEPT ![r] = found]
  BY <1>1, <1>3, <1>5, RunUpdate
<1> QED
  BY <1>2, <1>4, <1>5

LEMMA RegisterEffects ==
  ASSUME TypeOK, NEW r \in Runs, HeldInv(r), Register(r)
  PROVE  Moves(r, [run[r] EXCEPT !.stage = "check", !.novel = ~ file[Bytes(r)].known])
<1> DEFINE e == [run[r] EXCEPT !.stage = "check", !.novel = ~ file[Bytes(r)].known]
<1>1. Bytes(r) \in Binary
  BY DEF Register, HeldInv, InFile
<1>2. run[r] \in Run /\ file[Bytes(r)].known \in BOOLEAN
  BY <1>1 DEF TypeOK, FileRow
<1>3. e \in Run
  BY <1>2, ZenonT(30) DEF Run, Stage
<1>4. run' = [run EXCEPT ![r].stage = "check", ![r].novel = ~ file[Bytes(r)].known]
  BY DEF Register
<1>5. run' = [run EXCEPT ![r] = e]
  BY <1>4 DEF TypeOK
<1> QED
  BY <1>3, <1>5, RunUpdate

Checked(r) ==
  [run[r] EXCEPT !.stage = AfterCheck(r), !.version = Version(Bytes(r)),
                 !.paper = IF Version(Bytes(r)) = None THEN None ELSE paperOf[Version(Bytes(r))]]

LEMMA CheckEffects ==
  ASSUME TypeOK, NEW r \in Runs, HeldInv(r), Check(r)
  PROVE  \/ Settled(r) /\ Moves(r, Finished(run[r], FALSE))
         \/ ~ Settled(r) /\ Moves(r, Checked(r))
<1>1. CASE Settled(r)
  BY <1>1, FinishEffects DEF Check
<1>2. CASE ~ Settled(r)
  <2>1. Bytes(r) \in Binary
    BY DEF Check, HeldInv, InFile
  <2>2. Version(Bytes(r)) \in Id \cup {None} /\ AfterCheck(r) \in Stage
    BY <2>1 DEF TypeOK, Version, FileRow, AfterCheck, Stage
  <2> DEFINE v == Version(Bytes(r))
             p == IF v = None THEN None ELSE paperOf[v]
             s == AfterCheck(r)
  <2>3. p \in Id \cup {None}
    BY <2>2 DEF TypeOK
  <2>4. run' = [run EXCEPT ![r] = [run[r] EXCEPT !.stage = s, !.version = v, !.paper = p]]
    BY <1>2 DEF Check
  <2> HIDE DEF v, p, s
  <2>7. run[r] \in Run /\ v \in Id \cup {None} /\ s \in Stage
    BY <2>2 DEF TypeOK, v, s
  <2>5. [run[r] EXCEPT !.stage = s, !.version = v, !.paper = p] \in Run
    BY <2>3, <2>7 DEF Run
  <2>6. Moves(r, [run[r] EXCEPT !.stage = s, !.version = v, !.paper = p])
    BY <2>4, <2>5, RunUpdate
  <2> QED
    BY <1>2, <2>6 DEF Checked, v, p, s
<1> QED
  BY <1>1, <1>2

LEMMA MetadataEffects ==
  ASSUME TypeOK, NEW r \in Runs, HeldInv(r), Metadata(r)
  PROVE  /\ disk[At(r)] \in Binary
         /\ Moves(r, [run[r] EXCEPT !.stage = "resolve", !.read = disk[At(r)]])
<1> DEFINE b == disk[At(r)]
           e == [run[r] EXCEPT !.stage = "resolve", !.read = b]
<1>1. b \in Binary
  BY DEF Metadata, HeldInv, InFile, TypeOK
<1>2. run' = [run EXCEPT ![r].stage = "resolve", ![r].read = b]
  BY DEF Metadata
<1> HIDE DEF b
<1>3. run[r] \in Run /\ run \in [Runs -> Run]
  BY DEF TypeOK
<1>5. e \in Run
  BY <1>1, <1>3 DEF Run, Stage
<1>6. run' = [run EXCEPT ![r] = e]
  BY <1>2, <1>3
<1>4. Moves(r, e)
  BY <1>5, <1>6, RunUpdate
<1> QED
  BY <1>1, <1>4 DEF b

(* What a look-up finds, and what it means that it finds nothing. *)
LEMMA FoundTells ==
  ASSUME NEW names
  PROVE  /\ \A p \in Found(names) :
              p \in Id /\ \E k \in Kind : names[k] # None /\ namesOf[p][k] = names[k]
         /\ Found(names) = {} => Unborne(names)
<1>1. \A k, p : p \in Bearing(k, names) =>
        p \in Id /\ names[k] # None /\ namesOf[p][k] = names[k]
  BY DEF Bearing
<1>2. Found(names) \in {Bearing(k, names) : k \in Kind}
  BY DEF Found, Kind
<1>3. Found(names) = {} => \A k \in Kind : Bearing(k, names) = {}
  BY DEF Found, Kind
<1>4. ASSUME NEW p \in Found(names) 
      PROVE  p \in Id /\ \E k \in Kind : names[k] # None /\ namesOf[p][k] = names[k]
  BY <1>1, <1>2
<1>5. (\A k \in Kind : Bearing(k, names) = {}) => Unborne(names)
  BY DEF Bearing, Unborne, CleanName
<1> QED
  BY <1>3, <1>4, <1>5

LEMMA IdentitiesTyped ==
  ASSUME TypeOK, RunsHold, nextId \in Id, NEW b \in Binary, NEW identity \in Identities(b)
  PROVE  /\ identity[1] \in Id /\ identity[2] \in Id
         /\ \/ \E c \in SameText(TextOf[b]) :
                 identity[2] = Version(c) /\ identity[1] = paperOf[Version(c)]
            \/ /\ SameText(TextOf[b]) = {} /\ identity[2] = nextId
               /\ \/ identity[1] \in Found(NamesOf[b])
                  \/ Found(NamesOf[b]) = {} /\ identity[1] = nextId
<1>1. CASE SameText(TextOf[b]) # {}
  <2>1. PICK c \in SameText(TextOf[b]) : identity = <<paperOf[Version(c)], Version(c)>>
    BY <1>1 DEF Identities
  <2>2. c \in Binary /\ Version(c) # None
    BY DEF SameText
  <2>3. Version(c) \in Id /\ paperOf[Version(c)] \in Id
    BY <2>2 DEF TypeOK, RunsHold, Resolved, Version, FileRow
  <2> QED
    BY <1>1, <2>1, <2>3
<1>2. CASE SameText(TextOf[b]) = {} /\ Found(NamesOf[b]) # {}
  <2>1. PICK p \in Found(NamesOf[b]) : identity = <<p, nextId>>
    BY <1>2 DEF Identities
  <2> QED
    BY <1>2, <2>1, FoundTells
<1>3. CASE SameText(TextOf[b]) = {} /\ Found(NamesOf[b]) = {}
  <2>1. identity = <<nextId, nextId>>
    BY <1>3 DEF Identities
  <2> QED
    BY <1>3, <2>1
<1> QED
  BY <1>1, <1>2, <1>3

LEMMA ResolveEffects ==
  ASSUME TypeOK, RunsHold, NEW r \in Runs, Resolve(r)
  PROVE  \/ /\ run[r].version # None
            /\ Moves(r, [run[r] EXCEPT !.stage = "save_identity"])
            /\ UNCHANGED <<nextId, doubtful>>
         \/ /\ run[r].version = None /\ nextId \in Id
            /\ \E identity \in Identities(run[r].read) :
                 /\ Moves(r, [run[r] EXCEPT !.stage = "save_identity",
                                !.paper = identity[1], !.version = identity[2]])
                 /\ nextId' = IF nextId = identity[2] THEN nextId + 1 ELSE nextId
            /\ doubtful' = doubtful \cup Contested(r)
<1>1. CASE run[r].version # None
  BY <1>1, StageEffects DEF Resolve, Stage
<1>2. CASE run[r].version = None
  <2>1. nextId \in Id /\ doubtful' = doubtful \cup Contested(r) /\ run[r].read \in Binary
    BY <1>2 DEF Resolve, RunsHold, HeldInv
  <2>2. PICK identity \in Identities(run[r].read) :
          /\ run' = [run EXCEPT ![r].stage = "save_identity",
                       ![r].paper = identity[1], ![r].version = identity[2]]
          /\ nextId' = IF nextId = identity[2] THEN nextId + 1 ELSE nextId
    BY <1>2 DEF Resolve
  <2>3. identity[1] \in Id /\ identity[2] \in Id
    BY <2>1, IdentitiesTyped
  <2> DEFINE p == identity[1]
             v == identity[2]
             e == [run[r] EXCEPT !.stage = "save_identity", !.paper = p, !.version = v]
  <2>4. p \in Id /\ v \in Id /\ run' = [run EXCEPT ![r].stage = "save_identity", ![r].paper = p, ![r].version = v]
    BY <2>2, <2>3
  <2> HIDE DEF p, v
  <2>7. run[r] \in Run /\ run \in [Runs -> Run]
    BY DEF TypeOK
  <2>8. e \in Run
    BY <2>4, <2>7 DEF Run, Stage
  <2>5. e \in Run /\ run' = [run EXCEPT ![r] = e]
    BY <2>4, <2>7, <2>8
  <2>6. Moves(r, e)
    BY <2>5, RunUpdate
  <2> QED
    BY <1>2, <2>1, <2>2, <2>6 DEF p, v
<1> QED
  BY <1>1, <1>2

(* What a run holds stays good while the tables grow. *)
LEMMA HeldFrame ==
  ASSUME TypeOK, NEW q \in Runs, HeldInv(q), run'[q] = run[q],
         \A v \in Id : paperOf[v] # None => paperOf'[v] = paperOf[v]
  PROVE  HeldInv(q)'
<1>1. run[q].version \in Id \cup {None}
  BY DEF TypeOK, Run
<1> QED
  BY <1>1 DEF HeldInv, At, Bytes

LEMMA QuietHolds ==
  ASSUME TypeOK, RunsHold, NEW r \in Runs, NEW e, Moves(r, e),
         paperOf' = paperOf, \A b \in Binary : file'[b].version = file[b].version,
         HeldInv(r)'
  PROVE  RunsHold'
<1>1. \A q \in Runs \ {r} : HeldInv(q)'
  BY HeldFrame DEF RunsHold, Moves
<1> QED
  BY <1>1 DEF RunsHold, Resolved, Version

LEMMA NothingHeld ==
  ASSUME NEW r \in Runs, run'[r].stage \in {"idle", "scan", "next", "complete"}
  PROVE  HeldInv(r)'
  BY DEF HeldInv, InFile

(* The steps that leave the tables of identities alone. *)
LEMMA ScanHolds ==
  ASSUME TypeOK, RunsHold, NEW r \in Runs,
         \/ \E scope \in Path \cup {None} : Start(r, scope)
         \/ Scan(r) \/ MarkMissing(r) \/ Complete(r) \/ Crash(r)
  PROVE  TypeOK' /\ RunsHold'
<1>1. CASE \E scope \in Path \cup {None} : Start(r, scope)
  <2>1. PICK scope \in Path \cup {None} : Start(r, scope)
    BY <1>1
  <2> DEFINE e == [Idle EXCEPT !.stage = "scan", !.scope = scope]
  <2>2. Moves(r, e) /\ e.stage = "scan"
    BY <2>1, StartEffects DEF Idle
  <2> HIDE DEF e
  <2>3. RunsHold'
    BY <2>1, <2>2, QuietHolds, NothingHeld DEF Start, catalog, Moves
  <2>4. status' \in [Runs -> RunStatus]
    BY <2>1 DEF Start, TypeOK, RunStatus
  <2>5. alone' \in SUBSET Runs
    <3>1. alone' = {} \/ alone' = {r}
      BY <2>1, Zenon DEF Start
    <3> QED
      BY <3>1
  <2>6. ingests' \in Nat
    <3>1. ingests' = ingests + 1
      BY <2>1 DEF Start
    <3>2. ingests \in Nat
      BY DEF TypeOK
    <3> QED
      BY <3>1, <3>2
  <2> QED
    BY <2>1, <2>2, <2>3, <2>4, <2>5, <2>6 DEF Start, TypeOK, Moves, catalog
<1>2. CASE Scan(r)
  <2>1. PICK e : Moves(r, e) /\ e.stage = "next"
    <3>1. run[r] \in Run
      BY DEF TypeOK
    <3>2. ASSUME NEW unreadable \in SUBSET (OnDisk \cap Scope(run[r].scope)),
                 NEW found, NEW trouble,
                 Moves(r, [run[r] EXCEPT !.stage = "next", !.listed = found, !.todo = found,
                                         !.troubled = trouble])
          PROVE  \E e : Moves(r, e) /\ e.stage = "next"
      <4>1. [run[r] EXCEPT !.stage = "next", !.listed = found, !.todo = found,
                           !.troubled = trouble].stage = "next"
        BY <3>1 DEF Run
      <4> QED
        BY <3>2, <4>1
    <3> QED
      BY <1>2, <3>2, ScanEffects
  <2>2. RunsHold'
    BY <1>2, <2>1, QuietHolds, NothingHeld DEF Scan, catalog, Moves
  <2> QED
    BY <1>2, <2>1, <2>2 DEF Scan, TypeOK, Moves, catalog, history
<1>3. CASE MarkMissing(r)
  <2> DEFINE e == [run[r] EXCEPT !.stage = "complete"]
  <2>1. Moves(r, e) /\ e.stage = "complete"
    BY <1>3, StageEffects DEF MarkMissing, Stage, TypeOK, Run
  <2> HIDE DEF e
  <2>2. RunsHold'
    BY <1>3, <2>1, QuietHolds, NothingHeld DEF MarkMissing, Moves
  <2>3. location' \in [Path -> LocationRow]
    BY <1>3, ZenonT(30) DEF MarkMissing, TypeOK, LocationRow
  <2> QED
    BY <1>3, <2>1, <2>2, <2>3 DEF MarkMissing, TypeOK, Moves, history
<1>4. CASE Complete(r)
  <2> DEFINE e == [Idle EXCEPT !.scope = run[r].scope]
  <2>1. Moves(r, e) /\ e.stage = "idle"
    BY <1>4, CompleteEffects DEF Idle
  <2> HIDE DEF e
  <2>2. RunsHold'
    BY <1>4, <2>1, QuietHolds, NothingHeld DEF Complete, catalog, Moves
  <2> QED
    BY <1>4, <2>1, <2>2 DEF Complete, TypeOK, Moves, catalog, history, RunStatus
<1>5. CASE Crash(r)
  <2>1. Moves(r, Idle) /\ Idle.stage = "idle"
    BY <1>5, IdleIsRun, RunUpdate DEF Crash, Idle
  <2>2. RunsHold'
    BY <1>5, <2>1, QuietHolds, NothingHeld DEF Crash, Moves
  <2> QED
    BY <1>5, <2>1, <2>2 DEF Crash, TypeOK, Moves, history, LeftBehind
<1> QED
  BY <1>1, <1>2, <1>3, <1>4, <1>5

LEMMA FinishHolds ==
  ASSUME TypeOK, RunsHold, NEW r \in Runs, NEW failed \in BOOLEAN, Finish(r, failed),
         paperOf' = paperOf, file' = file
  PROVE  run' \in [Runs -> Run] /\ RunsHold'
<1>1. Moves(r, Finished(run[r], failed)) /\ run[r] \in Run
  BY FinishEffects DEF TypeOK
<1>2. Finished(run[r], failed).stage = "next"
  BY <1>1 DEF Finished, Run
<1>3. RunsHold'
  BY <1>1, <1>2, QuietHolds, NothingHeld DEF Moves
<1> QED
  BY <1>1, <1>3 DEF Moves

LEMMA FileHolds ==
  ASSUME TypeOK, RunsHold, NEW r \in Runs,
         Fingerprint(r) \/ Register(r) \/ Check(r) \/ Derive(r) \/ Fail(r)
  PROVE  TypeOK' /\ RunsHold'
<1>0. run[r] \in Run /\ HeldInv(r)
  BY DEF TypeOK, RunsHold
<1>1. CASE Fingerprint(r)
  <2>1. PICK p \in run[r].todo :
           \/ Moves(r, [run[r] EXCEPT !.todo = @ \ {p}, !.troubled = TRUE])
           \/ /\ disk[p] # None
              /\ Moves(r, [run[r] EXCEPT !.stage = "register", !.todo = @ \ {p},
                                         !.at = p, !.bytes = disk[p]])
    BY <1>1, FingerprintEffects
  <2>2. p \in Path /\ disk[p] \in Binary \cup {None}
    BY <1>0 DEF TypeOK, Run
  <2>3. CASE Moves(r, [run[r] EXCEPT !.todo = @ \ {p}, !.troubled = TRUE])
    <3>1. run'[r].stage = "next"
      BY <1>0, <1>1, <2>3 DEF Moves, Fingerprint, Run
    <3>2. RunsHold'
      BY <1>1, <2>3, <3>1, QuietHolds, NothingHeld DEF Fingerprint, catalog
    <3> QED
      BY <1>1, <2>3, <3>2 DEF Fingerprint, TypeOK, Moves, catalog, history
  <2>4. CASE /\ disk[p] # None
             /\ Moves(r, [run[r] EXCEPT !.stage = "register", !.todo = @ \ {p},
                                        !.at = p, !.bytes = disk[p]])
    <3>1. run'[r].stage = "register" /\ run'[r].at = p /\ run'[r].bytes = disk[p]
      BY <1>0, <2>4 DEF Moves, Run
    <3>2. HeldInv(r)'
      BY <2>2, <2>4, <3>1 DEF HeldInv, At, Bytes
    <3>3. RunsHold'
      BY <1>1, <2>4, <3>2, QuietHolds DEF Fingerprint, catalog
    <3> QED
      BY <1>1, <2>4, <3>3 DEF Fingerprint, TypeOK, Moves, catalog, history
  <2> QED
    BY <2>1, <2>3, <2>4
<1>2. CASE Register(r)
  <2> DEFINE e == [run[r] EXCEPT !.stage = "check", !.novel = ~ file[Bytes(r)].known]
  <2>1. Moves(r, e)
    BY <1>0, <1>2, RegisterEffects
  <2>2. e.stage = "check" /\ e.at = run[r].at /\ e.bytes = run[r].bytes
    BY <1>0 DEF Run
  <2> HIDE DEF e
  <2>3. At(r) \in Path /\ Bytes(r) \in Binary
    BY <1>0, <1>2 DEF Register, HeldInv, InFile
  <2>4. HeldInv(r)'
    BY <2>1, <2>2, <2>3 DEF HeldInv, At, Bytes, Moves
  <2>5. /\ \A b \in Binary : file'[b].version = file[b].version
        /\ file' \in [Binary -> FileRow]
    BY <1>2, <2>3 DEF Register, TypeOK, FileRow
  <2>6. location' \in [Path -> LocationRow]
    BY <1>2, <2>3 DEF Register, TypeOK, LocationRow
  <2>7. RunsHold'
    BY <1>2, <2>1, <2>4, <2>5, QuietHolds DEF Register
  <2> QED
    BY <1>2, <2>1, <2>5, <2>6, <2>7 DEF Register, TypeOK, Moves, history
<1>3. CASE Check(r)
  <2>1. CASE Settled(r)
    BY <1>3, <2>1, FinishHolds DEF Check, TypeOK, catalog, history
  <2>2. CASE ~ Settled(r)
    <3>1. Moves(r, Checked(r)) /\ Bytes(r) \in Binary /\ At(r) \in Path
      BY <1>0, <1>3, <2>2, CheckEffects DEF Check, HeldInv, InFile
    <3>2. /\ run'[r].stage = AfterCheck(r) /\ run'[r].at = At(r)
          /\ run'[r].bytes = Bytes(r) /\ run'[r].version = Version(Bytes(r))
          /\ run'[r].paper = IF Version(Bytes(r)) = None THEN None
                             ELSE paperOf[Version(Bytes(r))]
      BY <1>0, <3>1 DEF Moves, Checked, Run, At, Bytes
    <3>3. Version(Bytes(r)) \in Id \cup {None}
      BY <3>1 DEF TypeOK, Version, FileRow
    <3>4. Version(Bytes(r)) # None => paperOf[Version(Bytes(r))] \in Id
      BY <3>1, <3>3 DEF TypeOK, RunsHold, Resolved
    <3>5. \/ AfterCheck(r) = "metadata"
          \/ AfterCheck(r) = "save_identity" /\ Version(Bytes(r)) # None
      BY DEF AfterCheck
    <3>6. paperOf' = paperOf /\ file' = file
      BY <1>3 DEF Check, catalog
    <3>7. HeldInv(r)'
      BY <3>1, <3>2, <3>3, <3>4, <3>5, <3>6, NoneAssumption DEF HeldInv, At, Bytes, InFile, Id
    <3>8. RunsHold'
      BY <3>1, <3>6, <3>7, QuietHolds
    <3> QED
      BY <1>3, <3>1, <3>8 DEF Check, TypeOK, Moves, catalog, history
  <2> QED
    BY <2>1, <2>2
<1>4. CASE Derive(r)
  <2>1. run[r].version \in Id
    BY <1>0, <1>4 DEF Derive, HeldInv
  <2> QED
    BY <1>4, <2>1, FinishHolds DEF Derive, TypeOK, history
<1>5. CASE Fail(r)
  BY <1>5, FinishHolds DEF Fail, TypeOK, history, LeftBehind
<1> QED
  BY <1>1, <1>2, <1>3, <1>4, <1>5

(* The steps that write them. *)
LEMMA MetadataHolds ==
  ASSUME TypeOK, RunsHold, NEW r \in Runs, Metadata(r)
  PROVE  TypeOK' /\ RunsHold'
<1>1. run[r] \in Run /\ HeldInv(r)
  BY DEF TypeOK, RunsHold
<1> DEFINE b == disk[At(r)]
           e == [run[r] EXCEPT !.stage = "resolve", !.read = b]
<1>2. Moves(r, e) /\ b \in Binary
  BY <1>1, MetadataEffects
<1> HIDE DEF b
<1>3. /\ e.stage = "resolve" /\ e.read = b /\ e.at = At(r) /\ e.bytes = Bytes(r)
      /\ e.version = run[r].version /\ e.paper = run[r].paper
  BY <1>1 DEF Run, At, Bytes
<1> HIDE DEF e
<1>4. At(r) \in Path /\ Bytes(r) \in Binary
  BY <1>1 DEF HeldInv, InFile, Metadata
<1>5. HeldInv(r)'
  BY <1>1, <1>2, <1>3, <1>4 DEF HeldInv, At, Bytes, Moves, Metadata, catalog
<1>6. RunsHold'
  BY <1>2, <1>5, QuietHolds DEF Metadata, catalog
<1>7. doubtful' \subseteq Binary \cup Text \cup Name
  BY <1>2, <1>4, TextAssumption DEF Metadata, TypeOK, b
<1> QED
  BY <1>2, <1>6, <1>7 DEF Metadata, TypeOK, Moves, catalog

LEMMA ResolveHolds ==
  ASSUME TypeOK, RunsHold, NEW r \in Runs, Resolve(r)
  PROVE  TypeOK' /\ RunsHold'
<1>1. run[r] \in Run /\ HeldInv(r)
  BY DEF TypeOK, RunsHold
<1>2. At(r) \in Path /\ Bytes(r) \in Binary /\ run[r].read \in Binary
  BY <1>1 DEF HeldInv, InFile, Resolve
<1>3. /\ file' \in [Binary -> FileRow]
      /\ \A b \in Binary : file'[b].version = file[b].version
  <2>1. TextOf[run[r].read] \in Text \cup {None}
    BY <1>2, TextAssumption
  <2>2. file' = [file EXCEPT ![Bytes(r)].text = TextOf[run[r].read]]
    BY DEF Resolve
  <2>3. file \in [Binary -> FileRow]
    BY DEF TypeOK
  <2> QED
    BY <1>2, <2>1, <2>2, <2>3 DEF FileRow
<1>4. paperOf' = paperOf
  BY DEF Resolve
<1>5. CASE run[r].version # None
  <2> DEFINE e == [run[r] EXCEPT !.stage = "save_identity"]
  <2>1. Moves(r, e) /\ UNCHANGED <<nextId, doubtful>>
    BY <1>5, ResolveEffects
  <2>2. /\ e.stage = "save_identity" /\ e.at = At(r) /\ e.bytes = Bytes(r)
        /\ e.version = run[r].version /\ e.paper = run[r].paper
    BY <1>1 DEF Run, At, Bytes
  <2> HIDE DEF e
  <2>3. /\ run[r].version \in Id /\ paperOf[run[r].version] \in Id
        /\ run[r].paper = paperOf[run[r].version]
    BY <1>1, <1>5 DEF HeldInv, Resolve, Run, TypeOK
  <2>4. HeldInv(r)'
    BY <1>2, <1>4, <2>1, <2>2, <2>3, NoneAssumption DEF HeldInv, At, Bytes, Moves, Id
  <2>5. RunsHold'
    BY <1>3, <1>4, <2>1, <2>4, QuietHolds
  <2> QED
    BY <1>3, <2>1, <2>5 DEF Resolve, TypeOK, Moves
<1>6. CASE run[r].version = None
  <2>1. nextId \in Id /\ doubtful' = doubtful \cup Contested(r)
    BY <1>6, ResolveEffects
  <2>2. PICK identity \in Identities(run[r].read) :
          /\ Moves(r, [run[r] EXCEPT !.stage = "save_identity",
                         !.paper = identity[1], !.version = identity[2]])
          /\ nextId' = IF nextId = identity[2] THEN nextId + 1 ELSE nextId
    BY <1>6, ResolveEffects
  <2> DEFINE p == identity[1]
             v == identity[2]
             e == [run[r] EXCEPT !.stage = "save_identity", !.paper = p, !.version = v]
  <2>3. p \in Id /\ v \in Id
    BY <1>2, <2>1, IdentitiesTyped
  <2>4. Moves(r, e) /\ nextId' = IF nextId = v THEN nextId + 1 ELSE nextId
    BY <2>2
  <2> HIDE DEF p, v
  <2>5. /\ e.stage = "save_identity" /\ e.at = At(r) /\ e.bytes = Bytes(r)
        /\ e.version = v /\ e.paper = p /\ e.read = run[r].read
    BY <1>1 DEF Run, At, Bytes
  <2> HIDE DEF e
  <2>6. HeldInv(r)'
    BY <1>2, <2>3, <2>4, <2>5 DEF HeldInv, At, Bytes, Moves
  <2>7. RunsHold'
    BY <1>3, <1>4, <2>4, <2>6, QuietHolds
  <2>8. nextId' \in 1 .. MaxIds + 1
    BY <2>1, <2>4, MaxIdsAssumption DEF TypeOK, Id
  <2>9. Contested(r) \subseteq Binary \cup Text \cup Name
    BY <1>2, TextAssumption DEF Contested, Names, Metadatum
  <2> QED
    BY <1>3, <2>1, <2>4, <2>7, <2>8, <2>9 DEF Resolve, TypeOK, Moves
<1> QED
  BY <1>5, <1>6

LEMMA SaveHolds ==
  ASSUME TypeOK, RunsHold, NEW r \in Runs, SaveIdentity(r)
  PROVE  TypeOK' /\ RunsHold'
<1>1. run[r] \in Run /\ HeldInv(r)
  BY DEF TypeOK, RunsHold
<1>2. /\ At(r) \in Path /\ Bytes(r) \in Binary
      /\ run[r].version \in Id /\ run[r].paper \in Id
  BY <1>1 DEF HeldInv, InFile, SaveIdentity
<1> DEFINE v == run[r].version
           p == run[r].paper
           e == [run[r] EXCEPT !.stage = "derive"]
<1>3. /\ paperOf' = IF paperOf[v] = None THEN [paperOf EXCEPT ![v] = p] ELSE paperOf
      /\ namesOf' = IF PaperExists(p) THEN namesOf
                   ELSE [namesOf EXCEPT ![p] = NamesOf[run[r].read]]
      /\ file' = [file EXCEPT ![Bytes(r)].version = v]
  BY DEF SaveIdentity, FileOf
<1>4. Moves(r, e)
  BY StageEffects DEF SaveIdentity, Stage
<1>5. e.stage = "derive" /\ e.at = At(r) /\ e.bytes = Bytes(r) /\ e.version = v
  BY <1>1 DEF Run, At, Bytes
<1> HIDE DEF e
<1>6. file' \in [Binary -> FileRow]
  BY <1>2, <1>3 DEF TypeOK, FileRow
<1>7. paperOf' \in [Id -> Id \cup {None}]
  BY <1>2, <1>3 DEF TypeOK
<1>8. namesOf' \in [Id -> Metadatum]
  <2>1. PaperExists(p) \/ run[r].read \in Binary
    BY <1>1, <1>2 DEF HeldInv, SaveIdentity, PaperExists
  <2> QED
    BY <1>2, <1>3, <2>1, TextAssumption DEF TypeOK
<1>9. \A w \in Id : paperOf[w] # None => paperOf'[w] = paperOf[w]
  BY <1>2, <1>3 DEF TypeOK
<1>10. paperOf'[v] # None
  BY <1>2, <1>3, NoneAssumption DEF TypeOK, Id
<1>11. HeldInv(r)'
  BY <1>2, <1>4, <1>5 DEF HeldInv, At, Bytes, Moves
<1>12. \A q \in Runs \ {r} : HeldInv(q)'
  BY <1>4, <1>9, HeldFrame DEF RunsHold, Moves
<1>13. ASSUME NEW b \in Resolved' PROVE paperOf'[Version(b)'] # None
  <2>1. CASE b = Bytes(r)
    BY <1>2, <1>3, <1>10, <2>1 DEF TypeOK, FileRow, Version
  <2>2. CASE b # Bytes(r)
    <3>1. b \in Binary /\ Version(b)' = Version(b) /\ Version(b) \in Id
      BY <1>2, <1>3, <1>13, <2>2 DEF TypeOK, FileRow, Version, Resolved
    <3> QED
      BY <1>9, <1>13, <3>1 DEF RunsHold, Resolved
  <2> QED
    BY <2>1, <2>2
<1>14. RunsHold'
  BY <1>11, <1>12, <1>13 DEF RunsHold
<1> QED
  BY <1>4, <1>6, <1>7, <1>8, <1>14 DEF SaveIdentity, TypeOK, Moves, history

LEMMA ChangeHolds ==
  ASSUME TypeOK, RunsHold, NEW p \in Path, Change(p)
  PROVE  TypeOK' /\ RunsHold'
<1>1. \A r \in Runs : HeldInv(r)'
  BY DEF Change, catalog, RunsHold, HeldInv, At, Bytes
<1>2. RunsHold'
  BY <1>1 DEF Change, catalog, RunsHold, Resolved, Version
<1> QED
  BY <1>2, DisksAssumption DEF Change, catalog, TypeOK

LEMMA HoldsNext == TypeOK /\ RunsHold /\ [Next]_vars => TypeOK' /\ RunsHold'
<1> SUFFICES ASSUME TypeOK, RunsHold, [Next]_vars PROVE TypeOK' /\ RunsHold'
  OBVIOUS
<1>1. ASSUME NEW r \in Runs, Step(r) PROVE TypeOK' /\ RunsHold'
  BY <1>1, ScanHolds, FileHolds, MetadataHolds, ResolveHolds, SaveHolds DEF Step
<1>2. ASSUME NEW r \in Runs,
             Fail(r) \/ Crash(r) \/ \E scope \in Path \cup {None} : Start(r, scope)
      PROVE  TypeOK' /\ RunsHold'
  BY <1>2, ScanHolds, FileHolds
<1>3. CASE UNCHANGED vars
  BY <1>3 DEF vars, TypeOK, RunsHold, HeldInv, At, Bytes, Version, Resolved
<1> QED
  BY <1>1, <1>2, <1>3, ChangeHolds DEF Next

LEMMA HoldsInit == Init => TypeOK /\ RunsHold
<1> SUFFICES ASSUME Init PROVE TypeOK /\ RunsHold
  OBVIOUS
<1>1. run \in [Runs -> Run]
  BY IdleIsRun DEF Init
<1>2. RunsHold
  BY DEF Init, RunsHold, HeldInv, InFile, Idle, Resolved, Version
<1>3. namesOf \in [Id -> Metadatum]
  BY DEF Init, Metadatum
<1>4. /\ disk \in [Path -> Binary \cup {None}]
      /\ file \in [Binary -> FileRow]
      /\ location \in [Path -> LocationRow]
      /\ paperOf \in [Id -> Id \cup {None}]
      /\ status \in [Runs -> RunStatus]
  BY DisksAssumption DEF Init, FileRow, LocationRow, RunStatus
<1>5. /\ derived = {} /\ nextId = 1 /\ alone = {} /\ doubtful = {}
      /\ changes = 0 /\ ingests = 0
  BY DEF Init
<1>6. nextId \in 1 .. MaxIds + 1
  BY <1>5, MaxIdsAssumption
<1> QED
  BY <1>1, <1>2, <1>3, <1>4, <1>5, <1>6 DEF TypeOK

(* The tables and the runs are what they should be, whatever ran, failed,      *)
(* crashed or changed before (the columns of paper_files and its neighbours). *)
THEOREM TypeCorrect == Spec => []TypeOK
<1>1. Spec => [](TypeOK /\ RunsHold)
  BY HoldsInit, HoldsNext, PTL DEF Spec
<1> QED
  BY <1>1, PTL

-----------------------------------------------------------------------------
(* A run that is alone.                                                      *)

(* A run on its way, whose step leaves the others alone. *)
LEMMA OnItsWay ==
  ASSUME NEW r \in Runs, AloneInv(r), r \in alone, InFlight(r), NEW e, Moves(r, e),
         status' = status, run'[r].stage \in InFile => AtWork(r)',
         ScannedAll(r)' => ScanFollows(r)'
  PROVE  AloneInv(r)'
<1>1. \A q \in Runs \ {r} : ~ InFlight(q)'
  BY DEF AloneInv, Moves, InFlight
<1>2. status'[r] = "running"
  BY DEF AloneInv
<1> QED
  BY <1>1, <1>2 DEF AloneInv

LEMMA AloneStarts ==
  ASSUME TypeOK, NEW r \in Runs, NEW scope \in Path \cup {None}, Start(r, scope)
  PROVE  \A q \in Runs : AloneInv(q)'
<1>1. Moves(r, [Idle EXCEPT !.stage = "scan", !.scope = scope])
  BY StartEffects
<1>2. run'[r].stage = "scan"
  BY <1>1 DEF Moves, Idle
<1>3. status'[r] = "running"
  BY DEF Start, TypeOK
<1>4. CASE \E q \in Runs : InFlight(q)
  <2>1. alone' = {}
    BY <1>4, Zenon DEF Start
  <2> QED
    BY <2>1 DEF AloneInv
<1>5. CASE \A q \in Runs : ~ InFlight(q)
  <2>1. alone' = {r}
    BY <1>5, Zenon DEF Start
  <2>2. \A q \in Runs \ {r} : ~ InFlight(q)'
    BY <1>1, <1>5 DEF Moves, InFlight
  <2>3. AloneInv(r)'
    BY <1>2, <1>3, <2>2 DEF AloneInv, InFlight, InFile, ScannedAll
  <2> QED
    BY <2>1, <2>3 DEF AloneInv
<1> QED
  BY <1>4, <1>5

LEMMA AloneScans ==
  ASSUME TypeOK, NEW r \in Runs, r \in alone, AloneInv(r), Scan(r)
  PROVE  AloneInv(r)'
<1>1. PICK unreadable \in SUBSET (OnDisk \cap Scope(run[r].scope)) :
           LET found == (OnDisk \cap Scope(run[r].scope)) \ unreadable IN
             Moves(r, [run[r] EXCEPT !.stage = "next", !.listed = found, !.todo = found,
                         !.troubled = unreadable # {} \/ run[r].scope \in Path \ OnDisk])
  BY ScanEffects
<1> DEFINE found == (OnDisk \cap Scope(run[r].scope)) \ unreadable
           trouble == unreadable # {} \/ run[r].scope \in Path \ OnDisk
           e == [run[r] EXCEPT !.stage = "next", !.listed = found, !.todo = found,
                               !.troubled = trouble]
<1>2. Moves(r, e) /\ run[r] \in Run
  BY <1>1 DEF TypeOK
<1> HIDE DEF found, trouble
<1>3. /\ e.stage = "next" /\ e.listed = found /\ e.todo = found /\ e.troubled = trouble
      /\ e.scope = run[r].scope
  BY <1>2 DEF Run
<1> HIDE DEF e
<1>4. OnDisk' = OnDisk
  BY DEF Scan, OnDisk
<1>5. ScannedAll(r)' => ScanFollows(r)'
  <2> SUFFICES ASSUME ScannedAll(r)' PROVE ScanFollows(r)'
    OBVIOUS
  <2>1. ~ trouble /\ run[r].scope = None
    BY <1>2, <1>3 DEF ScannedAll, Moves
  <2>2. found = OnDisk
    BY <2>1 DEF found, trouble, Scope, OnDisk
  <2> QED
    BY <1>2, <1>3, <1>4, <2>2 DEF ScanFollows, Moves, Left
<1> QED
  BY <1>2, <1>3, <1>5, OnItsWay DEF Scan, InFlight, Moves, InFile

LEMMA AloneFingerprints ==
  ASSUME TypeOK, NEW r \in Runs, r \in alone, AloneInv(r), Fingerprint(r)
  PROVE  AloneInv(r)'
<1>1. PICK p \in run[r].todo :
         \/ Moves(r, [run[r] EXCEPT !.todo = @ \ {p}, !.troubled = TRUE])
         \/ /\ disk[p] # None
            /\ Moves(r, [run[r] EXCEPT !.stage = "register", !.todo = @ \ {p},
                                       !.at = p, !.bytes = disk[p]])
  BY FingerprintEffects
<1>2. run[r] \in Run /\ run[r].stage = "next" /\ UNCHANGED <<disk, location, file, derived, status>>
  BY DEF Fingerprint, TypeOK, catalog
<1>3. CASE Moves(r, [run[r] EXCEPT !.todo = @ \ {p}, !.troubled = TRUE])
  <2>1. run'[r].stage = "next" /\ run'[r].troubled = TRUE
    BY <1>2, <1>3 DEF Moves, Run
  <2> QED
    BY <1>2, <1>3, <2>1, OnItsWay DEF InFlight, InFile, ScannedAll
<1>4. CASE Moves(r, [run[r] EXCEPT !.stage = "register", !.todo = @ \ {p},
                                   !.at = p, !.bytes = disk[p]])
  <2>1. /\ run'[r].stage = "register" /\ run'[r].at = p /\ run'[r].bytes = disk[p]
        /\ run'[r].todo = run[r].todo \ {p} /\ run'[r].troubled = run[r].troubled
        /\ run'[r].scope = run[r].scope /\ run'[r].listed = run[r].listed
    BY <1>2, <1>4 DEF Moves, Run
  <2>2. AtWork(r)'
    BY <1>2, <2>1 DEF AtWork, Bytes, At
  <2>3. Left(r)' = Left(r)
    BY <1>2, <2>1 DEF Left, InFile, At
  <2>4. ScannedAll(r)' => ScanFollows(r)'
    BY <1>2, <2>1, <2>3 DEF ScannedAll, ScanFollows, AloneInv, Ingested, OnDisk, Version
  <2> QED
    BY <1>2, <1>4, <2>2, <2>4, OnItsWay DEF InFlight
<1> QED
  BY <1>1, <1>3, <1>4

(* The item of a path ends well. *)
LEMMA AloneFinishes ==
  ASSUME TypeOK, NEW r \in Runs, r \in alone, AloneInv(r), run[r].stage \in InFile,
         Finish(r, FALSE), UNCHANGED <<disk, location, file, status>>,
         derived \subseteq derived', NEW here, here = At(r), Ingested(here)'
  PROVE  AloneInv(r)'
<1>1. Moves(r, Finished(run[r], FALSE)) /\ run[r] \in Run
  BY FinishEffects DEF TypeOK
<1>2. /\ run'[r].stage = "next" /\ run'[r].todo = run[r].todo
      /\ run'[r].troubled = run[r].troubled
      /\ run'[r].scope = run[r].scope /\ run'[r].listed = run[r].listed
  BY <1>1 DEF Moves, Run, Finished
<1>3. Left(r) = Left(r)' \cup {At(r)}
  BY <1>2 DEF Left, InFile
<1>4. \A p \in Path : Ingested(p) => Ingested(p)'
  BY DEF Ingested, Version
<1>5. ScannedAll(r)' => ScanFollows(r)'
  <2> SUFFICES ASSUME ScannedAll(r)' PROVE ScanFollows(r)'
    OBVIOUS
  <2>1. ScanFollows(r)
    BY <1>2 DEF ScannedAll, AloneInv, InFile
  <2>2. OnDisk' = OnDisk /\ OnDisk \subseteq Path
    BY DEF OnDisk
  <2>3. ASSUME NEW p \in OnDisk \ Left(r)' PROVE Ingested(p)'
    <3>1. CASE p = here
      BY <3>1
    <3>2. CASE p # here
      BY <1>3, <1>4, <2>1, <2>2, <2>3, <3>2 DEF ScanFollows
    <3> QED
      BY <3>1, <3>2
  <2> QED
    BY <1>2, <2>1, <2>2, <2>3 DEF ScanFollows
<1> QED
  BY <1>1, <1>2, <1>5, OnItsWay DEF InFlight, InFile

(* What it does to its own path leaves those that are done. *)
LEMMA AloneWorks ==
  ASSUME TypeOK, NEW r \in Runs, r \in alone, AloneInv(r), run[r].stage \in InFile,
         NEW e, Moves(r, e), e.stage \in InFile, e.at = At(r), e.todo = run[r].todo,
         e.troubled = run[r].troubled, e.scope = run[r].scope, e.listed = run[r].listed,
         UNCHANGED <<disk, status>>, AtWork(r)',
         \A p \in OnDisk : p # At(r) /\ Ingested(p) => Ingested(p)'
  PROVE  AloneInv(r)'
<1>1. Left(r)' = Left(r) /\ At(r) \in Left(r)
  BY DEF Left, Moves, At
<1>2. ScannedAll(r)' => ScanFollows(r)'
  <2> SUFFICES ASSUME ScannedAll(r)' PROVE ScanFollows(r)'
    OBVIOUS
  <2>1. ScanFollows(r)
    BY DEF ScannedAll, AloneInv, Moves, InFile
  <2>2. OnDisk' = OnDisk /\ OnDisk \subseteq Path
    BY DEF OnDisk
  <2> QED
    BY <1>1, <2>1, <2>2 DEF ScanFollows, Moves, InFile
<1> QED
  BY <1>2, OnItsWay DEF InFlight, InFile

LEMMA AloneRegisters ==
  ASSUME TypeOK, RunsHold, NEW r \in Runs, r \in alone, AloneInv(r), Register(r)
  PROVE  AloneInv(r)'
<1>1. run[r] \in Run /\ run[r].stage = "register" /\ HeldInv(r)
  BY DEF Register, TypeOK, RunsHold
<1>2. At(r) \in Path /\ Bytes(r) \in Binary
  BY <1>1 DEF HeldInv, InFile
<1> DEFINE e == [run[r] EXCEPT !.stage = "check", !.novel = ~ file[Bytes(r)].known]
<1>3. Moves(r, e)
  BY <1>1, RegisterEffects
<1>4. /\ e.stage = "check" /\ e.at = At(r) /\ e.bytes = Bytes(r) /\ e.todo = run[r].todo
      /\ e.troubled = run[r].troubled /\ e.scope = run[r].scope /\ e.listed = run[r].listed
  BY <1>1 DEF Run, At, Bytes
<1> HIDE DEF e
<1>5. location' = [location EXCEPT ![At(r)] = [file |-> Bytes(r), present |-> TRUE]]
  BY DEF Register
<1>6. AtWork(r)'
  BY <1>1, <1>2, <1>3, <1>4, <1>5
  DEF AloneInv, AtWork, Register, Moves, At, Bytes, InFile, TypeOK
<1>7. \A b \in Binary : Version(b)' = Version(b)
  BY <1>2 DEF Register, TypeOK, FileRow, Version
<1>8. \A p \in OnDisk : p # At(r) /\ Ingested(p) => Ingested(p)'
  <2> SUFFICES ASSUME NEW p \in OnDisk, p # At(r), Ingested(p) PROVE Ingested(p)'
    OBVIOUS
  <2>1. location'[p] = location[p]
    BY <1>2, <1>5 DEF TypeOK, OnDisk
  <2>2. disk[p] \in Binary
    BY DEF OnDisk, TypeOK
  <2>3. disk' = disk /\ derived' = derived
    BY DEF Register
  <2> QED
    BY <1>7, <2>1, <2>2, <2>3 DEF Ingested, Version
<1> QED
  BY <1>1, <1>3, <1>4, <1>6, <1>8, AloneWorks DEF InFile, Register

LEMMA AloneChecks ==
  ASSUME TypeOK, RunsHold, NEW r \in Runs, r \in alone, AloneInv(r), Check(r)
  PROVE  AloneInv(r)'
<1>1. run[r] \in Run /\ run[r].stage = "check" /\ HeldInv(r)
  BY DEF Check, TypeOK, RunsHold
<1>2. AtWork(r) /\ UNCHANGED <<disk, location, file, status, derived>>
  BY <1>1 DEF AloneInv, InFile, Check, catalog
<1>3. CASE Settled(r)
  <2>1. PICK here : here = At(r)
    OBVIOUS
  <2>2. Ingested(here)'
    BY <1>1, <1>2, <1>3, <2>1 DEF Ingested, AtWork, Settled, Version
  <2> QED
    BY <1>1, <1>2, <1>3, <2>1, <2>2, AloneFinishes DEF Check, InFile
<1>4. CASE ~ Settled(r)
  <2>1. Moves(r, Checked(r))
    BY <1>1, <1>4, CheckEffects
  <2> DEFINE e == Checked(r)
  <2>2. /\ e.stage = AfterCheck(r) /\ e.at = At(r) /\ e.bytes = Bytes(r)
        /\ e.version = Version(Bytes(r)) /\ e.todo = run[r].todo
        /\ e.troubled = run[r].troubled /\ e.scope = run[r].scope /\ e.listed = run[r].listed
    BY <1>1 DEF Run, At, Bytes, Checked
  <2>3. AfterCheck(r) \in {"metadata", "save_identity"}
    BY DEF AfterCheck
  <2> HIDE DEF e
  <2>4. Moves(r, e)
    BY <2>1 DEF e
  <2>5. AtWork(r)'
    BY <1>1, <1>2, <2>2, <2>3, <2>4 DEF AtWork, Moves, At, Bytes, Version
  <2> QED
    BY <1>1, <1>2, <2>2, <2>3, <2>4, <2>5, AloneWorks DEF InFile, Ingested, Version
<1> QED
  BY <1>3, <1>4

LEMMA AloneReads ==
  ASSUME TypeOK, RunsHold, NEW r \in Runs, r \in alone, AloneInv(r), Metadata(r)
  PROVE  AloneInv(r)'
<1>1. run[r] \in Run /\ run[r].stage = "metadata" /\ HeldInv(r)
  BY DEF Metadata, TypeOK, RunsHold
<1>2. AtWork(r) /\ UNCHANGED <<disk, location, file, status, derived>>
  BY <1>1 DEF AloneInv, InFile, Metadata, catalog
<1> DEFINE e == [run[r] EXCEPT !.stage = "resolve", !.read = disk[At(r)]]
<1>3. Moves(r, e)
  BY <1>1, MetadataEffects
<1>4. /\ e.stage = "resolve" /\ e.at = At(r) /\ e.bytes = Bytes(r)
      /\ e.version = run[r].version /\ e.todo = run[r].todo
      /\ e.troubled = run[r].troubled /\ e.scope = run[r].scope /\ e.listed = run[r].listed
  BY <1>1 DEF Run, At, Bytes
<1> HIDE DEF e
<1>5. AtWork(r)'
  BY <1>1, <1>2, <1>3, <1>4 DEF AtWork, Moves, At, Bytes, Version
<1> QED
  BY <1>1, <1>2, <1>3, <1>4, <1>5, AloneWorks DEF InFile, Ingested, Version

(* The steps that write the row of the file at work. *)
LEMMA AloneWrites ==
  ASSUME TypeOK, RunsHold, NEW r \in Runs, r \in alone, AloneInv(r), run[r].stage \in InFile,
         NEW e, Moves(r, e), e.stage \in InFile, e.at = At(r), e.todo = run[r].todo,
         e.troubled = run[r].troubled, e.scope = run[r].scope, e.listed = run[r].listed,
         UNCHANGED <<disk, location, status, derived>>, AtWork(r)',
         \A b \in Binary : Version(b) \in derived => Version(b)' = Version(b)
  PROVE  AloneInv(r)'
<1>1. ASSUME NEW p \in OnDisk, Ingested(p) PROVE Ingested(p)'
  <2>1. disk[p] \in Binary
    BY DEF OnDisk, TypeOK
  <2> QED
    BY <1>1, <2>1 DEF Ingested, Version
<1> QED
  BY <1>1, AloneWorks

LEMMA AloneResolves ==
  ASSUME TypeOK, RunsHold, NEW r \in Runs, r \in alone, AloneInv(r), Resolve(r)
  PROVE  AloneInv(r)'
<1>1. run[r] \in Run /\ run[r].stage = "resolve" /\ HeldInv(r)
  BY DEF Resolve, TypeOK, RunsHold
<1>2. AtWork(r) /\ UNCHANGED <<disk, location, status, derived>>
  BY <1>1 DEF AloneInv, InFile, Resolve
<1>3. Bytes(r) \in Binary
  BY <1>1 DEF HeldInv, InFile
<1>4. \A b \in Binary : Version(b)' = Version(b)
  <2>1. file' = [file EXCEPT ![Bytes(r)].text = TextOf[run[r].read]]
    BY DEF Resolve
  <2>2. file \in [Binary -> FileRow]
    BY DEF TypeOK
  <2> QED
    BY <1>3, <2>1, <2>2 DEF FileRow, Version
<1>5. PICK e : /\ Moves(r, e) /\ e.stage = "save_identity" /\ e.at = At(r)
               /\ e.bytes = Bytes(r) /\ e.todo = run[r].todo
               /\ e.troubled = run[r].troubled /\ e.scope = run[r].scope
               /\ e.listed = run[r].listed
               /\ run[r].version # None => e.version = run[r].version
  <2>1. CASE run[r].version # None
    <3> DEFINE e == [run[r] EXCEPT !.stage = "save_identity"]
    <3>1. Moves(r, e)
      BY <2>1, ResolveEffects
    <3>2. /\ e.stage = "save_identity" /\ e.at = At(r)
          /\ e.bytes = Bytes(r) /\ e.todo = run[r].todo
          /\ e.troubled = run[r].troubled /\ e.scope = run[r].scope
          /\ e.listed = run[r].listed
          /\ run[r].version # None => e.version = run[r].version
      BY <1>1 DEF Run, At, Bytes
    <3> QED
      BY <3>1, <3>2
  <2>2. CASE run[r].version = None
    <3>1. PICK identity : Moves(r, [run[r] EXCEPT !.stage = "save_identity",
                                      !.paper = identity[1], !.version = identity[2]])
      BY <2>2, ResolveEffects
    <3> DEFINE p == identity[1]
               v == identity[2]
               e == [run[r] EXCEPT !.stage = "save_identity", !.paper = p, !.version = v]
    <3>2. Moves(r, e)
      BY <3>1
    <3> HIDE DEF p, v
    <3>3. /\ e.stage = "save_identity" /\ e.at = At(r)
          /\ e.bytes = Bytes(r) /\ e.todo = run[r].todo
          /\ e.troubled = run[r].troubled /\ e.scope = run[r].scope
          /\ e.listed = run[r].listed
      BY <1>1 DEF Run, At, Bytes
    <3> QED
      BY <2>2, <3>2, <3>3
  <2> QED
    BY <2>1, <2>2
<1>6. AtWork(r)'
  <2>1. Version(Bytes(r)) \in {None, run[r].version}
    BY <1>1, <1>2 DEF AtWork
  <2> QED
    BY <1>1, <1>2, <1>3, <1>4, <1>5, <2>1 DEF AtWork, Moves, At, Bytes, Version
<1> QED
  BY <1>1, <1>2, <1>4, <1>5, <1>6, AloneWrites DEF InFile

LEMMA AloneSaves ==
  ASSUME TypeOK, RunsHold, NEW r \in Runs, r \in alone, AloneInv(r), SaveIdentity(r)
  PROVE  AloneInv(r)'
<1>1. run[r] \in Run /\ run[r].stage = "save_identity" /\ HeldInv(r)
  BY DEF SaveIdentity, TypeOK, RunsHold
<1>2. AtWork(r) /\ UNCHANGED <<disk, location, status, derived>>
  BY <1>1 DEF AloneInv, InFile, SaveIdentity
<1>3. Bytes(r) \in Binary
  BY <1>1 DEF HeldInv, InFile
<1>4. /\ \A b \in Binary \ {Bytes(r)} : Version(b)' = Version(b)
      /\ file'[Bytes(r)].version = run[r].version
  BY <1>3 DEF SaveIdentity, FileOf, TypeOK, FileRow, Version
<1> DEFINE e == [run[r] EXCEPT !.stage = "derive"]
<1>5. Moves(r, e)
  BY StageEffects DEF SaveIdentity, Stage
<1>6. /\ e.stage = "derive" /\ e.at = At(r) /\ e.bytes = Bytes(r) /\ e.version = run[r].version
      /\ e.todo = run[r].todo /\ e.troubled = run[r].troubled /\ e.scope = run[r].scope
      /\ e.listed = run[r].listed
  BY <1>1 DEF Run, At, Bytes
<1> HIDE DEF e
<1>7. AtWork(r)'
  BY <1>1, <1>2, <1>4, <1>5, <1>6 DEF AtWork, Moves, At, Bytes, Version
<1>8. \A b \in Binary : Version(b) \in derived => Version(b)' = Version(b)
  <2>1. None \notin derived
    BY NoneIsNoId DEF TypeOK
  <2>2. Version(Bytes(r)) \in {None, run[r].version}
    BY <1>1, <1>2 DEF AtWork
  <2> QED
    BY <1>4, <2>1, <2>2 DEF Version
<1> QED
  BY <1>1, <1>2, <1>5, <1>6, <1>7, <1>8, AloneWrites DEF InFile

LEMMA AloneDerives ==
  ASSUME TypeOK, RunsHold, NEW r \in Runs, r \in alone, AloneInv(r), Derive(r)
  PROVE  AloneInv(r)'
<1>1. run[r].stage = "derive" /\ AtWork(r)
  BY DEF AloneInv, InFile, Derive
<1>2. PICK here : here = At(r)
  OBVIOUS
<1>3. Ingested(here)'
  BY <1>1, <1>2 DEF Derive, AtWork, Ingested, Version
<1> QED
  BY <1>1, <1>2, <1>3, AloneFinishes DEF Derive, InFile

LEMMA AloneFails ==
  ASSUME TypeOK, RunsHold, NEW r \in Runs, r \in alone, AloneInv(r), Fail(r) \/ Crash(r)
  PROVE  AloneInv(r)'
<1>1. CASE Fail(r)
  <2>1. Moves(r, Finished(run[r], TRUE)) /\ run[r] \in Run
    BY <1>1, FinishEffects DEF Fail, TypeOK
  <2>2. run'[r].stage = "next" /\ run'[r].troubled = TRUE
    BY <2>1 DEF Moves, Run, Finished
  <2> QED
    BY <1>1, <2>1, <2>2, OnItsWay DEF Fail, InFlight, InFile, ScannedAll
<1>2. CASE Crash(r)
  <2>1. Moves(r, Idle)
    BY <1>2, IdleIsRun, RunUpdate DEF Crash
  <2>2. run'[r].stage = "idle"
    BY <2>1 DEF Moves, Idle
  <2> QED
    BY <1>2, <2>1, <2>2, OnItsWay DEF Crash, InFile, ScannedAll
<1> QED
  BY <1>1, <1>2

LEMMA AloneMarks ==
  ASSUME TypeOK, RunsHold, NEW r \in Runs, r \in alone, AloneInv(r), MarkMissing(r)
  PROVE  AloneInv(r)'
<1>1. run[r] \in Run /\ run[r].stage = "next" /\ run[r].todo = {}
  BY DEF MarkMissing, TypeOK
<1> DEFINE e == [run[r] EXCEPT !.stage = "complete"]
<1>2. Moves(r, e)
  BY StageEffects DEF MarkMissing, Stage
<1>3. /\ e.stage = "complete" /\ e.todo = {} /\ e.troubled = run[r].troubled
      /\ e.scope = run[r].scope /\ e.listed = run[r].listed
  BY <1>1 DEF Run
<1> HIDE DEF e
<1>4. ScannedAll(r)' => ScanFollows(r)'
  <2> SUFFICES ASSUME ScannedAll(r)' PROVE ScanFollows(r)'
    OBVIOUS
  <2>1. ScanFollows(r)
    BY <1>1, <1>2, <1>3 DEF ScannedAll, AloneInv, Moves
  <2>2. OnDisk' = OnDisk /\ UNCHANGED <<disk, file, derived>>
    BY DEF MarkMissing, OnDisk
  <2>3. Left(r) = {} /\ Left(r)' = {}
    BY <1>1, <1>2, <1>3 DEF Left, InFile, Moves
  <2>4. \A p \in Path : location'[p] = [location[p] EXCEPT !.present = @ /\ p \in OnDisk]
    BY <2>1 DEF MarkMissing, ScanFollows
  <2>5. \A p \in OnDisk : location[p] = [file |-> disk[p], present |-> TRUE]
    BY <2>1, <2>3 DEF ScanFollows, Ingested
  <2>6. \A p \in OnDisk : location'[p] = [file |-> disk[p], present |-> TRUE]
    <3> SUFFICES ASSUME NEW p \in OnDisk
                 PROVE  location'[p] = [file |-> disk[p], present |-> TRUE]
      OBVIOUS
    <3>1. location'[p] = [location[p] EXCEPT !.present = location[p].present /\ p \in OnDisk]
      BY <2>4 DEF OnDisk
    <3>2. location[p] = [file |-> disk[p], present |-> TRUE]
      BY <2>5
    <3>3. (location[p].present /\ p \in OnDisk) = TRUE
      BY <3>2
    <3> QED
      BY <3>1, <3>2, <3>3
  <2>7. \A p \in Path \ OnDisk : location'[p].present = FALSE
    BY <2>4, ZenonT(30) DEF TypeOK, LocationRow
  <2>8. \A p \in OnDisk : Ingested(p)'
    <3> SUFFICES ASSUME NEW p \in OnDisk PROVE Ingested(p)'
      OBVIOUS
    <3>1. Version(disk[p]) \in derived
      BY <2>1, <2>3 DEF ScanFollows, Ingested
    <3>2. location'[p] = [file |-> disk[p], present |-> TRUE]
      BY <2>6
    <3> QED
      BY <2>2, <3>1, <3>2 DEF Ingested, Version
  <2>9. \A p \in Path : location'[p].present <=> disk'[p] # None
    <3> SUFFICES ASSUME NEW p \in Path PROVE location'[p].present <=> disk'[p] # None
      OBVIOUS
    <3>1. CASE p \in OnDisk
      <4>1. location'[p] = [file |-> disk[p], present |-> TRUE]
        BY <2>6, <3>1
      <4>2. location'[p].present = TRUE /\ disk'[p] # None
        BY <2>2, <3>1, <4>1 DEF OnDisk
      <4> QED
        BY <4>2
    <3>2. CASE p \notin OnDisk
      <4>1. location'[p].present = FALSE /\ disk'[p] = None
        BY <2>2, <2>7, <3>2 DEF OnDisk
      <4> QED
        BY <4>1
    <3> QED
      BY <3>1, <3>2
  <2> QED
    BY <1>1, <1>2, <1>3, <2>1, <2>2, <2>3, <2>8, <2>9 DEF ScanFollows, Moves
<1> QED
  BY <1>1, <1>2, <1>3, <1>4, OnItsWay DEF MarkMissing, InFlight, InFile, Moves

LEMMA AloneCompletes ==
  ASSUME TypeOK, RunsHold, NEW r \in Runs, r \in alone, AloneInv(r), Complete(r)
  PROVE  AloneInv(r)'
<1>1. run[r] \in Run /\ UNCHANGED <<disk, location, file, derived>>
  BY DEF Complete, TypeOK, catalog
<1>2. Moves(r, [Idle EXCEPT !.scope = run[r].scope])
  BY CompleteEffects
<1>3. run'[r].stage = "idle" /\ run'[r].scope = run[r].scope
  BY <1>2 DEF Moves, Idle
<1>4. \A q \in Runs \ {r} : ~ InFlight(q)'
  BY <1>2 DEF AloneInv, Moves, InFlight
<1>5. ASSUME status'[r] = "completed", run[r].scope = None PROVE Truthful(r)'
  <2>1. ~ run[r].troubled /\ run[r].stage = "complete"
    BY <1>5 DEF Complete, TypeOK
  <2>2. ScanFollows(r) /\ Left(r) = {}
    BY <1>5, <2>1 DEF AloneInv, ScannedAll, ScanFollows, Left, InFile
  <2>4. \A p \in OnDisk : Ingested(p)
    BY <2>2 DEF ScanFollows
  <2>5. \A p \in Path : location[p].present <=> disk[p] # None
    BY <2>1, <2>2 DEF ScanFollows
  <2>6. \A p \in OnDisk : location[p].file = disk[p] /\ Version(disk[p]) \in derived
    <3> SUFFICES ASSUME NEW p \in OnDisk
                 PROVE  location[p].file = disk[p] /\ Version(disk[p]) \in derived
      OBVIOUS
    <3>1. location[p] = [file |-> disk[p], present |-> TRUE] /\ Version(disk[p]) \in derived
      BY <2>4 DEF Ingested
    <3> QED
      BY <3>1
  <2>3. Truthful(r)
    <3> SUFFICES ASSUME NEW p \in Path
                 PROVE  /\ location[p].present <=> disk[p] # None
                        /\ disk[p] # None => /\ location[p].file = disk[p]
                                             /\ Version(disk[p]) \in derived
      BY DEF Truthful
    <3> QED
      BY <2>5, <2>6 DEF OnDisk
  <2> QED
    BY <1>1, <2>3 DEF Truthful, Version
<1> QED
  BY <1>3, <1>4, <1>5 DEF AloneInv, InFlight, InFile, ScannedAll

LEMMA AloneNext ==
  TypeOK /\ RunsHold /\ (\A r \in Runs : AloneInv(r)) /\ [Next]_vars => \A r \in Runs : AloneInv(r)'
<1> SUFFICES ASSUME TypeOK, RunsHold, \A r \in Runs : AloneInv(r), [Next]_vars,
                    NEW a \in Runs
             PROVE  AloneInv(a)'
  OBVIOUS
<1>1. ASSUME NEW r \in Runs, Step(r) \/ Fail(r) \/ Crash(r) PROVE AloneInv(a)'
  <2>1. alone' = alone
    BY <1>1 DEF Step, Scan, Fingerprint, Register, Check, Metadata, Resolve, SaveIdentity,
       Derive, MarkMissing, Complete, Fail, Crash, history
  <2>2. CASE a \notin alone
    BY <2>1, <2>2 DEF AloneInv
  <2>3. CASE a \in alone /\ a = r
    BY <1>1, <2>3, AloneScans, AloneFingerprints, AloneRegisters, AloneChecks, AloneReads,
       AloneResolves, AloneSaves, AloneDerives, AloneFails, AloneMarks, AloneCompletes
    DEF Step
  <2>4. CASE a \in alone /\ a # r
    <3>1. ~ InFlight(r)
      BY <2>4 DEF AloneInv
    <3>2. InFlight(r)
      BY <1>1 DEF Step, Scan, Fingerprint, Register, Check, Metadata, Resolve, SaveIdentity,
         Derive, MarkMissing, Complete, Fail, Crash, InFlight, InFile
    <3> QED
      BY <3>1, <3>2
  <2> QED
    BY <2>2, <2>3, <2>4
<1>2. ASSUME NEW r \in Runs, NEW scope \in Path \cup {None}, Start(r, scope)
      PROVE  AloneInv(a)'
  BY <1>2, AloneStarts
<1>3. ASSUME NEW p \in Path, Change(p) PROVE AloneInv(a)'
  BY <1>3 DEF Change, AloneInv
<1>4. CASE UNCHANGED vars
  BY <1>4 DEF vars, AloneInv, InFlight, AtWork, ScannedAll, ScanFollows, Truthful, Left, At,
     Bytes, Version, Ingested, OnDisk
<1> QED
  BY <1>1, <1>2, <1>3, <1>4 DEF Next

(* CompletedScansAreTruthful: a scan of the project that completed while       *)
(* nothing else moved left the truth in the tables, whatever was in them       *)
(* before.                                                                    *)
THEOREM CompletedScansTellTheTruth == Spec => []CompletedScansAreTruthful
<1> DEFINE Inv == \A r \in Runs : AloneInv(r)
<1>1. Init => Inv
  BY DEF Init, AloneInv
<1>2. TypeOK /\ RunsHold /\ Inv /\ [Next]_vars => Inv'
  BY AloneNext
<1>3. TypeOK /\ Inv => CompletedScansAreTruthful
  BY DEF CompletedScansAreTruthful, AloneInv, Truthful, TypeOK
<1> HIDE DEF Inv
<1> QED
  BY <1>1, <1>2, <1>3, HoldsInit, HoldsNext, PTL DEF Spec

-----------------------------------------------------------------------------
(* Identities.                                                               *)

LEMMA CopiesAlike ==
  /\ \A a, b : Copies(a, b) <=> Copies(b, a)
  /\ \A a, b, c : Copies(a, b) /\ Copies(b, c) => Copies(a, c)
  /\ \A a, b : Copies(a, b) => (Clean(a) <=> Clean(b))
  /\ \A a : Copies(a, a)
  BY DEF Copies, Clean

LEMMA PairsAlike == ASSUME NEW r, NEW q, PairInv(r, q) PROVE PairInv(q, r)
  BY CopiesAlike DEF PairInv

(* Steps of files at whose end, or outside whose stages, a run holds nothing. *)
LEMMA QuietIdentity ==
  ASSUME TypeOK, RunsHold, IdentityInv, UNCHANGED <<paperOf, namesOf, nextId, doubtful>>,
         \A b \in Binary : /\ file'[b].version = file[b].version
                           /\ file'[b].text = file[b].text,
         \A q \in Runs : \/ run'[q] = run[q]
                         \/ run'[q].stage \notin Holding /\ run'[q].read = None
  PROVE  IdentityInv'
<1>1. \A b \in Binary : FileInv(b)'
  BY DEF IdentityInv, FileInv, Resolved, Version, Clean
<1>2. \A i \in Id : PaperInv(i)'
  BY DEF IdentityInv, PaperInv, PaperExists, CleanName, Nameless
<1>3. Resolved' = Resolved /\ \A b \in Resolved : Version(b)' = Version(b)
  BY DEF Resolved, Version
<1>4. ASSUME NEW q \in Runs PROVE HolderInv(q)' /\ PendingInv(q)'
  <2>1. CASE run'[q] = run[q]
    <3>1. run[q].stage \in Holding => Bytes(q) \in Binary
      BY DEF Holding, RunsHold, HeldInv, InFile
    <3> QED
      BY <1>3, <2>1, <3>1 DEF IdentityInv, HolderInv, PendingInv, Holds, Pending, Clean, CleanName,
         Unborne, Bears, PaperExists, Bytes, Holding
  <2>2. CASE run'[q].stage \notin Holding /\ run'[q].read = None
    BY <2>2 DEF HolderInv, PendingInv, Pending, Holding
  <2> QED
    BY <2>1, <2>2
<1>5. ASSUME NEW r \in Runs, NEW q \in Runs PROVE PairInv(r, q)'
  BY DEF IdentityInv, PairInv, Holds, Pending, Holding, Clean, CleanName, Bytes
<1> QED
  BY <1>1, <1>2, <1>4, <1>5 DEF IdentityInv

(* Steps of a run that leave the identities of files and papers alone. *)
LEMMA TablesStay ==
  ASSUME TypeOK, RunsHold, IdentityInv, NEW r \in Runs, NEW e, Moves(r, e),
         UNCHANGED <<paperOf, namesOf>>, nextId' \in Int, nextId <= nextId', doubtful \subseteq doubtful',
         \A b \in Binary :
            /\ file'[b].version = file[b].version
            /\ file'[b].text \in {None, TextOf[b]} \cup doubtful'
            /\ Clean(b)' => file'[b].text \in {file[b].text, TextOf[b]},
         HolderInv(r)', PendingInv(r)', \A q \in Runs \ {r} : PairInv(r, q)'
  PROVE  IdentityInv'
<1>1. Resolved' = Resolved /\ \A b \in Binary : Version(b)' = Version(b)
  BY DEF Resolved, Version
<1>2. \A b : Clean(b)' => Clean(b)
  BY DEF Clean
<1>3. ASSUME NEW b \in Binary PROVE FileInv(b)'
  BY <1>1, <1>2 DEF IdentityInv, FileInv, Resolved
<1>4. ASSUME NEW i \in Id PROVE PaperInv(i)'
  <2>1. nextId \in Int /\ i \in Int
    BY DEF TypeOK, Id
  <2>2. PaperInv(i) /\ PaperExists(i)' = PaperExists(i) /\ Nameless(i)' = Nameless(i)
    BY DEF IdentityInv, PaperExists, Nameless
  <2>3. i >= nextId' => i >= nextId
    BY <2>1
  <2>4. \A n : CleanName(n)' => CleanName(n)
    BY DEF CleanName
  <2> QED
    BY <2>2, <2>3, <2>4 DEF PaperInv
<1>5. ASSUME NEW q \in Runs \ {r} PROVE HolderInv(q)' /\ PendingInv(q)'
  <2>1. HolderInv(q) /\ PendingInv(q) /\ run'[q] = run[q]
    BY DEF IdentityInv, Moves
  <2>2. PendingInv(q)'
    BY <2>1 DEF PendingInv, Pending, PaperExists, CleanName, Unborne, Bears
  <2>3. run[q].stage \in {"save_identity", "derive"} => run[q].version < nextId'
    <3>1. run[q].stage \in {"save_identity", "derive"} => run[q].version \in Int
      BY DEF RunsHold, HeldInv, Id
    <3>2. nextId \in Int
      BY DEF TypeOK
    <3> QED
      BY <2>1, <3>1, <3>2 DEF HolderInv
  <2>4. ASSUME run[q].stage = "save_identity", Clean(Bytes(q))'
        PROVE  file'[Bytes(q)].text = TextOf[Bytes(q)]
    <3>1. Bytes(q) \in Binary /\ Bytes(q)' = Bytes(q)
      BY <2>1, <2>4 DEF RunsHold, HeldInv, InFile, Bytes
    <3>2. file[Bytes(q)].text = TextOf[Bytes(q)]
      BY <1>2, <2>1, <2>4, <3>1 DEF HolderInv, Holding
    <3> QED
      BY <2>4, <3>1, <3>2
  <2>5. Bytes(q)' = Bytes(q) /\ Holds(q)' = Holds(q) /\ Pending(q)' = Pending(q)
    BY <2>1 DEF Bytes, Holds, Pending
  <2>6. HolderInv(q)'
    BY <1>1, <1>2, <2>1, <2>3, <2>4, <2>5 DEF HolderInv, Resolved
  <2> QED
    BY <2>2, <2>6
<1>6. ASSUME NEW q \in Runs \ {r}, NEW s \in Runs \ {r} PROVE PairInv(q, s)'
  <2>1. PairInv(q, s) /\ run'[q] = run[q] /\ run'[s] = run[s]
    BY DEF IdentityInv, Moves
  <2> QED
    BY <2>1 DEF PairInv, Holds, Pending, Clean, CleanName, Bytes
<1>7. \A q \in Runs \ {r} : PairInv(q, r)'
  <2> SUFFICES ASSUME NEW q \in Runs \ {r} PROVE PairInv(q, r)'
    OBVIOUS
  <2> QED
    BY CopiesAlike DEF PairInv, Copies, Clean
<1>8. PairInv(r, r)'
  BY DEF PairInv
<1> QED
  BY <1>3, <1>4, <1>5, <1>6, <1>7, <1>8 DEF IdentityInv

(* A run looks its file up. *)
LEMMA CheckIdentity ==
  ASSUME TypeOK, RunsHold, IdentityInv, NEW r \in Runs, Check(r), ~ Settled(r)
  PROVE  IdentityInv'
<1>0. PICK b, v : b = Bytes(r) /\ v = Version(b)
  OBVIOUS
<1>1. run[r] \in Run /\ HeldInv(r) /\ HolderInv(r) /\ run[r].stage = "check"
  BY DEF TypeOK, RunsHold, IdentityInv, Check
<1>2. b \in Binary /\ run[r].read = None
  BY <1>0, <1>1 DEF HeldInv, InFile, HolderInv
<1>3. Moves(r, Checked(r))
  BY <1>1, CheckEffects
<1>4. /\ run'[r].stage = AfterCheck(r) /\ run'[r].bytes = b /\ run'[r].version = v
      /\ run'[r].read = None
      /\ run'[r].paper = IF v = None THEN None ELSE paperOf[v]
  BY <1>0, <1>1, <1>2, <1>3 DEF Moves, Checked, Run, Bytes
<1>5. \/ AfterCheck(r) = "metadata"
      \/ AfterCheck(r) = "save_identity" /\ v # None
  BY <1>0 DEF AfterCheck
<1>6. UNCHANGED <<file, paperOf, namesOf, nextId, doubtful>>
  BY DEF Check, catalog, history
<1>7. v # None => b \in Resolved /\ v \in Id /\ paperOf[v] # None /\ v < nextId
  <2> SUFFICES ASSUME v # None PROVE b \in Resolved /\ v \in Id /\ paperOf[v] # None /\ v < nextId
    OBVIOUS
  <2>1. b \in Resolved /\ v \in Id
    BY <1>0, <1>2 DEF Resolved, TypeOK, FileRow, Version
  <2>2. paperOf[v] # None
    BY <1>0, <2>1 DEF RunsHold
  <2>3. ~ (v >= nextId)
    BY <2>1, <2>2 DEF IdentityInv, PaperInv
  <2> QED
    BY <2>1, <2>2, <2>3 DEF TypeOK, Id
<1>8. Resolved' = Resolved /\ \A c \in Binary : Version(c)' = Version(c)
  BY <1>6 DEF Resolved, Version
<1>9. Bytes(r)' = b /\ Clean(b)' = Clean(b) /\ ~ Pending(r)'
  BY <1>4, <1>5, <1>6, <1>7 DEF Bytes, Clean, Pending
<1>10. ASSUME Clean(b), v # None
       PROVE  /\ \A c \in Resolved : Copies(c, b) => Version(c) = v
              /\ file[b].text = TextOf[b]
  BY <1>0, <1>2, <1>7, <1>10 DEF IdentityInv, FileInv, Resolved
<1>11. HolderInv(r)'
  <2>1. Holds(r)' => v # None
    BY <1>4 DEF Holds
  <2> QED
    BY <1>4, <1>5, <1>6, <1>7, <1>8, <1>9, <1>10, <2>1, CopiesAlike DEF HolderInv, Holding, Resolved
<1>12. PendingInv(r)'
  BY <1>4, <1>5, <1>6, <1>9 DEF PendingInv
<1>13. ASSUME NEW q \in Runs \ {r} PROVE PairInv(r, q)'
  <2>1. run'[q] = run[q] /\ HolderInv(q)
    BY <1>3 DEF Moves, IdentityInv
  <2>2. ASSUME Holds(r)', Holds(q), Clean(b), Copies(Bytes(q), b) PROVE v = run[q].version
    <3>1. Copies(b, Bytes(q)) /\ Clean(Bytes(q)) /\ b \in Resolved
      BY <1>4, <1>7, <2>2, CopiesAlike DEF Holds
    <3>2. Version(b) = run[q].version
      BY <2>1, <2>2, <3>1 DEF HolderInv, Holds
    <3> QED
      BY <1>0, <3>2
  <2> QED
    BY <1>4, <1>9, <2>1, <2>2 DEF PairInv, Holds, Bytes, Copies
<1>14. ASSUME NEW c \in Binary
       PROVE  file'[c].text \in {None, TextOf[c]} \cup doubtful'
  BY <1>6 DEF IdentityInv, FileInv
<1>15. nextId' \in Int /\ nextId <= nextId'
  BY <1>6 DEF TypeOK
<1> QED
  BY <1>3, <1>6, <1>11, <1>12, <1>13, <1>14, <1>15, TablesStay

(* ... and reads its metadata. *)
LEMMA MetadataIdentity ==
  ASSUME TypeOK, RunsHold, IdentityInv, NEW r \in Runs, Metadata(r)
  PROVE  IdentityInv'
<1>0. PICK b, d : b = Bytes(r) /\ d = disk[At(r)]
  OBVIOUS
<1> DEFINE e == [run[r] EXCEPT !.stage = "resolve", !.read = d]
<1>1. run[r] \in Run /\ HeldInv(r) /\ HolderInv(r) /\ run[r].stage = "metadata"
  BY DEF TypeOK, RunsHold, IdentityInv, Metadata
<1>2. b \in Binary /\ d \in Binary /\ Moves(r, e)
  BY <1>0, <1>1, MetadataEffects DEF HeldInv, InFile
<1>3. doubtful' = IF d = b THEN doubtful
                  ELSE doubtful \cup ({TextOf[d], TextOf[b], b} \ {None})
  BY <1>0 DEF Metadata
<1>4. UNCHANGED <<file, paperOf, namesOf, nextId>>
  BY DEF Metadata, catalog
<1>5. /\ run'[r].stage = "resolve" /\ run'[r].bytes = b /\ run'[r].version = run[r].version
      /\ run'[r].read = d
  BY <1>0, <1>1, <1>2 DEF Moves, Run, Bytes
<1>6. Clean(b)' => Clean(b) /\ d = b
  BY <1>2, <1>3, NoneAssumption DEF Clean
<1>7. TextOf[d] \in {None, TextOf[b]} \cup doubtful' /\ doubtful \subseteq doubtful'
  BY <1>3
<1>8. Resolved' = Resolved /\ \A c \in Binary : Version(c)' = Version(c)
  BY <1>4 DEF Resolved, Version
<1>9. Bytes(r)' = b /\ (Holds(r)' <=> Holds(r)) /\ ~ Pending(r)'
  BY <1>0, <1>1, <1>5 DEF Bytes, Holds, Holding, Pending
<1>10. HolderInv(r)'
  BY <1>0, <1>1, <1>5, <1>6, <1>7, <1>8, <1>9 DEF HolderInv, Holding, Resolved
<1>11. PendingInv(r)'
  BY <1>5, <1>9 DEF PendingInv
<1>12. ASSUME NEW q \in Runs \ {r} PROVE PairInv(r, q)'
  <2>1. run'[q] = run[q] /\ PairInv(r, q)
    BY <1>2 DEF Moves, IdentityInv
  <2> QED
    BY <1>0, <1>5, <1>6, <1>9, <2>1 DEF PairInv, Holds, Bytes, Copies
<1>13. ASSUME NEW c \in Binary
       PROVE  file'[c].text \in {None, TextOf[c]} \cup doubtful'
  BY <1>4, <1>7 DEF IdentityInv, FileInv
<1>14. nextId' \in Int /\ nextId <= nextId'
  BY <1>4 DEF TypeOK
<1> QED
  BY <1>2, <1>4, <1>7, <1>10, <1>11, <1>12, <1>13, <1>14, TablesStay

(* What resolve writes of the text it read. *)
LEMMA TextsResolved ==
  ASSUME TypeOK, RunsHold, IdentityInv, NEW r \in Runs, Resolve(r), doubtful \subseteq doubtful'
  PROVE  /\ Bytes(r) \in Binary /\ run[r].read \in Binary
         /\ Clean(Bytes(r)) => run[r].read = Bytes(r)
         /\ file'[Bytes(r)].text = TextOf[run[r].read]
         /\ \A b \in Binary :
              /\ file'[b].version = file[b].version
              /\ file'[b].text \in {None, TextOf[b]} \cup doubtful'
              /\ (IF TextOf[b] = None THEN b ELSE TextOf[b]) \notin doubtful' =>
                   file'[b].text \in {file[b].text, TextOf[b]}
<1>1. HeldInv(r) /\ HolderInv(r) /\ run[r].stage = "resolve"
  BY DEF RunsHold, IdentityInv, Resolve
<1>2. Bytes(r) \in Binary /\ run[r].read \in Binary /\ run[r].read # None
  BY <1>1, NoneAssumption DEF HeldInv, InFile
<1>3. /\ TextOf[run[r].read] \in {None, TextOf[Bytes(r)]} \cup doubtful
      /\ Clean(Bytes(r)) => run[r].read = Bytes(r)
  BY <1>1, <1>2 DEF HolderInv
<1>4. /\ file'[Bytes(r)].text = TextOf[run[r].read]
      /\ \A b \in Binary : /\ file'[b].version = file[b].version
                           /\ b # Bytes(r) => file'[b].text = file[b].text
  <2>1. file' = [file EXCEPT ![Bytes(r)].text = TextOf[run[r].read]]
    BY DEF Resolve
  <2>2. file \in [Binary -> FileRow]
    BY DEF TypeOK
  <2> QED
    BY <1>2, <2>1, <2>2 DEF FileRow
<1>5. ASSUME NEW b \in Binary
      PROVE  /\ file'[b].text \in {None, TextOf[b]} \cup doubtful'
             /\ (IF TextOf[b] = None THEN b ELSE TextOf[b]) \notin doubtful' =>
                   file'[b].text \in {file[b].text, TextOf[b]}
  <2>1. CASE b = Bytes(r)
    <3>1. (IF TextOf[b] = None THEN b ELSE TextOf[b]) \notin doubtful' => Clean(Bytes(r))
      BY <2>1 DEF Clean
    <3> QED
      BY <1>3, <1>4, <2>1, <3>1
  <2>2. CASE b # Bytes(r)
    BY <1>4, <2>2 DEF IdentityInv, FileInv
  <2> QED
    BY <2>1, <2>2
<1> QED
  BY <1>2, <1>3, <1>4, <1>5

(* A file that has a version keeps it. *)
LEMMA KnownResolves ==
  ASSUME TypeOK, RunsHold, IdentityInv, NEW r \in Runs, Resolve(r), run[r].version # None
  PROVE  IdentityInv'
<1>0. PICK b, v : b = Bytes(r) /\ v = run[r].version
  OBVIOUS
<1> DEFINE e == [run[r] EXCEPT !.stage = "save_identity"]
<1>1. run[r] \in Run /\ HeldInv(r) /\ HolderInv(r) /\ run[r].stage = "resolve"
  BY DEF TypeOK, RunsHold, IdentityInv, Resolve
<1>2. Moves(r, e) /\ UNCHANGED <<nextId, doubtful, paperOf, namesOf>>
  BY ResolveEffects DEF Resolve
<1>3. /\ run'[r].stage = "save_identity" /\ run'[r].bytes = b /\ run'[r].version = v
      /\ run'[r].read = run[r].read /\ run'[r].paper = run[r].paper
  BY <1>0, <1>1, <1>2 DEF Moves, Run, Bytes
<1>4. /\ b \in Binary /\ run[r].read \in Binary
      /\ Clean(b) => run[r].read = b
      /\ file'[b].text = TextOf[run[r].read]
      /\ \A c \in Binary :
           /\ file'[c].version = file[c].version
           /\ file'[c].text \in {None, TextOf[c]} \cup doubtful'
           /\ (IF TextOf[c] = None THEN c ELSE TextOf[c]) \notin doubtful' =>
                file'[c].text \in {file[c].text, TextOf[c]}
  BY <1>0, <1>2, TextsResolved
<1>5. /\ v \in Id /\ paperOf[v] # None /\ run[r].paper = paperOf[v] /\ b \in Resolved
  BY <1>0, <1>1 DEF HeldInv, HolderInv, Run
<1>6. v < nextId
  <2>1. ~ (v >= nextId)
    BY <1>5 DEF IdentityInv, PaperInv
  <2> QED
    BY <1>5, <2>1 DEF TypeOK, Id
<1>7. Resolved' = Resolved /\ \A c \in Binary : Version(c)' = Version(c)
  BY <1>4 DEF Resolved, Version
<1>8. /\ Bytes(r)' = b /\ Holds(r) /\ Holds(r)' /\ ~ Pending(r)'
      /\ \A c : Clean(c)' = Clean(c)
  BY <1>0, <1>1, <1>2, <1>3, <1>5 DEF Bytes, Holds, Holding, Pending, Clean
<1>9. HolderInv(r)'
  <2>1. Clean(b) => \A c \in Resolved : Copies(c, b) => Version(c) = v
    BY <1>0, <1>1, <1>8 DEF HolderInv, Holding
  <2>2. TextOf[run[r].read] \in {None, TextOf[b]} \cup doubtful
    BY <1>0, <1>1, <1>4, NoneAssumption DEF HolderInv
  <2> QED
    BY <1>2, <1>3, <1>4, <1>5, <1>6, <1>7, <1>8, <2>1, <2>2, CopiesAlike DEF HolderInv, Resolved
<1>10. PendingInv(r)'
  BY <1>2, <1>3, <1>5, <1>8 DEF PendingInv
<1>11. ASSUME NEW q \in Runs \ {r} PROVE PairInv(r, q)'
  <2>1. run'[q] = run[q] /\ PairInv(r, q)
    BY <1>2 DEF Moves, IdentityInv
  <2> QED
    BY <1>0, <1>2, <1>3, <1>8, <2>1 DEF PairInv, Holds, Bytes, Copies
<1>12. nextId' \in Int /\ nextId <= nextId' /\ doubtful \subseteq doubtful'
  BY <1>2 DEF TypeOK
<1>13. \A c \in Binary : /\ file'[c].version = file[c].version
                         /\ file'[c].text \in {None, TextOf[c]} \cup doubtful'
                         /\ Clean(c)' => file'[c].text \in {file[c].text, TextOf[c]}
  BY <1>4 DEF Clean
<1> QED
  BY <1>2, <1>9, <1>10, <1>11, <1>12, <1>13, TablesStay

(* The file a look-up by text finds for a clean one is a copy of it. *)
LEMMA CopyTells ==
  ASSUME TypeOK, RunsHold, IdentityInv, NEW r \in Runs, run[r].stage = "resolve",
         Clean(Bytes(r)), NEW c \in SameText(TextOf[run[r].read])
  PROVE  c \in Resolved /\ Copies(c, Bytes(r)) /\ Clean(c) /\ TextOf[c] = TextOf[Bytes(r)]
         /\ TextOf[c] # None
<1>1. HeldInv(r) /\ HolderInv(r)
  BY DEF RunsHold, IdentityInv
<1>2. run[r].read \in Binary /\ run[r].read # None
  BY <1>1, NoneAssumption DEF HeldInv
<1>3. run[r].read = Bytes(r)
  BY <1>1, <1>2 DEF HolderInv
<1>4. /\ c \in Binary /\ file[c].text = TextOf[Bytes(r)] /\ Version(c) # None
      /\ TextOf[Bytes(r)] # None
  BY <1>3 DEF SameText
<1>5. TextOf[c] = TextOf[Bytes(r)]
  BY <1>4 DEF IdentityInv, FileInv, Clean
<1> QED
  BY <1>4, <1>5 DEF Resolved, Copies, Clean

(* One that has none gets that of a copy, or a fresh one. *)
LEMMA UnknownResolves ==
  ASSUME TypeOK, RunsHold, IdentityInv, NEW r \in Runs, Resolve(r), run[r].version = None
  PROVE  IdentityInv'
<1>0. PICK b, d : b = Bytes(r) /\ d = run[r].read
  OBVIOUS
<1>1. run[r] \in Run /\ HeldInv(r) /\ HolderInv(r) /\ run[r].stage = "resolve"
  BY DEF TypeOK, RunsHold, IdentityInv, Resolve
<1>2. PICK identity \in Identities(d) :
        /\ Moves(r, [run[r] EXCEPT !.stage = "save_identity",
                       !.paper = identity[1], !.version = identity[2]])
        /\ nextId' = IF nextId = identity[2] THEN nextId + 1 ELSE nextId
  BY <1>0, ResolveEffects
<1>3. /\ doubtful' = doubtful \cup Contested(r) /\ nextId \in Id
      /\ UNCHANGED <<paperOf, namesOf>>
  BY ResolveEffects DEF Resolve
<1>4. /\ b \in Binary /\ d \in Binary
      /\ Clean(b) => d = b
      /\ file'[b].text = TextOf[d]
      /\ \A c \in Binary :
           /\ file'[c].version = file[c].version
           /\ file'[c].text \in {None, TextOf[c]} \cup doubtful'
           /\ (IF TextOf[c] = None THEN c ELSE TextOf[c]) \notin doubtful' =>
                file'[c].text \in {file[c].text, TextOf[c]}
  BY <1>0, <1>3, TextsResolved
<1>5. PICK p, v : p = identity[1] /\ v = identity[2]
  OBVIOUS
<1> DEFINE e == [run[r] EXCEPT !.stage = "save_identity", !.paper = p, !.version = v]
<1>6. /\ p \in Id /\ v \in Id
      /\ Moves(r, e) /\ nextId' = IF nextId = v THEN nextId + 1 ELSE nextId
  BY <1>2, <1>3, <1>4, <1>5, IdentitiesTyped
<1>7. \/ \E c \in SameText(TextOf[d]) : v = Version(c) /\ p = paperOf[v]
      \/ /\ SameText(TextOf[d]) = {} /\ v = nextId
         /\ p \in Found(NamesOf[d]) \/ (Found(NamesOf[d]) = {} /\ p = nextId)
  <2>1. /\ identity[1] \in Id /\ identity[2] \in Id
        /\ \/ \E c \in SameText(TextOf[d]) :
                identity[2] = Version(c) /\ identity[1] = paperOf[Version(c)]
           \/ /\ SameText(TextOf[d]) = {} /\ identity[2] = nextId
              /\ \/ identity[1] \in Found(NamesOf[d])
                 \/ Found(NamesOf[d]) = {} /\ identity[1] = nextId
    BY <1>2, <1>3, <1>4, IdentitiesTyped
  <2>2. CASE \E c \in SameText(TextOf[d]) :
                identity[2] = Version(c) /\ identity[1] = paperOf[Version(c)]
    <3>1. PICK c \in SameText(TextOf[d]) :
                identity[2] = Version(c) /\ identity[1] = paperOf[Version(c)]
      BY <2>2
    <3>2. v = Version(c) /\ p = paperOf[v]
      BY <1>5, <3>1
    <3> QED
      BY <3>2
  <2>3. CASE /\ SameText(TextOf[d]) = {} /\ identity[2] = nextId
             /\ \/ identity[1] \in Found(NamesOf[d])
                \/ Found(NamesOf[d]) = {} /\ identity[1] = nextId
    <3>1. /\ SameText(TextOf[d]) = {} /\ v = nextId
          /\ p \in Found(NamesOf[d]) \/ (Found(NamesOf[d]) = {} /\ p = nextId)
      BY <1>5, <2>3
    <3> QED
      BY <3>1
  <2> QED
    BY <2>1, <2>2, <2>3
<1>8. /\ run'[r].stage = "save_identity" /\ run'[r].bytes = b /\ run'[r].version = v
      /\ run'[r].read = d /\ run'[r].paper = p
  BY <1>0, <1>1, <1>6 DEF Moves, Run, Bytes
<1>9. Resolved' = Resolved /\ \A c \in Binary : Version(c)' = Version(c)
  BY <1>4 DEF Resolved, Version
<1>10. /\ Bytes(r)' = b /\ Holds(r)' /\ (Pending(r)' <=> paperOf[v] = None)
       /\ \A c : Clean(c)' => Clean(c)
  BY <1>3, <1>6, <1>8, NoneIsNoId DEF Bytes, Holds, Holding, Pending, Clean
<1>11. paperOf[nextId] = None /\ ~ PaperExists(nextId)
  BY <1>3 DEF IdentityInv, PaperInv, TypeOK, Id
<1>12. (\E c \in SameText(TextOf[d]) : v = Version(c)) => paperOf[v] # None
  BY DEF RunsHold, SameText, Resolved
<1>13. nextId \in Int /\ nextId' \in Int /\ nextId <= nextId' /\ v < nextId'
  <2>1. paperOf[v] # None => v < nextId
    BY <1>6 DEF IdentityInv, PaperInv, TypeOK, Id
  <2> QED
    BY <1>6, <1>7, <1>12, <2>1 DEF TypeOK, Id
<1>14. ASSUME NEW c \in SameText(TextOf[d]), Clean(b)'
       PROVE  c \in Resolved /\ Copies(c, b) /\ Clean(c)
  BY <1>0, <1>10, <1>14, CopyTells DEF Resolve
<1>15. ASSUME SameText(TextOf[d]) = {}, Clean(b)', NEW c \in Resolved, Copies(c, b)
       PROVE  FALSE
  <2>1. d = b /\ Clean(c)
    BY <1>4, <1>10, <1>15, CopiesAlike
  <2>2. CASE TextOf[b] # None
    <3>1. file[c].text = TextOf[b] /\ c \in Binary /\ Version(c) # None
      BY <1>15, <2>1, <2>2 DEF IdentityInv, FileInv, Resolved, Copies
    <3> QED
      BY <1>15, <2>1, <2>2, <3>1 DEF SameText
  <2>3. CASE TextOf[b] = None
    <3>1. c = b /\ Version(b) # None
      BY <1>15, <2>3 DEF Copies, Resolved
    <3>2. b \in Contested(r)
      BY <1>0, <1>4, <3>1, NoneAssumption DEF Contested, Names
    <3> QED
      BY <1>3, <1>15, <2>3, <3>2 DEF Clean
  <2> QED
    BY <2>2, <2>3
<1>16. ASSUME Clean(b)', NEW c \in Resolved, Copies(c, b) PROVE Version(c) = v
  <2>1. PICK a \in SameText(TextOf[d]) : v = Version(a)
    BY <1>7, <1>15, <1>16
  <2>2. a \in Resolved /\ Copies(a, b) /\ Clean(a)
    BY <1>14, <1>16, <2>1
  <2>3. Copies(c, a)
    BY <1>16, <2>2, CopiesAlike
  <2> QED
    BY <2>1, <2>2, <2>3 DEF IdentityInv, FileInv, Resolved
<1>17. HolderInv(r)'
  <2>1. TextOf[d] \in {None, TextOf[b]} \cup doubtful'
    BY <1>0, <1>1, <1>3, <1>4, NoneAssumption DEF HolderInv
  <2>2. Clean(b)' => d = b /\ file'[b].text = TextOf[b]
    BY <1>4, <1>10
  <2>3. Clean(b)' => Pending(r)' \/ \E c \in Resolved : Copies(c, b)
    BY <1>7, <1>10, <1>11, <1>14
  <2>4. Clean(Bytes(r))' => Clean(b)'
    BY <1>10 DEF Clean
  <2>5. run'[r].version < nextId'
    BY <1>8, <1>13
  <2>6. Clean(b)' => \A c \in Resolved' : Copies(c, b) => Version(c)' = run'[r].version
    BY <1>8, <1>9, <1>16 DEF Resolved
  <2> QED
    BY <1>8, <1>9, <1>10, <2>1, <2>2, <2>3, <2>4, <2>5, <2>6 DEF HolderInv
<1>18. PendingInv(r)'
  <2>1. CASE paperOf[v] # None
    <3>1. p = paperOf[v]
      BY <1>7, <1>11, <2>1
    <3> QED
      BY <1>3, <1>8, <1>10, <2>1, <3>1 DEF PendingInv
  <2>2. CASE paperOf[v] = None
    <3>1. /\ v = nextId
          /\ p \in Found(NamesOf[d]) \/ (Found(NamesOf[d]) = {} /\ p = nextId)
      BY <1>7, <1>12, <2>2
    <3>2. CASE p \in Found(NamesOf[d])
      <4>1. Bears(p, NamesOf[d]) /\ PaperExists(p)
        <5>1. PICK k \in Kind : NamesOf[d][k] # None /\ namesOf[p][k] = NamesOf[d][k]
          BY <3>2, FoundTells
        <5>2. ~ Nameless(p)
          BY <5>1 DEF Nameless
        <5> QED
          BY <1>6, <5>1, <5>2 DEF Bears, IdentityInv, PaperInv
      <4> QED
        BY <1>3, <1>4, <1>8, <1>10, <2>2, <4>1 DEF PendingInv, PaperExists, Bears
    <3>3. CASE Found(NamesOf[d]) = {} /\ p = nextId
      <4>1. Unborne(NamesOf[d])
        BY <3>3, FoundTells
      <4>2. Unborne(NamesOf[d])'
        BY <1>3, <4>1 DEF Unborne, CleanName
      <4> QED
        BY <1>3, <1>4, <1>8, <1>10, <1>11, <2>2, <3>1, <3>3, <4>2 DEF PendingInv, PaperExists
    <3> QED
      BY <3>1, <3>2, <3>3
  <2> QED
    BY <2>1, <2>2
<1>19. ASSUME NEW q \in Runs \ {r} PROVE PairInv(r, q)'
  <2>1. run'[q] = run[q] /\ HolderInv(q) /\ PendingInv(q) /\ HeldInv(q)
    BY <1>6 DEF Moves, IdentityInv, RunsHold
  <2>2. Pending(q) => q \in Unsaved /\ run[q].read \in Binary
    BY <2>1 DEF Pending, Unsaved, PendingInv
  <2>3. ASSUME Clean(b)', Holds(q), Copies(Bytes(q), b) PROVE v = run[q].version
    <3>1. Clean(Bytes(q)) /\ Copies(b, Bytes(q))
      BY <1>10, <2>3, CopiesAlike
    <3>2. CASE \E c \in Resolved : Copies(c, b)
      <4>1. PICK c \in Resolved : Copies(c, b)
        BY <3>2
      <4>2. Copies(c, Bytes(q))
        BY <3>1, <4>1, CopiesAlike
      <4> QED
        BY <1>16, <2>1, <2>3, <3>1, <4>1, <4>2 DEF HolderInv, Holds
    <3>3. CASE ~ \E c \in Resolved : Copies(c, b)
      <4>1. Bytes(q) \notin Resolved
        BY <2>3, <3>3
      <4>2. run[q].stage = "save_identity"
        BY <2>1, <2>3, <4>1 DEF HolderInv, Holds, Holding
      <4>3. ~ \E c \in Resolved : Copies(c, Bytes(q))
        BY <2>3, <3>3, CopiesAlike
      <4>4. Pending(q)
        BY <2>1, <3>1, <4>2, <4>3 DEF HolderInv, Holding
      <4>5. q \in Unsaved /\ run[q].read = Bytes(q)
        BY <2>1, <2>2, <3>1, <4>2, <4>4, NoneAssumption DEF HolderInv
      <4>6. d = b
        BY <1>4, <1>10, <2>3
      <4>7. CASE TextOf[b] = None
        <5>1. Bytes(q) = b
          BY <2>3, <4>7 DEF Copies
        <5>2. b \in Contested(r)
          BY <1>0, <1>4, <4>5, <5>1, NoneAssumption DEF Contested, Names
        <5> QED
          BY <1>3, <2>3, <4>7, <5>2 DEF Clean
      <4>8. CASE TextOf[b] # None
        <5>1. TextOf[Bytes(q)] = TextOf[b]
          BY <2>3, <4>8 DEF Copies
        <5>2. TextOf[b] \in Contested(r)
          BY <1>0, <4>5, <4>6, <4>8, <5>1 DEF Contested, Names
        <5> QED
          BY <1>3, <2>3, <4>8, <5>2 DEF Clean
      <4> QED
        BY <4>7, <4>8
    <3> QED
      BY <3>2, <3>3
  <2>4. ASSUME paperOf[v] = None, Pending(q) PROVE v # run[q].version
    <3>1. v = nextId
      BY <1>7, <1>12, <2>4
    <3>2. run[q].version < nextId
      BY <2>1, <2>4 DEF HolderInv, Pending
    <3> QED
      BY <1>13, <3>1, <3>2
  <2>5. ASSUME Pending(q), NEW k \in Kind, CleanName(NamesOf[d][k])',
               NamesOf[d][k] = NamesOf[run[q].read][k]
        PROVE  FALSE
    <3>1. NamesOf[d][k] \in Contested(r)
      BY <1>0, <2>2, <2>5 DEF Contested, Names, CleanName
    <3> QED
      BY <1>3, <2>5, <3>1 DEF CleanName
  <2>6. /\ Bytes(q)' = Bytes(q) /\ Holds(q)' = Holds(q) /\ Pending(q)' = Pending(q)
        /\ Clean(Bytes(r))' => Clean(b)'
        /\ run'[r].read = d
    BY <1>3, <1>8, <1>10, <2>1 DEF Bytes, Holds, Pending, Clean, CleanName
  <2>7. Copies(Bytes(q), Bytes(r))' => Copies(Bytes(q), b)
    BY <1>10, <2>6 DEF Copies
  <2> QED
    BY <1>8, <1>10, <2>1, <2>3, <2>4, <2>5, <2>6, <2>7 DEF PairInv
<1>20. \A c \in Binary : /\ file'[c].version = file[c].version
                         /\ file'[c].text \in {None, TextOf[c]} \cup doubtful'
                         /\ Clean(c)' => file'[c].text \in {file[c].text, TextOf[c]}
  BY <1>4 DEF Clean
<1>21. doubtful \subseteq doubtful'
  BY <1>3
<1> HIDE DEF e
<1> QED
  BY <1>3, <1>6, <1>13, <1>17, <1>18, <1>19, <1>20, <1>21, TablesStay

(* What save_identity does to the tables. *)
LEMMA SaveEffects ==
  ASSUME TypeOK, RunsHold, IdentityInv, NEW r \in Runs, SaveIdentity(r)
  PROVE  LET b == Bytes(r)
             v == run[r].version
             p == run[r].paper
         IN /\ b \in Binary /\ v \in Id /\ p \in Id /\ v < nextId /\ p < nextId
            /\ run'[r].stage = "derive" /\ run'[r].bytes = b /\ run'[r].version = v
            /\ \A q \in Runs \ {r} : run'[q] = run[q]
            /\ file'[b].version = v /\ file'[b].text = file[b].text
            /\ \A c \in Binary \ {b} : file'[c] = file[c]
            /\ paperOf'[v] = p
            /\ \A i \in Id \ {v} : paperOf'[i] = paperOf[i]
            /\ \A i \in Id \ {p} : namesOf'[i] = namesOf[i]
            /\ PaperExists(p) => namesOf'[p] = namesOf[p]
            /\ ~ PaperExists(p) => Pending(r) /\ namesOf'[p] = NamesOf[run[r].read]
            /\ ~ Pending(r) => PaperExists(p) /\ paperOf' = paperOf
<1>0. PICK b, v, p : b = Bytes(r) /\ v = run[r].version /\ p = run[r].paper
  OBVIOUS
<1> DEFINE e == [run[r] EXCEPT !.stage = "derive"]
<1>1. run[r] \in Run /\ HeldInv(r) /\ HolderInv(r) /\ PendingInv(r) /\ run[r].stage = "save_identity"
  BY DEF TypeOK, RunsHold, IdentityInv, SaveIdentity
<1>2. b \in Binary /\ v \in Id /\ p \in Id /\ v < nextId
  BY <1>0, <1>1 DEF HeldInv, HolderInv, InFile
<1>3. Moves(r, e)
  BY StageEffects DEF SaveIdentity, Stage
<1>4. /\ run'[r].stage = "derive" /\ run'[r].bytes = b /\ run'[r].version = v
      /\ \A q \in Runs \ {r} : run'[q] = run[q]
  BY <1>0, <1>1, <1>3 DEF Moves, Run, Bytes
<1>5. /\ paperOf' = IF paperOf[v] = None THEN [paperOf EXCEPT ![v] = p] ELSE paperOf
      /\ namesOf' = IF PaperExists(p) THEN namesOf
                   ELSE [namesOf EXCEPT ![p] = NamesOf[run[r].read]]
      /\ file' = [file EXCEPT ![b].version = v]
  BY <1>0 DEF SaveIdentity, FileOf
<1>6. /\ file'[b].version = v /\ file'[b].text = file[b].text
      /\ \A c \in Binary \ {b} : file'[c] = file[c]
  BY <1>2, <1>5 DEF TypeOK, FileRow
<1>7. ~ Pending(r) => paperOf[v] # None /\ p = paperOf[v]
  BY <1>0, <1>1 DEF PendingInv, Pending
<1>8. /\ paperOf'[v] = p
      /\ \A i \in Id \ {v} : paperOf'[i] = paperOf[i]
  BY <1>0, <1>1, <1>2, <1>5, <1>7 DEF TypeOK, Pending
<1>9. ~ Pending(r) => PaperExists(p) /\ paperOf' = paperOf
  BY <1>2, <1>5, <1>7 DEF PaperExists
<1>10. /\ \A i \in Id \ {p} : namesOf'[i] = namesOf[i]
       /\ PaperExists(p) => namesOf'[p] = namesOf[p]
       /\ ~ PaperExists(p) => Pending(r) /\ namesOf'[p] = NamesOf[run[r].read]
  BY <1>2, <1>5, <1>9 DEF TypeOK
<1>11. p < nextId
  <2>1. CASE PaperExists(p)
    BY <1>2, <2>1 DEF IdentityInv, PaperInv, TypeOK, Id
  <2>2. CASE ~ PaperExists(p)
    BY <1>0, <1>1, <1>2, <1>10, <2>2 DEF PendingInv
  <2> QED
    BY <2>1, <2>2
<1> QED
  BY <1>0, <1>2, <1>4, <1>6, <1>8, <1>9, <1>10, <1>11

(* Whoever else is about to save something new still is. *)
LEMMA OthersPend ==
  ASSUME TypeOK, RunsHold, IdentityInv, NEW r \in Runs, SaveIdentity(r), NEW q \in Runs \ {r}
  PROVE  Pending(q)' <=> Pending(q)
<1>0. PICK v, p : v = run[r].version /\ p = run[r].paper
  OBVIOUS
<1>1. /\ v \in Id /\ p \in Id /\ paperOf'[v] = p
      /\ \A i \in Id \ {v} : paperOf'[i] = paperOf[i]
      /\ ~ Pending(r) => paperOf' = paperOf
  BY <1>0, SaveEffects
<1>2. PairInv(r, q) /\ HeldInv(q) /\ run'[q] = run[q]
  BY SaveEffects DEF IdentityInv, RunsHold
<1>3. CASE Pending(q)
  <2>1. run[q].version \in Id
    BY <1>2, <1>3 DEF HeldInv, Pending
  <2>2. CASE Pending(r)
    <3>1. run[q].version # v
      BY <1>0, <1>2, <1>3, <2>2 DEF PairInv
    <3> QED
      BY <1>1, <1>2, <1>3, <2>1, <3>1 DEF Pending
  <2>3. CASE ~ Pending(r)
    BY <1>1, <1>2, <1>3, <2>3 DEF Pending
  <2> QED
    BY <2>2, <2>3
<1>4. CASE ~ Pending(q)
  BY <1>1, <1>2, <1>4, NoneIsNoId DEF Pending, HeldInv
<1> QED
  BY <1>3, <1>4

LEMMA SaveIdentities ==
  ASSUME TypeOK, RunsHold, IdentityInv, NEW r \in Runs, SaveIdentity(r)
  PROVE  IdentityInv'
<1>0. PICK b, v, p : b = Bytes(r) /\ v = run[r].version /\ p = run[r].paper
  OBVIOUS
<1>1. HolderInv(r) /\ PendingInv(r) /\ run[r].stage = "save_identity"
  BY DEF IdentityInv, SaveIdentity
<1>2. /\ b \in Binary /\ v \in Id /\ p \in Id /\ v < nextId /\ p < nextId
      /\ run'[r].stage = "derive" /\ run'[r].bytes = b /\ run'[r].version = v
      /\ \A q \in Runs \ {r} : run'[q] = run[q]
      /\ file'[b].version = v /\ file'[b].text = file[b].text
      /\ \A c \in Binary \ {b} : file'[c] = file[c]
      /\ paperOf'[v] = p
      /\ \A i \in Id \ {v} : paperOf'[i] = paperOf[i]
      /\ \A i \in Id \ {p} : namesOf'[i] = namesOf[i]
      /\ PaperExists(p) => namesOf'[p] = namesOf[p]
      /\ ~ PaperExists(p) => Pending(r) /\ namesOf'[p] = NamesOf[run[r].read]
      /\ ~ Pending(r) => PaperExists(p) /\ paperOf' = paperOf
  BY <1>0, SaveEffects
<1>3. UNCHANGED <<nextId, doubtful>>
  BY DEF SaveIdentity, history
<1>4. None \notin Id /\ v # None /\ nextId \in Int /\ Id \subseteq Int
  BY <1>2, NoneIsNoId DEF TypeOK, Id
<1>5. /\ Resolved' = Resolved \cup {b} /\ Version(b)' = v
      /\ \A c \in Binary \ {b} : Version(c)' = Version(c)
      /\ \A c : Clean(c)' = Clean(c)
  BY <1>2, <1>3, <1>4 DEF Resolved, Version, Clean
<1>6. Clean(b) => /\ \A c \in Resolved : Copies(c, b) => Version(c) = v
                  /\ file[b].text = TextOf[b]
  BY <1>0, <1>1, <1>4 DEF HolderInv, Holding, Holds
<1>7. ASSUME Clean(b), NEW c \in Resolved', Copies(c, b) PROVE Version(c)' = v
  BY <1>5, <1>6, <1>7 DEF Resolved
<1>8. ASSUME NEW x \in Binary PROVE FileInv(x)'
  <2>1. /\ file[x].text \in {None, TextOf[x]} \cup doubtful
        /\ x \in Resolved /\ Clean(x) => file[x].text = TextOf[x]
        /\ \A a \in Resolved : x \in Resolved /\ Clean(x) /\ Copies(a, x) => Version(a) = Version(x)
    BY DEF IdentityInv, FileInv
  <2>2. file'[x].text = file[x].text
    BY <1>2
  <2>3. ASSUME NEW a \in Resolved', x \in Resolved', Clean(x), Copies(a, x)
        PROVE  Version(a)' = Version(x)'
    <3>1. CASE x = b
      BY <1>5, <1>7, <2>3, <3>1
    <3>2. CASE x # b /\ a = b
      BY <1>5, <1>7, <2>3, <3>2, CopiesAlike
    <3>3. CASE x # b /\ a # b
      BY <1>5, <2>1, <2>3, <3>3 DEF Resolved
    <3> QED
      BY <3>1, <3>2, <3>3
  <2>4. x \in Resolved' /\ Clean(x) => file[x].text = TextOf[x]
    BY <1>5, <1>6, <2>1
  <2> QED
    BY <1>3, <1>5, <2>1, <2>2, <2>3, <2>4 DEF FileInv, Resolved
<1>9. ASSUME NEW i \in Id PROVE PaperExists(i)' <=> PaperExists(i) \/ i = p
  <2>1. paperOf[v] # None => paperOf' = paperOf
    BY <1>0, <1>2 DEF Pending
  <2>2. ASSUME NEW u \in Id, paperOf[u] = i PROVE paperOf'[u] = i
    BY <1>2, <1>4, <2>1, <2>2
  <2>3. ASSUME NEW u \in Id, paperOf'[u] = i PROVE paperOf[u] = i \/ i = p
    BY <1>2, <2>3
  <2> QED
    BY <1>2, <2>2, <2>3 DEF PaperExists
<1>10. ~ PaperExists(p) => p = v /\ Unborne(NamesOf[run[r].read])
  BY <1>0, <1>1, <1>2 DEF PendingInv
<1>11. ASSUME NEW i \in Id PROVE PaperInv(i)'
  <2>1. PaperInv(i)
    BY DEF IdentityInv
  <2>2. i >= nextId => paperOf'[i] = None /\ ~ PaperExists(i)'
    BY <1>2, <1>4, <1>9, <2>1 DEF PaperInv
  <2>3. PaperExists(i)' \/ Nameless(i)'
    BY <1>2, <1>9, <2>1 DEF PaperInv, Nameless
  <2>4. ASSUME NEW j \in Id, NEW k \in Kind,
               CleanName(namesOf'[i][k]), namesOf'[i][k] = namesOf'[j][k]
        PROVE  i = j
    <3>1. CASE namesOf'[i] = namesOf[i] /\ namesOf'[j] = namesOf[j]
      BY <2>1, <2>4, <3>1 DEF PaperInv
    <3>2. ASSUME NEW o \in Id, o # p, namesOf'[o][k] = namesOf'[p][k], CleanName(namesOf'[p][k]),
                 namesOf'[p] # namesOf[p]
          PROVE  FALSE
      <4>1. ~ PaperExists(p) /\ namesOf'[p] = NamesOf[run[r].read]
        BY <1>2, <3>2
      <4>2. namesOf[o][k] = NamesOf[run[r].read][k] /\ CleanName(NamesOf[run[r].read][k])
        BY <1>2, <3>2, <4>1
      <4> QED
        BY <1>10, <4>1, <4>2 DEF Unborne
    <3> QED
      BY <1>2, <2>4, <3>1, <3>2
  <2>5. \A n : CleanName(n)' = CleanName(n)
    BY <1>3 DEF CleanName
  <2> QED
    BY <1>3, <2>2, <2>3, <2>4, <2>5 DEF PaperInv
<1>12. Bytes(r)' = b /\ Holds(r)' /\ Holds(r) /\ ~ Pending(r)'
  BY <1>0, <1>1, <1>2, <1>4 DEF Bytes, Holds, Holding, Pending
<1>13. HolderInv(r)' /\ PendingInv(r)'
  <2>1. PendingInv(r)'
    BY <1>2, <1>12 DEF PendingInv
  <2>2. Clean(b) => \A c \in Resolved' : Copies(c, b) => Version(c)' = run'[r].version
    BY <1>2, <1>7
  <2>3. Clean(Bytes(r))' => Clean(b)
    BY <1>3, <1>12 DEF Clean
  <2>4. b \in Resolved'
    BY <1>5
  <2> QED
    BY <1>2, <1>3, <1>12, <2>1, <2>2, <2>3, <2>4 DEF HolderInv
<1>14. ASSUME NEW q \in Runs \ {r} PROVE Pending(q)' <=> Pending(q)
  BY <1>14, OthersPend
<1>15. ASSUME NEW q \in Runs \ {r} PROVE HolderInv(q)'
  <2>1. /\ PairInv(r, q) /\ HeldInv(q) /\ HolderInv(q) /\ run'[q] = run[q]
        /\ Bytes(q)' = Bytes(q) /\ Holds(q)' = Holds(q)
    BY <1>2 DEF IdentityInv, RunsHold, Bytes, Holds
  <2>2. ASSUME Holds(q), Clean(Bytes(q)), NEW c \in Resolved', Copies(c, Bytes(q))
        PROVE  Version(c)' = run[q].version
    <3>1. CASE c = b
      <4>1. Clean(b) /\ Copies(Bytes(q), b)
        BY <2>2, <3>1, CopiesAlike
      <4> QED
        BY <1>0, <1>5, <1>12, <2>1, <2>2, <3>1, <4>1 DEF PairInv
    <3>2. CASE c # b
      <4>1. c \in Resolved /\ Version(c)' = Version(c)
        BY <1>5, <2>2, <3>2 DEF Resolved
      <4> QED
        BY <2>1, <2>2, <4>1 DEF HolderInv, Holds
    <3> QED
      BY <3>1, <3>2
  <2>3. run[q].stage = "save_identity" => file'[Bytes(q)].text = file[Bytes(q)].text
    BY <1>2, <2>1 DEF HeldInv, InFile
  <2>4. Clean(Bytes(q))' = Clean(Bytes(q))
    BY <1>3, <2>1 DEF Clean
  <2> QED
    BY <1>3, <1>5, <1>14, <2>1, <2>2, <2>3, <2>4 DEF HolderInv, Resolved
<1>16. ASSUME NEW q \in Runs \ {r} PROVE PendingInv(q)'
  <2>1. /\ PairInv(r, q) /\ HeldInv(q) /\ PendingInv(q) /\ run'[q] = run[q]
    BY <1>2 DEF IdentityInv, RunsHold
  <2>2. CASE run[q].stage = "save_identity" /\ ~ Pending(q)
    <3>1. run[q].version \in Id /\ paperOf[run[q].version] # None /\ run[q].paper = paperOf[run[q].version]
      BY <2>1, <2>2 DEF HeldInv, PendingInv, Pending
    <3>2. paperOf'[run[q].version] = paperOf[run[q].version]
      <4>1. CASE Pending(r)
        BY <1>0, <1>2, <3>1, <4>1 DEF Pending
      <4>2. CASE ~ Pending(r)
        BY <1>2, <4>2
      <4> QED
        BY <4>1, <4>2
    <3> QED
      BY <1>14, <2>1, <2>2, <3>1, <3>2 DEF PendingInv
  <2>3. CASE Pending(q)
    <3> DEFINE w == NamesOf[run[q].read]
               k == run[q].paper
    <3>1. k \in Id /\ run[q].version \in Id /\ run[q].read \in Binary
      BY <2>1, <2>3 DEF HeldInv, Pending, PendingInv
    <3>2. CASE PaperExists(k) /\ Bears(k, w)
      <4>1. PaperExists(k)' /\ namesOf'[k] = namesOf[k]
        BY <1>2, <1>9, <3>1, <3>2
      <4>2. Bears(k, w)'
        BY <2>1, <3>2, <4>1 DEF Bears
      <4> QED
        BY <1>14, <2>1, <2>3, <3>1, <4>1, <4>2 DEF PendingInv, PaperExists, Pending, Bears
    <3>3. CASE k = run[q].version /\ ~ PaperExists(k) /\ Unborne(w)
      <4>1. k # p
        <5>1. CASE PaperExists(p)
          BY <3>3, <5>1
        <5>2. CASE ~ PaperExists(p)
          BY <1>0, <1>2, <1>10, <2>1, <2>3, <3>3, <5>2 DEF PairInv
        <5> QED
          BY <5>1, <5>2
      <4>2. ~ PaperExists(k)'
        BY <1>2, <1>9, <3>1, <3>3, <4>1
      <4>3. ASSUME NEW n \in Kind, NEW i \in Id, CleanName(w[n]), namesOf'[i][n] = w[n]
            PROVE  FALSE
        <5>1. namesOf[i][n] # w[n]
          BY <3>3, <4>3 DEF Unborne
        <5>2. i = p /\ ~ PaperExists(p) /\ NamesOf[run[r].read][n] = w[n] /\ Pending(r)
          BY <1>2, <4>3, <5>1
        <5> QED
          BY <2>1, <2>3, <4>3, <5>2 DEF PairInv
      <4>4. Unborne(w)'
        BY <1>3, <2>1, <4>3 DEF Unborne, CleanName
      <4>5. PaperExists(run[q].paper)' <=> PaperExists(k)'
        BY <2>1
      <4> QED
        BY <1>14, <2>1, <2>3, <3>1, <3>3, <4>2, <4>4 DEF PendingInv, PaperExists, Pending
    <3> QED
      BY <2>1, <2>3, <3>2, <3>3 DEF PendingInv
  <2>4. CASE run[q].stage # "save_identity"
    BY <2>1, <2>4 DEF PendingInv, Pending
  <2> QED
    BY <2>2, <2>3, <2>4 DEF Pending
<1>17. ASSUME NEW q \in Runs, NEW s \in Runs PROVE PairInv(q, s)'
  <2>1. /\ PairInv(q, s)
        /\ Bytes(q)' = Bytes(q) /\ (Holds(q)' <=> Holds(q)) /\ (Pending(q)' => Pending(q))
        /\ Bytes(s)' = Bytes(s) /\ (Holds(s)' <=> Holds(s)) /\ (Pending(s)' => Pending(s))
        /\ run'[q].version = run[q].version /\ run'[s].version = run[s].version
        /\ Pending(q)' => run'[q] = run[q]
        /\ Pending(s)' => run'[s] = run[s]
    BY <1>0, <1>2, <1>12, <1>14 DEF IdentityInv, Bytes, Holds
  <2> QED
    BY <1>3, <2>1 DEF PairInv, Clean, CleanName, Copies
<1> QED
  BY <1>8, <1>11, <1>13, <1>15, <1>16, <1>17 DEF IdentityInv

LEMMA IdentityNext == TypeOK /\ RunsHold /\ IdentityInv /\ [Next]_vars => IdentityInv'
<1> SUFFICES ASSUME TypeOK, RunsHold, IdentityInv, [Next]_vars PROVE IdentityInv'
  OBVIOUS
<1>1. ASSUME NEW r \in Runs, NEW e, Moves(r, e), e.stage \notin Holding, e.read = None,
             UNCHANGED <<file, paperOf, namesOf, nextId, doubtful>>
      PROVE  IdentityInv'
  BY <1>1, QuietIdentity DEF Moves
<1>2. ASSUME NEW r \in Runs, NEW scope \in Path \cup {None}, Start(r, scope)
      PROVE  IdentityInv'
  <2>1. Moves(r, [Idle EXCEPT !.stage = "scan", !.scope = scope])
    BY <1>2, StartEffects
  <2>2. run'[r].stage = "scan" /\ run'[r].read = None
    BY <2>1 DEF Moves, Idle
  <2> QED
    BY <1>1, <1>2, <2>1, <2>2 DEF Start, catalog, Moves, Holding
<1>3. ASSUME NEW r \in Runs, Complete(r) \/ Crash(r) PROVE IdentityInv'
  <2>1. \E e : Moves(r, e) /\ e.stage = "idle" /\ e.read = None
    <3>1. CASE Complete(r)
      <4>1. Moves(r, [Idle EXCEPT !.scope = run[r].scope])
        BY <3>1, CompleteEffects
      <4>2. /\ [Idle EXCEPT !.scope = run[r].scope].stage = "idle"
            /\ [Idle EXCEPT !.scope = run[r].scope].read = None
        BY DEF Idle
      <4> QED
        BY <4>1, <4>2
    <3>2. CASE Crash(r)
      <4>1. Moves(r, Idle)
        BY <3>2, IdleIsRun, RunUpdate DEF Crash
      <4> QED
        BY <4>1 DEF Idle
    <3> QED
      BY <1>3, <3>1, <3>2
  <2> QED
    BY <1>1, <1>3, <2>1 DEF Complete, Crash, catalog, history, Holding
<1>4. ASSUME NEW r \in Runs, NEW failed \in BOOLEAN, Finish(r, failed),
             UNCHANGED <<file, paperOf, namesOf, nextId, doubtful>>
      PROVE  IdentityInv'
  <2>1. Moves(r, Finished(run[r], failed)) /\ run[r] \in Run
    BY <1>4, FinishEffects DEF TypeOK
  <2>2. Finished(run[r], failed).stage = "next" /\ Finished(run[r], failed).read = None
    BY <2>1 DEF Finished, Run
  <2> QED
    BY <1>1, <1>4, <2>1, <2>2 DEF Holding
<1>5. ASSUME NEW r \in Runs, Scan(r) \/ MarkMissing(r) \/ Fingerprint(r) PROVE IdentityInv'
  <2>1. run[r] \in Run /\ run[r].read = None
    BY <1>5 DEF TypeOK, IdentityInv, HolderInv, Scan, MarkMissing, Fingerprint
  <2>2. UNCHANGED <<file, paperOf, namesOf, nextId, doubtful>>
    BY <1>5 DEF Scan, MarkMissing, Fingerprint, catalog, history
  <2>3. CASE Scan(r)
    <3>1. ASSUME NEW found, NEW trouble,
                 Moves(r, [run[r] EXCEPT !.stage = "next", !.listed = found, !.todo = found,
                                         !.troubled = trouble])
          PROVE  IdentityInv'
      <4>1. run'[r].stage = "next" /\ run'[r].read = None
        BY <2>1, <3>1 DEF Moves, Run
      <4> QED
        BY <1>1, <2>2, <3>1, <4>1 DEF Moves, Holding
    <3> QED
      BY <2>3, <3>1, ScanEffects
  <2>4. CASE MarkMissing(r)
    <3>1. Moves(r, [run[r] EXCEPT !.stage = "complete"])
      BY <2>4, StageEffects DEF MarkMissing, Stage
    <3>2. run'[r].stage = "complete" /\ run'[r].read = None
      BY <2>1, <3>1 DEF Moves, Run
    <3> QED
      BY <1>1, <2>2, <3>1, <3>2 DEF Moves, Holding
  <2>5. CASE Fingerprint(r)
    <3>1. PICK p \in run[r].todo :
           \/ Moves(r, [run[r] EXCEPT !.todo = @ \ {p}, !.troubled = TRUE])
           \/ /\ disk[p] # None
              /\ Moves(r, [run[r] EXCEPT !.stage = "register", !.todo = @ \ {p},
                                         !.at = p, !.bytes = disk[p]])
      BY <2>5, FingerprintEffects
    <3>2. run'[r].stage \in {"next", "register"} /\ run'[r].read = None
      BY <2>1, <2>5, <3>1 DEF Moves, Run, Fingerprint
    <3>3. PICK e : Moves(r, e) /\ e = run'[r]
      BY <3>1 DEF Moves
    <3> QED
      BY <1>1, <2>2, <3>2, <3>3 DEF Holding
  <2> QED
    BY <1>5, <2>3, <2>4, <2>5
<1>6. ASSUME NEW r \in Runs, Register(r) PROVE IdentityInv'
  <2>1. run[r] \in Run /\ HeldInv(r) /\ HolderInv(r) /\ run[r].stage = "register"
    BY <1>6 DEF TypeOK, RunsHold, IdentityInv, Register
  <2>2. Moves(r, [run[r] EXCEPT !.stage = "check", !.novel = ~ file[Bytes(r)].known])
    BY <1>6, <2>1, RegisterEffects
  <2>3. run'[r].stage = "check" /\ run'[r].read = None
    BY <2>1, <2>2 DEF Moves, Run, HolderInv
  <2>4. Bytes(r) \in Binary
    BY <2>1 DEF HeldInv, InFile
  <2>5. \A b \in Binary : /\ file'[b].version = file[b].version
                          /\ file'[b].text = file[b].text
    BY <1>6, <2>4 DEF Register, TypeOK, FileRow
  <2> QED
    BY <1>6, <2>2, <2>3, <2>5, QuietIdentity DEF Register, history, Moves, Holding
<1>7. ASSUME NEW r \in Runs, Check(r) PROVE IdentityInv'
  <2>1. CASE Settled(r)
    BY <1>4, <1>7, <2>1 DEF Check, catalog, history
  <2> QED
    BY <1>7, <2>1, CheckIdentity
<1>8. ASSUME NEW r \in Runs, Derive(r) \/ Fail(r) PROVE IdentityInv'
  BY <1>4, <1>8 DEF Derive, Fail, history
<1>9. ASSUME NEW r \in Runs, Resolve(r) PROVE IdentityInv'
  BY <1>9, KnownResolves, UnknownResolves
<1>10. ASSUME NEW p \in Path, Change(p) PROVE IdentityInv'
  BY <1>10, QuietIdentity DEF Change, catalog
<1>11. CASE UNCHANGED vars
  BY <1>11, QuietIdentity DEF vars
<1> QED
  BY <1>2, <1>3, <1>5, <1>6, <1>7, <1>8, <1>9, <1>10, <1>11, MetadataIdentity, SaveIdentities
  DEF Next, Step

LEMMA IdentityInit == Init => IdentityInv
<1> SUFFICES ASSUME Init PROVE IdentityInv
  OBVIOUS
<1>1. Resolved = {} /\ \A b \in Binary : FileInv(b)
  BY DEF Init, FileInv, Resolved, Version
<1>2. \A i \in Id : PaperInv(i)
  BY NoneIsNoId DEF Init, PaperInv, PaperExists, CleanName, Nameless, Kind
<1>3. ASSUME NEW r \in Runs PROVE run[r].stage = "idle" /\ run[r].read = None
  BY DEF Init, Idle
<1>4. \A r \in Runs : HolderInv(r) /\ PendingInv(r)
  BY <1>3 DEF HolderInv, PendingInv, Pending, Holding
<1>5. \A r, q \in Runs : PairInv(r, q)
  BY <1>3 DEF PairInv, Holds, Holding, Pending
<1> QED
  BY <1>1, <1>2, <1>4, <1>5 DEF IdentityInv

LEMMA Identified == Spec => [](TypeOK /\ RunsHold /\ IdentityInv)
<1>1. Spec => [](TypeOK /\ RunsHold)
  BY HoldsInit, HoldsNext, PTL DEF Spec
<1>2. Spec => []IdentityInv
  BY <1>1, IdentityInit, IdentityNext, PTL DEF Spec
<1> QED
  BY <1>1, <1>2, PTL

(* CopiesShareAVersion, for every library: files of one text that no two runs  *)
(* resolved at once, and for none of which another file was read, have one    *)
(* version if they have any (find_by_content_hash goes before the look-ups by *)
(* name).                                                                     *)
THEOREM CopiesGetOneVersion == Spec => []CopiesShareAVersion
<1>1. IdentityInv => CopiesShareAVersion
  BY DEF IdentityInv, FileInv, CopiesShareAVersion, Resolved, Copies, Clean
<1> QED
  BY <1>1, Identified, PTL

(* FilesKeepTheirVersion: no scan, copy, crash or failure, and no order of     *)
(* several runs, gives a file another version than the one it got.            *)
THEOREM VersionsStay == Spec => FilesKeepTheirVersion
<1> DEFINE Kept == \A b \in Binary :
             Version(b) # None /\ {b, TextOf[b]} \cap doubtful = {} => Version(b)' = Version(b)
<1>1. ASSUME TypeOK, RunsHold, IdentityInv, [Next]_vars PROVE Kept
  <2> SUFFICES ASSUME NEW b \in Binary, Version(b) # None, {b, TextOf[b]} \cap doubtful = {}
               PROVE  Version(b)' = Version(b)
    OBVIOUS
  <2>1. ASSUME NEW r \in Runs, SaveIdentity(r) PROVE Version(b)' = Version(b)
    <3>1. CASE b = Bytes(r)
      <4>1. HolderInv(r) /\ HeldInv(r) /\ run[r].stage = "save_identity"
        BY <1>1, <2>1 DEF IdentityInv, RunsHold, SaveIdentity
      <4>2. Clean(b) /\ b \in Resolved /\ Copies(b, b) /\ run[r].version # None
        BY <4>1, NoneIsNoId DEF Clean, Resolved, Copies, HeldInv
      <4>3. Version(b) = run[r].version
        BY <3>1, <4>1, <4>2 DEF HolderInv, Holds, Holding
      <4>4. file'[b].version = run[r].version
        BY <2>1, <3>1, SaveEffects, <1>1
      <4> QED
        BY <4>3, <4>4 DEF Version
    <3>2. CASE b # Bytes(r)
      <4>1. file'[b] = file[b]
        BY <1>1, <2>1, <3>2, SaveEffects
      <4> QED
        BY <4>1 DEF Version
    <3> QED
      BY <3>1, <3>2
  <2>2. ASSUME NEW r \in Runs, Register(r) \/ Resolve(r) PROVE Version(b)' = Version(b)
    <3>1. Bytes(r) \in Binary
      BY <1>1, <2>2 DEF RunsHold, HeldInv, InFile, Register, Resolve
    <3>2. file \in [Binary -> FileRow]
      BY <1>1 DEF TypeOK
    <3>3. \/ file' = [file EXCEPT ![Bytes(r)].known = TRUE]
          \/ file' = [file EXCEPT ![Bytes(r)].text = TextOf[run[r].read]]
      BY <2>2 DEF Register, Resolve
    <3> QED
      BY <3>1, <3>2, <3>3 DEF FileRow, Version
  <2>3. CASE file' = file
    BY <2>3 DEF Version
  <2> QED
    BY <1>1, <2>1, <2>2, <2>3 DEF Next, Step, Start, Scan, MarkMissing, Complete, Fingerprint,
       Check, Metadata, Derive, Fail, Crash, Change, catalog, vars
<1>2. Spec => [](TypeOK /\ RunsHold /\ IdentityInv) /\ [][Next]_vars
  BY Identified, PTL DEF Spec
<1>3. TypeOK /\ RunsHold /\ IdentityInv /\ [Next]_vars => [Kept]_vars
  BY <1>1
<1> HIDE DEF Kept
<1>4. Spec => [][Kept]_vars
  BY <1>2, <1>3, PTL
<1> QED
  BY <1>4 DEF Kept, FilesKeepTheirVersion

-----------------------------------------------------------------------------
(* The papers of the versions.                                               *)

LEMMA OwnersInit == Init => OwnerInv
  BY DEF Init, OwnerInv, Resolved, Version, Holds, Holding, Idle

(* Steps that write neither papers nor versions of files. *)
LEMMA OwnersStay ==
  ASSUME TypeOK, RunsHold, IdentityInv, OwnerInv, UNCHANGED <<paperOf, namesOf>>,
         doubtful \subseteq doubtful', \A b \in Binary : file'[b].version = file[b].version,
         NEW r \in Runs, \A q \in Runs \ {r} : run'[q] = run[q],
         (Holds(r) /\ ~ Pending(r) /\ Clean(Bytes(r)) => OfItsPaper(run[r].version, Bytes(r)))'
  PROVE  OwnerInv'
<1>1. Resolved' = Resolved /\ \A b \in Binary : Version(b)' = Version(b)
  BY DEF Resolved, Version
<1>2. \A b : Clean(b)' => Clean(b)
  BY DEF Clean
<1>3. \A b \in Resolved : Clean(b)' => OfItsPaper(Version(b), b)'
  BY <1>1, <1>2 DEF OwnerInv, OfItsPaper, Resolved
<1>4. ASSUME NEW q \in Runs \ {r}
      PROVE  (Holds(q) /\ ~ Pending(q) /\ Clean(Bytes(q)) => OfItsPaper(run[q].version, Bytes(q)))'
  BY <1>1 DEF OwnerInv, OfItsPaper, Holds, Pending, Clean, Bytes
<1> QED
  BY <1>1, <1>3, <1>4 DEF OwnerInv

LEMMA OwnersChecked ==
  ASSUME TypeOK, RunsHold, IdentityInv, OwnerInv, NEW r \in Runs, Check(r), ~ Settled(r)
  PROVE  OwnerInv'
<1>0. PICK b, v : b = Bytes(r) /\ v = Version(b)
  OBVIOUS
<1>1. run[r] \in Run /\ HeldInv(r) /\ run[r].stage = "check" /\ Moves(r, Checked(r))
  BY CheckEffects DEF TypeOK, RunsHold, Check
<1>2. /\ run'[r].bytes = b /\ run'[r].version = v /\ b \in Binary
  BY <1>0, <1>1 DEF Moves, Checked, Run, Bytes, HeldInv, InFile
<1>3. UNCHANGED <<file, paperOf, namesOf, nextId, doubtful>>
  BY DEF Check, catalog, history
<1>4. (Holds(r) /\ ~ Pending(r) /\ Clean(Bytes(r)) => OfItsPaper(run[r].version, Bytes(r)))'
  <2>1. v # None /\ Clean(b) => OfItsPaper(v, b)
    BY <1>0, <1>2 DEF OwnerInv, Resolved
  <2> QED
    BY <1>2, <1>3, <2>1 DEF OfItsPaper, Holds, Clean, Bytes, Resolved, Version
<1> QED
  BY <1>1, <1>3, <1>4, OwnersStay DEF Moves

LEMMA OwnersRead ==
  ASSUME TypeOK, RunsHold, IdentityInv, OwnerInv, NEW r \in Runs, Metadata(r)
  PROVE  OwnerInv'
<1>0. PICK b, v : b = Bytes(r) /\ v = run[r].version
  OBVIOUS
<1>1. run[r] \in Run /\ HeldInv(r) /\ run[r].stage = "metadata"
  BY DEF TypeOK, RunsHold, Metadata
<1>2. Moves(r, [run[r] EXCEPT !.stage = "resolve", !.read = disk[At(r)]])
  BY <1>1, MetadataEffects
<1>3. run'[r].bytes = b /\ run'[r].version = v
  BY <1>0, <1>1, <1>2 DEF Moves, Run, Bytes
<1>4. UNCHANGED <<file, paperOf, namesOf>> /\ doubtful \subseteq doubtful'
  BY DEF Metadata, catalog
<1>5. (Holds(r) /\ ~ Pending(r) /\ Clean(Bytes(r)) => OfItsPaper(run[r].version, Bytes(r)))'
  <2>1. v # None /\ Clean(b) => OfItsPaper(v, b)
    BY <1>0, <1>1 DEF OwnerInv, Holds, Holding, Pending
  <2> QED
    BY <1>3, <1>4, <2>1 DEF OfItsPaper, Holds, Clean, Bytes, Resolved, Version
<1> QED
  BY <1>2, <1>4, <1>5, OwnersStay DEF Moves

LEMMA OwnersResolved ==
  ASSUME TypeOK, RunsHold, IdentityInv, OwnerInv, NEW r \in Runs, Resolve(r)
  PROVE  OwnerInv'
<1>0. PICK b, d : b = Bytes(r) /\ d = run[r].read
  OBVIOUS
<1>1. run[r] \in Run /\ HeldInv(r) /\ run[r].stage = "resolve"
  BY DEF TypeOK, RunsHold, Resolve
<1>2. UNCHANGED <<paperOf, namesOf>> /\ doubtful \subseteq doubtful'
  BY ResolveEffects DEF Resolve
<1>3. /\ b \in Binary /\ d \in Binary
      /\ \A c \in Binary : file'[c].version = file[c].version
      /\ Resolved' = Resolved
  <2>1. /\ b \in Binary /\ d \in Binary
        /\ \A c \in Binary : file'[c].version = file[c].version
    BY <1>0, <1>2, TextsResolved
  <2> QED
    BY <2>1 DEF Resolved, Version
<1>4. CASE run[r].version # None
  <2>1. PICK v : v = run[r].version
    OBVIOUS
  <2>2. Moves(r, [run[r] EXCEPT !.stage = "save_identity"])
    BY <1>4, ResolveEffects
  <2>3. run'[r].bytes = b /\ run'[r].version = v
    BY <1>0, <1>1, <2>1, <2>2 DEF Moves, Run, Bytes
  <2>4. (Holds(r) /\ ~ Pending(r) /\ Clean(Bytes(r)) => OfItsPaper(run[r].version, Bytes(r)))'
    <3>1. v # None /\ Clean(b) => OfItsPaper(v, b)
      BY <1>0, <1>1, <2>1 DEF OwnerInv, Holds, Holding, Pending
    <3> QED
      BY <1>2, <1>3, <2>3, <3>1 DEF OfItsPaper, Holds, Clean, Bytes
  <2> QED
    BY <1>2, <1>3, <2>2, <2>4, OwnersStay DEF Moves
<1>5. CASE run[r].version = None
  <2>1. PICK identity \in Identities(d) :
          Moves(r, [run[r] EXCEPT !.stage = "save_identity",
                      !.paper = identity[1], !.version = identity[2]])
    BY <1>0, <1>5, ResolveEffects
  <2>2. PICK p, v : p = identity[1] /\ v = identity[2]
    OBVIOUS
  <2>3. Moves(r, [run[r] EXCEPT !.stage = "save_identity", !.paper = p, !.version = v])
    BY <2>1, <2>2
  <2>4. run'[r].bytes = b /\ run'[r].version = v /\ run'[r].stage = "save_identity"
    BY <1>0, <1>1, <2>3 DEF Moves, Run, Bytes
  <2>5. nextId \in Id
    BY <1>5, ResolveEffects
  <2>6. ASSUME paperOf[v] # None, Clean(b) PROVE OfItsPaper(v, b)
    <3>1. v # nextId
      BY <2>5, <2>6 DEF IdentityInv, PaperInv, TypeOK, Id
    <3>2. PICK c \in SameText(TextOf[d]) : v = Version(c)
      BY <1>3, <2>1, <2>2, <2>5, <3>1, IdentitiesTyped
    <3>3. c \in Resolved /\ Clean(c) /\ TextOf[c] = TextOf[b] /\ TextOf[c] # None
      BY <1>0, <1>1, <2>6, CopyTells
    <3>4. PICK a \in Resolved : Copies(a, c) /\ Bears(paperOf[v], NamesOf[a])
      BY <3>2, <3>3 DEF OwnerInv, OfItsPaper, Owns, Bears
    <3>5. Copies(a, b)
      BY <3>3, <3>4 DEF Copies
    <3> QED
      BY <3>4, <3>5 DEF OfItsPaper, Owns, Bears
  <2>7. (Holds(r) /\ ~ Pending(r) /\ Clean(Bytes(r)) => OfItsPaper(run[r].version, Bytes(r)))'
    BY <1>2, <1>3, <2>4, <2>6 DEF OfItsPaper, Pending, Clean, Bytes
  <2> QED
    BY <1>2, <1>3, <2>3, <2>7, OwnersStay DEF Moves
<1> QED
  BY <1>4, <1>5

LEMMA OwnersSaved ==
  ASSUME TypeOK, RunsHold, IdentityInv, OwnerInv, NEW r \in Runs, SaveIdentity(r)
  PROVE  OwnerInv'
<1>0. PICK b, v, p : b = Bytes(r) /\ v = run[r].version /\ p = run[r].paper
  OBVIOUS
<1>1. /\ b \in Binary /\ v \in Id /\ p \in Id
      /\ run'[r].stage = "derive" /\ run'[r].bytes = b /\ run'[r].version = v
      /\ \A q \in Runs \ {r} : run'[q] = run[q]
      /\ file'[b].version = v
      /\ \A c \in Binary \ {b} : file'[c] = file[c]
      /\ paperOf'[v] = p
      /\ \A i \in Id \ {v} : paperOf'[i] = paperOf[i]
      /\ \A i \in Id \ {p} : namesOf'[i] = namesOf[i]
      /\ PaperExists(p) => namesOf'[p] = namesOf[p]
      /\ ~ PaperExists(p) => Pending(r) /\ namesOf'[p] = NamesOf[run[r].read]
      /\ ~ Pending(r) => PaperExists(p) /\ paperOf' = paperOf
  BY <1>0, SaveEffects
<1>2. HolderInv(r) /\ PendingInv(r) /\ HeldInv(r) /\ run[r].stage = "save_identity"
  BY DEF IdentityInv, RunsHold, SaveIdentity
<1>3. doubtful' = doubtful
  BY DEF SaveIdentity, history
<1>4. \A c : Clean(c)' <=> Clean(c)
  BY <1>3 DEF Clean
<1>5. Resolved \subseteq Resolved' /\ b \in Resolved' /\ Copies(b, b)
  BY <1>1, NoneIsNoId DEF Resolved, Version, Copies
<1>6. ASSUME NEW u \in Id, paperOf[u] # None
      PROVE  paperOf'[u] = paperOf[u] /\ namesOf'[paperOf[u]] = namesOf[paperOf[u]]
  <2>1. paperOf'[u] = paperOf[u]
    BY <1>0, <1>1, <1>6 DEF Pending
  <2>2. PaperExists(paperOf[u]) /\ paperOf[u] \in Id
    BY <1>6 DEF PaperExists, TypeOK
  <2> QED
    BY <1>1, <2>1, <2>2
<1>7. ASSUME NEW u \in Id, paperOf[u] # None, NEW x, OfItsPaper(u, x)
      PROVE  Owns(paperOf'[u], namesOf', Resolved', x)
  BY <1>5, <1>6, <1>7 DEF OfItsPaper, Owns
<1>8. ASSUME Clean(b) PROVE Owns(p, namesOf', Resolved', b)
  <2>1. CASE ~ Pending(r)
    <3>1. OfItsPaper(v, b) /\ paperOf[v] # None /\ paperOf'[v] = paperOf[v]
      BY <1>0, <1>1, <1>2, <1>8, <2>1, NoneIsNoId DEF OwnerInv, Holds, Holding, Pending
    <3> QED
      BY <1>1, <1>7, <3>1
  <2>2. CASE Pending(r)
    <3>1. run[r].read = b
      BY <1>0, <1>2, <1>8, <2>2, NoneAssumption DEF HolderInv, PendingInv
    <3>2. CASE PaperExists(p)
      <4>1. Bears(p, NamesOf[b]) /\ namesOf'[p] = namesOf[p]
        BY <1>0, <1>1, <1>2, <2>2, <3>1, <3>2 DEF PendingInv
      <4> QED
        BY <1>5, <4>1 DEF Bears, Owns
    <3>3. CASE ~ PaperExists(p)
      BY <1>1, <1>5, <3>1, <3>3 DEF Owns
    <3> QED
      BY <3>2, <3>3
  <2> QED
    BY <2>1, <2>2
<1>9. ASSUME NEW x \in Resolved', Clean(x)' PROVE OfItsPaper(Version(x), x)'
  <2>1. CASE x = b
    <3>1. Version(b)' = v /\ paperOf'[v] = p
      BY <1>1 DEF Version
    <3> QED
      BY <1>4, <1>8, <1>9, <2>1, <3>1 DEF OfItsPaper
  <2>2. CASE x # b
    <3>1. x \in Resolved /\ Version(x)' = Version(x) /\ Version(x) \in Id
      BY <1>1, <1>9, <2>2 DEF Resolved, Version, TypeOK, FileRow
    <3>2. paperOf[Version(x)] # None /\ OfItsPaper(Version(x), x)
      BY <1>4, <1>9, <3>1 DEF RunsHold, OwnerInv
    <3> QED
      BY <1>7, <3>1, <3>2 DEF OfItsPaper
  <2> QED
    BY <2>1, <2>2
<1>10. ASSUME NEW q \in Runs
       PROVE  (Holds(q) /\ ~ Pending(q) /\ Clean(Bytes(q)) => OfItsPaper(run[q].version, Bytes(q)))'
  <2>1. CASE q = r
    <3>1. Bytes(r)' = b /\ paperOf'[run'[r].version] = p /\ (Clean(Bytes(r))' => Clean(b))
      BY <1>1, <1>3 DEF Bytes, Clean
    <3> QED
      BY <1>8, <2>1, <3>1 DEF OfItsPaper
  <2>2. CASE q # r
    <3>1. run'[q] = run[q] /\ HeldInv(q) /\ HolderInv(q) /\ (Pending(q)' <=> Pending(q))
      BY <1>1, <2>2, OthersPend DEF RunsHold, IdentityInv
    <3>2. PICK w, c : w = run[q].version /\ c = Bytes(q)
      OBVIOUS
    <3>3. ASSUME Holds(q), ~ Pending(q), Clean(c)
          PROVE  OfItsPaper(w, c) /\ w \in Id /\ paperOf[w] # None
      <4>1. OfItsPaper(w, c)
        BY <3>2, <3>3 DEF OwnerInv
      <4>2. w \in Id
        BY <1>1, <3>1, <3>2, <3>3 DEF Holds, TypeOK, Run
      <4>3. CASE run[q].stage = "derive"
        <5>1. c \in Resolved /\ Copies(c, c) /\ c \in Binary
          BY <3>1, <3>2, <4>3 DEF HolderInv, Copies, Resolved
        <5>2. Version(c) = w
          BY <3>1, <3>2, <3>3, <4>3, <5>1 DEF HolderInv, Holding
        <5> QED
          BY <4>1, <4>2, <5>1, <5>2 DEF RunsHold
      <4>4. CASE run[q].stage # "derive"
        BY <3>1, <3>2, <3>3, <4>1, <4>2, <4>4 DEF HeldInv, Holds, Holding, Pending
      <4> QED
        BY <4>3, <4>4
    <3>4. Holds(q)' = Holds(q) /\ Bytes(q)' = c /\ run'[q].version = w
      BY <3>1, <3>2 DEF Holds, Bytes
    <3>5. Clean(Bytes(q))' <=> Clean(c)
      BY <1>3, <3>4 DEF Clean
    <3>6. ASSUME Holds(q), ~ Pending(q), Clean(c)
          PROVE  Owns(paperOf'[w], namesOf', Resolved', c)
      BY <1>7, <3>3, <3>6
    <3> QED
      BY <2>2, <3>1, <3>4, <3>5, <3>6 DEF OfItsPaper
  <2> QED
    BY <2>1, <2>2
<1> QED
  BY <1>9, <1>10 DEF OwnerInv

(* Steps after which the run holds no version, or that are no run's. *)
LEMMA QuietOwners ==
  ASSUME TypeOK, RunsHold, IdentityInv, OwnerInv,
         UNCHANGED <<paperOf, namesOf, doubtful>>, \A b \in Binary : file'[b].version = file[b].version,
         \A q \in Runs : run'[q] = run[q] \/ run'[q].stage \notin Holding
  PROVE  OwnerInv'
<1>1. Resolved' = Resolved /\ \A b \in Binary : Version(b)' = Version(b)
  BY DEF Resolved, Version
<1>2. \A b \in Resolved : Clean(b)' => OfItsPaper(Version(b), b)'
  BY <1>1 DEF OwnerInv, OfItsPaper, Resolved, Clean
<1>3. ASSUME NEW q \in Runs
      PROVE  (Holds(q) /\ ~ Pending(q) /\ Clean(Bytes(q)) => OfItsPaper(run[q].version, Bytes(q)))'
  <2>1. CASE run'[q] = run[q]
    BY <1>1, <2>1 DEF OwnerInv, OfItsPaper, Holds, Pending, Clean, Bytes
  <2>2. CASE run'[q].stage \notin Holding
    BY <2>2 DEF Holds
  <2> QED
    BY <2>1, <2>2
<1> QED
  BY <1>1, <1>2, <1>3 DEF OwnerInv

LEMMA OwnersNext ==
  ASSUME TypeOK, RunsHold, IdentityInv, OwnerInv, [Next]_vars
  PROVE  OwnerInv'
<1>1. ASSUME NEW r \in Runs, NEW e, Moves(r, e), e.stage \notin Holding,
             UNCHANGED <<file, paperOf, namesOf, doubtful>>
      PROVE  OwnerInv'
  BY <1>1, QuietOwners DEF Moves
<1>2. ASSUME NEW r \in Runs, NEW scope \in Path \cup {None}, Start(r, scope) PROVE OwnerInv'
  <2>1. Moves(r, [Idle EXCEPT !.stage = "scan", !.scope = scope])
    BY <1>2, StartEffects
  <2>2. run'[r].stage = "scan"
    BY <2>1 DEF Moves, Idle
  <2> QED
    BY <1>1, <1>2, <2>1, <2>2 DEF Start, catalog, Moves, Holding
<1>3. ASSUME NEW r \in Runs, Complete(r) \/ Crash(r) PROVE OwnerInv'
  <2>1. CASE Complete(r)
    <3>1. Moves(r, [Idle EXCEPT !.scope = run[r].scope])
      BY <2>1, CompleteEffects
    <3>2. [Idle EXCEPT !.scope = run[r].scope].stage = "idle"
      BY DEF Idle
    <3> QED
      BY <1>1, <2>1, <3>1, <3>2 DEF Complete, catalog, history, Holding
  <2>2. CASE Crash(r)
    <3>1. Moves(r, Idle)
      BY <2>2, IdleIsRun, RunUpdate DEF Crash
    <3>2. Idle.stage = "idle"
      BY DEF Idle
    <3> QED
      BY <1>1, <2>2, <3>1, <3>2 DEF Crash, history, Holding
  <2> QED
    BY <1>3, <2>1, <2>2
<1>4. ASSUME NEW r \in Runs, NEW failed \in BOOLEAN, Finish(r, failed),
             UNCHANGED <<file, paperOf, namesOf, doubtful>>
      PROVE  OwnerInv'
  <2>1. Moves(r, Finished(run[r], failed)) /\ run[r] \in Run
    BY <1>4, FinishEffects DEF TypeOK
  <2>2. Finished(run[r], failed).stage = "next"
    BY <2>1 DEF Finished, Run
  <2> QED
    BY <1>1, <1>4, <2>1, <2>2 DEF Holding
<1>5. ASSUME NEW r \in Runs, Scan(r) \/ MarkMissing(r) \/ Fingerprint(r) PROVE OwnerInv'
  <2>1. run[r] \in Run
    BY <1>5 DEF TypeOK
  <2>2. UNCHANGED <<file, paperOf, namesOf, doubtful>>
    BY <1>5 DEF Scan, MarkMissing, Fingerprint, catalog, history
  <2>3. CASE Scan(r)
    <3>1. ASSUME NEW found, NEW trouble,
                 Moves(r, [run[r] EXCEPT !.stage = "next", !.listed = found, !.todo = found,
                                         !.troubled = trouble])
          PROVE  OwnerInv'
      <4>1. run'[r].stage = "next"
        BY <2>1, <3>1 DEF Moves, Run
      <4> QED
        BY <1>1, <2>2, <3>1, <4>1 DEF Moves, Holding
    <3> QED
      BY <2>3, <3>1, ScanEffects
  <2>4. CASE MarkMissing(r)
    <3>1. Moves(r, [run[r] EXCEPT !.stage = "complete"])
      BY <2>4, StageEffects DEF MarkMissing, Stage
    <3>2. run'[r].stage = "complete"
      BY <2>1, <3>1 DEF Moves, Run
    <3> QED
      BY <1>1, <2>2, <3>1, <3>2 DEF Moves, Holding
  <2>5. CASE Fingerprint(r)
    <3>1. PICK p \in run[r].todo :
           \/ Moves(r, [run[r] EXCEPT !.todo = @ \ {p}, !.troubled = TRUE])
           \/ /\ disk[p] # None
              /\ Moves(r, [run[r] EXCEPT !.stage = "register", !.todo = @ \ {p},
                                         !.at = p, !.bytes = disk[p]])
      BY <2>5, FingerprintEffects
    <3>2. run'[r].stage \in {"next", "register"}
      BY <2>1, <2>5, <3>1 DEF Moves, Run, Fingerprint
    <3>3. PICK e : Moves(r, e) /\ e = run'[r]
      BY <3>1 DEF Moves
    <3> QED
      BY <1>1, <2>2, <3>2, <3>3 DEF Holding
  <2> QED
    BY <1>5, <2>3, <2>4, <2>5
<1>6. ASSUME NEW r \in Runs, Register(r) PROVE OwnerInv'
  <2>1. run[r] \in Run /\ HeldInv(r) /\ run[r].stage = "register"
    BY <1>6 DEF TypeOK, RunsHold, Register
  <2>2. Moves(r, [run[r] EXCEPT !.stage = "check", !.novel = ~ file[Bytes(r)].known])
    BY <1>6, <2>1, RegisterEffects
  <2>3. run'[r].stage = "check"
    BY <2>1, <2>2 DEF Moves, Run
  <2>4. Bytes(r) \in Binary
    BY <2>1 DEF HeldInv, InFile
  <2>5. \A b \in Binary : file'[b].version = file[b].version
    BY <1>6, <2>4 DEF Register, TypeOK, FileRow
  <2> QED
    BY <1>6, <2>2, <2>3, <2>5, QuietOwners DEF Register, history, Moves, Holding
<1>7. ASSUME NEW r \in Runs, Check(r) PROVE OwnerInv'
  <2>1. CASE Settled(r)
    BY <1>4, <1>7, <2>1 DEF Check, catalog, history
  <2> QED
    BY <1>7, <2>1, OwnersChecked
<1>8. ASSUME NEW r \in Runs, Derive(r) \/ Fail(r) PROVE OwnerInv'
  BY <1>4, <1>8 DEF Derive, Fail, history
<1>9. ASSUME NEW p \in Path, Change(p) PROVE OwnerInv'
  BY <1>9, QuietOwners DEF Change, catalog
<1>10. CASE UNCHANGED vars
  BY <1>10, QuietOwners DEF vars
<1> QED
  BY <1>2, <1>3, <1>5, <1>6, <1>7, <1>8, <1>9, <1>10, OwnersRead, OwnersResolved, OwnersSaved
  DEF Next, Step

(* PapersAreToldApart: no two papers bear a name that two runs did not resolve *)
(* at once, and the paper of a version bears a name of one of its files, in   *)
(* any order of scans, changes, crashes and runs and whatever names the files *)
(* share (DeterministicPaperIdentityResolver.resolve, save_identity).         *)
THEOREM PapersDiffer == Spec => []PapersAreToldApart
<1>1. ASSUME TypeOK, RunsHold, IdentityInv, OwnerInv PROVE PapersAreToldApart
  <2>1. ASSUME NEW p \in Id, NEW q \in Id, NEW k \in Kind,
               namesOf[p][k] \notin doubtful \cup {None}, namesOf[p][k] = namesOf[q][k]
        PROVE  p = q
    BY <1>1, <2>1 DEF IdentityInv, PaperInv, CleanName
  <2>2. ASSUME NEW b \in Binary, Version(b) # None, {b, TextOf[b]} \cap doubtful = {}
        PROVE  \E c \in Binary : /\ Version(c) = Version(b)
                                 /\ Bears(paperOf[Version(b)], NamesOf[c])
    <3>1. Clean(b) /\ b \in Resolved
      BY <2>2 DEF Clean, Resolved
    <3>2. PICK c \in Resolved : Copies(c, b) /\ Bears(paperOf[Version(b)], NamesOf[c])
      BY <1>1, <3>1 DEF OwnerInv, OfItsPaper, Owns, Bears
    <3>3. Version(c) = Version(b) /\ c \in Binary
      BY <1>1, <3>1, <3>2 DEF IdentityInv, FileInv, Resolved
    <3> QED
      BY <3>2, <3>3
  <2> QED
    BY <2>1, <2>2 DEF PapersAreToldApart
<1>2. ASSUME TypeOK, RunsHold, IdentityInv, OwnerInv, [Next]_vars PROVE OwnerInv'
  BY <1>2, OwnersNext
<1>3. Spec => []OwnerInv
  BY <1>2, OwnersInit, Identified, PTL DEF Spec
<1> QED
  BY <1>1, <1>3, Identified, PTL

=============================================================================
