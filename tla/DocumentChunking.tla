-------------------------- MODULE DocumentChunking ----------------------------
(***************************************************************************)
(* From the blocks of a parsed document to the chunks that are indexed:     *)
(* SectionTreeBuilder reads the headings and gives each block to a section, *)
(* ElementExtractor finds figures, tables, equations and algorithms,        *)
(* SemanticBlockBuilder groups an element with the text about it, and       *)
(* SemanticChunker packs the groups of each section into chunks.            *)
(*                                                                         *)
(* The blocks are in reading order (ordered_blocks).  Of a block's text the *)
(* model keeps what the regular expressions of the four classes find in it, *)
(* and the lengths of its sentences in tokens.                              *)
(***************************************************************************)
EXTENDS Integers, Sequences, FiniteSets, SequencesExt

CONSTANTS
  Blocks,       \* the blocks a document may have
  Titles,       \* titles of headings
  Labels,       \* labels of elements ("Figure 1")
  NoLabel,      \* an element without a number
  FrontMatter,  \* the title of the section before the first heading
  Target,       \* target_tokens
  HardMax,      \* hard_max_tokens
  MinFill,      \* target_tokens * min_fill_ratio
  MaxBlocks     \* model bound: blocks of a document

ElementType == {"figure", "table", "equation", "algorithm"}

(* level is that of _heading_candidate, 0 for none; heading says that the     *)
(* parser calls the block a heading; a block is an element by its type or by *)
(* its caption; mentions are the labels its text contains; brief says that    *)
(* it has at most 80 words, cue that it starts like "where ".                 *)
Block == [level : 0 .. 6, title : Titles, heading : BOOLEAN,
          element : ElementType \cup {"none"}, label : Labels \cup {NoLabel},
          mentions : SUBSET Labels, brief : BOOLEAN, cue : BOOLEAN,
          sentences : Seq(Nat \ {0})]

ASSUME BlocksAssumption ==
  /\ Blocks \subseteq Block
  /\ \A b \in Blocks :
       b.level # 0 \/ b.mentions # {} \/ b.cue => b.sentences # <<>>
ASSUME LimitsAssumption ==
  /\ {Target, HardMax, MinFill, MaxBlocks} \subseteq Nat \ {0}
  /\ MinFill <= Target /\ Target <= HardMax
ASSUME NamesAssumption == NoLabel \notin Labels /\ FrontMatter \notin Titles

VARIABLES
  doc,       \* the blocks of the document
  placed,    \* how many of them have a section
  sections,  \* the sections so far; the last one is open
  stack,     \* the open section and the sections around it
  groups,    \* the semantic groups
  taken,     \* how many sections the chunker has taken up
  todo,      \* parts of the section that are not in a chunk yet
  current,   \* parts of the next chunk
  chunks,    \* the chunks
  stage      \* "sections", then "groups", then "chunks"

treeVars  == <<placed, sections, stack>>
chunkVars == <<taken, todo, current, chunks>>
vars == <<doc, treeVars, groups, chunkVars, stage>>

Stage == {"sections", "groups", "chunks"}

-----------------------------------------------------------------------------
(* Sections.  parent is an index of sections, 0 at the top; blocks are        *)
(* indexes of doc.                                                           *)

Section == [title : Titles \cup {FrontMatter}, level : 1 .. 6, parent : Nat,
            path : Seq(Titles \cup {FrontMatter}), blocks : Seq(Nat)]

(* A level may be at most one below the open section's. *)
LevelOf(b) ==
  IF stack = <<>> THEN 1
  ELSE IF b.level <= Len(stack) THEN b.level ELSE Len(stack) + 1

(* Faulty variant: a heading closes only the sections below its level. *)
SiblingsLeftOpen(level) ==
  SubSeq(stack, 1, IF level <= Len(stack) THEN level ELSE Len(stack))

(* The sections around a new one: those at its level and below are closed. *)
Around(level) == SubSeq(stack, 1, level - 1)

Headed(b) ==
  LET level == LevelOf(b)
      above == Around(level)
  IN  [title |-> b.title, level |-> level,
       parent |-> IF above = <<>> THEN 0 ELSE above[Len(above)],
       path |-> Append([i \in 1 .. Len(above) |-> sections[above[i]].title], b.title),
       blocks |-> <<placed + 1>>]

Unheaded ==
  [title |-> FrontMatter, level |-> 1, parent |-> 0, path |-> <<FrontMatter>>,
   blocks |-> <<placed + 1>>]

(* A heading opens a section, and is its first block. *)
PlaceHeading ==
  /\ placed < Len(doc)
  /\ LET b == doc[placed + 1]
     IN  /\ b.level # 0
         /\ sections' = Append(sections, Headed(b))
         /\ stack' = Append(Around(LevelOf(b)), Len(sections) + 1)
  /\ placed' = placed + 1
  /\ UNCHANGED <<doc, groups, chunkVars, stage>>

(* Text before any heading gets a section of its own. *)
PlaceFrontMatter ==
  /\ placed < Len(doc)
  /\ doc[placed + 1].level = 0 /\ sections = <<>>
  /\ sections' = <<Unheaded>>
  /\ stack' = <<1>>
  /\ placed' = placed + 1
  /\ UNCHANGED <<doc, groups, chunkVars, stage>>

PlaceBlock ==
  /\ placed < Len(doc)
  /\ doc[placed + 1].level = 0 /\ sections # <<>>
  /\ sections' = [sections EXCEPT ![Len(sections)].blocks = Append(@, placed + 1)]
  /\ placed' = placed + 1
  /\ UNCHANGED <<doc, stack, groups, chunkVars, stage>>

-----------------------------------------------------------------------------
(* Elements and groups.  An element is known by its block.                    *)

IsElement(b) == doc[b].element # "none"

Mentions(b, e) == doc[e].label \in doc[b].mentions
Formula(e) == doc[e].element = "equation"

BindsPrevious(b, e) ==
  ~ doc[b].heading /\ (Mentions(b, e) \/ (Formula(e) /\ doc[b].brief))

BindsNext(b, e) == Mentions(b, e) \/ (Formula(e) /\ doc[b].cue)

(* The span of an element holds the i-th and the next block of a section; the *)
(* spans that overlap are merged.                                            *)
Tied(blocks, i) ==
  \/ IsElement(blocks[i]) /\ BindsNext(blocks[i + 1], blocks[i])
  \/ IsElement(blocks[i + 1]) /\ BindsPrevious(blocks[i], blocks[i + 1])

(* Tokens are <<block, sentence, n>>. *)
Sentences(b) ==
  [s \in DOMAIN doc[b].sentences |->
     [n \in 1 .. doc[b].sentences[s] |-> <<b, s, n>>]]
TextOf(blocks) ==
  FlattenSeq([i \in DOMAIN blocks |-> FlattenSeq(Sentences(blocks[i]))])

Group == [section : Nat, blocks : Seq(Nat), elements : SUBSET Nat]

(* The merged spans: neighbours in a section that are tied are in one. *)
Spans(blocks) ==
  LET upTo[i \in 0 .. Len(blocks)] ==
        IF i = 0 THEN <<>>
        ELSE IF i > 1 /\ Tied(blocks, i - 1)
          THEN Append(Front(upTo[i - 1]), Append(Last(upTo[i - 1]), blocks[i]))
        ELSE Append(upTo[i - 1], <<blocks[i]>>)
  IN  upTo[Len(blocks)]

GroupOf(s, span) ==
  [section |-> s, blocks |-> span, elements |-> {b \in ToSet(span) : IsElement(b)}]

(* The groups of a section, spans without text left out. *)
GroupsOf(s) ==
  LET spans == Spans(sections[s].blocks)
  IN  FlattenSeq([k \in DOMAIN spans |->
                    IF TextOf(spans[k]) = <<>> THEN <<>> ELSE <<GroupOf(s, spans[k])>>])

(* DocumentStructureProcessor.build, after the sections. *)
BuildGroups ==
  /\ stage = "sections" /\ placed = Len(doc)
  /\ groups' = FlattenSeq([s \in DOMAIN sections |-> GroupsOf(s)])
  /\ stage' = "groups"
  /\ UNCHANGED <<doc, treeVars, chunkVars>>

-----------------------------------------------------------------------------
(* Chunks.  A part is a group, or a piece of the text of one.                 *)

Dependency(g) == g.elements # {}
Part == [group : Group, text : Seq(Nat \X Nat \X Nat)]

(* Faulty variant: the sentence that no longer fits is forgotten. *)
JoinedDropping(texts, sentence) ==
  IF texts = <<>> THEN <<sentence>>
  ELSE IF Len(Last(texts)) + Len(sentence) > HardMax THEN texts
  ELSE Append(Front(texts), Last(texts) \o sentence)

(* What comes next goes to the last text, if it fits there. *)
Joined(texts, sentence) ==
  IF texts = <<>> THEN <<sentence>>
  ELSE IF Len(Last(texts)) + Len(sentence) > HardMax THEN Append(texts, sentence)
  ELSE Append(Front(texts), Last(texts) \o sentence)

(* The loops of _parts and _word_parts. *)
Packed(texts) ==
  LET upTo[i \in 0 .. Len(texts)] ==
        IF i = 0 THEN <<>> ELSE Joined(upTo[i - 1], texts[i])
  IN  upTo[Len(texts)]

WordParts(text) ==
  IF Len(text) <= HardMax THEN <<text>>
  ELSE Packed([i \in DOMAIN text |-> <<text[i]>>])

SplitText(g) ==
  LET sentences == FlattenSeq([i \in DOMAIN g.blocks |-> Sentences(g.blocks[i])])
      texts == Packed(sentences)
  IN  FlattenSeq([i \in DOMAIN texts |-> WordParts(texts[i])])

(* Faulty variant: every group above the limit is split. *)
AnyGroupSplit(g) ==
  LET text == TextOf(g.blocks)
      texts == IF Len(text) <= HardMax THEN <<text>> ELSE SplitText(g)
  IN  [i \in DOMAIN texts |-> [group |-> g, text |-> texts[i]]]

(* A dependency group is never split. *)
PartsOf(g) ==
  LET text == TextOf(g.blocks)
      texts == IF Dependency(g) \/ Len(text) <= HardMax THEN <<text>>
               ELSE SplitText(g)
  IN  [i \in DOMAIN texts |-> [group |-> g, text |-> texts[i]]]

TextOfParts(parts) == FlattenSeq([i \in DOMAIN parts |-> parts[i].text])

(* Faulty variant: an unfilled chunk takes the next part whatever its size. *)
FitsUnfilled(part) ==
  LET now == Len(TextOfParts(current))
  IN  \/ current = <<>>
      \/ now + Len(part.text) <= Target
      \/ now < MinFill

Fits(part) ==
  LET now == Len(TextOfParts(current))
      proposed == now + Len(part.text)
  IN  \/ current = <<>>
      \/ proposed <= Target
      \/ proposed <= HardMax /\ now < MinFill

(* The section a chunk is given is the first with the path of the section the *)
(* parts are from.                                                           *)
SectionOfPath(path) ==
  CHOOSE s \in DOMAIN sections :
    /\ sections[s].path = path
    /\ \A t \in 1 .. s - 1 : sections[t].path # path

MakeChunk(parts) ==
  [section |-> SectionOfPath(sections[taken].path),
   text |-> TextOfParts(parts),
   groups |-> {parts[i].group : i \in DOMAIN parts}]

TakeSection ==
  /\ stage = "groups" /\ todo = <<>> /\ current = <<>>
  /\ taken < Len(sections)
  /\ taken' = taken + 1
  /\ todo' = FlattenSeq([i \in DOMAIN groups |->
                IF groups[i].section = taken + 1 THEN PartsOf(groups[i]) ELSE <<>>])
  /\ UNCHANGED <<doc, treeVars, groups, current, chunks, stage>>

AddPart ==
  /\ todo # <<>> /\ Fits(Head(todo))
  /\ current' = Append(current, Head(todo))
  /\ todo' = Tail(todo)
  /\ UNCHANGED <<doc, treeVars, groups, taken, chunks, stage>>

StartChunk ==
  /\ todo # <<>> /\ ~ Fits(Head(todo))
  /\ chunks' = Append(chunks, MakeChunk(current))
  /\ current' = <<Head(todo)>>
  /\ todo' = Tail(todo)
  /\ UNCHANGED <<doc, treeVars, groups, taken, stage>>

EndSection ==
  /\ todo = <<>> /\ current # <<>>
  /\ chunks' = Append(chunks, MakeChunk(current))
  /\ current' = <<>>
  /\ UNCHANGED <<doc, treeVars, groups, taken, todo, stage>>

Finish ==
  /\ stage = "groups" /\ todo = <<>> /\ current = <<>>
  /\ taken = Len(sections)
  /\ stage' = "chunks"
  /\ UNCHANGED <<doc, treeVars, groups, chunkVars>>

-----------------------------------------------------------------------------

Init ==
  /\ doc \in UNION {[1 .. n -> Blocks] : n \in 1 .. MaxBlocks}
  /\ placed = 0 /\ sections = <<>> /\ stack = <<>>
  /\ groups = <<>>
  /\ taken = 0 /\ todo = <<>> /\ current = <<>> /\ chunks = <<>>
  /\ stage = "sections"

Next ==
  \/ PlaceHeading \/ PlaceFrontMatter \/ PlaceBlock
  \/ BuildGroups
  \/ TakeSection \/ AddPart \/ StartChunk \/ EndSection
  \/ Finish

Spec == Init /\ [][Next]_vars

TypeOK ==
  /\ doc \in Seq(Blocks)
  /\ placed \in 0 .. Len(doc)
  /\ sections \in Seq(Section) /\ stack \in Seq(Nat \ {0})
  /\ groups \in Seq(Group)
  /\ taken \in 0 .. Len(sections)
  /\ todo \in Seq(Part) /\ current \in Seq(Part)
  /\ chunks \in Seq([section : Nat, text : Seq(Nat \X Nat \X Nat),
                     groups : SUBSET Group])
  /\ stage \in Stage

-----------------------------------------------------------------------------
(* Properties.                                                               *)

(* A section is one level below its parent, its path is the parent's and its  *)
(* title, and no section between the two is at the parent's level or above.   *)
ParentsEnclose ==
  \A s \in DOMAIN sections :
    LET sec == sections[s]
        p == sec.parent
    IN  IF p = 0
          THEN sec.level = 1 /\ sec.path = <<sec.title>>
          ELSE /\ p < s
               /\ sec.level = sections[p].level + 1
               /\ sec.path = Append(sections[p].path, sec.title)
               /\ \A t \in p + 1 .. s - 1 : sections[t].level > sections[p].level

(* Each block placed so far is in one section, in reading order. *)
BlocksInOrder ==
  FlattenSeq([s \in DOMAIN sections |-> sections[s].blocks]) =
    [b \in 1 .. placed |-> b]

(* Whatever levels the headings claim, skipped ones and text before the first *)
(* heading included, the sections are a tree in reading order and every block *)
(* belongs to one of them (_build_sections).                                 *)
SectionsFormATree == ParentsEnclose /\ BlocksInOrder

(* The chunks, the parts of the next and the parts still to come are the text *)
(* of the sections taken up so far: no token is lost, doubled or moved by     *)
(* grouping, splitting and packing.                                          *)
ChunksKeepTheText ==
  FlattenSeq([c \in DOMAIN chunks |-> chunks[c].text])
      \o TextOfParts(current) \o TextOfParts(todo) =
    TextOf(FlattenSeq([s \in 1 .. taken |-> sections[s].blocks]))

PathsDiffer ==
  \A s, t \in DOMAIN sections : sections[s].path = sections[t].path => s = t

InOneSection(ck) == \A g, h \in ck.groups : g.section = h.section

(* A chunk stays in one section, and names it if no other section has its     *)
(* path; it is above the hard limit only when it is one group of an element;  *)
(* and it is closed early only because what follows in its section would not  *)
(* fit (SemanticChunker.chunk, _make_chunk).                                 *)
ChunksAreBounded ==
  \A c \in DOMAIN chunks :
    LET ck == chunks[c]
        next == chunks[c + 1]
    IN  /\ InOneSection(ck)
        /\ PathsDiffer => \A g \in ck.groups : g.section = ck.section
        /\ Len(ck.text) > HardMax =>
             \E g \in ck.groups : ck.groups = {g} /\ Dependency(g)
        /\ c < Len(chunks) =>
             \A g \in ck.groups, h \in next.groups :
               g.section = h.section =>
                 /\ Len(ck.text) + Len(next.text) > Target
                 /\ Len(ck.text) < MinFill =>
                      Len(ck.text) + Len(next.text) > HardMax

(* An element, the text next to it in its section that names it, and the      *)
(* "where" after an equation are in one chunk, whatever their length          *)
(* (_dependency_spans, _parts).                                              *)
ElementsStayTogether ==
  stage = "chunks" =>
    \A s \in DOMAIN sections :
      \A i \in 1 .. Len(sections[s].blocks) - 1 :
        LET b == sections[s].blocks[i]
            n == sections[s].blocks[i + 1]
            both == ToSet(TextOf(<<b, n>>))
        IN  \/ IsElement(b) /\ (Mentions(n, b) \/ (Formula(b) /\ doc[n].cue))
            \/ IsElement(n) /\ Mentions(b, n) /\ ~ doc[b].heading
            => \E c \in DOMAIN chunks : both \subseteq ToSet(chunks[c].text)
=============================================================================
