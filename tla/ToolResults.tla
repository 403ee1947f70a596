------------------------------ MODULE ToolResults -----------------------------
(***************************************************************************)
(* What an agent sees of its tools' results.  A tool answers with a payload *)
(* of any size; ToolResultMaterializer keeps it inline, compacted, or       *)
(* stores it as an Artifact and shows a preview with the artifact's handle; *)
(* read_artifact turns the handle back into the payload, page by page.      *)
(*                                                                         *)
(* A payload is a sequence of items and the rest of its fields, each with   *)
(* its size in tokens; a fragment of an item may end after any token.  That *)
(* stored artifacts can be read is the matter of ArtifactStore.             *)
(***************************************************************************)
EXTENDS Integers, Sequences, FiniteSets, SequencesExt

CONSTANTS
  Payloads,         \* what the tools may answer
  MaxInline,        \* max_inline_tokens_per_result
  MaxTotal,         \* max_total_tool_tokens
  Preview,          \* preview_tokens
  Cap,              \* read_artifact_max_tokens
  PerPaper,         \* evidence kept per paper (max_per_paper)
  MaxListed,        \* entries of a list that a view takes as it is (20)
  InlinePassages,   \* passages of a read_paper that may stay inline
  InlinePapers,     \* papers of a comparison that may stay inline
  Wrapper,          \* tokens of the fields every compact view adds
  HandleSize,       \* tokens of an ArtifactReference
  IdSize,           \* tokens of an artifact_id alone
  PageFrame,        \* tokens of a page around its items
  FragmentFrame,    \* tokens of a page around a fragment
  LabelSize,        \* tokens of a quoted citation label
  CitationSize,     \* tokens of a citation beside a page
  Envelope,         \* tokens of the fields beside a page and its citations
  Asks,             \* max_tokens an agent asks for
  MaxTools,         \* model bound: calls of the other tools
  MaxCalls          \* model bound: tool calls in all

Part == {"evidence", "passages", "elements", "dimensions", "cells", "claims",
         "reports", "artifacts", "refs", "failed", "results", "papers",
         "citations", "questions", "units", "workers"}

(* The lists each tool's payload has: refs are artifact_refs, failed are      *)
(* failed_work_units, papers are resolved_papers, questions are unresolved,   *)
(* units are work_unit_ids; citations are a citation_manifest too.            *)
PartsOf ==
  [search_knowledge |-> {"evidence", "papers"},
   read_paper |-> {"passages", "elements"},
   compare_papers |-> {"dimensions", "cells", "evidence"},
   worker_result |-> {"evidence", "citations", "questions"},
   search_artifact |-> {"results"},
   delegate_research |-> {"units", "workers"},
   collect_research_task |-> {"refs", "failed", "citations", "questions"},
   retrieve_and_analyze_knowledge |-> {"claims", "reports", "artifacts", "citations",
                                       "questions", "failed"},
   read_artifact |-> {},
   other |-> Part]
Tool == DOMAIN PartsOf

(* cite is the item's citation label, or 0; the label stands in the item's   *)
(* text after `at` tokens.  Of a comparison, `dimensions` are the directly    *)
(* comparable ones.                                                          *)
Item == [part : Part, paper : Nat, relevance : Nat, size : Nat \ {0},
         cite : Nat, at : Nat]
Payload == [tool : Tool, binary : BOOLEAN, head : Nat, items : Seq(Item)]

(* What any tool but read_artifact may answer: lists of its own, and items    *)
(* that hold their label.                                                    *)
ASSUME PayloadsAssumption ==
  \A p \in Payloads :
    /\ p \in Payload /\ p.tool # "read_artifact"
    /\ \A i \in DOMAIN p.items :
         /\ p.items[i].part \in PartsOf[p.tool]
         /\ p.items[i].cite # 0 => p.items[i].at + LabelSize <= p.items[i].size
ASSUME BudgetsAssumption ==
  /\ {MaxInline, MaxTotal, Preview, Cap, PerPaper, LabelSize} \subseteq Nat \ {0}
  /\ {InlinePassages, InlinePapers, MaxListed, Wrapper, IdSize, HandleSize,
      PageFrame, FragmentFrame, CitationSize, Envelope, MaxTools, MaxCalls}
       \subseteq Nat
  /\ HandleSize >= IdSize
  /\ Asks \subseteq Nat \ {0}

VARIABLES
  results,   \* tool_results of the checkpoint
  artifact,  \* the result whose artifact is being read, or 0
  view,      \* the view of it
  cursor,    \* next_cursor of the last page
  text,      \* history: the text of the pages read so far
  cited      \* history: the citations that came with them

readVars == <<artifact, view, cursor, text, cited>>
vars == <<results, artifact, view, cursor, text, cited>>

-----------------------------------------------------------------------------
(* Sizes, and what fits.  The items of a payload a view shows are a set of    *)
(* positions in payload.items.                                               *)

(* The sum of the numbers of sequence s at the places in S, written as a      *)
(* recursive function because the prover cannot instantiate a fold.           *)
SumAt(s, S) ==
  LET upTo[n \in 0 .. Len(s)] ==
        IF n = 0 THEN 0 ELSE upTo[n - 1] + (IF n \in S THEN s[n] ELSE 0)
  IN  upTo[Len(s)]

Size(p, S) == SumAt([i \in DOMAIN p.items |-> p.items[i].size], S)
Tokens(p) == p.head + Size(p, DOMAIN p.items)

OfPart(p, S, part) == {i \in S : p.items[i].part = part}

(* The evidence of a search in the order of its view (_select_balanced): the  *)
(* best of every paper, then the second of every paper, and so on; papers in  *)
(* the order of their best.                                                  *)
Ahead(p, i, j) ==
  \/ p.items[i].relevance > p.items[j].relevance
  \/ p.items[i].relevance = p.items[j].relevance /\ i < j

Evidence(p) == OfPart(p, DOMAIN p.items, "evidence")
SamePaper(p, i) == {j \in Evidence(p) : p.items[j].paper = p.items[i].paper}
Rank(p, i) == Cardinality({j \in SamePaper(p, i) : Ahead(p, j, i)})
Place(p, i) == Cardinality({j \in Evidence(p) : Ahead(p, j, i)})
Queue(p, i) == Min({Place(p, j) : j \in SamePaper(p, i)})

NotAfter(p, j, i) ==
  IF p.tool = "search_knowledge" /\ p.items[i].part = "evidence"
    THEN \/ Rank(p, j) < Rank(p, i)
         \/ Rank(p, j) = Rank(p, i) /\ Queue(p, j) <= Queue(p, i)
    ELSE j <= i

(* Of the items in S, in their order, as many as fit. *)
Fitting(p, S, budget) ==
  {i \in S : Size(p, {j \in S : NotAfter(p, j, i)}) <= budget}

(* extract_citation_manifest: the labels of the whole payload, shown or not. *)
CitedParts(tool) ==
  CASE tool = "read_paper" -> {"passages", "elements"}
    [] tool \in {"worker_result", "collect_research_task",
                 "retrieve_and_analyze_knowledge"} -> {"citations"}
    [] OTHER -> {"evidence"}

Cited(p) == {i \in DOMAIN p.items : p.items[i].part \in CitedParts(p.tool)}
Manifest(p) == {p.items[i].cite : i \in Cited(p)} \ {0}

-----------------------------------------------------------------------------
(* OffloadPolicy.should_offload.                                             *)

Papers(p) == {p.items[i].paper : i \in DOMAIN p.items}

AlwaysOffloaded(p) ==
  \/ p.binary
  \/ p.tool = "compare_papers" /\ Cardinality(Papers(p)) > InlinePapers
  \/ /\ p.tool = "read_paper"
     /\ \/ OfPart(p, DOMAIN p.items, "elements") # {}
        \/ Cardinality(OfPart(p, DOMAIN p.items, "passages")) > InlinePassages
  \/ p.tool = "worker_result"

(* Tokens of the tool results the model has been given so far. *)
TokensOf(K) == SumAt([k \in DOMAIN results |-> results[k].tokens], K)
Accumulated == TokensOf(DOMAIN results)

(* Faulty variant: only the size of the result itself counts. *)
OffloadLarge(p) == AlwaysOffloaded(p) \/ Tokens(p) > MaxInline
ShouldOffload(p) ==
  \/ AlwaysOffloaded(p)
  \/ Tokens(p) > MaxInline
  \/ Accumulated + Tokens(p) > MaxTotal

-----------------------------------------------------------------------------
(* The compact views.                                                        *)

(* _select_balanced: in each round, the next item of every queue, if it fits;  *)
(* what does not fit is skipped.                                             *)
Round(p, chosen, rank, budget) ==
  LET upTo[n \in 0 .. Len(p.items)] ==
        LET before == IF n = 0 THEN chosen ELSE upTo[n - 1]
        IN  before \cup {i \in Evidence(p) :
              /\ Rank(p, i) = rank /\ Queue(p, i) = n
              /\ Size(p, before \cup {i}) <= budget}
  IN  upTo[Len(p.items)]

SelectBalanced(p, budget) ==
  LET rounds[n \in 0 .. PerPaper] ==
        IF n = 0 THEN {} ELSE Round(p, rounds[n - 1], n - 1, budget)
  IN  rounds[PerPaper]

(* Of the items in S, list after list as much as fits of one budget. *)
Filled(p, S, parts, budget, used) ==
  LET shown[n \in 0 .. Len(parts)] ==
        IF n = 0 THEN {}
        ELSE LET before == shown[n - 1]
             IN  before \cup Fitting(p, OfPart(p, S, parts[n]),
                                    budget - used - Size(p, before))
  IN  shown[Len(parts)]

(* _compact_rod charges the claims a second time in place of the reports. *)
CompactRod(p, budget) ==
  LET own(part) == OfPart(p, DOMAIN p.items, part)
      claims  == Fitting(p, own("claims"), budget)
      reports == Fitting(p, own("reports"), budget - Size(p, claims))
      files   == Fitting(p, own("artifacts"), budget - 2 * Size(p, claims))
  IN  claims \cup reports \cup files

(* The lists a view takes as they are, and those it cuts at MaxListed. *)
TakenWhole ==
  {<<"worker_result", "citations">>, <<"worker_result", "questions">>,
   <<"retrieve_and_analyze_knowledge", "citations">>}
TakenShort ==
  {<<"search_knowledge", "papers">>, <<"delegate_research", "units">>,
   <<"delegate_research", "workers">>, <<"collect_research_task", "questions">>,
   <<"retrieve_and_analyze_knowledge", "questions">>,
   <<"retrieve_and_analyze_knowledge", "failed">>}

ListOf(p, i) == <<p.tool, p.items[i].part>>
Nth(p, i) == Cardinality(OfPart(p, 1 .. i, p.items[i].part))
Taken(p) ==
  {i \in DOMAIN p.items :
     \/ ListOf(p, i) \in TakenWhole
     \/ ListOf(p, i) \in TakenShort /\ Nth(p, i) <= MaxListed}

(* The lists a view fills as far as its budget reaches. *)
Shown ==
  [read_paper |-> <<"passages", "elements">>, compare_papers |-> <<"dimensions">>,
   search_artifact |-> <<"results">>, collect_research_task |-> <<"refs", "failed">>,
   worker_result |-> <<>>, delegate_research |-> <<>>, other |-> <<>>]

Selected(p, budget) ==
  CASE p.tool = "search_knowledge" -> SelectBalanced(p, budget)
    [] p.tool = "retrieve_and_analyze_knowledge" -> CompactRod(p, budget)
    [] OTHER -> Filled(p, DOMAIN p.items, Shown[p.tool], budget,
                       IF p.tool = "collect_research_task" THEN p.head ELSE 0)

Compact(p, budget) == Taken(p) \cup Selected(p, budget)

-----------------------------------------------------------------------------
(* _enforce_model_budget.                                                    *)

(* The hits of search_artifact are not among the keys that are kept. *)
Priority == <<"claims", "reports", "citations", "evidence", "passages",
              "elements", "dimensions", "papers", "refs", "questions", "failed",
              "units", "workers", "artifacts">>

Lesser(m, n) == IF m < n THEN m ELSE n
Greater(m, n) == IF m < n THEN n ELSE m

(* Faulty variant: the handle competes for what the other fields leave. *)
HandleLast(p, S, budget) ==
  LET rest == budget - p.head - Wrapper - Size(p, S)
  IN  IF HandleSize <= rest THEN "reference"
      ELSE IF IdSize <= rest THEN "id" ELSE "none"

(* The handle comes first; of a small budget its id is all that is kept. *)
HandleWithin(p, S, budget) ==
  IF HandleSize <= budget THEN "reference" ELSE "id"

SizeOfHandle == [none |-> 0, id |-> IdSize, reference |-> HandleSize]

(* The fields around the lists.  Of a result without a view of its own only   *)
(* the summary is kept.                                                      *)
Fields(p) == IF p.tool = "other" THEN Wrapper ELSE p.head + Wrapper

(* Cut field by field in the order of Priority, scalar fields first. *)
Cut(p, S, handle, budget) ==
  LET used  == Lesser(SizeOfHandle[handle] + Fields(p),
                      Greater(SizeOfHandle[handle], budget))
      shown == Filled(p, S, Priority, budget, used)
  IN  [shown |-> shown, handle |-> handle, tokens |-> used + Size(p, shown)]

(* The compact view as the model gets it. *)
ModelView(p, S, handle, budget) ==
  LET whole == SizeOfHandle[handle] + Fields(p) + Size(p, S)
  IN  IF whole <= budget
        THEN [shown |-> S, handle |-> handle, tokens |-> whole]
        ELSE Cut(p, S, IF handle = "none" THEN handle
                       ELSE HandleWithin(p, S, budget), budget)

-----------------------------------------------------------------------------
(* ToolResultMaterializer.materialize.                                       *)

(* How a result stands in the checkpoint: the items of the payload it shows,   *)
(* the handle to its artifact, its tokens.                                    *)
Result(p, seen, offloaded) ==
  [of |-> p, shown |-> seen.shown, handle |-> seen.handle,
   tokens |-> seen.tokens, offloaded |-> offloaded]

AsIs(p) == Result(p, [shown |-> DOMAIN p.items, handle |-> "none",
                      tokens |-> Tokens(p)], FALSE)

Offloaded(p) ==
  Result(p, ModelView(p, Compact(p, Preview), "reference", Preview), TRUE)

Inline(p) ==
  Result(p, ModelView(p, Compact(p, MaxInline), "none", MaxInline), FALSE)

Materialized(p) ==
  IF p.tool = "read_artifact" THEN AsIs(p)
  ELSE IF ShouldOffload(p) THEN Offloaded(p)
  ELSE IF p.tool = "other" THEN AsIs(p)
  ELSE Inline(p)

-----------------------------------------------------------------------------
(* Views of an artifact (views.py).                                          *)

(* Which lists of the payload a view pages through; "full" is its text. *)
Views == [search_knowledge |-> {<<"evidence", {"evidence"}>>,
                                <<"papers", {"papers"}>>},
          read_paper |-> {<<"passages", {"passages"}>>,
                          <<"elements", {"elements"}>>,
                          <<"evidence", {"passages", "elements"}>>},
          compare_papers |-> {<<"all-cells", {"dimensions", "cells"}>>,
                              <<"evidence", {"evidence"}>>},
          worker_result |-> {<<"evidence", {"evidence"}>>}]

Full == <<"full", Part>>
ViewsOf(p) == {Full} \cup (IF p.tool \in DOMAIN Views THEN Views[p.tool] ELSE {})

(* The items of those lists, in order. *)
Listed(p, v) ==
  LET upTo[n \in 0 .. Len(p.items)] ==
        IF n = 0 THEN <<>>
        ELSE IF p.items[n].part \in v[2] THEN Append(upTo[n - 1], n)
        ELSE upTo[n - 1]
  IN  upTo[Len(p.items)]

(* Text is a sequence of tokens <<i, n>>: the n-th of item i, or of the other *)
(* fields of the payload if i is 0.  A view offers units of text: the items   *)
(* it pages through, or the whole payload.                                    *)
Text(p, i) ==
  [n \in 1 .. (IF i = 0 THEN p.head ELSE p.items[i].size) |-> <<i, n>>]

Units(p, v) ==
  IF v = Full
    THEN <<FlattenSeq(<<Text(p, 0)>> \o [i \in 1 .. Len(p.items) |-> Text(p, i)])>>
    ELSE [k \in 1 .. Len(Listed(p, v)) |-> Text(p, Listed(p, v)[k])]

Start == [unit |-> 1, token |-> 0]     \* no cursor
Done == [unit |-> 0, token |-> 0]      \* no next_cursor

(* Faulty variant: the next page starts after the unit that did not fit. *)
UnitAfterNext(units, k) ==
  IF k + 1 > Len(units) THEN Done ELSE [unit |-> k + 1, token |-> 0]
UnitCursor(units, k) ==
  IF k > Len(units) THEN Done ELSE [unit |-> k, token |-> 0]

Page(content, next, tokens) == [text |-> content, next |-> next, tokens |-> tokens]
NoPage == [text |-> <<>>, next |-> Done, tokens |-> 0]

(* _page_items and the direct answer of _bounded_content: the units from      *)
(* cursor c that fit as a whole.                                             *)
WholeUnits(units, c, frame, max) ==
  IF c.token > 0 THEN 0
  ELSE Max({0} \cup {n \in 1 .. Len(units) - c.unit + 1 :
         frame + Len(FlattenSeq(SubSeq(units, c.unit, c.unit + n - 1))) <= max})

WholePage(units, c, frame, n) ==
  LET content == FlattenSeq(SubSeq(units, c.unit, c.unit + n - 1))
  IN  Page(content, UnitCursor(units, c.unit + n), frame + Len(content))

(* _fragment_item and the fragments of _bounded_content: as much of one unit  *)
(* as fits.                                                                   *)
Fragment(units, c, max) ==
  LET unit == units[c.unit]
      last == Lesser(Len(unit), c.token + max - FragmentFrame)
  IN  IF last <= c.token THEN NoPage
      ELSE Page(SubSeq(unit, c.token + 1, last),
                IF last < Len(unit) THEN [c EXCEPT !.token = last]
                                    ELSE UnitCursor(units, c.unit + 1),
                FragmentFrame + last - c.token)

(* extract_view: NoPage when max_tokens is too small for any of it. *)
PageOf(p, v, c, max) ==
  LET units == Units(p, v)
      frame == IF v = Full THEN 0 ELSE PageFrame
      whole == WholeUnits(units, c, frame, max)
  IN  IF c.unit > Len(units)
        THEN IF frame <= max THEN Page(<<>>, Done, frame) ELSE NoPage
      ELSE IF whole > 0 THEN WholePage(units, c, frame, whole)
      ELSE Fragment(units, c, max)

(* Faulty variant: only items that came whole are cited. *)
VisibleInWholeItems(p, content) ==
  {label \in Manifest(p) : \E i \in DOMAIN p.items :
     p.items[i].cite = label /\ ToSet(Text(p, i)) \subseteq ToSet(content)}

(* _content_contains_citation: the labels of the manifest that stand whole in *)
(* a page, in whichever list.                                                *)
Visible(p, content) ==
  {label \in Manifest(p) : \E i \in DOMAIN p.items :
     /\ p.items[i].cite = label
     /\ \A n \in 1 .. LabelSize : <<i, p.items[i].at + n>> \in ToSet(content)}

-----------------------------------------------------------------------------

Init ==
  /\ results = <<>>
  /\ artifact = 0
  /\ view = Full
  /\ cursor = Done
  /\ text = <<>>
  /\ cited = {}

(* Any tool but read_artifact answers with p. *)
CallTool(p) ==
  /\ Len(results) < MaxCalls
  /\ Len(SelectSeq(results, LAMBDA r : r.of.tool # "read_artifact")) < MaxTools
  /\ results' = Append(results, Materialized(p))
  /\ UNCHANGED readVars

(* What read_artifact answers with: max_tokens bounds the page only, and its  *)
(* citations and the fields around it come on top of it.                      *)
Slice(page, citations) ==
  [tool |-> "read_artifact", binary |-> FALSE, items |-> <<>>,
   head |-> Envelope + page.tokens + CitationSize * Cardinality(citations)]

(* read_artifact with cursor c of view v of the artifact of result k; `before` *)
(* is what was read of the view already.                                      *)
ReadArtifact(k, v, c, max, before, citedBefore) ==
  LET p == results[k].of
      page == PageOf(p, v, c, max)
  IN  /\ Len(results) < MaxCalls
      /\ IF max > Cap \/ page = NoPage
           THEN /\ results' = Append(results, AsIs(Slice(NoPage, {})))
                /\ UNCHANGED readVars
           ELSE /\ results' = Append(results,
                                    AsIs(Slice(page, Visible(p, page.text))))
                /\ artifact' = k
                /\ view' = v
                /\ cursor' = page.next
                /\ text' = before \o page.text
                /\ cited' = citedBefore \cup Visible(p, page.text)

Open(k, v, max) ==
  /\ results[k].handle # "none"
  /\ v \in ViewsOf(results[k].of)
  /\ ReadArtifact(k, v, Start, max, <<>>, {})

Continue(max) ==
  /\ cursor # Done
  /\ ReadArtifact(artifact, view, cursor, max, text, cited)

Next ==
  \/ \E p \in Payloads : CallTool(p)
  \/ \E max \in Asks :
       \/ \E k \in DOMAIN results : \E v \in ViewsOf(results[k].of) : Open(k, v, max)
       \/ Continue(max)

Spec == Init /\ [][Next]_vars

-----------------------------------------------------------------------------
(* Properties.                                                               *)

(* Whatever max_tokens each page is asked with, the pages of a view, joined   *)
(* in the order of their cursors, are its text up to the cursor, nothing      *)
(* missing and nothing twice, and all of it at the end (_page_items,          *)
(* _fragment_item, _bounded_content).                                        *)
PagesAreLossless ==
  artifact # 0 =>
    LET units == Units(results[artifact].of, view)
        read == IF cursor = Done THEN units ELSE SubSeq(units, 1, cursor.unit - 1)
        part == IF cursor = Done THEN <<>>
                ELSE SubSeq(units[cursor.unit], 1, cursor.token)
    IN  text = FlattenSeq(read) \o part

(* Who has read a list to its end, in pages that hold at least an item up to  *)
(* its label, can cite every item of it (_content_contains_citation); of the  *)
(* full text a label may fall between two pages.                             *)
ReadItemsAreCitable ==
  artifact # 0 /\ cursor = Done /\ view # Full =>
    LET p == results[artifact].of
        listed == ToSet(Listed(p, view))
    IN  (\A i \in listed : \A max \in Asks :
           FragmentFrame + p.items[i].at + LabelSize <= max)
        => {p.items[i].cite : i \in listed} \cap Manifest(p) \subseteq cited

(* The items a cut has to keep before it keeps item i, and i itself. *)
KeptFirst(p, i) ==
  {j \in DOMAIN p.items :
     \/ \E m, n \in DOMAIN Priority :
          m < n /\ Priority[m] = p.items[j].part /\ Priority[n] = p.items[i].part
     \/ p.items[j].part = p.items[i].part /\ NotAfter(p, j, i)}

(* What a view leaves out of a result that is small enough to stay inline:    *)
(* a crowded paper's evidence (_select_balanced), what a comparison says in   *)
(* its cells and evidence, a list's entries beyond MaxListed, the citations   *)
(* of a collection, the evidence artifacts of an analysis whose claims,       *)
(* charged twice, take their place (_compact_rod).                            *)
LeftOut(p, i) ==
  \/ ListOf(p, i) = <<"search_knowledge", "evidence">> /\ Rank(p, i) >= PerPaper
  \/ ListOf(p, i) \in {<<"compare_papers", "cells">>, <<"compare_papers", "evidence">>}
  \/ ListOf(p, i) \in TakenShort /\ Nth(p, i) > MaxListed
  \/ ListOf(p, i) = <<"collect_research_task", "citations">>
  \/ /\ ListOf(p, i) = <<"retrieve_and_analyze_knowledge", "artifacts">>
     /\ 2 * Size(p, OfPart(p, DOMAIN p.items, "claims"))
          + Size(p, OfPart(p, DOMAIN p.items, "artifacts")) > MaxInline

(* And what a cut takes from it when the fields its view adds make it larger  *)
(* than it was: all hits of a search of artifacts, or what comes last in      *)
(* Priority (_enforce_model_budget).                                         *)
CutAway(p, i) ==
  IF p.items[i].part = "results" THEN Tokens(p) + Wrapper > MaxInline
  ELSE p.head + Wrapper + Size(p, KeptFirst(p, i)) > MaxInline

(* What the model does not see of a stored result it can read: the result     *)
(* keeps its handle in the smallest preview.  A result kept inline has no     *)
(* handle, and what it leaves out is lost: that is nothing but what its view  *)
(* leaves out and what a cut at the margin of its budget takes.               *)
OmittedItemsAreReachable ==
  \A k \in DOMAIN results :
    LET r == results[k]
    IN  /\ r.offloaded => r.handle # "none"
        /\ ~ r.offloaded =>
             \A i \in DOMAIN r.of.items \ r.shown :
               r.of.tool # "other" /\ (LeftOut(r.of, i) \/ CutAway(r.of, i))

(* The model is never given more than a result's budget, unless a handle      *)
(* alone is larger; a page has its own, and brings as many citations as it    *)
(* has room for labels, uncut, on top of it (ReadArtifactToolAdapter).  And    *)
(* the results kept inline never take the sum over the session's budget but   *)
(* by the fields of one view (should_offload).                                *)
ToolTokensAreBounded ==
  /\ \A k \in DOMAIN results :
       results[k].tokens <=
         IF results[k].of.tool = "read_artifact"
           THEN Envelope + Cap + CitationSize * (Cap \div LabelSize)
         ELSE IF results[k].offloaded THEN Greater(Preview, IdSize)
         ELSE MaxInline
  /\ TokensOf({k \in DOMAIN results :
                ~ results[k].offloaded /\ results[k].of.tool # "read_artifact"})
       <= MaxTotal + Wrapper
=============================================================================
