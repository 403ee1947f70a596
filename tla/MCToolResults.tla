----------------------------- MODULE MCToolResults ----------------------------
(* Instances of ToolResults for TLC: one payload of each shape.  Tokens count *)
(* for hundreds: a preview of 4 stands for preview_tokens = 800.             *)
EXTENDS ToolResults

Item1(part, paper, relevance, size, cite) ==
  [part |-> part, paper |-> paper, relevance |-> relevance, size |-> size,
   cite |-> cite, at |-> 0]

Answer(tool, head, items) ==
  [tool |-> tool, binary |-> FALSE, head |-> head, items |-> items]

(* Three passages on one paper and one on another, the best of them last. *)
Search ==
  Answer("search_knowledge", 1,
    <<Item1("evidence", 1, 2, 1, 1), Item1("evidence", 1, 3, 1, 2),
      Item1("evidence", 2, 1, 2, 3), Item1("evidence", 1, 4, 1, 4)>>)
LongSearch ==
  Answer("search_knowledge", 1,
    <<Item1("evidence", 1, 2, 5, 1), Item1("evidence", 2, 1, 2, 2),
      Item1("papers", 1, 0, 1, 0), Item1("papers", 2, 0, 1, 0)>>)
Reading ==
  Answer("read_paper", 1,
    <<Item1("passages", 1, 0, 2, 1), Item1("passages", 1, 0, 3, 2),
      Item1("elements", 1, 0, 1, 3)>>)
(* Just small enough to stay inline, and too large with the fields of a view. *)
EdgeReading ==
  Answer("read_paper", 1,
    <<Item1("passages", 1, 0, 4, 1), Item1("passages", 1, 0, 2, 2)>>)
EdgeCatalog == Answer("search_artifact", 1, <<Item1("results", 1, 0, 6, 0)>>)
Comparison ==
  Answer("compare_papers", 2,
    <<Item1("dimensions", 1, 0, 1, 0), Item1("cells", 2, 0, 1, 0),
      Item1("evidence", 1, 0, 1, 1)>>)
Rod ==
  Answer("retrieve_and_analyze_knowledge", 1,
    <<Item1("claims", 1, 0, 1, 0), Item1("reports", 1, 0, 2, 0),
      Item1("artifacts", 1, 0, 1, 0), Item1("citations", 1, 0, 1, 1)>>)
(* Small enough to stay inline, but not with its claims charged twice. *)
LongClaims ==
  Answer("retrieve_and_analyze_knowledge", 1,
    <<Item1("claims", 1, 0, 4, 0), Item1("artifacts", 1, 0, 1, 0)>>)
Collection ==
  Answer("collect_research_task", 1,
    <<Item1("refs", 1, 0, 1, 0), Item1("failed", 1, 0, 1, 0),
      Item1("questions", 1, 0, 1, 0), Item1("questions", 1, 0, 1, 0),
      Item1("citations", 1, 0, 1, 1)>>)
Failure == Answer("other", 1, <<>>)
Binary == [Answer("other", 6, <<>>) EXCEPT !.binary = TRUE]
Worker ==
  Answer("worker_result", 1,
    <<Item1("evidence", 1, 0, 2, 1), Item1("citations", 1, 0, 1, 1),
      Item1("questions", 1, 0, 1, 0)>>)
Catalog == Answer("search_artifact", 1, <<Item1("results", 1, 0, 1, 0)>>)
Delegation ==
  Answer("delegate_research", 1,
    <<Item1("units", 1, 0, 1, 0), Item1("units", 1, 0, 1, 0),
      Item1("workers", 1, 0, 1, 0)>>)

Answers == {Search, LongSearch, Reading, EdgeReading, EdgeCatalog, Comparison, Rod,
            LongClaims, Collection, Failure, Binary, Worker, Catalog, Delegation}
=============================================================================
