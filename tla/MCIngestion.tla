----------------------------- MODULE MCIngestion -----------------------------
(* Instances of Ingestion for TLC: configurations before and after upgrades. *)
EXTENDS Ingestion, TLC

CONSTANTS r1, r2

Base == [parser |-> "poppler", structurer |-> 1, chunker |-> 1, embedder |-> 1]

(* Any one stage changes, and may change back. *)
Upgrades ==
  {Base, [Base EXCEPT !.parser = "pymupdf"], [Base EXCEPT !.structurer = 2],
   [Base EXCEPT !.chunker = 2], [Base EXCEPT !.embedder = 2]}

ParserUpgrade == {Base, [Base EXCEPT !.parser = "pymupdf"]}

RunSymmetry == Permutations(Runs)
=============================================================================
