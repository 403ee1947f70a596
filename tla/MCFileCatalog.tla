---------------------------- MODULE MCFileCatalog ----------------------------
(* Instances of FileCatalog for TLC.  The binaries bA and bB are two files of *)
(* one text and tell a DOI; bC is a scan without text that tells it and an    *)
(* arXiv id, bD another that tells this arXiv id and a title.                 *)
EXTENDS FileCatalog, TLC

CONSTANTS r1, r2, bA, bB, bC, bD, t, doi, arxiv, title

Texts == (bA :> t) @@ (bB :> t) @@ (bC :> None) @@ (bD :> None)
Names3(d, a, u) == [k \in Kind |-> CASE k = "doi" -> d [] k = "arxiv" -> a [] k = "title" -> u]
NameTable ==
  (bA :> Names3(doi, None, None)) @@ (bB :> Names3(doi, None, None))
    @@ (bC :> Names3(doi, arxiv, None)) @@ (bD :> Names3(None, arxiv, title))
Directories == {<<bA, bC>>}
RunSymmetry == Permutations(Runs)
=============================================================================
