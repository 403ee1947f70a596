------------------------------- MODULE MCRodRag -------------------------------
(* Two chunks and two queries make four units: a later call finds those of an *)
(* earlier second round in its first, and units may be completed, failed and  *)
(* left behind by a crash in one task.                                        *)
EXTENDS RodRag

MCQuery == 1 .. 2
=============================================================================
