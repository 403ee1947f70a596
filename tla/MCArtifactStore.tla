--------------------------- MODULE MCArtifactStore ----------------------------
(* Instances of ArtifactStore for TLC: artifacts a1 and a2 are two records   *)
(* of one content (two tool calls with the same payload), sharing its blob.  *)
EXTENDS ArtifactStore, TLC

CONSTANTS a1, a2, c1, p1, p2

Twins == [a \in {a1, a2} |-> c1]

ClientSymmetry == Permutations({p1, p2})
=============================================================================
