---------------------------- MODULE MCShareLinks ----------------------------
(* ShareLinks with two versions of one document. *)
EXTENDS ShareLinks, TLC

CONSTANTS d1, v1, v2

MCDocumentOf == [v \in {v1, v2} |-> d1]

Symmetry == Permutations(Requests) \cup Permutations(Links) \cup Permutations(Versions)
=============================================================================
