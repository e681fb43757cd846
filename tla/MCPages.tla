------------------------------ MODULE MCPages ------------------------------
(* Pages with symmetric editors and symmetric custom sections. *)
EXTENDS Pages, TLC

Symmetry == Permutations(Definitions \ {System}) \cup Permutations(Requests)
=============================================================================
