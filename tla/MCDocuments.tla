---------------------------- MODULE MCDocuments ----------------------------
(* Documents with symmetric sets of names. *)
EXTENDS Documents, TLC

Symmetry ==
    Permutations(DocumentIds) \cup Permutations(Contents)
        \cup Permutations(Keys) \cup Permutations(Requests)
=============================================================================
