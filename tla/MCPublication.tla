--------------------------- MODULE MCPublication ---------------------------
(* Publication with one article, and one placement of one document. *)
EXTENDS Publication

CONSTANTS a1, p1, d1

MCDocumentOf == [p \in {p1} |-> d1]
=============================================================================
