---------------------------- MODULE MCPlacements ----------------------------
(* Placements for TLC: two documents, a visible and a hidden section. *)
EXTENDS Placements, TLC

CONSTANTS d1, d2, r1, r2, visible, hidden

MCGroupOf == [s \in {visible, hidden} |-> IF s = visible THEN "GIA_9" ELSE "ABOUT"]

\* A super-administrator, and one restricted to the group of one section.
MCActors ==
    {[super |-> TRUE, mode |-> "NONE", groups |-> {}],
     [super |-> FALSE, mode |-> "SELECTED_GROUPS", groups |-> {"GIA_9"}]}

MCForms == {<<visible>>, <<visible, hidden>>}

Symmetry == Permutations({d1, d2}) \cup Permutations({r1, r2})
=============================================================================
