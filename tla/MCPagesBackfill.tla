-------------------------- MODULE MCPagesBackfill --------------------------
(* PagesBackfill for TLC: a page with two system sections, one of them new, *)
(* a legacy section and the obsolete one, and the page without contacts.    *)
EXTENDS PagesBackfill, TLC

CONSTANTS gia, about, hero, essay, legacy, banner, b1, b2, b3

MCOwner == (hero :> gia) @@ (essay :> gia) @@ (legacy :> gia) @@ (Obsolete :> gia)
MCIndex == (hero :> 0) @@ (essay :> 1)
MCRank == (hero :> 0) @@ (legacy :> 1) @@ (essay :> 2) @@ (Contacts :> 3) @@ (banner :> 4)

Symmetry == Permutations({b1, b2, b3})
=============================================================================
