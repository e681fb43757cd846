----------------------------- MODULE PageStore -----------------------------
(***************************************************************************)
(* What the page registry promises its editors: every accepted change is   *)
(* one atomic step of one page, or of all pages for a global section, and  *)
(* is counted by the revision of each page it can be seen on.              *)
(***************************************************************************)
EXTENDS Naturals

CONSTANTS
    Pages,       \* page keys of the registry, numbered in the order of page_key
    Definitions  \* primary keys of `section_definitions`

VARIABLES
    revision,    \* revision[p]: page_layouts.revision
    placements,  \* rows of `page_section_placements`
    kind,        \* kind[d]: the type of definition d, "unused", or "deleted"
    content      \* content[d]: section_definitions.revision

storeVars == <<revision, placements, kind, content>>

OnPage(p) == {s \in placements : s.page = p}
DefinitionsOn(p) == {s.definition : s \in OnPage(p)}

\* Larger than every sort_order of the page.
Last(n, p) == \A s \in OnPage(p) : s.order < n

\* Nothing of a page but `p` changes; p gets its next revision.
OnlyPage(p) ==
    /\ revision' = [revision EXCEPT ![p] = @ + 1]
    /\ {s \in placements' : s.page # p} = {s \in placements : s.page # p}

AddSection(p) ==
    \E d \in Definitions, s \in placements' :
        /\ kind[d] = "unused" /\ kind' = [kind EXCEPT ![d] = "page"]
        /\ s.page = p /\ s.definition = d /\ Last(s.order, p)
        /\ placements' = placements \cup {s}
        /\ UNCHANGED content

EditSection(p) ==
    \E d \in DefinitionsOn(p) :
        /\ kind[d] = "page"
        /\ content' = [content EXCEPT ![d] = @ + 1]
        /\ UNCHANGED <<placements, kind>>

RemoveSection(p) ==
    \E d \in DefinitionsOn(p) :
        /\ kind[d] = "page" /\ kind' = [kind EXCEPT ![d] = "deleted"]
        /\ placements' = {s \in placements : s.definition # d}
        /\ UNCHANGED content

\* The sections of the page are shown, hidden or put in another order.
Arrange(p) ==
    /\ {s.definition : s \in {t \in placements' : t.page = p}} = DefinitionsOn(p)
    /\ UNCHANGED <<kind, content>>

ChangePage(p) ==
    /\ OnlyPage(p)
    /\ AddSection(p) \/ EditSection(p) \/ RemoveSection(p) \/ Arrange(p)

EveryRevision == revision' = [p \in Pages |-> revision[p] + 1]

\* One new section, last on every page.
AddGlobal ==
    \E d \in Definitions :
        /\ kind[d] = "unused" /\ kind' = [kind EXCEPT ![d] = "global"]
        /\ {s \in placements' : s.definition # d} = placements
        /\ \A p \in Pages : \E s \in placements' :
              s.page = p /\ s.definition = d /\ Last(s.order, p)
        /\ EveryRevision /\ UNCHANGED content

RemoveGlobal ==
    \E d \in Definitions :
        /\ kind[d] = "global" /\ kind' = [kind EXCEPT ![d] = "deleted"]
        /\ placements' = {s \in placements : s.definition # d}
        /\ EveryRevision /\ UNCHANGED content

\* The content of a global section has a revision of its own.
EditGlobal ==
    \E d \in Definitions :
        /\ kind[d] = "global"
        /\ content' = [content EXCEPT ![d] = @ + 1]
        /\ UNCHANGED <<revision, placements, kind>>

Init ==
    /\ revision = [p \in Pages |-> 0]
    /\ \A p \in Pages : \A s, t \in OnPage(p) : s.order = t.order => s = t
    /\ content = [d \in Definitions |-> 1]

Next == AddGlobal \/ RemoveGlobal \/ EditGlobal \/ \E p \in Pages : ChangePage(p)

Spec == Init /\ [][Next]_storeVars
=============================================================================
