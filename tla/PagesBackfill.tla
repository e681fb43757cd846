--------------------------- MODULE PagesBackfill ---------------------------
(***************************************************************************)
(* The repair of the page tables: PagesBackfillService, run from the       *)
(* command line while the server serves.  It reads the tables by separate  *)
(* statements, plans what is missing or obsolete, and applies the plan in  *)
(* one transaction.  Editors change pages in between; each accepted edit   *)
(* is one step here, as PageStore promises and Pages shows.                *)
(*                                                                         *)
(* A definition is known to the plan by its key: a section of the registry *)
(* or of the legacy tables, which nobody changes any more.  `changed` says *)
(* that its columns are not those which the registry or legacy row gives.  *)
(* The commit of a plan is one step: what it has written nobody sees       *)
(* before, and the rows it found are locked by its writes.                 *)
(***************************************************************************)
EXTENDS Naturals, FiniteSets, FiniteSetsExt

CONSTANTS
    Pages,       \* PAGE_REGISTRY
    NoContacts,  \* pages with includeGlobalContacts: false
    SystemKeys,  \* systemSections of all pages
    CustomKeys,  \* legacy.page-section.<id>
    GlobalKeys,  \* legacy.global-html.<id>
    Contacts,    \* global.contacts
    Obsolete,    \* gia-11.additional, which the registry no longer has
    Owner,       \* Owner[k]: the page of a system, custom or obsolete section
    Index,       \* Index[k]: position of a system section in the registry
    Rank,        \* Rank[k]: place in the legacy order of a page: its own
                 \* sections by sort_order and id, contacts, then the globals
    Runs,        \* invocations of the backfill
    MaxRevision, \* bound: editors leave a page with this revision alone
    MaxId,       \* bound: definitions ever created
    None         \* no key

PageKeys == SystemKeys \cup CustomKeys
WantedKeys == PageKeys \cup {Contacts} \cup GlobalKeys
Keys == WantedKeys \cup {Obsolete}

\* validateRegistry: every key belongs to one page, and contacts to none.  A
\* registry that fails it gives a conflict, and no plan is applied.
RegistryIsValid ==
    /\ Owner \in [PageKeys \cup {Obsolete} -> Pages]
    /\ Contacts \notin SystemKeys

ASSUME RegistryAssumption ==
    /\ IsFiniteSet(Pages) /\ NoContacts \subseteq Pages
    /\ IsFiniteSet(Keys) /\ None \notin Keys /\ Obsolete \notin WantedKeys
    /\ RegistryIsValid /\ SystemKeys \cap CustomKeys = {}
    /\ Index \in [SystemKeys -> Nat]
ASSUME RankAssumption ==
    /\ Rank \in [WantedKeys -> Nat]
    /\ \A j, k \in WantedKeys : Rank[j] = Rank[k] => j = k
    /\ \A k \in PageKeys : Rank[k] < Rank[Contacts]
    /\ \A k \in GlobalKeys : Rank[Contacts] < Rank[k]
\* The rows of the earlier release fit in.
ASSUME BoundsAssumption == MaxRevision \in Nat /\ MaxId \in Nat /\ MaxId >= 3

VARIABLES
    layouts,     \* pages with a row in `page_layouts`
    stray,       \* a layout of an unknown page is there, too
    revision,    \* revision[p]: page_layouts.revision
    definitions, \* rows of `section_definitions`
    lastId,      \* the last id given to a definition
    placements,  \* rows of `page_section_placements`
    pc,          \* pc[b]: what run b does next
    seenLayouts, seenPlacements,  \* what it has read
    plan,        \* plan[b]
    undisturbed, \* history: runs since whose start no editor changed anything
    applied,     \* history: a plan was applied
    converged    \* history: by an undisturbed run, and no editor came since

tables == <<layouts, stray, revision, definitions, lastId, placements>>
runVars == <<pc, seenLayouts, seenPlacements, plan>>
history == <<undisturbed, applied, converged>>
vars == <<tables, runVars, history>>

Types == {"PAGE_SYSTEM", "GLOBAL_SYSTEM", "PAGE_CUSTOM_HTML", "GLOBAL_CUSTOM_HTML"}
CustomTypes == {"PAGE_CUSTOM_HTML", "GLOBAL_CUSTOM_HTML"}
Definitions == [id : 1..MaxId, key : Keys \cup {None}, type : Types, changed : BOOLEAN]
Placements == [page : Pages, definition : 1..MaxId, order : Nat]
Seen == [page : Pages, definition : 1..MaxId, order : Nat, key : Keys \cup {None}]
Plans == [blocked : BOOLEAN, layouts : SUBSET Pages, create : SUBSET WantedKeys,
          update : SUBSET (1..MaxId), add : SUBSET [page : Pages, key : WantedKeys, order : Nat],
          remove : SUBSET [page : Pages, definition : 1..MaxId], drop : SUBSET (1..MaxId),
          bump : SUBSET Pages]

NoPlan == [blocked |-> FALSE, layouts |-> {}, create |-> {}, update |-> {}, add |-> {},
           remove |-> {}, drop |-> {}, bump |-> {}]

\* Among others, what unique indexes and foreign keys enforce.
TypeOK ==
    /\ layouts \subseteq Pages /\ stray \in BOOLEAN
    /\ revision \in [Pages -> Nat]
    /\ definitions \subseteq Definitions /\ lastId \in 0..MaxId
    /\ \A d, e \in definitions : d.id = e.id \/ (d.key = e.key /\ d.key # None) => d = e
    /\ placements \subseteq Placements
    /\ \A s, t \in placements : s.page = t.page /\ s.definition = t.definition => s = t
    /\ \A s \in placements : s.page \in layouts /\ \E d \in definitions : d.id = s.definition
    /\ pc \in [Runs -> {"idle", "layoutsRead", "placementsRead", "planned", "ended"}]
    /\ seenLayouts \in [Runs -> SUBSET Pages]
    /\ seenPlacements \in [Runs -> SUBSET Seen] /\ plan \in [Runs -> Plans]
    /\ undisturbed \subseteq Runs /\ applied \in BOOLEAN /\ converged \in BOOLEAN

TypeOf(k) ==
    CASE k \in SystemKeys \cup {Obsolete} -> "PAGE_SYSTEM"
      [] k = Contacts                     -> "GLOBAL_SYSTEM"
      [] k \in CustomKeys                 -> "PAGE_CUSTOM_HTML"
      [] OTHER                            -> "GLOBAL_CUSTOM_HTML"

Row(i, k) == [id |-> i, key |-> k, type |-> TypeOf(k), changed |-> FALSE]

\* What an earlier release left: contacts on every page, the obsolete section
\* and one system section, which is the first of its page.
Inherited(k) ==
    /\ layouts = Pages
    /\ definitions = {Row(1, k), Row(2, Obsolete), Row(3, Contacts)}
    /\ placements = {[page |-> Owner[k], definition |-> 1, order |-> 0],
                     [page |-> Owner[Obsolete], definition |-> 2, order |-> 1]}
           \cup {[page |-> p, definition |-> 3, order |-> 2] : p \in Pages}
    /\ lastId = 3 /\ stray = FALSE

\* The seed creates layouts and legacy rows only; a definition with one of the
\* keys may be somebody else's.
Seeded ==
    /\ \A k \in CustomKeys : Owner[k] \in layouts
    /\ placements = {}
    /\ \/ definitions = {} /\ lastId = 0
       \/ /\ \E k \in CustomKeys : definitions =
                 {[id |-> 1, key |-> k, type |-> "GLOBAL_CUSTOM_HTML", changed |-> TRUE]}
          /\ lastId = 1

Init ==
    /\ layouts \in SUBSET Pages /\ stray \in BOOLEAN
    /\ Seeded \/ \E k \in SystemKeys : Index[k] = 0 /\ Owner[k] = Owner[Obsolete] /\ Inherited(k)
    /\ revision = [p \in Pages |-> 0]
    /\ pc = [b \in Runs |-> "idle"]
    /\ seenLayouts = [b \in Runs |-> {}] /\ seenPlacements = [b \in Runs |-> {}]
    /\ plan = [b \in Runs |-> NoPlan]
    /\ undisturbed = {} /\ applied = FALSE /\ converged = FALSE

-----------------------------------------------------------------------------
(* analyze: the plan for what has been read.                               *)

KeyOf(i) == (CHOOSE d \in definitions : d.id = i).key
IdsOf(k, D) == {d.id : d \in {e \in D : e.key = k}}

\* The sections that page p is to have.
Desired(p) ==
    {k \in PageKeys : Owner[k] = p} \cup GlobalKeys \cup (IF p \in NoContacts THEN {} ELSE {Contacts})

\* INVALID_PAGE_KEY, or a key that is owned by an incompatible definition.
Blocked(D) == stray \/ \E d \in D : d.key \in WantedKeys /\ d.type # TypeOf(d.key)

ToCreate(D) == {k \in WantedKeys : IdsOf(k, D) = {}}

\* Mutation of ToUpdate: rows are rewritten whether they differ or not.
ToUpdate_All(D) == {d \in D : d.key \in WantedKeys}

\* Mutation of ToUpdate: any changed definition is rewritten, managed or not.
ToUpdate_AnyRow(D) == {d \in D : d.changed}

\* definitionChanged.
ToUpdate(D) == {d \in D : d.key \in WantedKeys /\ d.changed}

\* A page without sections is numbered from 0; otherwise a system section gets
\* its place of the registry and the others follow the last one.
Position(k, missing, orders) ==
    CASE orders = {}     -> Cardinality({j \in missing : Rank[j] < Rank[k]})
      [] k \in SystemKeys -> Index[k]
      [] OTHER           -> Max(orders) + 1 + Cardinality({j \in missing \ SystemKeys : Rank[j] < Rank[k]})

ToAdd(p, S) ==
    LET here == {s \in S : s.page = p}
        missing == Desired(p) \ {s.key : s \in here}
    IN {[page |-> p, key |-> k, order |-> Position(k, missing, {s.order : s \in here})] : k \in missing}

\* Mutation of ToRemove: contacts are removed wherever they are.
ToRemove_AnyPage(S, D) == {s \in S : s.definition \in IdsOf(Contacts, D) \cup IdsOf(Obsolete, D)}

\* planManagedPlacementDeletion.
ToRemove(S, D) ==
    {s \in S : \/ s.page \in NoContacts /\ s.definition \in IdsOf(Contacts, D)
               \/ s.page = Owner[Obsolete] /\ s.definition \in IdsOf(Obsolete, D)}

\* The obsolete definition, unless it stays on another page.
ToDrop(S, D) ==
    {i \in IdsOf(Obsolete, D) : \A s \in S \ ToRemove(S, D) : s.definition # i}

\* Mutation of ToBump: pages of which only a definition is updated are left out.
ToBump_Placements(S, D, add) == {a.page : a \in add} \cup {s.page : s \in ToRemove(S, D)}

\* revisionPageKeys.
ToBump(S, D, add) ==
    {a.page : a \in add} \cup {s.page : s \in ToRemove(S, D)}
    \cup {Owner[d.key] : d \in {e \in ToUpdate(D) : e.key \in PageKeys}}
    \cup {s.page : s \in {t \in S : \E d \in ToUpdate(D) : d.key \notin PageKeys /\ d.id = t.definition}}

Plan(L, S, D) ==
    LET add == UNION {ToAdd(p, S) : p \in Pages} IN
    [blocked |-> Blocked(D),
     layouts |-> Pages \ L,
     create  |-> ToCreate(D),
     update  |-> {d.id : d \in ToUpdate(D)},
     add     |-> add,
     remove  |-> {[page |-> s.page, definition |-> s.definition] : s \in ToRemove(S, D)},
     drop    |-> ToDrop(S, D),
     bump    |-> ToBump(S, D, add)]

Advance(b, from, to) == pc[b] = from /\ pc' = [pc EXCEPT ![b] = to]

ReadLayouts(b) ==
    /\ Advance(b, "idle", "layoutsRead")
    /\ seenLayouts' = [seenLayouts EXCEPT ![b] = layouts]
    /\ undisturbed' = undisturbed \cup {b}
    /\ UNCHANGED <<tables, seenPlacements, plan, applied, converged>>

\* The placements of these layouts, with the keys of their definitions.
ReadPlacements(b) ==
    /\ Advance(b, "layoutsRead", "placementsRead")
    /\ seenPlacements' = [seenPlacements EXCEPT ![b] =
           {[page |-> s.page, definition |-> s.definition, order |-> s.order, key |-> KeyOf(s.definition)]
                : s \in {t \in placements : t.page \in seenLayouts[b]}}]
    /\ UNCHANGED <<tables, seenLayouts, plan, history>>

Forget(b) ==
    /\ seenLayouts' = [seenLayouts EXCEPT ![b] = {}]
    /\ seenPlacements' = [seenPlacements EXCEPT ![b] = {}]

ReadDefinitions(b) ==
    /\ Advance(b, "placementsRead", "planned")
    /\ plan' = [plan EXCEPT ![b] = Plan(seenLayouts[b], seenPlacements[b], definitions)]
    /\ Forget(b)
    /\ UNCHANGED <<tables, history>>

-----------------------------------------------------------------------------
(* apply.                                                                  *)

End(b) ==
    /\ Advance(b, "planned", "ended")
    /\ plan' = [plan EXCEPT ![b] = NoPlan]
    /\ UNCHANGED <<seenLayouts, seenPlacements>>

\* The definition rows after the creations and updates of plan P.
IdFor(P, k) == lastId + Cardinality({j \in P.create : Rank[j] <= Rank[k]})
Written(P) ==
    {IF d.id \in P.update THEN [d EXCEPT !.changed = FALSE] ELSE d : d \in definitions}
    \cup {Row(IdFor(P, k), k) : k \in P.create}
Kept(P) == {s \in placements : [page |-> s.page, definition |-> s.definition] \notin P.remove}

\* Mutation of Applicable: the key of a definition is not unique.
Applicable_AnyKey(P) ==
    /\ P.layouts \cap layouts = {}
    /\ P.update \cup P.drop \subseteq {d.id : d \in definitions}

\* Every statement of the transaction finds what it names: no layout or key is
\* there twice, no row is gone, no page has the section already.
Applicable(P) ==
    /\ P.layouts \cap layouts = {}
    /\ P.create \cap {d.key : d \in definitions} = {}
    /\ P.update \cup P.drop \subseteq {d.id : d \in definitions}
    /\ P.remove \subseteq {[page |-> s.page, definition |-> s.definition] : s \in placements}
    /\ \A a \in P.add :
        /\ IdsOf(a.key, Written(P)) # {}
        /\ \A s \in Kept(P) : s.page = a.page => s.definition \notin IdsOf(a.key, Written(P))

\* Placements of the obsolete definition are counted once more.
Dropped(P) == {i \in P.drop : \A s \in Kept(P) : s.definition # i}

Added(P) ==
    UNION {{[page |-> a.page, definition |-> i, order |-> a.order] : i \in IdsOf(a.key, Written(P))} : a \in P.add}

Apply(b) ==
    LET P == plan[b] IN
    /\ ~P.blocked /\ Applicable(P)
    /\ lastId + Cardinality(P.create) <= MaxId
    /\ layouts' = layouts \cup P.layouts
    /\ definitions' = {d \in Written(P) : d.id \notin Dropped(P)}
    /\ lastId' = lastId + Cardinality(P.create)
    /\ placements' = Kept(P) \cup Added(P)
    /\ revision' = [p \in Pages |-> IF p \in P.bump THEN revision[p] + 1 ELSE revision[p]]
    /\ End(b)
    /\ applied' = TRUE /\ converged' = (converged \/ b \in undisturbed)
    /\ UNCHANGED <<stray, undisturbed>>

\* A conflict, or a statement that fails: nothing is written.
Abort(b) == End(b) /\ UNCHANGED <<tables, history>>

-----------------------------------------------------------------------------
(* Editors: the commits of PagesService.                                   *)

Edited == undisturbed' = {} /\ converged' = FALSE /\ UNCHANGED <<runVars, stray, layouts, applied>>

\* reservePageRevision, for the revision that the editor has just been shown.
Reserve(p) ==
    /\ p \in layouts /\ revision[p] < MaxRevision
    /\ revision' = [revision EXCEPT ![p] = @ + 1]
    /\ Edited

OnPage(p) == {s \in placements : s.page = p}
NextPosition(p) == Max({0} \cup {s.order + 1 : s \in OnPage(p)})
New(type) == [id |-> lastId + 1, key |-> None, type |-> type, changed |-> TRUE]
Place(p) == [page |-> p, definition |-> lastId + 1, order |-> NextPosition(p)]

\* A definition of this type on p.
Custom(type, p) == {d \in definitions : d.type = type /\ \E s \in OnPage(p) : s.definition = d.id}

Change(d) == definitions' = (definitions \ {d}) \cup {[d EXCEPT !.changed = TRUE]}

Delete(d) ==
    /\ definitions' = definitions \ {d}
    /\ placements' = {s \in placements : s.definition # d.id}

CreatePageCustom(p) ==
    /\ Reserve(p)
    /\ lastId < MaxId /\ lastId' = lastId + 1
    /\ definitions' = definitions \cup {New("PAGE_CUSTOM_HTML")}
    /\ placements' = placements \cup {Place(p)}

UpdatePageCustom(p) ==
    /\ Reserve(p)
    /\ \E d \in Custom("PAGE_CUSTOM_HTML", p) : Change(d)
    /\ UNCHANGED <<lastId, placements>>

DeletePageCustom(p) ==
    /\ Reserve(p)
    /\ \E d \in Custom("PAGE_CUSTOM_HTML", p) : Delete(d)
    /\ UNCHANGED lastId

\* Of the orders that an editor may send: one section goes to the end.
Before(s, t) == s.order < t.order \/ (s.order = t.order /\ s.definition < t.definition)
Reorder(p) ==
    /\ Reserve(p)
    /\ \E s \in OnPage(p) :
        LET others == OnPage(p) \ {s} IN
        placements' = (placements \ OnPage(p))
            \cup {[t EXCEPT !.order = Cardinality({u \in others : Before(u, t)})] : t \in others}
            \cup {[s EXCEPT !.order = Cardinality(others)]}
    /\ UNCHANGED <<definitions, lastId>>

\* lockRegistryLayouts: all layouts must be there.
ReserveAll ==
    /\ layouts = Pages /\ \A p \in Pages : revision[p] < MaxRevision
    /\ revision' = [p \in Pages |-> revision[p] + 1]
    /\ Edited

CreateGlobal ==
    /\ ReserveAll
    /\ lastId < MaxId /\ lastId' = lastId + 1
    /\ definitions' = definitions \cup {New("GLOBAL_CUSTOM_HTML")}
    /\ placements' = placements \cup {Place(p) : p \in Pages}

\* Its pages keep their revisions.  It counts the definition's own revision, which
\* no plan reads or writes and which is left out.
UpdateGlobal ==
    /\ \E d \in definitions : d.type = "GLOBAL_CUSTOM_HTML" /\ Change(d)
    /\ Edited
    /\ UNCHANGED <<revision, lastId, placements>>

DeleteGlobal ==
    /\ ReserveAll
    /\ \E d \in definitions :
        /\ \A p \in Pages : d \in Custom("GLOBAL_CUSTOM_HTML", p)
        /\ Delete(d)
    /\ UNCHANGED lastId

-----------------------------------------------------------------------------

Analyze(b) == ReadLayouts(b) \/ ReadPlacements(b) \/ ReadDefinitions(b)
EditPage(p) == CreatePageCustom(p) \/ UpdatePageCustom(p) \/ DeletePageCustom(p) \/ Reorder(p)
EditGlobals == CreateGlobal \/ UpdateGlobal \/ DeleteGlobal

Next ==
    \/ \E b \in Runs : Analyze(b) \/ Apply(b) \/ Abort(b)
    \/ \E p \in Pages : EditPage(p)
    \/ EditGlobals

Spec == Init /\ [][Next]_vars

-----------------------------------------------------------------------------
(* What must hold.                                                         *)

\* "true repeated-apply idempotence": after an apply that no editor disturbed,
\* whatever other runs committed or gave up, the next one has nothing to do.
RepeatedApplyIsNoOp == converged => Plan(layouts, {[page |-> s.page, definition |-> s.definition,
    order |-> s.order, key |-> KeyOf(s.definition)] : s \in placements}, definitions) = NoPlan

\* Once a plan was applied, no edit, and no other run that planned earlier,
\* takes a section of the registry or the contacts off a page.
SystemSectionsStay ==
    applied => \A p \in Pages : \A k \in Desired(p) \cap (SystemKeys \cup {Contacts}) :
        \E s \in placements : s.page = p /\ KeyOf(s.definition) = k

\* The tables are as they must be, before and after a plan.
RegistryIsConsistent == TypeOK /\ SystemSectionsStay

\* An editor of a page, who has it open before a plan is applied that adds, removes
\* or rewrites a section of it, gets a conflict: the page's revision has moved on.
\* (UpdateGlobal asks for the revision of its definition, which apply does not count:
\* an editor of a global section is not warned.)  The one exception: a global section that was deleted, recreated and rewritten between
\* the statements by which a disturbed run has read the tables.
Restored(p) ==
    \E s \in OnPage(p) : \E d \in definitions :
        /\ d.id = s.definition /\ d.changed /\ [d EXCEPT !.changed = FALSE] \in definitions'
        /\ d.type = "PAGE_CUSTOM_HTML" \/ converged'
ChangesAreCounted ==
    [][\A p \in Pages : {s \in placements' : s.page = p} # OnPage(p) \/ Restored(p)
                        => revision'[p] > revision[p]]_vars

\* A plan, however old, rewrites no section that editors have created, and takes
\* no custom section, theirs or a legacy one, from its place on a page.
EditorsSectionsStay ==
    [][(\E b \in Runs : pc[b] = "planned" /\ pc'[b] = "ended") => \A d \in definitions :
           /\ d.key = None => d \in definitions'
           /\ d.type \in CustomTypes => \A s \in placements : s.definition = d.id => s \in placements']_vars

\* A plan changes no section that an editor has written.  This does not hold of
\* a section of the legacy tables, which the plan restores from its legacy row;
\* no run checks it.  It does hold of sections that editors have created.
CustomEditsSurvive ==
    [][\A d \in definitions : d.type \in CustomTypes /\ d.changed =>
           [d EXCEPT !.changed = FALSE] \notin definitions']_vars
=============================================================================
