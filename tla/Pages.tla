------------------------------- MODULE Pages -------------------------------
(***************************************************************************)
(* The page builder: PagesService over `page_layouts`,                     *)
(* `page_section_placements` and `section_definitions`, with editors that  *)
(* act on what getAdmin and listGlobalSections showed them.                *)
(*                                                                         *)
(* Transactions are READ COMMITTED.  A layout or definition row, once      *)
(* updated or selected FOR UPDATE, is locked until COMMIT; the writes that *)
(* follow on rows of a locked layout are one step, the commit.             *)
(***************************************************************************)
EXTENDS Naturals, FiniteSets, FiniteSetsExt

CONSTANTS
    Pages,       \* page keys of the registry, numbered in the order of page_key
    Definitions, \* primary keys of `section_definitions`
    System,      \* the definition that stands for the registry's system sections
    Requests,    \* concurrent editors
    MaxRevision, \* bound: nobody edits what has this revision
    None         \* no request, no page, no definition

ASSUME PagesAssumption == Pages \subseteq Nat /\ IsFiniteSet(Pages) /\ Pages # {}
ASSUME DefinitionsAssumption == System \in Definitions /\ IsFiniteSet(Definitions)
ASSUME BoundAssumption == MaxRevision \in Nat
ASSUME NoneAssumption == None \notin Requests \cup Pages \cup Definitions

VARIABLES
    revision, placements, kind, content,    \* the tables, as in PageStore
    layoutLock,     \* layoutLock[p]: transaction that holds the row of layout p
    definitionLock, \* definitionLock[d]: the same for definition d
    pc,             \* pc[r]: what request r does next
    op,             \* op[r]: the operation that r performs
    page, target,   \* the page and the definition that r's operation is about
    seenRevision,   \* expectedRevision, expectedDefinitionRevision of r
    seen,           \* seen[r]: the sections of the page that r was shown
    seenContent     \* seenContent[r]: the revisions of the page's own sections shown

tableVars == <<revision, placements, kind, content>>
lockVars == <<layoutLock, definitionLock>>
viewVars == <<page, seenRevision, seen, seenContent>>
vars == <<tableVars, lockVars, pc, op, target, viewVars>>

Store == INSTANCE PageStore WITH
    Pages <- Pages, Definitions <- Definitions,
    revision <- revision, placements <- placements, kind <- kind, content <- content

Kinds == {"unused", "system", "page", "global", "deleted"}
PageOps == {"create", "update", "delete", "toggle", "reorder"}
GlobalOps == {"createGlobal", "updateGlobal", "deleteGlobal"}
\* States of an open transaction that may hold locks.
InTx == {"reserved", "updating", "locking"}
States == {"idle", "layoutRead", "sectionsRead", "viewing", "reserving", "listed"} \cup InTx

Placements == [page : Pages, definition : Definitions, order : Nat, visible : BOOLEAN]

TypeOK ==
    /\ revision \in [Pages -> Nat]
    /\ placements \subseteq Placements
    /\ kind \in [Definitions -> Kinds] /\ content \in [Definitions -> Nat]
    /\ layoutLock \in [Pages -> Requests \cup {None}]
    /\ definitionLock \in [Definitions -> Requests \cup {None}]
    /\ \A p \in Pages : layoutLock[p] # None => pc[layoutLock[p]] \in InTx
    /\ \A d \in Definitions : definitionLock[d] # None => pc[definitionLock[d]] \in InTx
    /\ pc \in [Requests -> States]
    /\ op \in [Requests -> PageOps \cup GlobalOps \cup {None}]
    /\ page \in [Requests -> Pages \cup {None}]
    /\ target \in [Requests -> Definitions \cup {None}]
    /\ seenRevision \in [Requests -> Nat]
    /\ seen \in [Requests -> SUBSET Placements]
    /\ seenContent \in [Requests -> [Definitions -> Nat]]

NoContent == [d \in Definitions |-> 0]

Init ==
    /\ revision = [p \in Pages |-> 0]
    /\ placements = {[page |-> p, definition |-> System, order |-> 0, visible |-> TRUE] : p \in Pages}
    /\ kind = [d \in Definitions |-> IF d = System THEN "system" ELSE "unused"]
    /\ content = [d \in Definitions |-> 1]
    /\ layoutLock = [p \in Pages |-> None] /\ definitionLock = [d \in Definitions |-> None]
    /\ pc = [r \in Requests |-> "idle"] /\ op = [r \in Requests |-> None]
    /\ page = [r \in Requests |-> None] /\ target = [r \in Requests |-> None]
    /\ seenRevision = [r \in Requests |-> 0]
    /\ seen = [r \in Requests |-> {}] /\ seenContent = [r \in Requests |-> NoContent]

-----------------------------------------------------------------------------

OnPage(p) == {s \in placements : s.page = p}
OwnContent(S) == [d \in Definitions |->
    IF kind[d] = "page" /\ \E s \in S : s.definition = d THEN content[d] ELSE 0]
NextPosition(p) == Max({0} \cup {s.order + 1 : s \in OnPage(p)})

Advance(r, from, to) == pc[r] = from /\ pc' = [pc EXCEPT ![r] = to]

Free(lock, r) == [x \in DOMAIN lock |-> IF lock[x] = r THEN None ELSE lock[x]]

Forget(r) ==
    /\ pc' = [pc EXCEPT ![r] = "idle"] /\ op' = [op EXCEPT ![r] = None]
    /\ page' = [page EXCEPT ![r] = None] /\ target' = [target EXCEPT ![r] = None]
    /\ seenRevision' = [seenRevision EXCEPT ![r] = 0]
    /\ seen' = [seen EXCEPT ![r] = {}] /\ seenContent' = [seenContent EXCEPT ![r] = NoContent]

\* Mutation of End: the transaction is left open.
End_Open(r) == Forget(r) /\ UNCHANGED lockVars

\* COMMIT or ROLLBACK, and the response.
End(r) ==
    /\ Forget(r)
    /\ layoutLock' = Free(layoutLock, r) /\ definitionLock' = Free(definitionLock, r)

-----------------------------------------------------------------------------
(* getAdmin: the layout, its placements and their definitions are read by  *)
(* three statements outside a transaction.                                 *)

ReadLayout(r) ==
    /\ Advance(r, "idle", "layoutRead")
    /\ \E p \in Pages :
        /\ revision[p] < MaxRevision
        /\ page' = [page EXCEPT ![r] = p]
        /\ seenRevision' = [seenRevision EXCEPT ![r] = revision[p]]
    /\ UNCHANGED <<tableVars, lockVars, op, target, seen, seenContent>>

ReadSections(r) ==
    /\ Advance(r, "layoutRead", "sectionsRead")
    /\ seen' = [seen EXCEPT ![r] = OnPage(page[r])]
    /\ UNCHANGED <<tableVars, lockVars, op, target, page, seenRevision, seenContent>>

ReadDefinitions(r) ==
    /\ Advance(r, "sectionsRead", "viewing")
    /\ seenContent' = [seenContent EXCEPT ![r] = OwnContent(seen[r])]
    /\ UNCHANGED <<tableVars, lockVars, op, target, page, seenRevision, seen>>

-----------------------------------------------------------------------------
(* Changes of one page.                                                    *)

\* createPageCustom: the layout is there.
BeginCreate(r) ==
    /\ Advance(r, "viewing", "reserving")
    /\ op' = [op EXCEPT ![r] = "create"]
    /\ UNCHANGED <<tableVars, lockVars, target, viewVars>>

\* The placement is still on the page, and its type permits the operation.
BeginEdit(r) ==
    /\ Advance(r, "viewing", "reserving")
    /\ \E s \in seen[r], o \in {"update", "delete", "toggle"} :
        /\ \E t \in OnPage(page[r]) : t.definition = s.definition
        /\ o \in {"update", "delete"} => kind[s.definition] = "page"
        /\ op' = [op EXCEPT ![r] = o]
        /\ target' = [target EXCEPT ![r] = s.definition]
    /\ UNCHANGED <<tableVars, lockVars, viewVars>>

\* reorder: the ids sent are those of the page.
BeginReorder(r) ==
    /\ Advance(r, "viewing", "reserving")
    /\ {s.definition : s \in seen[r]} = {s.definition : s \in OnPage(page[r])}
    /\ op' = [op EXCEPT ![r] = "reorder"]
    /\ UNCHANGED <<tableVars, lockVars, target, viewVars>>

\* Mutation of ReservePage: the UPDATE does not ask for the expected revision.
ReservePage_Any(r) ==
    /\ pc[r] = "reserving" /\ layoutLock[page[r]] = None
    /\ pc' = [pc EXCEPT ![r] = "reserved"]
    /\ layoutLock' = [layoutLock EXCEPT ![page[r]] = r]
    /\ UNCHANGED <<tableVars, definitionLock, op, target, viewVars>>

\* reservePageRevision: the conditional UPDATE waits for the row, then counts.
ReservePage(r) ==
    /\ pc[r] = "reserving" /\ layoutLock[page[r]] = None
    /\ revision[page[r]] = seenRevision[r]
    /\ pc' = [pc EXCEPT ![r] = "reserved"]
    /\ layoutLock' = [layoutLock EXCEPT ![page[r]] = r]
    /\ UNCHANGED <<tableVars, definitionLock, op, target, viewVars>>

\* STALE_PAGE_LAYOUT_REVISION.
RefuseStale(r) ==
    /\ pc[r] = "reserving" /\ layoutLock[page[r]] = None
    /\ revision[page[r]] # seenRevision[r]
    /\ End(r) /\ UNCHANGED tableVars

\* Mutation of Commit: the page keeps its revision.
Commit_NoRevision(r, o) ==
    /\ pc[r] = "reserved" /\ op[r] = o
    /\ UNCHANGED revision
    /\ End(r)

\* The reserved revision and the change of the page commit together.
Commit(r, o) ==
    /\ pc[r] = "reserved" /\ op[r] = o
    /\ revision' = [revision EXCEPT ![page[r]] = @ + 1]
    /\ End(r)

CommitCreate(r) ==
    /\ Commit(r, "create")
    /\ \E d \in Definitions :
        /\ kind[d] = "unused" /\ kind' = [kind EXCEPT ![d] = "page"]
        /\ placements' = placements \cup
               {[page |-> page[r], definition |-> d, order |-> NextPosition(page[r]), visible |-> TRUE]}
    /\ UNCHANGED content

CommitUpdate(r) ==
    /\ Commit(r, "update")
    /\ content' = [content EXCEPT ![target[r]] = @ + 1]
    /\ UNCHANGED <<placements, kind>>

CommitDelete(r) ==
    /\ Commit(r, "delete")
    /\ placements' = {s \in placements : s.definition # target[r]}
    /\ kind' = [kind EXCEPT ![target[r]] = "deleted"]
    /\ UNCHANGED content

CommitToggle(r) ==
    /\ Commit(r, "toggle")
    /\ \E s \in OnPage(page[r]), b \in BOOLEAN :
        /\ s.definition = target[r]
        /\ placements' = (placements \ {s}) \cup {[s EXCEPT !.visible = b]}
    /\ UNCHANGED <<kind, content>>

\* The order sent is chosen here: nothing has depended on it before.
Orders(D) == {f \in [D -> 0..Cardinality(D) - 1] : \A c, d \in D : f[c] = f[d] => c = d}
CommitReorder(r) ==
    /\ Commit(r, "reorder")
    /\ \E f \in Orders({s.definition : s \in seen[r]}) :
        placements' = {IF s.page = page[r] /\ s.definition \in DOMAIN f
                       THEN [s EXCEPT !.order = f[s.definition]] ELSE s : s \in placements}
    /\ UNCHANGED <<kind, content>>

-----------------------------------------------------------------------------
(* Changes of all pages.                                                   *)

BeginCreateGlobal(r) ==
    /\ \A p \in Pages : revision[p] < MaxRevision
    /\ Advance(r, "idle", "locking")
    /\ op' = [op EXCEPT ![r] = "createGlobal"]
    /\ UNCHANGED <<tableVars, lockVars, target, viewVars>>

\* listGlobalSections shows a definition and its revision.
ListGlobals(r) ==
    /\ Advance(r, "idle", "listed")
    /\ \E d \in Definitions, o \in {"updateGlobal", "deleteGlobal"} :
        /\ kind[d] = "global" /\ content[d] < MaxRevision
        /\ o = "deleteGlobal" => \A p \in Pages : revision[p] < MaxRevision
        /\ op' = [op EXCEPT ![r] = o]
        /\ target' = [target EXCEPT ![r] = d]
        /\ seenRevision' = [seenRevision EXCEPT ![r] = content[d]]
    /\ UNCHANGED <<tableVars, lockVars, page, seen, seenContent>>

\* lockGlobalDefinition and the check of expectedDefinitionRevision.
Fresh(r) == kind[target[r]] = "global" /\ content[target[r]] = seenRevision[r]

LockDefinition(r) ==
    /\ pc[r] = "listed" /\ definitionLock[target[r]] = None /\ Fresh(r)
    /\ Advance(r, "listed", IF op[r] = "updateGlobal" THEN "updating" ELSE "locking")
    /\ definitionLock' = [definitionLock EXCEPT ![target[r]] = r]
    /\ UNCHANGED <<tableVars, layoutLock, op, target, viewVars>>

\* 404 or STALE_SECTION_DEFINITION_REVISION.
RefuseGlobal(r) ==
    /\ pc[r] = "listed" /\ definitionLock[target[r]] = None /\ ~Fresh(r)
    /\ End(r) /\ UNCHANGED tableVars

Unlocked(r) == {p \in Pages : layoutLock[p] # r}

\* Mutation of LockLayout: no ORDER BY, rows are locked as they are found.
LockLayout_Unordered(r) ==
    /\ pc[r] = "locking"
    /\ \E p \in Unlocked(r) :
        /\ layoutLock[p] = None
        /\ layoutLock' = [layoutLock EXCEPT ![p] = r]
    /\ UNCHANGED <<tableVars, definitionLock, pc, op, target, viewVars>>

\* lockRegistryLayouts: SELECT ... ORDER BY page_key FOR UPDATE, a row at a time.
LockLayout(r) ==
    /\ pc[r] = "locking"
    /\ \E p \in Unlocked(r) :
        /\ \A q \in Unlocked(r) : p <= q
        /\ layoutLock[p] = None
        /\ layoutLock' = [layoutLock EXCEPT ![p] = r]
    /\ UNCHANGED <<tableVars, definitionLock, pc, op, target, viewVars>>

CommitAll(r, o) ==
    /\ pc[r] = "locking" /\ op[r] = o /\ Unlocked(r) = {}
    /\ revision' = [p \in Pages |-> revision[p] + 1]
    /\ End(r)

\* Mutation of CommitCreateGlobal: the largest sort order of any page is used.
CommitCreateGlobal_OnePosition(r) ==
    /\ CommitAll(r, "createGlobal")
    /\ \E d \in Definitions, q \in Pages :
        /\ kind[d] = "unused" /\ kind' = [kind EXCEPT ![d] = "global"]
        /\ placements' = placements \cup
               {[page |-> p, definition |-> d, order |-> NextPosition(q), visible |-> TRUE] : p \in Pages}
    /\ UNCHANGED content

CommitCreateGlobal(r) ==
    /\ CommitAll(r, "createGlobal")
    /\ \E d \in Definitions :
        /\ kind[d] = "unused" /\ kind' = [kind EXCEPT ![d] = "global"]
        /\ placements' = placements \cup
               {[page |-> p, definition |-> d, order |-> NextPosition(p), visible |-> TRUE] : p \in Pages}
    /\ UNCHANGED content

CommitUpdateGlobal(r) ==
    /\ pc[r] = "updating"
    /\ content' = [content EXCEPT ![target[r]] = @ + 1]
    /\ End(r)
    /\ UNCHANGED <<revision, placements, kind>>

\* Mutation of CommitDeleteGlobal: only the placements of one page go.
CommitDeleteGlobal_OnePage(r) ==
    /\ CommitAll(r, "deleteGlobal")
    /\ \E p \in Pages :
        placements' = {s \in placements : s.definition = target[r] => s.page # p}
    /\ kind' = [kind EXCEPT ![target[r]] = "deleted"]
    /\ UNCHANGED content

\* All placements are there, and go with the definition.
CommitDeleteGlobal(r) ==
    /\ CommitAll(r, "deleteGlobal")
    /\ \A p \in Pages : \E s \in OnPage(p) : s.definition = target[r]
    /\ placements' = {s \in placements : s.definition # target[r]}
    /\ kind' = [kind EXCEPT ![target[r]] = "deleted"]
    /\ UNCHANGED content

-----------------------------------------------------------------------------

\* 400 or 404, a failed statement, the timeout of the transaction, or an
\* editor who leaves.
Fail(r) == pc[r] # "idle" /\ End(r) /\ UNCHANGED tableVars

Read(r) == ReadLayout(r) \/ ReadSections(r) \/ ReadDefinitions(r) \/ ListGlobals(r)

Begin(r) == BeginCreate(r) \/ BeginEdit(r) \/ BeginReorder(r) \/ BeginCreateGlobal(r)

Serve(r) ==
    \/ ReservePage(r) \/ RefuseStale(r)
    \/ CommitCreate(r) \/ CommitUpdate(r) \/ CommitDelete(r) \/ CommitToggle(r) \/ CommitReorder(r)
    \/ LockDefinition(r) \/ RefuseGlobal(r) \/ LockLayout(r)
    \/ CommitCreateGlobal(r) \/ CommitUpdateGlobal(r) \/ CommitDeleteGlobal(r)

Next == \E r \in Requests : Read(r) \/ Begin(r) \/ Serve(r) \/ Fail(r)

Spec == Init /\ [][Next]_vars

-----------------------------------------------------------------------------
(* What must hold.                                                         *)

\* A page edit whose revision was accepted works on the very sections the
\* editor was shown, although they were read by three statements and may have
\* been changed by page and global edits since.
EditsSeeThePage ==
    \A r \in Requests : pc[r] = "reserved" =>
        /\ revision[page[r]] = seenRevision[r]
        /\ seen[r] = OnPage(page[r])
        /\ seenContent[r] = OwnContent(seen[r])

\* A global section is on every page exactly once, a page's own section on one
\* page, a deleted one nowhere: create and delete never leave some pages out.
RowsOf(d) == {s \in placements : s.definition = d}
Single(S) == \E s \in S : S = {s}
SectionsAreComplete ==
    \A d \in Definitions :
        /\ kind[d] \in {"system", "global"} =>
               \A p \in Pages : Single({s \in RowsOf(d) : s.page = p})
        /\ kind[d] = "page" => Single(RowsOf(d))
        /\ kind[d] \in {"unused", "deleted"} => RowsOf(d) = {}

\* No two sections of a page compete for a place.
OrdersAreDistinct ==
    \A s, t \in placements : s.page = t.page /\ s.order = t.order => s = t

\* Page and global edits never wait for each other in a cycle: of those whose
\* transaction is open, one waits for nobody.
Busy == {r \in Requests : pc[r] \in {"reserving", "listed"} \cup InTx}
WaitsFor(r) ==
    CASE pc[r] = "reserving" -> {layoutLock[page[r]]} \ {None}
      [] pc[r] = "listed"    -> {definitionLock[target[r]]} \ {None}
      [] pc[r] = "locking"   -> {layoutLock[p] : p \in {q \in Unlocked(r) : \A x \in Unlocked(r) : q <= x}} \ {None}
      [] OTHER               -> {}
NoWaitCycle == Busy # {} => \E r \in Busy : WaitsFor(r) = {}

\* Every step of the service is one atomic change of PageStore, or none.
ImplementsStore == Store!Spec
=============================================================================
