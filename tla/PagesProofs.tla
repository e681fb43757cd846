---------------------------- MODULE PagesProofs ----------------------------
(***************************************************************************)
(* For any registry, any editors and any number of edits: an accepted page *)
(* edit works on the sections its editor was shown, sections are on all    *)
(* their pages and in distinct places, and every step of the service is a  *)
(* step of PageStore.                                                      *)
(*                                                                         *)
(* A view is current as long as its revision is (ViewInv): every change of *)
(* what is on a page, and of the page's own contents, is made under the    *)
(* lock of the layout and increments its revision (LockInv, RequestInv).   *)
(***************************************************************************)
EXTENDS Pages, FiniteSetTheorems, WellFoundedInduction, TLAPS

-----------------------------------------------------------------------------
(* Largest elements, without which NextPosition has no meaning.            *)

\* A set of naturals has a least element, and a bounded one a largest.
LEMMA Least ==
    ASSUME NEW S \in SUBSET Nat, S # {}
    PROVE  \E m \in S : \A k \in S : m <= k
<1> DEFINE R == OpToRel(<, Nat)
<1>1. IsWellFoundedOn(R, Nat)
  BY NatLessThanWellFounded
<1>2. \A k, m \in Nat : k < m => <<k, m>> \in R
  BY DEF OpToRel
<1> HIDE DEF R
<1>3. PICK m \in S : \A k \in S : <<k, m>> \notin R
  BY <1>1, WFMin, Zenon
<1>4. ASSUME NEW k \in S PROVE m <= k
  <2>1. <<k, m>> \notin R
    BY <1>3
  <2>2. ~(k < m)
    BY <1>2, <2>1, Zenon
  <2>3. QED
    BY <2>2
<1>5. QED
  BY <1>4

LEMMA MaxOfBounded ==
    ASSUME NEW S \in SUBSET Nat, S # {}, NEW n \in Nat, \A x \in S : x <= n
    PROVE  Max(S) \in S /\ \A y \in S : y <= Max(S)
<1> DEFINE D == {k \in Nat : k <= n /\ n - k \in S}
<1>1. PICK x \in S : TRUE
  OBVIOUS
<1>2. n - x \in D
  BY <1>1
<1>3. PICK m \in D : \A k \in D : m <= k
  BY <1>2, Least
<1>4. n - m \in S /\ \A y \in S : n - m >= y
  <2>1. SUFFICES ASSUME NEW y \in S PROVE n - m >= y
    BY <1>3
  <2>2. n - y \in D
    OBVIOUS
  <2>3. m <= n - y /\ m \in Nat
    BY <2>2, <1>3
  <2>4. QED
    BY <2>3
<1>5. QED
  BY <1>4 DEF Max

LEMMA NextPositionIsLast ==
    ASSUME placements \subseteq Placements, NEW p \in Pages,
           NEW n \in Nat, \A s \in placements : s.order <= n
    PROVE  /\ NextPosition(p) \in Nat /\ NextPosition(p) <= n + 1
           /\ \A s \in OnPage(p) : s.order < NextPosition(p)
<1> DEFINE S == {0} \cup {s.order + 1 : s \in OnPage(p)}
<1>1. \A s \in OnPage(p) : s.order \in Nat /\ s.order <= n
  BY DEF OnPage, Placements
<1>2. S \in SUBSET Nat /\ S # {} /\ \A x \in S : x <= n + 1
  BY <1>1
<1>3. \A s \in OnPage(p) : s.order + 1 \in S
  OBVIOUS
<1>4. NextPosition(p) = Max(S)
  BY DEF NextPosition
<1> HIDE DEF S
<1>5. Max(S) \in S /\ \A x \in S : x <= Max(S)
  <2>1. n + 1 \in Nat
    OBVIOUS
  <2>2. QED
    BY <1>2, <2>1, MaxOfBounded
<1>6. Max(S) \in Nat /\ Max(S) <= n + 1
  BY <1>2, <1>5
<1>7. ASSUME NEW s \in OnPage(p) PROVE s.order < Max(S)
  <2>1. s.order + 1 <= Max(S)
    BY <1>3, <1>5
  <2>2. QED
    BY <2>1, <1>1, <1>6
<1>8. QED
  BY <1>4, <1>6, <1>7

-----------------------------------------------------------------------------
(* The inductive invariant.                                                *)

Bounded == \E n \in Nat : \A s \in placements : s.order <= n

\* A layout is locked by the page edit that reserved it or by a global edit, a
\* definition by the edit that is about it.
LockInv ==
    /\ \A p \in Pages : \A r \in Requests : layoutLock[p] = r =>
          (pc[r] = "reserved" /\ page[r] = p) \/ pc[r] = "locking"
    /\ \A d \in Definitions : \A r \in Requests : definitionLock[d] = r =>
          target[r] = d /\ pc[r] \in {"updating", "locking"}

Shown == {"sectionsRead", "viewing", "reserving", "reserved"}
Editing == {"viewing", "reserving", "reserved"}

\* As long as nobody has changed the page, what r was shown is what is there.
ViewInvOf(r) ==
    /\ pc[r] \in {"layoutRead"} \cup Shown => page[r] \in Pages /\ seenRevision[r] <= revision[page[r]]
    /\ pc[r] \in Shown /\ seenRevision[r] = revision[page[r]] => seen[r] = OnPage(page[r])
    /\ pc[r] \in Editing /\ seenRevision[r] = revision[page[r]] => seenContent[r] = OwnContent(seen[r])
ViewInv == \A r \in Requests : ViewInvOf(r)

RequestInvOf(r) ==
    /\ pc[r] = "reserved" =>
          /\ layoutLock[page[r]] = r /\ seenRevision[r] = revision[page[r]]
    /\ pc[r] \in {"reserving", "reserved"} /\ op[r] \in {"update", "delete", "toggle"} =>
          target[r] \in Definitions /\ \E s \in seen[r] : s.definition = target[r]
    /\ pc[r] \in {"reserving", "reserved"} /\ op[r] \in {"update", "delete"} =>
          kind[target[r]] \in {"page", "deleted"}
    /\ pc[r] = "listed" => target[r] \in Definitions /\ op[r] \in {"updateGlobal", "deleteGlobal"}
    /\ pc[r] = "updating" \/ (pc[r] = "locking" /\ op[r] = "deleteGlobal") =>
          /\ target[r] \in Definitions
          /\ definitionLock[target[r]] = r /\ kind[target[r]] = "global"
RequestInv == \A r \in Requests : RequestInvOf(r)

IInv ==
    /\ TypeOK /\ Bounded /\ LockInv /\ ViewInv /\ RequestInv
    /\ SectionsAreComplete /\ OrdersAreDistinct

LEMMA InitIInv == Init => IInv
<1> SUFFICES ASSUME Init PROVE IInv
  OBVIOUS
<1>1. TypeOK
  <2>1. placements \subseteq Placements
    <3>1. \A p \in Pages :
             [page |-> p, definition |-> System, order |-> 0, visible |-> TRUE] \in Placements
      BY DefinitionsAssumption DEF Placements
    <3>2. QED
      BY <3>1 DEF Init
  <2>2. kind \in [Definitions -> Kinds] /\ content \in [Definitions -> Nat]
    BY DEF Init, Kinds
  <2>3. seenContent \in [Requests -> [Definitions -> Nat]]
    BY DEF Init, NoContent
  <2>4. QED
    BY <2>1, <2>2, <2>3 DEF Init, TypeOK, States
<1>2. Bounded
  <2>1. \A s \in placements : s.order <= 0
    BY DEF Init
  <2>2. QED
    BY <2>1 DEF Bounded
<1>3. LockInv /\ ViewInv /\ RequestInv
  BY NoneAssumption
     DEF Init, LockInv, ViewInv, ViewInvOf, RequestInv, RequestInvOf, Shown, Editing
<1>4. SectionsAreComplete
  <2>1. ASSUME NEW p \in Pages
        PROVE  Single({s \in RowsOf(System) : s.page = p})
    <3> DEFINE t == [page |-> p, definition |-> System, order |-> 0, visible |-> TRUE]
    <3>1. {s \in RowsOf(System) : s.page = p} = {t}
      BY DEF Init, RowsOf
    <3>2. QED
      BY <3>1 DEF Single
  <2>2. \A d \in Definitions \ {System} : RowsOf(d) = {}
    BY DEF Init, RowsOf
  <2>3. QED
    BY <2>1, <2>2 DEF Init, SectionsAreComplete
<1>5. OrdersAreDistinct
  <2>1. \A s \in placements :
           s = [page |-> s.page, definition |-> System, order |-> 0, visible |-> TRUE]
    BY DEF Init
  <2>2. QED
    BY <2>1, Zenon DEF OrdersAreDistinct
<1>6. QED
  BY <1>1, <1>2, <1>3, <1>4, <1>5 DEF IInv

-----------------------------------------------------------------------------
(* Three kinds of steps.                                                   *)

\* Steps of reads, of locks and of refusals write no table.
Ends(r) == RefuseStale(r) \/ RefuseGlobal(r) \/ Fail(r)
Locks(r) == ReservePage(r) \/ LockDefinition(r) \/ LockLayout(r)
Commits(r) ==
    \/ CommitCreate(r) \/ CommitUpdate(r) \/ CommitDelete(r) \/ CommitToggle(r) \/ CommitReorder(r)
    \/ CommitCreateGlobal(r) \/ CommitUpdateGlobal(r) \/ CommitDeleteGlobal(r)
Step(r) == Read(r) \/ Begin(r) \/ Locks(r) \/ Ends(r) \/ Commits(r)

\* A step of r leaves the requests of others, and their locks, alone.
OthersSame(r) ==
    \A q \in Requests \ {r} :
        /\ UNCHANGED <<pc[q], op[q], page[q], target[q], seenRevision[q], seen[q], seenContent[q]>>
        /\ \A p \in Pages : layoutLock[p] = q <=> layoutLock'[p] = q
        /\ \A d \in Definitions : definitionLock[d] = q <=> definitionLock'[d] = q

LEMMA CommitsEnd ==
    ASSUME NEW r \in Requests, Commits(r) \/ Ends(r)
    PROVE  End(r)
BY DEF Commits, Ends, CommitCreate, CommitUpdate, CommitDelete, CommitToggle, CommitReorder,
       CommitCreateGlobal, CommitUpdateGlobal, CommitDeleteGlobal, Commit, CommitAll,
       RefuseStale, RefuseGlobal, Fail

LEMMA EndFrame ==
    ASSUME TypeOK, NEW r \in Requests, End(r)
    PROVE  /\ OthersSame(r)
           /\ pc'[r] = "idle"
           /\ \A p \in Pages : layoutLock'[p] # r
           /\ \A d \in Definitions : definitionLock'[d] # r
BY NoneAssumption DEF End, Forget, Free, TypeOK, OthersSame

LEMMA Frame ==
    ASSUME TypeOK, NEW r \in Requests, Step(r)
    PROVE  OthersSame(r)
<1> USE NoneAssumption DEF TypeOK, OthersSame
<1>1. CASE Read(r)
  BY <1>1 DEF Read, ReadLayout, ReadSections, ReadDefinitions, ListGlobals, Advance, lockVars
<1>2. CASE Begin(r)
  BY <1>2 DEF Begin, BeginCreate, BeginEdit, BeginReorder, BeginCreateGlobal, Advance,
     lockVars, viewVars
<1>3. CASE Locks(r)
  BY <1>3 DEF Locks, ReservePage, LockDefinition, LockLayout, Unlocked, Advance, viewVars
<1>4. CASE Ends(r) \/ Commits(r)
  BY <1>4, CommitsEnd, EndFrame
<1>5. QED
  BY <1>1, <1>2, <1>3, <1>4 DEF Step

\* The part of TypeOK about locks and requests.
RequestTypes ==
    /\ layoutLock \in [Pages -> Requests \cup {None}]
    /\ definitionLock \in [Definitions -> Requests \cup {None}]
    /\ pc \in [Requests -> States]
    /\ op \in [Requests -> PageOps \cup GlobalOps \cup {None}]
    /\ page \in [Requests -> Pages \cup {None}]
    /\ target \in [Requests -> Definitions \cup {None}]
    /\ seenRevision \in [Requests -> Nat]
    /\ seen \in [Requests -> SUBSET Placements]
    /\ seenContent \in [Requests -> [Definitions -> Nat]]
TableTypes ==
    /\ revision \in [Pages -> Nat] /\ placements \subseteq Placements
    /\ kind \in [Definitions -> Kinds] /\ content \in [Definitions -> Nat]

LEMMA StepRequestTypes ==
    ASSUME TypeOK, NEW r \in Requests, Step(r)
    PROVE  RequestTypes'
<1> USE DEF TypeOK, RequestTypes
<1>1. CASE ReadLayout(r) \/ ListGlobals(r)
  <2>1. CASE ReadLayout(r)
    BY <2>1 DEF ReadLayout, States, Advance, lockVars
  <2>2. CASE ListGlobals(r)
    BY <2>2 DEF ListGlobals, States, GlobalOps, Advance, lockVars
  <2>3. QED
    BY <1>1, <2>1, <2>2
<1>2. CASE ReadSections(r)
  BY <1>2 DEF ReadSections, OnPage, States, Advance, lockVars
<1>3. CASE ReadDefinitions(r)
  <2>1. OwnContent(seen[r]) \in [Definitions -> Nat]
    BY DEF OwnContent
  <2>2. QED
    BY <1>3, <2>1 DEF ReadDefinitions, States, Advance, lockVars
<1>4. CASE BeginCreate(r) \/ BeginReorder(r) \/ BeginCreateGlobal(r)
  BY <1>4 DEF BeginCreate, BeginReorder, BeginCreateGlobal, States, InTx, PageOps, GlobalOps,
     Advance, lockVars, viewVars
<1>5. CASE BeginEdit(r)
  BY <1>5 DEF BeginEdit, States, PageOps, Placements, Advance, lockVars, viewVars
<1>6. CASE Locks(r)
  <2>1. CASE ReservePage(r)
    BY <2>1 DEF ReservePage, States, InTx, viewVars
  <2>2. CASE LockDefinition(r)
    BY <2>2 DEF LockDefinition, States, InTx, Advance, viewVars
  <2>3. CASE LockLayout(r)
    BY <2>3 DEF LockLayout, Unlocked, viewVars
  <2>4. QED
    BY <1>6, <2>1, <2>2, <2>3 DEF Locks
<1>7. CASE Ends(r) \/ Commits(r)
  <2>1. End(r)
    BY <1>7, CommitsEnd
  <2>2. NoContent \in [Definitions -> Nat]
    BY DEF NoContent
  <2>3. Free(layoutLock, r) \in [Pages -> Requests \cup {None}]
    BY DEF Free
  <2>4. Free(definitionLock, r) \in [Definitions -> Requests \cup {None}]
    BY DEF Free
  <2>5. QED
    BY <2>1, <2>2, <2>3, <2>4 DEF End, Forget, States
<1>8. QED
  BY <1>1, <1>2, <1>3, <1>4, <1>5, <1>6, <1>7 DEF Step, Read, Begin

LEMMA TablesSame ==
    ASSUME NEW r \in Requests, Read(r) \/ Begin(r) \/ Locks(r) \/ Ends(r)
    PROVE  UNCHANGED tableVars
BY DEF Read, ReadLayout, ReadSections, ReadDefinitions, ListGlobals,
       Begin, BeginCreate, BeginEdit, BeginReorder, BeginCreateGlobal,
       Locks, ReservePage, LockDefinition, LockLayout, Ends, RefuseStale, RefuseGlobal, Fail

LEMMA StepLockInv ==
    ASSUME TypeOK, LockInv, RequestInv, NEW r \in Requests, Step(r)
    PROVE  LockInv'
<1>1. OthersSame(r)
  BY Frame
<1>2. /\ \A p \in Pages : layoutLock'[p] = r =>
             (pc'[r] = "reserved" /\ page'[r] = p) \/ pc'[r] = "locking"
      /\ \A d \in Definitions : definitionLock'[d] = r =>
             target'[r] = d /\ pc'[r] \in {"updating", "locking"}
  <2> USE NoneAssumption DEF TypeOK, LockInv
  <2>1. CASE Read(r)
    <3>1. UNCHANGED lockVars
      BY <2>1 DEF Read, ReadLayout, ReadSections, ReadDefinitions, ListGlobals
    <3>2. pc[r] \in {"idle", "layoutRead", "sectionsRead"}
      BY <2>1 DEF Read, ReadLayout, ReadSections, ReadDefinitions, ListGlobals, Advance
    <3>3. QED
      BY <3>1, <3>2 DEF lockVars
  <2>2. CASE Begin(r)
    BY <2>2 DEF Begin, BeginCreate, BeginEdit, BeginReorder, BeginCreateGlobal, Advance, lockVars
  <2>3. CASE ReservePage(r)
    BY <2>3 DEF ReservePage, viewVars
  <2>4. CASE LockDefinition(r)
    BY <2>4 DEF LockDefinition, Advance, viewVars
  <2>5. CASE LockLayout(r)
    BY <2>5 DEF LockLayout, Unlocked, viewVars
  <2>6. CASE Ends(r) \/ Commits(r)
    BY <2>6, CommitsEnd, EndFrame
  <2>7. QED
    BY <2>1, <2>2, <2>3, <2>4, <2>5, <2>6 DEF Step, Locks
<1>3. QED
  BY <1>1, <1>2 DEF LockInv, OthersSame

-----------------------------------------------------------------------------
(* Steps that write no table.                                              *)

Silent(r) == Read(r) \/ Begin(r) \/ Locks(r) \/ Ends(r)

LEMMA SilentViews ==
    ASSUME IInv, NEW r \in Requests, Silent(r)
    PROVE  ViewInv'
<1>1. UNCHANGED tableVars /\ OthersSame(r)
  BY TablesSame, Frame DEF IInv, Silent, Step
<1>2. ASSUME NEW q \in Requests \ {r} PROVE ViewInvOf(q)'
  BY <1>1 DEF IInv, ViewInv, ViewInvOf, OthersSame, tableVars, OnPage, OwnContent, Shown, Editing
<1>3. ViewInvOf(r)'
  <2> USE <1>1 DEF IInv, TypeOK, ViewInv, ViewInvOf, Shown, Editing, tableVars
  <2>1. CASE ReadLayout(r)
    BY <2>1 DEF ReadLayout, Advance
  <2>2. CASE ReadSections(r)
    BY <2>2 DEF ReadSections, Advance, OnPage
  <2>3. CASE ReadDefinitions(r)
    BY <2>3 DEF ReadDefinitions, Advance, OnPage, OwnContent
  <2>4. CASE ListGlobals(r)
    BY <2>4 DEF ListGlobals, Advance
  <2>5. CASE BeginCreate(r) \/ BeginEdit(r) \/ BeginReorder(r)
    BY <2>5 DEF BeginCreate, BeginEdit, BeginReorder, Advance, viewVars, OnPage, OwnContent
  <2>6. CASE BeginCreateGlobal(r)
    BY <2>6 DEF BeginCreateGlobal, Advance
  <2>7. CASE ReservePage(r)
    BY <2>7 DEF ReservePage, viewVars, OnPage, OwnContent
  <2>8. CASE LockDefinition(r) \/ LockLayout(r)
    BY <2>8 DEF LockDefinition, LockLayout, Advance
  <2>9. CASE Ends(r)
    BY <2>9, CommitsEnd, EndFrame
  <2>10. QED
    BY <2>1, <2>2, <2>3, <2>4, <2>5, <2>6, <2>7, <2>8, <2>9 DEF Silent, Read, Begin, Locks
<1>4. QED
  BY <1>2, <1>3 DEF ViewInv

LEMMA SilentRequests ==
    ASSUME IInv, NEW r \in Requests, Silent(r)
    PROVE  RequestInv'
<1>1. UNCHANGED tableVars /\ OthersSame(r)
  BY TablesSame, Frame DEF IInv, Silent, Step
<1>2. ASSUME NEW q \in Requests \ {r} PROVE RequestInvOf(q)'
  BY <1>1 DEF IInv, ViewInv, ViewInvOf, RequestInv, RequestInvOf, OthersSame, tableVars, Shown, Editing
<1>3. RequestInvOf(r)'
  <2> USE <1>1 DEF IInv, TypeOK, RequestInv, RequestInvOf, tableVars
  <2>1. CASE ReadLayout(r) \/ ReadSections(r) \/ ReadDefinitions(r)
    BY <2>1 DEF ReadLayout, ReadSections, ReadDefinitions, Advance
  <2>2. CASE ListGlobals(r)
    BY <2>2 DEF ListGlobals, Advance
  <2>3. CASE BeginCreate(r) \/ BeginReorder(r) \/ BeginCreateGlobal(r)
    BY <2>3 DEF BeginCreate, BeginReorder, BeginCreateGlobal, Advance
  <2>4. CASE BeginEdit(r)
    BY <2>4 DEF BeginEdit, Advance, viewVars, Placements
  <2>5. CASE ReservePage(r)
    BY <2>5 DEF ReservePage, viewVars, ViewInv, ViewInvOf, Shown
  <2>6. CASE LockDefinition(r)
    BY <2>6 DEF LockDefinition, Fresh, Advance, viewVars
  <2>7. CASE LockLayout(r)
    BY <2>7 DEF LockLayout, viewVars
  <2>8. CASE Ends(r)
    BY <2>8, CommitsEnd, EndFrame
  <2>9. QED
    BY <2>1, <2>2, <2>3, <2>4, <2>5, <2>6, <2>7, <2>8 DEF Silent, Read, Begin, Locks
<1>4. QED
  BY <1>2, <1>3 DEF RequestInv

LEMMA SilentIInv ==
    ASSUME IInv, NEW r \in Requests, Silent(r)
    PROVE  IInv'
<1>1. UNCHANGED tableVars
  BY TablesSame DEF Silent
<1>2. LockInv' /\ RequestTypes'
  BY StepLockInv, StepRequestTypes DEF IInv, Silent, Step
<1>3. TableTypes'
  BY <1>1 DEF IInv, TypeOK, TableTypes, tableVars
<1>4. TypeOK'
  BY <1>2, <1>3, NoneAssumption DEF RequestTypes, TableTypes, LockInv, TypeOK, InTx
<1>5. Bounded' /\ SectionsAreComplete' /\ OrdersAreDistinct'
  BY <1>1 DEF IInv, Bounded, SectionsAreComplete, RowsOf, Single, OrdersAreDistinct, tableVars
<1>6. QED
  BY <1>2, <1>4, <1>5, SilentViews, SilentRequests DEF IInv

-----------------------------------------------------------------------------
(* What a commit does to the views and requests of others.                 *)

LEMMA ReservedFacts ==
    ASSUME IInv, NEW r \in Requests, NEW o, Commit(r, o)
    PROVE  /\ page[r] \in Pages /\ layoutLock[page[r]] = r
           /\ seen[r] = OnPage(page[r]) /\ op[r] = o
           /\ revision' = [revision EXCEPT ![page[r]] = @ + 1]
BY DEF IInv, ViewInv, ViewInvOf, RequestInv, RequestInvOf, Shown, Commit

\* One page changes: its rows, definitions that are on no other page, its revision.
PageChange(p) ==
    /\ revision' = [revision EXCEPT ![p] = @ + 1]
    /\ \A x \in Pages \ {p} : OnPage(x)' = OnPage(x)
    /\ \A x \in Pages \ {p} : \A s \in OnPage(x) :
          kind'[s.definition] = kind[s.definition] /\ content'[s.definition] = content[s.definition]
    /\ \A d \in Definitions : kind'[d] # kind[d] =>
          (kind[d] = "unused" /\ kind'[d] = "page") \/ (kind[d] = "page" /\ kind'[d] = "deleted")

LEMMA PageChangeOthers ==
    ASSUME IInv, NEW r \in Requests, NEW o, Commits(r), Commit(r, o), PageChange(page[r])
    PROVE  ViewInv' /\ RequestInv'
<1>1. End(r) /\ OthersSame(r) /\ pc'[r] = "idle"
  BY EndFrame DEF Commit, IInv
<1>2. page[r] \in Pages /\ layoutLock[page[r]] = r
  BY ReservedFacts
<1>3. ASSUME NEW q \in Requests \ {r} PROVE ViewInvOf(q)' /\ RequestInvOf(q)'
  <2>1. ViewInvOf(q) /\ RequestInvOf(q)
    BY DEF IInv, ViewInv, RequestInv
  <2>2. UNCHANGED <<pc[q], op[q], page[q], target[q], seenRevision[q], seen[q], seenContent[q]>>
    BY <1>1 DEF OthersSame
  <2>3. RequestInvOf(q)'
    <3>1. pc[q] = "reserved" =>
            layoutLock'[page[q]] = q /\ seenRevision[q] = revision'[page[q]]
      BY <1>1, <1>2, <2>1 DEF RequestInvOf, ViewInvOf, Shown, OthersSame, PageChange, IInv, TypeOK
    <3>2. \A d \in Definitions : kind[d] \in {"page", "deleted"} => kind'[d] \in {"page", "deleted"}
      BY DEF PageChange
    <3>3. \A d \in Definitions : kind[d] = "global" => kind'[d] = "global"
      BY DEF PageChange
    <3>4. \A d \in Definitions : definitionLock[d] = q => definitionLock'[d] = q
      BY <1>1 DEF OthersSame
    <3>5. QED
      BY <2>1, <2>2, <3>1, <3>2, <3>3, <3>4 DEF RequestInvOf
  <2>4. CASE page[q] = page[r]
    <3>1. pc[q] \in {"layoutRead"} \cup Shown =>
             /\ page[q] \in Pages
             /\ seenRevision[q] <= revision'[page[q]] /\ seenRevision[q] # revision'[page[q]]
      BY <1>2, <2>1, <2>4 DEF ViewInvOf, PageChange, IInv, TypeOK
    <3>2. QED
      BY <2>2, <2>3, <3>1 DEF ViewInvOf, Shown, Editing
  <2>5. CASE pc[q] \notin {"layoutRead"} \cup Shown
    BY <2>2, <2>3, <2>5 DEF ViewInvOf, Shown, Editing
  <2>6. CASE pc[q] \in {"layoutRead"} \cup Shown /\ page[q] # page[r]
    <3>1. page[q] \in Pages \ {page[r]}
      BY <2>1, <2>6 DEF ViewInvOf
    <3>2. revision'[page[q]] = revision[page[q]] /\ OnPage(page[q])' = OnPage(page[q])
      BY <3>1, <2>2 DEF PageChange, IInv, TypeOK
    <3>3. seen[q] = OnPage(page[q]) => OwnContent(seen[q])' = OwnContent(seen[q])
      <4> SUFFICES ASSUME seen[q] = OnPage(page[q]) PROVE OwnContent(seen[q])' = OwnContent(seen[q])
        OBVIOUS
      <4>1. \A s \in seen[q] : kind'[s.definition] = kind[s.definition]
                               /\ content'[s.definition] = content[s.definition]
        BY <3>1 DEF PageChange
      <4>2. QED
        BY <4>1, <2>2 DEF OwnContent
    <3>4. QED
      BY <2>1, <2>2, <2>3, <3>1, <3>2, <3>3 DEF ViewInvOf, Shown, Editing
  <2>7. QED
    BY <2>3, <2>4, <2>5, <2>6
<1>4. ViewInvOf(r)' /\ RequestInvOf(r)'
  BY <1>1 DEF ViewInvOf, RequestInvOf, Shown, Editing
<1>5. QED
  BY <1>3, <1>4 DEF ViewInv, RequestInv

\* All pages change; only r's target or an unused definition changes its kind.
GlobalChange(r) ==
    /\ revision' = [p \in Pages |-> revision[p] + 1]
    /\ \A d \in Definitions : kind'[d] # kind[d] =>
          (kind[d] = "unused" /\ kind'[d] = "global")
             \/ (kind[d] = "global" /\ definitionLock[d] = r)

LEMMA GlobalChangeOthers ==
    ASSUME IInv, NEW r \in Requests, Commits(r), GlobalChange(r), Unlocked(r) = {}
    PROVE  ViewInv' /\ RequestInv'
<1>1. End(r) /\ OthersSame(r) /\ pc'[r] = "idle"
  BY EndFrame, CommitsEnd DEF IInv
<1>2. ASSUME NEW q \in Requests \ {r} PROVE ViewInvOf(q)' /\ RequestInvOf(q)'
  <2>1. ViewInvOf(q) /\ RequestInvOf(q)
    BY DEF IInv, ViewInv, RequestInv
  <2>2. UNCHANGED <<pc[q], op[q], page[q], target[q], seenRevision[q], seen[q], seenContent[q]>>
    BY <1>1 DEF OthersSame
  <2>3. pc[q] \in {"layoutRead"} \cup Shown =>
           /\ page[q] \in Pages
           /\ seenRevision[q] <= revision'[page[q]] /\ seenRevision[q] # revision'[page[q]]
    BY <2>1 DEF ViewInvOf, GlobalChange, IInv, TypeOK
  <2>4. ViewInvOf(q)'
    BY <2>2, <2>3 DEF ViewInvOf, Shown, Editing
  <2>5. pc[q] # "reserved"
    BY <2>1 DEF RequestInvOf, ViewInvOf, Shown, Unlocked
  <2>6. target[q] \in Definitions /\ kind[target[q]] \in {"page", "deleted"} =>
           kind'[target[q]] \in {"page", "deleted"}
    BY DEF GlobalChange
  <2>7. target[q] \in Definitions /\ definitionLock[target[q]] = q /\ kind[target[q]] = "global" =>
           definitionLock'[target[q]] = q /\ kind'[target[q]] = "global"
    BY <1>1 DEF GlobalChange, OthersSame
  <2>8. RequestInvOf(q)'
    BY <2>1, <2>2, <2>5, <2>6, <2>7 DEF RequestInvOf, ViewInvOf
  <2>9. QED
    BY <2>4, <2>8
<1>3. ViewInvOf(r)' /\ RequestInvOf(r)'
  BY <1>1 DEF ViewInvOf, RequestInvOf, Shown, Editing
<1>4. QED
  BY <1>2, <1>3 DEF ViewInv, RequestInv

-----------------------------------------------------------------------------
(* The commits, one by one: the change, the tables after it, and the step  *)
(* of PageStore that it is.                                                *)

RowsInv == TableTypes /\ Bounded /\ SectionsAreComplete /\ OrdersAreDistinct

LEMMA RowsFacts ==
    ASSUME IInv
    PROVE  /\ RowsInv
           /\ \A s \in placements : s \in Placements /\ s \in RowsOf(s.definition)
                                    /\ kind[s.definition] \notin {"unused", "deleted"}
           /\ \A d \in Definitions : kind[d] = "unused" => \A s \in placements : s.definition # d
<1>1. RowsInv /\ placements \subseteq Placements
  BY DEF IInv, RowsInv, TypeOK, TableTypes
<1>2. ASSUME NEW s \in placements
      PROVE  s \in RowsOf(s.definition) /\ kind[s.definition] \notin {"unused", "deleted"}
  BY <1>1 DEF IInv, SectionsAreComplete, RowsOf, Placements
<1>3. QED
  BY <1>1, <1>2

LEMMA TargetIsOwn ==
    ASSUME IInv, NEW r \in Requests, Commit(r, "update") \/ Commit(r, "delete")
    PROVE  /\ target[r] \in Definitions /\ kind[target[r]] = "page"
           /\ \E t \in OnPage(page[r]) : RowsOf(target[r]) = {t}
<1>1. /\ pc[r] = "reserved" /\ op[r] \in {"update", "delete"}
      /\ page[r] \in Pages /\ seen[r] = OnPage(page[r])
  BY ReservedFacts DEF Commit
<1>2. PICK t \in OnPage(page[r]) : t.definition = target[r]
  BY <1>1 DEF IInv, RequestInv, RequestInvOf
<1>3. target[r] \in Definitions /\ kind[target[r]] = "page"
  BY <1>1, <1>2, RowsFacts DEF IInv, RequestInv, RequestInvOf, OnPage
<1>4. PICK u \in RowsOf(target[r]) : RowsOf(target[r]) = {u}
  BY <1>3 DEF IInv, SectionsAreComplete, Single
<1>5. t \in RowsOf(target[r])
  BY <1>2 DEF OnPage, RowsOf
<1>6. QED
  BY <1>3, <1>4, <1>5

LEMMA CreateCommits ==
    ASSUME IInv, NEW r \in Requests, CommitCreate(r)
    PROVE  PageChange(page[r]) /\ RowsInv' /\ Store!ChangePage(page[r])
<1> DEFINE p == page[r]
<1> DEFINE t(d) == [page |-> p, definition |-> d, order |-> NextPosition(p), visible |-> TRUE]
<1>1. p \in Pages /\ revision' = [revision EXCEPT ![p] = @ + 1] /\ UNCHANGED content
  BY ReservedFacts DEF CommitCreate
<1>2. PICK d \in Definitions :
         /\ kind[d] = "unused" /\ kind' = [kind EXCEPT ![d] = "page"]
         /\ placements' = placements \cup {t(d)}
  BY DEF CommitCreate
<1>3. PICK n \in Nat : \A s \in placements : s.order <= n
  BY DEF IInv, Bounded
<1>4. /\ NextPosition(p) \in Nat /\ NextPosition(p) <= n + 1
      /\ \A s \in OnPage(p) : s.order < NextPosition(p)
  BY <1>1, <1>3, NextPositionIsLast DEF IInv, TypeOK
<1>5. /\ t(d) \in Placements /\ t(d).page = p /\ t(d).definition = d
      /\ t(d).order = NextPosition(p)
  BY <1>1, <1>4 DEF Placements
<1>6. \A s \in placements : s \in Placements /\ s.definition # d
  BY <1>2, RowsFacts
<1> HIDE DEF t, p
<1>7. \A x \in Pages \ {p} : OnPage(x)' = OnPage(x)
  BY <1>2, <1>5 DEF OnPage
<1>8. kind \in [Definitions -> Kinds] /\ \A c \in Definitions \ {d} : kind'[c] = kind[c]
  BY <1>2 DEF IInv, TypeOK
<1>9. kind'[d] = "page"
  BY <1>2, <1>8
<1>10. PageChange(p)
  BY <1>1, <1>2, <1>6, <1>7, <1>8, <1>9 DEF PageChange, OnPage, Placements
<1>11. TableTypes'
  BY <1>1, <1>2, <1>5 DEF IInv, TypeOK, TableTypes, Kinds
<1>12. Bounded'
  <2>1. \A s \in placements : s.order <= n + 1
    BY <1>3, <1>6 DEF Placements
  <2>2. \A s \in placements' : s.order <= n + 1
    BY <2>1, <1>2, <1>4, <1>5
  <2>3. n + 1 \in Nat
    OBVIOUS
  <2>4. QED
    BY <2>2, <2>3 DEF Bounded
<1>13. SectionsAreComplete'
  <2>1. \A c \in Definitions \ {d} : RowsOf(c)' = RowsOf(c)
    BY <1>2, <1>5 DEF RowsOf
  <2>2. RowsOf(d)' = {t(d)}
    BY <1>2, <1>5, <1>6 DEF RowsOf
  <2>3. QED
    BY <2>1, <2>2, <1>8, <1>9 DEF IInv, SectionsAreComplete, Single
<1>14. OrdersAreDistinct'
  <2>1. \A s \in placements : s.page = p => s.order # NextPosition(p)
    BY <1>4, <1>6 DEF OnPage, Placements
  <2>2. QED
    BY <2>1, <1>2, <1>5 DEF IInv, OrdersAreDistinct
<1>15. Store!ChangePage(p)
  <2>1. Store!OnlyPage(p)
    BY <1>1, <1>2, <1>5 DEF Store!OnlyPage
  <2>2. Store!AddSection(p)
    BY <1>1, <1>2, <1>4, <1>5 DEF Store!AddSection, Store!Last, Store!OnPage, OnPage
  <2>3. QED
    BY <2>1, <2>2 DEF Store!ChangePage
<1>16. QED
  BY <1>10, <1>11, <1>12, <1>13, <1>14, <1>15 DEF RowsInv, p

LEMMA UpdateCommits ==
    ASSUME IInv, NEW r \in Requests, CommitUpdate(r)
    PROVE  PageChange(page[r]) /\ RowsInv' /\ Store!ChangePage(page[r])
<1> DEFINE p == page[r]
<1> DEFINE d == target[r]
<1>1. /\ p \in Pages /\ revision' = [revision EXCEPT ![p] = @ + 1]
      /\ content' = [content EXCEPT ![d] = @ + 1] /\ UNCHANGED <<placements, kind>>
  BY ReservedFacts DEF CommitUpdate
<1>2. /\ d \in Definitions /\ kind[d] = "page"
      /\ \E t \in OnPage(p) : RowsOf(d) = {t}
  BY TargetIsOwn DEF CommitUpdate
<1> HIDE DEF p, d
<1>3. PICK t \in OnPage(p) : RowsOf(d) = {t}
  BY <1>2
<1>4. t.page = p /\ t.definition = d
  BY <1>3 DEF OnPage, RowsOf
<1>5. \A s \in placements : s \in Placements /\ (s.page # p => s.definition # d)
  BY <1>3, <1>4, RowsFacts DEF RowsOf
<1>6. PageChange(p)
  <2>1. \A x \in Pages : OnPage(x)' = OnPage(x)
    BY <1>1 DEF OnPage
  <2>2. \A c \in Definitions \ {d} : content'[c] = content[c]
    BY <1>1 DEF IInv, TypeOK
  <2>3. \A x \in Pages \ {p} : \A s \in OnPage(x) : s.definition \in Definitions \ {d}
    BY <1>5 DEF OnPage, Placements
  <2>4. QED
    BY <1>1, <2>1, <2>2, <2>3 DEF PageChange
<1>7. RowsInv'
  <2>1. TableTypes'
    BY <1>1, <1>2 DEF IInv, TypeOK, TableTypes
  <2>2. Bounded' /\ OrdersAreDistinct'
    BY <1>1 DEF IInv, Bounded, OrdersAreDistinct
  <2>3. SectionsAreComplete'
    BY <1>1 DEF IInv, SectionsAreComplete, RowsOf, Single
  <2>4. QED
    BY <2>1, <2>2, <2>3 DEF RowsInv
<1>8. Store!ChangePage(p)
  <2>1. Store!OnlyPage(p)
    BY <1>1 DEF Store!OnlyPage
  <2>2. Store!EditSection(p)
    BY <1>1, <1>2, <1>3, <1>4 DEF Store!EditSection, Store!DefinitionsOn, Store!OnPage, OnPage
  <2>3. QED
    BY <2>1, <2>2 DEF Store!ChangePage
<1>9. QED
  BY <1>6, <1>7, <1>8 DEF p

LEMMA DeleteCommits ==
    ASSUME IInv, NEW r \in Requests, CommitDelete(r)
    PROVE  PageChange(page[r]) /\ RowsInv' /\ Store!ChangePage(page[r])
<1> DEFINE p == page[r]
<1>0. PICK d \in Definitions : d = target[r] /\ kind[d] = "page" /\ \E t \in OnPage(p) : RowsOf(d) = {t}
  BY TargetIsOwn DEF CommitDelete
<1>1. /\ p \in Pages /\ revision' = [revision EXCEPT ![p] = @ + 1]
      /\ placements' = {s \in placements : s.definition # d}
      /\ kind' = [kind EXCEPT ![d] = "deleted"] /\ UNCHANGED content
  BY <1>0, ReservedFacts DEF CommitDelete
<1>2. /\ kind[d] = "page"
      /\ \E t \in OnPage(p) : RowsOf(d) = {t}
  BY <1>0
<1> HIDE DEF p
<1>3. PICK t \in OnPage(p) : RowsOf(d) = {t}
  BY <1>2
<1>4. t.page = p /\ t.definition = d
  BY <1>3 DEF OnPage, RowsOf
<1>5. \A s \in placements : s \in Placements /\ (s.page # p => s.definition # d)
  BY <1>3, <1>4, RowsFacts DEF RowsOf
<1>6. \A c \in Definitions \ {d} : kind'[c] = kind[c]
  BY <1>1 DEF IInv, TypeOK
<1>7. kind'[d] = "deleted"
  BY <1>1, <1>2 DEF IInv, TypeOK
<1>8. PageChange(p)
  <2>1. \A x \in Pages \ {p} : OnPage(x)' = OnPage(x)
    BY <1>1, <1>5 DEF OnPage
  <2>2. \A x \in Pages \ {p} : \A s \in OnPage(x) : s.definition \in Definitions \ {d}
    BY <1>5 DEF OnPage, Placements
  <2>3. QED
    BY <1>1, <1>2, <1>6, <1>7, <2>1, <2>2 DEF PageChange
<1>9. TableTypes' /\ Bounded' /\ OrdersAreDistinct'
  <2>1. TableTypes'
    BY <1>1 DEF IInv, TypeOK, TableTypes, Kinds
  <2>2. Bounded'
    BY <1>1 DEF IInv, Bounded
  <2>3. OrdersAreDistinct'
    BY <1>1 DEF IInv, OrdersAreDistinct
  <2>4. QED
    BY <2>1, <2>2, <2>3
<1>10. SectionsAreComplete'
  <2>1. \A c \in Definitions \ {d} : RowsOf(c)' = RowsOf(c)
    BY <1>1 DEF RowsOf
  <2>2. RowsOf(d)' = {}
    BY <1>1 DEF RowsOf
  <2>3. QED
    BY <2>1, <2>2, <1>6, <1>7 DEF IInv, SectionsAreComplete, Single
<1>11. Store!ChangePage(p)
  <2>1. Store!OnlyPage(p)
    BY <1>1, <1>5 DEF Store!OnlyPage
  <2>2. Store!RemoveSection(p)
    BY <1>1, <1>2, <1>3, <1>4 DEF Store!RemoveSection, Store!DefinitionsOn, Store!OnPage, OnPage
  <2>3. QED
    BY <2>1, <2>2 DEF Store!ChangePage
<1>12. QED
  BY <1>8, <1>9, <1>10, <1>11 DEF RowsInv, p

LEMMA ToggleCommits ==
    ASSUME IInv, NEW r \in Requests, CommitToggle(r)
    PROVE  PageChange(page[r]) /\ RowsInv' /\ Store!ChangePage(page[r])
<1> DEFINE p == page[r]
<1>1. /\ p \in Pages /\ revision' = [revision EXCEPT ![p] = @ + 1]
      /\ UNCHANGED <<kind, content>>
  BY ReservedFacts DEF CommitToggle
<1>2. PICK s \in OnPage(p), b \in BOOLEAN :
         placements' = (placements \ {s}) \cup {[s EXCEPT !.visible = b]}
  BY DEF CommitToggle
<1>3. PICK t : t = [s EXCEPT !.visible = b]
  OBVIOUS
<1>4. s \in placements /\ s \in Placements /\ s.page = p
  BY <1>2, RowsFacts DEF OnPage
<1>5. /\ t \in Placements /\ t.page = p
      /\ t.definition = s.definition /\ t.order = s.order
  BY <1>3, <1>4 DEF Placements
<1>6. placements' = (placements \ {s}) \cup {t}
  BY <1>2, <1>3
<1> HIDE DEF p
<1>7. \A x \in Pages \ {p} : OnPage(x)' = OnPage(x)
  BY <1>4, <1>5, <1>6 DEF OnPage
<1>8. PageChange(p)
  BY <1>1, <1>7 DEF PageChange
<1>9. TableTypes' /\ Bounded' /\ OrdersAreDistinct'
  <2>1. TableTypes'
    BY <1>1, <1>5, <1>6 DEF IInv, TypeOK, TableTypes
  <2>2. Bounded'
    BY <1>4, <1>5, <1>6 DEF IInv, Bounded
  <2>3. OrdersAreDistinct'
    BY <1>4, <1>5, <1>6 DEF IInv, OrdersAreDistinct
  <2>4. QED
    BY <2>1, <2>2, <2>3
<1>10. SectionsAreComplete'
  <2>1. \A c \in Definitions \ {s.definition} : RowsOf(c)' = RowsOf(c)
    BY <1>5, <1>6 DEF RowsOf
  <2>2. PICK c \in Definitions : c = s.definition
    BY <1>4 DEF Placements
  <2>3. RowsOf(c)' = (RowsOf(c) \ {s}) \cup {t}
    BY <1>5, <1>6, <2>2 DEF RowsOf
  <2>4. s \in RowsOf(c) /\ kind[c] \notin {"unused", "deleted"}
    BY <1>4, <2>2, RowsFacts
  <2>5. Single(RowsOf(c)) => Single(RowsOf(c)')
    BY <2>3, <2>4 DEF Single
  <2>6. \A x \in Pages : Single({u \in RowsOf(c) : u.page = x}) => Single({u \in RowsOf(c)' : u.page = x})
    BY <1>4, <1>5, <2>3, <2>4 DEF Single
  <2>7. QED
    BY <1>1, <2>1, <2>2, <2>4, <2>5, <2>6 DEF IInv, SectionsAreComplete, Single
<1>11. Store!ChangePage(p)
  <2>1. Store!OnlyPage(p)
    BY <1>1, <1>4, <1>5, <1>6 DEF Store!OnlyPage
  <2>2. Store!Arrange(p)
    BY <1>1, <1>4, <1>5, <1>6 DEF Store!Arrange, Store!DefinitionsOn, Store!OnPage
  <2>3. QED
    BY <2>1, <2>2 DEF Store!ChangePage
<1>12. QED
  BY <1>8, <1>9, <1>10, <1>11 DEF RowsInv, p

\* A definition has one row on a page.
LEMMA UniqueRow ==
    ASSUME IInv, NEW s \in placements, NEW t \in placements,
           s.page = t.page, s.definition = t.definition
    PROVE  s = t
<1>1. s \in Placements /\ s \in RowsOf(s.definition) /\ t \in RowsOf(s.definition)
  BY RowsFacts
<1>2. s.definition \in Definitions /\ s.page \in Pages
  BY <1>1 DEF Placements
<1>3. CASE kind[s.definition] = "page"
  BY <1>1, <1>2, <1>3 DEF IInv, SectionsAreComplete, Single
<1>4. CASE kind[s.definition] \in {"system", "global"}
  <2>1. Single({u \in RowsOf(s.definition) : u.page = s.page})
    BY <1>2, <1>4 DEF IInv, SectionsAreComplete
  <2>2. QED
    BY <1>1, <2>1 DEF Single
<1>5. QED
  BY <1>2, <1>3, <1>4, RowsFacts DEF IInv, TypeOK, Kinds

LEMMA ReorderCommits ==
    ASSUME IInv, NEW r \in Requests, CommitReorder(r)
    PROVE  PageChange(page[r]) /\ RowsInv' /\ Store!ChangePage(page[r])
<1> DEFINE p == page[r]
<1> DEFINE D == {s.definition : s \in OnPage(p)}
<1>1. /\ p \in Pages /\ revision' = [revision EXCEPT ![p] = @ + 1]
      /\ UNCHANGED <<kind, content>> /\ seen[r] = OnPage(p)
  BY ReservedFacts DEF CommitReorder
<1>2. PICK f \in Orders(D) :
         placements' = {IF s.page = p /\ s.definition \in DOMAIN f
                        THEN [s EXCEPT !.order = f[s.definition]] ELSE s : s \in placements}
  BY <1>1 DEF CommitReorder
<1>3. PICK n \in Nat : /\ f \in [D -> 0..n - 1]
                       /\ \A c, d \in D : f[c] = f[d] => c = d
  <2>1. D \in SUBSET Definitions
    BY RowsFacts DEF OnPage, Placements
  <2>2. Cardinality(D) \in Nat
    BY <2>1, DefinitionsAssumption, FS_Subset, FS_CardinalityType
  <2>3. QED
    BY <1>2, <2>2 DEF Orders
<1> DEFINE g(s) == IF s.page = p THEN [s EXCEPT !.order = f[s.definition]] ELSE s
<1>4. placements' = {g(s) : s \in placements}
  <2>1. \A s \in placements : s.page = p => s.definition \in DOMAIN f
    BY <1>3 DEF OnPage
  <2>2. QED
    BY <1>2, <2>1
<1>5. ASSUME NEW s \in placements
      PROVE  /\ g(s) \in Placements /\ g(s).page = s.page /\ g(s).definition = s.definition
             /\ s.page # p => g(s) = s
             /\ s.page = p => s.definition \in D /\ g(s).order = f[s.definition] /\ g(s).order <= n
  <2>1. s \in Placements
    BY RowsFacts
  <2>2. s.page = p => s.definition \in D /\ f[s.definition] \in Nat /\ f[s.definition] <= n
    BY <1>3 DEF OnPage
  <2>3. QED
    BY <2>1, <2>2 DEF Placements
<1> HIDE DEF p, D, g
<1>6. \A x \in Pages \ {p} : OnPage(x)' = OnPage(x)
  BY <1>4, <1>5 DEF OnPage
<1>7. PageChange(p)
  BY <1>1, <1>6 DEF PageChange
<1>8. TableTypes'
  BY <1>1, <1>4, <1>5 DEF IInv, TypeOK, TableTypes
<1>9. Bounded'
  <2>1. PICK m \in Nat : \A s \in placements : s.order <= m
    BY DEF IInv, Bounded
  <2>2. \A s \in placements : g(s).order <= m + n
    BY <1>5, <2>1, RowsFacts DEF Placements
  <2>3. \A s \in placements' : s.order <= m + n
    BY <1>4, <2>2
  <2>4. m + n \in Nat
    OBVIOUS
  <2>5. QED
    BY <2>3, <2>4 DEF Bounded
<1>10. SectionsAreComplete'
  <2>1. ASSUME NEW c
        PROVE  RowsOf(c)' = {g(s) : s \in RowsOf(c)} /\ RowsOf(c) \subseteq placements
    BY <1>4, <1>5 DEF RowsOf
  <2>2. ASSUME NEW c, Single(RowsOf(c))
        PROVE  Single(RowsOf(c))'
    <3>1. PICK s \in RowsOf(c) : RowsOf(c) = {s}
      BY <2>2 DEF Single
    <3>2. RowsOf(c)' = {g(s)}
      BY <2>1, <3>1
    <3>3. QED
      BY <3>2 DEF Single
  <2>3. ASSUME NEW c, NEW x, Single({s \in RowsOf(c) : s.page = x})
        PROVE  Single({s \in RowsOf(c) : s.page = x})'
    <3>1. PICK s \in RowsOf(c) : {t \in RowsOf(c) : t.page = x} = {s}
      BY <2>3 DEF Single
    <3>2. {t \in RowsOf(c)' : t.page = x} = {g(s)}
      BY <1>5, <2>1, <3>1
    <3>3. QED
      BY <3>2 DEF Single
  <2>4. \A c : RowsOf(c) = {} => RowsOf(c)' = {}
    BY <2>1
  <2>5. ASSUME NEW c \in Definitions
        PROVE  /\ kind[c] \in {"system", "global"} =>
                      \A x \in Pages : Single({s \in RowsOf(c) : s.page = x})'
               /\ kind[c] = "page" => Single(RowsOf(c))'
               /\ kind[c] \in {"unused", "deleted"} => RowsOf(c)' = {}
    BY <2>2, <2>3, <2>4 DEF IInv, SectionsAreComplete
  <2>6. QED
    BY <1>1, <2>5 DEF SectionsAreComplete
<1>11. OrdersAreDistinct'
  <2>1. ASSUME NEW s \in placements, NEW t \in placements,
               g(s).page = g(t).page, g(s).order = g(t).order
        PROVE  g(s) = g(t)
    <3>1. CASE s.page = p
      <4>1. s.definition = t.definition /\ s.page = t.page
        BY <1>3, <1>5, <2>1, <3>1
      <4>2. QED
        BY <4>1, UniqueRow
    <3>2. CASE s.page # p
      BY <1>5, <2>1, <3>2 DEF IInv, OrdersAreDistinct
    <3>3. QED
      BY <3>1, <3>2
  <2>2. QED
    BY <1>4, <2>1 DEF OrdersAreDistinct
<1>12. Store!ChangePage(p)
  <2>1. Store!OnlyPage(p)
    BY <1>1, <1>4, <1>5 DEF Store!OnlyPage
  <2>2. Store!Arrange(p)
    BY <1>1, <1>4, <1>5 DEF Store!Arrange, Store!DefinitionsOn, Store!OnPage
  <2>3. QED
    BY <2>1, <2>2 DEF Store!ChangePage
<1>13. QED
  BY <1>7, <1>8, <1>9, <1>10, <1>11, <1>12 DEF RowsInv, p

LEMMA CreateGlobalCommits ==
    ASSUME IInv, NEW r \in Requests, CommitCreateGlobal(r)
    PROVE  GlobalChange(r) /\ Unlocked(r) = {} /\ RowsInv' /\ Store!AddGlobal
<1>1. /\ revision' = [p \in Pages |-> revision[p] + 1]
      /\ UNCHANGED content /\ Unlocked(r) = {}
  BY DEF CommitCreateGlobal, CommitAll
<1> DEFINE t(c, p) == [page |-> p, definition |-> c, order |-> NextPosition(p), visible |-> TRUE]
<1>2. PICK d \in Definitions :
         /\ kind[d] = "unused" /\ kind' = [kind EXCEPT ![d] = "global"]
         /\ placements' = placements \cup {t(d, p) : p \in Pages}
  BY DEF CommitCreateGlobal
<1>3. PICK n \in Nat : \A s \in placements : s.order <= n
  BY DEF IInv, Bounded
<1>4. ASSUME NEW p \in Pages
      PROVE  /\ NextPosition(p) \in Nat /\ NextPosition(p) <= n + 1
             /\ \A s \in OnPage(p) : s.order < NextPosition(p)
  BY <1>3, NextPositionIsLast DEF IInv, TypeOK
<1>5. \A p \in Pages : /\ t(d, p) \in Placements /\ t(d, p).page = p
                       /\ t(d, p).definition = d /\ t(d, p).order = NextPosition(p)
  BY <1>4 DEF Placements
<1>6. \A s \in placements : s \in Placements /\ s.definition # d
  BY <1>2, RowsFacts
<1> HIDE DEF t
<1>7. (\A c \in Definitions \ {d} : kind'[c] = kind[c]) /\ kind'[d] = "global"
  BY <1>2 DEF IInv, TypeOK
<1>8. GlobalChange(r)
  BY <1>1, <1>2, <1>7 DEF GlobalChange
<1>9. TableTypes'
  BY <1>1, <1>2, <1>5 DEF IInv, TypeOK, TableTypes, Kinds
<1>10. Bounded'
  <2>1. \A s \in placements : s.order <= n + 1
    BY <1>3, <1>6 DEF Placements
  <2>2. \A s \in placements' : s.order <= n + 1
    BY <2>1, <1>2, <1>4, <1>5
  <2>3. n + 1 \in Nat
    OBVIOUS
  <2>4. QED
    BY <2>2, <2>3 DEF Bounded
<1>11. SectionsAreComplete'
  <2>1. \A c \in Definitions \ {d} : RowsOf(c)' = RowsOf(c)
    BY <1>2, <1>5 DEF RowsOf
  <2>2. ASSUME NEW p \in Pages PROVE Single({s \in RowsOf(d)' : s.page = p})
    <3>1. {s \in RowsOf(d)' : s.page = p} = {t(d, p)}
      BY <1>2, <1>5, <1>6 DEF RowsOf
    <3>2. QED
      BY <3>1 DEF Single
  <2>3. QED
    BY <2>1, <2>2, <1>7 DEF IInv, SectionsAreComplete, Single
<1>12. OrdersAreDistinct'
  <2>1. \A s \in placements : s.page \in Pages /\ s.order # NextPosition(s.page)
    BY <1>4, <1>6 DEF OnPage, Placements
  <2>2. QED
    BY <2>1, <1>2, <1>5 DEF IInv, OrdersAreDistinct
<1>13. Store!AddGlobal
  <2>1. {s \in placements' : s.definition # d} = placements
    BY <1>2, <1>5, <1>6
  <2>2. \A p \in Pages : \E s \in placements' :
           s.page = p /\ s.definition = d /\ Store!Last(s.order, p)
    BY <1>2, <1>4, <1>5 DEF Store!Last, Store!OnPage, OnPage
  <2>3. QED
    BY <2>1, <2>2, <1>1, <1>2 DEF Store!AddGlobal, Store!EveryRevision
<1>14. QED
  BY <1>1, <1>8, <1>9, <1>10, <1>11, <1>12, <1>13 DEF RowsInv

LEMMA DeleteGlobalCommits ==
    ASSUME IInv, NEW r \in Requests, CommitDeleteGlobal(r)
    PROVE  GlobalChange(r) /\ Unlocked(r) = {} /\ RowsInv' /\ Store!RemoveGlobal
<1>1. PICK d \in Definitions : d = target[r] /\ kind[d] = "global" /\ definitionLock[d] = r
  BY DEF CommitDeleteGlobal, CommitAll, IInv, RequestInv, RequestInvOf
<1>2. /\ revision' = [p \in Pages |-> revision[p] + 1]
      /\ UNCHANGED content /\ Unlocked(r) = {}
      /\ placements' = {s \in placements : s.definition # d}
      /\ kind' = [kind EXCEPT ![d] = "deleted"]
  BY <1>1 DEF CommitDeleteGlobal, CommitAll
<1>3. (\A c \in Definitions \ {d} : kind'[c] = kind[c]) /\ kind'[d] = "deleted"
  BY <1>2 DEF IInv, TypeOK
<1>4. GlobalChange(r)
  BY <1>1, <1>2, <1>3 DEF GlobalChange
<1>5. TableTypes'
  BY <1>2 DEF IInv, TypeOK, TableTypes, Kinds
<1>6. Bounded' /\ OrdersAreDistinct'
  BY <1>2 DEF IInv, Bounded, OrdersAreDistinct
<1>7. SectionsAreComplete'
  <2>1. \A c \in Definitions \ {d} : RowsOf(c)' = RowsOf(c)
    BY <1>2 DEF RowsOf
  <2>2. RowsOf(d)' = {}
    BY <1>2 DEF RowsOf
  <2>3. QED
    BY <2>1, <2>2, <1>3 DEF IInv, SectionsAreComplete, Single
<1>8. Store!RemoveGlobal
  BY <1>1, <1>2 DEF Store!RemoveGlobal, Store!EveryRevision
<1>9. QED
  BY <1>2, <1>4, <1>5, <1>6, <1>7, <1>8 DEF RowsInv

LEMMA UpdateGlobalCommits ==
    ASSUME IInv, NEW r \in Requests, CommitUpdateGlobal(r)
    PROVE  ViewInv' /\ RequestInv' /\ RowsInv' /\ Store!EditGlobal
<1>1. PICK d \in Definitions : d = target[r] /\ kind[d] = "global"
  BY DEF CommitUpdateGlobal, IInv, RequestInv, RequestInvOf
<1>2. /\ content' = [content EXCEPT ![d] = @ + 1]
      /\ UNCHANGED <<revision, placements, kind>> /\ End(r)
  BY <1>1 DEF CommitUpdateGlobal
<1>3. OthersSame(r) /\ pc'[r] = "idle"
  BY <1>2, EndFrame DEF IInv
<1>4. /\ \A p : OnPage(p)' = OnPage(p)
      /\ \A q \in Requests \ {r} : OwnContent(seen[q])' = OwnContent(seen[q])
  BY <1>1, <1>2, <1>3 DEF OnPage, OwnContent, OthersSame, IInv, TypeOK
<1>5. ViewInv'
  <2>1. ASSUME NEW q \in Requests \ {r} PROVE ViewInvOf(q)'
    BY <1>2, <1>3, <1>4 DEF IInv, ViewInv, ViewInvOf, OthersSame, Shown, Editing
  <2>2. ViewInvOf(r)'
    BY <1>3 DEF ViewInvOf, Shown, Editing
  <2>3. QED
    BY <2>1, <2>2 DEF ViewInv
<1>6. RequestInv'
  <2>1. ASSUME NEW q \in Requests \ {r} PROVE RequestInvOf(q)'
    BY <1>2, <1>3 DEF IInv, ViewInv, ViewInvOf, RequestInv, RequestInvOf, OthersSame, Shown
  <2>2. RequestInvOf(r)'
    BY <1>3 DEF RequestInvOf
  <2>3. QED
    BY <2>1, <2>2 DEF RequestInv
<1>7. TableTypes'
  BY <1>2 DEF IInv, TypeOK, TableTypes
<1>8. Bounded' /\ OrdersAreDistinct'
  BY <1>2 DEF IInv, Bounded, OrdersAreDistinct
<1>9. SectionsAreComplete'
  BY <1>2 DEF IInv, SectionsAreComplete, RowsOf, Single
<1>10. Store!EditGlobal
  BY <1>1, <1>2 DEF Store!EditGlobal
<1>11. QED
  BY <1>5, <1>6, <1>7, <1>8, <1>9, <1>10 DEF RowsInv

-----------------------------------------------------------------------------
(* Every step.                                                             *)

LEMMA CommitsOK ==
    ASSUME IInv, NEW r \in Requests, Commits(r)
    PROVE  ViewInv' /\ RequestInv' /\ RowsInv' /\ Store!Next
<1>1. CASE CommitCreate(r)
  BY <1>1, CreateCommits, PageChangeOthers, ReservedFacts DEF CommitCreate, Store!Next
<1>2. CASE CommitUpdate(r)
  BY <1>2, UpdateCommits, PageChangeOthers, ReservedFacts DEF CommitUpdate, Store!Next
<1>3. CASE CommitDelete(r)
  BY <1>3, DeleteCommits, PageChangeOthers, ReservedFacts DEF CommitDelete, Store!Next
<1>4. CASE CommitToggle(r)
  BY <1>4, ToggleCommits, PageChangeOthers, ReservedFacts DEF CommitToggle, Store!Next
<1>5. CASE CommitReorder(r)
  BY <1>5, ReorderCommits, PageChangeOthers, ReservedFacts DEF CommitReorder, Store!Next
<1>6. CASE CommitCreateGlobal(r)
  BY <1>6, CreateGlobalCommits, GlobalChangeOthers DEF Store!Next
<1>7. CASE CommitDeleteGlobal(r)
  BY <1>7, DeleteGlobalCommits, GlobalChangeOthers DEF Store!Next
<1>8. CASE CommitUpdateGlobal(r)
  BY <1>8, UpdateGlobalCommits DEF Store!Next
<1>9. QED
  BY <1>1, <1>2, <1>3, <1>4, <1>5, <1>6, <1>7, <1>8 DEF Commits

LEMMA StepOK ==
    ASSUME IInv, [Next]_vars
    PROVE  IInv' /\ [Store!Next]_(Store!storeVars)
<1>1. CASE UNCHANGED vars
  <2>1. UNCHANGED <<tableVars, lockVars, pc, op, target, viewVars>>
    BY <1>1 DEF vars
  <2>2. TypeOK' /\ Bounded' /\ LockInv' /\ OrdersAreDistinct'
    <3>1. TypeOK'
      BY <2>1 DEF IInv, TypeOK, tableVars, lockVars, viewVars
    <3>2. Bounded'
      BY <2>1 DEF IInv, Bounded, tableVars
    <3>3. LockInv'
      BY <2>1 DEF IInv, LockInv, lockVars, viewVars
    <3>4. OrdersAreDistinct'
      BY <2>1 DEF IInv, OrdersAreDistinct, tableVars
    <3>5. QED
      BY <3>1, <3>2, <3>3, <3>4
  <2>3. ViewInv' /\ RequestInv' /\ SectionsAreComplete'
    BY <2>1 DEF IInv, ViewInv, ViewInvOf, RequestInv, RequestInvOf, SectionsAreComplete, RowsOf,
       Single, OnPage, OwnContent, tableVars, lockVars, viewVars
  <2>4. QED
    BY <2>1, <2>2, <2>3 DEF IInv, tableVars, Store!storeVars
<1>2. CASE Next
  <2>1. PICK r \in Requests : Silent(r) \/ Commits(r)
    BY <1>2 DEF Next, Serve, Silent, Locks, Ends, Commits
  <2>2. CASE Silent(r)
    BY <2>2, SilentIInv, TablesSame DEF Silent, tableVars, Store!storeVars
  <2>3. CASE Commits(r)
    <3>1. ViewInv' /\ RequestInv' /\ RowsInv' /\ Store!Next
      BY <2>3, CommitsOK
    <3>2. LockInv' /\ RequestTypes'
      BY <2>3, StepLockInv, StepRequestTypes DEF IInv, Step
    <3>3. TypeOK'
      BY <3>1, <3>2, NoneAssumption DEF RowsInv, RequestTypes, TableTypes, LockInv, TypeOK, InTx
    <3>4. QED
      BY <3>1, <3>2, <3>3 DEF RowsInv, IInv
  <2>4. QED
    BY <2>1, <2>2, <2>3
<1>3. QED
  BY <1>1, <1>2

LEMMA Invariance == Spec => []IInv
<1>1. IInv /\ [Next]_vars => IInv'
  BY StepOK
<1>2. QED
  BY <1>1, InitIInv, PTL DEF Spec

\* Variables have their types, and only open transactions hold locks.
THEOREM PagesTypes == Spec => []TypeOK
<1>1. IInv => TypeOK
  BY DEF IInv
<1>2. QED
  BY <1>1, Invariance, PTL

\* reservePageRevision lets a page edit pass only if all that its editor was
\* shown, in three separate reads, is still what the page is.
THEOREM NoEditOfAStalePage == Spec => []EditsSeeThePage
<1>1. IInv => EditsSeeThePage
  BY DEF IInv, EditsSeeThePage, ViewInv, ViewInvOf, RequestInv, RequestInvOf, Shown, Editing
<1>2. QED
  BY <1>1, Invariance, PTL

\* Global sections are on every page of the registry and others are not,
\* however creations, deletions and page edits interleave.
THEOREM SectionsComplete == Spec => []SectionsAreComplete
<1>1. IInv => SectionsAreComplete
  BY DEF IInv
<1>2. QED
  BY <1>1, Invariance, PTL

\* max + 1 and reorder never give two sections of a page the same place.
THEOREM DistinctOrders == Spec => []OrdersAreDistinct
<1>1. IInv => OrdersAreDistinct
  BY DEF IInv
<1>2. QED
  BY <1>1, Invariance, PTL

\* The service implements PageStore: each transaction is one atomic change
\* of one page, of a definition, or of all pages.
THEOREM PagesImplementStore == Spec => ImplementsStore
<1>1. Init => Store!Init
  <2> SUFFICES ASSUME Init PROVE Store!Init
    OBVIOUS
  <2>1. revision = [p \in Pages |-> 0] /\ content = [d \in Definitions |-> 1]
    BY DEF Init
  <2>2. \A s \in placements :
            s = [page |-> s.page, definition |-> System, order |-> 0, visible |-> TRUE]
    BY DEF Init
  <2>3. ASSUME NEW p \in Pages, NEW s \in Store!OnPage(p), NEW t \in Store!OnPage(p)
        PROVE  s = t
    <3>1. s \in placements /\ t \in placements /\ s.page = p /\ t.page = p
      BY <2>3 DEF Store!OnPage
    <3>2. QED
      BY <2>2, <3>1, Zenon
  <2>4. QED
    BY <2>1, <2>3 DEF Store!Init
<1>2. IInv /\ [Next]_vars => [Store!Next]_(Store!storeVars)
  BY StepOK
<1>3. QED
  BY <1>1, <1>2, Invariance, PTL DEF Spec, ImplementsStore, Store!Spec

-----------------------------------------------------------------------------
(* No cycle of waiting.  The rows of the layouts are locked in their       *)
(* order, so the holder of the last locked row waits for none of them.     *)

\* A finite set of naturals is bounded: else there would be a smallest one
\* that is not, and without one of its elements it would be smaller still.
LEMMA FiniteIsBounded ==
    ASSUME NEW S \in SUBSET Nat, IsFiniteSet(S)
    PROVE  \E n \in Nat : \A x \in S : x <= n
<1> DEFINE Bound(A) == \E n \in Nat : \A x \in A : x <= n
           Sizes == {k \in Nat : \E A \in SUBSET Nat : IsFiniteSet(A) /\ Cardinality(A) = k /\ ~Bound(A)}
<1>1. SUFFICES ASSUME ~Bound(S) PROVE FALSE
  OBVIOUS
<1>2. Cardinality(S) \in Sizes
  BY <1>1, FS_CardinalityType
<1>3. PICK m \in Sizes : \A k \in Sizes : m <= k
  <2> HIDE DEF Sizes
  <2>1. Sizes \in SUBSET Nat
    BY DEF Sizes
  <2>2. QED
    BY <1>2, <2>1, Least
<1>4. PICK A \in SUBSET Nat : IsFiniteSet(A) /\ Cardinality(A) = m /\ ~Bound(A)
  OBVIOUS
<1>5. PICK x \in A : TRUE
  BY <1>4
<1>6. IsFiniteSet(A \ {x}) /\ Cardinality(A \ {x}) = m - 1 /\ m - 1 \in Nat
  <2>1. IsFiniteSet(A \ {x}) /\ Cardinality(A \ {x}) = Cardinality(A) - 1
    BY <1>4, <1>5, FS_RemoveElement
  <2>2. QED
    BY <1>4, <2>1, FS_CardinalityType
<1>7. Bound(A \ {x})
  <2>1. m - 1 \notin Sizes
    BY <1>3, <1>6
  <2>2. QED
    BY <1>6, <2>1
<1>8. PICK n \in Nat : \A y \in A \ {x} : y <= n
  BY <1>7
<1>9. n + x \in Nat /\ \A y \in A : y <= n + x
  BY <1>5, <1>8
<1>10. QED
  BY <1>4, <1>9

\* A global edit that has locked a layout has locked all before it.
OrderInv ==
    \A r \in Requests : pc[r] = "locking" =>
        \A p, q \in Pages : p < q /\ layoutLock[q] = r => layoutLock[p] = r

LEMMA StepOrderInv ==
    ASSUME IInv, OrderInv, NEW r \in Requests, Step(r)
    PROVE  OrderInv'
<1>1. OthersSame(r)
  BY Frame DEF IInv
<1>2. ASSUME NEW q \in Requests \ {r}, pc'[q] = "locking",
             NEW x \in Pages, NEW y \in Pages, x < y, layoutLock'[y] = q
      PROVE  layoutLock'[x] = q
  <2>1. pc[q] = "locking" /\ layoutLock[y] = q
    BY <1>1, <1>2 DEF OthersSame
  <2>2. layoutLock[x] = q
    BY <1>2, <2>1 DEF OrderInv
  <2>3. QED
    BY <1>1, <2>2 DEF OthersSame
<1>3. ASSUME pc'[r] = "locking", NEW x \in Pages, NEW y \in Pages, x < y, layoutLock'[y] = r
      PROVE  layoutLock'[x] = r
  <2>1. pc \in [Requests -> States] /\ layoutLock \in [Pages -> Requests \cup {None}]
    BY DEF IInv, TypeOK
  <2>2. BeginCreateGlobal(r) \/ LockDefinition(r) => UNCHANGED layoutLock /\ pc[r] \in {"idle", "listed"}
    BY DEF BeginCreateGlobal, LockDefinition, Advance, lockVars
  <2>3. pc[r] \in {"idle", "listed"} => layoutLock[y] # r
    BY DEF IInv, LockInv
  <2>4. ~Commits(r) /\ ~Ends(r)
    BY <1>3, CommitsEnd, EndFrame DEF IInv
  <2>5. ~Read(r) /\ ~ReservePage(r) /\ ~BeginCreate(r) /\ ~BeginEdit(r) /\ ~BeginReorder(r)
    BY <1>3, <2>1 DEF Read, ReadLayout, ReadSections, ReadDefinitions, ListGlobals, ReservePage,
       BeginCreate, BeginEdit, BeginReorder, Advance
  <2>6. LockLayout(r)
    BY <1>3, <2>2, <2>3, <2>4, <2>5 DEF Step, Begin, Locks
  <2>7. PICK p \in Unlocked(r) :
           /\ \A q \in Unlocked(r) : p <= q
           /\ layoutLock' = [layoutLock EXCEPT ![p] = r] /\ pc[r] = "locking"
    BY <2>6 DEF LockLayout
  <2>8. layoutLock[x] = r \/ x = p
    <3>1. CASE y = p
      <4>1. x \in Nat /\ p \in Nat /\ ~(p <= x)
        BY <1>3, <3>1, PagesAssumption
      <4>2. QED
        BY <2>7, <4>1 DEF Unlocked
    <3>2. CASE y # p
      <4>1. layoutLock[y] = r
        BY <1>3, <2>1, <2>7, <3>2
      <4>2. QED
        BY <1>3, <2>7, <4>1 DEF OrderInv
    <3>3. QED
      BY <3>1, <3>2
  <2>9. QED
    BY <2>1, <2>7, <2>8
<1>4. QED
  BY <1>2, <1>3 DEF OrderInv

\* Of the open transactions the one that holds the last locked layout can go on.
LEMMA SomeoneGoesOn ==
    ASSUME IInv, OrderInv
    PROVE  NoWaitCycle
<1>1. SUFFICES ASSUME NEW b \in Busy, \A r \in Busy : WaitsFor(r) # {} PROVE FALSE
  BY DEF NoWaitCycle
<1>2. /\ pc \in [Requests -> States] /\ layoutLock \in [Pages -> Requests \cup {None}]
      /\ definitionLock \in [Definitions -> Requests \cup {None}]
  BY DEF IInv, TypeOK
<1>3. ASSUME NEW r \in Requests PROVE pc[r] \notin {"reserved", "updating"}
  BY <1>1 DEF Busy, InTx, WaitsFor
\* Who holds a layout or a definition is locking the layouts.
<1>4. \A p \in Pages : layoutLock[p] # None => layoutLock[p] \in Requests /\ pc[layoutLock[p]] = "locking"
  BY <1>2, <1>3 DEF IInv, LockInv
<1>5. \A d \in Definitions :
          definitionLock[d] # None => definitionLock[d] \in Requests /\ pc[definitionLock[d]] = "locking"
  BY <1>2, <1>3 DEF IInv, LockInv
\* Who is locking the layouts waits for the first one that it does not hold.
<1>6. ASSUME NEW r \in Requests, pc[r] = "locking"
      PROVE  \E p \in Unlocked(r) : layoutLock[p] # None /\ \A x \in Unlocked(r) : p <= x
  <2>1. r \in Busy
    BY <1>6 DEF Busy, InTx
  <2>2. WaitsFor(r) = {layoutLock[p] : p \in {q \in Unlocked(r) : \A x \in Unlocked(r) : q <= x}} \ {None}
    BY <1>6 DEF WaitsFor
  <2>3. QED
    BY <1>1, <2>1, <2>2
<1>7. \E r \in Requests : pc[r] = "locking"
  <2>1. CASE pc[b] = "reserving"
    <3>1. page[b] \in Pages
      BY <2>1 DEF IInv, ViewInv, ViewInvOf, Shown, Busy
    <3>2. layoutLock[page[b]] # None
      BY <1>1, <2>1 DEF WaitsFor
    <3>3. QED
      BY <1>4, <3>1, <3>2
  <2>2. CASE pc[b] = "listed"
    <3>1. target[b] \in Definitions
      BY <2>2 DEF IInv, RequestInv, RequestInvOf, Busy
    <3>2. definitionLock[target[b]] # None
      BY <1>1, <2>2 DEF WaitsFor
    <3>3. QED
      BY <1>5, <3>1, <3>2
  <2>3. CASE pc[b] = "locking"
    BY <2>3 DEF Busy
  <2>4. QED
    BY <1>3, <2>1, <2>2, <2>3 DEF Busy, InTx
<1> DEFINE L == {p \in Pages : layoutLock[p] # None}
<1>8. L \in SUBSET Nat /\ L # {} /\ IsFiniteSet(L)
  <2>1. L # {}
    BY <1>6, <1>7 DEF Unlocked
  <2>2. L \subseteq Pages
    OBVIOUS
  <2>3. QED
    BY <2>1, <2>2, PagesAssumption, FS_Subset
<1>9. PICK m \in L : \A p \in L : p <= m
  <2> HIDE DEF L
  <2>1. PICK n \in Nat : \A p \in L : p <= n
    BY <1>8, FiniteIsBounded
  <2>2. QED
    BY <1>8, <2>1, MaxOfBounded
<1> DEFINE h == layoutLock[m]
<1>10. m \in Pages /\ h \in Requests /\ pc[h] = "locking"
  BY <1>4
<1>11. PICK p \in Unlocked(h) : layoutLock[p] # None
  BY <1>6, <1>10
<1>12. p \in L /\ p \in Pages /\ layoutLock[p] # h
  BY <1>11 DEF Unlocked
<1>13. p < m
  BY <1>9, <1>10, <1>12, PagesAssumption
<1>14. layoutLock[p] = h
  BY <1>10, <1>12, <1>13 DEF OrderInv
<1>15. QED
  BY <1>12, <1>14

\* The row locks of reservePageRevision, lockGlobalDefinition and
\* lockRegistryLayouts (ORDER BY page_key) never make page edits and global
\* edits wait for each other in a cycle.
THEOREM NoCycle == Spec => []NoWaitCycle
<1>1. Init => OrderInv
  BY DEF Init, OrderInv
<1>2. IInv /\ OrderInv /\ [Next]_vars => OrderInv'
  <2> SUFFICES ASSUME IInv, OrderInv, [Next]_vars PROVE OrderInv'
    OBVIOUS
  <2>1. CASE UNCHANGED vars
    BY <2>1 DEF vars, lockVars, OrderInv
  <2>2. CASE Next
    <3>1. PICK r \in Requests : Step(r)
      BY <2>2 DEF Next, Serve, Step, Locks, Ends, Commits
    <3>2. QED
      BY <3>1, StepOrderInv
  <2>3. QED
    BY <2>1, <2>2
<1>3. IInv /\ OrderInv => NoWaitCycle
  BY SomeoneGoesOn
<1>4. QED
  BY <1>1, <1>2, <1>3, Invariance, PTL DEF Spec
=============================================================================
