-------------------------- MODULE PlacementsProofs --------------------------
(***************************************************************************)
(* For any documents, sections, administrators and requests: placements    *)
(* belong to documents that are there, equal positions come only from      *)
(* races, one of two reorders wins as a whole, a replacement does what it  *)
(* was asked for, and no administrator reaches outside the own groups.     *)
(*                                                                         *)
(* Without an advisory lock everything rests on the row locks: no row is   *)
(* held twice (RowsInv), so what a reorder has written is still there when *)
(* it commits, and what an addition has written nobody else has added.     *)
(* Nobody adds a placement of a document that is being deleted (RefsInv),  *)
(* so none is left.  The rest is what each call still knows of the tables  *)
(* as far as it has noticed no commit of another one: its position is      *)
(* still behind all others (TieOK), and its missing and extra sections     *)
(* are still the difference to what it wants (ReplaceOK).                  *)
(***************************************************************************)
EXTENDS Placements, FiniteSetTheorems, WellFoundedInduction, TLAPS

-----------------------------------------------------------------------------
(* Numbers.                                                                *)

\* A set of naturals has a least element, and a bounded one a largest.
LEMMA Least ==
    ASSUME NEW S \in SUBSET Nat, S # {}
    PROVE  Min(S) \in S /\ \A k \in S : Min(S) <= k
<1> DEFINE R == OpToRel(<, Nat)
<1>1. IsWellFoundedOn(R, Nat)
  BY NatLessThanWellFounded
<1>2. \A k, m \in Nat : k < m => <<k, m>> \in R
  BY DEF OpToRel
<1> HIDE DEF R
<1>3. PICK m \in S : \A k \in S : <<k, m>> \notin R
  BY <1>1, WFMin, Zenon
<1>4. ASSUME NEW k \in S PROVE m <= k
  <2>1. <<k, m>> \notin R
    BY <1>3
  <2>2. ~(k < m)
    BY <1>2, <2>1, Zenon
  <2>3. QED
    BY <2>2
<1>5. QED
  BY <1>4 DEF Min

LEMMA MaxOfBounded ==
    ASSUME NEW S \in SUBSET Nat, S # {}, NEW n \in Nat, \A x \in S : x <= n
    PROVE  Max(S) \in S /\ \A y \in S : y <= Max(S)
<1> DEFINE D == {k \in Nat : k <= n /\ n - k \in S}
<1>1. PICK x \in S : TRUE
  OBVIOUS
<1>2. n - x \in D
  BY <1>1
<1>3. PICK m \in D : \A k \in D : m <= k
  BY <1>2, Least
<1>4. n - m \in S /\ \A y \in S : n - m >= y
  <2>1. SUFFICES ASSUME NEW y \in S PROVE n - m >= y
    BY <1>3
  <2>2. n - y \in D
    OBVIOUS
  <2>3. m <= n - y /\ m \in Nat
    BY <2>2, <1>3
  <2>4. QED
    BY <2>3
<1>5. QED
  BY <1>4 DEF Max

-----------------------------------------------------------------------------
(* The inductive invariant.                                                *)

USE SectionsAssumption, DocumentsAssumption, BoundAssumption, GroupAssumption, ActorsAssumption

\* No row is held by two transactions.
RowsInv == \A q, r \in Requests : q # r => Held(q) \cap Held(r) = {}

\* While a document is deleted nobody else has added a placement of it.
RefsInv ==
    \A q, r \in Requests : q # r /\ Deleting(q, request[r].doc) => DOMAIN request[r].written = {}

\* A document that is being placed was created.
DocsInv == \A r \in Requests : request[r].kind = "create" => request[r].doc \in created

Adds(c) == c.kind \in {"create", "replace"}

\* How far a call of each kind has got.
Adding(c) ==
    /\ c.step \in {"read", "edit", "insert"} /\ c.doc \in Documents
    /\ c.missing \subseteq ToSet(c.todo)
    /\ c.deleted \cup DOMAIN c.written \subseteq {c.doc} \X Sections
    /\ DOMAIN c.written \cap DOMAIN order = {}
    /\ c.step = "read" =>
          c.kind = "replace" /\ c.deleted = {} /\ DOMAIN c.written = {} /\ c.missing = {} /\ c.extra = {}
    /\ c.step = "insert" => c.missing # {} /\ c.extra = {} /\ c.position \in Places
    /\ c.kind = "create" => c.deleted = {} /\ c.extra = {}
    /\ c.kind = "replace" =>
          /\ ToSet(c.todo) = c.wanted
          /\ \A p \in DOMAIN c.written : p[2] \in c.wanted
          /\ \A p \in c.deleted : p[2] \notin c.wanted
          /\ c.extra \cap c.wanted = {}
Removing(c) ==
    /\ c.step \in {"lock", "clear"} /\ c.doc \in Documents
    /\ DOMAIN c.written = {} /\ c.missing = {}
    /\ c.deleted \subseteq {c.doc} \X Sections
    /\ c.step = "lock" => c.deleted = {} /\ c.extra = {} /\ c.gone = {}
    /\ c.step = "clear" =>
          \A s \in SectionsOf(c.doc) : s \in c.extra \ c.gone \/ <<c.doc, s>> \in c.deleted
Moving(c) ==
    /\ c.step = "set" /\ c.doc = None /\ c.deleted = {} /\ c.extra = {} /\ c.missing = {}
    /\ c.todo \in Seq(Documents) /\ c.position + Len(c.todo) <= Cardinality(Documents)
    /\ DOMAIN c.written \subseteq DOMAIN order
    /\ \A p \in DOMAIN c.written : p[2] = c.section /\ c.written[p] < c.position
    /\ \A p, q \in DOMAIN c.written : c.written[p] = c.written[q] => p = q
Resting(c) ==
    /\ c.deleted = {} /\ c.extra = {} /\ DOMAIN c.written = {} /\ c.missing = {}
    /\ c.step = IF c.kind = "none" THEN "idle" ELSE "write"

CallOK(c) ==
    /\ Adds(c) => Adding(c)
    /\ c.kind = "delete" => Removing(c)
    /\ c.kind = "reorder" => Moving(c)
    /\ c.kind \in {"none", "update"} => Resting(c)

\* What is added while nobody has changed the positions of its section goes to
\* its end; what a reorder does not move was added while it ran.
LastIn(s, n) == \A d \in Placed(s) : order[<<d, s>>] < n
TieOK(c) ==
    /\ Adds(c) =>
          /\ \A p \in DOMAIN c.written : p[2] \in c.met \/ LastIn(p[2], c.written[p])
          /\ c.step = "insert" => NextSection(c) \in c.met \/ LastIn(NextSection(c), c.position)
    /\ c.kind = "reorder" =>
          \A d \in Placed(c.section) :
              \/ <<d, c.section>> \in DOMAIN c.written
              \/ d \in ToSet(c.todo)
              \/ <<d, c.section>> \in raced /\ c.section \in c.met

\* What a replacement still has to do, for a section that nobody else has touched.
There(c, s) == <<c.doc, s>> \in DOMAIN order
ReplaceOK(c) ==
    c.kind = "replace" =>
        \A s \in Sections \ c.since :
            /\ s \notin Accessible(c.actor) => (s \in c.wanted <=> There(c, s))
            /\ c.step # "read" =>
                  /\ s \in c.extra \/ <<c.doc, s>> \in c.deleted <=> There(c, s) /\ s \notin c.wanted
                  /\ s \in c.missing \/ <<c.doc, s>> \in DOMAIN c.written <=> ~There(c, s) /\ s \in c.wanted

\* The placements of a document that is updated were checked, or came since.
UpdateOK(c) ==
    c.kind = "update" => SectionsOf(c.doc) \subseteq Accessible(c.actor) \cup c.since

Sound(c) == CallOK(c) /\ TieOK(c) /\ ReplaceOK(c) /\ UpdateOK(c)

PairsInv == \A pair \in promised : pair[1][2] = pair[2][2] /\ order[pair[1]] < order[pair[2]]

PInv ==
    /\ TypeOK /\ RowsInv /\ RefsInv /\ DocsInv /\ TiesWereRaced /\ PairsInv
    /\ \A r \in Requests : Sound(request[r])

-----------------------------------------------------------------------------
(* Positions, calls and what the statements read.                          *)

LEMMA SizeOfDocuments ==
    /\ Cardinality(Documents) \in Nat
    /\ \A S \in SUBSET Documents : IsFiniteSet(S) /\ Cardinality(S) \in Nat
                                   /\ Cardinality(S) <= Cardinality(Documents)
BY FS_Subset, FS_CardinalityType

LEMMA PlacesAreBounded ==
    Places \subseteq Nat /\ \E n \in Nat : \A x \in Places : x <= n
<1>1. Cardinality(Documents) \in Nat
  BY SizeOfDocuments
<1>2. MaxOrder + Cardinality(Documents) \in Nat
      /\ \A x \in Places : x <= MaxOrder + Cardinality(Documents)
  BY <1>1 DEF Places
<1>3. Places \subseteq Nat
  BY <1>1 DEF Places
<1>4. QED
  BY <1>2, <1>3

LEMMA PositionsApply ==
    ASSUME NEW w \in Positions
    PROVE  /\ DOMAIN w \subseteq Rows /\ w \in [DOMAIN w -> Places]
           /\ \A p \in DOMAIN w : w[p] \in Places
BY DEF Positions

\* One row more is written.
LEMMA OneMore ==
    ASSUME NEW w \in Positions, NEW p \in Rows, NEW n \in Places,
           NEW v, v = [x \in DOMAIN w \cup {p} |-> IF x = p THEN n ELSE w[x]]
    PROVE  /\ v \in Positions /\ DOMAIN v = DOMAIN w \cup {p} /\ v[p] = n
           /\ \A x \in DOMAIN w : x # p => v[x] = w[x]
<1>1. DOMAIN w \subseteq Rows /\ \A x \in DOMAIN w : w[x] \in Places
  BY PositionsApply
<1>2. DOMAIN v = DOMAIN w \cup {p} /\ \A x \in DOMAIN v : v[x] \in Places
  BY <1>1
<1>3. v \in [DOMAIN w \cup {p} -> Places]
  BY <1>1
<1>4. v \in Positions
  BY <1>1, <1>3 DEF Positions
<1>5. QED
  BY <1>2, <1>4

LEMMA NoRowsType == NoRows \in Positions /\ DOMAIN NoRows = {}
<1>1. NoRows \in [{} -> Places] /\ {} \in SUBSET Rows
  BY DEF NoRows
<1>2. QED
  BY <1>1 DEF Positions, NoRows

\* A call as it begins.
LEMMA CallTypes ==
    ASSUME NEW k \in {"none", "create", "replace", "delete", "reorder", "update"},
           NEW st \in {"idle", "read", "edit", "insert", "lock", "clear", "set", "write"},
           NEW d \in Documents \cup {None}
    PROVE  /\ Call(k, st, d) \in Calls
           /\ Call(k, st, d).kind = k /\ Call(k, st, d).step = st /\ Call(k, st, d).doc = d
           /\ Call(k, st, d).missing = {} /\ Call(k, st, d).extra = {} /\ Call(k, st, d).position = 0
           /\ Call(k, st, d).deleted = {} /\ DOMAIN Call(k, st, d).written = {}
           /\ Call(k, st, d).gone = {} /\ Call(k, st, d).since = {} /\ Call(k, st, d).met = {}
<1>1. (CHOOSE s \in Sections : TRUE) \in Sections /\ (CHOOSE a \in Actors : TRUE) \in Actors
  OBVIOUS
<1>2. NoRows \in Positions /\ DOMAIN NoRows = {}
  BY NoRowsType
<1>3. <<>> \in Seq(Sections)
  OBVIOUS
<1> HIDE DEF NoRows
<1>4. Call(k, st, d) \in Calls
  BY <1>1, <1>2, <1>3 DEF Call, Calls
<1>5. QED
  BY <1>2, <1>4 DEF Call

LEMMA IdleIsSound == Idle \in Calls /\ Sound(Idle) /\ Idle.kind = "none" /\ Idle.step = "idle"
                     /\ Idle.deleted = {} /\ DOMAIN Idle.written = {}
<1>1. /\ Idle \in Calls /\ Idle.kind = "none" /\ Idle.step = "idle" /\ Idle.deleted = {}
      /\ DOMAIN Idle.written = {} /\ Idle.extra = {} /\ Idle.missing = {}
  BY CallTypes DEF Idle
<1> HIDE DEF Idle
<1>2. QED
  BY <1>1 DEF Sound, CallOK, TieOK, ReplaceOK, UpdateOK, Adds, Resting

\* The position behind all placements of a section.
LEMMA NextPositionIsLast ==
    ASSUME TypeOK, NEW s \in Sections
    PROVE  NextPosition(s) \in Nat /\ LastIn(s, NextPosition(s))
<1> DEFINE S == {order[<<d, s>>] : d \in Placed(s)}
<1>1. \A d \in Placed(s) : order[<<d, s>>] \in Places
  BY PositionsApply DEF TypeOK, Placed
<1>2. CASE Placed(s) = {}
  BY <1>2 DEF NextPosition, LastIn
<1>3. CASE Placed(s) # {}
  <2>1. S \in SUBSET Nat /\ S # {}
    BY <1>1, <1>3, PlacesAreBounded
  <2>2. PICK n \in Nat : \A x \in Places : x <= n
    BY PlacesAreBounded
  <2>3. \A x \in S : x <= n
    BY <1>1, <2>2
  <2>4. \A d \in Placed(s) : order[<<d, s>>] \in S
    OBVIOUS
  <2>5. NextPosition(s) = Max(S) + 1
    BY <1>3 DEF NextPosition
  <2> HIDE DEF S
  <2>6. Max(S) \in S /\ \A y \in S : y <= Max(S)
    BY <2>1, <2>2, <2>3, MaxOfBounded
  <2>7. Max(S) \in Nat /\ \A d \in Placed(s) : order[<<d, s>>] \in Nat /\ order[<<d, s>>] <= Max(S)
    BY <2>1, <2>4, <2>6
  <2>8. Max(S) + 1 \in Nat /\ \A d \in Placed(s) : order[<<d, s>>] < Max(S) + 1
    BY <2>7
  <2>9. QED
    BY <2>5, <2>8 DEF LastIn
<1>4. QED
  BY <1>2, <1>3

\* The section the loop comes to is one that is missing.
LEMMA NextSectionIsMissing ==
    ASSUME NEW c \in Calls, c.missing # {}, c.missing \subseteq ToSet(c.todo)
    PROVE  NextSection(c) \in c.missing
<1> DEFINE S == {i \in DOMAIN c.todo : c.todo[i] \in c.missing}
<1>1. c.todo \in Seq(Sections) \cup Seq(Documents)
  BY DEF Calls
<1>2. DOMAIN c.todo \subseteq Nat
  BY <1>1
<1>3. S \in SUBSET Nat /\ S # {}
  BY <1>2 DEF ToSet
<1>4. Min(S) \in S
  <2> HIDE DEF S
  <2>1. QED
    BY <1>3, Least
<1>5. QED
  BY <1>4 DEF NextSection

-----------------------------------------------------------------------------
(* A step inside a transaction.                                            *)

\* What is true of a call stays true while the tables stay as they are.
LEMMA SameTables ==
    ASSUME NEW q, NEW c, UNCHANGED <<order, raced>>, request'[q] = c, Sound(c)
    PROVE  Sound(request[q])'
<1>1. CallOK(request[q])'
  BY DEF Sound, CallOK, Adds, Adding, Removing, Moving, Resting, SectionsOf
<1>2. TieOK(request[q])'
  BY DEF Sound, TieOK, Adds, LastIn, Placed, NextSection
<1>3. ReplaceOK(request[q])'
  BY DEF Sound, ReplaceOK, There
<1>4. UpdateOK(request[q])'
  BY DEF Sound, UpdateOK, SectionsOf
<1>5. QED
  BY <1>1, <1>2, <1>3, <1>4 DEF Sound

\* The call c of r disturbs no other one.
Apart(r, c) ==
    \A q \in Requests \ {r} :
        /\ (c.deleted \cup DOMAIN c.written) \cap Held(q) = {}
        /\ Deleting(q, c.doc) => DOMAIN c.written = {}
        /\ c.step = "clear" /\ c.doc = request[q].doc => DOMAIN request[q].written = {}

Fits(r, c) == c \in Calls /\ Sound(c) /\ Apart(r, c) /\ c.deleted \cap DOMAIN c.written = {}

LEMMA ProceedStep ==
    ASSUME PInv, NEW r \in Requests, NEW c, Fits(r, c), Proceed(r, c),
           created \subseteq created', created' \subseteq Documents, c.kind = "create" => c.doc \in created'
    PROVE  PInv'
<1> USE DEF PInv
<1>1. /\ request' \in [Requests -> Calls] /\ request'[r] = c
      /\ \A q \in Requests \ {r} : request'[q] = request[q]
      /\ UNCHANGED <<documents, order, raced, promised>>
  BY DEF Proceed, Fits, TypeOK
<1>2. TypeOK'
  BY <1>1 DEF TypeOK, Fits
<1>3. RowsInv'
  BY <1>1 DEF RowsInv, Held, Fits, Apart
<1>4. RefsInv'
  BY <1>1 DEF RefsInv, Deleting, Fits, Apart
<1>5. DocsInv'
  BY <1>1 DEF DocsInv
<1>6. TiesWereRaced' /\ PairsInv'
  BY <1>1 DEF TiesWereRaced, PairsInv, Placed
<1>7. ASSUME NEW q \in Requests PROVE Sound(request[q])'
  <2>1. CASE q = r
    BY <1>1, <2>1, SameTables DEF Fits
  <2>2. CASE q # r
    BY <1>1, <2>2, SameTables
  <2>3. QED
    BY <2>1, <2>2
<1>8. QED
  BY <1>2, <1>3, <1>4, <1>5, <1>6, <1>7

\* A call that has written nothing yet, or goes on with what it has written.
LEMMA FreshIsApart ==
    ASSUME NEW r, NEW c, c.deleted = {}, DOMAIN c.written = {}, c.step # "clear"
    PROVE  Apart(r, c)
BY DEF Apart

LEMMA SameIsApart ==
    ASSUME PInv, NEW r \in Requests, NEW c, c.doc = request[r].doc,
           c.deleted = request[r].deleted, DOMAIN c.written = DOMAIN request[r].written,
           c.step = "clear" => request[r].step = "clear"
    PROVE  Apart(r, c)
BY DEF PInv, RowsInv, RefsInv, Apart, Held, Deleting

LEMMA QuitSteps ==
    ASSUME PInv, NEW r \in Requests, Rollback(r) \/ WriteDocument(r)
    PROVE  PInv'
<1>1. Proceed(r, Idle) /\ UNCHANGED created
  BY DEF Rollback, WriteDocument, Proceed
<1>2. Fits(r, Idle)
  BY IdleIsSound, FreshIsApart DEF Fits
<1>3. created \subseteq Documents
  BY DEF PInv, TypeOK
<1>4. QED
  BY <1>1, <1>2, <1>3, IdleIsSound, ProceedStep

LEMMA ListsAreSequences ==
    ASSUME NEW S, IsFiniteSet(S), NEW list \in Lists(S)
    PROVE  list \in Seq(S) /\ ToSet(list) = S /\ Len(list) = Cardinality(S)
<1> DEFINE n == Cardinality(S)
<1>1. n \in Nat
  BY FS_CardinalityType
<1>2. list \in Injection(1 .. n, S)
  BY DEF Lists
<1>3. IsFiniteSet(1 .. n) /\ Cardinality(1 .. n) = n
  BY <1>1, FS_Interval
<1>4. list \in Surjection(1 .. n, S)
  BY <1>2, <1>3, FS_Injection
<1>5. list \in [1 .. n -> S] /\ \A x \in S : \E i \in 1 .. n : list[i] = x
  BY <1>4 DEF Surjection
<1>6. list \in Seq(S) /\ Len(list) = n /\ DOMAIN list = 1 .. n
  BY <1>1, <1>5
<1>7. ToSet(list) = S
  BY <1>5, <1>6 DEF ToSet
<1>8. QED
  BY <1>6, <1>7

LEMMA FormsAreSequences ==
    ASSUME NEW keys \in Forms
    PROVE  keys \in Seq(Sections) /\ ToSet(keys) \subseteq Sections
<1>1. PICK S \in SUBSET Sections : keys \in Lists(S)
  BY FormsAssumption DEF ValidForms
<1>2. IsFiniteSet(S)
  BY FS_Subset
<1>3. keys \in Seq(S) /\ ToSet(keys) = S
  BY <1>1, <1>2, ListsAreSequences
<1>4. QED
  BY <1>3

LEMMA Joined ==
    ASSUME NEW S, NEW a \in Seq(S), NEW b \in Seq(S)
    PROVE  a \o b \in Seq(S) /\ ToSet(a \o b) = ToSet(a) \cup ToSet(b)
<1>1. /\ a \o b \in Seq(S) /\ DOMAIN (a \o b) = 1 .. Len(a) + Len(b)
      /\ DOMAIN a = 1 .. Len(a) /\ DOMAIN b = 1 .. Len(b) /\ Len(a) \in Nat /\ Len(b) \in Nat
  OBVIOUS
<1>2. /\ \A i \in DOMAIN a : i \in DOMAIN (a \o b) /\ (a \o b)[i] = a[i]
      /\ \A i \in DOMAIN b : i + Len(a) \in DOMAIN (a \o b) /\ (a \o b)[i + Len(a)] = b[i]
  BY <1>1
<1>3. \A i \in DOMAIN (a \o b) :
         \/ i \in DOMAIN a /\ (a \o b)[i] = a[i]
         \/ i - Len(a) \in DOMAIN b /\ (a \o b)[i] = b[i - Len(a)]
  BY <1>1
<1>4. QED
  BY <1>1, <1>2, <1>3 DEF ToSet

LEMMA BeginCreateStep ==
    ASSUME PInv, NEW r \in Requests, NEW d \in Documents, NEW keys \in Forms, NEW actor \in Actors,
           BeginCreate(r, d, keys, actor)
    PROVE  PInv'
<1> DEFINE b == Call("create", "edit", d)
           c == [b EXCEPT !.todo = keys, !.missing = ToSet(keys)]
<1>0. /\ b \in Calls /\ b.kind = "create" /\ b.step = "edit" /\ b.doc = d
      /\ b.missing = {} /\ b.extra = {} /\ b.deleted = {} /\ DOMAIN b.written = {}
  BY CallTypes
<1> HIDE DEF b
<1>1. /\ c \in Calls /\ c.kind = "create" /\ c.step = "edit" /\ c.doc = d /\ c.todo = keys
      /\ c.missing = ToSet(keys) /\ c.extra = {} /\ c.deleted = {} /\ DOMAIN c.written = {}
  BY <1>0, FormsAreSequences DEF Calls
<1>2. Proceed(r, c) /\ created' = created \cup {d}
  BY DEF BeginCreate, b
<1> HIDE DEF c
<1>3. Sound(c)
  BY <1>1 DEF Sound, CallOK, TieOK, ReplaceOK, UpdateOK, Adds, Adding
<1>4. Fits(r, c)
  BY <1>1, <1>3, FreshIsApart DEF Fits
<1>5. QED
  BY <1>1, <1>2, <1>4, ProceedStep DEF PInv, TypeOK

LEMMA BeginReplaceStep ==
    ASSUME PInv, NEW r \in Requests, NEW d \in Documents, NEW keys \in Forms, NEW actor \in Actors,
           BeginReplace(r, d, keys, actor)
    PROVE  PInv'
<1>1. PICK hidden \in Lists(HiddenKeys(d, actor)) :
         Proceed(r, [Call("replace", "read", d) EXCEPT
             !.actor = actor, !.todo = hidden \o keys, !.wanted = ToSet(hidden) \cup ToSet(keys)])
  BY DEF BeginReplace
<1> DEFINE b == Call("replace", "read", d)
           c == [b EXCEPT !.actor = actor, !.todo = hidden \o keys, !.wanted = ToSet(hidden) \cup ToSet(keys)]
<1>2. /\ HiddenKeys(d, actor) \subseteq Sections /\ IsFiniteSet(HiddenKeys(d, actor))
      /\ keys \in Seq(Sections)
  <2>1. HiddenKeys(d, actor) \subseteq Sections
    BY DEF HiddenKeys, SectionsOf
  <2>2. QED
    BY <2>1, FS_Subset, FormsAreSequences
<1>3. hidden \in Seq(Sections) /\ ToSet(hidden) = HiddenKeys(d, actor)
  <2>1. hidden \in Seq(HiddenKeys(d, actor)) /\ ToSet(hidden) = HiddenKeys(d, actor)
    BY <1>2, ListsAreSequences
  <2>2. QED
    BY <1>2, <2>1
<1>4. hidden \o keys \in Seq(Sections) /\ ToSet(hidden \o keys) = ToSet(hidden) \cup ToSet(keys)
  BY <1>2, <1>3, Joined
<1>5. ToSet(hidden) \cup ToSet(keys) \subseteq Sections
  BY <1>2, <1>3, FormsAreSequences
<1>6. /\ c \in Calls /\ c.kind = "replace" /\ c.step = "read" /\ c.doc = d /\ c.actor = actor
      /\ c.todo = hidden \o keys /\ c.wanted = ToSet(hidden) \cup ToSet(keys)
      /\ c.missing = {} /\ c.extra = {} /\ c.deleted = {} /\ DOMAIN c.written = {}
  <2>1. /\ b \in Calls /\ b.kind = "replace" /\ b.step = "read" /\ b.doc = d
        /\ b.missing = {} /\ b.extra = {} /\ b.deleted = {} /\ DOMAIN b.written = {}
    BY CallTypes
  <2> DEFINE todo == hidden \o keys
  <2>2. todo \in Seq(Sections)
    BY <1>4
  <2> HIDE DEF b, todo
  <2>3. QED
    BY <1>5, <2>1, <2>2 DEF Calls, todo
<1>7. Proceed(r, c) /\ UNCHANGED created
  BY <1>1 DEF BeginReplace, b
<1> HIDE DEF c
<1>8. CallOK(c) /\ TieOK(c) /\ UpdateOK(c)
  BY <1>4, <1>6 DEF CallOK, TieOK, UpdateOK, Adds, Adding
<1>9. ReplaceOK(c)
  <2>1. ToSet(keys) \subseteq Accessible(actor)
    BY DEF BeginReplace, MayReplace
  <2>2. QED
    BY <1>3, <1>6, <2>1 DEF ReplaceOK, There, HiddenKeys, SectionsOf
<1>10. Fits(r, c)
  BY <1>6, <1>8, <1>9, FreshIsApart DEF Fits, Sound
<1>11. QED
  BY <1>6, <1>7, <1>10, ProceedStep DEF PInv, TypeOK

LEMMA BeginDeleteStep ==
    ASSUME PInv, NEW r \in Requests, NEW d \in Documents, NEW actor \in Actors, BeginDelete(r, d, actor)
    PROVE  PInv'
<1> DEFINE c == Call("delete", "lock", d)
<1>1. /\ c \in Calls /\ c.kind = "delete" /\ c.step = "lock" /\ c.doc = d
      /\ c.missing = {} /\ c.extra = {} /\ c.deleted = {} /\ DOMAIN c.written = {} /\ c.gone = {}
  BY CallTypes
<1>2. Proceed(r, c) /\ UNCHANGED created
  BY DEF BeginDelete
<1> HIDE DEF c
<1>3. Sound(c)
  BY <1>1 DEF Sound, CallOK, TieOK, ReplaceOK, UpdateOK, Adds, Removing
<1>4. Fits(r, c)
  BY <1>1, <1>3, FreshIsApart DEF Fits
<1>5. QED
  BY <1>1, <1>2, <1>4, ProceedStep DEF PInv, TypeOK

LEMMA BeginUpdateStep ==
    ASSUME PInv, NEW r \in Requests, NEW d \in Documents, NEW actor \in Actors, BeginUpdate(r, d, actor)
    PROVE  PInv'
<1> DEFINE c == [Call("update", "write", d) EXCEPT !.actor = actor]
<1>1. /\ c \in Calls /\ c.kind = "update" /\ c.step = "write" /\ c.doc = d /\ c.actor = actor
      /\ c.missing = {} /\ c.extra = {} /\ c.deleted = {} /\ DOMAIN c.written = {}
  BY CallTypes DEF Calls
<1>2. Proceed(r, c) /\ UNCHANGED created /\ SectionsOf(d) \subseteq Accessible(actor)
  BY DEF BeginUpdate, MayUpdate, CanManage
<1> HIDE DEF c
<1>3. Sound(c)
  BY <1>1, <1>2 DEF Sound, CallOK, TieOK, ReplaceOK, UpdateOK, Adds, Resting
<1>4. Fits(r, c)
  BY <1>1, <1>3, FreshIsApart DEF Fits
<1>5. QED
  BY <1>1, <1>2, <1>4, ProceedStep DEF PInv, TypeOK

LEMMA BeginReorderStep ==
    ASSUME PInv, NEW r \in Requests, NEW s \in Sections, NEW actor \in Actors,
           NEW list \in FullOrders(s), BeginReorder(r, s, list, actor)
    PROVE  PInv'
<1> DEFINE b == Call("reorder", "set", None)
           c == [b EXCEPT !.section = s, !.todo = list]
<1>0. /\ b \in Calls /\ b.kind = "reorder" /\ b.step = "set" /\ b.doc = None /\ b.position = 0
      /\ b.missing = {} /\ b.extra = {} /\ b.deleted = {} /\ DOMAIN b.written = {}
  BY CallTypes
<1> HIDE DEF b
<1>1. Placed(s) \subseteq Documents /\ IsFiniteSet(Placed(s)) /\ Cardinality(Placed(s)) <= Cardinality(Documents)
  <2>1. Placed(s) \subseteq Documents
    BY DEF Placed
  <2>2. QED
    BY <2>1, SizeOfDocuments
<1>2. list \in Seq(Documents) /\ ToSet(list) = Placed(s) /\ Len(list) <= Cardinality(Documents)
  <2>1. list \in Seq(Placed(s)) /\ ToSet(list) = Placed(s) /\ Len(list) = Cardinality(Placed(s))
    BY <1>1, ListsAreSequences DEF FullOrders
  <2>2. QED
    BY <1>1, <2>1
<1>3. /\ c \in Calls /\ c.kind = "reorder" /\ c.step = "set" /\ c.doc = None /\ c.section = s
      /\ c.todo = list /\ c.position = 0
      /\ c.missing = {} /\ c.extra = {} /\ c.deleted = {} /\ DOMAIN c.written = {}
  BY <1>0, <1>2 DEF Calls
<1>4. Proceed(r, c) /\ UNCHANGED created
  BY DEF BeginReorder, b
<1> HIDE DEF c
<1>5. 0 + Len(list) <= Cardinality(Documents)
  BY <1>2
<1>6. Sound(c)
  BY <1>2, <1>3, <1>5 DEF Sound, CallOK, TieOK, ReplaceOK, UpdateOK, Adds, Moving
<1>7. Fits(r, c)
  BY <1>3, <1>6, FreshIsApart DEF Fits
<1>8. QED
  BY <1>3, <1>4, <1>7, ProceedStep DEF PInv, TypeOK

-----------------------------------------------------------------------------
(* The statements of a transaction.                                        *)

\* The step tells what kind of call it is.
LEMMA StepKinds ==
    ASSUME PInv, NEW r \in Requests
    PROVE  LET c == request[r]
           IN  /\ c \in Calls /\ CallOK(c) /\ TieOK(c) /\ ReplaceOK(c) /\ UpdateOK(c)
               /\ c.deleted \cap DOMAIN c.written = {}
               /\ c.kind = "create" => c.doc \in created
               /\ c.step \in {"read", "edit", "insert"} => Adding(c) /\ Adds(c)
               /\ c.step = "read" => c.kind = "replace"
               /\ c.step \in {"lock", "clear"} => Removing(c) /\ c.kind = "delete"
               /\ c.step = "set" => Moving(c) /\ c.kind = "reorder"
               /\ c.step = "write" => c.kind = "update"
<1>1. request[r] \in Calls /\ Sound(request[r]) /\ request[r].deleted \cap DOMAIN request[r].written = {}
      /\ (request[r].kind = "create" => request[r].doc \in created)
  BY DEF PInv, TypeOK, DocsInv
<1>2. request[r].kind \in {"none", "create", "replace", "delete", "reorder", "update"}
  BY <1>1 DEF Calls
<1>3. QED
  BY <1>1, <1>2 DEF Sound, CallOK, Adds, Adding, Removing, Moving, Resting

LEMMA ReadCurrentStep ==
    ASSUME PInv, NEW r \in Requests, ReadCurrent(r)
    PROVE  PInv'
<1> DEFINE q == request[r]
           current == SectionsOf(q.doc)
           c == [q EXCEPT !.step = "edit", !.gone = {}, !.extra = current \ q.wanted,
                          !.missing = Missing(q.todo, current)]
<1>1. q \in Calls /\ q.kind = "replace" /\ Adding(q) /\ ReplaceOK(q) /\ TieOK(q) /\ q.step = "read"
  BY StepKinds DEF ReadCurrent, At
<1>2. Proceed(r, c) /\ UNCHANGED created
  BY DEF ReadCurrent
<1>3. current \subseteq Sections /\ \A s \in Sections : s \in current <=> There(q, s)
  BY DEF SectionsOf, There
<1> HIDE DEF current, q
<1>4. Missing(q.todo, current) = q.wanted \ current /\ q.wanted \subseteq Sections /\ ToSet(q.todo) = q.wanted
  BY <1>1 DEF Missing, Adding, Calls
<1>5. /\ c \in Calls /\ c.kind = "replace" /\ c.step = "edit" /\ c.doc = q.doc /\ c.wanted = q.wanted
      /\ c.todo = q.todo /\ c.since = q.since /\ c.actor = q.actor
      /\ c.extra = current \ q.wanted /\ c.missing = q.wanted \ current
      /\ c.deleted = q.deleted /\ c.written = q.written
  BY <1>1, <1>3, <1>4 DEF Calls
<1>6. q.deleted = {} /\ DOMAIN q.written = {} /\ q.doc \in Documents
  BY <1>1 DEF Adding
<1> HIDE DEF c
<1>7. CallOK(c) /\ TieOK(c) /\ UpdateOK(c)
  BY <1>4, <1>5, <1>6 DEF CallOK, TieOK, UpdateOK, Adds, Adding
<1>8. ReplaceOK(c)
  BY <1>1, <1>3, <1>5, <1>6 DEF ReplaceOK, There
<1>9. Fits(r, c)
  BY <1>5, <1>6, <1>7, <1>8, FreshIsApart DEF Fits, Sound
<1>10. QED
  BY <1>2, <1>5, <1>9, ProceedStep DEF PInv, TypeOK

LEMMA RemoveStep ==
    ASSUME PInv, NEW r \in Requests, RemovePlacement(r)
    PROVE  PInv'
<1> DEFINE q == request[r]
<1>1. PICK s \in q.extra \ q.gone :
         /\ Free(r, <<q.doc, s>>)
         /\ Proceed(r, [q EXCEPT !.extra = @ \ {s}, !.deleted = @ \cup {<<q.doc, s>>}])
  BY DEF RemovePlacement
<1> DEFINE p == <<q.doc, s>>
           c == [q EXCEPT !.extra = @ \ {s}, !.deleted = @ \cup {p}]
<1>2. q \in Calls /\ Adding(q) /\ Adds(q) /\ ReplaceOK(q) /\ TieOK(q) /\ q.step = "edit"
      /\ q.deleted \cap DOMAIN q.written = {}
  BY StepKinds DEF RemovePlacement, At
<1>3. q.kind = "replace" /\ s \in Sections /\ s \notin q.wanted /\ p \in Rows
  BY <1>2 DEF Adds, Adding, Calls, Rows
<1>4. Proceed(r, c) /\ UNCHANGED created
  BY <1>1 DEF RemovePlacement
<1>5. \A t \in Requests \ {r} : p \notin Held(t)
  BY <1>1 DEF Free
<1> HIDE DEF q
<1>6. /\ c \in Calls /\ c.kind = "replace" /\ c.step = "edit" /\ c.doc = q.doc /\ c.wanted = q.wanted
      /\ c.todo = q.todo /\ c.since = q.since /\ c.actor = q.actor /\ c.missing = q.missing /\ c.met = q.met
      /\ c.extra = q.extra \ {s} /\ c.deleted = q.deleted \cup {p} /\ c.written = q.written
  BY <1>2, <1>3 DEF Calls
<1> HIDE DEF c
<1>7. p = <<q.doc, s>>
  OBVIOUS
<1> HIDE DEF p
<1>8. CallOK(c)
  BY <1>2, <1>3, <1>6, <1>7 DEF CallOK, Adds, Adding
<1>9. TieOK(c) /\ UpdateOK(c)
  BY <1>2, <1>3, <1>6 DEF TieOK, UpdateOK, Adds
<1>10. ReplaceOK(c)
  BY <1>2, <1>3, <1>6, <1>7 DEF ReplaceOK, There
<1>11. c.deleted \cap DOMAIN c.written = {}
  BY <1>2, <1>3, <1>6, <1>7 DEF Adding
<1>12. Apart(r, c)
  <2>1. Apart(r, q)
    BY SameIsApart DEF q
  <2>2. QED
    BY <1>5, <1>6, <2>1 DEF Apart
<1>13. QED
  BY <1>4, <1>6, <1>8, <1>9, <1>10, <1>11, <1>12, ProceedStep DEF PInv, TypeOK, Fits, Sound

LEMMA ReadTailStep ==
    ASSUME PInv, NEW r \in Requests, ReadTail(r)
    PROVE  PInv'
<1> DEFINE q == request[r]
           n == NextPosition(NextSection(q))
           c == [q EXCEPT !.step = "insert", !.position = n]
<1>1. q \in Calls /\ Adding(q) /\ Adds(q) /\ ReplaceOK(q) /\ TieOK(q) /\ q.step = "edit"
      /\ q.deleted \cap DOMAIN q.written = {} /\ (q.kind = "create" => q.doc \in created)
  BY StepKinds DEF ReadTail, At
<1>2. Proceed(r, c) /\ UNCHANGED created /\ n <= MaxOrder /\ q.extra = {} /\ q.missing # {}
  BY DEF ReadTail
<1>3. NextSection(q) \in Sections
  <2>1. NextSection(q) \in q.missing
    BY <1>1, <1>2, NextSectionIsMissing DEF Adding
  <2>2. QED
    BY <1>1, <2>1 DEF Calls
<1>4. n \in Nat /\ LastIn(NextSection(q), n)
  BY <1>3, NextPositionIsLast DEF PInv
<1>5. n \in Places
  BY <1>2, <1>4 DEF Places
<1> HIDE DEF q, n
<1>6. /\ c \in Calls /\ c.kind = q.kind /\ c.step = "insert" /\ c.doc = q.doc /\ c.wanted = q.wanted
      /\ c.todo = q.todo /\ c.since = q.since /\ c.actor = q.actor /\ c.missing = q.missing /\ c.met = q.met
      /\ c.extra = q.extra /\ c.deleted = q.deleted /\ c.written = q.written /\ c.position = n
  BY <1>1, <1>4 DEF Calls
<1> HIDE DEF c
<1>7. CallOK(c)
  BY <1>1, <1>2, <1>5, <1>6 DEF CallOK, Adds, Adding
<1>8. NextSection(c) = NextSection(q)
  BY <1>6 DEF NextSection
<1>9. TieOK(c) /\ UpdateOK(c)
  BY <1>1, <1>4, <1>6, <1>8 DEF TieOK, UpdateOK, Adds
<1>10. ReplaceOK(c)
  BY <1>1, <1>6 DEF ReplaceOK, There
<1>11. Apart(r, c)
  BY <1>6, SameIsApart DEF q
<1>12. QED
  BY <1>1, <1>2, <1>6, <1>7, <1>9, <1>10, <1>11, ProceedStep DEF PInv, TypeOK, Fits, Sound

LEMMA InsertStep ==
    ASSUME PInv, NEW r \in Requests, Insert(r)
    PROVE  PInv'
<1> DEFINE q == request[r]
           s == NextSection(q)
           p == <<q.doc, s>>
           w == [x \in DOMAIN q.written \cup {p} |-> IF x = p THEN q.position ELSE q.written[x]]
           c == [q EXCEPT !.step = "edit", !.missing = @ \ {s}, !.written = w]
<1>1. q \in Calls /\ Adding(q) /\ Adds(q) /\ ReplaceOK(q) /\ TieOK(q) /\ q.step = "insert"
      /\ q.deleted \cap DOMAIN q.written = {} /\ (q.kind = "create" => q.doc \in created)
  BY StepKinds DEF Insert, At
<1>2. /\ Proceed(r, c) /\ UNCHANGED created /\ p \notin DOMAIN order
      /\ \A t \in Requests \ {r} : p \notin Held(t) /\ ~Deleting(t, q.doc)
  BY DEF Insert, Free
<1>3. s \in q.missing /\ s \in Sections
  <2>1. s \in q.missing
    BY <1>1, NextSectionIsMissing DEF Adding
  <2>2. QED
    BY <1>1, <2>1 DEF Calls
<1> HIDE DEF s
<1>4. p \in Rows /\ q.position \in Places /\ q.written \in Positions
  BY <1>1, <1>3 DEF Rows, Adding, Calls
<1>5. p = <<q.doc, s>>
  OBVIOUS
<1> HIDE DEF p
<1>6. /\ w \in Positions /\ DOMAIN w = DOMAIN q.written \cup {p} /\ w[p] = q.position
      /\ \A x \in DOMAIN q.written : x # p => w[x] = q.written[x]
  <2>1. w = [x \in DOMAIN q.written \cup {p} |-> IF x = p THEN q.position ELSE q.written[x]]
    OBVIOUS
  <2> HIDE DEF q, w, c
  <2>2. QED
    BY <1>4, <2>1, OneMore
<1>7. s \in q.met \/ LastIn(s, q.position)
  BY <1>1 DEF TieOK, s
<1>8. Apart(r, q)
  BY SameIsApart
<1> HIDE DEF q, w
<1>9. /\ c \in Calls /\ c.kind = q.kind /\ c.step = "edit" /\ c.doc = q.doc /\ c.wanted = q.wanted
      /\ c.todo = q.todo /\ c.since = q.since /\ c.actor = q.actor /\ c.missing = q.missing \ {s} /\ c.met = q.met
      /\ c.extra = q.extra /\ c.deleted = q.deleted /\ c.written = w
  BY <1>1, <1>6 DEF Calls
<1> HIDE DEF c
<1>10. CallOK(c)
  BY <1>1, <1>2, <1>3, <1>5, <1>6, <1>9 DEF CallOK, Adds, Adding
<1>11. TieOK(c) /\ UpdateOK(c)
  <2>1. ASSUME NEW x \in DOMAIN w PROVE x[2] \in c.met \/ LastIn(x[2], w[x])
    <3>1. CASE x = p
      BY <1>5, <1>6, <1>7, <1>9, <3>1
    <3>2. CASE x # p
      BY <1>1, <1>6, <1>9, <2>1, <3>2 DEF TieOK
    <3>3. QED
      BY <3>1, <3>2
  <2>2. QED
    BY <1>1, <1>9, <2>1 DEF TieOK, UpdateOK, Adds
<1>12. ReplaceOK(c)
  <2>1. SUFFICES ASSUME c.kind = "replace", NEW t \in Sections \ c.since
                 PROVE  /\ t \notin Accessible(c.actor) => (t \in c.wanted <=> There(c, t))
                        /\ t \in c.extra \/ <<c.doc, t>> \in c.deleted <=> There(c, t) /\ t \notin c.wanted
                        /\ t \in c.missing \/ <<c.doc, t>> \in DOMAIN c.written <=> ~There(c, t) /\ t \in c.wanted
    BY Zenon DEF ReplaceOK
  <2>2. There(c, t) <=> There(q, t)
    BY <1>9 DEF There
  <2>3. /\ t \notin Accessible(q.actor) => (t \in q.wanted <=> There(q, t))
        /\ t \in q.extra \/ <<q.doc, t>> \in q.deleted <=> There(q, t) /\ t \notin q.wanted
        /\ t \in q.missing \/ <<q.doc, t>> \in DOMAIN q.written <=> ~There(q, t) /\ t \in q.wanted
    BY <1>1, <1>9, <2>1 DEF ReplaceOK
  <2>4. t \in q.missing \/ <<q.doc, t>> \in DOMAIN q.written
          <=> t \in c.missing \/ <<c.doc, t>> \in DOMAIN c.written
    <3>1. t = s <=> <<q.doc, t>> = p
      BY <1>5
    <3>2. QED
      BY <1>3, <1>6, <1>9, <3>1
  <2>5. QED
    BY <1>9, <2>2, <2>3, <2>4
<1>13. c.deleted \cap DOMAIN c.written = {}
  BY <1>1, <1>3, <1>5, <1>6, <1>9 DEF Adding, Adds
<1>14. Apart(r, c)
  BY <1>2, <1>6, <1>8, <1>9 DEF Apart
<1>15. QED
  BY <1>1, <1>2, <1>9, <1>10, <1>11, <1>12, <1>13, <1>14, ProceedStep DEF PInv, TypeOK, Fits, Sound

LEMMA LockDocumentStep ==
    ASSUME PInv, NEW r \in Requests, LockDocument(r)
    PROVE  PInv'
<1> DEFINE q == request[r]
           c == [q EXCEPT !.step = "clear", !.extra = SectionsOf(q.doc)]
<1>1. q \in Calls /\ Removing(q) /\ q.kind = "delete" /\ q.step = "lock"
  BY StepKinds DEF LockDocument, At
<1>2. /\ Proceed(r, c) /\ UNCHANGED created
      /\ \A t \in Requests \ {r} : ~RefersTo(t, q.doc)
  BY DEF LockDocument
<1>3. SectionsOf(q.doc) \subseteq Sections
  BY DEF SectionsOf
<1> HIDE DEF q
<1>4. /\ c \in Calls /\ c.kind = "delete" /\ c.step = "clear" /\ c.doc = q.doc /\ c.missing = q.missing
      /\ c.extra = SectionsOf(q.doc) /\ c.deleted = q.deleted /\ c.written = q.written /\ c.gone = q.gone
  BY <1>1, <1>3 DEF Calls
<1> HIDE DEF c
<1>5. c.doc \in Documents /\ c.deleted = {} /\ DOMAIN c.written = {} /\ c.missing = {} /\ c.gone = {}
  BY <1>1, <1>4 DEF Removing
<1>6. Sound(c)
  BY <1>4, <1>5 DEF Sound, CallOK, TieOK, ReplaceOK, UpdateOK, Adds, Removing
<1>7. Apart(r, c)
  BY <1>2, <1>4, <1>5 DEF Apart, RefersTo
<1>8. QED
  BY <1>2, <1>4, <1>5, <1>6, <1>7, ProceedStep DEF PInv, TypeOK, Fits

LEMMA ClearStep ==
    ASSUME PInv, NEW r \in Requests, Clear(r)
    PROVE  PInv'
<1> DEFINE q == request[r]
<1>1. PICK s \in q.extra :
         /\ Free(r, <<q.doc, s>>)
         /\ Proceed(r, [q EXCEPT !.extra = @ \ {s},
                                 !.deleted = IF s \in q.gone THEN @ ELSE @ \cup {<<q.doc, s>>}])
  BY DEF Clear
<1> DEFINE p == <<q.doc, s>>
           rows == IF s \in q.gone THEN q.deleted ELSE q.deleted \cup {p}
           c == [q EXCEPT !.extra = @ \ {s}, !.deleted = rows]
<1>2. q \in Calls /\ Removing(q) /\ q.kind = "delete" /\ q.step = "clear"
  BY StepKinds DEF Clear, At
<1>3. Proceed(r, c) /\ UNCHANGED created
  BY <1>1 DEF Clear
<1>4. \A t \in Requests \ {r} : p \notin Held(t)
  BY <1>1 DEF Free
<1>5. Apart(r, q)
  BY SameIsApart
<1> HIDE DEF q
<1>6. /\ s \in Sections /\ q.doc \in Documents /\ q.deleted \subseteq {q.doc} \X Sections
      /\ DOMAIN q.written = {} /\ q.missing = {}
  BY <1>1, <1>2 DEF Removing, Calls
<1>7. /\ rows \subseteq {q.doc} \X Sections /\ rows \subseteq q.deleted \cup {p}
      /\ q.deleted \subseteq rows /\ (s \notin q.gone => <<q.doc, s>> \in rows)
  BY <1>6
<1> HIDE DEF p, rows
<1>8. /\ c \in Calls /\ c.kind = "delete" /\ c.step = "clear" /\ c.doc = q.doc /\ c.missing = q.missing
      /\ c.extra = q.extra \ {s} /\ c.deleted = rows /\ c.written = q.written /\ c.gone = q.gone
  <2>1. q.extra \ {s} \in SUBSET Sections
    BY <1>2 DEF Calls
  <2>2. rows \in SUBSET Rows
    BY <1>6, <1>7 DEF Rows
  <2>3. QED
    BY <1>2, <2>1, <2>2 DEF Calls
<1> HIDE DEF c
<1>9. Removing(c)
  <2>1. SUFFICES ASSUME NEW x \in SectionsOf(c.doc)
                 PROVE  x \in c.extra \ c.gone \/ <<c.doc, x>> \in c.deleted
    BY <1>6, <1>7, <1>8 DEF Removing
  <2>2. x \in q.extra \ q.gone \/ <<q.doc, x>> \in q.deleted
    BY <1>2, <1>8, <2>1 DEF Removing
  <2>3. QED
    BY <1>7, <1>8, <2>2
<1>10. Sound(c)
  BY <1>8, <1>9 DEF Sound, CallOK, TieOK, ReplaceOK, UpdateOK, Adds
<1>11. Apart(r, c)
  BY <1>2, <1>4, <1>5, <1>6, <1>7, <1>8 DEF Apart
<1>12. QED
  BY <1>3, <1>6, <1>8, <1>10, <1>11, ProceedStep DEF PInv, TypeOK, Fits

\* What is still to be moved after the first document.
LEMMA HeadAndTail ==
    ASSUME NEW S, NEW list \in Seq(S), list # <<>>
    PROVE  /\ Head(list) \in S /\ Tail(list) \in Seq(S) /\ Len(list) \in Nat /\ Len(list) >= 1
           /\ Len(Tail(list)) = Len(list) - 1
           /\ ToSet(list) \subseteq {Head(list)} \cup ToSet(Tail(list))
<1>1. Head(list) \in S /\ Tail(list) \in Seq(S) /\ Len(list) \in Nat /\ Len(list) >= 1
      /\ Len(Tail(list)) = Len(list) - 1
  OBVIOUS
<1>2. ASSUME NEW i \in DOMAIN list PROVE list[i] \in {Head(list)} \cup ToSet(Tail(list))
  <2>1. CASE i = 1
    BY <2>1
  <2>2. CASE i # 1
    <3>1. i - 1 \in DOMAIN Tail(list) /\ Tail(list)[i - 1] = list[i]
      BY <1>1, <2>2
    <3>2. QED
      BY <3>1 DEF ToSet
  <2>3. QED
    BY <2>1, <2>2
<1>3. QED
  BY <1>1, <1>2 DEF ToSet

LEMMA SetOrderStep ==
    ASSUME PInv, NEW r \in Requests, SetOrder(r)
    PROVE  PInv'
<1> DEFINE q == request[r]
           p == <<Head(q.todo), q.section>>
           more == [x \in DOMAIN q.written \cup {p} |-> IF x = p THEN q.position ELSE q.written[x]]
           w == IF p \notin DOMAIN order THEN q.written ELSE more
           c == [q EXCEPT !.todo = Tail(@), !.position = @ + 1, !.written = w]
<1>1. q \in Calls /\ Moving(q) /\ q.kind = "reorder" /\ TieOK(q) /\ q.step = "set"
  BY StepKinds DEF SetOrder, At
<1>2. Proceed(r, c) /\ UNCHANGED created /\ q.todo # <<>>
      /\ \A t \in Requests \ {r} : p \notin Held(t)
  BY DEF SetOrder, Moved, Free
<1>3. Apart(r, q)
  BY SameIsApart
<1>a. \A t \in Requests \ {r} : ~Deleting(t, None)
  <2>1. ASSUME NEW t \in Requests, Deleting(t, None) PROVE FALSE
    BY <2>1, StepKinds DEF Deleting, Removing
  <2>2. QED
    BY <2>1
<1> HIDE DEF q
<1>4. /\ Head(q.todo) \in Documents /\ Tail(q.todo) \in Seq(Documents)
      /\ Len(q.todo) \in Nat /\ Len(q.todo) >= 1 /\ Len(Tail(q.todo)) = Len(q.todo) - 1
      /\ ToSet(q.todo) \subseteq {Head(q.todo)} \cup ToSet(Tail(q.todo))
  BY <1>1, <1>2, HeadAndTail DEF Moving
<1>5. q.position \in Nat /\ q.position + Len(q.todo) <= Cardinality(Documents) /\ Cardinality(Documents) \in Nat
  BY <1>1, SizeOfDocuments DEF Moving, Calls
<1>6. /\ q.position \in Places /\ q.position + 1 \in Nat
      /\ (q.position + 1) + Len(Tail(q.todo)) <= Cardinality(Documents)
  BY <1>4, <1>5 DEF Places
<1>7. p \in Rows /\ q.written \in Positions /\ p[2] = q.section
  BY <1>1, <1>4 DEF Calls, Rows
<1>8. \A d : <<d, q.section>> = p <=> d = Head(q.todo)
  OBVIOUS
<1> HIDE DEF p
<1>9. /\ more \in Positions /\ DOMAIN more = DOMAIN q.written \cup {p} /\ more[p] = q.position
      /\ \A x \in DOMAIN q.written : x # p => more[x] = q.written[x]
  <2>1. p \in Rows /\ q.written \in Positions /\ q.position \in Places
    BY <1>6, <1>7
  <2>2. QED
    BY <2>1, OneMore
<1> HIDE DEF more
<1>10. /\ w \in Positions /\ DOMAIN w \subseteq DOMAIN q.written \cup {p}
       /\ DOMAIN q.written \subseteq DOMAIN w /\ (p \in DOMAIN order => p \in DOMAIN w)
       /\ DOMAIN w \subseteq DOMAIN order
       /\ \A x \in DOMAIN w : \/ x \in DOMAIN q.written /\ w[x] = q.written[x]
                              \/ x = p /\ w[x] = q.position
  BY <1>1, <1>7, <1>9 DEF Moving
<1> HIDE DEF w
<1>11. /\ c \in Calls /\ c.kind = "reorder" /\ c.step = "set" /\ c.doc = q.doc /\ c.missing = q.missing
       /\ c.extra = q.extra /\ c.deleted = q.deleted /\ c.written = w /\ c.section = q.section
       /\ c.todo = Tail(q.todo) /\ c.position = q.position + 1 /\ c.met = q.met
  BY <1>1, <1>4, <1>6, <1>10 DEF Calls
<1> HIDE DEF c
<1>12. \A x \in DOMAIN w : w[x] \in Nat
  BY <1>10, PositionsApply, PlacesAreBounded
<1>13. \A x \in DOMAIN q.written : q.written[x] < q.position /\ x[2] = q.section
  BY <1>1 DEF Moving
<1>14. \A x \in DOMAIN w : w[x] < q.position + 1 /\ x[2] = q.section
  <2>1. \A x \in DOMAIN w : w[x] < q.position \/ w[x] = q.position
    BY <1>10, <1>13
  <2>2. QED
    BY <1>5, <1>7, <1>10, <1>12, <1>13, <2>1
<1>15. \A x, y \in DOMAIN w : w[x] = w[y] => x = y
  <2>1. \A x, y \in DOMAIN q.written : q.written[x] = q.written[y] => x = y
    BY <1>1 DEF Moving
  <2>2. \A x \in DOMAIN q.written : q.written[x] # q.position
    <3>1. \A x \in DOMAIN q.written : q.written[x] \in Nat
      BY <1>7, PositionsApply, PlacesAreBounded
    <3>2. QED
      BY <1>5, <1>13, <3>1
  <2>3. QED
    BY <1>10, <2>1, <2>2
<1>16. Moving(c)
  BY <1>1, <1>4, <1>6, <1>10, <1>11, <1>14, <1>15 DEF Moving
<1>17. TieOK(c)
  <2>1. SUFFICES ASSUME NEW d \in Placed(q.section)
                 PROVE  \/ <<d, q.section>> \in DOMAIN w
                        \/ d \in ToSet(Tail(q.todo))
                        \/ <<d, q.section>> \in raced /\ q.section \in q.met
    BY <1>11 DEF TieOK, Adds
  <2>2. \/ <<d, q.section>> \in DOMAIN q.written
        \/ d \in ToSet(q.todo)
        \/ <<d, q.section>> \in raced /\ q.section \in q.met
    BY <1>1, <2>1 DEF TieOK
  <2>3. <<d, q.section>> \in DOMAIN order
    BY <2>1 DEF Placed
  <2>4. QED
    BY <1>4, <1>8, <1>10, <2>2, <2>3
<1>18. Sound(c)
  BY <1>11, <1>16, <1>17 DEF Sound, CallOK, ReplaceOK, UpdateOK, Adds
<1>19. Apart(r, c)
  <2>1. q.doc = None
    BY <1>1 DEF Moving
  <2>2. QED
    BY <1>2, <1>3, <1>10, <1>11, <1>a, <2>1 DEF Apart
<1>20. c.deleted \cap DOMAIN c.written = {}
  BY <1>1, <1>11 DEF Moving
<1>21. QED
  BY <1>2, <1>11, <1>18, <1>19, <1>20, ProceedStep DEF PInv, TypeOK, Fits

-----------------------------------------------------------------------------
(* The end of a transaction.                                               *)

\* The placements once r has committed.
After(r) ==
    /\ order' \in Positions
    /\ DOMAIN order' = (DOMAIN order \ request[r].deleted) \cup DOMAIN request[r].written
    /\ \A p \in DOMAIN request[r].written : order'[p] = request[r].written[p]
    /\ \A p \in DOMAIN order' \ DOMAIN request[r].written :
          p \in DOMAIN order /\ p \notin request[r].deleted /\ order'[p] = order[p]

\* What another call has noticed then.
Noticing(q, r) ==
    LET c == request[q]
        n == request'[q]
    IN  /\ n \in Calls
        /\ n.kind = c.kind /\ n.step = c.step /\ n.doc = c.doc /\ n.section = c.section
        /\ n.actor = c.actor /\ n.todo = c.todo /\ n.missing = c.missing /\ n.extra = c.extra
        /\ n.wanted = c.wanted /\ n.position = c.position /\ n.deleted = c.deleted /\ n.written = c.written
        /\ \A s \in n.gone : s \in c.gone \/ (s \in c.extra /\ <<c.doc, s>> \in request[r].deleted)
        /\ c.since \subseteq n.since
        /\ c.kind \in {"replace", "update"} =>
              \A s \in Sections : <<c.doc, s>> \in Changed(r) => s \in n.since
        /\ c.met \subseteq n.met
        /\ \A p \in DOMAIN request[r].written : p[2] \in WorksOn(c) => p[2] \in n.met

\* The call that commits has nothing left to do.
Finished(r) ==
    /\ request[r].step \in {"edit", "clear", "set"}
    /\ request[r].step = "set" => request[r].todo = <<>>

LEMMA AppliedIs ==
    ASSUME PInv, NEW r \in Requests, order' = Applied(r)
    PROVE  After(r)
<1> DEFINE w == request[r].written
           D == (DOMAIN order \ request[r].deleted) \cup DOMAIN w
<1>1. order \in Positions /\ w \in Positions
  BY DEF PInv, TypeOK, Calls
<1> HIDE DEF w
<1>2. order' = [p \in D |-> IF p \in DOMAIN w THEN w[p] ELSE order[p]]
  BY DEF Applied, w
<1>3. /\ DOMAIN order' = D /\ \A p \in DOMAIN w : order'[p] = w[p]
      /\ \A p \in D \ DOMAIN w : order'[p] = order[p] /\ p \in DOMAIN order
  BY <1>2
<1>4. D \in SUBSET Rows /\ \A p \in D : order'[p] \in Places
  BY <1>1, <1>3, PositionsApply
<1>5. order' = [p \in D |-> order'[p]]
  BY <1>2, <1>3
<1>6. order' \in [D -> Places]
  BY <1>4, <1>5
<1>7. order' \in Positions
  BY <1>4, <1>6 DEF Positions
<1>8. QED
  BY <1>3, <1>7 DEF After, w

LEMMA NoticeIs ==
    ASSUME PInv, NEW r \in Requests, NEW q \in Requests \ {r}, Commit(r)
    PROVE  Noticing(q, r)
<1> DEFINE c == request[q]
           taken == {s \in Sections : <<c.doc, s>> \in request[r].deleted}
           changed == {s \in Sections : <<c.doc, s>> \in Changed(r)}
           moved == {p[2] : p \in DOMAIN request[r].written}
           gone == c.gone \cup (c.extra \cap taken)
           since == IF c.kind \in {"replace", "update"} THEN c.since \cup changed ELSE c.since
           met == c.met \cup (WorksOn(c) \cap moved)
<1>1. request'[q] = [c EXCEPT !.gone = gone, !.since = since, !.met = met]
  BY DEF Commit, Notice
<1>2. c \in Calls /\ request[r] \in Calls
  BY DEF PInv, TypeOK
<1>3. moved \subseteq Sections
  BY <1>2, PositionsApply DEF Calls, Rows
<1> HIDE DEF moved
<1>4. gone \subseteq Sections /\ since \subseteq Sections /\ met \subseteq Sections
  BY <1>2, <1>3 DEF Calls
<1>5. /\ \A s \in gone : s \in c.gone \/ (s \in c.extra /\ <<c.doc, s>> \in request[r].deleted)
      /\ c.since \subseteq since
      /\ c.kind \in {"replace", "update"} =>
            \A s \in Sections : <<c.doc, s>> \in Changed(r) => s \in since
      /\ c.met \subseteq met
      /\ \A p \in DOMAIN request[r].written : p[2] \in WorksOn(c) => p[2] \in met
  <2>1. \A p \in DOMAIN request[r].written : p[2] \in moved
    BY DEF moved
  <2>2. \A s \in gone : s \in c.gone \/ (s \in c.extra /\ <<c.doc, s>> \in request[r].deleted)
    OBVIOUS
  <2>3. c.since \subseteq since
    OBVIOUS
  <2>4. c.kind \in {"replace", "update"} =>
            \A s \in Sections : <<c.doc, s>> \in Changed(r) => s \in since
    OBVIOUS
  <2>5. c.met \subseteq met /\ \A p \in DOMAIN request[r].written : p[2] \in WorksOn(c) => p[2] \in met
    BY <2>1
  <2>6. QED
    BY <2>2, <2>3, <2>4, <2>5
<1> HIDE DEF c, gone, since, met
<1> DEFINE n == [c EXCEPT !.gone = gone, !.since = since, !.met = met]
<1>6. /\ n \in Calls
      /\ n.kind = c.kind /\ n.step = c.step /\ n.doc = c.doc /\ n.section = c.section
      /\ n.actor = c.actor /\ n.todo = c.todo /\ n.missing = c.missing /\ n.extra = c.extra
      /\ n.wanted = c.wanted /\ n.position = c.position /\ n.deleted = c.deleted /\ n.written = c.written
      /\ n.gone = gone /\ n.since = since /\ n.met = met
  BY <1>2, <1>4 DEF Calls
<1> HIDE DEF n
<1>7. request'[q] = n
  BY <1>1 DEF n
<1>8. QED
  BY <1>5, <1>6, <1>7 DEF Noticing, c

\* Where a call works.
LEMMA WorkingSections ==
    ASSUME PInv, NEW q \in Requests
    PROVE  LET c == request[q]
           IN  /\ c.kind = "reorder" => WorksOn(c) = {c.section}
               /\ Adds(c) => c.missing \subseteq WorksOn(c) /\ \A p \in DOMAIN c.written : p[2] \in WorksOn(c)
BY DEF WorksOn, Adds

LEMMA OthersCallOK ==
    ASSUME PInv, NEW r \in Requests, NEW q \in Requests \ {r}, After(r), Noticing(q, r)
    PROVE  CallOK(request[q])'
<1> DEFINE c == request[q]
           n == request'[q]
<1>1. CallOK(c) /\ CallOK(request[r]) /\ request[r].deleted \cap DOMAIN request[r].written = {}
  BY StepKinds
<1>2. (c.deleted \cup DOMAIN c.written) \cap (request[r].deleted \cup DOMAIN request[r].written) = {}
  BY DEF PInv, RowsInv, Held
<1>3. DOMAIN order' \subseteq DOMAIN order \cup DOMAIN request[r].written
  BY DEF After
<1>4. Adds(n) => Adding(c)'
  <2>1. SUFFICES ASSUME Adds(n) PROVE Adding(c)'
    OBVIOUS
  <2>2. Adding(c)
    BY <1>1, <2>1 DEF CallOK, Adds, Noticing
  <2>3. DOMAIN c.written \cap DOMAIN order' = {}
    BY <1>2, <1>3, <2>2 DEF Adding
  <2>4. QED
    BY <2>2, <2>3 DEF Adding, Noticing
<1>5. n.kind = "delete" => Removing(c)'
  <2>1. SUFFICES ASSUME n.kind = "delete" PROVE Removing(c)'
    OBVIOUS
  <2>2. Removing(c)
    BY <1>1, <2>1 DEF CallOK, Noticing
  <2>3. ASSUME c.step = "clear", NEW s \in Sections, <<c.doc, s>> \in DOMAIN order'
        PROVE  s \in n.extra \ n.gone \/ <<c.doc, s>> \in c.deleted
    <3>1. <<c.doc, s>> \in DOMAIN order /\ <<c.doc, s>> \notin request[r].deleted
      <4>1. CASE <<c.doc, s>> \notin DOMAIN request[r].written
        BY <2>3, <4>1 DEF After
      <4>2. CASE <<c.doc, s>> \in DOMAIN request[r].written
        <5>1. request[r].doc # c.doc
          BY <2>3, <4>2 DEF PInv, RefsInv, Deleting
        <5>2. ~Adds(request[r])
          BY <1>1, <4>2, <5>1 DEF CallOK, Adding
        <5>3. request[r] \in Calls
          BY DEF PInv, TypeOK
        <5>4. request[r].kind = "reorder"
          BY <1>1, <4>2, <5>2, <5>3 DEF CallOK, Adds, Calls, Removing, Resting
        <5>5. QED
          BY <1>1, <4>2, <5>4 DEF CallOK, Moving
      <4>3. QED
        BY <4>1, <4>2
    <3>2. s \in c.extra \ c.gone \/ <<c.doc, s>> \in c.deleted
      BY <2>2, <2>3, <3>1 DEF Removing, SectionsOf
    <3>3. QED
      BY <3>1, <3>2 DEF Noticing
  <2>4. c.step = "lock" => n.gone = {}
    BY <2>2 DEF Noticing, Removing
  <2>5. QED
    BY <2>2, <2>3, <2>4 DEF Removing, Noticing, SectionsOf
<1>6. n.kind = "reorder" => Moving(c)'
  <2>1. SUFFICES ASSUME n.kind = "reorder" PROVE Moving(c)'
    OBVIOUS
  <2>2. Moving(c)
    BY <1>1, <2>1 DEF CallOK, Noticing
  <2>3. DOMAIN c.written \subseteq DOMAIN order'
    BY <1>2, <2>2 DEF Moving, After
  <2>4. QED
    BY <2>2, <2>3 DEF Moving, Noticing
<1>7. n.kind \in {"none", "update"} => Resting(c)'
  BY <1>1 DEF CallOK, Resting, Noticing
<1>8. QED
  BY <1>4, <1>5, <1>6, <1>7 DEF CallOK, Adds

LEMMA OthersTieOK ==
    ASSUME PInv, NEW r \in Requests, NEW q \in Requests \ {r}, Commit(r), After(r), Noticing(q, r)
    PROVE  TieOK(request[q])'
<1> DEFINE c == request[q]
           n == request'[q]
           w == request[r].written
<1>1. TieOK(c) /\ CallOK(c) /\ CallOK(request[r]) /\ request[r] \in Calls /\ c \in Calls
  BY StepKinds
<1>2. (c.deleted \cup DOMAIN c.written) \cap (request[r].deleted \cup DOMAIN w) = {}
  BY DEF PInv, RowsInv, Held
<1>3. ASSUME NEW s, NEW m, s \in WorksOn(c), LastIn(s, m), s \notin n.met
      PROVE  LastIn(s, m)'
  <2>1. ASSUME NEW d \in Placed(s)' PROVE d \in Placed(s) /\ order'[<<d, s>>] = order[<<d, s>>]
    <3>1. <<d, s>> \notin DOMAIN w
      BY <1>3 DEF Noticing
    <3>2. QED
      BY <2>1, <3>1 DEF After, Placed
  <2>2. QED
    BY <1>3, <2>1 DEF LastIn
<1>4. Adds(c) => /\ \A p \in DOMAIN c.written : p[2] \in n.met \/ LastIn(p[2], c.written[p])'
                 /\ c.step = "insert" => NextSection(c) \in n.met \/ LastIn(NextSection(c), c.position)'
  <2>1. SUFFICES ASSUME Adds(c)
                 PROVE  /\ \A p \in DOMAIN c.written : p[2] \in n.met \/ LastIn(p[2], c.written[p])'
                        /\ c.step = "insert" => NextSection(c) \in n.met \/ LastIn(NextSection(c), c.position)'
    OBVIOUS
  <2>2. c.missing \subseteq WorksOn(c) /\ \A p \in DOMAIN c.written : p[2] \in WorksOn(c)
    BY <2>1, WorkingSections
  <2>3. ASSUME NEW p \in DOMAIN c.written PROVE p[2] \in n.met \/ LastIn(p[2], c.written[p])'
    <3>1. p[2] \in c.met \/ LastIn(p[2], c.written[p])
      BY <1>1, <2>1 DEF TieOK
    <3>2. QED
      BY <1>3, <2>2, <3>1 DEF Noticing
  <2>4. ASSUME c.step = "insert" PROVE NextSection(c) \in n.met \/ LastIn(NextSection(c), c.position)'
    <3>1. NextSection(c) \in c.met \/ LastIn(NextSection(c), c.position)
      BY <1>1, <2>1, <2>4 DEF TieOK
    <3>2. NextSection(c) \in c.missing
      BY <1>1, <2>1, <2>4, NextSectionIsMissing DEF CallOK, Adding
    <3>3. PICK s, m : s = NextSection(c) /\ m = c.position
      OBVIOUS
    <3>4. s \in n.met \/ LastIn(s, m)'
      BY <1>3, <2>2, <3>1, <3>2, <3>3 DEF Noticing
    <3>5. NextSection(c)' = s /\ c.position' = m
      BY <3>3 DEF NextSection, Noticing
    <3>6. QED
      BY <3>3, <3>4, <3>5 DEF LastIn
  <2>5. QED
    BY <2>3, <2>4
<1>5. ASSUME c.kind = "reorder", NEW d \in Documents, <<d, c.section>> \in DOMAIN order'
      PROVE  \/ <<d, c.section>> \in DOMAIN c.written
             \/ d \in ToSet(c.todo)
             \/ <<d, c.section>> \in raced' /\ c.section \in n.met
  <2>1. WorksOn(c) = {c.section}
    BY <1>5, WorkingSections
  <2>2. Overlapped(r, c.section)
    BY <2>1 DEF Overlapped
  <2>3. CASE <<d, c.section>> \in DOMAIN order
    <3>1. \/ <<d, c.section>> \in DOMAIN c.written
          \/ d \in ToSet(c.todo)
          \/ <<d, c.section>> \in raced /\ c.section \in c.met
      BY <1>1, <1>5, <2>3 DEF TieOK, Placed
    <3>2. <<d, c.section>> \notin request[r].deleted
      <4>1. request[r].deleted \cap DOMAIN w = {}
        BY StepKinds
      <4>2. QED
        BY <1>5, <4>1 DEF After
    <3>3. <<d, c.section>> \notin Repaired(r)
      BY <2>2 DEF Repaired
    <3>4. QED
      BY <3>1, <3>2, <3>3 DEF Commit, Noticing
  <2>4. CASE <<d, c.section>> \notin DOMAIN order
    <3>1. <<d, c.section>> \in DOMAIN w
      BY <1>5, <2>4 DEF After
    <3>2. request[r].kind # "reorder"
      BY <1>1, <2>4, <3>1 DEF CallOK, Moving
    <3>3. <<d, c.section>> \in Added(r)
      BY <3>1, <3>2 DEF Added
    <3>4. <<d, c.section>> \in raced'
      BY <2>2, <3>3 DEF Commit
    <3>5. c.section \in n.met
      BY <2>1, <3>1 DEF Noticing
    <3>6. QED
      BY <3>4, <3>5
  <2>5. QED
    BY <2>3, <2>4
<1>6. NextSection(request[q])' = NextSection(c)
  BY DEF NextSection, Noticing
<1>7. QED
  BY <1>4, <1>5, <1>6 DEF TieOK, Adds, Placed, Noticing

LEMMA OthersScopes ==
    ASSUME PInv, NEW r \in Requests, NEW q \in Requests \ {r}, After(r), Noticing(q, r)
    PROVE  ReplaceOK(request[q])' /\ UpdateOK(request[q])'
<1> DEFINE c == request[q]
           n == request'[q]
<1>1. ReplaceOK(c) /\ UpdateOK(c) /\ request[r].deleted \cap DOMAIN request[r].written = {}
  BY StepKinds
<1>2. ASSUME c.kind \in {"replace", "update"}, NEW s \in Sections \ n.since
      PROVE  There(c, s)' <=> There(c, s)
  <2>1. <<c.doc, s>> \notin Changed(r)
    BY <1>2 DEF Noticing
  <2>2. <<c.doc, s>> \in DOMAIN order' <=> <<c.doc, s>> \in DOMAIN order
    BY <2>1 DEF After, Changed
  <2>3. QED
    BY <2>2 DEF There, Noticing
<1>3. ReplaceOK(request[q])'
  <2>1. ASSUME c.kind = "replace", NEW s \in Sections \ n.since
        PROVE  /\ <<c.doc, s>> \in DOMAIN order' <=> <<c.doc, s>> \in DOMAIN order
               /\ s \notin Accessible(c.actor) => (s \in c.wanted <=> There(c, s))
               /\ c.step # "read" =>
                     /\ s \in c.extra \/ <<c.doc, s>> \in c.deleted <=> There(c, s) /\ s \notin c.wanted
                     /\ s \in c.missing \/ <<c.doc, s>> \in DOMAIN c.written <=> ~There(c, s) /\ s \in c.wanted
    <3>1. s \notin c.since
      BY <2>1 DEF Noticing
    <3>2. <<c.doc, s>> \in DOMAIN order' <=> <<c.doc, s>> \in DOMAIN order
      BY <1>2, <2>1 DEF There, Noticing
    <3>3. QED
      BY <1>1, <2>1, <3>1, <3>2 DEF ReplaceOK
  <2>2. QED
    BY <2>1 DEF ReplaceOK, There, Noticing
<1>4. UpdateOK(request[q])'
  <2>1. SUFFICES ASSUME c.kind = "update", NEW s \in Sections \ n.since, There(c, s)'
                 PROVE  s \in Accessible(c.actor)
    BY DEF UpdateOK, SectionsOf, There, Noticing
  <2>2. There(c, s) /\ s \notin c.since
    BY <1>2, <2>1 DEF Noticing
  <2>3. QED
    BY <1>1, <2>1, <2>2 DEF UpdateOK, SectionsOf, There
<1>5. QED
  BY <1>3, <1>4

\* Rows that share a position after a commit: one of them was added in a race.
LEMMA TiesAfter ==
    ASSUME PInv, NEW r \in Requests, Finished(r), Commit(r), After(r)
    PROVE  TiesWereRaced'
<1> DEFINE c == request[r]
           w == c.written
<1>1. /\ c \in Calls /\ CallOK(c) /\ TieOK(c)
      /\ c.kind = "reorder" => Moving(c) /\ ToSet(c.todo) = {}
      /\ c.kind = "delete" => DOMAIN w = {}
      /\ c.kind \in {"create", "replace", "delete", "reorder"}
  <2>1. /\ c \in Calls /\ CallOK(c) /\ TieOK(c) /\ c.step \in {"edit", "clear", "set"}
        /\ c.step = "set" => c.todo = <<>>
    BY StepKinds DEF Finished
  <2>2. ToSet(<<>>) = {}
    BY DEF ToSet
  <2>3. c.kind \in {"create", "replace", "delete", "reorder"}
    BY <2>1, StepKinds DEF Adds
  <2>4. QED
    BY <2>1, <2>2, <2>3 DEF CallOK, Moving, Removing
<1>2. \A p \in DOMAIN order' : order'[p] \in Nat
  BY PositionsApply, PlacesAreBounded DEF After
<1>3. ASSUME NEW p \in raced, p \in DOMAIN order', p \notin DOMAIN w, p \notin raced'
      PROVE  c.kind = "reorder" /\ p[2] = c.section /\ ~Overlapped(r, c.section)
  <2>1. p \notin c.deleted
    BY <1>3 DEF After
  <2>2. p \in Repaired(r)
    BY <1>3, <2>1 DEF Commit
  <2>3. QED
    BY <2>2 DEF Repaired
\* Neither was written.
<1>4. ASSUME NEW s \in Sections, NEW d \in Documents, NEW e \in Documents, d # e,
             <<d, s>> \in DOMAIN order' \ DOMAIN w, <<e, s>> \in DOMAIN order' \ DOMAIN w,
             order'[<<d, s>>] = order'[<<e, s>>]
      PROVE  <<d, s>> \in raced' \/ <<e, s>> \in raced'
  <2>1. /\ <<d, s>> \in DOMAIN order /\ <<e, s>> \in DOMAIN order
        /\ order[<<d, s>>] = order[<<e, s>>]
    BY <1>4 DEF After
  <2>2. <<d, s>> \in raced \/ <<e, s>> \in raced
    BY <1>4, <2>1 DEF PInv, TiesWereRaced, Placed
  <2>3. SUFFICES ASSUME <<d, s>> \notin raced', <<e, s>> \notin raced' PROVE FALSE
    OBVIOUS
  <2>4. c.kind = "reorder" /\ s = c.section /\ ~Overlapped(r, s)
    BY <1>3, <1>4, <2>2, <2>3
  <2>5. s \in c.met
    BY <1>1, <1>4, <2>1, <2>4 DEF TieOK, Placed
  <2>6. QED
    BY <2>4, <2>5 DEF Overlapped
\* One was written.
<1>5. ASSUME NEW s \in Sections, NEW d \in Documents, NEW e \in Documents,
             <<d, s>> \in DOMAIN w, <<e, s>> \in DOMAIN order' \ DOMAIN w,
             order'[<<d, s>>] = order'[<<e, s>>]
      PROVE  <<d, s>> \in raced' \/ <<e, s>> \in raced'
  <2>1. <<e, s>> \in DOMAIN order /\ order'[<<e, s>>] = order[<<e, s>>] /\ order'[<<d, s>>] = w[<<d, s>>]
    BY <1>5 DEF After
  <2>2. CASE c.kind = "reorder"
    <3>1. s = c.section
      BY <1>1, <1>5, <2>2 DEF Moving
    <3>2. <<e, s>> \in raced /\ s \in c.met
      BY <1>1, <1>5, <2>1, <2>2, <3>1 DEF TieOK, Placed
    <3>3. QED
      BY <1>3, <1>5, <3>1, <3>2 DEF Overlapped
  <2>3. CASE c.kind # "reorder"
    <3>1. <<d, s>> \in Added(r) /\ Adds(c)
      BY <1>1, <1>5, <2>3 DEF Added, Adds
    <3>2. CASE Overlapped(r, s)
      BY <3>1, <3>2 DEF Commit
    <3>3. CASE ~Overlapped(r, s)
      <4>1. LastIn(s, w[<<d, s>>])
        BY <1>1, <1>5, <3>1, <3>3 DEF TieOK, Overlapped
      <4>2. order[<<e, s>>] < w[<<d, s>>]
        BY <2>1, <4>1 DEF LastIn, Placed
      <4>3. order'[<<e, s>>] < order'[<<d, s>>]
        BY <2>1, <4>2
      <4>4. order'[<<e, s>>] \in Nat
        BY <1>2, <1>5
      <4>5. QED
        BY <1>5, <4>3, <4>4
    <3>4. QED
      BY <3>2, <3>3
  <2>4. QED
    BY <2>2, <2>3
\* Both were written.
<1>6. ASSUME NEW s \in Sections, NEW d \in Documents, NEW e \in Documents, d # e,
             <<d, s>> \in DOMAIN w, <<e, s>> \in DOMAIN w
      PROVE  order'[<<d, s>>] # order'[<<e, s>>]
  <2>1. c.kind = "reorder"
    <3>1. Adds(c) => d = c.doc /\ e = c.doc
      BY <1>1, <1>6 DEF CallOK, Adding
    <3>2. QED
      BY <1>1, <1>6, <3>1 DEF Adds
  <2>2. w[<<d, s>>] # w[<<e, s>>]
    BY <1>1, <1>6, <2>1 DEF Moving
  <2>3. QED
    BY <1>6, <2>2 DEF After
<1>7. SUFFICES ASSUME NEW s \in Sections, NEW d \in Documents, NEW e \in Documents, d # e,
                      <<d, s>> \in DOMAIN order', <<e, s>> \in DOMAIN order',
                      order'[<<d, s>>] = order'[<<e, s>>]
               PROVE  <<d, s>> \in raced' \/ <<e, s>> \in raced'
  BY DEF TiesWereRaced, Placed
<1>8. CASE <<d, s>> \notin DOMAIN w /\ <<e, s>> \notin DOMAIN w
  BY <1>4, <1>7, <1>8
<1>9. CASE <<d, s>> \in DOMAIN w /\ <<e, s>> \notin DOMAIN w
  BY <1>5, <1>7, <1>9
<1>10. CASE <<d, s>> \notin DOMAIN w /\ <<e, s>> \in DOMAIN w
  BY <1>5, <1>7, <1>10
<1>11. CASE <<d, s>> \in DOMAIN w /\ <<e, s>> \in DOMAIN w
  BY <1>6, <1>7, <1>11
<1>12. QED
  BY <1>8, <1>9, <1>10, <1>11

\* The last reorder of a section keeps its word.
LEMMA PairsAfter ==
    ASSUME PInv, NEW r \in Requests, Finished(r), Commit(r), After(r)
    PROVE  PairsInv'
<1> DEFINE c == request[r]
           w == c.written
<1>1. /\ CallOK(c) /\ c.kind \in {"create", "replace", "delete", "reorder"}
  BY StepKinds DEF Finished, Adds
<1>2. c.kind = "reorder" => \A p \in DOMAIN w : p[2] = c.section
  BY <1>1 DEF CallOK, Moving
<1>3. c.kind # "reorder" => DOMAIN w \cap DOMAIN order = {}
  BY <1>1 DEF CallOK, Adds, Adding, Removing
<1>4. ASSUME NEW pair \in StillPromised(r)
      PROVE  pair[1][2] = pair[2][2] /\ order'[pair[1]] < order'[pair[2]]
  <2>1. /\ pair \in promised /\ pair[1] \notin c.deleted /\ pair[2] \notin c.deleted
        /\ c.kind = "reorder" => pair[1][2] # c.section
    BY DEF StillPromised
  <2>2. pair[1] \in DOMAIN order /\ pair[2] \in DOMAIN order
    BY <2>1 DEF PInv, TypeOK
  <2>3. pair[1][2] = pair[2][2] /\ order[pair[1]] < order[pair[2]]
    BY <2>1 DEF PInv, PairsInv
  <2>4. pair[1] \notin DOMAIN w /\ pair[2] \notin DOMAIN w
    BY <1>2, <1>3, <2>1, <2>2, <2>3
  <2>5. order'[pair[1]] = order[pair[1]] /\ order'[pair[2]] = order[pair[2]]
    BY <2>1, <2>2, <2>4 DEF After
  <2>6. QED
    BY <2>3, <2>5
<1>5. ASSUME c.kind = "reorder", NEW pair \in PutInOrder(r)
      PROVE  pair[1][2] = pair[2][2] /\ order'[pair[1]] < order'[pair[2]]
  <2>1. pair[1] \in DOMAIN w /\ pair[2] \in DOMAIN w /\ w[pair[1]] < w[pair[2]]
    BY DEF PutInOrder
  <2>2. QED
    BY <1>2, <1>5, <2>1 DEF After
<1>6. \A pair \in promised' : pair \in StillPromised(r) \/ (c.kind = "reorder" /\ pair \in PutInOrder(r))
  BY DEF Commit
<1>7. QED
  BY <1>4, <1>5, <1>6 DEF PairsInv

LEMMA TypeAfter ==
    ASSUME PInv, NEW r \in Requests, Commit(r), After(r), request'[r] = Idle,
           \A q \in Requests \ {r} : Noticing(q, r),
           UNCHANGED created, documents' \subseteq created, DOMAIN order' \subseteq documents' \X Sections
    PROVE  TypeOK'
<1> DEFINE c == request[r]
           w == c.written
<1>1. c.deleted \cap DOMAIN w = {}
  BY StepKinds
<1>2. request' \in [Requests -> Calls]
  <2>1. request' = [q \in Requests |-> request'[q]]
    BY DEF Commit
  <2>2. ASSUME NEW q \in Requests PROVE request'[q] \in Calls
    BY IdleIsSound DEF Noticing
  <2>3. QED
    BY <2>1, <2>2
<1>3. ASSUME NEW q \in Requests PROVE request'[q].deleted \cap DOMAIN request'[q].written = {}
  <2>1. CASE q = r
    BY <2>1, IdleIsSound
  <2>2. CASE q # r
    BY <2>2, StepKinds DEF Noticing
  <2>3. QED
    BY <2>1, <2>2
<1>4. raced' \subseteq DOMAIN order'
  <2>1. raced \ c.deleted \subseteq DOMAIN order'
    BY DEF After, PInv, TypeOK
  <2>2. Added(r) \subseteq DOMAIN order'
    BY DEF After, Added
  <2>3. QED
    BY <2>1, <2>2 DEF Commit
<1>5. promised' \subseteq (DOMAIN order') \X (DOMAIN order')
  <2>1. ASSUME NEW pair \in StillPromised(r) PROVE pair \in (DOMAIN order') \X (DOMAIN order')
    <3>1. pair \in promised /\ pair[1] \notin c.deleted /\ pair[2] \notin c.deleted
      BY DEF StillPromised
    <3>2. pair \in (DOMAIN order) \X (DOMAIN order)
      BY <3>1 DEF PInv, TypeOK
    <3>3. QED
      BY <3>1, <3>2 DEF After
  <2>2. PutInOrder(r) \subseteq (DOMAIN order') \X (DOMAIN order')
    BY DEF PutInOrder, After
  <2>3. \A pair \in promised' : pair \in StillPromised(r) \/ pair \in PutInOrder(r)
    BY DEF Commit
  <2>4. QED
    BY <2>1, <2>2, <2>3
<1>6. documents' \subseteq created' /\ created' \subseteq Documents
  BY DEF PInv, TypeOK
<1>7. QED
  BY <1>2, <1>3, <1>4, <1>5, <1>6 DEF TypeOK, After

LEMMA CommitStep ==
    ASSUME PInv, NEW r \in Requests, Finished(r), Commit(r), UNCHANGED created,
           documents' \subseteq created,
           (DOMAIN order \ request[r].deleted) \cup DOMAIN request[r].written \subseteq documents' \X Sections
    PROVE  PInv'
<1>1. After(r)
  BY AppliedIs DEF Commit
<1>2. \A q \in Requests \ {r} : Noticing(q, r)
  BY NoticeIs
<1>3. request'[r] = Idle
  BY DEF Commit
<1>4. DOMAIN order' \subseteq documents' \X Sections
  BY <1>1 DEF After
<1>5. TypeOK'
  BY <1>1, <1>2, <1>3, <1>4, TypeAfter
<1>6. RowsInv'
  <2>1. Held(r)' = {}
    BY <1>3, IdleIsSound DEF Held
  <2>2. \A q \in Requests \ {r} : Held(q)' = Held(q)
    BY <1>2 DEF Held, Noticing
  <2>3. SUFFICES ASSUME NEW q \in Requests, NEW t \in Requests, q # t PROVE Held(q)' \cap Held(t)' = {}
    BY DEF RowsInv
  <2>4. QED
    BY <2>1, <2>2, <2>3 DEF PInv, RowsInv
<1>7. RefsInv'
  <2>1. SUFFICES ASSUME NEW q \in Requests, NEW t \in Requests, q # t,
                        request'[q].doc = request'[t].doc, request'[q].step = "clear"
                 PROVE  DOMAIN request'[t].written = {}
    BY DEF RefsInv, Deleting
  <2>2. q # r
    BY <1>3, <2>1, IdleIsSound
  <2>3. CASE t = r
    BY <1>3, <2>3, IdleIsSound
  <2>4. CASE t # r
    BY <1>2, <2>1, <2>2, <2>4 DEF PInv, RefsInv, Deleting, Noticing
  <2>5. QED
    BY <2>3, <2>4
<1>8. DocsInv'
  <2>1. SUFFICES ASSUME NEW q \in Requests, request'[q].kind = "create" PROVE request'[q].doc \in created
    BY DEF DocsInv
  <2>2. q # r
    BY <1>3, <2>1, IdleIsSound
  <2>3. QED
    BY <1>2, <2>1, <2>2 DEF PInv, DocsInv, Noticing
<1>9. TiesWereRaced' /\ PairsInv'
  BY <1>1, TiesAfter, PairsAfter
<1>10. ASSUME NEW q \in Requests PROVE Sound(request[q])'
  <2>1. CASE q = r
    <3>1. Resting(request[q])' /\ request'[q].kind = "none"
      BY <1>3, <2>1, IdleIsSound DEF Resting, Sound, CallOK
    <3>2. QED
      BY <3>1 DEF Sound, CallOK, TieOK, ReplaceOK, UpdateOK, Adds
  <2>2. CASE q # r
    BY <1>1, <1>2, <2>2, OthersCallOK, OthersTieOK, OthersScopes DEF Sound
  <2>3. QED
    BY <2>1, <2>2
<1>11. QED
  BY <1>5, <1>6, <1>7, <1>8, <1>9, <1>10 DEF PInv

LEMMA CommitCreateStep ==
    ASSUME PInv, NEW r \in Requests, CommitCreate(r)
    PROVE  PInv'
<1> DEFINE c == request[r]
<1>1. /\ c.step = "edit" /\ c.kind = "create" /\ Commit(r) /\ documents' = documents \cup {c.doc}
      /\ UNCHANGED created
  BY DEF CommitCreate, Edited, At
<1>2. c.doc \in created /\ DOMAIN c.written \subseteq {c.doc} \X Sections
  BY <1>1, StepKinds DEF Adding
<1>3. documents' \subseteq created /\ DOMAIN order \subseteq documents \X Sections
  BY <1>1, <1>2 DEF PInv, TypeOK
<1>4. Finished(r)
  BY <1>1 DEF Finished
<1>5. QED
  BY <1>1, <1>2, <1>3, <1>4, CommitStep

LEMMA CommitReplaceStep ==
    ASSUME PInv, NEW r \in Requests, CommitReplace(r)
    PROVE  PInv'
<1> DEFINE c == request[r]
<1>1. c.step = "edit" /\ Commit(r) /\ c.doc \in documents /\ UNCHANGED <<documents, created>>
  BY DEF CommitReplace, Edited, At
<1>2. DOMAIN c.written \subseteq {c.doc} \X Sections
  BY <1>1, StepKinds DEF Adding
<1>3. documents' \subseteq created /\ DOMAIN order \subseteq documents' \X Sections
  BY <1>1 DEF PInv, TypeOK
<1>4. Finished(r)
  BY <1>1 DEF Finished
<1>5. QED
  BY <1>1, <1>2, <1>3, <1>4, CommitStep

LEMMA CommitDeleteStep ==
    ASSUME PInv, NEW r \in Requests, CommitDelete(r)
    PROVE  PInv'
<1> DEFINE c == request[r]
<1>1. /\ c.step = "clear" /\ c.extra = {} /\ Commit(r) /\ documents' = documents \ {c.doc}
      /\ UNCHANGED created
  BY DEF CommitDelete, At
<1>2. DOMAIN c.written = {} /\ \A s \in SectionsOf(c.doc) : <<c.doc, s>> \in c.deleted
  BY <1>1, StepKinds DEF Removing
<1>3. documents' \subseteq created /\ DOMAIN order \subseteq documents \X Sections
  BY <1>1 DEF PInv, TypeOK
<1>4. DOMAIN order \ c.deleted \subseteq documents' \X Sections
  BY <1>1, <1>2, <1>3 DEF SectionsOf
<1>5. Finished(r)
  BY <1>1 DEF Finished
<1>6. QED
  BY <1>1, <1>2, <1>3, <1>4, <1>5, CommitStep

LEMMA CommitReorderStep ==
    ASSUME PInv, NEW r \in Requests, CommitReorder(r)
    PROVE  PInv'
<1> DEFINE c == request[r]
<1>1. c.step = "set" /\ c.todo = <<>> /\ Commit(r) /\ UNCHANGED <<documents, created>>
  BY DEF CommitReorder, At
<1>2. DOMAIN c.written \subseteq DOMAIN order
  BY <1>1, StepKinds DEF Moving
<1>3. documents' \subseteq created /\ DOMAIN order \subseteq documents' \X Sections
  BY <1>1 DEF PInv, TypeOK
<1>4. Finished(r)
  BY <1>1 DEF Finished
<1>5. QED
  BY <1>1, <1>2, <1>3, <1>4, CommitStep

-----------------------------------------------------------------------------
(* The theorems.                                                           *)

LEMMA InitPInv == Init => PInv
<1> SUFFICES ASSUME Init PROVE PInv
  OBVIOUS
<1>1. order \in Positions /\ DOMAIN order = {}
  BY NoRowsType DEF Init
<1>2. request \in [Requests -> Calls] /\ \A r \in Requests : request[r] = Idle
  BY IdleIsSound DEF Init
<1>3. documents = {} /\ created = {} /\ raced = {} /\ promised = {}
  BY DEF Init
<1>4. TypeOK
  BY <1>1, <1>2, <1>3, IdleIsSound DEF TypeOK
<1>5. RowsInv /\ RefsInv /\ DocsInv
  BY <1>2, IdleIsSound DEF RowsInv, RefsInv, DocsInv, Held, Deleting
<1>6. TiesWereRaced /\ PairsInv
  BY <1>1, <1>3 DEF TiesWereRaced, PairsInv, Placed
<1>7. QED
  BY <1>2, <1>4, <1>5, <1>6, IdleIsSound DEF PInv

LEMMA NextPInv == PInv /\ [Next]_vars => PInv'
<1> SUFFICES ASSUME PInv, [Next]_vars PROVE PInv'
  OBVIOUS
<1>1. ASSUME NEW r \in Requests, Create(r) PROVE PInv'
  BY <1>1, BeginCreateStep, CommitCreateStep DEF Create
<1>2. ASSUME NEW r \in Requests, Replace(r) PROVE PInv'
  BY <1>2, BeginReplaceStep, ReadCurrentStep, RemoveStep, CommitReplaceStep DEF Replace
<1>3. ASSUME NEW r \in Requests, Add(r) PROVE PInv'
  BY <1>3, ReadTailStep, InsertStep DEF Add
<1>4. ASSUME NEW r \in Requests, Delete(r) PROVE PInv'
  BY <1>4, BeginDeleteStep, LockDocumentStep, ClearStep, CommitDeleteStep DEF Delete
<1>5. ASSUME NEW r \in Requests, Reorder(r) PROVE PInv'
  BY <1>5, BeginReorderStep, SetOrderStep, CommitReorderStep DEF Reorder
<1>6. ASSUME NEW r \in Requests, Update(r) PROVE PInv'
  BY <1>6, BeginUpdateStep, QuitSteps DEF Update
<1>7. ASSUME NEW r \in Requests, Rollback(r) PROVE PInv'
  BY <1>7, QuitSteps
<1>8. CASE UNCHANGED vars
  <2>1. UNCHANGED <<documents, created, order, request, raced, promised>>
    BY <1>8 DEF vars
  <2>2. TypeOK' /\ RowsInv' /\ RefsInv' /\ DocsInv'
    BY <2>1 DEF PInv, TypeOK, RowsInv, RefsInv, DocsInv, Held, Deleting
  <2>3. TiesWereRaced' /\ PairsInv'
    BY <2>1 DEF PInv, TiesWereRaced, PairsInv, Placed
  <2>4. \A r \in Requests : Sound(request[r])'
    BY <2>1, SameTables DEF PInv
  <2>5. QED
    BY <2>2, <2>3, <2>4 DEF PInv
<1>9. QED
  BY <1>1, <1>2, <1>3, <1>4, <1>5, <1>6, <1>7, <1>8 DEF Next

LEMMA Invariance == Spec => []PInv
BY InitPInv, NextPInv, PTL DEF Spec

(* Placements and uncommitted changes belong to documents that are there,  *)
(* and two documents share a position in a section only if one of them was *)
(* added while another request worked on it and no undisturbed reorder has *)
(* come since (aggregate and create of createInitialPlacements and of      *)
(* replacePlacements), for any number of documents, sections and requests. *)
THEOREM Consistency == Spec => []PlacementsAreConsistent
<1>1. PInv => PlacementsAreConsistent
  BY DEF PInv, PlacementsAreConsistent
<1>2. QED
  BY <1>1, Invariance, PTL

(* The documents a reorderPlacements has moved stay in the order of its    *)
(* list until the next reorder or their removal: of two reorders that meet *)
(* one wins as a whole, by the row locks of its updates.                   *)
THEOREM Reorders == Spec => []ReordersDoNotMix
<1>1. PInv => ReordersDoNotMix
  BY DEF PInv, PairsInv, ReordersDoNotMix
<1>2. QED
  BY <1>1, Invariance, PTL

\* What a replacement that commits has done, section by section.
LEMMA ReplacementDone ==
    ASSUME PInv, NEW r \in Requests, CommitReplace(r), NEW s \in Sections \ request[r].since
    PROVE  LET c == request[r]
           IN  /\ <<c.doc, s>> \in DOMAIN order' <=> s \in c.wanted
               /\ s \notin Accessible(c.actor) =>
                     (<<c.doc, s>> \in DOMAIN order <=> <<c.doc, s>> \in DOMAIN order')
<1> DEFINE c == request[r]
<1>1. c.step = "edit" /\ c.kind = "replace" /\ c.extra = {} /\ c.missing = {} /\ order' = Applied(r)
  BY DEF CommitReplace, Edited, At, Commit
<1>2. After(r)
  BY <1>1, AppliedIs
<1>3. c.deleted \cap DOMAIN c.written = {} /\ ReplaceOK(c)
  BY StepKinds
<1>4. /\ s \notin Accessible(c.actor) => (s \in c.wanted <=> There(c, s))
      /\ <<c.doc, s>> \in c.deleted <=> There(c, s) /\ s \notin c.wanted
      /\ <<c.doc, s>> \in DOMAIN c.written <=> ~There(c, s) /\ s \in c.wanted
  BY <1>1, <1>3 DEF ReplaceOK
<1>5. <<c.doc, s>> \in DOMAIN order' <=> s \in c.wanted
  BY <1>2, <1>3, <1>4 DEF After, There
<1>6. QED
  BY <1>4, <1>5 DEF There

(* A restricted administrator changes no placement outside the own groups  *)
(* and writes no document that is placed there (updatePlacements keeps the *)
(* hidden sections, updateDocument checks the placements), except where    *)
(* somebody else changed just that placement after the request began.      *)
THEOREM Scopes == Spec => ScopesAreRespected
<1>1. ASSUME PInv, [Next]_vars
      PROVE  [\A r \in Requests : HiddenKept(r) /\ WrittenInScope(r)]_vars
  <2>1. ASSUME NEW r \in Requests PROVE HiddenKept(r)
    BY <1>1, ReplacementDone DEF HiddenKept
  <2>2. ASSUME NEW r \in Requests PROVE WrittenInScope(r)
    <3>1. SUFFICES ASSUME WriteDocument(r)
                   PROVE  SectionsOf(request[r].doc) \subseteq Accessible(request[r].actor) \cup request[r].since
      BY DEF WrittenInScope
    <3>2. request[r].kind = "update" /\ UpdateOK(request[r])
      BY <1>1, <3>1, StepKinds DEF WriteDocument, At
    <3>3. QED
      BY <3>2 DEF UpdateOK
  <2>3. QED
    BY <2>1, <2>2
<1>2. QED
  BY <1>1, Invariance, PTL DEF Spec, ScopesAreRespected

(* An accepted updatePlacements leaves the document in exactly the         *)
(* sections it was asked for, where nobody else changed its placements     *)
(* meanwhile (the two reads and the loops of replacePlacements).           *)
THEOREM Replacements == Spec => ReplacementIsExact
<1> DEFINE Exact(r) ==
      CommitReplace(r) =>
          \A s \in Sections :
              LET p == <<request[r].doc, s>>
              IN s \notin request[r].since => (p \in DOMAIN order' <=> s \in request[r].wanted)
<1>1. ASSUME PInv PROVE [\A r \in Requests : Exact(r)]_vars
  BY <1>1, ReplacementDone
<1>2. QED
  BY <1>1, Invariance, PTL DEF ReplacementIsExact
=============================================================================
