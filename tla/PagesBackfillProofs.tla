------------------------ MODULE PagesBackfillProofs ------------------------
(***************************************************************************)
(* For any registry, any number of invocations of the backfill and any     *)
(* edits between their statements: the tables stay consistent, an applied  *)
(* plan leaves nothing for the next one, is noticed by every editor of a   *)
(* page it changes, and leaves the sections of editors alone.              *)
(*                                                                         *)
(* What a run has read may be out of date, but not in every way (SeenOK,   *)
(* PlanOK): no identifier and no key is used for anything else later, and  *)
(* a section of the registry stays where it is.  What a run has read that  *)
(* no editor disturbed is out of date only in what other runs have put     *)
(* right themselves (FreshSeen, FreshPlan).                                *)
(***************************************************************************)
EXTENDS PagesBackfill, FiniteSetTheorems, WellFoundedInduction, TLAPS

-----------------------------------------------------------------------------
(* Largest elements, without which Position and NextPosition have no       *)
(* meaning.                                                                *)

\* A set of naturals has a least element, and a bounded one a largest.
LEMMA Least ==
    ASSUME NEW S \in SUBSET Nat, S # {}
    PROVE  \E m \in S : \A k \in S : m <= k
<1> DEFINE R == OpToRel(<, Nat)
<1>1. IsWellFoundedOn(R, Nat)
  BY NatLessThanWellFounded
<1>2. \A k, m \in Nat : k < m => <<k, m>> \in R
  BY DEF OpToRel
<1> HIDE DEF R
<1>3. PICK m \in S : \A k \in S : <<k, m>> \notin R
  BY <1>1, WFMin, Zenon
<1>4. ASSUME NEW k \in S PROVE m <= k
  <2>1. <<k, m>> \notin R
    BY <1>3
  <2>2. ~(k < m)
    BY <1>2, <2>1, Zenon
  <2>3. QED
    BY <2>2
<1>5. QED
  BY <1>4

LEMMA MaxOfBounded ==
    ASSUME NEW S \in SUBSET Nat, S # {}, NEW n \in Nat, \A x \in S : x <= n
    PROVE  Max(S) \in S /\ \A y \in S : y <= Max(S)
<1> DEFINE D == {k \in Nat : k <= n /\ n - k \in S}
<1>1. PICK x \in S : TRUE
  OBVIOUS
<1>2. n - x \in D
  BY <1>1
<1>3. PICK m \in D : \A k \in D : m <= k
  BY <1>2, Least
<1>4. n - m \in S /\ \A y \in S : n - m >= y
  <2>1. SUFFICES ASSUME NEW y \in S PROVE n - m >= y
    BY <1>3
  <2>2. n - y \in D
    OBVIOUS
  <2>3. m <= n - y /\ m \in Nat
    BY <2>2, <1>3
  <2>4. QED
    BY <2>3
<1>5. QED
  BY <1>4 DEF Max

\* A finite set of naturals is bounded: else there would be a smallest one
\* that is not, and without one of its elements it would be smaller still.
LEMMA FiniteIsBounded ==
    ASSUME NEW S \in SUBSET Nat, IsFiniteSet(S)
    PROVE  \E n \in Nat : \A x \in S : x <= n
<1> DEFINE Bound(A) == \E n \in Nat : \A x \in A : x <= n
           Sizes == {k \in Nat : \E A \in SUBSET Nat : IsFiniteSet(A) /\ Cardinality(A) = k /\ ~Bound(A)}
<1>1. SUFFICES ASSUME ~Bound(S) PROVE FALSE
  OBVIOUS
<1>2. Cardinality(S) \in Sizes
  BY <1>1, FS_CardinalityType
<1>3. PICK m \in Sizes : \A k \in Sizes : m <= k
  <2> HIDE DEF Sizes
  <2>1. Sizes \in SUBSET Nat
    BY DEF Sizes
  <2>2. QED
    BY <1>2, <2>1, Least
<1>4. PICK A \in SUBSET Nat : IsFiniteSet(A) /\ Cardinality(A) = m /\ ~Bound(A)
  OBVIOUS
<1>5. PICK x \in A : TRUE
  BY <1>4
<1>6. IsFiniteSet(A \ {x}) /\ Cardinality(A \ {x}) = m - 1 /\ m - 1 \in Nat
  <2>1. IsFiniteSet(A \ {x}) /\ Cardinality(A \ {x}) = Cardinality(A) - 1
    BY <1>4, <1>5, FS_RemoveElement
  <2>2. QED
    BY <1>4, <2>1, FS_CardinalityType
<1>7. Bound(A \ {x})
  <2>1. m - 1 \notin Sizes
    BY <1>3, <1>6
  <2>2. QED
    BY <1>6, <2>1
<1>8. PICK n \in Nat : \A y \in A \ {x} : y <= n
  BY <1>7
<1>9. n + x \in Nat /\ \A y \in A : y <= n + x
  BY <1>5, <1>8
<1>10. QED
  BY <1>4, <1>9

-----------------------------------------------------------------------------
(* The inductive invariant.                                                *)

\* What a plan leaves on page p whatever it finds, and what it takes from there.
Stationary(p) == Desired(p) \cap (SystemKeys \cup {Contacts})
Removable(p, k) == (p \in NoContacts /\ k = Contacts) \/ (p = Owner[Obsolete] /\ k = Obsolete)

HasKey(i, k) == \E d \in definitions : d.id = i /\ d.key = k
Placed(p, k) == \E s \in placements : s.page = p /\ HasKey(s.definition, k)
Pair(s) == [page |-> s.page, definition |-> s.definition]
Wrong(d) == d.key \in WantedKeys /\ d.type # TypeOf(d.key)

\* The rows: a section of a page is on no other one, and what is on a page has
\* the type that its key tells.
RowsInv ==
    /\ \A d \in definitions : d.id <= lastId
    /\ \A d \in definitions : d.key \notin CustomKeys \cup {None} => d.type = TypeOf(d.key)
    /\ \A s \in placements, d \in definitions : d.id = s.definition =>
          /\ d.key \in PageKeys \cup {Obsolete} => s.page = Owner[d.key]
          /\ ~Wrong(d)
    /\ \A s, t \in placements, d \in definitions :
          d.id = s.definition /\ d.id = t.definition /\ d.key = None /\ d.type = "PAGE_CUSTOM_HTML"
              => s.page = t.page

\* What a run has read, and a plan, say of the tables at any later time.
SeenOK(b) ==
    /\ seenLayouts[b] \subseteq layouts
    /\ \A s \in seenPlacements[b] :
          /\ s.page \in seenLayouts[b] /\ s.definition <= lastId
          /\ \A d \in definitions : d.id = s.definition => d.key = s.key
          /\ s.key \in Stationary(s.page) => Placed(s.page, s.key)
    /\ \A s, t \in seenPlacements[b] : Pair(s) = Pair(t) => s = t

Adds(b, p, k) == \E a \in plan[b].add : a.page = p /\ a.key = k

PlanOK(b) == LET P == plan[b] IN
    /\ P.layouts \cup layouts = Pages
    /\ stray \/ (\E d \in definitions : Wrong(d)) => P.blocked
    /\ \A a \in P.add : a.key \in Desired(a.page) /\ a.page \in P.bump
    /\ \A a, c \in P.add : a.page = c.page /\ a.key = c.key => a = c
    /\ \A r \in P.remove : r.page \in P.bump /\ r.definition <= lastId
          /\ \A d \in definitions : d.id = r.definition => Removable(r.page, d.key)
    /\ \A i \in P.update : i <= lastId /\ \A d \in definitions : d.id = i =>
          d.key \in WantedKeys /\ (d.key \in PageKeys => Owner[d.key] \in P.bump)
    /\ \A i \in P.drop : i <= lastId /\ \A d \in definitions : d.id = i => d.key = Obsolete
    /\ \A p \in Pages : \A k \in Stationary(p) : Adds(b, p, k) \/ Placed(p, k)

\* And while no editor changes anything.
FreshSeen(b) ==
    /\ \A s \in seenPlacements[b] : (\E t \in placements : Pair(t) = Pair(s)) \/ Removable(s.page, s.key)
    /\ seenLayouts[b] = layouts => \A s \in placements, d \in definitions :
          d.id = s.definition /\ Removable(s.page, d.key) => \E t \in seenPlacements[b] : Pair(t) = Pair(s)

\* Plan b leaves nothing to be done.
Complete(b) == LET P == plan[b] IN
    /\ \A k \in WantedKeys : k \in P.create \/ \E d \in definitions : d.key = k
    /\ \A d \in definitions : d.key \in WantedKeys /\ d.changed => d.id \in P.update
    /\ \A p \in Pages : \A k \in Desired(p) : Adds(b, p, k) \/ Placed(p, k)
    /\ P.layouts \cap layouts = {} => \A s \in placements, d \in definitions :
          d.id = s.definition /\ Removable(s.page, d.key) => Pair(s) \in P.remove
    /\ \A d \in definitions : d.key = Obsolete => d.id \in P.drop

FreshPlan(b) ==
    /\ Complete(b)
    /\ \A d \in definitions : d.id \in plan[b].update /\ d.key \notin PageKeys =>
          \A p \in Pages : d.key \in Desired(p) => p \in plan[b].bump

RunOK(b) ==
    /\ SeenOK(b)
    /\ pc[b] = "planned" => PlanOK(b)
    /\ b \in undisturbed /\ pc[b] = "placementsRead" => FreshSeen(b)
    /\ b \in undisturbed /\ pc[b] = "planned" => FreshPlan(b)
RunsInv == \A b \in Runs : RunOK(b)

\* There is nothing to be done.
Whole ==
    /\ ~stray /\ layouts = Pages
    /\ \A k \in WantedKeys : \E d \in definitions : d.key = k
    /\ \A d \in definitions : d.key # Obsolete /\ ~Wrong(d) /\ (d.key \in WantedKeys => ~d.changed)
    /\ \A p \in Pages : \A k \in Desired(p) : Placed(p, k)
    /\ \A s \in placements, d \in definitions : d.id = s.definition => ~Removable(s.page, d.key)

StayInv == applied => \A p \in Pages : \A k \in Stationary(p) : Placed(p, k)

BInv == TypeOK /\ RowsInv /\ RunsInv /\ (converged => Whole) /\ StayInv

-----------------------------------------------------------------------------
(* Types, keys and rows.                                                   *)

LEMMA KeysAre ==
    /\ Contacts \notin PageKeys /\ Contacts \notin GlobalKeys /\ PageKeys \cap GlobalKeys = {}
    /\ SystemKeys \cap CustomKeys = {} /\ Obsolete \notin WantedKeys /\ None \notin Keys
    /\ \A k \in PageKeys \cup {Obsolete} : Owner[k] \in Pages
<1>1. Contacts \notin PageKeys /\ Contacts \notin GlobalKeys /\ PageKeys \cap GlobalKeys = {}
  <2>1. \A k \in WantedKeys : Rank[k] \in Nat
    BY RankAssumption
  <2>2. \A j \in PageKeys, k \in GlobalKeys : Rank[j] < Rank[Contacts] /\ Rank[Contacts] < Rank[k]
    BY RankAssumption
  <2>3. PageKeys \subseteq WantedKeys /\ GlobalKeys \subseteq WantedKeys /\ Contacts \in WantedKeys
    BY DEF WantedKeys
  <2>4. QED
    BY <2>1, <2>2, <2>3, RankAssumption
<1>2. QED
  BY <1>1, RegistryAssumption DEF RegistryIsValid

LEMMA TypeOfIs ==
    /\ \A k \in SystemKeys \cup {Obsolete} : TypeOf(k) = "PAGE_SYSTEM"
    /\ TypeOf(Contacts) = "GLOBAL_SYSTEM"
    /\ \A k \in CustomKeys : TypeOf(k) = "PAGE_CUSTOM_HTML"
    /\ \A k \in GlobalKeys : TypeOf(k) = "GLOBAL_CUSTOM_HTML"
    /\ \A k \in Keys : TypeOf(k) \in Types
<1>1. \A k \in SystemKeys \cup {Obsolete} : TypeOf(k) = "PAGE_SYSTEM"
  BY KeysAre DEF TypeOf, PageKeys, WantedKeys
<1>2. TypeOf(Contacts) = "GLOBAL_SYSTEM"
  BY KeysAre DEF TypeOf, PageKeys, WantedKeys
<1>3. \A k \in CustomKeys : TypeOf(k) = "PAGE_CUSTOM_HTML"
  BY KeysAre DEF TypeOf, PageKeys, WantedKeys
<1>4. \A k \in GlobalKeys : TypeOf(k) = "GLOBAL_CUSTOM_HTML"
  BY KeysAre DEF TypeOf, PageKeys, WantedKeys
<1>5. QED
  BY <1>1, <1>2, <1>3, <1>4 DEF Types, Keys, WantedKeys, PageKeys

\* `Cleared` is a row as a plan rewrites it, `Dirty` one as an editor does.
Cleared(d) == [d EXCEPT !.changed = FALSE]
Dirty(d) == [d EXCEPT !.changed = TRUE]

LEMMA RowFields ==
    ASSUME NEW d \in Definitions
    PROVE  /\ d.id \in 1..MaxId /\ d.key \in Keys \cup {None} /\ d.type \in Types /\ d.changed \in BOOLEAN
           /\ d = [id |-> d.id, key |-> d.key, type |-> d.type, changed |-> d.changed]
BY DEF Definitions

LEMMA ClearedIs ==
    ASSUME NEW d \in Definitions
    PROVE  /\ Cleared(d) \in Definitions /\ Cleared(d).id = d.id /\ Cleared(d).key = d.key
           /\ Cleared(d).type = d.type /\ ~Cleared(d).changed
BY DEF Definitions, Cleared

LEMMA DirtyIs ==
    ASSUME NEW d \in Definitions
    PROVE  /\ Dirty(d) \in Definitions /\ Dirty(d).id = d.id /\ Dirty(d).key = d.key
           /\ Dirty(d).type = d.type /\ Dirty(d).changed
BY DEF Definitions, Dirty

LEMMA KeyOfIs ==
    ASSUME TypeOK, NEW i, NEW k
    PROVE  /\ \A d \in definitions : KeyOf(d.id) = d.key
           /\ (\E d \in definitions : d.id = i) => (HasKey(i, k) <=> KeyOf(i) = k)
BY DEF TypeOK, KeyOf, HasKey

\* Sets of rows in which a page has a definition once are finite.
LEMMA PairsFinite ==
    ASSUME NEW S, \A s \in S : s.page \in Pages /\ s.definition \in 1..MaxId,
           \A s, t \in S : s.page = t.page /\ s.definition = t.definition => s = t
    PROVE  IsFiniteSet(S)
<1> DEFINE T == Pages \X (1..MaxId)
           f == [s \in S |-> <<s.page, s.definition>>]
<1>1. IsFiniteSet(T)
  <2>1. IsFiniteSet(Pages) /\ IsFiniteSet(1..MaxId)
    BY RegistryAssumption, BoundsAssumption, FS_Interval
  <2>2. QED
    BY <2>1, FS_Product
<1>2. f \in Injection(S, T)
  BY DEF Injection, IsInjective
<1>3. QED
  BY <1>1, <1>2, FS_Injection

LEMMA OrdersHaveMax ==
    ASSUME NEW S, IsFiniteSet(S), \A s \in S : s.order \in Nat
    PROVE  LET O == {s.order : s \in S} IN O # {} => Max(O) \in Nat /\ \A o \in O : o <= Max(O)
<1> DEFINE O == {s.order : s \in S}
           f == [s \in S |-> s.order]
<1> SUFFICES ASSUME O # {} PROVE Max(O) \in Nat /\ \A o \in O : o <= Max(O)
  OBVIOUS
<1>1. f \in Surjection(S, O)
  BY DEF Surjection
<1>2. IsFiniteSet(O) /\ O \in SUBSET Nat
  BY <1>1, FS_Surjection
<1> HIDE DEF O
<1>3. PICK n \in Nat : \A x \in O : x <= n
  BY <1>2, FiniteIsBounded
<1>4. QED
  BY <1>2, <1>3, MaxOfBounded
LEMMA KeysFinite == ASSUME NEW K, K \subseteq WantedKeys PROVE IsFiniteSet(K) /\ Cardinality(K) \in Nat
<1>1. K \in SUBSET Keys
  BY DEF Keys
<1>2. QED
  BY <1>1, RegistryAssumption, FS_Subset, FS_CardinalityType

LEMMA PositionType ==
    ASSUME NEW k \in WantedKeys, NEW missing, missing \subseteq WantedKeys,
           NEW S, IsFiniteSet(S), \A s \in S : s.order \in Nat
    PROVE  Position(k, missing, {s.order : s \in S}) \in Nat
<1> DEFINE O == {s.order : s \in S}
           n == Cardinality({j \in missing : Rank[j] < Rank[k]})
           m == Cardinality({j \in missing \ SystemKeys : Rank[j] < Rank[k]})
<1>1. O # {} => Max(O) \in Nat
  BY OrdersHaveMax
<1>2. n \in Nat /\ m \in Nat
  BY KeysFinite
<1>3. k \in SystemKeys => Index[k] \in Nat
  BY RegistryAssumption
<1> HIDE DEF O, n, m
<1>4. (CASE O = {} -> n [] k \in SystemKeys -> Index[k] [] OTHER -> Max(O) + 1 + m) \in Nat
  BY <1>1, <1>2, <1>3
<1>5. QED
  BY <1>4 DEF Position, O, n, m

LEMMA DesiredAre == ASSUME NEW p PROVE Desired(p) \subseteq WantedKeys
BY DEF Desired, WantedKeys, PageKeys

\* The identifiers that a plan gives to what it creates.
LEMMA IdForIs ==
    ASSUME lastId \in Nat, NEW P, P.create \subseteq WantedKeys,
           lastId + Cardinality(P.create) <= MaxId
    PROVE  /\ \A k \in P.create : IdFor(P, k) \in Nat /\ lastId < IdFor(P, k) /\ IdFor(P, k) <= lastId + Cardinality(P.create)
           /\ \A j, k \in P.create : IdFor(P, j) = IdFor(P, k) => j = k
           /\ Cardinality(P.create) \in Nat
<1> DEFINE C == P.create
           Upto(k) == {j \in C : Rank[j] <= Rank[k]}
<1>1. \A k \in C : IsFiniteSet(Upto(k)) /\ Cardinality(Upto(k)) \in Nat
  <2>1. \A k \in C : Upto(k) \subseteq WantedKeys
    OBVIOUS
  <2> HIDE DEF Upto
  <2>2. QED
    BY <2>1, KeysFinite
<1>2. IsFiniteSet(C) /\ Cardinality(C) \in Nat
  BY KeysFinite
<1>3. \A k \in C : Rank[k] \in Nat
  BY RankAssumption
<1>4. ASSUME NEW k \in C PROVE Cardinality(Upto(k)) # 0 /\ Cardinality(Upto(k)) <= Cardinality(C)
  <2>1. k \in Upto(k) /\ Upto(k) \in SUBSET C
    BY <1>3
  <2>2. Cardinality(Upto(k)) <= Cardinality(C)
    <3> HIDE DEF Upto
    <3>1. QED
      BY <2>1, <1>2, FS_Subset
  <2>3. Cardinality(Upto(k)) # 0
    <3> HIDE DEF Upto
    <3>1. QED
      BY <2>1, <1>1, FS_EmptySet
  <2>4. QED
    BY <2>2, <2>3
<1>5. ASSUME NEW j \in C, NEW k \in C, Rank[j] < Rank[k] PROVE Cardinality(Upto(j)) # Cardinality(Upto(k))
  <2>1. Upto(j) \in SUBSET Upto(k) /\ k \in Upto(k) /\ k \notin Upto(j)
    BY <1>3, <1>5
  <2> HIDE DEF Upto
  <2>2. QED
    BY <2>1, <1>1, FS_Subset
<1>6. ASSUME NEW j \in C, NEW k \in C, Cardinality(Upto(j)) = Cardinality(Upto(k)) PROVE j = k
  <2>1. ~(Rank[j] < Rank[k]) /\ ~(Rank[k] < Rank[j])
    BY <1>5, <1>6
  <2>2. Rank[j] = Rank[k]
    BY <2>1, <1>3
  <2>3. QED
    BY <2>2, RankAssumption
<1>7. \A k \in C : IdFor(P, k) = lastId + Cardinality(Upto(k))
  BY DEF IdFor
<1> HIDE DEF Upto
<1>8. ASSUME NEW k \in C
      PROVE  IdFor(P, k) \in Nat /\ lastId < IdFor(P, k) /\ IdFor(P, k) <= lastId + Cardinality(P.create)
  <2>1. Cardinality(Upto(k)) \in Nat /\ Cardinality(Upto(k)) # 0 /\ Cardinality(Upto(k)) <= Cardinality(C)
    BY <1>1, <1>4
  <2>2. QED
    BY <2>1, <1>2, <1>7
<1>9. ASSUME NEW j \in C, NEW k \in C, IdFor(P, j) = IdFor(P, k) PROVE j = k
  <2>1. Cardinality(Upto(j)) = Cardinality(Upto(k))
    BY <1>1, <1>7, <1>9
  <2>2. QED
    BY <2>1, <1>6
<1>10. QED
  BY <1>2, <1>8, <1>9

-----------------------------------------------------------------------------
(* The initial state.                                                      *)

LEMMA RowIs ==
    ASSUME NEW k \in Keys, NEW i \in 1..MaxId
    PROVE  /\ Row(i, k) \in Definitions /\ Row(i, k).id = i /\ Row(i, k).key = k
           /\ Row(i, k).type = TypeOf(k) /\ ~Row(i, k).changed
BY TypeOfIs DEF Row, Definitions

LEMMA NoPlanIs == NoPlan \in Plans
BY DEF NoPlan, Plans

LEMMA InitBInv == Init => BInv
<1> SUFFICES ASSUME Init PROVE BInv
  OBVIOUS
<1>1. /\ layouts \subseteq Pages /\ stray \in BOOLEAN /\ revision = [p \in Pages |-> 0]
      /\ pc = [b \in Runs |-> "idle"] /\ seenLayouts = [b \in Runs |-> {}]
      /\ seenPlacements = [b \in Runs |-> {}] /\ plan = [b \in Runs |-> NoPlan]
      /\ undisturbed = {} /\ applied = FALSE /\ converged = FALSE
  BY DEF Init
<1>2. RunsInv /\ (converged => Whole) /\ StayInv
  BY <1>1 DEF RunsInv, RunOK, SeenOK, StayInv
<1>3. SUFFICES /\ definitions \subseteq Definitions /\ lastId \in 0..MaxId
               /\ \A d, e \in definitions : d.id = e.id \/ (d.key = e.key /\ d.key # None) => d = e
               /\ placements \subseteq Placements
               /\ \A s, t \in placements : s.page = t.page /\ s.definition = t.definition => s = t
               /\ \A s \in placements : s.page \in layouts /\ \E d \in definitions : d.id = s.definition
               /\ RowsInv
  BY <1>1, <1>2, NoPlanIs DEF BInv, TypeOK
<1>4. 1 \in 1..MaxId /\ 2 \in 1..MaxId /\ 3 \in 1..MaxId
  BY BoundsAssumption
<1>5. CASE Seeded
  <2>1. placements = {}
    BY <1>5 DEF Seeded
  <2>2. CASE definitions = {} /\ lastId = 0
    BY <2>1, <2>2, BoundsAssumption DEF RowsInv
  <2>3. CASE /\ \E k \in CustomKeys : definitions =
                    {[id |-> 1, key |-> k, type |-> "GLOBAL_CUSTOM_HTML", changed |-> TRUE]}
             /\ lastId = 1
    <3>1. PICK k \in CustomKeys : definitions =
                 {[id |-> 1, key |-> k, type |-> "GLOBAL_CUSTOM_HTML", changed |-> TRUE]}
      BY <2>3
    <3>2. k \in Keys
      BY DEF Keys, WantedKeys, PageKeys
    <3>3. definitions \subseteq Definitions
      BY <3>1, <3>2, <1>4 DEF Definitions, Types
    <3>4. QED
      BY <2>1, <2>3, <3>1, <3>3, <1>4, BoundsAssumption DEF RowsInv
  <2>4. QED
    BY <1>5, <2>2, <2>3 DEF Seeded
<1>6. ASSUME NEW k \in SystemKeys, Owner[k] = Owner[Obsolete], Inherited(k)
      PROVE  /\ definitions \subseteq Definitions /\ lastId \in 0..MaxId
             /\ \A d, e \in definitions : d.id = e.id \/ (d.key = e.key /\ d.key # None) => d = e
             /\ placements \subseteq Placements
             /\ \A s, t \in placements : s.page = t.page /\ s.definition = t.definition => s = t
             /\ \A s \in placements : s.page \in layouts /\ \E d \in definitions : d.id = s.definition
             /\ RowsInv
  <2>1. k \in Keys /\ Obsolete \in Keys /\ Contacts \in Keys /\ k # Obsolete /\ k # Contacts /\ Contacts # Obsolete
        /\ k # None /\ Obsolete # None /\ Contacts # None /\ k \in PageKeys
        /\ Owner[k] \in Pages /\ Contacts \notin PageKeys
    BY KeysAre DEF Keys, WantedKeys, PageKeys
  <2> DEFINE a == Row(1, k)
             c == Row(2, Obsolete)
             e == Row(3, Contacts)
  <2>2. /\ a \in Definitions /\ a.id = 1 /\ a.key = k /\ a.type = TypeOf(k)
        /\ c \in Definitions /\ c.id = 2 /\ c.key = Obsolete /\ c.type = TypeOf(Obsolete)
        /\ e \in Definitions /\ e.id = 3 /\ e.key = Contacts /\ e.type = TypeOf(Contacts)
    <3>1. \A i \in 1..MaxId, q \in Keys :
             Row(i, q) \in Definitions /\ Row(i, q).id = i /\ Row(i, q).key = q /\ Row(i, q).type = TypeOf(q)
      BY RowIs, Zenon
    <3>2. a \in Definitions /\ a.id = 1 /\ a.key = k /\ a.type = TypeOf(k)
      BY <2>1, <1>4, <3>1, Zenon
    <3>3. c \in Definitions /\ c.id = 2 /\ c.key = Obsolete /\ c.type = TypeOf(Obsolete)
      BY <2>1, <1>4, <3>1, Zenon
    <3>4. e \in Definitions /\ e.id = 3 /\ e.key = Contacts /\ e.type = TypeOf(Contacts)
      BY <2>1, <1>4, <3>1, Zenon
    <3>5. QED
      BY <3>2, <3>3, <3>4
  <2>3. definitions = {a, c, e} /\ lastId = 3 /\ layouts = Pages
    BY <1>6 DEF Inherited
  <2> HIDE DEF a, c, e
  <2>4. placements = {[page |-> Owner[k], definition |-> 1, order |-> 0],
                      [page |-> Owner[Obsolete], definition |-> 2, order |-> 1]}
            \cup {[page |-> p, definition |-> 3, order |-> 2] : p \in Pages}
    BY <1>6 DEF Inherited
  <2>5. placements \subseteq Placements
    BY <2>1, <2>4, <1>4, <1>6 DEF Placements
  <2>6. \A s \in placements : \/ s.definition = 1 /\ s.page = Owner[k] /\ s.order = 0
                              \/ s.definition = 2 /\ s.page = Owner[Obsolete] /\ s.order = 1
                              \/ s.definition = 3 /\ s.order = 2
    BY <2>4
  <2>7. \A s, t \in placements : s.page = t.page /\ s.definition = t.definition => s = t
    BY <2>4
  <2>8. \A s \in placements : s.page \in layouts /\ \E d \in definitions : d.id = s.definition
    BY <2>2, <2>3, <2>5, <2>6 DEF Placements
  <2>9. RowsInv
    BY <2>1, <2>2, <2>3, <2>6 DEF RowsInv, Wrong
  <2>10. definitions \subseteq Definitions /\ lastId \in 0..MaxId
         /\ \A d, f \in definitions : d.id = f.id \/ (d.key = f.key /\ d.key # None) => d = f
    BY <2>1, <2>2, <2>3, <1>4, BoundsAssumption
  <2>11. QED
    BY <2>5, <2>7, <2>8, <2>9, <2>10
<1>7. QED
  BY <1>5, <1>6 DEF Init

-----------------------------------------------------------------------------
(* What no step undoes.                                                    *)

\* No identifier is given again, and the sections of the registry stay.
Stable ==
    /\ lastId <= lastId' /\ layouts \subseteq layouts' /\ layouts' \subseteq Pages /\ stray' = stray
    /\ \A d \in definitions' : d.id <= lastId =>
          \E e \in definitions : e.id = d.id /\ e.key = d.key /\ e.type = d.type
    /\ \A d \in definitions' : Wrong(d) => \E e \in definitions : Wrong(e)
    /\ \A p \in Pages : \A k \in Stationary(p) : Placed(p, k) => Placed(p, k)'

LEMMA SeenStays ==
    ASSUME TypeOK, TypeOK', NEW b \in Runs, SeenOK(b), Stable,
           UNCHANGED <<seenLayouts[b], seenPlacements[b]>>
    PROVE  SeenOK(b)'
<1>1. ASSUME NEW s \in seenPlacements[b]
      PROVE  /\ s.page \in seenLayouts[b] /\ s.definition <= lastId'
             /\ \A d \in definitions' : d.id = s.definition => d.key = s.key
             /\ s.key \in Stationary(s.page) => Placed(s.page, s.key)'
  <2>1. s.page \in Pages /\ s.definition \in Nat /\ s.definition <= lastId /\ lastId \in Nat /\ lastId' \in Nat
    BY DEF TypeOK, SeenOK, Seen
  <2>2. \A d \in definitions' : d.id = s.definition => d.key = s.key
    BY <2>1 DEF Stable, SeenOK
  <2>3. s.key \in Stationary(s.page) => Placed(s.page, s.key)'
    BY <2>1 DEF Stable, SeenOK
  <2>4. QED
    BY <2>1, <2>2, <2>3 DEF SeenOK, Stable
<1>2. QED
  BY <1>1 DEF SeenOK, Stable

LEMMA PlanStays ==
    ASSUME TypeOK, TypeOK', NEW b \in Runs, PlanOK(b), Stable, UNCHANGED plan[b]
    PROVE  PlanOK(b)'
<1> DEFINE P == plan[b]
<1>1. P \in Plans /\ lastId \in Nat /\ lastId' \in Nat /\ lastId <= lastId'
  BY DEF TypeOK, Stable
<1>2. P.layouts \cup layouts' = Pages /\ (stray' \/ (\E d \in definitions' : Wrong(d)) => P.blocked)
  BY DEF PlanOK, Stable
<1>3. ASSUME NEW r \in P.remove
      PROVE  r.page \in P.bump /\ r.definition <= lastId' /\ \A d \in definitions' : d.id = r.definition => Removable(r.page, d.key)
  <2>1. r.definition \in Nat /\ r.definition <= lastId
    BY <1>1 DEF Plans, PlanOK
  <2>2. QED
    BY <1>1, <2>1 DEF PlanOK, Stable
<1>4. ASSUME NEW i \in P.update
      PROVE  i <= lastId' /\ \A d \in definitions' : d.id = i =>
                d.key \in WantedKeys /\ (d.key \in PageKeys => Owner[d.key] \in P.bump)
  <2>1. i \in Nat /\ i <= lastId
    BY <1>1 DEF Plans, PlanOK
  <2>2. QED
    BY <1>1, <2>1 DEF PlanOK, Stable
<1>5. ASSUME NEW i \in P.drop PROVE i <= lastId' /\ \A d \in definitions' : d.id = i => d.key = Obsolete
  <2>1. i \in Nat /\ i <= lastId
    BY <1>1 DEF Plans, PlanOK
  <2>2. QED
    BY <1>1, <2>1 DEF PlanOK, Stable
<1>6. \A p \in Pages : \A k \in Stationary(p) : Adds(b, p, k)' \/ Placed(p, k)'
  BY DEF PlanOK, Stable, Adds
<1>7. QED
  BY <1>2, <1>3, <1>4, <1>5, <1>6 DEF PlanOK

LEMMA SameTables ==
    ASSUME TypeOK, UNCHANGED tables
    PROVE  /\ Stable /\ (RowsInv => RowsInv') /\ (Whole => Whole')
           /\ \A b \in Runs : FreshSeen(b) /\ UNCHANGED <<seenLayouts[b], seenPlacements[b]>> => FreshSeen(b)'
           /\ \A b \in Runs : FreshPlan(b) /\ UNCHANGED plan[b] => FreshPlan(b)'
<1>1. UNCHANGED <<layouts, stray, revision, definitions, lastId, placements>>
  BY DEF tables
<1>2. Stable
  BY <1>1 DEF TypeOK, Stable, Placed, HasKey
<1>3. (RowsInv => RowsInv') /\ (Whole => Whole')
  BY <1>1 DEF RowsInv, Whole, Placed, HasKey
<1>4. \A b \in Runs : FreshSeen(b) /\ UNCHANGED <<seenLayouts[b], seenPlacements[b]>> => FreshSeen(b)'
  BY <1>1 DEF FreshSeen
<1>5. \A b \in Runs : FreshPlan(b) /\ UNCHANGED plan[b] => FreshPlan(b)'
  BY <1>1 DEF FreshPlan, Complete, Adds, Placed, HasKey
<1>6. QED
  BY <1>2, <1>3, <1>4, <1>5

\* A run of which nothing changes while the tables stay.
LEMMA IdleRun ==
    ASSUME TypeOK, TypeOK', UNCHANGED tables, NEW b \in Runs, RunOK(b),
           UNCHANGED <<pc[b], seenLayouts[b], seenPlacements[b], plan[b]>>, b \in undisturbed' => b \in undisturbed
    PROVE  RunOK(b)'
<1>1. Stable
  BY SameTables
<1>2. SeenOK(b)'
  BY <1>1, SeenStays DEF RunOK
<1>3. pc'[b] = "planned" => PlanOK(b)'
  BY <1>1, PlanStays DEF RunOK
<1>4. QED
  BY <1>2, <1>3, SameTables DEF RunOK

-----------------------------------------------------------------------------
(* analyze.                                                                *)

LEMMA ReadLayoutsStep == ASSUME BInv, NEW b \in Runs, ReadLayouts(b) PROVE BInv'
<1> USE DEF BInv
<1>1. /\ UNCHANGED <<tables, seenPlacements, plan, applied, converged>>
      /\ pc[b] = "idle" /\ pc' = [pc EXCEPT ![b] = "layoutsRead"]
      /\ seenLayouts' = [seenLayouts EXCEPT ![b] = layouts] /\ undisturbed' = undisturbed \cup {b}
  BY DEF ReadLayouts, Advance
<1>2. TypeOK'
  BY <1>1 DEF TypeOK, tables
<1>3. RowsInv' /\ (converged' => Whole')
  BY <1>1, SameTables
<1>4. StayInv'
  BY <1>1 DEF StayInv, tables, Placed, HasKey
<1>5. ASSUME NEW c \in Runs, c # b PROVE RunOK(c)'
  <2>1. UNCHANGED <<pc[c], seenLayouts[c], seenPlacements[c], plan[c]>>
    BY <1>1, <1>5 DEF TypeOK
  <2>2. QED
    BY <2>1, <1>1, <1>2, <1>5, IdleRun DEF RunsInv
<1>6. RunOK(b)'
  <2>1. pc'[b] = "layoutsRead" /\ seenLayouts'[b] = layouts /\ layouts' = layouts
        /\ seenPlacements'[b] = seenPlacements[b]
    BY <1>1 DEF TypeOK, tables
  <2>2. SeenOK(b)
    BY DEF RunsInv, RunOK
  <2>3. SeenOK(b)'
    BY <1>1, <2>1, <2>2 DEF SeenOK, tables, Placed, HasKey
  <2>4. QED
    BY <2>1, <2>3 DEF RunOK
<1>7. QED
  BY <1>2, <1>3, <1>4, <1>5, <1>6 DEF RunsInv

LEMMA ReadPlacementsStep == ASSUME BInv, NEW b \in Runs, ReadPlacements(b) PROVE BInv'
<1> USE DEF BInv
<1> DEFINE See(s) == [page |-> s.page, definition |-> s.definition, order |-> s.order, key |-> KeyOf(s.definition)]
           T == {t \in placements : t.page \in seenLayouts[b]}
<1>1. /\ UNCHANGED <<tables, seenLayouts, plan, history>>
      /\ pc[b] = "layoutsRead" /\ pc' = [pc EXCEPT ![b] = "placementsRead"]
      /\ seenPlacements' = [seenPlacements EXCEPT ![b] = {See(s) : s \in T}]
  BY DEF ReadPlacements, Advance
<1>2. ASSUME NEW s \in placements
      PROVE  /\ See(s) \in Seen /\ See(s).page = s.page /\ See(s).definition = s.definition
             /\ See(s).order = s.order /\ See(s).key = KeyOf(s.definition)
             /\ \A d \in definitions : d.id = s.definition => d.key = See(s).key
             /\ HasKey(s.definition, See(s).key) /\ s.page \in layouts /\ s.page \in Pages
             /\ s.definition \in Nat /\ s.definition <= lastId
  <2>1. s \in Placements /\ s.page \in layouts /\ s.page \in Pages
    BY DEF TypeOK, Placements
  <2>2. PICK d \in definitions : d.id = s.definition
    BY DEF TypeOK
  <2>3. KeyOf(s.definition) = d.key /\ d \in Definitions /\ d.id <= lastId
    BY <2>2, KeyOfIs DEF TypeOK, RowsInv
  <2>4. KeyOf(s.definition) \in Keys \cup {None}
    BY <2>3, RowFields
  <2>5. \A e \in definitions : e.id = s.definition => e.key = KeyOf(s.definition)
    BY KeyOfIs
  <2>6. See(s) \in Seen
    BY <2>1, <2>4 DEF Placements, Seen
  <2>7. QED
    BY <2>1, <2>2, <2>3, <2>5, <2>6 DEF HasKey, Placements
<1> HIDE DEF See
<1>3. TypeOK'
  <2>1. \A s \in T : See(s) \in Seen
    BY <1>2
  <2>2. {See(s) : s \in T} \in SUBSET Seen
    BY <2>1
  <2>3. QED
    BY <1>1, <2>2 DEF TypeOK, tables, history
<1>4. RowsInv' /\ (converged' => Whole')
  BY <1>1, SameTables DEF history
<1>5. StayInv'
  BY <1>1 DEF StayInv, tables, history, Placed, HasKey
<1>6. ASSUME NEW c \in Runs, c # b PROVE RunOK(c)'
  <2>1. UNCHANGED <<pc[c], seenLayouts[c], seenPlacements[c], plan[c]>>
    BY <1>1, <1>6 DEF TypeOK
  <2>2. QED
    BY <2>1, <1>1, <1>3, <1>6, IdleRun DEF RunsInv, history
<1>7. RunOK(b)'
  <2>1. /\ pc'[b] = "placementsRead" /\ seenLayouts'[b] = seenLayouts[b] /\ layouts' = layouts /\ lastId' = lastId
        /\ placements' = placements /\ definitions' = definitions
        /\ seenPlacements'[b] = {See(s) : s \in T}
    BY <1>1 DEF TypeOK, tables
  <2>2. seenLayouts[b] \subseteq layouts
    BY DEF RunsInv, RunOK, SeenOK
  <2>3. ASSUME NEW s \in T
        PROVE  /\ See(s).page \in seenLayouts[b] /\ See(s).definition <= lastId
               /\ \A d \in definitions : d.id = See(s).definition => d.key = See(s).key
               /\ Placed(See(s).page, See(s).key)
    BY <1>2 DEF Placed
  <2>4. ASSUME NEW s \in T, NEW t \in T, Pair(See(s)) = Pair(See(t)) PROVE s = t
    <3>1. See(s).page = See(t).page /\ See(s).definition = See(t).definition
      BY <2>4 DEF Pair
    <3>2. s.page = t.page /\ s.definition = t.definition
      BY <3>1, <1>2
    <3>3. QED
      BY <3>2 DEF TypeOK
  <2>5. SeenOK(b)'
    <3>1. \A s \in seenPlacements'[b] :
             /\ s.page \in seenLayouts'[b] /\ s.definition <= lastId'
             /\ \A d \in definitions' : d.id = s.definition => d.key = s.key
             /\ Placed(s.page, s.key)'
      BY <2>1, <2>3 DEF Placed, HasKey
    <3>2. \A s, t \in seenPlacements'[b] : Pair(s) = Pair(t) => s = t
      BY <2>1, <2>4
    <3>3. QED
      BY <2>1, <2>2, <3>1, <3>2 DEF SeenOK
  <2>6. FreshSeen(b)'
    <3>1. \A s \in T : Pair(See(s)) = Pair(s)
      BY <1>2 DEF Pair
    <3>2. \A s \in seenPlacements'[b] : \E t \in placements' : Pair(t) = Pair(s)
      BY <2>1, <3>1
    <3>3. ASSUME seenLayouts[b] = layouts, NEW s \in placements
          PROVE  \E t \in seenPlacements'[b] : Pair(t) = Pair(s)
      <4>1. s \in T
        BY <3>3, <1>2
      <4>2. QED
        BY <4>1, <2>1, <3>1
    <3>4. QED
      BY <2>1, <3>2, <3>3 DEF FreshSeen
  <2>7. QED
    BY <2>1, <2>5, <2>6 DEF RunOK
<1>8. QED
  BY <1>3, <1>4, <1>5, <1>6, <1>7 DEF RunsInv

LEMMA ToAddIs ==
    ASSUME TypeOK, NEW b \in Runs, SeenOK(b), NEW p \in Pages
    PROVE  LET A == ToAdd(p, seenPlacements[b]) IN
           /\ \A a \in A : /\ a \in [page : Pages, key : WantedKeys, order : Nat]
                           /\ a.page = p /\ a.key \in Desired(p)
           /\ \A a, c \in A : a.key = c.key => a = c
           /\ \A k \in Desired(p) : (\E a \in A : a.key = k)
                                    \/ (\E s \in seenPlacements[b] : s.page = p /\ s.key = k)
<1> DEFINE S == seenPlacements[b]
           here == {s \in S : s.page = p}
           missing == Desired(p) \ {s.key : s \in here}
           Place_(k) == Position(k, missing, {s.order : s \in here})
           A == {[page |-> p, key |-> k, order |-> Place_(k)] : k \in missing}
<1>1. \A s \in S : s.page \in Pages /\ s.definition \in 1..MaxId /\ s.order \in Nat
  BY DEF TypeOK, Seen
<1>2. IsFiniteSet(here)
  <2>1. \A s, t \in S : s.page = t.page /\ s.definition = t.definition => s = t
    BY DEF SeenOK, Pair
  <2>2. \A s, t \in here : s.page = t.page /\ s.definition = t.definition => s = t
    BY <2>1
  <2>3. \A s \in here : s.page \in Pages /\ s.definition \in 1..MaxId
    BY <1>1
  <2> HIDE DEF here
  <2>4. QED
    BY <2>2, <2>3, PairsFinite
<1>3. missing \subseteq WantedKeys
  BY DesiredAre
<1>4. ASSUME NEW k \in missing PROVE Place_(k) \in Nat
  <2>1. k \in WantedKeys /\ \A s \in here : s.order \in Nat
    BY <1>1, <1>3
  <2> HIDE DEF missing, here
  <2>2. QED
    BY <2>1, <1>2, <1>3, PositionType
<1>5. ToAdd(p, S) = A
  BY DEF ToAdd
<1>6. \A k \in Desired(p) : k \in missing \/ \E s \in S : s.page = p /\ s.key = k
  OBVIOUS
<1>7. missing \subseteq Desired(p)
  OBVIOUS
<1> HIDE DEF missing, here, Place_
<1>8. \A a \in A : a \in [page : Pages, key : WantedKeys, order : Nat] /\ a.page = p /\ a.key \in Desired(p)
  BY <1>3, <1>4, <1>7
<1>9. \A a, c \in A : a.key = c.key => a = c
  OBVIOUS
<1>10. ASSUME NEW k \in missing PROVE \E a \in A : a.key = k
  <2>1. [page |-> p, key |-> k, order |-> Place_(k)] \in A
    OBVIOUS
  <2> HIDE DEF A
  <2>2. QED
    BY <2>1
<1> HIDE DEF A
<1>11. QED
  BY <1>5, <1>6, <1>8, <1>9, <1>10

\* What analyze plans, from what it has read earlier and the definitions now.
LEMMA PlanIs ==
    ASSUME BInv, NEW b \in Runs, UNCHANGED tables,
           plan'[b] = Plan(seenLayouts[b], seenPlacements[b], definitions)
    PROVE  plan'[b] \in Plans /\ PlanOK(b)' /\ (FreshSeen(b) => FreshPlan(b)')
<1> USE DEF BInv
<1> DEFINE L == seenLayouts[b]
           S == seenPlacements[b]
           D == definitions
           P == Plan(L, S, D)
           A == UNION {ToAdd(p, S) : p \in Pages}
<1>1. /\ P.blocked = Blocked(D) /\ P.layouts = Pages \ L /\ P.create = ToCreate(D)
      /\ P.update = {d.id : d \in ToUpdate(D)} /\ P.add = A
      /\ P.remove = {[page |-> s.page, definition |-> s.definition] : s \in ToRemove(S, D)}
      /\ P.drop = ToDrop(S, D) /\ P.bump = ToBump(S, D, A)
      /\ P = [blocked |-> P.blocked, layouts |-> P.layouts, create |-> P.create, update |-> P.update, add |-> P.add,
              remove |-> P.remove, drop |-> P.drop, bump |-> P.bump]
  BY DEF Plan
<1> HIDE DEF P
<1>2. SeenOK(b) /\ L \subseteq layouts /\ layouts \subseteq Pages
  BY DEF RunsInv, RunOK, SeenOK, TypeOK
<1>3. \A s \in S : s.page \in Pages /\ s.definition \in 1..MaxId /\ s.definition <= lastId /\ s.key \in Keys \cup {None}
                   /\ \A d \in D : d.id = s.definition => d.key = s.key
  BY <1>2 DEF TypeOK, Seen, SeenOK
<1>4. \A d \in D : d \in Definitions /\ d.id \in 1..MaxId /\ d.id <= lastId
  BY RowFields DEF TypeOK, RowsInv
<1>5. /\ \A a \in P.add : /\ a \in [page : Pages, key : WantedKeys, order : Nat]
                          /\ a.page \in Pages /\ a.key \in Desired(a.page)
      /\ \A a, c \in P.add : a.page = c.page /\ a.key = c.key => a = c
      /\ \A p \in Pages : \A k \in Desired(p) :
            (\E a \in P.add : a.page = p /\ a.key = k) \/ (\E s \in S : s.page = p /\ s.key = k)
  <2>1. ASSUME NEW p \in Pages
        PROVE  /\ \A a \in ToAdd(p, S) : /\ a \in [page : Pages, key : WantedKeys, order : Nat]
                                         /\ a.page = p /\ a.key \in Desired(p)
               /\ \A a, c \in ToAdd(p, S) : a.key = c.key => a = c
               /\ \A k \in Desired(p) : (\E a \in ToAdd(p, S) : a.key = k)
                                        \/ (\E s \in S : s.page = p /\ s.key = k)
    BY <1>2, ToAddIs
  <2>2. \A a : a \in P.add <=> \E p \in Pages : a \in ToAdd(p, S)
    BY <1>1
  <2>3. QED
    BY <2>1, <2>2
<1>6. \A r \in P.remove : \E s \in S : s \in ToRemove(S, D) /\ r.page = s.page /\ r.definition = s.definition
         /\ r = [page |-> s.page, definition |-> s.definition]
  BY <1>1 DEF ToRemove
<1>7. ASSUME NEW s \in S
      PROVE  s \in ToRemove(S, D) <=> \E d \in D : d.id = s.definition /\ Removable(s.page, d.key)
  BY DEF ToRemove, IdsOf, Removable
<1>8. /\ \A a \in P.add : a.page \in P.bump
      /\ \A s \in ToRemove(S, D) : s.page \in P.bump
      /\ \A d \in ToUpdate(D) : d.key \in PageKeys => Owner[d.key] \in P.bump
      /\ \A s \in S, d \in ToUpdate(D) : d.key \notin PageKeys /\ d.id = s.definition => s.page \in P.bump
  BY <1>1 DEF ToBump
<1>9. \A i \in P.drop : \E d \in D : d.id = i /\ d.key = Obsolete
  BY <1>1 DEF ToDrop, IdsOf
<1>10. P.bump \subseteq Pages
  <2>1. \A a \in A : a.page \in Pages
    BY <1>1, <1>5
  <2>2. \A s \in ToRemove(S, D) : s.page \in Pages
    BY <1>3 DEF ToRemove
  <2>3. \A d \in D : d.key \in PageKeys => Owner[d.key] \in Pages
    BY KeysAre
  <2>4. {a.page : a \in A} \subseteq Pages /\ {s.page : s \in ToRemove(S, D)} \subseteq Pages
    BY <2>1, <2>2
  <2>5. {Owner[d.key] : d \in {e \in ToUpdate(D) : e.key \in PageKeys}} \subseteq Pages
    BY <2>3 DEF ToUpdate
  <2>6. {s.page : s \in {t \in S : \E d \in ToUpdate(D) : d.key \notin PageKeys /\ d.id = t.definition}} \subseteq Pages
    BY <1>3
  <2> HIDE DEF A
  <2>7. QED
    BY <1>1, <2>4, <2>5, <2>6 DEF ToBump
<1>11. P \in Plans
  <2>1. P.blocked \in BOOLEAN
    BY <1>1 DEF Blocked, TypeOK
  <2>2. P.layouts \subseteq Pages /\ P.create \subseteq WantedKeys /\ P.update \subseteq 1..MaxId
    BY <1>1, <1>4 DEF ToCreate, ToUpdate
  <2>3. P.add \subseteq [page : Pages, key : WantedKeys, order : Nat]
    BY <1>5
  <2>4. P.remove \subseteq [page : Pages, definition : 1..MaxId]
    BY <1>3, <1>6
  <2>5. P.drop \subseteq 1..MaxId
    BY <1>4, <1>9
  <2>6. QED
    BY <1>1, <1>10, <2>1, <2>2, <2>3, <2>4, <2>5 DEF Plans
<1>12. plan'[b] = P /\ UNCHANGED <<layouts, stray, definitions, lastId, placements>>
  BY DEF P, tables
<1>13. PlanOK(b)'
  <2>1. P.layouts \cup layouts = Pages
    BY <1>1, <1>2
  <2>2. stray \/ (\E d \in D : Wrong(d)) => P.blocked
    BY <1>1 DEF Blocked, Wrong
  <2>3. \A r \in P.remove : r.page \in P.bump /\ r.definition <= lastId
          /\ \A d \in D : d.id = r.definition => Removable(r.page, d.key)
    <3>1. SUFFICES ASSUME NEW s \in S, s \in ToRemove(S, D)
                   PROVE  s.page \in P.bump /\ s.definition <= lastId
                          /\ \A d \in D : d.id = s.definition => Removable(s.page, d.key)
      BY <1>6
    <3>2. QED
      BY <3>1, <1>3, <1>7, <1>8 DEF TypeOK
  <2>4. \A i \in P.update : i <= lastId /\ \A d \in D : d.id = i =>
          d.key \in WantedKeys /\ (d.key \in PageKeys => Owner[d.key] \in P.bump)
    <3>1. SUFFICES ASSUME NEW e \in ToUpdate(D)
                   PROVE  e.id <= lastId /\ \A d \in D : d.id = e.id =>
                             d.key \in WantedKeys /\ (d.key \in PageKeys => Owner[d.key] \in P.bump)
      BY <1>1
    <3>2. e \in D /\ e.key \in WantedKeys /\ \A d \in D : d.id = e.id => d = e
      BY DEF ToUpdate, TypeOK
    <3>3. QED
      BY <3>2, <1>4, <1>8
  <2>5. \A i \in P.drop : i <= lastId /\ \A d \in D : d.id = i => d.key = Obsolete
    BY <1>4, <1>9 DEF TypeOK
  <2>6. \A p \in Pages : \A k \in Stationary(p) : (\E a \in P.add : a.page = p /\ a.key = k) \/ Placed(p, k)
    <3>1. SUFFICES ASSUME NEW p \in Pages, NEW k \in Stationary(p), NEW s \in S, s.page = p, s.key = k
                   PROVE  Placed(p, k)
      BY <1>5 DEF Stationary
    <3>2. QED
      BY <3>1, <1>2 DEF SeenOK
  <2>7. QED
    BY <1>5, <1>8, <1>12, <2>1, <2>2, <2>3, <2>4, <2>5, <2>6 DEF PlanOK, Adds, Placed, HasKey
<1>14. ASSUME FreshSeen(b) PROVE FreshPlan(b)'
  <2>1. \A k \in WantedKeys : k \in P.create \/ \E d \in D : d.key = k
    BY <1>1 DEF ToCreate, IdsOf
  <2>2. \A d \in D : d.key \in WantedKeys /\ d.changed => d.id \in P.update
    BY <1>1 DEF ToUpdate
  \* A row that was read on a page that is to have it is there still.
  <2>3. ASSUME NEW p \in Pages, NEW k \in Desired(p), NEW s \in S, s.page = p, s.key = k
        PROVE  \E t \in placements, d \in D :
                  t.page = p /\ t.definition = s.definition /\ d.id = s.definition /\ d.key = k
    <3>1. ~Removable(p, k)
      BY KeysAre DEF Desired, Removable, WantedKeys, PageKeys
    <3>2. PICK t \in placements : Pair(t) = Pair(s)
      BY <1>14, <2>3, <3>1 DEF FreshSeen
    <3>3. t.page = p /\ t.definition = s.definition
      BY <3>2, <2>3 DEF Pair
    <3>4. PICK d \in D : d.id = t.definition
      BY DEF TypeOK
    <3>5. QED
      BY <3>3, <3>4, <1>3, <2>3
  <2>4. \A p \in Pages : \A k \in Desired(p) : (\E a \in P.add : a.page = p /\ a.key = k) \/ Placed(p, k)
    BY <1>5, <2>3 DEF Placed, HasKey
  <2>5. ASSUME P.layouts \cap layouts = {}, NEW s \in placements, NEW d \in D,
               d.id = s.definition, Removable(s.page, d.key)
        PROVE  Pair(s) \in P.remove
    <3>1. L = layouts
      BY <1>1, <1>2, <2>5
    <3>2. PICK t \in S : Pair(t) = Pair(s)
      BY <1>14, <2>5, <3>1 DEF FreshSeen
    <3>3. t.page = s.page /\ t.definition = s.definition
      BY <3>2 DEF Pair
    <3>4. t \in ToRemove(S, D)
      BY <1>7, <2>5, <3>3
    <3>5. QED
      BY <1>1, <3>3, <3>4 DEF Pair
  <2>6. ASSUME NEW d \in D, d.key = Obsolete PROVE d.id \in P.drop
    <3>1. SUFFICES ASSUME NEW s \in S \ ToRemove(S, D), s.definition = d.id PROVE FALSE
      BY <1>1, <2>6 DEF ToDrop, IdsOf
    <3>2. s.key = Obsolete
      BY <1>3, <3>1, <2>6
    <3>3. s.page # Owner[Obsolete]
      BY <1>7, <3>1, <2>6 DEF Removable
    <3>4. PICK t \in placements : Pair(t) = Pair(s)
      BY <1>14, <3>2, <3>3, KeysAre DEF FreshSeen, Removable, WantedKeys
    <3>5. t.page = s.page /\ t.definition = d.id
      BY <3>4, <3>1 DEF Pair
    <3>6. QED
      BY <3>3, <3>5, <2>6 DEF RowsInv
  <2>7. ASSUME NEW d \in D, d.id \in P.update, d.key \notin PageKeys, NEW p \in Pages, d.key \in Desired(p)
        PROVE  p \in P.bump
    <3>1. d \in ToUpdate(D)
      <4>1. PICK e \in ToUpdate(D) : e.id = d.id
        BY <1>1, <2>7
      <4>2. QED
        BY <4>1 DEF ToUpdate, TypeOK
    <3>2. CASE \E a \in P.add : a.page = p /\ a.key = d.key
      BY <3>2, <1>8
    <3>3. CASE \E s \in S : s.page = p /\ s.key = d.key
      <4>1. PICK s \in S : s.page = p /\ s.key = d.key
        BY <3>3
      <4>2. PICK e \in D : e.id = s.definition /\ e.key = d.key
        BY <4>1, <2>3, <2>7
      <4>3. e = d
        BY <4>2, <2>7, KeysAre, DesiredAre DEF TypeOK, Keys
      <4>4. QED
        BY <4>1, <4>2, <4>3, <3>1, <1>8, <2>7
    <3>4. QED
      BY <1>5, <2>7, <3>2, <3>3
  <2>8. Complete(b)'
    BY <1>12, <2>1, <2>2, <2>4, <2>5, <2>6 DEF Complete, Adds, Placed, HasKey
  <2>9. QED
    BY <1>12, <2>7, <2>8 DEF FreshPlan
<1>15. QED
  BY <1>11, <1>12, <1>13, <1>14

LEMMA ReadDefinitionsStep == ASSUME BInv, NEW b \in Runs, ReadDefinitions(b) PROVE BInv'
<1> USE DEF BInv
<1>1. /\ UNCHANGED <<tables, history>>
      /\ pc[b] = "placementsRead" /\ pc' = [pc EXCEPT ![b] = "planned"]
      /\ plan' = [plan EXCEPT ![b] = Plan(seenLayouts[b], seenPlacements[b], definitions)]
      /\ seenLayouts' = [seenLayouts EXCEPT ![b] = {}] /\ seenPlacements' = [seenPlacements EXCEPT ![b] = {}]
  BY DEF ReadDefinitions, Advance, Forget
<1>2. plan'[b] = Plan(seenLayouts[b], seenPlacements[b], definitions)
  BY <1>1 DEF TypeOK
<1>3. plan'[b] \in Plans /\ PlanOK(b)' /\ (FreshSeen(b) => FreshPlan(b)')
  BY <1>1, <1>2, PlanIs
<1>4. plan' \in [Runs -> Plans]
  BY <1>1, <1>2, <1>3 DEF TypeOK
<1>5. TypeOK'
  BY <1>1, <1>4 DEF TypeOK, tables, history
<1>6. RowsInv' /\ (converged' => Whole')
  BY <1>1, SameTables DEF history
<1>7. StayInv'
  BY <1>1 DEF StayInv, tables, history, Placed, HasKey
<1>8. ASSUME NEW c \in Runs, c # b PROVE RunOK(c)'
  <2>1. UNCHANGED <<pc[c], seenLayouts[c], seenPlacements[c], plan[c]>>
    BY <1>1, <1>8 DEF TypeOK
  <2>2. QED
    BY <2>1, <1>1, <1>5, <1>8, IdleRun DEF RunsInv, history
<1>9. RunOK(b)'
  <2>1. pc'[b] = "planned" /\ seenLayouts'[b] = {} /\ seenPlacements'[b] = {} /\ undisturbed' = undisturbed
    BY <1>1 DEF TypeOK, history
  <2>2. SeenOK(b)'
    BY <2>1 DEF SeenOK
  <2>3. b \in undisturbed => FreshSeen(b)
    BY <1>1 DEF RunsInv, RunOK
  <2>4. QED
    BY <2>1, <2>2, <2>3, <1>3 DEF RunOK
<1>10. QED
  BY <1>5, <1>6, <1>7, <1>8, <1>9 DEF RunsInv

\* A run that ends does nothing any more.
LEMMA EndIs ==
    ASSUME TypeOK, NEW b \in Runs, End(b)
    PROVE  /\ pc[b] = "planned" /\ pc'[b] = "ended" /\ UNCHANGED <<seenLayouts, seenPlacements>>
           /\ \A c \in Runs : c # b => UNCHANGED <<pc[c], plan[c]>>
           /\ pc' \in [Runs -> {"idle", "layoutsRead", "placementsRead", "planned", "ended"}]
           /\ plan' \in [Runs -> Plans]
BY NoPlanIs DEF End, Advance, TypeOK

LEMMA AbortStep == ASSUME BInv, NEW b \in Runs, Abort(b) PROVE BInv'
<1> USE DEF BInv
<1>1. End(b) /\ UNCHANGED tables /\ UNCHANGED history
  BY DEF Abort
<1>2. TypeOK'
  BY <1>1, EndIs DEF TypeOK, tables, history
<1>3. RowsInv' /\ (converged' => Whole')
  BY <1>1, SameTables DEF history
<1>4. StayInv'
  BY <1>1 DEF StayInv, tables, history, Placed, HasKey
<1>5. ASSUME NEW c \in Runs, c # b PROVE RunOK(c)'
  <2>1. UNCHANGED <<pc[c], seenLayouts[c], seenPlacements[c], plan[c]>>
    BY <1>1, <1>5, EndIs
  <2>2. QED
    BY <2>1, <1>1, <1>2, <1>5, IdleRun DEF RunsInv, history
<1>6. RunOK(b)'
  <2>1. SeenOK(b)'
    BY <1>1, <1>2, EndIs, SameTables, SeenStays DEF RunsInv, RunOK
  <2>2. pc'[b] = "ended"
    BY <1>1, EndIs
  <2>3. QED
    BY <2>1, <2>2 DEF RunOK
<1>7. QED
  BY <1>2, <1>3, <1>4, <1>5, <1>6 DEF RunsInv

-----------------------------------------------------------------------------
(* apply.                                                                  *)

\* Definition d of the tables after plan P is row e of them before.
Is(d, e, P) ==
    /\ d.id = e.id /\ d.key = e.key /\ d.type = e.type
    /\ d = e \/ e.id \in P.update
    /\ d.changed => e.changed /\ e.id \notin P.update

LEMMA WrittenIs ==
    ASSUME TypeOK, RowsInv, NEW P \in Plans, lastId + Cardinality(P.create) <= MaxId,
           P.create \cap {d.key : d \in definitions} = {}
    PROVE  LET W == Written(P) IN
           /\ W \subseteq Definitions /\ Cardinality(P.create) \in Nat
           /\ \A d \in W : d.id <= lastId + Cardinality(P.create)
           /\ \A d \in W : d.id <= lastId => \E e \in definitions : Is(d, e, P)
           /\ \A d \in W : ~(d.id <= lastId) => d.key \in P.create /\ d.type = TypeOf(d.key) /\ ~d.changed
           /\ \A e \in definitions : \E d \in W : Is(d, e, P)
           /\ \A k \in P.create : \E d \in W : d.key = k /\ ~(d.id <= lastId)
           /\ \A d, e \in W : d.id = e.id \/ (d.key = e.key /\ d.key # None) => d = e
<1> DEFINE n == Cardinality(P.create)
           Rewrite(d) == IF d.id \in P.update THEN Cleared(d) ELSE d
           Create(k) == Row(IdFor(P, k), k)
           W == {Rewrite(d) : d \in definitions} \cup {Create(k) : k \in P.create}
<1>1. P.create \subseteq WantedKeys /\ lastId \in Nat
  BY DEF Plans, TypeOK
<1>2. /\ \A k \in P.create : IdFor(P, k) \in Nat /\ lastId < IdFor(P, k) /\ IdFor(P, k) <= lastId + n
      /\ \A j, k \in P.create : IdFor(P, j) = IdFor(P, k) => j = k
      /\ n \in Nat
  BY <1>1, IdForIs
<1>3. ASSUME NEW k \in P.create
      PROVE  /\ Create(k) \in Definitions /\ Create(k).id = IdFor(P, k) /\ Create(k).key = k
             /\ Create(k).type = TypeOf(k) /\ ~Create(k).changed
             /\ Create(k).id <= lastId + n /\ ~(Create(k).id <= lastId)
  <2>1. IdFor(P, k) \in 1..MaxId /\ k \in Keys
    BY <1>1, <1>2, BoundsAssumption DEF Keys
  <2>2. QED
    BY <2>1, <1>1, <1>2, RowIs
<1>4. ASSUME NEW d \in definitions
      PROVE  /\ Rewrite(d) \in Definitions /\ Rewrite(d).id = d.id /\ Rewrite(d).key = d.key
             /\ Rewrite(d).type = d.type /\ d.id <= lastId /\ d.id \in Nat
             /\ Rewrite(d) = d \/ d.id \in P.update
             /\ Rewrite(d).changed => d.changed /\ d.id \notin P.update
  <2>1. d \in Definitions /\ d.id <= lastId /\ d.id \in Nat
    BY RowFields DEF TypeOK, RowsInv
  <2>2. CASE d.id \in P.update
    BY <2>1, <2>2, ClearedIs
  <2>3. CASE d.id \notin P.update
    BY <2>1, <2>3
  <2>4. QED
    BY <2>2, <2>3
<1>5. Written(P) = W
  BY DEF Written, Cleared
<1>6. \A k \in P.create : \A d \in definitions : d.key # k
  OBVIOUS
<1> HIDE DEF Rewrite, Create, n
<1>7. \A d \in definitions : Is(Rewrite(d), d, P)
  BY <1>4 DEF Is
<1>8. ASSUME NEW d \in W, NEW e \in W, d.id = e.id \/ (d.key = e.key /\ d.key # None) PROVE d = e
  <2>1. CASE \E x, y \in definitions : d = Rewrite(x) /\ e = Rewrite(y)
    BY <2>1, <1>4, <1>8 DEF TypeOK
  <2>2. CASE \E j, k \in P.create : d = Create(j) /\ e = Create(k)
    BY <2>2, <1>2, <1>3, <1>8
  <2>3. CASE \E x \in definitions, k \in P.create : (d = Rewrite(x) /\ e = Create(k)) \/ (e = Rewrite(x) /\ d = Create(k))
    BY <2>3, <1>3, <1>4, <1>6, <1>8
  <2>4. QED
    BY <2>1, <2>2, <2>3
<1>9. W \subseteq Definitions /\ \A d \in W : d.id <= lastId + n
  BY <1>1, <1>2, <1>3, <1>4
<1>10. \A d \in W : d.id <= lastId => \E e \in definitions : Is(d, e, P)
  BY <1>3, <1>7
<1>11. \A d \in W : ~(d.id <= lastId) => d.key \in P.create /\ d.type = TypeOf(d.key) /\ ~d.changed
  BY <1>3, <1>4
<1>12. \A e \in definitions : \E d \in W : Is(d, e, P)
  BY <1>7
<1>13. \A k \in P.create : \E d \in W : d.key = k /\ ~(d.id <= lastId)
  BY <1>3
<1> HIDE DEF W
<1>14. QED
  BY <1>2, <1>5, <1>8, <1>9, <1>10, <1>11, <1>12, <1>13 DEF n

\* The tables after run b has applied its plan.
AppliedRows(b) == LET P == plan[b] IN
    /\ ~P.blocked /\ ~stray /\ P.layouts \cap layouts = {} /\ layouts' = Pages /\ stray' = stray
    /\ lastId' \in 0..MaxId /\ lastId <= lastId'
    /\ definitions' \subseteq Definitions /\ \A d \in definitions' : d.id <= lastId'
    /\ \A d, e \in definitions' : d.id = e.id \/ (d.key = e.key /\ d.key # None) => d = e
    /\ \A d \in definitions' : d.id <= lastId => \E e \in definitions : Is(d, e, P)
    /\ \A d \in definitions' : ~(d.id <= lastId) =>
          /\ d.key \in WantedKeys /\ d.type = TypeOf(d.key) /\ ~d.changed
          /\ \A e \in definitions : e.key # d.key
    /\ \A e \in definitions : e.key # Obsolete => \E d \in definitions' : Is(d, e, P)
    /\ \A k \in P.create : \E d \in definitions' : d.key = k
    \* An obsolete row is dropped if the plan says so and it is on no page.
    /\ \A d \in definitions' : d.key = Obsolete /\ d.id \in P.drop =>
          \E s \in placements : s.definition = d.id /\ Pair(s) \notin P.remove

AppliedPlacements(b) == LET P == plan[b] IN
    /\ placements' \subseteq Placements
    /\ \A s, t \in placements' : s.page = t.page /\ s.definition = t.definition => s = t
    /\ \A s \in placements' : \E d \in definitions' : d.id = s.definition
    /\ \A s \in placements' :
          \/ s \in placements /\ Pair(s) \notin P.remove
          \/ \E a \in P.add : s.page = a.page /\ HasKey(s.definition, a.key)'
    /\ \A s \in placements : Pair(s) \notin P.remove => s \in placements'
    /\ \A a \in P.add : /\ Placed(a.page, a.key)'
                        /\ \A s \in placements : s.page = a.page /\ Pair(s) \notin P.remove => ~HasKey(s.definition, a.key)
    /\ \A r \in P.remove : \E s \in placements : Pair(s) = r

LEMMA ApplyIs ==
    ASSUME BInv, NEW b \in Runs, Apply(b)
    PROVE  AppliedRows(b) /\ AppliedPlacements(b)
<1> USE DEF BInv
<1> DEFINE P == plan[b]
           W == Written(P)
           n == Cardinality(P.create)
<1>1. /\ ~P.blocked /\ Applicable(P) /\ lastId + n <= MaxId
      /\ layouts' = layouts \cup P.layouts /\ definitions' = {d \in W : d.id \notin Dropped(P)}
      /\ lastId' = lastId + n /\ placements' = Kept(P) \cup Added(P) /\ End(b) /\ stray' = stray
  BY DEF Apply
<1>2. P \in Plans /\ PlanOK(b) /\ lastId \in 0..MaxId /\ MaxId \in Nat
  BY <1>1, EndIs, BoundsAssumption DEF TypeOK, RunsInv, RunOK
<1>3. P.create \cap {d.key : d \in definitions} = {}
  BY <1>1 DEF Applicable
<1>4. /\ W \subseteq Definitions /\ n \in Nat
      /\ \A d \in W : d.id <= lastId + n
      /\ \A d \in W : d.id <= lastId => \E e \in definitions : Is(d, e, P)
      /\ \A d \in W : ~(d.id <= lastId) => d.key \in P.create /\ d.type = TypeOf(d.key) /\ ~d.changed
      /\ \A e \in definitions : \E d \in W : Is(d, e, P)
      /\ \A k \in P.create : \E d \in W : d.key = k /\ ~(d.id <= lastId)
      /\ \A d, e \in W : d.id = e.id \/ (d.key = e.key /\ d.key # None) => d = e
  BY <1>1, <1>2, <1>3, WrittenIs
<1>5. /\ P.layouts \cup layouts = Pages /\ (stray => P.blocked)
      /\ \A a \in P.add : a.key \in Desired(a.page) /\ a.page \in Pages /\ a.key \in WantedKeys /\ a.order \in Nat
      /\ \A a, c \in P.add : a.page = c.page /\ a.key = c.key => a = c
      /\ \A i \in P.drop : i <= lastId /\ \A d \in definitions : d.id = i => d.key = Obsolete
      /\ P.create \subseteq WantedKeys
  BY <1>2 DEF PlanOK, Plans
<1> HIDE DEF W, P, n
\* What is dropped is obsolete.
<1>6. ASSUME NEW d \in W, d.id \in Dropped(P) PROVE d.key = Obsolete /\ d.id <= lastId
  <2>1. d.id \in P.drop /\ d.id <= lastId
    BY <1>5, <1>6 DEF Dropped
  <2>2. PICK e \in definitions : Is(d, e, P)
    BY <1>4, <2>1
  <2>3. QED
    BY <2>1, <2>2, <1>5 DEF Is
<1>7. \A e \in definitions : e.key # Obsolete => \E d \in definitions' : Is(d, e, P)
  <2>1. SUFFICES ASSUME NEW e \in definitions, e.key # Obsolete PROVE \E d \in definitions' : Is(d, e, P)
    OBVIOUS
  <2>2. PICK d \in W : Is(d, e, P)
    BY <1>4
  <2>3. d.key # Obsolete
    BY <2>1, <2>2 DEF Is
  <2>4. QED
    BY <2>2, <2>3, <1>1, <1>6
<1>8. \A k \in P.create : \E d \in definitions' : d.key = k
  <2>1. SUFFICES ASSUME NEW k \in P.create PROVE \E d \in definitions' : d.key = k
    OBVIOUS
  <2>2. PICK d \in W : d.key = k /\ ~(d.id <= lastId)
    BY <1>4
  <2>3. QED
    BY <2>2, <1>1, <1>6
<1>9. \A d \in definitions' : d.key = Obsolete /\ d.id \in P.drop =>
         \E s \in placements : s.definition = d.id /\ Pair(s) \notin P.remove
  BY <1>1 DEF Dropped, Kept, Pair
<1>10. \A d \in definitions' : ~(d.id <= lastId) =>
          /\ d.key \in WantedKeys /\ d.type = TypeOf(d.key) /\ ~d.changed
          /\ \A e \in definitions : e.key # d.key
  BY <1>1, <1>3, <1>4, <1>5
<1>11. AppliedRows(b)
  <2>1. /\ ~P.blocked /\ ~stray /\ P.layouts \cap layouts = {} /\ layouts' = Pages /\ stray' = stray
        /\ lastId' \in 0..MaxId /\ lastId <= lastId'
    BY <1>1, <1>2, <1>4, <1>5 DEF Applicable
  <2>2. /\ definitions' \subseteq Definitions /\ \A d \in definitions' : d.id <= lastId'
        /\ \A d, e \in definitions' : d.id = e.id \/ (d.key = e.key /\ d.key # None) => d = e
        /\ \A d \in definitions' : d.id <= lastId => \E e \in definitions : Is(d, e, P)
    BY <1>1, <1>4
  <2>3. QED
    BY <2>1, <2>2, <1>7, <1>8, <1>9, <1>10 DEF AppliedRows, P
\* What a plan adds is found in the rows that it writes.
<1>12. ASSUME NEW a \in P.add, NEW i
       PROVE  i \in IdsOf(a.key, W) <=> \E d \in definitions' : d.id = i /\ d.key = a.key
  <2>1. a.key # Obsolete
    BY <1>5, KeysAre
  <2>2. QED
    BY <2>1, <1>1, <1>6 DEF IdsOf
<1>13. \A s : s \in Added(P) <=> \E a \in P.add : \E d \in definitions' :
          d.key = a.key /\ s = [page |-> a.page, definition |-> d.id, order |-> a.order]
  <2>1. \A s : s \in Added(P) <=> \E a \in P.add : \E i \in IdsOf(a.key, W) :
          s = [page |-> a.page, definition |-> i, order |-> a.order]
    BY DEF Added, W
  <2>2. QED
    BY <2>1, <1>12
<1>14. ASSUME NEW a \in P.add
       PROVE  /\ \E d \in definitions' : d.key = a.key
              /\ \A s \in Kept(P) : s.page = a.page => \A d \in definitions' : d.key = a.key => d.id # s.definition
  <2>1. IdsOf(a.key, W) # {} /\ \A s \in Kept(P) : s.page = a.page => s.definition \notin IdsOf(a.key, W)
    BY <1>1 DEF Applicable, W
  <2>2. QED
    BY <2>1, <1>12
<1>15. Kept(P) = {s \in placements : Pair(s) \notin P.remove}
  BY DEF Kept, Pair
<1>16. \A d \in definitions' : d \in Definitions /\ d.id \in 1..MaxId
  BY <1>1, <1>4, RowFields
<1>17. placements' \subseteq Placements
  <2>1. \A s \in Added(P) : s \in Placements
    BY <1>5, <1>13, <1>16 DEF Placements
  <2>2. QED
    BY <2>1, <1>1, <1>15 DEF TypeOK
<1>18. ASSUME NEW s \in Added(P)
       PROVE  \E a \in P.add, d \in definitions' :
                 d.key = a.key /\ s.page = a.page /\ s.definition = d.id /\ s.order = a.order
                 /\ s = [page |-> a.page, definition |-> d.id, order |-> a.order]
  BY <1>13
<1>19. \A s, t \in placements' : s.page = t.page /\ s.definition = t.definition => s = t
  <2>1. SUFFICES ASSUME NEW s \in placements', NEW t \in placements', s.page = t.page, s.definition = t.definition
                 PROVE  s = t
    OBVIOUS
  <2>2. CASE s \in Kept(P) /\ t \in Kept(P)
    BY <2>1, <2>2, <1>15 DEF TypeOK
  <2>3. CASE s \in Kept(P) /\ t \in Added(P)
    BY <2>1, <2>3, <1>14, <1>18
  <2>4. CASE s \in Added(P) /\ t \in Kept(P)
    BY <2>1, <2>4, <1>14, <1>18
  <2>5. CASE s \in Added(P) /\ t \in Added(P)
    <3>1. PICK a \in P.add, d \in definitions' :
             d.key = a.key /\ s.page = a.page /\ s.definition = d.id
             /\ s = [page |-> a.page, definition |-> d.id, order |-> a.order]
      BY <2>5, <1>18
    <3>2. PICK c \in P.add, e \in definitions' :
             e.key = c.key /\ t.page = c.page /\ t.definition = e.id
             /\ t = [page |-> c.page, definition |-> e.id, order |-> c.order]
      BY <2>5, <1>18
    <3>3. d = e
      BY <2>1, <3>1, <3>2, <1>1, <1>4
    <3>4. a = c
      BY <2>1, <3>1, <3>2, <3>3, <1>5
    <3>5. QED
      BY <3>1, <3>2, <3>3, <3>4
  <2>6. QED
    BY <1>1, <2>2, <2>3, <2>4, <2>5
<1>20. \A s \in placements' : \E d \in definitions' : d.id = s.definition
  <2>1. ASSUME NEW s \in Kept(P) PROVE \E d \in definitions' : d.id = s.definition
    <3>1. PICK e \in definitions : e.id = s.definition
      BY <1>15 DEF TypeOK
    <3>2. PICK d \in W : Is(d, e, P)
      BY <1>4
    <3>3. d.id \notin Dropped(P)
      BY <3>1, <3>2 DEF Dropped, Is
    <3>4. QED
      BY <3>1, <3>2, <3>3, <1>1 DEF Is
  <2>2. QED
    BY <2>1, <1>1, <1>18
<1>21. \A s \in placements' :
          \/ s \in placements /\ Pair(s) \notin P.remove
          \/ \E a \in P.add : s.page = a.page /\ HasKey(s.definition, a.key)'
  BY <1>1, <1>15, <1>18 DEF HasKey
<1>22. ASSUME NEW a \in P.add
       PROVE  /\ Placed(a.page, a.key)'
              /\ \A s \in placements : s.page = a.page /\ Pair(s) \notin P.remove => ~HasKey(s.definition, a.key)
  <2>1. PICK d \in definitions' : d.key = a.key
    BY <1>14
  <2>2. PICK s \in placements' : s.page = a.page /\ s.definition = d.id
    <3>1. [page |-> a.page, definition |-> d.id, order |-> a.order] \in placements'
      BY <2>1, <1>1, <1>13
    <3>2. QED
      BY <3>1
  <2>3. Placed(a.page, a.key)'
    BY <2>1, <2>2 DEF Placed, HasKey
  <2>4. ASSUME NEW t \in placements, t.page = a.page, Pair(t) \notin P.remove, HasKey(t.definition, a.key)
        PROVE  FALSE
    <3>1. PICK e \in definitions : e.id = t.definition /\ e.key = a.key
      BY <2>4 DEF HasKey
    <3>2. PICK f \in definitions' : Is(f, e, P)
      BY <3>1, <1>5, <1>7, KeysAre
    <3>3. QED
      BY <2>4, <3>1, <3>2, <1>14, <1>15 DEF Is
  <2>5. QED
    BY <2>3, <2>4
<1>23. \A r \in P.remove : \E s \in placements : Pair(s) = r
  BY <1>1 DEF Applicable, Pair
<1>24. \A s \in placements : Pair(s) \notin P.remove => s \in placements'
  BY <1>1, <1>15
<1>25. AppliedPlacements(b)
  BY <1>17, <1>19, <1>20, <1>21, <1>22, <1>23, <1>24 DEF AppliedPlacements, P
<1>26. QED
  BY <1>11, <1>25

LEMMA DesiredStay == ASSUME NEW p, NEW k \in Desired(p) PROVE ~Removable(p, k) /\ k # Obsolete /\ k # None
BY KeysAre DEF Desired, Removable, WantedKeys, PageKeys, Keys

\* A section that a plan would not take from its page stays there.
LEMMA KeptPlaced ==
    ASSUME BInv, NEW b \in Runs, PlanOK(b), AppliedRows(b), AppliedPlacements(b),
           NEW s \in placements, NEW e \in definitions, e.id = s.definition, ~Removable(s.page, e.key)
    PROVE  s \in placements' /\ \E d \in definitions' : Is(d, e, plan[b])
<1>1. Pair(s) \notin plan[b].remove
  <2>1. Pair(s).page = s.page /\ Pair(s).definition = s.definition
    BY DEF Pair
  <2>2. QED
    BY <2>1 DEF PlanOK
<1>2. e.key # Obsolete
  BY DEF BInv, RowsInv, Removable
<1>3. QED
  BY <1>1, <1>2 DEF AppliedRows, AppliedPlacements

\* A section that is on its page when the plan has been applied was there or
\* was added.
LEMMA FromBefore ==
    ASSUME BInv, NEW b \in Runs, PlanOK(b), AppliedRows(b), AppliedPlacements(b),
           NEW s \in placements', NEW d \in definitions', d.id = s.definition
    PROVE  \/ /\ s \in placements /\ Pair(s) \notin plan[b].remove
              /\ \E e \in definitions : e.id = s.definition /\ Is(d, e, plan[b])
           \/ d.key \in Desired(s.page)
<1>1. CASE s \in placements /\ Pair(s) \notin plan[b].remove
  <2>1. PICK f \in definitions : f.id = s.definition
    BY <1>1 DEF BInv, TypeOK
  <2>2. d.id <= lastId
    BY <2>1 DEF BInv, RowsInv
  <2>3. QED
    BY <1>1, <2>2 DEF AppliedRows, Is
<1>2. ASSUME NEW a \in plan[b].add, s.page = a.page, HasKey(s.definition, a.key)'
      PROVE  d.key \in Desired(s.page)
  <2>1. PICK f \in definitions' : f.id = s.definition /\ f.key = a.key
    BY <1>2 DEF HasKey
  <2>2. f = d
    BY <2>1 DEF AppliedRows
  <2>3. QED
    BY <1>2, <2>1, <2>2 DEF PlanOK
<1>3. QED
  BY <1>1, <1>2 DEF AppliedPlacements

LEMMA ApplyRows ==
    ASSUME BInv, NEW b \in Runs, PlanOK(b), AppliedRows(b), AppliedPlacements(b)
    PROVE  /\ Stable /\ RowsInv'
           /\ \A p \in Pages : \A k \in Desired(p) : Placed(p, k) \/ Adds(b, p, k) => Placed(p, k)'
<1> USE DEF BInv
<1>1. ASSUME NEW d \in definitions', Wrong(d) PROVE FALSE
  <2>1. d.id <= lastId
    BY <1>1 DEF AppliedRows, Wrong
  <2>2. PICK e \in definitions : Is(d, e, plan[b])
    BY <2>1 DEF AppliedRows
  <2>3. Wrong(e)
    BY <1>1, <2>2 DEF Wrong, Is
  <2>4. QED
    BY <2>3 DEF PlanOK, AppliedRows
<1>2. ASSUME NEW p \in Pages, NEW k \in Desired(p), Placed(p, k) PROVE Placed(p, k)'
  <2>1. PICK s \in placements, e \in definitions : s.page = p /\ e.id = s.definition /\ e.key = k
    BY <1>2 DEF Placed, HasKey
  <2>2. s \in placements' /\ \E d \in definitions' : Is(d, e, plan[b])
    BY <2>1, DesiredStay, KeptPlaced
  <2>3. QED
    BY <2>1, <2>2 DEF Placed, HasKey, Is
<1>3. ASSUME NEW p \in Pages, NEW k \in Desired(p), Adds(b, p, k) PROVE Placed(p, k)'
  BY <1>3 DEF Adds, AppliedPlacements
<1>4. \A d \in definitions' : d.id <= lastId => \E e \in definitions : e.id = d.id /\ e.key = d.key /\ e.type = d.type
  BY DEF AppliedRows, Is
<1>5. Stable
  BY <1>1, <1>2, <1>4 DEF Stable, Stationary, AppliedRows, TypeOK
<1>6. RowsInv'
  <2>1. ASSUME NEW d \in definitions', d.key \notin CustomKeys \cup {None} PROVE d.type = TypeOf(d.key)
    <3>1. CASE d.id <= lastId
      BY <1>4, <2>1, <3>1 DEF RowsInv
    <3>2. CASE ~(d.id <= lastId)
      BY <3>2 DEF AppliedRows
    <3>3. QED
      BY <3>1, <3>2
  <2>2. ASSUME NEW s \in placements', NEW d \in definitions', d.id = s.definition,
               d.key \in PageKeys \cup {Obsolete}
        PROVE  s.page = Owner[d.key]
    <3>1. CASE \E e \in definitions : s \in placements /\ e.id = s.definition /\ Is(d, e, plan[b])
      BY <2>2, <3>1 DEF RowsInv, Is
    <3>2. CASE d.key \in Desired(s.page)
      BY <2>2, <3>2, KeysAre DEF Desired, WantedKeys, PageKeys
    <3>3. QED
      BY <2>2, <3>1, <3>2, FromBefore
  <2>3. ASSUME NEW s \in placements', NEW t \in placements', NEW d \in definitions',
               d.id = s.definition, d.id = t.definition, d.key = None, d.type = "PAGE_CUSTOM_HTML"
        PROVE  s.page = t.page
    <3>1. s \in placements /\ \E e \in definitions : e.id = s.definition /\ Is(d, e, plan[b])
      BY <2>3, FromBefore, DesiredStay
    <3>2. t \in placements
      BY <2>3, FromBefore, DesiredStay
    <3>3. QED
      BY <2>3, <3>1, <3>2 DEF RowsInv, Is
  <2>4. QED
    BY <1>1, <2>1, <2>2, <2>3 DEF RowsInv, AppliedRows
<1>7. QED
  BY <1>2, <1>3, <1>5, <1>6

\* What run c has read or planned while no editor disturbed it is as good after
\* the plan of run b as before.
LEMMA ApplyFresh ==
    ASSUME BInv, NEW b \in Runs, PlanOK(b), AppliedRows(b), AppliedPlacements(b), NEW c \in Runs, SeenOK(c)
    PROVE  /\ FreshSeen(c) /\ UNCHANGED <<seenLayouts[c], seenPlacements[c]>> => FreshSeen(c)'
           /\ FreshPlan(c) /\ PlanOK(c) /\ UNCHANGED plan[c] => FreshPlan(c)'
<1> USE DEF BInv
\* A section that a page is not to have has not just been added.
<1>1. ASSUME NEW s \in placements', NEW d \in definitions', d.id = s.definition, Removable(s.page, d.key)
      PROVE  s \in placements /\ \E e \in definitions : e.id = s.definition /\ e.key = d.key
  <2>1. d.key \notin Desired(s.page)
    BY <1>1, DesiredStay
  <2>2. QED
    BY <1>1, <2>1, FromBefore DEF Is
<1>2. layouts \subseteq layouts' /\ layouts' = Pages
  BY DEF AppliedRows, TypeOK
<1>3. ASSUME FreshSeen(c), UNCHANGED <<seenLayouts[c], seenPlacements[c]>> PROVE FreshSeen(c)'
  <2>1. ASSUME NEW s \in seenPlacements[c], ~Removable(s.page, s.key)
        PROVE  \E t \in placements' : Pair(t) = Pair(s)
    <3>1. PICK t \in placements : Pair(t) = Pair(s)
      BY <1>3, <2>1 DEF FreshSeen
    <3>2. t.page = s.page /\ t.definition = s.definition
      BY <3>1 DEF Pair
    <3>3. PICK e \in definitions : e.id = t.definition
      BY DEF TypeOK
    <3>4. e.key = s.key
      BY <3>2, <3>3 DEF SeenOK
    <3>5. QED
      BY <2>1, <3>1, <3>2, <3>3, <3>4, KeptPlaced
  <2>2. ASSUME seenLayouts[c] = layouts', NEW s \in placements', NEW d \in definitions',
               d.id = s.definition, Removable(s.page, d.key)
        PROVE  \E t \in seenPlacements[c] : Pair(t) = Pair(s)
    <3>1. seenLayouts[c] = layouts
      BY <1>2, <2>2 DEF SeenOK
    <3>2. QED
      BY <1>1, <1>3, <2>2, <3>1 DEF FreshSeen
  <2>3. QED
    BY <1>3, <2>1, <2>2 DEF FreshSeen
<1>4. ASSUME FreshPlan(c), PlanOK(c), UNCHANGED plan[c] PROVE FreshPlan(c)'
  <2> DEFINE P == plan[c]
  <2>1. ASSUME NEW k \in WantedKeys, k \notin P.create PROVE \E d \in definitions' : d.key = k
    <3>1. PICK e \in definitions : e.key = k
      BY <1>4, <2>1 DEF FreshPlan, Complete
    <3>2. k # Obsolete
      BY KeysAre
    <3>3. QED
      BY <3>1, <3>2 DEF AppliedRows, Is
  <2>2. ASSUME NEW d \in definitions', d.key \in WantedKeys, d.changed PROVE d.id \in P.update
    <3>1. d.id <= lastId
      BY <2>2 DEF AppliedRows
    <3>2. PICK e \in definitions : Is(d, e, plan[b])
      BY <3>1 DEF AppliedRows
    <3>3. QED
      BY <1>4, <2>2, <3>2 DEF Is, FreshPlan, Complete
  <2>3. \A p \in Pages : \A k \in Desired(p) : Adds(c, p, k)' \/ Placed(p, k)'
    BY <1>4, ApplyRows DEF FreshPlan, Complete, Adds
  <2>4. ASSUME P.layouts \cap layouts' = {}, NEW s \in placements', NEW d \in definitions',
               d.id = s.definition, Removable(s.page, d.key)
        PROVE  Pair(s) \in P.remove
    <3>1. P.layouts \cap layouts = {}
      BY <1>2, <2>4
    <3>2. s \in placements /\ \E e \in definitions : e.id = s.definition /\ e.key = d.key
      BY <1>1, <2>4
    <3>3. QED
      BY <1>4, <2>4, <3>1, <3>2 DEF FreshPlan, Complete
  <2>5. ASSUME NEW d \in definitions', d.key = Obsolete PROVE d.id \in P.drop
    <3>1. d.id <= lastId
      BY <2>5, KeysAre DEF AppliedRows
    <3>2. QED
      BY <1>4, <2>5, <3>1 DEF AppliedRows, Is, FreshPlan, Complete
  <2>6. ASSUME NEW d \in definitions', d.id \in P.update, d.key \notin PageKeys, NEW p \in Pages, d.key \in Desired(p)
        PROVE  p \in P.bump
    <3>1. d.id <= lastId
      BY <1>4, <2>6 DEF PlanOK
    <3>2. QED
      BY <1>4, <2>6, <3>1 DEF AppliedRows, Is, FreshPlan
  <2>7. QED
    BY <1>4, <2>1, <2>2, <2>3, <2>4, <2>5, <2>6 DEF FreshPlan, Complete
<1>5. QED
  BY <1>3, <1>4

\* A plan that leaves nothing to be done is applied.
LEMMA ApplyWhole ==
    ASSUME BInv, NEW b \in Runs, PlanOK(b), Complete(b), AppliedRows(b), AppliedPlacements(b)
    PROVE  Whole'
<1> USE DEF BInv
<1> DEFINE P == plan[b]
<1>1. P.layouts \cap layouts = {} /\ stray' = FALSE /\ layouts' = Pages
  BY DEF AppliedRows, TypeOK
<1>2. \A k \in WantedKeys : \E d \in definitions' : d.key = k
  BY KeysAre DEF Complete, AppliedRows, Is
<1>3. \A d \in definitions' : ~Wrong(d)
  BY ApplyRows DEF Stable, PlanOK, AppliedRows
<1>4. ASSUME NEW d \in definitions', d.key \in WantedKeys PROVE ~d.changed
  <2>1. CASE ~(d.id <= lastId)
    BY <2>1 DEF AppliedRows
  <2>2. CASE d.id <= lastId
    <3>1. PICK e \in definitions : Is(d, e, P)
      BY <2>2 DEF AppliedRows
    <3>2. QED
      BY <1>4, <3>1 DEF Is, Complete
  <2>3. QED
    BY <2>1, <2>2
<1>5. ASSUME NEW d \in definitions', d.key = Obsolete PROVE FALSE
  <2>1. d.id <= lastId
    BY <1>5, KeysAre DEF AppliedRows
  <2>2. PICK e \in definitions : Is(d, e, P)
    BY <2>1 DEF AppliedRows
  <2>3. e.key = Obsolete /\ e.id = d.id /\ d.id \in P.drop
    BY <1>5, <2>2 DEF Is, Complete
  <2>4. PICK s \in placements : s.definition = e.id /\ Pair(s) \notin P.remove
    BY <1>5, <2>3 DEF AppliedRows
  <2>5. Removable(s.page, e.key)
    BY <2>3, <2>4 DEF RowsInv, Removable
  <2>6. QED
    BY <2>4, <2>5, <1>1 DEF Complete
<1>6. \A p \in Pages : \A k \in Desired(p) : Placed(p, k)'
  BY ApplyRows DEF Complete
<1>7. ASSUME NEW s \in placements', NEW d \in definitions', d.id = s.definition, Removable(s.page, d.key)
      PROVE  FALSE
  <2>1. d.key \notin Desired(s.page)
    BY <1>7, DesiredStay
  <2>2. PICK e \in definitions : s \in placements /\ Pair(s) \notin P.remove /\ e.id = s.definition /\ Is(d, e, P)
    BY <1>7, <2>1, FromBefore
  <2>3. QED
    BY <1>1, <1>7, <2>2 DEF Complete, Is
<1>8. QED
  BY <1>1, <1>2, <1>3, <1>4, <1>5, <1>6, <1>7 DEF Whole

LEMMA WholeIsComplete == ASSUME Whole, NEW b PROVE Complete(b)
BY DEF Whole, Complete

LEMMA ApplyStep == ASSUME BInv, NEW b \in Runs, Apply(b) PROVE BInv'
<1>1. AppliedRows(b) /\ AppliedPlacements(b)
  BY ApplyIs
<1> USE DEF BInv
<1>2. /\ End(b) /\ applied' = TRUE /\ converged' = (converged \/ b \in undisturbed) /\ undisturbed' = undisturbed
      /\ revision' = [p \in Pages |-> IF p \in plan[b].bump THEN revision[p] + 1 ELSE revision[p]]
  BY DEF Apply
<1>3. PlanOK(b) /\ (b \in undisturbed => FreshPlan(b))
  BY <1>2, EndIs DEF RunsInv, RunOK
<1>4. TypeOK'
  <2>1. revision' \in [Pages -> Nat]
    BY <1>2 DEF TypeOK
  <2>2. placements' \subseteq Placements /\ \A s \in placements' : s.page \in layouts'
    BY <1>1 DEF AppliedRows, AppliedPlacements, Placements
  <2>3. undisturbed' \subseteq Runs /\ applied' \in BOOLEAN /\ converged' \in BOOLEAN
    BY <1>2 DEF TypeOK
  <2>4. QED
    BY <1>1, <1>2, <2>1, <2>2, <2>3, EndIs DEF TypeOK, AppliedRows, AppliedPlacements
<1>5. Stable /\ RowsInv' /\ \A p \in Pages : \A k \in Desired(p) : Placed(p, k) \/ Adds(b, p, k) => Placed(p, k)'
  BY <1>1, <1>3, ApplyRows
<1>6. StayInv'
  BY <1>3, <1>5 DEF StayInv, PlanOK, Stationary
<1>7. converged' => Whole'
  <2>1. SUFFICES ASSUME converged \/ b \in undisturbed PROVE Whole'
    BY <1>2
  <2>2. Complete(b)
    BY <1>3, <2>1, WholeIsComplete DEF FreshPlan
  <2>3. QED
    BY <1>1, <1>3, <2>2, ApplyWhole
<1>8. ASSUME NEW c \in Runs PROVE RunOK(c)'
  <2>1. UNCHANGED <<seenLayouts[c], seenPlacements[c]>> /\ SeenOK(c)
    BY <1>2, EndIs DEF RunsInv, RunOK
  <2>2. SeenOK(c)'
    BY <1>4, <1>5, <2>1, SeenStays
  <2>3. CASE c = b
    BY <1>2, <2>2, <2>3, EndIs DEF RunOK
  <2>4. CASE c # b
    <3>1. UNCHANGED <<pc[c], plan[c]>> /\ RunOK(c)
      BY <1>2, <2>4, EndIs DEF RunsInv
    <3>2. pc[c] = "planned" => PlanOK(c)'
      BY <3>1, <1>4, <1>5, PlanStays DEF RunOK
    <3>3. c \in undisturbed /\ pc[c] = "placementsRead" => FreshSeen(c)'
      BY <1>1, <1>3, <2>1, <3>1, ApplyFresh DEF RunOK
    <3>4. c \in undisturbed /\ pc[c] = "planned" => FreshPlan(c)'
      BY <1>1, <1>3, <2>1, <3>1, ApplyFresh DEF RunOK
    <3>5. QED
      BY <1>2, <2>2, <3>1, <3>2, <3>3, <3>4 DEF RunOK
  <2>5. QED
    BY <2>3, <2>4
<1>9. QED
  BY <1>4, <1>5, <1>6, <1>7, <1>8 DEF RunsInv

-----------------------------------------------------------------------------
(* Editors.                                                                *)

\* What every edit does to the rows, and what it leaves.
EditedRows ==
    /\ revision' \in [Pages -> Nat] /\ lastId' \in 0..MaxId /\ lastId <= lastId'
    /\ definitions' \subseteq Definitions /\ \A d \in definitions' : d.id <= lastId'
    /\ \A d, e \in definitions' : d.id = e.id \/ (d.key = e.key /\ d.key # None) => d = e
    /\ \A d \in definitions' :
          \/ \E e \in definitions : d.id = e.id /\ d.key = e.key /\ d.type = e.type
          \/ ~(d.id <= lastId) /\ d.key = None
    /\ \A d \in definitions' : d \in definitions \/ d.changed
    /\ placements' \subseteq Placements
    /\ \A s, t \in placements' : s.page = t.page /\ s.definition = t.definition => s = t
    /\ \A s \in placements' : s.page \in layouts /\ \E d \in definitions' : d.id = s.definition
    /\ \A s \in placements' :
          \/ \E t \in placements : t.page = s.page /\ t.definition = s.definition
          \/ ~(s.definition <= lastId)
    /\ \A s, t \in placements', d \in definitions' :
          d.id = s.definition /\ d.id = t.definition /\ ~(d.id <= lastId) /\ d.type = "PAGE_CUSTOM_HTML"
              => s.page = t.page
    /\ \A s \in placements, e \in definitions : e.id = s.definition /\ e.type \notin CustomTypes =>
          /\ \E t \in placements' : t.page = s.page /\ t.definition = s.definition
          /\ \E d \in definitions' : d.id = e.id /\ d.key = e.key

LEMMA EditStep == ASSUME BInv, EditedRows, Edited PROVE BInv'
<1> USE DEF BInv
<1>1. /\ UNCHANGED <<pc, seenLayouts, seenPlacements, plan, stray, layouts, applied>>
      /\ undisturbed' = {} /\ converged' = FALSE
  BY DEF Edited, runVars
<1>2. TypeOK'
  BY <1>1 DEF TypeOK, EditedRows
<1>3. ASSUME NEW d \in definitions', d.id <= lastId
      PROVE  \E e \in definitions : d.id = e.id /\ d.key = e.key /\ d.type = e.type
  BY <1>3 DEF EditedRows
<1>4. \A d \in definitions' : Wrong(d) => \E e \in definitions : Wrong(e)
  BY KeysAre DEF EditedRows, Wrong, Keys
<1>5. ASSUME NEW p \in Pages, NEW k \in Stationary(p), Placed(p, k) PROVE Placed(p, k)'
  <2>1. PICK s \in placements, e \in definitions : s.page = p /\ e.id = s.definition /\ e.key = k
    BY <1>5 DEF Placed, HasKey
  <2>2. k \in SystemKeys \cup {Contacts} /\ k \notin CustomKeys \cup {None}
    BY KeysAre DEF Stationary, Keys, WantedKeys, PageKeys
  <2>3. e.type \notin CustomTypes
    BY <2>1, <2>2, TypeOfIs DEF RowsInv, CustomTypes
  <2>4. PICK t \in placements', d \in definitions' :
           t.page = p /\ t.definition = s.definition /\ d.id = e.id /\ d.key = k
    BY <2>1, <2>3 DEF EditedRows
  <2>5. QED
    BY <2>1, <2>4 DEF Placed, HasKey
<1>6. Stable
  BY <1>1, <1>3, <1>4, <1>5 DEF Stable, EditedRows, TypeOK
<1>7. StayInv'
  BY <1>1, <1>5 DEF StayInv
<1>8. RowsInv'
  <2>1. \A d \in definitions' : d.key \notin CustomKeys \cup {None} => d.type = TypeOf(d.key)
    BY DEF EditedRows, RowsInv
  <2>2. ASSUME NEW s \in placements', NEW d \in definitions', d.id = s.definition, d.key # None
        PROVE  \E t \in placements, e \in definitions :
                  t.page = s.page /\ e.id = t.definition /\ d.key = e.key /\ d.type = e.type
    <3>1. PICK e \in definitions : d.id = e.id /\ d.key = e.key /\ d.type = e.type
      BY <2>2 DEF EditedRows
    <3>2. d.id <= lastId
      BY <3>1 DEF RowsInv
    <3>3. PICK t \in placements : t.page = s.page /\ t.definition = s.definition
      BY <2>2, <3>2 DEF EditedRows
    <3>4. QED
      BY <2>2, <3>1, <3>3
  <2>3. ASSUME NEW s \in placements', NEW d \in definitions', d.id = s.definition
        PROVE  (d.key \in PageKeys \cup {Obsolete} => s.page = Owner[d.key]) /\ ~Wrong(d)
    BY <2>2, <2>3, KeysAre DEF RowsInv, Wrong, Keys, WantedKeys
  <2>4. ASSUME NEW s \in placements', NEW t \in placements', NEW d \in definitions',
               d.id = s.definition, d.id = t.definition, d.key = None, d.type = "PAGE_CUSTOM_HTML"
        PROVE  s.page = t.page
    <3>1. CASE d.id <= lastId
      <4>1. PICK e \in definitions : d.id = e.id /\ d.key = e.key /\ d.type = e.type
        BY <1>3, <3>1
      <4>2. PICK u \in placements : u.page = s.page /\ u.definition = s.definition
        BY <2>4, <3>1 DEF EditedRows
      <4>3. PICK v \in placements : v.page = t.page /\ v.definition = t.definition
        BY <2>4, <3>1 DEF EditedRows
      <4>4. e.id = u.definition /\ e.id = v.definition /\ e.key = None /\ e.type = "PAGE_CUSTOM_HTML"
        BY <2>4, <4>1, <4>2, <4>3
      <4>5. u.page = v.page
        BY <4>4 DEF RowsInv
      <4>6. QED
        BY <4>2, <4>3, <4>5
    <3>2. CASE ~(d.id <= lastId)
      <4>1. \A x, y \in placements', e \in definitions' :
               e.id = x.definition /\ e.id = y.definition /\ ~(e.id <= lastId) /\ e.type = "PAGE_CUSTOM_HTML"
                   => x.page = y.page
        BY DEF EditedRows
      <4>2. QED
        BY <2>4, <3>2, <4>1
    <3>3. QED
      BY <3>1, <3>2
  <2>5. QED
    BY <2>1, <2>3, <2>4 DEF RowsInv, EditedRows
<1>9. ASSUME NEW c \in Runs PROVE RunOK(c)'
  <2>1. RunOK(c) /\ UNCHANGED <<pc[c], seenLayouts[c], seenPlacements[c], plan[c]>> /\ undisturbed' = {}
    BY <1>1 DEF RunsInv
  <2>2. SeenOK(c)'
    BY <1>2, <1>6, <2>1, SeenStays DEF RunOK
  <2>3. pc'[c] = "planned" => PlanOK(c)'
    BY <1>2, <1>6, <2>1, PlanStays DEF RunOK
  <2>4. QED
    BY <2>1, <2>2, <2>3 DEF RunOK
<1>10. QED
  BY <1>1, <1>2, <1>7, <1>8, <1>9 DEF RunsInv

LEMMA NextPositionType ==
    ASSUME TypeOK, NEW p \in Pages
    PROVE  NextPosition(p) \in Nat /\ IsFiniteSet(OnPage(p))
<1> DEFINE S == OnPage(p)
           O == {0} \cup {s.order + 1 : s \in S}
           f == [s \in S |-> s.order + 1]
<1>1. /\ \A s \in S : s.page \in Pages /\ s.definition \in 1..MaxId /\ s.order \in Nat
      /\ \A s, t \in S : s.page = t.page /\ s.definition = t.definition => s = t
  BY DEF TypeOK, Placements, OnPage
<1>2. IsFiniteSet(S)
  <2> HIDE DEF S
  <2>1. QED
    BY <1>1, PairsFinite
<1>3. f \in Surjection(S, {s.order + 1 : s \in S})
  BY DEF Surjection
<1>4. IsFiniteSet({s.order + 1 : s \in S})
  BY <1>2, <1>3, FS_Surjection
<1>5. IsFiniteSet(O)
  BY <1>4, FS_Singleton, FS_Union
<1>6. O \in SUBSET Nat /\ O # {}
  BY <1>1
<1>7. NextPosition(p) = Max(O)
  BY DEF NextPosition
<1> HIDE DEF O
<1>8. PICK n \in Nat : \A x \in O : x <= n
  BY <1>5, <1>6, FiniteIsBounded
<1>9. QED
  BY <1>2, <1>6, <1>7, <1>8, MaxOfBounded

\* A new section, on the pages of Q.
LEMMA CreateRows ==
    ASSUME BInv, revision' \in [Pages -> Nat], NEW type \in CustomTypes, NEW Q \in SUBSET layouts,
           type = "PAGE_CUSTOM_HTML" => \E p \in Pages : Q = {p},
           lastId < MaxId, lastId' = lastId + 1, definitions' = definitions \cup {New(type)},
           placements' = placements \cup {Place(p) : p \in Q}
    PROVE  EditedRows
<1> USE DEF BInv
<1> DEFINE n == New(type)
           i == lastId + 1
<1>1. lastId \in Nat /\ MaxId \in Nat /\ i \in 1..MaxId /\ ~(i <= lastId) /\ lastId <= i
  BY BoundsAssumption DEF TypeOK
<1>2. n \in Definitions /\ n.id = i /\ n.key = None /\ n.type = type /\ n.changed
  BY <1>1 DEF New, Definitions, CustomTypes, Types
<1>3. \A p \in Q : /\ Place(p) \in Placements /\ Place(p).page = p /\ Place(p).definition = i
                   /\ p \in layouts /\ p \in Pages
  BY <1>1, NextPositionType DEF Place, Placements, TypeOK
<1>4. \A d \in definitions : d \in Definitions /\ d.id <= lastId
  BY DEF TypeOK, RowsInv
<1>5. \A s \in placements : s \in Placements /\ s.definition <= lastId
  BY <1>4 DEF TypeOK
<1> HIDE DEF n, i
<1>6. definitions' = definitions \cup {n} /\ lastId' = i
  BY DEF n, i
<1>7. /\ definitions' \subseteq Definitions /\ \A d \in definitions' : d.id <= i
      /\ \A d, e \in definitions' : d.id = e.id \/ (d.key = e.key /\ d.key # None) => d = e
      /\ \A d \in definitions' :
            \/ \E e \in definitions : d.id = e.id /\ d.key = e.key /\ d.type = e.type
            \/ ~(d.id <= lastId) /\ d.key = None
  <2>1. \A d \in definitions' : d.id <= i
    <3>1. \A d \in definitions : d.id \in Nat
      BY <1>4, RowFields
    <3>2. QED
      BY <1>1, <1>2, <1>4, <1>6, <3>1
  <2>2. QED
    BY <1>1, <1>2, <1>4, <1>6, <2>1 DEF TypeOK
<1>8. \A s \in placements' : s \in placements \/ \E p \in Q : s = Place(p)
  OBVIOUS
<1>9. /\ placements' \subseteq Placements
      /\ \A s, t \in placements' : s.page = t.page /\ s.definition = t.definition => s = t
      /\ \A s \in placements' : s.page \in layouts /\ \E d \in definitions' : d.id = s.definition
  <2>1. placements' \subseteq Placements
    BY <1>3, <1>5, <1>8
  <2>2. \A s, t \in placements' : s.page = t.page /\ s.definition = t.definition => s = t
    BY <1>1, <1>3, <1>5, <1>8 DEF TypeOK
  <2>3. \A s \in placements' : s.page \in layouts /\ \E d \in definitions' : d.id = s.definition
    BY <1>2, <1>3, <1>6, <1>8 DEF TypeOK
  <2>4. QED
    BY <2>1, <2>2, <2>3
<1>10. \A s \in placements' : s \in placements \/ ~(s.definition <= lastId)
  BY <1>1, <1>3, <1>8
<1>11. ASSUME NEW s \in placements', NEW t \in placements', NEW d \in definitions',
              d.id = s.definition, d.id = t.definition, ~(d.id <= lastId), d.type = "PAGE_CUSTOM_HTML"
       PROVE  s.page = t.page
  <2>1. d = n
    BY <1>4, <1>6, <1>11
  <2>2. PICK p \in Pages : Q = {p}
    BY <1>2, <1>11, <2>1
  <2>3. QED
    BY <1>3, <1>5, <1>8, <1>11, <2>2
<1>12. /\ placements \subseteq placements' /\ definitions \subseteq definitions'
       /\ \A d \in definitions' : d \in definitions \/ d.changed
  BY <1>2, <1>6
<1>13. lastId' \in 0..MaxId /\ lastId <= lastId'
  BY <1>1, <1>6
<1>14. QED
  BY <1>6, <1>7, <1>9, <1>10, <1>11, <1>12, <1>13 DEF EditedRows

\* A section that is rewritten.
LEMMA ChangeRows ==
    ASSUME BInv, revision' \in [Pages -> Nat], NEW d \in definitions, Change(d), UNCHANGED <<lastId, placements>>
    PROVE  EditedRows
<1> USE DEF BInv
<1> DEFINE n == Dirty(d)
<1>1. n \in Definitions /\ n.id = d.id /\ n.key = d.key /\ n.type = d.type /\ n.changed
  BY DirtyIs DEF TypeOK
<1>2. definitions' = (definitions \ {d}) \cup {n}
  BY DEF Change, Dirty
<1> HIDE DEF n
<1>3. /\ definitions' \subseteq Definitions /\ \A e \in definitions' : e.id <= lastId
      /\ \A c, e \in definitions' : c.id = e.id \/ (c.key = e.key /\ c.key # None) => c = e
      /\ \A c \in definitions' : \E e \in definitions : c.id = e.id /\ c.key = e.key /\ c.type = e.type
      /\ \A e \in definitions : \E c \in definitions' : c.id = e.id /\ c.key = e.key
      /\ \A e \in definitions' : e \in definitions \/ e.changed
  BY <1>1, <1>2 DEF TypeOK, RowsInv
<1>4. lastId' \in 0..MaxId /\ lastId <= lastId'
  BY DEF TypeOK
<1>5. QED
  BY <1>3, <1>4 DEF EditedRows, TypeOK

\* A section that is deleted, with its places.
LEMMA DeleteRows ==
    ASSUME BInv, revision' \in [Pages -> Nat], NEW d \in definitions, d.type \in CustomTypes,
           Delete(d), UNCHANGED lastId
    PROVE  EditedRows
<1> USE DEF BInv
<1>1. definitions' = definitions \ {d} /\ placements' = {s \in placements : s.definition # d.id}
  BY DEF Delete
<1>2. lastId' \in 0..MaxId /\ lastId <= lastId'
  BY DEF TypeOK
<1>3. \A s \in placements' : s.page \in layouts /\ \E e \in definitions' : e.id = s.definition
  BY <1>1 DEF TypeOK
<1>4. \A s \in placements, e \in definitions : e.id = s.definition /\ e.type \notin CustomTypes =>
         s \in placements' /\ e \in definitions'
  BY <1>1 DEF TypeOK
<1>5. QED
  BY <1>1, <1>2, <1>3, <1>4 DEF EditedRows, TypeOK, RowsInv

LEMMA ReorderRows ==
    ASSUME BInv, NEW p \in Pages, Reorder(p)
    PROVE  EditedRows /\ \A q \in Pages : q # p => {s \in placements' : s.page = q} = OnPage(q)
<1> USE DEF BInv
<1>1. PICK s \in OnPage(p) :
         LET others == OnPage(p) \ {s} IN
         placements' = (placements \ OnPage(p))
             \cup {[t EXCEPT !.order = Cardinality({u \in others : Before(u, t)})] : t \in others}
             \cup {[s EXCEPT !.order = Cardinality(others)]}
  BY DEF Reorder
<1> DEFINE others == OnPage(p) \ {s}
           Order(t) == IF t = s THEN Cardinality(others) ELSE Cardinality({u \in others : Before(u, t)})
           Move(t) == [t EXCEPT !.order = Order(t)]
<1>2. \A t \in OnPage(p) : t \in placements /\ t \in Placements /\ t.page = p
  BY DEF OnPage, TypeOK
<1>3. ASSUME NEW t PROVE Order(t) \in Nat
  <2>1. IsFiniteSet(OnPage(p)) /\ others \in SUBSET OnPage(p) /\ {u \in others : Before(u, t)} \in SUBSET OnPage(p)
    BY NextPositionType
  <2>2. Cardinality(others) \in Nat /\ Cardinality({u \in others : Before(u, t)}) \in Nat
    BY <2>1, FS_Subset, FS_CardinalityType
  <2>3. QED
    BY <2>2
<1>4. placements' = (placements \ OnPage(p)) \cup {Move(t) : t \in OnPage(p)}
  BY <1>1
<1> HIDE DEF Order
<1>5. \A t \in OnPage(p) : Move(t) \in Placements /\ Move(t).page = p /\ Move(t).definition = t.definition
  BY <1>2, <1>3 DEF Placements
<1> HIDE DEF Move
<1>6. \A t \in placements' : \/ t \in placements /\ t.page # p
                             \/ \E u \in OnPage(p) : t = Move(u)
  BY <1>4 DEF OnPage
<1>7. \A t \in placements : t.page # p => t \in placements'
  BY <1>4 DEF OnPage
<1>8. \A t \in OnPage(p) : Move(t) \in placements'
  BY <1>4
<1>9. \A t \in placements : \E u \in placements' : u.page = t.page /\ u.definition = t.definition
  BY <1>2, <1>5, <1>7, <1>8 DEF OnPage
<1>10. \A t \in placements' : \E u \in placements : u.page = t.page /\ u.definition = t.definition
  BY <1>2, <1>5, <1>6
<1>11. \A t, u \in placements' : t.page = u.page /\ t.definition = u.definition => t = u
  BY <1>2, <1>5, <1>6 DEF TypeOK
<1>12. placements' \subseteq Placements
  BY <1>2, <1>5, <1>6 DEF TypeOK
<1>13. /\ UNCHANGED <<definitions, lastId>> /\ lastId' \in 0..MaxId /\ lastId <= lastId'
       /\ revision' \in [Pages -> Nat]
  BY DEF Reorder, Reserve, TypeOK
<1>14. EditedRows
  BY <1>9, <1>10, <1>11, <1>12, <1>13 DEF EditedRows, TypeOK, RowsInv
<1>15. ASSUME NEW q \in Pages, q # p PROVE {t \in placements' : t.page = q} = OnPage(q)
  BY <1>5, <1>6, <1>7, <1>15 DEF OnPage
<1>16. QED
  BY <1>14, <1>15

\* An edit of one page changes no other page.
LEMMA PageEdit ==
    ASSUME BInv, NEW p \in Pages, EditPage(p)
    PROVE  /\ EditedRows /\ Edited
           /\ revision'[p] > revision[p]
           /\ \A q \in Pages : q # p => {s \in placements' : s.page = q} = OnPage(q)
<1> USE DEF BInv
<1>1. Reserve(p)
  BY DEF EditPage, CreatePageCustom, UpdatePageCustom, DeletePageCustom, Reorder
<1>2. /\ Edited /\ p \in layouts /\ revision' \in [Pages -> Nat] /\ revision'[p] > revision[p]
  BY <1>1 DEF Reserve, TypeOK
<1>3. CASE CreatePageCustom(p)
  <2>1. /\ lastId < MaxId /\ lastId' = lastId + 1 /\ definitions' = definitions \cup {New("PAGE_CUSTOM_HTML")}
        /\ placements' = placements \cup {Place(p)}
    BY <1>3 DEF CreatePageCustom
  <2>2. PICK Q \in SUBSET layouts : Q = {p} /\ placements' = placements \cup {Place(q) : q \in Q}
    <3>1. {p} \in SUBSET layouts /\ placements' = placements \cup {Place(q) : q \in {p}}
      BY <1>2, <2>1
    <3>2. QED
      BY <3>1
  <2>3. EditedRows
    <3>1. "PAGE_CUSTOM_HTML" \in CustomTypes /\ \E q \in Pages : Q = {q}
      BY <2>2 DEF CustomTypes
    <3>2. QED
      BY <1>2, <2>1, <2>2, <3>1, CreateRows
  <2>4. \A q \in Pages : q # p => {s \in placements' : s.page = q} = OnPage(q)
    BY <2>1 DEF Place, OnPage
  <2>5. QED
    BY <1>2, <2>3, <2>4
<1>4. CASE UpdatePageCustom(p)
  <2>1. PICK d \in Custom("PAGE_CUSTOM_HTML", p) : Change(d)
    BY <1>4 DEF UpdatePageCustom
  <2>2. d \in definitions /\ UNCHANGED <<lastId, placements>>
    BY <1>4, <2>1 DEF UpdatePageCustom, Custom
  <2>3. EditedRows
    BY <1>2, <2>1, <2>2, ChangeRows
  <2>4. QED
    BY <1>2, <2>2, <2>3 DEF OnPage
<1>5. CASE DeletePageCustom(p)
  <2>1. PICK d \in Custom("PAGE_CUSTOM_HTML", p) : Delete(d)
    BY <1>5 DEF DeletePageCustom
  <2>2. d \in definitions /\ d.type = "PAGE_CUSTOM_HTML" /\ UNCHANGED lastId
    BY <1>5, <2>1 DEF DeletePageCustom, Custom
  <2>3. PICK s \in placements : s.page = p /\ s.definition = d.id
    BY <2>1 DEF Custom, OnPage
  <2>4. EditedRows
    BY <1>2, <2>1, <2>2, DeleteRows DEF CustomTypes
  \* The section is on no other page, whether an editor or a plan has made it.
  <2>5. ASSUME NEW t \in placements, t.definition = d.id PROVE t.page = p
    <3>1. CASE d.key = None
      BY <2>2, <2>3, <2>5, <3>1 DEF RowsInv
    <3>2. CASE d.key \in CustomKeys
      BY <2>2, <2>3, <2>5, <3>2 DEF RowsInv, PageKeys
    <3>3. CASE d.key \notin CustomKeys \cup {None}
      <4>1. d.key \in Keys /\ TypeOf(d.key) = "PAGE_CUSTOM_HTML"
        BY <2>2, <3>3, RowFields DEF RowsInv, TypeOK
      <4>2. d.key \in SystemKeys \cup {Obsolete, Contacts}
        BY <2>2, <2>3, <3>3, <4>1, TypeOfIs DEF Keys, WantedKeys, PageKeys
      <4>3. QED
        BY <4>1, <4>2, TypeOfIs
    <3>4. QED
      BY <3>1, <3>2, <3>3
  <2>6. \A q \in Pages : q # p => {t \in placements' : t.page = q} = OnPage(q)
    BY <2>1, <2>5 DEF Delete, OnPage
  <2>7. QED
    BY <1>2, <2>4, <2>6
<1>6. CASE Reorder(p)
  BY <1>2, <1>6, ReorderRows
<1>7. QED
  BY <1>3, <1>4, <1>5, <1>6 DEF EditPage

LEMMA GlobalEdit ==
    ASSUME BInv, EditGlobals
    PROVE  /\ EditedRows /\ Edited
           /\ \A p \in Pages : revision'[p] > revision[p] \/ {s \in placements' : s.page = p} = OnPage(p)
<1> USE DEF BInv
<1>1. ASSUME ReserveAll
      PROVE  Edited /\ revision' \in [Pages -> Nat] /\ layouts = Pages /\ \A p \in Pages : revision'[p] > revision[p]
  BY <1>1 DEF ReserveAll, TypeOK
<1>2. CASE CreateGlobal
  <2>1. /\ ReserveAll /\ lastId < MaxId /\ lastId' = lastId + 1
        /\ definitions' = definitions \cup {New("GLOBAL_CUSTOM_HTML")}
        /\ placements' = placements \cup {Place(p) : p \in Pages}
    BY <1>2 DEF CreateGlobal
  <2>2. EditedRows
    BY <1>1, <2>1, CreateRows DEF CustomTypes
  <2>3. QED
    BY <1>1, <2>1, <2>2
<1>3. CASE UpdateGlobal
  <2>1. PICK d \in definitions : Change(d)
    BY <1>3 DEF UpdateGlobal
  <2>2. Edited /\ UNCHANGED <<revision, lastId, placements>>
    BY <1>3 DEF UpdateGlobal
  <2>3. EditedRows
    BY <2>1, <2>2, ChangeRows DEF TypeOK
  <2>4. QED
    BY <2>2, <2>3 DEF OnPage
<1>4. CASE DeleteGlobal
  <2>1. PICK d \in definitions : (\A p \in Pages : d \in Custom("GLOBAL_CUSTOM_HTML", p)) /\ Delete(d)
    BY <1>4 DEF DeleteGlobal
  <2>2. ReserveAll /\ UNCHANGED lastId
    BY <1>4 DEF DeleteGlobal
  <2>3. d.type \in CustomTypes
    BY <2>1, KeysAre DEF Custom, CustomTypes
  <2>4. EditedRows
    BY <1>1, <2>1, <2>2, <2>3, DeleteRows
  <2>5. QED
    BY <1>1, <2>2, <2>4
<1>5. QED
  BY <1>2, <1>3, <1>4 DEF EditGlobals

LEMMA Invariance == Spec => []BInv
<1>1. Init => BInv
  BY InitBInv
<1>2. BInv /\ [Next]_vars => BInv'
  <2> SUFFICES ASSUME BInv, [Next]_vars PROVE BInv'
    OBVIOUS
  <2>1. ASSUME NEW b \in Runs, Analyze(b) \/ Apply(b) \/ Abort(b) PROVE BInv'
    BY <2>1, ReadLayoutsStep, ReadPlacementsStep, ReadDefinitionsStep, ApplyStep, AbortStep DEF Analyze
  <2>2. ASSUME NEW p \in Pages, EditPage(p) PROVE BInv'
    BY <2>2, PageEdit, EditStep
  <2>3. CASE EditGlobals
    BY <2>3, GlobalEdit, EditStep
  <2>4. CASE UNCHANGED vars
    <3>1. UNCHANGED tables /\ UNCHANGED runVars /\ UNCHANGED history
      BY <2>4 DEF vars
    <3>2. TypeOK'
      BY <3>1 DEF BInv, TypeOK, tables, runVars, history
    <3>3. RowsInv' /\ (converged' => Whole')
      BY <3>1, SameTables DEF BInv, history
    <3>4. StayInv'
      BY <3>1 DEF BInv, StayInv, tables, history, Placed, HasKey
    <3>5. ASSUME NEW c \in Runs PROVE RunOK(c)'
      <4>1. UNCHANGED <<pc[c], seenLayouts[c], seenPlacements[c], plan[c]>>
        BY <3>1 DEF runVars
      <4>2. QED
        BY <3>1, <3>2, <4>1, IdleRun DEF BInv, RunsInv, history
    <3>6. QED
      BY <3>2, <3>3, <3>4, <3>5 DEF BInv, RunsInv
  <2>5. QED
    BY <2>1, <2>2, <2>3, <2>4 DEF Next
<1>3. QED
  BY <1>1, <1>2, PTL DEF Spec

-----------------------------------------------------------------------------
(* The theorems.                                                           *)

\* Whatever runs and editors do between each other's steps, the rows fit
\* together, and once a plan was applied no section of the registry and no
\* contacts are taken off a page again.
THEOREM Repairs == Spec => []RegistryIsConsistent
<1>1. BInv => RegistryIsConsistent
  <2> SUFFICES ASSUME BInv PROVE RegistryIsConsistent
    OBVIOUS
  <2> USE DEF BInv
  <2>1. ASSUME applied, NEW p \in Pages, NEW k \in Desired(p) \cap (SystemKeys \cup {Contacts})
        PROVE  \E s \in placements : s.page = p /\ KeyOf(s.definition) = k
    <3>1. PICK s \in placements, d \in definitions : s.page = p /\ d.id = s.definition /\ d.key = k
      BY <2>1 DEF StayInv, Stationary, Placed, HasKey
    <3>2. KeyOf(s.definition) = k
      BY <3>1, KeyOfIs
    <3>3. QED
      BY <3>1, <3>2
  <2>2. QED
    BY <2>1 DEF RegistryIsConsistent, SystemSectionsStay
<1>2. QED
  BY <1>1, Invariance, PTL

\* What a run that no editor disturbed has applied leaves the next run nothing
\* to do, whatever other runs had committed in between.
THEOREM Idempotent == Spec => []RepeatedApplyIsNoOp
<1>1. BInv => RepeatedApplyIsNoOp
  <2> SUFFICES ASSUME BInv, converged PROVE RepeatedApplyIsNoOp
    BY DEF RepeatedApplyIsNoOp
  <2> USE DEF BInv
  <2> DEFINE See(s) == [page |-> s.page, definition |-> s.definition, order |-> s.order, key |-> KeyOf(s.definition)]
             S == {See(s) : s \in placements}
             D == definitions
             A == UNION {ToAdd(p, S) : p \in Pages}
  <2>1. Whole
    OBVIOUS
  <2>2. \A s \in S : \E t \in placements : s.page = t.page /\ s.definition = t.definition
    OBVIOUS
  <2>3. \A s \in placements : See(s) \in S /\ See(s).page = s.page /\ See(s).key = KeyOf(s.definition)
    OBVIOUS
  <2> HIDE DEF S, See
  <2>4. Blocked(D) = FALSE
    BY <2>1 DEF Blocked, Whole, Wrong
  <2>5. Pages \ layouts = {}
    BY <2>1 DEF Whole
  <2>6. ToCreate(D) = {} /\ ToUpdate(D) = {}
    BY <2>1 DEF Whole, ToCreate, ToUpdate, IdsOf
  <2>7. ASSUME NEW p \in Pages PROVE ToAdd(p, S) = {}
    <3>1. ASSUME NEW k \in Desired(p) PROVE \E s \in S : s.page = p /\ s.key = k
      <4>1. PICK s \in placements, d \in definitions : s.page = p /\ d.id = s.definition /\ d.key = k
        BY <2>1 DEF Whole, Placed, HasKey
      <4>2. KeyOf(s.definition) = k
        BY <4>1, KeyOfIs
      <4>3. QED
        BY <4>1, <4>2, <2>3
    <3>2. Desired(p) \ {s.key : s \in {t \in S : t.page = p}} = {}
      BY <3>1
    <3>3. QED
      BY <3>2 DEF ToAdd
  <2>8. A = {}
    BY <2>7
  <2>9. ToRemove(S, D) = {}
    <3>1. SUFFICES ASSUME NEW s \in S, NEW d \in D, d.id = s.definition, Removable(s.page, d.key) PROVE FALSE
      BY DEF ToRemove, IdsOf, Removable
    <3>2. PICK t \in placements : s.page = t.page /\ s.definition = t.definition
      BY <2>2
    <3>3. QED
      BY <2>1, <3>1, <3>2 DEF Whole
  <2>10. ToDrop(S, D) = {}
    BY <2>1 DEF Whole, ToDrop, IdsOf
  <2> HIDE DEF A
  <2>11. ToBump(S, D, A) = {}
    BY <2>6, <2>8, <2>9 DEF ToBump
  <2>12. {d.id : d \in ToUpdate(D)} = {} /\ {[page |-> s.page, definition |-> s.definition] : s \in ToRemove(S, D)} = {}
    BY <2>6, <2>9
  <2>13. Plan(layouts, S, D) = NoPlan
    BY <2>4, <2>5, <2>6, <2>8, <2>10, <2>11, <2>12 DEF Plan, NoPlan, A
  <2>14. QED
    BY <2>13 DEF RepeatedApplyIsNoOp, S, See
<1>2. QED
  BY <1>1, Invariance, PTL

\* The revision of page p moves when its places or the text of a section do.
Noticed(p) ==
    {s \in placements' : s.page = p} # OnPage(p) \/ Restored(p) => revision'[p] > revision[p]

\* Only an apply restores what an editor has changed.
LEMMA NothingRestored ==
    ASSUME BInv, NEW p, \A d \in definitions' : d \in definitions \/ d.changed
    PROVE  ~Restored(p)
<1>1. SUFFICES ASSUME NEW d \in definitions, d.changed, Cleared(d) \in definitions' PROVE FALSE
  BY DEF Restored, Cleared
<1>2. /\ ~Cleared(d).changed /\ Cleared(d).id = d.id
  BY ClearedIs DEF BInv, TypeOK
<1>3. Cleared(d) \in definitions
  BY <1>1, <1>2
<1>4. Cleared(d) = d
  BY <1>2, <1>3 DEF BInv, TypeOK
<1>5. QED
  BY <1>1, <1>2, <1>4

LEMMA ApplyNoticed ==
    ASSUME BInv, BInv', NEW b \in Runs, Apply(b), NEW p \in Pages
    PROVE  Noticed(p)
<1> USE DEF BInv
<1> DEFINE P == plan[b]
<1>1. AppliedRows(b) /\ AppliedPlacements(b) /\ PlanOK(b) /\ (b \in undisturbed => FreshPlan(b))
  BY ApplyIs, EndIs DEF Apply, RunsInv, RunOK
<1>2. p \in P.bump => revision'[p] > revision[p]
  BY DEF Apply, TypeOK
<1>3. SUFFICES ASSUME {s \in placements' : s.page = p} # OnPage(p) \/ Restored(p) PROVE p \in P.bump
  BY <1>2 DEF Noticed
<1>4. ASSUME NEW s \in placements, s.page = p, Pair(s) \in P.remove PROVE p \in P.bump
  BY <1>1, <1>4 DEF PlanOK, Pair
<1>5. ASSUME NEW a \in P.add, a.page = p PROVE p \in P.bump
  BY <1>1, <1>5 DEF PlanOK
<1>6. CASE {s \in placements' : s.page = p} # OnPage(p)
  <2>1. CASE \E s \in placements : s.page = p /\ s \notin placements'
    BY <1>1, <1>4, <2>1 DEF AppliedPlacements
  <2>2. CASE \E s \in placements' : s.page = p /\ s \notin placements
    BY <1>1, <1>5, <2>2 DEF AppliedPlacements
  <2>3. QED
    BY <1>6, <2>1, <2>2 DEF OnPage
<1>7. CASE Restored(p)
  <2>1. PICK s \in placements, d \in definitions :
           /\ s.page = p /\ d.id = s.definition /\ d.changed /\ Cleared(d) \in definitions'
           /\ d.type = "PAGE_CUSTOM_HTML" \/ converged'
    BY <1>7 DEF Restored, OnPage, Cleared
  <2>2. d.id \in P.update
    <3>1. ~Cleared(d).changed /\ Cleared(d).id = d.id /\ d.id <= lastId
      BY ClearedIs DEF TypeOK, RowsInv
    <3>2. PICK e \in definitions : Is(Cleared(d), e, P)
      BY <1>1, <2>1, <3>1 DEF AppliedRows
    <3>3. e = d /\ Cleared(d) # d
      BY <2>1, <3>1, <3>2 DEF Is, TypeOK
    <3>4. QED
      BY <3>2, <3>3 DEF Is
  <2>3. d.key \in WantedKeys /\ (d.key \in PageKeys => Owner[d.key] \in P.bump)
    BY <1>1, <2>2 DEF PlanOK
  <2>4. CASE d.key \in PageKeys
    BY <2>1, <2>3, <2>4 DEF RowsInv
  <2>5. CASE d.key \notin PageKeys
    <3>1. d.key \in {Contacts} \cup GlobalKeys /\ d.type = TypeOf(d.key)
      BY <2>1, <2>3, <2>5 DEF RowsInv, Wrong, WantedKeys
    <3>2. converged'
      BY <2>1, <3>1, TypeOfIs
    <3>3. b \in undisturbed
      BY <2>1, <2>3, <3>2 DEF Whole, Apply
    <3>4. CASE Removable(p, d.key)
      <4>1. Pair(s) \in P.remove
        BY <1>1, <2>1, <3>3, <3>4 DEF FreshPlan, Complete, AppliedRows
      <4>2. QED
        BY <1>4, <2>1, <4>1
    <3>5. CASE ~Removable(p, d.key)
      <4>1. d.key \in Desired(p)
        BY <3>1, <3>5 DEF Removable, Desired
      <4>2. QED
        BY <1>1, <2>2, <2>5, <3>3, <4>1 DEF FreshPlan
    <3>6. QED
      BY <3>4, <3>5
  <2>6. QED
    BY <2>4, <2>5
<1>8. QED
  BY <1>3, <1>6, <1>7

\* An editor who has a page open before a plan is applied that adds, removes or
\* rewrites a section of it gets a conflict afterwards.
THEOREM Notices == Spec => ChangesAreCounted
<1>1. ASSUME BInv, BInv', [Next]_vars PROVE [\A p \in Pages : Noticed(p)]_vars
  <2> SUFFICES ASSUME Next, NEW p \in Pages PROVE Noticed(p)
    BY <1>1
  <2>1. ASSUME NEW b \in Runs, Apply(b) PROVE Noticed(p)
    BY <1>1, <2>1, ApplyNoticed
  <2>2. ASSUME NEW b \in Runs, Analyze(b) \/ Abort(b) PROVE Noticed(p)
    <3>1. UNCHANGED <<definitions, placements>>
      BY <2>2 DEF Analyze, ReadLayouts, ReadPlacements, ReadDefinitions, Abort, tables
    <3>2. ~Restored(p)
      BY <1>1, <3>1, NothingRestored
    <3>3. QED
      BY <3>1, <3>2 DEF Noticed, OnPage
  <2>3. ASSUME EditGlobals \/ \E q \in Pages : EditPage(q) PROVE Noticed(p)
    <3>1. EditedRows /\ (revision'[p] > revision[p] \/ {s \in placements' : s.page = p} = OnPage(p))
      BY <1>1, <2>3, PageEdit, GlobalEdit
    <3>2. ~Restored(p)
      BY <1>1, <3>1, NothingRestored DEF EditedRows
    <3>3. QED
      BY <3>1, <3>2 DEF Noticed
  <2>4. QED
    BY <2>1, <2>2, <2>3 DEF Next
<1>2. (\A p \in Pages : Noticed(p)) <=>
         \A p \in Pages : {s \in placements' : s.page = p} # OnPage(p) \/ Restored(p) => revision'[p] > revision[p]
  BY DEF Noticed
<1>3. QED
  BY <1>1, <1>2, Invariance, PTL DEF Spec, ChangesAreCounted

\* What a plan leaves alone: sections of editors, and the place of any custom
\* section.
Spared ==
    (\E b \in Runs : pc[b] = "planned" /\ pc'[b] = "ended") => \A d \in definitions :
        /\ d.key = None => d \in definitions'
        /\ d.type \in CustomTypes => \A s \in placements : s.definition = d.id => s \in placements'

LEMMA ApplySpares == ASSUME BInv, NEW b \in Runs, Apply(b) PROVE Spared
<1> USE DEF BInv
<1>1. AppliedRows(b) /\ AppliedPlacements(b) /\ PlanOK(b)
  BY ApplyIs, EndIs DEF Apply, RunsInv, RunOK
<1>2. ASSUME NEW d \in definitions, d.key = None PROVE d \in definitions'
  <2>1. PICK e \in definitions' : Is(e, d, plan[b])
    BY <1>1, <1>2, KeysAre DEF AppliedRows, Keys
  <2>2. d.id \notin plan[b].update
    BY <1>1, <1>2, KeysAre DEF PlanOK, Keys
  <2>3. QED
    BY <2>1, <2>2 DEF Is
<1>3. ASSUME NEW d \in definitions, d.type \in CustomTypes, NEW s \in placements, s.definition = d.id
      PROVE  s \in placements'
  <2>1. d.key \notin {Contacts, Obsolete}
    <3>1. Contacts \notin CustomKeys \cup {None} /\ Obsolete \notin CustomKeys \cup {None}
      BY KeysAre DEF Keys, WantedKeys, PageKeys
    <3>2. QED
      BY <1>3, <3>1, TypeOfIs DEF RowsInv, CustomTypes
  <2>2. QED
    BY <1>1, <1>3, <2>1, KeptPlaced DEF Removable
<1>4. QED
  BY <1>2, <1>3 DEF Spared

\* However old the plan, apply rewrites no section that an editor has created
\* and takes no custom section off its page.
THEOREM Spares == Spec => EditorsSectionsStay
<1>1. ASSUME BInv, [Next]_vars PROVE [Spared]_vars
  <2> SUFFICES ASSUME Next PROVE Spared
    BY <1>1
  <2>1. ASSUME NEW b \in Runs, Apply(b) PROVE Spared
    BY <1>1, <2>1, ApplySpares
  <2>2. ASSUME NEW b \in Runs, Abort(b) PROVE Spared
    BY <2>2 DEF Spared, Abort, tables
  <2>3. ASSUME NEW b \in Runs, Analyze(b), NEW c \in Runs, pc[c] = "planned", pc'[c] = "ended" PROVE FALSE
    BY <1>1, <2>3 DEF BInv, TypeOK, Analyze, ReadLayouts, ReadPlacements, ReadDefinitions, Advance
  <2>4. ASSUME EditGlobals \/ \E q \in Pages : EditPage(q), NEW c \in Runs, pc[c] = "planned", pc'[c] = "ended"
        PROVE  FALSE
    <3>1. UNCHANGED pc
      BY <1>1, <2>4, PageEdit, GlobalEdit DEF Edited, runVars
    <3>2. QED
      BY <2>4, <3>1
  <2>5. QED
    BY <2>1, <2>2, <2>3, <2>4 DEF Next, Spared
<1>2. QED
  BY <1>1, Invariance, PTL DEF Spec, EditorsSectionsStay, Spared
=============================================================================
