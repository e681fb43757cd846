-------------------------- MODULE NewsCatalogProofs --------------------------
(***************************************************************************)
(* For any requests, articles, slugs and number of categories: positions   *)
(* stay dense while only createCategory and moveCategory number them, a    *)
(* move exchanges two neighbours, and a category is taken from an article  *)
(* only as deleteCategory may.                                             *)
(*                                                                         *)
(* What a request has read under the advisory lock still holds when it     *)
(* writes: whoever has read holds the lock (HolderInv), and as long as     *)
(* nobody has numbered outside it the number of a new category is the      *)
(* count of the others (CreateInv) and the i-th category of a list has     *)
(* position i - 1 (ListInv).  An article that is filed under a category    *)
(* after its articles were counted is one that the deletion notes          *)
(* (FiledInv).                                                             *)
(*                                                                         *)
(* For any literals of the seed, one that ran to its end while nobody      *)
(* changed what it writes has filled everything: each thing it fills is    *)
(* there or among the statements still to run (Progress), which keep the   *)
(* order of main() (OrderInv).                                             *)
(***************************************************************************)
EXTENDS Deployment, FiniteSetTheorems, SequenceTheorems, WellFoundedInduction, TLAPS

-----------------------------------------------------------------------------
(* Numbers and lists.                                                      *)

\* A set of naturals has a least element, and a bounded one a largest.
LEMMA Least ==
    ASSUME NEW S \in SUBSET Nat, S # {}
    PROVE  \E m \in S : \A k \in S : m <= k
<1> DEFINE R == OpToRel(<, Nat)
<1>1. IsWellFoundedOn(R, Nat)
  BY NatLessThanWellFounded
<1>2. \A k, m \in Nat : k < m => <<k, m>> \in R
  BY DEF OpToRel
<1> HIDE DEF R
<1>3. PICK m \in S : \A k \in S : <<k, m>> \notin R
  BY <1>1, WFMin, Zenon
<1>4. ASSUME NEW k \in S PROVE m <= k
  <2>1. <<k, m>> \notin R
    BY <1>3
  <2>2. ~(k < m)
    BY <1>2, <2>1, Zenon
  <2>3. QED
    BY <2>2
<1>5. QED
  BY <1>4

LEMMA MaxOfBounded ==
    ASSUME NEW S \in SUBSET Nat, S # {}, NEW n \in Nat, \A x \in S : x <= n
    PROVE  Max(S) \in S /\ \A y \in S : y <= Max(S)
<1> DEFINE D == {k \in Nat : k <= n /\ n - k \in S}
<1>1. PICK x \in S : TRUE
  OBVIOUS
<1>2. n - x \in D
  BY <1>1
<1>3. PICK m \in D : \A k \in D : m <= k
  BY <1>2, Least
<1>4. n - m \in S /\ \A y \in S : n - m >= y
  <2>1. SUFFICES ASSUME NEW y \in S PROVE n - m >= y
    BY <1>3
  <2>2. n - y \in D
    OBVIOUS
  <2>3. m <= n - y /\ m \in Nat
    BY <2>2, <1>3
  <2>4. QED
    BY <2>3
<1>5. QED
  BY <1>4 DEF Max

\* A strictly increasing sequence of n naturals below n is 0, 1, ..., n - 1.
LEMMA Increasing ==
    ASSUME NEW n \in Nat, NEW f \in [1..n -> 0..(n - 1)],
           \A i, j \in 1..n : i < j => f[i] < f[j]
    PROVE  \A i \in 1..n : f[i] = i - 1
<1>1. ASSUME NEW i \in 1..n PROVE f[i] >= i - 1
  <2> DEFINE S == {k \in 1..n : f[k] < k - 1}
  <2>1. SUFFICES S = {}
    <3>1. f[i] \in 0..(n - 1) /\ i \notin S
      BY <2>1
    <3>2. ~(f[i] < i - 1)
      BY <3>1
    <3>3. QED
      BY <3>1, <3>2
  <2>2. SUFFICES ASSUME S # {} PROVE FALSE
    OBVIOUS
  <2>3. PICK m \in S : \A k \in S : m <= k
    <3>1. S \in SUBSET Nat
      OBVIOUS
    <3> HIDE DEF S
    <3>2. QED
      BY <2>2, <3>1, Least
  <2>4. m # 1
    <3>1. 1 \in 1..n => f[1] \in 0..(n - 1)
      OBVIOUS
    <3>2. 1 \notin S
      BY <3>1
    <3>3. QED
      BY <2>3, <3>2
  <2>5. m - 1 \in 1..n /\ m - 1 \notin S
    BY <2>3, <2>4
  <2>6. f[m - 1] >= m - 2 /\ f[m - 1] < f[m]
    BY <2>3, <2>5
  <2>7. QED
    BY <2>3, <2>5, <2>6
<1>2. ASSUME NEW i \in 1..n PROVE f[i] <= i - 1
  <2> DEFINE S == {k \in 0..(n - 1) : f[n - k] > n - k - 1}
  <2>1. SUFFICES S = {}
    <3>1. n - i \in 0..(n - 1) /\ n - (n - i) = i
      OBVIOUS
    <3>2. f[i] \in 0..(n - 1)
      OBVIOUS
    <3>3. n - i \notin S
      BY <2>1, Zenon
    <3>4. ~(f[n - (n - i)] > n - (n - i) - 1)
      BY <3>1, <3>3
    <3>5. f[n - (n - i)] = f[i] /\ n - (n - i) - 1 = i - 1
      BY <3>1
    <3>6. QED
      BY <3>2, <3>4, <3>5
  <2>2. SUFFICES ASSUME S # {} PROVE FALSE
    OBVIOUS
  <2>3. PICK m \in S : \A k \in S : m <= k
    <3>1. S \in SUBSET Nat
      OBVIOUS
    <3> HIDE DEF S
    <3>2. QED
      BY <2>2, <3>1, Least
  <2>4. m # 0
    <3>1. n - 0 = n /\ n \in 1..n /\ f[n] \in 0..(n - 1)
      OBVIOUS
    <3>2. 0 \notin S
      BY <3>1
    <3>3. QED
      BY <2>3, <3>2
  <2>5. m - 1 \in 0..(n - 1) /\ m - 1 \notin S
    <3>1. m \in 0..(n - 1)
      OBVIOUS
    <3> HIDE DEF S
    <3>2. QED
      BY <2>3, <2>4, <3>1
  <2>6. m \in 1..(n - 1) /\ n - m \in 1..n /\ n - (m - 1) \in 1..n /\ n - m < n - (m - 1)
    BY <2>3, <2>4
  <2>7. f[n - (m - 1)] <= n - (m - 1) - 1
    BY <2>5, <2>6
  <2>8. f[n - m] < f[n - (m - 1)] /\ f[n - m] > n - m - 1
    BY <2>3, <2>6
  <2>9. f[n - m] \in Nat /\ f[n - (m - 1)] \in Nat
    BY <2>6
  <2> HIDE DEF S
  <2>10. QED
    BY <2>6, <2>7, <2>8, <2>9
<1>3. QED
  BY <1>1, <1>2

StrictOrder(P, E) ==
    /\ P \subseteq E \X E
    /\ \A c \in E : <<c, c>> \notin P
    /\ \A c, d \in E : c # d => <<c, d>> \in P \/ <<d, c>> \in P
    /\ \A c, d, e \in E : <<c, d>> \in P /\ <<d, e>> \in P => <<c, e>> \in P
InOrder(list, P) == \A i, j \in DOMAIN list : i < j => <<list[i], list[j]>> \in P

\* A finite set with a strict total order P can be listed in that order.
LEMMA Sortable ==
    ASSUME NEW E, IsFiniteSet(E), NEW P, StrictOrder(P, E)
    PROVE  \E list \in SetToSeqs(E) : InOrder(list, P)
<1> USE DEF StrictOrder
<1> DEFINE n == Cardinality(E)
           Below(c) == {d \in E : <<d, c>> \in P}
           rank == [c \in E |-> Cardinality(Below(c)) + 1]
<1>1. n \in Nat
  BY FS_CardinalityType
<1>2. ASSUME NEW c \in E
      PROVE  /\ IsFiniteSet(Below(c)) /\ IsFiniteSet(Below(c) \cup {c})
             /\ Cardinality(Below(c)) \in Nat
             /\ Cardinality(Below(c) \cup {c}) = Cardinality(Below(c)) + 1
  <2>1. IsFiniteSet(Below(c)) /\ c \notin Below(c)
    BY FS_Subset
  <2> HIDE DEF Below
  <2>2. QED
    BY <2>1, FS_AddElement, FS_CardinalityType
<1>3. \A c \in E : rank[c] = Cardinality(Below(c)) + 1
  OBVIOUS
<1> HIDE DEF rank
<1>4. ASSUME NEW c \in E PROVE rank[c] \in 1..n
  <2>1. Cardinality(Below(c) \cup {c}) <= n
    <3>1. Below(c) \cup {c} \subseteq E
      OBVIOUS
    <3> HIDE DEF Below
    <3>2. QED
      BY <3>1, FS_Subset
  <2> HIDE DEF Below, n
  <2>2. QED
    BY <1>1, <1>2, <1>3, <2>1
<1>5. ASSUME NEW c \in E, NEW d \in E, <<c, d>> \in P PROVE rank[c] < rank[d]
  <2>1. Below(c) \cup {c} \subseteq Below(d)
    BY <1>5
  <2>2. Cardinality(Below(c) \cup {c}) <= Cardinality(Below(d))
    <3> HIDE DEF Below
    <3>1. QED
      BY <1>2, <2>1, FS_Subset
  <2> HIDE DEF Below, n
  <2>3. /\ rank[c] = Cardinality(Below(c)) + 1 /\ rank[d] = Cardinality(Below(d)) + 1
        /\ Cardinality(Below(c)) \in Nat /\ Cardinality(Below(d)) \in Nat
        /\ Cardinality(Below(c) \cup {c}) = Cardinality(Below(c)) + 1
    BY <1>2, <1>3
  <2>4. QED
    BY <2>2, <2>3
<1>6. rank \in [E -> 1..n]
  <2> HIDE DEF Below, n
  <2>1. QED
    BY <1>4 DEF rank
<1>7. ASSUME NEW c \in E, NEW d \in E, c # d PROVE rank[c] # rank[d]
  <2>1. rank[c] \in 1..n /\ rank[d] \in 1..n
    BY <1>4
  <2>2. rank[c] < rank[d] \/ rank[d] < rank[c]
    BY <1>5, <1>7
  <2> HIDE DEF Below, n
  <2>3. QED
    BY <1>1, <2>1, <2>2
<1>8. rank \in Surjection(E, 1..n)
  <2>1. rank \in Injection(E, 1..n)
    BY <1>6, <1>7 DEF Injection, IsInjective
  <2>2. IsFiniteSet(1..n) /\ Cardinality(1..n) = n
    BY <1>1, FS_Interval
  <2>3. QED
    BY <2>1, <2>2, FS_Injection
<1> DEFINE list == [i \in 1..n |-> CHOOSE c \in E : rank[c] = i]
<1>9. \A i \in 1..n : list[i] \in E /\ rank[list[i]] = i
  BY <1>8 DEF Surjection
<1> HIDE DEF list
<1>10. list \in [1..n -> E] /\ DOMAIN list = 1..n
  BY <1>9 DEF list
<1>11. list \in SetToSeqs(E)
  BY <1>9, <1>10 DEF SetToSeqs
<1>12. ASSUME NEW i \in 1..n, NEW j \in 1..n, i < j PROVE <<list[i], list[j]>> \in P
  <2>1. list[i] # list[j] /\ list[i] \in E /\ list[j] \in E
    BY <1>9, <1>12
  <2>2. <<list[j], list[i]>> \notin P
    <3>1. ~(rank[list[j]] < rank[list[i]])
      BY <1>1, <1>9, <1>12
    <3>2. QED
      BY <1>5, <2>1, <3>1
  <2>3. QED
    BY <2>1, <2>2
<1>13. QED
  BY <1>10, <1>11, <1>12 DEF InOrder

-----------------------------------------------------------------------------
(* The inductive invariant.                                                *)

USE CatalogAssumption, NoneAssumption

Bounded == \E n \in Nat : \A c \in Existing : categories[c].order <= n

\* r has read under the lock what it is about to write.
Holds(r) == At(r, "create", "insert") \/ At(r, "move", "write")
HolderInv == \A r \in Requests : Holds(r) => lock = r

Numbered(r) ==
    At(r, "create", "insert") =>
        /\ request[r].order \in Nat
        /\ request[r].given = None /\ ~loosened => request[r].order = Cardinality(Existing)
CreateInv == \A r \in Requests : Numbered(r)

HasList(r) ==
    At(r, "move", "write") =>
        /\ \E i \in DOMAIN request[r].list : request[r].list[i] = request[r].target
        /\ ~loosened => \A i \in DOMAIN request[r].list :
                           /\ request[r].list[i] \in Existing
                           /\ categories[request[r].list[i]].order = i - 1
ListInv == \A r \in Requests : HasList(r)

CInv == TypeOK /\ Bounded /\ NumberingIsDense /\ HolderInv /\ CreateInv /\ ListInv

LEMMA InitCInv == Init => CInv
<1>1. SUFFICES ASSUME Init PROVE CInv
  OBVIOUS
<1>2. Existing = {} /\ OrdersOf(Existing) = {} /\ Cardinality(Existing) = 0
  BY <1>1, FS_EmptySet DEF Init, Existing, OrdersOf
<1>3. NumberingIsDense /\ Bounded
  <2>1. 0..(0 - 1) = {} /\ 0 \in Nat
    OBVIOUS
  <2>2. Dense
    BY <1>2, <2>1 DEF Dense
  <2>3. QED
    BY <1>2, <2>1, <2>2 DEF NumberingIsDense, Bounded
<1>4. TypeOK
  <2>1. issued \in 0..MaxCategory /\ lock \in Requests \cup {None} /\ loosened \in BOOLEAN
    <3>1. loosened \in BOOLEAN
      BY <1>1, Zenon DEF Init
    <3>2. QED
      BY <1>1, <3>1 DEF Init
  <2>2. /\ categories \in [Ids -> CategoryRows \cup {None}]
        /\ \A c \in Ids : categories[c] # None => c <= issued
        /\ articles \in [Articles -> NewsRows \cup {None}]
    BY <1>1 DEF Init
  <2>3. request \in [Requests -> Creations \cup Moves \cup Deletions \cup Filings \cup {Idle}]
    BY <1>1 DEF Init
  <2>4. QED
    BY <2>1, <2>2, <2>3 DEF TypeOK
<1>5. HolderInv /\ CreateInv /\ ListInv
  BY <1>1 DEF Init, HolderInv, CreateInv, ListInv, Holds, Numbered, HasList, At, Idle
<1>6. QED
  BY <1>3, <1>4, <1>5 DEF CInv

-----------------------------------------------------------------------------
(* What has been read.                                                     *)

LEMMA FiniteRows ==
    /\ Existing \subseteq Ids /\ IsFiniteSet(Existing) /\ Cardinality(Existing) \in Nat
    /\ 0..(Cardinality(Existing) - 1) \subseteq Nat
    /\ IsFiniteSet(0..(Cardinality(Existing) - 1))
    /\ Cardinality(0..(Cardinality(Existing) - 1)) = Cardinality(Existing)
<1>1. Existing \subseteq Ids
  BY DEF Existing
<1>2. IsFiniteSet(Ids)
  BY FS_Interval DEF Ids
<1>3. IsFiniteSet(Existing) /\ Cardinality(Existing) \in Nat
  BY <1>1, <1>2, FS_Subset, FS_CardinalityType
<1> DEFINE n == Cardinality(Existing)
<1> HIDE DEF n
<1>4. n \in Nat
  BY <1>3 DEF n
<1>5. IsFiniteSet(0..(n - 1)) /\ Cardinality(0..(n - 1)) = n /\ 0..(n - 1) \subseteq Nat
  BY <1>4, FS_Interval
<1>6. QED
  BY <1>1, <1>3, <1>5 DEF n

LEMMA RowTypes ==
    ASSUME TypeOK, NEW c \in Existing
    PROVE  categories[c] \in CategoryRows /\ categories[c].order \in Nat /\ c \in Ids /\ c <= issued
BY DEF TypeOK, Existing, CategoryRows

\* The number of a new category: where positions are dense, how many there are.
LEMMA NumberNext ==
    ASSUME TypeOK, Bounded
    PROVE  NextOrder \in Nat /\ (Dense => NextOrder = Cardinality(Existing))
<1> DEFINE S == OrdersOf(Existing)
           n == Cardinality(Existing)
<1>1. S \in SUBSET Nat
  BY RowTypes DEF OrdersOf
<1>2. Existing = {} <=> n = 0
  BY FiniteRows, FS_EmptySet
<1>3. n \in Nat
  BY FiniteRows
<1>4. CASE Existing = {}
  BY <1>2, <1>4 DEF NextOrder
<1>5. CASE Existing # {}
  <2>1. S # {}
    BY <1>5 DEF OrdersOf
  <2>2. PICK m \in Nat : \A x \in S : x <= m
    BY DEF Bounded, OrdersOf
  <2> HIDE DEF S, n
  <2>3. Max(S) \in S /\ \A y \in S : y <= Max(S)
    BY <1>1, <2>1, <2>2, MaxOfBounded
  <2>4. NextOrder = Max(S) + 1
    BY <1>5 DEF NextOrder, S
  <2>5. Dense => Max(S) = n - 1
    <3>1. SUFFICES ASSUME S = 0..(n - 1), n # 0 PROVE Max(S) = n - 1
      BY <1>2, <1>5 DEF Dense, S, n
    <3>2. n - 1 \in S
      BY <1>3, <3>1
    <3>3. QED
      BY <1>3, <2>3, <3>1, <3>2
  <2>6. NextOrder \in Nat
    <3>1. Max(S) \in Nat
      BY <1>1, <2>3
    <3>2. QED
      BY <2>4, <3>1
  <2>7. Dense => NextOrder = n
    BY <1>3, <2>4, <2>5
  <2>8. QED
    BY <2>6, <2>7 DEF n
<1>6. QED
  BY <1>4, <1>5

\* Dense positions are distinct.
LEMMA DenseIsDistinct ==
    ASSUME TypeOK, Dense, NEW c \in Existing, NEW d \in Existing,
           categories[c].order = categories[d].order
    PROVE  c = d
<1> DEFINE f == [x \in Existing |-> categories[x].order]
<1>1. f \in Surjection(Existing, OrdersOf(Existing))
  BY DEF Surjection, OrdersOf
<1>2. Cardinality(OrdersOf(Existing)) = Cardinality(Existing) /\ IsFiniteSet(Existing)
  BY FiniteRows DEF Dense
<1>3. f \in Injection(Existing, OrdersOf(Existing))
  BY <1>1, <1>2, FS_Surjection
<1>4. f[c] = f[d]
  OBVIOUS
<1> HIDE DEF f
<1>5. QED
  BY <1>3, <1>4 DEF Injection, IsInjective

LEMMA ListedIsSorted ==
    ASSUME TypeOK
    PROVE  /\ Listed \in [1..Cardinality(Existing) -> Existing]
           /\ \A i, j \in 1..Cardinality(Existing) :
                 i # j => Listed[i] # Listed[j]
           /\ \A i, j \in 1..Cardinality(Existing) :
                 i < j => Before(Listed[i], Listed[j])
<1> DEFINE P == {p \in Existing \X Existing : Before(p[1], p[2])}
<1>1. \A c, d \in Existing : <<c, d>> \in P <=> Before(c, d)
  OBVIOUS
<1> HIDE DEF P
<1>2. \A c \in Existing : categories[c].order \in Nat /\ c \in Nat
  BY RowTypes DEF Ids
<1>3. P \subseteq Existing \X Existing
  BY DEF P
<1>4. StrictOrder(P, Existing)
  BY <1>1, <1>2, <1>3 DEF StrictOrder, Before
<1>5. \E list \in SetToSeqs(Existing) : InOrder(list, P)
  BY <1>4, FiniteRows, Sortable
<1>6. \A list \in SetToSeqs(Existing) :
         /\ list \in [1..Cardinality(Existing) -> Existing]
         /\ \A i, j \in 1..Cardinality(Existing) : i # j => list[i] # list[j]
  BY DEF SetToSeqs
<1>7. \E list \in SetToSeqs(Existing) :
         \A i, j \in DOMAIN list : i < j => Before(list[i], list[j])
  BY <1>1, <1>5, <1>6 DEF InOrder
<1>8. Listed \in SetToSeqs(Existing) /\ \A i, j \in DOMAIN Listed : i < j => Before(Listed[i], Listed[j])
  BY <1>7 DEF Listed
<1>9. QED
  BY <1>6, <1>8

LEMMA ListedIsComplete ==
    ASSUME TypeOK, NEW c \in Existing
    PROVE  \E i \in DOMAIN Listed : Listed[i] = c
<1> DEFINE n == Cardinality(Existing)
<1>1. Listed \in Injection(1..n, Existing)
  BY ListedIsSorted DEF Injection, IsInjective
<1>2. n \in Nat /\ IsFiniteSet(1..n) /\ Cardinality(1..n) = n /\ IsFiniteSet(Existing)
  BY FiniteRows, FS_Interval
<1>3. Listed \in Surjection(1..n, Existing)
  BY <1>1, <1>2, FS_Injection
<1>4. QED
  BY <1>3 DEF Surjection

\* Where positions are dense, places in the list are positions.
LEMMA DenseList ==
    ASSUME TypeOK, Dense
    PROVE  \A i \in DOMAIN Listed : categories[Listed[i]].order = i - 1
<1> DEFINE n == Cardinality(Existing)
           f == [i \in 1..n |-> categories[Listed[i]].order]
<1>1. n \in Nat
  BY FiniteRows
<1>2. /\ DOMAIN Listed = 1..n /\ \A i \in 1..n : Listed[i] \in Existing
      /\ \A i, j \in 1..n : i < j => Before(Listed[i], Listed[j]) /\ Listed[i] # Listed[j]
  BY ListedIsSorted
<1>3. \A i \in 1..n : f[i] = categories[Listed[i]].order /\ f[i] \in 0..(n - 1)
  BY <1>2 DEF Dense, OrdersOf
<1>4. f \in [1..n -> 0..(n - 1)]
  BY <1>3
<1> HIDE DEF f
<1>5. ASSUME NEW i \in 1..n, NEW j \in 1..n, i < j PROVE f[i] < f[j]
  <2>1. Listed[i] # Listed[j] /\ Before(Listed[i], Listed[j]) /\ Listed[i] \in Existing /\ Listed[j] \in Existing
    BY <1>2, <1>5
  <2>2. f[i] # f[j]
    BY <1>3, <2>1, DenseIsDistinct
  <2>3. QED
    BY <1>3, <2>1, <2>2 DEF Before
<1>6. \A i \in 1..n : f[i] = i - 1
  <2> HIDE DEF n
  <2>1. QED
    BY <1>1, <1>4, <1>5, Increasing
<1>7. QED
  BY <1>2, <1>3, <1>6

-----------------------------------------------------------------------------
(* Type correctness.                                                       *)

Works == Creations \cup Moves \cup Deletions \cup Filings \cup {Idle}

LEMMA WorkKinds ==
    ASSUME NEW q \in Works
    PROVE  /\ q.op \in {"idle", "create", "move", "delete", "insert", "update"}
           /\ q.op = "idle" => q = Idle
           /\ q.op = "create" => q \in Creations
           /\ q.op = "move" => q \in Moves
           /\ q.op = "delete" => q \in Deletions
           /\ q.op \in {"insert", "update"} => q \in Filings
BY DEF Works, Creations, Moves, Deletions, Filings, Idle

\* Everybody else goes on with the same work; deletions note an article.
SameWork(p, q) ==
    \/ q = p
    \/ /\ p.op = "delete" /\ q.op = "delete"
       /\ q.target = p.target /\ p.filed \subseteq q.filed
Others(r) == \A q \in Requests \ {r} : SameWork(request[q], request'[q])

\* A step that only changes what r is doing.
LEMMA BecomeTypes ==
    ASSUME TypeOK, NEW r \in Requests, NEW w \in Works, Become(r, w)
    PROVE  /\ request' \in [Requests -> Works] /\ request'[r] = w
           /\ \A q \in Requests \ {r} : request'[q] = request[q]
           /\ Others(r)
BY DEF TypeOK, Become, Others, SameWork, Works

LEMMA NotingTypes ==
    ASSUME TypeOK, NEW a \in Articles, NEW c, NEW requests \in [Requests -> Works],
           request' = Noting(a, c, requests)
    PROVE  /\ request' \in [Requests -> Works]
           /\ \A q \in Requests :
                 /\ SameWork(requests[q], request'[q])
                 /\ requests[q].op # "delete" => request'[q] = requests[q]
                 /\ requests[q].op = "delete" /\ requests[q].target = c => a \in request'[q].filed
<1>1. ASSUME NEW q \in Requests, requests[q].op = "delete"
      PROVE  LET w == [requests[q] EXCEPT !.filed = @ \cup {a}]
             IN  /\ w \in Deletions /\ w.op = "delete" /\ w.target = requests[q].target
                 /\ w.filed = requests[q].filed \cup {a}
  <2>1. requests[q] \in Deletions
    BY <1>1, WorkKinds
  <2>2. QED
    BY <2>1 DEF Deletions
<1>2. \A q \in Requests :
         request'[q] = IF requests[q].op = "delete" /\ requests[q].target = c
                       THEN [requests[q] EXCEPT !.filed = @ \cup {a}] ELSE requests[q]
  BY DEF Noting
<1>3. DOMAIN request' = Requests /\ request' = [q \in Requests |-> request'[q]]
  BY DEF Noting
<1>4. ASSUME NEW q \in Requests
      PROVE  /\ request'[q] \in Works
             /\ SameWork(requests[q], request'[q])
             /\ requests[q].op # "delete" => request'[q] = requests[q]
             /\ requests[q].op = "delete" /\ requests[q].target = c => a \in request'[q].filed
  <2>1. CASE requests[q].op = "delete" /\ requests[q].target = c
    BY <1>1, <1>2, <2>1 DEF SameWork, Works
  <2>2. CASE ~(requests[q].op = "delete" /\ requests[q].target = c)
    BY <1>2, <2>2 DEF SameWork
  <2>3. QED
    BY <2>1, <2>2
<1>5. QED
  BY <1>3, <1>4

-----------------------------------------------------------------------------
(* What is read under the lock stays true.                                 *)

Ready(r) == (Holds(r) => lock = r) /\ Numbered(r) /\ HasList(r)

LEMMA ReadyInv == HolderInv /\ CreateInv /\ ListInv <=> \A r \in Requests : Ready(r)
BY DEF HolderInv, CreateInv, ListInv, Ready

LEMMA SameWorkHolds ==
    ASSUME NEW q \in Requests, SameWork(request[q], request'[q])
    PROVE  (Holds(q)' <=> Holds(q)) /\ (Holds(q) => request'[q] = request[q])
BY DEF SameWork, Holds, At

\* Nothing is numbered, or what is numbered keeps its place.
LEMMA QuietStep ==
    ASSUME CInv, TypeOK', Existing' = Existing,
           \A c \in Existing : categories'[c].order = categories[c].order,
           loosened' = loosened,
           \A q \in Requests :
              Ready(q)' \/ (SameWork(request[q], request'[q]) /\ (lock' = lock \/ lock # q))
    PROVE  CInv'
<1> USE DEF CInv
<1>1. OrdersOf(Existing)' = OrdersOf(Existing)
  BY DEF OrdersOf
<1>2. Bounded' /\ NumberingIsDense'
  BY <1>1 DEF Bounded, NumberingIsDense, Dense
<1>3. ASSUME NEW q \in Requests, SameWork(request[q], request'[q]), lock' = lock \/ lock # q
      PROVE  Ready(q)'
  <2>1. Ready(q)
    BY ReadyInv
  <2>2. (Holds(q)' <=> Holds(q)) /\ (Holds(q) => request'[q] = request[q])
    BY <1>3, SameWorkHolds
  <2>3. CASE ~Holds(q)
    BY <2>2, <2>3 DEF Ready, Numbered, HasList, Holds
  <2>4. CASE Holds(q)
    <3>1. request'[q] = request[q] /\ lock' = lock /\ lock = q
      BY <1>3, <2>1, <2>2, <2>4 DEF Ready
    <3>2. Numbered(q)'
      BY <2>1, <3>1 DEF Ready, Numbered, At
    <3>3. HasList(q)'
      BY <2>1, <3>1 DEF Ready, HasList, At
    <3>4. QED
      BY <3>1, <3>2, <3>3 DEF Ready
  <2>5. QED
    BY <2>3, <2>4
<1>4. \A q \in Requests : Ready(q)'
  BY <1>3
<1>5. (HolderInv /\ CreateInv /\ ListInv)'
  BY <1>4 DEF HolderInv, CreateInv, ListInv, Ready
<1>6. QED
  BY <1>2, <1>5

\* Somebody numbers outside the lock: this is seen, or nobody has read.
LEMMA LooseStep ==
    ASSUME CInv, TypeOK', Bounded', Loosen, UNCHANGED lock,
           \A q \in Requests : SameWork(request[q], request'[q]) \/ request'[q] = Idle
    PROVE  CInv'
<1> USE DEF CInv
<1>1. NumberingIsDense' /\ (~loosened' => ~loosened /\ lock = None)
  BY DEF Loosen, NumberingIsDense
<1>2. ASSUME NEW q \in Requests PROVE Ready(q)'
  <2>1. CASE ~Holds(q)'
    BY <2>1 DEF Ready, Numbered, HasList, Holds
  <2>2. CASE Holds(q)'
    <3>1. request'[q] # Idle
      BY <2>2 DEF Holds, At, Idle
    <3>2. Holds(q) /\ request'[q] = request[q] /\ Ready(q)
      BY <2>2, <3>1, SameWorkHolds, ReadyInv
    <3>3. lock' = q /\ q # None /\ loosened'
      BY <1>1, <3>2 DEF Ready
    <3>4. QED
      BY <3>2, <3>3 DEF Ready, Numbered, HasList, At
  <2>3. QED
    BY <2>1, <2>2
<1>3. (HolderInv /\ CreateInv /\ ListInv)'
  BY <1>2 DEF HolderInv, CreateInv, ListInv, Ready
<1>4. QED
  BY <1>1, <1>3

\* The holder of the lock writes and releases it.
LEMMA HolderStep ==
    ASSUME CInv, NEW r \in Requests, lock = r, Others(r), request'[r] = Idle,
           TypeOK', Bounded', NumberingIsDense'
    PROVE  CInv'
<1> USE DEF CInv
<1>1. ASSUME NEW q \in Requests PROVE ~Holds(q)'
  <2>1. CASE q = r
    BY <2>1 DEF Holds, At, Idle
  <2>2. CASE q # r
    <3>1. ~Holds(q) /\ SameWork(request[q], request'[q])
      BY <2>2 DEF HolderInv, Others
    <3>2. QED
      BY <3>1, SameWorkHolds
  <2>3. QED
    BY <2>1, <2>2
<1>2. (HolderInv /\ CreateInv /\ ListInv)'
  BY <1>1 DEF HolderInv, CreateInv, ListInv, Numbered, HasList, Holds
<1>3. QED
  BY <1>2

-----------------------------------------------------------------------------
(* The steps.                                                              *)

\* A step of r that leaves the catalogue alone.
LEMMA RequestOnly ==
    ASSUME CInv, NEW r \in Requests, NEW w \in Works, Become(r, w), UNCHANGED <<catalogVars, loosened>>,
           lock' \in Requests \cup {None}, lock' = lock \/ lock \in {None, r}, Ready(r)'
    PROVE  CInv'
<1>1. TypeOK'
  BY BecomeTypes DEF CInv, TypeOK, catalogVars, Works
<1>2. \A q \in Requests \ {r} : SameWork(request[q], request'[q]) /\ (lock' = lock \/ lock # q)
  BY BecomeTypes DEF CInv, Others
<1>3. UNCHANGED <<categories, loosened>> /\ Existing' = Existing
  BY DEF catalogVars, Existing
<1>4. QED
  BY <1>1, <1>2, <1>3, QuietStep


\* Work that holds nothing yet, or nothing any more.
Light(w) == w \in Works /\ ~(w.op = "create" /\ w.pc = "insert") /\ ~(w.op = "move" /\ w.pc = "write")

LEMMA LightStep ==
    ASSUME CInv, NEW r \in Requests, NEW w, Light(w), Become(r, w), UNCHANGED <<catalogVars, loosened>>,
           lock' = lock \/ (lock = r /\ lock' = None)
    PROVE  CInv'
<1>1. request'[r] = w
  BY BecomeTypes DEF CInv, Light
<1>2. Ready(r)'
  BY <1>1 DEF Ready, Holds, Numbered, HasList, At, Light
<1>3. lock' \in Requests \cup {None}
  BY DEF CInv, TypeOK
<1>4. QED
  BY <1>2, <1>3, RequestOnly DEF Light

LEMMA BeginSteps ==
    ASSUME CInv, NEW r \in Requests,
           \/ \E b \in Bases, o \in ExplicitOrders \cup {None} : BeginCreate(r, b, o)
           \/ \E c \in Ids, up \in BOOLEAN : BeginMove(r, c, up)
           \/ \E c \in Ids : CountArticles(r, c)
           \/ \E op \in {"insert", "update"}, a \in Articles, c \in Ids \cup {None} :
                  EnsureCategory(r, op, a, c)
           \/ RefuseNews(r) \/ SlugTaken(r)
    PROVE  CInv'
<1>1. Light(Idle)
  BY DEF Light, Works, Idle
<1>2. ASSUME NEW b \in Bases, NEW o \in ExplicitOrders \cup {None}, BeginCreate(r, b, o) PROVE CInv'
  <2> DEFINE w == [op |-> "create", pc |-> "waiting", base |-> b, attempt |-> 1, given |-> o, order |-> o]
  <2>1. Light(w)
    BY DEF Light, Works, Creations
  <2>2. Become(r, w) /\ UNCHANGED <<catalogVars, lock, loosened>>
    BY <1>2 DEF BeginCreate
  <2> HIDE DEF w
  <2>3. QED
    BY <2>1, <2>2, LightStep
<1>3. ASSUME NEW c \in Ids, NEW up \in BOOLEAN, BeginMove(r, c, up) PROVE CInv'
  <2> DEFINE w == [op |-> "move", pc |-> "waiting", target |-> c, up |-> up, list |-> <<>>]
  <2>1. Light(w)
    BY DEF Light, Works, Moves
  <2>2. Become(r, w) /\ UNCHANGED <<catalogVars, lock, loosened>>
    BY <1>3 DEF BeginMove
  <2> HIDE DEF w
  <2>3. QED
    BY <2>1, <2>2, LightStep
<1>4. ASSUME NEW c \in Ids, CountArticles(r, c) PROVE CInv'
  <2> DEFINE w == [op |-> "delete", target |-> c, filed |-> {}]
  <2>1. Light(w)
    BY DEF Light, Works, Deletions
  <2>2. Become(r, w) /\ UNCHANGED <<catalogVars, lock, loosened>>
    BY <1>4 DEF CountArticles
  <2> HIDE DEF w
  <2>3. QED
    BY <2>1, <2>2, LightStep
<1>5. ASSUME NEW op \in {"insert", "update"}, NEW a \in Articles, NEW c \in Ids \cup {None},
             EnsureCategory(r, op, a, c)
      PROVE  CInv'
  <2> DEFINE w == [op |-> op, article |-> a, target |-> c]
  <2>1. Light(w)
    BY DEF Light, Works, Filings
  <2>2. Become(r, w) /\ UNCHANGED <<catalogVars, lock, loosened>>
    BY <1>5 DEF EnsureCategory
  <2> HIDE DEF w
  <2>3. QED
    BY <2>1, <2>2, LightStep
<1>6. CASE RefuseNews(r)
  BY <1>1, <1>6, LightStep DEF RefuseNews
<1>7. CASE SlugTaken(r)
  <2> DEFINE q == request[r]
             w == [q EXCEPT !.attempt = @ + 1, !.pc = "waiting", !.order = q.given]
  <2>1. lock = r /\ lock' = None /\ UNCHANGED <<catalogVars, loosened>>
    BY <1>7 DEF SlugTaken, Release, CInv, HolderInv, Holds
  <2>2. q \in Creations
    BY <1>7, WorkKinds DEF SlugTaken, At, CInv, TypeOK, Works
  <2>3. (q.attempt < SlugAttempts /\ Become(r, w)) \/ Become(r, Idle)
    BY <1>7 DEF SlugTaken
  <2>4. q.attempt < SlugAttempts => Light(w)
    <3> HIDE DEF q
    <3>1. SUFFICES ASSUME q.attempt < SlugAttempts PROVE Light(w)
      OBVIOUS
    <3>2. q.attempt + 1 \in 1..SlugAttempts /\ q.given \in Nat \cup {None}
      <4>1. q.attempt \in 1..SlugAttempts /\ q.given \in ExplicitOrders \cup {None}
        BY <2>2 DEF Creations
      <4>2. q.attempt + 1 \in 1..SlugAttempts
        BY <3>1, <4>1
      <4>3. QED
        BY <4>1, <4>2
    <3>3. w \in Creations /\ w.pc = "waiting" /\ w.op = "create"
      BY <2>2, <3>2 DEF Creations
    <3>4. QED
      BY <3>3 DEF Light, Works
  <2> HIDE DEF w, q
  <2>5. QED
    BY <1>1, <2>1, <2>3, <2>4, LightStep
<1>8. QED
  BY <1>2, <1>3, <1>4, <1>5, <1>6, <1>7

\* Under the lock the next number and the list are read.
LEMMA LockSteps ==
    ASSUME CInv, NEW r \in Requests, LockAndNumber(r) \/ LockAndList(r)
    PROVE  CInv'
<1> USE DEF CInv
<1> DEFINE q == request[r]
<1>1. CASE LockAndNumber(r)
  <2> DEFINE n == IF q.given = None THEN NextOrder ELSE q.given
             w == [q EXCEPT !.pc = "insert", !.order = n]
  <2>1. q \in Creations
    BY <1>1, WorkKinds DEF LockAndNumber, At, TypeOK, Works
  <2>2. NextOrder \in Nat /\ (~loosened => NextOrder = Cardinality(Existing))
    BY NumberNext DEF NumberingIsDense
  <2>3. Become(r, w) /\ UNCHANGED <<catalogVars, loosened>> /\ lock = None /\ lock' = r
    BY <1>1 DEF LockAndNumber, Lock
  <2>4. n \in Nat /\ (q.given = None => n = NextOrder)
    BY <2>1, <2>2 DEF Creations
  <2> HIDE DEF q, n
  <2>5. w \in Works /\ w.op = "create" /\ w.pc = "insert" /\ w.given = q.given /\ w.order = n
    BY <2>1, <2>4 DEF Works, Creations
  <2> HIDE DEF w
  <2>6. request'[r] = w
    BY <2>3, <2>5, BecomeTypes
  <2>7. Existing' = Existing /\ loosened' = loosened
    BY <2>3 DEF catalogVars, Existing
  <2>8. Numbered(r)' /\ HasList(r)'
    BY <2>2, <2>4, <2>5, <2>6, <2>7 DEF Numbered, HasList, At
  <2>9. Ready(r)'
    BY <2>3, <2>8 DEF Ready
  <2>10. QED
    BY <2>3, <2>5, <2>9, RequestOnly
<1>2. CASE LockAndList(r)
  <2> DEFINE w == [q EXCEPT !.pc = "write", !.list = Listed]
  <2>1. q \in Moves /\ UNCHANGED <<catalogVars, loosened>>
    BY <1>2, WorkKinds DEF LockAndList, At, TypeOK, Works
  <2>2. CASE q.target \notin Existing
    <3>1. Become(r, Idle) /\ UNCHANGED lock /\ Light(Idle)
      BY <1>2, <2>2 DEF LockAndList, Light, Works, Idle
    <3>2. QED
      BY <2>1, <3>1, LightStep
  <2>3. CASE q.target \in Existing
    <3>1. Become(r, w) /\ lock = None /\ lock' = r
      BY <1>2, <2>3 DEF LockAndList, Lock
    <3>2. Listed \in Seq(Ids)
      BY ListedIsSorted, FiniteRows
    <3> HIDE DEF q
    <3>3. w \in Works /\ w.op = "move" /\ w.pc = "write" /\ w.target = q.target /\ w.list = Listed
      BY <2>1, <3>2 DEF Works, Moves
    <3> HIDE DEF w
    <3>4. request'[r] = w
      BY <3>1, <3>3, BecomeTypes
    <3>5. \E i \in DOMAIN Listed : Listed[i] = q.target
      BY <2>3, ListedIsComplete
    <3>6. ~loosened => \A i \in DOMAIN Listed : Listed[i] \in Existing /\ categories[Listed[i]].order = i - 1
      BY ListedIsSorted, DenseList DEF NumberingIsDense
    <3>7. Existing' = Existing /\ UNCHANGED <<categories, loosened>>
      BY <2>1 DEF catalogVars, Existing
    <3>8. HasList(r)'
      BY <3>3, <3>4, <3>5, <3>6, <3>7 DEF HasList
    <3>9. Ready(r)'
      BY <3>1, <3>3, <3>4, <3>8 DEF Ready, Numbered, At
    <3>10. QED
      BY <2>1, <3>1, <3>3, <3>9, RequestOnly
  <2>4. QED
    BY <2>2, <2>3
<1>3. QED
  BY <1>1, <1>2

\* The new category is the last one.
LEMMA InsertStep ==
    ASSUME CInv, NEW r \in Requests, InsertCategory(r)
    PROVE  CInv'
<1> USE DEF CInv
<1> DEFINE q == request[r]
           new == [slug |-> SlugOf(q), order |-> q.order]
           n == Cardinality(Existing)
<1>1. q \in Creations /\ q.order \in Nat /\ lock = r
  BY WorkKinds DEF InsertCategory, At, TypeOK, Works, CreateInv, Numbered, HolderInv, Holds
<1>2. /\ issued < MaxCategory /\ issued' = issued + 1 /\ categories' = [categories EXCEPT ![issued'] = new]
      /\ lock' = None /\ Become(r, Idle) /\ UNCHANGED articles
      /\ loosened' = (loosened \/ (q.given # None /\ ~Dense'))
  BY DEF InsertCategory, Add, Release
<1>3. new \in CategoryRows /\ new.order = q.order
  BY <1>1 DEF CategoryRows, Slugs, SlugOf, Creations
<1>4. issued' \in Ids /\ issued' \notin Existing /\ issued' \in 0..MaxCategory
  BY <1>2 DEF TypeOK, Ids, Existing
<1> HIDE DEF new
<1>5. /\ categories' \in [Ids -> CategoryRows \cup {None}] /\ categories'[issued'] = new
      /\ \A c \in Ids \ {issued'} : categories'[c] = categories[c]
  BY <1>2, <1>3, <1>4 DEF TypeOK
<1>6. Existing' = Existing \cup {issued'}
  BY <1>3, <1>4, <1>5 DEF Existing
<1>7. OrdersOf(Existing)' = OrdersOf(Existing) \cup {q.order}
  <2>1. \A c \in Existing : categories'[c].order = categories[c].order
    BY <1>4, <1>5 DEF Existing
  <2>2. categories'[issued'].order = q.order
    BY <1>3, <1>5
  <2>3. QED
    BY <1>6, <2>1, <2>2 DEF OrdersOf
<1> HIDE DEF q
<1>8. TypeOK'
  <2>1. \A c \in Ids : categories'[c] # None => c <= issued'
    BY <1>2, <1>4, <1>5 DEF TypeOK, Ids
  <2>2. request' \in [Requests -> Works] /\ Idle \in Works
    BY <1>2, BecomeTypes DEF Works
  <2>3. loosened' \in BOOLEAN
    BY <1>2, Zenon
  <2>4. QED
    BY <1>2, <1>4, <1>5, <2>1, <2>2, <2>3 DEF TypeOK, Works
<1>9. Bounded'
  <2>1. PICK m \in Nat : \A x \in OrdersOf(Existing) : x <= m
    BY DEF Bounded, OrdersOf
  <2>2. OrdersOf(Existing) \subseteq Nat
    BY RowTypes DEF OrdersOf
  <2>3. m + q.order \in Nat /\ \A x \in OrdersOf(Existing)' : x <= m + q.order
    BY <1>1, <1>7, <2>1, <2>2
  <2>4. QED
    BY <2>3 DEF Bounded, OrdersOf
<1>10. NumberingIsDense'
  <2>1. SUFFICES ASSUME ~loosened, q.given = None PROVE Dense'
    BY <1>2, Zenon DEF NumberingIsDense
  <2>2. n \in Nat /\ q.order = n /\ OrdersOf(Existing) = 0..(n - 1)
    BY <2>1, FiniteRows DEF NumberingIsDense, Dense, CreateInv, Numbered, q, InsertCategory
  <2>3. Cardinality(Existing)' = n + 1
    BY <1>4, <1>6, FiniteRows, FS_AddElement
  <2> HIDE DEF n
  <2>4. OrdersOf(Existing)' = 0..((n + 1) - 1)
    BY <1>7, <2>2
  <2>5. QED
    BY <2>3, <2>4 DEF Dense
<1>11. Others(r) /\ request'[r] = Idle
  BY <1>2, BecomeTypes DEF Works
<1>12. QED
  BY <1>1, <1>8, <1>9, <1>10, <1>11, HolderStep

\* Writing the positions of two categories.
Writes(x, y, a, b) == categories' = [categories EXCEPT ![x].order = a, ![y].order = b]

LEMMA TwoOrders ==
    ASSUME TypeOK, NEW x \in Existing, NEW y \in Existing, NEW a \in Nat, NEW b \in Nat,
           Writes(x, y, a, b)
    PROVE  /\ categories' \in [Ids -> CategoryRows \cup {None}] /\ Existing' = Existing
           /\ \A c \in Ids \ {x, y} : categories'[c] = categories[c]
           /\ categories'[y] = [slug |-> categories[y].slug, order |-> b]
           /\ x # y => categories'[x] = [slug |-> categories[x].slug, order |-> a]
<1>1. /\ x \in Ids /\ y \in Ids /\ categories[x] \in CategoryRows /\ categories[y] \in CategoryRows
      /\ categories \in [Ids -> CategoryRows \cup {None}]
  BY RowTypes DEF TypeOK
<1>2. /\ \A c \in Ids \ {x, y} : categories'[c] = categories[c]
      /\ categories'[y] = [slug |-> categories[y].slug, order |-> b]
      /\ x # y => categories'[x] = [slug |-> categories[x].slug, order |-> a]
  BY <1>1 DEF CategoryRows, Writes
<1>3. categories'[x] \in CategoryRows /\ categories'[y] \in CategoryRows
  BY <1>1, <1>2 DEF CategoryRows
<1>4. categories' \in [Ids -> CategoryRows \cup {None}]
  <2>1. DOMAIN categories' = Ids /\ categories' = [c \in Ids |-> categories'[c]]
    BY <1>1 DEF Writes
  <2>2. QED
    BY <1>1, <1>2, <1>3, <2>1
<1>5. Existing' = Existing
  BY <1>1, <1>2, <1>3 DEF Existing
<1>6. QED
  BY <1>2, <1>4, <1>5

\* What the holder of the lock writes, when it moves a category: the rows x and
\* y in two neighbouring places i and j of the list it has read.
Exchanges(r, i, j, x, y) ==
    /\ i \in Nat \ {0} /\ j \in Nat \ {0} /\ x \in Existing /\ y \in Existing
    /\ x = request[r].target /\ j = IF request[r].up THEN i - 1 ELSE i + 1
    /\ Writes(x, y, j - 1, i - 1)
    /\ ~loosened => categories[x].order = i - 1 /\ categories[y].order = j - 1

LEMMA MoveWrites ==
    ASSUME CInv, NEW r \in Requests, WriteMove(r)
    PROVE  /\ At(r, "move", "write") /\ lock = r /\ lock' = None /\ Become(r, Idle)
           /\ UNCHANGED <<issued, articles, loosened>>
           /\ categories' # categories => \E i, j, x, y : Exchanges(r, i, j, x, y)
<1> USE DEF CInv
<1> DEFINE q == request[r]
           i == Place(q)
           j == Neighbour(q)
<1>1. /\ At(r, "move", "write") /\ lock' = None /\ Become(r, Idle)
      /\ UNCHANGED <<issued, articles, loosened>>
      /\ \/ UNCHANGED categories
         \/ /\ j \in DOMAIN q.list /\ q.list[i] \in Existing /\ q.list[j] \in Existing
            /\ categories' = [categories EXCEPT ![q.list[i]].order = j - 1,
                                                ![q.list[j]].order = i - 1]
  BY DEF WriteMove, Release
<1>2. lock = r /\ HasList(r)
  BY <1>1 DEF HolderInv, Holds, ListInv
<1>3. q.list \in Seq(Ids)
  BY <1>1, WorkKinds DEF At, TypeOK, Works, Moves
<1>4. DOMAIN q.list \subseteq Nat \ {0}
  BY <1>3
<1>5. i \in DOMAIN q.list /\ q.list[i] = q.target
  BY <1>1, <1>2 DEF HasList, Place
<1>6. j = IF q.up THEN i - 1 ELSE i + 1
  BY DEF Neighbour
<1>7. ~loosened => \A k \in DOMAIN q.list : categories[q.list[k]].order = k - 1
  BY <1>1, <1>2 DEF HasList
<1> HIDE DEF q, i, j
<1>8. ASSUME categories' # categories
      PROVE  Exchanges(r, i, j, q.list[i], q.list[j])
  BY <1>1, <1>4, <1>5, <1>6, <1>7, <1>8 DEF Exchanges, Writes, q
<1>9. QED
  BY <1>1, <1>2, <1>8, Zenon

\* Two categories exchange their positions, or lose them where numbering is loose.
LEMMA ExchangeStep ==
    ASSUME CInv, NEW r \in Requests, lock = r, lock' = None, Become(r, Idle),
           UNCHANGED <<issued, articles, loosened>>,
           NEW x \in Existing, NEW y \in Existing, NEW a \in Nat, NEW b \in Nat, a # b,
           Writes(x, y, a, b),
           ~loosened => categories[x].order = b /\ categories[y].order = a
    PROVE  CInv'
<1> USE DEF CInv
<1>1. Others(r) /\ request'[r] = Idle /\ request' \in [Requests -> Works]
  BY BecomeTypes DEF Works
<1>2. /\ categories' \in [Ids -> CategoryRows \cup {None}] /\ Existing' = Existing
      /\ \A c \in Ids \ {x, y} : categories'[c] = categories[c]
      /\ categories'[y].order = b
      /\ x # y => categories'[x].order = a
  <2>1. /\ categories' \in [Ids -> CategoryRows \cup {None}] /\ Existing' = Existing
        /\ \A c \in Ids \ {x, y} : categories'[c] = categories[c]
        /\ categories'[y] = [slug |-> categories[y].slug, order |-> b]
        /\ x # y => categories'[x] = [slug |-> categories[x].slug, order |-> a]
    BY TwoOrders
  <2>2. QED
    BY <2>1
<1>3. TypeOK'
  <2>1. \A c \in Ids : categories'[c] # None => c <= issued'
    BY <1>2 DEF TypeOK, Existing
  <2>2. QED
    BY <1>1, <1>2, <2>1 DEF TypeOK, Works
<1>4. \A c \in Existing \ {x, y} : categories'[c].order = categories[c].order
  BY <1>2, FiniteRows
<1>5. Bounded'
  <2>1. PICK n \in Nat : \A c \in Existing : categories[c].order <= n
    BY DEF Bounded
  <2>2. ASSUME NEW c \in Existing PROVE categories'[c].order <= n + a + b
    <3>1. categories[c].order \in Nat /\ categories[c].order <= n
      BY <2>1, RowTypes
    <3>2. categories'[c].order \in {categories[c].order, a, b}
      BY <1>2, <1>4
    <3>3. QED
      BY <3>1, <3>2
  <2>3. n + a + b \in Nat
    OBVIOUS
  <2>4. QED
    BY <1>2, <2>2, <2>3 DEF Bounded
<1>6. NumberingIsDense'
  <2>1. SUFFICES ASSUME ~loosened PROVE Dense'
    BY DEF NumberingIsDense
  <2>2. x # y /\ categories[x].order = b /\ categories[y].order = a
    BY <2>1
  <2>3. \A c \in Existing : \E d \in Existing : categories'[c].order = categories[d].order
    BY <1>2, <1>4, <2>2
  <2>4. \A c \in Existing : \E d \in Existing : categories'[d].order = categories[c].order
    BY <1>2, <1>4, <2>2
  <2>5. OrdersOf(Existing)' = OrdersOf(Existing)
    <3>1. Existing' = Existing
      BY <1>2
    <3>2. OrdersOf(Existing)' \subseteq OrdersOf(Existing)
      BY <2>3, <3>1 DEF OrdersOf
    <3>3. OrdersOf(Existing) \subseteq OrdersOf(Existing)'
      BY <2>4, <3>1 DEF OrdersOf
    <3>4. QED
      BY <3>2, <3>3
  <2>6. QED
    BY <1>2, <2>1, <2>5 DEF NumberingIsDense, Dense
<1>7. QED
  BY <1>1, <1>3, <1>5, <1>6, HolderStep

LEMMA MoveStep ==
    ASSUME CInv, NEW r \in Requests, WriteMove(r)
    PROVE  CInv'
<1>1. /\ At(r, "move", "write") /\ lock = r /\ lock' = None /\ Become(r, Idle)
      /\ UNCHANGED <<issued, articles, loosened>>
  BY MoveWrites
<1>2. CASE UNCHANGED categories
  <2>1. Light(Idle)
    BY DEF Light, Works, Idle
  <2>2. QED
    BY <1>1, <1>2, <2>1, LightStep DEF catalogVars
<1>3. CASE categories' # categories
  <2>1. PICK i, j, x, y : Exchanges(r, i, j, x, y)
    BY <1>3, MoveWrites
  <2>2. j - 1 \in Nat /\ i - 1 \in Nat /\ j - 1 # i - 1
    BY <2>1 DEF Exchanges
  <2>3. QED
    BY <1>1, <2>1, <2>2, ExchangeStep DEF Exchanges
<1>4. QED
  BY <1>2, <1>3

\* updateCategory and deleteCategory number outside the lock, or not at all.
LEMMA UnlockedSteps ==
    ASSUME CInv,
           \/ \E c \in Ids, o \in ExplicitOrders : Renumber(c, o)
           \/ \E c \in Ids, s \in Slugs : Rename(c, s)
    PROVE  CInv'
<1> USE DEF CInv
<1>1. ASSUME NEW c \in Ids, NEW o \in ExplicitOrders, Renumber(c, o) PROVE CInv'
  <2>1. /\ c \in Existing /\ categories' = [categories EXCEPT ![c].order = o] /\ Loosen
        /\ UNCHANGED <<issued, articles, lock, request>>
    BY <1>1 DEF Renumber
  <2>2. categories[c] \in CategoryRows /\ o \in Nat
    BY <2>1, RowTypes
  <2>3. categories'[c] = [slug |-> categories[c].slug, order |-> o] /\ \A d \in Ids \ {c} : categories'[d] = categories[d]
    BY <2>1, <2>2 DEF TypeOK, CategoryRows
  <2>4. categories' \in [Ids -> CategoryRows \cup {None}] /\ Existing' = Existing
    BY <2>1, <2>2, <2>3 DEF TypeOK, Existing, CategoryRows
  <2>5. TypeOK'
    <3>1. loosened' \in BOOLEAN
      BY <2>1, Zenon DEF Loosen
    <3>2. \A d \in Ids : categories'[d] # None => d <= issued'
      BY <2>1, <2>4 DEF TypeOK, Existing
    <3>3. QED
      BY <2>1, <2>4, <3>1, <3>2 DEF TypeOK
  <2>6. Bounded'
    <3>1. PICK n \in Nat : \A d \in Existing : categories[d].order <= n
      BY DEF Bounded
    <3>2. ASSUME NEW d \in Existing PROVE categories'[d].order <= n + o
      <4>1. categories[d].order \in Nat /\ d \in Ids
        BY RowTypes
      <4>2. QED
        BY <2>2, <2>3, <3>1, <4>1
    <3>3. QED
      BY <2>2, <2>4, <3>2 DEF Bounded
  <2>7. QED
    BY <2>1, <2>5, <2>6, LooseStep DEF SameWork
<1>2. ASSUME NEW c \in Ids, NEW s \in Slugs, Rename(c, s) PROVE CInv'
  <2>1. /\ c \in Existing /\ categories' = [categories EXCEPT ![c].slug = s]
        /\ UNCHANGED <<issued, articles, lock, request, loosened>>
    BY <1>2 DEF Rename, requestVars
  <2>2. categories[c] \in CategoryRows
    BY <2>1, RowTypes
  <2>3. categories'[c] = [slug |-> s, order |-> categories[c].order] /\ \A d \in Ids \ {c} : categories'[d] = categories[d]
    BY <2>1, <2>2 DEF TypeOK, CategoryRows
  <2>4. categories' \in [Ids -> CategoryRows \cup {None}] /\ Existing' = Existing
    BY <2>1, <2>2, <2>3 DEF TypeOK, Existing, CategoryRows
  <2>5. TypeOK'
    <3>1. \A d \in Ids : categories'[d] # None => d <= issued'
      BY <2>1, <2>4 DEF TypeOK, Existing
    <3>2. QED
      BY <2>1, <2>4, <3>1 DEF TypeOK
  <2>6. \A d \in Existing : categories'[d].order = categories[d].order
    BY <2>3, FiniteRows
  <2>7. QED
    BY <2>1, <2>4, <2>5, <2>6, QuietStep DEF SameWork
<1>3. QED
  BY <1>1, <1>2

-----------------------------------------------------------------------------
(* The articles of a category.                                             *)

\* An update has found its article; a deletion has counted none that is live,
\* or notes those that came since.
Counted(r) == \A a \in FiledUnder(request[r].target) : Live(a) => a \in request[r].filed
Filed(r) ==
    /\ request[r].op = "update" => articles[request[r].article] # None
    /\ request[r].op = "delete" => Counted(r)
FiledInv == \A r \in Requests : Filed(r)

LEMMA SameArticles ==
    ASSUME FiledInv, UNCHANGED articles,
           \A q \in Requests : SameWork(request[q], request'[q]) \/ Filed(q)'
    PROVE  FiledInv'
<1>1. ASSUME NEW q \in Requests, SameWork(request[q], request'[q]) PROVE Filed(q)'
  BY <1>1 DEF FiledInv, Filed, Counted, SameWork, FiledUnder, Live
<1>2. QED
  BY <1>1 DEF FiledInv

\* A step of r after which it is not an update or a deletion, or is one that
\* has just been begun.
LEMMA OtherWork ==
    ASSUME TypeOK, FiledInv, UNCHANGED articles, NEW r \in Requests, NEW w \in Works, Become(r, w),
           \/ w.op \notin {"update", "delete"}
           \/ w.op = "update" /\ articles[w.article] # None
           \/ w.op = "delete" /\ \A a \in FiledUnder(w.target) : ~Live(a)
    PROVE  FiledInv'
<1>1. request'[r] = w /\ Others(r)
  BY BecomeTypes
<1>2. Filed(r)'
  BY <1>1 DEF Filed, Counted, FiledUnder, Live
<1>3. QED
  BY <1>1, <1>2, SameArticles DEF Others

LEMMA FiledBegins ==
    ASSUME TypeOK, FiledInv, NEW r \in Requests,
           \/ \E b \in Bases, o \in ExplicitOrders \cup {None} : BeginCreate(r, b, o)
           \/ \E c \in Ids, up \in BOOLEAN : BeginMove(r, c, up)
           \/ \E c \in Ids : CountArticles(r, c)
           \/ \E op \in {"insert", "update"}, a \in Articles, c \in Ids \cup {None} :
                  EnsureCategory(r, op, a, c)
    PROVE  FiledInv'
<1>1. ASSUME NEW b \in Bases, NEW o \in ExplicitOrders \cup {None}, BeginCreate(r, b, o) PROVE FiledInv'
  <2> DEFINE w == [op |-> "create", pc |-> "waiting", base |-> b, attempt |-> 1, given |-> o, order |-> o]
  <2>1. w \in Works /\ w.op = "create"
    BY DEF Works, Creations
  <2>2. Become(r, w) /\ UNCHANGED articles
    BY <1>1 DEF BeginCreate, catalogVars
  <2> HIDE DEF w
  <2>3. QED
    BY <2>1, <2>2, OtherWork
<1>2. ASSUME NEW c \in Ids, NEW up \in BOOLEAN, BeginMove(r, c, up) PROVE FiledInv'
  <2> DEFINE w == [op |-> "move", pc |-> "waiting", target |-> c, up |-> up, list |-> <<>>]
  <2>1. w \in Works /\ w.op = "move"
    BY DEF Works, Moves
  <2>2. Become(r, w) /\ UNCHANGED articles
    BY <1>2 DEF BeginMove, catalogVars
  <2> HIDE DEF w
  <2>3. QED
    BY <2>1, <2>2, OtherWork
<1>3. ASSUME NEW c \in Ids, CountArticles(r, c) PROVE FiledInv'
  <2> DEFINE w == [op |-> "delete", target |-> c, filed |-> {}]
  <2>1. w \in Works /\ w.op = "delete" /\ w.target = c
    BY DEF Works, Deletions
  <2>2. Become(r, w) /\ UNCHANGED articles /\ \A a \in FiledUnder(c) : ~Live(a)
    BY <1>3 DEF CountArticles, catalogVars
  <2> HIDE DEF w
  <2>3. QED
    BY <2>1, <2>2, OtherWork
<1>4. ASSUME NEW op \in {"insert", "update"}, NEW a \in Articles, NEW c \in Ids \cup {None},
             EnsureCategory(r, op, a, c)
      PROVE  FiledInv'
  <2> DEFINE w == [op |-> op, article |-> a, target |-> c]
  <2>1. w \in Works /\ w.op = op /\ w.article = a
    BY DEF Works, Filings
  <2>2. Become(r, w) /\ UNCHANGED articles /\ (op = "update" => articles[a] # None)
    BY <1>4 DEF EnsureCategory, catalogVars, Live
  <2> HIDE DEF w
  <2>3. QED
    BY <2>1, <2>2, OtherWork
<1>5. QED
  BY <1>1, <1>2, <1>3, <1>4

LEMMA FiledWaits ==
    ASSUME TypeOK, FiledInv, NEW r \in Requests,
           \/ LockAndNumber(r) \/ InsertCategory(r) \/ SlugTaken(r)
           \/ LockAndList(r) \/ WriteMove(r) \/ RefuseNews(r)
    PROVE  FiledInv'
<1>1. UNCHANGED articles
  BY DEF LockAndNumber, InsertCategory, SlugTaken, LockAndList, WriteMove, RefuseNews, catalogVars
<1>2. CASE request'[r].op \notin {"update", "delete"}
  <2>1. \A q \in Requests \ {r} : request'[q] = request[q]
    BY DEF LockAndNumber, InsertCategory, SlugTaken, LockAndList, WriteMove, RefuseNews, Become, TypeOK
  <2>2. Filed(r)'
    BY <1>2 DEF Filed
  <2>3. QED
    BY <1>1, <2>1, <2>2, SameArticles DEF SameWork
<1>3. request'[r].op \notin {"update", "delete"}
  <2>1. request[r] \in Works /\ DOMAIN request = Requests
    BY DEF TypeOK, Works
  <2>2. CASE Become(r, Idle)
    BY <2>1, <2>2 DEF Become, Idle
  <2>3. CASE ~Become(r, Idle)
    <3>2. request[r].op = "create" => request[r] \in Creations
      BY <2>1, WorkKinds
    <3>3. request[r].op = "move" => request[r] \in Moves
      BY <2>1, WorkKinds
    <3>4. CASE LockAndNumber(r)
      BY <2>1, <3>2, <3>4 DEF LockAndNumber, At, Become, Creations
    <3>5. CASE SlugTaken(r)
      <4>1. /\ request[r] \in Creations
            /\ Become(r, [request[r] EXCEPT !.attempt = @ + 1, !.pc = "waiting", !.order = request[r].given])
        BY <2>3, <3>2, <3>5 DEF SlugTaken, At
      <4>2. QED
        BY <2>1, <4>1 DEF Become, Creations
    <3>6. CASE LockAndList(r)
      <4>1. /\ request[r] \in Moves
            /\ Become(r, [request[r] EXCEPT !.pc = "write", !.list = Listed])
        BY <2>3, <3>3, <3>6 DEF LockAndList, At
      <4>2. QED
        BY <2>1, <4>1 DEF Become, Moves
    <3>7. QED
      BY <2>3, <3>4, <3>5, <3>6 DEF InsertCategory, WriteMove, RefuseNews
  <2>4. QED
    BY <2>2, <2>3
<1>4. QED
  BY <1>2, <1>3

-----------------------------------------------------------------------------
(* Articles are filed and lose their category.                             *)

\* a gets a row under a category, and the deletions of that category note it.
\* Whoever asked for it, if it was a request, is done.
LEMMA FileStep ==
    ASSUME CInv, FiledInv, NEW a \in Articles, NEW row \in NewsRows,
           NEW requests \in [Requests -> Works], \A q \in Requests : requests[q] \in {request[q], Idle},
           File(a, row, requests)
    PROVE  /\ CInv' /\ FiledInv' /\ UNCHANGED categories
           /\ \A q \in Requests : requests[q] = Idle => request'[q] = Idle
           /\ \A b \in Articles \ {a} : articles'[b] = articles[b]
           /\ articles'[a] = row
<1> USE DEF CInv
<1>1. /\ articles' = [articles EXCEPT ![a] = row] /\ request' = Noting(a, row.category, requests)
      /\ UNCHANGED <<categories, issued, lock, loosened>>
  BY DEF File
<1>3. /\ request' \in [Requests -> Works]
      /\ \A q \in Requests :
            /\ SameWork(requests[q], request'[q])
            /\ requests[q].op # "delete" => request'[q] = requests[q]
            /\ requests[q].op = "delete" /\ requests[q].target = row.category => a \in request'[q].filed
  BY <1>1, NotingTypes
<1>4. /\ articles' \in [Articles -> NewsRows \cup {None}] /\ articles'[a] = row
      /\ \A b \in Articles \ {a} : articles'[b] = articles[b]
  BY <1>1 DEF TypeOK
<1>5. TypeOK' /\ Existing' = Existing
  BY <1>1, <1>3, <1>4 DEF TypeOK, Existing, Works
<1>6. \A q \in Requests : requests[q] = Idle => request'[q] = Idle
  BY <1>3 DEF Idle
<1>7. \A q \in Requests : requests[q] = Idle => Ready(q)'
  BY <1>6 DEF Ready, Holds, Numbered, HasList, At, Idle
<1>8. \A q \in Requests : requests[q] # Idle => requests[q] = request[q] /\ SameWork(request[q], request'[q])
  BY <1>3
<1>9. CInv'
  BY <1>1, <1>5, <1>7, <1>8, QuietStep
<1>10. ASSUME NEW q \in Requests PROVE Filed(q)'
  <2>1. CASE requests[q] = Idle
    BY <1>6, <2>1 DEF Filed, Idle
  <2>2. CASE requests[q] # Idle
    <3>1. SameWork(request[q], request'[q]) /\ Filed(q)
      BY <1>8, <2>2 DEF FiledInv
    <3>2. request'[q].op = "update" => articles'[request'[q].article] # None
      <4>1. SUFFICES ASSUME request'[q].op = "update" PROVE articles'[request'[q].article] # None
        OBVIOUS
      <4>2. request'[q] = request[q] /\ articles[request[q].article] # None
        BY <3>1, <4>1 DEF SameWork, Filed
      <4>3. request[q].article \in Articles
        BY <4>1, <4>2, WorkKinds DEF TypeOK, Works, Filings
      <4>4. QED
        BY <1>4, <4>2, <4>3
    <3>3. request'[q].op = "delete" => Counted(q)'
      <4>1. SUFFICES ASSUME request'[q].op = "delete", NEW b \in Articles, articles'[b] # None,
                            articles'[b].category = request'[q].target, ~articles'[b].deleted
                     PROVE  b \in request'[q].filed
        BY DEF Counted, FiledUnder, Live
      <4>2. request[q].op = "delete" /\ request'[q].target = request[q].target /\ request[q].filed \subseteq request'[q].filed
        BY <3>1, <4>1 DEF SameWork
      <4>3. CASE b = a
        BY <1>3, <1>4, <1>8, <2>2, <4>1, <4>2, <4>3
      <4>4. CASE b # a
        BY <1>4, <3>1, <4>1, <4>2, <4>4 DEF Filed, Counted, FiledUnder, Live
      <4>5. QED
        BY <4>3, <4>4
    <3>4. QED
      BY <3>2, <3>3 DEF Filed
  <2>3. QED
    BY <2>1, <2>2
<1>11. QED
  BY <1>1, <1>4, <1>6, <1>9, <1>10 DEF FiledInv

\* The requests once r is done.
LEMMA DoneRequest ==
    ASSUME TypeOK, NEW r \in Requests
    PROVE  LET requests == [request EXCEPT ![r] = Idle]
           IN  /\ requests \in [Requests -> Works] /\ requests[r] = Idle
               /\ \A q \in Requests : requests[q] \in {request[q], Idle}
BY DEF TypeOK, Works

LEMMA CreateNewsStep ==
    ASSUME CInv, FiledInv, NEW r \in Requests, CreateNews(r)
    PROVE  /\ CInv' /\ FiledInv' /\ UNCHANGED categories
           /\ \A a \in Articles : articles[a] # None => articles'[a] = articles[a]
<1> DEFINE q == request[r]
           row == [category |-> q.target, deleted |-> FALSE]
<1>1. articles[q.article] = None /\ Fits(q.target) /\ File(q.article, row, [request EXCEPT ![r] = Idle])
  BY DEF CreateNews
<1>2. q \in Filings
  BY WorkKinds DEF CreateNews, CInv, TypeOK, Works
<1>3. q.article \in Articles /\ row \in NewsRows
  BY <1>2 DEF Filings, NewsRows
<1> HIDE DEF q, row
<1>4. QED
  BY <1>1, <1>3, FileStep, DoneRequest DEF CInv

LEMMA UpdateNewsStep ==
    ASSUME CInv, FiledInv, NEW r \in Requests, UpdateNews(r)
    PROVE  /\ CInv' /\ FiledInv' /\ UNCHANGED categories
           /\ request[r].op = "update" /\ request'[r] = Idle
           /\ \A a \in Articles \ {request[r].article} : articles'[a] = articles[a]
           /\ articles'[request[r].article].category = request[r].target
<1> DEFINE q == request[r]
           row == [articles[q.article] EXCEPT !.category = q.target]
<1>1. q.op = "update" /\ File(q.article, row, [request EXCEPT ![r] = Idle])
  BY DEF UpdateNews
<1>2. q \in Filings /\ articles[q.article] # None
  BY <1>1, WorkKinds DEF CInv, TypeOK, Works, FiledInv, Filed
<1>3. q.article \in Articles /\ q.target \in Ids \cup {None}
  BY <1>2 DEF Filings
<1>4. articles[q.article] \in NewsRows
  BY <1>2, <1>3 DEF CInv, TypeOK
<1>5. row \in NewsRows /\ row.category = q.target
  BY <1>3, <1>4 DEF NewsRows
<1> HIDE DEF q, row
<1>6. QED
  BY <1>1, <1>3, <1>5, FileStep, DoneRequest DEF q, CInv

LEMMA DeleteNewsStep ==
    ASSUME CInv, FiledInv, NEW a \in Articles, DeleteNews(a)
    PROVE  /\ CInv' /\ FiledInv' /\ UNCHANGED <<categories, request>>
           /\ \A b \in Articles : articles[b] # None => articles'[b].category = articles[b].category
<1> USE DEF CInv
<1>1. /\ articles' = [articles EXCEPT ![a].deleted = TRUE]
      /\ UNCHANGED <<categories, issued, lock, request, loosened>>
  BY DEF DeleteNews, requestVars
<1>2. articles[a] \in NewsRows
  BY DEF DeleteNews, Live, TypeOK
<1>3. /\ articles'[a] = [category |-> articles[a].category, deleted |-> TRUE]
      /\ \A b \in Articles \ {a} : articles'[b] = articles[b]
  BY <1>1, <1>2 DEF TypeOK, NewsRows
<1>4. articles'[a] \in NewsRows /\ articles'[a].category = articles[a].category /\ articles'[a].deleted
  BY <1>2, <1>3 DEF NewsRows
<1>5. articles' \in [Articles -> NewsRows \cup {None}]
  <2>1. DOMAIN articles' = Articles /\ articles' = [b \in Articles |-> articles'[b]]
    BY <1>1 DEF TypeOK
  <2>2. QED
    BY <1>3, <1>4, <2>1 DEF TypeOK
<1>6. TypeOK' /\ Existing' = Existing
  BY <1>1, <1>5 DEF TypeOK, Existing
<1>7. CInv'
  BY <1>1, <1>6, QuietStep DEF SameWork
<1>8. ASSUME NEW b \in Articles
      PROVE  /\ articles[b] # None => articles'[b].category = articles[b].category
             /\ (articles[b] # None <=> articles'[b] # None)
             /\ Live(b)' => Live(b)
  <2>1. CASE b = a
    BY <1>2, <1>4, <2>1 DEF Live
  <2>2. CASE b # a
    BY <1>3, <2>2 DEF Live
  <2>3. QED
    BY <2>1, <2>2
<1>9. ASSUME NEW q \in Requests PROVE Filed(q)'
  <2>1. Filed(q) /\ request'[q] = request[q] /\ (request[q].op = "update" => request[q].article \in Articles)
    BY <1>1, WorkKinds DEF FiledInv, TypeOK, Works, Filings
  <2>2. \A b \in Articles : b \in FiledUnder(request[q].target)' => b \in FiledUnder(request[q].target)
    BY <1>1, <1>8 DEF FiledUnder
  <2>3. Counted(q) => Counted(q)'
    BY <1>1, <1>8, <2>2 DEF Counted, FiledUnder
  <2>4. QED
    BY <1>8, <2>1, <2>3 DEF Filed
<1>10. QED
  BY <1>1, <1>7, <1>8, <1>9 DEF FiledInv

\* The row goes, the articles of the category lose it.
LEMMA DeleteCategoryStep ==
    ASSUME CInv, FiledInv, NEW r \in Requests, DeleteCategory(r)
    PROVE  /\ CInv' /\ FiledInv'
           /\ request[r].op = "delete" /\ request'[r] = Idle
           /\ \A q \in Requests \ {r} : request'[q] = request[q]
           /\ \A a \in Articles : a \notin FiledUnder(request[r].target) => articles'[a] = articles[a]
<1> USE DEF CInv
<1> DEFINE c == request[r].target
<1>1. request[r].op = "delete" /\ Become(r, Idle) /\ UNCHANGED <<issued, lock>>
  BY DEF DeleteCategory
<1>2. request[r] \in Deletions
  BY <1>1, WorkKinds DEF TypeOK, Works
<1>3. c \in Ids /\ c # None
  BY <1>2 DEF Deletions, Ids
<1>4. Idle \in Works /\ Idle.op = "idle"
  BY DEF Works, Idle
<1>5. /\ request' \in [Requests -> Works] /\ request'[r] = Idle /\ Others(r)
      /\ \A q \in Requests \ {r} : request'[q] = request[q]
  BY <1>1, <1>4, BecomeTypes
<1>6. CASE c \notin Existing
  <2>1. UNCHANGED <<catalogVars, loosened>>
    BY <1>1, <1>6 DEF DeleteCategory, catalogVars
  <2>2. CInv'
    BY <1>1, <1>4, <2>1, LightStep DEF Light
  <2>3. UNCHANGED articles
    BY <2>1 DEF catalogVars
  <2>4. FiledInv'
    BY <1>1, <1>4, <2>3, OtherWork
  <2>5. QED
    BY <1>1, <1>5, <2>2, <2>3, <2>4
<1>7. CASE c \in Existing
  <2>1. /\ categories' = [categories EXCEPT ![c] = None] /\ Loosen
        /\ articles' = [a \in Articles |->
                           IF a \in FiledUnder(c) THEN [articles[a] EXCEPT !.category = None] ELSE articles[a]]
    BY <1>7 DEF DeleteCategory
  <2> HIDE DEF c
  <2>2. /\ categories' \in [Ids -> CategoryRows \cup {None}]
        /\ categories'[c] = None /\ \A d \in Ids \ {c} : categories'[d] = categories[d]
    BY <1>3, <2>1 DEF TypeOK
  <2>3. ASSUME NEW a \in Articles
        PROVE  /\ articles'[a] \in NewsRows \cup {None}
               /\ a \in FiledUnder(c) => articles'[a].category = None
               /\ a \notin FiledUnder(c) => articles'[a] = articles[a]
    <3>1. CASE a \in FiledUnder(c)
      <4>1. articles[a] \in NewsRows
        BY <3>1 DEF FiledUnder, TypeOK
      <4>2. articles'[a] = [category |-> None, deleted |-> articles[a].deleted]
        BY <2>1, <3>1, <4>1 DEF NewsRows
      <4>3. QED
        BY <3>1, <4>1, <4>2 DEF NewsRows
    <3>2. CASE a \notin FiledUnder(c)
      BY <2>1, <3>2 DEF TypeOK
    <3>3. QED
      BY <3>1, <3>2
  <2>4. articles' \in [Articles -> NewsRows \cup {None}]
    <3>1. articles' = [a \in Articles |-> articles'[a]]
      BY <2>1
    <3>2. QED
      BY <2>3, <3>1
  <2>5. TypeOK'
    <3>1. loosened' \in BOOLEAN
      BY <2>1, Zenon DEF Loosen
    <3>2. \A d \in Ids : categories'[d] # None => d <= issued'
      BY <1>1, <2>2 DEF TypeOK
    <3>3. QED
      BY <1>1, <1>5, <2>2, <2>4, <3>1, <3>2 DEF TypeOK, Works
  <2>6. Bounded'
    <3>1. Existing' \subseteq Existing \ {c}
      BY <2>2 DEF Existing
    <3>2. \A d \in Existing' : categories'[d] = categories[d] /\ d \in Existing
      BY <2>2, <3>1, FiniteRows
    <3>3. PICK n \in Nat : \A d \in Existing : categories[d].order <= n
      BY DEF Bounded
    <3>4. QED
      BY <3>2, <3>3 DEF Bounded
  <2>7. CInv'
    BY <1>1, <1>5, <2>1, <2>5, <2>6, LooseStep DEF Others
  <2>8. ASSUME NEW q \in Requests PROVE Filed(q)'
    <3>1. CASE q = r
      BY <1>5, <3>1 DEF Filed, Idle
    <3>2. CASE q # r
      <4>1. request'[q] = request[q] /\ Filed(q)
        BY <1>5, <3>2 DEF FiledInv
      <4>2. request[q].op = "update" => articles'[request[q].article] # None
        <5>1. SUFFICES ASSUME request[q].op = "update" PROVE articles'[request[q].article] # None
          OBVIOUS
        <5>2. request[q].article \in Articles /\ articles[request[q].article] # None
          BY <4>1, <5>1, WorkKinds DEF Filed, TypeOK, Works, Filings
        <5>3. DEFINE a == request[q].article
        <5>4. a \in FiledUnder(c) => articles'[a] # None
          <6>1. SUFFICES ASSUME a \in FiledUnder(c) PROVE articles'[a] \in NewsRows
            OBVIOUS
          <6>2. articles[a] \in NewsRows /\ a \in Articles
            BY <5>2 DEF TypeOK
          <6> HIDE DEF a
          <6>3. articles'[a] = [category |-> None, deleted |-> articles[a].deleted]
            BY <2>1, <6>1, <6>2 DEF NewsRows
          <6>4. QED
            BY <6>2, <6>3 DEF NewsRows
        <5>5. QED
          BY <2>3, <5>2, <5>4
      <4>3. request[q].op = "delete" => Counted(q)'
        <5>1. SUFFICES ASSUME request[q].op = "delete", NEW a \in Articles, articles'[a] # None,
                              articles'[a].category = request[q].target, ~articles'[a].deleted
                       PROVE  a \in request[q].filed
          BY <4>1 DEF Counted, FiledUnder, Live
        <5>2. request[q].target \in Ids
          BY <5>1, WorkKinds DEF TypeOK, Works, Deletions
        <5>3. request[q].target # None
          BY <5>2 DEF Ids
        <5>4. articles'[a] = articles[a]
          BY <2>3, <5>1, <5>3
        <5>5. QED
          BY <4>1, <5>1, <5>4 DEF Filed, Counted, FiledUnder, Live
      <4>4. QED
        BY <4>1, <4>2, <4>3 DEF Filed
    <3>3. QED
      BY <3>1, <3>2
  <2>9. QED
    BY <1>1, <1>5, <2>3, <2>7, <2>8 DEF FiledInv, c
<1>8. QED
  BY <1>6, <1>7

LEMMA RestartStep ==
    ASSUME CInv, FiledInv, Restart
    PROVE  CInv' /\ FiledInv' /\ UNCHANGED catalogVars
<1> USE DEF CInv
<1>1. lock' = None /\ request' = [r \in Requests |-> Idle] /\ UNCHANGED <<catalogVars, loosened>>
  BY DEF Restart, Release
<1>2. TypeOK' /\ Existing' = Existing
  BY <1>1 DEF TypeOK, catalogVars, Existing
<1>3. \A q \in Requests : Ready(q)' /\ Filed(q)'
  BY <1>1 DEF Ready, Holds, Numbered, HasList, At, Filed, Idle
<1>4. CInv'
  BY <1>1, <1>2, <1>3, QuietStep DEF catalogVars
<1>5. QED
  BY <1>1, <1>3, <1>4 DEF FiledInv

-----------------------------------------------------------------------------
(* The invariant holds, and what follows from it.                          *)

LEMMA NextCInv ==
    ASSUME CInv, FiledInv, [CatalogStep \/ Restart]_vars
    PROVE  CInv' /\ FiledInv'
<1>1. TypeOK
  BY DEF CInv
<1>2. ASSUME NEW r \in Requests, RequestStep(r) PROVE CInv' /\ FiledInv'
  BY <1>1, <1>2, BeginSteps, FiledBegins, LockSteps, InsertStep, MoveStep, FiledWaits,
     DeleteCategoryStep, CreateNewsStep, UpdateNewsStep DEF RequestStep
<1>3. ASSUME \/ \E c \in Ids, o \in ExplicitOrders : Renumber(c, o)
             \/ \E c \in Ids, s \in Slugs : Rename(c, s)
      PROVE  CInv' /\ FiledInv'
  <2>1. UNCHANGED <<articles, request>>
    BY <1>3 DEF Renumber, Rename, requestVars
  <2>2. QED
    BY <1>3, <2>1, UnlockedSteps, SameArticles DEF SameWork
<1>4. CASE UNCHANGED vars
  <2>1. UNCHANGED <<categories, issued, articles, lock, request, loosened>>
    BY <1>4 DEF vars, catalogVars, requestVars
  <2>2. TypeOK' /\ Existing' = Existing
    BY <1>1, <2>1 DEF TypeOK, Existing
  <2>3. QED
    BY <2>1, <2>2, QuietStep, SameArticles DEF SameWork
<1>5. QED
  BY <1>2, <1>3, <1>4, DeleteNewsStep, RestartStep DEF CatalogStep

LEMMA Invariance == Spec => [](CInv /\ FiledInv)
<1>1. Init => CInv /\ FiledInv
  BY InitCInv DEF Init, FiledInv, Filed, Idle
<1>2. CInv /\ FiledInv /\ [CatalogStep \/ Restart]_vars => (CInv /\ FiledInv)'
  BY NextCInv
<1>3. QED
  BY <1>1, <1>2, PTL DEF Spec

\* The tables of categories and articles keep their types, and as long as
\* nobody numbers outside the lock positions are 0, 1, 2, ... without ties or
\* gaps, whatever createCategory and moveCategory run at once.
THEOREM Catalog == Spec => []CatalogIsConsistent
<1>1. CInv /\ FiledInv => CatalogIsConsistent
  BY DEF CInv, CatalogIsConsistent
<1>2. QED
  BY <1>1, Invariance, PTL

\* An article that is not deleted loses its category only by an update that asks
\* for it, or by a deleteCategory that had counted the articles before this one
\* was filed.
THEOREM LostOnlyInRaces == Spec => CategoriesAreLostOnlyInRaces
<1> DEFINE Lost(a) == Live(a) /\ articles[a].category # None /\ articles'[a].category = None
           Cause(a) == \E r \in Requests :
              /\ request'[r] = Idle
              /\ \/ /\ request[r].op = "update" /\ request[r].article = a
                    /\ request[r].target = None
                 \/ request[r].op = "delete" /\ a \in request[r].filed
           Explained == \A a \in Articles : Lost(a) => Cause(a)
<1>1. ASSUME CInv, FiledInv, [CatalogStep \/ Restart]_vars PROVE Explained
  <2>1. SUFFICES ASSUME NEW a \in Articles, Lost(a) PROVE Cause(a)
    OBVIOUS
  <2>2. articles[a] # None /\ articles'[a].category # articles[a].category
    BY <2>1 DEF Live
  <2>3. PICK r \in Requests : UpdateNews(r) \/ DeleteCategory(r)
    <3>1. ~UNCHANGED articles
      BY <2>2
    <3>2. ~Restart /\ ~(UNCHANGED vars)
      BY <3>1 DEF Restart, vars, catalogVars
    <3>3. ~\E b \in Articles : DeleteNews(b)
      BY <1>1, <2>2, DeleteNewsStep
    <3>4. ASSUME NEW r \in Requests, RequestStep(r) PROVE UpdateNews(r) \/ DeleteCategory(r)
      <4>1. ~CreateNews(r)
        BY <1>1, <2>2, CreateNewsStep
      <4>2. QED
        BY <3>1, <3>4, <4>1 DEF RequestStep, BeginCreate, LockAndNumber, InsertCategory, SlugTaken, BeginMove,
           LockAndList, WriteMove, CountArticles, EnsureCategory, RefuseNews, catalogVars
    <3>5. QED
      BY <1>1, <3>1, <3>2, <3>3, <3>4 DEF CatalogStep, Renumber, Rename
  <2>4. CASE UpdateNews(r)
    <3>1. /\ request[r].op = "update" /\ request'[r] = Idle
          /\ a # request[r].article => articles'[a] = articles[a]
          /\ articles'[request[r].article].category = request[r].target
      BY <1>1, <2>4, UpdateNewsStep
    <3>2. QED
      BY <2>1, <2>2, <3>1
  <2>5. CASE DeleteCategory(r)
    <3>1. /\ request[r].op = "delete" /\ request'[r] = Idle
          /\ a \notin FiledUnder(request[r].target) => articles'[a] = articles[a]
      BY <1>1, <2>5, DeleteCategoryStep
    <3>2. a \in request[r].filed
      BY <1>1, <2>1, <2>2, <3>1 DEF FiledInv, Filed, Counted
    <3>3. QED
      BY <3>1, <3>2
  <2>6. QED
    BY <2>3, <2>4, <2>5
<1>2. CInv /\ FiledInv /\ [CatalogStep \/ Restart]_vars => [Explained]_vars
  BY <1>1
<1>3. QED
  BY <1>2, Invariance, PTL DEF Spec, CategoriesAreLostOnlyInRaces

\* Of the steps that change a category, only the move of r itself ends that move.
LEMMA OnlyTheMoveEnds ==
    ASSUME CInv, FiledInv, [CatalogStep \/ Restart]_vars, categories' # categories,
           NEW r \in Requests, At(r, "move", "write"), request'[r] = Idle
    PROVE  WriteMove(r)
<1>1. request[r].op = "move" /\ request[r] # Idle /\ lock = r
  BY DEF At, Idle, CInv, HolderInv, Holds
<1>2. PICK q \in Requests : InsertCategory(q) \/ WriteMove(q) \/ DeleteCategory(q)
  BY <1>1 DEF CatalogStep, Restart, vars, catalogVars, requestVars, Renumber, Rename, DeleteNews, RequestStep,
     BeginCreate, LockAndNumber, SlugTaken, BeginMove, LockAndList, CountArticles, EnsureCategory,
     CreateNews, UpdateNews, File, RefuseNews
<1>3. ~DeleteCategory(q)
  BY <1>1, DeleteCategoryStep
<1>4. CASE InsertCategory(q)
  BY <1>1, <1>4 DEF InsertCategory, At, CInv, HolderInv, Holds
<1>5. CASE WriteMove(q)
  BY <1>1, <1>5 DEF WriteMove, At, CInv, HolderInv, Holds
<1>6. QED
  BY <1>2, <1>3, <1>4, <1>5

LEMMA WritesCommute ==
    ASSUME TypeOK, NEW x \in Existing, NEW y \in Existing, x # y, NEW a \in Nat, NEW b \in Nat,
           Writes(x, y, a, b)
    PROVE  Writes(y, x, b, a)
<1> DEFINE f == categories
           g == [f EXCEPT ![x].order = a, ![y].order = b]
           h == [f EXCEPT ![y].order = b, ![x].order = a]
<1>1. /\ x \in Ids /\ y \in Ids /\ f[x] \in CategoryRows /\ f[y] \in CategoryRows
      /\ f \in [Ids -> CategoryRows \cup {None}]
  BY RowTypes DEF TypeOK
<1>2. DOMAIN g = Ids /\ DOMAIN h = Ids /\ g = [c \in Ids |-> g[c]] /\ h = [c \in Ids |-> h[c]]
  BY <1>1
<1>3. g[x] = [slug |-> f[x].slug, order |-> a] /\ h[x] = [slug |-> f[x].slug, order |-> a]
  BY <1>1 DEF CategoryRows
<1>4. g[y] = [slug |-> f[y].slug, order |-> b] /\ h[y] = [slug |-> f[y].slug, order |-> b]
  BY <1>1 DEF CategoryRows
<1>5. \A c \in Ids \ {x, y} : g[c] = f[c] /\ h[c] = f[c]
  BY <1>1
<1> HIDE DEF g, h
<1>6. \A c \in Ids : g[c] = h[c]
  BY <1>3, <1>4, <1>5
<1>7. g = h
  BY <1>2, <1>6
<1>8. QED
  BY <1>7, Zenon DEF g, h, Writes

\* From dense positions a move changes the category with its neighbour on the
\* side asked for, and no other category.
THEOREM ExchangeNeighbours == Spec => MovesExchangeNeighbours
<1> DEFINE Exchanged(r) ==
       \E c, d \in Existing :
           /\ request[r].target = IF request[r].up THEN d ELSE c
           /\ categories[d].order = categories[c].order + 1
           /\ categories' = [categories EXCEPT ![c].order = @ + 1, ![d].order = @ - 1]
           Moved(r) == At(r, "move", "write") /\ request'[r] = Idle /\ ~loosened /\ categories' # categories
           AllExchanged == \A r \in Requests : Moved(r) => Exchanged(r)
<1>1. ASSUME CInv, FiledInv, [CatalogStep \/ Restart]_vars PROVE AllExchanged
  <2>1. SUFFICES ASSUME NEW r \in Requests, Moved(r) PROVE Exchanged(r)
    OBVIOUS
  <2>2. WriteMove(r)
    BY <1>1, <2>1, OnlyTheMoveEnds
  <2>3. PICK i, j, x, y : Exchanges(r, i, j, x, y)
    BY <1>1, <2>1, <2>2, MoveWrites
  <2>4. /\ i \in Nat \ {0} /\ j \in Nat \ {0} /\ x \in Existing /\ y \in Existing
        /\ request[r].target = x /\ j = (IF request[r].up THEN i - 1 ELSE i + 1)
        /\ categories[x].order = i - 1 /\ categories[y].order = j - 1 /\ x # y
        /\ Writes(x, y, j - 1, i - 1)
    BY <2>1, <2>3 DEF Exchanges
  <2>5. CASE request[r].up
    <3>1. j - 1 = categories[x].order - 1 /\ i - 1 = categories[y].order + 1
      BY <2>4, <2>5
    <3>2. j - 1 \in Nat /\ i - 1 \in Nat
      BY <2>4
    <3>3. categories' = [categories EXCEPT ![y].order = i - 1, ![x].order = j - 1]
      <4>1. Writes(y, x, i - 1, j - 1)
        BY <1>1, <2>4, <3>2, WritesCommute DEF CInv
      <4>2. QED
        BY <4>1, Zenon DEF Writes
    <3>4. categories' = [categories EXCEPT ![y].order = @ + 1, ![x].order = @ - 1]
      BY <3>1, <3>3, Zenon
    <3>5. categories[x].order = categories[y].order + 1
      BY <2>4, <2>5
    <3>6. request[r].target = IF request[r].up THEN x ELSE y
      BY <2>4, <2>5
    <3>7. QED
      BY <2>4, <3>4, <3>5, <3>6, Zenon
  <2>6. CASE ~request[r].up
    <3>1. j - 1 = categories[x].order + 1 /\ i - 1 = categories[y].order - 1
      BY <2>4, <2>6
    <3>2. categories' = [categories EXCEPT ![x].order = j - 1, ![y].order = i - 1]
      BY <2>4 DEF Writes
    <3>3. categories' = [categories EXCEPT ![x].order = @ + 1, ![y].order = @ - 1]
      BY <3>1, <3>2, Zenon
    <3>4. categories[y].order = categories[x].order + 1
      BY <2>4, <2>6
    <3>5. request[r].target = IF request[r].up THEN y ELSE x
      BY <2>4, <2>6
    <3>6. QED
      BY <2>4, <3>3, <3>4, <3>5, Zenon
  <2>7. QED
    BY <2>5, <2>6
<1>2. CInv /\ FiledInv /\ [CatalogStep \/ Restart]_vars => [AllExchanged]_vars
  BY <1>1
<1>3. QED
  BY <1>2, Invariance, PTL DEF Spec, MovesExchangeNeighbours

-----------------------------------------------------------------------------
(* The seed: its statements, and what each has made true.                  *)

Statements ==
    [table : {"section"}, key : SectionKeys] \cup [table : {"link"}, key : Children]
    \cup [table : {"page", "createPage"}, key : LegacySections]
    \cup [table : {"category"}, key : DOMAIN SeedCategories]
    \cup [table : {"article"}, key : DOMAIN SeedArticles]
    \cup [table : {"settings", "map", "root", "createRoot"}]

\* The part of main() a statement belongs to.
Phase(x) ==
    CASE x.table = "section"                -> 1
      [] x.table = "link"                   -> 2
      [] x.table = "settings"               -> 3
      [] x.table \in {"page", "createPage"} -> 4
      [] x.table = "category"               -> 5
      [] x.table = "map"                    -> 6
      [] x.table = "article"                -> 7
      [] OTHER                              -> 8

InPhases(s) == \A i, j \in DOMAIN s : i < j => Phase(s[i]) <= Phase(s[j])
Occurs(x, s) == \E i \in DOMAIN s : s[i] = x
Pending(x) == Occurs(x, todo)

\* What is still to run is in the order of main(); a page is created only right
\* after it was looked for.
OrderInv ==
    /\ todo \in Seq(Statements) /\ InPhases(todo)
    /\ \A i \in DOMAIN todo : todo[i].table = "createPage" => i = 1 /\ pages[todo[i].key] = 0
    /\ pages \in [LegacySections -> {0, 1}]

\* What each statement makes true, unless it is still to run.
SectionsSeeded == \A k \in SectionKeys :
    sections[k] # "absent" \/ Pending([table |-> "section", key |-> k])
SectionsLinked == \A k \in Children :
    sections[k] = "linked" \/ Pending([table |-> "link", key |-> k])
SettingsSeeded == settings = "default" \/ Pending([table |-> "settings"])
PagesSeeded == \A k \in LegacySections :
    \/ pages[k] = 1
    \/ Pending([table |-> "page", key |-> k]) \/ Pending([table |-> "createPage", key |-> k])
IsSeeded(i) == \E c \in Existing :
    categories[c] = [slug |-> Seeded(SeedCategories[i]), order |-> i - 1]
CategoriesSeeded == \A i \in DOMAIN SeedCategories :
    IsSeeded(i) \/ Pending([table |-> "category", key |-> i])
HasSlug(c, slug) == c \in Existing /\ categories[c].slug = slug
MapRead == \A i \in DOMAIN SeedArticles : LET slug == Seeded(SeedArticles[i].category) IN
    HasSlug(map[slug], slug) \/ Pending([table |-> "map"])
ArticlesSeeded == \A i \in DOMAIN SeedArticles : LET a == SeedArticles[i].article IN
    \/ Live(a) /\ HasSlug(articles[a].category, Seeded(SeedArticles[i].category))
    \/ Pending([table |-> "article", key |-> i])
RootSeeded == root = "super" \/ Pending([table |-> "root"]) \/ Pending([table |-> "createRoot"])

Progress ==
    /\ SectionsSeeded /\ SectionsLinked /\ SettingsSeeded /\ PagesSeeded
    /\ CategoriesSeeded /\ MapRead /\ ArticlesSeeded /\ RootSeeded

\* Progress is claimed as long as nobody has interfered.
ProgressInv ==
    /\ outcome \in {"running", "complete"} => Progress
    /\ outcome = "complete" => todo = <<>>

FieldTypes ==
    /\ serving \in BOOLEAN /\ map \in [Slugs -> Ids \cup {None}]
    /\ sections \in [SectionKeys -> {"absent", "present", "linked"}]
    /\ settings \in {"absent", "default", "edited"} /\ root \in {"absent", "plain", "super"}
    /\ outcome \in {"running", "complete", "other"}

SeedInv == CInv /\ FiledInv /\ FieldTypes /\ OrderInv /\ ProgressInv

-----------------------------------------------------------------------------
(* The plan.                                                               *)

LEMMA StatementKinds ==
    ASSUME NEW x \in Statements
    PROVE  /\ x.table = "section" => x.key \in SectionKeys /\ x = [table |-> "section", key |-> x.key]
           /\ x.table = "link" => x.key \in Children /\ x = [table |-> "link", key |-> x.key]
           /\ x.table = "page" => x.key \in LegacySections /\ x = [table |-> "page", key |-> x.key]
           /\ x.table = "createPage" => x.key \in LegacySections /\ x = [table |-> "createPage", key |-> x.key]
           /\ x.table = "category" => x.key \in DOMAIN SeedCategories /\ x = [table |-> "category", key |-> x.key]
           /\ x.table = "article" => x.key \in DOMAIN SeedArticles /\ x = [table |-> "article", key |-> x.key]
           /\ x.table \in {"settings", "map", "root", "createRoot"} => x = [table |-> x.table]
           /\ x.table \in {"section", "link", "settings", "page", "createPage", "category", "map", "article",
                           "root", "createRoot"}
BY DEF Statements

\* The statements of phases lo to hi, one after the other.
Part(s, lo, hi) ==
    /\ s \in Seq(Statements) /\ InPhases(s)
    /\ \A i \in DOMAIN s : lo <= Phase(s[i]) /\ Phase(s[i]) <= hi /\ s[i].table # "createPage"

LEMMA JoinParts ==
    ASSUME NEW s, NEW t, NEW lo \in Nat, NEW m \in Nat, NEW n \in Nat, NEW hi \in Nat,
           Part(s, lo, m), Part(t, n, hi), lo <= m, m < n, n <= hi
    PROVE  /\ Part(s \o t, lo, hi)
           /\ \A x : Occurs(x, s) \/ Occurs(x, t) => Occurs(x, s \o t)
<1> DEFINE u == s \o t
<1>1. s \in Seq(Statements) /\ t \in Seq(Statements)
  BY DEF Part
<1>2. /\ DOMAIN s = 1..Len(s) /\ DOMAIN t = 1..Len(t) /\ Len(s) \in Nat /\ Len(t) \in Nat
      /\ u \in Seq(Statements) /\ DOMAIN u = 1..(Len(s) + Len(t))
      /\ \A i \in 1..(Len(s) + Len(t)) : u[i] = IF i <= Len(s) THEN s[i] ELSE t[i - Len(s)]
  BY <1>1, ConcatProperties, LenProperties
<1> HIDE DEF u
<1>3. \A x : Phase(x) \in Nat
  BY DEF Phase
<1>4. ASSUME NEW i \in DOMAIN u, ~(i <= Len(s))
      PROVE  i - Len(s) \in DOMAIN t /\ u[i] = t[i - Len(s)]
  BY <1>2, <1>4
<1>5. ASSUME NEW i \in DOMAIN u
      PROVE  lo <= Phase(u[i]) /\ Phase(u[i]) <= hi /\ u[i].table # "createPage"
  <2>1. CASE i <= Len(s)
    <3>1. i \in DOMAIN s /\ u[i] = s[i]
      BY <1>2, <2>1
    <3>2. lo <= Phase(u[i]) /\ Phase(u[i]) <= m /\ u[i].table # "createPage"
      BY <3>1 DEF Part
    <3>3. Phase(u[i]) \in Nat
      BY <1>3
    <3>4. QED
      BY <3>2, <3>3
  <2>2. CASE ~(i <= Len(s))
    <3>1. i - Len(s) \in DOMAIN t /\ u[i] = t[i - Len(s)]
      BY <1>4, <2>2
    <3>2. n <= Phase(u[i]) /\ Phase(u[i]) <= hi /\ u[i].table # "createPage"
      BY <3>1 DEF Part
    <3>3. Phase(u[i]) \in Nat
      BY <1>3
    <3>4. QED
      BY <3>2, <3>3
  <2>3. QED
    BY <2>1, <2>2
<1>6. ASSUME NEW i \in DOMAIN u, NEW j \in DOMAIN u, i < j PROVE Phase(u[i]) <= Phase(u[j])
  <2>1. CASE j <= Len(s)
    <3>1. i \in DOMAIN s /\ j \in DOMAIN s /\ u[i] = s[i] /\ u[j] = s[j]
      BY <1>2, <1>6, <2>1
    <3>2. QED
      BY <1>6, <3>1 DEF Part, InPhases
  <2>2. CASE ~(i <= Len(s))
    <3>1. ~(j <= Len(s)) /\ i - Len(s) < j - Len(s)
      BY <1>2, <1>6, <2>2
    <3>2. /\ i - Len(s) \in DOMAIN t /\ u[i] = t[i - Len(s)]
          /\ j - Len(s) \in DOMAIN t /\ u[j] = t[j - Len(s)]
      BY <1>4, <2>2, <3>1
    <3>3. QED
      BY <3>1, <3>2 DEF Part, InPhases
  <2>3. CASE i <= Len(s) /\ ~(j <= Len(s))
    <3>1. i \in DOMAIN s /\ u[i] = s[i] /\ j - Len(s) \in DOMAIN t /\ u[j] = t[j - Len(s)]
      BY <1>2, <1>4, <2>3
    <3>2. Phase(s[i]) <= m /\ n <= Phase(t[j - Len(s)])
      BY <3>1 DEF Part
    <3>3. QED
      BY <1>3, <3>1, <3>2
  <2>4. QED
    BY <1>2, <1>6, <2>1, <2>2, <2>3
<1>7. ASSUME NEW x, Occurs(x, s) PROVE Occurs(x, u)
  BY <1>2, <1>7 DEF Occurs
<1>8. ASSUME NEW x, Occurs(x, t) PROVE Occurs(x, u)
  <2>1. PICK i \in DOMAIN t : t[i] = x
    BY <1>8 DEF Occurs
  <2>2. i + Len(s) \in DOMAIN u /\ u[i + Len(s)] = t[i]
    <3>1. i + Len(s) \in 1..(Len(s) + Len(t)) /\ ~(i + Len(s) <= Len(s)) /\ i + Len(s) - Len(s) = i
      BY <1>2
    <3>2. QED
      BY <1>2, <3>1
  <2>3. QED
    BY <2>1, <2>2 DEF Occurs
<1>9. QED
  BY <1>2, <1>5, <1>6, <1>7, <1>8 DEF Part, InPhases, u

\* One statement for each key.
LEMMA StatementPart ==
    ASSUME NEW S, IsFiniteSet(S), NEW table, NEW n \in Nat, table # "createPage",
           [table : {table}, key : S] \subseteq Statements,
           \A k \in S : Phase([table |-> table, key |-> k]) = n
    PROVE  /\ Part(Statement(table, S), n, n)
           /\ \A k \in S : Occurs([table |-> table, key |-> k], Statement(table, S))
<1> DEFINE T == [table : {table}, key : S]
           g == [k \in S |-> [table |-> table, key |-> k]]
           c == Cardinality(T)
           s == SetToSeq(T)
<1>1. \A k \in S : [table |-> table, key |-> k] \in T /\ g[k] = [table |-> table, key |-> k]
  OBVIOUS
<1>2. ASSUME NEW x \in T PROVE x.key \in S /\ x.table = table /\ x = [table |-> table, key |-> x.key]
  OBVIOUS
<1>3. g \in Surjection(S, T)
  <2>1. g \in [S -> T]
    BY <1>1
  <2>2. \A x \in T : \E k \in S : g[k] = x
    BY <1>1, <1>2
  <2> HIDE DEF g, T
  <2>3. QED
    BY <2>1, <2>2 DEF Surjection
<1>4. T \subseteq Statements
  OBVIOUS
<1> HIDE DEF g, T
<1>5. IsFiniteSet(T)
  BY <1>3, FS_Surjection
<1>6. c \in Nat /\ \E f \in [1..c -> T] : IsInjective(f)
  BY <1>5, FS_CardinalityType DEF ExistsBijection, Bijection, Injection
<1>7. s \in [1..c -> T] /\ IsInjective(s)
  BY <1>6, Zenon DEF SetToSeq
<1>8. c = Cardinality(T) /\ s = Statement(table, S)
  BY DEF T, Statement
<1> HIDE DEF s, c
<1>9. s \in Seq(Statements) /\ DOMAIN s = 1..c /\ s \in Surjection(1..c, T)
  <2>1. s \in Injection(1..c, T)
    BY <1>7 DEF Injection
  <2>2. IsFiniteSet(1..c) /\ Cardinality(1..c) = c
    BY <1>6, FS_Interval
  <2>3. s \in Surjection(1..c, T)
    BY <1>5, <1>8, <2>1, <2>2, FS_Injection
  <2>4. s \in Seq(Statements)
    BY <1>4, <1>6, <1>7
  <2>5. QED
    BY <1>7, <2>3, <2>4
<1>10. \A i \in DOMAIN s : s[i] \in T /\ s[i].table = table /\ Phase(s[i]) = n
  BY <1>2, <1>7
<1>11. \A k \in S : Occurs([table |-> table, key |-> k], s)
  BY <1>1, <1>9 DEF Surjection, Occurs
<1>12. Part(s, n, n)
  BY <1>2, <1>9, <1>10 DEF Part, InPhases
<1>13. QED
  BY <1>8, <1>11, <1>12


LEMMA FiniteKeys == IsFiniteSet(SectionKeys) /\ IsFiniteSet(Children)
<1> DEFINE Parents == {p.parent : p \in Sections}
           f == [p \in Sections |-> p.child]
           g == [p \in Sections |-> p.parent]
<1>1. f \in Surjection(Sections, Children)
  BY DEF Surjection, Children
<1>2. g \in Surjection(Sections, Parents)
  BY DEF Surjection
<1>3. IsFiniteSet(Children) /\ IsFiniteSet(Parents)
  BY <1>1, <1>2, FS_Surjection, SeedAssumption
<1>4. SectionKeys = Children \cup Parents
  BY DEF SectionKeys, Children
<1> HIDE DEF Parents
<1>5. QED
  BY <1>3, <1>4, FS_Union

\* A single statement, and one for each item of a list.
LEMMA SinglePart ==
    ASSUME NEW x \in Statements, x.table # "createPage"
    PROVE  Part(<<x>>, Phase(x), Phase(x)) /\ Occurs(x, <<x>>)
<1>1. Phase(x) \in Nat
  BY DEF Phase
<1>2. <<x>> \in Seq(Statements) /\ DOMAIN <<x>> = {1} /\ <<x>>[1] = x
  OBVIOUS
<1>3. QED
  BY <1>1, <1>2 DEF Part, InPhases, Occurs

LEMMA ListPart ==
    ASSUME NEW n \in Nat, NEW table, NEW m \in Nat, table # "createPage",
           [table : {table}, key : 1..n] \subseteq Statements,
           \A i \in 1..n : Phase([table |-> table, key |-> i]) = m
    PROVE  LET s == [i \in 1..n |-> [table |-> table, key |-> i]]
           IN  /\ Part(s, m, m)
               /\ \A i \in 1..n : Occurs([table |-> table, key |-> i], s)
<1> DEFINE x(i) == [table |-> table, key |-> i]
           s == [i \in 1..n |-> x(i)]
<1>1. \A i \in 1..n : x(i) \in Statements /\ x(i).table = table /\ Phase(x(i)) = m
  OBVIOUS
<1> HIDE DEF x
<1>2. DOMAIN s = 1..n /\ \A i \in 1..n : s[i] = x(i)
  OBVIOUS
<1>3. s \in [1..n -> Statements]
  BY <1>1
<1> HIDE DEF s
<1>4. s \in Seq(Statements)
  BY <1>3
<1>5. Part(s, m, m)
  BY <1>1, <1>2, <1>4 DEF Part, InPhases
<1>6. \A i \in 1..n : Occurs(x(i), s)
  BY <1>2 DEF Occurs
<1>7. QED
  BY <1>5, <1>6 DEF s, x

LEMMA PlanShape ==
    /\ SeedPlan \in Seq(Statements) /\ InPhases(SeedPlan) /\ SeedPlan # <<>>
    /\ \A i \in DOMAIN SeedPlan : SeedPlan[i].table # "createPage"
    /\ \A x \in Statements : x.table \notin {"createPage", "createRoot"} => Occurs(x, SeedPlan)
<1> DEFINE sections_ == Statement("section", SectionKeys)
           links == Statement("link", Children)
           settings_ == <<[table |-> "settings"]>>
           pages_ == Statement("page", LegacySections)
           categories_ == [i \in DOMAIN SeedCategories |-> [table |-> "category", key |-> i]]
           map_ == <<[table |-> "map"]>>
           articles_ == [i \in DOMAIN SeedArticles |-> [table |-> "article", key |-> i]]
           root_ == <<[table |-> "root"]>>
<1>1. /\ Part(sections_, 1, 1) /\ \A k \in SectionKeys : Occurs([table |-> "section", key |-> k], sections_)
      /\ Part(links, 2, 2) /\ \A k \in Children : Occurs([table |-> "link", key |-> k], links)
      /\ Part(pages_, 4, 4) /\ \A k \in LegacySections : Occurs([table |-> "page", key |-> k], pages_)
  <2>1. /\ [table : {"section"}, key : SectionKeys] \subseteq Statements
        /\ [table : {"link"}, key : Children] \subseteq Statements
        /\ [table : {"page"}, key : LegacySections] \subseteq Statements
    BY DEF Statements
  <2>2. /\ \A k \in SectionKeys : Phase([table |-> "section", key |-> k]) = 1
        /\ \A k \in Children : Phase([table |-> "link", key |-> k]) = 2
        /\ \A k \in LegacySections : Phase([table |-> "page", key |-> k]) = 4
    BY DEF Phase
  <2> HIDE DEF sections_, links, pages_
  <2>3. Part(sections_, 1, 1) /\ \A k \in SectionKeys : Occurs([table |-> "section", key |-> k], sections_)
    BY <2>1, <2>2, FiniteKeys, StatementPart DEF sections_
  <2>4. Part(links, 2, 2) /\ \A k \in Children : Occurs([table |-> "link", key |-> k], links)
    BY <2>1, <2>2, FiniteKeys, StatementPart DEF links
  <2>5. Part(pages_, 4, 4) /\ \A k \in LegacySections : Occurs([table |-> "page", key |-> k], pages_)
    BY <2>1, <2>2, SeedAssumption, StatementPart DEF pages_
  <2>6. QED
    BY <2>3, <2>4, <2>5
<1>2. /\ Part(settings_, 3, 3) /\ Occurs([table |-> "settings"], settings_)
      /\ Part(map_, 6, 6) /\ Occurs([table |-> "map"], map_)
      /\ Part(root_, 8, 8) /\ Occurs([table |-> "root"], root_)
  <2>1. /\ [table |-> "settings"] \in Statements /\ Phase([table |-> "settings"]) = 3
        /\ [table |-> "map"] \in Statements /\ Phase([table |-> "map"]) = 6
        /\ [table |-> "root"] \in Statements /\ Phase([table |-> "root"]) = 8
    BY DEF Statements, Phase
  <2>2. QED
    BY <2>1, SinglePart
<1>3. /\ Part(categories_, 5, 5)
      /\ \A i \in DOMAIN SeedCategories : Occurs([table |-> "category", key |-> i], categories_)
      /\ Part(articles_, 7, 7)
      /\ \A i \in DOMAIN SeedArticles : Occurs([table |-> "article", key |-> i], articles_)
  <2> DEFINE m == Len(SeedCategories)
             n == Len(SeedArticles)
  <2>1. m \in Nat /\ DOMAIN SeedCategories = 1..m /\ n \in Nat /\ DOMAIN SeedArticles = 1..n
    BY SeedAssumption, LenProperties
  <2> HIDE DEF m, n
  <2>2. /\ [table : {"category"}, key : 1..m] \subseteq Statements
        /\ [table : {"article"}, key : 1..n] \subseteq Statements
    BY <2>1 DEF Statements
  <2>3. /\ \A i \in 1..m : Phase([table |-> "category", key |-> i]) = 5
        /\ \A i \in 1..n : Phase([table |-> "article", key |-> i]) = 7
    BY DEF Phase
  <2>4. QED
    BY <2>1, <2>2, <2>3, ListPart
<1> HIDE DEF sections_, links, settings_, pages_, categories_, map_, articles_, root_
<1> DEFINE p2 == sections_ \o links
           p3 == p2 \o settings_
           p4 == p3 \o pages_
           p5 == p4 \o categories_
           p6 == p5 \o map_
           p7 == p6 \o articles_
           p8 == p7 \o root_
<1>4. Part(p2, 1, 2) /\ \A x : Occurs(x, sections_) \/ Occurs(x, links) => Occurs(x, p2)
  BY <1>1, JoinParts
<1> HIDE DEF p2
<1>5. Part(p3, 1, 3) /\ \A x : Occurs(x, p2) \/ Occurs(x, settings_) => Occurs(x, p3)
  BY <1>2, <1>4, JoinParts
<1> HIDE DEF p3
<1>6. Part(p4, 1, 4) /\ \A x : Occurs(x, p3) \/ Occurs(x, pages_) => Occurs(x, p4)
  BY <1>1, <1>5, JoinParts
<1> HIDE DEF p4
<1>7. Part(p5, 1, 5) /\ \A x : Occurs(x, p4) \/ Occurs(x, categories_) => Occurs(x, p5)
  BY <1>3, <1>6, JoinParts
<1> HIDE DEF p5
<1>8. Part(p6, 1, 6) /\ \A x : Occurs(x, p5) \/ Occurs(x, map_) => Occurs(x, p6)
  BY <1>2, <1>7, JoinParts
<1> HIDE DEF p6
<1>9. Part(p7, 1, 7) /\ \A x : Occurs(x, p6) \/ Occurs(x, articles_) => Occurs(x, p7)
  BY <1>3, <1>8, JoinParts
<1> HIDE DEF p7
<1>10. Part(p8, 1, 8) /\ \A x : Occurs(x, p7) \/ Occurs(x, root_) => Occurs(x, p8)
  BY <1>2, <1>9, JoinParts
<1>11. p8 = SeedPlan
  BY DEF p8, p7, p6, p5, p4, p3, p2, sections_, links, settings_, pages_, categories_, map_, articles_, root_, SeedPlan
<1> HIDE DEF p8
<1>12. ASSUME NEW x \in Statements, x.table \notin {"createPage", "createRoot"} PROVE Occurs(x, p8)
  <2>1. \/ Occurs(x, sections_) \/ Occurs(x, links) \/ Occurs(x, settings_) \/ Occurs(x, pages_)
        \/ Occurs(x, categories_) \/ Occurs(x, map_) \/ Occurs(x, articles_) \/ Occurs(x, root_)
    BY <1>1, <1>2, <1>3, <1>12, StatementKinds
  <2>2. QED
    BY <1>4, <1>5, <1>6, <1>7, <1>8, <1>9, <1>10, <2>1
<1>13. SeedPlan # <<>>
  <2>1. Occurs([table |-> "root"], p8)
    BY <1>2, <1>10
  <2>2. QED
    BY <1>11, <2>1 DEF Occurs
<1>14. QED
  BY <1>10, <1>11, <1>12, <1>13 DEF Part

-----------------------------------------------------------------------------
(* One statement after the other.                                          *)

\* Every other statement that is still to run stays to be run.
Left == \A x \in Statements : Pending(x) /\ x # Current => Pending(x)'

LEMMA QueueTail ==
    ASSUME OrderInv, Seeding
    PROVE  /\ Current \in Statements /\ Current = todo[1] /\ 1 \in DOMAIN todo
           /\ Tail(todo) \in Seq(Statements) /\ InPhases(Tail(todo))
           /\ \A i \in DOMAIN Tail(todo) :
                 /\ Tail(todo)[i].table # "createPage"
                 /\ Phase(Current) <= Phase(Tail(todo)[i])
           /\ \A x : Pending(x) => x = Current \/ Occurs(x, Tail(todo))
           /\ \A x : Pending(x) => Phase(Current) <= Phase(x)
<1> DEFINE n == Len(todo)
           t == Tail(todo)
<1>1. todo \in Seq(Statements) /\ todo # <<>> /\ InPhases(todo)
      /\ \A i \in DOMAIN todo : todo[i].table = "createPage" => i = 1
  BY DEF OrderInv, Seeding
<1>2. n \in Nat /\ n > 0 /\ DOMAIN todo = 1..n
  BY <1>1, LenProperties
<1>3. t \in Seq(Statements) /\ Len(t) = n - 1 /\ \A i \in 1..(n - 1) : t[i] = todo[i + 1]
  BY <1>1, HeadTailProperties
<1>4. DOMAIN t = 1..(n - 1)
  BY <1>3, LenProperties
<1>5. Current = todo[1] /\ 1 \in DOMAIN todo /\ Current \in Statements
  BY <1>1, <1>2, HeadTailProperties DEF Current
<1> HIDE DEF n, t
<1>6. ASSUME NEW i \in DOMAIN t
      PROVE  /\ i + 1 \in DOMAIN todo /\ t[i] = todo[i + 1] /\ t[i].table # "createPage"
             /\ Phase(Current) <= Phase(t[i])
  <2>1. i + 1 \in DOMAIN todo /\ t[i] = todo[i + 1] /\ i + 1 # 1 /\ 1 < i + 1
    BY <1>2, <1>3, <1>4
  <2>2. QED
    BY <1>1, <1>5, <2>1 DEF InPhases
<1>7. InPhases(t)
  <2>1. SUFFICES ASSUME NEW i \in DOMAIN t, NEW j \in DOMAIN t, i < j PROVE Phase(t[i]) <= Phase(t[j])
    BY DEF InPhases
  <2>2. i + 1 < j + 1
    BY <1>2, <1>4, <2>1
  <2>3. QED
    BY <1>1, <1>6, <2>2 DEF InPhases
<1>8. \A x : Pending(x) => x = Current \/ Occurs(x, t)
  <2>1. SUFFICES ASSUME NEW i \in DOMAIN todo, i # 1 PROVE Occurs(todo[i], t)
    BY <1>5 DEF Pending, Occurs
  <2>2. i - 1 \in DOMAIN t /\ t[i - 1] = todo[i]
    BY <1>2, <1>3, <1>4, <2>1
  <2>3. QED
    BY <2>2 DEF Occurs
<1>9. \A x : Pending(x) => Phase(Current) <= Phase(x)
  <2>1. Phase(Current) <= Phase(Current)
    BY DEF Phase
  <2>2. QED
    BY <1>6, <1>8, <2>1 DEF Occurs
<1>10. QED
  BY <1>3, <1>5, <1>6, <1>7, <1>8, <1>9 DEF t

LEMMA DoneStep ==
    ASSUME OrderInv, Seeding, Done, pages' \in [LegacySections -> {0, 1}]
    PROVE  OrderInv' /\ Left
<1>1. todo' = Tail(todo)
  BY DEF Done, Proceed
<1>2. todo' \in Seq(Statements) /\ InPhases(todo)' /\ \A i \in DOMAIN todo' : todo'[i].table # "createPage"
  BY <1>1, QueueTail DEF InPhases
<1>3. \A x : Pending(x)' <=> Occurs(x, Tail(todo))
  BY <1>1 DEF Pending, Occurs
<1>4. Left
  BY <1>3, QueueTail DEF Left
<1>5. QED
  BY <1>2, <1>4 DEF OrderInv

\* Whether the seed completes, and whether the service serves.
LEMMA ProceedTypes ==
    ASSUME FieldTypes, ProgressInv, Seeding, NEW rest, Proceed(rest)
    PROVE  /\ serving' \in BOOLEAN /\ outcome' \in {"running", "complete", "other"}
           /\ outcome' \in {"running", "complete"} => Progress
           /\ outcome' = "complete" => todo' = <<>>
<1>1. serving' \in BOOLEAN
  BY Zenon DEF Proceed
<1>2. outcome # "complete"
  BY DEF ProgressInv, Seeding
<1>3. outcome' = IF rest = <<>> /\ outcome = "running" THEN "complete" ELSE outcome
  BY DEF Proceed
<1>4. todo' = rest
  BY DEF Proceed
<1>5. QED
  BY <1>1, <1>2, <1>3, <1>4 DEF FieldTypes, ProgressInv

\* What other statements have made true stays so.
SlugsStay == \A c \in Existing : c \in Existing' /\ categories'[c].slug = categories[c].slug

LEMMA SameSlugs == ASSUME UNCHANGED categories PROVE SlugsStay
BY DEF SlugsStay, Existing

LEMMA OthersStay ==
    ASSUME Progress, Left
    PROVE  /\ UNCHANGED sections /\ Current.table # "section" => SectionsSeeded'
           /\ UNCHANGED sections /\ Current.table # "link" => SectionsLinked'
           /\ UNCHANGED settings /\ Current.table # "settings" => SettingsSeeded'
           /\ UNCHANGED pages /\ Current.table \notin {"page", "createPage"} => PagesSeeded'
           /\ UNCHANGED categories /\ Current.table # "category" => CategoriesSeeded'
           /\ SlugsStay /\ UNCHANGED map /\ Current.table # "map" => MapRead'
           /\ SlugsStay /\ UNCHANGED articles /\ Current.table # "article" => ArticlesSeeded'
           /\ UNCHANGED root /\ Current.table \notin {"root", "createRoot"} => RootSeeded'
<1>1. \A x \in Statements : Pending(x) /\ x # Current => Pending(x)'
  BY DEF Left
<1>2. /\ \A k \in SectionKeys : [table |-> "section", key |-> k] \in Statements
      /\ \A k \in Children : [table |-> "link", key |-> k] \in Statements
      /\ \A k \in LegacySections : [table |-> "page", key |-> k] \in Statements
                                   /\ [table |-> "createPage", key |-> k] \in Statements
      /\ \A i \in DOMAIN SeedCategories : [table |-> "category", key |-> i] \in Statements
      /\ \A i \in DOMAIN SeedArticles : [table |-> "article", key |-> i] \in Statements
      /\ \A table \in {"settings", "map", "root", "createRoot"} : [table |-> table] \in Statements
  BY DEF Statements
<1> DEFINE st(table, key) == [table |-> table, key |-> key]
<1>0. \A table, key : Current.table # table => st(table, key) # Current
  OBVIOUS
<1> HIDE DEF st
<1>3. UNCHANGED sections /\ Current.table # "section" => SectionsSeeded'
  <2>1. SUFFICES ASSUME UNCHANGED sections, Current.table # "section", NEW k \in SectionKeys
                 PROVE  sections'[k] # "absent" \/ Pending(st("section", k))'
    BY DEF SectionsSeeded, st
  <2>2. sections[k] # "absent" \/ Pending(st("section", k))
    BY DEF Progress, SectionsSeeded, st
  <2>3. st("section", k) \in Statements
    BY <1>2 DEF st
  <2>4. QED
    BY <1>0, <1>1, <2>1, <2>2, <2>3
<1>4. UNCHANGED sections /\ Current.table # "link" => SectionsLinked'
  <2>1. SUFFICES ASSUME UNCHANGED sections, Current.table # "link", NEW k \in Children
                 PROVE  sections'[k] = "linked" \/ Pending(st("link", k))'
    BY DEF SectionsLinked, st
  <2>2. sections[k] = "linked" \/ Pending(st("link", k))
    BY DEF Progress, SectionsLinked, st
  <2>3. st("link", k) \in Statements
    BY <1>2 DEF st
  <2>4. QED
    BY <1>0, <1>1, <2>1, <2>2, <2>3
<1>5. UNCHANGED settings /\ Current.table # "settings" => SettingsSeeded'
  BY <1>1, <1>2 DEF Progress, SettingsSeeded
<1>6. UNCHANGED pages /\ Current.table \notin {"page", "createPage"} => PagesSeeded'
  <2>1. SUFFICES ASSUME UNCHANGED pages, Current.table # "page", Current.table # "createPage", NEW k \in LegacySections
                 PROVE  pages'[k] = 1 \/ Pending(st("page", k))' \/ Pending(st("createPage", k))'
    BY DEF PagesSeeded, st
  <2>2. pages[k] = 1 \/ Pending(st("page", k)) \/ Pending(st("createPage", k))
    BY DEF Progress, PagesSeeded, st
  <2>3. st("page", k) \in Statements /\ st("createPage", k) \in Statements
    BY <1>2 DEF st
  <2>4. QED
    BY <1>0, <1>1, <2>1, <2>2, <2>3
<1>7. UNCHANGED categories /\ Current.table # "category" => CategoriesSeeded'
  <2>1. SUFFICES ASSUME UNCHANGED categories, Current.table # "category", NEW i \in DOMAIN SeedCategories
                 PROVE  IsSeeded(i)' \/ Pending(st("category", i))'
    BY DEF CategoriesSeeded, st
  <2>2. IsSeeded(i) \/ Pending(st("category", i))
    BY DEF Progress, CategoriesSeeded, st
  <2>3. st("category", i) \in Statements
    BY <1>2 DEF st
  <2>4. IsSeeded(i) => IsSeeded(i)'
    BY <2>1 DEF IsSeeded, Existing, Seeded
  <2>5. QED
    BY <1>0, <1>1, <2>1, <2>2, <2>3, <2>4
<1>9. ASSUME SlugsStay, UNCHANGED map, Current.table # "map" PROVE MapRead'
  <2>1. [table |-> "map"] # Current /\ [table |-> "map"] \in Statements
    BY <1>2, <1>9
  <2>2. SUFFICES ASSUME NEW i \in DOMAIN SeedArticles, NEW slug, slug = Seeded(SeedArticles[i].category)
                 PROVE  HasSlug(map[slug], slug)' \/ Pending([table |-> "map"])'
    BY DEF MapRead, Seeded
  <2>3. HasSlug(map[slug], slug) \/ Pending([table |-> "map"])
    BY <2>2 DEF Progress, MapRead
  <2>4. HasSlug(map[slug], slug) => HasSlug(map[slug], slug)'
    BY <1>9 DEF HasSlug, SlugsStay
  <2>5. QED
    BY <1>1, <2>1, <2>3, <2>4
<1>10. ASSUME SlugsStay, UNCHANGED articles, Current.table # "article" PROVE ArticlesSeeded'
  <2>1. SUFFICES ASSUME NEW i \in DOMAIN SeedArticles, NEW a, a = SeedArticles[i].article
                 PROVE  \/ Live(a)' /\ HasSlug(articles[a].category, Seeded(SeedArticles[i].category))'
                        \/ Pending([table |-> "article", key |-> i])'
    BY DEF ArticlesSeeded
  <2>2. \/ Live(a) /\ HasSlug(articles[a].category, Seeded(SeedArticles[i].category))
        \/ Pending([table |-> "article", key |-> i])
    BY <2>1 DEF Progress, ArticlesSeeded
  <2>3. CASE Live(a) /\ HasSlug(articles[a].category, Seeded(SeedArticles[i].category))
    BY <1>10, <2>3 DEF HasSlug, SlugsStay, Live, Seeded
  <2>4. QED
    BY <1>1, <1>2, <1>10, <2>2, <2>3
<1>11. UNCHANGED root /\ Current.table \notin {"root", "createRoot"} => RootSeeded'
  BY <1>1, <1>2 DEF Progress, RootSeeded
<1>12. QED
  BY <1>3, <1>4, <1>5, <1>6, <1>7, <1>9, <1>10, <1>11

-----------------------------------------------------------------------------
(* The steps of the seed.                                                  *)

LEMMA SameCatalog ==
    ASSUME SeedInv, UNCHANGED vars
    PROVE  CInv' /\ FiledInv' /\ UNCHANGED <<categories, articles>> /\ SlugsStay
<1>1. UNCHANGED <<categories, articles>>
  BY DEF vars, catalogVars
<1>2. QED
  BY <1>1, NextCInv, SameSlugs DEF SeedInv

DataTypes ==
    /\ map \in [Slugs -> Ids \cup {None}]
    /\ sections \in [SectionKeys -> {"absent", "present", "linked"}]
    /\ settings \in {"absent", "default", "edited"} /\ root \in {"absent", "plain", "super"}

LEMMA StatementStep ==
    ASSUME SeedInv, Seeding, NEW rest, Proceed(rest), CInv', FiledInv', OrderInv', DataTypes',
           Progress => Progress'
    PROVE  SeedInv'
<1>1. /\ serving' \in BOOLEAN /\ outcome' \in {"running", "complete", "other"}
      /\ outcome' \in {"running", "complete"} => Progress
      /\ outcome' = "complete" => todo' = <<>>
  BY ProceedTypes DEF SeedInv
<1>2. FieldTypes'
  BY <1>1 DEF FieldTypes, DataTypes
<1>3. ProgressInv'
  BY <1>1 DEF ProgressInv
<1>4. QED
  BY <1>2, <1>3 DEF SeedInv

LEMMA SeedSectionStep == ASSUME SeedInv, SeedSection PROVE SeedInv'
<1> DEFINE k == Current.key
<1>1. /\ Seeding /\ Current.table = "section" /\ Done /\ UNCHANGED <<vars, map, settings, pages, root>>
      /\ sections' = [sections EXCEPT ![k] = IF @ = "absent" THEN "present" ELSE @]
  BY DEF SeedSection
<1>2. OrderInv' /\ Left /\ Proceed(Tail(todo))
  BY <1>1, DoneStep DEF SeedInv, OrderInv, Done
<1>3. k \in SectionKeys /\ Current = [table |-> "section", key |-> k]
  BY <1>1, QueueTail, StatementKinds DEF SeedInv
<1> HIDE DEF k
<1>4. /\ sections \in [SectionKeys -> {"absent", "present", "linked"}]
      /\ sections'[k] = IF sections[k] = "absent" THEN "present" ELSE sections[k]
      /\ \A j \in SectionKeys \ {k} : sections'[j] = sections[j]
  BY <1>1, <1>3 DEF SeedInv, FieldTypes
<1>5. DataTypes'
  BY <1>1, <1>3, <1>4 DEF SeedInv, FieldTypes, DataTypes
<1>6. ASSUME Progress PROVE Progress'
  <2>1. /\ SettingsSeeded' /\ PagesSeeded' /\ CategoriesSeeded' /\ MapRead' /\ ArticlesSeeded' /\ RootSeeded'
    BY <1>1, <1>2, <1>6, OthersStay, SameCatalog
  <2>2. ASSUME NEW j \in SectionKeys PROVE sections'[j] # "absent" \/ Pending([table |-> "section", key |-> j])'
    <3>1. CASE j = k
      BY <1>4, <3>1
    <3>2. CASE j # k
      <4>1. [table |-> "section", key |-> j] \in Statements /\ [table |-> "section", key |-> j] # Current
        BY <1>3, <3>2 DEF Statements
      <4>2. sections[j] # "absent" \/ Pending([table |-> "section", key |-> j])
        BY <1>6 DEF Progress, SectionsSeeded
      <4>3. QED
        BY <1>2, <1>4, <3>2, <4>1, <4>2 DEF Left
    <3>3. QED
      BY <3>1, <3>2
  <2>3. ASSUME NEW j \in Children PROVE sections'[j] = "linked" \/ Pending([table |-> "link", key |-> j])'
    <3>1. [table |-> "link", key |-> j] \in Statements /\ [table |-> "link", key |-> j] # Current
      BY <1>3 DEF Statements
    <3>2. sections[j] = "linked" \/ Pending([table |-> "link", key |-> j])
      BY <1>6 DEF Progress, SectionsLinked
    <3>3. j \in SectionKeys
      BY DEF Children, SectionKeys
    <3>4. QED
      BY <1>2, <1>4, <3>1, <3>2, <3>3 DEF Left
  <2>4. QED
    BY <2>1, <2>2, <2>3 DEF Progress, SectionsSeeded, SectionsLinked
<1>7. QED
  BY <1>1, <1>2, <1>5, <1>6, SameCatalog, StatementStep

LEMMA LinkSectionStep == ASSUME SeedInv, LinkSection PROVE SeedInv'
<1> DEFINE k == Current.key
           parent == (CHOOSE p \in Sections : p.child = k).parent
<1>1. /\ Seeding /\ Current.table = "link" /\ Done /\ UNCHANGED <<vars, map, settings, pages, root>>
      /\ sections' = IF sections[parent] = "absent" THEN sections ELSE [sections EXCEPT ![k] = "linked"]
  BY DEF LinkSection
<1>2. OrderInv' /\ Left /\ Proceed(Tail(todo))
  BY <1>1, DoneStep DEF SeedInv, OrderInv, Done
<1>3. k \in Children /\ Current = [table |-> "link", key |-> k]
  BY <1>1, QueueTail, StatementKinds DEF SeedInv
<1>4. parent \in SectionKeys /\ k \in SectionKeys
  <2> DEFINE link == CHOOSE p \in Sections : p.child = k
  <2>1. PICK p \in Sections : p.child = k
    BY <1>3 DEF Children
  <2>2. link \in Sections
    BY <2>1
  <2>3. \A s \in Sections : s.child \in SectionKeys /\ s.parent \in SectionKeys
    BY DEF SectionKeys
  <2> HIDE DEF link
  <2>4. parent = link.parent
    BY DEF link
  <2> HIDE DEF k, parent
  <2>5. QED
    BY <2>1, <2>2, <2>3, <2>4
<1> HIDE DEF k, parent
<1>5. sections \in [SectionKeys -> {"absent", "present", "linked"}]
  BY DEF SeedInv, FieldTypes
<1>6. DataTypes' /\ \A j \in SectionKeys : sections'[j] = sections[j] \/ sections'[j] = "linked"
  <2>1. sections' \in [SectionKeys -> {"absent", "present", "linked"}]
    BY <1>1, <1>4, <1>5
  <2>2. \A j \in SectionKeys : sections'[j] = sections[j] \/ sections'[j] = "linked"
    BY <1>1, <1>4, <1>5
  <2>3. QED
    BY <1>1, <2>1, <2>2 DEF SeedInv, FieldTypes, DataTypes
<1>7. ASSUME Progress PROVE Progress'
  <2>1. /\ SettingsSeeded' /\ PagesSeeded' /\ CategoriesSeeded' /\ MapRead' /\ ArticlesSeeded' /\ RootSeeded'
    BY <1>1, <1>2, <1>7, OthersStay, SameCatalog
  <2>2. ASSUME NEW j \in SectionKeys PROVE sections[j] # "absent" /\ sections'[j] # "absent"
    <3>1. Phase([table |-> "section", key |-> j]) = 1 /\ Phase(Current) = 2
      BY <1>1 DEF Phase
    <3>2. ~Pending([table |-> "section", key |-> j])
      BY <1>1, <3>1, QueueTail DEF SeedInv
    <3>3. QED
      BY <1>6, <1>7, <3>2 DEF Progress, SectionsSeeded
  <2>3. sections'[k] = "linked"
    BY <1>1, <1>4, <1>5, <2>2
  <2>4. ASSUME NEW j \in Children, j # k PROVE sections'[j] = "linked" \/ Pending([table |-> "link", key |-> j])'
    <3>1. [table |-> "link", key |-> j] \in Statements /\ [table |-> "link", key |-> j] # Current
      BY <1>3, <2>4 DEF Statements
    <3>2. sections[j] = "linked" \/ Pending([table |-> "link", key |-> j])
      BY <1>7 DEF Progress, SectionsLinked
    <3>3. j \in SectionKeys
      BY DEF Children, SectionKeys
    <3>4. QED
      BY <1>2, <1>6, <3>1, <3>2, <3>3 DEF Left
  <2>5. QED
    BY <2>1, <2>2, <2>3, <2>4 DEF Progress, SectionsSeeded, SectionsLinked
<1>8. QED
  BY <1>1, <1>2, <1>6, <1>7, SameCatalog, StatementStep

LEMMA SeedSettingsStep == ASSUME SeedInv, SeedSettings PROVE SeedInv'
<1>1. /\ Seeding /\ Current.table = "settings" /\ Done /\ UNCHANGED <<vars, map, sections, pages, root>>
      /\ settings' = "default"
  BY DEF SeedSettings
<1>2. OrderInv' /\ Left /\ Proceed(Tail(todo))
  BY <1>1, DoneStep DEF SeedInv, OrderInv, Done
<1>3. DataTypes'
  BY <1>1 DEF SeedInv, FieldTypes, DataTypes
<1>4. ASSUME Progress PROVE Progress'
  <2>1. /\ SectionsSeeded' /\ SectionsLinked' /\ PagesSeeded' /\ CategoriesSeeded' /\ MapRead' /\ ArticlesSeeded'
        /\ RootSeeded'
    BY <1>1, <1>2, <1>4, OthersStay, SameCatalog
  <2>2. QED
    BY <1>1, <2>1 DEF Progress, SettingsSeeded
<1>5. QED
  BY <1>1, <1>2, <1>3, <1>4, SameCatalog, StatementStep

\* A page that has not been found is created by the next statement.
LEMMA ReplaceHead ==
    ASSUME OrderInv, Seeding, UNCHANGED pages, NEW k \in LegacySections,
           Current = [table |-> "page", key |-> k], pages[k] = 0,
           todo' = <<[table |-> "createPage", key |-> k]>> \o Tail(todo)
    PROVE  OrderInv' /\ Left /\ Pending([table |-> "createPage", key |-> k])'
<1> DEFINE new == [table |-> "createPage", key |-> k]
           t == Tail(todo)
           n == Len(t)
<1>1. new \in Statements /\ new.key = k /\ new.table = "createPage" /\ Phase(new) = 4 /\ Phase(Current) = 4
  BY DEF Statements, Phase
<1>2. /\ t \in Seq(Statements) /\ InPhases(t)
      /\ \A i \in DOMAIN t : t[i].table # "createPage" /\ Phase(Current) <= Phase(t[i])
      /\ \A x : Pending(x) => x = Current \/ Occurs(x, t)
  BY QueueTail
<1> HIDE DEF new, t
<1>3. n \in Nat /\ DOMAIN t = 1..n
  BY <1>2, LenProperties
<1>4. <<new>> \in Seq(Statements) /\ Len(<<new>>) = 1 /\ <<new>>[1] = new
  BY <1>1
<1>5. /\ todo' \in Seq(Statements) /\ Len(todo') = 1 + n
      /\ \A i \in 1..(1 + n) : todo'[i] = IF i <= 1 THEN new ELSE t[i - 1]
  <2>1. todo' = <<new>> \o t
    BY DEF new, t
  <2>2. \A i \in 1..(1 + n) : (<<new>> \o t)[i] = IF i <= 1 THEN <<new>>[i] ELSE t[i - 1]
    BY <1>2, <1>4, ConcatProperties
  <2>3. \A i \in 1..(1 + n) : i <= 1 => i = 1
    BY <1>3
  <2>4. <<new>> \o t \in Seq(Statements) /\ Len(<<new>> \o t) = 1 + n
    BY <1>2, <1>4, ConcatProperties
  <2> HIDE DEF n
  <2>5. QED
    BY <1>4, <2>1, <2>2, <2>3, <2>4
<1> HIDE DEF n
<1>6. DOMAIN todo' = 1..(1 + n)
  BY <1>5, LenProperties
<1>7. todo'[1] = new /\ 1 \in DOMAIN todo'
  BY <1>3, <1>5, <1>6
<1>8. ASSUME NEW i \in DOMAIN todo', i # 1
      PROVE  /\ i - 1 \in DOMAIN t /\ todo'[i] = t[i - 1] /\ todo'[i].table # "createPage"
             /\ Phase(new) <= Phase(todo'[i])
  <2>1. i - 1 \in DOMAIN t /\ todo'[i] = t[i - 1]
    BY <1>3, <1>5, <1>6, <1>8
  <2>2. QED
    BY <1>1, <1>2, <2>1
<1>9. InPhases(todo')
  <2>1. SUFFICES ASSUME NEW i \in DOMAIN todo', NEW j \in DOMAIN todo', i < j PROVE Phase(todo'[i]) <= Phase(todo'[j])
    BY DEF InPhases
  <2>2. j # 1 /\ i - 1 < j - 1
    BY <1>3, <1>6, <2>1
  <2>3. CASE i = 1
    BY <1>7, <1>8, <2>2, <2>3
  <2>4. CASE i # 1
    BY <1>2, <1>8, <2>2, <2>4 DEF InPhases
  <2>5. QED
    BY <2>3, <2>4
<1>10. \A i \in DOMAIN todo' : todo'[i].table = "createPage" => i = 1 /\ pages'[todo'[i].key] = 0
  BY <1>1, <1>7, <1>8
<1>11. OrderInv'
  <2>1. pages' \in [LegacySections -> {0, 1}]
    BY DEF OrderInv
  <2>2. InPhases(todo)'
    BY <1>9 DEF InPhases
  <2>3. QED
    BY <1>5, <1>10, <2>1, <2>2 DEF OrderInv
<1>12. Left
  <2>1. SUFFICES ASSUME NEW x \in Statements, NEW i \in DOMAIN t, t[i] = x PROVE Occurs(x, todo)'
    BY <1>2 DEF Left, Pending, Occurs
  <2> DEFINE j == i + 1
  <2>2. j \in DOMAIN todo' /\ j # 1 /\ j - 1 = i
    BY <1>3, <1>6
  <2> HIDE DEF j
  <2>3. todo'[j] = x
    BY <1>8, <2>1, <2>2
  <2>4. QED
    BY <2>2, <2>3 DEF Occurs
<1>13. QED
  BY <1>7, <1>11, <1>12 DEF Pending, Occurs, new

LEMMA FindPageStep == ASSUME SeedInv, FindPage PROVE SeedInv'
<1>1. Seeding /\ Current.table = "page" /\ UNCHANGED <<vars, map, sections, settings, pages, root>>
  BY DEF FindPage, otherVars
<1>2. PICK k \in LegacySections : Current = [table |-> "page", key |-> k]
  BY <1>1, QueueTail, StatementKinds DEF SeedInv
<1> DEFINE new == [table |-> "createPage", key |-> k]
           rest == IF pages[k] > 0 THEN Tail(todo) ELSE <<new>> \o Tail(todo)
<1>3. [Current EXCEPT !.table = "createPage"] = new
  BY <1>2
<1>4. Proceed(rest)
  BY <1>2, <1>3 DEF FindPage, Done
<1>5. pages \in [LegacySections -> {0, 1}]
  BY DEF SeedInv, OrderInv
<1> HIDE DEF new
<1>6. OrderInv' /\ Left /\ (pages[k] = 1 \/ Pending(new)')
  <2>1. CASE pages[k] = 1
    <3>1. Done
      BY <1>4, <2>1 DEF Done
    <3>2. QED
      BY <1>1, <1>5, <2>1, <3>1, DoneStep DEF SeedInv
  <2>2. CASE pages[k] = 0
    <3>1. todo' = <<new>> \o Tail(todo)
      BY <1>4, <2>2 DEF Proceed
    <3>2. QED
      BY <1>1, <1>2, <2>2, <3>1, ReplaceHead DEF SeedInv, new
  <2>3. QED
    BY <1>2, <1>5, <2>1, <2>2
<1>7. DataTypes'
  BY <1>1 DEF SeedInv, FieldTypes, DataTypes
<1>8. ASSUME Progress PROVE Progress'
  <2>1. /\ SectionsSeeded' /\ SectionsLinked' /\ SettingsSeeded' /\ CategoriesSeeded' /\ MapRead' /\ ArticlesSeeded'
        /\ RootSeeded'
    BY <1>1, <1>6, <1>8, OthersStay, SameCatalog
  <2>2. ASSUME NEW j \in LegacySections
        PROVE  pages'[j] = 1 \/ Pending([table |-> "page", key |-> j])' \/ Pending([table |-> "createPage", key |-> j])'
    <3>1. CASE j = k
      BY <1>1, <1>6, <3>1 DEF new
    <3>2. CASE j # k
      <4>1. /\ [table |-> "page", key |-> j] \in Statements /\ [table |-> "page", key |-> j] # Current
            /\ [table |-> "createPage", key |-> j] \in Statements /\ [table |-> "createPage", key |-> j] # Current
        BY <1>2, <3>2 DEF Statements
      <4>2. pages[j] = 1 \/ Pending([table |-> "page", key |-> j]) \/ Pending([table |-> "createPage", key |-> j])
        BY <1>8 DEF Progress, PagesSeeded
      <4>3. QED
        BY <1>1, <1>6, <4>1, <4>2 DEF Left
    <3>3. QED
      BY <3>1, <3>2
  <2>3. QED
    BY <2>1, <2>2 DEF Progress, PagesSeeded
<1> HIDE DEF rest
<1>9. QED
  BY <1>1, <1>4, <1>6, <1>7, <1>8, SameCatalog, StatementStep

LEMMA CreatePageStep == ASSUME SeedInv, CreatePage PROVE SeedInv'
<1> DEFINE k == Current.key
<1>1. /\ Seeding /\ Current.table = "createPage" /\ Done /\ UNCHANGED <<vars, map, sections, settings, root>>
      /\ pages' = [pages EXCEPT ![k] = @ + 1]
  BY DEF CreatePage
<1>2. k \in LegacySections /\ Current = [table |-> "createPage", key |-> k]
  BY <1>1, QueueTail, StatementKinds DEF SeedInv
<1>3. pages \in [LegacySections -> {0, 1}] /\ pages[k] = 0
  BY <1>1, QueueTail DEF SeedInv, OrderInv
<1> HIDE DEF k
<1>4. pages'[k] = 1 /\ \A j \in LegacySections \ {k} : pages'[j] = pages[j]
  BY <1>1, <1>2, <1>3
<1>5. pages' \in [LegacySections -> {0, 1}]
  <2>1. pages' = [j \in LegacySections |-> pages'[j]]
    BY <1>1, <1>3
  <2>2. \A j \in LegacySections : pages'[j] \in {0, 1}
    BY <1>3, <1>4
  <2>3. QED
    BY <2>1, <2>2
<1>6. OrderInv' /\ Left /\ Proceed(Tail(todo))
  BY <1>1, <1>5, DoneStep DEF SeedInv, Done
<1>7. DataTypes'
  BY <1>1 DEF SeedInv, FieldTypes, DataTypes
<1>8. ASSUME Progress PROVE Progress'
  <2>1. /\ SectionsSeeded' /\ SectionsLinked' /\ SettingsSeeded' /\ CategoriesSeeded' /\ MapRead' /\ ArticlesSeeded'
        /\ RootSeeded'
    BY <1>1, <1>6, <1>8, OthersStay, SameCatalog
  <2>2. ASSUME NEW j \in LegacySections, j # k
        PROVE  pages'[j] = 1 \/ Pending([table |-> "page", key |-> j])' \/ Pending([table |-> "createPage", key |-> j])'
    <3>1. /\ [table |-> "page", key |-> j] \in Statements /\ [table |-> "page", key |-> j] # Current
          /\ [table |-> "createPage", key |-> j] \in Statements /\ [table |-> "createPage", key |-> j] # Current
      BY <1>2, <2>2 DEF Statements
    <3>2. pages[j] = 1 \/ Pending([table |-> "page", key |-> j]) \/ Pending([table |-> "createPage", key |-> j])
      BY <1>8 DEF Progress, PagesSeeded
    <3>3. QED
      BY <1>4, <1>6, <2>2, <3>1, <3>2 DEF Left
  <2>3. QED
    BY <1>4, <2>1, <2>2 DEF Progress, PagesSeeded
<1>9. QED
  BY <1>1, <1>6, <1>7, <1>8, SameCatalog, StatementStep

\* The account of the root is the last that is seeded.
LEMMA RootIsLast ==
    ASSUME SeedInv, Seeding, Current = [table |-> "root"], UNCHANGED pages, todo' = <<[table |-> "createRoot"]>>
    PROVE  OrderInv' /\ Left /\ Pending([table |-> "createRoot"])'
<1> DEFINE new == [table |-> "createRoot"]
<1>1. new \in Statements /\ new.table = "createRoot" /\ Phase(Current) = 8
  BY DEF Statements, Phase
<1> HIDE DEF new
<1>2. todo' \in Seq(Statements) /\ DOMAIN todo' = {1} /\ todo'[1] = new
  BY <1>1 DEF new
<1>3. Pending(new)'
  BY <1>2 DEF Pending, Occurs
<1>4. OrderInv'
  <2>1. pages' \in [LegacySections -> {0, 1}]
    BY DEF SeedInv, OrderInv
  <2>2. InPhases(todo)'
    BY <1>2 DEF InPhases
  <2>3. QED
    BY <1>1, <1>2, <2>1, <2>2 DEF OrderInv
<1>5. Left
  <2>1. SUFFICES ASSUME NEW x \in Statements, Pending(x), x # Current PROVE x = new
    BY <1>3 DEF Left
  <2>2. 8 <= Phase(x)
    BY <1>1, <2>1, QueueTail DEF SeedInv
  <2>3. x.table \in {"root", "createRoot"}
    BY <2>2, StatementKinds DEF Phase
  <2>4. x = [table |-> x.table]
    BY <2>3, StatementKinds
  <2>5. QED
    BY <2>1, <2>3, <2>4 DEF new
<1>6. QED
  BY <1>3, <1>4, <1>5 DEF new

LEMMA RootSteps == ASSUME SeedInv, FindRoot \/ CreateRoot PROVE SeedInv'
<1>1. /\ Seeding /\ Current.table \in {"root", "createRoot"}
      /\ UNCHANGED <<vars, map, sections, settings, pages>> /\ pages \in [LegacySections -> {0, 1}]
  BY DEF FindRoot, CreateRoot, SeedInv, OrderInv
<1>2. Current = [table |-> Current.table]
  BY <1>1, QueueTail, StatementKinds DEF SeedInv
<1>3. CASE Done /\ root' = "super"
  <2>1. OrderInv' /\ Left /\ Proceed(Tail(todo))
    BY <1>1, <1>3, DoneStep DEF SeedInv, Done
  <2>2. DataTypes'
    BY <1>1, <1>3 DEF SeedInv, FieldTypes, DataTypes
  <2>3. ASSUME Progress PROVE Progress'
    <3>1. /\ SectionsSeeded' /\ SectionsLinked' /\ SettingsSeeded' /\ PagesSeeded' /\ CategoriesSeeded' /\ MapRead'
          /\ ArticlesSeeded'
      BY <1>1, <2>1, <2>3, OthersStay, SameCatalog
    <3>2. QED
      BY <1>3, <3>1 DEF Progress, RootSeeded
  <2>4. QED
    BY <1>1, <2>1, <2>2, <2>3, SameCatalog, StatementStep
<1>4. CASE FindRoot /\ root = "absent"
  <2>1. Proceed(<<[table |-> "createRoot"]>>) /\ UNCHANGED root /\ Current.table = "root"
    BY <1>4 DEF FindRoot
  <2>2. todo' = <<[table |-> "createRoot"]>>
    BY <2>1 DEF Proceed
  <2>3. OrderInv' /\ Left /\ Pending([table |-> "createRoot"])'
    BY <1>1, <1>2, <2>1, <2>2, RootIsLast
  <2>4. DataTypes'
    BY <1>1, <2>1 DEF SeedInv, FieldTypes, DataTypes
  <2>5. ASSUME Progress PROVE Progress'
    <3>1. /\ SectionsSeeded' /\ SectionsLinked' /\ SettingsSeeded' /\ PagesSeeded' /\ CategoriesSeeded' /\ MapRead'
          /\ ArticlesSeeded'
      BY <1>1, <2>3, <2>5, OthersStay, SameCatalog
    <3>2. QED
      BY <2>3, <3>1 DEF Progress, RootSeeded
  <2>6. QED
    BY <1>1, <2>1, <2>3, <2>4, <2>5, SameCatalog, StatementStep
<1>5. QED
  BY <1>3, <1>4 DEF FindRoot, CreateRoot

\* The upsert of a category.
LEMMA UpsertStep ==
    ASSUME CInv, FiledInv, NEW slug \in Slugs, NEW order \in Nat,
           IF Taken(slug)
           THEN /\ categories' = [c \in Ids |-> IF c \in WithSlug(slug)
                                               THEN [categories[c] EXCEPT !.order = order]
                                               ELSE categories[c]]
                /\ UNCHANGED issued
           ELSE Add(slug, order),
           Loosen, UNCHANGED <<articles, lock, request>>
    PROVE  /\ CInv' /\ FiledInv' /\ SlugsStay
           /\ \A c \in Existing : categories[c].slug # slug => categories'[c] = categories[c]
           /\ \E c \in Existing' : categories'[c] = [slug |-> slug, order |-> order]
<1> USE DEF CInv
<1> DEFINE new == [slug |-> slug, order |-> order]
<1>1. new \in CategoryRows /\ new # None /\ new.order = order
  BY NoneAssumption DEF CategoryRows
<1>2. /\ categories \in [Ids -> CategoryRows \cup {None}] /\ issued \in 0..MaxCategory
      /\ \A c \in Ids : categories[c] # None => c <= issued
  BY DEF TypeOK
<1> HIDE DEF new
<1>3. /\ categories' \in [Ids -> CategoryRows \cup {None}] /\ issued' \in 0..MaxCategory
      /\ \A c \in Ids : categories'[c] # None => c <= issued'
      /\ Existing \subseteq Existing'
      /\ \A c \in Existing' : categories'[c] = new \/ (c \in Existing /\ categories'[c] = categories[c])
      /\ \A c \in Existing : categories[c].slug = slug \/ categories'[c] = categories[c]
      /\ \A c \in Existing : categories'[c].slug = categories[c].slug
      /\ \E c \in Existing' : categories'[c] = new
  <2>1. CASE Taken(slug)
    <3>1. /\ UNCHANGED issued
          /\ categories' = [c \in Ids |-> IF c \in WithSlug(slug)
                                          THEN [categories[c] EXCEPT !.order = order] ELSE categories[c]]
      BY <2>1
    <3>2. ASSUME NEW c \in WithSlug(slug) PROVE c \in Existing /\ categories'[c] = new /\ categories[c].slug = slug
      <4>1. c \in Existing /\ categories[c] \in CategoryRows /\ categories[c].slug = slug
        BY <1>2 DEF WithSlug, Existing
      <4>2. categories'[c] = [categories[c] EXCEPT !.order = order] /\ c \in Ids
        BY <3>1, <4>1 DEF Existing
      <4>3. QED
        BY <4>1, <4>2 DEF CategoryRows, new
    <3>3. \A c \in Ids : c \notin WithSlug(slug) => categories'[c] = categories[c]
      BY <3>1
    <3>4. categories' \in [Ids -> CategoryRows \cup {None}]
      <4>1. DOMAIN categories' = Ids /\ categories' = [c \in Ids |-> categories'[c]]
        BY <3>1
      <4>2. \A c \in Ids : categories'[c] \in CategoryRows \cup {None}
        BY <1>1, <1>2, <3>2, <3>3
      <4>3. QED
        BY <4>1, <4>2
    <3>5. Existing' = Existing
      BY <1>1, <3>2, <3>3 DEF Existing
    <3>6. new.slug = slug
      BY DEF new
    <3>7. \E c \in WithSlug(slug) : TRUE
      BY <2>1 DEF Taken, WithSlug
    <3>8. \A c \in Ids : categories'[c] # None => c <= issued'
      BY <1>2, <3>1, <3>5 DEF Existing
    <3>9. \A c \in Existing : c \in Ids /\ (c \notin WithSlug(slug) => categories[c].slug # slug)
      BY DEF Existing, WithSlug
    <3>10. QED
      BY <1>2, <3>1, <3>2, <3>3, <3>4, <3>5, <3>6, <3>7, <3>8, <3>9
  <2>2. CASE ~Taken(slug)
    <3>1. issued < MaxCategory /\ issued' = issued + 1 /\ categories' = [categories EXCEPT ![issued'] = new]
      BY <2>2 DEF Add, new
    <3>2. issued' \in Ids /\ issued' \notin Existing /\ issued' \in 0..MaxCategory
      BY <1>2, <3>1, CatalogAssumption DEF Ids, Existing
    <3>3. /\ categories' \in [Ids -> CategoryRows \cup {None}] /\ categories'[issued'] = new
          /\ \A c \in Ids \ {issued'} : categories'[c] = categories[c]
      BY <1>1, <1>2, <3>1, <3>2
    <3>4. Existing' = Existing \cup {issued'}
      BY <1>1, <3>2, <3>3 DEF Existing
    <3>5. \A c \in Existing : categories'[c] = categories[c] /\ c # issued'
      BY <3>2, <3>3 DEF Existing
    <3>6. \A c \in Ids : categories'[c] # None => c <= issued'
      BY <1>2, <3>1, <3>2, <3>3 DEF Ids
    <3>7. QED
      BY <3>2, <3>3, <3>4, <3>5, <3>6
  <2>3. QED
    BY <2>1, <2>2
<1>4. TypeOK'
  <2>1. loosened' \in BOOLEAN
    BY Zenon DEF Loosen
  <2>2. QED
    BY <1>3, <2>1 DEF TypeOK
<1>5. Bounded'
  <2>1. PICK n \in Nat : \A c \in Existing : categories[c].order <= n
    BY DEF Bounded
  <2>2. ASSUME NEW c \in Existing' PROVE categories'[c].order <= n + order
    <3>1. CASE categories'[c] = new
      BY <1>1, <2>1, <3>1
    <3>2. CASE c \in Existing /\ categories'[c] = categories[c]
      <4>1. categories[c].order \in Nat
        BY <3>2, RowTypes
      <4>2. QED
        BY <2>1, <3>2, <4>1
    <3>3. QED
      BY <1>3, <3>1, <3>2
  <2>3. n + order \in Nat
    OBVIOUS
  <2>4. QED
    BY <2>2, <2>3 DEF Bounded
<1>6. CInv'
  BY <1>4, <1>5, LooseStep DEF SameWork
<1>7. FiledInv'
  BY SameArticles DEF SameWork
<1>8. QED
  BY <1>3, <1>6, <1>7 DEF SlugsStay, new

LEMMA SeededSlug == ASSUME NEW base \in Bases PROVE Seeded(base) \in Slugs
BY CatalogAssumption DEF Seeded, Slugs

LEMMA SeedRows ==
    /\ \A i \in DOMAIN SeedCategories : SeedCategories[i] \in Bases /\ i - 1 \in Nat
    /\ \A i \in DOMAIN SeedArticles : SeedArticles[i].article \in Articles /\ SeedArticles[i].category \in Bases
<1>1. SeedCategories \in Seq(Bases) /\ SeedArticles \in Seq([article : Articles, category : Bases])
  BY SeedAssumption
<1>2. \A i \in DOMAIN SeedCategories : SeedCategories[i] \in Bases /\ i \in 1..Len(SeedCategories)
  BY <1>1, ElementOfSeq, LenProperties
<1>3. \A i \in DOMAIN SeedArticles : SeedArticles[i] \in [article : Articles, category : Bases]
  BY <1>1, ElementOfSeq, LenProperties
<1>4. QED
  BY <1>2, <1>3

LEMMA SeedCategoryStep == ASSUME SeedInv, SeedCategory PROVE SeedInv'
<1>1. /\ Seeding /\ Current.table = "category" /\ Done /\ Loosen
      /\ UNCHANGED <<articles, lock, request, map, sections, settings, pages, root>>
  BY DEF SeedCategory, otherVars
<1>2. PICK k \in DOMAIN SeedCategories : Current = [table |-> "category", key |-> k]
  BY <1>1, QueueTail, StatementKinds DEF SeedInv
<1> DEFINE slug == Seeded(SeedCategories[k])
           order == k - 1
<1>3. slug \in Slugs /\ order \in Nat
  BY SeedRows, SeededSlug
<1>4. Current.key = k
  BY <1>2
<1>5. IF Taken(slug)
      THEN /\ categories' = [c \in Ids |-> IF c \in WithSlug(slug)
                                          THEN [categories[c] EXCEPT !.order = order]
                                          ELSE categories[c]]
           /\ UNCHANGED issued
      ELSE Add(slug, order)
  BY <1>4 DEF SeedCategory
<1> HIDE DEF slug, order
<1>6. /\ CInv' /\ FiledInv' /\ SlugsStay
      /\ \A c \in Existing : categories[c].slug # slug => categories'[c] = categories[c]
      /\ \E c \in Existing' : categories'[c] = [slug |-> slug, order |-> order]
  BY <1>1, <1>3, <1>5, UpsertStep DEF SeedInv
<1>7. OrderInv' /\ Left /\ Proceed(Tail(todo))
  BY <1>1, DoneStep DEF SeedInv, OrderInv, Done
<1>8. DataTypes'
  BY <1>1 DEF SeedInv, FieldTypes, DataTypes
<1>9. ASSUME Progress PROVE Progress'
  <2>1. /\ SectionsSeeded' /\ SectionsLinked' /\ SettingsSeeded' /\ PagesSeeded' /\ MapRead' /\ ArticlesSeeded'
        /\ RootSeeded'
    BY <1>1, <1>6, <1>7, <1>9, OthersStay
  <2>2. IsSeeded(k)'
    BY <1>6 DEF IsSeeded, slug, order, Seeded
  <2>3. ASSUME NEW i \in DOMAIN SeedCategories, i # k
        PROVE  IsSeeded(i)' \/ Pending([table |-> "category", key |-> i])'
    <3>1. [table |-> "category", key |-> i] \in Statements /\ [table |-> "category", key |-> i] # Current
      BY <1>2, <2>3 DEF Statements
    <3>2. IsSeeded(i) \/ Pending([table |-> "category", key |-> i])
      BY <1>9 DEF Progress, CategoriesSeeded
    <3>3. CASE IsSeeded(i)
      <4>1. PICK c \in Existing : categories[c] = [slug |-> Seeded(SeedCategories[i]), order |-> i - 1]
        BY <3>3 DEF IsSeeded
      <4>2. SeedCategories[i] # SeedCategories[k]
        BY <2>3, SeedAssumption
      <4>3. categories[c].slug # slug
        BY <4>1, <4>2 DEF slug, Seeded
      <4>4. categories'[c] = [slug |-> Seeded(SeedCategories[i]), order |-> i - 1] /\ c \in Existing'
        BY <1>6, <4>1, <4>3 DEF SlugsStay
      <4>5. QED
        BY <4>4 DEF IsSeeded, Seeded
    <3>4. QED
      BY <1>7, <3>1, <3>2, <3>3 DEF Left
  <2>4. QED
    BY <2>1, <2>2, <2>3 DEF Progress, CategoriesSeeded
<1>10. QED
  BY <1>1, <1>6, <1>7, <1>8, <1>9, StatementStep

LEMMA ReadMapStep == ASSUME SeedInv, ReadMap PROVE SeedInv'
<1>1. /\ Seeding /\ Current.table = "map" /\ Done
      /\ UNCHANGED <<vars, sections, settings, pages, root>>
      /\ map' = [s \in Slugs |-> IF Taken(s) THEN CHOOSE c \in WithSlug(s) : TRUE ELSE None]
  BY DEF ReadMap, otherVars
<1>2. OrderInv' /\ Left /\ Proceed(Tail(todo))
  BY <1>1, DoneStep DEF SeedInv, OrderInv, Done
<1>3. ASSUME NEW s \in Slugs
      PROVE  map'[s] \in Ids \cup {None} /\ (Taken(s) => HasSlug(map'[s], s))
  <2>1. CASE Taken(s)
    <3>1. \E c \in WithSlug(s) : TRUE
      BY <2>1 DEF Taken, WithSlug
    <3>2. map'[s] \in WithSlug(s)
      BY <1>1, <2>1, <3>1
    <3>3. QED
      BY <3>2 DEF WithSlug, HasSlug, Existing
  <2>2. CASE ~Taken(s)
    BY <1>1, <2>2
  <2>3. QED
    BY <2>1, <2>2
<1>4. DataTypes'
  <2>1. map' = [s \in Slugs |-> map'[s]]
    BY <1>1
  <2>2. map' \in [Slugs -> Ids \cup {None}]
    BY <1>3, <2>1
  <2>3. QED
    BY <1>1, <2>2 DEF SeedInv, FieldTypes, DataTypes
<1>5. ASSUME Progress PROVE Progress'
  <2>1. /\ SectionsSeeded' /\ SectionsLinked' /\ SettingsSeeded' /\ PagesSeeded' /\ CategoriesSeeded'
        /\ ArticlesSeeded' /\ RootSeeded'
    BY <1>1, <1>2, <1>5, OthersStay, SameCatalog
  <2>2. ASSUME NEW i \in DOMAIN SeedArticles, NEW slug, slug = Seeded(SeedArticles[i].category)
        PROVE  HasSlug(map[slug], slug)'
    <3>1. PICK j \in DOMAIN SeedCategories : SeedCategories[j] = SeedArticles[i].category
      BY SeedAssumption
    <3>2. Phase([table |-> "category", key |-> j]) = 5 /\ Phase(Current) = 6
      BY <1>1 DEF Phase
    <3>3. ~Pending([table |-> "category", key |-> j])
      BY <1>1, <3>2, QueueTail DEF SeedInv
    <3>4. IsSeeded(j)
      BY <1>5, <3>3 DEF Progress, CategoriesSeeded
    <3>5. Taken(slug)
      BY <2>2, <3>1, <3>4 DEF IsSeeded, Taken
    <3>6. slug \in Slugs
      BY <2>2, SeedRows, SeededSlug
    <3>7. HasSlug(map'[slug], slug)
      BY <1>3, <3>5, <3>6
    <3>8. QED
      BY <1>1, <3>7, SameCatalog DEF HasSlug, SlugsStay
  <2>3. QED
    BY <2>1, <2>2 DEF Progress, MapRead, Seeded
<1>6. QED
  BY <1>1, <1>2, <1>4, <1>5, SameCatalog, StatementStep

LEMMA SeedArticleStep == ASSUME SeedInv, SeedArticle PROVE SeedInv'
<1>1. /\ Seeding /\ Current.table = "article" /\ Done
      /\ UNCHANGED <<map, sections, settings, pages, root>>
  BY DEF SeedArticle, otherVars
<1>2. PICK k \in DOMAIN SeedArticles : Current = [table |-> "article", key |-> k]
  BY <1>1, QueueTail, StatementKinds DEF SeedInv
<1> DEFINE a == SeedArticles[k].article
           slug == Seeded(SeedArticles[k].category)
           c == map[slug]
           row == [category |-> c, deleted |-> FALSE]
<1>3. a \in Articles /\ slug \in Slugs /\ SeedArticles[k].category \in Bases
  BY SeedRows, SeededSlug
<1>4. Current.key = k
  BY <1>2
<1>5. (c = None \/ c \in Existing) /\ File(a, row, request)
  BY <1>4 DEF SeedArticle
<1>6. c \in Ids \cup {None}
  BY <1>3 DEF SeedInv, FieldTypes
<1>7. row \in NewsRows /\ row.category = c /\ row.deleted = FALSE
  BY <1>6 DEF NewsRows
<1> HIDE DEF a, slug, row
<1>8. request \in [Requests -> Works]
  BY DEF SeedInv, CInv, TypeOK, Works
<1>9. /\ CInv' /\ FiledInv' /\ UNCHANGED categories
      /\ \A b \in Articles \ {a} : articles'[b] = articles[b]
      /\ articles'[a] = row
  BY <1>3, <1>5, <1>7, <1>8, FileStep DEF SeedInv
<1>10. OrderInv' /\ Left /\ Proceed(Tail(todo))
  BY <1>1, DoneStep DEF SeedInv, OrderInv, Done
<1>11. DataTypes'
  BY <1>1 DEF SeedInv, FieldTypes, DataTypes
<1>12. ASSUME Progress PROVE Progress'
  <2>1. /\ SectionsSeeded' /\ SectionsLinked' /\ SettingsSeeded' /\ PagesSeeded' /\ CategoriesSeeded' /\ MapRead'
        /\ RootSeeded'
    BY <1>1, <1>9, <1>10, <1>12, OthersStay, SameSlugs
  <2>2. HasSlug(c, slug)
    <3>1. Phase([table |-> "map"]) = 6 /\ Phase(Current) = 7
      BY <1>1 DEF Phase
    <3>2. ~Pending([table |-> "map"])
      BY <1>1, <3>1, QueueTail DEF SeedInv
    <3>3. QED
      BY <1>12, <3>2 DEF Progress, MapRead, slug
  <2>3. Live(a)' /\ HasSlug(articles[a].category, slug)'
    <3>1. row # None /\ row \in NewsRows
      BY <1>7, NoneAssumption
    <3>2. articles'[a].category = c /\ articles'[a] # None /\ ~articles'[a].deleted
      BY <1>7, <1>9, <3>1
    <3>3. c \in Existing' /\ categories'[c].slug = slug
      BY <1>9, <2>2 DEF HasSlug, Existing
    <3>4. QED
      BY <3>2, <3>3 DEF Live, HasSlug, a, slug, Seeded
  <2>4. ASSUME NEW i \in DOMAIN SeedArticles, i # k, NEW b, b = SeedArticles[i].article
        PROVE  \/ Live(b)' /\ HasSlug(articles[b].category, Seeded(SeedArticles[i].category))'
               \/ Pending([table |-> "article", key |-> i])'
    <3>1. [table |-> "article", key |-> i] \in Statements /\ [table |-> "article", key |-> i] # Current
      BY <1>2, <2>4 DEF Statements
    <3>2. \/ Live(b) /\ HasSlug(articles[b].category, Seeded(SeedArticles[i].category))
          \/ Pending([table |-> "article", key |-> i])
      BY <1>12, <2>4 DEF Progress, ArticlesSeeded
    <3>3. b \in Articles \ {a}
      BY <2>4, SeedRows, SeedAssumption DEF a
    <3>4. articles'[b] = articles[b] /\ UNCHANGED categories
      BY <1>9, <3>3
    <3>5. CASE Live(b) /\ HasSlug(articles[b].category, Seeded(SeedArticles[i].category))
      BY <3>4, <3>5 DEF Live, HasSlug, Existing, Seeded
    <3>6. QED
      BY <1>10, <3>1, <3>2, <3>5 DEF Left
  <2>5. ArticlesSeeded'
    <3>1. SUFFICES ASSUME NEW i \in DOMAIN SeedArticles
                   PROVE  \/ Live(SeedArticles[i].article)'
                             /\ HasSlug(articles[SeedArticles[i].article].category, Seeded(SeedArticles[i].category))'
                          \/ Pending([table |-> "article", key |-> i])'
      BY DEF ArticlesSeeded
    <3>2. CASE i = k
      BY <2>3, <3>2 DEF a, slug
    <3>3. CASE i # k
      BY <2>4, <3>3
    <3>4. QED
      BY <3>2, <3>3
  <2>6. QED
    BY <2>1, <2>5 DEF Progress
<1>13. QED
  BY <1>1, <1>9, <1>10, <1>11, <1>12, StatementStep

-----------------------------------------------------------------------------
(* The other steps, and the theorem.                                       *)

LEMMA Untouched ==
    ASSUME Progress, UNCHANGED <<categories, articles, todo, map, sections, settings, pages, root>>
    PROVE  Progress'
<1>1. \A x : Pending(x)' <=> Pending(x)
  BY DEF Pending, Occurs
<1>2. Existing' = Existing
  BY DEF Existing
<1>3. \A c, slug : HasSlug(c, slug)' <=> HasSlug(c, slug)
  BY <1>2 DEF HasSlug
<1>4. SectionsSeeded' /\ SectionsLinked' /\ SettingsSeeded' /\ PagesSeeded' /\ RootSeeded'
  BY <1>1 DEF Progress, SectionsSeeded, SectionsLinked, SettingsSeeded, PagesSeeded, RootSeeded
<1>5. CategoriesSeeded'
  BY <1>1, <1>2 DEF Progress, CategoriesSeeded, IsSeeded, Seeded
<1>6. MapRead'
  BY <1>1, <1>2 DEF Progress, MapRead, HasSlug, Seeded
<1>7. ArticlesSeeded'
  BY <1>1, <1>2 DEF Progress, ArticlesSeeded, HasSlug, Live, Seeded
<1>8. QED
  BY <1>4, <1>5, <1>6, <1>7 DEF Progress

LEMMA SameQueue == ASSUME OrderInv, UNCHANGED <<todo, pages>> PROVE OrderInv'
BY DEF OrderInv, InPhases

LEMMA StartSeedStep == ASSUME SeedInv, StartSeed PROVE SeedInv'
<1>1. /\ todo' = SeedPlan /\ map' = NoMap /\ outcome' = "running"
      /\ UNCHANGED <<vars, serving, sections, settings, pages, root>>
  BY DEF StartSeed, otherVars
<1>2. OrderInv'
  <2>1. InPhases(todo)'
    BY <1>1, PlanShape DEF InPhases
  <2>2. QED
    BY <1>1, <2>1, PlanShape DEF SeedInv, OrderInv
<1>3. FieldTypes'
  <2>1. map' \in [Slugs -> Ids \cup {None}]
    BY <1>1 DEF NoMap
  <2>2. QED
    BY <1>1, <2>1 DEF SeedInv, FieldTypes
<1>4. \A x \in Statements : x.table \notin {"createPage", "createRoot"} => Pending(x)'
  BY <1>1, PlanShape DEF Pending, Occurs
<1>5. /\ \A k \in SectionKeys : Pending([table |-> "section", key |-> k])'
      /\ \A k \in Children : Pending([table |-> "link", key |-> k])'
      /\ \A k \in LegacySections : Pending([table |-> "page", key |-> k])'
      /\ \A i \in DOMAIN SeedCategories : Pending([table |-> "category", key |-> i])'
      /\ \A i \in DOMAIN SeedArticles : Pending([table |-> "article", key |-> i])'
      /\ Pending([table |-> "settings"])' /\ Pending([table |-> "map"])' /\ Pending([table |-> "root"])'
  BY <1>4 DEF Statements
<1>6. Progress'
  BY <1>5 DEF Progress, SectionsSeeded, SectionsLinked, SettingsSeeded, PagesSeeded, CategoriesSeeded, MapRead,
     ArticlesSeeded, RootSeeded
<1>7. QED
  BY <1>1, <1>2, <1>3, <1>6, SameCatalog DEF SeedInv, ProgressInv

LEMMA BootSteps == ASSUME SeedInv, Serve \/ StopSeed \/ StopService PROVE SeedInv'
<1>1. UNCHANGED <<sections, settings, pages, root, categories, articles>>
  BY RestartStep DEF Serve, StopSeed, StopService, otherVars, vars, catalogVars, Restart
<1>2. CInv' /\ FiledInv'
  <2>1. CASE Restart
    BY <2>1, RestartStep DEF SeedInv
  <2>2. CASE UNCHANGED vars
    BY <2>2, SameCatalog
  <2>3. QED
    BY <2>1, <2>2 DEF Serve, StopSeed, StopService
<1>3. serving' \in BOOLEAN
  BY Zenon DEF Serve, StopSeed, StopService, SeedInv, FieldTypes
<1>4. CASE StopSeed
  <2>1. todo' = <<>> /\ map' = NoMap /\ outcome' = "other"
    BY <1>4 DEF StopSeed
  <2>2. map' \in [Slugs -> Ids \cup {None}]
    BY <2>1 DEF NoMap
  <2>3. todo' \in Seq(Statements) /\ DOMAIN todo' = {}
    BY <2>1
  <2>4. OrderInv'
    BY <1>1, <2>3 DEF OrderInv, InPhases, SeedInv
  <2>5. FieldTypes'
    BY <1>1, <1>3, <2>1, <2>2 DEF FieldTypes, SeedInv
  <2>6. QED
    BY <1>2, <2>1, <2>4, <2>5 DEF SeedInv, ProgressInv
<1>5. CASE Serve \/ StopService
  <2>1. UNCHANGED <<todo, map, outcome>>
    BY <1>5 DEF Serve, StopService
  <2>2. FieldTypes' /\ OrderInv'
    BY <1>1, <1>3, <2>1, SameQueue DEF FieldTypes, SeedInv
  <2>3. Progress => Progress'
    BY <1>1, <2>1, Untouched
  <2>4. QED
    BY <1>2, <2>1, <2>2, <2>3 DEF SeedInv, ProgressInv
<1>6. QED
  BY <1>4, <1>5

\* While the service serves, a change of what the seed writes is noticed.
LEMMA ServingSteps ==
    ASSUME SeedInv, ServeCatalog \/ UpdateSettings \/ GetSettings \/ Demote
    PROVE  SeedInv'
<1>1. UNCHANGED <<serving, todo, map, sections, pages>>
  BY DEF ServeCatalog, UpdateSettings, GetSettings, Demote, Serving, otherVars
<1>2. CInv' /\ FiledInv'
  <2>1. CASE CatalogStep
    BY <2>1, NextCInv DEF SeedInv
  <2>2. CASE UNCHANGED vars
    BY <2>2, SameCatalog
  <2>3. QED
    BY <2>1, <2>2 DEF ServeCatalog, UpdateSettings, GetSettings, Demote
<1>3. OrderInv'
  BY <1>1, SameQueue DEF SeedInv
<1>4. settings' \in {"absent", "default", "edited"} /\ root' \in {"absent", "plain", "super"}
  BY DEF ServeCatalog, UpdateSettings, GetSettings, Demote, otherVars, SeedInv, FieldTypes
<1>5. outcome' \in {outcome, "other"}
  BY DEF ServeCatalog, UpdateSettings, GetSettings, Demote, Serving
<1>6. FieldTypes'
  BY <1>1, <1>4, <1>5 DEF SeedInv, FieldTypes
<1>7. outcome' # "other" => UNCHANGED <<categories, articles, root>>
                            /\ (UNCHANGED settings \/ settings' = "default")
  BY DEF ServeCatalog, UpdateSettings, GetSettings, Demote, Serving, otherVars, vars, catalogVars
<1>8. ASSUME Progress, outcome' # "other" PROVE Progress'
  <2>1. CASE UNCHANGED settings
    BY <1>1, <1>7, <1>8, <2>1, Untouched
  <2>2. CASE settings' = "default"
    <3>1. \A x : Pending(x)' <=> Pending(x)
      BY <1>1 DEF Pending, Occurs
    <3>2. Existing' = Existing /\ UNCHANGED <<categories, articles, root>>
      BY <1>7, <1>8 DEF Existing
    <3>3. SectionsSeeded' /\ SectionsLinked' /\ SettingsSeeded' /\ PagesSeeded' /\ RootSeeded'
      BY <1>1, <1>8, <2>2, <3>1, <3>2 DEF Progress, SectionsSeeded, SectionsLinked, SettingsSeeded, PagesSeeded,
         RootSeeded
    <3>4. CategoriesSeeded' /\ MapRead' /\ ArticlesSeeded'
      BY <1>1, <1>8, <3>1, <3>2 DEF Progress, CategoriesSeeded, IsSeeded, MapRead, ArticlesSeeded, HasSlug, Live,
         Seeded
    <3>5. QED
      BY <3>3, <3>4 DEF Progress
  <2>3. QED
    BY <1>7, <1>8, <2>1, <2>2
<1>9. QED
  BY <1>1, <1>2, <1>3, <1>5, <1>6, <1>8 DEF SeedInv, ProgressInv

LEMMA InitSeedInv == DeploymentInit => SeedInv
<1>1. SUFFICES ASSUME DeploymentInit PROVE SeedInv
  OBVIOUS
<1>2. /\ Init /\ todo = <<>> /\ map = NoMap /\ sections = [k \in SectionKeys |-> "absent"]
      /\ settings = "absent" /\ pages = [k \in LegacySections |-> 0] /\ root = "absent" /\ outcome = "other"
  BY <1>1 DEF DeploymentInit
<1>3. CInv /\ FiledInv
  BY <1>2, InitCInv DEF Init, FiledInv, Filed, Idle
<1>4. serving \in BOOLEAN
  BY <1>1, Zenon DEF DeploymentInit
<1>5. FieldTypes
  BY <1>2, <1>4 DEF FieldTypes, NoMap
<1>6. OrderInv
  BY <1>2 DEF OrderInv, InPhases
<1>7. QED
  BY <1>2, <1>3, <1>5, <1>6 DEF SeedInv, ProgressInv

LEMMA SeedNext == ASSUME SeedInv, [DeploymentNext]_allVars PROVE SeedInv'
<1>1. CASE SeedStep
  BY <1>1, SeedSectionStep, LinkSectionStep, SeedSettingsStep, FindPageStep, CreatePageStep, SeedCategoryStep,
     ReadMapStep, SeedArticleStep, RootSteps DEF SeedStep
<1>2. CASE UNCHANGED allVars
  <2>1. UNCHANGED <<vars, serving, todo, map, sections, settings, pages, root, outcome>>
    BY <1>2 DEF allVars, otherVars
  <2>2. CInv' /\ FiledInv' /\ UNCHANGED <<categories, articles>>
    BY <2>1, SameCatalog
  <2>3. FieldTypes' /\ OrderInv'
    BY <2>1, SameQueue DEF SeedInv, FieldTypes
  <2>4. Progress => Progress'
    BY <2>1, <2>2, Untouched
  <2>5. QED
    BY <2>1, <2>2, <2>3, <2>4 DEF SeedInv, ProgressInv
<1>3. QED
  BY <1>1, <1>2, StartSeedStep, BootSteps, ServingSteps DEF DeploymentNext

LEMMA SeedsWhole == ASSUME SeedInv PROVE SeedsAreConsistent
<1>1. DeploymentTypeOK
  <2>1. \A i \in DOMAIN todo : todo[i] \in Statements
    BY ElementOfSeq, LenProperties DEF SeedInv, OrderInv
  <2>2. \A i \in DOMAIN todo : todo[i].table \in {"section", "link", "settings", "page",
           "createPage", "category", "map", "article", "root", "createRoot"}
    BY <2>1, StatementKinds
  <2>3. pages \in [LegacySections -> Nat]
    BY DEF SeedInv, OrderInv
  <2>4. QED
    BY <2>2, <2>3 DEF SeedInv, CInv, FieldTypes, DeploymentTypeOK
<1>2. ASSUME outcome = "complete" PROVE CompletedSeedIsWhole
  <2>1. Progress /\ \A x : ~Pending(x)
    BY <1>2 DEF SeedInv, ProgressInv, Pending, Occurs
  <2>2. \A i \in DOMAIN SeedCategories : \E c \in Existing :
           categories[c] = [slug |-> Seeded(SeedCategories[i]), order |-> i - 1]
    BY <2>1 DEF Progress, CategoriesSeeded, IsSeeded
  <2>3. \A i \in DOMAIN SeedArticles :
           LET a == SeedArticles[i].article IN
           /\ Live(a) /\ articles[a].category # None
           /\ categories[articles[a].category].slug = Seeded(SeedArticles[i].category)
    <3>1. SUFFICES ASSUME NEW i \in DOMAIN SeedArticles, NEW a, a = SeedArticles[i].article
                   PROVE  /\ Live(a) /\ articles[a].category # None
                          /\ categories[articles[a].category].slug = Seeded(SeedArticles[i].category)
      OBVIOUS
    <3>2. Live(a) /\ HasSlug(articles[a].category, Seeded(SeedArticles[i].category))
      BY <2>1, <3>1 DEF Progress, ArticlesSeeded
    <3>3. articles[a].category \in Nat
      BY <3>2 DEF HasSlug, Existing, Ids
    <3>4. QED
      BY <3>2, <3>3, NoneAssumption DEF HasSlug
  <2>4. /\ \A k \in Children : sections[k] = "linked"
        /\ \A k \in LegacySections : pages[k] = 1
        /\ settings = "default" /\ root = "super"
    BY <2>1 DEF Progress, SectionsLinked, PagesSeeded, SettingsSeeded, RootSeeded
  <2>5. QED
    BY <2>2, <2>3, <2>4 DEF CompletedSeedIsWhole
<1>3. QED
  BY <1>1, <1>2 DEF SeedsAreConsistent, CompletedSeedIsWhole

\* A seed that ran to its end while nobody changed what it writes has filled
\* everything, whatever stopped or was edited before, for any categories,
\* articles, sections and pages of the seed.
THEOREM Seeds == DeploymentSpec => []SeedsAreConsistent
<1>1. SeedInv /\ [DeploymentNext]_allVars => SeedInv'
  BY SeedNext
<1>2. SeedInv => SeedsAreConsistent
  BY SeedsWhole
<1>3. QED
  BY <1>1, <1>2, InitSeedInv, PTL DEF DeploymentSpec
=============================================================================
