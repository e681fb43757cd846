---------------------------- MODULE NewsCatalog ----------------------------
(***************************************************************************)
(* News categories and the articles filed under them: the category part of *)
(* NewsService (src/system/news/services/news.service.ts).  createCategory *)
(* and moveCategory are transactions under advisory lock 780534092; the    *)
(* other operations change a category without it.  A deletion counts the   *)
(* articles of the category first and removes the row later, and an        *)
(* article is filed after its category was looked up: nothing holds the    *)
(* row in between but the foreign key, which sets category_id to null when *)
(* the category goes.                                                      *)
(***************************************************************************)
EXTENDS Naturals, Sequences, FiniteSets, FiniteSetsExt, SequencesExt

CONSTANTS
    Requests,
    Articles,        \* rows of news
    Bases,           \* what titles and manual slugs of categories normalise to
    SlugAttempts,    \* suffixes tried for a generated slug, 20 in the code
    MaxCategory,     \* bound: rows of news_categories ever inserted
    ExplicitOrders,  \* `order` of the bodies that give one
    None

ASSUME CatalogAssumption ==
    /\ SlugAttempts \in Nat \ {0} /\ MaxCategory \in Nat
    /\ ExplicitOrders \subseteq Nat

Ids == 1..MaxCategory
Slugs == Bases \X (1..SlugAttempts)

CategoryRows == [slug : Slugs, order : Nat]
NewsRows == [category : Ids \cup {None}, deleted : BOOLEAN]

ASSUME NoneAssumption == None \notin Nat \cup Requests \cup CategoryRows \cup NewsRows

VARIABLES
    categories,  \* categories[c]: slug and order of row c, or None
    issued,      \* the last id of the sequence: rows are in order of creation
    articles,    \* articles[a]: category and deleted_at of the article, or None
    lock,        \* holder of pg_advisory_xact_lock(780534092)
    request,     \* request[r]: what r is about to do, and what it has read
    loosened     \* history: somebody numbered categories without the lock, or
                 \* at will, so that the numbering may have ties and gaps

catalogVars == <<categories, issued, articles>>
requestVars == <<lock, request, loosened>>
vars == <<catalogVars, requestVars>>

Idle == [op |-> "idle"]
Creations == [op : {"create"}, pc : {"waiting", "insert"},
              base : Bases, attempt : 1..SlugAttempts,
              given : ExplicitOrders \cup {None}, order : Nat \cup {None}]
Moves == [op : {"move"}, pc : {"waiting", "write"}, target : Ids,
          up : BOOLEAN, list : Seq(Ids)]
Deletions == [op : {"delete"}, target : Ids, filed : SUBSET Articles]
Filings == [op : {"insert", "update"}, article : Articles, target : Ids \cup {None}]

TypeOK ==
    /\ issued \in 0..MaxCategory
    /\ categories \in [Ids -> CategoryRows \cup {None}]
    /\ \A c \in Ids : categories[c] # None => c <= issued
    /\ articles \in [Articles -> NewsRows \cup {None}]
    /\ lock \in Requests \cup {None}
    /\ request \in [Requests -> Creations \cup Moves \cup Deletions \cup Filings \cup {Idle}]
    /\ loosened \in BOOLEAN

Init ==
    /\ categories = [c \in Ids |-> None] /\ issued = 0
    /\ articles = [s \in Articles |-> None]
    /\ lock = None /\ request = [r \in Requests |-> Idle]
    /\ loosened = FALSE

-----------------------------------------------------------------------------

Existing == {c \in Ids : categories[c] # None}
Taken(slug) == \E c \in Existing : categories[c].slug = slug
OrdersOf(C) == {categories[c].order : c \in C}

\* Positions 0, 1, 2, ... without ties or gaps.
Dense == OrdersOf(Existing) = 0..(Cardinality(Existing) - 1)

SlugOf(q) == <<q.base, q.attempt>>

At(r, op, pc) == request[r].op = op /\ request[r].pc = pc

Become(r, q) == request' = [request EXCEPT ![r] = q]

Release == lock' = None

\* A new row, whose id comes from the sequence.
Add(slug, order) ==
    /\ issued < MaxCategory
    /\ issued' = issued + 1
    /\ categories' = [categories EXCEPT ![issued'] = [slug |-> slug, order |-> order]]

\* A change of the numbering outside the lock.
Loosen == loosened' = (loosened \/ lock # None \/ ~Dense')

-----------------------------------------------------------------------------
(* createCategory *)

BeginCreate(r, base, given) ==
    /\ request[r] = Idle
    /\ Become(r, [op |-> "create", pc |-> "waiting", base |-> base,
                  attempt |-> 1, given |-> given, order |-> given])
    /\ UNCHANGED <<catalogVars, lock, loosened>>

NextOrder == IF Existing = {} THEN 0 ELSE Max(OrdersOf(Existing)) + 1

\* Mutation of Lock: it is taken without waiting.
Lock_None(r) == lock' = r

\* Changes without the lock commute with taking it, so that the statement
\* that follows, here the aggregate of the orders, is in the same step.
Lock(r) == lock = None /\ lock' = r

LockAndNumber(r) ==
    /\ At(r, "create", "waiting") /\ Lock(r)
    /\ Become(r, [request[r] EXCEPT !.pc = "insert",
                     !.order = IF request[r].given = None THEN NextOrder ELSE request[r].given])
    /\ UNCHANGED <<catalogVars, loosened>>

InsertCategory(r) ==
    /\ At(r, "create", "insert") /\ ~Taken(SlugOf(request[r]))
    /\ Add(SlugOf(request[r]), request[r].order)
    /\ Release /\ Become(r, Idle)
    /\ loosened' = (loosened \/ (request[r].given # None /\ ~Dense'))
    /\ UNCHANGED articles

\* A unique violation ends the transaction.  A generated slug is tried with the
\* next suffix in a new one; a manual slug, which has none, is refused at once.
SlugTaken(r) ==
    LET q == request[r] IN
    /\ At(r, "create", "insert") /\ Taken(SlugOf(q))
    /\ Release
    /\ \/ /\ q.attempt < SlugAttempts
          /\ Become(r, [q EXCEPT !.attempt = @ + 1, !.pc = "waiting", !.order = q.given])
       \/ /\ q.attempt \in {1, SlugAttempts}
          /\ Become(r, Idle)
    /\ UNCHANGED <<catalogVars, loosened>>

-----------------------------------------------------------------------------
(* updateCategory: one UPDATE of the columns in the body, without the lock *)

Renumber(c, order) ==
    /\ c \in Existing
    /\ categories' = [categories EXCEPT ![c].order = order]
    /\ Loosen
    /\ UNCHANGED <<issued, articles, lock, request>>

Rename(c, slug) ==
    /\ c \in Existing /\ ~Taken(slug)
    /\ categories' = [categories EXCEPT ![c].slug = slug]
    /\ UNCHANGED <<issued, articles, requestVars>>

-----------------------------------------------------------------------------
(* moveCategory *)

BeginMove(r, c, up) ==
    /\ request[r] = Idle
    /\ c \in Existing
    /\ Become(r, [op |-> "move", pc |-> "waiting", target |-> c, up |-> up, list |-> <<>>])
    /\ UNCHANGED <<catalogVars, lock, loosened>>

\* By order, then by time of creation and id.
Before(c, d) ==
    \/ categories[c].order < categories[d].order
    \/ categories[c].order = categories[d].order /\ c < d

Listed ==
    CHOOSE list \in SetToSeqs(Existing) :
        \A i, j \in DOMAIN list : i < j => Before(list[i], list[j])

LockAndList(r) ==
    /\ At(r, "move", "waiting")
    /\ IF request[r].target \in Existing
       THEN Lock(r) /\ Become(r, [request[r] EXCEPT !.pc = "write", !.list = Listed])
       ELSE lock = None /\ UNCHANGED lock /\ Become(r, Idle)
    /\ UNCHANGED <<catalogVars, loosened>>

\* The places in the list, counted from 1, of the moved category and of the
\* one it changes with.
Place(q) == CHOOSE i \in DOMAIN q.list : q.list[i] = q.target

\* Mutation of Neighbour: the offsets of the directions are exchanged.
Neighbour_Reversed(q) == IF q.up THEN Place(q) + 1 ELSE Place(q) - 1

Neighbour(q) == IF q.up THEN Place(q) - 1 ELSE Place(q) + 1

\* The list is numbered in memory, so only these two rows differ from their
\* index and are written; the stored order of the others is left as it is.
WriteMove(r) ==
    LET q == request[r]
        i == Place(q)
        j == Neighbour(q)
    IN /\ At(r, "move", "write")
       /\ IF j \in DOMAIN q.list /\ {q.list[i], q.list[j]} \subseteq Existing
          THEN categories' = [categories EXCEPT ![q.list[i]].order = j - 1,
                                                ![q.list[j]].order = i - 1]
          ELSE UNCHANGED categories   \* at the end of the list, or rolled back
       /\ Release /\ Become(r, Idle)
       /\ UNCHANGED <<issued, articles, loosened>>

-----------------------------------------------------------------------------
(* deleteCategory *)

FiledUnder(c) ==
    {a \in Articles : articles[a] # None /\ articles[a].category = c}
Live(a) == articles[a] # None /\ ~articles[a].deleted

\* Mutation of CountArticles: the category may be in use.
CountArticles_Unchecked(r, c) ==
    /\ request[r] = Idle
    /\ c \in Existing
    /\ Become(r, [op |-> "delete", target |-> c, filed |-> {}])
    /\ UNCHANGED <<catalogVars, lock, loosened>>

CountArticles(r, c) ==
    /\ request[r] = Idle
    /\ c \in Existing
    /\ \A a \in FiledUnder(c) : ~Live(a)
    /\ Become(r, [op |-> "delete", target |-> c, filed |-> {}])
    /\ UNCHANGED <<catalogVars, lock, loosened>>

\* The foreign key clears category_id of the articles there are by now.
DeleteCategory(r) ==
    LET c == request[r].target IN
    /\ request[r].op = "delete"
    /\ Become(r, Idle)
    /\ IF c \in Existing
       THEN /\ categories' = [categories EXCEPT ![c] = None]
            /\ articles' = [a \in Articles |->
                               IF a \in FiledUnder(c)
                               THEN [articles[a] EXCEPT !.category = None] ELSE articles[a]]
            /\ Loosen
       ELSE UNCHANGED <<categories, articles, loosened>>
    /\ UNCHANGED <<issued, lock>>

-----------------------------------------------------------------------------
(* The category of an article in createNews, updateNews and deleteNews *)

\* Deletions of c that have counted already remember (history) that a came.
Noting(a, c, requests) ==
    [r \in Requests |->
        IF requests[r].op = "delete" /\ requests[r].target = c
        THEN [requests[r] EXCEPT !.filed = @ \cup {a}] ELSE requests[r]]

Fits(c) == c = None \/ c \in Existing

EnsureCategory(r, op, a, c) ==
    /\ request[r] = Idle
    /\ Fits(c)
    /\ op = "insert" \/ Live(a)
    /\ Become(r, [op |-> op, article |-> a, target |-> c])
    /\ UNCHANGED <<catalogVars, lock, loosened>>

File(a, row, requests) ==
    /\ articles' = [articles EXCEPT ![a] = row]
    /\ request' = Noting(a, row.category, requests)
    /\ UNCHANGED <<categories, issued, lock, loosened>>

\* A slug in use is tried again with a suffix, or refused: nothing changes.
CreateNews(r) ==
    LET q == request[r] IN
    /\ q.op = "insert" /\ articles[q.article] = None /\ Fits(q.target)
    /\ File(q.article, [category |-> q.target, deleted |-> FALSE],
            [request EXCEPT ![r] = Idle])

UpdateNews(r) ==
    LET q == request[r] IN
    /\ q.op = "update" /\ Fits(q.target)
    /\ File(q.article, [articles[q.article] EXCEPT !.category = q.target],
            [request EXCEPT ![r] = Idle])

\* The slug is in use, or the category has gone since it was looked up.
RefuseNews(r) ==
    LET q == request[r] IN
    /\ \/ q.op = "insert" /\ articles[q.article] # None
       \/ q.op \in {"insert", "update"} /\ ~Fits(q.target)
    /\ Become(r, Idle)
    /\ UNCHANGED <<catalogVars, lock, loosened>>

DeleteNews(a) ==
    /\ Live(a)
    /\ articles' = [articles EXCEPT ![a].deleted = TRUE]
    /\ UNCHANGED <<categories, issued, requestVars>>

-----------------------------------------------------------------------------

RequestStep(r) ==
    \/ \E b \in Bases, o \in ExplicitOrders \cup {None} : BeginCreate(r, b, o)
    \/ LockAndNumber(r) \/ InsertCategory(r) \/ SlugTaken(r)
    \/ \E c \in Ids, up \in BOOLEAN : BeginMove(r, c, up)
    \/ LockAndList(r) \/ WriteMove(r)
    \/ \E c \in Ids : CountArticles(r, c)
    \/ DeleteCategory(r)
    \/ \E op \in {"insert", "update"}, a \in Articles, c \in Ids \cup {None} :
           EnsureCategory(r, op, a, c)
    \/ CreateNews(r) \/ UpdateNews(r) \/ RefuseNews(r)

CatalogStep ==
    \/ \E r \in Requests : RequestStep(r)
    \/ \E c \in Ids, o \in ExplicitOrders : Renumber(c, o)
    \/ \E c \in Ids, s \in Slugs : Rename(c, s)
    \/ \E a \in Articles : DeleteNews(a)

\* The end of the service rolls the open transactions back.
Restart ==
    /\ Release /\ request' = [r \in Requests |-> Idle]
    /\ UNCHANGED <<catalogVars, loosened>>

Spec == Init /\ [][CatalogStep \/ Restart]_vars

-----------------------------------------------------------------------------
(* Properties *)

\* createCategory and moveCategory, which number under the lock, keep the
\* positions 0, 1, 2, ... however many of them run at once; ties and gaps come
\* only from a deletion or an explicit order (or a seed, see Deployment).
NumberingIsDense == loosened \/ Dense

CatalogIsConsistent == TypeOK /\ NumberingIsDense

\* A move from such a numbering exchanges the category with its neighbour on
\* the side asked for and leaves every other one where it is.  (With ties or gaps it may not: the rows whose
\* stored order differs from their place are not written.)
MovesExchangeNeighbours ==
    [][\A r \in Requests :
          At(r, "move", "write") /\ request'[r] = Idle /\ ~loosened
              /\ categories' # categories =>
          \E c, d \in Existing :
              /\ request[r].target = IF request[r].up THEN d ELSE c
              /\ categories[d].order = categories[c].order + 1
              /\ categories' = [categories EXCEPT ![c].order = @ + 1, ![d].order = @ - 1]
      ]_vars

\* An article that is not deleted loses its category only by a request to
\* clear it, or by a deletion of the category that had counted its articles
\* before this one was filed there (deleteCategory).
CategoriesAreLostOnlyInRaces ==
    [][\A a \in Articles :
          Live(a) /\ articles[a].category # None /\ articles'[a].category = None =>
          \E r \in Requests :
              /\ request'[r] = Idle
              /\ \/ /\ request[r].op = "update" /\ request[r].article = a
                    /\ request[r].target = None
                 \/ request[r].op = "delete" /\ a \in request[r].filed]_vars
=============================================================================
