----------------------------- MODULE Placements -----------------------------
(***************************************************************************)
(* Where documents are listed, and in which order: DocumentPlacement-      *)
(* Service with the operations of DocumentsService that call it or remove  *)
(* placements.  No advisory lock serialises them: a transaction adds,      *)
(* removes and moves rows statement by statement, READ COMMITTED, holds a  *)
(* row it has written until it ends, and waits for a row another one       *)
(* holds.  Transactions may wait in a circle (two reorders do); the        *)
(* database then aborts one of them, which is Rollback.                    *)
(*                                                                         *)
(* A placement is known by its document and section, which are unique.     *)
(* A row that was removed and added again is another row: `gone` tells a   *)
(* transaction that holds the old id.                                      *)
(***************************************************************************)
EXTENDS DocumentAccess, Naturals, Sequences, FiniteSets, FiniteSetsExt, SequencesExt

CONSTANTS
    Documents, \* ids of documents; each is given once
    Forms,     \* bound: lists of sections an administrator's form sends
    Requests,  \* concurrent requests
    MaxOrder,  \* bound: greatest position given to a new placement
    None       \* no document

(* All lists of the members of S, each once. *)
Lists(S) == Injection(1 .. Cardinality(S), S)

(* validatePlacementKeys: some sections, known and each named once. *)
ValidForms == UNION {Lists(S) : S \in (SUBSET Sections) \ {{}}}

ASSUME SectionsAssumption == IsFiniteSet(Sections) /\ Sections # {}
ASSUME FormsAssumption == Forms \subseteq ValidForms
ASSUME DocumentsAssumption == IsFiniteSet(Documents) /\ None \notin Documents
ASSUME BoundAssumption == MaxOrder \in Nat

Rows == Documents \X Sections
Places == 0 .. MaxOrder \cup 0 .. Cardinality(Documents) - 1
Positions == UNION {[D -> Places] : D \in SUBSET Rows}
NoRows == [p \in {} |-> 0]

VARIABLES
    documents, \* rows of `documents`
    created,   \* ids given so far
    order,     \* order[<<d, s>>]: sort_order of the placement of d in s
    request,   \* request[r]: the call r serves
    raced,     \* history: rows added while others worked on their section
    promised   \* history: <<p, q>>: the last reorder has put p before q

vars == <<documents, created, order, request, raced, promised>>

(***************************************************************************)
(* A call: `todo` lists the sections it is about, or the documents it      *)
(* still moves; `missing` and `extra` hold the sections it still puts the  *)
(* document in and takes it from; `wanted` those it is to be in; `deleted` *)
(* and `written` are its uncommitted rows.  History: `since`, sections in  *)
(* which others have placed its document or taken it out since it began;   *)
(* `met`, sections whose positions others have changed.                    *)
(***************************************************************************)
Call(kind, step, d) ==
    [kind |-> kind, step |-> step, doc |-> d, section |-> CHOOSE s \in Sections : TRUE,
     actor |-> CHOOSE a \in Actors : TRUE, todo |-> <<>>, missing |-> {}, extra |-> {}, wanted |-> {},
     position |-> 0, deleted |-> {}, written |-> NoRows, gone |-> {}, since |-> {}, met |-> {}]

Idle == Call("none", "idle", None)

Placed(s) == {d \in Documents : <<d, s>> \in DOMAIN order}
SectionsOf(d) == {s \in Sections : <<d, s>> \in DOMAIN order}
At(r, step) == request[r].step = step
Open(r) == ~At(r, "idle")

(***************************************************************************)
(* What a transaction locks: the rows it has written, and the document it  *)
(* deletes (its unique current_version_id changes, so the foreign key of a *)
(* new placement conflicts with it).                                       *)
(***************************************************************************)
Held(r) == request[r].deleted \cup DOMAIN request[r].written
Free(r, p) == \A q \in Requests \ {r} : p \notin Held(q)
Deleting(q, d) == request[q].doc = d /\ request[q].step = "clear"
RefersTo(q, d) == request[q].doc = d /\ DOMAIN request[q].written # {}

(* aggregate _max sort_order, plus one *)
NextPosition(s) == IF Placed(s) = {} THEN 0 ELSE Max({order[<<d, s>>] : d \in Placed(s)}) + 1

Init ==
    /\ documents = {} /\ created = {}
    /\ order = NoRows
    /\ request = [r \in Requests |-> Idle]
    /\ raced = {} /\ promised = {}

(***************************************************************************)
(* The end of a transaction.                                               *)
(***************************************************************************)
Applied(r) ==
    LET w == request[r].written
    IN [p \in (DOMAIN order \ request[r].deleted) \cup DOMAIN w |->
            IF p \in DOMAIN w THEN w[p] ELSE order[p]]

(* Sections in which a call adds or moves rows. *)
WorksOn(call) ==
    IF call.kind = "reorder" THEN {call.section}
    ELSE call.missing \cup {p[2] : p \in DOMAIN call.written}

(* Rows that appear or disappear when r commits. *)
Changed(r) == request[r].deleted \cup (DOMAIN request[r].written \ DOMAIN order)

(* What another open call meets when r commits: rows it has read are gone, *)
(* placements of its document are changed, or positions of its sections.   *)
Notice(call, r) ==
    LET of(rows) == {s \in Sections : <<call.doc, s>> \in rows}
    IN [call EXCEPT
          !.gone = @ \cup (call.extra \cap of(request[r].deleted)),
          !.since = IF call.kind \in {"replace", "update"} THEN @ \cup of(Changed(r)) ELSE @,
          !.met = @ \cup (WorksOn(call) \cap {p[2] : p \in DOMAIN request[r].written})]

Overlapped(r, s) ==
    s \in request[r].met \/ \E q \in Requests \ {r} : s \in WorksOn(request[q])

Added(r) == IF request[r].kind = "reorder" THEN {} ELSE DOMAIN request[r].written

(* A reorder that met nobody gives the whole section its positions. *)
Repaired(r) ==
    {p \in raced : request[r].kind = "reorder" /\ p[2] = request[r].section
                   /\ ~Overlapped(r, p[2])}

(* The pairs that the rows moved by r form, in their new order. *)
PutInOrder(r) ==
    {pair \in (DOMAIN request[r].written) \X (DOMAIN request[r].written) :
        request[r].written[pair[1]] < request[r].written[pair[2]]}

StillPromised(r) ==
    {pair \in promised :
        /\ {pair[1], pair[2]} \cap request[r].deleted = {}
        /\ request[r].kind = "reorder" => pair[1][2] # request[r].section}

Commit(r) ==
    /\ order' = Applied(r)
    /\ request' = [q \in Requests |-> IF q = r THEN Idle ELSE Notice(request[q], r)]
    /\ raced' = (raced \ (request[r].deleted \cup Repaired(r)))
                  \cup {p \in Added(r) : Overlapped(r, p[2])}
    /\ promised' = StillPromised(r) \cup
                     (IF request[r].kind = "reorder" THEN PutInOrder(r) ELSE {})

(* The database refuses a statement, the connection fails, a deadlock is
   broken: nothing of the transaction stays. *)
Rollback(r) ==
    /\ Open(r)
    /\ request' = [request EXCEPT ![r] = Idle]
    /\ UNCHANGED <<documents, created, order, raced, promised>>

Proceed(r, call) ==
    /\ request' = [request EXCEPT ![r] = call]
    /\ UNCHANGED <<documents, order, raced, promised>>

(***************************************************************************)
(* createDocument: the document is inserted and placed in its sections, in *)
(* their order.  Its rows are seen by nobody before the commit.  The call   *)
(* holds createDocumentMutex from here to its end.                         *)
(***************************************************************************)
BeginCreate(r, d, keys, actor) ==
    /\ At(r, "idle") /\ d \notin created
    /\ \A q \in Requests : request[q].kind # "create"
    /\ MayCreate(actor, ToSet(keys))
    /\ Proceed(r, [Call("create", "edit", d) EXCEPT !.todo = keys, !.missing = ToSet(keys)])
    /\ created' = created \cup {d}

(***************************************************************************)
(* updatePlacements reads the document, and keeps for a restricted         *)
(* administrator the sections that this one does not see; then             *)
(* replacePlacements reads the placements again.                           *)
(***************************************************************************)
\* Mutation of HiddenKeys: the form is taken for the whole list.
HiddenKeys_None(d, actor) == {}

HiddenKeys(d, actor) == SectionsOf(d) \ Accessible(actor)

BeginReplace(r, d, keys, actor) ==
    /\ At(r, "idle") /\ d \in documents
    /\ MayReplace(actor, ToSet(keys))
    /\ \E hidden \in Lists(HiddenKeys(d, actor)) :
          Proceed(r, [Call("replace", "read", d) EXCEPT
              !.actor = actor, !.todo = hidden \o keys, !.wanted = ToSet(hidden) \cup ToSet(keys)])
    /\ UNCHANGED created

\* Mutation of Missing: the loop ends at the first section that is there.
Missing_Break(keys, current) ==
    {keys[i] : i \in {n \in DOMAIN keys : \A m \in 1 .. n : keys[m] \notin current}}

Missing(keys, current) == ToSet(keys) \ current

ReadCurrent(r) ==
    /\ At(r, "read")
    /\ LET current == SectionsOf(request[r].doc)
       IN Proceed(r, [request[r] EXCEPT
            !.step = "edit", !.gone = {},
            !.extra = current \ request[r].wanted,
            !.missing = Missing(request[r].todo, current)])
    /\ UNCHANGED created

(* delete by id: a row that is gone makes the transaction fail *)
RemovePlacement(r) ==
    /\ At(r, "edit")
    /\ \E s \in request[r].extra \ request[r].gone :
        /\ Free(r, <<request[r].doc, s>>)
        /\ Proceed(r, [request[r] EXCEPT
                !.extra = @ \ {s}, !.deleted = @ \cup {<<request[r].doc, s>>}])
    /\ UNCHANGED created

(* The section the loop comes to next. *)
NextSection(call) ==
    call.todo[Min({i \in DOMAIN call.todo : call.todo[i] \in call.missing})]

ReadTail(r) ==
    LET next == NextPosition(NextSection(request[r]))
    IN /\ At(r, "edit") /\ request[r].extra = {} /\ request[r].missing # {}
       /\ next <= MaxOrder
       /\ Proceed(r, [request[r] EXCEPT !.step = "insert", !.position = next])
       /\ UNCHANGED created

(* The insertion waits for a writer of the same row and for the deletion of
   the document; it fails if the row is there or the document is not. *)
Insert(r) ==
    LET call == request[r]
        p == <<call.doc, NextSection(call)>>
    IN /\ At(r, "insert")
       /\ Free(r, p) /\ p \notin DOMAIN order
       /\ call.kind = "replace" => call.doc \in documents
       /\ \A q \in Requests \ {r} : ~Deleting(q, call.doc)
       /\ Proceed(r, [call EXCEPT
            !.step = "edit", !.missing = @ \ {p[2]},
            !.written = [x \in DOMAIN @ \cup {p} |-> IF x = p THEN call.position ELSE @[x]]])
       /\ UNCHANGED created

Edited(r) == At(r, "edit") /\ request[r].extra = {} /\ request[r].missing = {}

CommitCreate(r) ==
    /\ Edited(r) /\ request[r].kind = "create"
    /\ Commit(r)
    /\ documents' = documents \cup {request[r].doc}
    /\ UNCHANGED created

(* The document row is updated last; it must still be there. *)
CommitReplace(r) ==
    /\ Edited(r) /\ request[r].kind = "replace"
    /\ request[r].doc \in documents
    /\ \A q \in Requests \ {r} : ~Deleting(q, request[r].doc)
    /\ Commit(r)
    /\ UNCHANGED <<documents, created>>

(***************************************************************************)
(* deleteDocument, the statements that concern placements: the document is *)
(* locked by its update, its placements are deleted, then the document     *)
(* (and by the foreign key any placement left).                            *)
(***************************************************************************)
BeginDelete(r, d, actor) ==
    /\ At(r, "idle") /\ d \in documents
    /\ MayDelete(actor, SectionsOf(d))
    /\ Proceed(r, Call("delete", "lock", d))
    /\ UNCHANGED created

(* The placements are selected right after the lock: from then on others can
   only move or remove them, and deleteMany passes over what is gone. *)
LockDocument(r) ==
    LET d == request[r].doc
    IN /\ At(r, "lock") /\ d \in documents
       /\ \A q \in Requests \ {r} : ~Deleting(q, d) /\ ~RefersTo(q, d)
       /\ Proceed(r, [request[r] EXCEPT !.step = "clear", !.extra = SectionsOf(d)])
       /\ UNCHANGED created

Clear(r) ==
    /\ At(r, "clear")
    /\ \E s \in request[r].extra :
        LET p == <<request[r].doc, s>>
        IN /\ Free(r, p)
           /\ Proceed(r, [request[r] EXCEPT
                !.extra = @ \ {s},
                !.deleted = IF s \in request[r].gone THEN @ ELSE @ \cup {p}])
    /\ UNCHANGED created

CommitDelete(r) ==
    /\ At(r, "clear") /\ request[r].extra = {}
    /\ Commit(r)
    /\ documents' = documents \ {request[r].doc}
    /\ UNCHANGED created

(***************************************************************************)
(* updateDocument: the rights are checked against the placements as read;  *)
(* the UPDATE that follows goes by id alone, and waits for a deletion.     *)
(***************************************************************************)
BeginUpdate(r, d, actor) ==
    /\ At(r, "idle") /\ d \in documents
    /\ MayUpdate(actor, SectionsOf(d))
    /\ Proceed(r, [Call("update", "write", d) EXCEPT !.actor = actor])
    /\ UNCHANGED created

WriteDocument(r) ==
    /\ At(r, "write") /\ request[r].doc \in documents
    /\ \A q \in Requests \ {r} : ~Deleting(q, request[r].doc)
    /\ Proceed(r, Idle)
    /\ UNCHANGED created

\* Mutation of FullOrders: a list of some of the documents is accepted.
FullOrders_Partial(s) == UNION {Lists(T) : T \in (SUBSET Placed(s)) \ {{}}}

(***************************************************************************)
(* reorderPlacements: the list is compared with the documents of the       *)
(* section, then each row is updated if it is there.                       *)
(***************************************************************************)
FullOrders(s) == Lists(Placed(s)) \ {<<>>}

BeginReorder(r, s, list, actor) ==
    /\ At(r, "idle")
    /\ MayReorder(actor, s)
    /\ Proceed(r, [Call("reorder", "set", None) EXCEPT !.section = s, !.todo = list])
    /\ UNCHANGED created

Moved(call) ==
    LET p == <<Head(call.todo), call.section>>
    IN [call EXCEPT
          !.todo = Tail(@), !.position = @ + 1,
          !.written = IF p \notin DOMAIN order THEN @
                      ELSE [x \in DOMAIN @ \cup {p} |->
                                IF x = p THEN call.position ELSE @[x]]]

\* Mutation of SetOrder: each row is updated outside a transaction.
SetOrder_Autocommit(r) ==
    LET p == <<Head(request[r].todo), request[r].section>>
    IN /\ At(r, "set") /\ request[r].todo # <<>>
       /\ Free(r, p)
       /\ order' = IF p \in DOMAIN order THEN [order EXCEPT ![p] = request[r].position] ELSE order
       /\ request' = [request EXCEPT ![r] = Moved(@)]
       /\ UNCHANGED <<documents, created, raced, promised>>

SetOrder(r) ==
    /\ At(r, "set") /\ request[r].todo # <<>>
    /\ Free(r, <<Head(request[r].todo), request[r].section>>)
    /\ Proceed(r, Moved(request[r]))
    /\ UNCHANGED created

CommitReorder(r) ==
    /\ At(r, "set") /\ request[r].todo = <<>>
    /\ Commit(r)
    /\ UNCHANGED <<documents, created>>

Create(r) ==
    \/ \E d \in Documents, keys \in Forms, actor \in Actors : BeginCreate(r, d, keys, actor)
    \/ CommitCreate(r)

Replace(r) ==
    \/ \E d \in Documents, keys \in Forms, actor \in Actors :
          BeginReplace(r, d, keys, actor)
    \/ ReadCurrent(r) \/ RemovePlacement(r) \/ CommitReplace(r)

Add(r) == ReadTail(r) \/ Insert(r)

Delete(r) ==
    \/ \E d \in Documents, actor \in Actors : BeginDelete(r, d, actor)
    \/ LockDocument(r) \/ Clear(r) \/ CommitDelete(r)

Reorder(r) ==
    \/ \E s \in Sections, actor \in Actors :
          \E list \in FullOrders(s) : BeginReorder(r, s, list, actor)
    \/ SetOrder(r) \/ CommitReorder(r)

Update(r) ==
    \/ \E d \in Documents, actor \in Actors : BeginUpdate(r, d, actor)
    \/ WriteDocument(r)

Next ==
    \E r \in Requests :
        \/ Create(r) \/ Replace(r) \/ Add(r) \/ Delete(r)
        \/ Reorder(r) \/ Update(r) \/ Rollback(r)

Spec == Init /\ [][Next]_vars

(***************************************************************************)
(* Properties.                                                             *)
(***************************************************************************)
Calls ==
    [kind : {"none", "create", "replace", "delete", "reorder", "update"},
     step : {"idle", "read", "edit", "insert", "lock", "clear", "set", "write"},
     doc : Documents \cup {None}, section : Sections, actor : Actors,
     todo : Seq(Sections) \cup Seq(Documents),
     missing : SUBSET Sections, extra : SUBSET Sections, wanted : SUBSET Sections,
     position : Nat, deleted : SUBSET Rows, written : Positions,
     gone : SUBSET Sections, since : SUBSET Sections, met : SUBSET Sections]

(* Types, and what the keys of the database promise: a placement and an    *)
(* uncommitted change belong to a document that is there.                  *)
TypeOK ==
    /\ documents \subseteq created /\ created \subseteq Documents
    /\ order \in Positions /\ DOMAIN order \subseteq documents \X Sections
    /\ request \in [Requests -> Calls]
    /\ \A r \in Requests : request[r].deleted \cap DOMAIN request[r].written = {}
    /\ raced \subseteq DOMAIN order
    /\ promised \subseteq (DOMAIN order) \X (DOMAIN order)

(* reorderPlacements takes effect as a whole: the documents it has moved   *)
(* stay in the order of its list until the next reorder or their removal,  *)
(* whatever other reorders, additions and removals it met.                 *)
ReordersDoNotMix == \A pair \in promised : order[pair[1]] < order[pair[2]]

(* Two documents share a position in a section only if one of them was     *)
(* added while another request worked on that section, and no undisturbed  *)
(* reorder has come since (aggregate and create of createInitialPlacements *)
(* and replacePlacements; the validation before the transaction of         *)
(* reorderPlacements).                                                     *)
TiesWereRaced ==
    \A s \in Sections : \A d, e \in Placed(s) :
        d # e /\ order[<<d, s>>] = order[<<e, s>>]
            => {<<d, s>>, <<e, s>>} \cap raced # {}

(* The table and its history are as they should be.                        *)
PlacementsAreConsistent == TypeOK /\ TiesWereRaced

(* updatePlacements by a restricted administrator neither takes a document *)
(* out of a section outside the administrator's groups nor puts it there,  *)
(* unless somebody changed just that placement after the request began.    *)
HiddenKept(r) ==
    CommitReplace(r) =>
        \A s \in Sections \ Accessible(request[r].actor) :
            LET p == <<request[r].doc, s>>
            IN s \notin request[r].since => (p \in DOMAIN order <=> p \in DOMAIN order')

(* updateDocument by a restricted administrator writes no document that is *)
(* placed outside the administrator's groups, unless somebody placed it    *)
(* there after the rights were checked.                                    *)
WrittenInScope(r) ==
    WriteDocument(r) =>
        SectionsOf(request[r].doc) \subseteq Accessible(request[r].actor) \cup request[r].since

(* What DocumentAccessPolicy promises to the groups, across these races.   *)
ScopesAreRespected == [][\A r \in Requests : HiddenKept(r) /\ WrittenInScope(r)]_vars

(* An accepted updatePlacements leaves the document in the sections it was *)
(* asked for and in no other, as far as nobody else changed its placements *)
(* meanwhile.                                                              *)
ReplacementIsExact ==
    [][\A r \in Requests :
        CommitReplace(r) =>
            \A s \in Sections :
                LET p == <<request[r].doc, s>>
                IN s \notin request[r].since => (p \in DOMAIN order' <=> s \in request[r].wanted)
      ]_vars

=============================================================================
