----------------------------- MODULE ShareLinks -----------------------------
(***************************************************************************)
(* Secret links to document versions: DocumentShareLinksService, and the   *)
(* transaction of deleteDocument that removes a document's links.          *)
(*                                                                         *)
(* The transactions are READ COMMITTED.  An UPDATE or DELETE of many links *)
(* is two steps: Select* takes the committed rows that match, then the     *)
(* write waits until no other transaction holds one of them and applies to *)
(* those that still match.  A link committed in between is not seen.       *)
(***************************************************************************)
EXTENDS Naturals, FiniteSets

CONSTANTS
    Documents, Versions,
    DocumentOf,     \* the document of a version
    Links,          \* primary keys of `document_share_links`
    Requests,       \* concurrently served requests
    MaxAttempts,    \* tries to insert a link with an unused token
    None            \* no request, no document, no link, no version

ASSUME VersionsAssumption == DocumentOf \in [Versions -> Documents]
ASSUME AttemptsAssumption == MaxAttempts \in Nat \ {0}
ASSUME NoneAssumption == None \notin Requests \cup Documents \cup Links \cup Versions

VARIABLES
    documents,  \* documents that exist, with their versions
    stored,     \* links that have a committed row
    revoked,    \* links whose revoked_at is set
    expired,    \* links whose expires_at has passed
    accessed,   \* links whose access_count is not 0
    versionOf,  \* the version of a link
    newest,     \* history: newest[d] is the link that was committed last for d
    advisory,   \* advisory[d]: holder of pg_advisory_xact_lock(4242, d)
    pc,         \* pc[r]: what request r does next
    doc, link,  \* doc[r], link[r]: the rows that request r is about
    selected,   \* selected[r]: links that r's current statement matched
    touched,    \* touched[r]: links that r has written and not committed
    attempt     \* attempt[r]: failed inserts of r

tableVars == <<documents, stored, revoked, expired, accessed, versionOf, newest>>
requestVars == <<pc, doc, link, selected, touched, attempt>>
vars == <<tableVars, advisory, requestVars>>

CreateTx == {"locked", "revoking", "revoked", "inserted"}
DeleteTx == {"deleting", "linksDeleted", "unlinked", "versionsDeleted"}
States == {"idle", "checked", "found", "resolved", "loaded"} \cup CreateTx \cup DeleteTx

TypeOK ==
    /\ documents \subseteq Documents
    /\ stored \subseteq Links /\ revoked \subseteq stored /\ expired \subseteq stored
    /\ accessed \subseteq stored
    /\ versionOf \in [Links -> Versions \cup {None}]
    /\ newest \in [Documents -> Links \cup {None}]
    /\ advisory \in [Documents -> Requests \cup {None}]
    /\ pc \in [Requests -> States]
    /\ doc \in [Requests -> Documents \cup {None}]
    /\ link \in [Requests -> Links \cup {None}]
    /\ selected \in [Requests -> SUBSET Links] /\ touched \in [Requests -> SUBSET Links]
    /\ attempt \in [Requests -> 0..MaxAttempts - 1]

Init ==
    /\ documents = Documents
    /\ stored = {} /\ revoked = {} /\ expired = {} /\ accessed = {}
    /\ versionOf = [l \in Links |-> None] /\ newest = [d \in Documents |-> None]
    /\ advisory = [d \in Documents |-> None]
    /\ pc = [r \in Requests |-> "idle"]
    /\ doc = [r \in Requests |-> None] /\ link = [r \in Requests |-> None]
    /\ selected = [r \in Requests |-> {}] /\ touched = [r \in Requests |-> {}]
    /\ attempt = [r \in Requests |-> 0]

-----------------------------------------------------------------------------
(* Rows and their locks.                                                   *)

DocumentOfLink(l) == DocumentOf[versionOf[l]]

\* updateMany where revoked_at is null and the link is one of document d.
LiveLinks(d) == {l \in stored \ revoked : DocumentOfLink(l) = d}
AllLinks(d) == {l \in stored : DocumentOfLink(l) = d}

\* An open transaction other than r's has written one of the rows.
Locked(r, rows) == \E q \in Requests \ {r} : touched[q] \cap rows # {}

\* The version rows of d: a foreign key check locks them against deletion.
Deleted(d) == \E q \in Requests : pc[q] = "versionsDeleted" /\ doc[q] = d
Referenced(d) == \E q \in Requests : pc[q] = "inserted" /\ doc[q] = d

\* Another deletion has written the row of r's document.
Unlinking(r) ==
    \E q \in Requests \ {r} : pc[q] \in {"unlinked", "versionsDeleted"} /\ doc[q] = doc[r]

\* Mutation of Waits: the deletion takes the lock of create, with a row lock held.
Waits_Advisory(r) ==
    \/ pc[r] \in {"checked", "unlinked"} /\ advisory[doc[r]] # None
    \/ pc[r] \in {"revoking", "deleting"} /\ Locked(r, selected[r])
    \/ pc[r] \in {"found", "resolved"} /\ Locked(r, {link[r]})
    \/ pc[r] = "revoked" /\ doc[r] \in documents /\ Deleted(doc[r])
    \/ pc[r] = "linksDeleted" /\ doc[r] \in documents /\ Unlinking(r)

\* The next statement of r waits for another transaction.
Waits(r) ==
    \/ pc[r] = "checked" /\ advisory[doc[r]] # None
    \/ pc[r] \in {"revoking", "deleting"} /\ Locked(r, selected[r])
    \/ pc[r] \in {"found", "resolved"} /\ Locked(r, {link[r]})
    \/ pc[r] = "revoked" /\ doc[r] \in documents /\ Deleted(doc[r])
    \/ pc[r] = "linksDeleted" /\ doc[r] \in documents /\ Unlinking(r)
    \/ pc[r] = "unlinked" /\ Referenced(doc[r])

Begin(r, next, d, l) ==
    /\ pc' = [pc EXCEPT ![r] = next]
    /\ doc' = [doc EXCEPT ![r] = d]
    /\ link' = [link EXCEPT ![r] = l]
    /\ UNCHANGED <<selected, touched, attempt>>

Advance(r, from, next) ==
    /\ pc[r] = from
    /\ pc' = [pc EXCEPT ![r] = next]
    /\ UNCHANGED <<doc, link, attempt>>

Unlock(r) == advisory' = [d \in Documents |-> IF advisory[d] = r THEN None ELSE advisory[d]]

\* The response is sent; a transaction that is still open has ended.
End(r) ==
    /\ pc' = [pc EXCEPT ![r] = "idle"]
    /\ doc' = [doc EXCEPT ![r] = None] /\ link' = [link EXCEPT ![r] = None]
    /\ selected' = [selected EXCEPT ![r] = {}] /\ touched' = [touched EXCEPT ![r] = {}]
    /\ attempt' = [attempt EXCEPT ![r] = 0]
    /\ Unlock(r)

Fail(r) == End(r) /\ UNCHANGED tableVars

-----------------------------------------------------------------------------
(* create: a link replaces the document's link, whichever version it is of.*)

Unused(l) == l \notin stored /\ \A q \in Requests : link[q] # l

\* The checks are made before the transaction.
CheckVersion(r) ==
    /\ pc[r] = "idle"
    /\ \E v \in Versions, l \in Links :
        /\ DocumentOf[v] \in documents /\ Unused(l)
        /\ versionOf' = [versionOf EXCEPT ![l] = v]
        /\ Begin(r, "checked", DocumentOf[v], l)
    /\ UNCHANGED <<documents, stored, revoked, expired, accessed, newest, advisory>>

\* Mutation of AcquireLock: the transaction does not take the lock.
AcquireLock_None(r) ==
    /\ Advance(r, "checked", "locked")
    /\ UNCHANGED <<tableVars, advisory, selected, touched>>

AcquireLock(r) ==
    /\ Advance(r, "checked", "locked")
    /\ ~Waits(r)
    /\ advisory' = [advisory EXCEPT ![doc[r]] = r]
    /\ UNCHANGED <<tableVars, selected, touched>>

SelectLive(r) ==
    /\ Advance(r, "locked", "revoking")
    /\ selected' = [selected EXCEPT ![r] = LiveLinks(doc[r])]
    /\ UNCHANGED <<tableVars, advisory, touched>>

RevokeLive(r) ==
    /\ Advance(r, "revoking", "revoked")
    /\ ~Waits(r)
    /\ touched' = [touched EXCEPT ![r] = selected[r] \cap LiveLinks(doc[r])]
    /\ selected' = [selected EXCEPT ![r] = {}]
    /\ UNCHANGED <<tableVars, advisory>>

\* The foreign key makes the insert wait for, and fail after, a deletion.
InsertLink(r) ==
    /\ doc[r] \in documents /\ ~Waits(r)
    /\ Advance(r, "revoked", "inserted")
    /\ UNCHANGED <<tableVars, advisory, selected, touched>>

\* P2002: the token is in use; the transaction is rolled back and retried.
TokenCollision(r) ==
    /\ pc[r] = "revoked" /\ attempt[r] < MaxAttempts - 1
    /\ pc' = [pc EXCEPT ![r] = "checked"]
    /\ attempt' = [attempt EXCEPT ![r] = @ + 1]
    /\ touched' = [touched EXCEPT ![r] = {}]
    /\ Unlock(r)
    /\ UNCHANGED <<tableVars, doc, link, selected>>

CommitCreate(r) ==
    /\ pc[r] = "inserted"
    /\ stored' = stored \cup {link[r]}
    /\ revoked' = revoked \cup touched[r]
    /\ newest' = [newest EXCEPT ![doc[r]] = link[r]]
    /\ End(r)
    /\ UNCHANGED <<documents, expired, accessed, versionOf>>

-----------------------------------------------------------------------------
(* revoke and resolve: a read, then an UPDATE of one row.                  *)

FindLink(r) ==
    /\ pc[r] = "idle"
    /\ \E l \in stored \ revoked : Begin(r, "found", DocumentOfLink(l), l)
    /\ UNCHANGED <<tableVars, advisory>>

\* Mutation of RevokeLink: the row is not required to be there any more.
RevokeLink_Missing(r) ==
    /\ pc[r] = "found" /\ ~Waits(r)
    /\ revoked' = revoked \cup {link[r]}
    /\ End(r)
    /\ UNCHANGED <<documents, stored, expired, accessed, versionOf, newest>>

\* A second revocation moves revoked_at and changes nothing else.
RevokeLink(r) ==
    /\ pc[r] = "found"
    /\ link[r] \in stored /\ ~Waits(r)
    /\ revoked' = revoked \cup {link[r]}
    /\ End(r)
    /\ UNCHANGED <<documents, stored, expired, accessed, versionOf, newest>>

ResolveToken(r) ==
    /\ pc[r] = "idle"
    /\ \E l \in stored \ (revoked \cup expired) : Begin(r, "resolved", DocumentOfLink(l), l)
    /\ UNCHANGED <<tableVars, advisory>>

Account(r) ==
    /\ accessed' = accessed \cup {link[r]}
    /\ End(r)
    /\ UNCHANGED <<documents, stored, revoked, expired, versionOf, newest>>

\* Mutation of CountAccess: the UPDATE does not ask again for revoked_at.
CountAccess_Unchecked(r) ==
    /\ pc[r] = "resolved"
    /\ link[r] \in stored /\ ~Waits(r)
    /\ Account(r)

\* The access is counted and the file served if the link is not revoked yet.
CountAccess(r) ==
    /\ pc[r] = "resolved"
    /\ link[r] \in stored \ revoked /\ ~Waits(r)
    /\ Account(r)

ExpireLink(l) ==
    /\ l \in stored \ expired
    /\ expired' = expired \cup {l}
    /\ UNCHANGED <<documents, stored, revoked, accessed, versionOf, newest, advisory, requestVars>>

-----------------------------------------------------------------------------
(* deleteDocument.                                                         *)

LoadDocument(r) ==
    /\ pc[r] = "idle"
    /\ \E d \in documents : Begin(r, "loaded", d, None)
    /\ UNCHANGED <<tableVars, advisory>>

SelectLinks(r) ==
    /\ Advance(r, "loaded", "deleting")
    /\ selected' = [selected EXCEPT ![r] = AllLinks(doc[r])]
    /\ UNCHANGED <<tableVars, advisory, touched>>

DeleteLinks(r) ==
    /\ Advance(r, "deleting", "linksDeleted")
    /\ ~Waits(r)
    /\ touched' = [touched EXCEPT ![r] = selected[r] \cap stored]
    /\ selected' = [selected EXCEPT ![r] = {}]
    /\ UNCHANGED <<tableVars, advisory>>

\* current_version_id = null: waits for another deletion of the document.
UnlinkDocument(r) ==
    /\ doc[r] \in documents /\ ~Waits(r)
    /\ Advance(r, "linksDeleted", "unlinked")
    /\ UNCHANGED <<tableVars, advisory, selected, touched>>

\* Mutation of DeleteVersions: links do not restrict it.
DeleteVersions_Unrestricted(r) ==
    /\ Advance(r, "unlinked", "versionsDeleted")
    /\ UNCHANGED <<tableVars, advisory, selected, touched>>

\* The foreign key of the links: wait for their inserts, fail if one is left.
DeleteVersions(r) ==
    /\ Advance(r, "unlinked", "versionsDeleted")
    /\ AllLinks(doc[r]) \subseteq touched[r] /\ ~Waits(r)
    /\ UNCHANGED <<tableVars, advisory, selected, touched>>

CommitDelete(r) ==
    /\ pc[r] = "versionsDeleted"
    /\ documents' = documents \ {doc[r]}
    /\ stored' = stored \ touched[r]
    /\ revoked' = revoked \ touched[r] /\ expired' = expired \ touched[r]
    /\ accessed' = accessed \ touched[r]
    /\ newest' = [newest EXCEPT ![doc[r]] = None]
    /\ End(r)
    /\ UNCHANGED versionOf

-----------------------------------------------------------------------------

\* A row that the statement needs is gone or still referenced, or the token
\* collided for the last time: 404, 400 or 500, and a ROLLBACK.
Refuse(r) ==
    /\ \/ pc[r] = "revoked" /\ (doc[r] \notin documents \/ attempt[r] = MaxAttempts - 1)
       \/ pc[r] = "found" /\ link[r] \notin stored
       \/ pc[r] = "resolved" /\ link[r] \notin stored \ revoked /\ ~Waits(r)
       \/ pc[r] = "linksDeleted" /\ doc[r] \notin documents
       \/ /\ pc[r] = "unlinked" /\ ~Waits(r)
          /\ ~(AllLinks(doc[r]) \subseteq touched[r])
    /\ Fail(r)

\* A transaction timeout, a lost connection or a missing file, anywhere.
Abort(r) == pc[r] # "idle" /\ Fail(r)

Receive(r) == CheckVersion(r) \/ FindLink(r) \/ ResolveToken(r) \/ LoadDocument(r)

Serve(r) ==
    \/ AcquireLock(r) \/ SelectLive(r) \/ RevokeLive(r)
    \/ InsertLink(r) \/ TokenCollision(r) \/ CommitCreate(r)
    \/ RevokeLink(r) \/ CountAccess(r)
    \/ SelectLinks(r) \/ DeleteLinks(r) \/ UnlinkDocument(r)
    \/ DeleteVersions(r) \/ CommitDelete(r)
    \/ Refuse(r)

Next ==
    \/ \E r \in Requests : Receive(r) \/ Serve(r) \/ Abort(r)
    \/ \E l \in Links : ExpireLink(l)

Spec == Init /\ [][Next]_vars

-----------------------------------------------------------------------------
(* What must hold.                                                         *)

\* "keeps exactly one non-revoked link per document across versions": however
\* creations, revocations and deletions interleave, a link that is not
\* revoked is the one that was created last for its document.
OnlyNewestIsLive == \A l \in stored \ revoked : newest[DocumentOfLink(l)] = l

\* A resolve that began before its link was revoked, replaced or deleted does
\* not serve the file afterwards.
NoLateAccess ==
    [][\A l \in accessed' \ accessed :
          /\ l \in stored \ revoked /\ newest[DocumentOfLink(l)] = l
          /\ DocumentOfLink(l) \in documents]_vars

\* A committed deletion leaves no link of the document behind, even if one was
\* being created.
NoDanglingLink == \A l \in stored : DocumentOfLink(l) \in documents

\* The advisory lock, the row locks and the foreign keys never make requests
\* wait for each other: while one is served, one can go on.
Served == {r \in Requests : pc[r] # "idle"}
NoWaitCycle == Served # {} => \E r \in Served : ~Waits(r)
=============================================================================
