----------------------------- MODULE Documents -----------------------------
(***************************************************************************)
(* Document versions and their files: createDocument, createVersion,       *)
(* makeCurrent and deleteDocument of DocumentsService over the tables      *)
(* `documents`, `document_versions` and `stored_files` and the file store. *)
(*                                                                         *)
(* No transaction spans the tables and the files, so every await is a step *)
(* of its own, but for those of a transaction that already holds the row   *)
(* of its document: nobody sees them before its COMMIT, and they are one   *)
(* step with it.  The row of `stored_files` of a content is named by its   *)
(* storage key, which is fresh for every row and unique.                   *)
(*                                                                         *)
(* A COMMIT may take effect and its answer be lost, and every operation on *)
(* a file or a row that the code undoes or tidies up with may fail.        *)
(***************************************************************************)
EXTENDS Naturals, FiniteSets, FiniteSetsExt

CONSTANTS
    DocumentIds,
    Contents,   \* sha256 of an uploaded file
    Keys,       \* storage keys
    Requests,   \* concurrently served requests
    MaxFaults,  \* bound: lost commits and crashes
    None        \* no document, no content, no key, no request

ASSUME NoneAssumption == None \notin DocumentIds \cup Contents \cup Keys \cup Requests
ASSUME FaultsAssumption == MaxFaults \in Nat

VARIABLES
    documents,  \* documents that exist
    used,       \* ids that documents have had, or will have
    versions,   \* committed rows of document_versions
    current,    \* current[d]: number of the current version, 0 for null
    storedFiles,\* committed rows of stored_files, by storage key
    files,      \* keys whose file is in the store
    sha,        \* sha[k]: the content written under key k
    quarantine, \* files in the quarantine directory
    mutex,      \* holder of createDocumentMutex
    pc,         \* pc[r]: what request r does next
    doc, content, key, reuse, number,   \* r's document, upload, key, blob, version number
    todo,       \* todo[r]: versions that r has read and will delete
    moved,      \* moved[r]: files that r has quarantined
    rowIds,     \* rowIds[r]: stored_file_ids whose row r will drop
    taken,      \* history: files quarantined and not restored
    lost,       \* history: files written for a version whose COMMIT was lost
    leaked,     \* history: files that a deletion of their version has not moved
                \* away or will put back, that a crash or a failed cleanup has left
    faults

tableVars == <<documents, used, versions, current, storedFiles>>
fileVars == <<files, sha, quarantine>>
uploadVars == <<doc, content, key, reuse, number>>
deleteVars == <<todo, moved, rowIds>>
historyVars == <<taken, lost, leaked, faults>>
vars == <<tableVars, fileVars, mutex, pc, uploadVars, deleteVars, historyVars>>

\* linked: stored_file_id names the row of `key`, it has not been set to null.
VersionRows ==
    [doc : DocumentIds, number : Nat \ {0}, key : Keys, linked : BOOLEAN]

UploadTx == {"numbered", "inserted"}
States == {"idle", "prepared", "found", "dangling", "writing", "ready", "cleanup", "chosen",
           "scan", "quarantining", "restoring", "purging", "unlinking", "dropping"}
          \cup UploadTx

TypeOK ==
    /\ documents \subseteq used /\ used \subseteq DocumentIds
    /\ versions \subseteq VersionRows /\ \A v \in versions : v.doc \in documents
    /\ current \in [DocumentIds -> Nat]
    /\ storedFiles \subseteq Keys /\ files \subseteq Keys /\ quarantine \subseteq Keys
    /\ sha \in [Keys -> Contents \cup {None}]
    /\ mutex \in Requests \cup {None}
    /\ pc \in [Requests -> States]
    /\ doc \in [Requests -> DocumentIds \cup {None}]
    /\ content \in [Requests -> Contents \cup {None}]
    /\ key \in [Requests -> Keys \cup {None}] /\ reuse \in [Requests -> BOOLEAN]
    /\ number \in [Requests -> Nat]
    /\ todo \in [Requests -> SUBSET VersionRows]
    /\ moved \in [Requests -> SUBSET Keys] /\ rowIds \in [Requests -> SUBSET Keys]
    /\ taken \subseteq Keys /\ lost \subseteq Keys /\ leaked \subseteq Keys /\ faults \in 0..MaxFaults

Init ==
    /\ documents = {} /\ used = {} /\ versions = {} /\ storedFiles = {}
    /\ current = [d \in DocumentIds |-> 0]
    /\ files = {} /\ quarantine = {} /\ sha = [k \in Keys |-> None]
    /\ mutex = None
    /\ pc = [r \in Requests |-> "idle"]
    /\ doc = [r \in Requests |-> None] /\ content = [r \in Requests |-> None]
    /\ key = [r \in Requests |-> None] /\ reuse = [r \in Requests |-> FALSE]
    /\ number = [r \in Requests |-> 0]
    /\ todo = [r \in Requests |-> {}] /\ moved = [r \in Requests |-> {}]
    /\ rowIds = [r \in Requests |-> {}]
    /\ taken = {} /\ lost = {} /\ leaked = {} /\ faults = 0

-----------------------------------------------------------------------------
(* Rows.                                                                   *)

VersionsOf(d) == {v \in versions : v.doc = d}
LinkedTo(k) == {v \in versions : v.linked /\ v.key = k}

\* ON DELETE SET NULL of document_versions.stored_file_id.
Unlinked(k) == {[v EXCEPT !.linked = v.linked /\ v.key # k] : v \in versions}

\* Open transactions that have inserted a version, for a row they reference.
Inserted(r) == pc[r] = "inserted"
Referencing(k) == {r \in Requests : Inserted(r) /\ reuse[r] /\ key[r] = k}

\* current_version_id has a unique index, so an UPDATE of it waits for the
\* foreign key checks of versions that others have inserted and not committed.
KeyLocked(r, d) == \E q \in Requests \ {r} : doc[q] = d /\ Inserted(q)

Creating(r) == mutex = r

Advance(r, from, to) == pc[r] = from /\ pc' = [pc EXCEPT ![r] = to]

\* The response is sent: r's state is forgotten, the mutex released.
End(r) ==
    /\ pc' = [pc EXCEPT ![r] = "idle"]
    /\ doc' = [doc EXCEPT ![r] = None] /\ content' = [content EXCEPT ![r] = None]
    /\ key' = [key EXCEPT ![r] = None] /\ reuse' = [reuse EXCEPT ![r] = FALSE]
    /\ number' = [number EXCEPT ![r] = 0]
    /\ todo' = [todo EXCEPT ![r] = {}] /\ moved' = [moved EXCEPT ![r] = {}]
    /\ rowIds' = [rowIds EXCEPT ![r] = {}]
    /\ mutex' = IF mutex = r THEN None ELSE mutex

-----------------------------------------------------------------------------
(* createDocument and createVersion.                                       *)

\* createDocument waits for its turn.
TakeMutex(r) ==
    /\ pc[r] = "idle" /\ mutex = None
    /\ mutex' = r
    /\ \E d \in DocumentIds \ used, c \in Contents :
        /\ used' = used \cup {d}
        /\ doc' = [doc EXCEPT ![r] = d] /\ content' = [content EXCEPT ![r] = c]
    /\ pc' = [pc EXCEPT ![r] = "prepared"]
    /\ UNCHANGED <<documents, versions, current, storedFiles, fileVars, key, reuse, number,
                   deleteVars, historyVars>>

\* createVersion: the document exists and has no version with these bytes.
CheckVersion(r) ==
    /\ pc[r] = "idle"
    /\ \E d \in documents, c \in Contents :
        /\ \A v \in VersionsOf(d) : sha[v.key] # c
        /\ doc' = [doc EXCEPT ![r] = d] /\ content' = [content EXCEPT ![r] = c]
    /\ pc' = [pc EXCEPT ![r] = "prepared"]
    /\ UNCHANGED <<tableVars, fileVars, mutex, key, reuse, number, deleteVars, historyVars>>

BlobsOf(c) == {k \in storedFiles : sha[k] = c}

FindBlob(r) ==
    /\ pc[r] = "prepared"
    /\ \/ /\ BlobsOf(content[r]) = {}
          /\ pc' = [pc EXCEPT ![r] = "writing"] /\ UNCHANGED key
       \/ \E k \in BlobsOf(content[r]) :
          /\ pc' = [pc EXCEPT ![r] = "found"] /\ key' = [key EXCEPT ![r] = k]
    /\ UNCHANGED <<tableVars, fileVars, mutex, doc, content, reuse, number, deleteVars, historyVars>>

\* storage.exists of the blob: reuse its file, or drop the row and write anew.
CheckBlob(r) ==
    /\ Advance(r, "found", IF key[r] \in files THEN "ready" ELSE "dangling")
    /\ reuse' = [reuse EXCEPT ![r] = key[r] \in files]
    /\ UNCHANGED <<tableVars, fileVars, mutex, doc, content, key, number, deleteVars, historyVars>>

\* A failure to drop the row is swallowed.
DropRow(k) ==
    \/ /\ Referencing(k) = {}
       /\ storedFiles' = storedFiles \ {k}
       /\ versions' = Unlinked(k)
    \/ UNCHANGED <<storedFiles, versions>>

DropBlob(r) ==
    /\ Advance(r, "dangling", "writing")
    /\ DropRow(key[r])
    /\ UNCHANGED <<documents, used, current, fileVars, mutex, uploadVars, deleteVars, historyVars>>

\* moveTempFile under a random key.
WriteFile(r) ==
    /\ Advance(r, "writing", "ready")
    /\ \E k \in Keys :
        /\ sha[k] = None
        /\ sha' = [sha EXCEPT ![k] = content[r]]
        /\ files' = files \cup {k}
        /\ key' = [key EXCEPT ![r] = k]
    /\ UNCHANGED <<tableVars, quarantine, mutex, doc, content, reuse, number, deleteVars, historyVars>>

\* Mutation of ReadNumber: the aggregate has no `where`, every document counts.
ReadNumber_AnyDocument(r) ==
    /\ Advance(r, "ready", "numbered")
    /\ number' = [number EXCEPT ![r] =
           IF Creating(r) THEN 1 ELSE Max({0} \cup {v.number : v \in versions}) + 1]
    /\ UNCHANGED <<tableVars, fileVars, mutex, doc, content, key, reuse, deleteVars, historyVars>>

\* The transaction begins; createVersion reads the highest number.
ReadNumber(r) ==
    /\ Advance(r, "ready", "numbered")
    /\ number' = [number EXCEPT ![r] =
           IF Creating(r) THEN 1 ELSE Max({0} \cup {v.number : v \in VersionsOf(doc[r])}) + 1]
    /\ UNCHANGED <<tableVars, fileVars, mutex, doc, content, key, reuse, deleteVars, historyVars>>

\* The unique indexes and foreign keys that the inserts meet.
NumberTaken(r) == \E v \in VersionsOf(doc[r]) : v.number = number[r]
Duplicate(r) ==
    \/ \E v \in VersionsOf(doc[r]) : sha[v.key] = content[r]
    \/ ~reuse[r] /\ BlobsOf(content[r]) # {}
\* Mutation of Dangling: no foreign key asks for the document.
Dangling_AnyDocument(r) == reuse[r] /\ key[r] \notin storedFiles
Dangling(r) ==
    \/ ~Creating(r) /\ doc[r] \notin documents
    \/ reuse[r] /\ key[r] \notin storedFiles
\* An uncommitted row with one of the same unique values makes the insert wait.
WaitsForInsert(r) ==
    \E q \in Requests \ {r} :
        /\ Inserted(q)
        /\ \/ doc[q] = doc[r] /\ (number[q] = number[r] \/ content[q] = content[r])
           \/ ~reuse[q] /\ ~reuse[r] /\ content[q] = content[r]

Violates(r) == NumberTaken(r) \/ Duplicate(r) \/ Dangling(r)

InsertRows(r) ==
    /\ ~Violates(r) /\ ~WaitsForInsert(r)
    /\ Advance(r, "numbered", "inserted")
    /\ UNCHANGED <<tableVars, fileVars, mutex, uploadVars, deleteVars, historyVars>>

CommitRows(r) ==
    /\ versions' = versions \cup
           {[doc |-> doc[r], number |-> number[r], key |-> key[r], linked |-> TRUE]}
    /\ storedFiles' = storedFiles \cup {key[r]}
    /\ documents' = IF Creating(r) THEN documents \cup {doc[r]} ELSE documents
    /\ current' = [current EXCEPT ![doc[r]] = number[r]]
    /\ UNCHANGED <<used, fileVars>>

\* The UPDATE of current_version_id, when it gets the row, and the COMMIT.
CommitUpload(r) ==
    /\ pc[r] = "inserted" /\ ~KeyLocked(r, doc[r])
    /\ CommitRows(r) /\ End(r)
    /\ UNCHANGED historyVars

\* COMMIT succeeds but its answer is lost: the service believes it failed.
LoseCommit(r) ==
    /\ faults < MaxFaults /\ ~KeyLocked(r, doc[r])
    /\ Advance(r, "inserted", "cleanup")
    /\ CommitRows(r)
    /\ faults' = faults + 1
    /\ lost' = IF reuse[r] THEN lost ELSE lost \cup {key[r]}
    /\ UNCHANGED <<mutex, uploadVars, deleteVars, taken, leaked>>

\* A constraint is violated, or the transaction fails for another reason.
FailUpload(r) ==
    /\ pc[r] \in {"ready"} \cup UploadTx
    /\ pc' = [pc EXCEPT ![r] = "cleanup"]
    /\ UNCHANGED <<tableVars, fileVars, mutex, uploadVars, deleteVars, historyVars>>

\* Mutation of Cleanup: the file is removed even if another version uses it.
Cleanup_Always(r) ==
    /\ pc[r] = "cleanup"
    /\ files' = files \ {key[r]}
    /\ End(r)
    /\ UNCHANGED <<tableVars, sha, quarantine, historyVars>>

Cleanup(r) ==
    /\ pc[r] = "cleanup"
    /\ files' = IF reuse[r] THEN files ELSE files \ {key[r]}
    /\ End(r)
    /\ UNCHANGED <<tableVars, sha, quarantine, historyVars>>

\* storage.delete fails in the error path.
FailCleanup(r) ==
    /\ pc[r] = "cleanup" /\ ~reuse[r]
    /\ leaked' = leaked \cup ({key[r]} \ lost)
    /\ End(r)
    /\ UNCHANGED <<tableVars, fileVars, taken, lost, faults>>

-----------------------------------------------------------------------------
(* makeCurrent.                                                            *)

\* Mutation of ChooseVersion: the version is looked up by its id alone.
ChooseVersion_AnyDocument(r) ==
    /\ pc[r] = "idle"
    /\ \E v \in versions, d \in documents :
        /\ v.key \in files
        /\ doc' = [doc EXCEPT ![r] = d] /\ number' = [number EXCEPT ![r] = v.number]
    /\ pc' = [pc EXCEPT ![r] = "chosen"]
    /\ UNCHANGED <<tableVars, fileVars, mutex, content, key, reuse, deleteVars, historyVars>>

\* The version is one of the document and its file is there.
ChooseVersion(r) ==
    /\ pc[r] = "idle"
    /\ \E v \in versions :
        /\ v.key \in files
        /\ doc' = [doc EXCEPT ![r] = v.doc] /\ number' = [number EXCEPT ![r] = v.number]
    /\ pc' = [pc EXCEPT ![r] = "chosen"]
    /\ UNCHANGED <<tableVars, fileVars, mutex, content, key, reuse, deleteVars, historyVars>>

MakeCurrent(r) ==
    /\ pc[r] = "chosen" /\ doc[r] \in documents
    /\ current[doc[r]] # number[r] => ~KeyLocked(r, doc[r])
    /\ current' = [current EXCEPT ![doc[r]] = number[r]]
    /\ End(r)
    /\ UNCHANGED <<documents, used, versions, storedFiles, fileVars, historyVars>>

-----------------------------------------------------------------------------
(* deleteDocument.                                                         *)

LoadDocument(r) ==
    /\ pc[r] = "idle"
    /\ \E d \in documents :
        /\ doc' = [doc EXCEPT ![r] = d]
        /\ todo' = [todo EXCEPT ![r] = VersionsOf(d)]
        /\ rowIds' = [rowIds EXCEPT ![r] = {v.key : v \in {w \in VersionsOf(d) : w.linked}}]
    /\ pc' = [pc EXCEPT ![r] = "scan"]
    /\ UNCHANGED <<tableVars, fileVars, mutex, content, key, reuse, number, moved, historyVars>>

\* The version's stored file has other versions, as far as it was linked when read.
Shared(v) == v.linked /\ Cardinality(LinkedTo(v.key)) > 1

ScanVersion(r) ==
    /\ pc[r] = "scan"
    /\ \E v \in todo[r] :
        IF v.key \in files /\ ~Shared(v)
        THEN /\ pc' = [pc EXCEPT ![r] = "quarantining"]
             /\ key' = [key EXCEPT ![r] = v.key]
             /\ UNCHANGED todo
        ELSE /\ todo' = [todo EXCEPT ![r] = @ \ {v}]
             /\ UNCHANGED <<pc, key>>
    /\ UNCHANGED <<tableVars, fileVars, mutex, doc, content, reuse, number, moved, rowIds, historyVars>>

\* rename into the quarantine directory; if the file is gone, FailDelete remains.
Quarantine(r) ==
    /\ key[r] \in files /\ Advance(r, "quarantining", "scan")
    /\ files' = files \ {key[r]} /\ quarantine' = quarantine \cup {key[r]}
    /\ moved' = [moved EXCEPT ![r] = @ \cup {key[r]}]
    /\ taken' = taken \cup {key[r]}
    /\ todo' = [todo EXCEPT ![r] = {v \in @ : v.key # key[r]}]
    /\ key' = [key EXCEPT ![r] = None]
    /\ UNCHANGED <<tableVars, sha, mutex, doc, content, reuse, number, rowIds, lost, leaked, faults>>

\* The transaction: when its UPDATE of current_version_id has the row, nobody
\* adds a version any more; all versions go, those since LoadDocument included.
DeleteRows(r) ==
    /\ todo[r] = {} /\ doc[r] \in documents /\ ~KeyLocked(r, doc[r])
    /\ documents' = documents \ {doc[r]}
    /\ versions' = versions \ VersionsOf(doc[r])
    /\ current' = [current EXCEPT ![doc[r]] = 0]
    /\ UNCHANGED <<used, storedFiles, fileVars, mutex, uploadVars, deleteVars, taken, lost>>

CommitDelete(r) ==
    /\ Advance(r, "scan", "purging")
    /\ DeleteRows(r)
    /\ leaked' = leaked \cup ({v.key : v \in VersionsOf(doc[r])} \ moved[r])
    /\ UNCHANGED faults

\* The COMMIT takes effect and its answer is lost: the catch block will put the
\* files back whose versions are gone.
LoseDelete(r) ==
    /\ faults < MaxFaults
    /\ Advance(r, "scan", "restoring")
    /\ DeleteRows(r)
    /\ leaked' = leaked \cup {v.key : v \in VersionsOf(doc[r])}
    /\ faults' = faults + 1

\* The loop over r's own quarantined files, which nobody else looks at, is one
\* step.  Each may fail to go, which is swallowed.
Purge(r) ==
    /\ Advance(r, "purging", "unlinking")
    /\ \E gone \in SUBSET moved[r] : quarantine' = quarantine \ gone
    /\ moved' = [moved EXCEPT ![r] = {}]
    /\ UNCHANGED <<tableVars, files, sha, mutex, uploadVars, todo, rowIds, historyVars>>

\* The transaction or the scan fails and changes nothing.  Of what r has read the
\* catch block uses only which files it has moved.
FailDelete(r) ==
    /\ pc[r] \in {"scan", "quarantining"}
    /\ pc' = [pc EXCEPT ![r] = "restoring"]
    /\ key' = [key EXCEPT ![r] = None]
    /\ todo' = [todo EXCEPT ![r] = {}] /\ rowIds' = [rowIds EXCEPT ![r] = {}]
    /\ UNCHANGED <<tableVars, fileVars, mutex, doc, content, reuse, number, moved, historyVars>>

\* The catch block puts the next file back, or fails to, which is swallowed.
Restore(r) ==
    /\ pc[r] = "restoring"
    /\ \E k \in moved[r] :
        /\ moved' = [moved EXCEPT ![r] = @ \ {k}]
        /\ \/ files' = files \cup {k} /\ quarantine' = quarantine \ {k} /\ taken' = taken \ {k}
           \/ UNCHANGED <<files, quarantine, taken>>
    /\ UNCHANGED <<tableVars, sha, mutex, pc, uploadVars, todo, rowIds, lost, leaked, faults>>

\* The error is thrown on.
Rethrow(r) ==
    /\ pc[r] = "restoring" /\ moved[r] = {}
    /\ End(r)
    /\ UNCHANGED <<tableVars, fileVars, historyVars>>

\* Count the versions of the next stored file; drop its row if there are none.
CountVersions(r) ==
    /\ pc[r] = "unlinking"
    /\ \E k \in rowIds[r] :
        /\ rowIds' = [rowIds EXCEPT ![r] = @ \ {k}]
        /\ IF LinkedTo(k) = {}
           THEN pc' = [pc EXCEPT ![r] = "dropping"] /\ key' = [key EXCEPT ![r] = k]
           ELSE UNCHANGED <<pc, key>>
    /\ UNCHANGED <<tableVars, fileVars, mutex, doc, content, reuse, number, todo, moved, historyVars>>

DropStoredFile(r) ==
    /\ Advance(r, "dropping", "unlinking")
    /\ DropRow(key[r])
    /\ key' = [key EXCEPT ![r] = None]
    /\ UNCHANGED <<documents, used, current, fileVars, mutex, doc, content, reuse, number,
                   deleteVars, historyVars>>

FinishDelete(r) ==
    /\ pc[r] = "unlinking" /\ rowIds[r] = {}
    /\ End(r)
    /\ UNCHANGED <<tableVars, fileVars, historyVars>>

-----------------------------------------------------------------------------

\* 400, 404 or 500 where nothing is undone: before anything was written, or
\* when a count fails after a deletion.
GiveUp(r) ==
    /\ pc[r] \in {"prepared", "found", "dangling", "writing", "chosen", "unlinking"}
    /\ End(r)
    /\ UNCHANGED <<tableVars, fileVars, historyVars>>

\* The process dies; open transactions are rolled back, files stay where they are.
Crash ==
    /\ faults < MaxFaults
    /\ faults' = faults + 1
    /\ leaked' = leaked \cup
           ({key[r] : r \in {q \in Requests :
                                pc[q] \in {"ready", "cleanup"} \cup UploadTx /\ ~reuse[q]}} \ lost)
    /\ pc' = [r \in Requests |-> "idle"] /\ mutex' = None
    /\ doc' = [r \in Requests |-> None] /\ content' = [r \in Requests |-> None]
    /\ key' = [r \in Requests |-> None] /\ reuse' = [r \in Requests |-> FALSE]
    /\ number' = [r \in Requests |-> 0]
    /\ todo' = [r \in Requests |-> {}] /\ moved' = [r \in Requests |-> {}]
    /\ rowIds' = [r \in Requests |-> {}]
    /\ UNCHANGED <<tableVars, fileVars, taken, lost>>

Receive(r) == TakeMutex(r) \/ CheckVersion(r) \/ ChooseVersion(r) \/ LoadDocument(r)

Serve(r) ==
    \/ FindBlob(r) \/ CheckBlob(r) \/ DropBlob(r) \/ WriteFile(r)
    \/ ReadNumber(r) \/ InsertRows(r) \/ CommitUpload(r) \/ Cleanup(r) \/ FailCleanup(r)
    \/ MakeCurrent(r)
    \/ ScanVersion(r) \/ Quarantine(r) \/ CommitDelete(r) \/ Purge(r) \/ CountVersions(r) \/ DropStoredFile(r)
    \/ FinishDelete(r) \/ Restore(r) \/ Rethrow(r)

Next ==
    \/ \E r \in Requests :
        Receive(r) \/ Serve(r) \/ LoseCommit(r) \/ LoseDelete(r) \/ FailUpload(r) \/ FailDelete(r) \/ GiveUp(r)
    \/ Crash

Spec == Init /\ [][Next]_vars

-----------------------------------------------------------------------------
(* What must hold.                                                         *)

(* The reconciliation report: inspect of DocumentReconciliationService.    *)
Referenced == {v.key : v \in versions}
MissingPhysicalFiles == Referenced \ files
UnreferencedPhysicalFiles == files \ Referenced

\* Whatever fails, and whoever shares the file: a committed version lacks its
\* file only if a deletion holds it, has purged it, died with it or failed to
\* put it back, or the answer to the version's own COMMIT was lost.
MissingFilesWereTaken == MissingPhysicalFiles \subseteq taken \cup lost

\* A file of no version is being uploaded, or a deletion of its version passed
\* it over (its blob was shared, or its version came late) or put it back
\* because it did not learn that the rows were gone, or a crash or a failed
\* cleanup left it.
Uploading(k) == \E r \in Requests : key[r] = k /\ pc[r] \in {"ready", "cleanup"} \cup UploadTx
OrphansAreExplained ==
    \A k \in UnreferencedPhysicalFiles : ~Uploading(k) => k \in leaked

\* The complete list of causes of missing and of orphaned files.
FilesAreExplained == MissingFilesWereTaken /\ OrphansAreExplained

\* createVersion's max + 1 and the unique indexes leave no gap and no double.
NumbersAreGapless ==
    \A d \in documents : {v.number : v \in VersionsOf(d)} = 1..Cardinality(VersionsOf(d))

\* The current version of a document is one of its own versions.
CurrentIsOwn == \A d \in documents : \E v \in VersionsOf(d) : v.number = current[d]

\* What the tables promise of a document, its versions and stored files.
TablesAreConsistent == TypeOK /\ NumbersAreGapless /\ CurrentIsOwn

\* missingPhysicalFiles: 0.  When no request is open every version has its file.
\* The code does not achieve this, even without a fault, and no run checks it;
\* FilesAreExplained says what it does achieve.
NoMissingPhysicalFiles ==
    (\A r \in Requests : pc[r] = "idle") => MissingPhysicalFiles = {}
=============================================================================
