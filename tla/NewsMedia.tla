----------------------------- MODULE NewsMedia -----------------------------
(***************************************************************************)
(* Images of news articles: NewsMediaService over the table `news_media`   *)
(* and a directory, and the operations of NewsService that attach a cover  *)
(* to an article and let go of the previous one.                           *)
(*                                                                         *)
(* An image is named by its storage key, the hash of its bytes; sha256 and *)
(* storage_key are unique, so it has at most one row.  A row that is       *)
(* created again gets a new id.  Nothing joins the statements of an        *)
(* operation, or the table and the directory: every await is a step.  A    *)
(* DELETE with a condition on `news` is two, the snapshot of the condition *)
(* and the removal of the row, which sets the covers that name it to null. *)
(***************************************************************************)
EXTENDS Naturals

CONSTANTS
    Keys,       \* storage keys of images
    NewsIds,    \* primary keys of `news`
    Requests,   \* concurrently served admin requests
    Cleaners,   \* passes of cleanupPending that may run at once
    MaxRows,    \* bound: rows that one image has in turn
    MaxMediaFaults,  \* bound: crashes, failed writes and lost connections
    None        \* no image, no article, no pass

Actors == Requests \cup Cleaners

ASSUME MediaBoundsAssumption == MaxRows \in Nat \ {0} /\ MaxMediaFaults \in Nat
ASSUME NoneAssumption == None \notin Keys \cup NewsIds \cup Cleaners
ASSUME ActorsAssumption == Requests \cap Cleaners = {}

VARIABLES
    rowId,      \* rowId[k]: id of the row of image k, 0 if it has none
    lastId,     \* lastId[k]: the last id that a row of k has had
    old,        \* images whose row was created before the cutoff
    mark,       \* mark[k]: the pass whose `now` is in quarantined_at
    files,      \* images that are in the directory
    articles, trashedNews,  \* rows of `news`; those with deleted_at
    cover,      \* cover[a]: the image in cover_image_url, and cover_media_id
    pc,         \* pc[x]: what a request or a pass does next
    article,    \* article[r]: the article r is about, None for a new one
    previous,   \* previous[r]: the cover that the article had when r read it
    key, id,    \* key[x], id[x]: the image x handles, the row x has read
    todo,       \* todo[c]: candidates of pass c, as [key, id]
    overtaken,  \* history: images that were removed and used at the same time
    faulty,     \* history: images that a fault has left in the middle
    mediaFaults

mediaVars == <<rowId, lastId, old, mark>>
newsVars == <<articles, trashedNews, cover>>
requestVars == <<article, previous>>
imageVars == <<mediaVars, files, newsVars, pc, requestVars, key, id, todo, overtaken, faulty, mediaFaults>>

Ids == 0..MaxRows
NoCover == [key |-> None, id |-> 0]

UploadStates == {"stat", "writing", "saving"}
RemovalStates == {"selected", "unlinking", "marked", "checked", "unlinked"}
States == {"idle", "loaded", "resolved", "releasing", "cleaning"} \cup UploadStates \cup RemovalStates

MediaTypeOK ==
    /\ rowId \in [Keys -> Ids] /\ lastId \in [Keys -> Ids]
    /\ old \subseteq {k \in Keys : rowId[k] # 0}
    /\ mark \in [Keys -> Cleaners \cup {None}]
    /\ files \subseteq Keys
    /\ trashedNews \subseteq articles /\ articles \subseteq NewsIds
    /\ cover \in [NewsIds -> [key : Keys \cup {None}, id : Ids]]
    /\ \A a \in NewsIds : cover[a].id # 0 => rowId[cover[a].key] = cover[a].id
    /\ pc \in [Actors -> States]
    /\ article \in [Requests -> NewsIds \cup {None}]
    /\ previous \in [Requests -> Keys \cup {None}]
    /\ key \in [Actors -> Keys \cup {None}] /\ id \in [Actors -> Ids]
    /\ todo \in [Cleaners -> SUBSET [key : Keys, id : Ids]]
    /\ overtaken \subseteq Keys /\ faulty \subseteq Keys /\ mediaFaults \in 0..MaxMediaFaults

MediaInit ==
    /\ rowId = [k \in Keys |-> 0] /\ lastId = [k \in Keys |-> 0]
    /\ old = {} /\ mark = [k \in Keys |-> None] /\ files = {}
    /\ articles = {} /\ trashedNews = {} /\ cover = [a \in NewsIds |-> NoCover]
    /\ pc = [x \in Actors |-> "idle"]
    /\ article = [r \in Requests |-> None] /\ previous = [r \in Requests |-> None]
    /\ key = [x \in Actors |-> None] /\ id = [x \in Actors |-> 0]
    /\ todo = [c \in Cleaners |-> {}]
    /\ overtaken = {} /\ faulty = {} /\ mediaFaults = 0

-----------------------------------------------------------------------------

\* `news: { none: {} }` and `news: { none: { deleted_at: null } }`.
Unattached(k) == \A a \in NewsIds : cover[a].id = 0 \/ cover[a].key # k
Unreferenced(k) == \A a \in NewsIds \ trashedNews : cover[a].id = 0 \/ cover[a].key # k

Advance(x, from, to) == pc[x] = from /\ pc' = [pc EXCEPT ![x] = to]

Handle(x, k, n) == key' = [key EXCEPT ![x] = k] /\ id' = [id EXCEPT ![x] = n]

\* The response is sent, or the error of the operation is.
End(r) ==
    /\ pc' = [pc EXCEPT ![r] = "idle"]
    /\ article' = [article EXCEPT ![r] = None] /\ previous' = [previous EXCEPT ![r] = None]
    /\ Handle(r, None, 0)

\* DELETE of the row; cover_media_id references it ON DELETE SET NULL.
DeleteMedia(k) ==
    /\ rowId' = [rowId EXCEPT ![k] = 0]
    /\ old' = old \ {k} /\ mark' = [mark EXCEPT ![k] = None]
    /\ cover' = [a \in NewsIds |-> IF cover[a].key = k THEN [cover[a] EXCEPT !.id = 0] ELSE cover[a]]

\* created_at falls behind the cutoff.
Age(k) ==
    /\ rowId[k] # 0 /\ k \notin old
    /\ old' = old \cup {k}
    /\ UNCHANGED <<rowId, lastId, mark, files, newsVars, pc, requestVars, key, id, todo, faulty, mediaFaults>>

-----------------------------------------------------------------------------
(* store: the upload of an image, or its import.                           *)

FindMedia(r) ==
    /\ pc[r] = "idle"
    /\ \E k \in Keys :
        /\ Handle(r, k, rowId[k])
        /\ pc' = [pc EXCEPT ![r] = IF rowId[k] = 0 THEN "writing" ELSE "stat"]
    /\ UNCHANGED <<mediaVars, files, newsVars, requestVars, todo, faulty, mediaFaults>>

StatFile(r) ==
    /\ pc[r] = "stat"
    /\ IF key[r] \in files
       THEN End(r)
       ELSE pc' = [pc EXCEPT ![r] = "writing"] /\ UNCHANGED <<requestVars, key, id>>
    /\ UNCHANGED <<mediaVars, files, newsVars, todo, faulty, mediaFaults>>

WriteFile(r) ==
    /\ Advance(r, "writing", "saving")
    /\ files' = files \cup {key[r]}
    /\ UNCHANGED <<mediaVars, newsVars, requestVars, key, id, todo, faulty, mediaFaults>>

\* The error of writeFile is swallowed.
FailWrite(r) ==
    /\ mediaFaults < MaxMediaFaults
    /\ Advance(r, "writing", "saving")
    /\ mediaFaults' = mediaFaults + 1 /\ faulty' = faulty \cup {key[r]}
    /\ UNCHANGED <<mediaVars, files, newsVars, requestVars, key, id, todo>>

CreateRow(k) ==
    /\ lastId[k] < MaxRows
    /\ lastId' = [lastId EXCEPT ![k] = @ + 1]
    /\ rowId' = [rowId EXCEPT ![k] = lastId'[k]]
    /\ UNCHANGED <<old, mark>>

\* Update the row that was found, which fails if it is gone, or create one,
\* unless another upload has done so: P2002, and its row is returned.
SaveRow(r) ==
    /\ pc[r] = "saving"
    /\ IF id[r] = 0 /\ rowId[key[r]] = 0 THEN CreateRow(key[r]) ELSE UNCHANGED mediaVars
    /\ End(r)
    /\ UNCHANGED <<files, newsVars, todo, faulty, mediaFaults>>

-----------------------------------------------------------------------------
(* createNews, updateNews and deleteNews, as far as they touch the cover.  *)

\* updateNews and deleteNews read the article first.
ReadNews(r) ==
    /\ pc[r] = "idle"
    /\ \E a \in articles \ trashedNews :
        /\ article' = [article EXCEPT ![r] = a]
        /\ previous' = [previous EXCEPT ![r] = cover[a].key]
    /\ pc' = [pc EXCEPT ![r] = "loaded"]
    /\ UNCHANGED <<mediaVars, files, newsVars, key, id, todo, faulty, mediaFaults>>

\* The body names no cover, or an image that has a row.
ResolveCover(r) ==
    /\ pc[r] \in {"idle", "loaded"}
    /\ \/ Handle(r, None, 0)
       \/ \E k \in Keys : rowId[k] # 0 /\ Handle(r, k, rowId[k])
    /\ pc' = [pc EXCEPT ![r] = "resolved"]
    /\ UNCHANGED <<mediaVars, files, newsVars, requestVars, todo, faulty, mediaFaults>>

\* The operation ends unless it has replaced an image of ours.
Release(r, k) ==
    IF previous[r] \in {None, k}
    THEN End(r)
    ELSE /\ pc' = [pc EXCEPT ![r] = "releasing"]
         /\ Handle(r, previous[r], 0)
         /\ UNCHANGED requestVars

WriteCover(r) ==
    /\ \E a \in IF article[r] = None THEN NewsIds \ articles ELSE {article[r]} :
        /\ articles' = articles \cup {a}
        /\ cover' = [cover EXCEPT ![a] = [key |-> key[r], id |-> id[r]]]
    /\ Release(r, key[r])
    /\ UNCHANGED <<mediaVars, files, trashedNews, todo, faulty, mediaFaults>>

\* Mutation of WriteNews: cover_media_id is no foreign key.
WriteNews_NoForeignKey(r) == pc[r] = "resolved" /\ WriteCover(r)

\* INSERT or UPDATE of the article, under the foreign key to the image.
WriteNews(r) ==
    /\ pc[r] = "resolved"
    /\ id[r] # 0 => rowId[key[r]] = id[r]
    /\ WriteCover(r)

TrashNews(r) ==
    /\ pc[r] = "loaded"
    /\ trashedNews' = trashedNews \cup {article[r]}
    /\ Release(r, None)
    /\ UNCHANGED <<mediaVars, files, articles, cover, todo, faulty, mediaFaults>>

\* The foreign key is violated.
RefuseNews(r) ==
    /\ pc[r] = "resolved" /\ id[r] # 0 /\ rowId[key[r]] # id[r]
    /\ End(r)
    /\ UNCHANGED <<mediaVars, files, newsVars, todo, faulty, mediaFaults>>

-----------------------------------------------------------------------------
(* deleteIfUnreferenced, of a replaced cover or on request.                *)

SelectKey(r, k, matched) ==
    /\ IF matched
       THEN /\ pc' = [pc EXCEPT ![r] = "selected"]
            /\ Handle(r, k, rowId[k])
            /\ UNCHANGED requestVars
       ELSE End(r)
    /\ UNCHANGED <<mediaVars, files, newsVars, todo, faulty, mediaFaults>>

\* The image whose removal r is about: any on request.
ToRelease(r) == IF pc[r] = "idle" THEN Keys ELSE {key[r]}

\* Mutation of SelectUnreferenced: `where` names the key only.
SelectUnreferenced_Any(r) ==
    /\ pc[r] \in {"idle", "releasing"}
    /\ \E k \in ToRelease(r) : SelectKey(r, k, rowId[k] # 0)

SelectUnreferenced(r) ==
    /\ pc[r] \in {"idle", "releasing"}
    /\ \E k \in ToRelease(r) : SelectKey(r, k, rowId[k] # 0 /\ Unreferenced(k))

DeleteRow(r) ==
    /\ pc[r] = "selected"
    /\ IF rowId[key[r]] = id[r]
       THEN /\ DeleteMedia(key[r])
            /\ pc' = [pc EXCEPT ![r] = "unlinking"]
            /\ UNCHANGED <<requestVars, key, id>>
       ELSE End(r) /\ UNCHANGED <<rowId, old, mark, cover>>
    /\ UNCHANGED <<lastId, files, articles, trashedNews, todo, faulty, mediaFaults>>

\* Mutation of RemoveFile: the file is left to itself.
RemoveFile_Leave(r) ==
    /\ pc[r] = "unlinking"
    /\ End(r)
    /\ UNCHANGED <<mediaVars, files, newsVars, todo, faulty, mediaFaults>>

RemoveFile(r) ==
    /\ pc[r] = "unlinking"
    /\ files' = files \ {key[r]}
    /\ End(r)
    /\ UNCHANGED <<mediaVars, newsVars, todo, faulty, mediaFaults>>

-----------------------------------------------------------------------------
(* cleanupPending, every hour.                                             *)

\* Mutation of Candidates: images whose upload is complete are not pending.
Candidates_None == {}

Candidates == {[key |-> k, id |-> rowId[k]] : k \in {i \in old : Unattached(i)}}

\* A new `now`: the marks of this pass's predecessors are not its own.
FindCandidates(c) ==
    /\ Advance(c, "idle", "cleaning")
    /\ todo' = [todo EXCEPT ![c] = Candidates]
    /\ mark' = [k \in Keys |-> IF mark[k] = c THEN None ELSE mark[k]]
    /\ UNCHANGED <<rowId, lastId, old, files, newsVars, requestVars, key, id, faulty, mediaFaults>>

MarkCandidate(c) ==
    /\ pc[c] = "cleaning"
    /\ \E m \in todo[c] :
        /\ todo' = [todo EXCEPT ![c] = @ \ {m}]
        /\ IF rowId[m.key] = m.id /\ Unattached(m.key)
           THEN /\ mark' = [mark EXCEPT ![m.key] = c]
                /\ Handle(c, m.key, m.id)
                /\ pc' = [pc EXCEPT ![c] = "marked"]
           ELSE UNCHANGED <<mark, pc, key, id>>
    /\ UNCHANGED <<rowId, lastId, old, files, newsVars, requestVars, faulty, mediaFaults>>

\* stillReferenced: the row is looked up by its id, and has articles.
CheckReferences(c) ==
    /\ Advance(c, "marked",
               IF rowId[key[c]] = id[c] /\ ~Unattached(key[c]) THEN "cleaning" ELSE "checked")
    /\ UNCHANGED <<mediaVars, files, newsVars, requestVars, key, id, todo, faulty, mediaFaults>>

RemoveBlob(c) ==
    /\ Advance(c, "checked", "unlinked")
    /\ files' = files \ {key[c]}
    /\ UNCHANGED <<mediaVars, newsVars, requestVars, key, id, todo, faulty, mediaFaults>>

Marked(c) == rowId[key[c]] = id[c] /\ mark[key[c]] = c

\* Mutation of SelectMarked: quarantined_at is compared with another instant.
SelectMarked_Never(c) ==
    /\ Advance(c, "unlinked", "cleaning")
    /\ UNCHANGED <<mediaVars, files, newsVars, requestVars, key, id, todo, faulty, mediaFaults>>

SelectMarked(c) ==
    /\ Advance(c, "unlinked", IF Marked(c) /\ Unattached(key[c]) THEN "selected" ELSE "cleaning")
    /\ UNCHANGED <<mediaVars, files, newsVars, requestVars, key, id, todo, faulty, mediaFaults>>

DropMarked(c) ==
    /\ Advance(c, "selected", "cleaning")
    /\ IF Marked(c) THEN DeleteMedia(key[c]) ELSE UNCHANGED <<rowId, old, mark, cover>>
    /\ UNCHANGED <<lastId, files, articles, trashedNews, requestVars, key, id, todo, faulty, mediaFaults>>

EndCleanup(c) ==
    /\ todo[c] = {} /\ Advance(c, "cleaning", "idle")
    /\ Handle(c, None, 0)
    /\ UNCHANGED <<mediaVars, files, newsVars, requestVars, todo, faulty, mediaFaults>>

-----------------------------------------------------------------------------

Removing(k) == \E x \in Actors : pc[x] \in RemovalStates /\ key[x] = k
Uploading(k) == \E r \in Requests : pc[r] \in UploadStates /\ key[r] = k
Using(k) == Uploading(k) \/ \E r \in Requests : pc[r] = "resolved" /\ key[r] = k

\* A statement or the connection fails: the operation ends where it is.
Fail(r) ==
    /\ mediaFaults < MaxMediaFaults /\ pc[r] # "idle"
    /\ mediaFaults' = mediaFaults + 1
    /\ faulty' = IF pc[r] \in {"saving"} \cup RemovalStates THEN faulty \cup {key[r]} ELSE faulty
    /\ End(r)
    /\ UNCHANGED <<mediaVars, files, newsVars, todo>>

\* A statement of the pass or rm fails: the rest waits for the next pass.
FailCleanup(c) ==
    /\ mediaFaults < MaxMediaFaults /\ pc[c] # "idle"
    /\ mediaFaults' = mediaFaults + 1
    /\ faulty' = IF pc[c] \in RemovalStates THEN faulty \cup {key[c]} ELSE faulty
    /\ pc' = [pc EXCEPT ![c] = "idle"]
    /\ todo' = [todo EXCEPT ![c] = {}]
    /\ Handle(c, None, 0)
    /\ UNCHANGED <<mediaVars, files, newsVars, requestVars>>

\* The process dies.
Crash ==
    /\ mediaFaults < MaxMediaFaults
    /\ mediaFaults' = mediaFaults + 1
    /\ faulty' = faulty \cup {k \in Keys : Removing(k) \/ Uploading(k)}
    /\ pc' = [x \in Actors |-> "idle"]
    /\ article' = [r \in Requests |-> None] /\ previous' = [r \in Requests |-> None]
    /\ key' = [x \in Actors |-> None] /\ id' = [x \in Actors |-> 0]
    /\ todo' = [c \in Cleaners |-> {}]
    /\ UNCHANGED <<mediaVars, files, newsVars>>

Store(r) == FindMedia(r) \/ StatFile(r) \/ WriteFile(r) \/ SaveRow(r)
EditNews(r) == ReadNews(r) \/ ResolveCover(r) \/ WriteNews(r) \/ TrashNews(r) \/ RefuseNews(r)
Remove(r) == SelectUnreferenced(r) \/ DeleteRow(r) \/ RemoveFile(r)
CleanupPending(c) ==
    \/ FindCandidates(c) \/ MarkCandidate(c) \/ CheckReferences(c) \/ RemoveBlob(c)
    \/ SelectMarked(c) \/ DropMarked(c) \/ EndCleanup(c)

Track == overtaken' = overtaken \cup {k \in Keys : (Removing(k) /\ Using(k))'}

MediaNext ==
    /\ \/ \E k \in Keys : Age(k)
       \/ \E r \in Requests : Store(r) \/ EditNews(r) \/ Remove(r) \/ FailWrite(r) \/ Fail(r)
       \/ \E c \in Cleaners : CleanupPending(c) \/ FailCleanup(c)
       \/ Crash
    /\ Track

\* Cron starts a pass every hour and the pass goes on.
MediaSpec ==
    MediaInit /\ [][MediaNext]_imageVars /\ \A c \in Cleaners : WF_imageVars(CleanupPending(c) /\ Track)

-----------------------------------------------------------------------------
(* What must hold.                                                         *)

\* A removal and a use of the image at the same time, or a fault, is the only
\* way in which a row comes to lack its file.
MissingImagesAreExplained ==
    \A k \in Keys : rowId[k] # 0 /\ k \notin files => Removing(k) \/ k \in overtaken \cup faulty

\* "leaving referenced media": as long as nobody removed the image while it
\* was being attached or uploaded, a live article keeps the image and its row.
LiveCoversAreServed ==
    \A a \in articles \ trashedNews : LET k == cover[a].key IN
        k # None /\ (k \notin files \/ cover[a].id = 0) => k \in overtaken \cup faulty

\* Only an upload or a removal that failed, or that met the other, leaves a
\* file without a row, which no cleanup would ever find.
OrphansAreExplained ==
    \A k \in files : rowId[k] = 0 => Uploading(k) \/ Removing(k) \/ k \in overtaken \cup faulty

\* The complete list of causes of rows without files and of files without rows.
ImagesAreExplained == MediaTypeOK /\ MissingImagesAreExplained /\ OrphansAreExplained

\* An old image that no article names does not stay: the hourly cleanup drops
\* it whatever the requests do, unless one of them attaches it.
CleanupCollects == \A k \in Keys : (k \in old /\ Unattached(k)) ~> ~(k \in old /\ Unattached(k))
=============================================================================
