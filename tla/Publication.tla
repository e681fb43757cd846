---------------------------- MODULE Publication ----------------------------
(***************************************************************************)
(* The publication life cycle of news articles and of document placements: *)
(* the admin commands of NewsService and DocumentsService, the filters of  *)
(* the public endpoints, and the cron sweep of PublicationSweepService.    *)
(*                                                                         *)
(* An admin write is one UPDATE or INSERT, hence one step; the time it has *)
(* read may be up to MaxDelay old.  The sweep is one transaction of four   *)
(* UPDATEs: their writes are `pending`, and lock their rows, until Commit. *)
(***************************************************************************)
EXTENDS Integers

CONSTANTS
    Articles,       \* primary keys of `news`
    Placements,     \* primary keys of `document_placements`
    Documents,
    DocumentOf,     \* the document of a placement
    MaxTime,        \* bound: instants are 0..MaxTime
    MaxDelay,       \* bound: age of the `new Date()` that a write uses
    MaxFaults,      \* bound: sweeps that are rolled back
    NoTime          \* null

Rows == Articles \cup Placements
Instants == 0..MaxTime
OptInstants == Instants \cup {NoTime}
Statuses == {"DRAFT", "SCHEDULED", "PUBLISHED"}
RowStates == [status : Statuses, from : OptInstants, until : OptInstants, pub : BOOLEAN]

ASSUME BoundsAssumption == MaxTime \in Nat /\ MaxDelay \in Nat /\ MaxFaults \in Nat
ASSUME NoTimeAssumption == NoTime \notin Instants
ASSUME RowsAssumption ==
    Articles \cap Placements = {} /\ DocumentOf \in [Placements -> Documents]

VARIABLES
    clock,
    exists,     \* rows that are in their table
    trashed,    \* articles whose deleted_at is set
    row,        \* committed publication_status, publish_from, publish_until, is_published
    published,  \* documents whose status is PUBLISHED
    sweepPc,    \* the sweep's next statement
    sweepNow,   \* the sweep's `now`
    pending,    \* the sweep's uncommitted rows
    faults      \* rolled back sweeps

adminVars == <<exists, trashed, row, published>>
sweepVars == <<sweepPc, sweepNow, pending, faults>>
vars == <<clock, adminVars, sweepVars>>

\* A new placement; is_published exists for articles only.
Fresh == [status |-> "DRAFT", from |-> NoTime, until |-> NoTime, pub |-> FALSE]

SweepStates == {"newsExpire", "newsActivate", "placementExpire", "placementActivate", "commit"}

TypeOK ==
    /\ clock \in Instants
    /\ exists \subseteq Rows /\ trashed \subseteq exists \cap Articles
    /\ row \in [Rows -> RowStates]
    /\ published \subseteq Documents
    /\ sweepPc \in SweepStates \cup {"idle"}
    /\ sweepNow \in Instants
    /\ DOMAIN pending \subseteq exists /\ pending \in [DOMAIN pending -> RowStates]
    /\ faults \in 0..MaxFaults

-----------------------------------------------------------------------------
(* What the public endpoints show.                                         *)

Begun(s) == s.from = NoTime \/ s.from <= clock
Ended(s, t) == s.until # NoTime /\ s.until <= t

\* Rows of status DRAFT fall back on the flag that preceded publication_status:
\* is_published of the article, status of the placement's document.
PublicFlag(r) == IF r \in Articles THEN row[r].pub ELSE DocumentOf[r] \in published

Visible(r) ==
    /\ r \in exists \ trashed
    /\ row[r].status # "DRAFT" \/ PublicFlag(r)
    /\ Begun(row[r]) /\ ~Ended(row[r], clock)

-----------------------------------------------------------------------------

Init ==
    /\ clock = 0
    /\ exists = {} /\ trashed = {} /\ row = [r \in Rows |-> Fresh]
    /\ published = {}
    /\ sweepPc = "idle" /\ sweepNow = 0 /\ pending = << >> /\ faults = 0

Tick ==
    /\ clock < MaxTime
    /\ clock' = clock + 1
    /\ UNCHANGED <<adminVars, sweepVars>>

-----------------------------------------------------------------------------
(* Admin requests.                                                         *)

RecentNow == {t \in Instants : t <= clock /\ clock - t <= MaxDelay}

\* Mutation of Unlocked: the sweep's rows are not locked until it commits.
Unlocked_Always(r) == TRUE

\* An UPDATE waits for a row that an open transaction has updated.
Unlocked(r) == r \notin DOMAIN pending

Write(r, s) ==
    /\ Unlocked(r)
    /\ row' = [row EXCEPT ![r] = s]
    /\ UNCHANGED <<clock, exists, trashed, published, sweepVars>>

\* createNews: isPublished, publishedAt and publishUntil choose the first state.
FirstState(pub, publishedAt, until, now) ==
    [status |-> IF ~pub THEN "DRAFT"
                ELSE IF publishedAt # NoTime /\ publishedAt > now THEN "SCHEDULED"
                ELSE "PUBLISHED",
     from |-> IF publishedAt = NoTime /\ pub THEN now ELSE publishedAt,
     until |-> until,
     pub |-> pub]

CreateNews(a) ==
    /\ a \notin exists
    /\ exists' = exists \cup {a}
    /\ \E pub \in BOOLEAN, publishedAt, until \in OptInstants, now \in RecentNow :
        row' = [row EXCEPT ![a] = FirstState(pub, publishedAt, until, now)]
    /\ UNCHANGED <<clock, trashed, published, sweepVars>>

\* updateNews: isPublished and publishUntil, each if it is in the body; the
\* status and publish_from stay as they are.
PatchNews(a) ==
    /\ a \in exists \ trashed
    /\ \E pub \in BOOLEAN, until \in OptInstants :
        Write(a, [row[a] EXCEPT !.pub = pub, !.until = until])

DeleteNews(a) ==
    /\ a \in exists \ trashed /\ Unlocked(a)
    /\ trashed' = trashed \cup {a}
    /\ UNCHANGED <<clock, exists, row, published, sweepVars>>

(* applyPublicationCommand of an article, applyPlacementPublication.       *)

\* A window that ends before it begins is refused, as is a past schedule.
Accepted(command, publishFrom, until, now) ==
    /\ until # NoTime => until > publishFrom
    /\ command = "schedule" => publishFrom > now

Commanded(status, from, until, r) ==
    [status |-> status, from |-> from, until |-> until, pub |-> r \in Articles]

Draft(r) == Write(r, Fresh)

Schedule(r) ==
    \E now \in RecentNow, publishFrom \in Instants, until \in OptInstants :
        /\ Accepted("schedule", publishFrom, until, now)
        /\ Write(r, Commanded("SCHEDULED", publishFrom, until, r))

\* publish_now, actualize and publish_as_of: publishFrom is compared with
\* publishUntil, yet the row begins at `now`.
Publish(r) ==
    \E now \in RecentNow, until \in OptInstants :
        /\ \E publishFrom \in Instants : Accepted("publish", publishFrom, until, now)
        /\ Write(r, Commanded("PUBLISHED", now, until, r))

PublicationCommand(r) == r \in exists \ trashed /\ (Draft(r) \/ Schedule(r) \/ Publish(r))

\* createInitialPlacements and replacePlacements insert and delete rows.
AddPlacement(p) ==
    /\ p \notin exists
    /\ exists' = exists \cup {p}
    /\ row' = [row EXCEPT ![p] = Fresh]
    /\ UNCHANGED <<clock, trashed, published, sweepVars>>

RemovePlacement(p) ==
    /\ p \in exists /\ Unlocked(p)
    /\ exists' = exists \ {p}
    /\ row' = [row EXCEPT ![p] = Fresh]
    /\ UNCHANGED <<clock, trashed, published, sweepVars>>

UpdateStatus(d) ==
    /\ published' \in {published \cup {d}, published \ {d}}
    /\ UNCHANGED <<clock, exists, trashed, row, sweepVars>>

-----------------------------------------------------------------------------
(* The sweep.                                                              *)

\* pg_try_advisory_xact_lock: a sweep that finds another one running gives up.
StartSweep ==
    /\ sweepPc = "idle"
    /\ sweepPc' = "newsExpire"
    /\ sweepNow' = clock
    /\ UNCHANGED <<clock, adminVars, pending, faults>>

\* A statement of the sweep sees what is committed and its own writes.
Seen(r) == IF r \in DOMAIN pending THEN pending[r] ELSE row[r]

Expired(s, now) == s.status \in {"PUBLISHED", "SCHEDULED"} /\ Ended(s, now)

\* Mutation of Due: the activation does not look at publish_from.
Due_Early(s, now) == s.status = "SCHEDULED" /\ ~Ended(s, now)

Due(s, now) ==
    /\ s.status = "SCHEDULED"
    /\ s.from # NoTime /\ s.from <= now
    /\ ~Ended(s, now)

\* Mutation of Expire: is_published survives the expiry of an article.
Expire_KeepFlag(s) == [s EXCEPT !.status = "DRAFT", !.until = NoTime]

Expire(s) == [s EXCEPT !.status = "DRAFT", !.until = NoTime, !.pub = FALSE]
Activate(r, s) == [s EXCEPT !.status = "PUBLISHED", !.pub = r \in Articles]

\* One updateMany: the rows that match `where` get the values `data`.
Update(from, to, data) ==
    /\ sweepPc = from
    /\ sweepPc' = to
    /\ pending' = [r \in DOMAIN pending \cup DOMAIN data |->
                      IF r \in DOMAIN data THEN data[r] ELSE pending[r]]
    /\ UNCHANGED <<clock, adminVars, sweepNow, faults>>

ExpiredIn(table) == {r \in table \cap exists : Expired(Seen(r), sweepNow)}

\* Mutation of DueIn: rows without publish_until are missed.
DueIn_Bounded(table) ==
    {r \in table \cap exists : Due(Seen(r), sweepNow) /\ Seen(r).until # NoTime}

DueIn(table) == {r \in table \cap exists : Due(Seen(r), sweepNow)}

Expiry(table) == [r \in ExpiredIn(table) |-> Expire(Seen(r))]
Activation(table) == [r \in DueIn(table) |-> Activate(r, Seen(r))]

ExpireNews == Update("newsExpire", "newsActivate", Expiry(Articles))
ActivateNews == Update("newsActivate", "placementExpire", Activation(Articles))
ExpirePlacements == Update("placementExpire", "placementActivate", Expiry(Placements))
ActivatePlacements == Update("placementActivate", "commit", Activation(Placements))

CommitSweep ==
    /\ sweepPc = "commit"
    /\ row' = [r \in Rows |-> Seen(r)]
    /\ sweepPc' = "idle" /\ pending' = << >> /\ sweepNow' = 0
    /\ UNCHANGED <<clock, exists, trashed, published, faults>>

\* The transaction times out or loses its connection; the next minute retries.
RollbackSweep ==
    /\ sweepPc # "idle" /\ faults < MaxFaults
    /\ faults' = faults + 1
    /\ sweepPc' = "idle" /\ pending' = << >> /\ sweepNow' = 0
    /\ UNCHANGED <<clock, adminVars>>

SweepStep ==
    \/ StartSweep \/ ExpireNews \/ ActivateNews
    \/ ExpirePlacements \/ ActivatePlacements \/ CommitSweep

-----------------------------------------------------------------------------

Next ==
    \/ Tick
    \/ \E a \in Articles : CreateNews(a) \/ PatchNews(a) \/ DeleteNews(a)
    \/ \E p \in Placements : AddPlacement(p) \/ RemovePlacement(p)
    \/ \E r \in Rows : PublicationCommand(r)
    \/ \E d \in Documents : UpdateStatus(d)
    \/ SweepStep \/ RollbackSweep

\* Cron starts a sweep every minute, and the database serves its statements.
Spec == Init /\ [][Next]_vars /\ WF_vars(SweepStep)

-----------------------------------------------------------------------------
(* What must hold.                                                         *)

Committing == sweepPc = "commit" /\ sweepPc' = "idle" /\ faults' = faults

\* The sweep catches the labels up with what readers already see: it neither
\* shows nor hides an article, nor a placement of an unpublished document.
\* SweepRevealsNothing below is why the latter is restricted.
SweepOnlyRelabels ==
    [][Committing => \A r \in Rows :
          r \in Articles \/ DocumentOf[r] \notin published => Visible(r)' = Visible(r)]_vars

\* Admin commands that land between the sweep's statements are not undone by
\* its commit: it changes a row only if the committed row is still expired or due.
SweepOverwritesNothing ==
    [][Committing => \A r \in Rows :
          row'[r] # row[r] => Expired(row[r], sweepNow) \/ Due(row[r], sweepNow)]_vars

\* No order of commands and sweeps labels PUBLISHED a row that is hidden
\* because its publish_from lies ahead.
PublishedHasBegun ==
    \A r \in Rows : row[r].status = "PUBLISHED" /\ row[r].from # NoTime => row[r].from <= clock

\* The rows are as the readers of `status` expect them.
LabelsAreConsistent == TypeOK /\ PublishedHasBegun

\* Rolled back sweeps and concurrent commands notwithstanding, a due row does
\* not stay SCHEDULED and an expired one does not stay PUBLISHED.
SweepCatchesUp ==
    \A r \in Rows :
        /\ Expired(row[r], clock) ~> ~Expired(row[r], clock)
        /\ Due(row[r], clock) ~> ~Due(row[r], clock)

\* "returns 404 for unpublished news": is_published = false hides an article.
\* updateNews does not achieve this, and no run checks it.
UnpublishedIsHidden == \A a \in Articles : ~row[a].pub => ~Visible(a)

\* "expires expired rows": the sweep never makes a row public.  It does, for
\* an expired placement of a document whose own status is PUBLISHED.
SweepRevealsNothing == [][Committing => \A r \in Rows : Visible(r)' => Visible(r)]_vars
=============================================================================
