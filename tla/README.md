# A formal model of the kciasso backend

`src/` is a NestJS service over PostgreSQL (Prisma 5.21) and a directory of files. It serves the
public site of an education centre (news, documents, pages) and its administration. This directory
holds TLA+ models of the parts of it whose correctness depends on what several requests, a cron job,
a crash or the database do to each other, the TLC runs that check them and proofs of their main
properties. `tlc -config <cfg> <module>` and `tlapm <module>` reproduce everything; `PROJECT.json`
maps every definition to the lines it stands for (paths below are relative to the repository).

## 1. Inventory

| component | state | operations | hard part |
|---|---|---|---|
| administrators, sessions, guards (`src/system/user`) | `users`, `sessions`, advisory lock 780534091 | login, guards, create / update / delete administrator | read-then-write transactions under one lock; login outside it |
| login rate limit (`admin-auth-rate-limit.service.ts`) | `admin_auth_rate_limit_buckets` | assertAllowed, recordFailure, recordSuccess | read, increment in memory, write back |
| news and their publication (`news.service.ts`) | `news` | create, patch, delete, publication commands, public reads | legacy flag beside the status; the clock; the sweep |
| publication sweep (`publication-sweep.service.ts`) | writes `news`, `document_placements` | every minute and at boot, one transaction of four UPDATEs | statements interleave with commands; rollback |
| documents and versions (`documents.service.ts`, `local-document-storage.ts`) | `documents`, `document_versions`, `stored_files`, the file directory, its quarantine, a process mutex | create, createVersion, makeCurrent, delete, status | no transaction spans table and directory; files are shared by hash |
| placements (`document-placement.service.ts`) | `document_placements` | create, replace, reorder, publication | max + 1, validation outside the transaction |
| share links (`document-share-links.service.ts`) | `document_share_links`, advisory lock (4242, document) | create, revoke, resolve | one live link per document; token retry; conditional count |
| reconciliation (`document-reconciliation.service.ts`) | none, reads tables and directory | inspect | its counters say what must be zero |
| pages (`pages.service.ts`) | `page_layouts`, `page_section_placements`, `section_definitions` | read, page section CRUD, toggle, reorder, global section CRUD | optimistic revision, row locks in registry order, non-atomic read |
| page backfill (`pages-backfill.service.ts`) | the same tables | analyze, apply | analysis outside the transaction that applies it |
| news categories (`news.service.ts`) | `news_categories`, advisory lock 780534092 | create, update, move, delete | positions; count then delete |
| news media (`news-media.service.ts`) | `news_media`, a directory | store, import, cleanup, delete | rows and files again; hourly cleanup |
| document access (`documents/policies`, `documents.constants.ts`, controllers) | none | canAccessPlacement, canManagePlacements, the checks of each handler | rights follow the placements, which others change after the check |
| site settings | one row | get (creates the defaults), update | one upsert each; the seed resets the row |
| seed and boot (`src/prisma/seed*.ts`, `src/scripts/start-production.mjs`) | writes `sections`, `site_settings`, `page_layouts`, `news_categories`, `news`, `users` | one run, at boot or by hand | single statements without a transaction: stops and reruns |
| DTOs, mappers, file policies, capability guards, config, scripts | none of their own | | stateless or run by hand |

How they interact. Every HTTP request passes TokenGuard, UserGuard and, for administration,
SuperAdminGuard or AdminCapabilityGuard, which read `sessions` and `users`. NewsService calls
NewsMediaService when a cover is replaced. DocumentsService deletes share links, placements and
versions of a document in one transaction, and calls DocumentPlacementService when a document is
created or moved. The sweep writes the tables of news and of placements directly. All share one
database; there are no messages and no other process (`docs/deployment/documents-storage.md:34`:
"application remains single-replica"), which is why a process-wide mutex and local files are in
the models and a second server is not.

What the models share. Prisma transactions run READ COMMITTED: each statement sees what was
committed when it began, and UPDATE or FOR UPDATE waits for the row lock and looks at the row
again. So in every module a statement that reads what another request may change is a step of its
own; statements whose rows are already locked are merged with their COMMIT, because nobody can see
them earlier; single-statement operations are one step. Advisory locks, row locks, unique indexes
and foreign keys are modelled where an operation can wait for them or fail on them, and are
marked external in the map.

The properties of each component are named in section 3, and the places where each can go wrong in
`PROJECT.json` under `hazards`.

## 2. Modules

| module | models | correspondence |
|---|---|---|
| `AdminUsers` | UserService, UserGuard, SuperAdminGuard | `rows`, `superAdmins`, `active`, `deleted` are columns of `users` as sets; `login`, `owner`, `revoked` the sessions; `lock` the advisory lock; `read[r]` what request r read. AcquireLock, ReadTarget, CountOthers, WriteRows, Commit are the statements of updateAdminUser and deleteAdminUser |
| `Publication` | publication commands, public filters, sweep | `row[r]` holds the publication columns of an article or a placement; `pending` the uncommitted writes of the sweep, whose four statements are four actions |
| `ShareLinks` | DocumentShareLinksService, the link part of deleteDocument | statements of create, revoke, resolve and of the delete transaction; an UPDATE of many rows is Select then write, since it applies only to rows its snapshot contained; `Waits(r)` lists every lock a statement can wait for |
| `Documents` | createDocument, createVersion, makeCurrent, deleteDocument, LocalDocumentStorage | `versions`, `storedFiles` the rows, `files` and `quarantine` the directories; every await is a step; `createDocumentMutex` is `mutex`. A COMMIT of an upload (`LoseCommit`) or of a deletion (`LoseDelete`) may take effect and its answer be lost; restoring, purging and cleaning up may fail file by file. `MissingPhysicalFiles` and `UnreferencedPhysicalFiles` are the two counters of the reconciliation report the properties are about |
| `PageStore` | abstract specification of PagesService | every accepted change is one atomic step on one page, or on all |
| `Pages` | PagesService | three reads of getAdmin, editing on what was seen, reservePageRevision, lockRegistryLayouts row by row, commit; `ImplementsStore` is the refinement |
| `NewsMedia` | NewsMediaService, the cover part of createNews, updateNews, deleteNews | `rowId[k]` is the row of the image stored under key `k` (0: none), `files` the directory, `cover[a]` the key and foreign key of an article; upload, news operation, removal and cleanup pass each in their statements and file operations |
| `PagesBackfill` | `analyze` and `apply` of PagesBackfillService, with editors between them | `layouts`, `definitions`, `placements` the tables; each invocation reads them by three statements (`seenLayouts`, `seenPlacements`), keeps its `plan` and applies it in one step; an accepted edit, as `PageStore` promises it, is one step between |
| `Placements` | DocumentPlacementService, createDocument, updatePlacements, updateDocument, reorderPlacements, the placement part of deleteDocument | `order` maps a document and a section to `sort_order`; `request[r]` the rows a transaction has written and what it has still to do (`missing`, `extra`, `todo`) |
| `DocumentAccess` | DocumentAccessGuard, DocumentAccessPolicy, DOCUMENT_SECTIONS, the handlers of DocumentsController and DocumentPlacementsController that write | pure operators over an administrator (`super`, `mode`, `groups`) and a set of sections; `Placements` extends it |
| `LoginRateLimit` | AdminAuthRateLimitService under UserController.authenticate | `bucket[k]` the row of an address or credential key; each attempt reads it, counts in memory and writes it back in steps of its own; `now` is in ticks |
| `NewsCatalog` | the category operations of NewsService and the category of an article | `categories`, `articles` the rows, `lock` the advisory lock, `request[r]` what request r has read and is about to write |
| `Deployment` | `seed.ts`, `start-production.mjs`, SiteSettingsService; extends `NewsCatalog` | `todo` the statements the seed has still to run, `map` the category ids it has read, `settings`, `sections`, `pages`, `root` the other rows it fills |

`MC*` modules add only values of constants and symmetry. A `*Proofs` module extends the module it is named
after with its inductive invariant, lemmas and theorems (section 4).

Abstractions, by module:

* `AdminUsers`: passwords, e-mails (their uniqueness is one of the causes of Rollback), capabilities
  and names. The self-service profile update writes one row in one statement and touches none of the
  modelled columns. Init is any registry with an active super-administrator, as the seed leaves it.
* `Publication`: texts, slugs and revision counters. An administrator's write is one
  UPDATE, so a step; the time it stores is up to `MaxDelay` old, as `new Date()` is taken before. A
  placement of a document without a stored file cannot be published; the guard is dropped, so the
  model allows more. An article deleted between an edit's check and its UPDATE is left out: it is not
  shown to anyone again.
* `ShareLinks`: tokens are their row, so a collision is a choice of TokenCollision; the ARCHIVED status
  and the existence of the file only refuse more.
* `Documents`: names, MIME types, sizes and status. A storage key is chosen fresh, as the code's UUID
  is. `current_version_id` has a unique index, so its UPDATE waits for the foreign key locks of versions that
  others have inserted (`KeyLocked`); once it has the row, the rest of the transaction is one step with the COMMIT.
* `NewsMedia`: the reading and conversion of an image and the address it was imported from. Two passes of
  the cleanup may overlap in the module; the run has one, as passes start an hour apart.
* `PagesBackfill`: visibility and warnings; of the columns of a definition only whether they are still those
  of the registry or of its legacy row (`changed`); the sort keys of legacy rows are their rank. The column
  `section_definitions.revision`, which only the update of a global section asks for and counts
  (`pages.service.ts:275-287`), is left out: an apply rewrites a definition without counting it, so
  `ChangesAreCounted` is about the editors of a page, and an editor of a global section gets no conflict.
  `CustomEditsSurvive`, which no run checks, does not hold: an apply puts the text of a legacy row back
  over an edit, and brings a deleted legacy section back.
* `Placements`: publication (see `Publication`), and the column `documents.section_key`, which nothing reads.
  A replacement by no section at all is refused by the DTO (`ArrayNotEmpty`).
* `DocumentAccess`: a section stands for its group; the administrator of a request is the row that UserGuard
  has read, as in the code, so a change of rights counts from the next request on.
* `LoginRateLimit`: one address and one name per attempt, chosen at its start; the hash of a key is the key. The
  limiter switched off by the environment does nothing and is left out. A right password is a choice.
* `NewsCatalog`: titles, descriptions and visibility. A slug is a base and a suffix. The advisory lock and the
  statement after it are one step, since operations without the lock commute with taking it. Retries of an
  article's slug change nothing and are one refusal.
* `Deployment`: one seed at a time; `page_sections` has no unique index, so two at once could create a section
  twice. Publication columns of seeded articles belong to `Publication`; the account of `SUPER_ADMIN_EMAIL` is
  taken to be configured. A rerun brings deleted articles back and resets the settings, the titles and the
  positions of the seeded categories, which may leave ties: that is what the code does.
* `Pages`: the content of a section is the number of its revisions; the registry's system
  sections of a page are one definition. Rows and locks of a layout are all there.

## 3. Runs

| run | asks | result |
|---|---|---|
| `admin_users` | `LastSuperAdmin`: some active super-administrator always remains. `DeletedAreInactive`, `FieldsChangeOnlyOnRequest`: writing back a column that was read earlier undoes nobody. `OnlyLateSessionsSurvive`: which sessions outlive a deactivation | holds |
| `publication` | `SweepOverwritesNothing`, `SweepOnlyRelabels`, `LabelsAreConsistent` (no row is PUBLISHED before its time), and `SweepCatchesUp` (liveness) | holds |
| `publication_reveal` | `SweepRevealsNothing` | violated: an expired placement falls back to the status of its document |
| `share_links` | `OnlyNewestIsLive`, `NoDanglingLink`, `NoLateAccess`, `NoWaitCycle` | holds |
| `documents` | `FilesAreExplained`: the complete list of causes of missing files (`MissingFilesWereTaken`: a deletion holds, has purged or failed to restore the file, or the answer to the upload's COMMIT was lost) and of orphaned files (`OrphansAreExplained`: an upload under way, a deletion that passed the file over or put it back after a COMMIT whose answer was lost, a crash, a failed cleanup). `TablesAreConsistent`: version numbers have no gap (`NumbersAreGapless`), the current version is one of the document (`CurrentIsOwn`) | holds |
| `pages` | `EditsSeeThePage`, `SectionsAreComplete`, `OrdersAreDistinct`, `NoWaitCycle`, `ImplementsStore` | holds |
| `news_media` | `ImagesAreExplained`, `LiveCoversAreServed`: what a lost or orphaned image can come from. `CleanupCollects` (liveness): no unattached image stays | holds |
| `pages_backfill` | `RepeatedApplyIsNoOp`, `RegistryIsConsistent`, `ChangesAreCounted`, `EditorsSectionsStay`: an apply that nobody disturbed finds nothing the second time, no run loses a registry section, changed pages get a new revision, no plan rewrites a section that editors have created or moves a custom one | holds |
| `placements` | `ReordersDoNotMix`: of two reorders of a section one wins as a whole. `PlacementsAreConsistent`: equal positions come only from racing additions. `ScopesAreRespected`: an administrator restricted to groups neither takes a document out of other groups, nor puts it there, nor edits one of mixed scope, but for a change that came after the check. `ReplacementIsExact`: what an update of a document's sections leaves | holds |
| `login_rate_limit` | `CountsAreExact`: failures are lost only to attempts that overlap. `OverlapsAreBounded`: while the first window of a row runs, two logins that overlap get at most (m+1)(m+4)/2 failures through, where m+1 get through one after the other (m is the limit, and the block lasts at least a window). `BlockOutrunOnlyFromInside`: a block is lifted early only by an attempt that was inside when it was set | holds |
| `news_catalog` | `CatalogIsConsistent`: positions given under the lock are 0, 1, 2, ... `MovesExchangeNeighbours`. `CategoriesAreLostOnlyInRaces`: an article loses its category only on request, or to a deletion that had counted before the article came | holds |
| `seeds` | `SeedsAreConsistent`: a seed that ends undisturbed has filled everything and created nothing twice, whatever stopped seeds and editors had left | holds |

Every passing run also checks its module's `TypeOK`, by itself or as a part of a named invariant. The
violated property quotes a test of the repository (`PROJECT.json`, `findings`). Three other promises of
documents and tests do not hold either; they stay beside the properties that say what is true
instead, and TLC refutes each at once when its name is put into the cfg of its module:

* `DeactivationEndsSessions` (`AdminUsers`; `docs/plans/2026-07-16-simple-admin-permissions.md:47`): a login
  that passed the password check stores its session after the deactivation (`OnlyLateSessionsSurvive`).
* `UnpublishedIsHidden` (`Publication`; `test/news.e2e-spec.ts:104`): PATCH of `isPublished` leaves the
  publication status, and the article is served on.
* `NoMissingPhysicalFiles` (`Documents`; `test/documents.e2e-spec.ts:274`): delete counts the last
  reference to a file while an upload of the same content reuses it (`FilesAreExplained`).

Seen while modelling, and not refuting anything written down: `moveCategory` writes only the two rows it
exchanges (`news.service.ts:421`), so with gaps or ties in the stored positions a category can end up beside
its place, or not move; the routes' documentation calls the deletion of a category a deactivation. Two
replacements of the placements of one document, each removing what the other keeps, leave it in no
section; `assertCanManage` then refuses everybody, and only another replacement helps.

### Bounds, and why they are enough

* `admin_users`: 3 accounts (two rivals and a bystander), 2 requests (every conflict is between a
  holder of the lock and one other), 2 logins. Request bodies change one field or none
  (`MCDtos`): two fields are written by the same UPDATE. A login is served once, so a session is
  an identity; Requests are reused without limit.
* `publication`: one article, one document with one placement; instants 0..2 put a boundary before,
  at and after; writes are up to one instant late; one sweep is rolled back. Rows do not
  influence each other, except a placement and its document.
* `share_links`: two versions of one document, 3 links, 3 requests (create, create, revoke or delete at
  once), 3 attempts as in the code (`MAX_TOKEN_ATTEMPTS`).
* `documents`: 2 documents, 2 contents, 2 storage keys, 2 requests, 1 fault (a crash or a lost COMMIT; failures
  of operations on files are not counted); enough for a document to share a file with another and for its
  replacement (1,461,203 states).
* `pages`: 2 pages, 2 custom definitions, 2 editors; a page is edited up to revision 2 (`MaxRevision`
  bounds what is opened for editing, not what commits).
* `news_media`: one image, one article, 2 requests, one cleanup pass, 2 rows given to the key, one fault. Beside
  it were checked, without faults, two images (3,127,674 states) and two overlapping passes (2,417,324).
* `pages_backfill`: 3 invocations that overlap at will, a page with two system sections, a legacy section and
  an obsolete one, and a page without contacts; revisions up to 2, 6 definitions (482,071 states). The tables
  start as the seed leaves them or as an earlier release did, with one system section and the obsolete one.
* `placements`: 2 documents, a section seen by a restricted administrator and one hidden from it, 2 requests,
  a super-administrator and one restricted to the group of the first section,
  forms of one and of two sections, positions up to 1 (449,345 states).
* `login_rate_limit`: 2 attempts, reused without limit, of one address and name; a limit of 2, a window and a block of 2
  ticks and a clock up to 3, so that both end within the run (1,044,191 states). The bound of
  `OverlapsAreBounded` is reached.
* `news_catalog`: 2 requests, 3 rows of categories, 3 suffixes, 1 article; a rename may take the slug a creation is
  about to use (2,227,233 states).
* `seeds`: a category, an article in it, a section with its parent, a page section; one request beside the seed,
  2 rows of categories (713,668 states). Statements of one loop do the same to different rows.

`CHECK_DEADLOCK FALSE`: all runs consume bounded things (logins, links, ids, keys, instants,
revisions), so the models stop when these are used up; that is no stop of the program. That
requests do not block each other is `NoWaitCycle` in `ShareLinks` and `Pages`.

### Fairness

Two modules state fairness. `Publication`: `WF_vars(SweepStep)`. Cron starts a sweep every minute,
the database serves its statements, and no step of a sweep waits for an administrator, whose writes are
single statements. Rollbacks are finite (`MaxFaults`), no other action is assumed to
happen, in particular the clock may stop.

`NewsMedia`: weak fairness of the steps of a cleanup pass, which cron starts every hour and at boot.
No step of it waits for a request. The liveness run has one pass at a time: two could set
each other's mark aside, and an hour separates them.

## 4. Proofs

All theorems hold for every value of the constants that satisfies the named assumptions: `None` is not an
id, a row or a number; pages are finitely many numbers; a version has a document; sections, documents and
concurrent logins are finitely many, and there is a section; the limits of the login are positive; the literals of
the seed name nothing twice and file every article under one of their categories. The bounds
that TLC needs (clock, faults, revisions, ids) are arbitrary naturals there, with room for the three
legacy rows of the backfill. No invariant of a run
is inductive by itself; each module adds what a request that has read something still knows when it uses it.

* `AuthProofs`. `IInv` adds to the properties `TxInv`: a request past AcquireLock holds the lock,
  what it has read of its target is still what the row says, and once it has counted, another active
  super-administrator exists. `LastSuperAdmin` alone is not inductive: a Commit could deactivate the last one
  if the count could have become stale; `TxInv` says the lock forbids that. `OnlyLateSessions` adds to it what
  a login knows between its password check and the INSERT of its session.
  The module also holds the theorems of `LoginRateLimit` (invariant `LimiterInv`), whose names differ from those
  of `AdminUsers`: `Counts` and `BlocksHold` need only what an attempt was let in for (`AttemptInv`,
  `InsideInv`). `Overlaps` is a potential argument: `Worst(u, v)` is the number of failures that two attempts
  can still add that work on a row with the counts u and v, the older of which may be
  written back; with what has been counted it never exceeds the value at the start (`BoundInv`), because a
  write-back of an old count uses that count up. It is proved for every limit; the run has one.
* `PublicationProofs`. Four statements lie between the reading of a row by the sweep and its commit. `PendingInv`
  says what survives: a pending row is what Expire or Activate makes of the committed one, since its
  row lock keeps commands away, and the clock of the sweep is never ahead. Hence `Labels`, and the
  two action properties `OverwritesNothing` and `OnlyRelabels`. The module also holds the theorems of `NewsMedia`
  (`Images`, `LiveCovers`), whose names differ from those of `Publication`: no removal meets a use of an image
  unless `overtaken` says so, so what an upload, an edit of an article, a removal or a pass has
  read of an image still holds when it acts on it (`RequestOK`, `CleanerOK`). A row whose file is gone is
  marked, and the pass of the mark will drop it; a file without a row belongs to a request about to insert the
  row or to remove the file (`TableOK`). Any number of passes may overlap there; the run has one.
* `ShareLinksProofs`. `OnlyNewestIsLive` needs to know what each transaction knows of the
  links: a creator that holds the advisory lock and has selected the live links has selected all of
  them, and nobody else inserts one. The invariant states per request what its `selected` and
  `touched` links are in each state. Corollary `OneLiveLink`: at most one live link per document.
  `NoCycle` needs no order of the requests: locks are held only late in a transaction (`HoldInv`), and step by
  step none of the states in which a request waits can be the last one.
* `DocumentsProofs`. `Tables` rests on `NumberInv`: a request that has read MAX(number) + 1 acts on it later, and
  meanwhile all lower numbers are there as long as the document is, and nobody takes the number of an open
  insert. `Files` proves that the lists of causes are complete: the key of a file that is being written is its
  writer's alone (`FreshInv`), what a deletion has moved away is in the store no more (`MovedInv`), and
  nothing is stored or moved that is neither referenced, leaked nor being written (`StrayInv`). A deletion
  whose COMMIT was lost holds keys of versions that are gone; they count as leaked from the COMMIT on, before
  the first of their files is put back.
* `PagesProofs`. `ViewInv` is the core: from the first read on, if the page's revision is still the one that was
  read, the sections that were read are the page's sections. It holds because every commit that changes a
  page counts its revision; with the row lock it gives `EditsSeeThePage`, and with `SectionsAreComplete`,
  `OrdersAreDistinct` the refinement `PagesImplementStore`. Positions use `Max` of a set:
  lemmas `Least`, `MaxOfBounded` and `NextPositionIsLast` show, without induction over
  data, that the next position is larger than all. `NoCycle`: layouts are locked in the order of their keys
  (`OrderInv`), so whoever holds the last one that is locked waits for nobody.
* `NewsCatalogProofs`. While positions are only given under the advisory lock, the number of a new category is
  the count of the others (`CreateInv`) and the i-th category of a list that `moveCategory` has read is at
  position i - 1 (`ListInv`); hence `Catalog` (positions are 0, 1, 2, ...) and `ExchangeNeighbours`. For
  `LostOnlyInRaces` an article that is filed under a category after its articles were counted is one that the
  deletion notes (`FiledInv`). The module also holds the theorem of `Deployment` (`Seeds`), which extends
  `NewsCatalog`: everything the seed fills is there or among the statements it has still to run (`Progress`), and
  those keep the order of `main()` (`OrderInv`), so that a parent is there before its child is linked, the
  categories before their ids are read, and these before the articles. A disturbance by
  an editor ends the claim, and a rerun restores it from any state.
* `PlacementsProofs`. Without an advisory lock everything rests on row locks: no row is held twice (`RowsInv`), so
  what a reorder has written is still there when it commits (`PairsInv`), and nobody adds a placement of a
  document that is being deleted (`RefsInv`). `Sound` says of each call what it still knows of the tables as
  far as no other commit has touched them: its position is behind all others (`TieOK`), its missing
  and extra sections are the difference to what it wants (`ReplaceOK`, `UpdateOK`).
* `PagesBackfillProofs`. An invocation reads by three statements and applies later what it concluded. `SeenOK` and
  `PlanOK` say what remains true of a reading or a plan however old it is: no id and no key is used for
  anything else later, layouts are never removed, and a section of the registry stays where it is. This is enough
  for the consistency of the rows (`RowsInv`, `Repairs`), for `Notices` and for `Spares`. `FreshSeen`, `FreshPlan`
  and `Complete` say more of a run that no editor disturbed: its plan differs from the tables only in what other
  runs have put right themselves, so after its apply nothing of the registry is missing, wrong or out of place
  (`Whole`), and an analysis finds nothing to do (`Idempotent`). It assumes that the keys of the registry are none
  of the legacy keys, which have a prefix of their own.

What stays with TLC. `SweepCatchesUp` and `CleanupCollects` are liveness properties under fairness, which the
prover does not reach; every other property of a passing run is a theorem. Lock waiting in
`NoWaitCycle` (`ShareLinks`, `Pages`) is stated by the locks that a request waits for and not by `ENABLED`, so
that it can be proved. A row is one lock in both modules, and a statement of several rows takes them at once.

## 5. Plan

Done first, because data would be lost or become public: accounts, publication, links, documents, pages;
then images of news, the backfill of pages, placements; then categories, the login limit, access to
documents, seed and settings. Then the proofs, of every module whose safety the others
build on, which now state every safety and action property of the runs.

Not modelled: DTO validation, Swagger, configuration, mappers, file policies and the capability guards
(stateless, unit-tested), the remote fetcher (network I/O of one request), the listings (reads),
migrations and scripts run by hand while nothing is served.
