----------------------------- MODULE Deployment -----------------------------
(***************************************************************************)
(* The seed (prisma/seed.ts, prisma/seed.helpers.ts) against the catalog   *)
(* it fills.  start-production.mjs runs it before the service serves, when *)
(* RUN_SEED_ON_BOOT asks for it, and an operator may run it while the      *)
(* service serves.  It is a sequence of single statements without a        *)
(* transaction: it may stop after any of them and is then run again from   *)
(* the start.                                                              *)
(***************************************************************************)
EXTENDS NewsCatalog

CONSTANTS
    SeedCategories,  \* newsCategories: a sequence of slugs
    SeedArticles,    \* newsSeedItems: article and slug of its category
    Sections,        \* sections with a parentSectionId: child and parent
    LegacySections   \* system keys of the pages of seedPageLayouts

\* The literals of seed.helpers.ts: no category, article or child twice, and
\* every article under one of the categories.
ASSUME SeedAssumption ==
    /\ SeedCategories \in Seq(Bases)
    /\ \A i, j \in DOMAIN SeedCategories : SeedCategories[i] = SeedCategories[j] => i = j
    /\ SeedArticles \in Seq([article : Articles, category : Bases])
    /\ \A i, j \in DOMAIN SeedArticles : SeedArticles[i].article = SeedArticles[j].article => i = j
    /\ \A i \in DOMAIN SeedArticles :
          \E j \in DOMAIN SeedCategories : SeedCategories[j] = SeedArticles[i].category
    /\ IsFiniteSet(Sections) /\ IsFiniteSet(LegacySections)
    /\ \A p, q \in Sections : p.child = q.child => p = q

VARIABLES
    serving,    \* the service answers requests
    todo,       \* statements the seed has still to run
    map,        \* categoriesBySlug: the ids read before the articles
    sections,   \* sections[k]: "absent", "present" or "linked" to its parent
    settings,   \* the row of site_settings: "absent", "default" or "edited"
    pages,      \* pages[k]: rows of page_sections with system key k
    root,       \* the account of SUPER_ADMIN_EMAIL: "absent", "plain" or "super"
    outcome     \* history: "running" or "complete" while nobody interfered

otherVars == <<sections, settings, pages, root>>
allVars == <<vars, serving, todo, map, otherVars, outcome>>

Statement(table, S) == SetToSeq([table : {table}, key : S])

SectionKeys == UNION {{p.child, p.parent} : p \in Sections}
Children == {p.child : p \in Sections}

\* The statements of main() in order.
SeedPlan ==
    Statement("section", SectionKeys) \o Statement("link", Children)
    \o <<[table |-> "settings"]>> \o Statement("page", LegacySections)
    \o [i \in DOMAIN SeedCategories |-> [table |-> "category", key |-> i]]
    \o <<[table |-> "map"]>>
    \o [i \in DOMAIN SeedArticles |-> [table |-> "article", key |-> i]]
    \o <<[table |-> "root"]>>

DeploymentTypeOK ==
    /\ TypeOK
    /\ serving \in BOOLEAN
    /\ \A i \in DOMAIN todo : todo[i].table \in {"section", "link", "settings", "page",
           "createPage", "category", "map", "article", "root", "createRoot"}
    /\ map \in [Slugs -> Ids \cup {None}]
    /\ sections \in [SectionKeys -> {"absent", "present", "linked"}]
    /\ settings \in {"absent", "default", "edited"}
    /\ pages \in [LegacySections -> Nat]
    /\ root \in {"absent", "plain", "super"}
    /\ outcome \in {"running", "complete", "other"}

NoMap == [s \in Slugs |-> None]

\* An empty database, about to be served or seeded.
DeploymentInit ==
    /\ Init
    /\ serving = FALSE /\ todo = <<>> /\ map = NoMap
    /\ sections = [k \in SectionKeys |-> "absent"]
    /\ settings = "absent"
    /\ pages = [k \in LegacySections |-> 0]
    /\ root = "absent"
    /\ outcome = "other"

-----------------------------------------------------------------------------

Seeding == todo # <<>>
Current == Head(todo)

\* The last statement of a boot starts the service.
Proceed(rest) ==
    /\ todo' = rest
    /\ serving' = (serving \/ rest = <<>>)
    /\ outcome' = IF rest = <<>> /\ outcome = "running" THEN "complete" ELSE outcome

Done == Proceed(Tail(todo))

StartSeed ==
    /\ ~Seeding
    /\ todo' = SeedPlan
    /\ map' = NoMap
    /\ outcome' = "running"
    /\ UNCHANGED <<vars, serving, otherVars>>

\* A boot without RUN_SEED_ON_BOOT.
Serve ==
    /\ ~serving /\ ~Seeding
    /\ serving' = TRUE
    /\ UNCHANGED <<vars, todo, map, otherVars, outcome>>

\* The seed stops: a failed statement, a lost connection, the end of its process.
StopSeed ==
    /\ Seeding
    /\ todo' = <<>> /\ map' = NoMap
    /\ outcome' = "other"
    /\ UNCHANGED <<vars, serving, otherVars>>

StopService ==
    /\ serving /\ ~Seeding
    /\ serving' = FALSE
    /\ Restart
    /\ UNCHANGED <<todo, map, otherVars, outcome>>

-----------------------------------------------------------------------------
(* seedSections, seedSiteSettings, seedPageLayouts, seedSuperAdminSafe *)

SeedSection ==
    /\ Seeding /\ Current.table = "section"
    /\ sections' = [sections EXCEPT ![Current.key] = IF @ = "absent" THEN "present" ELSE @]
    /\ Done
    /\ UNCHANGED <<vars, map, settings, pages, root>>

\* The parent is looked up and the child updated; nobody else writes sections.
LinkSection ==
    LET parent == (CHOOSE p \in Sections : p.child = Current.key).parent IN
    /\ Seeding /\ Current.table = "link"
    /\ sections' = IF sections[parent] = "absent" THEN sections
                   ELSE [sections EXCEPT ![Current.key] = "linked"]
    /\ Done
    /\ UNCHANGED <<vars, map, settings, pages, root>>

\* The upsert also resets what an administrator has edited.
SeedSettings ==
    /\ Seeding /\ Current.table = "settings"
    /\ settings' = "default"
    /\ Done
    /\ UNCHANGED <<vars, map, sections, pages, root>>

\* Mutation of FindPage: a section is created without looking for it.
FindPage_Unseen ==
    /\ Seeding /\ Current.table = "page"
    /\ Proceed(<<[Current EXCEPT !.table = "createPage"]>> \o Tail(todo))
    /\ UNCHANGED <<vars, map, otherVars>>

FindPage ==
    /\ Seeding /\ Current.table = "page"
    /\ IF pages[Current.key] > 0 THEN Done
       ELSE Proceed(<<[Current EXCEPT !.table = "createPage"]>> \o Tail(todo))
    /\ UNCHANGED <<vars, map, otherVars>>

CreatePage ==
    /\ Seeding /\ Current.table = "createPage"
    /\ pages' = [pages EXCEPT ![Current.key] = @ + 1]
    /\ Done
    /\ UNCHANGED <<vars, map, sections, settings, root>>

FindRoot ==
    /\ Seeding /\ Current.table = "root"
    /\ IF root = "absent"
       THEN Proceed(<<[table |-> "createRoot"]>>) /\ UNCHANGED root
       ELSE Done /\ root' = "super"
    /\ UNCHANGED <<vars, map, sections, settings, pages>>

CreateRoot ==
    /\ Seeding /\ Current.table = "createRoot"
    /\ root' = "super"
    /\ Done
    /\ UNCHANGED <<vars, map, sections, settings, pages>>

-----------------------------------------------------------------------------
(* seedNewsCategories, seedNews *)

Seeded(base) == <<base, 1>>
WithSlug(slug) == {c \in Existing : categories[c].slug = slug}

\* Upsert by slug: title, order and is_active become those of the seed.
SeedCategory ==
    LET slug == Seeded(SeedCategories[Current.key])
        order == Current.key - 1
    IN /\ Seeding /\ Current.table = "category"
       /\ IF Taken(slug)
          THEN /\ categories' = [c \in Ids |-> IF c \in WithSlug(slug)
                                              THEN [categories[c] EXCEPT !.order = order]
                                              ELSE categories[c]]
               /\ UNCHANGED issued
          ELSE Add(slug, order)
       /\ Loosen /\ Done
       /\ UNCHANGED <<articles, lock, request, map, otherVars>>

ReadMap ==
    /\ Seeding /\ Current.table = "map"
    /\ map' = [s \in Slugs |->
                  IF Taken(s) THEN CHOOSE c \in WithSlug(s) : TRUE ELSE None]
    /\ Done
    /\ UNCHANGED <<vars, otherVars>>

\* Upsert by slug; an article that was deleted comes back.  The foreign key
\* fails, and with it the seed (StopSeed), if the category has gone.
SeedArticle ==
    LET item == SeedArticles[Current.key]
        c == map[Seeded(item.category)]
    IN /\ Seeding /\ Current.table = "article"
       /\ c = None \/ c \in Existing
       /\ File(item.article, [category |-> c, deleted |-> FALSE], request)
       /\ Done
       /\ UNCHANGED <<map, otherVars>>

SeedStep ==
    \/ SeedSection \/ LinkSection \/ SeedSettings \/ FindPage \/ CreatePage
    \/ SeedCategory \/ ReadMap \/ SeedArticle \/ FindRoot \/ CreateRoot

-----------------------------------------------------------------------------

Serving(changed) ==
    /\ serving
    /\ outcome' = IF changed THEN "other" ELSE outcome
    /\ UNCHANGED <<serving, todo, map>>

ServeCatalog ==
    /\ CatalogStep
    /\ Serving(catalogVars' # catalogVars)
    /\ UNCHANGED otherVars

\* SiteSettingsService: one upsert; a read creates the row of defaults.
UpdateSettings ==
    /\ settings' = "edited"
    /\ Serving(TRUE)
    /\ UNCHANGED <<vars, sections, pages, root>>

GetSettings ==
    /\ settings = "absent" /\ settings' = "default"
    /\ Serving(FALSE)
    /\ UNCHANGED <<vars, sections, pages, root>>

\* Another super-administrator takes the rights of the account (AdminUsers).
Demote ==
    /\ root = "super" /\ root' = "plain"
    /\ Serving(TRUE)
    /\ UNCHANGED <<vars, sections, settings, pages>>

DeploymentNext ==
    \/ StartSeed \/ Serve \/ StopSeed \/ StopService \/ SeedStep
    \/ ServeCatalog \/ UpdateSettings \/ GetSettings \/ Demote

DeploymentSpec == DeploymentInit /\ [][DeploymentNext]_allVars

-----------------------------------------------------------------------------
(* Properties *)

\* A seed that ran to its end while nobody changed what it writes has filled
\* everything, whatever an earlier seed that stopped, or an editor, had left:
\* each seeded category is at its place, each seeded article is live and filed,
\* sections are linked, no page has a section twice.
CompletedSeedIsWhole ==
    outcome = "complete" =>
        /\ \A i \in DOMAIN SeedCategories : \E c \in Existing :
               categories[c] = [slug |-> Seeded(SeedCategories[i]), order |-> i - 1]
        /\ \A i \in DOMAIN SeedArticles :
               LET a == SeedArticles[i].article IN
               /\ Live(a) /\ articles[a].category # None
               /\ categories[articles[a].category].slug = Seeded(SeedArticles[i].category)
        /\ \A k \in Children : sections[k] = "linked"
        /\ \A k \in LegacySections : pages[k] = 1
        /\ settings = "default" /\ root = "super"

SeedsAreConsistent == DeploymentTypeOK /\ CompletedSeedIsWhole
=============================================================================
