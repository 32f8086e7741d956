---------------------------- MODULE ItemsCatalog ----------------------------
(***************************************************************************)
(* The items catalog (crates/gw2api/src/download.rs): first install with   *)
(* its resumable items.partial, incremental refresh after a game patch,    *)
(* the one-off backfill of food and utility items, and the build number    *)
(* that tells the player the data is current.                              *)
(*                                                                         *)
(* A row's version is the build that last changed it; version 0 is no row. *)
(* A bulk request carries one id.  A save replaces a file whole (temporary *)
(* file and rename).                                                       *)
(***************************************************************************)
EXTENDS Naturals, FiniteSets

CONSTANTS
    Ids,          \* item ids the API can list
    Gear,         \* the ids item_is_kept keeps for their type and rarity
    Food,         \* the ids it keeps as food or utility
    MaxBuild,     \* bound: the last game build
    MaxSkips,     \* bound: ids the API keeps refusing with 5xx
    MaxAbandons,  \* bound: downloads that fail, are cancelled or die
    MaxMishaps    \* bound: kinds of mishaps in one history

(* An item has one type. *)
ASSUME IdsAssumption == Gear \subseteq Ids /\ Food \subseteq Ids /\ Gear \cap Food = {}
ASSUME BuildAssumption == MaxBuild \in Nat \ {0}

VARIABLES
    build,     \* /v2/build
    live,      \* the API's items: id -> version
    seen,      \* history: the ids that were ever live
    items,     \* items.json
    ids,       \* items.ids, the ids listed at the last refresh
    partial,   \* items.partial
    skipped,   \* items.skipped
    claimed,   \* config.cache_build_number, 0 when there is none
    phase,     \* where the download is
    job,       \* what it holds in memory
    skips,     \* how many ids were refused
    abandons,  \* how many downloads did not finish
    mishaps    \* history: what has happened, of:
               \*   "drift"   a patch over an unfinished install
               \*   "return"  a patch brings a removed item back
               \*   "food"    a patch adds food
               \*   "unlisted" a patch adds gear to a cache without items.ids
               \*   "tear"    an install dies before its items.ids
               \*   "clear"   Clear Cache cannot delete every file
               \*   "skip"    an id is refused with 5xx

disk == <<items, ids, partial, skipped>>
bounds == <<skips, abandons, mishaps>>
vars == <<build, live, seen, items, ids, partial, skipped, claimed, phase, job, skips, abandons,
          mishaps>>

(* These mishaps happen in this step, if they are any. *)
Meets(set) ==
    /\ mishaps' = mishaps \cup set
    /\ Cardinality(mishaps') <= MaxMishaps

Kept == Gear \cup Food
NoRows == [id \in Ids |-> 0]
Present(rows) == {id \in Ids : rows[id] # 0}
Only(rows, set) == [id \in Ids |-> IF id \in set THEN rows[id] ELSE 0]

NoItems == [some |-> FALSE, build |-> 0, rows |-> NoRows]
NoIds == [some |-> FALSE, listed |-> {}]
NoPartial == [some |-> FALSE, done |-> {}, got |-> NoRows, miss |-> {}]
NoJob == [kind |-> "none", build |-> 0, listed |-> {}, todo |-> {}, done |-> {},
          got |-> NoRows, miss |-> {}]

(* Nothing yet, or the cache of an older version of the addon: from before *)
(* food was kept, and perhaps from before there was an id list.            *)
Init ==
    /\ build = 1
    /\ live \in [Ids -> {0, 1}] /\ seen = Present(live)
    /\ \/ items = NoItems /\ ids = NoIds
       \/ /\ \E b \in {0, 1} : items = [some |-> TRUE, build |-> b, rows |-> Only(live, Gear)]
          /\ ids \in {NoIds, [some |-> TRUE, listed |-> Present(live)]}
    /\ partial = NoPartial /\ skipped = {}
    /\ claimed = 0
    /\ phase = "idle" /\ job = NoJob
    /\ skips = 0 /\ abandons = 0 /\ mishaps = {}

-----------------------------------------------------------------------------
(* The game and the player *)

(* Between the first two writes of an install. *)
Torn == phase = "ids" /\ job.kind = "install"

(* A new build changes, adds and removes items. *)
Patch ==
    /\ build < MaxBuild
    /\ build' = build + 1
    /\ live' \in [Ids -> 0 .. build']
    /\ \A id \in Ids : live'[id] \in {live[id], 0, build'}
    /\ LET new == Present(live') \ Present(live)
       IN Meets({m \in {"drift", "return", "food", "unlisted"} :
                   \/ m = "drift" /\ partial.some /\ ~items.some
                   \/ m = "return" /\ new \cap seen # {}
                   \/ m = "food" /\ new \cap Food # {}
                   \/ m = "unlisted" /\ items.some /\ ~ids.some /\ ~Torn /\ new \cap Gear # {}})
    /\ seen' = seen \cup Present(live')
    /\ UNCHANGED <<disk, claimed, phase, job, skips, abandons>>

(* Clear Cache, which may fail on some of the files and then changes       *)
(* nothing else.                                                           *)
ClearCache ==
    /\ phase = "idle"
    /\ \E left \in SUBSET {"items", "ids", "partial", "skipped"} :
         /\ Meets(IF left # {} THEN {"clear"} ELSE {})
         /\ items' = IF "items" \in left THEN items ELSE NoItems
         /\ ids' = IF "ids" \in left THEN ids ELSE NoIds
         /\ partial' = IF "partial" \in left THEN partial ELSE NoPartial
         /\ skipped' = IF "skipped" \in left THEN skipped ELSE {}
         /\ claimed' = IF left = {} THEN 0 ELSE claimed
    /\ UNCHANGED <<build, live, seen, phase, job, skips, abandons>>

(* download_steps begins with the live build number. *)
StartDownload ==
    /\ phase = "idle"
    /\ phase' = "list"
    /\ job' = [NoJob EXCEPT !.build = build]
    /\ UNCHANGED <<build, live, seen, disk, claimed, bounds>>

(* An error, a Stop or the end of the process.                             *)
Abandon ==
    /\ phase # "idle"
    /\ abandons < MaxAbandons
    /\ Meets(IF Torn THEN {"tear"} ELSE {})
    /\ abandons' = abandons + 1
    /\ phase' = "idle" /\ job' = NoJob
    /\ UNCHANGED <<build, live, seen, disk, claimed, skips>>

-----------------------------------------------------------------------------
(* The items step *)

(* DataCache::is_stale: missing, empty, or of another build. *)
Stale == ~items.some \/ Present(items.rows) = {} \/ items.build # job.build

SkipItems ==
    /\ phase = "list"
    /\ ~Stale
    /\ phase' = "food"
    /\ UNCHANGED <<build, live, seen, disk, claimed, job, bounds>>

(* Mutant: an install always starts from nothing. *)
LoadOrNewPartialFresh == NoPartial

LoadOrNewPartial == partial

(* install_items: what an earlier install fetched is not fetched again.    *)
ListInstall ==
    /\ phase = "list"
    /\ ~items.some
    /\ LET p == LoadOrNewPartial
           listed == Present(live)
       IN job' = [job EXCEPT !.kind = "install", !.listed = listed,
                             !.todo = listed \ p.done, !.done = p.done,
                             !.got = Only(p.got, listed), !.miss = p.miss]
    /\ phase' = "fetch"
    /\ UNCHANGED <<build, live, seen, disk, claimed, bounds>>

(* Mutant: only the new ids are fetched. *)
RefreshIdsNew(listed, previous, cached) == listed \ previous

(* items_refresh_fetch_ids: what is new, and what is cached. *)
RefreshIds(listed, previous, cached) == (listed \ previous) \cup (cached \cap listed)

(* refresh_items; without an id list everything listed counts as seen.     *)
ListRefresh ==
    /\ phase = "list"
    /\ items.some /\ Stale
    /\ LET listed == Present(live)
           previous == IF ids.some THEN ids.listed ELSE listed
       IN job' = [job EXCEPT !.kind = "refresh", !.listed = listed,
                             !.todo = RefreshIds(listed, previous, Present(items.rows))]
    /\ phase' = "fetch"
    /\ UNCHANGED <<build, live, seen, disk, claimed, bounds>>

(* Mutant: item_is_kept lets everything through. *)
KeptRowAny(id) == live[id]

(* The row as it is kept: item_is_kept drops what the optimizer never uses. *)
KeptRow(id) == IF id \in (IF phase = "walk" THEN Food ELSE Kept) THEN live[id] ELSE 0

(* Mutant: an id without an answer stays on the list. *)
AnsweredRowOnly(id, row) ==
    [job EXCEPT !.todo = IF live[id] = 0 THEN @ ELSE @ \ {id}, !.done = @ \cup {id}, !.got[id] = row]

Answered(id, row) == [job EXCEPT !.todo = @ \ {id}, !.done = @ \cup {id}, !.got[id] = row]

(* One bulk request: the row as it is now, or an id skipped for its 5xx.   *)
(* An install saves its partial after every request.                       *)
Fetch(id) ==
    /\ phase \in {"fetch", "walk"}
    /\ id \in job.todo
    /\ \/ job' = Answered(id, KeptRow(id)) /\ UNCHANGED <<skips, mishaps>>
       \/ /\ skips < MaxSkips
          /\ skips' = skips + 1
          /\ Meets({"skip"})
          /\ job' = [Answered(id, 0) EXCEPT !.miss = @ \cup {id}]
    /\ partial' = IF phase = "fetch" /\ job.kind = "install"
                    THEN [some |-> TRUE, done |-> job'.done, got |-> job'.got, miss |-> job'.miss]
                    ELSE partial
    /\ UNCHANGED <<build, live, seen, items, ids, skipped, claimed, phase, abandons>>

(* finish_items_install, first of its four writes. *)
SaveInstall ==
    /\ phase = "fetch" /\ job.kind = "install" /\ job.todo = {}
    /\ items' = [some |-> TRUE, build |-> job.build, rows |-> Only(job.got, job.listed)]
    /\ phase' = "ids"
    /\ UNCHANGED <<build, live, seen, ids, partial, skipped, claimed, job, bounds>>

(* Mutant: a cached row without an answer is dropped. *)
MergeKeptDrops(old) == Only(job.got, job.listed)

(* merge_kept_items: an answer replaces the row, no answer keeps it, and   *)
(* what is not listed goes.                                                *)
MergeKept(old) ==
    [id \in Ids |-> IF id \notin job.listed THEN 0
                    ELSE IF job.got[id] # 0 THEN job.got[id] ELSE old[id]]

(* save_or_stamp: with or without a change the file carries the new build. *)
SaveRefresh ==
    /\ phase = "fetch" /\ job.kind = "refresh" /\ job.todo = {}
    /\ items' = [some |-> TRUE, build |-> job.build, rows |-> MergeKept(items.rows)]
    /\ phase' = "skipped"
    /\ UNCHANGED <<build, live, seen, ids, partial, skipped, claimed, job, bounds>>

SaveIds ==
    /\ phase = "ids"
    /\ ids' = [some |-> TRUE, listed |-> job.listed]
    /\ phase' = IF job.kind = "install" THEN "skipped" ELSE "food"
    /\ UNCHANGED <<build, live, seen, items, partial, skipped, claimed, job, bounds>>

SaveSkipped ==
    /\ phase = "skipped"
    /\ skipped' = job.miss
    /\ phase' = IF job.kind = "install" THEN "drop" ELSE "ids"
    /\ UNCHANGED <<build, live, seen, items, ids, partial, claimed, job, bounds>>

DropPartial ==
    /\ phase = "drop"
    /\ partial' = NoPartial
    /\ phase' = "done"
    /\ UNCHANGED <<build, live, seen, items, ids, skipped, claimed, job, bounds>>

-----------------------------------------------------------------------------
(* backfill_consumables *)

FoodKept ==
    /\ phase = "food"
    /\ Present(items.rows) \cap Food # {}
    /\ phase' = "done"
    /\ UNCHANGED <<build, live, seen, disk, claimed, job, bounds>>

FoodWalk ==
    /\ phase = "food"
    /\ Present(items.rows) \cap Food = {}
    /\ job' = [NoJob EXCEPT !.build = job.build, !.todo = Present(live) \ Present(items.rows)]
    /\ phase' = "walk"
    /\ UNCHANGED <<build, live, seen, disk, claimed, bounds>>

(* The rows are appended under the build the file already had. *)
SaveFood ==
    /\ phase = "walk" /\ job.todo = {}
    /\ items' = [items EXCEPT !.rows = [id \in Ids |-> IF job.got[id] # 0 THEN job.got[id] ELSE @[id]]]
    /\ phase' = "done"
    /\ UNCHANGED <<build, live, seen, ids, partial, skipped, claimed, job, bounds>>

(* The build number the player is shown. *)
Complete ==
    /\ phase = "done"
    /\ claimed' = job.build
    /\ phase' = "idle" /\ job' = NoJob
    /\ UNCHANGED <<build, live, seen, disk, bounds>>

-----------------------------------------------------------------------------

Download ==
    \/ SkipItems \/ ListInstall \/ ListRefresh
    \/ \E id \in Ids : Fetch(id)
    \/ SaveInstall \/ SaveRefresh \/ SaveIds \/ SaveSkipped \/ DropPartial
    \/ FoodKept \/ FoodWalk \/ SaveFood \/ Complete

Next == Patch \/ ClearCache \/ StartDownload \/ Abandon \/ Download

Spec == Init /\ [][Next]_vars

(* A started download goes on by itself; the player asks for a refresh     *)
(* while the banner says the data is of another build.                     *)
FairSpec == Spec /\ WF_vars(Download) /\ WF_vars(StartDownload)

-----------------------------------------------------------------------------
(* Correctness *)

Rows == {rows \in [Ids -> 0 .. MaxBuild] : Present(rows) \subseteq Kept}

TypeOK ==
    /\ build \in 1 .. MaxBuild
    /\ live \in [Ids -> 0 .. MaxBuild]
    /\ Present(live) \subseteq seen /\ seen \subseteq Ids
    /\ items \in [some : BOOLEAN, build : 0 .. MaxBuild, rows : Rows]
    /\ ids \in [some : BOOLEAN, listed : SUBSET Ids]
    /\ partial \in [some : BOOLEAN, done : SUBSET Ids, got : Rows, miss : SUBSET Ids]
    /\ skipped \subseteq Ids
    /\ claimed \in 0 .. MaxBuild
    /\ phase \in {"idle", "list", "fetch", "ids", "skipped", "drop", "food", "walk", "done"}
    /\ job \in [kind : {"none", "install", "refresh"}, build : 0 .. MaxBuild,
                listed : SUBSET Ids, todo : SUBSET Ids, done : SUBSET Ids,
                got : Rows, miss : SUBSET Ids]
    /\ phase = "walk" => Present(job.got) \subseteq Food
    /\ skips \in Nat /\ abandons \in Nat
    /\ mishaps \subseteq {"drift", "return", "food", "unlisted", "tear", "clear", "skip"}

Current == phase = "idle" /\ claimed = build

(* The mishaps after which a current catalog still lacks nothing, and      *)
(* those after which nothing in it is out of date.                         *)
CompleteDespite == {"drift"}
FreshDespite == {"return", "food", "unlisted", "tear"}

(* What the player is told is current lacks no item he could wear or eat,  *)
(* and no row of it is out of date or gone from the game, through          *)
(* installs, resumes, patches, refreshes and the backfill.  It is claimed  *)
(* of histories without the mishaps that break it (README, 6): each part   *)
(* under those that break that part.                                       *)
ClaimHolds ==
    Current =>
      /\ mishaps \subseteq CompleteDespite =>
           \A id \in Kept : live[id] # 0 => items.rows[id] # 0
      /\ mishaps \subseteq FreshDespite =>
           \A id \in Kept : items.rows[id] # 0 => items.rows[id] = live[id]

(* A resumed install never fetches again what an earlier one has saved. *)
BatchesKept ==
    [][partial.some /\ partial'.some => partial.done \subseteq partial'.done]_vars

(* A refresh drops a row only when the API no longer lists it, and never   *)
(* goes back to an older one.                                              *)
RowsSurvive ==
    [][items.some /\ items'.some =>
         \A id \in Ids :
           /\ items.rows[id] # 0 /\ items'.rows[id] = 0 => id \notin job.listed
           /\ items'.rows[id] # 0 => items'.rows[id] >= items.rows[id]]_vars

(* A hole in the catalog is on record.  Not so after a refresh (README, 6). *)
HolesRecorded ==
    Current => \A id \in Kept : live[id] # 0 /\ items.rows[id] = 0 => id \in skipped

(* Every patch is followed by data of that patch, or by the next patch.    *)
CatchesUp == claimed # build ~> claimed = build
=============================================================================
