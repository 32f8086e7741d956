# GW2 Build Optimizer: TLA+ models, runs and proofs

The program is an overlay (a DLL that a game addon host loads into Guild Wars 2), the
libraries under it and a small feedback server. Everything in it that is hard to test is
about several parties who write the same state: the game's render thread, background
workers, keybinds, the player's edits on a copy that is a few milliseconds old, files, and
a server. This directory models those protocols, checks them with TLC on small instances
and proves the most important of them for instances of every size. The optimizer is mostly
arithmetic, but its World-versus-World exchange is a reactive machine of its own, a player
and a scripted enemy on one clock, and is modelled as such.

Paths are relative to the repository (`addon/` is `crates/addon/src/`, and likewise `core/`,
`gw2api/`, `optimizer/`; `server/` is `server/feedback/src/`).

## 1. Inventory

| Part | State | Operations | What is hard | What makes it correct |
|---|---|---|---|---|
| Shared state and frame protocol: `addon/state.rs`, `addon/ui/mod.rs` | `STATE`, one mutex around `AddonState` with an `epoch`; per frame a baseline and a working clone | capture, layout on the clone without the lock, commit (move or merge); `with_state` from workers; busy markers; `cancel_and_renew`; deferred configuration save | a worker publishes, ends or is started while the frame works on its clone; a layout panics | no publish, no edit and no configuration write is lost; a marker is up exactly while its worker runs; a Stop reaches the running workers and not the next ones |
| Detached disk writer: `addon/ui/mod.rs` | one queued content, a draining flag | submit, drain; savers that go past the queue | the drainer finds the queue empty while a submit fills it; writes fail or panic; two renames race | one drainer; queued content is taken; the file never goes backwards |
| Feedback client: `addon/feedback/`, `core/feedback/`, the About tab | the draft, the rows, the send lock, the refresh latch, `messages.json` | draft, send, resend, discard, status refresh, flush | lost answers, results that arrive before the commit of the frame that sent, a Stop meant for another request, restarts | one send at a time, an id never carries two payloads, a failed row can be replayed, what is shown is or will be saved |
| Feedback server: `server/` | the reports table, limiter windows, taxonomy versions | intake (insert once per report id), status query, admin answer, rate limit | the same id twice, keys evicted at the cap | the first payload of an id is kept; a sender gets his quota and no more |
| Game-data download and cache: `gw2api/download.rs`, `gw2api/cache.rs` | one JSON file per catalog with the build it belongs to, the resumable partial install, the id list, the skipped ids | install, resume, refresh, food backfill, clear | a game patch, an error, a Stop or the end of the process between any two steps | data that is called current is complete and current; what was fetched is kept |
| API client: `gw2api/client.rs`, `gw2api/transport.rs` | token bucket, skip list, cancel flag | paced requests, retries, bulk requests split on 5xx | retries, `Retry-After`, cancel against the last error, five batches on one bucket | the rate is kept, a retry ends, a cancel wins |
| Saved builds: `core/storage.rs`, the Ranch tab | one file per build, staging files | save new, overwrite, delete, list | two callers on one name, a crash between two calls, leftovers of an old version | a listed build is whole; each call is one atomic change |
| Chat run: `addon/ui/main_view/chat_flow.rs`, `addon/ui/chat_bar.rs` | conversation, `waiting`, `chat_epoch`, live text | send, retry, Stop, backstop, Clear, reset; the worker's word that a build follows, its answer, its end | a reply that lands while Stop, the backstop or a new question sits in an uncommitted frame; a run that ends without a word | only the run asked last is heard and ends its request once; the bubble stands for a run and goes away; no line is lost |
| WvW exchange timeline: `optimizer/rotation/wvw_timeline.rs` | clock, cast and its hits in flight, recharges, pools, shroud, cover, conditions, the enemy's script | one handler per thing that happens in a tick; opener, scorer, swaps, stunbreaks | the order of the handlers in a tick: control, a dry shroud, an interruption and a recharge that overtake each other | hits die with their cast; bars and shrouds agree; no skill is free before its recharge; windows start after the last control; a death is final once its tick is over |
| PvE and PvP rotation simulators: `optimizer/rotation/simulator.rs` | clock, recharges, trigger bus | as above against a golem | floating-point sums over data tables | |
| Optimize run and log: `addon/ui/main_view/optimize_flow.rs`, `core/generations.rs` | `optimizing`, the result, `generations.jsonl` | run, tiers, cancel, append, rotate | the player switches character while it runs, a panic, a torn last line | a result is shown for what it was computed for; no run is left "running" |
| Character and game-data workers: `addon/ui/main_view/character.rs`, `stats.rs` | lists, details, the database, their markers | start, publish, end, chain | as the frame protocol | as the frame protocol |
| Worker registry and unload: `addon/state.rs`, `addon/lib.rs` | handles of running workers, shutdown flag | track, join with a bound, unload | a worker waits for the lock the joiner holds; code is unmapped under a worker | every tracked worker is joined or outlived by the module |
| Radio: `addon/radio/`, the radio tab | session, generation, status, search spinner | play, stop, status, search | a replaced session goes on until it looks | only the newest session's status is shown |
| LLM clients and tool loop: `optimizer/llm/` | the turn's messages, request counters, response cache | rounds, closing request, reserve and refund | deadlines, Stop, repetition, a minute that rolls over | a turn ends in one answer; the request ceiling holds |
| Configuration: `core/config.rs` | `config.json`, key store | load, migrate, save | see the disk writer | |
| Setup wizard | wizard pages | saves and workers of the frame protocol | | |
| Icons, language packs, news | independent cached files | fetch once | | |
| Clipboard | one pending text | retry each frame | | |
| Benchmark scraper | one backoff delay | paced requests | | |
| Optimizer engine | none | scoring and search | floating point, nothing interleaves | |
| Screens, translations, chat links | none beyond the frame's clone | drawing, tables, encodings | | |

How they interact. Workers are threads that `spawn_worker` starts with the run's
cancellation token; they touch `AddonState` only through `with_state`. The render thread
never holds `STATE` while it draws: a window reads and writes the frame's clone and the
commit brings its edits home. Whatever is saved goes from the state under the lock to a
queue (`CONFIG_WRITES`, the writer of `messages.json`) or straight to disk (keybinds, unload,
saved builds). The download and the API client know nothing of the state; the workers that
call them publish the outcome. The server meets the client only over HTTP.

`PROJECT.json` lists the components with their sources, and every hazard at its line with
the properties that watch it.

## 2. Modules

| Module | Models | Checked by | Proved in |
|---|---|---|---|
| `Merge` | the three-way merges of `state.rs` (`take_ui`, `keep_worker`, `merge_busy`, `take_renewed`, `keep_len`, `merge_config`) | through its users | |
| `PaintFrame` | shared state, frames, workers, Stop, configuration saves | `MCPaintFrame` | `PaintFrame_proofs` |
| `LatestSaved` | abstract: a file that never goes backwards | refined by `SerialWriter` | |
| `SerialWriter` | the detached disk writer | `MCSerialWriter` | `SerialWriter_proofs` |
| `FeedbackSend` | the feedback client, its file, the network and the server's intake; uses `Merge` | `MCFeedbackSend` | `FeedbackSend_proofs` |
| `ItemsCatalog` | install, resume, refresh and backfill of the items catalog | `MCItemsCatalog` | `ItemsCatalog_proofs` |
| `SavedBuilds` | abstract: an atomic map of saved builds | refined by `BuildStorage` | |
| `BuildStorage` | save, overwrite and delete, one file system call per step | `MCBuildStorage` | `BuildStorage_proofs` |
| `ChatRun` | the chat bar, its workers and the frames between them; uses `Merge` | `MCChatRun` | `ChatRun_proofs` |
| `WvwTimeline` | the tick loop of the World-versus-World exchange | `MCWvwTimeline` | `WvwTimeline_proofs` |
| `FoldFacts` | no part of the program: induction over a fold of a sequence, for the proofs | | itself |

The map from every definition to its source lines is in `PROJECT.json`. A definition whose
comment begins with "Mutant:" is a plausible bug in the definition below it; the run of that
property must find it.

### PaintFrame

`live` is the `AddonState` behind the mutex, reduced to one field for each way of merging
(there are some hundred fields, each merged by one of a handful of functions): `busy` (`merge_busy`),
`res` (`keep_worker`), `view` (`take_ui`), `cfg` (`merge_config`) and `tok` (`take_renewed`).
`frame` is `PaintFrame`; `epoch`, `raised` and `saveWanted` are the epoch, `PAINT_RAISED` and
`PAINT_CONFIG_SAVE`. A step is one critical section on `STATE`, or one thing a window does to its clone.
`CaptureMain`, `CaptureMini`, `Commit` and `LayoutPanics` are `render`; `Start` is a window
that refuses, raises, spawns and publishes the raised markers; the `Worker...` actions are
the `with_state` calls of workers, and `WorkerChains` the one that starts its successor under
the same lock. `Silent` is the set of kinds whose worker returns without touching the state
when its token is cancelled (the station search and the feedback send).

### SerialWriter

`pending` and `draining` are the fields of `WriteQueue`; contents are version numbers. `Take`
and `Leave` are the two outcomes of `drain`'s critical section, `Write` and `WriteFails` the
job with and without an error or a panic. `Caller` is the thread that drains for itself when
the OS refuses a thread, under `STATE`. `DirectCopy` and `DirectWrite` are the savers of
`config.json` that copy under the lock and save after it.

### FeedbackSend

The frame protocol again, for the fields of `FeedbackState` and with its own merge. The
player's actions change the frame's clone; `Deliver`, `Classify` and `ApplySend` are the send
worker's request, its answer and its `with_state`; a request or its answer may be lost
(`Classify` from either phase). `stored` is the server's table, in which the first payload of
an id stays. `queued` and `disk` are the writer of `messages.json`: the SerialWriter keeps the newest
content and one writer at a time, so the model has one slot. The write lands (`SaveLands`) or fails
(`SaveFails`): `flush_dirty` takes the flag down before it, a failure is only logged (`tasks.rs:711-719`), and
`lost` records that the newest rows went this way, until rows are queued again. `unread` is
`history_load_error`: a `messages.json` that cannot be read or parsed, at the first start or at a later one, gives
an empty history and refuses every flush until the addon is loaded again (`tasks.rs:474-484`, `:702`).
`stale` says that the epoch moved. The wizard's pages, the account lookup, the taxonomy, the wording of failures and the timing of refreshes are left out.

### ItemsCatalog

A row is the number of the build that last changed it. `phase` walks through `download_steps`
for the items catalog; each save is a step, because the process may end between two. The addon starts with nothing, or
with the cache of an older version: without food, and with or without `items.ids` (the upgrade path of `refresh_items`).
`Abandon` is an error, a Stop or the end of the process at any of them. `mishaps` records the
circumstances that a history went through and that the code is known not to survive whole;
`ClaimHolds` states for each half of its claim under which of them it holds. The nine catalogs that are fetched whole, the language packs,
the icons and Verify mode (which nothing in the overlay calls) are left out.

### BuildStorage

`json` and `tmp` are the directory entries `<name>.json` and `<name>.tmp`, `data` the files they
lead to, so that a file may have two names or be opened by two writers. Each action is one
file system call. The staging file of a new save has a name of its own and is only the file
its caller holds. `Die` is the end of the process and a power failure in one: what was not
flushed is torn. A change of a directory entry is taken to be durable at once. `odd.refused` are
the names to which a hard link fails for another reason than that they are taken.

The callers are those of the overlay (the frame, `ranch-load`, `ranch-notes`) and, for two
savers at one time, a second game client on the same folder, which `save_new`'s comment speaks of.
`odd` is a name that an old version left as an empty file or that the volume refuses to link;
such a name is saved by one caller at a time (`Undisturbed`).

### ChatRun

The bar's part of the state: `history` (`merge_chat`), `waiting` (`merge_busy`), the epoch and the dirty
flag (`take_ui`), the token (`take_renewed`). `live` is under `STATE`, `frame` is one paint frame:
captured, one action of the player at most, saved (`SaveHistory` is the check of `dirty` at the end of the
layout), committed. A worker's step is one `with_state` call: `Announce` is `say`, `Judge` the check for a
stale result, `Serve` the served plate, the text or the fallback of a failure, `GiveUp` the cancelled exit and
the panic hook. That the history which was handed over last reaches the disk is SerialWriter's
promise, and the frame protocol is PaintFrame's for one more field; the two modules are composed by that
split and not by instance, because ChatRun needs what a message is and they do not.
`asking`, `late`, `unheard` and `overlap` are histories: whose request is open, which runs answered into an
open frame, which ended before their own frame was committed, and whether a reply landed in a frame that
was captured with an unsaved one. They name the exceptions that the code has (section 6).

### WvwTimeline

`tl` is the struct `Timeline`, `phase` the place in `run`'s loop; each handler is an operator from timeline
to timeline with the name it has in the code, and the actions are the loop's: `Regenerate`, `Resolve`, `Suffer`,
then `Press`, `Swap` or `Wait`, then `Clock`. `pick_skill`'s score is data, so `Press` takes any skill the scorer
may rank first; the opener, in contrast, is followed exactly. Times are scaled down with the tick, so that a
fight of 44 units holds several recharges, casts and bursts; damage is a small integer, a shroud takes half and
protection a third. A pool has the two caps of the code: gains stop at the profession's default (`PoolCap`), the
fill of the clock and adrenaline at the build's (`cap`). Entries of one skill share one recharge (`id`), as the same
weapon in both sets does. Of the trait records one is kept, a periodic heal (`pulse`), because it runs after the
events of the tick and asks for no health. `rest`, `control` and `reentered` are histories for the properties: the earliest time a
skill may be started again, when control last landed, and whether a shroud was entered from a shroud.

## 3. Runs

`tlc -config <cfg> <module>` in this directory; each takes from a second to about two minutes.

| Run | Question | Bounds | Distinct states |
|---|---|---|---|
| `paint_frame` | Does the live state stay consistent under every overlap of frames, workers, Stop, panics and configuration writes, and do markers come down? | 2 kinds of work (one silent), 2 workers, 1 Stop, 2 publishes, 1 configuration write, 1 edit of each sort, 1 panic | 302 thousand |
| `serial_writer` | One drainer, nothing stranded, the newest kept, `LatestSaved` implemented, and does whatever was to be saved land? | 3 threads, 5 contents, 2 failing writes, 1 save beside the queue | 2 thousand |
| `feedback_send` | One send, one payload per id, one row per report, replayable failures, no lost save? | 2 payloads, 2 ids, 1 restart, any write failing, any load failing | 3.4 million |
| `feedback_send_live` | Does Send unlock, does a delivery reach the file? | 1 id, discards, an answer, a Stop, a restart, any write or load failing | 80 thousand |
| `feedback_stop` | Does a Stop leave Send usable? (It does not.) | 1 id, 1 Stop | |
| `items_catalog` | Is what is called current complete and current, are batches and rows kept, and is every patch caught up with? | 1 piece of gear, 1 food, 3 builds, 1 abandoned download, 1 refused id, 1 kind of mishap in a history, with and without an older cache | 322 thousand |
| `build_storage` | Are listed builds whole and calls atomic, with two savers of one name, or with an old leftover or a name that cannot be linked? | 1 name, 2 builds, 2 savers, 1 overwriter and deleter, 1 crash | 348 thousand |
| `build_notes` | Are listed builds whole when two callers overwrite? (They are not.) | 2 overwriters | |
| `chat_run` | Is only the right run heard, is every request ended once, does the bubble stand for a run and go away, is no line lost between frame, worker and file? | 1 question, 2 requests, 1 Stop, 1 mishap (refused message, panic or reset), a history of 3 | 1.2 million |
| `chat_stop` | Is there a Stop while a run is at work? (Not after its first word.) | 1 request | |
| `wvw_timeline` | Do hits, recharges, bars, windows and deaths keep their order through every tick? | 6 builds (life force twice, one of them with an opener that asks for a swap, an exposed shroud, energy, adrenaline with a periodic heal, initiative with one skill on both sets), 133 enemy scripts, 22 ticks | 253 thousand |
| `wvw_bar` | Is the shroud's bar held only in shroud? (Not after a shroud entered in a shroud.) | the same | |

Why the bounds are enough. The overlaps of one frame are exhausted by one frame at a time
and whatever happens during it; frames repeat without bound in every run. Two workers give a
pair of the same kind (the restart of one that ended) and of different kinds. Of an edit,
a Stop or a configuration write one is enough, because a second is merged like the first;
the theorems of section 5 hold for any number. In SerialWriter a third content in
the queue while one is written and one is lost needs four versions, and a saver beside them a fifth. In FeedbackSend two
payloads and two ids give an edited draft and its fresh id. In ItemsCatalog the third build
tells "one patch behind" from "two behind", and each of the two items may be there from the start,
come, go or come back. In BuildStorage four files cover a listed
build, a `.tmp` and two staging files. Symmetry is used only there, over files, builds and savers,
which no definition tells apart. In ChatRun two requests are a run and its successor, the least that a late
reply needs; three lines fill the history, so that trimming meets both the commit and the merge. In
WvwTimeline the scripts hold every volley of three events of five kinds besides the bursts, against bars that
between them have every kind of skill the handlers tell apart; a fight is long enough to enter, leave and
enter a shroud again.

## 4. Fairness

- Frames: ImGui calls the render callback every frame while the game runs, and layouts
  terminate, so `Commit` (and in FeedbackSend `Capture`) is weakly fair. Nothing the player may do is fair.
- Workers: every transport has a timeout and every drain ends when the queue is empty, so the
  end of a running worker of each kind, the steps of a send or a poll and those of a drainer are weakly fair.
- FeedbackSend: the writer gets to a queued save (`WF(SaveLands or SaveFails)`), but no fairness says that the
  write succeeds. `DeliveriesReachDisk` therefore excepts a write that failed and a history that did not load.
- ChatRun: `WF(Capture or CaptureExpired)`, `WF(SaveHistory)` and `WF(Commit)` are the frames, and
  `SF(CaptureExpired)` says that a wait which goes on is longer than 400 seconds one day and is then seen by a
  frame. No step of a worker is fair: the bubble must go away whatever became of the run.
- ItemsCatalog: a download that runs goes on by itself (`WF(Download)`). That one is started
  is up to the player; while the cached build is not the live one the main window shows a
  banner with a Refresh button (`addon/ui/main_view/mod.rs:277-300`), and `CatchesUp` says what
  holds for a player who uses it (`WF(StartDownload)`). `Abandon` is bounded in number: a
  download that fails forever never catches up.

## 5. Proofs

`tlapm` on the modules named in section 2 (`PaintFrame_proofs`, `SerialWriter_proofs`, `FeedbackSend_proofs`,
`ItemsCatalog_proofs`, `BuildStorage_proofs`, `ChatRun_proofs`, `WvwTimeline_proofs`, `FoldFacts`) checks the proofs: for
any set of kinds, threads, silent kinds, payloads, report ids, items, questions, names, files, savers, builds and enemy
scripts and any bounds, from the assumptions that the modules name about their constants (`SilentAssumption`,
`DistinctAssumption`, `TextAssumption`, those of `SerialWriter`, `IdsAssumption` of ItemsCatalog, `PayloadAssumption` and
`IdsAssumption` of FeedbackSend, `CapAssumption` and `NoneAssumption` of ChatRun, the five of WvwTimeline), and nothing else
but the conditions on constants that a theorem states.

PaintFrame. `TypeCorrect` first. The four groups of properties have an inductive invariant each:

- `BusyInv` (`MarkersCorrect`: OneWorkerPerKind, MarkerUpWhileRunning, NoStrandedMarker). The
  properties speak of the live state; a commit replaces it by the frame's, so the invariant
  must say what the frame knows (`FrameMarkers`): a marker up at capture is still up in the
  frame, one raised since is in `raised` and therefore on live, one that is down has no worker
  running (only a window starts workers), and while the epoch is unchanged the frame's markers
  are the live ones. `CommitKeepsMarkers` follows: a commit, merged or moved, changes no marker.
- `EditInv` (`EditsCorrect`: EditsSurvive, SavedConfigIsLive; `ConfigWritesCorrect`). The baseline
  agrees with live on what only the player edits, the frame holds all his edits, and a frame whose
  configuration differs from its baseline has asked for a save.
- `ResInv` (`PublishesCorrect`): an unchanged epoch means no publish since capture.
- `TokenInv` (`TokensCorrect`): a fresh token lives in the frame first; without a panic, one that
  differs from the live one means that the live one is cancelled, and every worker holds
  a cancelled token or the frame's.

SerialWriter. `DrainInv` ties the flag to the threads (`DrainCorrect`: QueueServed).
`OrderInv` orders the versions on disk, being written and queued as long as no saver went past the
queue (`directs = 0`), and gives `ImplementsLatest` (`Spec => SavesLatest`, the refinement of
LatestSaved, in which `beside` is that such a saver ran) and `NewestCorrect`.

FeedbackSend. `FeedbackInv` (`FeedbackInvHolds`, and from it `TypeCorrect`, `OneSendCorrect`, `RowsCorrect`) has four
parts. `SendInv`: the lock, the phase of the send worker and the requests on the wire tell the same story, so a second
send cannot begin. `PollInv`: the same for the status refresh. `RowsInv`: every id a row, a draft, a request or the file
carries was minted once (`MintedInv`), a row that was sent keeps the payload it was sent with (`PayloadInv`), and the
draft's id belongs to the draft or to a row that failed with the draft's text (`DraftInv`). Three properties need
more and have an invariant each: `LockInv` (`LockCorrect`), under `stops = 0` because a Stop cancels the send worker
without a word (the run `feedback_stop`); `SavedInv` (`SavesCorrect`), what an open frame knows of the queue, with `lost` and `unread` as its exceptions; and
`OnceInv` (`OnceCorrect`: OnePayloadPerId), for `~MayDiscard` because a discarded row gives its id to a text it was not
sent with (section 6). `OnceInv` says of the server what `PayloadInv` says of the client: what is stored, on the wire or
was shown as sent under an id is one payload.

ItemsCatalog. `CatalogInv` (`TypeCorrect`, `RowsCorrect`: RowsSurvive, `BatchesCorrect`: BatchesKept,
`ClaimCorrect`: ClaimHolds). `AgeInv`: no row, list or partial install is of a build that is still to come. `ClaimInv`: which of
the files that a phase of the download reads have been written by it, and for which build. `CompleteInv` and
`FreshInv` are the two halves of the claim, for the cache on disk and for what a running download will make of it: an id
the API lists has a row, was skipped and recorded, or is in the steps still to be done; a row is of the build it is
stamped with, or the item has not changed since. Each is conditioned, as the property is, on the mishaps that the code
does not survive whole, and a mishap is recorded in the step that brings it about. A cache without `items.ids` is carried by a part of
its own: until a refresh has written the list, every gear item the API lists has a row, because a patch that adds one is the mishap "unlisted".

ChatRun. `BubbleInv` (`BubbleCorrect`: WaitsForSomeone) says what an open frame knows of the wait
(`FrameWait`): its baseline has live's epoch, because only commits move it; a frame that has not acted waits
only if its baseline did; live waits only if the frame's baseline or its paint does; and a frame that
would bring a wait home at its commit carries an epoch of which a run is at work or in `unheard`. A commit,
moved or merged, therefore always brings home the frame's epoch, and a wait only together with the run of
that epoch. A run that retires takes its own bubble down, or is put in `unheard` when the frame that sent it
is still open. All of it is under the condition that no layout panicked: a panic drops the frame that raised
the epoch and leaves the marker which the spawn had set on live.

The rest of ChatRun has one invariant, `ChatInv` (`ChatInvHolds`). `FrameInv` says what an open frame knows of live: both
histories grew from the same base unless one was cleared or trimmed, live by what replies added, the frame by the lines of its
action. `SaveInv` follows `dirty` and what was handed out on both sides of a frame (`SavesCorrect`: SavedOrDirty). `AskedInv`
says that live's epoch and the frame's belong to the run asked last, on live and in the frame, and that no epoch is
given twice without a panic or a reset; `EndedInv` that a request which has ended is not the one that is open and cannot be
heard again, and that its ending is in the history once. They give `ToldApartCorrect` (RunsToldApart), and the second
premise of that property came out of the proof: a reset after a Stop lets an ended run be heard (section 6). A merge is a
fold over the frame's lines; what it keeps (`MessagesCorrect`: MessagesSurvive) is `FoldKeeps` with the step of
`merge_chat` in the place of its parameter.

WvwTimeline. The assumptions are the types of builds, skills and scripts (`BuildsAssumption`, `ScriptsAssumption`,
`NoneAssumption`, `AmountsAssumption`; a legend swap's energy fits into the default pool, as 50 fits into 100) and
`TimesAssumption`: times are positive, the period of `tick_recharge_rate` is a whole number of ticks (100 ms of 50), and
Alacrity takes at most a fourth of a period off (25 of 100, `alacrity_cd_advance_ms`, `rotation/simulator.rs:2449`).
They hold of every fight, whatever skills the bar has.

A handler is a function from timeline to timeline that calls others, so the proof is by handler and not by action.
`Good` is what all of them keep: the shapes of cast, hits, shroud, cover and barrier, levels within their caps, one entry of
cover of each kind. `Only(t, u, F)` says that a handler changes no field but those of F, and three relations what it may do to
the rest of the fight: `Lost` (if a cast or a shroud is gone, its hits are gone, the bar is back and the recharge
is written), `Mild` (no effect of a skill kills, nor touches cast, bar or recharge), `Endured` (what an event
of the enemy may do). Each is closed under sequence (`OnlyTwice`, `LostTwice`, `MildTwice`, `EnduredTwice`), so that the
loops over effects, hits, events and conditions, which are folds, follow with FoldFacts.

The inductive invariant is `IInv` (`FightInvariant`); TLC checked its parts on the run's instance first. `ShapeInv` is
`Good` of the timeline and gives `TypeCorrect` and `HitsCorrect` (HitsHaveCast). `ClockInv`: the clock is on a tick, the
fight is not over while a tick is under way, the opener's cursor is in its script. `HomeInv`, with the half of ShroudHoldsBar
that is part of `Good`, gives `BarCorrect`. `WindowInv` gives `WindowCorrect` (WindowSinceControl); it needs `Margin`, because
between `Suffer` and `Clock` the window counts the tick that the clock does not. `AliveInv`, that hits and events meet only
a living player, gives `DownedCorrect` (DownedStaysDown): the handlers before the decision start from a health above
zero, `Clock` touches only the time and the recharges, and `Finish` changes nothing for the dead. Within the tick of the
death the property says nothing: there a periodic heal, a stunbreak, or another record that heals may bring the player
back, and the next tick goes on as if nothing had been. `RestInv` gives `RechargeCorrect` (RechargeKept) and is the hard
one: the table of the code says when a skill is ready if nothing changes, but Alacrity moves the entry closer at every
period, so that `rest[i] <= ready[i]` is not inductive. What is (`Owes`) is that four fifths of what the table still
has to run are no less than what is owed, and that this holds with the part of the next period's gift that the clock has
not yet worked off; `FreshOwes` is a recharge written now, `TickOwes` a tick with or without the gift, Chilled only
adds. A lost cast writes another recharge than a resolved one, which is why `Lost` has to name the skill, the time and
the reason of each write.

FoldFacts. `FoldTrace` gives the values a fold goes through, one per element of the sequence, and `FoldKeeps` is induction over
them: what every step of a fold preserves holds of its result. The library's induction theorems cannot be used (section 5, end), so the step and the property are CONSTANTS of
the module, to be instantiated, and the induction is by the least counterexample, over the equation of the folds in the community modules.

BuildStorage. `WholeInv` (`WholeCorrect`: WholeFiles; `TypeCorrect`) says that no two names or calls share a file,
but a build's `.tmp` and the call that overwrites it; that from its flush to its answer a call's file holds
its build, on disk; and that a name holds a flushed build, or an empty file that was there from the start. It is inductive
while no two callers overwrite (`OneOverwriter`), and not otherwise: the run `build_notes` has two. `RefInv` adds what a call
may rely on after it has looked: a build found by an overwrite is listed until it is replaced, the name of a
save that removed an empty file is still its to take, a name refused a link stays free until the rename. With at most one
caller that overwrites or deletes (`OneChanger`), any number of savers and any number of deaths, every step is then
an atomic change of the saved builds, an answer, or nothing that shows (`ImplementsSavedBuilds`: Implements). The last two of its
lines need `Undisturbed`, the bound of the model on odd names.

Only model-checked: every liveness property (`MarkersClear`, `EverySaveLands`, `SendUnlocks`, `DeliveriesReachDisk`,
`CatchesUp`, `WaitingEnds`), which is out of this prover's reach as ENABLED is. Every safety and action property of the passing runs is proved.
Theorems that take an operator as a parameter cannot be instantiated by the installed provers, which rules out the
library's induction; where a proof needs one (the folds of `merge_chat` and of the timeline's loops) it goes through FoldFacts.

## 6. Disagreements between the code and its comments

Four runs are kept to show one each (`findings` in `PROJECT.json`): a Stop locks Send, two overwrites
of one build tear it, a chat run that announces a build loses its Stop, and a shroud entered from a shroud
leaves its bar behind. While modelling we met more. A row that names a property is
reproduced by the MC module with its first configuration, the change given in the second column, and
the property as the only one; the others are read off the code along the actions named.

| Property | Change | What happens | What the code says |
|---|---|---|---|
| PaintFrame `LiveTokenFresh` | none | a layout that panics after a Stop is dropped with the fresh token; live keeps the cancelled one and every later worker starts cancelled (`ui/mod.rs:391`) | `state.rs:631`: "live must not keep the cancelled one" |
| PaintFrame `NoStrandedMarker` | without `\ Silent` | a Stop of another request cancels a station search, which returns without taking its marker down (`tabs/radio.rs:456`); no later search starts (`:443`) | `tabs/radio.rs:452`: "a panicking search can never strand the spinner" |
| SerialWriter `NewestOnDisk` | none | a keybind's or unload's save races the queue and the older content is renamed last (`state.rs:1671`) | `ui/mod.rs:101`: "always writing the newest content" |
| FeedbackSend `OnePayloadPerId` | `MayDiscard = TRUE` | discarding a failed row while its draft is open lets the edited draft go out under the old id, of which the server keeps the first text (`about.rs:564`) | `tasks.rs:197`: "an edited draft discards it and ships under a fresh id" |
| FeedbackSend `DeliveriesReachDisk` | without `\/ lost` | `flush_dirty` takes the flag down before the write; a write that fails is logged, and nothing saves the delivery until some row changes again, so a restart shows the report as it was before (`tasks.rs:711-719`; `SavedOrDirty` without `lost` shows the same) | `tasks.rs:693-695`: "so a status that lands while another tab is active is saved" |
| FeedbackSend `SendingRowHasWorker` | none | a send that ends before the commit of its own frame finds no row; the commit then brings in a row that stays Sending (`tasks.rs:299`) | `tasks.rs:414`: "the row is never stuck in `Sending`" |
| FeedbackSend `PublishedRowsKept` | none | a frame that adds or removes a row overwrites the rows a worker updated during the layout (`feedback/mod.rs:389`) | `feedback/mod.rs:358`: rows "stay with `self` when a worker published them" |
| ItemsCatalog `ClaimHolds` | `"drift"` in `FreshDespite` | an install resumed after a patch publishes old rows under the new build (`download.rs:405`) | `cache.rs:3`: "Cache is invalidated when the GW2 game build number changes." |
| ItemsCatalog `ClaimHolds` | `"tear"` in `CompleteDespite` | an install that dies before `items.ids` makes the next refresh take all ids for known (`download.rs:465`) | `download.rs:12`: "so a killed install resumes" |
| ItemsCatalog `ClaimHolds` | `"unlisted"` in `CompleteDespite` | the first refresh of a cache from before `items.ids` takes every listed id for known; gear that a patch added since is never fetched, by this refresh or a later one, and the catalog is called current without it (`download.rs:587-591`) | `download.rs:589-590`: the upgrade path, which treats "live as already-seen so we only revalidate the keep-set" |
| ItemsCatalog `ClaimHolds` | `"food"` in `CompleteDespite`, `Ids = {1, 2, 3}`, `Food = {2, 3}` | a patch that adds one food item to a cache from before food was kept switches the backfill off (`download.rs:175`) | `download.rs:162`: "once it has completed it never walks again" |
| ItemsCatalog `ClaimHolds` | `"return"` in `CompleteDespite` | an item that left the API and came back between two refreshes, or a refresh that ended between its rows and its id list, is not new to the next one and has no row to be refreshed (`download.rs:242`, `:587`) | `download.rs:227`: new and cached ids only |
| ItemsCatalog `ClaimHolds` | `"skip"` in `FreshDespite` | a refresh whose fetch of a cached id is refused with 5xx keeps the row of the build before under the stamp of the new one (`download.rs:251-299`) | `cache.rs:3`, as above |
| ItemsCatalog `ClaimHolds` | `"clear"` in `FreshDespite` | Clear Cache leaves `items.partial` behind and the next install resumes it with old rows (`cache.rs:316`) | `cache.rs:3`, as above |
| ItemsCatalog `HolesRecorded` | none | a refresh overwrites the record of what the install skipped (`download.rs:618`) | `client.rs:136`: "so a dump can record the hole" |
| BuildStorage `Implements` | no `Undisturbed` in `Ask` | of two savers that see the same empty leftover the second removes what the first has published (`storage.rs:236`) | `storage.rs:234`: "a live competitor that publishes between the two attempts still wins the race" |
| BuildStorage `Implements` | `Deleters = {"d"}` | a build deleted between the check and the rename of an overwrite comes back (`storage.rs:121`) | `storage.rs:92`: "Fails if the file does NOT exist." |
| BuildStorage `Implements` | `odd` free of its `leftover \cap refused = {}` | without hard links the empty leftover is taken for a build and the name stays unusable (`storage.rs:255`) | `storage.rs:229`: "A zero-length `<name>.json` is not a build." |
| ChatRun `RunsToldApart` | without `\ late` | an answer that lands while the frame of a Stop or of the backstop is open is shown, and so is the note that the request was stopped or timed out (`merge_chat`, `state.rs:2331`) | `state.rs:919-921`: "late applies are ignored" |
| ChatRun `RunsToldApart` | without its first premise | a layout that panics after a message was sent, or a reset, gives the same epoch to the next question: the old run answers it (`state.rs:522-548`) | `state.rs:529-531`: "they wind down on their own" |
| ChatRun `RunsToldApart` | without its second premise, `MaxRuns = 3`, `MaxStops = 2`, `CAP = 8` | run 1 is stopped; run 2 answers while the frame of a reset is open, so that the merge keeps the old history and the epoch goes to 0; question 3 gets epoch 1, which run 1, still at work, carries: it shows its answer below the note that it was stopped (`state.rs:522-548`) | `state.rs:529-531`, as above |
| ChatRun `WaitsForSomeone` | without `unheard` | a run that ends before the frame that sent it commits is not heard, and the bubble stays until the backstop (`chat_flow.rs:1492`) | `chat_flow.rs:1517-1520`: a run that never started clears it, one that ended early does not |
| ChatRun `SavedOrDirty` | without `~overlap` | a reply that lands in a frame captured with a dirty history is merged, and the frame's `dirty = false` with it: the last reply is not saved until the next change (`main_view/mod.rs:197`, `state.rs:2298`) | `main_view/mod.rs:197-204` |
| ChatRun `MessagesSurvive` | without its two prefixes | a history at its cap is trimmed by both sides, neither continues the base, and the player's line is dropped at the commit (`state.rs:2331-2345`); so is a question that repeats an earlier one, which `contains` takes for the same | `state.rs:2328-2330` |
| WvwTimeline `DownedStaysDown` | without `/\ phase # "decide"` | the tick of the death is fought to its end: a periodic record that heals (`wvw_timeline.rs:1558-1560`, `:4036-4054`; in the model inside `Suffer`), then a stunbreak that heals (`:1574`), revives the player, for `run` looks at the health only at its head (`:1544`) | |

Further, read off the code: an opener that asks for a weapon swap while the player is in shroud leaves him idle
until the shroud ends (`wvw_timeline.rs:1851-1857`, `:1984`); a dodge is spent on a strike that a disabled foe
loses (`:4398`, `:2099`); the comments on Chilled speak of 34 in 100 where the constant says 60 (`:1601`, `:129`); a
message refused by a guard takes the bubble of a run in flight down (`chat_flow.rs:167-225`); the merge appends
without trimming, so the history may exceed its cap by the three lines one frame adds (`TypeOK` of ChatRun); the
backstop of 400 seconds ends a run that `src/specs/006-choya-readable-chat/spec.md` says no fixed limit ends.

The passing runs hold where these circumstances are left out, by the change in the table.

## 7. Not modelled

- In the modelled parts: a window that writes a configuration field a worker
  also writes (Clear Cache); cached branches of `load_characters` that start a worker without a marker;
  the strip's writes other than the configuration; `closed` and `read` statuses of reports; file
  name clean-up and the parsing of saved builds; cache format versions.
- In the chat: the rounds of tools and the streaming inside a run, the live text and its stages, collapsed
  sections, the chips of a message, what a plate contains; the reset is in ChatRun alone and its effect on
  the other markers is not modelled (`state.rs:522`); `kitchen.json`, which the reset leaves on disk.
- In the timeline: trait and sigil records (procs, conditionals, the trigger bus) but one periodic heal, and of that its
  chance, gates and prerequisite; combos, attunements, clones,
  follow-ups of auto-attack chains, cleave and allies, boon strips and corruptions of the foe but Stability, a
  missing weapon swap, incoming Confusion (no scenario scripts it), the fraction of a condition's last second,
  the protected actions and damage of the report, and the trace. A builder's bar has no exit skill of the
  shroud (the tests append one); the model's has.
- Left out for good: the optimizer's engine, scoring, referee and search, and the simulators of PvE and PvP: they are
  floating-point computations over game data in which nothing interleaves, and a property of them that a small
  instance could check would be about invented numbers. They are most of the repository's lines. Drawing, translations,
  chat links, the scraper's parsing, audio decoding, and single files that are fetched once.
- Not yet modelled: the worker registry and unload, the radio's sessions, the API client's ladder and bucket, the
  server's limiter, the tool loop, the log of generations and the optimize run's own fields (section 8).

## 8. Plan

Done: (1) `Merge`, `PaintFrame`, (2) `LatestSaved`, `SerialWriter`, both with proofs;
(3) `FeedbackSend`; (4) `ItemsCatalog`; (5) `SavedBuilds`, `BuildStorage`, with the proof of
its refinement; (6) `WvwTimeline`; (7) `ChatRun`; and the proofs of every safety and action property that the
passing runs check.

Next, in this order:

8. `WorkerShutdown`: track, join with a bound, unload; and `RadioSession`: generations and status.
9. `ApiClient`: the retry ladder, the bucket, bulk requests that split, cancel. Two batches on one bucket;
   abstract: a request ends in an answer, a skip or a cancel within its budget.
10. `RateLimiter` of the server: windows, eviction at the cap; abstract: a quota per key and window.
11. The optimize run (tiers, result against the current character, a panic with a cancelled token), the tool
    loop inside a chat run, the log of generations.

Each new module gets its type invariant and its most important safety property proved with it, then the
refinement of its abstract specification where it has one.
