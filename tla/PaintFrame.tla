----------------------------- MODULE PaintFrame -----------------------------
(***************************************************************************)
(* The overlay's shared state and the frame protocol that edits it         *)
(* (crates/addon/src/state.rs, crates/addon/src/ui/mod.rs).                *)
(*                                                                         *)
(* STATE is one mutex around the live AddonState.  The render thread       *)
(* captures a clone under the lock, lays the window out on the clone with  *)
(* the lock released, and commits it under the lock.  Meanwhile background *)
(* workers publish into the live state, and each such publish bumps        *)
(* `epoch`.  A commit whose epoch still matches moves the clone over the   *)
(* live state; otherwise it folds the player's edits onto it field by      *)
(* field.                                                                  *)
(*                                                                         *)
(* The AddonState is reduced to one field per kind of merge:               *)
(*   busy   the markers of merge_busy, one per kind of worker              *)
(*   res    the last value each kind of worker published (keep_worker)     *)
(*   view   the fields only the player edits (take_ui)                     *)
(*   cfg    the configuration (merge_config)                               *)
(*   tok    cancel_token, the token a Stop cancels and renews              *)
(***************************************************************************)
EXTENDS Merge, FiniteSets

CONSTANTS
    Kinds,       \* the kinds of background work that have a busy marker
    Silent,      \* the kinds whose cancelled worker returns without a word
    MaxSpawns,   \* bound: workers started
    MaxStops,    \* bound: presses of a Stop button
    MaxPublish,  \* bound: publishes that carry a value
    MaxConfig,   \* bound: configuration writes off the render thread
    MaxEdits,    \* bound: the player's edits of the view and of the settings
    MaxPanics    \* bound: frames whose layout panics

ASSUME SilentAssumption == Silent \subseteq Kinds

VARIABLES
    live,        \* the AddonState under STATE
    epoch,       \* AddonState::epoch
    layout,      \* TRUE between the capture and the commit of a frame
    frame,       \* PaintFrame { epoch, baseline, state, mini }
    raised,      \* PAINT_RAISED: markers this frame already stored on live
    saveWanted,  \* PAINT_CONFIG_SAVE: commit must save the merged config
    handed,      \* the configuration most recently handed to a saver
    running,     \* the workers whose thread has not ended
    cancelled,   \* the tokens whose flag is set
    tokens,      \* how many tokens were ever created
    spawned,     \* how many workers were ever started
    stamp,       \* how many values workers have published
    edits,       \* history: the player's edits that no panic took away
    panics       \* how many frames panicked

vars == <<live, epoch, layout, frame, raised, saveWanted, handed, running,
          cancelled, tokens, spawned, stamp, edits, panics>>

-----------------------------------------------------------------------------
(* State *)

Config == [ui : Nat, kept : Nat]

AddonState == [busy : [Kinds -> BOOLEAN], res : [Kinds -> Nat],
               view : Nat, cfg : Config, tok : Nat]

Worker == [kind : Kinds, tok : Nat, id : Nat]

Fresh == [busy |-> [k \in Kinds |-> FALSE], res |-> [k \in Kinds |-> 0],
          view |-> 0, cfg |-> [ui |-> 0, kept |-> 0], tok |-> 0]

NoFrame == [epoch |-> 0, baseline |-> Fresh, state |-> Fresh, mini |-> FALSE]

(* The strip's capture keeps the configuration and the tokens; the rest is *)
(* the default MainState.                                                  *)
CloneForMini(s) == [Fresh EXCEPT !.cfg = s.cfg, !.tok = s.tok]

Init ==
    /\ live = Fresh
    /\ epoch = 0
    /\ layout = FALSE
    /\ frame = NoFrame
    /\ raised = {}
    /\ saveWanted = FALSE
    /\ handed = Fresh.cfg
    /\ running = {}
    /\ cancelled = {}
    /\ tokens = 1
    /\ spawned = 0
    /\ stamp = 0
    /\ edits = [view |-> 0, ui |-> 0]
    /\ panics = 0

-----------------------------------------------------------------------------
(* The render thread *)

MergePaint(base, paint) ==
    [busy |-> [k \in Kinds |-> MergeBusy(live.busy[k], base.busy[k], paint.busy[k])],
     res  |-> [k \in Kinds |-> KeepWorker(live.res[k], base.res[k], paint.res[k])],
     view |-> TakeUi(live.view, base.view, paint.view),
     cfg  |-> MergeConfig(live.cfg, base.cfg, paint.cfg),
     tok  |-> TakeRenewed(live.tok, base.tok, paint.tok)]

MergeMiniPaint(base, paint) ==
    [live EXCEPT !.cfg = MergeConfig(live.cfg, base.cfg, paint.cfg)]

(* Capture of the main window.  sync_main_chrome runs first, under the     *)
(* same lock: a moved window is written to live and its config saved.      *)
CaptureMain ==
    /\ ~layout
    /\ layout' = TRUE
    /\ \E moved \in {0, 1} :
         /\ live.cfg.ui + moved <= MaxEdits
         /\ live' = [live EXCEPT !.cfg.ui = @ + moved]
         /\ edits' = [edits EXCEPT !.ui = @ + moved]
         /\ handed' = IF moved = 1 THEN live'.cfg ELSE handed
    /\ frame' = [epoch |-> epoch, baseline |-> live', state |-> live', mini |-> FALSE]
    /\ raised' = {}
    /\ saveWanted' = FALSE
    /\ UNCHANGED <<epoch, running, cancelled, tokens, spawned, stamp, panics>>

(* Capture of the mini radio strip. *)
CaptureMini ==
    /\ ~layout
    /\ layout' = TRUE
    /\ frame' = [epoch |-> epoch, baseline |-> CloneForMini(live),
                 state |-> CloneForMini(live), mini |-> TRUE]
    /\ raised' = {}
    /\ saveWanted' = FALSE
    /\ UNCHANGED <<live, epoch, handed, running, cancelled, tokens, spawned, stamp,
                   edits, panics>>

(* The player edits a field of the window. *)
EditView ==
    /\ layout
    /\ ~frame.mini
    /\ edits.view < MaxEdits
    /\ frame' = [frame EXCEPT !.state.view = @ + 1]
    /\ edits' = [edits EXCEPT !.view = @ + 1]
    /\ UNCHANGED <<live, epoch, layout, raised, saveWanted, handed, running, cancelled,
                   tokens, spawned, stamp, panics>>

(* The player changes a setting, in either window.  save_config_detached   *)
(* only notes the wish: the frame's copy may be behind a worker's save.    *)
EditConfig ==
    /\ layout
    /\ edits.ui < MaxEdits
    /\ frame' = [frame EXCEPT !.state.cfg.ui = @ + 1]
    /\ edits' = [edits EXCEPT !.ui = @ + 1]
    /\ saveWanted' = TRUE
    /\ UNCHANGED <<live, epoch, layout, raised, handed, running, cancelled, tokens,
                   spawned, stamp, panics>>

(* The markers the frame raised and has not stored on live yet. *)
RaisedIn(paint, base) == {k \in Kinds : paint.busy[k] /\ ~base.busy[k] /\ k \notin raised}

(* Mutants: the markers stay in the frame until it commits, and the raised *)
(* ones take the place of all the others.                                  *)
PublishRaisedBusyNever(paint, base) == UNCHANGED <<live, raised>>

PublishRaisedBusyOnly(paint, base) ==
    /\ live' = [live EXCEPT !.busy = [k \in RaisedIn(paint, base) |-> TRUE]]
    /\ raised' = raised \cup RaisedIn(paint, base)

PublishRaisedBusy(paint, base) ==
    /\ live' = [live EXCEPT !.busy = [k \in Kinds |-> @[k] \/ k \in RaisedIn(paint, base)]]
    /\ raised' = raised \cup RaisedIn(paint, base)

(* A window body starts background work of kind k: it refuses while the    *)
(* marker is up, raises it, clears the last answer (some kinds do) and     *)
(* spawns.  The spawn runs under STATE and stores the raised markers on    *)
(* live.                                                                   *)
Start(k) ==
    /\ layout
    /\ ~frame.mini
    /\ ~frame.state.busy[k]
    /\ spawned < MaxSpawns
    /\ \E answer \in {0, frame.state.res[k]} :
         frame' = [frame EXCEPT !.state.busy[k] = TRUE, !.state.res[k] = answer]
    /\ PublishRaisedBusy(frame'.state, frame.baseline)
    /\ running' = running \cup {[kind |-> k, tok |-> frame.state.tok, id |-> spawned]}
    /\ spawned' = spawned + 1
    /\ UNCHANGED <<epoch, layout, saveWanted, handed, cancelled, tokens, stamp, edits,
                   panics>>

(* The OS refused the thread: the caller takes its marker down again. *)
StartRefused(k) ==
    /\ layout
    /\ ~frame.mini
    /\ ~frame.state.busy[k]
    /\ frame' = [frame EXCEPT !.state.res[k] = 0]
    /\ UNCHANGED <<live, epoch, layout, raised, saveWanted, handed, running, cancelled,
                   tokens, spawned, stamp, edits, panics>>

(* cancel_and_renew: the flag is shared, so the workers see it at once; the *)
(* fresh token exists only in the frame until it commits.                  *)
Stop ==
    /\ layout
    /\ ~frame.mini
    /\ \E k \in Kinds : frame.state.busy[k]
    /\ tokens <= MaxStops
    /\ cancelled' = cancelled \cup {frame.state.tok}
    /\ frame' = [frame EXCEPT !.state.tok = tokens]
    /\ tokens' = tokens + 1
    /\ UNCHANGED <<live, epoch, layout, raised, saveWanted, handed, running, spawned, stamp,
                   edits, panics>>

(* What commit leaves as the live state. *)
Committed ==
    CASE frame.mini -> MergeMiniPaint(frame.baseline, frame.state)
      [] ~frame.mini /\ epoch = frame.epoch -> frame.state
      [] ~frame.mini /\ epoch # frame.epoch -> MergePaint(frame.baseline, frame.state)

(* Mutant: the deferred save takes the frame's configuration. *)
CommitSavesPaint ==
    /\ layout
    /\ layout' = FALSE
    /\ live' = Committed
    /\ handed' = IF saveWanted THEN frame.state.cfg ELSE handed
    /\ saveWanted' = FALSE
    /\ raised' = {}
    /\ frame' = NoFrame
    /\ UNCHANGED <<epoch, running, cancelled, tokens, spawned, stamp, edits, panics>>

(* PaintFrame::commit, then the deferred config save of the merged state. *)
Commit ==
    /\ layout
    /\ layout' = FALSE
    /\ live' = Committed
    /\ handed' = IF saveWanted THEN live'.cfg ELSE handed
    /\ saveWanted' = FALSE
    /\ raised' = {}
    /\ frame' = NoFrame
    /\ UNCHANGED <<epoch, running, cancelled, tokens, spawned, stamp, edits, panics>>

(* The layout panics.  render catches it; the frame is dropped without a   *)
(* commit, and its edits and its wish to save go with it.                  *)
LayoutPanics ==
    /\ layout
    /\ panics < MaxPanics
    /\ panics' = panics + 1
    /\ layout' = FALSE
    /\ frame' = NoFrame
    /\ raised' = {}
    /\ saveWanted' = FALSE
    /\ edits' = [view |-> live.view, ui |-> live.cfg.ui]
    /\ UNCHANGED <<live, epoch, handed, running, cancelled, tokens, spawned, stamp>>

(* The close button, after the frame: render hides the window under STATE, *)
(* which on the render thread does not count as a publish.                 *)
CloseWindow ==
    /\ ~layout
    /\ live.cfg.kept < MaxConfig
    /\ live' = [live EXCEPT !.cfg.kept = @ + 1]
    /\ handed' = live'.cfg
    /\ UNCHANGED <<epoch, layout, frame, raised, saveWanted, running, cancelled, tokens,
                   spawned, stamp, edits, panics>>

-----------------------------------------------------------------------------
(* The workers.  Each with_state call off the render thread bumps `epoch`. *)

(* A progress report, or a result that arrives before the end. *)
WorkerPublish(w) ==
    /\ stamp < MaxPublish
    /\ stamp' = stamp + 1
    /\ live' = [live EXCEPT !.res[w.kind] = stamp']
    /\ epoch' = epoch + 1
    /\ UNCHANGED <<layout, frame, raised, saveWanted, handed, running, cancelled, tokens,
                   spawned, edits, panics>>

(* The worker's last publish: the marker comes down, with the answer. *)
WorkerFinish(w) ==
    /\ stamp < MaxPublish
    /\ stamp' = stamp + 1
    /\ live' = [live EXCEPT !.busy[w.kind] = FALSE, !.res[w.kind] = stamp']
    /\ epoch' = epoch + 1
    /\ running' = running \ {w}
    /\ UNCHANGED <<layout, frame, raised, saveWanted, handed, cancelled, tokens, spawned,
                   edits, panics>>

(* A cancelled or panicked worker: only the marker comes down. *)
WorkerGivesUp(w) ==
    /\ ~(w.kind \in Silent /\ w.tok \in cancelled)
    /\ live' = [live EXCEPT !.busy[w.kind] = FALSE]
    /\ epoch' = epoch + 1
    /\ running' = running \ {w}
    /\ UNCHANGED <<layout, frame, raised, saveWanted, handed, cancelled, tokens, spawned,
                   stamp, edits, panics>>

(* kick_search and spawn_send return on a cancelled token before they      *)
(* reach STATE, so the marker they were started under stays up.            *)
WorkerReturnsSilently(w) ==
    /\ w.kind \in Silent
    /\ w.tok \in cancelled
    /\ running' = running \ {w}
    /\ UNCHANGED <<live, epoch, layout, frame, raised, saveWanted, handed, cancelled,
                   tokens, spawned, stamp, edits, panics>>

(* load_game_db ends by starting the refresh under the same lock and the   *)
(* same marker, on the live token.                                         *)
WorkerChains(w) ==
    /\ w.kind \notin Silent
    /\ spawned < MaxSpawns
    /\ live' = [live EXCEPT !.busy[w.kind] = TRUE]
    /\ epoch' = epoch + 1
    /\ running' = (running \ {w}) \cup {[kind |-> w.kind, tok |-> live.tok, id |-> spawned]}
    /\ spawned' = spawned + 1
    /\ UNCHANGED <<layout, frame, raised, saveWanted, handed, cancelled, tokens, stamp,
                   edits, panics>>

(* A worker or a keybind writes the configuration and hands it to a saver. *)
OffRenderConfig ==
    /\ live.cfg.kept < MaxConfig
    /\ live' = [live EXCEPT !.cfg.kept = @ + 1]
    /\ epoch' = epoch + 1
    /\ handed' = live'.cfg
    /\ UNCHANGED <<layout, frame, raised, saveWanted, running, cancelled, tokens, spawned,
                   stamp, edits, panics>>

-----------------------------------------------------------------------------

Render ==
    \/ CaptureMain \/ CaptureMini
    \/ EditView \/ EditConfig
    \/ \E k \in Kinds : Start(k) \/ StartRefused(k)
    \/ Stop
    \/ Commit
    \/ LayoutPanics
    \/ CloseWindow

WorkerEnds(w) == WorkerFinish(w) \/ WorkerGivesUp(w) \/ WorkerReturnsSilently(w)

WorkerStep(w) == WorkerPublish(w) \/ WorkerEnds(w) \/ WorkerChains(w)

Next == Render \/ (\E w \in running : WorkerStep(w)) \/ OffRenderConfig

Spec == Init /\ [][Next]_vars

(* ImGui calls the render callback every frame and the layout terminates;  *)
(* every worker's transport has a timeout, so its body ends.               *)
Fairness ==
    /\ WF_vars(Commit)
    /\ \A k \in Kinds : WF_vars(\E w \in running : w.kind = k /\ WorkerEnds(w))

FairSpec == Spec /\ Fairness

-----------------------------------------------------------------------------
(* Correctness *)

TypeOK ==
    /\ live \in AddonState
    /\ epoch \in Nat
    /\ layout \in BOOLEAN
    /\ frame \in [epoch : Nat, baseline : AddonState, state : AddonState, mini : BOOLEAN]
    /\ raised \subseteq Kinds
    /\ saveWanted \in BOOLEAN
    /\ handed \in Config
    /\ running \subseteq Worker
    /\ cancelled \subseteq Nat
    /\ tokens \in Nat
    /\ spawned \in Nat
    /\ stamp \in Nat
    /\ edits \in [view : Nat, ui : Nat]
    /\ panics \in Nat

Runs(k) == \E w \in running : w.kind = k

(* At most one worker of a kind runs at a time.  A frame that did not see  *)
(* the raised marker of the frame before would start the work again (the   *)
(* worker storm that track_worker's comment describes).                    *)
OneWorkerPerKind == \A v, w \in running : v.kind = w.kind => v = w

(* A running worker's marker is up on the live state, during a layout and  *)
(* across every commit, so whoever reads the state sees the work.          *)
MarkerUpWhileRunning == \A w \in running : live.busy[w.kind]

(* A marker that is up has a worker that will take it down: no commit puts *)
(* a cleared marker back, however the worker's end and the frame overlap.  *)
(* It is claimed of the kinds whose workers report a cancellation.         *)
NoStrandedMarker == \A k \in Kinds \ Silent : live.busy[k] => Runs(k)

(* A marker is up exactly while its one worker runs. *)
MarkersSound == OneWorkerPerKind /\ MarkerUpWhileRunning /\ NoStrandedMarker

(* Between frames the live token is not a cancelled one, or every later    *)
(* worker would start out cancelled.                                       *)
LiveTokenFresh == ~layout => live.tok \notin cancelled

(* The same, in a session in which no layout panicked. *)
LiveTokenFreshUnlessPanic == panics = 0 => LiveTokenFresh

(* Between frames a Stop reaches every worker that is still to be stopped: *)
(* each one was told already or holds the live token.                      *)
EveryWorkerStoppable ==
    ~layout /\ panics = 0 => \A w \in running : w.tok \in cancelled \cup {live.tok}

(* A Stop reaches every running worker and none that is started later,     *)
(* wherever the frame that renews the token and the spawns overlap.        *)
TokensSound == LiveTokenFreshUnlessPanic /\ EveryWorkerStoppable

(* No commit reverts a worker's value: it is replaced only by a frame that *)
(* had seen it at capture.                                                 *)
PublishSurvivesCommit ==
    [][layout /\ ~layout' =>
         \A k \in Kinds : live'.res[k] # live.res[k] =>
                            live.res[k] = frame.baseline.res[k]]_vars

(* Between frames the live state holds every edit the player made, however *)
(* many publishes and strip frames came between.                           *)
EditsSurvive == ~layout => live.view = edits.view /\ live.cfg.ui = edits.ui

(* The configuration last handed to a saver is the live one: no save is    *)
(* taken from a frame's copy that a worker or a keybind has overtaken, and *)
(* none is missing.                                                        *)
SavedConfigIsLive == handed = live.cfg

(* Nothing the player did is lost, neither from the state nor from what    *)
(* reaches the disk.                                                       *)
EditsKept == EditsSurvive /\ SavedConfigIsLive

(* No commit takes back a configuration field that a worker or a keybind   *)
(* wrote: `kept` counts those writes, and a merge never lowers it.         *)
ConfigWritesSurvive == [][live'.cfg.kept >= live.cfg.kept]_vars

(* A marker that goes up comes down again, whatever is cancelled, panics or *)
(* is committed late, of the kinds whose workers report a cancellation.    *)
MarkersClear == \A k \in Kinds \ Silent : live.busy[k] ~> ~live.busy[k]
=============================================================================
