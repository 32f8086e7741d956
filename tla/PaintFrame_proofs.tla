-------------------------- MODULE PaintFrame_proofs --------------------------
(***************************************************************************)
(* Proofs about PaintFrame, for every set of kinds and every bound.        *)
(***************************************************************************)
EXTENDS PaintFrame, TLAPS

(* The first state and the stub a finished frame leaves are well typed. *)
LEMMA FreshType == /\ Fresh \in AddonState
                   /\ NoFrame \in [epoch : Nat, baseline : AddonState,
                                    state : AddonState, mini : BOOLEAN]
<1>1. Fresh \in AddonState
  <2>1. /\ [k \in Kinds |-> FALSE] \in [Kinds -> BOOLEAN]
        /\ [k \in Kinds |-> 0] \in [Kinds -> Nat]
        /\ [ui |-> 0, kept |-> 0] \in Config
    BY DEF Config
  <2> QED BY <2>1 DEF Fresh, AddonState
<1> QED BY <1>1 DEF NoFrame

(* What a start does to the frame: one marker and one answer. *)
LEMMA StartFrame ==
    ASSUME TypeOK, NEW k \in Kinds, Start(k)
    PROVE  /\ frame' \in [epoch : Nat, baseline : AddonState, state : AddonState,
                          mini : BOOLEAN]
           /\ frame'.state.busy = [frame.state.busy EXCEPT ![k] = TRUE]
           /\ frame'.state.cfg = frame.state.cfg
           /\ frame'.state.view = frame.state.view
           /\ frame'.state.tok = frame.state.tok
           /\ frame'.baseline = frame.baseline
           /\ frame'.epoch = frame.epoch
           /\ frame'.mini = frame.mini
<1>1. PICK answer \in {0, frame.state.res[k]} :
        frame' = [frame EXCEPT !.state.busy[k] = TRUE, !.state.res[k] = answer]
  BY DEF Start
<1>2. /\ frame \in [epoch : Nat, baseline : AddonState, state : AddonState, mini : BOOLEAN]
      /\ frame.state \in AddonState
  BY DEF TypeOK
<1>3. answer \in Nat
  BY <1>2 DEF AddonState
<1>4. frame'.state \in AddonState
  BY <1>1, <1>2, <1>3 DEF AddonState
<1>5. /\ frame'.baseline = frame.baseline /\ frame'.epoch = frame.epoch
      /\ frame'.mini = frame.mini
      /\ frame' = [frame EXCEPT !.state = frame'.state]
  BY <1>1, <1>2
<1>6. frame' \in [epoch : Nat, baseline : AddonState, state : AddonState, mini : BOOLEAN]
  BY <1>2, <1>4, <1>5
<1>7. /\ frame'.state.busy = [frame.state.busy EXCEPT ![k] = TRUE]
      /\ frame'.state.cfg = frame.state.cfg
      /\ frame'.state.view = frame.state.view
      /\ frame'.state.tok = frame.state.tok
  BY <1>1, <1>2 DEF AddonState
<1> QED BY <1>5, <1>6, <1>7

(* Every state component keeps its type: the record that commit or a       *)
(* worker builds is always a whole AddonState.                             *)
THEOREM TypeCorrect == Spec => []TypeOK
<1>1. Init => TypeOK
  <2>1. Fresh.cfg \in Config
    BY FreshType DEF AddonState
  <2>2. [view |-> 0, ui |-> 0] \in [view : Nat, ui : Nat]
    OBVIOUS
  <2> SUFFICES ASSUME Init PROVE TypeOK
    OBVIOUS
  <2>3. live \in AddonState /\ handed \in Config
    BY <2>1, FreshType DEF Init
  <2>4. frame \in [epoch : Nat, baseline : AddonState, state : AddonState, mini : BOOLEAN]
    BY FreshType DEF Init
  <2>5. /\ raised \subseteq Kinds /\ running \subseteq Worker /\ cancelled \subseteq Nat
        /\ edits \in [view : Nat, ui : Nat]
    BY <2>2 DEF Init
  <2>6. /\ epoch \in Nat /\ tokens \in Nat /\ spawned \in Nat /\ stamp \in Nat
        /\ panics \in Nat /\ layout \in BOOLEAN /\ saveWanted \in BOOLEAN
    BY DEF Init
  <2> QED BY <2>3, <2>4, <2>5, <2>6 DEF TypeOK
<1>2. TypeOK /\ [Next]_vars => TypeOK'
  <2> SUFFICES ASSUME TypeOK, [Next]_vars PROVE TypeOK'
    OBVIOUS
  <2> USE DEF TypeOK
  <2>1. CASE CaptureMain
    <3>1. live' \in AddonState /\ edits' \in [view : Nat, ui : Nat]
      <4>1. PICK moved \in {0, 1} : /\ live' = [live EXCEPT !.cfg.ui = @ + moved]
                                    /\ edits' = [edits EXCEPT !.ui = @ + moved]
        BY <2>1 DEF CaptureMain
      <4> QED BY <4>1 DEF AddonState, Config
    <3>2. handed' \in Config
      BY <3>1, <2>1 DEF CaptureMain, AddonState
    <3>3. frame' \in [epoch : Nat, baseline : AddonState, state : AddonState, mini : BOOLEAN]
      BY <3>1, <2>1 DEF CaptureMain
    <3> QED BY <3>1, <3>2, <3>3, <2>1 DEF CaptureMain
  <2>2. CASE CaptureMini
    BY <2>2 DEF CaptureMini, CloneForMini, Fresh, AddonState, Config
  <2>3. CASE EditView
    BY <2>3 DEF EditView, AddonState
  <2>4. CASE EditConfig
    <3>1. frame.state \in AddonState /\ frame.state.cfg \in Config
      BY DEF AddonState
    <3>2. [frame.state EXCEPT !.cfg.ui = @ + 1] \in AddonState
      BY <3>1 DEF AddonState, Config
    <3>3. frame' = [frame EXCEPT !.state = [frame.state EXCEPT !.cfg.ui = @ + 1]]
      BY <2>4 DEF EditConfig
    <3>4. frame' \in [epoch : Nat, baseline : AddonState, state : AddonState, mini : BOOLEAN]
      BY <3>2, <3>3
    <3> QED BY <3>4, <2>4 DEF EditConfig
  <2>5. ASSUME NEW k \in Kinds, Start(k) PROVE TypeOK'
    <3>1. frame' \in [epoch : Nat, baseline : AddonState, state : AddonState, mini : BOOLEAN]
      BY <2>5, StartFrame
    <3>2. live' \in AddonState /\ raised' \subseteq Kinds
      BY <2>5 DEF Start, PublishRaisedBusy, RaisedIn, AddonState
    <3>3. running' \subseteq Worker
      BY <2>5 DEF Start, Worker, AddonState
    <3> QED BY <3>1, <3>2, <3>3, <2>5 DEF Start
  <2>6. ASSUME NEW k \in Kinds, StartRefused(k) PROVE TypeOK'
    BY <2>6 DEF StartRefused, AddonState
  <2>7. CASE Stop
    BY <2>7 DEF Stop, AddonState
  <2>8. CASE Commit
    <3>1. live' \in AddonState
      BY <2>8 DEF Commit, Committed, MergePaint, MergeMiniPaint, MergeBusy, KeepWorker, TakeUi,
                  MergeConfig, TakeRenewed, AddonState, Config
    <3>2. live'.cfg \in Config
      BY <3>1 DEF AddonState
    <3>3. handed' \in Config
      BY <3>2, <2>8 DEF Commit
    <3>4. frame' = NoFrame
      BY <2>8 DEF Commit
    <3> QED BY <3>1, <3>3, <3>4, FreshType, <2>8 DEF Commit
  <2>9. CASE LayoutPanics
    <3>1. edits' \in [view : Nat, ui : Nat]
      BY <2>9 DEF LayoutPanics, AddonState, Config
    <3>2. frame' \in [epoch : Nat, baseline : AddonState, state : AddonState, mini : BOOLEAN]
      BY <2>9, FreshType DEF LayoutPanics
    <3>3. /\ raised' = {} /\ saveWanted' = FALSE /\ layout' = FALSE /\ panics' \in Nat
          /\ UNCHANGED <<live, epoch, handed, running, cancelled, tokens, spawned, stamp>>
      BY <2>9 DEF LayoutPanics
    <3> QED BY <3>1, <3>2, <3>3
  <2>10. ASSUME NEW w \in running, WorkerPublish(w) PROVE TypeOK'
    <3>1. w.kind \in Kinds
      BY DEF Worker
    <3>2. live' \in AddonState
      BY <3>1, <2>10 DEF WorkerPublish, AddonState
    <3> QED BY <3>2, <2>10 DEF WorkerPublish
  <2>11. ASSUME NEW w \in running, WorkerFinish(w) PROVE TypeOK'
    <3>1. w.kind \in Kinds
      BY DEF Worker
    <3>2. live' \in AddonState
      <4> DEFINE busy == [live.busy EXCEPT ![w.kind] = FALSE]
                 res  == [live.res EXCEPT ![w.kind] = stamp']
      <4>1. live' = [live EXCEPT !.busy = busy, !.res = res] /\ stamp' \in Nat
        BY <2>11 DEF WorkerFinish, AddonState
      <4>2. busy \in [Kinds -> BOOLEAN] /\ res \in [Kinds -> Nat]
        BY <3>1, <4>1 DEF AddonState
      <4> HIDE DEF busy, res
      <4> QED BY <4>1, <4>2 DEF AddonState
    <3> QED BY <3>2, <2>11 DEF WorkerFinish
  <2>12. ASSUME NEW w \in running, WorkerGivesUp(w) PROVE TypeOK'
    <3>1. w.kind \in Kinds
      BY DEF Worker
    <3>2. live' \in AddonState
      BY <3>1, <2>12 DEF WorkerGivesUp, AddonState
    <3> QED BY <3>2, <2>12 DEF WorkerGivesUp
  <2>13. ASSUME NEW w \in running, WorkerReturnsSilently(w) PROVE TypeOK'
    BY <2>13 DEF WorkerReturnsSilently, Worker
  <2>14. ASSUME NEW w \in running, WorkerChains(w) PROVE TypeOK'
    <3>1. w.kind \in Kinds
      BY DEF Worker
    <3>2. live' \in AddonState
      BY <3>1, <2>14 DEF WorkerChains, AddonState
    <3>3. running' \subseteq Worker
      BY <3>1, <2>14 DEF WorkerChains, Worker, AddonState
    <3> QED BY <3>2, <3>3, <2>14 DEF WorkerChains
  <2>15. CASE OffRenderConfig \/ CloseWindow
    <3>1. live' \in AddonState /\ handed' \in Config
      BY <2>15 DEF OffRenderConfig, CloseWindow, AddonState, Config
    <3> QED BY <3>1, <2>15 DEF OffRenderConfig, CloseWindow
  <2>16. CASE UNCHANGED vars
    BY <2>16 DEF vars
  <2> QED
    BY <2>1, <2>2, <2>3, <2>4, <2>5, <2>6, <2>7, <2>8, <2>9, <2>10, <2>11, <2>12, <2>13,
       <2>14, <2>15, <2>16
    DEF Next, Render, WorkerStep, WorkerEnds
<1> QED BY <1>1, <1>2, PTL DEF Spec

-----------------------------------------------------------------------------
(* The inductive invariants *)

(* What the frame being laid out knows of the markers. *)
FrameMarkers ==
    layout /\ ~frame.mini =>
        /\ \A k \in Kinds : frame.baseline.busy[k] => frame.state.busy[k]
        /\ \A k \in Kinds : frame.state.busy[k] /\ ~frame.baseline.busy[k] => k \in raised
        /\ \A k \in raised : frame.state.busy[k]
        /\ \A k \in Kinds : ~frame.state.busy[k] => ~Runs(k)
        /\ epoch = frame.epoch => frame.state.busy = live.busy

FrameNotAhead == layout => frame.epoch <= epoch

BusyInv == /\ FrameNotAhead
           /\ FrameMarkers
           /\ OneWorkerPerKind
           /\ MarkerUpWhileRunning
           /\ NoStrandedMarker

(* Who may differ from the baseline in the settings and the view, and when. *)
FrameEdits ==
    /\ layout => /\ live.cfg.ui = frame.baseline.cfg.ui
                 /\ frame.state.cfg.ui = edits.ui
                 /\ ~saveWanted => frame.state.cfg = frame.baseline.cfg
                 /\ epoch = frame.epoch => live.cfg = frame.baseline.cfg
                 /\ frame.state.cfg.kept = frame.baseline.cfg.kept
    /\ layout /\ ~frame.mini => /\ live.view = frame.baseline.view
                                /\ frame.state.view = edits.view
    /\ layout /\ frame.mini => live.view = edits.view

EditInv == /\ FrameNotAhead
           /\ FrameEdits
           /\ EditsSurvive
           /\ SavedConfigIsLive

(* An unchanged epoch means that no worker published since the capture. *)
ResInv == /\ FrameNotAhead
          /\ layout /\ ~frame.mini /\ epoch = frame.epoch => live.res = frame.baseline.res

(* A token is renewed in the frame first and reaches live with the commit. *)
TokenInv ==
    /\ live.tok < tokens
    /\ \A t \in cancelled : t < tokens
    /\ layout => /\ frame.state.tok < tokens
                 /\ live.tok = frame.baseline.tok
                 /\ frame.mini => frame.state.tok = frame.baseline.tok
    /\ panics = 0 /\ ~layout =>
         /\ live.tok \notin cancelled
         /\ \A w \in running : w.tok \in cancelled \cup {live.tok}
    /\ panics = 0 /\ layout =>
         /\ frame.state.tok \notin cancelled
         /\ frame.state.tok # live.tok => live.tok \in cancelled
         /\ \A w \in running : w.tok \in cancelled \cup {frame.state.tok}

-----------------------------------------------------------------------------
(* The markers *)

(* What a commit does to the markers: nothing.  Those the frame raised are *)
(* on live already, and those that came down since stay down.              *)
LEMMA CommitKeepsMarkers == ASSUME TypeOK, BusyInv, Commit
                            PROVE  live'.busy = live.busy
<1> USE DEF TypeOK
<1>0. live \in AddonState /\ frame.state \in AddonState /\ frame.baseline \in AddonState
  OBVIOUS
<1>1. CASE frame.mini
  BY <1>0, <1>1 DEF Commit, Committed, MergeMiniPaint, AddonState
<1>2. CASE ~frame.mini /\ epoch = frame.epoch
  BY <1>2 DEF Commit, Committed, BusyInv, FrameMarkers
<1>3. CASE ~frame.mini /\ epoch # frame.epoch
  <2>1. live'.busy = [k \in Kinds |-> MergeBusy(live.busy[k], frame.baseline.busy[k],
                                                frame.state.busy[k])]
    BY <1>3 DEF Commit, Committed, MergePaint
  <2>2. ASSUME NEW k \in Kinds
        PROVE  MergeBusy(live.busy[k], frame.baseline.busy[k], frame.state.busy[k]) = live.busy[k]
    <3>1. /\ live.busy[k] \in BOOLEAN /\ frame.state.busy[k] \in BOOLEAN
          /\ frame.baseline.busy[k] \in BOOLEAN
      BY <1>0 DEF AddonState
    <3>2. frame.baseline.busy[k] => frame.state.busy[k]
      BY <1>3 DEF BusyInv, FrameMarkers, Commit
    <3> QED BY <3>1, <3>2 DEF MergeBusy
  <2> QED BY <2>1, <2>2, <1>0 DEF AddonState
<1> QED BY <1>1, <1>2, <1>3

(* What a start does: it raises this one marker, in the frame and on live. *)
LEMMA StartRaisesOne ==
    ASSUME TypeOK, BusyInv, NEW k \in Kinds, Start(k)
    PROVE  /\ frame'.state.busy = [frame.state.busy EXCEPT ![k] = TRUE]
           /\ live'.busy = [live.busy EXCEPT ![k] = TRUE]
           /\ raised' = raised \cup {k}
           /\ frame'.baseline = frame.baseline
           /\ frame'.epoch = frame.epoch
           /\ frame'.mini = frame.mini
<1> USE DEF TypeOK
<1>0. live \in AddonState /\ frame.state \in AddonState /\ frame.baseline \in AddonState
  OBVIOUS
<1>2. /\ frame'.state.busy = [frame.state.busy EXCEPT ![k] = TRUE]
      /\ frame'.baseline = frame.baseline
      /\ frame'.epoch = frame.epoch
      /\ frame'.mini = frame.mini
  BY StartFrame
<1>3. RaisedIn(frame'.state, frame.baseline) = {k}
  <2>1. ~frame.state.busy[k] /\ layout /\ ~frame.mini
    BY DEF Start
  <2>2. ~frame.baseline.busy[k] /\ k \notin raised
    BY <2>1 DEF BusyInv, FrameMarkers
  <2>3. \A j \in Kinds : frame.state.busy[j] /\ ~frame.baseline.busy[j] => j \in raised
    BY <2>1 DEF BusyInv, FrameMarkers
  <2>4. frame.state.busy \in [Kinds -> BOOLEAN]
    BY <1>0 DEF AddonState
  <2> QED BY <1>2, <2>2, <2>3, <2>4 DEF RaisedIn
<1>4. raised' = raised \cup {k}
  BY <1>3 DEF Start, PublishRaisedBusy
<1>5. live'.busy = [live.busy EXCEPT ![k] = TRUE]
  <2>1. live'.busy = [j \in Kinds |-> live.busy[j] \/ j \in {k}]
    BY <1>0, <1>3 DEF Start, PublishRaisedBusy, AddonState
  <2> QED BY <2>1, <1>0 DEF AddonState
<1> QED BY <1>2, <1>4, <1>5

(* Steps that touch neither a marker, a worker nor the frame's copy of the *)
(* markers.                                                                *)
LEMMA MarkersUntouched ==
    ASSUME TypeOK, BusyInv, layout' = layout, frame'.epoch = frame.epoch,
           frame'.mini = frame.mini, frame'.state.busy = frame.state.busy,
           frame'.baseline.busy = frame.baseline.busy, raised' = raised,
           live'.busy = live.busy, running' = running,
           epoch' = epoch \/ epoch' = epoch + 1
    PROVE  BusyInv'
<1>1. FrameNotAhead'
  BY DEF BusyInv, FrameNotAhead, TypeOK
<1>2. FrameMarkers'
  BY DEF BusyInv, FrameNotAhead, FrameMarkers, TypeOK, Runs
<1>3. OneWorkerPerKind' /\ MarkerUpWhileRunning' /\ NoStrandedMarker'
  BY DEF BusyInv, OneWorkerPerKind, MarkerUpWhileRunning, NoStrandedMarker, Runs
<1> QED BY <1>1, <1>2, <1>3 DEF BusyInv

(* Steps in which a worker's thread ends: its marker comes down, or its    *)
(* kind is silent.                                                         *)
LEMMA WorkerGone ==
    ASSUME TypeOK, BusyInv, NEW w \in running,
           UNCHANGED <<layout, frame, raised>>, running' = running \ {w},
           \/ live'.busy = [live.busy EXCEPT ![w.kind] = FALSE] /\ epoch' = epoch + 1
           \/ live'.busy = live.busy /\ epoch' = epoch /\ w.kind \in Silent
    PROVE  BusyInv'
<1>0. w.kind \in Kinds /\ live.busy \in [Kinds -> BOOLEAN]
  BY DEF TypeOK, Worker, AddonState
<1>1. FrameNotAhead'
  BY DEF BusyInv, FrameNotAhead, TypeOK
<1>2. FrameMarkers'
  <2>1. \A k \in Kinds : Runs(k)' => Runs(k)
    BY DEF Runs
  <2>2. epoch' = frame'.epoch /\ layout => live'.busy = live.busy /\ epoch' = epoch
    BY DEF BusyInv, FrameNotAhead, TypeOK
  <2> QED BY <2>1, <2>2 DEF BusyInv, FrameMarkers
<1>3. OneWorkerPerKind'
  BY DEF BusyInv, OneWorkerPerKind
<1>4. MarkerUpWhileRunning'
  <2> SUFFICES ASSUME NEW v \in running' PROVE live'.busy[v.kind]
    BY DEF MarkerUpWhileRunning
  <2>1. v \in running /\ v # w /\ live.busy[v.kind]
    BY DEF BusyInv, MarkerUpWhileRunning
  <2>2. v.kind # w.kind
    BY <2>1 DEF BusyInv, OneWorkerPerKind
  <2>3. v.kind \in Kinds
    BY <2>1 DEF TypeOK, Worker
  <2> QED BY <1>0, <2>1, <2>2, <2>3
<1>5. NoStrandedMarker'
  <2> SUFFICES ASSUME NEW k \in Kinds \ Silent, live'.busy[k] PROVE Runs(k)'
    BY DEF NoStrandedMarker
  <2>1. k # w.kind /\ live.busy[k]
    BY <1>0
  <2>2. PICK v \in running : v.kind = k
    BY <2>1 DEF BusyInv, NoStrandedMarker, Runs
  <2> QED BY <2>1, <2>2 DEF Runs
<1> QED BY <1>1, <1>2, <1>3, <1>4, <1>5 DEF BusyInv

(* Every step keeps the markers and the workers in agreement.              *)
LEMMA MarkersStep == ASSUME TypeOK, BusyInv, [Next]_vars PROVE BusyInv'
<1> USE DEF TypeOK
<1>0. live \in AddonState /\ frame.state \in AddonState /\ frame.baseline \in AddonState
  OBVIOUS
<1>1. CASE CaptureMain
  <2>1. live'.busy = live.busy
    BY <1>0, <1>1 DEF CaptureMain, AddonState
  <2>2. /\ frame'.state = live' /\ frame'.baseline = live' /\ frame'.epoch = epoch
        /\ raised' = {} /\ epoch' = epoch /\ running' = running
    BY <1>1 DEF CaptureMain
  <2>3. FrameNotAhead'
    BY <2>2 DEF FrameNotAhead
  <2>4. \A k \in Kinds : ~live'.busy[k] => ~Runs(k)'
    BY <2>1, <2>2 DEF BusyInv, MarkerUpWhileRunning, Runs
  <2>5. FrameMarkers'
    BY <2>2, <2>4 DEF FrameMarkers
  <2>6. OneWorkerPerKind' /\ MarkerUpWhileRunning' /\ NoStrandedMarker'
    BY <2>1, <2>2 DEF BusyInv, OneWorkerPerKind, MarkerUpWhileRunning, NoStrandedMarker, Runs
  <2> QED BY <2>3, <2>5, <2>6 DEF BusyInv
<1>2. CASE CaptureMini
  <2>1. /\ frame'.mini = TRUE /\ frame'.epoch = epoch /\ epoch' = epoch
        /\ live' = live /\ running' = running
    BY <1>2 DEF CaptureMini
  <2>2. FrameNotAhead' /\ FrameMarkers'
    BY <2>1 DEF FrameNotAhead, FrameMarkers
  <2> QED BY <2>1, <2>2 DEF BusyInv, OneWorkerPerKind, MarkerUpWhileRunning,
                            NoStrandedMarker, Runs
<1>3. CASE EditView
  <2>1. /\ frame'.epoch = frame.epoch /\ frame'.mini = frame.mini
        /\ frame'.state.busy = frame.state.busy /\ frame'.baseline = frame.baseline
    BY <1>0, <1>3 DEF EditView, AddonState
  <2> QED BY <2>1, <1>3, MarkersUntouched DEF EditView
<1>4. CASE EditConfig
  <2>1. /\ frame'.epoch = frame.epoch /\ frame'.mini = frame.mini
        /\ frame'.state.busy = frame.state.busy /\ frame'.baseline = frame.baseline
    BY <1>0, <1>4 DEF EditConfig, AddonState
  <2> QED BY <2>1, <1>4, MarkersUntouched DEF EditConfig
<1>5. ASSUME NEW k \in Kinds, Start(k) PROVE BusyInv'
  <2> DEFINE started == [kind |-> k, tok |-> frame.state.tok, id |-> spawned]
  <2>1. /\ layout /\ ~frame.mini /\ ~frame.state.busy[k] /\ layout' /\ epoch' = epoch
        /\ running' = running \cup {started}
    BY <1>5 DEF Start
  <2>2. /\ frame'.state.busy = [frame.state.busy EXCEPT ![k] = TRUE]
        /\ live'.busy = [live.busy EXCEPT ![k] = TRUE]
        /\ raised' = raised \cup {k}
        /\ frame'.baseline = frame.baseline /\ frame'.epoch = frame.epoch
        /\ frame'.mini = frame.mini
    BY <1>5, StartRaisesOne
  <2>3. frame.state.busy \in [Kinds -> BOOLEAN] /\ live.busy \in [Kinds -> BOOLEAN]
    BY <1>0 DEF AddonState
  <2>4. \A v \in running : v.kind # k
    BY <2>1 DEF BusyInv, FrameMarkers, Runs
  <2>5. started.kind = k
    OBVIOUS
  <2> HIDE DEF started
  <2>6. FrameNotAhead'
    BY <2>1, <2>2 DEF BusyInv, FrameNotAhead
  <2>7. FrameMarkers'
    <3>1. \A j \in Kinds : Runs(j)' => Runs(j) \/ j = k
      BY <2>1, <2>5 DEF Runs
    <3>2. \A j \in Kinds : frame'.state.busy[j] <=> j = k \/ frame.state.busy[j]
      BY <2>2, <2>3
    <3>3. /\ \A j \in Kinds : frame.baseline.busy[j] => frame.state.busy[j]
          /\ \A j \in Kinds : frame.state.busy[j] /\ ~frame.baseline.busy[j] => j \in raised
          /\ \A j \in raised : frame.state.busy[j]
          /\ \A j \in Kinds : ~frame.state.busy[j] => ~Runs(j)
          /\ epoch = frame.epoch => frame.state.busy = live.busy
      BY <2>1 DEF BusyInv, FrameMarkers
    <3>4. epoch = frame.epoch => frame'.state.busy = live'.busy
      BY <2>2, <3>3
    <3>5. \A j \in raised' : frame'.state.busy[j]
      BY <2>2, <2>3, <3>3
    <3>6. \A j \in Kinds : ~frame'.state.busy[j] => ~Runs(j)'
      BY <3>1, <3>2, <3>3
    <3>7. \A j \in Kinds : /\ frame'.baseline.busy[j] => frame'.state.busy[j]
                           /\ frame'.state.busy[j] /\ ~frame'.baseline.busy[j] => j \in raised'
      BY <2>2, <3>2, <3>3
    <3> QED BY <2>1, <2>2, <3>4, <3>5, <3>6, <3>7 DEF FrameMarkers
  <2>8. OneWorkerPerKind'
    BY <2>1, <2>4, <2>5 DEF BusyInv, OneWorkerPerKind
  <2>9. MarkerUpWhileRunning'
    <3>1. \A v \in running : v.kind \in Kinds
      BY DEF Worker
    <3> QED BY <2>1, <2>2, <2>3, <2>5, <3>1 DEF BusyInv, MarkerUpWhileRunning
  <2>10. NoStrandedMarker'
    BY <2>1, <2>2, <2>3, <2>5 DEF BusyInv, NoStrandedMarker, Runs
  <2> QED BY <2>6, <2>7, <2>8, <2>9, <2>10 DEF BusyInv
<1>6. ASSUME NEW k \in Kinds, StartRefused(k) PROVE BusyInv'
  <2>1. /\ frame'.epoch = frame.epoch /\ frame'.mini = frame.mini
        /\ frame'.state.busy = frame.state.busy /\ frame'.baseline = frame.baseline
    BY <1>0, <1>6 DEF StartRefused, AddonState
  <2> QED BY <2>1, <1>6, MarkersUntouched DEF StartRefused
<1>7. CASE Stop
  <2>1. /\ frame'.epoch = frame.epoch /\ frame'.mini = frame.mini
        /\ frame'.state.busy = frame.state.busy /\ frame'.baseline = frame.baseline
    BY <1>0, <1>7 DEF Stop, AddonState
  <2> QED BY <2>1, <1>7, MarkersUntouched DEF Stop
<1>8. CASE Commit
  <2>1. live'.busy = live.busy /\ running' = running /\ ~layout'
    BY <1>8, CommitKeepsMarkers DEF Commit
  <2> QED BY <2>1 DEF BusyInv, FrameNotAhead, FrameMarkers, OneWorkerPerKind,
                      MarkerUpWhileRunning, NoStrandedMarker, Runs
<1>9. CASE LayoutPanics
  <2>1. live' = live /\ running' = running /\ ~layout'
    BY <1>9 DEF LayoutPanics
  <2> QED BY <2>1 DEF BusyInv, FrameNotAhead, FrameMarkers, OneWorkerPerKind,
                      MarkerUpWhileRunning, NoStrandedMarker, Runs
<1>10. ASSUME NEW w \in running, WorkerPublish(w) PROVE BusyInv'
  <2>1. live'.busy = live.busy
    BY <1>0, <1>10 DEF WorkerPublish, AddonState
  <2> QED BY <2>1, <1>10, MarkersUntouched DEF WorkerPublish
<1>11. ASSUME NEW w \in running, WorkerFinish(w) PROVE BusyInv'
  <2>1. live'.busy = [live.busy EXCEPT ![w.kind] = FALSE]
    BY <1>0, <1>11 DEF WorkerFinish, AddonState
  <2> QED BY <2>1, <1>11, WorkerGone DEF WorkerFinish
<1>12. ASSUME NEW w \in running, WorkerGivesUp(w) PROVE BusyInv'
  <2>1. live'.busy = [live.busy EXCEPT ![w.kind] = FALSE]
    BY <1>0, <1>12 DEF WorkerGivesUp, AddonState
  <2> QED BY <2>1, <1>12, WorkerGone DEF WorkerGivesUp
<1>13. ASSUME NEW w \in running, WorkerReturnsSilently(w) PROVE BusyInv'
  BY <1>13, WorkerGone DEF WorkerReturnsSilently
<1>14. ASSUME NEW w \in running, WorkerChains(w) PROVE BusyInv'
  <2> DEFINE next == [kind |-> w.kind, tok |-> live.tok, id |-> spawned]
  <2>1. /\ running' = (running \ {w}) \cup {next} /\ epoch' = epoch + 1
        /\ UNCHANGED <<layout, frame, raised>>
    BY <1>14 DEF WorkerChains
  <2>2. next.kind = w.kind /\ w.kind \in Kinds
    BY DEF Worker
  <2> HIDE DEF next
  <2>3. live.busy[w.kind] /\ live.busy \in [Kinds -> BOOLEAN]
    BY <1>0 DEF BusyInv, MarkerUpWhileRunning, AddonState
  <2>4. live'.busy = live.busy
    BY <1>0, <1>14, <2>2, <2>3 DEF WorkerChains, AddonState
  <2>5. FrameNotAhead'
    BY <2>1 DEF BusyInv, FrameNotAhead
  <2>6. FrameMarkers'
    <3>1. \A k \in Kinds : Runs(k)' => Runs(k)
      BY <2>1, <2>2 DEF Runs
    <3>2. layout => epoch' # frame'.epoch
      BY <2>1 DEF BusyInv, FrameNotAhead
    <3> QED BY <2>1, <3>1, <3>2 DEF BusyInv, FrameMarkers
  <2>7. OneWorkerPerKind'
    BY <2>1, <2>2 DEF BusyInv, OneWorkerPerKind
  <2>8. MarkerUpWhileRunning'
    BY <2>1, <2>2, <2>3, <2>4 DEF BusyInv, MarkerUpWhileRunning
  <2>9. NoStrandedMarker'
    BY <2>1, <2>2, <2>4 DEF BusyInv, NoStrandedMarker, Runs
  <2> QED BY <2>5, <2>6, <2>7, <2>8, <2>9 DEF BusyInv
<1>15. CASE OffRenderConfig \/ CloseWindow
  <2>1. live'.busy = live.busy
    BY <1>0, <1>15 DEF OffRenderConfig, CloseWindow, AddonState
  <2> QED BY <2>1, <1>15, MarkersUntouched DEF OffRenderConfig, CloseWindow
<1>16. CASE UNCHANGED vars
  BY <1>16, MarkersUntouched DEF vars
<1> QED
  BY <1>1, <1>2, <1>3, <1>4, <1>5, <1>6, <1>7, <1>8, <1>9, <1>10, <1>11, <1>12, <1>13,
     <1>14, <1>15, <1>16
  DEF Next, Render, WorkerStep, WorkerEnds

(* No kind of work ever runs twice, every running worker shows its marker, *)
(* and no marker of a kind that reports its cancellation outlives its      *)
(* worker: the frame protocol around merge_busy and PAINT_RAISED.          *)
THEOREM MarkersCorrect ==
    Spec => []MarkersSound
<1>1. Init => BusyInv
  <2> SUFFICES ASSUME Init PROVE BusyInv
    OBVIOUS
  <2>1. ~layout /\ running = {} /\ \A k \in Kinds : ~live.busy[k]
    BY DEF Init, Fresh
  <2> QED BY <2>1 DEF BusyInv, FrameNotAhead, FrameMarkers, OneWorkerPerKind,
                      MarkerUpWhileRunning, NoStrandedMarker
<1>2. TypeOK /\ BusyInv /\ [Next]_vars => BusyInv'
  BY MarkersStep
<1>3. BusyInv => MarkersSound
  BY DEF BusyInv, MarkersSound
<1> QED BY <1>1, <1>2, <1>3, TypeCorrect, PTL DEF Spec

-----------------------------------------------------------------------------
(* The player's edits and the saved configuration *)

(* Steps of the workers: neither the frame nor what the player edits moves. *)
LEMMA EditsUntouched ==
    ASSUME TypeOK, EditInv, UNCHANGED <<layout, frame, saveWanted, handed, edits>>,
           live'.cfg = live.cfg, live'.view = live.view,
           epoch' = epoch \/ epoch' = epoch + 1
    PROVE  EditInv'
<1>1. FrameNotAhead'
  BY DEF EditInv, FrameNotAhead, TypeOK
<1>2. FrameEdits'
  BY DEF EditInv, FrameNotAhead, FrameEdits, TypeOK
<1>3. EditsSurvive' /\ SavedConfigIsLive'
  BY DEF EditInv, EditsSurvive, SavedConfigIsLive
<1> QED BY <1>1, <1>2, <1>3 DEF EditInv

(* Steps of the frame's layout that leave its settings and its view alone. *)
LEMMA LayoutLeavesEdits ==
    ASSUME EditInv, layout, UNCHANGED <<layout, saveWanted, handed, edits, epoch>>,
           live'.cfg = live.cfg, live'.view = live.view,
           frame'.epoch = frame.epoch, frame'.mini = frame.mini,
           frame'.state.cfg = frame.state.cfg, frame'.state.view = frame.state.view,
           frame'.baseline = frame.baseline
    PROVE  EditInv'
BY DEF EditInv, FrameNotAhead, FrameEdits, EditsSurvive, SavedConfigIsLive

(* What a commit leaves of the player's edits: all of them.  And it hands  *)
(* the configuration to a saver whenever it changes it.                    *)
LEMMA CommitKeepsEdits ==
    ASSUME TypeOK, EditInv, Commit
    PROVE  live'.view = edits.view /\ live'.cfg.ui = edits.ui /\ handed' = live'.cfg
<1> USE DEF TypeOK
<1>0. /\ live \in AddonState /\ frame.state \in AddonState /\ frame.baseline \in AddonState
      /\ live.cfg \in Config /\ frame.state.cfg \in Config /\ frame.baseline.cfg \in Config
  BY DEF AddonState
<1> DEFINE merged == MergeConfig(live.cfg, frame.baseline.cfg, frame.state.cfg)
<1>1. merged.ui = edits.ui /\ (~saveWanted => merged = live.cfg)
  BY <1>0 DEF EditInv, FrameEdits, MergeConfig, Commit, Config
<1>2. handed = live.cfg /\ layout /\ handed' = IF saveWanted THEN live'.cfg ELSE handed
  BY DEF EditInv, SavedConfigIsLive, Commit
<1>3. CASE frame.mini
  <2>1. live'.cfg = merged /\ live'.view = live.view
    BY <1>0, <1>3 DEF Commit, Committed, MergeMiniPaint, AddonState
  <2> QED BY <1>1, <1>2, <1>3, <2>1 DEF EditInv, FrameEdits
<1>4. CASE ~frame.mini /\ epoch = frame.epoch
  <2>1. live' = frame.state
    BY <1>4 DEF Commit, Committed
  <2> QED BY <1>2, <1>4, <2>1 DEF EditInv, FrameEdits
<1>5. CASE ~frame.mini /\ epoch # frame.epoch
  <2>1. /\ live'.cfg = merged
        /\ live'.view = TakeUi(live.view, frame.baseline.view, frame.state.view)
    BY <1>5 DEF Commit, Committed, MergePaint
  <2>2. live'.view = edits.view
    BY <1>2, <1>5, <2>1 DEF EditInv, FrameEdits, TakeUi
  <2> QED BY <1>1, <1>2, <2>1, <2>2
<1> QED BY <1>3, <1>4, <1>5

(* Every step keeps the edits and the saved configuration in agreement     *)
(* with the live state.                                                    *)
LEMMA EditsStep == ASSUME TypeOK, EditInv, [Next]_vars PROVE EditInv'
<1> USE DEF TypeOK
<1>0. /\ live \in AddonState /\ frame.state \in AddonState /\ frame.baseline \in AddonState
      /\ live.cfg \in Config /\ frame.state.cfg \in Config /\ frame.baseline.cfg \in Config
  BY DEF AddonState
<1>1. CASE CaptureMain
  <2>1. PICK moved \in {0, 1} : /\ live' = [live EXCEPT !.cfg.ui = @ + moved]
                                /\ edits' = [edits EXCEPT !.ui = @ + moved]
                                /\ handed' = IF moved = 1 THEN live'.cfg ELSE handed
    BY <1>1 DEF CaptureMain
  <2>2. /\ live'.cfg.ui = live.cfg.ui + moved /\ live'.view = live.view
        /\ edits'.ui = edits.ui + moved /\ edits'.view = edits.view
    BY <1>0, <2>1 DEF AddonState, Config
  <2>3. /\ frame'.state = live' /\ frame'.baseline = live' /\ frame'.epoch = epoch
        /\ frame'.mini = FALSE /\ epoch' = epoch /\ layout' /\ ~layout
    BY <1>1 DEF CaptureMain
  <2>4. live'.cfg.ui = edits'.ui /\ live'.view = edits'.view
    BY <2>2, <2>3 DEF EditInv, EditsSurvive
  <2>5. handed' = live'.cfg
    <3>1. CASE moved = 1
      BY <2>1, <3>1
    <3>2. CASE moved = 0
      <4>1. live' = live
        BY <1>0, <2>1, <3>2 DEF AddonState, Config
      <4> QED BY <2>1, <3>2, <4>1 DEF EditInv, SavedConfigIsLive
    <3> QED BY <3>1, <3>2
  <2> QED BY <2>3, <2>4, <2>5 DEF EditInv, FrameNotAhead, FrameEdits, EditsSurvive, SavedConfigIsLive
<1>2. CASE CaptureMini
  <2>1. /\ frame'.state.cfg = live.cfg /\ frame'.baseline.cfg = live.cfg
        /\ frame'.mini = TRUE /\ frame'.epoch = epoch
    BY <1>0, <1>2 DEF CaptureMini, CloneForMini, Fresh, AddonState
  <2>2. UNCHANGED <<live, epoch, handed, edits>> /\ ~layout /\ layout'
    BY <1>2 DEF CaptureMini
  <2> QED BY <2>1, <2>2 DEF EditInv, FrameNotAhead, FrameEdits, EditsSurvive, SavedConfigIsLive
<1>3. CASE EditView
  <2>1. /\ frame'.state.cfg = frame.state.cfg /\ frame'.baseline = frame.baseline
        /\ frame'.state.view = frame.state.view + 1
        /\ frame'.epoch = frame.epoch /\ frame'.mini = frame.mini
        /\ edits'.view = edits.view + 1 /\ edits'.ui = edits.ui
    BY <1>0, <1>3 DEF EditView, AddonState
  <2>2. UNCHANGED <<live, epoch, layout, saveWanted, handed>> /\ layout /\ ~frame.mini
    BY <1>3 DEF EditView
  <2> QED BY <2>1, <2>2 DEF EditInv, FrameNotAhead, FrameEdits, EditsSurvive, SavedConfigIsLive
<1>4. CASE EditConfig
  <2>1. /\ frame'.state.cfg.ui = frame.state.cfg.ui + 1
        /\ frame'.state.cfg.kept = frame.state.cfg.kept
        /\ frame'.state.view = frame.state.view /\ frame'.baseline = frame.baseline
        /\ frame'.epoch = frame.epoch /\ frame'.mini = frame.mini
        /\ edits'.view = edits.view /\ edits'.ui = edits.ui + 1
    BY <1>0, <1>4 DEF EditConfig, AddonState, Config
  <2>2. UNCHANGED <<live, epoch, layout, handed>> /\ layout /\ saveWanted' = TRUE
    BY <1>4 DEF EditConfig
  <2> QED BY <2>1, <2>2 DEF EditInv, FrameNotAhead, FrameEdits, EditsSurvive, SavedConfigIsLive
<1>5. ASSUME NEW k \in Kinds, Start(k) PROVE EditInv'
  <2>1. /\ frame'.state.cfg = frame.state.cfg /\ frame'.state.view = frame.state.view
        /\ frame'.baseline = frame.baseline
        /\ frame'.epoch = frame.epoch /\ frame'.mini = frame.mini
    BY <1>5, StartFrame
  <2>2. live'.cfg = live.cfg /\ live'.view = live.view
    BY <1>0, <1>5 DEF Start, PublishRaisedBusy, AddonState
  <2> QED BY <2>1, <2>2, <1>5, LayoutLeavesEdits DEF Start
<1>6. ASSUME NEW k \in Kinds, StartRefused(k) PROVE EditInv'
  <2>1. /\ frame'.state.cfg = frame.state.cfg /\ frame'.state.view = frame.state.view
        /\ frame'.baseline = frame.baseline
        /\ frame'.epoch = frame.epoch /\ frame'.mini = frame.mini
    BY <1>0, <1>6 DEF StartRefused, AddonState
  <2> QED BY <2>1, <1>6, LayoutLeavesEdits DEF StartRefused
<1>7. CASE Stop
  <2>1. /\ frame'.state.cfg = frame.state.cfg /\ frame'.state.view = frame.state.view
        /\ frame'.baseline = frame.baseline
        /\ frame'.epoch = frame.epoch /\ frame'.mini = frame.mini
    BY <1>0, <1>7 DEF Stop, AddonState
  <2> QED BY <2>1, <1>7, LayoutLeavesEdits DEF Stop
<1>8. CASE Commit
  <2>1. live'.view = edits.view /\ live'.cfg.ui = edits.ui /\ handed' = live'.cfg
    BY <1>8, CommitKeepsEdits
  <2>2. ~layout' /\ edits' = edits
    BY <1>8 DEF Commit
  <2> QED BY <2>1, <2>2 DEF EditInv, FrameNotAhead, FrameEdits, EditsSurvive, SavedConfigIsLive
<1>9. CASE LayoutPanics
  <2>1. /\ ~layout' /\ edits'.view = live.view /\ edits'.ui = live.cfg.ui
        /\ live' = live /\ handed' = handed
    BY <1>9 DEF LayoutPanics
  <2> QED BY <2>1 DEF EditInv, FrameNotAhead, FrameEdits, EditsSurvive, SavedConfigIsLive
<1>10. ASSUME NEW w \in running, WorkerPublish(w) PROVE EditInv'
  <2>1. live'.cfg = live.cfg /\ live'.view = live.view
    BY <1>0, <1>10 DEF WorkerPublish, AddonState
  <2> QED BY <2>1, <1>10, EditsUntouched DEF WorkerPublish
<1>11. ASSUME NEW w \in running, WorkerFinish(w) PROVE EditInv'
  <2>1. live'.cfg = live.cfg /\ live'.view = live.view
    BY <1>0, <1>11 DEF WorkerFinish, AddonState
  <2> QED BY <2>1, <1>11, EditsUntouched DEF WorkerFinish
<1>12. ASSUME NEW w \in running, WorkerGivesUp(w) PROVE EditInv'
  <2>1. live'.cfg = live.cfg /\ live'.view = live.view
    BY <1>0, <1>12 DEF WorkerGivesUp, AddonState
  <2> QED BY <2>1, <1>12, EditsUntouched DEF WorkerGivesUp
<1>13. ASSUME NEW w \in running, WorkerReturnsSilently(w) PROVE EditInv'
  BY <1>13, EditsUntouched DEF WorkerReturnsSilently
<1>14. ASSUME NEW w \in running, WorkerChains(w) PROVE EditInv'
  <2>1. live'.cfg = live.cfg /\ live'.view = live.view
    BY <1>0, <1>14 DEF WorkerChains, AddonState
  <2> QED BY <2>1, <1>14, EditsUntouched DEF WorkerChains
<1>15. CASE OffRenderConfig
  <2>1. live'.cfg.ui = live.cfg.ui /\ live'.view = live.view
    BY <1>0, <1>15 DEF OffRenderConfig, AddonState, Config
  <2>2. /\ UNCHANGED <<layout, frame, saveWanted, edits>>
        /\ epoch' = epoch + 1 /\ handed' = live'.cfg
    BY <1>15 DEF OffRenderConfig
  <2>3. FrameNotAhead' /\ (layout => epoch' # frame'.epoch)
    BY <2>2 DEF EditInv, FrameNotAhead
  <2>4. FrameEdits'
    BY <2>1, <2>2, <2>3 DEF EditInv, FrameEdits
  <2>5. EditsSurvive' /\ SavedConfigIsLive'
    BY <2>1, <2>2 DEF EditInv, EditsSurvive, SavedConfigIsLive
  <2> QED BY <2>3, <2>4, <2>5 DEF EditInv
<1>16. CASE CloseWindow
  <2>1. live'.cfg.ui = live.cfg.ui /\ live'.view = live.view
    BY <1>0, <1>16 DEF CloseWindow, AddonState, Config
  <2>2. ~layout /\ ~layout' /\ edits' = edits /\ handed' = live'.cfg
    BY <1>16 DEF CloseWindow
  <2> QED BY <2>1, <2>2 DEF EditInv, FrameNotAhead, FrameEdits, EditsSurvive, SavedConfigIsLive
<1>17. CASE UNCHANGED vars
  BY <1>17, EditsUntouched DEF vars
<1> QED
  BY <1>1, <1>2, <1>3, <1>4, <1>5, <1>6, <1>7, <1>8, <1>9, <1>10, <1>11, <1>12, <1>13,
     <1>14, <1>15, <1>16, <1>17
  DEF Next, Render, WorkerStep, WorkerEnds

(* No interleaving of frames, publishes and off-render configuration       *)
(* writes loses an edit of the player or leaves a stale configuration with *)
(* the saver: take_ui, merge_config and the deferred save of commit.       *)
THEOREM EditsCorrect == Spec => []EditsKept
<1>1. Init => EditInv
  BY DEF Init, Fresh, EditInv, FrameNotAhead, FrameEdits, EditsSurvive, SavedConfigIsLive
<1>2. TypeOK /\ EditInv /\ [Next]_vars => EditInv'
  BY EditsStep
<1>3. EditInv => EditsKept
  BY DEF EditInv, EditsKept
<1> QED BY <1>1, <1>2, <1>3, TypeCorrect, PTL DEF Spec

(* What workers and keybinds wrote to the configuration survives commits:  *)
(* the list of fields in merge_config, and the epoch check before it.      *)
THEOREM ConfigWritesCorrect == Spec => ConfigWritesSurvive
<1>1. Init => EditInv
  BY DEF Init, Fresh, EditInv, FrameNotAhead, FrameEdits, EditsSurvive, SavedConfigIsLive
<1>2. TypeOK /\ EditInv /\ [Next]_vars => EditInv'
  BY EditsStep
<1>3. TypeOK /\ EditInv /\ [Next]_vars => [live'.cfg.kept >= live.cfg.kept]_vars
  <2> SUFFICES ASSUME TypeOK, EditInv, Next PROVE live'.cfg.kept >= live.cfg.kept
    BY DEF TypeOK
  <2>0. /\ live \in AddonState /\ frame.state \in AddonState /\ frame.baseline \in AddonState
        /\ live.cfg \in Config /\ frame.state.cfg \in Config /\ frame.baseline.cfg \in Config
        /\ live.cfg.kept \in Nat
    BY DEF TypeOK, AddonState, Config
  <2>1. CASE Commit
    <3> DEFINE merged == MergeConfig(live.cfg, frame.baseline.cfg, frame.state.cfg)
    <3>1. layout /\ frame.state.cfg.kept = frame.baseline.cfg.kept
      BY <2>1 DEF Commit, EditInv, FrameEdits
    <3>2. merged.kept = live.cfg.kept
      BY <2>0, <3>1 DEF MergeConfig, TakeUi, Config
    <3>3. CASE frame.mini
      <4>1. live'.cfg = merged
        BY <2>0, <2>1, <3>3 DEF Commit, Committed, MergeMiniPaint, AddonState
      <4> QED BY <2>0, <3>2, <4>1
    <3>4. CASE ~frame.mini /\ epoch = frame.epoch
      <4>1. live'.cfg = frame.state.cfg /\ live.cfg = frame.baseline.cfg
        BY <2>1, <3>1, <3>4 DEF Commit, Committed, EditInv, FrameEdits
      <4> QED BY <2>0, <3>1, <4>1
    <3>5. CASE ~frame.mini /\ epoch # frame.epoch
      <4>1. live'.cfg = merged
        BY <2>1, <3>5 DEF Commit, Committed, MergePaint
      <4> QED BY <2>0, <3>2, <4>1
    <3> QED BY <3>3, <3>4, <3>5
  <2>2. CASE CaptureMain \/ OffRenderConfig \/ CloseWindow
    BY <2>0, <2>2 DEF CaptureMain, OffRenderConfig, CloseWindow, AddonState, Config
  <2>3. CASE CaptureMini \/ EditView \/ EditConfig \/ Stop \/ LayoutPanics
             \/ \E k \in Kinds : Start(k) \/ StartRefused(k)
    <3>1. live'.cfg = live.cfg
      BY <2>0, <2>3 DEF CaptureMini, EditView, EditConfig, Stop, LayoutPanics, Start,
                        StartRefused, PublishRaisedBusy, AddonState
    <3> QED BY <2>0, <3>1
  <2>4. CASE \E w \in running : WorkerStep(w)
    <3>1. live'.cfg = live.cfg
      BY <2>0, <2>4 DEF WorkerStep, WorkerEnds, WorkerPublish, WorkerFinish, WorkerGivesUp,
                        WorkerReturnsSilently, WorkerChains, AddonState
    <3> QED BY <2>0, <3>1
  <2> QED BY <2>1, <2>2, <2>3, <2>4 DEF Next, Render
<1> QED BY <1>1, <1>2, <1>3, TypeCorrect, PTL DEF Spec, ConfigWritesSurvive

-----------------------------------------------------------------------------
(* The workers' values *)

(* An unchanged epoch really means an unchanged result.                    *)
LEMMA ResultsStep == ASSUME TypeOK, ResInv, [Next]_vars PROVE ResInv'
<1> USE DEF TypeOK
<1>0. live \in AddonState /\ frame.state \in AddonState /\ frame.baseline \in AddonState
  OBVIOUS
<1>1. CASE CaptureMain
  <2>1. frame'.baseline = live' /\ frame'.epoch = epoch /\ epoch' = epoch
    BY <1>1 DEF CaptureMain
  <2> QED BY <2>1 DEF ResInv, FrameNotAhead
<1>2. CASE CaptureMini
  BY <1>2 DEF CaptureMini, ResInv, FrameNotAhead
<1>3. CASE EditView \/ EditConfig \/ Stop \/ \E k \in Kinds : StartRefused(k)
  <2>1. /\ frame'.epoch = frame.epoch /\ frame'.mini = frame.mini
        /\ frame'.baseline = frame.baseline /\ live'.res = live.res
        /\ epoch' = epoch /\ layout' = layout
    BY <1>0, <1>3 DEF EditView, EditConfig, Stop, StartRefused, AddonState
  <2> QED BY <2>1 DEF ResInv, FrameNotAhead
<1>7. ASSUME NEW k \in Kinds, Start(k) PROVE ResInv'
  <2>1. live'.res = live.res /\ epoch' = epoch /\ layout' = layout
    BY <1>0, <1>7 DEF Start, PublishRaisedBusy, AddonState
  <2>2. /\ frame'.epoch = frame.epoch /\ frame'.mini = frame.mini
        /\ frame'.baseline = frame.baseline
    BY <1>7, StartFrame
  <2> QED BY <2>1, <2>2 DEF ResInv, FrameNotAhead
<1>4. CASE Commit \/ LayoutPanics \/ CloseWindow
  BY <1>4 DEF Commit, LayoutPanics, CloseWindow, ResInv, FrameNotAhead
<1>5. CASE OffRenderConfig \/ \E w \in running : \/ WorkerPublish(w) \/ WorkerFinish(w)
                                                \/ WorkerGivesUp(w) \/ WorkerChains(w)
  <2>1. epoch' = epoch + 1 /\ UNCHANGED <<layout, frame>>
    BY <1>5 DEF OffRenderConfig, WorkerPublish, WorkerFinish, WorkerGivesUp, WorkerChains
  <2> QED BY <2>1 DEF ResInv, FrameNotAhead
<1>6. CASE (\E w \in running : WorkerReturnsSilently(w)) \/ UNCHANGED vars
  BY <1>6 DEF WorkerReturnsSilently, vars, ResInv, FrameNotAhead
<1> QED
  BY <1>1, <1>2, <1>3, <1>4, <1>5, <1>6, <1>7 DEF Next, Render, WorkerStep, WorkerEnds

(* A commit never reverts what a worker published during the layout: the   *)
(* epoch check of PaintFrame::commit together with keep_worker.            *)
THEOREM PublishesCorrect == Spec => PublishSurvivesCommit
<1>1. Init => ResInv
  BY DEF Init, ResInv, FrameNotAhead
<1>2. TypeOK /\ ResInv /\ [Next]_vars => ResInv'
  BY ResultsStep
<1>3. TypeOK /\ ResInv /\ [Next]_vars
        => [layout /\ ~layout' =>
              \A k \in Kinds : live'.res[k] # live.res[k] =>
                                 live.res[k] = frame.baseline.res[k]]_vars
  <2> SUFFICES ASSUME TypeOK, ResInv, [Next]_vars, layout, ~layout',
                      NEW k \in Kinds, live'.res[k] # live.res[k]
               PROVE  live.res[k] = frame.baseline.res[k]
    OBVIOUS
  <2>1. Commit \/ LayoutPanics
    BY DEF Next, Render, WorkerStep, WorkerEnds, CaptureMain, CaptureMini, EditView,
           EditConfig, Start, StartRefused, Stop, WorkerPublish, WorkerFinish, WorkerGivesUp,
           WorkerReturnsSilently, WorkerChains, OffRenderConfig, CloseWindow, vars
  <2>2. Commit
    BY <2>1 DEF LayoutPanics
  <2>3. CASE frame.mini
    BY <2>2, <2>3 DEF Commit, Committed, MergeMiniPaint, TypeOK, AddonState
  <2>4. CASE ~frame.mini /\ epoch = frame.epoch
    BY <2>4 DEF ResInv
  <2>5. CASE ~frame.mini /\ epoch # frame.epoch
    <3>1. live'.res[k] = KeepWorker(live.res[k], frame.baseline.res[k], frame.state.res[k])
      BY <2>2, <2>5 DEF Commit, Committed, MergePaint
    <3> QED BY <3>1 DEF KeepWorker
  <2> QED BY <2>3, <2>4, <2>5
<1> QED BY <1>1, <1>2, <1>3, TypeCorrect, PTL DEF Spec, PublishSurvivesCommit

-----------------------------------------------------------------------------
(* The cancellation tokens *)

(* A commit always brings live to the frame's token, whichever branch.     *)
LEMMA CommitTakesToken == ASSUME TypeOK, TokenInv, Commit
                          PROVE  live'.tok = frame.state.tok
<1>0. live \in AddonState /\ layout
  BY DEF TypeOK, Commit
<1>1. live.tok = frame.baseline.tok
  BY <1>0 DEF TokenInv
<1>2. CASE frame.mini
  <2>1. live'.tok = live.tok
    BY <1>0, <1>2 DEF Commit, Committed, MergeMiniPaint, AddonState
  <2> QED BY <1>0, <1>2, <2>1 DEF TokenInv
<1>3. CASE ~frame.mini /\ epoch = frame.epoch
  BY <1>3 DEF Commit, Committed
<1>4. CASE ~frame.mini /\ epoch # frame.epoch
  <2>1. live'.tok = TakeRenewed(live.tok, frame.baseline.tok, frame.state.tok)
    BY <1>4 DEF Commit, Committed, MergePaint
  <2> QED BY <1>1, <2>1 DEF TakeRenewed
<1> QED BY <1>2, <1>3, <1>4

(* Steps that touch no token: of the workers, only some may be gone.       *)
LEMMA TokensUntouched ==
    ASSUME TokenInv, UNCHANGED <<layout, tokens, cancelled, panics>>,
           live'.tok = live.tok, frame'.state.tok = frame.state.tok,
           frame'.baseline.tok = frame.baseline.tok, frame'.mini = frame.mini,
           running' \subseteq running
    PROVE  TokenInv'
BY DEF TokenInv

(* Every step keeps the tokens in agreement with the flags they share.     *)
LEMMA TokensStep == ASSUME TypeOK, TokenInv, [Next]_vars PROVE TokenInv'
<1> USE DEF TypeOK
<1>0. live \in AddonState /\ frame.state \in AddonState /\ frame.baseline \in AddonState
  OBVIOUS
<1>1. CASE CaptureMain
  <2>1. live'.tok = live.tok
    BY <1>0, <1>1 DEF CaptureMain, AddonState
  <2>2. /\ frame'.state = live' /\ frame'.baseline = live' /\ ~layout /\ layout'
        /\ UNCHANGED <<tokens, cancelled, running, panics>>
    BY <1>1 DEF CaptureMain
  <2> QED BY <2>1, <2>2 DEF TokenInv
<1>2. CASE CaptureMini
  <2>1. frame'.state.tok = live.tok /\ frame'.baseline.tok = live.tok
    BY <1>0, <1>2 DEF CaptureMini, CloneForMini, Fresh, AddonState
  <2>2. ~layout /\ layout' /\ UNCHANGED <<live, tokens, cancelled, running, panics>>
    BY <1>2 DEF CaptureMini
  <2> QED BY <2>1, <2>2 DEF TokenInv
<1>3. CASE EditView \/ EditConfig \/ \E k \in Kinds : StartRefused(k)
  <2>1. /\ frame'.state.tok = frame.state.tok /\ frame'.baseline = frame.baseline
        /\ frame'.mini = frame.mini
        /\ UNCHANGED <<live, layout, tokens, cancelled, running, panics>>
    BY <1>0, <1>3 DEF EditView, EditConfig, StartRefused, AddonState
  <2> QED BY <2>1, TokensUntouched
<1>4. ASSUME NEW k \in Kinds, Start(k) PROVE TokenInv'
  <2> DEFINE started == [kind |-> k, tok |-> frame.state.tok, id |-> spawned]
  <2>0. live'.tok = live.tok
    BY <1>0, <1>4 DEF Start, PublishRaisedBusy, AddonState
  <2>1. /\ frame'.state.tok = frame.state.tok
        /\ frame'.baseline = frame.baseline /\ frame'.mini = frame.mini
    BY <1>4, StartFrame
  <2>2. /\ layout /\ running' = running \cup {started}
        /\ UNCHANGED <<layout, tokens, cancelled, panics>>
    BY <1>4 DEF Start
  <2>3. started.tok = frame.state.tok
    OBVIOUS
  <2> HIDE DEF started
  <2> QED BY <2>0, <2>1, <2>2, <2>3 DEF TokenInv
<1>5. CASE Stop
  <2>1. /\ frame'.state.tok = tokens /\ frame'.baseline = frame.baseline
        /\ frame'.mini = FALSE /\ ~frame.mini
    BY <1>0, <1>5 DEF Stop, AddonState
  <2>2. /\ layout /\ cancelled' = cancelled \cup {frame.state.tok} /\ tokens' = tokens + 1
        /\ UNCHANGED <<live, layout, running, panics>>
    BY <1>5 DEF Stop
  <2>3. frame.state.tok \in Nat /\ live.tok \in Nat
    BY <1>0 DEF AddonState
  <2> QED BY <2>1, <2>2, <2>3 DEF TokenInv
<1>6. CASE Commit
  <2>1. live'.tok = frame.state.tok
    BY <1>6, CommitTakesToken
  <2>2. layout /\ ~layout' /\ UNCHANGED <<running, cancelled, tokens, panics>>
    BY <1>6 DEF Commit
  <2> QED BY <2>1, <2>2 DEF TokenInv
<1>7. CASE LayoutPanics
  <2>1. /\ panics' # 0 /\ ~layout' /\ UNCHANGED <<live, running, cancelled, tokens>>
    BY <1>7 DEF LayoutPanics
  <2> QED BY <2>1 DEF TokenInv
<1>8. CASE OffRenderConfig \/ CloseWindow \/ \E w \in running : WorkerPublish(w) \/ WorkerEnds(w)
  <2>1. /\ UNCHANGED <<layout, frame, tokens, cancelled, panics>>
        /\ running' \subseteq running
        /\ live'.tok = live.tok
    BY <1>0, <1>8 DEF OffRenderConfig, CloseWindow, WorkerPublish, WorkerEnds, WorkerFinish,
                      WorkerGivesUp, WorkerReturnsSilently, AddonState
  <2> QED BY <2>1, TokensUntouched
<1>9. ASSUME NEW w \in running, WorkerChains(w) PROVE TokenInv'
  <2> DEFINE next == [kind |-> w.kind, tok |-> live.tok, id |-> spawned]
  <2>1. live'.tok = live.tok
    BY <1>0, <1>9 DEF WorkerChains, AddonState
  <2>2. /\ running' = (running \ {w}) \cup {next}
        /\ UNCHANGED <<layout, frame, tokens, cancelled, panics>>
    BY <1>9 DEF WorkerChains
  <2>3. next.tok = live.tok
    OBVIOUS
  <2> HIDE DEF next
  <2> QED BY <2>1, <2>2, <2>3 DEF TokenInv
<1>10. CASE UNCHANGED vars
  BY <1>10, TokensUntouched DEF vars
<1> QED
  BY <1>1, <1>2, <1>3, <1>4, <1>5, <1>6, <1>7, <1>8, <1>9, <1>10 DEF Next, Render, WorkerStep

(* As long as no layout panics, the token live holds between frames is not *)
(* a cancelled one and a Stop reaches every worker: cancel_and_renew in    *)
(* the frame and take_renewed at the commit.                               *)
THEOREM TokensCorrect == Spec => []TokensSound
<1>1. Init => TokenInv
  BY DEF Init, Fresh, TokenInv
<1>2. TypeOK /\ TokenInv /\ [Next]_vars => TokenInv'
  BY TokensStep
<1>3. TokenInv => TokensSound
  BY DEF TokenInv, TokensSound, LiveTokenFreshUnlessPanic, LiveTokenFresh, EveryWorkerStoppable
<1> QED BY <1>1, <1>2, <1>3, TypeCorrect, PTL DEF Spec
=============================================================================
