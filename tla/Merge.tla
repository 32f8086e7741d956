------------------------------- MODULE Merge -------------------------------
(***************************************************************************)
(* The three-way merges of crates/addon/src/state.rs: how one field of a   *)
(* painted frame is folded back onto the live AddonState when a worker     *)
(* published while the frame was being laid out.  Every operator takes the *)
(* live value, the value at capture (base) and the painted value (paint),  *)
(* and returns the new live value.                                         *)
(***************************************************************************)
EXTENDS Naturals, Sequences

(* A field only the player edits: the frame wins when it changed it. *)
TakeUi(live, base, paint) == IF paint # base THEN paint ELSE live

(* Mutant: keep_worker without the look at live. *)
KeepWorkerBlind(live, base, paint) == IF paint # base THEN paint ELSE live

(* A field workers publish: the frame wins only when live is untouched. *)
KeepWorker(live, base, paint) ==
    IF live = base /\ paint # base THEN paint ELSE live

(* Mutant: a busy flag merged like a field of the player's. *)
MergeBusyBlind(live, base, paint) == IF paint # base THEN paint ELSE live

(* A busy flag: the frame may clear it, but never re-raises one a worker   *)
(* has cleared since the capture.                                          *)
MergeBusy(live, base, paint) ==
    IF paint # base /\ (~paint \/ live) THEN paint ELSE live

(* The same for a busy marker that names what is in flight. *)
MergeBusyOpt(live, base, paint, none) ==
    CASE paint = base -> live
      [] paint # base /\ paint = none -> none
      [] paint # base /\ paint # none -> IF live = none THEN none ELSE paint

(* A list workers edit in place: the frame's copy is taken when the frame  *)
(* changed its length and live still has the captured length.              *)
KeepLen(live, base, paint) ==
    IF Len(live) = Len(base) /\ Len(paint) # Len(base) THEN paint ELSE live

(* Mutant: the frame's configuration taken whole. *)
MergeConfigTakesPaint(live, base, paint) == IF paint = base THEN live ELSE paint

(* The configuration as a pair: `ui` is written on the render thread only, *)
(* `kept` stands for the fields merge_config lists because workers and     *)
(* keybinds write them too.                                                *)
MergeConfig(live, base, paint) ==
    IF paint = base
      THEN live
      ELSE [ui |-> paint.ui, kept |-> TakeUi(live.kept, base.kept, paint.kept)]

(* Mutant: live keeps its token through a merge. *)
TakeRenewedNever(live, base, paint) == live

(* A cancellation token: live follows the frame when the frame renewed it. *)
TakeRenewed(live, base, paint) == IF paint # base THEN paint ELSE live
=============================================================================
