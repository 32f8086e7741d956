------------------------------ MODULE ChatRun ------------------------------
(***************************************************************************)
(* The chat with Choya: the bar's state, which lives in the AddonState and *)
(* is painted on a clone of it (crates/addon/src/ui/chat_bar.rs,           *)
(* ui/main_view/mod.rs, state.rs), and the worker that answers one message *)
(* (ui/main_view/chat_flow.rs).                                            *)
(*                                                                         *)
(* A message, a Stop, the backstop and Clear act on the clone of a frame   *)
(* and reach the live state when the frame commits; the worker acts on the *)
(* live state, and is told from a retired one by the chat epoch alone.     *)
(*                                                                         *)
(* Abstractions.  A request says a word that a build will follow, and an   *)
(* answer, which may be the fallback of a failure.  That the history last  *)
(* handed to the disk writer lands is SerialWriter's promise.              *)
(***************************************************************************)
EXTENDS Merge, FiniteSets, SequencesExt

CONSTANTS
  Questions,  \* what the player may ask
  None,       \* no run, no question
  CAP,        \* CHAT_HISTORY_CAP
  MaxRuns,    \* bound: requests sent
  MaxStops,   \* bound: tokens renewed
  MaxMishaps  \* bound: kinds of mishap in one session

ASSUME CapAssumption == CAP \in Nat \ {0}
ASSUME NoneAssumption == None \notin Nat

VARIABLES
  live,       \* [history, waiting, epoch, dirty, tok, asking] under STATE
  frame,      \* the frame being laid out: [base, paint, stage, published]
  runs,       \* the workers: [id, epoch, tok, q, stage]
  cancelled,  \* the tokens whose flag is set
  handed,     \* the history most recently handed to KITCHEN_WRITES
  sent,       \* how many requests were sent
  mishaps,    \* what went wrong so far: a message refused, a layout panicked, a reset
  late,       \* history: runs that answered while a frame was open
  unheard,    \* history: epochs whose run ended before its frame was committed
  overlap     \* history: a reply landed in a frame captured with one unsaved

vars == <<live, frame, runs, cancelled, handed, sent, mishaps,
          late, unheard, overlap>>

----------------------------------------------------------------------------
\* The bar.

\* A message; `run` only tells whose it is, the code has no such field.
Message(who, text, q, run) == [who |-> who, text |-> text, q |-> q, run |-> run]

\* ChatMessage's ==.
Same(a, b) == a.who = b.who /\ a.text = b.text /\ a.q = b.q
Holds(history, m) == \E i \in DOMAIN history : Same(history[i], m)

\* Mutant: nothing is dropped.
Untrimmed(history) == history

TrimHistory(history) ==
  IF Len(history) > CAP THEN SubSeq(history, Len(history) - CAP + 1, Len(history)) ELSE history

\* The replies after which a request is over.
Ends == {"answer", "stopped", "timeout"}

\* queue_user_message
QueueUserMessage(s, q, run) ==
  [s EXCEPT !.history = TrimHistory(Append(@, Message("player", "asks", q, run))), !.dirty = TRUE]

\* Mutant: the reply is shown and never saved.
AddReplyUnsaved(s, text, q, run) ==
  [s EXCEPT !.history = TrimHistory(Append(@, Message("choya", text, q, run))), !.waiting = FALSE]

\* add_ai_response, add_plated_response, add_failed_build_response: any reply
\* ends the wait.
AddReply(s, text, q, run) ==
  [s EXCEPT !.history = TrimHistory(Append(@, Message("choya", text, q, run))),
            !.waiting = FALSE, !.dirty = TRUE]

Fresh == [history |-> <<>>, waiting |-> FALSE, epoch |-> 0, dirty |-> FALSE, tok |-> 0,
          asking |-> None]

\* Between frames.
NoFrame == [base |-> Fresh, paint |-> Fresh, stage |-> "closed", published |-> FALSE]
Closed == frame.stage = "closed"

Init ==
  /\ live = Fresh
  /\ frame = NoFrame
  /\ runs = {} /\ cancelled = {}
  /\ handed = <<>>
  /\ sent = 0 /\ mishaps = {}
  /\ late = {} /\ unheard = {} /\ overlap = FALSE

----------------------------------------------------------------------------
\* The frame.

\* Mutant: a wait is never too long.
NoTimeout(s) == s

\* The backstop at the head of the layout.
KitchenTimeout(s) ==
  AddReply([s EXCEPT !.epoch = @ + 1, !.asking = None], "timeout", None, s.asking)

Captured(paint) == [base |-> live, paint |-> paint, stage |-> "open", published |-> FALSE]

Capture ==
  /\ Closed
  /\ frame' = Captured(live)
  /\ UNCHANGED <<live, runs, cancelled, handed, sent, mishaps, late, unheard, overlap>>

\* A frame that finds KITCHEN_TIMEOUT over.
CaptureExpired ==
  /\ Closed /\ live.waiting
  /\ frame' = Captured(KitchenTimeout(live))
  /\ UNCHANGED <<live, runs, cancelled, handed, sent, mishaps, late, unheard, overlap>>

\* render_chat_bar reports one action a frame.
Open == frame.stage = "open"
Acted(paint) == [frame EXCEPT !.paint = paint, !.stage = "acted"]

\* send_chat_message_with: the epoch retires the run before, the worker takes
\* the epoch of the clone, and spawn_worker stores the raised marker on live.
SendChatMessage(q) ==
  /\ Open /\ sent < MaxRuns
  /\ LET id == sent + 1
         asked == [QueueUserMessage(frame.paint, q, id) EXCEPT !.epoch = @ + 1, !.waiting = TRUE,
                                                               !.asking = id]
     IN /\ frame' = Acted(asked)
        /\ runs' = runs \cup {[id |-> id, epoch |-> asked.epoch, tok |-> asked.tok, q |-> q,
                               stage |-> "asked"]}
        /\ sent' = id
  /\ live' = [live EXCEPT !.waiting = @ \/ ~frame.base.waiting]
  /\ UNCHANGED <<cancelled, handed, mishaps, late, unheard, overlap>>

\* retry_chat: the question of a reply that was stopped or a fallback, once more.
RetryChat ==
  /\ Open /\ ~frame.paint.waiting
  /\ \E i \in DOMAIN frame.paint.history :
       /\ frame.paint.history[i].text \in {"stopped", "answer"}
       /\ SendChatMessage(frame.paint.history[i].q)

Mishap(kind) ==
  /\ Cardinality(mishaps \cup {kind}) <= MaxMishaps
  /\ kind \notin mishaps
  /\ mishaps' = mishaps \cup {kind}

\* The guards of send_chat_message_with answer at once and start nothing.
SendRefused(q) ==
  /\ Open /\ Mishap("refused")
  /\ frame' = Acted(AddReply(QueueUserMessage(frame.paint, q, None), "refused", None, None))
  /\ UNCHANGED <<live, runs, cancelled, handed, sent, late, unheard, overlap>>

\* The OS refused the thread: the epoch is used up, the bubble goes.
SendUnspawned(q) ==
  /\ Open /\ Mishap("refused")
  /\ frame' = Acted([QueueUserMessage(frame.paint, q, None) EXCEPT !.epoch = @ + 1, !.waiting = FALSE,
                                                                   !.asking = None])
  /\ UNCHANGED <<live, runs, cancelled, handed, sent, late, unheard, overlap>>

\* Mutant: a Stop that trusts the token to end the run.
StoppedSameEpoch(s, tok) ==
  LET asked == {i \in DOMAIN s.history : s.history[i].who = "player"}
      q == IF asked = {} THEN None ELSE s.history[CHOOSE i \in asked : \A j \in asked : j <= i].q
  IN AddReply([s EXCEPT !.tok = tok, !.asking = None], "stopped", q, s.asking)

\* stop_chat: a fresh token, a new epoch, and what arrived as the reply, with
\* the last thing the player asked.
Stopped(s, tok) ==
  LET asked == {i \in DOMAIN s.history : s.history[i].who = "player"}
      q == IF asked = {} THEN None ELSE s.history[CHOOSE i \in asked : \A j \in asked : j <= i].q
  IN AddReply([s EXCEPT !.tok = tok, !.epoch = @ + 1, !.asking = None], "stopped", q, s.asking)

StopChat ==
  /\ Open /\ frame.paint.waiting /\ Cardinality(cancelled) < MaxStops
  /\ cancelled' = cancelled \cup {frame.paint.tok}
  /\ frame' = Acted(Stopped(frame.paint, Cardinality(cancelled) + 1))
  /\ UNCHANGED <<live, runs, handed, sent, mishaps, late, unheard, overlap>>

\* stop_optimization, of a run that could start because nothing was awaited.
StopOptimization ==
  /\ Open /\ ~frame.paint.waiting /\ Cardinality(cancelled) < MaxStops
  /\ cancelled' = cancelled \cup {frame.paint.tok}
  /\ frame' = Acted([frame.paint EXCEPT !.tok = Cardinality(cancelled) + 1])
  /\ UNCHANGED <<live, runs, handed, sent, mishaps, late, unheard, overlap>>

ClearHistory ==
  /\ Open /\ ~frame.paint.waiting /\ frame.paint.history # <<>>
  /\ frame' = Acted([frame.paint EXCEPT !.history = <<>>, !.dirty = TRUE])
  /\ UNCHANGED <<live, runs, cancelled, handed, sent, mishaps, late, unheard, overlap>>

\* reset_to_first_run: a default MainState, its chat epoch included, and a
\* fresh token.
ResetToFirstRun ==
  /\ Open /\ Mishap("reset") /\ Cardinality(cancelled) < MaxStops
  /\ cancelled' = cancelled \cup {frame.paint.tok}
  /\ frame' = Acted([Fresh EXCEPT !.tok = Cardinality(cancelled) + 1])
  /\ UNCHANGED <<live, runs, handed, sent, late, unheard, overlap>>

\* The end of the layout: a dirty history goes to the writer.
SaveHistory ==
  /\ frame.stage \in {"open", "acted"}
  /\ frame' = [frame EXCEPT !.stage = "saved", !.paint.dirty = FALSE]
  /\ handed' = IF frame.paint.dirty THEN frame.paint.history ELSE handed
  /\ UNCHANGED <<live, runs, cancelled, sent, mishaps, late, unheard, overlap>>

\* Mutant: a changed live history wins whole.
MergeHistoryLive(base, paint) ==
  IF paint # base /\ live.history = base THEN paint ELSE live.history

\* merge_chat's history: the frame's is taken over an untouched one or one it
\* continues; of two that continue the base, live gets what it does not have.
MergeHistory(base, paint) ==
  CASE paint = base -> live.history
    [] paint # base /\ (live.history = base \/ IsPrefix(live.history, paint)) -> paint
    [] paint # base /\ live.history # base /\ ~IsPrefix(live.history, paint) ->
         IF IsPrefix(base, live.history) /\ IsPrefix(base, paint)
         THEN FoldLeft(LAMBDA h, m : IF Holds(h, m) THEN h ELSE Append(h, m), live.history,
                       SubSeq(paint, Len(base) + 1, Len(paint)))
         ELSE live.history

\* merge_paint, as far as the chat goes.
MergePaint(base, paint) ==
  [history |-> MergeHistory(base.history, paint.history),
   waiting |-> MergeBusy(live.waiting, base.waiting, paint.waiting),
   epoch |-> TakeUi(live.epoch, base.epoch, paint.epoch),
   dirty |-> TakeUi(live.dirty, base.dirty, paint.dirty),
   tok |-> TakeRenewed(live.tok, base.tok, paint.tok),
   asking |-> TakeUi(live.asking, base.asking, paint.asking)]

Commit ==
  /\ frame.stage = "saved"
  /\ live' = IF frame.published THEN MergePaint(frame.base, frame.paint) ELSE frame.paint
  /\ frame' = NoFrame
  /\ UNCHANGED <<runs, cancelled, handed, sent, mishaps, late, unheard, overlap>>

LayoutPanics ==
  /\ ~Closed /\ Mishap("panicked")
  /\ frame' = NoFrame
  /\ UNCHANGED <<live, runs, cancelled, handed, sent, late, unheard, overlap>>

----------------------------------------------------------------------------
\* The worker.  Each with_state call of another thread counts as a publish.

Published == IF Closed THEN frame ELSE [frame EXCEPT !.published = TRUE]
Heard(w) == w.epoch = live.epoch

\* The run is over; the frame that sent it may still be open.
Retire(w) ==
  /\ runs' = runs \ {w}
  /\ unheard' = IF ~Closed /\ ~Heard(w) /\ w.epoch = frame.paint.epoch
                THEN unheard \cup {w.epoch} ELSE unheard

Replies(w, text) ==
  /\ live' = IF ~Heard(w) THEN live
             ELSE [AddReply(live, text, w.q, w.id) EXCEPT !.asking = IF text \in Ends THEN None ELSE @]
  /\ late' = IF ~Closed /\ Heard(w) THEN late \cup {w.id} ELSE late
  /\ overlap' = (overlap \/ (Heard(w) /\ ~Closed /\ frame.base.dirty))
  /\ frame' = Published

\* `say`: a build will follow.  The token is not looked at.
Announce(w) ==
  /\ w.stage = "asked"
  /\ Replies(w, "announced")
  /\ runs' = (runs \ {w}) \cup {[w EXCEPT !.stage = "plating"]}
  /\ UNCHANGED <<cancelled, handed, sent, mishaps, unheard>>

\* Mutant: a run that gives up leaves the wait to the backstop.
GiveUpQuietly(w) ==
  /\ frame' = Published
  /\ Retire(w)
  /\ UNCHANGED <<live, cancelled, handed, sent, mishaps, late, overlap>>

\* A worker that finds its token cancelled ends the wait, and so does one that
\* panics, which it may at any time.
GiveUp(w) ==
  /\ live' = [live EXCEPT !.waiting = @ /\ ~Heard(w)]
  /\ frame' = Published
  /\ Retire(w)
  /\ UNCHANGED <<cancelled, handed, sent, mishaps, late, overlap>>

\* The check for a stale result; the plate is measured after it, off the lock.
Judge(w) ==
  /\ w.stage # "serving" /\ w.tok \notin cancelled
  /\ frame' = Published
  /\ IF Heard(w)
     THEN /\ runs' = (runs \ {w}) \cup {[w EXCEPT !.stage = "serving"]}
          /\ UNCHANGED unheard
     ELSE Retire(w)
  /\ UNCHANGED <<live, cancelled, handed, sent, mishaps, late, overlap>>

\* The answer, or the fallback of a failure; the token is not looked at again.
Serve(w) ==
  /\ w.stage = "serving"
  /\ Replies(w, "answer")
  /\ Retire(w)
  /\ UNCHANGED <<cancelled, handed, sent, mishaps>>

\* Any other worker's publish.
OtherPublish ==
  /\ ~Closed /\ ~frame.published
  /\ frame' = Published
  /\ UNCHANGED <<live, runs, cancelled, handed, sent, mishaps, late, unheard, overlap>>

Next ==
  \/ Capture \/ CaptureExpired \/ StopChat \/ StopOptimization \/ RetryChat \/ ClearHistory
  \/ ResetToFirstRun \/ SaveHistory \/ Commit \/ LayoutPanics \/ OtherPublish
  \/ \E q \in Questions : SendChatMessage(q) \/ SendRefused(q) \/ SendUnspawned(q)
  \/ \E w \in runs : Announce(w) \/ GiveUp(w) \/ Judge(w) \/ Serve(w)

Spec == Init /\ [][Next]_vars

\* Frames keep coming, and a wait that goes on is over 400 seconds one day.
FairSpec ==
  /\ Spec
  /\ WF_vars(Capture \/ CaptureExpired) /\ WF_vars(SaveHistory) /\ WF_vars(Commit)
  /\ SF_vars(CaptureExpired)

----------------------------------------------------------------------------
\* Properties.

\* The bar's state is well formed, and a frame never leaves the history
\* longer than its cap and the three lines one frame adds.
TypeOK ==
  /\ \A s \in {live, frame.paint} :
       /\ Len(s.history) <= CAP + 3
       /\ s.waiting \in BOOLEAN /\ s.dirty \in BOOLEAN /\ s.epoch \in Nat /\ s.tok \in Nat
  /\ frame.stage \in {"closed", "open", "acted", "saved"}
  /\ \A w \in runs : w.id \in 1..sent /\ w.stage \in {"asked", "plating", "serving"}

\* Replies are told apart by the chat epoch: only the run asked last can be
\* heard, unless a panic or a reset gave its epoch away twice; and a request
\* ends once, with its answer, a Stop or the backstop, unless the answer landed
\* while a frame was open or a reset gave its epoch away after a Stop (the
\* epoch's comment, state.rs:919-921, and stop_chat's, chat_flow.rs:45-47, know
\* no exception).
RunsToldApart ==
  /\ mishaps \cap {"panicked", "reset"} = {} => \A w \in runs : Heard(w) => w.id = live.asking
  /\ "reset" \notin mishaps => \A r \in (1..sent) \ late :
       Cardinality({i \in DOMAIN live.history : live.history[i].run = r
                                                /\ live.history[i].text \in Ends}) <= 1

\* Between frames the bar only waits for a run that can still be heard; the
\* exceptions are a run that was over before the frame that sent it, and a
\* frame whose layout panicked (the spawn's marker, state.rs:1967-2033).
WaitsForSomeone ==
  Closed /\ live.waiting =>
    (\E w \in runs : Heard(w)) \/ live.epoch \in unheard \/ "panicked" \in mishaps

\* What the player sees is on disk, on its way there, or marked unsaved, unless
\* a reply landed in a frame captured with one unsaved (the saver's look at
\* `dirty`, main_view/mod.rs:197-211, and merge_chat).
SavedOrDirty ==
  Closed /\ mishaps \cap {"panicked", "reset"} = {} /\ ~overlap =>
    handed = live.history \/ live.dirty

\* A commit loses neither the lines the player's frame added nor the replies
\* that landed meanwhile, as long as neither side was cleared or trimmed.
MessagesSurvive ==
  [][LET old == frame.base.history
         Kept(h) == \A i \in (Len(old) + 1)..Len(h) : Holds(live'.history, h[i])
     IN Commit /\ IsPrefix(old, live.history) /\ IsPrefix(old, frame.paint.history)
          => Kept(live.history) /\ Kept(frame.paint.history)]_vars

\* The thinking bubble never stays for good, whatever became of the run.
WaitingEnds == live.waiting ~> ~live.waiting

\* FR-008a of specs/006 (spec.md:142): a request in flight has its Stop button,
\* which the bar shows while it waits.
StopWhileInFlight ==
  Closed /\ (\E w \in runs : Heard(w)) => live.waiting
=============================================================================
