--------------------------- MODULE ChatRun_proofs ---------------------------
(***************************************************************************)
(* Proofs about ChatRun, for every set of questions and every bound.       *)
(***************************************************************************)
EXTENDS ChatRun, FiniteSetTheorems, SequenceTheorems, TLAPS

\* Records with the fields the model builds; what a history holds is of no matter.
IsBar(s) ==
  /\ DOMAIN s = {"history", "waiting", "epoch", "dirty", "tok", "asking"}
  /\ s.waiting \in BOOLEAN

IsFrame(f) ==
  /\ DOMAIN f = {"base", "paint", "stage", "published"}
  /\ IsBar(f.base) /\ IsBar(f.paint)
  /\ f.stage \in {"closed", "open", "acted", "saved"} /\ f.published \in BOOLEAN

IsRun(w) == DOMAIN w = {"id", "epoch", "tok", "q", "stage"}

WellFormed == IsBar(live) /\ IsFrame(frame) /\ \A w \in runs : IsRun(w)

\* A run of epoch e is at work, or ended before its frame was committed.
Someone(e) == (\E w \in runs : w.epoch = e) \/ e \in unheard

\* What an open frame knows of the wait it was captured in, or has begun.
FrameWait ==
  /\ frame.base.epoch = live.epoch
  /\ frame.stage = "open" /\ frame.paint.waiting => frame.base.waiting
  /\ live.waiting => frame.base.waiting \/ frame.paint.waiting
  /\ ~frame.published /\ (frame.base.waiting \/ frame.paint.waiting) => live.waiting
  /\ frame.paint.waiting /\ (live.waiting \/ frame.paint.epoch # live.epoch)
       => Someone(frame.paint.epoch)

BubbleInv ==
  /\ WellFormed
  /\ "panicked" \notin mishaps =>
       /\ Closed /\ live.waiting => Someone(live.epoch)
       /\ ~Closed => FrameWait

----------------------------------------------------------------------------

\* A reply ends the wait and leaves the epoch alone.
LEMMA ReplyBar ==
  ASSUME NEW s, IsBar(s), NEW text, NEW q, NEW run
  PROVE  /\ IsBar(AddReply(s, text, q, run))
         /\ AddReply(s, text, q, run).epoch = s.epoch
         /\ ~AddReply(s, text, q, run).waiting
BY DEF IsBar, AddReply

\* A message queued leaves the wait and the epoch alone.
LEMMA QueueBar ==
  ASSUME NEW s, IsBar(s), NEW q, NEW run
  PROVE  /\ IsBar(QueueUserMessage(s, q, run))
         /\ QueueUserMessage(s, q, run).epoch = s.epoch
         /\ QueueUserMessage(s, q, run).waiting = s.waiting
BY DEF IsBar, QueueUserMessage

\* The bar a Stop leaves, and the one the backstop leaves, do not wait.
LEMMA StoppedBar ==
  ASSUME NEW s, IsBar(s), NEW tok
  PROVE  IsBar(Stopped(s, tok)) /\ ~Stopped(s, tok).waiting
<1> DEFINE renewed == [s EXCEPT !.tok = tok, !.epoch = @ + 1, !.asking = None]
<1>1. IsBar(renewed)
  BY DEF IsBar
<1>2. \E text, q, run : Stopped(s, tok) = AddReply(renewed, text, q, run)
  BY DEF Stopped
<1> HIDE DEF renewed
<1> QED BY <1>1, <1>2, ReplyBar

LEMMA ExpiredBar ==
  ASSUME NEW s, IsBar(s)
  PROVE  IsBar(KitchenTimeout(s)) /\ ~KitchenTimeout(s).waiting
<1> DEFINE over == [s EXCEPT !.epoch = @ + 1, !.asking = None]
<1>1. IsBar(over)
  BY DEF IsBar
<1>2. KitchenTimeout(s) = AddReply(over, "timeout", None, s.asking)
  BY DEF KitchenTimeout
<1> HIDE DEF over
<1> QED BY <1>1, <1>2, ReplyBar

\* A capture starts a frame whose bar is live's, or is past its wait.
LEMMA CaptureStep ==
  ASSUME BubbleInv, Closed, NEW paint, IsBar(paint), paint = live \/ ~paint.waiting,
         frame' = Captured(paint), UNCHANGED <<live, runs, mishaps, unheard>>
  PROVE  BubbleInv'
<1>1. /\ frame'.base = live /\ frame'.paint = paint /\ frame'.stage = "open"
      /\ frame'.published = FALSE
  BY DEF Captured
<1>2. IsFrame(frame')
  BY <1>1 DEF Captured, IsFrame, BubbleInv, WellFormed
<1>3. WellFormed'
  BY <1>2 DEF BubbleInv, WellFormed
<1>4. ASSUME "panicked" \notin mishaps PROVE FrameWait'
  <2>1. paint.waiting => paint = live
    OBVIOUS
  <2>2. live.waiting => Someone(live.epoch)
    BY <1>4 DEF BubbleInv
  <2> QED BY <1>1, <2>1, <2>2 DEF FrameWait, Someone
<1> QED BY <1>1, <1>3, <1>4 DEF BubbleInv, Closed

\* What the player does but send neither begins a wait nor moves live.
LEMMA ActedStep ==
  ASSUME BubbleInv, Open, NEW paint, IsBar(paint),
         paint.waiting => frame.paint.waiting /\ paint.epoch = frame.paint.epoch,
         frame' = Acted(paint), UNCHANGED <<live, runs, unheard>>, mishaps \subseteq mishaps'
  PROVE  BubbleInv'
<1>1. /\ frame'.base = frame.base /\ frame'.paint = paint /\ frame'.stage = "acted"
      /\ frame'.published = frame.published
  BY DEF Acted, BubbleInv, WellFormed, IsFrame
<1>2. IsFrame(frame')
  BY <1>1 DEF Acted, IsFrame, BubbleInv, WellFormed
<1>3. WellFormed'
  BY <1>2 DEF BubbleInv, WellFormed
<1>4. ASSUME "panicked" \notin mishaps' PROVE FrameWait'
  <2>1. FrameWait
    BY <1>4 DEF BubbleInv, Closed, Open
  <2>2. live.waiting => frame.base.waiting
    BY <2>1 DEF FrameWait, Open
  <2> QED BY <1>1, <2>1, <2>2 DEF FrameWait, Someone
<1> QED BY <1>1, <1>3, <1>4 DEF BubbleInv, Closed

\* A request is sent: a run carries the frame's new epoch, live waits at once.
LEMMA SendStep ==
  ASSUME BubbleInv, NEW q, SendChatMessage(q)
  PROVE  BubbleInv'
<1> DEFINE asked == [QueueUserMessage(frame.paint, q, sent + 1)
                       EXCEPT !.epoch = @ + 1, !.waiting = TRUE, !.asking = sent + 1]
           new == [id |-> sent + 1, epoch |-> asked.epoch, tok |-> asked.tok, q |-> q,
                   stage |-> "asked"]
<1>1. /\ Open /\ frame' = Acted(asked) /\ runs' = runs \cup {new}
      /\ live' = [live EXCEPT !.waiting = @ \/ ~frame.base.waiting]
      /\ UNCHANGED <<mishaps, unheard>>
  BY DEF SendChatMessage
<1>2. IsBar(asked) /\ asked.waiting = TRUE
  <2>1. IsBar(QueueUserMessage(frame.paint, q, sent + 1))
    BY QueueBar DEF BubbleInv, WellFormed, IsFrame
  <2> QED BY <2>1 DEF IsBar
<1>3. new.epoch = asked.epoch /\ IsRun(new)
  BY DEF IsRun
<1> HIDE DEF asked, new
<1>4. /\ frame'.base = frame.base /\ frame'.paint = asked /\ frame'.stage = "acted"
      /\ frame'.published = frame.published
  BY <1>1 DEF Acted, BubbleInv, WellFormed, IsFrame
<1>5. IsFrame(frame')
  BY <1>1, <1>2, <1>4 DEF Acted, IsFrame, BubbleInv, WellFormed
<1>6. /\ IsBar(live') /\ live'.epoch = live.epoch
      /\ live'.waiting = (live.waiting \/ ~frame.base.waiting)
  BY <1>1 DEF BubbleInv, WellFormed, IsBar, IsFrame
<1>7. WellFormed'
  BY <1>1, <1>3, <1>5, <1>6 DEF BubbleInv, WellFormed
<1>8. ASSUME "panicked" \notin mishaps' PROVE FrameWait'
  <2>1. FrameWait
    BY <1>1, <1>8 DEF BubbleInv, Closed, Open
  <2>2. \E w \in runs' : w.epoch = asked.epoch
    BY <1>1, <1>3
  <2> QED BY <1>2, <1>4, <1>6, <2>1, <2>2 DEF FrameWait, Someone
<1> QED BY <1>4, <1>7, <1>8 DEF BubbleInv, Closed

\* The saver touches the dirty flag alone.
LEMMA SaveStep == ASSUME BubbleInv, SaveHistory PROVE BubbleInv'
<1> DEFINE saved == [frame.paint EXCEPT !.dirty = FALSE]
<1>1. /\ IsBar(saved) /\ saved.waiting = frame.paint.waiting /\ saved.epoch = frame.paint.epoch
  BY DEF BubbleInv, WellFormed, IsFrame, IsBar
<1>2. /\ frame' = [frame EXCEPT !.stage = "saved", !.paint = saved]
      /\ frame.stage \in {"open", "acted"} /\ UNCHANGED <<live, runs, mishaps, unheard>>
  BY DEF SaveHistory, BubbleInv, WellFormed, IsFrame
<1> HIDE DEF saved
<1>3. /\ frame'.base = frame.base /\ frame'.paint = saved /\ frame'.stage = "saved"
      /\ frame'.published = frame.published
  BY <1>2 DEF BubbleInv, WellFormed, IsFrame
<1>4. IsFrame(frame')
  BY <1>1, <1>2, <1>3 DEF IsFrame, BubbleInv, WellFormed
<1>5. WellFormed'
  BY <1>2, <1>4 DEF BubbleInv, WellFormed
<1>6. ASSUME "panicked" \notin mishaps PROVE FrameWait'
  <2>1. FrameWait
    BY <1>2, <1>6 DEF BubbleInv, Closed
  <2> QED BY <1>1, <1>2, <1>3, <2>1 DEF FrameWait, Someone
<1> QED BY <1>2, <1>3, <1>5, <1>6 DEF BubbleInv, Closed

\* A commit, moved or merged, brings home the frame's epoch, and no wait that
\* nobody will end.
LEMMA CommitStep == ASSUME BubbleInv, Commit PROVE BubbleInv'
<1>1. /\ ~Closed /\ frame' = NoFrame /\ UNCHANGED <<runs, mishaps, unheard>>
      /\ live' = IF frame.published THEN MergePaint(frame.base, frame.paint) ELSE frame.paint
  BY DEF Commit, Closed
<1>2. /\ IsBar(live) /\ IsBar(frame.base) /\ IsBar(frame.paint) /\ frame.published \in BOOLEAN
  BY DEF BubbleInv, WellFormed, IsFrame
<1>3. IsBar(live')
  <2>1. MergeBusy(live.waiting, frame.base.waiting, frame.paint.waiting) \in BOOLEAN
    BY <1>2 DEF MergeBusy, IsBar
  <2>2. IsBar(MergePaint(frame.base, frame.paint))
    BY <2>1 DEF MergePaint, IsBar
  <2> QED BY <1>1, <1>2, <2>2
<1>4. IsFrame(NoFrame) /\ NoFrame.stage = "closed"
  <2>1. IsBar(Fresh)
    BY DEF Fresh, IsBar
  <2> QED BY <2>1 DEF NoFrame, IsFrame
<1>5. WellFormed'
  BY <1>1, <1>3, <1>4 DEF BubbleInv, WellFormed
<1>6. ASSUME "panicked" \notin mishaps, live'.waiting PROVE Someone(live'.epoch)
  <2>1. FrameWait
    BY <1>1, <1>6 DEF BubbleInv
  <2>2. CASE frame.published
    <3>1. /\ live'.epoch = TakeUi(live.epoch, frame.base.epoch, frame.paint.epoch)
          /\ live'.waiting = MergeBusy(live.waiting, frame.base.waiting, frame.paint.waiting)
      BY <1>1, <2>2 DEF MergePaint
    <3>2. live'.epoch = frame.paint.epoch
      BY <2>1, <3>1 DEF TakeUi, FrameWait
    <3>3. live.waiting /\ frame.paint.waiting
      <4>1. /\ live.waiting \in BOOLEAN /\ frame.base.waiting \in BOOLEAN
            /\ frame.paint.waiting \in BOOLEAN
        BY <1>2 DEF IsBar
      <4> QED BY <1>6, <2>1, <3>1, <4>1 DEF MergeBusy, FrameWait
    <3> QED BY <2>1, <3>2, <3>3 DEF FrameWait
  <2>3. CASE ~frame.published
    <3>1. live' = frame.paint
      BY <1>1, <2>3
    <3> QED BY <1>6, <2>1, <2>3, <3>1 DEF FrameWait
  <2> QED BY <2>2, <2>3
<1>7. Someone(live'.epoch) <=> Someone(live.epoch)'
  BY <1>1 DEF Someone
<1> QED BY <1>1, <1>4, <1>5, <1>6, <1>7 DEF BubbleInv, Closed

----------------------------------------------------------------------------

\* What a worker's publish makes of the frame.
LEMMA PublishedFrame ==
  ASSUME WellFormed, frame' = Published
  PROVE  /\ IsFrame(frame') /\ frame'.base = frame.base /\ frame'.paint = frame.paint
         /\ frame'.stage = frame.stage
         /\ ~Closed => frame'.published
BY DEF Published, WellFormed, IsFrame

\* A run that ends takes its own bubble down, or leaves the word that a frame
\* still open will have to wait without it.
LEMMA RetireStep ==
  ASSUME BubbleInv, NEW w \in runs, frame' = Published, Retire(w), IsBar(live'),
         live'.epoch = live.epoch, live'.waiting = (live.waiting /\ ~Heard(w)),
         mishaps' = mishaps
  PROVE  BubbleInv'
<1>1. /\ IsFrame(frame') /\ frame'.base = frame.base /\ frame'.paint = frame.paint
      /\ frame'.stage = frame.stage /\ (~Closed => frame'.published)
  BY PublishedFrame DEF BubbleInv
<1>2. /\ runs' = runs \ {w} /\ unheard \subseteq unheard'
      /\ ~Closed /\ ~Heard(w) /\ w.epoch = frame.paint.epoch => w.epoch \in unheard'
  BY DEF Retire
<1>3. WellFormed'
  BY <1>1, <1>2 DEF BubbleInv, WellFormed
<1>4. \A e : Someone(e) /\ w.epoch # e => (\E v \in runs' : v.epoch = e) \/ e \in unheard'
  BY <1>2 DEF Someone
<1>5. ASSUME "panicked" \notin mishaps, Closed, live'.waiting PROVE Someone(live.epoch)'
  <2>1. live.waiting /\ w.epoch # live.epoch
    BY <1>5 DEF Heard
  <2>2. Someone(live.epoch)
    BY <1>5, <2>1 DEF BubbleInv
  <2> QED BY <1>4, <2>1, <2>2 DEF Someone
<1>6. ASSUME "panicked" \notin mishaps, ~Closed PROVE FrameWait'
  <2>1. FrameWait
    BY <1>6 DEF BubbleInv
  <2>2. ASSUME frame.paint.waiting, live'.waiting \/ frame.paint.epoch # live.epoch
        PROVE  (\E v \in runs' : v.epoch = frame.paint.epoch) \/ frame.paint.epoch \in unheard'
    <3>1. Someone(frame.paint.epoch)
      BY <2>1, <2>2 DEF FrameWait
    <3>2. w.epoch = frame.paint.epoch => ~Heard(w)
      BY <2>2 DEF Heard
    <3> QED BY <1>2, <1>4, <1>6, <3>1, <3>2
  <2> QED BY <1>1, <1>6, <2>1, <2>2 DEF FrameWait, Someone
<1> QED BY <1>1, <1>3, <1>5, <1>6 DEF BubbleInv, Closed

\* A run that goes on keeps its epoch.
LEMMA GoesOnStep ==
  ASSUME BubbleInv, NEW w \in runs, NEW v, IsRun(v), v.epoch = w.epoch,
         frame' = Published, runs' = (runs \ {w}) \cup {v}, IsBar(live'),
         live'.epoch = live.epoch, live'.waiting => live.waiting,
         UNCHANGED <<mishaps, unheard>>
  PROVE  BubbleInv'
<1>1. /\ IsFrame(frame') /\ frame'.base = frame.base /\ frame'.paint = frame.paint
      /\ frame'.stage = frame.stage /\ (~Closed => frame'.published)
  BY PublishedFrame DEF BubbleInv
<1>2. WellFormed'
  BY <1>1 DEF BubbleInv, WellFormed
<1>3. \A e : Someone(e) => (\E u \in runs' : u.epoch = e) \/ e \in unheard'
  BY DEF Someone
<1>4. ASSUME "panicked" \notin mishaps, Closed, live'.waiting PROVE Someone(live.epoch)'
  BY <1>3, <1>4 DEF BubbleInv, Someone
<1>5. ASSUME "panicked" \notin mishaps, ~Closed PROVE FrameWait'
  <2>1. FrameWait
    BY <1>5 DEF BubbleInv
  <2> QED BY <1>1, <1>3, <1>5, <2>1 DEF FrameWait, Someone
<1> QED BY <1>1, <1>2, <1>4, <1>5 DEF BubbleInv, Closed

\* A reply shown or dropped ends the wait it was heard in, and no other.
LEMMA RepliesBar ==
  ASSUME WellFormed, NEW w, NEW text, Replies(w, text)
  PROVE  /\ IsBar(live') /\ live'.epoch = live.epoch
         /\ live'.waiting = (live.waiting /\ ~Heard(w))
         /\ frame' = Published
<1> DEFINE answered == AddReply(live, text, w.q, w.id)
<1>1. IsBar(live) /\ IsBar(answered) /\ answered.epoch = live.epoch /\ ~answered.waiting
  BY ReplyBar DEF WellFormed
<1>2. /\ frame' = Published /\ Heard(w) \in BOOLEAN
      /\ live' = IF ~Heard(w) THEN live
                 ELSE [answered EXCEPT !.asking = IF text \in Ends THEN None ELSE @]
  BY DEF Replies, Heard
<1> HIDE DEF answered
<1> QED BY <1>1, <1>2 DEF IsBar

----------------------------------------------------------------------------

LEMMA BubbleStep == ASSUME BubbleInv, [Next]_vars PROVE BubbleInv'
<1>0. WellFormed /\ IsBar(live) /\ IsBar(frame.paint)
  BY DEF BubbleInv, WellFormed, IsFrame
<1>1. CASE Capture
  BY <1>0, <1>1, CaptureStep DEF Capture
<1>2. CASE CaptureExpired
  BY <1>0, <1>2, CaptureStep, ExpiredBar DEF CaptureExpired
<1>3. CASE StopChat
  BY <1>0, <1>3, ActedStep, StoppedBar DEF StopChat
<1>4. CASE StopOptimization
  <2> DEFINE paint == [frame.paint EXCEPT !.tok = Cardinality(cancelled) + 1]
  <2>1. IsBar(paint) /\ paint.waiting = frame.paint.waiting /\ paint.epoch = frame.paint.epoch
    BY <1>0 DEF IsBar
  <2>2. /\ Open /\ frame' = Acted(paint) /\ UNCHANGED <<live, runs, unheard, mishaps>>
    BY <1>4 DEF StopOptimization
  <2> HIDE DEF paint
  <2> QED BY <2>1, <2>2, ActedStep
<1>5. CASE RetryChat
  <2>1. \E q : SendChatMessage(q)
    BY <1>5 DEF RetryChat
  <2> QED BY <2>1, SendStep
<1>6. CASE ClearHistory
  <2> DEFINE paint == [frame.paint EXCEPT !.history = <<>>, !.dirty = TRUE]
  <2>1. IsBar(paint) /\ paint.waiting = frame.paint.waiting /\ paint.epoch = frame.paint.epoch
    BY <1>0 DEF IsBar
  <2>2. /\ Open /\ frame' = Acted(paint) /\ UNCHANGED <<live, runs, unheard, mishaps>>
    BY <1>6 DEF ClearHistory
  <2> HIDE DEF paint
  <2> QED BY <2>1, <2>2, ActedStep
<1>7. CASE ResetToFirstRun
  <2> DEFINE paint == [Fresh EXCEPT !.tok = Cardinality(cancelled) + 1]
  <2>1. IsBar(paint) /\ ~paint.waiting
    BY DEF IsBar, Fresh
  <2>2. /\ Open /\ frame' = Acted(paint) /\ UNCHANGED <<live, runs, unheard>>
        /\ mishaps \subseteq mishaps'
    BY <1>7 DEF ResetToFirstRun, Mishap
  <2> HIDE DEF paint
  <2> QED BY <2>1, <2>2, ActedStep
<1>8. CASE SaveHistory
  BY <1>8, SaveStep
<1>9. CASE Commit
  BY <1>9, CommitStep
<1>10. CASE LayoutPanics
  <2>1. IsFrame(NoFrame)
    <3>1. IsBar(Fresh)
      BY DEF Fresh, IsBar
    <3> QED BY <3>1 DEF NoFrame, IsFrame
  <2>2. /\ frame' = NoFrame /\ "panicked" \in mishaps' /\ UNCHANGED <<live, runs>>
    BY <1>10 DEF LayoutPanics, Mishap
  <2> QED BY <1>0, <2>1, <2>2 DEF BubbleInv, WellFormed
<1>11. CASE OtherPublish
  <2>1. /\ frame' = Published /\ ~Closed /\ UNCHANGED <<live, runs, mishaps, unheard>>
    BY <1>11 DEF OtherPublish
  <2>2. /\ IsFrame(frame') /\ frame'.base = frame.base /\ frame'.paint = frame.paint
        /\ frame'.stage = frame.stage /\ frame'.published
    BY <1>0, <2>1, PublishedFrame
  <2> QED BY <2>1, <2>2 DEF BubbleInv, WellFormed, Closed, FrameWait, Someone
<1>12. ASSUME NEW q \in Questions, SendChatMessage(q) PROVE BubbleInv'
  BY <1>12, SendStep
<1>13. ASSUME NEW q \in Questions, SendRefused(q) PROVE BubbleInv'
  <2> DEFINE queued == QueueUserMessage(frame.paint, q, None)
             paint == AddReply(queued, "refused", None, None)
  <2>1. IsBar(queued)
    BY <1>0, QueueBar
  <2>2. IsBar(paint) /\ ~paint.waiting
    BY <2>1, ReplyBar
  <2>3. /\ Open /\ frame' = Acted(paint) /\ UNCHANGED <<live, runs, unheard>>
        /\ mishaps \subseteq mishaps'
    BY <1>13 DEF SendRefused, Mishap
  <2> HIDE DEF paint
  <2> QED BY <2>2, <2>3, ActedStep
<1>14. ASSUME NEW q \in Questions, SendUnspawned(q) PROVE BubbleInv'
  <2> DEFINE paint == [QueueUserMessage(frame.paint, q, None)
                         EXCEPT !.epoch = @ + 1, !.waiting = FALSE, !.asking = None]
  <2>1. IsBar(paint) /\ ~paint.waiting
    <3>1. IsBar(QueueUserMessage(frame.paint, q, None))
      BY <1>0, QueueBar
    <3> QED BY <3>1 DEF IsBar
  <2>2. /\ Open /\ frame' = Acted(paint) /\ UNCHANGED <<live, runs, unheard>>
        /\ mishaps \subseteq mishaps'
    BY <1>14 DEF SendUnspawned, Mishap
  <2> HIDE DEF paint
  <2> QED BY <2>1, <2>2, ActedStep
<1>15. ASSUME NEW w \in runs, Announce(w) PROVE BubbleInv'
  <2> DEFINE v == [w EXCEPT !.stage = "plating"]
  <2>1. IsRun(v) /\ v.epoch = w.epoch
    BY <1>0, <1>15 DEF WellFormed, IsRun
  <2>2. /\ Replies(w, "announced") /\ runs' = (runs \ {w}) \cup {v} /\ UNCHANGED <<mishaps, unheard>>
    BY <1>15 DEF Announce
  <2> HIDE DEF v
  <2>3. /\ IsBar(live') /\ live'.epoch = live.epoch /\ (live'.waiting => live.waiting)
        /\ frame' = Published
    BY <1>0, <2>2, RepliesBar
  <2> QED BY <1>15, <2>1, <2>2, <2>3, GoesOnStep
<1>16. ASSUME NEW w \in runs, GiveUp(w) PROVE BubbleInv'
  <2>1. /\ IsBar(live') /\ live'.epoch = live.epoch /\ live'.waiting = (live.waiting /\ ~Heard(w))
    BY <1>0, <1>16 DEF GiveUp, IsBar, Heard
  <2> QED BY <1>16, <2>1, RetireStep DEF GiveUp
<1>17. ASSUME NEW w \in runs, Judge(w) PROVE BubbleInv'
  <2>1. CASE Heard(w)
    <3> DEFINE v == [w EXCEPT !.stage = "serving"]
    <3>1. IsRun(v) /\ v.epoch = w.epoch
      BY <1>0, <1>17 DEF WellFormed, IsRun
    <3>2. /\ runs' = (runs \ {w}) \cup {v} /\ frame' = Published /\ UNCHANGED <<live, mishaps, unheard>>
      BY <1>17, <2>1 DEF Judge
    <3> HIDE DEF v
    <3> QED BY <1>0, <1>17, <3>1, <3>2, GoesOnStep
  <2>2. CASE ~Heard(w)
    <3>1. /\ Retire(w) /\ frame' = Published /\ UNCHANGED <<live, mishaps>>
      BY <1>17, <2>2 DEF Judge
    <3>2. live'.waiting = (live.waiting /\ ~Heard(w))
      BY <1>0, <2>2, <3>1 DEF IsBar
    <3> QED BY <1>0, <1>17, <3>1, <3>2, RetireStep
  <2> QED BY <2>1, <2>2
<1>18. ASSUME NEW w \in runs, Serve(w) PROVE BubbleInv'
  <2>1. Replies(w, "answer") /\ Retire(w) /\ mishaps' = mishaps
    BY <1>18 DEF Serve
  <2>2. /\ IsBar(live') /\ live'.epoch = live.epoch /\ live'.waiting = (live.waiting /\ ~Heard(w))
        /\ frame' = Published
    BY <1>0, <2>1, RepliesBar
  <2> QED BY <1>18, <2>1, <2>2, RetireStep
<1>19. CASE UNCHANGED vars
  BY <1>19 DEF vars, BubbleInv, WellFormed, FrameWait, Closed, Someone
<1> QED
  BY <1>1, <1>2, <1>3, <1>4, <1>5, <1>6, <1>7, <1>8, <1>9, <1>10, <1>11, <1>12, <1>13, <1>14,
     <1>15, <1>16, <1>17, <1>18, <1>19 DEF Next

\* Between frames the thinking bubble stands for a run that can still be
\* heard, however frames, replies, Stops and retired runs overlap.
THEOREM BubbleCorrect == Spec => []WaitsForSomeone
<1>1. Init => BubbleInv
  <2> SUFFICES ASSUME Init PROVE BubbleInv
    OBVIOUS
  <2>1. IsBar(Fresh) /\ ~Fresh.waiting
    BY DEF Fresh, IsBar
  <2>2. IsFrame(NoFrame) /\ NoFrame.stage = "closed"
    BY <2>1 DEF NoFrame, IsFrame
  <2> QED BY <2>1, <2>2 DEF Init, BubbleInv, WellFormed, Closed
<1>2. BubbleInv /\ [Next]_vars => BubbleInv'
  BY BubbleStep
<1>3. BubbleInv => WaitsForSomeone
  BY DEF BubbleInv, WaitsForSomeone, Someone, Heard
<1> QED BY <1>1, <1>2, <1>3, PTL DEF Spec

----------------------------------------------------------------------------
\* What is said, by whom, and whether it is saved.

Texts == {"asks", "announced", "answer", "stopped", "timeout", "refused"}
Messages == [who : {"player", "choya"}, text : Texts, q : Questions \cup {None},
             run : Nat \cup {None}]
Histories == Seq(Messages)

Bars == [history : Histories, waiting : BOOLEAN, epoch : Nat, dirty : BOOLEAN, tok : Nat,
         asking : Nat \cup {None}]
Frames == [base : Bars, paint : Bars, stage : {"closed", "open", "acted", "saved"},
           published : BOOLEAN]
Requests == [id : Nat, epoch : Nat, tok : Nat, q : Questions \cup {None},
             stage : {"asked", "plating", "serving"}]

\* A message ends the request r.
EndOf(m, r) == m.run = r /\ m.text \in Ends
Ended(h, r) == \E i \in 1 .. Len(h) : EndOf(h[i], r)
Once(h, r) == \A i, j \in 1 .. Len(h) : EndOf(h[i], r) /\ EndOf(h[j], r) => i = j
EndsBy(h, r, n) == \A i \in 1 .. Len(h) : EndOf(h[i], r) => i <= n
RunsBy(h, n) == \A i \in 1 .. Len(h) : h[i].run \in (1 .. n) \cup {None}

\* Nothing speaks of a request that was not sent.
Known(s) == s.asking \in (1 .. sent) \cup {None} /\ RunsBy(s.history, sent)

TypeInv ==
  /\ live \in Bars /\ frame \in Frames /\ runs \subseteq Requests /\ sent \in Nat
  /\ cancelled \subseteq Nat /\ IsFiniteSet(cancelled)
  /\ \A w \in runs : w.id \in 1 .. sent
  /\ \A v, w \in runs : v.id = w.id => v = w
  /\ Known(live) /\ Known(frame.base) /\ Known(frame.paint)

\* What an open frame knows of live, and how far either has grown.
FrameInv ==
  /\ Len(live.history) <= CAP + 3
  /\ Closed => frame.paint.history = <<>>
  /\ ~Closed =>
       /\ frame.base.epoch = live.epoch
       /\ live.asking \in {frame.base.asking, None}
       /\ ~frame.published => live.history = frame.base.history /\ live.asking = frame.base.asking
       /\ Len(frame.base.history) <= CAP + 3
       /\ live.history = frame.base.history \/ Len(live.history) <= CAP
       /\ frame.paint.history = frame.base.history \/ Len(frame.paint.history) <= CAP
       /\ Len(frame.paint.history) <= Len(frame.base.history) + 3
       /\ Open => Len(frame.paint.history) <= Len(frame.base.history) + 1

Told == mishaps \cap {"panicked", "reset"} = {}

\* What was handed over last is what an untouched bar shows.
SaveInv ==
  Told /\ ~overlap =>
    /\ Closed => handed = live.history \/ live.dirty
    /\ ~Closed =>
         /\ \/ live.history = frame.base.history /\ (live.dirty <=> frame.base.dirty)
            \/ live.dirty /\ ~frame.base.dirty
         /\ IF frame.stage = "saved"
            THEN ~frame.paint.dirty /\ handed = frame.paint.history
            ELSE /\ frame.base.dirty \/ handed = frame.base.history
                 /\ \/ frame.paint.dirty
                    \/ ~frame.base.dirty /\ frame.paint.history = frame.base.history

\* The epoch of live, and that of the frame, belong to the run asked last.
AskedInv ==
  Told =>
    /\ \A w \in runs : Heard(w) => w.id = live.asking
    /\ Closed => \A w \in runs : w.epoch <= live.epoch
    /\ ~Closed =>
         /\ \A w \in runs : /\ w.epoch <= frame.paint.epoch
                            /\ w.epoch = frame.paint.epoch => w.id = frame.paint.asking
         /\ \/ frame.paint.epoch = live.epoch /\ frame.paint.asking = frame.base.asking
            \/ /\ live.epoch < frame.paint.epoch
               /\ frame.paint.asking = None \/ frame.paint.asking # frame.base.asking

\* A request that has ended is not open and cannot be heard again.
Settled(s) ==
  /\ \A w \in runs : w.id = s.asking => w.epoch <= s.epoch
  /\ \A r \in (1 .. sent) \ late :
       /\ Once(s.history, r)
       /\ Ended(s.history, r) => r # s.asking /\ \A w \in runs : w.id = r => w.epoch < s.epoch

EndedInv ==
  "reset" \notin mishaps =>
    /\ Settled(live)
    /\ ~Closed =>
         /\ Settled(frame.paint)
         /\ live.epoch <= frame.paint.epoch
         /\ \A r \in (1 .. sent) \ late : EndsBy(live.history, r, Len(frame.base.history))
         /\ frame.paint.asking \notin {frame.base.asking, None} =>
              /\ ~Ended(live.history, frame.paint.asking)
              /\ \A w \in runs : w.id = frame.paint.asking => live.epoch < w.epoch

ChatInv == TypeInv /\ FrameInv /\ SaveInv /\ AskedInv /\ EndedInv

----------------------------------------------------------------------------

\* The history t, made of h by a message that does or does not end r, has no
\* other end of r, and none further back than h had.
Grows(h, t, r, ends) ==
  /\ Ended(t, r) => Ended(h, r) \/ ends
  /\ Once(h, r) /\ (Ended(h, r) => ~ends) => Once(t, r)
  /\ \A b \in Nat : EndsBy(h, r, b) /\ ~ends => EndsBy(t, r, b)

\* t is h and m, without the first d of them.
Ending(h, m, t, d) ==
  /\ Len(t) = Len(h) + 1 - d
  /\ \A i \in 1 .. Len(t) : \/ i + d = Len(h) + 1 /\ t[i] = m
                            \/ i + d \in 1 .. Len(h) /\ t[i] = h[i + d]

LEMMA Trimmed ==
  ASSUME NEW h \in Histories, NEW m \in Messages
  PROVE  /\ TrimHistory(Append(h, m)) \in Histories
         /\ Len(TrimHistory(Append(h, m))) <= CAP
         /\ Len(TrimHistory(Append(h, m))) <= Len(h) + 1
         /\ \E d \in 0 .. Len(h) : Ending(h, m, TrimHistory(Append(h, m)), d)
<1>1. PICK g : g = Append(h, m)
  OBVIOUS
<1>2. /\ g \in Histories /\ Len(g) = Len(h) + 1 /\ Len(h) \in Nat
      /\ \A i \in 1 .. Len(h) : g[i] = h[i]
      /\ g[Len(h) + 1] = m
  BY <1>1, AppendProperties DEF Histories
<1>3. CAP \in Nat \ {0}
  BY CapAssumption
<1>4. CASE Len(h) + 1 <= CAP
  <2>1. TrimHistory(g) = g
    BY <1>1, <1>2, <1>3, <1>4 DEF TrimHistory
  <2>2. \A i \in 1 .. Len(g) : \/ i + 0 = Len(h) + 1 /\ g[i] = m
                               \/ i + 0 \in 1 .. Len(h) /\ g[i] = h[i + 0]
    BY <1>2
  <2>3. Ending(h, m, g, 0)
    BY <1>2, <2>2 DEF Ending
  <2> QED BY <1>1, <1>2, <1>4, <2>1, <2>3
<1>5. CASE ~(Len(h) + 1 <= CAP)
  <2>0. Len(h) + 1 - CAP \in 1 .. Len(h)
    BY <1>2, <1>3, <1>5
  <2>1. PICK d \in 1 .. Len(h) : d = Len(h) + 1 - CAP
    BY <2>0
  <2>2. TrimHistory(g) = SubSeq(g, d + 1, Len(g))
    <3>1. Len(g) > CAP /\ Len(g) - CAP + 1 = d + 1
      BY <1>2, <1>3, <1>5, <2>1
    <3> QED BY <3>1 DEF TrimHistory
  <2>3. PICK t : t = TrimHistory(g)
    OBVIOUS
  <2>4. /\ t \in Histories /\ Len(t) = Len(g) - d
        /\ \A i \in 1 .. Len(g) - d : t[i] = g[d + 1 + i - 1]
    <3>1. \A i \in d + 1 .. Len(g) : i \in 1 .. Len(g)
      BY <1>2, <2>1
    <3>2. \A i \in d + 1 .. Len(g) : g[i] \in Messages
      BY <1>2, <3>1 DEF Histories
    <3>3. /\ d + 1 \in Int /\ Len(g) \in Int /\ d + 1 <= Len(g)
          /\ Len(g) - (d + 1) + 1 = Len(g) - d
      BY <1>2, <2>1
    <3> QED BY <2>2, <2>3, <3>2, <3>3, SubSeqProperties DEF Histories
  <2>6. ASSUME NEW i \in 1 .. Len(t)
        PROVE  \/ i + d = Len(h) + 1 /\ t[i] = m
               \/ i + d \in 1 .. Len(h) /\ t[i] = h[i + d]
    <3>1. i \in 1 .. Len(g) - d /\ d + 1 + i - 1 = i + d /\ i + d \in 1 .. Len(h) + 1
      BY <1>2, <2>1, <2>4
    <3>2. t[i] = g[i + d]
      BY <2>4, <3>1
    <3> QED BY <1>2, <3>1, <3>2
  <2>7. Ending(h, m, t, d)
    BY <1>1, <1>2, <2>1, <2>4, <2>6 DEF Ending
  <2>8. Len(t) <= CAP /\ Len(t) <= Len(h) + 1 /\ d \in 0 .. Len(h)
    BY <1>1, <1>2, <1>3, <2>1, <2>4
  <2> QED BY <1>1, <2>3, <2>4, <2>7, <2>8
<1> QED BY <1>4, <1>5

\* A message appended, and what is over the cap dropped.
LEMMA TrimmedGrows ==
  ASSUME NEW h \in Histories, NEW m \in Messages, NEW r
  PROVE  Grows(h, TrimHistory(Append(h, m)), r, EndOf(m, r))
<1>1. PICK t \in Histories : t = TrimHistory(Append(h, m))
  BY Trimmed
<1>2. Len(h) \in Nat /\ Len(t) \in Nat
  BY DEF Histories
<1>3. PICK d \in 0 .. Len(h) : Ending(h, m, t, d)
  BY <1>1, Trimmed
<1>4. \A i \in 1 .. Len(t) :
         \/ i + d = Len(h) + 1 /\ t[i] = m
         \/ i + d \in 1 .. Len(h) /\ t[i] = h[i + d]
  BY <1>3 DEF Ending
<1>5. Ended(t, r) => Ended(h, r) \/ EndOf(m, r)
  BY <1>4 DEF Ended
<1>6. ASSUME Once(h, r), Ended(h, r) => ~EndOf(m, r) PROVE Once(t, r)
  <2>1. SUFFICES ASSUME NEW i \in 1 .. Len(t), NEW j \in 1 .. Len(t),
                        EndOf(t[i], r), EndOf(t[j], r)
                 PROVE  i = j
    BY DEF Once
  <2>2. CASE EndOf(m, r)
    <3>1. \A k \in 1 .. Len(h) : ~EndOf(h[k], r)
      BY <1>6, <2>2 DEF Ended
    <3> QED BY <1>2, <1>3, <1>4, <2>1, <3>1
  <2>3. CASE ~EndOf(m, r)
    <3>1. i + d \in 1 .. Len(h) /\ EndOf(h[i + d], r) /\ j + d \in 1 .. Len(h) /\ EndOf(h[j + d], r)
      BY <1>4, <2>1, <2>3
    <3>2. i + d = j + d
      BY <1>6, <3>1 DEF Once
    <3> QED BY <1>2, <1>3, <2>1, <3>2
  <2> QED BY <2>2, <2>3
<1>7. ASSUME NEW b \in Nat, EndsBy(h, r, b), ~EndOf(m, r) PROVE EndsBy(t, r, b)
  <2>1. SUFFICES ASSUME NEW i \in 1 .. Len(t), EndOf(t[i], r) PROVE i <= b
    BY DEF EndsBy
  <2>2. i + d \in 1 .. Len(h) /\ EndOf(h[i + d], r)
    BY <1>4, <1>7, <2>1
  <2>3. i + d <= b
    BY <1>7, <2>2 DEF EndsBy
  <2> QED BY <1>2, <1>3, <2>1, <2>3
<1> QED BY <1>1, <1>5, <1>6, <1>7 DEF Grows

LEMMA TrimmedRuns ==
  ASSUME NEW h \in Histories, NEW m \in Messages, NEW n \in Nat, RunsBy(h, n),
         m.run \in (1 .. n) \cup {None}
  PROVE  RunsBy(TrimHistory(Append(h, m)), n)
<1>1. PICK t \in Histories : t = TrimHistory(Append(h, m))
  BY Trimmed
<1>2. Len(h) \in Nat /\ Len(t) \in Nat
  BY DEF Histories
<1>3. PICK d \in 0 .. Len(h) : Ending(h, m, t, d)
  BY <1>1, Trimmed
<1>4. \A i \in 1 .. Len(t) :
         \/ i + d = Len(h) + 1 /\ t[i] = m
         \/ i + d \in 1 .. Len(h) /\ t[i] = h[i + d]
  BY <1>3 DEF Ending
<1> QED BY <1>1, <1>4 DEF RunsBy

LEMMA GrowsTwice ==
  ASSUME NEW h, NEW t, NEW u, NEW r, NEW ends, Grows(h, t, r, FALSE), Grows(t, u, r, ends)
  PROVE  Grows(h, u, r, ends)
BY DEF Grows

LEMMA GrowsNot ==
  ASSUME NEW h, NEW r, NEW ends
  PROVE  Grows(h, h, r, ends) /\ Grows(h, <<>>, r, ends)
<1>1. Grows(h, h, r, ends)
  BY DEF Grows
<1>2. Grows(h, <<>>, r, ends)
  <2>1. Len(<<>>) = 0
    OBVIOUS
  <2>2. \A i \in 1 .. Len(<<>>) : FALSE
    BY <2>1
  <2>3. ~Ended(<<>>, r) /\ Once(<<>>, r) /\ \A b \in Nat : EndsBy(<<>>, r, b)
    BY <2>2 DEF Ended, Once, EndsBy
  <2> QED BY <2>3 DEF Grows
<1> QED BY <1>1, <1>2

LEMMA GrowsMore ==
  ASSUME NEW h, NEW t, NEW r, NEW ends, Grows(h, t, r, FALSE)
  PROVE  Grows(h, t, r, ends)
BY DEF Grows

LEMMA MessageFacts ==
  ASSUME NEW who \in {"player", "choya"}, NEW text \in Texts, NEW q \in Questions \cup {None},
         NEW run \in Nat \cup {None}
  PROVE  /\ Message(who, text, q, run) \in Messages
         /\ Message(who, text, q, run).run = run
         /\ \A r : EndOf(Message(who, text, q, run), r) <=> run = r /\ text \in Ends
BY DEF Message, Messages, EndOf

\* The bar after a reply, and after a question.
LEMMA ReplyFacts ==
  ASSUME NEW s \in Bars, NEW text \in Texts, NEW q \in Questions \cup {None},
         NEW run \in Nat \cup {None}
  PROVE  /\ AddReply(s, text, q, run) \in Bars
         /\ ~AddReply(s, text, q, run).waiting
         /\ AddReply(s, text, q, run).dirty
         /\ AddReply(s, text, q, run).history =
              TrimHistory(Append(s.history, Message("choya", text, q, run)))
         /\ AddReply(s, text, q, run).epoch = s.epoch
         /\ AddReply(s, text, q, run).tok = s.tok
         /\ AddReply(s, text, q, run).asking = s.asking
<1>1. PICK h \in Histories : h = TrimHistory(Append(s.history, Message("choya", text, q, run)))
  BY MessageFacts, Trimmed DEF Bars
<1>2. AddReply(s, text, q, run) = [s EXCEPT !.history = h, !.waiting = FALSE, !.dirty = TRUE]
  BY <1>1 DEF AddReply
<1> QED BY <1>1, <1>2 DEF Bars

LEMMA ReplyRest ==
  ASSUME NEW s \in Bars, NEW text, NEW q, NEW run
  PROVE  /\ AddReply(s, text, q, run).dirty
         /\ AddReply(s, text, q, run).epoch = s.epoch
         /\ AddReply(s, text, q, run).asking = s.asking
BY DEF AddReply, Bars

LEMMA QueueRest ==
  ASSUME NEW s \in Bars, NEW q, NEW run
  PROVE  /\ QueueUserMessage(s, q, run).dirty
         /\ QueueUserMessage(s, q, run).epoch = s.epoch
         /\ QueueUserMessage(s, q, run).asking = s.asking
BY DEF QueueUserMessage, Bars

LEMMA QueueFacts ==
  ASSUME NEW s \in Bars, NEW q \in Questions \cup {None}, NEW run \in Nat \cup {None}
  PROVE  /\ QueueUserMessage(s, q, run) \in Bars
         /\ (QueueUserMessage(s, q, run).waiting <=> s.waiting)
         /\ QueueUserMessage(s, q, run).dirty
         /\ QueueUserMessage(s, q, run).history =
              TrimHistory(Append(s.history, Message("player", "asks", q, run)))
         /\ QueueUserMessage(s, q, run).epoch = s.epoch
         /\ QueueUserMessage(s, q, run).tok = s.tok
         /\ QueueUserMessage(s, q, run).asking = s.asking
<1>0. "asks" \in Texts
  BY DEF Texts
<1>1. PICK h \in Histories : h = TrimHistory(Append(s.history, Message("player", "asks", q, run)))
  BY <1>0, MessageFacts, Trimmed DEF Bars
<1>2. QueueUserMessage(s, q, run) = [s EXCEPT !.history = h, !.dirty = TRUE]
  BY <1>1 DEF QueueUserMessage
<1> QED BY <1>1, <1>2 DEF Bars

\* What the history of s becomes in that of new, by n messages at most.
Longer(s, new, n) ==
  /\ Len(new.history) <= Len(s.history) + n
  /\ new.history = s.history \/ Len(new.history) <= CAP
  /\ RunsBy(s.history, sent) => RunsBy(new.history, sent)

\* What the player does but send: the bar keeps its epoch and its run, or gives
\* both up, and only then ends that run's request.
Moves(s, new) ==
  /\ Longer(s, new, 2)
  /\ \/ new.dirty
     \/ (new.dirty <=> s.dirty) /\ new.history = s.history
  /\ \/ new.epoch = s.epoch /\ new.asking = s.asking
        /\ \A r : Grows(s.history, new.history, r, FALSE)
     \/ new.epoch = s.epoch + 1 /\ new.asking = None
        /\ \A r : Grows(s.history, new.history, r, r = s.asking)

LEMMA ReplyLonger ==
  ASSUME NEW s \in Bars, NEW text \in Texts, NEW q \in Questions \cup {None},
         NEW run \in (1 .. sent) \cup {None}, sent \in Nat
  PROVE  /\ Longer(s, AddReply(s, text, q, run), 1)
         /\ \A r : Grows(s.history, AddReply(s, text, q, run).history, r,
                         run = r /\ text \in Ends)
<1>1. run \in Nat \cup {None}
  OBVIOUS
<1>2. PICK m \in Messages : /\ m = Message("choya", text, q, run) /\ m.run = run
                            /\ \A r : EndOf(m, r) <=> run = r /\ text \in Ends
  BY <1>1, MessageFacts
<1>3. AddReply(s, text, q, run).history = TrimHistory(Append(s.history, m))
  BY <1>1, <1>2, ReplyFacts
<1>4. s.history \in Histories
  BY DEF Bars
<1>5. Longer(s, AddReply(s, text, q, run), 1)
  BY <1>2, <1>3, <1>4, Trimmed, TrimmedRuns DEF Longer
<1>6. ASSUME NEW r PROVE Grows(s.history, TrimHistory(Append(s.history, m)), r, run = r /\ text \in Ends)
  <2>1. Grows(s.history, TrimHistory(Append(s.history, m)), r, EndOf(m, r))
    BY <1>4, TrimmedGrows
  <2> QED BY <1>2, <2>1 DEF Grows
<1> QED BY <1>3, <1>5, <1>6

LEMMA QueueLonger ==
  ASSUME NEW s \in Bars, NEW q \in Questions \cup {None},
         NEW run \in Nat \cup {None}, sent \in Nat
  PROVE  LET new == QueueUserMessage(s, q, run)
         IN /\ Len(new.history) <= Len(s.history) + 1 /\ Len(new.history) <= CAP
            /\ \A n \in Nat : RunsBy(s.history, n) /\ run \in (1 .. n) \cup {None} => RunsBy(new.history, n)
            /\ \A r : Grows(s.history, new.history, r, FALSE)
<1>0. "asks" \in Texts /\ "asks" \notin Ends
  BY DEF Texts, Ends
<1>2. PICK m \in Messages : /\ m = Message("player", "asks", q, run) /\ m.run = run
                            /\ \A r : ~EndOf(m, r)
  BY <1>0, MessageFacts
<1>3. QueueUserMessage(s, q, run).history = TrimHistory(Append(s.history, m))
  BY <1>2, QueueFacts
<1>4. s.history \in Histories
  BY DEF Bars
<1>5. ASSUME NEW r PROVE Grows(s.history, TrimHistory(Append(s.history, m)), r, FALSE)
  <2>1. Grows(s.history, TrimHistory(Append(s.history, m)), r, EndOf(m, r))
    BY <1>4, TrimmedGrows
  <2> QED BY <1>2, <2>1 DEF Grows
<1> QED BY <1>2, <1>3, <1>4, <1>5, Trimmed, TrimmedRuns

\* One step of the merge's fold, and what it keeps: see MergedKeeps.
Merging(c, h, m) == IF Holds(h, m) THEN h ELSE Append(h, m)

\* h is start and, after it, of the first k lines of seq those it lacked.
MergedUpTo(start, seq, h, k) ==
  /\ h \in Histories /\ Len(h) <= Len(start) + k
  /\ \A i \in 1 .. Len(start) : i \in 1 .. Len(h) /\ h[i] = start[i]
  /\ \A i \in 1 .. k : Holds(h, seq[i])
  /\ \A i \in 1 .. Len(h) : i <= Len(start) \/ \E j \in 1 .. k : h[i] = seq[j]
  /\ \A i, j \in 1 .. Len(h) : i < j /\ Len(start) < j => ~Same(h[i], h[j])

KeptSoFar(c, h, k) == MergedUpTo(c[1], c[2], h, k)

Merged == INSTANCE FoldFacts WITH Step <- Merging, Keeps <- KeptSoFar

\* Of a set of indices that is not empty, one is the last.
LEMMA LastOfSome ==
  ASSUME NEW n \in Nat, NEW S \in SUBSET (1 .. n), S # {}
  PROVE  \E i \in S : \A j \in S : j <= i
<1>1. PICK back : back = {n - i : i \in S}
  OBVIOUS
<1>2. back \in SUBSET Nat /\ back # {}
  <2>1. \A i \in S : i \in 1 .. n
    OBVIOUS
  <2>2. \A i \in S : n - i \in Nat
    BY <2>1
  <2> QED BY <1>1, <2>2
<1>3. PICK m \in back : \A k \in back : m <= k
  BY <1>2, Merged!Least
<1>4. PICK i \in S : m = n - i
  BY <1>1
<1>5. \A j \in S : n - i <= n - j /\ i \in 1 .. n /\ j \in 1 .. n
  BY <1>1, <1>3, <1>4
<1> QED BY <1>5

\* The bar of a run given up, before the reply that says so.
LEMMA GivenUp ==
  ASSUME NEW s \in Bars, NEW tok \in Nat
  PROVE  LET new == [s EXCEPT !.tok = tok, !.epoch = @ + 1, !.asking = None]
             over == [s EXCEPT !.epoch = @ + 1, !.asking = None]
             none == [s EXCEPT !.epoch = @ + 1, !.waiting = FALSE, !.asking = None]
         IN /\ new \in Bars /\ new.history = s.history /\ new.epoch = s.epoch + 1 /\ new.asking = None
            /\ over \in Bars /\ over.history = s.history /\ over.epoch = s.epoch + 1 /\ over.asking = None
            /\ none \in Bars /\ none.history = s.history /\ none.epoch = s.epoch + 1 /\ none.asking = None
            /\ none.dirty = s.dirty
<1>1. s.epoch + 1 \in Nat
  BY DEF Bars
<1>2. PICK e \in Nat : e = s.epoch + 1
  BY <1>1
<1>3. [s EXCEPT !.tok = tok, !.epoch = e, !.asking = None] \in Bars
  BY DEF Bars
<1>4. [s EXCEPT !.epoch = e, !.asking = None] \in Bars
  BY DEF Bars
<1>5. [s EXCEPT !.epoch = e, !.waiting = FALSE, !.asking = None] \in Bars
  BY DEF Bars
<1> QED BY <1>2, <1>3, <1>4, <1>5 DEF Bars

\* What a Stop looks up: the last thing the player asked.
LEMMA StoppedFacts ==
  ASSUME NEW s \in Bars, NEW tok \in Nat, sent \in Nat, s.asking \in (1 .. sent) \cup {None}
  PROVE  /\ Stopped(s, tok) \in Bars /\ Stopped(s, tok).asking = None /\ Moves(s, Stopped(s, tok))
<1>1. PICK asked : asked = {i \in DOMAIN s.history : s.history[i].who = "player"}
  OBVIOUS
<1>11. PICK last : last = CHOOSE i \in asked : \A j \in asked : j <= i
  OBVIOUS
<1>2. PICK q : q = IF asked = {} THEN None ELSE s.history[last].q
  OBVIOUS
<1>3. q \in Questions \cup {None}
  <2>1. Len(s.history) \in Nat /\ DOMAIN s.history = 1 .. Len(s.history)
    BY DEF Bars, Histories
  <2>2. CASE asked # {}
    <3>1. asked \in SUBSET (1 .. Len(s.history))
      BY <1>1, <2>1
    <3>2. \E i \in asked : \A j \in asked : j <= i
      BY <2>1, <2>2, <3>1, LastOfSome
    <3>3. PICK i \in 1 .. Len(s.history) : i = last
      BY <1>11, <3>1, <3>2
    <3>4. s.history[i] \in Messages
      BY DEF Bars, Histories
    <3> QED BY <1>2, <2>2, <3>3, <3>4 DEF Messages
  <2> QED BY <1>2, <2>2
<1>4. PICK was \in Bars : /\ was = [s EXCEPT !.tok = tok, !.epoch = @ + 1, !.asking = None]
                          /\ was.history = s.history /\ was.epoch = s.epoch + 1
                          /\ was.asking = None
  <2>1. PICK was : was = [s EXCEPT !.tok = tok, !.epoch = @ + 1, !.asking = None]
    OBVIOUS
  <2>2. was \in Bars /\ was.history = s.history /\ was.epoch = s.epoch + 1 /\ was.asking = None
    BY <2>1, GivenUp
  <2> QED BY <2>1, <2>2
<1>5. Stopped(s, tok) = AddReply(was, "stopped", q, s.asking)
  BY <1>1, <1>11, <1>2, <1>4 DEF Stopped
<1>6. "stopped" \in Texts /\ "stopped" \in Ends /\ s.asking \in Nat \cup {None}
  BY DEF Texts, Ends
<1>7. PICK new, run : new = AddReply(was, "stopped", q, run) /\ run = s.asking
  OBVIOUS
<1>8. /\ new \in Bars /\ new.dirty /\ new.epoch = was.epoch /\ new.asking = was.asking
      /\ Longer(was, new, 1)
      /\ \A r : Grows(was.history, new.history, r, run = r /\ "stopped" \in Ends)
  <2>1. run \in Nat \cup {None} /\ run \in (1 .. sent) \cup {None}
    BY <1>6, <1>7
  <2>2. new \in Bars
    BY <1>3, <1>6, <1>7, <2>1, ReplyFacts
  <2>5. /\ AddReply(was, "stopped", q, run).dirty /\ AddReply(was, "stopped", q, run).epoch = was.epoch
        /\ AddReply(was, "stopped", q, run).asking = was.asking
    BY ReplyRest
  <2>3. Longer(was, new, 1)
    BY <1>3, <1>6, <1>7, <2>1, ReplyLonger
  <2>4. \A r : Grows(was.history, new.history, r, run = r /\ "stopped" \in Ends)
    BY <1>3, <1>6, <1>7, <2>1, ReplyLonger
  <2> QED BY <1>7, <2>2, <2>3, <2>4, <2>5
<1>9. Longer(s, new, 2)
  <2>1. Len(s.history) \in Nat /\ Len(new.history) \in Nat
    BY DEF Bars, Histories
  <2> QED BY <1>4, <1>8, <2>1 DEF Longer
<1>10. \A r : Grows(s.history, new.history, r, r = s.asking)
  <2>1. \A r : Grows(s.history, new.history, r, run = r)
    BY <1>4, <1>6, <1>8
  <2> QED BY <1>7, <2>1 DEF Grows
<1> QED BY <1>4, <1>5, <1>7, <1>8, <1>9, <1>10 DEF Moves

LEMMA ExpiredFacts ==
  ASSUME NEW s \in Bars, sent \in Nat, s.asking \in (1 .. sent) \cup {None}
  PROVE  /\ KitchenTimeout(s) \in Bars /\ KitchenTimeout(s).asking = None
         /\ Moves(s, KitchenTimeout(s)) /\ Longer(s, KitchenTimeout(s), 1)
<1>4. PICK was \in Bars : /\ was = [s EXCEPT !.epoch = @ + 1, !.asking = None]
                          /\ was.history = s.history /\ was.epoch = s.epoch + 1
                          /\ was.asking = None
  <2>1. PICK was : was = [s EXCEPT !.epoch = @ + 1, !.asking = None]
    OBVIOUS
  <2>2. 0 \in Nat
    OBVIOUS
  <2>3. was \in Bars /\ was.history = s.history /\ was.epoch = s.epoch + 1 /\ was.asking = None
    BY <2>1, <2>2, GivenUp
  <2> QED BY <2>1, <2>3
<1>5. KitchenTimeout(s) = AddReply(was, "timeout", None, s.asking)
  BY <1>4 DEF KitchenTimeout
<1>6. /\ "timeout" \in Texts /\ "timeout" \in Ends /\ s.asking \in Nat \cup {None}
      /\ None \in Questions \cup {None}
  BY DEF Texts, Ends
<1>7. PICK new, run : new = AddReply(was, "timeout", None, run) /\ run = s.asking
  OBVIOUS
<1>8. /\ new \in Bars /\ new.dirty /\ new.epoch = was.epoch /\ new.asking = was.asking
      /\ Longer(was, new, 1)
      /\ \A r : Grows(was.history, new.history, r, run = r /\ "timeout" \in Ends)
  <2>1. run \in Nat \cup {None} /\ run \in (1 .. sent) \cup {None}
    BY <1>6, <1>7
  <2>2. new \in Bars
    BY <1>6, <1>7, <2>1, ReplyFacts
  <2>5. /\ AddReply(was, "timeout", None, run).dirty /\ AddReply(was, "timeout", None, run).epoch = was.epoch
        /\ AddReply(was, "timeout", None, run).asking = was.asking
    BY ReplyRest
  <2>3. Longer(was, new, 1)
    BY <1>6, <1>7, <2>1, ReplyLonger
  <2>4. \A r : Grows(was.history, new.history, r, run = r /\ "timeout" \in Ends)
    BY <1>6, <1>7, <2>1, ReplyLonger
  <2> QED BY <1>7, <2>2, <2>3, <2>4, <2>5
<1>9. Longer(s, new, 1) /\ Longer(s, new, 2)
  <2>1. Len(s.history) \in Nat /\ Len(new.history) \in Nat
    BY DEF Bars, Histories
  <2> QED BY <1>4, <1>8, <2>1 DEF Longer
<1>10. \A r : Grows(s.history, new.history, r, r = s.asking)
  <2>1. \A r : Grows(s.history, new.history, r, run = r)
    BY <1>4, <1>6, <1>8
  <2> QED BY <1>7, <2>1 DEF Grows
<1> QED BY <1>4, <1>5, <1>7, <1>8, <1>9, <1>10 DEF Moves

\* A question refused is shown with the refusal.
LEMMA RefusedFacts ==
  ASSUME NEW s \in Bars, sent \in Nat, NEW q \in Questions
  PROVE  LET new == AddReply(QueueUserMessage(s, q, None), "refused", None, None)
         IN new \in Bars /\ new.asking = s.asking /\ Moves(s, new)
<1>1. PICK mid \in Bars : /\ mid = QueueUserMessage(s, q, None)
                          /\ mid.epoch = s.epoch /\ mid.asking = s.asking
  BY QueueFacts
<1>2. /\ Len(mid.history) <= Len(s.history) + 1
      /\ RunsBy(s.history, sent) => RunsBy(mid.history, sent)
      /\ \A r : Grows(s.history, mid.history, r, FALSE)
  BY <1>1, QueueLonger
<1>3. /\ "refused" \in Texts /\ "refused" \notin Ends /\ None \in (1 .. sent) \cup {None}
      /\ None \in Questions \cup {None}
  BY DEF Texts, Ends
<1>4. PICK new, m : new = AddReply(mid, "refused", None, None) /\ m = Message("choya", "refused", None, None)
  OBVIOUS
<1>11. /\ new \in Bars /\ new.dirty /\ new.epoch = mid.epoch /\ new.asking = mid.asking
       /\ new.history = TrimHistory(Append(mid.history, m))
  <2>1. None \in Nat \cup {None}
    OBVIOUS
  <2>2. /\ AddReply(mid, "refused", None, None).dirty
        /\ AddReply(mid, "refused", None, None).epoch = mid.epoch
        /\ AddReply(mid, "refused", None, None).asking = mid.asking
    BY ReplyRest
  <2>3. AddReply(mid, "refused", None, None) \in Bars
    BY <1>3, <2>1, ReplyFacts
  <2>4. AddReply(mid, "refused", None, None).history = TrimHistory(Append(mid.history, m))
    BY <1>3, <1>4, <2>1, ReplyFacts
  <2> QED BY <1>4, <2>2, <2>3, <2>4
<1>5. /\ Longer(mid, new, 1)
      /\ \A r : Grows(mid.history, new.history, r, None = r /\ "refused" \in Ends)
  BY <1>3, <1>4, ReplyLonger
<1>6. \A r : Grows(mid.history, new.history, r, FALSE)
  BY <1>3, <1>5 DEF Grows
<1>7. \A r : Grows(s.history, new.history, r, FALSE)
  BY <1>2, <1>6, GrowsTwice
<1>8. m \in Messages /\ mid.history \in Histories
  BY <1>3, <1>4, MessageFacts DEF Bars
<1>9. Len(new.history) <= CAP
  BY <1>11, <1>8, Trimmed
<1>10. Longer(s, new, 2)
  <2>1. Len(s.history) \in Nat /\ Len(new.history) \in Nat /\ Len(mid.history) \in Nat
    BY DEF Bars, Histories
  <2> QED BY <1>2, <1>5, <1>9, <2>1 DEF Longer
<1> QED BY <1>1, <1>4, <1>11, <1>7, <1>10 DEF Moves

LEMMA UnspawnedFacts ==
  ASSUME NEW s \in Bars, sent \in Nat, NEW q \in Questions
  PROVE  LET new == [QueueUserMessage(s, q, None) EXCEPT !.epoch = @ + 1, !.waiting = FALSE,
                                                         !.asking = None]
         IN new \in Bars /\ new.asking = None /\ Moves(s, new)
<1>1. PICK mid \in Bars : /\ mid = QueueUserMessage(s, q, None)
                          /\ mid.epoch = s.epoch /\ mid.dirty
  BY QueueFacts
<1>2. /\ Len(mid.history) <= Len(s.history) + 1 /\ Len(mid.history) <= CAP
      /\ RunsBy(s.history, sent) => RunsBy(mid.history, sent)
      /\ \A r : Grows(s.history, mid.history, r, FALSE)
  BY <1>1, QueueLonger
<1>3. PICK new : new = [mid EXCEPT !.epoch = @ + 1, !.waiting = FALSE, !.asking = None]
  OBVIOUS
<1>4. /\ new \in Bars /\ new.dirty /\ new.epoch = s.epoch + 1 /\ new.asking = None
      /\ new.history = mid.history
  <2>1. 0 \in Nat
    OBVIOUS
  <2>2. /\ new \in Bars /\ new.dirty = mid.dirty /\ new.epoch = mid.epoch + 1 /\ new.asking = None
        /\ new.history = mid.history
    BY <1>3, <2>1, GivenUp
  <2> QED BY <1>1, <2>2
<1>5. Longer(s, new, 2)
  <2>1. Len(s.history) \in Nat /\ Len(mid.history) \in Nat
    BY DEF Bars, Histories
  <2> QED BY <1>2, <1>4, <2>1 DEF Longer
<1>6. \A r : Grows(s.history, new.history, r, r = s.asking)
  BY <1>2, <1>4, GrowsMore
<1> QED BY <1>1, <1>3, <1>4, <1>5, <1>6 DEF Moves

LEMMA RenewedFacts ==
  ASSUME NEW s \in Bars, NEW tok \in Nat
  PROVE  LET new == [s EXCEPT !.tok = tok]
         IN new \in Bars /\ new.asking = s.asking /\ Moves(s, new)
<1>1. PICK new : new = [s EXCEPT !.tok = tok]
  OBVIOUS
<1>2. /\ new \in Bars /\ (new.dirty <=> s.dirty) /\ new.epoch = s.epoch /\ new.asking = s.asking
      /\ new.history = s.history
  BY <1>1 DEF Bars
<1>3. Longer(s, new, 2)
  <2>1. Len(s.history) \in Nat
    BY DEF Bars, Histories
  <2> QED BY <1>2, <2>1 DEF Longer
<1>4. \A r : Grows(s.history, new.history, r, FALSE)
  BY <1>2, GrowsNot
<1> QED BY <1>1, <1>2, <1>3, <1>4 DEF Moves

LEMMA ClearedFacts ==
  ASSUME NEW s \in Bars
  PROVE  LET new == [s EXCEPT !.history = <<>>, !.dirty = TRUE]
         IN new \in Bars /\ new.asking = s.asking /\ Moves(s, new)
<1>0. <<>> \in Histories /\ Len(<<>>) = 0 /\ \A n : RunsBy(<<>>, n)
  BY DEF Histories, RunsBy
<1>1. PICK new : new = [s EXCEPT !.history = <<>>, !.dirty = TRUE]
  OBVIOUS
<1>2. /\ new \in Bars /\ new.dirty /\ new.epoch = s.epoch /\ new.asking = s.asking
      /\ new.history = <<>>
  BY <1>0, <1>1 DEF Bars
<1>3. Longer(s, new, 2)
  <2>1. Len(s.history) \in Nat /\ CAP \in Nat
    BY CapAssumption DEF Bars, Histories
  <2> QED BY <1>0, <1>2, <2>1 DEF Longer
<1>4. \A r : Grows(s.history, new.history, r, FALSE)
  BY <1>2, GrowsNot
<1> QED BY <1>1, <1>2, <1>3, <1>4 DEF Moves

LEMMA BarLen ==
  ASSUME NEW s \in Bars
  PROVE  s.history \in Histories /\ Len(s.history) \in Nat /\ s.epoch \in Nat
BY DEF Bars, Histories

\* The bar of a first run.
LEMMA FreshBar ==
  /\ Fresh \in Bars /\ Fresh.history = <<>> /\ Fresh.asking = None
  /\ Len(<<>>) = 0 /\ \A n : RunsBy(<<>>, n)
<1>1. <<>> \in Histories /\ Len(<<>>) = 0
  BY DEF Histories
<1>2. \A n : RunsBy(<<>>, n)
  BY <1>1 DEF RunsBy
<1> QED BY <1>1, <1>2 DEF Fresh, Bars

LEMMA SettledMoves ==
  ASSUME NEW s \in Bars, NEW new \in Bars, TypeInv, Settled(s), Moves(s, new)
  PROVE  Settled(new)
<1>1. s.epoch \in Nat /\ \A w \in runs : w.id \in Nat /\ w.epoch \in Nat
  BY DEF TypeInv, Requests, Bars
<1>2. \A w \in runs : w.id # None
  BY <1>1, NoneAssumption
<1>3. CASE new.epoch = s.epoch /\ new.asking = s.asking
           /\ \A r : Grows(s.history, new.history, r, FALSE)
  BY <1>3 DEF Settled, Grows
<1>4. CASE new.epoch = s.epoch + 1 /\ new.asking = None
           /\ \A r : Grows(s.history, new.history, r, r = s.asking)
  <2>1. ASSUME NEW r \in (1 .. sent) \ late PROVE Once(new.history, r)
    BY <1>4, <2>1 DEF Settled, Grows
  <2>2. ASSUME NEW r \in (1 .. sent) \ late, Ended(new.history, r), NEW w \in runs, w.id = r
        PROVE  w.epoch < new.epoch
    <3>1. CASE r = s.asking
      <4>1. w.epoch <= s.epoch
        BY <2>2, <3>1 DEF Settled
      <4> QED BY <1>1, <1>4, <4>1
    <3>2. CASE r # s.asking
      <4>1. Ended(s.history, r)
        BY <1>4, <2>2, <3>2 DEF Grows
      <4>2. w.epoch < s.epoch
        BY <2>2, <4>1 DEF Settled
      <4> QED BY <1>1, <1>4, <4>2
    <3> QED BY <3>1, <3>2
  <2>3. \A r \in (1 .. sent) \ late : r # new.asking
    <3>1. sent \in Nat
      BY DEF TypeInv
    <3> QED BY <1>4, <3>1, NoneAssumption
  <2>4. \A w \in runs : w.id # new.asking
    BY <1>2, <1>4
  <2> QED BY <2>1, <2>2, <2>3, <2>4 DEF Settled
<1> QED BY <1>3, <1>4 DEF Moves

LEMMA ActedFrame ==
  ASSUME frame \in Frames, NEW paint \in Bars, frame' = Acted(paint)
  PROVE  /\ frame' \in Frames /\ frame'.base = frame.base /\ frame'.paint = paint
         /\ frame'.stage = "acted" /\ (frame'.published <=> frame.published)
BY DEF Acted, Frames

LEMMA ActedKeeps ==
  ASSUME ChatInv, Open, NEW paint \in Bars, Moves(frame.paint, paint),
         paint.asking \in {frame.paint.asking, None}, frame' = Acted(paint),
         UNCHANGED <<live, runs, handed, sent, late, overlap>>, mishaps \subseteq mishaps',
         cancelled' \subseteq Nat, IsFiniteSet(cancelled')
  PROVE  ChatInv'
<1> USE DEF ChatInv
<1>1. frame \in Frames /\ live \in Bars /\ frame.paint \in Bars /\ frame.base \in Bars
  BY DEF TypeInv, Frames
<1>2. /\ frame' \in Frames /\ frame'.base = frame.base /\ frame'.paint = paint
      /\ frame'.stage = "acted" /\ (frame'.published <=> frame.published)
  BY <1>1, ActedFrame
<1>3. ~Closed /\ ~Closed' /\ ~Open'
  BY <1>2 DEF Open, Closed
<1>4. TypeInv'
  <2>1. paint.asking \in (1 .. sent) \cup {None} /\ RunsBy(paint.history, sent)
    BY DEF TypeInv, Known, Moves, Longer
  <2>2. Known(live)' /\ Known(frame.base)' /\ Known(frame.paint)'
    BY <1>2, <2>1 DEF TypeInv, Known, RunsBy
  <2> QED BY <1>1, <1>2, <2>2 DEF TypeInv
<1>5. FrameInv'
  <2>1. /\ Len(frame.paint.history) \in Nat /\ Len(frame.base.history) \in Nat
        /\ Len(paint.history) \in Nat
    BY <1>1, BarLen
  <2>2. Len(frame.paint.history) <= Len(frame.base.history) + 1
    BY <1>3 DEF FrameInv
  <2>3. Len(paint.history) <= Len(frame.base.history) + 3
    <3>1. Len(paint.history) <= Len(frame.paint.history) + 2
      BY DEF Moves, Longer
    <3>2. PICK p, b, n \in Nat : /\ p = Len(frame.paint.history) /\ b = Len(frame.base.history)
                                 /\ n = Len(paint.history)
      BY <2>1
    <3>3. p <= b + 1 /\ n <= p + 2
      BY <2>2, <3>1, <3>2
    <3>4. n <= b + 3
      BY <3>2, <3>3
    <3> QED BY <3>2, <3>4
  <2>4. paint.history = frame.base.history \/ Len(paint.history) <= CAP
    BY <1>3 DEF FrameInv, Moves, Longer
  <2> QED BY <1>2, <1>3, <2>3, <2>4 DEF FrameInv
<1>6. SaveInv'
  <2>1. SUFFICES ASSUME Told, ~overlap PROVE SaveInv'
    BY DEF SaveInv, Told
  <2>2. /\ \/ live.history = frame.base.history /\ (live.dirty <=> frame.base.dirty)
           \/ live.dirty /\ ~frame.base.dirty
        /\ frame.base.dirty \/ handed = frame.base.history
        /\ \/ frame.paint.dirty
           \/ ~frame.base.dirty /\ frame.paint.history = frame.base.history
    BY <1>3, <2>1 DEF SaveInv, Open
  <2>3. \/ paint.dirty
        \/ ~frame.base.dirty /\ paint.history = frame.base.history
    BY <2>2 DEF Moves
  <2> QED BY <1>2, <1>3, <2>2, <2>3 DEF SaveInv
<1>7. AskedInv'
  <2>1. SUFFICES ASSUME Told PROVE AskedInv'
    BY DEF AskedInv, Told
  <2>2. /\ \A w \in runs : Heard(w) => w.id = live.asking
        /\ \A w \in runs : /\ w.epoch <= frame.paint.epoch
                           /\ w.epoch = frame.paint.epoch => w.id = frame.paint.asking
        /\ \/ frame.paint.epoch = live.epoch /\ frame.paint.asking = frame.base.asking
           \/ /\ live.epoch < frame.paint.epoch
              /\ frame.paint.asking = None \/ frame.paint.asking # frame.base.asking
    BY <1>3, <2>1 DEF AskedInv
  <2>3. /\ live.epoch \in Nat /\ frame.paint.epoch \in Nat /\ paint.epoch \in Nat
        /\ \A w \in runs : w.epoch \in Nat
    BY <1>1 DEF Bars, TypeInv, Requests
  <2>4. \/ paint.epoch = frame.paint.epoch /\ paint.asking = frame.paint.asking
        \/ paint.epoch = frame.paint.epoch + 1 /\ paint.asking = None
    BY DEF Moves
  <2>5. /\ \A w \in runs : /\ w.epoch <= paint.epoch
                           /\ w.epoch = paint.epoch => w.id = paint.asking
        /\ \/ paint.epoch = live.epoch /\ paint.asking = frame.base.asking
           \/ /\ live.epoch < paint.epoch
              /\ paint.asking = None \/ paint.asking # frame.base.asking
    <3>1. CASE paint.epoch = frame.paint.epoch /\ paint.asking = frame.paint.asking
      BY <2>2, <3>1
    <3>2. CASE paint.epoch = frame.paint.epoch + 1 /\ paint.asking = None
      BY <2>2, <2>3, <3>2
    <3> QED BY <2>4, <3>1, <3>2
  <2> QED BY <1>2, <1>3, <2>2, <2>5 DEF AskedInv, Heard
<1>8. EndedInv'
  <2>1. SUFFICES ASSUME "reset" \notin mishaps PROVE EndedInv'
    BY DEF EndedInv
  <2>2. /\ Settled(live) /\ Settled(frame.paint) /\ live.epoch <= frame.paint.epoch
        /\ \A r \in (1 .. sent) \ late : EndsBy(live.history, r, Len(frame.base.history))
        /\ frame.paint.asking \notin {frame.base.asking, None} =>
             /\ ~Ended(live.history, frame.paint.asking)
             /\ \A w \in runs : w.id = frame.paint.asking => live.epoch < w.epoch
    BY <1>3, <2>1 DEF EndedInv
  <2>3. Settled(paint)
    BY <1>1, <2>2, SettledMoves
  <2>4. live.epoch <= paint.epoch
    <3>1. live.epoch \in Nat /\ frame.paint.epoch \in Nat
      BY <1>1 DEF Bars
    <3>2. paint.epoch = frame.paint.epoch \/ paint.epoch = frame.paint.epoch + 1
      BY DEF Moves
    <3> QED BY <2>2, <3>1, <3>2
  <2>5. Settled(live)'
    BY <2>2 DEF Settled
  <2>6. Settled(frame.paint)'
    BY <1>2, <2>3 DEF Settled
  <2>7. frame.paint.asking' \notin {frame.base.asking, None} =>
          /\ ~Ended(live.history, frame.paint.asking)'
          /\ \A w \in runs : w.id = frame.paint.asking' => live.epoch < w.epoch
    <3>1. ASSUME paint.asking \notin {frame.base.asking, None} PROVE paint.asking = frame.paint.asking
      BY <3>1
    <3> QED BY <1>2, <2>2, <3>1
  <2>8. \A r \in (1 .. sent) \ late : EndsBy(live.history, r, Len(frame.base.history))'
    BY <1>2, <2>2 DEF EndsBy
  <2> QED BY <1>2, <1>3, <2>4, <2>5, <2>6, <2>7, <2>8 DEF EndedInv
<1> QED BY <1>4, <1>5, <1>6, <1>7, <1>8

LEMMA ResetKeeps ==
  ASSUME ChatInv, ResetToFirstRun
  PROVE  ChatInv'
<1> USE DEF ChatInv
<1>1. frame \in Frames /\ cancelled \subseteq Nat /\ IsFiniteSet(cancelled)
  BY DEF TypeInv
<1>2. PICK tok \in Nat : tok = Cardinality(cancelled) + 1
  BY <1>1, FS_CardinalityType
<1>3. PICK paint : paint = [Fresh EXCEPT !.tok = tok]
  OBVIOUS
<1>12. paint \in Bars /\ paint.history = <<>> /\ paint.asking = None
  BY <1>3, FreshBar DEF Bars
<1>4. /\ frame' = Acted(paint) /\ Open /\ cancelled' = cancelled \cup {frame.paint.tok}
      /\ UNCHANGED <<live, runs, handed, sent, late, overlap>> /\ "reset" \in mishaps'
  BY <1>2, <1>3 DEF ResetToFirstRun, Mishap
<1>5. /\ frame' \in Frames /\ frame'.base = frame.base /\ frame'.paint = paint
      /\ frame'.stage = "acted" /\ (frame'.published <=> frame.published)
  BY <1>1, <1>4, <1>12, ActedFrame
<1>6. ~Closed /\ ~Closed' /\ ~Open'
  BY <1>4, <1>5 DEF Open, Closed
<1>7. cancelled' \subseteq Nat /\ IsFiniteSet(cancelled')
  <2>1. frame.paint.tok \in Nat
    BY <1>1 DEF Frames, Bars
  <2> QED BY <1>1, <1>4, <2>1, FS_AddElement
<1>8. TypeInv'
  BY <1>12, <1>4, <1>5, <1>7, FreshBar DEF TypeInv, Known
<1>9. FrameInv'
  <2>1. Len(frame.base.history) \in Nat /\ CAP \in Nat
    BY <1>1, CapAssumption DEF Frames, Bars, Histories
  <2>2. Len(paint.history) <= Len(frame.base.history) + 3 /\ Len(paint.history) <= CAP
    BY <1>12, <2>1, FreshBar
  <2> QED BY <1>4, <1>5, <1>6, <2>2 DEF FrameInv
<1>11. SaveInv' /\ AskedInv' /\ EndedInv'
  BY <1>4 DEF SaveInv, AskedInv, EndedInv, Told
<1> QED BY <1>8, <1>9, <1>11

\* A frame captured shows the live bar, or one past its wait.
LEMMA CapturedKeeps ==
  ASSUME ChatInv, Closed, NEW paint \in Bars, Moves(live, paint), Longer(live, paint, 1),
         paint.asking \in {live.asking, None}, frame' = Captured(paint),
         UNCHANGED <<live, runs, cancelled, handed, sent, mishaps, late, overlap>>
  PROVE  ChatInv'
<1> USE DEF ChatInv
<1>1. live \in Bars
  BY DEF TypeInv
<1>2. /\ frame' \in Frames /\ frame'.base = live /\ frame'.paint = paint
      /\ frame'.stage = "open" /\ ~frame'.published
  BY <1>1 DEF Captured, Frames
<1>3. ~Closed' /\ Open'
  BY <1>2 DEF Open, Closed
<1>4. TypeInv'
  <2>1. paint.asking \in (1 .. sent) \cup {None} /\ RunsBy(paint.history, sent)
    BY DEF TypeInv, Known, Moves, Longer
  <2>2. Known(live)' /\ Known(frame.base)' /\ Known(frame.paint)'
    BY <1>2, <2>1 DEF TypeInv, Known, RunsBy
  <2> QED BY <1>1, <1>2, <2>2 DEF TypeInv
<1>5. FrameInv'
  <2>1. Len(paint.history) <= Len(live.history) + 1 /\ Len(live.history) <= CAP + 3
    BY DEF Longer, FrameInv
  <2>2. paint.history = live.history \/ Len(paint.history) <= CAP
    BY DEF Longer
  <2> QED BY <1>2, <1>3, <2>1, <2>2 DEF FrameInv
<1>6. SaveInv'
  <2>1. SUFFICES ASSUME Told, ~overlap PROVE SaveInv'
    BY DEF SaveInv, Told
  <2>2. live.dirty \/ handed = live.history
    BY <2>1 DEF SaveInv
  <2>3. \/ paint.dirty
        \/ ~live.dirty /\ paint.history = live.history
    BY DEF Moves
  <2> QED BY <1>2, <1>3, <2>2, <2>3 DEF SaveInv
<1>7. AskedInv'
  <2>1. SUFFICES ASSUME Told PROVE AskedInv'
    BY DEF AskedInv, Told
  <2>2. /\ \A w \in runs : w.epoch = live.epoch => w.id = live.asking
        /\ \A w \in runs : w.epoch <= live.epoch
    BY <2>1 DEF AskedInv, Heard
  <2>3. /\ live.epoch \in Nat /\ paint.epoch \in Nat
        /\ \A w \in runs : w.epoch \in Nat
    BY <1>1, BarLen DEF TypeInv, Requests
  <2>4. \/ paint.epoch = live.epoch /\ paint.asking = live.asking
        \/ paint.epoch = live.epoch + 1 /\ paint.asking = None
    BY DEF Moves
  <2>5. /\ \A w \in runs : /\ w.epoch <= paint.epoch
                           /\ w.epoch = paint.epoch => w.id = paint.asking
        /\ \/ paint.epoch = live.epoch /\ paint.asking = live.asking
           \/ live.epoch < paint.epoch /\ paint.asking = None
    <3>1. CASE paint.epoch = live.epoch /\ paint.asking = live.asking
      BY <2>2, <3>1
    <3>2. CASE paint.epoch = live.epoch + 1 /\ paint.asking = None
      BY <2>2, <2>3, <3>2
    <3> QED BY <2>4, <3>1, <3>2
  <2> QED BY <1>2, <1>3, <2>2, <2>5 DEF AskedInv, Heard
<1>8. EndedInv'
  <2>1. SUFFICES ASSUME "reset" \notin mishaps PROVE EndedInv'
    BY DEF EndedInv
  <2>2. Settled(live) /\ Settled(paint)
    BY <1>1, <2>1, SettledMoves DEF EndedInv
  <2>4. live.epoch <= paint.epoch
    <3>1. live.epoch \in Nat /\ paint.epoch \in Nat
      BY <1>1, BarLen
    <3>2. paint.epoch = live.epoch \/ paint.epoch = live.epoch + 1
      BY DEF Moves
    <3> QED BY <3>1, <3>2
  <2>5. Settled(live)'
    BY <2>2 DEF Settled
  <2>6. Settled(frame.paint)'
    BY <1>2, <2>2 DEF Settled
  <2>7. \A r : EndsBy(live.history, r, Len(live.history))
    BY <1>1, BarLen DEF EndsBy
  <2>8. \A r \in (1 .. sent) \ late : EndsBy(live.history, r, Len(frame.base.history))'
    BY <1>2, <2>7 DEF EndsBy
  <2> QED BY <1>2, <1>3, <2>4, <2>5, <2>6, <2>8 DEF EndedInv
<1> QED BY <1>4, <1>5, <1>6, <1>7, <1>8

\* The end of the layout hands over what it would otherwise mark unsaved.
LEMMA SaveKeeps ==
  ASSUME ChatInv, SaveHistory
  PROVE  ChatInv'
<1> USE DEF ChatInv
<1>0. PICK paint : paint = [frame.paint EXCEPT !.dirty = FALSE]
  OBVIOUS
<1>1. frame \in Frames /\ live \in Bars /\ frame.paint \in Bars /\ frame.base \in Bars
  BY DEF TypeInv, Frames
<1>2. /\ paint \in Bars /\ ~paint.dirty /\ paint.history = frame.paint.history
      /\ paint.epoch = frame.paint.epoch /\ paint.asking = frame.paint.asking
  BY <1>0, <1>1 DEF Bars
<1>3. /\ frame' \in Frames /\ frame'.base = frame.base /\ frame'.paint = paint
      /\ frame'.stage = "saved" /\ (frame'.published <=> frame.published)
  <2>1. frame' = [frame EXCEPT !.stage = "saved", !.paint = paint]
    BY <1>0, <1>1 DEF SaveHistory, Frames
  <2> QED BY <1>1, <1>2, <2>1 DEF Frames
<1>4. /\ UNCHANGED <<live, runs, cancelled, sent, mishaps, late, overlap>>
      /\ handed' = IF frame.paint.dirty THEN frame.paint.history ELSE handed
      /\ ~Closed /\ frame.stage # "saved"
  BY DEF SaveHistory, Closed
<1>5. ~Closed' /\ ~Open'
  BY <1>3 DEF Open, Closed
<1>6. TypeInv'
  <2>2. Known(live)' /\ Known(frame.base)' /\ Known(frame.paint)'
    BY <1>2, <1>3, <1>4 DEF TypeInv, Known, RunsBy
  <2> QED BY <1>1, <1>3, <1>4, <2>2 DEF TypeInv
<1>7. FrameInv'
  <2>1. Len(frame.base.history) \in Nat /\ Len(frame.paint.history) \in Nat
    BY <1>1, BarLen
  <2>2. Len(frame.paint.history) <= Len(frame.base.history) + 3
    BY <1>4, <2>1 DEF FrameInv
  <2> QED BY <1>2, <1>3, <1>4, <1>5, <2>2 DEF FrameInv
<1>8. SaveInv'
  <2>1. SUFFICES ASSUME Told, ~overlap PROVE SaveInv'
    BY <1>4 DEF SaveInv, Told
  <2>2. /\ \/ live.history = frame.base.history /\ (live.dirty <=> frame.base.dirty)
           \/ live.dirty /\ ~frame.base.dirty
        /\ frame.base.dirty \/ handed = frame.base.history
        /\ \/ frame.paint.dirty
           \/ ~frame.base.dirty /\ frame.paint.history = frame.base.history
    BY <1>4, <2>1 DEF SaveInv
  <2>3. handed' = frame.paint.history
    BY <1>4, <2>2
  <2> QED BY <1>2, <1>3, <1>4, <1>5, <2>2, <2>3 DEF SaveInv
<1>9. AskedInv'
  <2>1. SUFFICES ASSUME Told PROVE AskedInv'
    BY <1>4 DEF AskedInv, Told
  <2> QED BY <1>2, <1>3, <1>4, <1>5, <2>1 DEF AskedInv, Heard
<1>10. EndedInv'
  <2>1. SUFFICES ASSUME "reset" \notin mishaps PROVE EndedInv'
    BY <1>4 DEF EndedInv
  <2>2. Settled(live) /\ Settled(frame.paint)
    BY <1>4, <2>1 DEF EndedInv
  <2>5. Settled(live)'
    BY <1>4, <2>2 DEF Settled
  <2>6. Settled(frame.paint)'
    BY <1>2, <1>3, <1>4, <2>2 DEF Settled
  <2> QED BY <1>2, <1>3, <1>4, <1>5, <2>1, <2>5, <2>6 DEF EndedInv
<1> QED BY <1>6, <1>7, <1>8, <1>9, <1>10

\* A layout that panics leaves the live bar as it was.
LEMMA PanicKeeps ==
  ASSUME ChatInv, LayoutPanics
  PROVE  ChatInv'
<1> USE DEF ChatInv
<1>1. /\ frame' = NoFrame /\ ~Closed /\ "panicked" \in mishaps' /\ mishaps \subseteq mishaps'
      /\ UNCHANGED <<live, runs, cancelled, handed, sent, late, overlap>>
  BY DEF LayoutPanics, Mishap
<1>2. /\ NoFrame \in Frames /\ NoFrame.base = Fresh /\ NoFrame.paint = Fresh
      /\ NoFrame.stage = "closed"
  BY FreshBar DEF NoFrame, Frames
<1>3. Closed'
  BY <1>1, <1>2 DEF Closed
<1>4. TypeInv'
  <2>2. Known(live)' /\ Known(frame.base)' /\ Known(frame.paint)'
    BY <1>1, <1>2, FreshBar DEF TypeInv, Known, RunsBy
  <2> QED BY <1>1, <1>2, <2>2 DEF TypeInv
<1>5. FrameInv'
  BY <1>1, <1>2, <1>3, FreshBar DEF FrameInv
<1>6. SaveInv' /\ AskedInv'
  BY <1>1 DEF SaveInv, AskedInv, Told
<1>7. EndedInv'
  <2>1. SUFFICES ASSUME "reset" \notin mishaps PROVE EndedInv'
    BY <1>1 DEF EndedInv
  <2>5. Settled(live)'
    BY <1>1, <2>1 DEF Settled, EndedInv
  <2> QED BY <1>3, <2>5 DEF EndedInv
<1> QED BY <1>4, <1>5, <1>6, <1>7

\* The workers are those there were, but for their stages.
Fewer ==
  /\ runs' \subseteq Requests
  /\ \A v \in runs' : \E w \in runs : v.id = w.id /\ v.epoch = w.epoch
  /\ \A v, w \in runs' : v.id = w.id => v = w

\* Any publish of another thread.
LEMMA PublishedOpen ==
  ASSUME frame \in Frames, frame' = Published
  PROVE  /\ frame' \in Frames /\ frame'.base = frame.base /\ frame'.paint = frame.paint
         /\ frame'.stage = frame.stage /\ (frame.published => frame'.published)
         /\ ~Closed => frame'.published
BY DEF Frames, Published

\* A step that changes no more than the wait, the workers and the mark of a publish.
LEMMA QuietKeeps ==
  ASSUME ChatInv, live' \in Bars, live'.history = live.history, live'.epoch = live.epoch,
         live'.dirty <=> live.dirty, live'.asking = live.asking,
         frame' \in Frames, frame'.base = frame.base, frame'.paint = frame.paint,
         frame'.stage = frame.stage, frame.published => frame'.published, Fewer,
         overlap' <=> overlap, UNCHANGED <<cancelled, handed, sent, mishaps, late>>
  PROVE  ChatInv'
<1> USE DEF ChatInv
<1>1. (Closed' <=> Closed) /\ (Open' <=> Open)
  BY DEF Open, Closed
<1>2. TypeInv'
  <2>1. Known(live)' /\ Known(frame.base)' /\ Known(frame.paint)'
    BY DEF TypeInv, Known, RunsBy
  <2>2. \A v \in runs' : v.id \in 1 .. sent
    BY DEF Fewer, TypeInv
  <2> QED BY <2>1, <2>2 DEF TypeInv, Fewer
<1>3. FrameInv'
  BY <1>1 DEF FrameInv
<1>4. SaveInv'
  BY <1>1 DEF SaveInv, Told
<1>5. AskedInv'
  <2>1. SUFFICES ASSUME Told PROVE AskedInv'
    BY DEF AskedInv, Told
  <2>2. \A v \in runs' : v.epoch = live.epoch => v.id = live.asking
    BY <2>1 DEF AskedInv, Fewer, Heard
  <2>3. Closed => \A v \in runs' : v.epoch <= live.epoch
    BY <2>1 DEF AskedInv, Fewer
  <2>4. ~Closed => \A v \in runs' : /\ v.epoch <= frame.paint.epoch
                                    /\ v.epoch = frame.paint.epoch => v.id = frame.paint.asking
    BY <2>1 DEF AskedInv, Fewer
  <2> QED BY <1>1, <2>1, <2>2, <2>3, <2>4 DEF AskedInv, Heard
<1>6. EndedInv'
  <2>1. SUFFICES ASSUME "reset" \notin mishaps PROVE EndedInv'
    BY DEF EndedInv
  <2>2. Settled(live) /\ (~Closed => Settled(frame.paint))
    BY <2>1 DEF EndedInv
  <2>3. ASSUME NEW s, Settled(s)
        PROVE  /\ \A v \in runs' : v.id = s.asking => v.epoch <= s.epoch
               /\ \A r \in (1 .. sent) \ late :
                    /\ Once(s.history, r)
                    /\ Ended(s.history, r) => r # s.asking /\ \A v \in runs' : v.id = r => v.epoch < s.epoch
    BY <2>3 DEF Settled, Fewer
  <2>4. Settled(live)'
    BY <2>2, <2>3 DEF Settled
  <2>5. ~Closed => Settled(frame.paint)'
    BY <2>2, <2>3 DEF Settled
  <2>6. ~Closed /\ frame.paint.asking \notin {frame.base.asking, None} =>
          \A v \in runs' : v.id = frame.paint.asking => live.epoch < v.epoch
    BY <2>1 DEF EndedInv, Fewer
  <2> QED BY <1>1, <2>1, <2>4, <2>5, <2>6 DEF EndedInv
<1> QED BY <1>2, <1>3, <1>4, <1>5, <1>6

\* A run that is heard adds its line, and with its answer has ended.
LEMMA ReplyKeeps ==
  ASSUME ChatInv, NEW w \in runs, Heard(w), NEW ends \in BOOLEAN,
         live' \in Bars, live'.dirty, live'.epoch = live.epoch,
         live'.asking = IF ends THEN None ELSE live.asking,
         Longer(live, live', 1),
         \A r : Grows(live.history, live'.history, r, w.id = r /\ ends),
         frame' \in Frames, frame'.base = frame.base, frame'.paint = frame.paint,
         frame'.stage = frame.stage, ~Closed => frame'.published, Fewer,
         ends => \A v \in runs' : v.id # w.id,
         late' = IF ~Closed THEN late \cup {w.id} ELSE late,
         overlap' <=> (overlap \/ (~Closed /\ frame.base.dirty)),
         UNCHANGED <<cancelled, handed, sent, mishaps>>
  PROVE  ChatInv'
<1> USE DEF ChatInv
<1>0. PICK new \in Bars : new = live'
  OBVIOUS
<1>1. (Closed' <=> Closed) /\ (Open' <=> Open)
  BY DEF Open, Closed
<1>10. /\ live \in Bars /\ live.epoch \in Nat /\ Len(live.history) \in Nat
       /\ Len(new.history) \in Nat /\ CAP \in Nat
       /\ w.id \in 1 .. sent /\ w.id \in Nat /\ w.epoch = live.epoch
  BY <1>0, BarLen, CapAssumption DEF TypeInv, Heard, Requests
<1>11. \A v \in runs' : v.id # None
  BY NoneAssumption DEF Fewer, Requests
<1>2. TypeInv'
  <2>1. Known(live)' /\ Known(frame.base)' /\ Known(frame.paint)'
    BY DEF TypeInv, Known, RunsBy, Longer
  <2>2. \A v \in runs' : v.id \in 1 .. sent
    BY DEF Fewer, TypeInv
  <2> QED BY <2>1, <2>2 DEF TypeInv, Fewer
<1>3. FrameInv'
  <2>1. new.history = live.history \/ Len(new.history) <= CAP
    BY <1>0 DEF Longer
  <2>2. Len(new.history) <= CAP + 3
    BY <1>10, <2>1 DEF FrameInv
  <2>3. ~Closed => new.asking \in {frame.base.asking, None}
    BY <1>0 DEF FrameInv
  <2> QED BY <1>0, <1>1, <2>1, <2>2, <2>3 DEF FrameInv
<1>4. SaveInv'
  BY <1>1 DEF SaveInv, Told
<1>5. AskedInv'
  <2>1. SUFFICES ASSUME Told PROVE AskedInv'
    BY DEF AskedInv, Told
  <2>2. \A v \in runs' : v.epoch = live.epoch => v.id = new.asking
    <3>1. \A v \in runs' : v.epoch = live.epoch => v.id = live.asking
      BY <2>1 DEF AskedInv, Fewer, Heard
    <3>2. w.id = live.asking
      BY <2>1 DEF AskedInv
    <3> QED BY <1>0, <3>1, <3>2
  <2>3. Closed => \A v \in runs' : v.epoch <= live.epoch
    BY <2>1 DEF AskedInv, Fewer
  <2>4. ~Closed => \A v \in runs' : /\ v.epoch <= frame.paint.epoch
                                    /\ v.epoch = frame.paint.epoch => v.id = frame.paint.asking
    BY <2>1 DEF AskedInv, Fewer
  <2> QED BY <1>0, <1>1, <2>1, <2>2, <2>3, <2>4 DEF AskedInv, Heard
<1>6. EndedInv'
  <2>1. SUFFICES ASSUME "reset" \notin mishaps PROVE EndedInv'
    BY DEF EndedInv
  <2>2. Settled(live) /\ (~Closed => Settled(frame.paint))
    BY <2>1 DEF EndedInv
  <2>3. ASSUME NEW r \in (1 .. sent) \ late
        PROVE  /\ Once(new.history, r)
               /\ Ended(new.history, r) =>
                    r # new.asking /\ \A v \in runs' : v.id = r => v.epoch < live.epoch
    <3>1. Ended(live.history, r) => r # w.id
      <4>1. Ended(live.history, r) /\ r = w.id => w.epoch < live.epoch
        BY <2>2 DEF Settled
      <4> QED BY <1>10, <4>1
    <3>2. Once(new.history, r)
      BY <1>0, <2>2, <3>1 DEF Settled, Grows
    <3>3. Ended(new.history, r) => Ended(live.history, r) \/ (w.id = r /\ ends)
      BY <1>0 DEF Grows
    <3>4. r # None
      BY <1>10, NoneAssumption DEF TypeInv
    <3>5. Ended(live.history, r) => r # live.asking /\ \A v \in runs' : v.id = r => v.epoch < live.epoch
      BY <2>2 DEF Settled, Fewer
    <3> QED BY <1>0, <3>2, <3>3, <3>4, <3>5
  <2>4. Settled(live)'
    <3>1. \A v \in runs' : v.id = new.asking => v.epoch <= live.epoch
      BY <1>0, <1>11, <2>2 DEF Settled, Fewer
    <3>2. \A r \in (1 .. sent) \ late' : r \in (1 .. sent) \ late
      OBVIOUS
    <3> QED BY <1>0, <2>3, <3>1, <3>2 DEF Settled
  <2>5. ~Closed => Settled(frame.paint)'
    <3>1. ASSUME NEW s, Settled(s)
          PROVE  /\ \A v \in runs' : v.id = s.asking => v.epoch <= s.epoch
                 /\ \A r \in (1 .. sent) \ late' :
                      /\ Once(s.history, r)
                      /\ Ended(s.history, r) => r # s.asking /\ \A v \in runs' : v.id = r => v.epoch < s.epoch
      BY <3>1 DEF Settled, Fewer
    <3> QED BY <2>2, <3>1 DEF Settled
  <2>6. ASSUME ~Closed, NEW r \in (1 .. sent) \ late'
        PROVE  EndsBy(new.history, r, Len(frame.base.history))
    <3>1. r \notin late /\ r # w.id
      BY <2>6
    <3>2. Len(frame.base.history) \in Nat
      BY BarLen DEF TypeInv, Frames
    <3>3. EndsBy(live.history, r, Len(frame.base.history))
      BY <2>1, <2>6, <3>1 DEF EndedInv
    <3>4. Grows(live.history, new.history, r, w.id = r /\ ends)
      BY <1>0
    <3> QED BY <3>1, <3>2, <3>3, <3>4 DEF Grows
  <2>7. ASSUME ~Closed, frame.paint.asking \notin {frame.base.asking, None}
        PROVE  /\ ~Ended(new.history, frame.paint.asking)
               /\ \A v \in runs' : v.id = frame.paint.asking => live.epoch < v.epoch
    <3>1. /\ ~Ended(live.history, frame.paint.asking)
          /\ \A v \in runs : v.id = frame.paint.asking => live.epoch < v.epoch
      BY <2>1, <2>7 DEF EndedInv
    <3>2. w.id # frame.paint.asking
      BY <1>10, <3>1
    <3>3. Grows(live.history, new.history, frame.paint.asking, w.id = frame.paint.asking /\ ends)
      BY <1>0
    <3>4. ~Ended(new.history, frame.paint.asking)
      BY <3>1, <3>2, <3>3 DEF Grows
    <3> QED BY <3>1, <3>4 DEF Fewer
  <2>8. live.epoch <= frame.paint.epoch \/ Closed
    BY <2>1 DEF EndedInv
  <2> QED BY <1>0, <1>1, <2>4, <2>5, <2>6, <2>7, <2>8 DEF EndedInv
<1> QED BY <1>2, <1>3, <1>4, <1>5, <1>6

LEMMA SendKeeps ==
  ASSUME ChatInv, NEW q \in Questions \cup {None}, SendChatMessage(q)
  PROVE  ChatInv'
<1> USE DEF ChatInv
<1>0. PICK id, asked : /\ id = sent + 1
                       /\ asked = [QueueUserMessage(frame.paint, q, id)
                                     EXCEPT !.epoch = @ + 1, !.waiting = TRUE, !.asking = id]
  OBVIOUS
<1>1. PICK new : new = [id |-> id, epoch |-> asked.epoch, tok |-> asked.tok, q |-> q,
                        stage |-> "asked"]
  OBVIOUS
<1>2. /\ Open /\ frame' = Acted(asked) /\ runs' = runs \cup {new} /\ sent' = id
      /\ live' = [live EXCEPT !.waiting = @ \/ ~frame.base.waiting]
      /\ UNCHANGED <<cancelled, handed, mishaps, late, unheard, overlap>>
  BY <1>0, <1>1 DEF SendChatMessage
<1>3. /\ frame \in Frames /\ live \in Bars /\ frame.paint \in Bars /\ frame.base \in Bars
      /\ sent \in Nat /\ id \in Nat /\ id \in 1 .. id /\ 1 .. sent \subseteq 1 .. id
      /\ id \notin 1 .. sent /\ id # None /\ runs \subseteq Requests
      /\ \A w \in runs : w.id \in 1 .. sent
  BY <1>0, NoneAssumption DEF TypeInv, Frames
<1>4. PICK mid \in Bars : /\ mid = QueueUserMessage(frame.paint, q, id) /\ mid.dirty
                          /\ mid.epoch = frame.paint.epoch
                          /\ Len(mid.history) <= Len(frame.paint.history) + 1
                          /\ Len(mid.history) <= CAP
                          /\ RunsBy(mid.history, id)
                          /\ \A r : Grows(frame.paint.history, mid.history, r, FALSE)
  <2>1. RunsBy(frame.paint.history, id)
    BY <1>3 DEF TypeInv, Known, RunsBy
  <2>2. id \in Nat \cup {None} /\ id \in (1 .. id) \cup {None}
    BY <1>3
  <2>3. /\ QueueUserMessage(frame.paint, q, id) \in Bars
        /\ QueueUserMessage(frame.paint, q, id).dirty
        /\ QueueUserMessage(frame.paint, q, id).epoch = frame.paint.epoch
    <3>1. QueueUserMessage(frame.paint, q, id) \in Bars
      BY <1>3, <2>2, QueueFacts
    <3>2. QueueUserMessage(frame.paint, q, id).dirty
      BY <1>3, QueueRest
    <3>3. QueueUserMessage(frame.paint, q, id).epoch = frame.paint.epoch
      BY <1>3, QueueRest
    <3> QED BY <3>1, <3>2, <3>3
  <2>4. /\ Len(QueueUserMessage(frame.paint, q, id).history) <= Len(frame.paint.history) + 1
        /\ Len(QueueUserMessage(frame.paint, q, id).history) <= CAP
        /\ RunsBy(QueueUserMessage(frame.paint, q, id).history, id)
        /\ \A r : Grows(frame.paint.history, QueueUserMessage(frame.paint, q, id).history, r, FALSE)
    BY <1>3, <2>1, <2>2, QueueLonger
  <2> QED BY <2>3, <2>4
<1>5. /\ asked \in Bars /\ asked.dirty /\ asked.epoch = frame.paint.epoch + 1
      /\ asked.asking = id /\ asked.history = mid.history
  <2>1. mid.epoch + 1 \in Nat
    BY <1>4, BarLen
  <2>2. PICK e \in Nat : e = mid.epoch + 1
    BY <2>1
  <2>3. asked = [mid EXCEPT !.epoch = e, !.waiting = TRUE, !.asking = id]
    BY <1>0, <1>4, <2>2
  <2>4. asked \in Bars
    BY <1>3, <2>3 DEF Bars
  <2>5. asked.dirty /\ asked.epoch = e /\ asked.asking = id /\ asked.history = mid.history
    BY <1>4, <2>3 DEF Bars
  <2> QED BY <1>4, <2>2, <2>4, <2>5
<1>6. /\ frame' \in Frames /\ frame'.base = frame.base /\ frame'.paint = asked
      /\ frame'.stage = "acted" /\ (frame'.published <=> frame.published)
  BY <1>2, <1>3, <1>5, ActedFrame
<1>7. ~Closed /\ ~Closed' /\ ~Open'
  BY <1>2, <1>6 DEF Open, Closed
<1>8. new \in Requests /\ new.id = id /\ new.epoch = asked.epoch
  BY <1>1, <1>3, <1>5 DEF Requests, Bars
<1>9. /\ live' \in Bars /\ live'.history = live.history /\ live'.epoch = live.epoch
      /\ (live'.dirty <=> live.dirty) /\ live'.asking = live.asking
  BY <1>2, <1>3 DEF Bars
<1>10. /\ live.epoch \in Nat /\ frame.paint.epoch \in Nat /\ asked.epoch \in Nat
       /\ frame.paint.epoch < asked.epoch
       /\ \A w \in runs : w.epoch \in Nat
  <2>1. \A w \in runs : w.epoch \in Nat
    BY <1>3 DEF Requests
  <2> QED BY <1>3, <1>5, <2>1, BarLen
<1>11. ASSUME NEW h, RunsBy(h, sent) PROVE ~Ended(h, id) /\ Once(h, id) /\ \A b \in Nat : EndsBy(h, id, b)
  <2>1. \A i \in 1 .. Len(h) : h[i].run # id
    BY <1>3, <1>11 DEF RunsBy
  <2> QED BY <2>1 DEF Ended, Once, EndsBy, EndOf
<1>12. TypeInv'
  <2>1. RunsBy(live.history, id) /\ RunsBy(frame.base.history, id)
    BY <1>3 DEF TypeInv, Known, RunsBy
  <2>2. Known(live)' /\ Known(frame.base)' /\ Known(frame.paint)'
    BY <1>2, <1>3, <1>4, <1>5, <1>6, <1>9, <2>1 DEF TypeInv, Known, RunsBy
  <2>3. \A v, w \in runs' : v.id = w.id => v = w
    BY <1>2, <1>3, <1>8 DEF TypeInv
  <2>4. \A w \in runs' : w.id \in 1 .. id
    BY <1>2, <1>3, <1>8
  <2>5. runs' \subseteq Requests
    BY <1>2, <1>3, <1>8
  <2> QED BY <1>2, <1>3, <1>6, <1>9, <2>2, <2>3, <2>4, <2>5 DEF TypeInv
<1>13. FrameInv'
  <2>1. /\ Len(frame.paint.history) \in Nat /\ Len(frame.base.history) \in Nat
        /\ Len(mid.history) \in Nat
    BY <1>3, <1>4, BarLen
  <2>2. Len(frame.paint.history) <= Len(frame.base.history) + 1
    BY <1>2, <1>7 DEF FrameInv
  <2>3. Len(mid.history) <= Len(frame.base.history) + 3
    BY <1>4, <2>1, <2>2
  <2> QED BY <1>2, <1>4, <1>5, <1>6, <1>7, <1>9, <2>3 DEF FrameInv
<1>14. SaveInv'
  <2>1. SUFFICES ASSUME Told, ~overlap PROVE SaveInv'
    BY <1>2 DEF SaveInv, Told
  <2>2. /\ \/ live.history = frame.base.history /\ (live.dirty <=> frame.base.dirty)
           \/ live.dirty /\ ~frame.base.dirty
        /\ frame.base.dirty \/ handed = frame.base.history
    BY <1>2, <1>7, <2>1 DEF SaveInv, Open
  <2> QED BY <1>2, <1>5, <1>6, <1>7, <1>9, <2>2 DEF SaveInv
<1>15. AskedInv'
  <2>1. SUFFICES ASSUME Told PROVE AskedInv'
    BY <1>2 DEF AskedInv, Told
  <2>2. /\ \A w \in runs : w.epoch = live.epoch => w.id = live.asking
        /\ \A w \in runs : w.epoch <= frame.paint.epoch
        /\ live.epoch <= frame.paint.epoch
    BY <1>7, <1>10, <2>1 DEF AskedInv, Heard
  <2>3. live.epoch < asked.epoch /\ \A w \in runs : w.epoch < asked.epoch
    BY <1>10, <2>2
  <2>4. frame.base.asking # id
    BY <1>3 DEF TypeInv, Known
  <2>5. \A w \in runs' : /\ w.epoch = live.epoch => w.id = live.asking
                         /\ w.epoch <= asked.epoch
                         /\ w.epoch = asked.epoch => w.id = id
    BY <1>2, <1>8, <1>10, <2>2, <2>3
  <2> QED BY <1>5, <1>6, <1>7, <1>9, <2>3, <2>4, <2>5 DEF AskedInv, Heard
<1>16. EndedInv'
  <2>1. SUFFICES ASSUME "reset" \notin mishaps PROVE EndedInv'
    BY <1>2 DEF EndedInv
  <2>2. Settled(live) /\ Settled(frame.paint) /\ live.epoch <= frame.paint.epoch
    BY <1>7, <2>1 DEF EndedInv
  <2>3. live.asking # id
    BY <1>3 DEF TypeInv, Known
  <2>4. \A r \in 1 .. id : r = id \/ r \in 1 .. sent
    BY <1>0, <1>3
  <2>5. ~Ended(live.history, id) /\ Once(live.history, id) /\ \A b \in Nat : EndsBy(live.history, id, b)
    BY <1>11 DEF TypeInv, Known
  <2>6. ~Ended(mid.history, id) /\ Once(mid.history, id)
    <3>1. ~Ended(frame.paint.history, id) /\ Once(frame.paint.history, id)
      BY <1>11 DEF TypeInv, Known
    <3> QED BY <1>4, <3>1 DEF Grows
  <2>7. ASSUME NEW r \in (1 .. id) \ late
        PROVE  /\ Once(live.history, r)
               /\ Ended(live.history, r) =>
                    r # live.asking /\ \A w \in runs' : w.id = r => w.epoch < live.epoch
    <3>1. CASE r = id
      BY <2>5, <3>1
    <3>2. CASE r \in 1 .. sent
      BY <1>2, <1>3, <1>8, <2>2, <3>2 DEF Settled
    <3> QED BY <2>4, <3>1, <3>2
  <2>8. ASSUME NEW r \in (1 .. id) \ late
        PROVE  /\ Once(mid.history, r)
               /\ Ended(mid.history, r) =>
                    r # id /\ \A w \in runs' : w.id = r => w.epoch < asked.epoch
    <3>1. CASE r = id
      BY <2>6, <3>1
    <3>2. CASE r \in 1 .. sent
      <4>1. Grows(frame.paint.history, mid.history, r, FALSE)
        BY <1>4
      <4>2. Once(mid.history, r)
        BY <2>2, <3>2, <4>1 DEF Settled, Grows
      <4>3. ASSUME Ended(mid.history, r), NEW w \in runs', w.id = r PROVE w.epoch < asked.epoch
        <5>1. Ended(frame.paint.history, r)
          BY <4>1, <4>3 DEF Grows
        <5>2. w \in runs
          BY <1>2, <1>3, <1>8, <3>2, <4>3
        <5>3. w.epoch < frame.paint.epoch
          BY <2>2, <3>2, <4>3, <5>1, <5>2 DEF Settled
        <5> QED BY <1>10, <5>2, <5>3
      <4> QED BY <1>3, <3>2, <4>2, <4>3
    <3> QED BY <2>4, <3>1, <3>2
  <2>9. Settled(live)'
    <3>1. \A w \in runs' : w.id = live.asking => w.epoch <= live.epoch
      BY <1>2, <1>8, <2>2, <2>3 DEF Settled
    <3> QED BY <1>2, <1>9, <2>7, <3>1 DEF Settled
  <2>10. \A w \in runs' : w.id = id => w.epoch = asked.epoch
    BY <1>2, <1>3, <1>8
  <2>11. Settled(frame.paint)'
    <3>1. \A w \in runs' : w.id = id => w.epoch <= asked.epoch
      BY <1>10, <2>10
    <3> QED BY <1>2, <1>5, <1>6, <2>8, <3>1 DEF Settled
  <2>12. live.epoch < asked.epoch /\ live.epoch <= asked.epoch
    BY <1>10, <2>2
  <2>13. ASSUME NEW r \in (1 .. id) \ late PROVE EndsBy(live.history, r, Len(frame.base.history))
    <3>1. CASE r = id
      BY <1>3, <2>5, <3>1, BarLen
    <3>2. CASE r \in 1 .. sent
      BY <1>7, <2>1, <3>2 DEF EndedInv
    <3> QED BY <2>4, <3>1, <3>2
  <2>14. \A w \in runs' : w.id = id => live.epoch < w.epoch
    BY <2>10, <2>12
  <2> QED BY <1>2, <1>5, <1>6, <1>7, <1>9, <2>5, <2>9, <2>11, <2>12, <2>13, <2>14 DEF EndedInv
<1> QED BY <1>12, <1>13, <1>14, <1>15, <1>16

LEMMA HoldsAt ==
  ASSUME NEW h \in Histories, NEW m
  PROVE  Holds(h, m) <=> \E i \in 1 .. Len(h) : Same(h[i], m)
BY DEF Holds, Histories

\* One step of the merge's fold.
LEMMA MergingKeeps ==
  ASSUME NEW start \in Histories, NEW seq \in Histories, NEW c, c[1] = start, c[2] = seq,
         NEW k \in Nat, k < Len(seq), NEW h, KeptSoFar(c, h, k)
  PROVE  KeptSoFar(c, Merging(c, h, seq[k + 1]), k + 1)
<1>1. /\ h \in Histories /\ Len(h) <= Len(start) + k
      /\ \A i \in 1 .. Len(start) : i \in 1 .. Len(h) /\ h[i] = start[i]
      /\ \A i \in 1 .. k : Holds(h, seq[i])
      /\ \A i \in 1 .. Len(h) : i <= Len(start) \/ \E j \in 1 .. k : h[i] = seq[j]
      /\ \A i, j \in 1 .. Len(h) : i < j /\ Len(start) < j => ~Same(h[i], h[j])
  BY DEF KeptSoFar, MergedUpTo
<1>2. Len(start) \in Nat /\ Len(seq) \in Nat /\ Len(h) \in Nat
  BY <1>1 DEF Histories
<1>3. PICK m \in Messages : m = seq[k + 1]
  BY <1>2 DEF Histories
<1>4. \A i \in 1 .. k + 1 : i \in 1 .. k \/ i = k + 1
  OBVIOUS
<1>5. CASE Holds(h, m)
  <2>1. Merging(c, h, m) = h
    BY <1>5 DEF Merging
  <2>2. Len(h) <= Len(start) + (k + 1)
    BY <1>1, <1>2
  <2>3. \A i \in 1 .. k + 1 : Holds(h, seq[i])
    BY <1>1, <1>3, <1>4, <1>5
  <2>4. \A i \in 1 .. Len(h) : i <= Len(start) \/ \E j \in 1 .. k + 1 : h[i] = seq[j]
    BY <1>1
  <2>5. MergedUpTo(start, seq, h, k + 1)
    BY <1>1, <2>2, <2>3, <2>4 DEF MergedUpTo
  <2> QED BY <1>3, <2>1, <2>5 DEF KeptSoFar
<1>6. CASE ~Holds(h, m)
  <2>1. PICK g : g = Append(h, m)
    OBVIOUS
  <2>2. /\ g \in Histories /\ Len(g) = Len(h) + 1
        /\ \A i \in 1 .. Len(h) : g[i] = h[i]
        /\ g[Len(h) + 1] = m
    BY <1>1, <2>1, AppendProperties DEF Histories
  <2>3. Merging(c, h, m) = g
    BY <1>6, <2>1 DEF Merging
  <2>4. \A i \in 1 .. Len(g) : i \in 1 .. Len(h) \/ i = Len(h) + 1
    BY <1>2, <2>2
  <2>5. \A i \in 1 .. Len(h) : i \in 1 .. Len(g)
    BY <1>2, <2>2
  <2>6. Len(g) <= Len(start) + (k + 1)
    BY <1>1, <1>2, <2>2
  <2>7. \A i \in 1 .. Len(start) : i \in 1 .. Len(g) /\ g[i] = start[i]
    BY <1>1, <2>2, <2>5
  <2>8. ASSUME NEW i \in 1 .. k + 1 PROVE Holds(g, seq[i])
    <3>1. CASE i \in 1 .. k
      <4>1. PICK j \in 1 .. Len(h) : Same(h[j], seq[i])
        BY <1>1, <3>1, HoldsAt
      <4>2. j \in 1 .. Len(g) /\ g[j] = h[j]
        BY <2>2, <2>5
      <4> QED BY <2>2, <4>1, <4>2, HoldsAt
    <3>2. CASE i = k + 1
      <4>1. Len(g) \in 1 .. Len(g) /\ g[Len(g)] = m
        BY <1>2, <2>2
      <4>2. Same(g[Len(g)], seq[i])
        BY <1>3, <3>2, <4>1 DEF Same
      <4> QED BY <2>2, <4>1, <4>2, HoldsAt
    <3> QED BY <1>4, <3>1, <3>2
  <2>9. ASSUME NEW i \in 1 .. Len(g)
        PROVE  i <= Len(start) \/ \E j \in 1 .. k + 1 : g[i] = seq[j]
    <3>1. CASE i \in 1 .. Len(h)
      BY <1>1, <2>2, <3>1
    <3>2. CASE i = Len(h) + 1
      <4>1. k + 1 \in 1 .. k + 1 /\ g[i] = seq[k + 1]
        BY <1>3, <2>2, <3>2
      <4> QED BY <4>1
    <3> QED BY <2>4, <3>1, <3>2
  <2>10. ASSUME NEW i \in 1 .. Len(g), NEW j \in 1 .. Len(g), i < j, Len(start) < j
         PROVE  ~Same(g[i], g[j])
    <3>1. CASE j \in 1 .. Len(h)
      <4>1. i \in 1 .. Len(h)
        BY <1>2, <2>10, <3>1
      <4> QED BY <1>1, <2>2, <2>10, <3>1, <4>1
    <3>2. CASE j = Len(h) + 1
      <4>1. i \in 1 .. Len(h)
        BY <1>2, <2>2, <2>10, <3>2
      <4>2. ~Same(h[i], m)
        BY <1>1, <1>6, <4>1, HoldsAt
      <4> QED BY <2>2, <3>2, <4>1, <4>2
    <3> QED BY <2>4, <3>1, <3>2
  <2>11. MergedUpTo(start, seq, g, k + 1)
    BY <2>2, <2>6, <2>7, <2>8, <2>9, <2>10 DEF MergedUpTo
  <2> QED BY <1>3, <2>3, <2>11 DEF KeptSoFar
<1> QED BY <1>5, <1>6

\* The fold of merge_chat: live, and after it what seq has and live has not.
LEMMA MergedKeeps ==
  ASSUME NEW start \in Histories, NEW seq \in Histories
  PROVE  MergedUpTo(start, seq,
           FoldLeft(LAMBDA h, m : IF Holds(h, m) THEN h ELSE Append(h, m), start, seq), Len(seq))
<1>1. PICK c : c[1] = start /\ c[2] = seq
  <2>1. <<start, seq>>[1] = start /\ <<start, seq>>[2] = seq
    OBVIOUS
  <2> QED BY <2>1
<1>2. PICK n \in Nat : n = Len(seq) /\ DOMAIN seq = 1 .. n
  BY DEF Histories
<1>3. Len(start) \in Nat
  BY DEF Histories
<1>4. KeptSoFar(c, start, 0)
  BY <1>1, <1>3 DEF KeptSoFar, MergedUpTo
<1>5. \A k \in Nat : \A value :
        k < n /\ KeptSoFar(c, value, k) => KeptSoFar(c, Merging(c, value, seq[k + 1]), k + 1)
  BY <1>1, <1>2, MergingKeeps
<1>6. KeptSoFar(c, Merged!Fold(c, start, seq), n)
  BY <1>2, <1>4, <1>5, Merged!FoldKeeps
<1>7. Merged!Fold(c, start, seq)
        = FoldLeft(LAMBDA h, m : IF Holds(h, m) THEN h ELSE Append(h, m), start, seq)
  BY DEF Merged!Fold, Merging, FoldLeft, Merged!FoldLeft, MapThenFoldSet, Merged!MapThenFoldSet,
         Max, Merged!Max
<1> QED BY <1>1, <1>2, <1>6, <1>7 DEF KeptSoFar

LEMMA PrefixFacts ==
  ASSUME NEW s \in Histories, NEW t \in Histories, IsPrefix(s, t)
  PROVE  Len(s) <= Len(t) /\ \A i \in 1 .. Len(s) : i \in 1 .. Len(t) /\ s[i] = t[i]
<1>1. Len(s) \in Nat /\ Len(t) \in Nat
  BY DEF Histories
<1>2. PICK a, b : a = SubSeq(s, 1, Len(s)) /\ b = SubSeq(t, 1, Len(s))
  OBVIOUS
<1>3. Len(s) <= Len(t) /\ a = b
  BY <1>2 DEF IsPrefix
<1>4. Len(s) - 1 + 1 = Len(s) /\ \A i \in 1 .. Len(s) : 1 + i - 1 = i /\ i \in 1 .. Len(t)
  BY <1>1, <1>3
<1>5. /\ \A i \in 1 .. Len(s) : s[i] \in Messages
      /\ \A i \in 1 .. Len(s) : t[i] \in Messages
  BY <1>4 DEF Histories
<1>6. \A i \in 1 .. Len(s) : a[i] = s[i]
  BY <1>1, <1>2, <1>4, <1>5, SubSeqProperties
<1>7. \A i \in 1 .. Len(s) : b[i] = t[i]
  BY <1>1, <1>2, <1>4, <1>5, SubSeqProperties
<1> QED BY <1>3, <1>4, <1>6, <1>7

LEMMA TailFacts ==
  ASSUME NEW base \in Histories, NEW paint \in Histories, Len(base) <= Len(paint)
  PROVE  LET seq == SubSeq(paint, Len(base) + 1, Len(paint))
         IN /\ seq \in Histories /\ Len(seq) = Len(paint) - Len(base)
            /\ \A j \in 1 .. Len(paint) - Len(base) :
                 Len(base) + j \in 1 .. Len(paint) /\ seq[j] = paint[Len(base) + j]
<1>1. PICK b, p \in Nat : b = Len(base) /\ p = Len(paint)
  BY DEF Histories
<1>2. b <= p
  BY <1>1
<1>3. PICK seq : seq = SubSeq(paint, b + 1, p)
  OBVIOUS
<1>4. \A i \in b + 1 .. p : paint[i] \in Messages
  BY <1>1 DEF Histories
<1>5. /\ seq \in Seq(Messages)
      /\ Len(seq) = IF b + 1 <= p THEN p - (b + 1) + 1 ELSE 0
      /\ \A i \in 1 .. p - (b + 1) + 1 : seq[i] = paint[b + 1 + i - 1]
  BY <1>3, <1>4, SubSeqProperties
<1>6. Len(seq) = p - b /\ p - (b + 1) + 1 = p - b
  BY <1>2, <1>5
<1>7. \A j \in 1 .. p - b : b + j \in 1 .. p /\ b + 1 + j - 1 = b + j
  BY <1>2
<1>8. \A j \in 1 .. p - b : seq[j] = paint[b + j]
  BY <1>5, <1>6, <1>7
<1> QED BY <1>1, <1>3, <1>5, <1>6, <1>7, <1>8 DEF Histories

\* Which history a commit leaves.
LEMMA MergeCases ==
  ASSUME live \in Bars, NEW base \in Histories, NEW paint \in Histories
  PROVE  LET m == MergeHistory(base, paint)
             tail == SubSeq(paint, Len(base) + 1, Len(paint))
         IN \/ /\ m = live.history
               /\ paint = base \/ ~(IsPrefix(base, live.history) /\ IsPrefix(base, paint))
            \/ /\ m = paint
               /\ live.history = base \/ IsPrefix(live.history, paint)
            \/ /\ live.history # base /\ IsPrefix(base, live.history) /\ IsPrefix(base, paint)
               /\ MergedUpTo(live.history, tail, m, Len(tail))
<1>1. live.history \in Histories
  BY BarLen
<1>2. CASE paint = base
  <2>1. MergeHistory(base, paint) = live.history
    BY <1>2 DEF MergeHistory
  <2> QED BY <1>2, <2>1
<1>3. CASE paint # base /\ (live.history = base \/ IsPrefix(live.history, paint))
  <2>1. MergeHistory(base, paint) = paint
    BY <1>3 DEF MergeHistory
  <2> QED BY <1>3, <2>1
<1>4. CASE paint # base /\ live.history # base /\ ~IsPrefix(live.history, paint)
  <2>1. CASE IsPrefix(base, live.history) /\ IsPrefix(base, paint)
    <3>1. PICK tail : tail = SubSeq(paint, Len(base) + 1, Len(paint))
      OBVIOUS
    <3>2. tail \in Histories
      BY <2>1, <3>1, PrefixFacts, TailFacts
    <3>3. MergeHistory(base, paint)
            = FoldLeft(LAMBDA h, m : IF Holds(h, m) THEN h ELSE Append(h, m), live.history, tail)
      BY <1>4, <2>1, <3>1 DEF MergeHistory
    <3>4. MergedUpTo(live.history, tail,
            FoldLeft(LAMBDA h, m : IF Holds(h, m) THEN h ELSE Append(h, m), live.history, tail), Len(tail))
      BY <1>1, <3>2, MergedKeeps
    <3> QED BY <1>4, <2>1, <3>1, <3>3, <3>4
  <2>2. CASE ~(IsPrefix(base, live.history) /\ IsPrefix(base, paint))
    <3>1. MergeHistory(base, paint) = live.history
      BY <1>4, <2>2 DEF MergeHistory
    <3> QED BY <2>2, <3>1
  <2> QED BY <2>1, <2>2
<1> QED BY <1>2, <1>3, <1>4

\* Of two histories that continue base, the merge ends a request once if each
\* does and live's end, if it has one, is base's.
LEMMA MergedOnce ==
  ASSUME NEW start \in Histories, NEW base \in Histories, NEW paint \in Histories, NEW h, NEW tail,
         IsPrefix(base, start), IsPrefix(base, paint),
         tail = SubSeq(paint, Len(base) + 1, Len(paint)),
         MergedUpTo(start, tail, h, Len(tail)),
         NEW r, Once(start, r), Once(paint, r), EndsBy(start, r, Len(base))
  PROVE  Once(h, r)
<1>1. PICK b, n, p \in Nat : b = Len(base) /\ n = Len(start) /\ p = Len(paint) /\ b <= p /\ b <= n
  BY PrefixFacts DEF Histories
<1>2. Len(tail) = p - b /\ \A j \in 1 .. p - b : b + j \in 1 .. p /\ tail[j] = paint[b + j]
  BY <1>1, TailFacts
<1>3. \A i \in 1 .. b : i \in 1 .. n /\ i \in 1 .. p /\ start[i] = base[i] /\ paint[i] = base[i]
  BY <1>1, PrefixFacts
<1>4. /\ h \in Histories
      /\ \A i \in 1 .. n : i \in 1 .. Len(h) /\ h[i] = start[i]
      /\ \A i \in 1 .. Len(h) : i <= n \/ \E j \in 1 .. p - b : h[i] = tail[j]
      /\ \A i, j \in 1 .. Len(h) : i < j /\ n < j => ~Same(h[i], h[j])
  <2>1. h \in Histories /\ \A i \in 1 .. n : i \in 1 .. Len(h) /\ h[i] = start[i]
    BY <1>1 DEF MergedUpTo
  <2>4. \A i \in 1 .. Len(h) : i <= Len(start) \/ \E j \in 1 .. Len(tail) : h[i] = tail[j]
    BY DEF MergedUpTo
  <2>5. n = Len(start) /\ Len(tail) = p - b
    BY <1>1, <1>2
  <2>2. \A i \in 1 .. Len(h) : i <= n \/ \E j \in 1 .. p - b : h[i] = tail[j]
    BY <2>4, <2>5
  <2>3. \A i, j \in 1 .. Len(h) : i < j /\ n < j => ~Same(h[i], h[j])
    BY <1>1 DEF MergedUpTo
  <2> QED BY <2>1, <2>2, <2>3
<1>5. Len(h) \in Nat
  BY <1>4 DEF Histories
\* An end of r in the merge is one of the frame's, or live's.
<1>6. \A i \in 1 .. Len(h) : EndOf(h[i], r) /\ n < i => \E j \in 1 .. p - b : h[i] = paint[b + j]
  <2>1. SUFFICES ASSUME NEW i \in 1 .. Len(h), n < i
                 PROVE  \E j \in 1 .. p - b : h[i] = paint[b + j]
    OBVIOUS
  <2>2. ~(i <= n)
    BY <1>1, <1>5, <2>1
  <2>3. PICK j \in 1 .. p - b : h[i] = tail[j]
    BY <1>4, <2>2
  <2> QED BY <1>2, <2>3
<1>7. \A i \in 1 .. Len(h) : EndOf(h[i], r) /\ i <= n => i \in 1 .. b /\ h[i] = paint[i]
  <2>1. SUFFICES ASSUME NEW i \in 1 .. Len(h), EndOf(h[i], r), i <= n
                 PROVE  i \in 1 .. b /\ h[i] = paint[i]
    OBVIOUS
  <2>2. i \in 1 .. n /\ h[i] = start[i]
    BY <1>1, <1>4, <1>5, <2>1
  <2>3. i <= b
    BY <1>1, <2>1, <2>2 DEF EndsBy
  <2>4. i \in 1 .. b
    BY <1>1, <2>2, <2>3
  <2> QED BY <1>3, <2>2, <2>4
<1>8. ASSUME NEW i \in 1 .. Len(h), NEW k \in 1 .. Len(h), EndOf(h[i], r), EndOf(h[k], r), i < k
      PROVE  FALSE
  <2>1. CASE k <= n
    <3>1. i \in 1 .. n /\ k \in 1 .. n
      BY <1>1, <1>5, <1>8, <2>1
    <3>2. i = k
      BY <1>1, <1>4, <1>8, <3>1 DEF Once
    <3> QED BY <1>5, <1>8, <3>2
  <2>2. CASE n < k /\ i <= n
    <3>1. i \in 1 .. b /\ h[i] = paint[i] /\ i \in 1 .. p
      BY <1>3, <1>7, <1>8, <2>2
    <3>2. PICK j \in 1 .. p - b : h[k] = paint[b + j]
      BY <1>6, <1>8, <2>2
    <3>3. b + j \in 1 .. p /\ b + j # i
      BY <1>1, <1>2, <3>1
    <3> QED BY <1>1, <1>8, <3>1, <3>2, <3>3 DEF Once
  <2>3. CASE n < k /\ n < i
    <3>1. PICK j \in 1 .. p - b : h[k] = paint[b + j]
      BY <1>6, <1>8, <2>3
    <3>2. PICK l \in 1 .. p - b : h[i] = paint[b + l]
      BY <1>6, <1>8, <2>3
    <3>3. b + j \in 1 .. p /\ b + l \in 1 .. p
      BY <1>2
    <3>4. b + j = b + l
      BY <1>1, <1>8, <3>1, <3>2, <3>3 DEF Once
    <3>5. h[i] = h[k]
      BY <3>1, <3>2, <3>4
    <3>6. Same(h[i], h[k])
      BY <3>5 DEF Same
    <3> QED BY <1>4, <1>8, <2>3, <3>6
  <2> QED BY <1>1, <1>5, <1>8, <2>1, <2>2, <2>3
<1>9. \A i, k \in 1 .. Len(h) : EndOf(h[i], r) /\ EndOf(h[k], r) => ~(i < k) /\ ~(k < i)
  BY <1>8
<1> QED BY <1>5, <1>9 DEF Once

\* What a commit's history may hold, and how long it is.
LEMMA MergeFacts ==
  ASSUME live \in Bars, NEW base \in Histories, NEW paint \in Histories, NEW m,
         m = MergeHistory(base, paint), NEW n,
         RunsBy(live.history, n), RunsBy(paint, n)
  PROVE  /\ m \in Histories /\ RunsBy(m, n)
         /\ \/ m = live.history
            \/ m = paint
            \/ live.history # base /\ Len(m) <= Len(live.history) + (Len(paint) - Len(base))
         /\ \A r : Ended(m, r) => Ended(live.history, r) \/ Ended(paint, r)
         /\ \A r : Once(live.history, r) /\ Once(paint, r) /\ EndsBy(live.history, r, Len(base))
                     => Once(m, r)
<1>1. live.history \in Histories
  BY BarLen
<1>2. PICK tail : tail = SubSeq(paint, Len(base) + 1, Len(paint))
  OBVIOUS
<1>3. CASE m = live.history
  BY <1>1, <1>3
<1>4. CASE m = paint
  BY <1>4
<1>5. CASE /\ live.history # base /\ IsPrefix(base, live.history) /\ IsPrefix(base, paint)
           /\ MergedUpTo(live.history, tail, m, Len(tail))
  <2>1. /\ tail \in Histories /\ Len(tail) = Len(paint) - Len(base)
        /\ \A j \in 1 .. Len(paint) - Len(base) :
             Len(base) + j \in 1 .. Len(paint) /\ tail[j] = paint[Len(base) + j]
    BY <1>2, <1>5, PrefixFacts, TailFacts
  <2>2. m \in Histories /\ Len(m) <= Len(live.history) + (Len(paint) - Len(base))
    BY <1>5, <2>1 DEF MergedUpTo
  <2>3. Len(live.history) \in Nat /\ Len(m) \in Nat
    BY <1>1, <2>2 DEF Histories
  <2>4. ASSUME NEW i \in 1 .. Len(m)
        PROVE  \/ i \in 1 .. Len(live.history) /\ m[i] = live.history[i]
               \/ \E k \in 1 .. Len(paint) : m[i] = paint[k]
    <3>1. CASE i <= Len(live.history)
      <4>1. i \in 1 .. Len(live.history)
        BY <2>3, <3>1
      <4> QED BY <1>5, <4>1 DEF MergedUpTo
    <3>2. CASE ~(i <= Len(live.history))
      BY <1>5, <2>1, <3>2 DEF MergedUpTo
    <3> QED BY <3>1, <3>2
  <2>5. RunsBy(m, n)
    BY <2>4 DEF RunsBy
  <2>6. \A r : Ended(m, r) => Ended(live.history, r) \/ Ended(paint, r)
    BY <2>4 DEF Ended
  <2>7. \A r : Once(live.history, r) /\ Once(paint, r) /\ EndsBy(live.history, r, Len(base))
                 => Once(m, r)
    BY <1>1, <1>2, <1>5, MergedOnce
  <2> QED BY <1>5, <2>2, <2>5, <2>6, <2>7
<1> QED BY <1>2, <1>3, <1>4, <1>5, MergeCases

\* A commit makes the frame's bar live, whole or merged with what landed since.
LEMMA CommitKeeps ==
  ASSUME ChatInv, Commit
  PROVE  ChatInv'
<1> USE DEF ChatInv
<1>1. PICK base, paint : base = frame.base /\ paint = frame.paint
  OBVIOUS
<1>2. /\ base \in Bars /\ paint \in Bars /\ live \in Bars /\ sent \in Nat /\ CAP \in Nat
      /\ base.history \in Histories /\ paint.history \in Histories
      /\ Len(base.history) \in Nat /\ Len(paint.history) \in Nat /\ Len(live.history) \in Nat
      /\ live.epoch \in Nat /\ paint.epoch \in Nat
  BY <1>1, BarLen, CapAssumption DEF TypeInv, Frames
<1>3. /\ frame.stage = "saved" /\ ~Closed /\ frame' = NoFrame
      /\ live' = IF frame.published THEN MergePaint(base, paint) ELSE paint
      /\ UNCHANGED <<runs, cancelled, handed, sent, mishaps, late, overlap>>
  BY <1>1 DEF Commit, Closed
<1>4. /\ base.epoch = live.epoch /\ live.asking \in {base.asking, None}
      /\ ~frame.published => live.history = base.history /\ live.asking = base.asking
      /\ Len(base.history) <= CAP + 3
      /\ live.history = base.history \/ Len(live.history) <= CAP
      /\ paint.history = base.history \/ Len(paint.history) <= CAP
      /\ Len(paint.history) <= Len(base.history) + 3
      /\ Len(live.history) <= CAP + 3
  BY <1>1, <1>3 DEF FrameInv
<1>5. /\ Known(live) /\ Known(base) /\ Known(paint)
      /\ runs \subseteq Requests /\ \A w \in runs : w.id \in Nat /\ w.id # None
      /\ \A w \in runs : w.epoch \in Nat
  BY <1>1, NoneAssumption DEF TypeInv, Requests
<1>6. PICK h : h = MergeHistory(base.history, paint.history)
  OBVIOUS
<1>7. /\ h \in Histories /\ RunsBy(h, sent)
      /\ \/ h = live.history
         \/ h = paint.history
         \/ live.history # base.history
              /\ Len(h) <= Len(live.history) + (Len(paint.history) - Len(base.history))
      /\ \A r : Ended(h, r) => Ended(live.history, r) \/ Ended(paint.history, r)
      /\ \A r : Once(live.history, r) /\ Once(paint.history, r)
                  /\ EndsBy(live.history, r, Len(base.history)) => Once(h, r)
  <2>1. RunsBy(live.history, sent) /\ RunsBy(paint.history, sent)
    BY <1>5 DEF Known
  <2>2. PICK b, p \in Histories : b = base.history /\ p = paint.history
    BY <1>2
  <2>3. h = MergeHistory(b, p) /\ RunsBy(p, sent)
    BY <1>6, <2>1, <2>2
  <2>4. /\ h \in Histories /\ RunsBy(h, sent)
        /\ \/ h = live.history
           \/ h = p
           \/ live.history # b /\ Len(h) <= Len(live.history) + (Len(p) - Len(b))
        /\ \A r : Ended(h, r) => Ended(live.history, r) \/ Ended(p, r)
        /\ \A r : Once(live.history, r) /\ Once(p, r) /\ EndsBy(live.history, r, Len(b)) => Once(h, r)
    BY <1>2, <2>1, <2>3, MergeFacts
  <2> QED BY <2>2, <2>4
\* Merged or not, the new bar in terms of the three.
<1>8. PICK new : new = live'
  OBVIOUS
<1>9. /\ new \in Bars /\ new.epoch = paint.epoch
      /\ new.history \in {paint.history, h}
      /\ paint.asking # base.asking => new.asking = paint.asking
      /\ paint.asking = base.asking => new.asking = live.asking
      /\ \/ ~frame.published /\ new = paint
         \/ /\ frame.published /\ new.history = h
            /\ new.dirty <=> IF paint.dirty <=> base.dirty THEN live.dirty ELSE paint.dirty
  <2>1. CASE ~frame.published
    BY <1>2, <1>3, <1>4, <1>8, <2>1
  <2>2. CASE frame.published
    <3>1. /\ live.waiting \in BOOLEAN /\ base.waiting \in BOOLEAN /\ paint.waiting \in BOOLEAN
          /\ live.dirty \in BOOLEAN /\ base.dirty \in BOOLEAN /\ paint.dirty \in BOOLEAN
          /\ live.tok \in Nat /\ paint.tok \in Nat /\ base.epoch \in Nat
          /\ live.asking \in Nat \cup {None} /\ paint.asking \in Nat \cup {None}
      BY <1>2 DEF Bars
    <3>2. PICK waiting, epoch, dirty, tok, asking :
            /\ waiting = MergeBusy(live.waiting, base.waiting, paint.waiting)
            /\ epoch = TakeUi(live.epoch, base.epoch, paint.epoch)
            /\ dirty = TakeUi(live.dirty, base.dirty, paint.dirty)
            /\ tok = TakeRenewed(live.tok, base.tok, paint.tok)
            /\ asking = TakeUi(live.asking, base.asking, paint.asking)
      OBVIOUS
    <3>3. new = [history |-> h, waiting |-> waiting, epoch |-> epoch, dirty |-> dirty,
                 tok |-> tok, asking |-> asking]
      BY <1>3, <1>6, <1>8, <2>2, <3>2 DEF MergePaint
    <3>4. waiting \in BOOLEAN /\ dirty \in BOOLEAN
      BY <3>1, <3>2 DEF MergeBusy, TakeUi
    <3>5. tok \in Nat /\ epoch = paint.epoch
      BY <1>4, <3>1, <3>2 DEF TakeRenewed, TakeUi
    <3>6. /\ paint.asking # base.asking => asking = paint.asking
          /\ paint.asking = base.asking => asking = live.asking
          /\ asking \in Nat \cup {None}
      BY <3>1, <3>2 DEF TakeUi
    <3>7. dirty <=> IF paint.dirty <=> base.dirty THEN live.dirty ELSE paint.dirty
      BY <3>1, <3>2 DEF TakeUi
    <3>8. new \in Bars
      BY <1>2, <1>7, <3>3, <3>4, <3>5, <3>6 DEF Bars
    <3>9. new.history = h /\ new.epoch = epoch /\ new.asking = asking /\ (new.dirty <=> dirty)
      BY <3>3
    <3> QED BY <2>2, <3>5, <3>6, <3>7, <3>8, <3>9
  <2> QED BY <2>1, <2>2
<1>10. /\ NoFrame \in Frames /\ NoFrame.base = Fresh /\ NoFrame.paint = Fresh
       /\ NoFrame.stage = "closed"
  BY FreshBar DEF NoFrame, Frames
<1>11. Closed'
  BY <1>3, <1>10 DEF Closed
<1>12. new.asking \in {paint.asking, None}
  BY <1>4, <1>9
<1>13. TypeInv'
  <2>1. RunsBy(new.history, sent) /\ new.asking \in (1 .. sent) \cup {None}
    BY <1>5, <1>7, <1>9, <1>12 DEF Known
  <2>2. Known(live)' /\ Known(frame.base)' /\ Known(frame.paint)'
    BY <1>3, <1>8, <1>10, <2>1, FreshBar DEF Known, RunsBy
  <2> QED BY <1>3, <1>8, <1>9, <1>10, <2>2 DEF TypeInv
<1>14. FrameInv'
  <2>1. Len(paint.history) <= CAP + 3
    BY <1>2, <1>4
  <2>2. Len(h) <= CAP + 3
    <3>1. CASE h = live.history \/ h = paint.history
      BY <1>4, <2>1, <3>1
    <3>2. CASE /\ live.history # base.history
               /\ Len(h) <= Len(live.history) + (Len(paint.history) - Len(base.history))
      <4>1. PICK l, m, b, p \in Nat : /\ l = Len(live.history) /\ m = Len(h)
                                      /\ b = Len(base.history) /\ p = Len(paint.history)
        BY <1>2, <1>7 DEF Histories
      <4>2. l <= CAP /\ p <= b + 3 /\ m <= l + (p - b)
        BY <1>4, <3>2, <4>1
      <4>3. m <= CAP + 3
        BY <1>2, <4>2
      <4> QED BY <4>1, <4>3
    <3> QED BY <1>7, <3>1, <3>2
  <2>3. Len(new.history) <= CAP + 3
    BY <1>9, <2>1, <2>2
  <2> QED BY <1>3, <1>8, <1>10, <1>11, <2>3, FreshBar DEF FrameInv
<1>15. SaveInv'
  <2>1. SUFFICES ASSUME Told, ~overlap PROVE SaveInv'
    BY <1>3 DEF SaveInv, Told
  <2>2. /\ \/ live.history = base.history /\ (live.dirty <=> base.dirty)
           \/ live.dirty /\ ~base.dirty
        /\ ~paint.dirty /\ handed = paint.history
    BY <1>1, <1>3, <2>1 DEF SaveInv
  <2>3. handed = new.history \/ new.dirty
    <3>1. CASE ~frame.published /\ new = paint
      BY <2>2, <3>1
    <3>2. CASE live.dirty /\ ~base.dirty /\ frame.published
      BY <1>9, <2>2, <3>2
    <3>3. CASE live.history = base.history /\ frame.published
      <4>1. h = live.history => paint.history = base.history \/ h = paint.history
        BY <1>2, <1>6, <3>3 DEF MergeHistory
      <4>2. h = paint.history
        BY <1>7, <3>3, <4>1
      <4> QED BY <1>9, <2>2, <3>3, <4>2
    <3> QED BY <1>9, <2>2, <3>1, <3>2, <3>3
  <2> QED BY <1>3, <1>8, <1>11, <2>3 DEF SaveInv
<1>16. AskedInv'
  <2>1. SUFFICES ASSUME Told PROVE AskedInv'
    BY <1>3 DEF AskedInv, Told
  <2>2. /\ \A w \in runs : w.epoch = live.epoch => w.id = live.asking
        /\ \A w \in runs : /\ w.epoch <= paint.epoch
                           /\ w.epoch = paint.epoch => w.id = paint.asking
        /\ \/ paint.epoch = live.epoch /\ paint.asking = base.asking
           \/ /\ live.epoch < paint.epoch
              /\ paint.asking = None \/ paint.asking # base.asking
    BY <1>1, <1>3, <2>1 DEF AskedInv, Heard
  <2>3. ASSUME NEW w \in runs, w.epoch = new.epoch PROVE w.id = new.asking
    <3>1. w.epoch = paint.epoch /\ w.id = paint.asking /\ w.id # None
      BY <1>5, <1>9, <2>2, <2>3
    <3>2. CASE paint.asking # base.asking
      BY <1>9, <3>1, <3>2
    <3>3. CASE paint.asking = base.asking
      <4>1. paint.epoch = live.epoch
        BY <2>2, <3>1, <3>3
      <4> QED BY <1>9, <2>2, <3>1, <3>3, <4>1
    <3> QED BY <3>2, <3>3
  <2>4. \A w \in runs : w.epoch <= new.epoch
    BY <1>9, <2>2
  <2> QED BY <1>3, <1>8, <1>11, <2>3, <2>4 DEF AskedInv, Heard
<1>17. EndedInv'
  <2>1. SUFFICES ASSUME "reset" \notin mishaps PROVE EndedInv'
    BY <1>3 DEF EndedInv
  <2>2. /\ Settled(live) /\ Settled(paint) /\ live.epoch <= paint.epoch
        /\ \A r \in (1 .. sent) \ late : EndsBy(live.history, r, Len(base.history))
        /\ paint.asking \notin {base.asking, None} => ~Ended(live.history, paint.asking)
    BY <1>1, <1>3, <2>1 DEF EndedInv
  <2>3. \A w \in runs : w.id = new.asking => w.epoch <= new.epoch
    BY <1>5, <1>9, <1>12, <2>2 DEF Settled
  <2>4. ASSUME NEW r \in (1 .. sent) \ late
        PROVE  /\ Once(new.history, r)
               /\ Ended(new.history, r) =>
                    r # new.asking /\ \A w \in runs : w.id = r => w.epoch < new.epoch
    <3>1. Once(new.history, r)
      BY <1>7, <1>9, <2>2 DEF Settled
    <3>2. Ended(new.history, r) => Ended(live.history, r) \/ Ended(paint.history, r)
      BY <1>7, <1>9
    <3>3. r # None
      BY <1>2, NoneAssumption
    <3>4. ASSUME Ended(paint.history, r)
          PROVE  r # new.asking /\ \A w \in runs : w.id = r => w.epoch < new.epoch
      BY <1>9, <1>12, <2>2, <3>3, <3>4 DEF Settled
    <3>5. ASSUME Ended(live.history, r)
          PROVE  r # new.asking /\ \A w \in runs : w.id = r => w.epoch < new.epoch
      <4>1. r # live.asking /\ \A w \in runs : w.id = r => w.epoch < live.epoch
        BY <2>2, <3>5 DEF Settled
      <4>2. \A w \in runs : w.id = r => w.epoch < new.epoch
        BY <1>2, <1>5, <1>9, <2>2, <4>1
      <4>3. r # new.asking
        <5>1. CASE paint.asking = base.asking
          BY <1>9, <4>1, <5>1
        <5>2. CASE paint.asking # base.asking /\ paint.asking # None
          BY <1>9, <2>2, <3>5, <5>2
        <5>3. CASE paint.asking # base.asking /\ paint.asking = None
          BY <1>9, <3>3, <5>3
        <5> QED BY <5>1, <5>2, <5>3
      <4> QED BY <4>2, <4>3
    <3> QED BY <3>1, <3>2, <3>4, <3>5
  <2>5. Settled(live)'
    BY <1>3, <1>8, <2>3, <2>4 DEF Settled
  <2> QED BY <1>11, <2>5 DEF EndedInv
<1> QED BY <1>13, <1>14, <1>15, <1>16, <1>17

LEMMA TokType ==
  ASSUME TypeInv
  PROVE  /\ Cardinality(cancelled) + 1 \in Nat
         /\ cancelled \cup {frame.paint.tok} \subseteq Nat
         /\ IsFiniteSet(cancelled \cup {frame.paint.tok})
<1>1. frame.paint.tok \in Nat /\ cancelled \subseteq Nat /\ IsFiniteSet(cancelled)
  BY DEF TypeInv, Frames, Bars
<1>2. Cardinality(cancelled) + 1 \in Nat
  <2>1. Cardinality(cancelled) \in Nat
    BY <1>1, FS_CardinalityType
  <2> QED BY <2>1
<1>4. cancelled \cup {frame.paint.tok} \subseteq Nat
  BY <1>1
<1>3. IsFiniteSet(cancelled \cup {frame.paint.tok})
  BY <1>1, FS_AddElement
<1> QED BY <1>2, <1>3, <1>4

LEMMA PlayerKeeps ==
  ASSUME ChatInv,
         \/ StopChat \/ StopOptimization \/ ClearHistory
         \/ \E q \in Questions : SendRefused(q) \/ SendUnspawned(q)
  PROVE  ChatInv'
<1>1. /\ TypeInv /\ frame.paint \in Bars /\ frame.paint.asking \in (1 .. sent) \cup {None}
      /\ sent \in Nat /\ cancelled \subseteq Nat /\ IsFiniteSet(cancelled)
  BY DEF ChatInv, TypeInv, Frames, Known
<1>2. /\ Cardinality(cancelled) + 1 \in Nat
      /\ cancelled \cup {frame.paint.tok} \subseteq Nat
      /\ IsFiniteSet(cancelled \cup {frame.paint.tok})
  BY <1>1, TokType
<1>3. CASE StopChat
  <2>1. PICK paint : paint = Stopped(frame.paint, Cardinality(cancelled) + 1)
    OBVIOUS
  <2>2. paint \in Bars /\ paint.asking = None /\ Moves(frame.paint, paint)
    BY <1>1, <1>2, <2>1, StoppedFacts
  <2>3. /\ Open /\ frame' = Acted(paint) /\ cancelled' = cancelled \cup {frame.paint.tok}
        /\ UNCHANGED <<live, runs, handed, sent, mishaps, late, overlap>>
    BY <1>3, <2>1 DEF StopChat
  <2> QED BY <1>2, <2>2, <2>3, ActedKeeps
<1>4. CASE StopOptimization
  <2>1. PICK paint : paint = [frame.paint EXCEPT !.tok = Cardinality(cancelled) + 1]
    OBVIOUS
  <2>2. paint \in Bars /\ paint.asking = frame.paint.asking /\ Moves(frame.paint, paint)
    BY <1>1, <1>2, <2>1, RenewedFacts
  <2>3. /\ Open /\ frame' = Acted(paint) /\ cancelled' = cancelled \cup {frame.paint.tok}
        /\ UNCHANGED <<live, runs, handed, sent, mishaps, late, overlap>>
    BY <1>4, <2>1 DEF StopOptimization
  <2> QED BY <1>2, <2>2, <2>3, ActedKeeps
<1>5. CASE ClearHistory
  <2>1. PICK paint : paint = [frame.paint EXCEPT !.history = <<>>, !.dirty = TRUE]
    OBVIOUS
  <2>2. paint \in Bars /\ paint.asking = frame.paint.asking /\ Moves(frame.paint, paint)
    BY <1>1, <2>1, ClearedFacts
  <2>3. /\ Open /\ frame' = Acted(paint)
        /\ UNCHANGED <<live, runs, cancelled, handed, sent, mishaps, late, overlap>>
    BY <1>5, <2>1 DEF ClearHistory
  <2> QED BY <1>1, <2>2, <2>3, ActedKeeps
<1>6. ASSUME NEW q \in Questions, SendRefused(q) PROVE ChatInv'
  <2>1. PICK paint : paint = AddReply(QueueUserMessage(frame.paint, q, None), "refused", None, None)
    OBVIOUS
  <2>2. paint \in Bars /\ paint.asking = frame.paint.asking /\ Moves(frame.paint, paint)
    BY <1>1, <2>1, RefusedFacts
  <2>3. /\ Open /\ frame' = Acted(paint) /\ mishaps \subseteq mishaps'
        /\ UNCHANGED <<live, runs, cancelled, handed, sent, late, overlap>>
    BY <1>6, <2>1 DEF SendRefused, Mishap
  <2> QED BY <1>1, <2>2, <2>3, ActedKeeps
<1>7. ASSUME NEW q \in Questions, SendUnspawned(q) PROVE ChatInv'
  <2>1. PICK paint : paint = [QueueUserMessage(frame.paint, q, None)
                                EXCEPT !.epoch = @ + 1, !.waiting = FALSE, !.asking = None]
    OBVIOUS
  <2>2. paint \in Bars /\ paint.asking = None /\ Moves(frame.paint, paint)
    BY <1>1, <2>1, UnspawnedFacts
  <2>3. /\ Open /\ frame' = Acted(paint) /\ mishaps \subseteq mishaps'
        /\ UNCHANGED <<live, runs, cancelled, handed, sent, late, overlap>>
    BY <1>7, <2>1 DEF SendUnspawned, Mishap
  <2> QED BY <1>1, <2>2, <2>3, ActedKeeps
<1> QED BY <1>3, <1>4, <1>5, <1>6, <1>7

LEMMA CaptureKeeps ==
  ASSUME ChatInv, Capture \/ CaptureExpired
  PROVE  ChatInv'
<1>1. live \in Bars /\ live.asking \in (1 .. sent) \cup {None} /\ sent \in Nat
  BY DEF ChatInv, TypeInv, Known
<1>2. CASE Capture
  <2>1. Moves(live, live) /\ Longer(live, live, 1)
    <3>1. Len(live.history) \in Nat
      BY <1>1, BarLen
    <3>2. Longer(live, live, 1) /\ Longer(live, live, 2)
      BY <3>1 DEF Longer
    <3>3. \A r : Grows(live.history, live.history, r, FALSE)
      BY GrowsNot
    <3> QED BY <3>2, <3>3 DEF Moves
  <2> QED BY <1>1, <1>2, <2>1, CapturedKeeps DEF Capture
<1>3. CASE CaptureExpired
  <2>1. PICK paint : paint = KitchenTimeout(live)
    OBVIOUS
  <2>2. paint \in Bars /\ paint.asking = None /\ Moves(live, paint) /\ Longer(live, paint, 1)
    BY <1>1, <2>1, ExpiredFacts
  <2>3. /\ Closed /\ frame' = Captured(paint)
        /\ UNCHANGED <<live, runs, cancelled, handed, sent, mishaps, late, overlap>>
    BY <1>3, <2>1 DEF CaptureExpired
  <2> QED BY <2>2, <2>3, CapturedKeeps
<1> QED BY <1>2, <1>3

\* A run over, or further on, is one worker less, or the same one.
LEMMA FewerRuns ==
  ASSUME TypeInv, NEW w \in runs, NEW stage \in {"asked", "plating", "serving"},
         \/ runs' = runs \ {w}
         \/ runs' = (runs \ {w}) \cup {[w EXCEPT !.stage = stage]}
  PROVE  Fewer
<1>1. runs \subseteq Requests /\ \A u, v \in runs : u.id = v.id => u = v
  BY DEF TypeInv
<1>2. CASE runs' = runs \ {w}
  BY <1>1, <1>2 DEF Fewer
<1>3. CASE runs' = (runs \ {w}) \cup {[w EXCEPT !.stage = stage]}
  <2>1. PICK new : new = [w EXCEPT !.stage = stage]
    OBVIOUS
  <2>2. new \in Requests /\ new.id = w.id /\ new.epoch = w.epoch
    BY <1>1, <2>1 DEF Requests
  <2>3. runs' = (runs \ {w}) \cup {new}
    BY <1>3, <2>1
  <2> QED BY <1>1, <2>2, <2>3 DEF Fewer
<1> QED BY <1>2, <1>3

LEMMA WorkerReplies ==
  ASSUME ChatInv, NEW w \in runs, NEW text \in {"announced", "answer"}, Replies(w, text), Fewer,
         text = "answer" => \A v \in runs' : v.id # w.id,
         UNCHANGED <<cancelled, handed, sent, mishaps>>
  PROVE  ChatInv'
<1>1. /\ live \in Bars /\ frame \in Frames /\ sent \in Nat /\ w.id \in (1 .. sent) \cup {None}
      /\ w.id \in Nat \cup {None} /\ w.q \in Questions \cup {None}
  BY DEF ChatInv, TypeInv, Requests
<1>2. /\ frame' \in Frames /\ frame'.base = frame.base /\ frame'.paint = frame.paint
      /\ frame'.stage = frame.stage /\ (frame.published => frame'.published)
      /\ ~Closed => frame'.published
  BY <1>1, PublishedOpen DEF Replies
<1>3. CASE ~Heard(w)
  <2>1. live' = live /\ late' = late /\ (overlap' <=> overlap)
    BY <1>3 DEF Replies
  <2> QED BY <1>1, <1>2, <2>1, QuietKeeps
<1>4. CASE Heard(w)
  <2>1. text \in Texts /\ "answer" \in Ends /\ "announced" \notin Ends
    BY DEF Texts, Ends
  <2>2. PICK ends \in BOOLEAN : ends <=> text \in Ends
    OBVIOUS
  <2>3. PICK reply, run : reply = AddReply(live, text, w.q, run) /\ run = w.id
    OBVIOUS
  <2>4. reply \in Bars
    BY <1>1, <2>1, <2>3, ReplyFacts
  <2>14. run \in Nat \cup {None}
    BY <1>1, <2>3
  <2>5. /\ AddReply(live, text, w.q, run).dirty /\ AddReply(live, text, w.q, run).epoch = live.epoch
        /\ AddReply(live, text, w.q, run).asking = live.asking
    BY <1>1, ReplyRest
  <2>6. /\ Longer(live, reply, 1)
        /\ \A r : Grows(live.history, reply.history, r, run = r /\ text \in Ends)
    BY <1>1, <2>1, <2>3, ReplyLonger
  <2>7. PICK asking : asking = IF ends THEN None ELSE live.asking
    OBVIOUS
  <2>8. live' = [reply EXCEPT !.asking = asking]
    BY <1>4, <2>2, <2>3, <2>5, <2>7 DEF Replies
  <2>9. /\ live' \in Bars /\ live'.dirty /\ live'.epoch = live.epoch /\ live'.asking = asking
        /\ live'.history = reply.history
    <3>1. asking \in Nat \cup {None}
      BY <1>1, <2>7 DEF Bars
    <3> QED BY <2>3, <2>4, <2>5, <2>8, <3>1 DEF Bars
  <2>10. Longer(live, live', 1)
    BY <2>6, <2>9 DEF Longer
  <2>11. \A r : Grows(live.history, live'.history, r, w.id = r /\ ends)
    BY <2>2, <2>3, <2>6, <2>9 DEF Grows
  <2>12. /\ late' = IF ~Closed THEN late \cup {w.id} ELSE late
         /\ overlap' <=> (overlap \/ (~Closed /\ frame.base.dirty))
    BY <1>4 DEF Replies
  <2>13. ends => \A v \in runs' : v.id # w.id
    BY <2>1, <2>2
  <2> QED BY <1>2, <1>4, <2>7, <2>9, <2>10, <2>11, <2>12, <2>13, ReplyKeeps
<1> QED BY <1>3, <1>4

LEMMA WorkerKeeps ==
  ASSUME ChatInv, NEW w \in runs, Announce(w) \/ GiveUp(w) \/ Judge(w) \/ Serve(w)
  PROVE  ChatInv'
<1>1. TypeInv /\ live \in Bars /\ frame \in Frames /\ live.waiting \in BOOLEAN
  BY DEF ChatInv, TypeInv, Bars
<1>2. CASE Announce(w)
  <2>1. runs' = (runs \ {w}) \cup {[w EXCEPT !.stage = "plating"]}
    BY <1>2 DEF Announce
  <2>2. Fewer
    BY <1>1, <2>1, FewerRuns
  <2>3. Replies(w, "announced") /\ UNCHANGED <<cancelled, handed, sent, mishaps>>
    BY <1>2 DEF Announce
  <2> QED BY <2>2, <2>3, WorkerReplies
<1>3. CASE GiveUp(w)
  <2>1. Fewer
    BY <1>1, <1>3, FewerRuns DEF GiveUp, Retire
  <2>2. frame' = Published /\ UNCHANGED <<cancelled, handed, sent, mishaps, late, overlap>>
    BY <1>3 DEF GiveUp
  <2>3. PICK waiting \in BOOLEAN : waiting <=> live.waiting /\ ~Heard(w)
    OBVIOUS
  <2>4. live' = [live EXCEPT !.waiting = waiting]
    <3>1. waiting = (live.waiting /\ ~Heard(w))
      BY <1>1, <2>3
    <3> QED BY <1>3, <3>1 DEF GiveUp
  <2>5. /\ live' \in Bars /\ live'.history = live.history /\ live'.epoch = live.epoch
        /\ (live'.dirty <=> live.dirty) /\ live'.asking = live.asking
    BY <1>1, <2>4 DEF Bars
  <2>6. /\ frame' \in Frames /\ frame'.base = frame.base /\ frame'.paint = frame.paint
        /\ frame'.stage = frame.stage /\ (frame.published => frame'.published)
    BY <1>1, <2>2, PublishedOpen
  <2> QED BY <2>1, <2>2, <2>5, <2>6, QuietKeeps
<1>4. CASE Judge(w)
  <2>1. Fewer
    BY <1>1, <1>4, FewerRuns DEF Judge, Retire
  <2>2. frame' = Published /\ UNCHANGED <<live, cancelled, handed, sent, mishaps, late, overlap>>
    BY <1>4 DEF Judge
  <2>6. /\ frame' \in Frames /\ frame'.base = frame.base /\ frame'.paint = frame.paint
        /\ frame'.stage = frame.stage /\ (frame.published => frame'.published)
    BY <1>1, <2>2, PublishedOpen
  <2> QED BY <1>1, <2>1, <2>2, <2>6, QuietKeeps
<1>5. CASE Serve(w)
  <2>1. runs' = runs \ {w}
    BY <1>5 DEF Serve, Retire
  <2>2. Fewer
    BY <1>1, <2>1, FewerRuns
  <2>3. \A v \in runs' : v.id # w.id
    BY <1>1, <2>1 DEF TypeInv
  <2>4. Replies(w, "answer") /\ UNCHANGED <<cancelled, handed, sent, mishaps>>
    BY <1>5 DEF Serve
  <2> QED BY <2>2, <2>3, <2>4, WorkerReplies
<1> QED BY <1>2, <1>3, <1>4, <1>5

LEMMA IdleKeeps ==
  ASSUME ChatInv, OtherPublish \/ UNCHANGED vars
  PROVE  ChatInv'
<1>1. TypeInv /\ live \in Bars /\ frame \in Frames
  BY DEF ChatInv, TypeInv
<1>2. CASE OtherPublish
  <2>1. frame' = Published /\ UNCHANGED <<live, runs, cancelled, handed, sent, mishaps, late, overlap>>
    BY <1>2 DEF OtherPublish
  <2>2. Fewer
    BY <1>1, <2>1 DEF Fewer, TypeInv
  <2>6. /\ frame' \in Frames /\ frame'.base = frame.base /\ frame'.paint = frame.paint
        /\ frame'.stage = frame.stage /\ (frame.published => frame'.published)
    BY <1>1, <2>1, PublishedOpen
  <2> QED BY <1>1, <2>1, <2>2, <2>6, QuietKeeps
<1>3. CASE UNCHANGED vars
  <2>1. Fewer
    BY <1>1, <1>3 DEF Fewer, TypeInv, vars
  <2> QED BY <1>1, <1>3, <2>1, QuietKeeps DEF vars
<1> QED BY <1>2, <1>3

LEMMA RetryAsks ==
  ASSUME ChatInv, RetryChat
  PROVE  \E q \in Questions \cup {None} : SendChatMessage(q)
<1>1. frame.paint.history \in Histories
  BY BarLen DEF ChatInv, TypeInv, Frames
<1>2. PICK i \in DOMAIN frame.paint.history : SendChatMessage(frame.paint.history[i].q)
  BY DEF RetryChat
<1>3. frame.paint.history[i] \in Messages
  BY <1>1, <1>2 DEF Histories
<1>4. frame.paint.history[i].q \in Questions \cup {None}
  BY <1>3 DEF Messages
<1> QED BY <1>2, <1>4

\* However frames, replies, Stops, resets and panics overlap, the inductive
\* invariant holds: the shape of the state, what an open frame knows of live,
\* what is unsaved, who was asked last and who has ended.
THEOREM ChatInvHolds == Spec => []ChatInv
<1>1. Init => ChatInv
  <2>1. SUFFICES ASSUME Init PROVE ChatInv
    OBVIOUS
  <2>2. /\ live = Fresh /\ frame = NoFrame /\ runs = {} /\ cancelled = {} /\ handed = <<>>
        /\ sent = 0 /\ late = {}
    BY <2>1 DEF Init
  <2>3. /\ NoFrame \in Frames /\ NoFrame.base = Fresh /\ NoFrame.paint = Fresh
        /\ NoFrame.stage = "closed"
    BY FreshBar DEF NoFrame, Frames
  <2>4. Closed
    BY <2>2, <2>3 DEF Closed
  <2>5. TypeInv
    BY <2>2, <2>3, FreshBar, FS_EmptySet DEF TypeInv, Known
  <2>6. FrameInv
    BY <2>2, <2>3, <2>4, FreshBar, CapAssumption DEF FrameInv
  <2>7. SaveInv /\ AskedInv
    BY <2>2, <2>4, FreshBar DEF SaveInv, AskedInv
  <2>8. EndedInv
    <3>1. 1 .. 0 = {}
      OBVIOUS
    <3> QED BY <2>2, <2>4, <3>1 DEF EndedInv, Settled
  <2> QED BY <2>5, <2>6, <2>7, <2>8 DEF ChatInv
<1>2. ChatInv /\ [Next]_vars => ChatInv'
  <2>1. SUFFICES ASSUME ChatInv, Next \/ UNCHANGED vars PROVE ChatInv'
    OBVIOUS
  <2>2. CASE Next
    BY <2>1, <2>2, CaptureKeeps, PlayerKeeps, RetryAsks, SendKeeps, ResetKeeps, SaveKeeps,
       CommitKeeps, PanicKeeps, IdleKeeps, WorkerKeeps DEF Next
  <2>3. CASE UNCHANGED vars
    BY <2>1, <2>3, IdleKeeps
  <2> QED BY <2>1, <2>2, <2>3
<1> QED BY <1>1, <1>2, PTL DEF Spec

\* The bar's state keeps its shape, and no history outgrows the cap and the
\* lines of one frame.
THEOREM TypeCorrect == Spec => []TypeOK
<1>1. ChatInv => TypeOK
  <2>1. SUFFICES ASSUME ChatInv PROVE TypeOK
    OBVIOUS
  <2>2. live \in Bars /\ frame \in Frames /\ frame.paint \in Bars /\ frame.base \in Bars
    BY <2>1 DEF ChatInv, TypeInv, Frames
  <2>3. Len(live.history) <= CAP + 3
    BY <2>1 DEF ChatInv, FrameInv
  <2>4. Len(frame.paint.history) <= CAP + 3
    <3>1. PICK n \in Nat : n = Len(frame.paint.history)
      BY <2>2, BarLen
    <3>2. CASE Closed
      <4>1. n = 0
        BY <2>1, <3>1, <3>2, FreshBar DEF ChatInv, FrameInv
      <4> QED BY <3>1, <4>1, CapAssumption
    <3>3. CASE ~Closed
      <4>1. Len(frame.base.history) <= CAP + 3
        BY <2>1, <3>3 DEF ChatInv, FrameInv
      <4>2. n <= CAP \/ n <= CAP + 3
        BY <2>1, <3>1, <3>3, <4>1 DEF ChatInv, FrameInv
      <4> QED BY <3>1, <4>2, CapAssumption
    <3> QED BY <3>2, <3>3
  <2>5. \A w \in runs : w.id \in 1 .. sent /\ w.stage \in {"asked", "plating", "serving"}
    BY <2>1 DEF ChatInv, TypeInv, Requests
  <2> QED BY <2>2, <2>3, <2>4, <2>5 DEF TypeOK, Bars, Frames
<1> QED BY <1>1, ChatInvHolds, PTL

\* Only the run asked last is heard, and a request ends once.
THEOREM ToldApartCorrect == Spec => []RunsToldApart
<1>1. ChatInv => RunsToldApart
  <2>1. SUFFICES ASSUME ChatInv PROVE RunsToldApart
    OBVIOUS
  <2>2. mishaps \cap {"panicked", "reset"} = {} => \A w \in runs : Heard(w) => w.id = live.asking
    BY <2>1 DEF ChatInv, AskedInv, Told
  <2>3. ASSUME "reset" \notin mishaps, NEW r \in (1 .. sent) \ late
        PROVE  Cardinality({i \in DOMAIN live.history : live.history[i].run = r
                                                        /\ live.history[i].text \in Ends}) <= 1
    <3>1. Once(live.history, r)
      BY <2>1, <2>3 DEF ChatInv, EndedInv, Settled
    <3>2. PICK S : S = {i \in DOMAIN live.history : live.history[i].run = r
                                                    /\ live.history[i].text \in Ends}
      OBVIOUS
    <3>3. DOMAIN live.history = 1 .. Len(live.history)
      BY <2>1, BarLen DEF ChatInv, TypeInv, Histories
    <3>4. \A i, j \in S : i = j
      BY <3>1, <3>2, <3>3 DEF Once, EndOf
    <3>5. Cardinality(S) <= 1
      <4>1. CASE S = {}
        BY <4>1, FS_EmptySet
      <4>2. CASE S # {}
        <5>1. PICK i : S = {i}
          BY <3>4, <4>2
        <5>2. Cardinality({i}) = 1
          BY FS_Singleton
        <5> QED BY <5>1, <5>2
      <4> QED BY <4>1, <4>2
    <3> QED BY <3>2, <3>5
  <2> QED BY <2>2, <2>3 DEF RunsToldApart
<1> QED BY <1>1, ChatInvHolds, PTL

\* What the player sees was handed to the writer, or is marked unsaved.
THEOREM SavesCorrect == Spec => []SavedOrDirty
<1>1. ChatInv => SavedOrDirty
  BY DEF ChatInv, SaveInv, SavedOrDirty, Told
<1> QED BY <1>1, ChatInvHolds, PTL

\* A commit keeps the lines of both sides.
THEOREM MessagesCorrect == Spec => MessagesSurvive
<1>1. ASSUME ChatInv, Commit, IsPrefix(frame.base.history, live.history),
             IsPrefix(frame.base.history, frame.paint.history),
             NEW h \in {live.history, frame.paint.history},
             NEW i \in Len(frame.base.history) + 1 .. Len(h)
      PROVE  Holds(live'.history, h[i])
  <2>1. PICK base, paint, old, was \in Histories :
          /\ base = frame.base.history /\ paint = frame.paint.history
          /\ old = live.history /\ was = h
    BY <1>1, BarLen DEF ChatInv, TypeInv, Frames
  <2>2. PICK b, n \in Nat : b = Len(base) /\ n = Len(was) /\ i \in b + 1 .. n
    BY <1>1, <2>1 DEF Histories
  <2>3. i \in 1 .. n /\ i \notin 1 .. b /\ ~(i <= b) /\ was \in {old, paint}
    BY <1>1, <2>1, <2>2
  <2>4. ASSUME NEW g \in Histories, i \in 1 .. Len(g), g[i] = was[i] PROVE Holds(g, was[i])
    BY <2>4, HoldsAt DEF Same
  <2>5. CASE ~frame.published
    <3>1. old = base /\ live'.history = paint
      BY <1>1, <2>1, <2>5 DEF Commit, ChatInv, FrameInv, Closed
    <3>2. was = paint
      BY <2>2, <2>3, <3>1
    <3> QED BY <2>1, <2>2, <2>3, <2>4, <3>1, <3>2
  <2>6. CASE frame.published
    <3>1. PICK m : m = MergeHistory(base, paint)
      OBVIOUS
    <3>2. live'.history = m
      BY <1>1, <2>1, <2>6, <3>1 DEF Commit, MergePaint
    <3>3. PICK tail : tail = SubSeq(paint, Len(base) + 1, Len(paint))
      OBVIOUS
    <3>4. live \in Bars
      BY <1>1 DEF ChatInv, TypeInv
    <3>5. CASE m = old /\ (paint = base \/ ~(IsPrefix(base, old) /\ IsPrefix(base, paint)))
      <4>1. paint = base /\ was = old
        BY <1>1, <2>1, <2>2, <2>3, <3>5
      <4> QED BY <2>1, <2>2, <2>3, <2>4, <3>2, <3>5, <4>1
    <3>6. CASE m = paint /\ (old = base \/ IsPrefix(old, paint))
      <4>1. CASE was = paint
        BY <2>1, <2>2, <2>3, <2>4, <3>2, <3>6, <4>1
      <4>2. CASE was = old /\ old # base
        <5>1. i \in 1 .. Len(paint) /\ paint[i] = was[i]
          BY <2>2, <2>3, <3>6, <4>2, PrefixFacts
        <5> QED BY <2>1, <2>4, <3>2, <3>6, <5>1
      <4> QED BY <2>2, <2>3, <4>1, <4>2
    <3>7. CASE MergedUpTo(old, tail, m, Len(tail))
      <4>1. m \in Histories
        BY <3>7 DEF MergedUpTo
      <4>2. CASE was = old
        <5>1. i \in 1 .. Len(m) /\ m[i] = was[i]
          BY <2>2, <2>3, <3>7, <4>2 DEF MergedUpTo
        <5> QED BY <2>1, <2>4, <3>2, <4>1, <5>1
      <4>3. CASE was = paint
        <5>1. PICK p \in Nat : p = Len(paint) /\ b <= p /\ n = p
          BY <1>1, <2>1, <2>2, <4>3, PrefixFacts
        <5>2. /\ Len(tail) = p - b
              /\ \A j \in 1 .. p - b : b + j \in 1 .. p /\ tail[j] = paint[b + j]
          BY <2>2, <3>3, <5>1, TailFacts
        <5>3. i - b \in 1 .. p - b /\ b + (i - b) = i
          BY <2>2, <5>1
        <5>4. tail[i - b] = was[i]
          BY <4>3, <5>2, <5>3
        <5>5. Holds(m, tail[i - b])
          BY <3>7, <5>2, <5>3 DEF MergedUpTo
        <5> QED BY <2>1, <3>2, <5>4, <5>5
      <4> QED BY <2>3, <4>2, <4>3
    <3> QED BY <2>1, <3>1, <3>3, <3>4, <3>5, <3>6, <3>7, MergeCases
  <2> QED BY <2>5, <2>6
<1>2. ChatInv /\ [Next]_vars =>
        [LET old == frame.base.history
             Kept(h) == \A i \in (Len(old) + 1)..Len(h) : Holds(live'.history, h[i])
         IN Commit /\ IsPrefix(old, live.history) /\ IsPrefix(old, frame.paint.history)
              => Kept(live.history) /\ Kept(frame.paint.history)]_vars
  BY <1>1
<1> QED BY <1>2, ChatInvHolds, PTL DEF Spec, MessagesSurvive
=============================================================================
