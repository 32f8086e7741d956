---------------------------- MODULE FeedbackSend ----------------------------
(***************************************************************************)
(* The About tab's messages (crates/addon/src/feedback/): the wizard's     *)
(* draft, the local rows, the one send in flight, the status refresh, the  *)
(* save of messages.json and the server's idempotent intake.               *)
(*                                                                         *)
(* The player acts on a frame's clone of the state while the workers act   *)
(* on the live one; the commit is PaintFrame's, for the fields of          *)
(* FeedbackState.  messages.json is written by a SerialWriter: only the    *)
(* newest queued content matters.                                          *)
(***************************************************************************)
EXTENDS Merge, FiniteSets

CONSTANTS
    Bytes,        \* the payloads a draft can have
    MaxIds,       \* bound: report ids minted
    MayDiscard,   \* whether the player discards failed rows
    MaxAnswers,   \* bound: reports the developer answers
    MaxStops,     \* bound: Stops that hit a running worker
    MaxRestarts   \* bound: ends of the game process

ASSUME PayloadAssumption == 0 \notin Bytes
ASSUME IdsAssumption == MaxIds \in Nat

VARIABLES
    live,      \* FeedbackState under STATE
    layout,    \* TRUE between capture and commit
    base,      \* the frame's baseline
    paint,     \* the frame's working copy
    stale,     \* a worker published since the capture
    raised,    \* PAINT_RAISED, for the two markers
    minted,    \* report ids handed out so far
    sends,     \* the send workers
    polls,     \* the status workers
    queued,    \* content queued for messages.json, or Nothing
    disk,      \* the rows in messages.json
    unread,    \* history_load_error: messages.json did not load, nothing is saved
    lost,      \* history: the newest content to save went with a failed write
    stored,    \* the server's reports: id -> payload, 0 when absent
    answered,  \* the reports the developer has answered
    posted,    \* history: the (id, payload) pairs put on the wire
    stops,     \* Stops that hit a worker
    restarts   \* how often the process ended

vars == <<live, layout, base, paint, stale, raised, minted, sends, polls, queued, disk,
          unread, lost, stored, answered, posted, stops, restarts>>

Ids == 1 .. MaxIds
Statuses == {"Sending", "Failed", "Received", "Answered", "Unknown", "Local"}

(* A row; `bytes` is its failed_payload, 0 when there is none. *)
Row == [id : Ids, status : Statuses, bytes : Bytes \cup {0}]
NoDraft == [id |-> 0, bytes |-> 0, step |-> "closed"]
Nothing == [some |-> FALSE, rows |-> <<>>]

Fresh(rows) == [messages |-> rows, draft |-> NoDraft, sending |-> 0,
                refreshing |-> FALSE, dirty |-> FALSE]

Init ==
    /\ live = Fresh(<<>>) /\ base = Fresh(<<>>) /\ paint = Fresh(<<>>)
    /\ layout = FALSE /\ stale = FALSE /\ raised = {}
    /\ minted = 0
    /\ sends = {} /\ polls = {}
    /\ queued = Nothing /\ disk = <<>>
    /\ unread \in BOOLEAN /\ lost = FALSE
    /\ stored = [i \in Ids |-> 0] /\ answered = {} /\ posted = {}
    /\ stops = 0 /\ restarts = 0

-----------------------------------------------------------------------------
(* Rows *)

Has(rows, id) == \E i \in DOMAIN rows : rows[i].id = id

IndexOf(rows, id) == CHOOSE i \in DOMAIN rows : rows[i].id = id

RowOf(rows, id) == rows[IndexOf(rows, id)]

(* retain: a report has one row, as RowsReplayable says. *)
Without(rows, id) ==
    IF Has(rows, id)
      THEN SubSeq(rows, 1, IndexOf(rows, id) - 1) \o SubSeq(rows, IndexOf(rows, id) + 1, Len(rows))
      ELSE rows

SetRow(rows, id, status, bytes) ==
    [i \in DOMAIN rows |-> IF rows[i].id = id
                             THEN [id |-> id, status |-> status, bytes |-> bytes]
                             ELSE rows[i]]

(* FeedbackStore::load: a row still Sending was interrupted. *)
Loaded(rows) ==
    [i \in DOMAIN rows |-> IF rows[i].status = "Sending"
                             THEN [rows[i] EXCEPT !.status = "Failed"] ELSE rows[i]]

Pollable(rows) == {rows[i].id : i \in {j \in DOMAIN rows :
                                         rows[j].status \in {"Received", "Answered"}}}

(* Mutant: a failure drops the payload. *)
PayloadDropped(rows, id, status) == 0

(* What is left to resend: only a delivery gives the payload up. *)
PayloadLeft(rows, id, status) == IF status = "Failed" THEN RowOf(rows, id).bytes ELSE 0

(* The outcome on the row, and on the draft when it is the one that was sent. *)
Outcome(fb, id, status) ==
    LET step == IF status = "Failed" THEN "edit" ELSE "sent"
    IN [fb EXCEPT !.messages = SetRow(@, id, status, PayloadLeft(@, id, status)),
                  !.draft = IF @.id = id THEN [@ EXCEPT !.step = step] ELSE @]

Released(fb, id) == [fb EXCEPT !.sending = IF @ = id THEN 0 ELSE @]

(* Mutants: the row is looked up before the lock is released; the outcome  *)
(* is not marked for a save.                                               *)
ApplySendResultRowFirst(fb, id, status) ==
    IF ~Has(fb.messages, id) THEN fb
    ELSE [Outcome(Released(fb, id), id, status) EXCEPT !.dirty = TRUE]

ApplySendResultUnsaved(fb, id, status) ==
    IF ~Has(fb.messages, id) THEN Released(fb, id)
    ELSE Outcome(Released(fb, id), id, status)

(* apply_send_result: without a row only the lock is released. *)
ApplySendResult(fb, id, status) ==
    IF ~Has(fb.messages, id) THEN Released(fb, id)
    ELSE [Outcome(Released(fb, id), id, status) EXCEPT !.dirty = TRUE]

(* apply_status_rows: the polled rows take the server's word. *)
ApplyStatusRows(fb, rows) ==
    LET word(r) == IF r.id \in DOMAIN rows THEN [r EXCEPT !.status = rows[r.id]] ELSE r
    IN [fb EXCEPT !.messages = [i \in DOMAIN @ |-> word(@[i])],
                  !.refreshing = FALSE,
                  !.dirty = TRUE]

(* Mutant: a resend adds a second row. *)
ResentAgain(fb, id) ==
    [fb EXCEPT !.messages = <<[RowOf(@, id) EXCEPT !.status = "Sending"]>> \o @,
               !.draft = IF @.id = id THEN [@ EXCEPT !.step = "sending"] ELSE @,
               !.sending = id,
               !.dirty = TRUE]

(* stage_resend: the failed row goes back to Sending, byte for byte. *)
Resent(fb, id) ==
    [fb EXCEPT !.messages = SetRow(@, id, "Sending", RowOf(@, id).bytes),
               !.draft = IF @.id = id THEN [@ EXCEPT !.step = "sending"] ELSE @,
               !.sending = id,
               !.dirty = TRUE]

(* The id stage_send uses: a fresh one when the draft was edited after a   *)
(* failed send, so that one id never carries two payloads.                 *)
SendId(fb) ==
    IF Has(fb.messages, fb.draft.id) /\ RowOf(fb.messages, fb.draft.id).bytes # fb.draft.bytes
      THEN minted + 1 ELSE fb.draft.id

(* Mutant: an edited draft ships under the id its first send used. *)
StageSendOldId(fb) ==
    [fb EXCEPT !.messages = <<[id |-> fb.draft.id, status |-> "Sending", bytes |-> fb.draft.bytes]>>
                              \o Without(@, fb.draft.id),
               !.draft.step = "sending",
               !.sending = fb.draft.id,
               !.dirty = TRUE]

(* stage_send: replay the failed row in place, or put a new row in front.  *)
StageSend(fb) ==
    LET id == SendId(fb)
    IN IF Has(fb.messages, id)
       THEN Resent(fb, id)
       ELSE [fb EXCEPT
               !.messages = <<[id |-> id, status |-> "Sending", bytes |-> fb.draft.bytes]>>
                              \o Without(@, fb.draft.id),
               !.draft = [id |-> id, bytes |-> fb.draft.bytes, step |-> "sending"],
               !.sending = id,
               !.dirty = TRUE]

-----------------------------------------------------------------------------
(* Frames *)

(* Mutant: the frame's copy of dirty replaces live's. *)
MergeFeedbackClears(b, p) ==
    [messages   |-> KeepLen(live.messages, b.messages, p.messages),
     draft      |-> TakeUi(live.draft, b.draft, p.draft),
     sending    |-> MergeBusyOpt(live.sending, b.sending, p.sending, 0),
     refreshing |-> MergeBusy(live.refreshing, b.refreshing, p.refreshing),
     dirty      |-> TakeUi(live.dirty, b.dirty, p.dirty)]

(* FeedbackState::merge_paint *)
MergeFeedback(b, p) ==
    [messages   |-> KeepLen(live.messages, b.messages, p.messages),
     draft      |-> TakeUi(live.draft, b.draft, p.draft),
     sending    |-> MergeBusyOpt(live.sending, b.sending, p.sending, 0),
     refreshing |-> MergeBusy(live.refreshing, b.refreshing, p.refreshing),
     dirty      |-> live.dirty \/ (p.dirty /\ ~b.dirty)]

(* flush_dirty saves what is dirty, but never a history that did not load. *)
Flushes == live.dirty /\ ~unread

(* Capture, and maybe_poll's flush_dirty as the frame's first step: the    *)
(* rows are queued for messages.json and the flag comes down at once,      *)
(* before the write.                                                       *)
Capture ==
    /\ ~layout
    /\ layout' = TRUE
    /\ stale' = FALSE
    /\ raised' = {}
    /\ base' = live
    /\ paint' = [live EXCEPT !.dirty = @ /\ ~Flushes]
    /\ queued' = IF Flushes THEN [some |-> TRUE, rows |-> live.messages] ELSE queued
    /\ lost' = (lost /\ ~Flushes)
    /\ UNCHANGED <<live, minted, sends, polls, disk, unread, stored, answered, posted, stops,
                   restarts>>

Commit ==
    /\ layout
    /\ layout' = FALSE
    /\ live' = IF stale THEN MergeFeedback(base, paint) ELSE paint
    /\ base' = Fresh(<<>>) /\ paint' = Fresh(<<>>) /\ stale' = FALSE /\ raised' = {}
    /\ UNCHANGED <<minted, sends, polls, queued, disk, unread, lost, stored, answered,
                   posted, stops, restarts>>

(* A worker of another feature publishes during the layout. *)
OtherPublish ==
    /\ layout
    /\ ~stale
    /\ stale' = TRUE
    /\ UNCHANGED <<live, layout, base, paint, raised, minted, sends, polls, queued, disk,
                   unread, lost, stored, answered, posted, stops, restarts>>

(* An edit of the frame's copy that starts no worker. *)
Edit(fb) ==
    /\ layout
    /\ paint' = fb
    /\ UNCHANGED <<live, layout, base, stale, raised, sends, polls, queued, disk, unread,
                   lost, stored, answered, posted, stops, restarts>>

OpenDraft ==
    /\ paint.draft = NoDraft
    /\ minted < MaxIds
    /\ minted' = minted + 1
    /\ \E b \in Bytes : Edit([paint EXCEPT !.draft = [id |-> minted', bytes |-> b, step |-> "edit"]])

ChangeDraft ==
    /\ paint.draft.step = "edit"
    /\ \E b \in Bytes \ {paint.draft.bytes} : Edit([paint EXCEPT !.draft.bytes = b])
    /\ UNCHANGED minted

(* Cancel on the wizard, or Done once it was sent; not while it is going out. *)
CloseDraft ==
    /\ paint.draft.step \in {"edit", "sent"}
    /\ Edit([paint EXCEPT !.draft = NoDraft])
    /\ UNCHANGED minted

(* coffee(): a local row, never sent; a draft on its first page is closed. *)
Coffee ==
    /\ minted < MaxIds
    /\ minted' = minted + 1
    /\ \E d \in {paint.draft} \cup (IF paint.draft.step = "edit" THEN {NoDraft} ELSE {}) :
         Edit([paint EXCEPT !.messages = <<[id |-> minted', status |-> "Local", bytes |-> 0]>> \o @,
                            !.draft = d,
                            !.dirty = TRUE])

Discard(id) ==
    /\ MayDiscard
    /\ Has(paint.messages, id)
    /\ RowOf(paint.messages, id).status \in {"Failed", "Unknown"}
    /\ Edit([paint EXCEPT !.messages = Without(@, id), !.dirty = TRUE])
    /\ UNCHANGED minted

(* edit_and_resend: the failed row becomes a fresh draft. *)
EditAndResend(id) ==
    /\ Has(paint.messages, id)
    /\ RowOf(paint.messages, id).status = "Failed"
    /\ minted < MaxIds
    /\ minted' = minted + 1
    /\ Edit([paint EXCEPT
               !.messages = Without(@, id),
               !.draft = [id |-> minted', bytes |-> RowOf(paint.messages, id).bytes,
                          step |-> "edit"],
               !.dirty = TRUE])

(* publish_raised_busy, for the two markers of this state. *)
PublishRaised(p) ==
    LET send == p.sending # 0 /\ p.sending # base.sending /\ "send" \notin raised
        poll == p.refreshing /\ ~base.refreshing /\ "poll" \notin raised
    IN /\ live' = [live EXCEPT !.sending = IF send THEN p.sending ELSE @,
                               !.refreshing = @ \/ poll]
       /\ raised' = raised \cup (IF send THEN {"send"} ELSE {})
                           \cup (IF poll THEN {"poll"} ELSE {})

(* Mutant: Send is not refused while a report is going out. *)
MaySendAlways(fb) == TRUE

MaySend(fb) == fb.sending = 0

(* The staged report goes to a worker, or the OS refuses the thread and    *)
(* the row is failed on the spot.                                          *)
Post(fb) ==
    \/ /\ paint' = fb
       /\ PublishRaised(fb)
       /\ sends' = sends \cup {[id |-> fb.sending, stopped |-> FALSE, phase |-> "post",
                                bytes |-> RowOf(fb.messages, fb.sending).bytes,
                                result |-> "Sending"]}
    \/ /\ paint' = ApplySendResult(fb, fb.sending, "Failed")
       /\ UNCHANGED <<live, raised, sends>>

Send ==
    /\ layout
    /\ paint.draft.step = "edit"
    /\ MaySend(paint)
    /\ SendId(paint) <= MaxIds
    /\ Has(paint.messages, SendId(paint)) =>
         RowOf(paint.messages, SendId(paint)).status = "Failed"
    /\ minted' = IF SendId(paint) > minted THEN SendId(paint) ELSE minted
    /\ Post(StageSend(paint))
    /\ UNCHANGED <<layout, base, stale, polls, queued, disk, unread, lost, stored, answered,
                   posted, stops, restarts>>

Resend(id) ==
    /\ layout
    /\ MaySend(paint)
    /\ Has(paint.messages, id)
    /\ RowOf(paint.messages, id).status = "Failed"
    /\ RowOf(paint.messages, id).bytes # 0
    /\ Post(Resent(paint, id))
    /\ UNCHANGED <<layout, base, stale, minted, polls, queued, disk, unread, lost, stored,
                   answered, posted, stops, restarts>>

(* maybe_poll: a status refresh of every pollable row, one at a time. *)
RefreshStatus ==
    /\ layout
    /\ ~paint.refreshing
    /\ Pollable(paint.messages) # {}
    /\ paint' = [paint EXCEPT !.refreshing = TRUE]
    /\ PublishRaised(paint')
    /\ polls' = polls \cup {[ids |-> Pollable(paint.messages), stopped |-> FALSE,
                             phase |-> "fetch", rows |-> <<>>]}
    /\ UNCHANGED <<layout, base, stale, minted, sends, queued, disk, unread, lost, stored,
                   answered, posted, stops, restarts>>

(* A Stop of any request cancels every worker of the run token. *)
Stop ==
    /\ layout
    /\ stops < MaxStops
    /\ sends # {} \/ polls # {}
    /\ stops' = stops + 1
    /\ sends' = {[w EXCEPT !.stopped = TRUE] : w \in sends}
    /\ polls' = {[w EXCEPT !.stopped = TRUE] : w \in polls}
    /\ UNCHANGED <<live, layout, base, paint, stale, raised, minted, queued, disk, unread,
                   lost, stored, answered, posted, restarts>>

-----------------------------------------------------------------------------
(* Workers *)

(* The request goes out, and the server takes it in: the first payload of  *)
(* an id is kept, whatever comes later under it.                           *)
Deliver(w) ==
    /\ w.phase = "post"
    /\ posted' = posted \cup {<<w.id, w.bytes>>}
    /\ stored' = [stored EXCEPT ![w.id] = IF @ = 0 THEN w.bytes ELSE @]
    /\ sends' = (sends \ {w}) \cup {[w EXCEPT !.phase = "answer"]}
    /\ UNCHANGED <<live, layout, base, paint, stale, raised, minted, polls, queued, disk,
                   unread, lost, answered, stops, restarts>>

ServerWord(id) ==
    CASE id \in answered -> "Answered"
      [] id \notin answered /\ stored[id] # 0 -> "Received"
      [] OTHER -> "Unknown"

(* classify: 201 with the report's current status, or some failure, which  *)
(* may also strike before the server saw the request or after.             *)
Classify(w) ==
    /\ w.phase \in {"post", "answer"}
    /\ \E r \in {"Failed"} \cup (IF w.phase = "answer" THEN {ServerWord(w.id)} ELSE {}) :
         sends' = (sends \ {w}) \cup {[w EXCEPT !.phase = "done", !.result = r]}
    /\ UNCHANGED <<live, layout, base, paint, stale, raised, minted, polls, queued, disk,
                   unread, lost, stored, answered, posted, stops, restarts>>

(* The outcome lands on the live state. *)
ApplySend(w) ==
    /\ w.phase = "done"
    /\ ~w.stopped
    /\ live' = ApplySendResult(live, w.id, w.result)
    /\ stale' = layout
    /\ sends' = sends \ {w}
    /\ UNCHANGED <<layout, base, paint, raised, minted, polls, queued, disk, unread, lost,
                   stored, answered, posted, stops, restarts>>

(* spawn_send returns on a cancelled token, before or after the request,   *)
(* without a word to the row.                                              *)
DropSend(w) ==
    /\ w.phase \in {"post", "done"}
    /\ w.stopped
    /\ sends' = sends \ {w}
    /\ UNCHANGED <<live, layout, base, paint, stale, raised, minted, polls, queued, disk,
                   unread, lost, stored, answered, posted, stops, restarts>>

(* The worker panics: the row fails, cancelled or not. *)
SendPanics(w) ==
    /\ live' = ApplySendResult(live, w.id, "Failed")
    /\ stale' = layout
    /\ sends' = sends \ {w}
    /\ UNCHANGED <<layout, base, paint, raised, minted, polls, queued, disk, unread, lost,
                   stored, answered, posted, stops, restarts>>

FetchStatus(w) ==
    /\ w.phase = "fetch"
    /\ polls' = (polls \ {w}) \cup
                  {[w EXCEPT !.phase = "done", !.rows = [i \in w.ids |-> ServerWord(i)]]}
    /\ UNCHANGED <<live, layout, base, paint, stale, raised, minted, sends, queued, disk,
                   unread, lost, stored, answered, posted, stops, restarts>>

ApplyRefresh(w) ==
    /\ w.phase = "done"
    /\ ~w.stopped
    /\ live' = ApplyStatusRows(live, w.rows)
    /\ stale' = layout
    /\ polls' = polls \ {w}
    /\ UNCHANGED <<layout, base, paint, raised, minted, sends, queued, disk, unread, lost,
                   stored, answered, posted, stops, restarts>>

(* A failed, cancelled or panicked refresh only releases the latch. *)
RefreshFails(w) ==
    /\ live' = [live EXCEPT !.refreshing = FALSE]
    /\ stale' = layout
    /\ polls' = polls \ {w}
    /\ UNCHANGED <<layout, base, paint, raised, minted, sends, queued, disk, unread, lost,
                   stored, answered, posted, stops, restarts>>

(* The writer puts the newest queued rows on disk. *)
SaveLands ==
    /\ queued.some
    /\ disk' = queued.rows
    /\ queued' = Nothing
    /\ UNCHANGED <<live, layout, base, paint, stale, raised, minted, sends, polls, unread, lost,
                   stored, answered, posted, stops, restarts>>

(* The write fails: the old file stays, the failure is logged, and nobody  *)
(* marks the rows dirty again.                                             *)
SaveFails ==
    /\ queued.some
    /\ queued' = Nothing
    /\ lost' = TRUE
    /\ UNCHANGED <<live, layout, base, paint, stale, raised, minted, sends, polls, disk, unread,
                   stored, answered, posted, stops, restarts>>

(* The developer answers a report. *)
Answer(id) ==
    /\ stored[id] # 0
    /\ id \notin answered
    /\ Cardinality(answered) < MaxAnswers
    /\ answered' = answered \cup {id}
    /\ UNCHANGED <<live, layout, base, paint, stale, raised, minted, sends, polls, queued,
                   disk, unread, lost, stored, posted, stops, restarts>>

(* The game ends and starts again: what was in memory or queued is gone,   *)
(* and the rows come back from disk, unless the file does not load.        *)
Restart ==
    /\ restarts < MaxRestarts
    /\ restarts' = restarts + 1
    /\ unread' \in BOOLEAN
    /\ live' = Fresh(IF unread' THEN <<>> ELSE Loaded(disk))
    /\ base' = Fresh(<<>>) /\ paint' = Fresh(<<>>)
    /\ layout' = FALSE /\ stale' = FALSE /\ raised' = {}
    /\ sends' = {} /\ polls' = {}
    /\ queued' = Nothing /\ lost' = FALSE
    /\ UNCHANGED <<minted, disk, stored, answered, posted, stops>>

-----------------------------------------------------------------------------

Player ==
    \/ OpenDraft \/ ChangeDraft \/ CloseDraft \/ Coffee
    \/ \E id \in Ids : Discard(id) \/ EditAndResend(id) \/ Resend(id)
    \/ Send \/ RefreshStatus \/ Stop

SendStep(w) == Deliver(w) \/ Classify(w) \/ ApplySend(w) \/ DropSend(w) \/ SendPanics(w)

PollStep(w) == FetchStatus(w) \/ ApplyRefresh(w) \/ RefreshFails(w)

Next ==
    \/ Capture \/ Commit \/ OtherPublish \/ Player
    \/ \E w \in sends : SendStep(w)
    \/ \E w \in polls : PollStep(w)
    \/ SaveLands \/ SaveFails
    \/ \E id \in Ids : Answer(id)
    \/ Restart

Spec == Init /\ [][Next]_vars

(* Frames go on while the game runs, every request has a 5 s timeout, and  *)
(* the writer's worker runs until its queue is empty; whether a write      *)
(* succeeds is left open.                                                  *)
Fairness ==
    /\ WF_vars(Capture) /\ WF_vars(Commit) /\ WF_vars(SaveLands \/ SaveFails)
    /\ WF_vars(\E w \in sends : SendStep(w))
    /\ WF_vars(\E w \in polls : PollStep(w))

FairSpec == Spec /\ Fairness

-----------------------------------------------------------------------------
(* Correctness *)

Feedback(fb) ==
    /\ fb.messages \in Seq(Row)
    /\ fb.draft = NoDraft \/ (fb.draft.id \in Ids /\ fb.draft.bytes \in Bytes)
    /\ fb.draft.step \in {"closed", "edit", "sending", "sent"}
    /\ fb.sending \in Ids \cup {0}
    /\ fb.refreshing \in BOOLEAN /\ fb.dirty \in BOOLEAN

TypeOK ==
    /\ Feedback(live) /\ Feedback(base) /\ Feedback(paint)
    /\ layout \in BOOLEAN /\ stale \in BOOLEAN
    /\ raised \subseteq {"send", "poll"}
    /\ minted \in 0 .. MaxIds
    /\ \A w \in sends : w.id \in Ids /\ w.bytes \in Bytes
    /\ \A w \in polls : w.ids \subseteq Ids
    /\ disk \in Seq(Row) /\ queued.rows \in Seq(Row)
    /\ unread \in BOOLEAN /\ lost \in BOOLEAN
    /\ stored \in [Ids -> Bytes \cup {0}]
    /\ answered \subseteq Ids

(* One report is on its way at a time, whatever the player clicks while a  *)
(* frame and a worker overlap.                                             *)
OneSendInFlight == Cardinality(sends) <= 1 /\ Cardinality(polls) <= 1

(* An id never goes out with two payloads: the server keeps the first, so  *)
(* a second would be lost while the player is told it was received.        *)
OnePayloadPerId == \A x, y \in posted : x[1] = y[1] => x = y

(* A report has one row, and a failed row can always be replayed: its      *)
(* payload is kept, through resends, merges, saves and restarts, until the *)
(* server has it.                                                          *)
RowsReplayable ==
    LET rows == live.messages
    IN /\ \A i, j \in DOMAIN rows : rows[i].id = rows[j].id => i = j
       /\ \A i \in DOMAIN rows : rows[i].status = "Failed" => rows[i].bytes # 0

(* The lock on Send is released: between frames it is held only while a    *)
(* worker is sending that very report.                                     *)
SendLockHasWorker == ~layout /\ live.sending # 0 => \E w \in sends : w.id = live.sending

(* What a restart would find is what the player sees, or a flush is due:   *)
(* no merge loses the flag for rows that no save has seen.  Not so after a *)
(* write that failed, which nothing repeats, and a history that did not    *)
(* load is never written over (README, 6).                                 *)
SavedOrDirty ==
    /\ unread => ~queued.some
    /\ ~layout /\ ~unread =>
         \/ live.dirty
         \/ lost
         \/ Loaded(IF queued.some THEN queued.rows ELSE disk) = Loaded(live.messages)

(* A row that says Sending has a worker that will tell it the outcome.     *)
(* Not so for a send that ends before its frame commits (README, 6).       *)
SendingRowHasWorker ==
    ~layout => \A i \in DOMAIN live.messages :
                 live.messages[i].status = "Sending" =>
                   \E w \in sends : w.id = live.messages[i].id

(* A commit never takes a row back behind what a worker published during   *)
(* the layout.  Not so when the frame added or removed a row (README, 6).  *)
PublishedRowsKept ==
    [][layout /\ ~layout' /\ stale /\ restarts' = restarts =>
         \A i \in DOMAIN live.messages : \A j \in DOMAIN base.messages :
           live.messages[i].id = base.messages[j].id /\ live.messages[i] # base.messages[j] =>
             \E k \in DOMAIN live'.messages : live'.messages[k] = live.messages[i]]_vars

(* Send unlocks again, whatever the network does, unless a Stop of another *)
(* request hits the workers.                                               *)
SendUnlocks == live.sending # 0 ~> live.sending = 0 \/ stops > 0

(* A delivery that the rows show reaches messages.json, unless a later     *)
(* frame takes it back first, its write fails, or the history did not load *)
(* and is not saved at all.                                                *)
Delivered(rows, id) == Has(rows, id) /\ RowOf(rows, id).status \in {"Received", "Answered"}

DeliveriesReachDisk ==
    \A id \in Ids : Delivered(live.messages, id) ~>
                      Delivered(disk, id) \/ ~Delivered(live.messages, id) \/ lost \/ unread
=============================================================================
