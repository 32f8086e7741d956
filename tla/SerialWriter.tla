---------------------------- MODULE SerialWriter ----------------------------
(***************************************************************************)
(* The saver of one file that the overlay rewrites whole                   *)
(* (SerialWriter in crates/addon/src/ui/mod.rs).  submit() runs under      *)
(* STATE: it replaces the queued content and, if no worker is draining the *)
(* file, starts one; when the OS refuses the thread the caller drains the  *)
(* queue itself, still holding STATE.  A job is one AppConfig::save (or    *)
(* the same for another file): stage, then rename.                         *)
(*                                                                         *)
(* config.json also has savers that do not go through the queue: keybinds, *)
(* unload and setup save a copy taken under STATE on their own thread.     *)
(* MaxDirect = 0 is a file without them.                                   *)
(***************************************************************************)
EXTENDS Naturals, FiniteSets

CONSTANTS
    Threads,     \* the worker threads that may drain the queue
    Caller,      \* the thread that submits, when it has to drain itself
    MaxContent,  \* bound: changes of the data
    MaxDirect,   \* bound: saves that bypass the queue
    MaxFailures  \* bound: writes that fail or panic

ASSUME CallerAssumption == Caller \notin Threads

VARIABLES
    content,   \* the version of the data under STATE
    pending,   \* WriteQueue::pending, 0 when empty
    draining,  \* WriteQueue::draining
    at,        \* where each thread is in drain()
    job,       \* the version each thread is writing, 0 outside a write
    direct,    \* versions a direct saver has copied and not renamed yet
    directs,   \* how many direct saves there were
    disk,      \* the version in the file
    failures   \* how many writes failed

vars == <<content, pending, draining, at, job, direct, directs, disk, failures>>

Drainers == Threads \cup {Caller}

Init ==
    /\ content = 0
    /\ pending = 0
    /\ draining = FALSE
    /\ at = [t \in Drainers |-> "out"]
    /\ job = [t \in Drainers |-> 0]
    /\ direct = {}
    /\ directs = 0
    /\ disk = 0
    /\ failures = 0

-----------------------------------------------------------------------------

(* The thread that will drain: a new worker, or the caller when the OS     *)
(* refuses one.                                                            *)
StartDrain == \E t \in Drainers : at[t] = "out" /\ at' = [at EXCEPT ![t] = "loop"]

(* Mutant: a worker for every save. *)
SubmitAlwaysSpawns ==
    /\ content < MaxContent
    /\ at[Caller] = "out"
    /\ content' = content + 1
    /\ pending' = content'
    /\ draining' = TRUE
    /\ StartDrain
    /\ UNCHANGED <<job, direct, directs, disk, failures>>

(* Mutant: the first content queued is kept. *)
SubmitKeepsQueued ==
    /\ content < MaxContent
    /\ at[Caller] = "out"
    /\ content' = content + 1
    /\ pending' = IF pending = 0 THEN content' ELSE pending
    /\ draining' = TRUE
    /\ IF draining THEN at' = at ELSE StartDrain
    /\ UNCHANGED <<job, direct, directs, disk, failures>>

(* The data changes and submit() queues it, all under STATE, which a       *)
(* caller that drains keeps.                                               *)
Submit ==
    /\ content < MaxContent
    /\ at[Caller] = "out"
    /\ content' = content + 1
    /\ pending' = content'
    /\ draining' = TRUE
    /\ IF draining THEN at' = at ELSE StartDrain
    /\ UNCHANGED <<job, direct, directs, disk, failures>>

(* Mutant: one slot for the job, whoever drains. *)
TakeForgetsOthers(t) ==
    /\ at[t] = "loop"
    /\ pending # 0
    /\ job' = [u \in {t} |-> pending]
    /\ pending' = 0
    /\ at' = [at EXCEPT ![t] = "write"]
    /\ UNCHANGED <<content, draining, direct, directs, disk, failures>>

(* drain(): take the queued content, under the queue lock. *)
Take(t) ==
    /\ at[t] = "loop"
    /\ pending # 0
    /\ job' = [job EXCEPT ![t] = pending]
    /\ pending' = 0
    /\ at' = [at EXCEPT ![t] = "write"]
    /\ UNCHANGED <<content, draining, direct, directs, disk, failures>>

(* Mutant: the worker leaves after one job and the flag stays up. *)
LeaveKeepsFlag(t) ==
    /\ at[t] = "loop"
    /\ pending = 0
    /\ at' = [at EXCEPT ![t] = "out"]
    /\ UNCHANGED <<content, pending, draining, job, direct, directs, disk, failures>>

(* drain(): nothing is queued, so the flag comes down under the same lock. *)
Leave(t) ==
    /\ at[t] = "loop"
    /\ pending = 0
    /\ draining' = FALSE
    /\ at' = [at EXCEPT ![t] = "out"]
    /\ UNCHANGED <<content, pending, job, direct, directs, disk, failures>>

(* The write reaches its rename. *)
Write(t) ==
    /\ at[t] = "write"
    /\ disk' = job[t]
    /\ job' = [job EXCEPT ![t] = 0]
    /\ at' = [at EXCEPT ![t] = "loop"]
    /\ UNCHANGED <<content, pending, draining, direct, directs, failures>>

(* Mutant: a panicking job takes the thread with it. *)
WriteFailsUncaught(t) ==
    /\ at[t] = "write"
    /\ failures < MaxFailures
    /\ failures' = failures + 1
    /\ job' = [job EXCEPT ![t] = 0]
    /\ at' = [at EXCEPT ![t] = "out"]
    /\ UNCHANGED <<content, pending, draining, direct, directs, disk>>

(* The write fails or panics: it is logged and the loop goes on. *)
WriteFails(t) ==
    /\ at[t] = "write"
    /\ failures < MaxFailures
    /\ failures' = failures + 1
    /\ job' = [job EXCEPT ![t] = 0]
    /\ at' = [at EXCEPT ![t] = "loop"]
    /\ UNCHANGED <<content, pending, draining, direct, directs, disk>>

(* A keybind or unload changes the data and copies it under STATE, and     *)
(* saves the copy after releasing it.                                      *)
DirectCopy ==
    /\ directs < MaxDirect
    /\ content < MaxContent
    /\ at[Caller] = "out"
    /\ directs' = directs + 1
    /\ content' = content + 1
    /\ direct' = direct \cup {content'}
    /\ UNCHANGED <<pending, draining, at, job, disk, failures>>

DirectWrite(v) ==
    /\ disk' = v
    /\ direct' = direct \ {v}
    /\ UNCHANGED <<content, pending, draining, at, job, directs, failures>>

Drain(t) == Take(t) \/ Leave(t) \/ Write(t) \/ WriteFails(t)

Next ==
    \/ Submit
    \/ \E t \in Drainers : Drain(t)
    \/ DirectCopy
    \/ \E v \in direct : DirectWrite(v)

Spec == Init /\ [][Next]_vars

(* A thread in drain() is runnable until it leaves, and a write ends. *)
Fairness ==
    /\ \A t \in Drainers : WF_vars(Drain(t))
    /\ WF_vars(\E v \in direct : DirectWrite(v))

FairSpec == Spec /\ Fairness

-----------------------------------------------------------------------------
(* Correctness *)

TypeOK ==
    /\ content \in Nat
    /\ pending \in Nat
    /\ draining \in BOOLEAN
    /\ at \in [Drainers -> {"out", "loop", "write"}]
    /\ job \in [Drainers -> Nat]
    /\ direct \subseteq Nat
    /\ directs \in Nat
    /\ disk \in Nat
    /\ failures \in Nat

(* At most one thread drains the file. *)
OneDrainer == \A t, u \in Drainers : at[t] # "out" /\ at[u] # "out" => t = u

(* Queued content always has a thread that will take it. *)
NothingStranded == pending # 0 => \E t \in Drainers : at[t] # "out"

(* The queue has one drainer when it needs one and never two: the thread   *)
(* that finds it empty and the submit that fills it do not miss each       *)
(* other, and no two writes stage through one name.                        *)
QueueServed == OneDrainer /\ NothingStranded

(* While no write has failed and nobody saves beside the queue, the newest *)
(* content is on disk, being written or queued, so the caller may clear    *)
(* its dirty flag when it submits.                                         *)
NewestKept ==
    failures = 0 /\ directs = 0 =>
      content \in {disk, pending} \cup {job[t] : t \in Drainers}

(* When every saver is done, the newest content is the one on disk.  Not   *)
(* so with a saver beside the queue (README, 6).                           *)
NewestOnDisk ==
    /\ pending = 0
    /\ direct = {}
    /\ \A t \in Drainers : at[t] = "out"
    /\ failures = 0
    => disk = content

Latest == INSTANCE LatestSaved WITH beside <- directs > 0

(* The file is saved as LatestSaved says: never backwards, until a saver   *)
(* goes past the queue.                                                    *)
SavesLatest == Latest!Spec

(* Unless a write fails or a saver goes past the queue, whatever was to be *)
(* saved, it or something newer reaches the disk; and queued content is    *)
(* taken in any case, also when the job before it panicked.                *)
EverySaveLands ==
    /\ \A v \in 1 .. MaxContent : content = v ~> disk >= v \/ failures > 0 \/ directs > 0
    /\ pending # 0 ~> pending = 0
=============================================================================
