---------------------------- MODULE BuildStorage ----------------------------
(***************************************************************************)
(* Saved builds on disk (crates/core/src/storage.rs), one file system call *)
(* per step: a save stages the complete build in a file of its own and     *)
(* links it to its name; an overwrite writes <name>.tmp and renames it; a  *)
(* delete removes the name.  Callers are the frame and the note workers.   *)
(***************************************************************************)
EXTENDS Naturals

CONSTANTS
    Names,        \* file names of builds
    Builds,       \* their contents
    Inodes,       \* files the volume can hold
    Savers,       \* the callers that save new builds,
    Overwriters,  \*   those that overwrite
    Deleters,     \*   and those that delete
    MayBeOdd,     \* names of which at most one is odd in a way (see below)
    MaxDeaths,    \* bound: ends of the process, with loss of unflushed data
    NoBuild,      \* no saved build of a name
    Gone          \* no file of a name

ASSUME DistinctAssumption == Gone \notin Inodes /\ NoBuild \notin Builds
ASSUME TextAssumption == {"empty", "torn"} \cap Builds = {}

VARIABLES
    json,    \* <name>.json: name -> inode
    tmp,     \* <name>.tmp: name -> inode
    data,    \* inode -> its text, and whether it is flushed
    call,    \* caller -> the call it is in
    odd,     \* fixed: names that version 1.7.0 left as empty files, and names
             \* to which the volume may refuse a hard link
    deaths

vars == <<json, tmp, data, call, odd, deaths>>

Callers == Savers \cup Overwriters \cup Deleters

(* "mixed": another writer had the file open; "answer" is fixed when the   *)
(* call can no longer be answered otherwise.                               *)
Idle == [op |-> "none", name |-> "none", build |-> NoBuild, at |-> "idle",
         file |-> Gone, mixed |-> FALSE, answer |-> "none"]

Init ==
    /\ odd \in [leftover : SUBSET MayBeOdd, refused : SUBSET MayBeOdd]
    /\ \A m, n \in odd.leftover \cup odd.refused : m = n
    /\ odd.leftover \cap odd.refused = {}
    /\ \E i \in Inodes : json = [n \in Names |-> IF n \in odd.leftover THEN i ELSE Gone]
    /\ tmp = [n \in Names |-> Gone]
    /\ data = [i \in Inodes |-> [text |-> "empty", flushed |-> TRUE]]
    /\ call = [c \in Callers |-> Idle]
    /\ deaths = 0

Name(c) == call[c].name
InFile(n) == data[json[n]].text
Used == {json[n] : n \in Names} \cup {tmp[n] : n \in Names} \cup {call[c].file : c \in Callers}

At(c, op, pc) == call[c].op = op /\ call[c].at = pc
Goto(c, pc) == call' = [call EXCEPT ![c].at = pc]
Answer(c, a) == call' = [call EXCEPT ![c].at = "reply", ![c].answer = a, ![c].file = Gone]

(* Bound: an odd name is saved by one caller at a time (README, 6). *)
Undisturbed(c, n) ==
    n \in odd.leftover \cup odd.refused => \A d \in Savers \ {c} : call[d] = Idle

(* The list offers no empty file to overwrite or delete. *)
Ask(c, op, n, b) ==
    /\ call[c] = Idle
    /\ op # "new" /\ json[n] # Gone => InFile(n) # "empty"
    /\ op = "new" => c \in Savers /\ Undisturbed(c, n)
    /\ op = "overwrite" => c \in Overwriters
    /\ op = "delete" => c \in Deleters /\ b = NoBuild
    /\ op # "delete" => b \in Builds
    /\ call' = [call EXCEPT ![c] = [Idle EXCEPT !.op = op, !.name = n, !.build = b,
                                                !.at = IF op = "new" THEN "create" ELSE "check"]]
    /\ UNCHANGED <<json, tmp, data, deaths, odd>>

Reply(c) ==
    /\ call[c].at = "reply"
    /\ call' = [call EXCEPT ![c] = Idle]
    /\ UNCHANGED <<json, tmp, data, deaths, odd>>

(* save_overwrite and delete look for the file first, and act on it later. *)
Check(c) ==
    /\ call[c].at = "check"
    /\ IF json[Name(c)] = Gone THEN Answer(c, "missing")
       ELSE Goto(c, IF call[c].op = "delete" THEN "erase" ELSE "create")
    /\ UNCHANGED <<json, tmp, data, deaths, odd>>

-----------------------------------------------------------------------------
(* write_durably *)

(* A save's staging file is its own; <name>.tmp is opened, and cut to      *)
(* nothing, as it is found.                                                *)
Create(c) ==
    /\ call[c].at = "create"
    /\ LET found == call[c].op = "overwrite" /\ tmp[Name(c)] # Gone
       IN \E i \in IF found THEN {tmp[Name(c)]} ELSE Inodes \ Used :
            LET shared == \E d \in Callers : call[d].file = i
            IN /\ data' = [data EXCEPT ![i] = [text |-> "empty", flushed |-> FALSE]]
               /\ tmp' = IF call[c].op = "overwrite" THEN [tmp EXCEPT ![Name(c)] = i] ELSE tmp
               /\ call' = [d \in Callers |->
                             IF d = c THEN [call[c] EXCEPT !.file = i, !.mixed = shared, !.at = "write"]
                             ELSE IF call[d].file = i THEN [call[d] EXCEPT !.mixed = TRUE] ELSE call[d]]
    /\ UNCHANGED <<json, deaths, odd>>

Write(c) ==
    /\ call[c].at = "write"
    /\ data' = [data EXCEPT ![call[c].file] = [text |-> "torn", flushed |-> FALSE]]
    /\ Goto(c, "flush")
    /\ UNCHANGED <<json, tmp, deaths, odd>>

(* Mutant: the data is written but never flushed. *)
FlushedNot(b) == [text |-> b, flushed |-> FALSE]

Flushed(b) == [text |-> b, flushed |-> TRUE]

(* The rest of the text and sync_all; what two writers leave may be both.  *)
Flush(c) ==
    /\ call[c].at = "flush"
    /\ \E text \in {call[c].build} \cup (IF call[c].mixed THEN {"torn"} ELSE {}) :
         data' = [data EXCEPT ![call[c].file] = Flushed(text)]
    /\ Goto(c, IF call[c].op = "new" THEN "publish" ELSE "replace")
    /\ UNCHANGED <<json, tmp, deaths, odd>>

(* A file system call that fails is reported; a save and an overwrite      *)
(* remove their file first.                                                *)
CallFails(c) ==
    /\ call[c].at \in {"create", "write", "flush", "move", "replace", "erase"}
    /\ Answer(c, "error")
    /\ tmp' = IF call[c].op = "overwrite" THEN [tmp EXCEPT ![Name(c)] = Gone] ELSE tmp
    /\ UNCHANGED <<json, data, deaths, odd>>

-----------------------------------------------------------------------------
(* publish_new *)

Publish(c) ==
    /\ json' = [json EXCEPT ![Name(c)] = call[c].file]
    /\ Answer(c, "ok")

(* Mutant: the name is claimed whatever is there. *)
FreeAlways(c) == TRUE

Free(c) == json[Name(c)] = Gone

(* hard_link; a name that is held by more than an empty file stays so.     *)
Link(c) ==
    /\ At(c, "new", "publish")
    /\ \/ Free(c) /\ Publish(c)
       \/ /\ ~Free(c)
          /\ call' = [call EXCEPT ![c].at = "look",
                                  ![c].answer = IF InFile(Name(c)) = "empty" THEN "none" ELSE "taken"]
          /\ UNCHANGED json
    /\ UNCHANGED <<tmp, data, deaths, odd>>

IsEmptyFile(n) == json[n] # Gone /\ InFile(n) = "empty"

Look(c) ==
    /\ At(c, "new", "look")
    /\ IF IsEmptyFile(Name(c)) THEN Goto(c, "unlink") ELSE Answer(c, "taken")
    /\ UNCHANGED <<json, tmp, data, deaths, odd>>

Unlink(c) ==
    /\ At(c, "new", "unlink")
    /\ IF json[Name(c)] = Gone THEN Answer(c, "taken") ELSE Goto(c, "relink")
    /\ json' = [json EXCEPT ![Name(c)] = Gone]
    /\ UNCHANGED <<tmp, data, deaths, odd>>

Relink(c) ==
    /\ At(c, "new", "relink")
    /\ \/ json[Name(c)] = Gone /\ Publish(c)
       \/ json[Name(c)] # Gone /\ Answer(c, "taken") /\ UNCHANGED json
    /\ UNCHANGED <<tmp, data, deaths, odd>>

(* publish_by_rename, when either hard_link fails for another reason. *)
Claim(c) ==
    /\ Name(c) \in odd.refused
    /\ At(c, "new", "publish") \/ At(c, "new", "relink")
    /\ IF Free(c) THEN Goto(c, "move") ELSE Answer(c, "taken")
    /\ UNCHANGED <<json, tmp, data, deaths, odd>>

Move(c) ==
    /\ At(c, "new", "move")
    /\ Publish(c)
    /\ UNCHANGED <<tmp, data, deaths, odd>>

-----------------------------------------------------------------------------

(* Mutant: the new text is copied, and <name>.tmp stays. *)
WithoutTmpKept(n) == tmp

WithoutTmp(n) == [tmp EXCEPT ![n] = Gone]

(* replace_file: whatever <name>.tmp is now becomes the build. *)
Replace(c) ==
    /\ At(c, "overwrite", "replace")
    /\ IF tmp[Name(c)] = Gone
         THEN Answer(c, "error") /\ UNCHANGED <<json, tmp>>
         ELSE /\ json' = [json EXCEPT ![Name(c)] = tmp[Name(c)]]
              /\ tmp' = WithoutTmp(Name(c))
              /\ Answer(c, "ok")
    /\ UNCHANGED <<data, deaths, odd>>

Erase(c) ==
    /\ At(c, "delete", "erase")
    /\ json' = [json EXCEPT ![Name(c)] = Gone]
    /\ Answer(c, IF json[Name(c)] = Gone THEN "error" ELSE "ok")
    /\ UNCHANGED <<tmp, data, deaths, odd>>

(* The game ends or the power fails: what was not flushed is lost.         *)
Die ==
    /\ deaths < MaxDeaths
    /\ deaths' = deaths + 1
    /\ call' = [c \in Callers |-> Idle]
    /\ data' = [i \in Inodes |-> IF data[i].flushed THEN data[i] ELSE [text |-> "torn", flushed |-> TRUE]]
    /\ UNCHANGED <<json, tmp, odd>>

Next ==
    \/ \E c \in Callers :
         \/ \E op \in {"new", "overwrite", "delete"}, n \in Names, b \in Builds \cup {NoBuild} :
              Ask(c, op, n, b)
         \/ Reply(c) \/ Check(c)
         \/ Create(c) \/ Write(c) \/ Flush(c) \/ CallFails(c)
         \/ Link(c) \/ Look(c) \/ Unlink(c) \/ Relink(c) \/ Claim(c) \/ Move(c)
         \/ Replace(c) \/ Erase(c)
    \/ Die

Spec == Init /\ [][Next]_vars

-----------------------------------------------------------------------------
(* Correctness *)

TypeOK ==
    /\ json \in [Names -> Inodes \cup {Gone}]
    /\ tmp \in [Names -> Inodes \cup {Gone}]
    /\ data \in [Inodes -> [text : Builds \cup {"empty", "torn"}, flushed : BOOLEAN]]
    /\ call \in [Callers -> [op : {"none", "new", "overwrite", "delete"},
                             name : Names \cup {"none"}, build : Builds \cup {NoBuild},
                             at : {"idle", "check", "create", "write", "flush", "publish", "look",
                                   "unlink", "relink", "move", "replace", "erase", "reply"},
                             file : Inodes \cup {Gone}, mixed : BOOLEAN,
                             answer : {"none", "ok", "taken", "missing", "error"}]]
    /\ odd \in [leftover : SUBSET Names, refused : SUBSET Names]
    /\ deaths \in 0 .. MaxDeaths
    /\ \A n \in Names : json[n] # Gone => json[n] # tmp[n]

(* What is under a build's name is a whole build, whoever writes and       *)
(* whenever the game dies; only an old version's empty file is not.        *)
WholeFiles ==
    \A n \in Names \ odd.leftover : json[n] # Gone => InFile(n) \in Builds /\ data[json[n]].flushed

Saved == [n \in Names |-> IF json[n] # Gone /\ InFile(n) \in Builds THEN InFile(n) ELSE NoBuild]

Abstract == INSTANCE SavedBuilds WITH
    saved <- Saved,
    calls <- [c \in Callers |-> [op |-> call[c].op, name |-> call[c].name,
                                 build |-> call[c].build, answer |-> call[c].answer]]

(* Every call is one atomic change of the saved builds, or an error. *)
Implements == Abstract!Spec
=============================================================================
