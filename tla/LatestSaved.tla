---------------------------- MODULE LatestSaved ----------------------------
(***************************************************************************)
(* What a file that is rewritten whole owes its owner: each save puts a    *)
(* version on disk that the owner asked for, and never an older one than   *)
(* is there already.  SerialWriter (crates/addon/src/ui/mod.rs) promises   *)
(* it in the words "always writing the newest content".  Once somebody     *)
(* saves beside the owner the order is lost, and only the first half is    *)
(* left of the promise.                                                    *)
(***************************************************************************)
EXTENDS Naturals

VARIABLES
    content,  \* the version of the owner's data
    disk,     \* the version in the file
    beside    \* somebody else has saved a version of his own

Init == content = 0 /\ disk = 0 /\ beside = FALSE

(* The owner changes its data and asks for a save. *)
Change == content' = content + 1 /\ UNCHANGED <<disk, beside>>

(* Somebody changes the data and will save it beside the owner. *)
Bypass == content' = content + 1 /\ beside' = TRUE /\ disk' = disk

(* Some version newer than the one on disk reaches the file. *)
Save ==
    /\ \E v \in 0 .. content : (beside \/ disk < v) /\ disk' = v
    /\ UNCHANGED <<content, beside>>

Next == Change \/ Bypass \/ Save

Spec == Init /\ [][Next]_<<content, disk, beside>>
=============================================================================
