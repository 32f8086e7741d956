----------------------------- MODULE SavedBuilds -----------------------------
(***************************************************************************)
(* What saving, overwriting and deleting builds promises: a map from file  *)
(* names to builds on which every call takes effect at one instant between *)
(* its start and its answer, or has none and answers with an error.        *)
(***************************************************************************)
CONSTANTS Names, Builds, NoBuild, Callers

VARIABLES saved,   \* the builds a player can list: name -> build
          calls    \* what each caller has asked for and been told

Idle == [op |-> "none", name |-> "none", build |-> NoBuild, answer |-> "none"]

Init ==
    /\ saved \in [Names -> Builds \cup {NoBuild}]
    /\ calls = [c \in Callers |-> Idle]

Ask(c) ==
    /\ calls[c] = Idle
    /\ \E op \in {"new", "overwrite", "delete"}, n \in Names, b \in Builds \cup {NoBuild} :
         calls' = [calls EXCEPT ![c] = [Idle EXCEPT !.op = op, !.name = n, !.build = b]]
    /\ UNCHANGED saved

Pending(c, op) == calls[c].op = op /\ calls[c].answer = "none"
Answer(c, a) == calls' = [calls EXCEPT ![c].answer = a]
Holds(c, b) == saved' = [saved EXCEPT ![calls[c].name] = b]
Listed(c) == saved[calls[c].name] # NoBuild

SaveNew(c) ==
    /\ Pending(c, "new")
    /\ \/ ~Listed(c) /\ Holds(c, calls[c].build) /\ Answer(c, "ok")
       \/ Listed(c) /\ UNCHANGED saved /\ Answer(c, "taken")

SaveOverwrite(c) ==
    /\ Pending(c, "overwrite")
    /\ \/ Listed(c) /\ Holds(c, calls[c].build) /\ Answer(c, "ok")
       \/ ~Listed(c) /\ UNCHANGED saved /\ Answer(c, "missing")

Delete(c) ==
    /\ Pending(c, "delete")
    /\ \/ Listed(c) /\ Holds(c, NoBuild) /\ Answer(c, "ok")
       \/ ~Listed(c) /\ UNCHANGED saved /\ Answer(c, "missing")

Fail(c) ==
    /\ calls[c] # Idle /\ calls[c].answer = "none"
    /\ Answer(c, "error")
    /\ UNCHANGED saved

Return(c) ==
    /\ calls[c].answer # "none"
    /\ calls' = [calls EXCEPT ![c] = Idle]
    /\ UNCHANGED saved

(* The process ends: nobody is told, nothing saved is lost. *)
Die == calls' = [c \in Callers |-> Idle] /\ UNCHANGED saved

Next ==
    \/ \E c \in Callers : Ask(c) \/ SaveNew(c) \/ SaveOverwrite(c) \/ Delete(c) \/ Fail(c) \/ Return(c)
    \/ Die

Spec == Init /\ [][Next]_<<saved, calls>>
=============================================================================
