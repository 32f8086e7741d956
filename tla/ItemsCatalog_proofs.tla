------------------------ MODULE ItemsCatalog_proofs ------------------------
(***************************************************************************)
(* Proofs about ItemsCatalog, for any items, builds, skips, abandoned      *)
(* downloads and mishaps.                                                  *)
(***************************************************************************)
EXTENDS ItemsCatalog, TLAPS

JobType ==
    [kind : {"none", "install", "refresh"}, build : 0 .. MaxBuild,
     listed : SUBSET Ids, todo : SUBSET Ids, done : SUBSET Ids,
     got : Rows, miss : SUBSET Ids]

ItemsType == [some : BOOLEAN, build : 0 .. MaxBuild, rows : Rows]
IdsType == [some : BOOLEAN, listed : SUBSET Ids]
PartialType == [some : BOOLEAN, done : SUBSET Ids, got : Rows, miss : SUBSET Ids]
Phases == {"idle", "list", "fetch", "ids", "skipped", "drop", "food", "walk", "done"}
Mishaps == {"drift", "return", "food", "unlisted", "tear", "clear", "skip"}

(* TypeOK with a name for the type of each record. *)
TypeInv ==
    /\ build \in 1 .. MaxBuild
    /\ live \in [Ids -> 0 .. MaxBuild]
    /\ Present(live) \subseteq seen /\ seen \subseteq Ids
    /\ items \in ItemsType /\ ids \in IdsType /\ partial \in PartialType /\ job \in JobType
    /\ skipped \subseteq Ids
    /\ claimed \in 0 .. MaxBuild
    /\ phase \in Phases
    /\ phase = "walk" => Present(job.got) \subseteq Food
    /\ skips \in Nat /\ abandons \in Nat
    /\ mishaps \subseteq Mishaps

LEMMA TypeSame == TypeOK <=> TypeInv
BY DEF TypeOK, TypeInv, ItemsType, IdsType, PartialType, JobType, Phases, Mishaps

LEMMA RowsFacts ==
  /\ NoRows \in Rows /\ \A id \in Ids : NoRows[id] = 0
  /\ Present(NoRows) = {}
  /\ \A rows \in Rows : /\ rows \in [Ids -> 0 .. MaxBuild]
                        /\ Present(rows) \subseteq Kept
                        /\ \A id \in Ids : rows[id] \in 0 .. MaxBuild /\ rows[id] \in Nat
  /\ Kept \subseteq Ids /\ MaxBuild \in Nat /\ 1 <= MaxBuild
BY IdsAssumption, BuildAssumption DEF Rows, NoRows, Present, Kept

LEMMA OnlyFacts ==
  ASSUME NEW rows \in Rows, NEW set
  PROVE  /\ Only(rows, set) \in Rows
         /\ \A id \in Ids : Only(rows, set)[id] = IF id \in set THEN rows[id] ELSE 0
BY BuildAssumption DEF Rows, Only, Present

LEMMA NoJobFacts ==
  /\ NoJob \in JobType /\ NoJob.kind = "none" /\ NoJob.build = 0 /\ NoJob.got = NoRows
  /\ NoJob.listed = {} /\ NoJob.todo = {} /\ NoJob.done = {} /\ NoJob.miss = {}
BY RowsFacts DEF NoJob, JobType

LEMMA AnsweredFacts ==
  ASSUME NEW id \in Ids, NEW row \in 0 .. MaxBuild, job \in JobType, row # 0 => id \in Kept
  PROVE  \E next \in JobType :
            /\ Answered(id, row) = next
            /\ next.kind = job.kind /\ next.build = job.build /\ next.listed = job.listed
            /\ next.todo = job.todo \ {id} /\ next.done = job.done \cup {id}
            /\ next.miss = job.miss
            /\ \A i \in Ids : next.got[i] = IF i = id THEN row ELSE job.got[i]
<1>1. PICK was \in JobType : was = job
  OBVIOUS
<1>2. PICK got : got = [was.got EXCEPT ![id] = row]
  OBVIOUS
<1>3. got \in Rows /\ \A i \in Ids : got[i] = IF i = id THEN row ELSE was.got[i]
  BY <1>1, <1>2, RowsFacts DEF JobType, Rows, Present
<1>4. PICK todo, done : todo = was.todo \ {id} /\ done = was.done \cup {id}
  OBVIOUS
<1>5. todo \in SUBSET Ids /\ done \in SUBSET Ids
  BY <1>4 DEF JobType
<1>6. PICK next : next = [was EXCEPT !.todo = todo, !.done = done, !.got = got]
  OBVIOUS
<1>7. next \in JobType
  BY <1>3, <1>5, <1>6 DEF JobType
<1>8. /\ next.kind = was.kind /\ next.build = was.build /\ next.listed = was.listed
      /\ next.todo = todo /\ next.done = done /\ next.got = got /\ next.miss = was.miss
  BY <1>6 DEF JobType
<1>9. Answered(id, row) = next
  BY <1>1, <1>2, <1>4, <1>6 DEF Answered
<1>10. /\ next.kind = job.kind /\ next.build = job.build /\ next.listed = job.listed
       /\ next.todo = job.todo \ {id} /\ next.done = job.done \cup {id}
       /\ next.miss = job.miss
       /\ \A i \in Ids : next.got[i] = IF i = id THEN row ELSE job.got[i]
  BY <1>1, <1>3, <1>4, <1>8
<1> QED BY <1>7, <1>9, <1>10

(* An id that is refused is answered and on record. *)
LEMMA MissFacts ==
  ASSUME NEW a \in JobType, NEW id \in Ids
  PROVE  \E next \in JobType :
            /\ [a EXCEPT !.miss = @ \cup {id}] = next
            /\ next.kind = a.kind /\ next.build = a.build /\ next.listed = a.listed
            /\ next.todo = a.todo /\ next.done = a.done /\ next.got = a.got
            /\ next.miss = a.miss \cup {id}
<1>1. PICK miss : miss = a.miss \cup {id}
  OBVIOUS
<1>2. miss \in SUBSET Ids
  BY <1>1 DEF JobType
<1>3. PICK next : next = [a EXCEPT !.miss = miss]
  OBVIOUS
<1>4. next \in JobType
  BY <1>2, <1>3 DEF JobType
<1>5. /\ next.kind = a.kind /\ next.build = a.build /\ next.listed = a.listed
      /\ next.todo = a.todo /\ next.done = a.done /\ next.got = a.got
      /\ next.miss = miss
  BY <1>3 DEF JobType
<1>6. [a EXCEPT !.miss = @ \cup {id}] = next
  BY <1>1, <1>3
<1> QED BY <1>1, <1>4, <1>5, <1>6

-----------------------------------------------------------------------------
(* The parts of a record of each type, and what a new record holds. *)

LEMMA ItemsFacts ==
  /\ NoItems \in ItemsType /\ ~NoItems.some /\ NoItems.build = 0 /\ NoItems.rows = NoRows
  /\ \A x \in ItemsType : x.some \in BOOLEAN /\ x.build \in 0 .. MaxBuild /\ x.rows \in Rows
BY RowsFacts DEF NoItems, ItemsType

LEMMA IdsFacts ==
  /\ NoIds \in IdsType /\ ~NoIds.some /\ NoIds.listed = {}
  /\ \A x \in IdsType : x.some \in BOOLEAN /\ x.listed \subseteq Ids
BY DEF NoIds, IdsType

LEMMA PartialFacts ==
  /\ NoPartial \in PartialType /\ ~NoPartial.some /\ NoPartial.done = {}
  /\ NoPartial.got = NoRows /\ NoPartial.miss = {}
  /\ \A x \in PartialType : /\ x.some \in BOOLEAN /\ x.done \subseteq Ids
                            /\ x.got \in Rows /\ x.miss \subseteq Ids
BY RowsFacts DEF NoPartial, PartialType

LEMMA JobFacts ==
  \A x \in JobType : /\ x.kind \in {"none", "install", "refresh"} /\ x.build \in 0 .. MaxBuild
                     /\ x.listed \subseteq Ids /\ x.todo \subseteq Ids /\ x.done \subseteq Ids
                     /\ x.got \in Rows /\ x.miss \subseteq Ids
BY DEF JobType

ItemsOf(at, rows) == [some |-> TRUE, build |-> at, rows |-> rows]
IdsOf(listed) == [some |-> TRUE, listed |-> listed]
PartialOf(done, got, miss) == [some |-> TRUE, done |-> done, got |-> got, miss |-> miss]

LEMMA NewItems ==
  ASSUME NEW at \in 0 .. MaxBuild, NEW rows \in Rows
  PROVE  /\ ItemsOf(at, rows) \in ItemsType
         /\ ItemsOf(at, rows).some /\ ItemsOf(at, rows).build = at /\ ItemsOf(at, rows).rows = rows
BY DEF ItemsType, ItemsOf

LEMMA NewIds ==
  ASSUME NEW listed \in SUBSET Ids
  PROVE  /\ IdsOf(listed) \in IdsType
         /\ IdsOf(listed).some /\ IdsOf(listed).listed = listed
BY DEF IdsType, IdsOf

LEMMA NewPartial ==
  ASSUME NEW done \in SUBSET Ids, NEW got \in Rows, NEW miss \in SUBSET Ids
  PROVE  /\ PartialOf(done, got, miss) \in PartialType
         /\ PartialOf(done, got, miss).some /\ PartialOf(done, got, miss).done = done
         /\ PartialOf(done, got, miss).got = got /\ PartialOf(done, got, miss).miss = miss
BY DEF PartialType, PartialOf

-----------------------------------------------------------------------------
(* What each action that builds a record leaves in it. *)

LEMMA StartDownloadFacts ==
  ASSUME TypeInv, StartDownload
  PROVE  /\ phase = "idle" /\ phase' = "list"
         /\ job' \in JobType /\ job'.kind = "none" /\ job'.build = build /\ job'.listed = {}
         /\ job'.todo = {} /\ job'.done = {} /\ job'.got = NoRows /\ job'.miss = {}
         /\ UNCHANGED <<build, live, seen, items, ids, partial, skipped, claimed, mishaps>>
<1>1. build \in 0 .. MaxBuild
  BY BuildAssumption DEF TypeInv
<1>2. PICK was : was = [NoJob EXCEPT !.build = build]
  OBVIOUS
<1>3. was \in JobType
  BY <1>1, <1>2, RowsFacts DEF JobType, NoJob
<1>4. /\ was.kind = "none" /\ was.build = build /\ was.listed = {} /\ was.todo = {}
      /\ was.done = {} /\ was.got = NoRows /\ was.miss = {}
  BY <1>2 DEF NoJob
<1>5. job' = was
  BY <1>2 DEF StartDownload
<1> QED BY <1>3, <1>4, <1>5 DEF StartDownload, disk, bounds

LEMMA ListInstallFacts ==
  ASSUME TypeInv, ListInstall
  PROVE  /\ phase = "list" /\ ~items.some /\ phase' = "fetch"
         /\ job' \in JobType /\ job'.kind = "install" /\ job'.build = job.build
         /\ job'.listed = Present(live) /\ job'.todo = Present(live) \ partial.done
         /\ job'.done = partial.done /\ job'.miss = partial.miss
         /\ \A id \in Ids : job'.got[id] = IF live[id] # 0 THEN partial.got[id] ELSE 0
         /\ UNCHANGED <<build, live, seen, items, ids, partial, skipped, claimed, mishaps>>
<1>1. PICK listed, todo, got, done, miss :
         /\ listed = Present(live) /\ todo = listed \ partial.done /\ done = partial.done
         /\ got = Only(partial.got, listed) /\ miss = partial.miss
  OBVIOUS
<1>2. /\ listed \in SUBSET Ids /\ todo \in SUBSET Ids /\ done \in SUBSET Ids
      /\ miss \in SUBSET Ids /\ got \in Rows
      /\ \A id \in Ids : got[id] = IF live[id] # 0 THEN partial.got[id] ELSE 0
  BY <1>1, PartialFacts, OnlyFacts DEF TypeInv, Present
<1>3. PICK was \in JobType : was = job
  BY DEF TypeInv
<1>4. PICK next : next = [was EXCEPT !.kind = "install", !.listed = listed, !.todo = todo,
                                     !.done = done, !.got = got, !.miss = miss]
  OBVIOUS
<1>5. next \in JobType
  BY <1>2, <1>3, <1>4 DEF JobType
<1>6. /\ next.kind = "install" /\ next.build = was.build /\ next.listed = listed
      /\ next.todo = todo /\ next.done = done /\ next.got = got /\ next.miss = miss
  BY <1>4 DEF JobType
<1>7. job' = next
  BY <1>1, <1>3, <1>4 DEF ListInstall, LoadOrNewPartial
<1>8. /\ phase = "list" /\ ~items.some /\ phase' = "fetch"
      /\ UNCHANGED <<build, live, seen, items, ids, partial, skipped, claimed, mishaps>>
  BY DEF ListInstall, disk, bounds
<1> QED BY <1>1, <1>2, <1>3, <1>5, <1>6, <1>7, <1>8

LEMMA ListRefreshFacts ==
  ASSUME TypeInv, ListRefresh
  PROVE  /\ phase = "list" /\ items.some /\ Stale /\ phase' = "fetch"
         /\ job' \in JobType /\ job'.kind = "refresh" /\ job'.build = job.build
         /\ job'.listed = Present(live)
         /\ job'.todo = RefreshIds(Present(live), IF ids.some THEN ids.listed ELSE Present(live),
                                   Present(items.rows))
         /\ job'.done = job.done /\ job'.miss = job.miss /\ job'.got = job.got
         /\ UNCHANGED <<build, live, seen, items, ids, partial, skipped, claimed, mishaps>>
<1>1. PICK listed, todo :
         /\ listed = Present(live)
         /\ todo = RefreshIds(listed, IF ids.some THEN ids.listed ELSE listed, Present(items.rows))
  OBVIOUS
<1>2. listed \in SUBSET Ids /\ todo \in SUBSET Ids
  BY <1>1 DEF TypeInv, Present, RefreshIds
<1>3. PICK was \in JobType : was = job
  BY DEF TypeInv
<1>4. PICK next : next = [was EXCEPT !.kind = "refresh", !.listed = listed, !.todo = todo]
  OBVIOUS
<1>5. next \in JobType
  BY <1>2, <1>3, <1>4 DEF JobType
<1>6. /\ next.kind = "refresh" /\ next.build = was.build /\ next.listed = listed
      /\ next.todo = todo /\ next.done = was.done /\ next.got = was.got /\ next.miss = was.miss
  BY <1>4 DEF JobType
<1>7. job' = next
  BY <1>1, <1>3, <1>4 DEF ListRefresh
<1>8. /\ phase = "list" /\ items.some /\ Stale /\ phase' = "fetch"
      /\ UNCHANGED <<build, live, seen, items, ids, partial, skipped, claimed, mishaps>>
  BY DEF ListRefresh, disk, bounds
<1> QED BY <1>1, <1>2, <1>3, <1>5, <1>6, <1>7, <1>8

LEMMA FetchFacts ==
  ASSUME TypeInv, NEW id \in Ids, Fetch(id)
  PROVE  \E row \in 0 .. MaxBuild :
         /\ phase \in {"fetch", "walk"} /\ id \in job.todo /\ phase' = phase
         /\ row # 0 => row = live[id] /\ id \in (IF phase = "walk" THEN Food ELSE Kept)
         /\ \/ row = KeptRow(id) /\ mishaps' = mishaps
            \/ mishaps' = mishaps \cup {"skip"}
         /\ job' \in JobType /\ job'.kind = job.kind /\ job'.build = job.build
         /\ job'.listed = job.listed /\ job'.todo = job.todo \ {id} /\ job'.done = job.done \cup {id}
         /\ \A i \in Ids : job'.got[i] = IF i = id THEN row ELSE job.got[i]
         /\ partial' \in PartialType
         /\ IF phase = "fetch" /\ job.kind = "install"
              THEN partial'.some /\ partial'.done = job'.done /\ partial'.got = job'.got
              ELSE partial' = partial
         /\ skips' \in Nat
         /\ UNCHANGED <<build, live, seen, items, ids, skipped, claimed, abandons>>
<1>1. job \in JobType /\ partial \in PartialType /\ skips \in Nat /\ live \in [Ids -> 0 .. MaxBuild]
  BY DEF TypeInv
<1>2. \E row \in 0 .. MaxBuild :
         /\ row # 0 => row = live[id] /\ id \in (IF phase = "walk" THEN Food ELSE Kept)
         /\ \/ row = KeptRow(id) /\ mishaps' = mishaps
            \/ mishaps' = mishaps \cup {"skip"}
         /\ skips' \in Nat
         /\ job' \in JobType /\ job'.kind = job.kind /\ job'.build = job.build
         /\ job'.listed = job.listed /\ job'.todo = job.todo \ {id} /\ job'.done = job.done \cup {id}
         /\ \A i \in Ids : job'.got[i] = IF i = id THEN row ELSE job.got[i]
  <2>1. CASE job' = Answered(id, KeptRow(id)) /\ UNCHANGED <<skips, mishaps>>
    <3>1. PICK row \in 0 .. MaxBuild : row = KeptRow(id)
      BY <1>1, RowsFacts DEF KeptRow
    <3>2. row # 0 => row = live[id] /\ id \in (IF phase = "walk" THEN Food ELSE Kept)
      BY <3>1 DEF KeptRow
    <3>3. row # 0 => id \in Kept
      BY <3>2 DEF Kept
    <3>4. PICK next \in JobType :
            /\ Answered(id, row) = next
            /\ next.kind = job.kind /\ next.build = job.build /\ next.listed = job.listed
            /\ next.todo = job.todo \ {id} /\ next.done = job.done \cup {id}
            /\ next.miss = job.miss
            /\ \A i \in Ids : next.got[i] = IF i = id THEN row ELSE job.got[i]
      BY <1>1, <3>3, AnsweredFacts
    <3>5. job' = next
      BY <2>1, <3>1, <3>4
    <3> QED BY <1>1, <2>1, <3>1, <3>2, <3>4, <3>5
  <2>2. CASE skips' = skips + 1 /\ Meets({"skip"}) /\ job' = [Answered(id, 0) EXCEPT !.miss = @ \cup {id}]
    <3>1. PICK row \in 0 .. MaxBuild : row = 0
      BY RowsFacts
    <3>4. PICK a \in JobType :
            /\ Answered(id, row) = a
            /\ a.kind = job.kind /\ a.build = job.build /\ a.listed = job.listed
            /\ a.todo = job.todo \ {id} /\ a.done = job.done \cup {id}
            /\ a.miss = job.miss
            /\ \A i \in Ids : a.got[i] = IF i = id THEN row ELSE job.got[i]
      BY <1>1, <3>1, AnsweredFacts
    <3>5. PICK next \in JobType :
            /\ [a EXCEPT !.miss = @ \cup {id}] = next
            /\ next.kind = a.kind /\ next.build = a.build /\ next.listed = a.listed
            /\ next.todo = a.todo /\ next.done = a.done /\ next.got = a.got
            /\ next.miss = a.miss \cup {id}
      BY MissFacts
    <3>6. job' = next
      BY <2>2, <3>1, <3>4, <3>5
    <3>7. skips' \in Nat /\ mishaps' = mishaps \cup {"skip"}
      BY <1>1, <2>2 DEF Meets
    <3> QED BY <3>1, <3>4, <3>5, <3>6, <3>7
  <2> QED BY <2>1, <2>2 DEF Fetch
<1>3. /\ partial' \in PartialType
      /\ IF phase = "fetch" /\ job.kind = "install"
           THEN partial'.some /\ partial'.done = job'.done /\ partial'.got = job'.got
           ELSE partial' = partial
  <2>1. PICK done, got, miss : done = job'.done /\ got = job'.got /\ miss = job'.miss
    OBVIOUS
  <2>2. done \in SUBSET Ids /\ got \in Rows /\ miss \in SUBSET Ids
    BY <1>2, <2>1, JobFacts
  <2>3. PICK next : next = PartialOf(done, got, miss)
    OBVIOUS
  <2>4. /\ next \in PartialType
        /\ next.some /\ next.done = done /\ next.got = got /\ next.miss = miss
    BY <2>2, <2>3, NewPartial
  <2>5. partial' = IF phase = "fetch" /\ job.kind = "install" THEN next ELSE partial
    BY <2>1, <2>3 DEF Fetch, PartialOf
  <2> QED BY <1>1, <2>1, <2>4, <2>5
<1> QED BY <1>2, <1>3 DEF Fetch

LEMMA SaveInstallFacts ==
  ASSUME TypeInv, SaveInstall
  PROVE  /\ phase = "fetch" /\ job.kind = "install" /\ job.todo = {} /\ phase' = "ids"
         /\ items' \in ItemsType /\ items'.some /\ items'.build = job.build
         /\ \A id \in Ids : items'.rows[id] = IF id \in job.listed THEN job.got[id] ELSE 0
         /\ UNCHANGED <<build, live, seen, ids, partial, skipped, claimed, job, mishaps>>
<1>1. PICK rows : rows = Only(job.got, job.listed)
  OBVIOUS
<1>2. rows \in Rows /\ \A id \in Ids : rows[id] = IF id \in job.listed THEN job.got[id] ELSE 0
  BY <1>1, JobFacts, OnlyFacts DEF TypeInv
<1>3. PICK at \in 0 .. MaxBuild : at = job.build
  BY JobFacts DEF TypeInv
<1>4. items' = ItemsOf(at, rows)
  BY <1>1, <1>3 DEF SaveInstall, ItemsOf
<1>5. items' \in ItemsType /\ items'.some /\ items'.build = at /\ items'.rows = rows
  BY <1>2, <1>4, NewItems
<1>6. /\ phase = "fetch" /\ job.kind = "install" /\ job.todo = {} /\ phase' = "ids"
      /\ UNCHANGED <<build, live, seen, ids, partial, skipped, claimed, job, mishaps>>
  BY DEF SaveInstall, bounds
<1> QED BY <1>2, <1>3, <1>5, <1>6

LEMMA SaveRefreshFacts ==
  ASSUME TypeInv, SaveRefresh
  PROVE  /\ phase = "fetch" /\ job.kind = "refresh" /\ job.todo = {} /\ phase' = "skipped"
         /\ items' \in ItemsType /\ items'.some /\ items'.build = job.build
         /\ \A id \in Ids : items'.rows[id] = IF id \notin job.listed THEN 0
                              ELSE IF job.got[id] # 0 THEN job.got[id] ELSE items.rows[id]
         /\ UNCHANGED <<build, live, seen, ids, partial, skipped, claimed, job, mishaps>>
<1>1. PICK rows : rows = MergeKept(items.rows)
  OBVIOUS
<1>2. \A id \in Ids : rows[id] = IF id \notin job.listed THEN 0
                              ELSE IF job.got[id] # 0 THEN job.got[id] ELSE items.rows[id]
  BY <1>1 DEF MergeKept
<1>3. rows \in Rows
  <2>1. rows \in [Ids -> 0 .. MaxBuild]
    BY <1>1, RowsFacts, JobFacts, ItemsFacts DEF MergeKept, TypeInv
  <2>2. job.got \in Rows /\ items.rows \in Rows
    BY JobFacts, ItemsFacts DEF TypeInv
  <2>3. \A id \in Ids : rows[id] # 0 => id \in Kept
    BY <1>2, <2>2 DEF Rows, Present
  <2> QED BY <2>1, <2>3 DEF Rows, Present
<1>4. PICK at \in 0 .. MaxBuild : at = job.build
  BY JobFacts DEF TypeInv
<1>5. items' = ItemsOf(at, rows)
  BY <1>1, <1>4 DEF SaveRefresh, ItemsOf
<1>6. items' \in ItemsType /\ items'.some /\ items'.build = at /\ items'.rows = rows
  BY <1>3, <1>4, <1>5, NewItems
<1>7. /\ phase = "fetch" /\ job.kind = "refresh" /\ job.todo = {} /\ phase' = "skipped"
      /\ UNCHANGED <<build, live, seen, ids, partial, skipped, claimed, job, mishaps>>
  BY DEF SaveRefresh, bounds
<1> QED BY <1>2, <1>4, <1>6, <1>7

LEMMA SaveIdsFacts ==
  ASSUME TypeInv, SaveIds
  PROVE  /\ phase = "ids" /\ phase' = IF job.kind = "install" THEN "skipped" ELSE "food"
         /\ ids' \in IdsType /\ ids'.some /\ ids'.listed = job.listed
         /\ UNCHANGED <<build, live, seen, items, partial, skipped, claimed, job, mishaps>>
<1>1. PICK listed \in SUBSET Ids : listed = job.listed
  BY JobFacts DEF TypeInv
<1>2. ids' = IdsOf(listed)
  BY <1>1 DEF SaveIds, IdsOf
<1>3. ids' \in IdsType /\ ids'.some /\ ids'.listed = listed
  BY <1>2, NewIds
<1>4. /\ phase = "ids" /\ phase' = IF job.kind = "install" THEN "skipped" ELSE "food"
      /\ UNCHANGED <<build, live, seen, items, partial, skipped, claimed, job, mishaps>>
  BY DEF SaveIds, bounds
<1> QED BY <1>1, <1>3, <1>4

LEMMA FoodWalkFacts ==
  ASSUME TypeInv, FoodWalk
  PROVE  /\ phase = "food" /\ phase' = "walk" /\ Present(items.rows) \cap Food = {}
         /\ job' \in JobType /\ job'.kind = "none" /\ job'.build = job.build /\ job'.listed = {}
         /\ job'.todo = Present(live) \ Present(items.rows) /\ job'.done = {}
         /\ job'.got = NoRows /\ job'.miss = {}
         /\ UNCHANGED <<build, live, seen, items, ids, partial, skipped, claimed, mishaps>>
<1>1. PICK at \in 0 .. MaxBuild : at = job.build
  BY JobFacts DEF TypeInv
<1>2. PICK todo \in SUBSET Ids : todo = Present(live) \ Present(items.rows)
  BY DEF Present
<1>3. PICK next : next = [NoJob EXCEPT !.build = at, !.todo = todo]
  OBVIOUS
<1>4. next \in JobType
  BY <1>3, RowsFacts DEF JobType, NoJob
<1>5. /\ next.kind = "none" /\ next.build = at /\ next.listed = {} /\ next.todo = todo
      /\ next.done = {} /\ next.got = NoRows /\ next.miss = {}
  BY <1>3 DEF NoJob
<1>6. job' = next
  BY <1>1, <1>2, <1>3 DEF FoodWalk
<1>7. /\ phase = "food" /\ phase' = "walk" /\ Present(items.rows) \cap Food = {}
      /\ UNCHANGED <<build, live, seen, items, ids, partial, skipped, claimed, mishaps>>
  BY DEF FoodWalk, disk, bounds
<1> QED BY <1>1, <1>2, <1>4, <1>5, <1>6, <1>7

LEMMA SaveFoodFacts ==
  ASSUME TypeInv, SaveFood
  PROVE  /\ phase = "walk" /\ job.todo = {} /\ phase' = "done"
         /\ items' \in ItemsType /\ items'.some = items.some /\ items'.build = items.build
         /\ \A id \in Ids : items'.rows[id] = IF job.got[id] # 0 THEN job.got[id] ELSE items.rows[id]
         /\ UNCHANGED <<build, live, seen, ids, partial, skipped, claimed, job, mishaps>>
<1>1. PICK rows : rows = [id \in Ids |-> IF job.got[id] # 0 THEN job.got[id] ELSE items.rows[id]]
  OBVIOUS
<1>2. \A id \in Ids : rows[id] = IF job.got[id] # 0 THEN job.got[id] ELSE items.rows[id]
  BY <1>1
<1>3. rows \in Rows
  <2>1. rows \in [Ids -> 0 .. MaxBuild]
    BY <1>1, RowsFacts, JobFacts, ItemsFacts DEF TypeInv
  <2>2. job.got \in Rows /\ items.rows \in Rows
    BY JobFacts, ItemsFacts DEF TypeInv
  <2>3. \A id \in Ids : rows[id] # 0 => id \in Kept
    BY <1>2, <2>2 DEF Rows, Present
  <2> QED BY <2>1, <2>3 DEF Rows, Present
<1>4. PICK was \in ItemsType : was = items
  BY DEF TypeInv
<1>5. PICK next : next = [was EXCEPT !.rows = rows]
  OBVIOUS
<1>6. next \in ItemsType
  BY <1>3, <1>5 DEF ItemsType
<1>7. next.some = was.some /\ next.build = was.build /\ next.rows = rows
  BY <1>5 DEF ItemsType
<1>8. items' = next
  BY <1>1, <1>4, <1>5 DEF SaveFood
<1>9. /\ phase = "walk" /\ job.todo = {} /\ phase' = "done"
      /\ UNCHANGED <<build, live, seen, ids, partial, skipped, claimed, job, mishaps>>
  BY DEF SaveFood, bounds
<1> QED BY <1>2, <1>4, <1>6, <1>7, <1>8, <1>9

LEMMA PatchFacts ==
  ASSUME TypeInv, Patch
  PROVE  /\ build' = build + 1 /\ build' \in 1 .. MaxBuild
         /\ live' \in [Ids -> 0 .. MaxBuild]
         /\ \A id \in Ids : live'[id] = live[id] \/ live'[id] = 0 \/ live'[id] = build'
         /\ seen' = seen \cup Present(live')
         /\ mishaps \subseteq mishaps' /\ mishaps' \subseteq mishaps \cup {"drift", "return", "food", "unlisted"}
         /\ partial.some /\ ~items.some => "drift" \in mishaps'
         /\ (Present(live') \ Present(live)) \cap seen # {} => "return" \in mishaps'
         /\ (Present(live') \ Present(live)) \cap Food # {} => "food" \in mishaps'
         /\ items.some /\ ~ids.some /\ ~Torn /\ (Present(live') \ Present(live)) \cap Gear # {} =>
              "unlisted" \in mishaps'
         /\ UNCHANGED <<items, ids, partial, skipped, claimed, phase, job>>
<1>1. /\ build' = build + 1 /\ build' \in 1 .. MaxBuild
      /\ seen' = seen \cup Present(live')
      /\ UNCHANGED <<items, ids, partial, skipped, claimed, phase, job>>
  BY BuildAssumption DEF TypeInv, Patch, disk
<1>2. /\ live' \in [Ids -> 0 .. MaxBuild]
      /\ \A id \in Ids : live'[id] = live[id] \/ live'[id] = 0 \/ live'[id] = build'
  <2>1. live' \in [Ids -> 0 .. build'] /\ \A id \in Ids : live'[id] \in {live[id], 0, build'}
    BY DEF Patch
  <2> QED BY <1>1, <2>1, RowsFacts
<1>3. PICK met \in SUBSET {"drift", "return", "food", "unlisted"} :
        /\ mishaps' = mishaps \cup met
        /\ partial.some /\ ~items.some => "drift" \in met
        /\ (Present(live') \ Present(live)) \cap seen # {} => "return" \in met
        /\ (Present(live') \ Present(live)) \cap Food # {} => "food" \in met
        /\ items.some /\ ~ids.some /\ ~Torn /\ (Present(live') \ Present(live)) \cap Gear # {} =>
             "unlisted" \in met
  BY DEF Patch, Meets
<1> QED BY <1>1, <1>2, <1>3

LEMMA ClearCacheFacts ==
  ASSUME TypeInv, ClearCache
  PROVE  /\ phase = "idle"
         /\ \/ "clear" \in mishaps' /\ claimed' = claimed
            \/ /\ mishaps' = mishaps /\ claimed' = 0
               /\ items' = NoItems /\ ids' = NoIds /\ partial' = NoPartial /\ skipped' = {}
         /\ mishaps \subseteq mishaps' /\ mishaps' \subseteq mishaps \cup {"clear"}
         /\ items' \in {items, NoItems} /\ ids' \in {ids, NoIds}
         /\ partial' \in {partial, NoPartial} /\ skipped' \in {skipped, {}}
         /\ UNCHANGED <<build, live, seen, phase, job, skips, abandons>>
<1>1. PICK left \in SUBSET {"items", "ids", "partial", "skipped"} :
         /\ mishaps' = mishaps \cup (IF left # {} THEN {"clear"} ELSE {})
         /\ items' = IF "items" \in left THEN items ELSE NoItems
         /\ ids' = IF "ids" \in left THEN ids ELSE NoIds
         /\ partial' = IF "partial" \in left THEN partial ELSE NoPartial
         /\ skipped' = IF "skipped" \in left THEN skipped ELSE {}
         /\ claimed' = IF left = {} THEN 0 ELSE claimed
  BY DEF ClearCache, Meets
<1>2. phase = "idle" /\ UNCHANGED <<build, live, seen, phase, job, skips, abandons>>
  BY DEF ClearCache
<1>3. CASE left = {}
  BY <1>1, <1>2, <1>3
<1>4. CASE left # {}
  BY <1>1, <1>2, <1>4
<1> QED BY <1>3, <1>4

-----------------------------------------------------------------------------
(* Types *)

LEMMA TypeInit == Init => TypeInv
<1> SUFFICES ASSUME Init PROVE TypeInv
  OBVIOUS
<1>1. live \in [Ids -> 0 .. MaxBuild] /\ build \in 1 .. MaxBuild
  BY BuildAssumption DEF Init
<1>2. seen = Present(live) /\ seen \subseteq Ids
  BY DEF Init, Present
<1>3. items \in ItemsType
  <2>1. CASE items = NoItems
    BY <2>1, ItemsFacts
  <2>2. CASE \E b \in {0, 1} : items = [some |-> TRUE, build |-> b, rows |-> Only(live, Gear)]
    <3>1. PICK b \in {0, 1} : items = [some |-> TRUE, build |-> b, rows |-> Only(live, Gear)]
      BY <2>2
    <3>2. b \in 0 .. MaxBuild
      BY RowsFacts
    <3>3. PICK rows : rows = Only(live, Gear)
      OBVIOUS
    <3>4. rows \in Rows
      BY <1>1, <3>3, IdsAssumption, BuildAssumption DEF Only, Rows, Present, Kept
    <3>5. items = ItemsOf(b, rows)
      BY <3>1, <3>3 DEF ItemsOf
    <3> QED BY <3>2, <3>4, <3>5, NewItems
  <2> QED BY <2>1, <2>2 DEF Init
<1>4. ids \in IdsType
  <2>1. CASE ids = NoIds
    BY <2>1, IdsFacts
  <2>2. CASE ids = [some |-> TRUE, listed |-> Present(live)]
    <3>1. PICK listed : listed = Present(live)
      OBVIOUS
    <3>2. listed \in SUBSET Ids
      BY <3>1 DEF Present
    <3>3. ids = IdsOf(listed)
      BY <2>2, <3>1 DEF IdsOf
    <3> QED BY <3>2, <3>3, NewIds
  <2> QED BY <2>1, <2>2 DEF Init
<1>5. partial \in PartialType /\ job \in JobType
  BY PartialFacts, NoJobFacts DEF Init
<1>6. /\ skipped = {} /\ claimed = 0 /\ phase = "idle" /\ skips = 0 /\ abandons = 0 /\ mishaps = {}
  BY DEF Init
<1> QED BY <1>1, <1>2, <1>3, <1>4, <1>5, <1>6, RowsFacts DEF TypeInv, Phases, Mishaps

LEMMA TypeStep == TypeInv /\ [Next]_vars => TypeInv'
<1> SUFFICES ASSUME TypeInv, [Next]_vars PROVE TypeInv'
  OBVIOUS
<1>1. CASE Patch
  <2>1. Present(live') \subseteq seen' /\ seen' \subseteq Ids
    BY <1>1, PatchFacts DEF TypeInv, Present
  <2>2. mishaps' \subseteq Mishaps
    BY <1>1, PatchFacts DEF TypeInv, Mishaps
  <2>3. UNCHANGED <<skips, abandons>>
    BY <1>1 DEF Patch
  <2> QED BY <1>1, <2>1, <2>2, <2>3, PatchFacts DEF TypeInv
<1>2. CASE ClearCache
  <2>1. /\ items' \in ItemsType /\ ids' \in IdsType /\ partial' \in PartialType
        /\ skipped' \subseteq Ids /\ claimed' \in 0 .. MaxBuild
    BY <1>2, ClearCacheFacts, ItemsFacts, IdsFacts, PartialFacts, RowsFacts DEF TypeInv
  <2>2. mishaps' \subseteq Mishaps
    BY <1>2, ClearCacheFacts DEF TypeInv, Mishaps
  <2>3. UNCHANGED <<build, live, seen, phase, job, skips, abandons>>
    BY <1>2 DEF ClearCache
  <2> QED BY <2>1, <2>2, <2>3 DEF TypeInv
<1>3. CASE StartDownload
  <2>1. UNCHANGED <<skips, abandons>>
    BY <1>3 DEF StartDownload, bounds
  <2> QED BY <1>3, <2>1, StartDownloadFacts DEF TypeInv, Phases
<1>4. CASE Abandon
  <2>1. /\ phase' = "idle" /\ job' = NoJob /\ abandons' = abandons + 1
        /\ mishaps' = mishaps \cup (IF Torn THEN {"tear"} ELSE {})
        /\ UNCHANGED <<build, live, seen, items, ids, partial, skipped, claimed, skips>>
    BY <1>4 DEF Abandon, disk, Meets
  <2>2. mishaps' \subseteq Mishaps
    BY <2>1 DEF TypeInv, Mishaps
  <2> QED BY <2>1, <2>2, NoJobFacts DEF TypeInv, Phases
<1>5. CASE SkipItems
  BY <1>5 DEF SkipItems, TypeInv, disk, bounds, Phases
<1>6. CASE ListInstall
  <2>1. UNCHANGED <<skips, abandons>>
    BY <1>6 DEF ListInstall, bounds
  <2> QED BY <1>6, <2>1, ListInstallFacts DEF TypeInv, Phases
<1>7. CASE ListRefresh
  <2>1. UNCHANGED <<skips, abandons>>
    BY <1>7 DEF ListRefresh, bounds
  <2> QED BY <1>7, <2>1, ListRefreshFacts DEF TypeInv, Phases
<1>8. ASSUME NEW id \in Ids, Fetch(id) PROVE TypeInv'
  <2>1. PICK row \in 0 .. MaxBuild :
         /\ phase' = phase
         /\ row # 0 => id \in (IF phase = "walk" THEN Food ELSE Kept)
         /\ mishaps' = mishaps \/ mishaps' = mishaps \cup {"skip"}
         /\ job' \in JobType
         /\ \A i \in Ids : job'.got[i] = IF i = id THEN row ELSE job.got[i]
         /\ partial' \in PartialType
         /\ skips' \in Nat
         /\ UNCHANGED <<build, live, seen, items, ids, skipped, claimed, abandons>>
    BY <1>8, FetchFacts
  <2>2. phase' = "walk" => Present(job'.got) \subseteq Food
    BY <2>1 DEF TypeInv, Present
  <2>3. mishaps' \subseteq Mishaps
    BY <2>1 DEF TypeInv, Mishaps
  <2> QED BY <2>1, <2>2, <2>3 DEF TypeInv
<1>9. CASE SaveInstall
  <2>1. UNCHANGED <<skips, abandons>>
    BY <1>9 DEF SaveInstall, bounds
  <2> QED BY <1>9, <2>1, SaveInstallFacts DEF TypeInv, Phases
<1>10. CASE SaveRefresh
  <2>1. UNCHANGED <<skips, abandons>>
    BY <1>10 DEF SaveRefresh, bounds
  <2> QED BY <1>10, <2>1, SaveRefreshFacts DEF TypeInv, Phases
<1>11. CASE SaveIds
  <2>1. UNCHANGED <<skips, abandons>>
    BY <1>11 DEF SaveIds, bounds
  <2> QED BY <1>11, <2>1, SaveIdsFacts DEF TypeInv, Phases
<1>12. CASE SaveSkipped
  <2>1. skipped' \subseteq Ids
    BY <1>12, JobFacts DEF SaveSkipped, TypeInv
  <2> QED BY <1>12, <2>1 DEF SaveSkipped, TypeInv, bounds, Phases
<1>13. CASE DropPartial
  BY <1>13, PartialFacts DEF DropPartial, TypeInv, bounds, Phases
<1>14. CASE FoodKept
  BY <1>14 DEF FoodKept, TypeInv, disk, bounds, Phases
<1>15. CASE FoodWalk
  <2>1. UNCHANGED <<skips, abandons>>
    BY <1>15 DEF FoodWalk, bounds
  <2>2. Present(job'.got) = {}
    BY <1>15, FoodWalkFacts, RowsFacts
  <2> QED BY <1>15, <2>1, <2>2, FoodWalkFacts DEF TypeInv, Phases
<1>16. CASE SaveFood
  <2>1. UNCHANGED <<skips, abandons>>
    BY <1>16 DEF SaveFood, bounds
  <2> QED BY <1>16, <2>1, SaveFoodFacts DEF TypeInv, Phases
<1>17. CASE Complete
  BY <1>17, NoJobFacts, JobFacts DEF Complete, TypeInv, disk, bounds, Phases
<1>18. CASE UNCHANGED vars
  BY <1>18 DEF vars, TypeInv
<1> QED BY <1>1, <1>2, <1>3, <1>4, <1>5, <1>6, <1>7, <1>8, <1>9, <1>10, <1>11, <1>12, <1>13, <1>14,
           <1>15, <1>16, <1>17, <1>18 DEF Next, Download

LEMMA TypeAlways == Spec => []TypeInv
BY TypeInit, TypeStep, PTL DEF Spec

(* Every file, the row of every item and what a download holds keep their  *)
(* type; no row is of an item the optimizer has no use for.                *)
THEOREM TypeCorrect == Spec => []TypeOK
<1>1. TypeInv => TypeOK
  BY TypeSame
<1> QED BY <1>1, TypeAlways, PTL

-----------------------------------------------------------------------------
(* Rows only get newer *)

(* No row is newer than the API's. *)
RowsNow(rows) == \A id \in Ids : rows[id] <= build /\ (live[id] # 0 => rows[id] <= live[id])

Installing == phase = "fetch" /\ job.kind = "install"
Refreshing == phase = "fetch" /\ job.kind = "refresh"
Walking == phase = "walk"

AgeInv ==
    /\ \A id \in Ids : live[id] <= build
    /\ RowsNow(items.rows) /\ RowsNow(job.got) /\ RowsNow(partial.got)
    /\ phase = "list" => job.got = NoRows
    /\ Installing => ~items.some /\ partial.done \subseteq job.done
    /\ Refreshing => items.some
    /\ Refreshing \/ Walking => \A id \in Ids : job.got[id] # 0 => items.rows[id] <= job.got[id]

LEMMA NumberFacts ==
  ASSUME TypeInv
  PROVE  /\ build \in Nat /\ 1 <= build
         /\ \A id \in Ids : /\ live[id] \in Nat /\ items.rows[id] \in Nat
                            /\ job.got[id] \in Nat /\ partial.got[id] \in Nat
         /\ items.build \in Nat /\ job.build \in Nat /\ claimed \in Nat
BY RowsFacts, ItemsFacts, JobFacts, PartialFacts DEF TypeInv

LEMMA NoRowsNow == TypeInv => RowsNow(NoRows)
BY NumberFacts, RowsFacts DEF RowsNow

LEMMA AgeInit == Init => AgeInv
<1> SUFFICES ASSUME Init PROVE AgeInv
  OBVIOUS
<1>1. TypeInv
  BY TypeInit
<1>2. \A id \in Ids : live[id] <= build
  BY DEF Init
<1>3. job.got = NoRows /\ partial.got = NoRows /\ phase = "idle"
  BY NoJobFacts, PartialFacts DEF Init
<1>4. \A id \in Ids : items.rows[id] = 0 \/ items.rows[id] = live[id]
  <2>1. CASE items = NoItems
    BY <2>1, ItemsFacts, RowsFacts
  <2>2. CASE \E b \in {0, 1} : items = [some |-> TRUE, build |-> b, rows |-> Only(live, Gear)]
    BY <2>2 DEF Only
  <2> QED BY <2>1, <2>2 DEF Init
<1>5. RowsNow(items.rows)
  BY <1>1, <1>2, <1>4, NumberFacts DEF RowsNow
<1> QED BY <1>1, <1>2, <1>3, <1>5, NoRowsNow DEF AgeInv, Installing, Refreshing, Walking

LEMMA AgeStep == TypeInv /\ TypeInv' /\ AgeInv /\ [Next]_vars => AgeInv'
<1> SUFFICES ASSUME TypeInv, TypeInv', AgeInv, [Next]_vars PROVE AgeInv'
  OBVIOUS
<1> USE DEF AgeInv
<1>a. RowsNow(NoRows) /\ RowsNow(NoRows)'
  <2>1. RowsNow(NoRows)'
    <3>1. build' \in Nat /\ \A id \in Ids : live'[id] \in Nat
      BY RowsFacts DEF TypeInv
    <3> QED BY <3>1, RowsFacts DEF RowsNow
  <2> QED BY <2>1, NoRowsNow
<1>1. CASE Patch
  <2>1. \A id \in Ids : live'[id] <= build'
    BY <1>1, PatchFacts, NumberFacts
  <2>2. ASSUME NEW rows \in Rows, RowsNow(rows) PROVE RowsNow(rows)'
    BY <1>1, <2>1, <2>2, PatchFacts, NumberFacts, RowsFacts DEF RowsNow
  <2>3. UNCHANGED <<items, partial, phase, job>>
    BY <1>1, PatchFacts
  <2>4. items.rows \in Rows /\ job.got \in Rows /\ partial.got \in Rows
    BY ItemsFacts, JobFacts, PartialFacts DEF TypeInv
  <2>5. RowsNow(items.rows)' /\ RowsNow(job.got)' /\ RowsNow(partial.got)'
    BY <2>2, <2>3, <2>4 DEF RowsNow
  <2> QED BY <2>1, <2>3, <2>5 DEF Installing, Refreshing, Walking
<1>2. CASE ClearCache
  <2>1. /\ phase = "idle" /\ UNCHANGED <<build, live, phase, job>>
        /\ items' \in {items, NoItems} /\ partial' \in {partial, NoPartial}
    BY <1>2, ClearCacheFacts
  <2>2. RowsNow(items.rows)' /\ RowsNow(partial.got)'
    BY <1>a, <2>1, ItemsFacts, PartialFacts DEF RowsNow
  <2> QED BY <2>1, <2>2 DEF RowsNow, Installing, Refreshing, Walking
<1>3. CASE StartDownload
  BY <1>3, <1>a, StartDownloadFacts DEF RowsNow, Installing, Refreshing, Walking
<1>4. CASE Abandon
  <2>1. /\ phase' = "idle" /\ job' = NoJob
        /\ UNCHANGED <<build, live, items, partial>>
    BY <1>4 DEF Abandon, disk
  <2> QED BY <2>1, <1>a, NoJobFacts DEF RowsNow, Installing, Refreshing, Walking
<1>5. CASE SkipItems
  BY <1>5 DEF SkipItems, disk, RowsNow, Installing, Refreshing, Walking
<1>6. CASE ListInstall
  <2>1. /\ ~items.some /\ phase' = "fetch" /\ job'.kind = "install" /\ job'.done = partial.done
        /\ \A id \in Ids : job'.got[id] = IF live[id] # 0 THEN partial.got[id] ELSE 0
        /\ UNCHANGED <<build, live, items, partial>>
    BY <1>6, ListInstallFacts
  <2>2. RowsNow(job.got)'
    BY <2>1, NumberFacts DEF RowsNow
  <2> QED BY <2>1, <2>2 DEF RowsNow, Installing, Refreshing, Walking
<1>7. CASE ListRefresh
  <2>1. /\ items.some /\ phase = "list" /\ phase' = "fetch" /\ job'.kind = "refresh"
        /\ job'.got = job.got
        /\ UNCHANGED <<build, live, items, partial>>
    BY <1>7, ListRefreshFacts
  <2> QED BY <2>1, RowsFacts DEF RowsNow, Installing, Refreshing, Walking
<1>8. ASSUME NEW id \in Ids, Fetch(id) PROVE AgeInv'
  <2>1. PICK row \in 0 .. MaxBuild :
         /\ phase \in {"fetch", "walk"} /\ phase' = phase
         /\ row # 0 => row = live[id]
         /\ job'.kind = job.kind /\ job'.done = job.done \cup {id}
         /\ \A i \in Ids : job'.got[i] = IF i = id THEN row ELSE job.got[i]
         /\ IF phase = "fetch" /\ job.kind = "install"
              THEN partial'.some /\ partial'.done = job'.done /\ partial'.got = job'.got
              ELSE partial' = partial
         /\ UNCHANGED <<build, live, items>>
    BY <1>8, FetchFacts
  <2>2. row \in Nat
    OBVIOUS
  <2>3. RowsNow(job.got)'
    BY <2>1, <2>2, NumberFacts DEF RowsNow
  <2>4. RowsNow(partial.got)'
    BY <2>1, <2>3 DEF RowsNow
  <2>5. Refreshing' \/ Walking' => \A i \in Ids : job'.got[i] # 0 => items'.rows[i] <= job'.got[i]
    BY <2>1, <2>2, NumberFacts DEF RowsNow, Refreshing, Walking
  <2>6. Installing' => ~items'.some /\ partial'.done \subseteq job'.done
    BY <2>1 DEF Installing
  <2>7. Refreshing' => items'.some
    BY <2>1 DEF Refreshing
  <2> QED BY <2>1, <2>3, <2>4, <2>5, <2>6, <2>7 DEF RowsNow
<1>9. CASE SaveInstall
  <2>1. /\ phase' = "ids" /\ UNCHANGED <<build, live, partial, job>>
        /\ \A id \in Ids : items'.rows[id] = IF id \in job.listed THEN job.got[id] ELSE 0
    BY <1>9, SaveInstallFacts
  <2>2. RowsNow(items.rows)'
    BY <2>1, NumberFacts DEF RowsNow
  <2> QED BY <2>1, <2>2 DEF RowsNow, Installing, Refreshing, Walking
<1>10. CASE SaveRefresh
  <2>1. /\ phase' = "skipped" /\ UNCHANGED <<build, live, partial, job>>
        /\ \A id \in Ids : items'.rows[id] = IF id \notin job.listed THEN 0
                              ELSE IF job.got[id] # 0 THEN job.got[id] ELSE items.rows[id]
    BY <1>10, SaveRefreshFacts
  <2>2. RowsNow(items.rows)'
    BY <2>1, NumberFacts DEF RowsNow
  <2> QED BY <2>1, <2>2 DEF RowsNow, Installing, Refreshing, Walking
<1>11. CASE SaveIds
  <2>1. phase' \in {"skipped", "food"} /\ UNCHANGED <<build, live, items, partial, job>>
    BY <1>11, SaveIdsFacts
  <2> QED BY <2>1 DEF RowsNow, Installing, Refreshing, Walking
<1>12. CASE SaveSkipped
  <2>1. phase' \in {"drop", "ids"} /\ UNCHANGED <<build, live, items, partial, job>>
    BY <1>12 DEF SaveSkipped
  <2> QED BY <2>1 DEF RowsNow, Installing, Refreshing, Walking
<1>13. CASE DropPartial
  <2>1. phase' = "done" /\ partial' = NoPartial /\ UNCHANGED <<build, live, items, job>>
    BY <1>13 DEF DropPartial
  <2> QED BY <2>1, <1>a, PartialFacts DEF RowsNow, Installing, Refreshing, Walking
<1>14. CASE FoodKept
  <2>1. phase' = "done" /\ UNCHANGED <<build, live, items, partial, job>>
    BY <1>14 DEF FoodKept, disk
  <2> QED BY <2>1 DEF RowsNow, Installing, Refreshing, Walking
<1>15. CASE FoodWalk
  <2>1. phase' = "walk" /\ job'.got = NoRows /\ UNCHANGED <<build, live, items, partial>>
    BY <1>15, FoodWalkFacts
  <2> QED BY <2>1, <1>a, RowsFacts DEF RowsNow, Installing, Refreshing, Walking
<1>16. CASE SaveFood
  <2>1. /\ phase' = "done" /\ UNCHANGED <<build, live, partial, job>>
        /\ \A id \in Ids : items'.rows[id] = IF job.got[id] # 0 THEN job.got[id] ELSE items.rows[id]
    BY <1>16, SaveFoodFacts
  <2>2. RowsNow(items.rows)'
    BY <2>1, NumberFacts DEF RowsNow
  <2> QED BY <2>1, <2>2 DEF RowsNow, Installing, Refreshing, Walking
<1>17. CASE Complete
  <2>1. phase' = "idle" /\ job' = NoJob /\ UNCHANGED <<build, live, items, partial>>
    BY <1>17 DEF Complete, disk
  <2> QED BY <2>1, <1>a, NoJobFacts DEF RowsNow, Installing, Refreshing, Walking
<1>18. CASE UNCHANGED vars
  BY <1>18 DEF vars, RowsNow, Installing, Refreshing, Walking
<1> QED BY <1>1, <1>2, <1>3, <1>4, <1>5, <1>6, <1>7, <1>8, <1>9, <1>10, <1>11, <1>12, <1>13, <1>14,
           <1>15, <1>16, <1>17, <1>18 DEF Next, Download

LEMMA AgeAlways == Spec => [](TypeInv /\ AgeInv)
BY TypeInit, TypeStep, AgeInit, AgeStep, PTL DEF Spec

(* A refresh loses a row only when the API no longer lists its item, and   *)
(* neither it nor the backfill goes back to an older row.                  *)
THEOREM RowsCorrect == Spec => RowsSurvive
<1>1. ASSUME TypeInv, AgeInv, [Next]_vars, items.some, items'.some, NEW id \in Ids
      PROVE  /\ items.rows[id] # 0 /\ items'.rows[id] = 0 => id \notin job.listed
             /\ items'.rows[id] # 0 => items'.rows[id] >= items.rows[id]
  <2>1. items.rows[id] \in Nat /\ job.got[id] \in Nat
    BY <1>1, NumberFacts
  <2>2. CASE items' = items
    BY <2>1, <2>2
  <2>3. CASE ClearCache
    BY <1>1, <2>1, <2>3, ClearCacheFacts, ItemsFacts
  <2>4. CASE SaveInstall
    BY <1>1, <2>4, SaveInstallFacts DEF AgeInv, Installing
  <2>5. CASE SaveRefresh
    <3>1. items'.rows[id] = IF id \notin job.listed THEN 0
                              ELSE IF job.got[id] # 0 THEN job.got[id] ELSE items.rows[id]
      BY <1>1, <2>5, SaveRefreshFacts
    <3>2. job.got[id] # 0 => items.rows[id] <= job.got[id]
      BY <1>1, <2>5, SaveRefreshFacts DEF AgeInv, Refreshing
    <3> QED BY <2>1, <3>1, <3>2
  <2>6. CASE SaveFood
    <3>1. items'.rows[id] = IF job.got[id] # 0 THEN job.got[id] ELSE items.rows[id]
      BY <1>1, <2>6, SaveFoodFacts
    <3>2. job.got[id] # 0 => items.rows[id] <= job.got[id]
      BY <1>1, <2>6, SaveFoodFacts DEF AgeInv, Walking
    <3> QED BY <2>1, <3>1, <3>2
  <2>7. ClearCache \/ SaveInstall \/ SaveRefresh \/ SaveFood \/ items' = items
    BY <1>1 DEF Next, Download, Patch, StartDownload, Abandon, SkipItems, ListInstall, ListRefresh,
                Fetch, SaveIds, SaveSkipped, DropPartial, FoodKept, FoodWalk, Complete, disk, vars
  <2> QED BY <2>2, <2>3, <2>4, <2>5, <2>6, <2>7
<1>2. TypeInv /\ AgeInv /\ [Next]_vars =>
        [items.some /\ items'.some =>
           \A id \in Ids :
             /\ items.rows[id] # 0 /\ items'.rows[id] = 0 => id \notin job.listed
             /\ items'.rows[id] # 0 => items'.rows[id] >= items.rows[id]]_vars
  BY <1>1
<1> QED BY <1>2, AgeAlways, PTL DEF Spec, RowsSurvive

(* A resumed install never fetches again what an earlier one has saved: an *)
(* unfinished install's batches only grow until they are dropped whole.    *)
THEOREM BatchesCorrect == Spec => BatchesKept
<1>1. ASSUME TypeInv, AgeInv, [Next]_vars, partial.some, partial'.some
      PROVE  partial.done \subseteq partial'.done
  <2>1. CASE partial' = partial
    BY <2>1
  <2>2. CASE ClearCache
    BY <1>1, <2>2, ClearCacheFacts, PartialFacts
  <2>3. ASSUME NEW id \in Ids, Fetch(id) PROVE partial.done \subseteq partial'.done
    <3>1. /\ job'.done = job.done \cup {id}
          /\ IF phase = "fetch" /\ job.kind = "install"
               THEN partial'.done = job'.done
               ELSE partial' = partial
      BY <1>1, <2>3, FetchFacts
    <3> QED BY <1>1, <3>1 DEF AgeInv, Installing
  <2>4. CASE DropPartial
    BY <1>1, <2>4, PartialFacts DEF DropPartial
  <2>5. ClearCache \/ (\E id \in Ids : Fetch(id)) \/ DropPartial \/ partial' = partial
    BY <1>1 DEF Next, Download, Patch, StartDownload, Abandon, SkipItems, ListInstall, ListRefresh,
                SaveInstall, SaveRefresh, SaveIds, SaveSkipped, FoodKept, FoodWalk, SaveFood,
                Complete, disk, vars
  <2> QED BY <2>1, <2>2, <2>3, <2>4, <2>5
<1>2. TypeInv /\ AgeInv /\ [Next]_vars =>
        [partial.some /\ partial'.some => partial.done \subseteq partial'.done]_vars
  BY <1>1
<1> QED BY <1>2, AgeAlways, PTL DEF Spec, BatchesKept

-----------------------------------------------------------------------------
(* Build numbers *)

(* What a download holds before it has listed anything, the file it has    *)
(* stamped afterwards, and what the player is told.  Nothing was listed    *)
(* that was never live.                                                    *)
Stamped == {"ids", "skipped", "drop", "food", "walk", "done"}

ClaimInv ==
    /\ items.build <= build /\ job.build <= build /\ claimed <= build
    /\ phase # "idle" => claimed <= job.build
    /\ phase = "list" => job.done = {} /\ job.todo = {} /\ job.listed = {}
    /\ phase \in {"fetch", "ids", "skipped"} => job.kind \in {"install", "refresh"}
    /\ phase = "drop" => job.kind = "install"
    /\ phase \in Stamped => items.some /\ items.build = job.build
    /\ ~partial.some => partial.done = {} /\ partial.got = NoRows
    /\ ~ids.some => ids.listed = {}
    /\ partial.done \subseteq seen /\ job.done \subseteq seen /\ job.todo \subseteq seen
    /\ job.listed \subseteq seen /\ ids.listed \subseteq seen
    /\ claimed = build /\ "clear" \notin mishaps => items.some /\ items.build = build

LEMMA ClaimInit == Init => ClaimInv
<1> SUFFICES ASSUME Init PROVE ClaimInv
  OBVIOUS
<1>1. items.build <= build
  <2>1. CASE items = NoItems
    BY <2>1, ItemsFacts DEF Init
  <2>2. CASE \E b \in {0, 1} : items = [some |-> TRUE, build |-> b, rows |-> Only(live, Gear)]
    BY <2>2 DEF Init
  <2> QED BY <2>1, <2>2 DEF Init
<1>2. ids.listed \subseteq seen /\ (~ids.some => ids.listed = {})
  <2>1. CASE ids = NoIds
    BY <2>1, IdsFacts
  <2>2. CASE ids = [some |-> TRUE, listed |-> Present(live)]
    BY <2>2 DEF Init
  <2> QED BY <2>1, <2>2 DEF Init
<1>3. /\ build = 1 /\ claimed = 0 /\ phase = "idle" /\ job = NoJob /\ partial = NoPartial
  BY DEF Init
<1> QED BY <1>1, <1>2, <1>3, NoJobFacts, PartialFacts DEF ClaimInv, Stamped

LEMMA ClaimStep == TypeInv /\ AgeInv /\ ClaimInv /\ [Next]_vars => ClaimInv'
<1> SUFFICES ASSUME TypeInv, AgeInv, ClaimInv, [Next]_vars PROVE ClaimInv'
  OBVIOUS
<1>n. build \in Nat /\ items.build \in Nat /\ job.build \in Nat /\ claimed \in Nat /\ 1 <= build
  BY NumberFacts
<1>p. Present(live) \subseteq seen
  BY DEF TypeInv
<1> USE DEF ClaimInv, Stamped
<1>1. CASE Patch
  <2>1. /\ build' = build + 1 /\ seen \subseteq seen' /\ mishaps \subseteq mishaps'
        /\ UNCHANGED <<items, ids, partial, claimed, phase, job>>
    BY <1>1, PatchFacts
  <2> QED BY <1>n, <2>1
<1>2. CASE ClearCache
  <2>1. /\ phase = "idle" /\ UNCHANGED <<build, seen, phase, job>>
        /\ \/ "clear" \in mishaps' /\ claimed' = claimed
           \/ claimed' = 0
        /\ items' \in {items, NoItems} /\ ids' \in {ids, NoIds} /\ partial' \in {partial, NoPartial}
    BY <1>2, ClearCacheFacts
  <2>2. items'.build <= build /\ claimed' <= build
    BY <1>n, <2>1, ItemsFacts
  <2>3. ids'.listed \subseteq seen /\ (~ids'.some => ids'.listed = {})
    BY <2>1, IdsFacts
  <2>4. partial'.done \subseteq seen /\ (~partial'.some => partial'.done = {} /\ partial'.got = NoRows)
    BY <2>1, PartialFacts
  <2>5. claimed' = build => "clear" \in mishaps'
    BY <1>n, <2>1
  <2> QED BY <2>1, <2>2, <2>3, <2>4, <2>5
<1>3. CASE StartDownload
  BY <1>n, <1>3, StartDownloadFacts
<1>4. CASE Abandon
  <2>1. /\ phase' = "idle" /\ job' = NoJob /\ mishaps \subseteq mishaps'
        /\ UNCHANGED <<build, seen, items, ids, partial, claimed>>
    BY <1>4 DEF Abandon, disk, Meets
  <2> QED BY <1>n, <2>1, NoJobFacts
<1>5. CASE SkipItems
  <2>1. /\ phase = "list" /\ items.some /\ items.build = job.build /\ phase' = "food"
        /\ UNCHANGED <<build, seen, items, ids, partial, claimed, job, mishaps>>
    BY <1>5 DEF SkipItems, Stale, disk, bounds
  <2> QED BY <2>1
<1>6. CASE ListInstall
  <2>1. /\ phase = "list" /\ phase' = "fetch" /\ job'.kind = "install" /\ job'.build = job.build
        /\ job'.listed = Present(live) /\ job'.todo \subseteq Present(live) /\ job'.done = partial.done
        /\ UNCHANGED <<build, seen, items, ids, partial, claimed, mishaps>>
    BY <1>6, ListInstallFacts
  <2> QED BY <1>p, <2>1
<1>7. CASE ListRefresh
  <2>1. /\ phase = "list" /\ phase' = "fetch" /\ job'.kind = "refresh" /\ job'.build = job.build
        /\ job'.listed = Present(live) /\ job'.done = job.done
        /\ UNCHANGED <<build, seen, items, ids, partial, claimed, mishaps>>
    BY <1>7, ListRefreshFacts
  <2>2. job'.todo \subseteq Present(live)
    BY <1>7, ListRefreshFacts DEF RefreshIds
  <2> QED BY <1>p, <2>1, <2>2
<1>8. ASSUME NEW id \in Ids, Fetch(id) PROVE ClaimInv'
  <2>1. /\ phase \in {"fetch", "walk"} /\ id \in job.todo /\ phase' = phase
        /\ mishaps \subseteq mishaps'
        /\ job'.kind = job.kind /\ job'.build = job.build
        /\ job'.listed = job.listed /\ job'.todo \subseteq job.todo /\ job'.done = job.done \cup {id}
        /\ \/ partial'.some /\ partial'.done = job'.done
           \/ partial' = partial
        /\ UNCHANGED <<build, seen, items, ids, claimed>>
    BY <1>8, FetchFacts
  <2> QED BY <2>1
<1>9. CASE SaveInstall
  <2>1. /\ phase = "fetch" /\ phase' = "ids" /\ items'.some /\ items'.build = job.build
        /\ UNCHANGED <<build, seen, ids, partial, claimed, job, mishaps>>
    BY <1>9, SaveInstallFacts
  <2> QED BY <1>n, <2>1
<1>10. CASE SaveRefresh
  <2>1. /\ phase = "fetch" /\ phase' = "skipped" /\ items'.some /\ items'.build = job.build
        /\ UNCHANGED <<build, seen, ids, partial, claimed, job, mishaps>>
    BY <1>10, SaveRefreshFacts
  <2> QED BY <1>n, <2>1
<1>11. CASE SaveIds
  <2>1. /\ phase = "ids" /\ phase' \in {"skipped", "food"} /\ ids'.some /\ ids'.listed = job.listed
        /\ UNCHANGED <<build, seen, items, partial, claimed, job, mishaps>>
    BY <1>11, SaveIdsFacts
  <2> QED BY <2>1
<1>12. CASE SaveSkipped
  <2>1. /\ phase = "skipped" /\ phase' = IF job.kind = "install" THEN "drop" ELSE "ids"
        /\ UNCHANGED <<build, seen, items, ids, partial, claimed, job, mishaps>>
    BY <1>12 DEF SaveSkipped, bounds
  <2> QED BY <2>1
<1>13. CASE DropPartial
  <2>1. /\ phase = "drop" /\ phase' = "done" /\ partial' = NoPartial
        /\ UNCHANGED <<build, seen, items, ids, claimed, job, mishaps>>
    BY <1>13 DEF DropPartial, bounds
  <2> QED BY <2>1, PartialFacts
<1>14. CASE FoodKept
  <2>1. /\ phase = "food" /\ phase' = "done"
        /\ UNCHANGED <<build, seen, items, ids, partial, claimed, job, mishaps>>
    BY <1>14 DEF FoodKept, disk, bounds
  <2> QED BY <2>1
<1>15. CASE FoodWalk
  <2>1. /\ phase = "food" /\ phase' = "walk" /\ job'.build = job.build /\ job'.listed = {}
        /\ job'.todo \subseteq Present(live) /\ job'.done = {}
        /\ UNCHANGED <<build, seen, items, ids, partial, claimed, mishaps>>
    BY <1>15, FoodWalkFacts
  <2> QED BY <1>p, <2>1
<1>16. CASE SaveFood
  <2>1. /\ phase = "walk" /\ phase' = "done" /\ items'.some = items.some /\ items'.build = items.build
        /\ UNCHANGED <<build, seen, ids, partial, claimed, job, mishaps>>
    BY <1>16, SaveFoodFacts
  <2> QED BY <2>1
<1>17. CASE Complete
  <2>1. /\ phase = "done" /\ phase' = "idle" /\ claimed' = job.build /\ job' = NoJob
        /\ UNCHANGED <<build, seen, items, ids, partial, mishaps>>
    BY <1>17 DEF Complete, disk, bounds
  <2> QED BY <1>n, <2>1, NoJobFacts
<1>18. CASE UNCHANGED vars
  BY <1>18 DEF vars
<1> QED BY <1>1, <1>2, <1>3, <1>4, <1>5, <1>6, <1>7, <1>8, <1>9, <1>10, <1>11, <1>12, <1>13, <1>14,
           <1>15, <1>16, <1>17, <1>18 DEF Next, Download

-----------------------------------------------------------------------------
(* Nothing is missing *)

Has(rows, set) == \A id \in set : live[id] # 0 => rows[id] # 0

(* The files: the ids seen at the last refresh are all there, all gear if  *)
(* there is no list of them, and food is there wholly or not at all.       *)
FilesWhole ==
    /\ ids.some => items.some
    /\ items.some /\ ~ids.some => Torn \/ Has(items.rows, Gear)
    /\ items.some => Has(items.rows, ids.listed \cap Gear)
    /\ items.some => (Present(items.rows) \cap Food = {} \/ Has(items.rows, Food))
    /\ items.some /\ items.build = build => Has(items.rows, Gear)
    /\ claimed = build => Has(items.rows, Food)
    /\ ids.some => \A id \in Food : live[id] # 0 => id \in ids.listed
    /\ Has(partial.got, partial.done \cap Kept)

(* A list and what has been fetched of it. *)
ListWhole ==
    /\ phase \in {"fetch", "ids", "skipped"} => \A id \in Food : live[id] # 0 => id \in job.listed
    /\ phase = "fetch" => Has(job.got, job.done \cap Kept)
    /\ phase = "fetch" /\ job.build = build => Present(live) \subseteq job.listed
    /\ Installing => job.listed \subseteq job.todo \cup job.done
    /\ Refreshing =>
         /\ \A id \in ids.listed : live[id] # 0 => id \in job.listed
         /\ ~ids.some => \A id \in Gear : live[id] # 0 => id \in job.listed
         /\ \A id \in Gear \cap job.listed :
              live[id] # 0 => id \in job.todo \cup job.done \/ items.rows[id] # 0
         /\ Present(items.rows) \cap Food = {} =>
              job.todo \cap Food = {} /\ Present(job.got) \cap Food = {}

(* What follows the first write, and the backfill.                         *)
RestWhole ==
    /\ phase \in {"ids", "skipped"} => Has(items.rows, job.listed \cap Gear)
    /\ phase \in {"ids", "skipped", "drop"} /\ job.kind = "install" => Has(items.rows, Food)
    /\ Walking =>
         /\ Present(items.rows) \cap Food = {}
         /\ \A id \in Food : live[id] # 0 => id \in job.todo \cup job.done
         /\ Has(job.got, job.done \cap Food)
    /\ phase = "done" => Has(items.rows, Food)

CompleteInv ==
    mishaps \subseteq CompleteDespite => FilesWhole /\ ListWhole /\ RestWhole

LEMMA WholeInit == Init => CompleteInv
<1> SUFFICES ASSUME Init PROVE CompleteInv
  OBVIOUS
<1>1. phase = "idle" /\ claimed = 0 /\ build = 1 /\ partial.done = {}
  BY PartialFacts DEF Init
<1>2. CASE items = NoItems /\ ids = NoIds
  <2>1. ~items.some /\ ~ids.some
    BY <1>2, ItemsFacts, IdsFacts
  <2> QED BY <1>1, <2>1 DEF CompleteInv, FilesWhole, ListWhole, RestWhole, Has, Installing,
                             Refreshing, Walking
<1>3. CASE /\ \E b \in {0, 1} : items = [some |-> TRUE, build |-> b, rows |-> Only(live, Gear)]
           /\ ids \in {NoIds, [some |-> TRUE, listed |-> Present(live)]}
  <2>1. /\ items.some /\ items.rows = Only(live, Gear)
        /\ ids.some => ids.listed = Present(live)
    BY <1>3, IdsFacts
  <2>2. Has(items.rows, Gear) /\ Present(items.rows) \cap Food = {}
    BY <2>1, IdsAssumption DEF Has, Only, Present
  <2>3. ids.some => \A id \in Food : live[id] # 0 => id \in ids.listed
    BY <2>1, IdsAssumption DEF Present
  <2>4. ids.listed \subseteq Ids /\ Has(items.rows, ids.listed \cap Gear)
    BY <1>3, <2>2, IdsFacts DEF Has, Present
  <2> QED BY <1>1, <2>1, <2>2, <2>3, <2>4 DEF CompleteInv, FilesWhole, ListWhole, RestWhole, Has,
                             Installing, Refreshing, Walking
<1> QED BY <1>2, <1>3 DEF Init

(* A patch adds no food, no gear that no list tells from the known, and    *)
(* brings nothing back.                                                    *)
LEMMA PatchWhole ==
  ASSUME TypeInv, Patch, mishaps' \subseteq CompleteDespite
  PROVE  /\ \A id \in Ids : live'[id] # 0 /\ (id \in seen \/ id \in Food) => live[id] # 0
         /\ items.some /\ ~ids.some /\ ~Torn =>
              \A id \in Ids : live'[id] # 0 /\ id \in Gear => live[id] # 0
<1>1. /\ (Present(live') \ Present(live)) \cap seen = {}
      /\ (Present(live') \ Present(live)) \cap Food = {}
      /\ items.some /\ ~ids.some /\ ~Torn => (Present(live') \ Present(live)) \cap Gear = {}
  BY PatchFacts DEF CompleteDespite
<1> QED BY <1>1 DEF Present

LEMMA WholeStep == TypeInv /\ AgeInv /\ ClaimInv /\ CompleteInv /\ [Next]_vars => CompleteInv'
<1> SUFFICES ASSUME TypeInv, AgeInv, ClaimInv, CompleteInv, [Next]_vars,
                    mishaps' \subseteq CompleteDespite
             PROVE  FilesWhole' /\ ListWhole' /\ RestWhole'
  BY DEF CompleteInv, CompleteDespite
<1>k. /\ Gear \subseteq Ids /\ Food \subseteq Ids /\ Kept \subseteq Ids
      /\ Gear \subseteq Kept /\ Food \subseteq Kept
  BY IdsAssumption DEF Kept
<1>n. build \in Nat /\ items.build \in Nat /\ job.build \in Nat /\ claimed \in Nat /\ 1 <= build
  BY NumberFacts
<1>s. /\ job.listed \subseteq Ids /\ ids.listed \subseteq Ids /\ partial.done \subseteq Ids
      /\ job.done \subseteq Ids /\ job.todo \subseteq Ids
  BY JobFacts, IdsFacts, PartialFacts DEF TypeInv
<1>w. ASSUME mishaps \subseteq mishaps' PROVE FilesWhole /\ ListWhole /\ RestWhole
  BY <1>w DEF CompleteInv
<1>1. CASE Patch
  <2>1. FilesWhole /\ ListWhole /\ RestWhole
    BY <1>1, <1>w, PatchFacts
  <2>2. \A id \in Ids : live'[id] # 0 /\ (id \in seen \/ id \in Food) => live[id] # 0
    BY <1>1, PatchWhole
  <2>g. items.some /\ ~ids.some /\ ~Torn => \A id \in Gear : live'[id] # 0 => live[id] # 0
    BY <1>1, <1>k, PatchWhole
  <2>3. build' = build + 1 /\ UNCHANGED <<items, ids, partial, claimed, phase, job>>
    BY <1>1, PatchFacts
  <2>4. ASSUME NEW rows, NEW set \in SUBSET Ids, Has(rows, set), set \subseteq seen \/ set \subseteq Food
        PROVE  Has(rows, set)'
    BY <2>2, <2>4 DEF Has
  <2>5. FilesWhole'
    <3>1. items.some => Has(items.rows, ids.listed \cap Gear)'
      BY <1>k, <2>1, <2>2, <2>3 DEF Has, FilesWhole, ClaimInv
    <3>2. items.some => (Present(items.rows) \cap Food = {} \/ Has(items.rows, Food)')
      BY <1>k, <2>1, <2>2, <2>3 DEF Has, FilesWhole
    <3>3. ids.some => \A id \in Food : live'[id] # 0 => id \in ids.listed
      BY <1>k, <2>1, <2>2 DEF FilesWhole
    <3>4. Has(partial.got, partial.done \cap Kept)'
      BY <1>k, <2>1, <2>2, <2>3 DEF Has, FilesWhole, ClaimInv
    <3>5. claimed' # build' /\ items'.build # build'
      BY <1>n, <2>3 DEF ClaimInv
    <3>6. items.some /\ ~ids.some => Torn \/ Has(items.rows, Gear)'
      BY <2>1, <2>3, <2>g DEF Has, FilesWhole
    <3> QED BY <2>1, <2>3, <3>1, <3>2, <3>3, <3>4, <3>5, <3>6 DEF FilesWhole, Torn, Present
  <2>6. ListWhole'
    <3>1. phase = "fetch" => Has(job.got, job.done \cap Kept)'
      BY <1>k, <2>1, <2>2, <2>3 DEF Has, ListWhole, ClaimInv
    <3>2. phase \in {"fetch", "ids", "skipped"} => \A id \in Food : live'[id] # 0 => id \in job.listed
      BY <1>k, <2>1, <2>2 DEF ListWhole
    <3>3. job'.build # build'
      BY <1>n, <2>3 DEF ClaimInv
    <3>4. Refreshing => /\ \A id \in ids.listed : live'[id] # 0 => id \in job.listed
                        /\ \A id \in Gear \cap job.listed :
                             live'[id] # 0 => id \in job.todo \cup job.done \/ items.rows[id] # 0
      BY <1>k, <1>s, <2>1, <2>2 DEF ListWhole, ClaimInv
    <3>5. Refreshing /\ ~ids.some => \A id \in Gear : live'[id] # 0 => id \in job.listed
      BY <2>1, <2>g DEF ListWhole, AgeInv, Refreshing, Torn
    <3> QED BY <2>1, <2>3, <3>1, <3>2, <3>3, <3>4, <3>5 DEF ListWhole, Installing, Refreshing, Present
  <2>7. RestWhole'
    <3>1. phase \in {"ids", "skipped"} => Has(items.rows, job.listed \cap Gear)'
      BY <1>k, <2>1, <2>2, <2>3 DEF Has, RestWhole, ClaimInv
    <3>2. phase \in {"ids", "skipped", "drop"} /\ job.kind = "install" => Has(items.rows, Food)'
      BY <1>k, <2>1, <2>2, <2>3 DEF Has, RestWhole
    <3>3. Walking => /\ \A id \in Food : live'[id] # 0 => id \in job.todo \cup job.done
                     /\ Has(job.got, job.done \cap Food)'
      BY <1>k, <2>1, <2>2, <2>3 DEF Has, RestWhole
    <3>4. phase = "done" => Has(items.rows, Food)'
      BY <1>k, <2>1, <2>2, <2>3 DEF Has, RestWhole
    <3> QED BY <2>1, <2>3, <3>1, <3>2, <3>3, <3>4 DEF RestWhole, Walking, Present
  <2> QED BY <2>5, <2>6, <2>7
<1>2. CASE ClearCache
  <2>1. /\ phase = "idle" /\ phase' = "idle" /\ build' = build /\ claimed' = 0
        /\ items' = NoItems /\ ids' = NoIds /\ partial' = NoPartial
    BY <1>2, ClearCacheFacts DEF CompleteDespite
  <2>2. ~items'.some /\ ~ids'.some /\ partial'.done = {}
    BY <2>1, ItemsFacts, IdsFacts, PartialFacts
  <2> QED BY <1>n, <2>1, <2>2 DEF FilesWhole, ListWhole, RestWhole, Has, Torn, Installing, Refreshing, Walking
<1>3. CASE StartDownload
  <2>1. /\ phase = "idle" /\ phase' = "list"
        /\ UNCHANGED <<build, live, items, ids, partial, claimed, mishaps>>
    BY <1>3, StartDownloadFacts
  <2> QED BY <1>w, <2>1 DEF FilesWhole, ListWhole, RestWhole, Has, Torn, Installing, Refreshing, Walking
<1>4. CASE Abandon
  <2>1. /\ phase' = "idle" /\ mishaps' = mishaps \cup (IF Torn THEN {"tear"} ELSE {})
        /\ UNCHANGED <<build, live, items, ids, partial, claimed>>
    BY <1>4 DEF Abandon, disk, Meets
  <2>2. ~Torn
    BY <2>1 DEF CompleteDespite
  <2>3. FilesWhole'
    BY <1>w, <2>1, <2>2 DEF FilesWhole, Has, Torn, Present
  <2> QED BY <2>1, <2>3 DEF ListWhole, RestWhole, Installing, Refreshing, Walking
<1>5. CASE SkipItems
  <2>1. /\ phase = "list" /\ phase' = "food"
        /\ UNCHANGED <<build, live, items, ids, partial, claimed, job, mishaps>>
    BY <1>5 DEF SkipItems, disk, bounds
  <2> QED BY <1>w, <2>1 DEF FilesWhole, ListWhole, RestWhole, Has, Torn, Installing, Refreshing, Walking
<1>6. CASE ListInstall
  <2>1. /\ phase = "list" /\ ~items.some /\ phase' = "fetch"
        /\ job'.kind = "install" /\ job'.build = job.build
        /\ job'.listed = Present(live) /\ job'.todo = Present(live) \ partial.done
        /\ job'.done = partial.done
        /\ \A id \in Ids : job'.got[id] = IF live[id] # 0 THEN partial.got[id] ELSE 0
        /\ UNCHANGED <<build, live, items, ids, partial, claimed, mishaps>>
    BY <1>6, ListInstallFacts
  <2>2. FilesWhole
    BY <1>w, <2>1
  <2>3. FilesWhole'
    BY <2>1, <2>2 DEF FilesWhole, Has, Present, Torn
  <2>4. Has(job.got, job.done \cap Kept)'
    BY <1>k, <2>1, <2>2 DEF FilesWhole, Has
  <2>5. ListWhole'
    BY <1>k, <2>1, <2>4 DEF ListWhole, Present, Installing, Refreshing
  <2> QED BY <2>1, <2>3, <2>5 DEF RestWhole, Walking
<1>7. CASE ListRefresh
  <2>1. /\ phase = "list" /\ items.some /\ phase' = "fetch"
        /\ job'.kind = "refresh" /\ job'.build = job.build /\ job'.listed = Present(live)
        /\ job'.todo = RefreshIds(Present(live), IF ids.some THEN ids.listed ELSE Present(live),
                                  Present(items.rows))
        /\ job'.done = job.done /\ job'.got = job.got
        /\ UNCHANGED <<build, live, items, ids, partial, claimed, mishaps>>
    BY <1>7, ListRefreshFacts
  <2>2. FilesWhole
    BY <1>w, <2>1
  <2>3. FilesWhole'
    BY <2>1, <2>2 DEF FilesWhole, Has, Present, Torn
  <2>4. job'.done = {} /\ job'.got = NoRows
    BY <2>1 DEF ClaimInv, AgeInv
  <2>5. job'.todo = (Present(live) \ (IF ids.some THEN ids.listed ELSE Present(live)))
                      \cup (Present(items.rows) \cap Present(live))
    BY <2>1 DEF RefreshIds
  <2>6. \A id \in Gear \cap job'.listed : id \in job'.todo \/ items.rows[id] # 0
    BY <1>k, <2>1, <2>2, <2>5 DEF FilesWhole, Has, Present, Torn
  <2>7. Present(items.rows) \cap Food = {} => job'.todo \cap Food = {} /\ Present(job'.got) \cap Food = {}
    BY <1>k, <2>1, <2>2, <2>4, <2>5, RowsFacts DEF FilesWhole, Present
  <2>8. \A id \in Ids : live[id] # 0 => id \in job'.listed
    BY <2>1 DEF Present
  <2>9. ListWhole'
    BY <1>k, <1>s, <2>1, <2>4, <2>6, <2>7, <2>8 DEF ListWhole, Present, Has, Installing, Refreshing
  <2> QED BY <2>1, <2>3, <2>9 DEF RestWhole, Walking
<1>8. ASSUME NEW id \in Ids, Fetch(id) PROVE FilesWhole' /\ ListWhole' /\ RestWhole'
  <2>1. PICK row \in 0 .. MaxBuild :
         /\ phase \in {"fetch", "walk"} /\ id \in job.todo /\ phase' = phase
         /\ row # 0 => id \in (IF phase = "walk" THEN Food ELSE Kept)
         /\ \/ row = KeptRow(id) /\ mishaps' = mishaps
            \/ mishaps' = mishaps \cup {"skip"}
         /\ job'.kind = job.kind /\ job'.build = job.build
         /\ job'.listed = job.listed /\ job'.todo = job.todo \ {id} /\ job'.done = job.done \cup {id}
         /\ \A i \in Ids : job'.got[i] = IF i = id THEN row ELSE job.got[i]
         /\ IF phase = "fetch" /\ job.kind = "install"
              THEN partial'.done = job'.done /\ partial'.got = job'.got
              ELSE partial' = partial
         /\ UNCHANGED <<build, live, items, ids, claimed>>
    BY <1>8, FetchFacts
  <2>2. row = KeptRow(id) /\ FilesWhole /\ ListWhole /\ RestWhole
    BY <1>w, <2>1 DEF CompleteDespite
  <2>3. phase = "fetch" => Has(job.got, job.done \cap Kept)'
    BY <1>k, <2>1, <2>2 DEF ListWhole, Has, KeptRow
  <2>4. FilesWhole'
    <3>1. Has(partial.got, partial.done \cap Kept)'
      BY <2>1, <2>2, <2>3 DEF FilesWhole, Has
    <3> QED BY <2>1, <2>2, <3>1 DEF FilesWhole, Has, Present, Torn
  <2>5. Refreshing /\ Present(items.rows) \cap Food = {} =>
          job'.todo \cap Food = {} /\ Present(job'.got) \cap Food = {}
    <3> SUFFICES ASSUME Refreshing, Present(items.rows) \cap Food = {}
                 PROVE  job'.todo \cap Food = {} /\ Present(job'.got) \cap Food = {}
      OBVIOUS
    <3>1. job.todo \cap Food = {} /\ Present(job.got) \cap Food = {} /\ id \notin Food
      BY <2>1, <2>2 DEF ListWhole
    <3> QED BY <2>1, <3>1 DEF Present
  <2>6. ListWhole'
    BY <2>1, <2>2, <2>3, <2>5 DEF ListWhole, Installing, Refreshing, Present
  <2>7. Walking => Has(job.got, job.done \cap Food)'
    BY <1>k, <2>1, <2>2 DEF RestWhole, Has, KeptRow, Walking
  <2>8. RestWhole'
    BY <2>1, <2>2, <2>7 DEF RestWhole, Walking, Present, Has
  <2> QED BY <2>4, <2>6, <2>8
<1>9. CASE SaveInstall
  <2>1. /\ phase = "fetch" /\ job.kind = "install" /\ job.todo = {} /\ phase' = "ids"
        /\ items'.some /\ items'.build = job.build
        /\ \A id \in Ids : items'.rows[id] = IF id \in job.listed THEN job.got[id] ELSE 0
        /\ UNCHANGED <<build, live, ids, partial, claimed, job, mishaps>>
    BY <1>9, SaveInstallFacts
  <2>2. FilesWhole /\ ListWhole /\ ~ids.some /\ ids.listed = {}
    BY <1>w, <2>1 DEF FilesWhole, AgeInv, ClaimInv, Installing
  <2>3. \A id \in job.listed \cap Kept : live[id] # 0 => items'.rows[id] # 0
    BY <1>k, <1>s, <2>1, <2>2 DEF ListWhole, Has, Installing
  <2>4. Has(items.rows, Food)' /\ Has(items.rows, job.listed \cap Gear)'
    BY <1>k, <2>1, <2>2, <2>3 DEF ListWhole, Has
  <2>5. items'.build = build => Has(items.rows, Gear)'
    BY <1>k, <2>1, <2>2, <2>3 DEF ListWhole, Has, Present
  <2>6. FilesWhole'
    BY <2>1, <2>2, <2>4, <2>5 DEF FilesWhole, Has, Torn
  <2>7. ListWhole'
    BY <2>1, <2>2 DEF ListWhole, Installing, Refreshing
  <2> QED BY <2>1, <2>4, <2>6, <2>7 DEF RestWhole, Walking
<1>10. CASE SaveRefresh
  <2>1. /\ phase = "fetch" /\ job.kind = "refresh" /\ job.todo = {} /\ phase' = "skipped"
        /\ items'.some /\ items'.build = job.build
        /\ \A id \in Ids : items'.rows[id] = IF id \notin job.listed THEN 0
                              ELSE IF job.got[id] # 0 THEN job.got[id] ELSE items.rows[id]
        /\ UNCHANGED <<build, live, ids, partial, claimed, job, mishaps>>
    BY <1>10, SaveRefreshFacts
  <2>2. FilesWhole /\ ListWhole /\ items.some /\ Refreshing
    BY <1>w, <2>1 DEF AgeInv, Refreshing
  <2>3. \A id \in job.listed \cap Gear : live[id] # 0 => items'.rows[id] # 0
    BY <1>k, <1>s, <2>1, <2>2 DEF ListWhole, Has
  <2>4. Has(items.rows, ids.listed \cap Gear)' /\ Has(items.rows, job.listed \cap Gear)'
    BY <1>k, <2>1, <2>2, <2>3 DEF ListWhole, Has
  <2>5. items'.build = build => Has(items.rows, Gear)'
    BY <1>k, <2>1, <2>2, <2>3 DEF ListWhole, Has, Present
  <2>6. Has(items.rows, Food) => Has(items.rows, Food)'
    BY <1>k, <2>1, <2>2 DEF ListWhole, Has
  <2>7. Present(items.rows) \cap Food = {} => Present(items'.rows) \cap Food = {}
    BY <1>k, <2>1, <2>2 DEF ListWhole, Present
  <2>g. ~ids.some => Has(items.rows, Gear)'
    BY <1>k, <2>1, <2>2, <2>3 DEF ListWhole, Has
  <2>8. FilesWhole'
    <3>1. partial' = partial /\ ids' = ids /\ claimed' = claimed /\ live' = live /\ build' = build
      BY <2>1
    <3>2. claimed = build => Has(items.rows, Food)'
      BY <2>2, <2>6 DEF FilesWhole
    <3>3. Has(partial.got, partial.done \cap Kept)'
      BY <2>2, <3>1 DEF FilesWhole, Has
    <3>4. Present(items'.rows) \cap Food = {} \/ Has(items.rows, Food)'
      BY <2>2, <2>6, <2>7 DEF FilesWhole
    <3>5. ids.some => \A id \in Food : live[id] # 0 => id \in ids.listed
      BY <2>2 DEF FilesWhole
    <3> QED BY <2>1, <2>4, <2>5, <2>g, <3>1, <3>2, <3>3, <3>4, <3>5 DEF FilesWhole
  <2>9. ListWhole'
    BY <2>1, <2>2 DEF ListWhole, Installing, Refreshing
  <2> QED BY <2>1, <2>4, <2>8, <2>9 DEF RestWhole, Walking
<1>11. CASE SaveIds
  <2>1. /\ phase = "ids" /\ phase' = IF job.kind = "install" THEN "skipped" ELSE "food"
        /\ ids'.some /\ ids'.listed = job.listed
        /\ UNCHANGED <<build, live, items, partial, claimed, job, mishaps>>
    BY <1>11, SaveIdsFacts
  <2>2. FilesWhole /\ ListWhole /\ RestWhole /\ items.some
    BY <1>w, <2>1 DEF ClaimInv, Stamped
  <2>3. FilesWhole'
    BY <2>1, <2>2 DEF FilesWhole, ListWhole, RestWhole, Has, Torn, Present
  <2>4. ListWhole'
    BY <2>1, <2>2 DEF ListWhole, Installing, Refreshing
  <2>5. RestWhole'
    BY <2>1, <2>2 DEF RestWhole, Walking, Has
  <2> QED BY <2>3, <2>4, <2>5
<1>12. CASE SaveSkipped
  <2>1. /\ phase = "skipped" /\ phase' = IF job.kind = "install" THEN "drop" ELSE "ids"
        /\ UNCHANGED <<build, live, items, ids, partial, claimed, job, mishaps>>
    BY <1>12 DEF SaveSkipped, bounds
  <2>2. FilesWhole /\ ListWhole /\ RestWhole
    BY <1>w, <2>1
  <2>3. FilesWhole'
    BY <2>1, <2>2 DEF FilesWhole, Has, Present, Torn
  <2>4. ListWhole'
    BY <2>1, <2>2 DEF ListWhole, Installing, Refreshing
  <2>5. RestWhole'
    BY <2>1, <2>2 DEF RestWhole, Walking, Has
  <2> QED BY <2>3, <2>4, <2>5
<1>13. CASE DropPartial
  <2>1. /\ phase = "drop" /\ phase' = "done" /\ partial' = NoPartial
        /\ UNCHANGED <<build, live, items, ids, claimed, job, mishaps>>
    BY <1>13 DEF DropPartial, bounds
  <2>2. FilesWhole /\ RestWhole /\ job.kind = "install"
    BY <1>w, <2>1 DEF ClaimInv
  <2>3. FilesWhole'
    BY <2>1, <2>2, PartialFacts DEF FilesWhole, Has, Present, Torn
  <2> QED BY <2>1, <2>2, <2>3 DEF ListWhole, RestWhole, Installing, Refreshing, Walking, Has
<1>14. CASE FoodKept
  <2>1. /\ phase = "food" /\ phase' = "done" /\ Present(items.rows) \cap Food # {}
        /\ UNCHANGED <<build, live, items, ids, partial, claimed, job, mishaps>>
    BY <1>14 DEF FoodKept, disk, bounds
  <2>2. FilesWhole /\ items.some
    BY <1>w, <2>1 DEF ClaimInv, Stamped
  <2>3. FilesWhole'
    BY <2>1, <2>2 DEF FilesWhole, Has, Present, Torn
  <2>4. Has(items.rows, Food)'
    BY <2>1, <2>2 DEF FilesWhole, Has
  <2> QED BY <2>1, <2>3, <2>4 DEF ListWhole, RestWhole, Installing, Refreshing, Walking
<1>15. CASE FoodWalk
  <2>1. /\ phase = "food" /\ phase' = "walk" /\ Present(items.rows) \cap Food = {}
        /\ job'.todo = Present(live) \ Present(items.rows) /\ job'.done = {}
        /\ UNCHANGED <<build, live, items, ids, partial, claimed, mishaps>>
    BY <1>15, FoodWalkFacts
  <2>2. FilesWhole
    BY <1>w, <2>1
  <2>3. FilesWhole'
    BY <2>1, <2>2 DEF FilesWhole, Has, Present, Torn
  <2>4. RestWhole'
    BY <1>k, <2>1 DEF RestWhole, Walking, Has, Present
  <2> QED BY <2>1, <2>3, <2>4 DEF ListWhole, Installing, Refreshing
<1>16. CASE SaveFood
  <2>1. /\ phase = "walk" /\ job.todo = {} /\ phase' = "done"
        /\ items'.some = items.some /\ items'.build = items.build
        /\ \A id \in Ids : items'.rows[id] = IF job.got[id] # 0 THEN job.got[id] ELSE items.rows[id]
        /\ UNCHANGED <<build, live, ids, partial, claimed, job, mishaps>>
    BY <1>16, SaveFoodFacts
  <2>2. FilesWhole /\ RestWhole
    BY <1>w, <2>1
  <2>3. Has(items.rows, Food)'
    BY <1>k, <2>1, <2>2 DEF RestWhole, Walking, Has
  <2>4. \A id \in Ids : items.rows[id] # 0 => items'.rows[id] # 0
    BY <2>1
  <2>5. FilesWhole'
    <3>1. items.some => Has(items.rows, ids.listed \cap Gear)'
      BY <1>k, <2>1, <2>2, <2>4 DEF FilesWhole, Has
    <3>2. items.some /\ items.build = build => Has(items.rows, Gear)'
      BY <1>k, <2>1, <2>2, <2>4 DEF FilesWhole, Has
    <3>3. Has(partial.got, partial.done \cap Kept)'
      BY <2>1, <2>2 DEF FilesWhole, Has
    <3>4. items.some /\ ~ids.some => Has(items.rows, Gear)'
      BY <1>k, <2>1, <2>2, <2>4 DEF FilesWhole, Has, Torn
    <3> QED BY <2>1, <2>2, <2>3, <3>1, <3>2, <3>3, <3>4 DEF FilesWhole
  <2> QED BY <2>1, <2>3, <2>5 DEF ListWhole, RestWhole, Installing, Refreshing, Walking
<1>17. CASE Complete
  <2>1. /\ phase = "done" /\ phase' = "idle"
        /\ UNCHANGED <<build, live, items, ids, partial, mishaps>>
    BY <1>17 DEF Complete, disk, bounds
  <2>2. FilesWhole /\ RestWhole
    BY <1>w, <2>1
  <2>3. FilesWhole'
    BY <2>1, <2>2 DEF FilesWhole, RestWhole, Has, Torn, Present
  <2> QED BY <2>1, <2>3 DEF ListWhole, RestWhole, Installing, Refreshing, Walking
<1>18. CASE UNCHANGED vars
  <2>1. UNCHANGED <<build, live, seen, items, ids, partial, claimed, phase, job, mishaps>>
    BY <1>18 DEF vars
  <2> QED BY <1>w, <2>1 DEF FilesWhole, ListWhole, RestWhole, Torn, Installing, Refreshing, Walking, Has, Present
<1> QED BY <1>1, <1>2, <1>3, <1>4, <1>5, <1>6, <1>7, <1>8, <1>9, <1>10, <1>11, <1>12, <1>13, <1>14,
           <1>15, <1>16, <1>17, <1>18 DEF Next, Download

-----------------------------------------------------------------------------
(* Nothing is out of date *)

AsLive(rows) == \A id \in Ids : rows[id] # 0 => rows[id] = live[id]

UpToDate ==
    /\ items.some /\ items.build = build => AsLive(items.rows)
    /\ ~items.some => AsLive(partial.got)
    /\ Installing => /\ AsLive(job.got)
                     /\ \A id \in Ids : job.got[id] # 0 => job.got[id] = partial.got[id]
    /\ (Refreshing \/ Walking) /\ job.build = build => AsLive(job.got)
    /\ phase = "fetch" /\ job.build = build => job.listed = Present(live)
    /\ Refreshing /\ job.build = build =>
         \A id \in job.listed : items.rows[id] # 0 => id \in job.todo \/ job.got[id] # 0

FreshInv == mishaps \subseteq FreshDespite => UpToDate

LEMMA NoRowsAsLive == AsLive(NoRows)
BY RowsFacts DEF AsLive

LEMMA FreshInit == Init => FreshInv
<1> SUFFICES ASSUME Init PROVE UpToDate
  BY DEF FreshInv
<1>1. phase = "idle" /\ partial.got = NoRows
  BY PartialFacts DEF Init
<1>2. CASE items = NoItems
  BY <1>1, <1>2, ItemsFacts, NoRowsAsLive DEF UpToDate, Installing, Refreshing, Walking
<1>3. CASE \E b \in {0, 1} : items = [some |-> TRUE, build |-> b, rows |-> Only(live, Gear)]
  <2>1. items.some /\ AsLive(items.rows)
    BY <1>3 DEF AsLive, Only
  <2> QED BY <1>1, <2>1 DEF UpToDate, Installing, Refreshing, Walking
<1> QED BY <1>2, <1>3 DEF Init

LEMMA FreshStep == TypeInv /\ AgeInv /\ ClaimInv /\ FreshInv /\ [Next]_vars => FreshInv'
<1> SUFFICES ASSUME TypeInv, AgeInv, ClaimInv, FreshInv, [Next]_vars,
                    mishaps' \subseteq FreshDespite
             PROVE  UpToDate'
  BY DEF FreshInv, FreshDespite
<1>n. build \in Nat /\ items.build \in Nat /\ job.build \in Nat
  BY NumberFacts
<1>w. ASSUME mishaps \subseteq mishaps' PROVE UpToDate
  BY <1>w DEF FreshInv
<1>1. CASE Patch
  <2>1. /\ build' = build + 1 /\ mishaps \subseteq mishaps'
        /\ UNCHANGED <<items, ids, partial, claimed, phase, job>>
        /\ partial.some => items.some
    BY <1>1, PatchFacts DEF FreshDespite
  <2>2. UpToDate
    BY <1>w, <2>1
  <2>3. items'.build # build' /\ job'.build # build'
    BY <1>n, <2>1 DEF ClaimInv
  <2>4. ~items.some => partial.got = NoRows
    BY <2>1 DEF ClaimInv
  <2>5. ~items.some => AsLive(partial.got)'
    BY <2>1, <2>4, RowsFacts DEF AsLive
  <2>6. Installing => /\ \A id \in Ids : job.got[id] # 0 => job.got[id] = partial.got[id]
                      /\ AsLive(job.got)'
    BY <2>1, <2>2, <2>4, RowsFacts DEF UpToDate, AgeInv, AsLive
  <2> QED BY <2>1, <2>3, <2>5, <2>6 DEF UpToDate, Installing, Refreshing, Walking
<1>2. CASE ClearCache
  <2>1. /\ phase = "idle" /\ phase' = "idle" /\ items' = NoItems /\ partial' = NoPartial
    BY <1>2, ClearCacheFacts DEF FreshDespite
  <2>2. AsLive(partial.got)'
    BY <2>1, PartialFacts, RowsFacts DEF AsLive
  <2> QED BY <2>1, <2>2, ItemsFacts DEF UpToDate, Installing, Refreshing, Walking
<1>3. CASE StartDownload
  <2>1. phase' = "list" /\ UNCHANGED <<build, live, items, partial, mishaps>>
    BY <1>3, StartDownloadFacts
  <2> QED BY <1>w, <2>1 DEF UpToDate, Installing, Refreshing, Walking, AsLive
<1>4. CASE Abandon
  <2>1. /\ phase' = "idle" /\ mishaps \subseteq mishaps'
        /\ UNCHANGED <<build, live, items, partial>>
    BY <1>4 DEF Abandon, disk, Meets
  <2> QED BY <1>w, <2>1 DEF UpToDate, Installing, Refreshing, Walking, AsLive
<1>5. CASE SkipItems
  <2>1. phase' = "food" /\ UNCHANGED <<build, live, items, partial, mishaps>>
    BY <1>5 DEF SkipItems, disk, bounds
  <2> QED BY <1>w, <2>1 DEF UpToDate, Installing, Refreshing, Walking, AsLive
<1>6. CASE ListInstall
  <2>1. /\ ~items.some /\ phase' = "fetch" /\ job'.kind = "install" /\ job'.listed = Present(live)
        /\ \A id \in Ids : job'.got[id] = IF live[id] # 0 THEN partial.got[id] ELSE 0
        /\ UNCHANGED <<build, live, items, partial, mishaps>>
    BY <1>6, ListInstallFacts
  <2>2. AsLive(partial.got)
    BY <1>w, <2>1 DEF UpToDate
  <2>3. AsLive(job.got)' /\ \A id \in Ids : job'.got[id] # 0 => job'.got[id] = partial'.got[id]
    BY <2>1, <2>2 DEF AsLive
  <2>4. job'.listed = Present(live')
    BY <2>1
  <2> QED BY <2>1, <2>2, <2>3, <2>4 DEF UpToDate, Installing, Refreshing, Walking, AsLive
<1>7. CASE ListRefresh
  <2>1. /\ phase = "list" /\ items.some /\ phase' = "fetch"
        /\ job'.kind = "refresh" /\ job'.listed = Present(live)
        /\ job'.todo = RefreshIds(Present(live), IF ids.some THEN ids.listed ELSE Present(live),
                                  Present(items.rows))
        /\ job'.got = job.got
        /\ UNCHANGED <<build, live, items, partial, mishaps>>
    BY <1>7, ListRefreshFacts
  <2>2. UpToDate /\ job'.got = NoRows
    BY <1>w, <2>1 DEF AgeInv
  <2>3. Present(items.rows) \cap Present(live) \subseteq job'.todo
    BY <2>1 DEF RefreshIds
  <2>4. \A id \in job'.listed : items'.rows[id] # 0 => id \in job'.todo
    BY <2>1, <2>3 DEF Present
  <2>5. job'.listed = Present(live') /\ AsLive(job.got)'
    BY <2>1, <2>2, RowsFacts DEF AsLive
  <2> QED BY <2>1, <2>2, <2>4, <2>5 DEF UpToDate, Installing, Refreshing, Walking, AsLive
<1>8. ASSUME NEW id \in Ids, Fetch(id) PROVE UpToDate'
  <2>1. PICK row \in 0 .. MaxBuild :
         /\ phase \in {"fetch", "walk"} /\ id \in job.todo /\ phase' = phase
         /\ row # 0 => row = live[id]
         /\ \/ row = KeptRow(id) /\ mishaps' = mishaps
            \/ mishaps' = mishaps \cup {"skip"}
         /\ job'.kind = job.kind /\ job'.build = job.build
         /\ job'.listed = job.listed /\ job'.todo = job.todo \ {id}
         /\ \A i \in Ids : job'.got[i] = IF i = id THEN row ELSE job.got[i]
         /\ IF phase = "fetch" /\ job.kind = "install"
              THEN partial'.got = job'.got
              ELSE partial' = partial
         /\ UNCHANGED <<build, live, items, ids, claimed>>
    BY <1>8, FetchFacts
  <2>2. row = KeptRow(id) /\ UpToDate
    BY <1>w, <2>1 DEF FreshDespite
  <2>3. AsLive(job.got) => AsLive(job.got)'
    BY <2>1 DEF AsLive
  <2>4. Installing => AsLive(partial.got)'
    BY <2>1, <2>2, <2>3 DEF UpToDate, Installing, AsLive
  <2>5. Refreshing /\ job.build = build =>
          \A i \in job.listed : items.rows[i] # 0 => i \in job'.todo \/ job'.got[i] # 0
    <3> SUFFICES ASSUME Refreshing, job.build = build, NEW i \in job.listed, items.rows[i] # 0
                 PROVE  i \in job'.todo \/ job'.got[i] # 0
      OBVIOUS
    <3>1. i \in job.todo \/ job.got[i] # 0
      BY <2>2 DEF UpToDate
    <3>2. i \in Ids /\ live[i] # 0
      BY <2>2 DEF UpToDate, Refreshing, Present
    <3>3. i \in Kept
      BY <3>2, ItemsFacts, RowsFacts DEF TypeInv, Present
    <3>4. i = id => row # 0
      BY <2>2, <3>2, <3>3 DEF KeptRow, Refreshing
    <3> QED BY <2>1, <3>1, <3>2, <3>4
  <2>6. job'.listed = job.listed /\ live' = live /\ phase' = phase
    BY <2>1
  <2> QED BY <2>1, <2>2, <2>3, <2>4, <2>5, <2>6 DEF UpToDate, Installing, Refreshing, Walking, AsLive, Present
<1>9. CASE SaveInstall
  <2>1. /\ phase = "fetch" /\ job.kind = "install" /\ phase' = "ids" /\ items'.some
        /\ \A id \in Ids : items'.rows[id] = IF id \in job.listed THEN job.got[id] ELSE 0
        /\ UNCHANGED <<build, live, partial, job, mishaps>>
    BY <1>9, SaveInstallFacts
  <2>2. AsLive(job.got)
    BY <1>w, <2>1 DEF UpToDate, Installing
  <2>3. AsLive(items.rows)'
    BY <2>1, <2>2 DEF AsLive
  <2> QED BY <2>1, <2>3 DEF UpToDate, Installing, Refreshing, Walking
<1>10. CASE SaveRefresh
  <2>1. /\ phase = "fetch" /\ job.kind = "refresh" /\ job.todo = {} /\ phase' = "skipped"
        /\ items'.some /\ items'.build = job.build
        /\ \A id \in Ids : items'.rows[id] = IF id \notin job.listed THEN 0
                              ELSE IF job.got[id] # 0 THEN job.got[id] ELSE items.rows[id]
        /\ UNCHANGED <<build, live, partial, job, mishaps>>
    BY <1>10, SaveRefreshFacts
  <2>2. items'.build = build => AsLive(items.rows)'
    BY <1>w, <2>1 DEF UpToDate, Refreshing, AsLive
  <2> QED BY <2>1, <2>2 DEF UpToDate, Installing, Refreshing, Walking
<1>11. CASE SaveIds
  <2>1. phase' \in {"skipped", "food"} /\ UNCHANGED <<build, live, items, partial, mishaps>>
    BY <1>11, SaveIdsFacts
  <2> QED BY <1>w, <2>1 DEF UpToDate, Installing, Refreshing, Walking, AsLive
<1>12. CASE SaveSkipped
  <2>1. phase' \in {"drop", "ids"} /\ UNCHANGED <<build, live, items, partial, mishaps>>
    BY <1>12 DEF SaveSkipped, bounds
  <2> QED BY <1>w, <2>1 DEF UpToDate, Installing, Refreshing, Walking, AsLive
<1>13. CASE DropPartial
  <2>1. /\ phase = "drop" /\ phase' = "done"
        /\ UNCHANGED <<build, live, items, mishaps>>
    BY <1>13 DEF DropPartial, bounds
  <2>2. items.some
    BY <2>1 DEF ClaimInv, Stamped
  <2> QED BY <1>w, <2>1, <2>2 DEF UpToDate, Installing, Refreshing, Walking, AsLive
<1>14. CASE FoodKept
  <2>1. phase' = "done" /\ UNCHANGED <<build, live, items, partial, mishaps>>
    BY <1>14 DEF FoodKept, disk, bounds
  <2> QED BY <1>w, <2>1 DEF UpToDate, Installing, Refreshing, Walking, AsLive
<1>15. CASE FoodWalk
  <2>1. /\ phase' = "walk" /\ job'.got = NoRows
        /\ UNCHANGED <<build, live, items, partial, mishaps>>
    BY <1>15, FoodWalkFacts
  <2>2. AsLive(job.got)'
    BY <2>1, RowsFacts DEF AsLive
  <2> QED BY <1>w, <2>1, <2>2 DEF UpToDate, Installing, Refreshing, Walking, AsLive
<1>16. CASE SaveFood
  <2>1. /\ phase = "walk" /\ phase' = "done"
        /\ items'.some = items.some /\ items'.build = items.build
        /\ \A id \in Ids : items'.rows[id] = IF job.got[id] # 0 THEN job.got[id] ELSE items.rows[id]
        /\ UNCHANGED <<build, live, partial, job, mishaps>>
    BY <1>16, SaveFoodFacts
  <2>2. items.build = job.build /\ items.some
    BY <2>1 DEF ClaimInv, Stamped
  <2>3. items'.build = build => AsLive(items.rows)'
    BY <1>w, <2>1, <2>2 DEF UpToDate, Walking, AsLive
  <2> QED BY <2>1, <2>2, <2>3 DEF UpToDate, Installing, Refreshing, Walking
<1>17. CASE Complete
  <2>1. phase' = "idle" /\ UNCHANGED <<build, live, items, partial, mishaps>>
    BY <1>17 DEF Complete, disk, bounds
  <2> QED BY <1>w, <2>1 DEF UpToDate, Installing, Refreshing, Walking, AsLive
<1>18. CASE UNCHANGED vars
  <2>1. UNCHANGED <<build, live, items, partial, phase, job, mishaps>>
    BY <1>18 DEF vars
  <2> QED BY <1>w, <2>1 DEF UpToDate, Installing, Refreshing, Walking, AsLive, Present
<1> QED BY <1>1, <1>2, <1>3, <1>4, <1>5, <1>6, <1>7, <1>8, <1>9, <1>10, <1>11, <1>12, <1>13, <1>14,
           <1>15, <1>16, <1>17, <1>18 DEF Next, Download

(* Everything the claim rests on. *)
CatalogInv == TypeInv /\ AgeInv /\ ClaimInv /\ CompleteInv /\ FreshInv

LEMMA CatalogAlways == Spec => []CatalogInv
<1>1. Init => CatalogInv
  BY TypeInit, AgeInit, ClaimInit, WholeInit, FreshInit DEF CatalogInv
<1>2. CatalogInv /\ [Next]_vars => TypeInv'
  BY TypeStep DEF CatalogInv
<1>3. CatalogInv /\ TypeInv' /\ [Next]_vars => CatalogInv'
  BY AgeStep, ClaimStep, WholeStep, FreshStep DEF CatalogInv
<1> QED BY <1>1, <1>2, <1>3, PTL DEF Spec

(* What the player is told is current lacks no item he could wear or eat   *)
(* and has no row that is out of date or gone from the game, each in the   *)
(* histories without the mishaps that break it.                            *)
THEOREM ClaimCorrect == Spec => []ClaimHolds
<1>1. CatalogInv => ClaimHolds
  <2> SUFFICES ASSUME CatalogInv, Current PROVE
          /\ mishaps \subseteq CompleteDespite =>
               \A id \in Kept : live[id] # 0 => items.rows[id] # 0
          /\ mishaps \subseteq FreshDespite =>
               \A id \in Kept : items.rows[id] # 0 => items.rows[id] = live[id]
    BY DEF ClaimHolds
  <2>1. "clear" \notin mishaps => items.some /\ items.build = build
    BY DEF CatalogInv, ClaimInv, Current
  <2>2. ASSUME mishaps \subseteq CompleteDespite
        PROVE  \A id \in Kept : live[id] # 0 => items.rows[id] # 0
    <3>1. items.some /\ items.build = build
      BY <2>1, <2>2 DEF CompleteDespite
    <3>2. Has(items.rows, Gear) /\ Has(items.rows, Food)
      BY <2>2, <3>1 DEF CatalogInv, CompleteInv, FilesWhole, Current
    <3> QED BY <3>2 DEF Has, Kept
  <2>3. ASSUME mishaps \subseteq FreshDespite
        PROVE  \A id \in Kept : items.rows[id] # 0 => items.rows[id] = live[id]
    <3>1. items.some /\ items.build = build
      BY <2>1, <2>3 DEF FreshDespite
    <3>2. AsLive(items.rows)
      BY <2>3, <3>1 DEF CatalogInv, FreshInv, UpToDate
    <3> QED BY <3>2, RowsFacts DEF AsLive
  <2> QED BY <2>2, <2>3
<1> QED BY <1>1, CatalogAlways, PTL
=============================================================================
