------------------------- MODULE SerialWriter_proofs -------------------------
(***************************************************************************)
(* Proofs about SerialWriter, for any number of threads, saves and write   *)
(* failures.                                                               *)
(***************************************************************************)
EXTENDS SerialWriter, TLAPS

(* Who is draining, in the words of the flag and of the queue. *)
DrainInv ==
    /\ OneDrainer
    /\ \A t \in Drainers : at[t] # "out" => draining
    /\ draining => \E t \in Drainers : at[t] # "out"
    /\ pending # 0 => draining

(* Every version about is one the data had. *)
KnownInv ==
    /\ disk <= content
    /\ pending <= content
    /\ \A t \in Drainers : job[t] <= content
    /\ \A v \in direct : v <= content

(* Until a saver goes past the queue, what is on disk is older than what   *)
(* is being written, and that is older than what is queued.                *)
OrderInv ==
    directs = 0 =>
      /\ direct = {}
      /\ pending # 0 => disk < pending
      /\ \A t \in Drainers : at[t] = "write" => /\ disk < job[t]
                                                /\ pending # 0 => job[t] < pending

(* Every component keeps its type.                                         *)
THEOREM TypeCorrect == Spec => []TypeOK
<1>1. Init => TypeOK
  <2> SUFFICES ASSUME Init PROVE TypeOK
    OBVIOUS
  <2>1. at \in [Drainers -> {"out", "loop", "write"}] /\ job \in [Drainers -> Nat]
    BY DEF Init
  <2> QED BY <2>1 DEF Init, TypeOK
<1>2. TypeOK /\ [Next]_vars => TypeOK'
  <2> SUFFICES ASSUME TypeOK, [Next]_vars PROVE TypeOK'
    OBVIOUS
  <2> USE DEF TypeOK
  <2>1. CASE Submit
    BY <2>1 DEF Submit, StartDrain
  <2>2. ASSUME NEW t \in Drainers, Drain(t) PROVE TypeOK'
    <3>1. CASE Take(t)
      BY <3>1 DEF Take
    <3>2. CASE Leave(t)
      BY <3>2 DEF Leave
    <3>3. CASE Write(t)
      BY <3>3 DEF Write
    <3>4. CASE WriteFails(t)
      BY <3>4 DEF WriteFails
    <3> QED BY <2>2, <3>1, <3>2, <3>3, <3>4 DEF Drain
  <2>3. CASE DirectCopy
    BY <2>3 DEF DirectCopy
  <2>4. ASSUME NEW v \in direct, DirectWrite(v) PROVE TypeOK'
    BY <2>4 DEF DirectWrite
  <2>5. CASE UNCHANGED vars
    BY <2>5 DEF vars
  <2> QED BY <2>1, <2>2, <2>3, <2>4, <2>5 DEF Next
<1> QED BY <1>1, <1>2, PTL DEF Spec

(* The flag and the threads agree across every step. *)
LEMMA DrainStep == ASSUME TypeOK, DrainInv, [Next]_vars PROVE DrainInv'
<1> USE DEF TypeOK
<1>1. CASE Submit
  <2>1. CASE draining
    BY <1>1, <2>1 DEF Submit, DrainInv, OneDrainer
  <2>2. CASE ~draining
    <3>1. PICK t \in Drainers : at[t] = "out" /\ at' = [at EXCEPT ![t] = "loop"]
      BY <1>1, <2>2 DEF Submit, StartDrain
    <3>2. \A u \in Drainers : at[u] = "out"
      BY <2>2 DEF DrainInv
    <3>3. \A u \in Drainers : at'[u] # "out" <=> u = t
      BY <3>1, <3>2
    <3>4. draining'
      BY <1>1 DEF Submit
    <3> QED BY <3>3, <3>4 DEF DrainInv, OneDrainer
  <2> QED BY <2>1, <2>2
<1>2. ASSUME NEW t \in Drainers, Leave(t) PROVE DrainInv'
  <2>1. \A u \in Drainers : at[u] # "out" => u = t
    BY <1>2 DEF Leave, DrainInv, OneDrainer
  <2>2. \A u \in Drainers : at'[u] = "out"
    BY <1>2, <2>1 DEF Leave
  <2> QED BY <1>2, <2>2 DEF Leave, DrainInv, OneDrainer
<1>3. ASSUME NEW t \in Drainers, Take(t) \/ Write(t) \/ WriteFails(t) PROVE DrainInv'
  <2>1. \A u \in Drainers : at'[u] # "out" <=> at[u] # "out"
    BY <1>3 DEF Take, Write, WriteFails
  <2>2. draining' = draining /\ (pending' # 0 => pending # 0)
    BY <1>3 DEF Take, Write, WriteFails
  <2> QED BY <2>1, <2>2 DEF DrainInv, OneDrainer
<1>4. CASE DirectCopy \/ (\E v \in direct : DirectWrite(v)) \/ UNCHANGED vars
  BY <1>4 DEF DirectCopy, DirectWrite, vars, DrainInv, OneDrainer
<1> QED BY <1>1, <1>2, <1>3, <1>4 DEF Next, Drain

(* One thread at most drains the file, and queued content has one: submit  *)
(* and the exit of drain look at the flag and the queue under one lock.    *)
THEOREM DrainCorrect == Spec => []QueueServed
<1>1. Init => DrainInv
  BY DEF Init, DrainInv, OneDrainer
<1>2. TypeOK /\ DrainInv /\ [Next]_vars => DrainInv'
  BY DrainStep
<1>3. DrainInv => QueueServed
  BY DEF DrainInv, NothingStranded, QueueServed
<1> QED BY <1>1, <1>2, <1>3, TypeCorrect, PTL DEF Spec

(* No step makes up a version. *)
LEMMA KnownStep == ASSUME TypeOK, KnownInv, [Next]_vars PROVE KnownInv'
<1> USE DEF TypeOK, KnownInv
<1>1. CASE Submit
  BY <1>1 DEF Submit
<1>2. ASSUME NEW t \in Drainers, Drain(t) PROVE KnownInv'
  <2>1. CASE Take(t)
    BY <2>1 DEF Take
  <2>2. CASE Leave(t)
    BY <2>2 DEF Leave
  <2>3. CASE Write(t)
    BY <2>3 DEF Write
  <2>4. CASE WriteFails(t)
    BY <2>4 DEF WriteFails
  <2> QED BY <1>2, <2>1, <2>2, <2>3, <2>4 DEF Drain
<1>3. CASE DirectCopy
  BY <1>3 DEF DirectCopy
<1>4. ASSUME NEW v \in direct, DirectWrite(v) PROVE KnownInv'
  BY <1>4 DEF DirectWrite
<1>5. CASE UNCHANGED vars
  BY <1>5 DEF vars
<1> QED BY <1>1, <1>2, <1>3, <1>4, <1>5 DEF Next

(* The order of the versions is kept by every step of the queue. *)
LEMMA OrderStep == ASSUME TypeOK, DrainInv, KnownInv, OrderInv, [Next]_vars
                   PROVE  OrderInv'
<1> USE DEF TypeOK
<1>1. CASE Submit
  <2>1. \A t \in Drainers : at'[t] = "write" => at[t] = "write"
    BY <1>1 DEF Submit, StartDrain
  <2> QED BY <1>1, <2>1 DEF Submit, OrderInv, KnownInv
<1>2. ASSUME NEW t \in Drainers, Take(t) PROVE OrderInv'
  <2>1. \A u \in Drainers : at'[u] = "write" => u = t
    BY <1>2 DEF Take, DrainInv, OneDrainer
  <2> QED BY <1>2, <2>1 DEF Take, OrderInv
<1>3. ASSUME NEW t \in Drainers, Leave(t) PROVE OrderInv'
  BY <1>3 DEF Leave, OrderInv
<1>4. ASSUME NEW t \in Drainers, Write(t) PROVE OrderInv'
  <2>1. \A u \in Drainers : at'[u] # "write"
    BY <1>4 DEF Write, DrainInv, OneDrainer
  <2> QED BY <1>4, <2>1 DEF Write, OrderInv
<1>5. ASSUME NEW t \in Drainers, WriteFails(t) PROVE OrderInv'
  BY <1>5 DEF WriteFails, OrderInv
<1>6. CASE DirectCopy
  <2>1. directs' # 0
    BY <1>6 DEF DirectCopy
  <2> QED BY <2>1 DEF OrderInv
<1>7. ASSUME NEW v \in direct, DirectWrite(v) PROVE OrderInv'
  <2>1. directs # 0 /\ directs' = directs
    BY <1>7 DEF DirectWrite, OrderInv
  <2> QED BY <2>1 DEF OrderInv
<1>8. CASE UNCHANGED vars
  BY <1>8 DEF vars, OrderInv
<1> QED BY <1>1, <1>2, <1>3, <1>4, <1>5, <1>6, <1>7, <1>8 DEF Next, Drain

(* A file whose saves go through the queue implements LatestSaved: the     *)
(* version on disk is one that was asked for, and only moves to a newer    *)
(* one until a saver goes past the queue.                                  *)
THEOREM ImplementsLatest == Spec => SavesLatest
<1> DEFINE Inv == DrainInv /\ KnownInv /\ OrderInv
<1>1. Init => Latest!Init
  BY DEF Init, Latest!Init
<1>2. Init => Inv
  BY DEF Init, DrainInv, OneDrainer, KnownInv, OrderInv
<1>3. TypeOK /\ Inv /\ [Next]_vars => Inv'
  BY DrainStep, KnownStep, OrderStep
<1>4. TypeOK /\ Inv /\ [Next]_vars => [Latest!Next]_<<content, disk, directs > 0>>
  <2> SUFFICES ASSUME TypeOK, Inv, [Next]_vars
               PROVE  [Latest!Next]_<<content, disk, directs > 0>>
    OBVIOUS
  <2>1. CASE Submit
    BY <2>1 DEF Submit, Latest!Next, Latest!Change
  <2>2. ASSUME NEW t \in Drainers, Write(t) PROVE Latest!Next
    <3>1. /\ directs = 0 => disk < job[t]
          /\ job[t] \in 0 .. content
          /\ disk' = job[t] /\ content' = content /\ directs' = directs
      BY <2>2 DEF Write, OrderInv, KnownInv, TypeOK
    <3>2. directs > 0 \/ disk < job[t]
      BY <3>1 DEF TypeOK
    <3> QED BY <3>1, <3>2 DEF Latest!Next, Latest!Save
  <2>3. ASSUME NEW t \in Drainers, Take(t) \/ Leave(t) \/ WriteFails(t)
        PROVE  UNCHANGED <<content, disk, directs>>
    BY <2>3 DEF Take, Leave, WriteFails
  <2>4. CASE DirectCopy
    <3>1. content' = content + 1 /\ disk' = disk /\ directs' > 0
      BY <2>4 DEF DirectCopy, TypeOK
    <3> QED BY <3>1 DEF Latest!Next, Latest!Bypass
  <2>5. ASSUME NEW v \in direct, DirectWrite(v) PROVE Latest!Next
    <3>1. directs > 0 /\ v \in 0 .. content
      BY <2>5 DEF OrderInv, KnownInv, TypeOK
    <3>2. disk' = v /\ content' = content /\ directs' = directs
      BY <2>5 DEF DirectWrite
    <3> QED BY <3>1, <3>2 DEF Latest!Next, Latest!Save
  <2>6. CASE UNCHANGED vars
    BY <2>6 DEF vars
  <2> QED BY <2>1, <2>2, <2>3, <2>4, <2>5, <2>6 DEF Next, Drain
<1> HIDE DEF Inv
<1> QED BY <1>1, <1>2, <1>3, <1>4, TypeCorrect, PTL DEF Spec, SavesLatest, Latest!Spec

(* With neither failures nor savers beside the queue no save is lost: the  *)
(* newest content stays on disk, in a write or in the queue.               *)
THEOREM NewestCorrect == Spec => []NewestKept
<1> DEFINE Inv == DrainInv /\ KnownInv /\ OrderInv
           Kept == NewestKept /\ \A t \in Drainers : job[t] # 0 => at[t] = "write"
<1>1. Init => Kept
  BY DEF Init, NewestKept
<1>2. Init => Inv
  BY DEF Init, DrainInv, OneDrainer, KnownInv, OrderInv
<1>3. TypeOK /\ Inv /\ [Next]_vars => Inv'
  BY DrainStep, KnownStep, OrderStep
<1>4. TypeOK /\ Inv /\ Kept /\ [Next]_vars => Kept'
  <2> SUFFICES ASSUME TypeOK, Inv, Kept, [Next]_vars PROVE Kept'
    OBVIOUS
  <2> USE DEF TypeOK
  <2>1. CASE Submit
    BY <2>1 DEF Submit, StartDrain, NewestKept, DrainInv
  <2>2. ASSUME NEW t \in Drainers, Take(t) PROVE Kept'
    <3>1. \A u \in Drainers : job[u] = 0
      BY <2>2 DEF Take, DrainInv, OneDrainer
    <3>2. /\ job'[t] = pending /\ failures' = failures /\ directs' = directs
          /\ content' = content /\ disk' = disk
      BY <2>2 DEF Take
    <3>3. content # 0
      BY <2>2 DEF Take, KnownInv
    <3>4. failures = 0 /\ directs = 0 => content = disk \/ content = pending
      BY <3>1, <3>3 DEF NewestKept
    <3>5. NewestKept'
      BY <3>2, <3>4 DEF NewestKept
    <3> QED BY <3>1, <3>5, <2>2 DEF Take
  <2>3. ASSUME NEW t \in Drainers, Leave(t) PROVE Kept'
    BY <2>3 DEF Leave, NewestKept
  <2>4. ASSUME NEW t \in Drainers, Write(t) PROVE Kept'
    <3>1. /\ disk' = job[t] /\ failures' = failures /\ directs' = directs
          /\ content' = content /\ pending' = pending /\ job[t] <= content
          /\ directs = 0 => disk < job[t]
      BY <2>4 DEF Write, OrderInv, KnownInv
    <3>2. \A u \in Drainers : u # t => job[u] = 0
      BY <2>4 DEF Write, DrainInv, OneDrainer
    <3>3. failures = 0 /\ directs = 0 => content = pending \/ content = job[t]
      BY <3>1, <3>2 DEF NewestKept
    <3>4. NewestKept'
      BY <3>1, <3>3 DEF NewestKept
    <3>5. \A u \in Drainers : job'[u] = 0
      BY <3>2, <2>4 DEF Write
    <3> QED BY <3>4, <3>5
  <2>5. ASSUME NEW t \in Drainers, WriteFails(t) PROVE Kept'
    <3>1. failures' # 0
      BY <2>5 DEF WriteFails
    <3>2. \A u \in Drainers : job'[u] # 0 => at'[u] = "write"
      BY <2>5 DEF WriteFails
    <3> QED BY <3>1, <3>2 DEF NewestKept
  <2>6. CASE DirectCopy
    <3>1. directs' # 0 /\ job' = job /\ at' = at
      BY <2>6 DEF DirectCopy
    <3> QED BY <3>1 DEF NewestKept
  <2>7. ASSUME NEW v \in direct, DirectWrite(v) PROVE Kept'
    <3>1. directs' # 0 /\ job' = job /\ at' = at
      BY <2>7 DEF DirectWrite, OrderInv
    <3> QED BY <3>1 DEF NewestKept
  <2>8. CASE UNCHANGED vars
    BY <2>8 DEF vars, NewestKept
  <2> QED BY <2>1, <2>2, <2>3, <2>4, <2>5, <2>6, <2>7, <2>8 DEF Next, Drain
<1>5. Kept => NewestKept
  OBVIOUS
<1> HIDE DEF Kept, Inv
<1> QED BY <1>1, <1>2, <1>3, <1>4, <1>5, TypeCorrect, PTL DEF Spec
=============================================================================
