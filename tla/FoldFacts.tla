------------------------------ MODULE FoldFacts ------------------------------
(***************************************************************************)
(* A fold of a sequence from the left keeps what each of its steps keeps.  *)
(* The step and what it keeps are parameters, to be instantiated.  The     *)
(* module states the induction once for the folds of the components.       *)
(***************************************************************************)
EXTENDS SequencesExt, WellFoundedInduction, TLAPS

CONSTANTS
    Step(_, _, _),  \* what the fold does with an element, in a context
    Keeps(_, _, _)  \* what holds of the value after so many elements

Fold(c, base, seq) == FoldLeft(LAMBDA value, element : Step(c, value, element), base, seq)

LEMMA Least ==
  ASSUME NEW S \in SUBSET Nat, S # {}
  PROVE  \E n \in S : \A m \in S : n <= m
<1>1. PICK R : R = OpToRel(<, Nat)
  OBVIOUS
<1>2. \A x, y \in Nat : <<x, y>> \in R <=> x < y
  BY <1>1 DEF OpToRel
<1>3. IsWellFoundedOn(R, Nat)
  BY <1>1, NatLessThanWellFounded
<1>4. PICK n \in S : \A m \in S : ~(<<m, n>> \in R)
  BY <1>3, WFMin
<1>5. \A m \in S : m \in Nat /\ n \in Nat /\ ~(m < n)
  BY <1>2, <1>4
<1>6. \A m \in S : n <= m
  BY <1>5
<1> QED BY <1>6

(* Induction up to n, for a set of numbers. *)
LEMMA Upto ==
  ASSUME NEW n \in Nat, NEW S, 0 \in S, \A k \in Nat : k < n /\ k \in S => k + 1 \in S
  PROVE  \A k \in 0 .. n : k \in S
<1> SUFFICES ASSUME NEW j \in 0 .. n, j \notin S PROVE FALSE
  OBVIOUS
<1>1. PICK T : T = {k \in 0 .. n : k \notin S}
  OBVIOUS
<1>2. T \in SUBSET Nat /\ T # {}
  BY <1>1
<1>3. PICK k \in T : \A m \in T : k <= m
  BY <1>2, Least
<1>4. k \in 0 .. n /\ k \notin S /\ k # 0
  BY <1>1
<1>5. k - 1 \in Nat /\ k - 1 < n /\ k - 1 \notin T /\ k - 1 \in 0 .. n
  BY <1>3, <1>4
<1>6. k - 1 \in S
  BY <1>1, <1>5
<1>7. k - 1 + 1 = k
  BY <1>4
<1> QED BY <1>4, <1>5, <1>6, <1>7

(* The equation of MapThenFoldSet's recursion, on the first k elements. *)
Unfolds(f, c, base, seq, k) ==
  f = [s \in SUBSET (1 .. k) |-> IF s = {} THEN base ELSE Step(c, f[s \ {Max(s)}], seq[Max(s)])]

LEMMA MaxFacts ==
  ASSUME NEW k \in Nat, NEW s \in SUBSET (1 .. k + 1)
  PROVE  /\ k + 1 \in s => Max(s) = k + 1
         /\ k + 1 \notin s => s \in SUBSET (1 .. k)
         /\ s \ {k + 1} \in SUBSET (1 .. k)
<1>1. s \subseteq Int /\ \A n \in s : k + 1 >= n
  OBVIOUS
<1>2. ASSUME k + 1 \in s PROVE Max(s) = k + 1
  <2>1. \A n \in s : (\A m \in s : n >= m) => n = k + 1
    BY <1>1, <1>2
  <2> QED BY <1>1, <1>2, <2>1 DEF Max
<1> QED BY <1>2

LEMMA UnfoldsExists ==
  ASSUME NEW n \in Nat, NEW c, NEW base, NEW seq
  PROVE  \E f : Unfolds(f, c, base, seq, n)
<1>1. PICK S : S = {k \in 0 .. n : \E f : Unfolds(f, c, base, seq, k)}
  OBVIOUS
<1>2. 0 \in S
  <2>1. Unfolds([s \in SUBSET (1 .. 0) |-> base], c, base, seq, 0)
    BY DEF Unfolds
  <2> QED BY <1>1, <2>1
<1>3. ASSUME NEW k \in Nat, k < n, k \in S PROVE k + 1 \in S
  <2>1. PICK f : Unfolds(f, c, base, seq, k)
    BY <1>1, <1>3
  <2>2. PICK g : g = [s \in SUBSET (1 .. k + 1) |->
                        IF k + 1 \in s THEN Step(c, f[s \ {k + 1}], seq[k + 1]) ELSE f[s]]
    OBVIOUS
  <2>3. ASSUME NEW s \in SUBSET (1 .. k + 1)
        PROVE  g[s] = IF s = {} THEN base ELSE Step(c, g[s \ {Max(s)}], seq[Max(s)])
    <3>1. CASE k + 1 \in s
      <4>1. Max(s) = k + 1
        BY <3>1, MaxFacts
      <4>2. PICK r : r = s \ {k + 1}
        OBVIOUS
      <4>3. r \in SUBSET (1 .. k) /\ r \in SUBSET (1 .. k + 1) /\ k + 1 \notin r
        BY <4>2, MaxFacts
      <4>4. g[r] = f[r] /\ g[s] = Step(c, f[r], seq[k + 1])
        BY <2>2, <3>1, <4>2, <4>3
      <4> QED BY <3>1, <4>1, <4>2, <4>4
    <3>2. CASE k + 1 \notin s /\ s # {}
      <4>1. s \in SUBSET (1 .. k) /\ g[s] = f[s]
        BY <2>2, <3>2, MaxFacts
      <4>2. PICK r : r = s \ {Max(s)}
        OBVIOUS
      <4>3. r \in SUBSET (1 .. k) /\ r \in SUBSET (1 .. k + 1) /\ k + 1 \notin r
        BY <3>2, <4>1, <4>2
      <4>4. g[r] = f[r] /\ f[s] = Step(c, f[r], seq[Max(s)])
        BY <2>1, <2>2, <3>2, <4>1, <4>2, <4>3 DEF Unfolds
      <4> QED BY <3>2, <4>1, <4>2, <4>4
    <3>3. CASE s = {}
      <4>1. s \in SUBSET (1 .. k) /\ k + 1 \notin s
        BY <3>3
      <4>2. f[s] = base
        BY <2>1, <3>3, <4>1 DEF Unfolds
      <4> QED BY <2>2, <3>3, <4>1, <4>2
    <3> QED BY <3>1, <3>2, <3>3
  <2>4. Unfolds(g, c, base, seq, k + 1)
    BY <2>2, <2>3 DEF Unfolds
  <2>5. k + 1 \in 0 .. n
    BY <1>3
  <2> QED BY <1>1, <2>4, <2>5
<1>4. n \in S
  BY <1>2, <1>3, Upto
<1> QED BY <1>1, <1>4

(* trace is what a fold of seq goes through, from its base to its result. *)
Traces(trace, c, base, seq, n) ==
  /\ trace[0] = base /\ trace[n] = Fold(c, base, seq)
  /\ \A k \in 0 .. n - 1 : trace[k + 1] = Step(c, trace[k], seq[k + 1])

(* Every fold has such a trace; facts about it follow by Upto. *)
THEOREM FoldTrace ==
  ASSUME NEW c, NEW base, NEW seq, NEW n \in Nat, DOMAIN seq = 1 .. n
  PROVE  \E trace : Traces(trace, c, base, seq, n)
<1>1. PICK f : f = CHOOSE g : Unfolds(g, c, base, seq, n)
  OBVIOUS
<1>2. Unfolds(f, c, base, seq, n)
  BY <1>1, UnfoldsExists
<1>3. Fold(c, base, seq) = f[1 .. n]
  BY <1>1 DEF Fold, FoldLeft, MapThenFoldSet, Unfolds
<1>4. PICK trace : trace = [k \in 0 .. n |-> f[1 .. k]]
  OBVIOUS
<1>5. trace[0] = base
  <2>1. f[1 .. 0] = base
    BY <1>2 DEF Unfolds
  <2> QED BY <1>4, <2>1
<1>6. trace[n] = Fold(c, base, seq)
  BY <1>3, <1>4
<1>7. ASSUME NEW k \in 0 .. n - 1 PROVE trace[k + 1] = Step(c, trace[k], seq[k + 1])
  <2>1. k \in Nat /\ k \in 0 .. n /\ k + 1 \in 0 .. n /\ 1 .. k + 1 \in SUBSET (1 .. n)
    OBVIOUS
  <2>2. k + 1 \in 1 .. k + 1
    OBVIOUS
  <2>3. (1 .. k + 1) \ {k + 1} = 1 .. k
    OBVIOUS
  <2>4. Max(1 .. k + 1) = k + 1
    BY <2>1, <2>2, MaxFacts
  <2>5. f[1 .. k + 1] = Step(c, f[1 .. k], seq[k + 1])
    BY <1>2, <2>1, <2>2, <2>3, <2>4 DEF Unfolds
  <2> QED BY <1>4, <2>1, <2>5
<1> QED BY <1>5, <1>6, <1>7 DEF Traces

(* What every step of a fold keeps holds of its result. *)
THEOREM FoldKeeps ==
  ASSUME NEW c, NEW base, NEW seq, NEW n \in Nat, DOMAIN seq = 1 .. n,
         Keeps(c, base, 0),
         \A k \in Nat : \A value :
           k < n /\ Keeps(c, value, k) => Keeps(c, Step(c, value, seq[k + 1]), k + 1)
  PROVE  Keeps(c, Fold(c, base, seq), n)
<1>0. PICK trace : Traces(trace, c, base, seq, n)
  BY FoldTrace
<1>1. /\ trace[0] = base /\ trace[n] = Fold(c, base, seq)
      /\ \A k \in 0 .. n - 1 : trace[k + 1] = Step(c, trace[k], seq[k + 1])
  BY <1>0 DEF Traces
<1>2. PICK S : S = {k \in 0 .. n : Keeps(c, trace[k], k)}
  OBVIOUS
<1>3. 0 \in S
  BY <1>1, <1>2
<1>4. ASSUME NEW k \in Nat, k < n, k \in S PROVE k + 1 \in S
  <2>1. k \in 0 .. n - 1 /\ k + 1 \in 0 .. n /\ Keeps(c, trace[k], k)
    BY <1>2, <1>4
  <2>2. trace[k + 1] = Step(c, trace[k], seq[k + 1])
    BY <1>1, <2>1
  <2>3. Keeps(c, Step(c, trace[k], seq[k + 1]), k + 1)
    BY <1>4, <2>1
  <2> QED BY <1>2, <2>1, <2>2, <2>3
<1>5. n \in S
  <2>1. n \in 0 .. n
    OBVIOUS
  <2> QED BY <1>3, <1>4, <2>1, Upto
<1> QED BY <1>1, <1>2, <1>5
=============================================================================
