----------------------- MODULE WvwTimeline_proofs -----------------------
(***************************************************************************)
(* Proofs about the WvW exchange timeline, rotation/wvw_timeline.rs, for   *)
(* every set of builds and scripts the assumptions of WvwTimeline allow.   *)
(*                                                                         *)
(* A handler takes a timeline to a timeline.  For each one a lemma says    *)
(* that it keeps a timeline well formed (Good), which fields it leaves     *)
(* alone (Only) and, where it may end a cast or a shroud, what the skill   *)
(* lost with it still owes (Lost).  The handlers that loop are folds, and  *)
(* FoldFacts carries these facts over a fold.  The inductive invariant     *)
(* IInv adds to Good the clock, the bars, the window and the recharges,    *)
(* and the properties of the runs follow from it and from single steps.    *)
(***************************************************************************)
EXTENDS WvwTimeline, SequenceTheorems, TLAPS

----------------------------------------------------------------------------
\* The folds of the model.

Retaining(kept, got, e) == IF e \in kept THEN Append(got, e) ELSE got
KeptOnly(kept, got, k) == got \in Seq(kept)
Retained == INSTANCE FoldFacts WITH Step <- Retaining, Keeps <- KeptOnly

\* Vec::retain is a fold of FoldFacts.
LEMMA RetainIsFold ==
  ASSUME NEW seq, NEW kept
  PROVE  Retain(seq, kept) = Retained!Fold(kept, <<>>, seq)
BY DEF Retain, Retaining, Retained!Fold, FoldLeft, Retained!FoldLeft, MapThenFoldSet,
       Retained!MapThenFoldSet, Max, Retained!Max

\* What is retained are entries that are kept.
LEMMA RetainSeq ==
  ASSUME NEW T, NEW seq \in Seq(T), NEW kept
  PROVE  Retain(seq, kept) \in Seq(kept)
<1>1. DOMAIN seq = 1 .. Len(seq) /\ Len(seq) \in Nat
  OBVIOUS
<1>2. KeptOnly(kept, <<>>, 0)
  BY DEF KeptOnly
<1>3. ASSUME NEW k \in Nat, NEW got, KeptOnly(kept, got, k)
      PROVE  KeptOnly(kept, Retaining(kept, got, seq[k + 1]), k + 1)
  BY <1>3, AppendProperties DEF KeptOnly, Retaining
<1>4. KeptOnly(kept, Retained!Fold(kept, <<>>, seq), Len(seq))
  BY <1>1, <1>2, <1>3, Retained!FoldKeeps
<1> QED BY <1>4, RetainIsFold DEF KeptOnly

Applying(i, u, effect) == ApplySkillEffect(u, i, effect)
Sofar(t, u, k) == TRUE
Applied == INSTANCE FoldFacts WITH Step <- Applying, Keeps <- Sofar

\* The effects of a skill are a fold.
LEMMA ApplyIsFold ==
  ASSUME NEW t, NEW i, NEW effects
  PROVE  ApplyAll(t, i, effects) = Applied!Fold(i, t, effects)
BY DEF ApplyAll, Applying, Applied!Fold, FoldLeft, Applied!FoldLeft, MapThenFoldSet,
       Applied!MapThenFoldSet, Max, Applied!Max

\* The effects of a skill, one timeline after another.
LEMMA ApplyTrace ==
  ASSUME NEW t, NEW i, NEW effects \in Seq(Effects)
  PROVE  \E run : /\ run[0] = t /\ run[Len(effects)] = ApplyAll(t, i, effects)
                  /\ \A k \in 0 .. Len(effects) - 1 :
                       run[k + 1] = ApplySkillEffect(run[k], i, effects[k + 1])
<1>1. DOMAIN effects = 1 .. Len(effects) /\ Len(effects) \in Nat
  OBVIOUS
<1>2. PICK run : Applied!Traces(run, i, t, effects, Len(effects))
  BY <1>1, Applied!FoldTrace
<1> QED BY <1>2, ApplyIsFold DEF Applied!Traces, Applying

----------------------------------------------------------------------------
\* What every handler keeps of a timeline, part by part.

Fields == {"now", "next", "disabled", "set", "before", "shroud", "swapReady", "legendReady",
           "cursor", "ready", "cast", "hits", "defenses", "buffs", "barrier", "conditions",
           "health", "pool", "upkeep", "endurance", "pulseReady", "run", "longest", "charge", "foe", "events"}

Numbers(b) == DOMAIN b.skills
CastShapes(b) == [skill : Numbers(b), resolves : Nat]
HitShapes(b) == [at : Nat, skill : Numbers(b)]
ShroudShapes(b) == [entry : Numbers(b), drain : Nat, exposed : BOOLEAN, recharge : Nat]
Defenses == [kind : Cover, expires : Nat, stacks : Nat, strippable : BOOLEAN, applied : Nat]
Layers == [amount : Nat, expires : Nat]
Conditions == [name : STRING, damage : Nat, expires : Nat, applied : Nat]

Shape(t) == DOMAIN t = Fields /\ t.now \in Nat /\ t.disabled \in Nat
Casts(b, t) ==
  /\ t.cast = None \/ t.cast \in CastShapes(b)
  /\ t.hits \in Seq(HitShapes(b))
  /\ \A k \in DOMAIN t.hits : /\ t.cast # None
                              /\ t.hits[k].skill = t.cast.skill
                              /\ t.hits[k].at <= t.cast.resolves
Bars(b, t) ==
  /\ t.set \in 1..3 /\ t.before \in 1..3
  /\ t.shroud = None \/ t.shroud \in ShroudShapes(b)
  /\ t.shroud # None => t.set = SHROUD_SET
Recharges(b, t) == t.ready \in [Numbers(b) -> Int]
Levels(b, t) == /\ t.health \in 0..MaxHealth /\ t.pool \in 0..Ceiling(b)
                /\ t.upkeep \in 0..MAX_UPKEEP /\ t.endurance \in 0..(2 * DODGE_COST)
Covering(ds) == /\ ds \in Seq(Defenses)
                /\ \A i, j \in DOMAIN ds : ds[i].kind = ds[j].kind => i = j
Covers(t) == Covering(t.defenses)
Barriers(t) == t.barrier \in Seq(Layers) /\ BarrierLeft(t.barrier) <= BARRIER_CAP
Suffering(t) == t.conditions \in Seq(Conditions) /\ t.events \in Seq(Events)

Good(b, t) == /\ Shape(t) /\ Casts(b, t) /\ Bars(b, t) /\ Recharges(b, t)
              /\ Levels(b, t) /\ Covers(t) /\ Barriers(t) /\ Suffering(t)

\* Of t's fields only those in F differ in u.
Only(t, u, F) == DOMAIN u = DOMAIN t /\ \A f \in Fields \ F : u[f] = t[f]

\* What two handlers in a row leave alone.
LEMMA OnlyTwice ==
  ASSUME NEW t, NEW u, NEW v, NEW F, Only(t, u, F), Only(u, v, F)
  PROVE  Only(t, v, F)
BY DEF Only

\* Leaving more alone is leaving less alone too.
LEMMA OnlyMore ==
  ASSUME NEW t, NEW u, NEW F, NEW G, Only(t, u, F), F \subseteq G
  PROVE  Only(t, u, G)
BY DEF Only

\* A part of Good whose fields a handler leaves alone still holds.
LEMMA Frame ==
  ASSUME NEW b, NEW t, NEW u, NEW F, Good(b, t), Only(t, u, F)
  PROVE  /\ F \cap {"now", "disabled"} = {} => Shape(u)
         /\ F \cap {"cast", "hits"} = {} => Casts(b, u)
         /\ F \cap {"set", "before", "shroud"} = {} => Bars(b, u)
         /\ F \cap {"ready"} = {} => Recharges(b, u)
         /\ F \cap {"health", "pool", "upkeep", "endurance"} = {} => Levels(b, u)
         /\ F \cap {"defenses"} = {} => Covers(u)
         /\ F \cap {"barrier"} = {} => Barriers(u)
         /\ F \cap {"conditions", "events"} = {} => Suffering(u)
<1>0. \A f \in Fields : f \notin F => u[f] = t[f]
  BY DEF Only
<1>1. ASSUME F \cap {"now", "disabled"} = {} PROVE Shape(u)
  <2>1. u.now = t.now /\ u.disabled = t.disabled
    BY <1>0, <1>1 DEF Fields
  <2> QED BY <2>1 DEF Good, Shape, Only
<1>2. ASSUME F \cap {"cast", "hits"} = {} PROVE Casts(b, u)
  <2>1. u.cast = t.cast /\ u.hits = t.hits
    BY <1>0, <1>2 DEF Fields
  <2> QED BY <2>1 DEF Good, Casts
<1>3. ASSUME F \cap {"set", "before", "shroud"} = {} PROVE Bars(b, u)
  <2>1. u.set = t.set /\ u.before = t.before /\ u.shroud = t.shroud
    BY <1>0, <1>3 DEF Fields
  <2> QED BY <2>1 DEF Good, Bars
<1>4. ASSUME F \cap {"ready"} = {} PROVE Recharges(b, u)
  <2>1. u.ready = t.ready
    BY <1>0, <1>4 DEF Fields
  <2> QED BY <2>1 DEF Good, Recharges
<1>5. ASSUME F \cap {"health", "pool", "upkeep", "endurance"} = {} PROVE Levels(b, u)
  <2>1. u.health = t.health /\ u.pool = t.pool /\ u.upkeep = t.upkeep /\ u.endurance = t.endurance
    BY <1>0, <1>5 DEF Fields
  <2> QED BY <2>1 DEF Good, Levels
<1>6. ASSUME F \cap {"defenses"} = {} PROVE Covers(u)
  <2>1. u.defenses = t.defenses
    BY <1>0, <1>6 DEF Fields
  <2> QED BY <2>1 DEF Good, Covers
<1>7. ASSUME F \cap {"barrier"} = {} PROVE Barriers(u)
  <2>1. u.barrier = t.barrier
    BY <1>0, <1>7 DEF Fields
  <2> QED BY <2>1 DEF Good, Barriers
<1>8. ASSUME F \cap {"conditions", "events"} = {} PROVE Suffering(u)
  <2>1. u.conditions = t.conditions /\ u.events = t.events
    BY <1>0, <1>8 DEF Fields
  <2> QED BY <2>1 DEF Good, Suffering
<1> QED BY <1>1, <1>2, <1>3, <1>4, <1>5, <1>6, <1>7, <1>8

\* The types of a build.
LEMMA BuildFacts ==
  ASSUME NEW b \in Builds
  PROVE  /\ b.skills \in Seq(Skills) /\ Numbers(b) \subseteq Nat \ {0}
         /\ b.opener \in Seq(Numbers(b)) /\ b.cap \in Nat /\ b.regen \in Nat /\ b.start \in 0..b.cap
         /\ PoolCap[b.kind] \in Nat
         /\ b.kind = "Energy" => LEGEND_ENERGY <= PoolCap[b.kind]
         /\ b.pulse.every \in Nat /\ b.pulse.amount \in Nat
BY BuildsAssumption DEF Numbers

\* Both caps of a pool are within its bound.
LEMMA CeilingFacts ==
  ASSUME NEW b \in Builds
  PROVE  Ceiling(b) \in Nat /\ b.cap <= Ceiling(b) /\ PoolCap[b.kind] <= Ceiling(b)
BY BuildFacts DEF Ceiling, Most

\* The types of a skill of the build.
LEMMA SkillFacts ==
  ASSUME build \in Builds, NEW i \in Ids
  PROVE  /\ Skill(i) \in Skills
         /\ Skill(i).cast \in Nat /\ Skill(i).cooldown \in Nat /\ Skill(i).hits \in Nat
         /\ Skill(i).cost \in Nat /\ Skill(i).floor \in Nat /\ Skill(i).gainOnHit \in Nat
         /\ Skill(i).gainOnUse \in Nat /\ Skill(i).upkeep \in Nat /\ Skill(i).drain \in Nat
         /\ Skill(i).exposed \in BOOLEAN /\ Skill(i).effects \in Seq(Effects)
<1>1. build.skills \in Seq(Skills)
  BY BuildsAssumption
<1>2. PICK s : s = Skill(i)
  OBVIOUS
<1>3. s \in Skills
  BY <1>1, <1>2 DEF Skill, Ids
<1>4. /\ s.cast \in Nat /\ s.cooldown \in Nat /\ s.hits \in Nat
      /\ s.cost \in Nat /\ s.floor \in Nat /\ s.gainOnHit \in Nat
      /\ s.gainOnUse \in Nat /\ s.upkeep \in Nat /\ s.drain \in Nat
      /\ s.exposed \in BOOLEAN /\ s.effects \in Seq(Effects)
  BY <1>3 DEF Skills
<1> QED BY <1>2, <1>3, <1>4

\* The numbers of the timeline are natural.
LEMMA Amounts ==
  /\ Duration \in Nat \ {0} /\ TICK \in Nat \ {0} /\ PERIOD \in Nat \ {0}
  /\ INTERRUPT \in Nat \ {0} /\ DODGE_EVADE \in Nat /\ SWAP \in Nat /\ LEGEND \in Nat
  /\ ALACRITY \in Nat /\ CHILLED \in Nat /\ GAP \in Nat /\ HUMAN_DELAY \in Nat
  /\ BARRIER_LIFETIME \in Nat /\ MaxHealth \in Nat \ {0} /\ BAR \in Nat \ {0}
  /\ DODGE_COST \in Nat /\ LEGEND_ENERGY \in Nat /\ MAX_UPKEEP \in Nat /\ BARRIER_CAP \in Nat
<1>1. {Duration, TICK, PERIOD, SECOND, INTERRUPT, SWAP, LEGEND, DODGE_EVADE} \subseteq Nat \ {0}
  BY TimesAssumption
<1>2. {ALACRITY, CHILLED, GAP, HUMAN_DELAY, BARRIER_LIFETIME} \subseteq Nat
  BY TimesAssumption
<1>3. {MaxHealth, BAR} \subseteq Nat \ {0}
      /\ {FoeHealth, DODGE_COST, LEGEND_ENERGY, MAX_UPKEEP, BARRIER_CAP} \subseteq Nat
  BY AmountsAssumption
<1> QED BY <1>1, <1>2, <1>3

\* The levels of a well formed timeline are natural.
LEMMA LevelFacts ==
  ASSUME build \in Builds, NEW t, Good(build, t)
  PROVE  /\ t.pool \in Nat /\ t.pool <= Ceiling(build) /\ t.health \in Nat /\ t.health <= MaxHealth
         /\ t.upkeep \in Nat /\ t.endurance \in Nat /\ Ceiling(build) \in Nat
         /\ t.now \in Nat /\ DOMAIN t = Fields
BY CeilingFacts, Amounts DEF Good, Levels, Shape

\* A handler that sets the pool alone.
LEMMA PoolSet ==
  ASSUME build \in Builds, NEW t, Good(build, t), NEW p \in Nat, p <= Ceiling(build),
         NEW u, u = [t EXCEPT !.pool = p]
  PROVE  Good(build, u) /\ Only(t, u, {"pool"}) /\ u.pool = p
<1>1. DOMAIN t = Fields
  BY DEF Good, Shape
<1>2. Only(t, u, {"pool"}) /\ u.pool = p
  BY <1>1 DEF Only, Fields
<1>3. u.health = t.health /\ u.upkeep = t.upkeep /\ u.endurance = t.endurance
  BY <1>1 DEF Fields
<1>4. Levels(build, u)
  <2>1. p \in 0..Ceiling(build)
    BY CeilingFacts
  <2> QED BY <1>2, <1>3, <2>1 DEF Good, Levels
<1>5. /\ Shape(u) /\ Casts(build, u) /\ Bars(build, u) /\ Recharges(build, u)
      /\ Covers(u) /\ Barriers(u) /\ Suffering(u)
  BY <1>2, Frame
<1> QED BY <1>2, <1>4, <1>5 DEF Good

\* pay_resource spends no more than the pool holds.
LEMMA PaySound ==
  ASSUME build \in Builds, NEW t, Good(build, t), NEW i \in Ids
  PROVE  Good(build, PayResource(t, i)) /\ Only(t, PayResource(t, i), {"pool"})
<1>1. PICK p : p = IF ~Skill(i).spendAll THEN t.pool - Skill(i).cost
                   ELSE IF build.kind = "Adrenaline" THEN t.pool % BAR
                   ELSE 0
  OBVIOUS
<1>2. CASE t.pool < Skill(i).cost
  <2>1. PayResource(t, i) = t
    BY <1>2 DEF PayResource
  <2> QED BY <2>1 DEF Only
<1>3. CASE ~(t.pool < Skill(i).cost)
  <2>1. PayResource(t, i) = [t EXCEPT !.pool = p]
    BY <1>1, <1>3 DEF PayResource
  <2>2. t.pool % BAR \in 0..t.pool
    BY LevelFacts, Amounts
  <2>3. t.pool - Skill(i).cost \in 0..t.pool
    BY <1>3, LevelFacts, SkillFacts
  <2>4. p \in 0..t.pool
    BY <1>1, <2>2, <2>3, LevelFacts
  <2>5. p \in Nat /\ p <= Ceiling(build)
    BY <2>4, LevelFacts
  <2> QED BY <2>1, <2>5, PoolSet
<1> QED BY <1>2, <1>3

\* A gain stays within the bound of the pool.
LEMMA GainedSound ==
  ASSUME build \in Builds, NEW pool \in 0..Ceiling(build), NEW gain \in Nat
  PROVE  Gained(pool, gain) \in 0..Ceiling(build)
<1>1. Ceiling(build) \in Nat /\ PoolCap[build.kind] \in Nat /\ PoolCap[build.kind] <= Ceiling(build)
  BY BuildFacts, CeilingFacts
<1>2. PICK c \in Nat : c = PoolCap[build.kind] /\ c <= Ceiling(build)
  BY <1>1
<1>3. Gained(pool, gain) = IF gain = 0 THEN pool ELSE IF pool + gain < c THEN pool + gain ELSE c
  BY <1>2 DEF Gained, Least
<1> QED BY <1>1, <1>2, <1>3

\* gain_resource_on_use stays within the bound of the pool.
LEMMA GainOnUseSound ==
  ASSUME build \in Builds, NEW t, Good(build, t), NEW i \in Ids
  PROVE  Good(build, GainResourceOnUse(t, i)) /\ Only(t, GainResourceOnUse(t, i), {"pool"})
<1>1. PICK p : p = Gained(t.pool, Skill(i).gainOnUse)
  OBVIOUS
<1>2. GainResourceOnUse(t, i) = [t EXCEPT !.pool = p]
  BY <1>1 DEF GainResourceOnUse
<1>3. p \in Nat /\ p <= Ceiling(build)
  <2>1. t.pool \in 0..Ceiling(build)
    BY DEF Good, Levels
  <2>2. p \in 0..Ceiling(build)
    BY <1>1, <2>1, SkillFacts, GainedSound
  <2> QED BY <2>2, CeilingFacts
<1> QED BY <1>2, <1>3, PoolSet

\* gain_resource_on_hit stays within the bound of the pool.
LEMMA GainOnHitSound ==
  ASSUME build \in Builds, NEW t, Good(build, t), NEW i \in Ids
  PROVE  Good(build, GainResourceOnHit(t, i)) /\ Only(t, GainResourceOnHit(t, i), {"pool"})
<1>1. PICK fed : fed = Gained(t.pool, Skill(i).gainOnHit)
  OBVIOUS
<1>2. PICK p : p = IF build.kind = "Adrenaline" /\ Skill(i).cost = 0 THEN Least(fed + 1, build.cap) ELSE fed
  OBVIOUS
<1>3. GainResourceOnHit(t, i) = [t EXCEPT !.pool = p]
  BY <1>1, <1>2 DEF GainResourceOnHit
<1>4. fed \in 0..Ceiling(build)
  <2>1. t.pool \in 0..Ceiling(build)
    BY DEF Good, Levels
  <2> QED BY <1>1, <2>1, SkillFacts, GainedSound
<1>5. p \in Nat /\ p <= Ceiling(build)
  BY <1>2, <1>4, BuildFacts, CeilingFacts DEF Least
<1> QED BY <1>3, <1>5, PoolSet

\* set_skill_cooldown writes the recharges of one skill.
LEMMA SetCooldownSound ==
  ASSUME build \in Builds, NEW t, Good(build, t), NEW i \in Ids, NEW d \in Nat
  PROVE  /\ Good(build, SetSkillCooldown(t, i, d)) /\ Only(t, SetSkillCooldown(t, i, d), {"ready"})
         /\ \A j \in Ids : SetSkillCooldown(t, i, d).ready[j] = IF Same(i, j) THEN t.now + d ELSE t.ready[j]
<1>1. PICK u : u = SetSkillCooldown(t, i, d)
  OBVIOUS
<1>2. PICK ready : ready = [j \in Ids |-> IF Same(i, j) THEN t.now + d ELSE t.ready[j]]
  OBVIOUS
<1>3. DOMAIN t = Fields /\ t.now \in Nat /\ t.ready \in [Ids -> Int]
  BY DEF Good, Shape, Recharges, Numbers, Ids
<1>4. u = [t EXCEPT !.ready = ready]
  BY <1>1, <1>2 DEF SetSkillCooldown
<1>5. Only(t, u, {"ready"}) /\ u.ready = ready
  BY <1>3, <1>4 DEF Only, Fields
<1>6. Recharges(build, u)
  <2>1. \A j \in Ids : (IF Same(i, j) THEN t.now + d ELSE t.ready[j]) \in Int
    BY <1>3
  <2>2. ready \in [Ids -> Int]
    BY <1>2, <2>1
  <2> QED BY <1>5, <2>2 DEF Recharges, Numbers, Ids
<1>7. /\ Shape(u) /\ Casts(build, u) /\ Bars(build, u) /\ Levels(build, u)
      /\ Covers(u) /\ Barriers(u) /\ Suffering(u)
  BY <1>5, Frame
<1>8. Good(build, u)
  BY <1>6, <1>7 DEF Good
<1> QED BY <1>1, <1>2, <1>5, <1>8

----------------------------------------------------------------------------
\* Casts and shrouds that end before their time.

ShroudLeft(t, u) == t.shroud # None /\ u.shroud = None
CastLost(t, u) == t.cast # None /\ u.cast = None

\* Two entries of one skill.
Twin(b, i, j) == b.skills[i].id = b.skills[j].id

\* Entries that are twins in the bar under evaluation are the same skill.
LEMMA TwinSame == \A i, j : Twin(build, i, j) <=> Same(i, j)
BY DEF Twin, Same, Skill

\* The recharges u owes for what it lost since t.
Owing(b, t, u) ==
  [i \in Numbers(b) |-> IF ShroudLeft(t, u) /\ Twin(b, t.shroud.entry, i) THEN t.now + t.shroud.recharge
                        ELSE IF CastLost(t, u) /\ Twin(b, t.cast.skill, i) THEN t.now + INTERRUPT
                        ELSE t.ready[i]]

\* From t to u a cast or a shroud may have been lost, a shroud only with the cast.
Lost(b, t, u) ==
  /\ u.now = t.now /\ u.before = t.before
  /\ u.cast = t.cast \/ u.cast = None
  /\ u.shroud = t.shroud \/ u.shroud = None
  /\ u.set = IF ShroudLeft(t, u) THEN t.before ELSE t.set
  /\ u.hits = IF CastLost(t, u) THEN <<>> ELSE t.hits
  /\ ShroudLeft(t, u) => u.cast = None
  /\ u.ready = Owing(b, t, u)

Fate == {"now", "cast", "shroud", "before", "set", "hits", "ready"}

\* A handler that touches no cast and no bar loses none.
LEMMA LostFrame ==
  ASSUME NEW b, NEW t, NEW u, NEW F, Good(b, t), Only(t, u, F), F \cap Fate = {}
  PROVE  Lost(b, t, u)
<1>1. /\ u.now = t.now /\ u.cast = t.cast /\ u.shroud = t.shroud /\ u.before = t.before
      /\ u.set = t.set /\ u.hits = t.hits /\ u.ready = t.ready
  BY DEF Only, Fields, Fate
<1>2. ~ShroudLeft(t, u) /\ ~CastLost(t, u)
  BY <1>1 DEF ShroudLeft, CastLost
<1>3. t.ready = [i \in Numbers(b) |-> t.ready[i]]
  BY DEF Good, Recharges
<1>4. u.ready = Owing(b, t, u)
  BY <1>1, <1>2, <1>3 DEF Owing
<1> QED BY <1>1, <1>2, <1>4 DEF Lost

\* What two handlers in a row lose, both owe.
LEMMA LostTwice ==
  ASSUME NEW b, NEW t, NEW u, NEW v, Lost(b, t, u), Lost(b, u, v)
  PROVE  Lost(b, t, v)
<1>1. /\ u.now = t.now /\ u.before = t.before
      /\ u.cast = t.cast \/ u.cast = None
      /\ u.shroud = t.shroud \/ u.shroud = None
      /\ u.set = IF ShroudLeft(t, u) THEN t.before ELSE t.set
      /\ u.hits = IF CastLost(t, u) THEN <<>> ELSE t.hits
      /\ ShroudLeft(t, u) => u.cast = None
      /\ u.ready = Owing(b, t, u)
  BY DEF Lost
<1>2. /\ v.now = u.now /\ v.before = u.before
      /\ v.cast = u.cast \/ v.cast = None
      /\ v.shroud = u.shroud \/ v.shroud = None
      /\ v.set = IF ShroudLeft(u, v) THEN u.before ELSE u.set
      /\ v.hits = IF CastLost(u, v) THEN <<>> ELSE u.hits
      /\ ShroudLeft(u, v) => v.cast = None
      /\ v.ready = Owing(b, u, v)
  BY DEF Lost
<1>3. ShroudLeft(t, v) <=> ShroudLeft(t, u) \/ ShroudLeft(u, v)
  BY <1>1, <1>2 DEF ShroudLeft
<1>4. CastLost(t, v) <=> CastLost(t, u) \/ CastLost(u, v)
  BY <1>1, <1>2 DEF CastLost
<1>5. ShroudLeft(t, u) => ~ShroudLeft(u, v) /\ ~CastLost(u, v)
  BY <1>1, <1>2 DEF ShroudLeft, CastLost
<1>6. ShroudLeft(u, v) => u.shroud = t.shroud
  BY <1>1 DEF ShroudLeft
<1>7. CastLost(u, v) => u.cast = t.cast /\ ~CastLost(t, u)
  BY <1>1 DEF CastLost
<1>8. ASSUME NEW i \in Numbers(b) PROVE v.ready[i] = Owing(b, t, v)[i]
  <2>1. u.ready[i] = IF ShroudLeft(t, u) /\ Twin(b, t.shroud.entry, i) THEN t.now + t.shroud.recharge
                     ELSE IF CastLost(t, u) /\ Twin(b, t.cast.skill, i) THEN t.now + INTERRUPT
                     ELSE t.ready[i]
    BY <1>1, <1>8 DEF Owing
  <2>2. v.ready[i] = IF ShroudLeft(u, v) /\ Twin(b, u.shroud.entry, i) THEN u.now + u.shroud.recharge
                     ELSE IF CastLost(u, v) /\ Twin(b, u.cast.skill, i) THEN u.now + INTERRUPT
                     ELSE u.ready[i]
    BY <1>2, <1>8 DEF Owing
  <2>3. Owing(b, t, v)[i] = IF ShroudLeft(t, v) /\ Twin(b, t.shroud.entry, i) THEN t.now + t.shroud.recharge
                            ELSE IF CastLost(t, v) /\ Twin(b, t.cast.skill, i) THEN t.now + INTERRUPT
                            ELSE t.ready[i]
    BY <1>8 DEF Owing
  <2> QED BY <2>1, <2>2, <2>3, <1>1, <1>3, <1>4, <1>5, <1>6, <1>7
<1>9. v.ready = Owing(b, t, v)
  BY <1>2, <1>8 DEF Owing
<1>10. /\ v.now = t.now /\ v.before = t.before
       /\ v.cast = t.cast \/ v.cast = None
       /\ v.shroud = t.shroud \/ v.shroud = None
  BY <1>1, <1>2
<1>11. v.set = IF ShroudLeft(t, v) THEN t.before ELSE t.set
  BY <1>1, <1>2, <1>3, <1>5
<1>12. v.hits = IF CastLost(t, v) THEN <<>> ELSE t.hits
  BY <1>1, <1>2, <1>4, <1>7
<1>13. ShroudLeft(t, v) => v.cast = None
  BY <1>1, <1>2, <1>3
<1> QED BY <1>9, <1>10, <1>11, <1>12, <1>13 DEF Lost

\* A shroud is not None.
LEMMA ShroudNone == ASSUME build \in Builds, NEW s \in ShroudShapes(build) PROVE s # None
BY BuildFacts, NoneAssumption DEF ShroudShapes

\* A cast is not None.
LEMMA CastNone == ASSUME build \in Builds, NEW c \in CastShapes(build) PROVE c # None
BY BuildFacts, NoneAssumption DEF CastShapes

\* cancel_pending_cast drops the cast with its hits and owes its recharge.
LEMMA CancelSound ==
  ASSUME build \in Builds, NEW t, Good(build, t)
  PROVE  LET u == CancelPendingCast(t) IN
         /\ Good(build, u) /\ Only(t, u, {"cast", "hits", "ready"})
         /\ Lost(build, t, u) /\ u.cast = None
<1>1. PICK u : u = CancelPendingCast(t)
  OBVIOUS
<1>2. CASE t.cast = None
  <2>1. u = t
    BY <1>1, <1>2 DEF CancelPendingCast
  <2>2. Only(t, u, {})
    BY <2>1 DEF Only
  <2>3. Only(t, u, {"cast", "hits", "ready"}) /\ Lost(build, t, u)
    BY <2>2, OnlyMore, LostFrame
  <2> QED BY <1>1, <1>2, <2>1, <2>3
<1>3. CASE t.cast # None
  <2>1. t.cast \in CastShapes(build) /\ DOMAIN t = Fields /\ t.now \in Nat
    BY <1>3 DEF Good, Casts, Shape
  <2>2. PICK i : i = t.cast.skill
    OBVIOUS
  <2>3. i \in Numbers(build)
    BY <2>1, <2>2 DEF CastShapes
  <2>4. PICK v : v = [t EXCEPT !.cast = None, !.hits = <<>>]
    OBVIOUS
  <2>5. Only(t, v, {"cast", "hits"}) /\ v.cast = None /\ v.hits = <<>>
    BY <2>1, <2>4 DEF Only, Fields
  <2>6. u = SetSkillCooldown(v, i, INTERRUPT)
    BY <1>1, <1>3, <2>2, <2>4 DEF CancelPendingCast
  <2>7. v.now = t.now /\ v.ready = t.ready
    BY <2>5 DEF Only, Fields
  <2>8. Casts(build, v)
    <3>1. v.hits \in Seq(HitShapes(build))
      BY <2>5
    <3>2. DOMAIN v.hits = {}
      BY <2>5
    <3> QED BY <2>5, <3>1, <3>2 DEF Casts
  <2>9. Good(build, v)
    BY <2>5, <2>8, Frame DEF Good
  <2>10. /\ Good(build, u) /\ Only(v, u, {"ready"})
         /\ \A k \in Ids : u.ready[k] = IF Same(i, k) THEN v.now + INTERRUPT ELSE v.ready[k]
    BY <2>3, <2>6, <2>9, Amounts, SetCooldownSound DEF Numbers, Ids
  <2>11. Only(t, u, {"cast", "hits", "ready"})
    BY <2>5, <2>10 DEF Only
  <2>12. u.cast = None /\ u.hits = <<>>
    BY <2>5, <2>10 DEF Only, Fields
  <2>13. u.ready \in [Numbers(build) -> Int]
    BY <2>10 DEF Good, Recharges
  <2>15. u.now = t.now /\ u.shroud = t.shroud /\ u.before = t.before /\ u.set = t.set
    BY <2>11 DEF Only, Fields
  <2>16. CastLost(t, u) /\ ~ShroudLeft(t, u)
    BY <1>3, <2>12, <2>15 DEF CastLost, ShroudLeft
  <2>17. u.ready = Owing(build, t, u)
    <3>1. \A k \in Numbers(build) : u.ready[k] = IF Twin(build, t.cast.skill, k) THEN t.now + INTERRUPT
                                                ELSE t.ready[k]
      BY <2>2, <2>7, <2>10, TwinSame DEF Numbers, Ids
    <3>2. \A k \in Numbers(build) : u.ready[k] = Owing(build, t, u)[k]
      BY <2>16, <3>1 DEF Owing
    <3>3. DOMAIN Owing(build, t, u) = Numbers(build) /\ Owing(build, t, u) = [k \in Numbers(build) |-> Owing(build, t, u)[k]]
      BY DEF Owing
    <3> QED BY <2>13, <3>2, <3>3
  <2>18. Lost(build, t, u)
    BY <2>12, <2>15, <2>16, <2>17 DEF Lost
  <2> QED BY <1>1, <2>10, <2>11, <2>12, <2>18
<1> QED BY <1>2, <1>3

\* exit_shroud brings the saved bar back and owes the entry's recharge.
LEMMA ExitSound ==
  ASSUME build \in Builds, NEW t, Good(build, t), NEW forced \in BOOLEAN, ~forced => t.cast = None
  PROVE  LET u == ExitShroud(t, forced) IN
         /\ Good(build, u) /\ Only(t, u, {"shroud", "set", "cast", "hits", "ready"})
         /\ Lost(build, t, u) /\ u.shroud = None
<1>1. PICK u : u = ExitShroud(t, forced)
  OBVIOUS
<1>2. CASE t.shroud = None
  <2>1. u = t
    BY <1>1, <1>2 DEF ExitShroud, InShroud
  <2>2. Only(t, u, {})
    BY <2>1 DEF Only
  <2>3. Only(t, u, {"shroud", "set", "cast", "hits", "ready"}) /\ Lost(build, t, u)
    BY <2>2, OnlyMore, LostFrame
  <2> QED BY <1>1, <1>2, <2>1, <2>3
<1>3. CASE t.shroud # None
  <2>1. PICK v : v = [t EXCEPT !.shroud = None, !.set = t.before]
    OBVIOUS
  <2>2. DOMAIN t = Fields /\ t.now \in Nat /\ t.before \in 1..3 /\ t.shroud \in ShroudShapes(build)
    BY <1>3 DEF Good, Shape, Bars
  <2>3. Only(t, v, {"shroud", "set"}) /\ v.shroud = None /\ v.set = t.before
    BY <2>1, <2>2 DEF Only, Fields
  <2>4. Bars(build, v)
    <3>1. v.before = t.before
      BY <2>3 DEF Only, Fields
    <3> QED BY <2>2, <2>3, <3>1 DEF Bars
  <2>5. Good(build, v)
    BY <2>3, <2>4, Frame DEF Good
  <2>6. PICK w : w = CancelPendingCast(v)
    OBVIOUS
  <2>7. /\ Good(build, w) /\ Only(v, w, {"cast", "hits", "ready"})
        /\ Lost(build, v, w) /\ w.cast = None
    BY <2>5, <2>6, CancelSound
  <2>8. PICK i, d : i = t.shroud.entry /\ d = t.shroud.recharge
    OBVIOUS
  <2>9. i \in Ids /\ d \in Nat
    BY <2>2, <2>8 DEF ShroudShapes, Numbers, Ids
  <2>10. v.cast = t.cast /\ v.now = t.now /\ v.before = t.before /\ v.hits = t.hits /\ v.ready = t.ready
    BY <2>3 DEF Only, Fields
  <2>11. u = SetSkillCooldown(w, i, d)
    <3>1. CASE forced
      BY <1>1, <1>3, <2>1, <2>6, <2>8, <3>1 DEF ExitShroud, InShroud
    <3>2. CASE ~forced
      <4>1. w = v
        BY <2>6, <2>10, <3>2 DEF CancelPendingCast
      <4> QED BY <1>1, <1>3, <2>1, <2>8, <3>2, <4>1 DEF ExitShroud, InShroud
    <3> QED BY <3>1, <3>2
  <2>12. /\ Good(build, u) /\ Only(w, u, {"ready"})
         /\ \A k \in Ids : u.ready[k] = IF Same(i, k) THEN w.now + d ELSE w.ready[k]
    BY <2>7, <2>9, <2>11, SetCooldownSound
  <2>13. Only(t, u, {"shroud", "set", "cast", "hits", "ready"})
    BY <2>3, <2>7, <2>12, OnlyMore, OnlyTwice
  <2>14. u.cast = None /\ u.hits = w.hits /\ u.shroud = None /\ u.set = t.before
    BY <2>3, <2>7, <2>12 DEF Only, Fields
  <2>15. u.now = t.now /\ u.before = t.before
    BY <2>13 DEF Only, Fields
  <2>16. ShroudLeft(t, u) /\ (CastLost(t, u) <=> CastLost(v, w)) /\ ~ShroudLeft(v, w)
    BY <1>3, <2>3, <2>7, <2>10, <2>14 DEF ShroudLeft, CastLost
  <2>17. u.hits = IF CastLost(t, u) THEN <<>> ELSE t.hits
    BY <2>7, <2>10, <2>14, <2>16 DEF Lost
  <2>18. w.ready = [k \in Numbers(build) |-> IF CastLost(t, u) /\ Twin(build, t.cast.skill, k)
                                             THEN t.now + INTERRUPT ELSE t.ready[k]]
    BY <2>7, <2>10, <2>16 DEF Lost, Owing
  <2>19. w.now = t.now
    BY <2>7, <2>10 DEF Lost
  <2>20. u.ready = Owing(build, t, u)
    <3>1. \A k \in Numbers(build) : u.ready[k] = IF Twin(build, i, k) THEN t.now + d ELSE w.ready[k]
      BY <2>12, <2>19, TwinSame DEF Numbers, Ids
    <3>2. \A k \in Numbers(build) : u.ready[k] = Owing(build, t, u)[k]
      BY <2>8, <2>16, <2>18, <3>1 DEF Owing
    <3>3. u.ready \in [Numbers(build) -> Int]
      BY <2>12 DEF Good, Recharges
    <3>4. Owing(build, t, u) = [k \in Numbers(build) |-> Owing(build, t, u)[k]]
      BY DEF Owing
    <3> QED BY <3>2, <3>3, <3>4
  <2>21. Lost(build, t, u)
    BY <2>14, <2>15, <2>16, <2>17, <2>20 DEF Lost
  <2> QED BY <1>1, <2>12, <2>13, <2>14, <2>21
<1> QED BY <1>2, <1>3

\* enter_shroud saves the bar it finds.
LEMMA EnterSound ==
  ASSUME build \in Builds, NEW t, Good(build, t), NEW i \in Ids
  PROVE  LET u == EnterShroud(t, i) IN
         /\ Good(build, u) /\ Only(t, u, {"before", "set", "shroud"})
         /\ u.before = t.set /\ u.set = SHROUD_SET /\ u.shroud # None
<1>1. PICK u : u = EnterShroud(t, i)
  OBVIOUS
<1>2. PICK s : s = [entry |-> i, drain |-> Skill(i).drain, exposed |-> Skill(i).exposed,
                    recharge |-> Skill(i).cooldown]
  OBVIOUS
<1>3. s \in ShroudShapes(build)
  BY <1>2, SkillFacts DEF ShroudShapes, Numbers, Ids
<1>4. u = [t EXCEPT !.before = t.set, !.set = SHROUD_SET, !.shroud = s]
  BY <1>1, <1>2 DEF EnterShroud
<1>5. DOMAIN t = Fields /\ t.set \in 1..3
  BY DEF Good, Shape, Bars
<1>6. Only(t, u, {"before", "set", "shroud"}) /\ u.before = t.set /\ u.set = SHROUD_SET /\ u.shroud = s
  BY <1>4, <1>5 DEF Only, Fields
<1>7. Bars(build, u)
  BY <1>3, <1>5, <1>6 DEF Bars, SHROUD_SET
<1>8. Good(build, u)
  BY <1>6, <1>7, Frame DEF Good
<1> QED BY <1>1, <1>3, <1>6, <1>8, ShroudNone

----------------------------------------------------------------------------
\* What the folds compute.

Summing(none, sum, layer) == sum + layer.amount
Whole(none, sum, k) == sum \in Nat
Summed == INSTANCE FoldFacts WITH Step <- Summing, Keeps <- Whole

\* The sum of the barrier layers, one layer after another.
LEMMA SumTrace ==
  ASSUME NEW layers \in Seq(Layers)
  PROVE  \E sums : /\ sums[0] = 0 /\ sums[Len(layers)] = BarrierLeft(layers)
                   /\ \A k \in 0 .. Len(layers) - 1 : sums[k + 1] = sums[k] + layers[k + 1].amount
<1>1. DOMAIN layers = 1 .. Len(layers) /\ Len(layers) \in Nat
  OBVIOUS
<1>2. PICK sums : Summed!Traces(sums, None, 0, layers, Len(layers))
  BY <1>1, Summed!FoldTrace
<1>3. BarrierLeft(layers) = Summed!Fold(None, 0, layers)
  BY DEF BarrierLeft, Summing, Summed!Fold, FoldLeft, Summed!FoldLeft, MapThenFoldSet,
         Summed!MapThenFoldSet, Max, Summed!Max
<1> QED BY <1>2, <1>3 DEF Summed!Traces, Summing

\* Vec::retain, one entry after another.
LEMMA RetainTrace ==
  ASSUME NEW T, NEW seq \in Seq(T), NEW kept
  PROVE  \E got : /\ got[0] = <<>> /\ got[Len(seq)] = Retain(seq, kept)
                  /\ \A k \in 0 .. Len(seq) - 1 :
                       got[k + 1] = IF seq[k + 1] \in kept THEN Append(got[k], seq[k + 1]) ELSE got[k]
<1>1. DOMAIN seq = 1 .. Len(seq) /\ Len(seq) \in Nat
  OBVIOUS
<1>2. PICK got : Retained!Traces(got, kept, <<>>, seq, Len(seq))
  BY <1>1, Retained!FoldTrace
<1> QED BY <1>2, RetainIsFold DEF Retained!Traces, Retaining

\* Induction over the numbers up to n.
LEMMA Climb ==
  ASSUME NEW n \in Nat, NEW S, 0 \in S, \A k \in 0 .. n - 1 : k \in S => k + 1 \in S
  PROVE  n \in S
<1>1. \A k \in Nat : k < n /\ k \in S => k + 1 \in S
  OBVIOUS
<1>2. n \in 0 .. n
  OBVIOUS
<1> QED BY <1>1, <1>2, Summed!Upto

\* The types of a layer of barrier.
LEMMA LayerFacts ==
  ASSUME NEW layers \in Seq(Layers), NEW k \in 1 .. Len(layers)
  PROVE  layers[k] \in Layers /\ layers[k].amount \in Nat
<1>1. layers[k] \in Layers
  OBVIOUS
<1> QED BY <1>1 DEF Layers

\* The barrier left is natural.
LEMMA BarrierNat ==
  ASSUME NEW layers \in Seq(Layers)
  PROVE  BarrierLeft(layers) \in Nat
<1>1. PICK sums : /\ sums[0] = 0 /\ sums[Len(layers)] = BarrierLeft(layers)
                  /\ \A k \in 0 .. Len(layers) - 1 : sums[k + 1] = sums[k] + layers[k + 1].amount
  BY SumTrace
<1>2. PICK n \in Nat : n = Len(layers)
  OBVIOUS
<1>3. PICK S : S = {k \in 0 .. n : sums[k] \in Nat}
  OBVIOUS
<1>4. 0 \in S
  BY <1>1, <1>3
<1>5. ASSUME NEW k \in 0 .. n - 1, k \in S PROVE k + 1 \in S
  <2>1. k + 1 \in 1 .. n /\ k + 1 \in 0 .. n /\ sums[k] \in Nat
    BY <1>3, <1>5
  <2>2. sums[k + 1] = sums[k] + layers[k + 1].amount /\ layers[k + 1].amount \in Nat
    BY <1>1, <1>2, <2>1, LayerFacts
  <2> QED BY <1>3, <2>1, <2>2
<1>6. n \in S
  BY <1>4, <1>5, Climb
<1> QED BY <1>1, <1>2, <1>3, <1>6

\* Fewer or thinner layers, layer by layer, are no more barrier.
LEMMA BarrierBelow ==
  ASSUME NEW layers \in Seq(Layers), NEW worn \in Seq(Layers), Len(worn) = Len(layers),
         \A k \in 1 .. Len(layers) : worn[k].amount <= layers[k].amount
  PROVE  BarrierLeft(worn) <= BarrierLeft(layers)
<1>1. PICK n \in Nat : n = Len(layers) /\ n = Len(worn)
  OBVIOUS
<1>2. PICK sums : /\ sums[0] = 0 /\ sums[n] = BarrierLeft(layers)
                  /\ \A k \in 0 .. n - 1 : sums[k + 1] = sums[k] + layers[k + 1].amount
  BY <1>1, SumTrace
<1>3. PICK left : /\ left[0] = 0 /\ left[n] = BarrierLeft(worn)
                  /\ \A k \in 0 .. n - 1 : left[k + 1] = left[k] + worn[k + 1].amount
  BY <1>1, SumTrace
<1>4. PICK S : S = {k \in 0 .. n : sums[k] \in Nat /\ left[k] \in Nat /\ left[k] <= sums[k]}
  OBVIOUS
<1>5. 0 \in S
  BY <1>2, <1>3, <1>4
<1>6. ASSUME NEW k \in 0 .. n - 1, k \in S PROVE k + 1 \in S
  <2>1. /\ k + 1 \in 1 .. n /\ k + 1 \in 0 .. n
        /\ sums[k] \in Nat /\ left[k] \in Nat /\ left[k] <= sums[k]
    BY <1>4, <1>6
  <2>2. sums[k + 1] = sums[k] + layers[k + 1].amount /\ left[k + 1] = left[k] + worn[k + 1].amount
    BY <1>2, <1>3
  <2>3. layers[k + 1].amount \in Nat /\ worn[k + 1].amount \in Nat
        /\ worn[k + 1].amount <= layers[k + 1].amount
    BY <1>1, <2>1, LayerFacts
  <2> QED BY <1>4, <2>1, <2>2, <2>3
<1>7. n \in S
  BY <1>5, <1>6, Climb
<1> QED BY <1>2, <1>3, <1>4, <1>7

\* A layer adds its amount to the barrier.
LEMMA BarrierAppend ==
  ASSUME NEW layers \in Seq(Layers), NEW layer \in Layers
  PROVE  BarrierLeft(Append(layers, layer)) = BarrierLeft(layers) + layer.amount
<1>1. PICK n \in Nat : n = Len(layers)
  OBVIOUS
<1>2. PICK more : more = Append(layers, layer)
  OBVIOUS
<1>3. /\ more \in Seq(Layers) /\ Len(more) = n + 1 /\ more[n + 1] = layer
      /\ \A k \in 1 .. n : more[k] = layers[k]
  BY <1>1, <1>2, AppendProperties
<1>4. PICK sums : /\ sums[0] = 0 /\ sums[n] = BarrierLeft(layers)
                  /\ \A k \in 0 .. n - 1 : sums[k + 1] = sums[k] + layers[k + 1].amount
  BY <1>1, SumTrace
<1>5. PICK longer : /\ longer[0] = 0 /\ longer[n + 1] = BarrierLeft(more)
                    /\ \A k \in 0 .. n : longer[k + 1] = longer[k] + more[k + 1].amount
  <2>1. PICK m \in Nat : m = Len(more)
    BY <1>3
  <2>2. PICK longer : /\ longer[0] = 0 /\ longer[m] = BarrierLeft(more)
                      /\ \A k \in 0 .. m - 1 : longer[k + 1] = longer[k] + more[k + 1].amount
    BY <1>3, <2>1, SumTrace
  <2>3. m = n + 1 /\ 0 .. m - 1 = 0 .. n
    BY <1>3, <2>1
  <2> QED BY <2>2, <2>3
<1>6. PICK S : S = {k \in 0 .. n : longer[k] = sums[k]}
  OBVIOUS
<1>7. 0 \in S
  BY <1>4, <1>5, <1>6
<1>8. ASSUME NEW k \in 0 .. n - 1, k \in S PROVE k + 1 \in S
  <2>1. k + 1 \in 1 .. n /\ k + 1 \in 0 .. n /\ k \in 0 .. n /\ longer[k] = sums[k]
    BY <1>6, <1>8
  <2>2. more[k + 1] = layers[k + 1]
    BY <1>3, <2>1
  <2> QED BY <1>4, <1>5, <1>6, <2>1, <2>2
<1>9. n \in S
  BY <1>7, <1>8, Climb
<1>10. longer[n + 1] = longer[n] + layer.amount
  BY <1>3, <1>5
<1> QED BY <1>2, <1>4, <1>5, <1>6, <1>9, <1>10

\* Dropping layers never adds barrier.
LEMMA BarrierRetain ==
  ASSUME NEW layers \in Seq(Layers), NEW kept
  PROVE  Retain(layers, kept) \in Seq(Layers) /\ BarrierLeft(Retain(layers, kept)) <= BarrierLeft(layers)
<1>1. PICK n \in Nat : n = Len(layers)
  OBVIOUS
<1>2. PICK sums : /\ sums[0] = 0 /\ sums[n] = BarrierLeft(layers)
                  /\ \A k \in 0 .. n - 1 : sums[k + 1] = sums[k] + layers[k + 1].amount
  BY <1>1, SumTrace
<1>3. PICK got : /\ got[0] = <<>> /\ got[n] = Retain(layers, kept)
                 /\ \A k \in 0 .. n - 1 :
                      got[k + 1] = IF layers[k + 1] \in kept THEN Append(got[k], layers[k + 1]) ELSE got[k]
  BY <1>1, RetainTrace
<1>4. PICK S : S = {k \in 0 .. n : sums[k] \in Nat /\ got[k] \in Seq(Layers) /\ BarrierLeft(got[k]) <= sums[k]}
  OBVIOUS
<1>5. 0 \in S
  <2>1. <<>> \in Seq(Layers) /\ Len(<<>>) = 0
    OBVIOUS
  <2>2. BarrierLeft(<<>>) = 0
    BY <2>1, SumTrace
  <2>3. got[0] \in Seq(Layers) /\ BarrierLeft(got[0]) = 0
    BY <1>3, <2>1, <2>2
  <2>4. 0 \in 0 .. n /\ sums[0] = 0
    BY <1>2
  <2> QED BY <1>4, <2>3, <2>4
<1>6. ASSUME NEW k \in 0 .. n - 1, k \in S PROVE k + 1 \in S
  <2>1. /\ k + 1 \in 1 .. n /\ k + 1 \in 0 .. n
        /\ sums[k] \in Nat /\ got[k] \in Seq(Layers) /\ BarrierLeft(got[k]) <= sums[k]
    BY <1>4, <1>6
  <2>2. PICK layer : layer = layers[k + 1]
    OBVIOUS
  <2>3. layer \in Layers /\ layer.amount \in Nat
    BY <1>1, <2>1, <2>2, LayerFacts
  <2>4. sums[k + 1] = sums[k] + layer.amount
    BY <1>2, <2>2
  <2>5. PICK g, b : g = got[k] /\ b = BarrierLeft(g)
    OBVIOUS
  <2>6. g \in Seq(Layers) /\ b \in Nat /\ b <= sums[k]
    BY <2>1, <2>5, BarrierNat
  <2>7. Append(g, layer) \in Seq(Layers) /\ BarrierLeft(Append(g, layer)) = b + layer.amount
    BY <2>3, <2>5, <2>6, AppendProperties, BarrierAppend
  <2>8. got[k + 1] = Append(g, layer) \/ got[k + 1] = g
    BY <1>3, <2>2, <2>5
  <2>9. got[k + 1] \in Seq(Layers) /\ BarrierLeft(got[k + 1]) <= sums[k + 1] /\ sums[k + 1] \in Nat
    <3>1. CASE got[k + 1] = Append(g, layer)
      BY <2>1, <2>3, <2>4, <2>6, <2>7, <3>1
    <3>2. CASE got[k + 1] = g
      BY <2>1, <2>3, <2>4, <2>5, <2>6, <3>2
    <3> QED BY <2>8, <3>1, <3>2
  <2> QED BY <1>4, <2>1, <2>9
<1>7. n \in S
  BY <1>5, <1>6, Climb
<1> QED BY <1>2, <1>3, <1>4, <1>7

\* Retaining covers keeps them of different kinds.
LEMMA RetainCovers ==
  ASSUME NEW all, Covering(all), NEW kept
  PROVE  Covering(Retain(all, kept))
<1>0. /\ all \in Seq(Defenses)
      /\ \A i, j \in DOMAIN all : all[i].kind = all[j].kind => i = j
  BY DEF Covering
<1>1. PICK n \in Nat : n = Len(all)
  BY <1>0
<1>2. DOMAIN all = 1 .. n
  BY <1>0, <1>1
<1>4. PICK got : /\ got[0] = <<>> /\ got[n] = Retain(all, kept)
                 /\ \A k \in 0 .. n - 1 :
                      got[k + 1] = IF all[k + 1] \in kept THEN Append(got[k], all[k + 1]) ELSE got[k]
  BY <1>0, <1>1, RetainTrace
<1>5. PICK S : S = {k \in 0 .. n :
                      /\ got[k] \in Seq(Defenses)
                      /\ \A i \in 1 .. Len(got[k]) : \E m \in 1 .. k : got[k][i] = all[m]
                      /\ \A i, j \in 1 .. Len(got[k]) : got[k][i].kind = got[k][j].kind => i = j}
  OBVIOUS
<1>6. 0 \in S
  <2>1. <<>> \in Seq(Defenses) /\ 1 .. Len(<<>>) = {}
    OBVIOUS
  <2>2. got[0] \in Seq(Defenses) /\ 1 .. Len(got[0]) = {}
    BY <1>4, <2>1
  <2>3. 0 \in 0 .. n
    OBVIOUS
  <2> QED BY <1>5, <2>2, <2>3
<1>7. ASSUME NEW k \in 0 .. n - 1, k \in S PROVE k + 1 \in S
  <2>1. PICK g : g = got[k]
    OBVIOUS
  <2>2. /\ k + 1 \in 1 .. n /\ k + 1 \in 0 .. n /\ g \in Seq(Defenses)
        /\ \A i \in 1 .. Len(g) : \E m \in 1 .. k : g[i] = all[m]
        /\ \A i, j \in 1 .. Len(g) : g[i].kind = g[j].kind => i = j
    BY <1>5, <1>7, <2>1
  <2>3. CASE all[k + 1] \notin kept
    <3>1. got[k + 1] = g
      BY <1>4, <2>1, <2>3
    <3>2. \A i \in 1 .. Len(g) : \E m \in 1 .. k + 1 : g[i] = all[m]
      BY <2>2
    <3> QED BY <1>5, <2>2, <3>1, <3>2
  <2>4. CASE all[k + 1] \in kept
    <3>1. PICK h, d : h = Append(g, d) /\ d = all[k + 1]
      OBVIOUS
    <3>2. got[k + 1] = h /\ d \in Defenses
      <4>1. got[k + 1] = h
        BY <1>4, <2>1, <2>4, <3>1
      <4>2. d \in Defenses
        BY <1>0, <1>1, <2>2, <3>1
      <4> QED BY <4>1, <4>2
    <3>3. PICK l \in Nat : l = Len(g)
      BY <2>2
    <3>4. /\ h \in Seq(Defenses) /\ Len(h) = l + 1 /\ h[l + 1] = d
          /\ \A i \in 1 .. l : h[i] = g[i]
      BY <2>2, <3>1, <3>2, <3>3, AppendProperties
    <3>5. ASSUME NEW i \in 1 .. l + 1 PROVE \E m \in 1 .. k + 1 : h[i] = all[m]
      <4>1. CASE i = l + 1
        BY <3>1, <3>4, <4>1
      <4>2. CASE i \in 1 .. l
        BY <2>2, <3>3, <3>4, <4>2
      <4> QED BY <4>1, <4>2
    <3>6. ASSUME NEW i \in 1 .. l PROVE h[i].kind # d.kind
      <4>1. PICK m \in 1 .. k : h[i] = all[m]
        BY <2>2, <3>3, <3>4
      <4>2. m \in 1 .. n /\ m # k + 1
        BY <2>2
      <4> QED BY <1>0, <1>2, <2>2, <3>1, <4>1, <4>2
    <3>7. ASSUME NEW i \in 1 .. l + 1, NEW j \in 1 .. l + 1, h[i].kind = h[j].kind PROVE i = j
      <4>1. CASE i \in 1 .. l /\ j \in 1 .. l
        BY <2>2, <3>3, <3>4, <3>7, <4>1
      <4>2. CASE i = l + 1 /\ j = l + 1
        BY <4>2
      <4>3. CASE i = l + 1 /\ j \in 1 .. l
        BY <3>4, <3>6, <3>7, <4>3
      <4>4. CASE i \in 1 .. l /\ j = l + 1
        BY <3>4, <3>6, <3>7, <4>4
      <4> QED BY <4>1, <4>2, <4>3, <4>4
    <3>8. /\ \A i \in 1 .. Len(h) : \E m \in 1 .. k + 1 : h[i] = all[m]
          /\ \A i, j \in 1 .. Len(h) : h[i].kind = h[j].kind => i = j
      BY <3>4, <3>5, <3>7
    <3> QED BY <1>5, <2>2, <3>2, <3>4, <3>8
  <2> QED BY <2>3, <2>4
<1>8. n \in S
  BY <1>6, <1>7, Climb
<1>9. PICK left : left = Retain(all, kept) /\ left = got[n]
  BY <1>4
<1>10. /\ left \in Seq(Defenses)
       /\ \A i, j \in 1 .. Len(left) : left[i].kind = left[j].kind => i = j
  <2>1. /\ got[n] \in Seq(Defenses)
        /\ \A i, j \in 1 .. Len(got[n]) : got[n][i].kind = got[n][j].kind => i = j
    BY <1>5, <1>8
  <2> QED BY <1>9, <2>1
<1>11. DOMAIN left = 1 .. Len(left)
  BY <1>10
<1> QED BY <1>9, <1>10, <1>11 DEF Covering

----------------------------------------------------------------------------
\* Cover, buffs, health and barrier.

\* A handler that sets the cover alone.
LEMMA DefensesSet ==
  ASSUME build \in Builds, NEW t, Good(build, t), NEW ds, Covering(ds),
         NEW u, u = [t EXCEPT !.defenses = ds]
  PROVE  Good(build, u) /\ Only(t, u, {"defenses"})
<1>1. DOMAIN t = Fields
  BY DEF Good, Shape
<1>2. Only(t, u, {"defenses"}) /\ u.defenses = ds
  BY <1>1 DEF Only, Fields
<1>3. Covers(u)
  BY <1>2 DEF Covers
<1> QED BY <1>2, <1>3, Frame DEF Good

\* One entry of the cover changes, but not its kind.
LEMMA CoverChanged ==
  ASSUME NEW all, Covering(all), NEW i \in DOMAIN all, NEW d \in Defenses, d.kind = all[i].kind
  PROVE  Covering([all EXCEPT ![i] = d])
<1>1. /\ all \in Seq(Defenses)
      /\ \A j, k \in DOMAIN all : all[j].kind = all[k].kind => j = k
  BY DEF Covering
<1>2. PICK ds : ds = [all EXCEPT ![i] = d]
  OBVIOUS
<1>3. ds \in Seq(Defenses) /\ DOMAIN ds = DOMAIN all
  BY <1>1, <1>2
<1>4. \A j \in DOMAIN all : ds[j].kind = all[j].kind
  BY <1>2
<1>5. \A j, k \in DOMAIN ds : ds[j].kind = ds[k].kind => j = k
  BY <1>1, <1>3, <1>4
<1> QED BY <1>2, <1>3, <1>5 DEF Covering

\* apply_defense keeps one entry of each kind.
LEMMA ApplyDefenseSound ==
  ASSUME build \in Builds, NEW t, Good(build, t), NEW kind \in Cover, NEW duration \in Nat,
         NEW stacks \in Nat, NEW strippable \in BOOLEAN
  PROVE  LET u == ApplyDefense(t, kind, duration, stacks, strippable) IN
         Good(build, u) /\ Only(t, u, {"defenses"})
<1>1. PICK u : u = ApplyDefense(t, kind, duration, stacks, strippable)
  OBVIOUS
<1>2. PICK all, old : all = t.defenses /\ old = {i \in DOMAIN all : all[i].kind = kind}
  OBVIOUS
<1>3. Covering(all) /\ all \in Seq(Defenses) /\ t.now \in Nat
  BY <1>2 DEF Good, Covers, Covering, Shape
<1>4. CASE old # {}
  <2>1. PICK i : i = CHOOSE h \in old : TRUE
    OBVIOUS
  <2>2. i \in DOMAIN all /\ all[i].kind = kind
    BY <1>2, <1>4, <2>1
  <2>3. PICK d : d = [all[i] EXCEPT !.expires = Most(@, t.now + duration),
                                    !.stacks = Most(@, stacks),
                                    !.strippable = @ /\ strippable]
    OBVIOUS
  <2>4. u = [t EXCEPT !.defenses = [all EXCEPT ![i] = d]]
    BY <1>1, <1>2, <1>4, <2>1, <2>3 DEF ApplyDefense
  <2>5. all[i] \in Defenses
    BY <1>3, <2>2
  <2>6. d \in Defenses /\ d.kind = all[i].kind
    <3>1. PICK was : was = all[i]
      OBVIOUS
    <3>2. was \in Defenses /\ was.expires \in Nat /\ was.stacks \in Nat /\ was.strippable \in BOOLEAN
      BY <2>5, <3>1 DEF Defenses
    <3>3. PICK e, s, b : /\ e = Most(was.expires, t.now + duration) /\ s = Most(was.stacks, stacks)
                         /\ b = (was.strippable /\ strippable)
      OBVIOUS
    <3>4. e \in Nat /\ s \in Nat
      BY <1>3, <3>2, <3>3 DEF Most
    <3>5. b \in BOOLEAN
      BY <3>2, <3>3
    <3>6. d = [was EXCEPT !.expires = e, !.stacks = s, !.strippable = b]
      BY <2>3, <3>1, <3>3
    <3>7. d \in Defenses /\ d.kind = was.kind
      BY <3>2, <3>4, <3>5, <3>6 DEF Defenses
    <3> QED BY <3>1, <3>7
  <2>7. Covering([all EXCEPT ![i] = d])
    BY <1>3, <2>2, <2>6, CoverChanged
  <2> QED BY <1>1, <2>4, <2>7, DefensesSet
<1>5. CASE old = {}
  <2>1. PICK d : d = [kind |-> kind, expires |-> t.now + duration, stacks |-> stacks,
                      strippable |-> strippable, applied |-> t.now]
    OBVIOUS
  <2>2. d \in Defenses /\ d.kind = kind
    BY <1>3, <2>1 DEF Defenses
  <2>3. PICK ds : ds = Append(all, d)
    OBVIOUS
  <2>4. u = [t EXCEPT !.defenses = ds]
    BY <1>1, <1>2, <1>5, <2>1, <2>3 DEF ApplyDefense
  <2>5. PICK n \in Nat : n = Len(all)
    BY <1>3
  <2>6. /\ ds \in Seq(Defenses) /\ Len(ds) = n + 1 /\ ds[n + 1] = d
        /\ \A i \in 1 .. n : ds[i] = all[i]
    BY <1>3, <2>2, <2>3, <2>5, AppendProperties
  <2>7. DOMAIN ds = 1 .. n + 1 /\ DOMAIN all = 1 .. n
    BY <1>3, <2>5, <2>6
  <2>8. \A i \in 1 .. n : all[i].kind # kind
    BY <1>2, <1>5, <2>7
  <2>9. \A i, j \in 1 .. n : all[i].kind = all[j].kind => i = j
    BY <1>3, <2>7 DEF Covering
  <2>10. ASSUME NEW i \in 1 .. n + 1, NEW j \in 1 .. n + 1, ds[i].kind = ds[j].kind PROVE i = j
    <3>1. CASE i \in 1 .. n /\ j \in 1 .. n
      BY <2>6, <2>9, <2>10, <3>1
    <3>2. CASE i = n + 1 /\ j \in 1 .. n
      BY <2>2, <2>6, <2>8, <2>10, <3>2
    <3>3. CASE i \in 1 .. n /\ j = n + 1
      BY <2>2, <2>6, <2>8, <2>10, <3>3
    <3> QED BY <3>1, <3>2, <3>3
  <2>11. Covering(ds)
    BY <2>6, <2>7, <2>10 DEF Covering
  <2> QED BY <1>1, <2>4, <2>11, DefensesSet
<1> QED BY <1>4, <1>5

\* remove_defense keeps one entry of each kind.
LEMMA RemoveDefenseSound ==
  ASSUME build \in Builds, NEW t, Good(build, t), NEW kind
  PROVE  Good(build, RemoveDefense(t, kind)) /\ Only(t, RemoveDefense(t, kind), {"defenses"})
<1>1. PICK kept : kept = {d \in Range(t.defenses) : d.kind # kind}
  OBVIOUS
<1>2. PICK ds : ds = Retain(t.defenses, kept)
  OBVIOUS
<1>3. RemoveDefense(t, kind) = [t EXCEPT !.defenses = ds]
  BY <1>1, <1>2 DEF RemoveDefense
<1>4. Covering(ds)
  BY <1>2, RetainCovers DEF Good, Covers
<1> QED BY <1>3, <1>4, DefensesSet

\* consume_defense spends one charge and drops an entry without any.
LEMMA ConsumeDefenseSound ==
  ASSUME build \in Builds, NEW t, Good(build, t), NEW kind, Has(t, kind)
  PROVE  Good(build, ConsumeDefense(t, kind)) /\ Only(t, ConsumeDefense(t, kind), {"defenses"})
<1>1. PICK i : i = CHOOSE h \in DOMAIN t.defenses : t.defenses[h].kind = kind
  OBVIOUS
<1>2. i \in DOMAIN t.defenses
  BY <1>1 DEF Has
<1>3. Covering(t.defenses) /\ t.defenses[i] \in Defenses
  BY <1>2 DEF Good, Covers, Covering
<1>4. CASE t.defenses[i].stacks > 1
  <2>1. PICK d : d = [t.defenses[i] EXCEPT !.stacks = @ - 1]
    OBVIOUS
  <2>2. ConsumeDefense(t, kind) = [t EXCEPT !.defenses = [t.defenses EXCEPT ![i] = d]]
    BY <1>1, <1>4, <2>1 DEF ConsumeDefense
  <2>3. d \in Defenses /\ d.kind = t.defenses[i].kind
    BY <1>3, <1>4, <2>1 DEF Defenses
  <2>4. Covering([t.defenses EXCEPT ![i] = d])
    BY <1>2, <1>3, <2>3, CoverChanged
  <2> QED BY <2>2, <2>4, DefensesSet
<1>5. CASE ~(t.defenses[i].stacks > 1)
  <2>1. ConsumeDefense(t, kind) = RemoveDefense(t, kind)
    BY <1>1, <1>5 DEF ConsumeDefense
  <2> QED BY <2>1, RemoveDefenseSound
<1> QED BY <1>4, <1>5

\* apply_buff writes the buffs, and the cover of a boon that covers.
LEMMA BuffSound ==
  ASSUME build \in Builds, NEW t, Good(build, t), NEW name, NEW stacks \in Nat, NEW duration \in Nat
  PROVE  Good(build, ApplyBuff(t, name, stacks, duration))
         /\ Only(t, ApplyBuff(t, name, stacks, duration), {"buffs", "defenses"})
<1>1. PICK v : v = [t EXCEPT !.buffs = @ \cup {[name |-> name, expires |-> t.now + duration]}]
  OBVIOUS
<1>2. DOMAIN t = Fields
  BY DEF Good, Shape
<1>3. Only(t, v, {"buffs"})
  BY <1>1, <1>2 DEF Only, Fields
<1>4. Good(build, v)
  BY <1>3, Frame DEF Good
<1>5. PICK u : u = ApplyBuff(t, name, stacks, duration)
  OBVIOUS
<1>6. CASE name \in {"Stability", "Aegis", "Protection", "Resistance"}
  <2>1. u = ApplyDefense(v, name, duration, stacks, TRUE)
    BY <1>1, <1>5, <1>6 DEF ApplyBuff
  <2>2. name \in Cover
    BY <1>6 DEF Cover
  <2>3. Good(build, u) /\ Only(v, u, {"defenses"})
    BY <1>4, <2>1, <2>2, ApplyDefenseSound
  <2> QED BY <1>3, <1>5, <2>3 DEF Only
<1>7. CASE name \notin {"Stability", "Aegis", "Protection", "Resistance"}
  <2>1. u = v
    BY <1>1, <1>5, <1>7 DEF ApplyBuff
  <2> QED BY <1>3, <1>4, <1>5, <2>1 DEF Only
<1> QED BY <1>6, <1>7

\* A handler that sets the health alone.
LEMMA HealthSet ==
  ASSUME build \in Builds, NEW t, Good(build, t), NEW h \in 0..MaxHealth,
         NEW u, u = [t EXCEPT !.health = h]
  PROVE  Good(build, u) /\ Only(t, u, {"health"}) /\ u.health = h
<1>1. DOMAIN t = Fields
  BY DEF Good, Shape
<1>2. Only(t, u, {"health"}) /\ u.health = h
  BY <1>1 DEF Only, Fields
<1>3. u.pool = t.pool /\ u.upkeep = t.upkeep /\ u.endurance = t.endurance
  BY <1>1 DEF Fields
<1>4. Levels(build, u)
  BY <1>2, <1>3 DEF Good, Levels
<1> QED BY <1>2, <1>4, Frame DEF Good

\* heal stops at full health and brings nobody down.
LEMMA HealSound ==
  ASSUME build \in Builds, NEW t, Good(build, t), NEW amount \in Nat
  PROVE  LET u == Heal(t, amount) IN
         Good(build, u) /\ Only(t, u, {"health"}) /\ (t.health > 0 => u.health > 0)
<1>1. CASE InShroud(t) /\ ~t.shroud.exposed
  <2>1. Heal(t, amount) = t
    BY <1>1 DEF Heal
  <2> QED BY <2>1 DEF Only
<1>2. CASE ~(InShroud(t) /\ ~t.shroud.exposed)
  <2>1. PICK h : h = Least(t.health + amount, MaxHealth)
    OBVIOUS
  <2>2. Heal(t, amount) = [t EXCEPT !.health = h]
    BY <1>2, <2>1 DEF Heal
  <2>3. h \in 0..MaxHealth /\ (t.health > 0 => h > 0)
    BY <2>1, LevelFacts, Amounts DEF Least
  <2> QED BY <2>2, <2>3, HealthSet
<1> QED BY <1>1, <1>2

\* A periodic heal touches the health and its own clock.
LEMMA PulseSound ==
  ASSUME build \in Builds, NEW t, Good(build, t)
  PROVE  Good(build, TriggerPeriodic(t)) /\ Only(t, TriggerPeriodic(t), {"pulseReady", "health"})
<1>1. PICK u : u = TriggerPeriodic(t)
  OBVIOUS
<1>2. PICK v : v = [t EXCEPT !.pulseReady = t.now + build.pulse.every]
  OBVIOUS
<1>3. DOMAIN t = Fields
  BY DEF Good, Shape
<1>4. Only(t, v, {"pulseReady"})
  BY <1>2, <1>3 DEF Only, Fields
<1>5. Good(build, v)
  BY <1>4, Frame DEF Good
<1>6. PICK w : w = Heal(v, build.pulse.amount)
  OBVIOUS
<1>7. Good(build, w) /\ Only(v, w, {"health"})
  BY <1>5, <1>6, BuildFacts, HealSound
<1>8. Only(t, w, {"pulseReady", "health"})
  BY <1>4, <1>7 DEF Only
<1>9. u = t \/ u = w
  BY <1>1, <1>2, <1>6 DEF TriggerPeriodic
<1>10. Only(t, t, {"pulseReady", "health"})
  BY DEF Only
<1> QED BY <1>1, <1>7, <1>8, <1>9, <1>10

\* A handler that sets the barrier alone.
LEMMA BarrierSet ==
  ASSUME build \in Builds, NEW t, Good(build, t), NEW layers \in Seq(Layers),
         BarrierLeft(layers) <= BARRIER_CAP, NEW u, u = [t EXCEPT !.barrier = layers]
  PROVE  Good(build, u) /\ Only(t, u, {"barrier"})
<1>1. DOMAIN t = Fields
  BY DEF Good, Shape
<1>2. Only(t, u, {"barrier"}) /\ u.barrier = layers
  BY <1>1 DEF Only, Fields
<1>3. Barriers(u)
  BY <1>2 DEF Barriers
<1> QED BY <1>2, <1>3, Frame DEF Good

\* apply_barrier stops at the cap of barrier.
LEMMA ApplyBarrierSound ==
  ASSUME build \in Builds, NEW t, Good(build, t), NEW amount \in Nat
  PROVE  Good(build, ApplyBarrier(t, amount)) /\ Only(t, ApplyBarrier(t, amount), {"barrier"})
<1>1. PICK had : had = BarrierLeft(t.barrier)
  OBVIOUS
<1>2. t.barrier \in Seq(Layers) /\ had \in Nat /\ had <= BARRIER_CAP /\ t.now \in Nat
  BY <1>1, BarrierNat DEF Good, Barriers, Shape
<1>3. PICK applied : applied = Least(amount, Most(BARRIER_CAP - had, 0))
  OBVIOUS
<1>4. applied \in Nat /\ had + applied <= BARRIER_CAP
  BY <1>2, <1>3, Amounts DEF Least, Most
<1>5. CASE applied = 0
  <2>1. ApplyBarrier(t, amount) = t
    BY <1>1, <1>3, <1>5 DEF ApplyBarrier
  <2> QED BY <2>1 DEF Only
<1>6. CASE applied # 0
  <2>1. PICK layer : layer = [amount |-> applied, expires |-> t.now + BARRIER_LIFETIME]
    OBVIOUS
  <2>2. PICK layers : layers = Append(t.barrier, layer)
    OBVIOUS
  <2>3. ApplyBarrier(t, amount) = [t EXCEPT !.barrier = layers]
    BY <1>1, <1>3, <1>6, <2>1, <2>2 DEF ApplyBarrier
  <2>4. layer \in Layers /\ layer.amount = applied
    BY <1>2, <1>4, <2>1, Amounts DEF Layers
  <2>5. layers \in Seq(Layers) /\ BarrierLeft(layers) = had + applied
    BY <1>1, <1>2, <2>2, <2>4, AppendProperties, BarrierAppend
  <2>6. BarrierLeft(layers) <= BARRIER_CAP
    BY <1>4, <2>5
  <2> QED BY <2>3, <2>5, <2>6, BarrierSet
<1> QED BY <1>5, <1>6

\* The layers damage wears down hold no more barrier than before.
LEMMA WornSound ==
  ASSUME NEW layers \in Seq(Layers), NEW damage \in Nat
  PROVE  Worn(layers, damage) \in Seq(Layers) /\ BarrierLeft(Worn(layers, damage)) <= BarrierLeft(layers)
<1>1. PICK n \in Nat : n = Len(layers)
  OBVIOUS
<1>2. PICK before : before = [i \in 1 .. n |-> BarrierLeft(SubSeq(layers, 1, i - 1))]
  OBVIOUS
<1>3. \A i \in 1 .. n : before[i] \in Nat
  <2> SUFFICES ASSUME NEW i \in 1 .. n PROVE before[i] \in Nat
    OBVIOUS
  <2>1. SubSeq(layers, 1, i - 1) \in Seq(Layers)
    BY <1>1, SubSeqProperties
  <2> QED BY <1>2, <2>1, BarrierNat
<1>4. PICK left : left = [i \in 1 .. n |-> [layers[i] EXCEPT !.amount = Most(@ - Most(damage - before[i], 0), 0)]]
  OBVIOUS
<1>5. ASSUME NEW i \in 1 .. n PROVE left[i] \in Layers /\ left[i].amount <= layers[i].amount
  <2>1. PICK layer, amount : layer = layers[i] /\ amount = Most(layer.amount - Most(damage - before[i], 0), 0)
    OBVIOUS
  <2>2. layer \in Layers /\ layer.amount \in Nat
    BY <1>1, <2>1, LayerFacts
  <2>3. amount \in Nat /\ amount <= layer.amount
    BY <1>3, <2>1, <2>2 DEF Most
  <2>4. left[i] = [layer EXCEPT !.amount = amount]
    BY <1>4, <2>1
  <2>5. left[i] \in Layers /\ left[i].amount = amount
    BY <2>2, <2>3, <2>4 DEF Layers
  <2> QED BY <2>1, <2>3, <2>5
<1>6. left \in Seq(Layers) /\ Len(left) = n
  <2>1. left \in [1 .. n -> Layers]
    BY <1>4, <1>5
  <2> QED BY <2>1
<1>7. BarrierLeft(left) <= BarrierLeft(layers)
  BY <1>1, <1>5, <1>6, BarrierBelow
<1>8. PICK kept : kept = {layer \in Range(left) : layer.amount > 0}
  OBVIOUS
<1>9. Worn(layers, damage) = Retain(left, kept)
  <2>1. DOMAIN layers = 1 .. n
    BY <1>1
  <2>2. left = [i \in DOMAIN layers |->
                 [layers[i] EXCEPT !.amount =
                    Most(@ - Most(damage - BarrierLeft(SubSeq(layers, 1, i - 1)), 0), 0)]]
    BY <1>2, <1>4, <2>1
  <2> QED BY <1>8, <2>2 DEF Worn
<1>10. Retain(left, kept) \in Seq(Layers) /\ BarrierLeft(Retain(left, kept)) <= BarrierLeft(left)
  BY <1>6, BarrierRetain
<1>11. PICK w : w = Worn(layers, damage)
  OBVIOUS
<1>12. w \in Seq(Layers) /\ BarrierLeft(w) <= BarrierLeft(left)
  BY <1>9, <1>10, <1>11
<1>13. BarrierLeft(w) \in Nat /\ BarrierLeft(left) \in Nat /\ BarrierLeft(layers) \in Nat
  BY <1>6, <1>12, BarrierNat
<1> QED BY <1>7, <1>11, <1>12, <1>13

Absorbing == {"barrier", "pool", "health", "shroud", "set", "cast", "hits", "ready"}

\* absorb_damage may empty the pool of a shroud, and lose shroud and cast.
LEMMA AbsorbSound ==
  ASSUME build \in Builds, NEW t, Good(build, t), NEW damage \in Nat
  PROVE  LET u == AbsorbDamage(t, damage) IN
         Good(build, u) /\ Only(t, u, Absorbing) /\ Lost(build, t, u)
<1>1. PICK layers : layers = Worn(t.barrier, damage)
  OBVIOUS
<1>2. PICK worn : worn = [t EXCEPT !.barrier = layers]
  OBVIOUS
<1>3. t.barrier \in Seq(Layers) /\ BarrierLeft(t.barrier) <= BARRIER_CAP /\ BarrierLeft(t.barrier) \in Nat
  BY BarrierNat DEF Good, Barriers
<1>4. layers \in Seq(Layers) /\ BarrierLeft(layers) <= BARRIER_CAP
  <2>1. layers \in Seq(Layers) /\ BarrierLeft(layers) <= BarrierLeft(t.barrier)
    BY <1>1, <1>3, WornSound
  <2>2. BarrierLeft(layers) \in Nat
    BY <2>1, BarrierNat
  <2> QED BY <1>3, <2>1, <2>2, Amounts
<1>5. Good(build, worn) /\ Only(t, worn, {"barrier"})
  BY <1>2, <1>4, BarrierSet
<1>6. PICK remaining : remaining = Most(damage - BarrierLeft(t.barrier), 0)
  OBVIOUS
<1>7. remaining \in Nat
  BY <1>3, <1>6 DEF Most
<1>8. ASSUME NEW v, Good(build, v), NEW d \in Nat, NEW w, w = [v EXCEPT !.health = Most(@ - d, 0)]
      PROVE  Good(build, w) /\ Only(v, w, {"health"})
  <2>1. PICK h : h = Most(v.health - d, 0)
    OBVIOUS
  <2>2. h \in 0..MaxHealth
    <3>1. v.health \in Nat /\ v.health <= MaxHealth
      BY <1>8, LevelFacts
    <3> QED BY <2>1, <3>1, Amounts DEF Most
  <2> QED BY <1>8, <2>1, <2>2, HealthSet
<1>9. PICK u : u = AbsorbDamage(t, damage)
  OBVIOUS
<1>10. CASE InShroud(t) /\ ~t.shroud.exposed
  <2>1. PICK toPool, taken : toPool = remaining \div 2 /\ taken = Least(toPool, t.pool)
    OBVIOUS
  <2>2. toPool \in Nat /\ taken \in Nat /\ taken <= toPool /\ taken <= t.pool
    BY <1>7, <2>1, LevelFacts DEF Least
  <2>3. PICK drained : drained = [worn EXCEPT !.pool = @ - taken]
    OBVIOUS
  <2>4. Good(build, drained) /\ Only(worn, drained, {"pool"})
    <3>1. worn.pool = t.pool
      BY <1>5 DEF Only, Fields
    <3>2. PICK p : p = worn.pool - taken
      OBVIOUS
    <3>3. p \in Nat /\ p <= Ceiling(build)
      BY <2>2, <3>1, <3>2, LevelFacts
    <3> QED BY <1>5, <2>3, <3>2, <3>3, PoolSet
  <2>5. PICK v : v = IF drained.pool = 0 THEN ExitShroud(drained, TRUE) ELSE drained
    OBVIOUS
  <2>6. /\ Good(build, v) /\ Only(drained, v, {"shroud", "set", "cast", "hits", "ready"})
        /\ Lost(build, drained, v)
    <3>1. CASE drained.pool = 0
      BY <2>4, <2>5, <3>1, ExitSound
    <3>2. CASE drained.pool # 0
      <4>1. v = drained
        BY <2>5, <3>2
      <4>2. Only(drained, v, {})
        BY <4>1 DEF Only
      <4> QED BY <2>4, <4>1, <4>2, OnlyMore, LostFrame
    <3> QED BY <3>1, <3>2
  <2>7. PICK d : d = toPool - taken
    OBVIOUS
  <2>8. d \in Nat
    BY <2>2, <2>7
  <2>9. u = [v EXCEPT !.health = Most(@ - d, 0)]
    BY <1>1, <1>2, <1>6, <1>9, <1>10, <2>1, <2>3, <2>5, <2>7 DEF AbsorbDamage
  <2>10. Good(build, u) /\ Only(v, u, {"health"})
    BY <1>8, <2>6, <2>8, <2>9
  <2>11. Only(t, drained, {"barrier", "pool"})
    BY <1>5, <2>4 DEF Only
  <2>12. Lost(build, t, drained)
    BY <2>11, LostFrame DEF Fate
  <2>13. Lost(build, v, u)
    BY <2>6, <2>10, LostFrame DEF Fate
  <2>14. Lost(build, t, u)
    BY <2>6, <2>12, <2>13, LostTwice
  <2>15. Only(t, u, Absorbing)
    BY <2>6, <2>10, <2>11 DEF Only, Absorbing
  <2> QED BY <1>9, <2>10, <2>14, <2>15
<1>11. CASE ~(InShroud(t) /\ ~t.shroud.exposed)
  <2>1. u = [worn EXCEPT !.health = Most(@ - remaining, 0)]
    BY <1>1, <1>2, <1>6, <1>9, <1>11 DEF AbsorbDamage
  <2>2. Good(build, u) /\ Only(worn, u, {"health"})
    BY <1>5, <1>7, <1>8, <2>1
  <2>3. Only(t, u, {"barrier", "health"})
    BY <1>5, <2>2 DEF Only
  <2>4. Lost(build, t, u)
    BY <2>3, LostFrame DEF Fate
  <2>5. Only(t, u, Absorbing)
    BY <2>3, OnlyMore DEF Absorbing
  <2> QED BY <1>9, <2>2, <2>4, <2>5
<1> QED BY <1>10, <1>11

\* cleanse takes conditions and adds none.
LEMMA CleanseSound ==
  ASSUME build \in Builds, NEW t, Good(build, t), NEW count \in Nat
  PROVE  Good(build, Cleanse(t, count)) /\ Only(t, Cleanse(t, count), {"conditions"})
<1>1. PICK n \in Nat : n = Len(t.conditions)
  BY DEF Good, Suffering
<1>2. PICK m : m = Most(n - count, 0)
  OBVIOUS
<1>3. PICK cs : cs = SubSeq(t.conditions, 1, m)
  OBVIOUS
<1>4. t.conditions \in Seq(Conditions) /\ t.events \in Seq(Events) /\ DOMAIN t = Fields
  BY DEF Good, Suffering, Shape
<1>5. m \in 0 .. n
  BY <1>1, <1>2 DEF Most
<1>6. cs \in Seq(Conditions)
  BY <1>1, <1>3, <1>4, <1>5, SubSeqProperties
<1>7. PICK u : u = Cleanse(t, count)
  OBVIOUS
<1>8. u = [t EXCEPT !.conditions = cs]
  BY <1>1, <1>2, <1>3, <1>7 DEF Cleanse
<1>9. Only(t, u, {"conditions"}) /\ u.conditions = cs /\ u.events = t.events
  BY <1>4, <1>8 DEF Only, Fields
<1>10. Suffering(u)
  BY <1>4, <1>6, <1>9 DEF Suffering
<1> QED BY <1>7, <1>9, <1>10, Frame DEF Good

\* A hit of a strike touches the foe, the cover and the pool.
LEMMA LandHitSound ==
  ASSUME build \in Builds, NEW t, Good(build, t), NEW i \in Ids
  PROVE  Good(build, LandHit(t, i)) /\ Only(t, LandHit(t, i), {"foe", "defenses", "pool"})
<1>1. PICK v : v = [t EXCEPT !.foe.hp = Most(@ - 1, 0)]
  OBVIOUS
<1>2. DOMAIN t = Fields
  BY DEF Good, Shape
<1>3. Only(t, v, {"foe"})
  BY <1>1, <1>2 DEF Only, Fields
<1>4. Good(build, v)
  BY <1>3, Frame DEF Good
<1>5. PICK w : w = RemoveDefense(v, "Stealth")
  OBVIOUS
<1>6. Good(build, w) /\ Only(v, w, {"defenses"})
  BY <1>4, <1>5, RemoveDefenseSound
<1>7. PICK u : u = LandHit(t, i)
  OBVIOUS
<1>8. u = GainResourceOnHit(w, i)
  BY <1>1, <1>5, <1>7 DEF LandHit
<1>9. Good(build, u) /\ Only(w, u, {"pool"})
  BY <1>6, <1>8, GainOnHitSound
<1> QED BY <1>3, <1>6, <1>7, <1>9 DEF Only

----------------------------------------------------------------------------
\* The effects of a skill.

\* The types of an effect.
LEMMA EffectFacts ==
  ASSUME NEW e \in Effects
  PROVE  \/ e.op \in {"Strike", "StripBoons"}
         \/ e.op = "Buff" /\ e.stacks \in Nat /\ e.duration \in Nat
         \/ e.op = "Cover" /\ e.kind \in Cover /\ e.duration \in Nat /\ e.strippable \in BOOLEAN
         \/ e.op \in {"Healing", "Barrier"} /\ e.amount \in Nat
         \/ e.op = "RemovesCondition" /\ e.count \in Nat
         \/ e.op = "CrowdControl" /\ e.duration \in Nat
<1>1. CASE e \in [op : {"Strike", "StripBoons"}]
  BY <1>1
<1>2. CASE e \in [op : {"Buff"}, name : STRING, stacks : Nat, duration : Nat]
  BY <1>2
<1>3. CASE e \in [op : {"Cover"}, kind : Cover, duration : Nat, strippable : BOOLEAN]
  BY <1>3
<1>4. CASE e \in [op : {"Healing", "Barrier"}, amount : Nat]
  BY <1>4
<1>5. CASE e \in [op : {"RemovesCondition"}, count : Nat]
  BY <1>5
<1>6. CASE e \in [op : {"CrowdControl"}, duration : Nat]
  BY <1>6
<1> QED BY <1>1, <1>2, <1>3, <1>4, <1>5, <1>6 DEF Effects

Soft == {"foe", "defenses", "pool", "buffs", "health", "barrier", "conditions"}

\* What an effect does: no cast, bar, recharge or clock is touched, and nobody dies.
Mild(t, u) == Good(build, u) /\ Only(t, u, Soft) /\ (t.health > 0 => u.health > 0)

\* Two mild handlers in a row are mild.
LEMMA MildTwice ==
  ASSUME NEW t, NEW u, NEW v, Mild(t, u), Mild(u, v)
  PROVE  Mild(t, v)
BY DEF Mild, Only

\* A handler that sets the foe alone.
LEMMA FoeSet ==
  ASSUME NEW t, Good(build, t), NEW f, NEW u, u = [t EXCEPT !.foe = f]
  PROVE  Good(build, u) /\ Only(t, u, {"foe"})
<1>1. DOMAIN t = Fields
  BY DEF Good, Shape
<1>2. Only(t, u, {"foe"})
  BY <1>1 DEF Only, Fields
<1> QED BY <1>2, Frame DEF Good

\* A handler that keeps health and only touches soft fields is mild.
LEMMA MildOnly ==
  ASSUME NEW t, NEW u, Good(build, u), NEW F \in SUBSET (Soft \ {"health"}), Only(t, u, F)
  PROVE  Mild(t, u)
<1>1. u.health = t.health
  BY DEF Only, Fields, Soft
<1>2. Only(t, u, Soft)
  BY OnlyMore
<1> QED BY <1>1, <1>2 DEF Mild

\* Every effect of a skill is mild.
LEMMA EffectSound ==
  ASSUME build \in Builds, NEW t, Good(build, t), NEW i \in Ids, NEW e \in Effects
  PROVE  Mild(t, ApplySkillEffect(t, i, e))
<1>1. PICK u : u = ApplySkillEffect(t, i, e)
  OBVIOUS
<1>2. CASE e.op = "Strike"
  <2>1. u = LandHit(t, i)
    BY <1>1, <1>2 DEF ApplySkillEffect
  <2>2. Good(build, u) /\ Only(t, u, {"foe", "defenses", "pool"})
    BY <2>1, LandHitSound
  <2>3. {"foe", "defenses", "pool"} \in SUBSET (Soft \ {"health"})
    BY DEF Soft
  <2> QED BY <1>1, <2>2, <2>3, MildOnly
<1>3. CASE e.op = "StripBoons"
  <2>1. PICK f : f = [t.foe EXCEPT !.stability = FALSE]
    OBVIOUS
  <2>2. u = [t EXCEPT !.foe = f]
    BY <1>1, <1>3, <2>1 DEF ApplySkillEffect
  <2>3. Good(build, u) /\ Only(t, u, {"foe"})
    BY <2>2, FoeSet
  <2>4. {"foe"} \in SUBSET (Soft \ {"health"})
    BY DEF Soft
  <2> QED BY <1>1, <2>3, <2>4, MildOnly
<1>4. CASE e.op = "Buff" /\ e.stacks \in Nat /\ e.duration \in Nat
  <2>1. u = ApplyBuff(t, e.name, e.stacks, e.duration)
    BY <1>1, <1>4 DEF ApplySkillEffect
  <2>2. Good(build, u) /\ Only(t, u, {"buffs", "defenses"})
    BY <1>4, <2>1, BuffSound
  <2>3. {"buffs", "defenses"} \in SUBSET (Soft \ {"health"})
    BY DEF Soft
  <2> QED BY <1>1, <2>2, <2>3, MildOnly
<1>5. CASE e.op = "Cover" /\ e.kind \in Cover /\ e.duration \in Nat /\ e.strippable \in BOOLEAN
  <2>1. u = ApplyDefense(t, e.kind, e.duration, 1, e.strippable)
    BY <1>1, <1>5 DEF ApplySkillEffect
  <2>2. Good(build, u) /\ Only(t, u, {"defenses"})
    BY <1>5, <2>1, ApplyDefenseSound
  <2>3. {"defenses"} \in SUBSET (Soft \ {"health"})
    BY DEF Soft
  <2> QED BY <1>1, <2>2, <2>3, MildOnly
<1>6. CASE e.op = "Healing" /\ e.amount \in Nat
  <2>1. u = Heal(t, e.amount)
    BY <1>1, <1>6 DEF ApplySkillEffect
  <2>2. Good(build, u) /\ Only(t, u, {"health"}) /\ (t.health > 0 => u.health > 0)
    BY <1>6, <2>1, HealSound
  <2>3. Only(t, u, Soft)
    BY <2>2, OnlyMore DEF Soft
  <2> QED BY <1>1, <2>2, <2>3 DEF Mild
<1>7. CASE e.op = "Barrier" /\ e.amount \in Nat
  <2>1. u = ApplyBarrier(t, e.amount)
    BY <1>1, <1>7 DEF ApplySkillEffect
  <2>2. Good(build, u) /\ Only(t, u, {"barrier"})
    BY <1>7, <2>1, ApplyBarrierSound
  <2>3. {"barrier"} \in SUBSET (Soft \ {"health"})
    BY DEF Soft
  <2> QED BY <1>1, <2>2, <2>3, MildOnly
<1>8. CASE e.op = "RemovesCondition" /\ e.count \in Nat
  <2>1. u = Cleanse(t, e.count)
    BY <1>1, <1>8 DEF ApplySkillEffect
  <2>2. Good(build, u) /\ Only(t, u, {"conditions"})
    BY <1>8, <2>1, CleanseSound
  <2>3. {"conditions"} \in SUBSET (Soft \ {"health"})
    BY DEF Soft
  <2> QED BY <1>1, <2>2, <2>3, MildOnly
<1>9. CASE e.op = "CrowdControl"
  <2>1. PICK f : f = IF t.foe.stability THEN t.foe
                     ELSE [t.foe EXCEPT !.disabled = Most(@, t.now + e.duration)]
    OBVIOUS
  <2>2. DOMAIN t = Fields
    BY DEF Good, Shape
  <2>3. u = t \/ u = [t EXCEPT !.foe = f]
    BY <1>1, <1>9, <2>1 DEF ApplySkillEffect
  <2>4. Good(build, u) /\ Only(t, u, {"foe"})
    <3>1. CASE u = t
      BY <3>1 DEF Only
    <3>2. CASE u = [t EXCEPT !.foe = f]
      BY <3>2, FoeSet
    <3> QED BY <2>3, <3>1, <3>2
  <2>5. {"foe"} \in SUBSET (Soft \ {"health"})
    BY DEF Soft
  <2> QED BY <1>1, <2>4, <2>5, MildOnly
<1> QED BY <1>2, <1>3, <1>4, <1>5, <1>6, <1>7, <1>8, <1>9, EffectFacts

\* All effects of a skill together are mild.
LEMMA ApplyAllSound ==
  ASSUME build \in Builds, NEW t, Good(build, t), NEW i \in Ids, NEW effects \in Seq(Effects)
  PROVE  Mild(t, ApplyAll(t, i, effects))
<1>1. PICK n \in Nat : n = Len(effects)
  OBVIOUS
<1>2. PICK run : /\ run[0] = t /\ run[n] = ApplyAll(t, i, effects)
                 /\ \A k \in 0 .. n - 1 : run[k + 1] = ApplySkillEffect(run[k], i, effects[k + 1])
  BY <1>1, ApplyTrace
<1>3. PICK S : S = {k \in 0 .. n : Mild(t, run[k])}
  OBVIOUS
<1>4. 0 \in S
  <2>1. Mild(t, t)
    BY DEF Mild, Only
  <2>2. 0 \in 0 .. n
    OBVIOUS
  <2> QED BY <1>2, <1>3, <2>1, <2>2
<1>5. ASSUME NEW k \in 0 .. n - 1, k \in S PROVE k + 1 \in S
  <2>1. k + 1 \in 0 .. n /\ k + 1 \in 1 .. n /\ Mild(t, run[k])
    BY <1>3, <1>5
  <2>2. effects[k + 1] \in Effects
    BY <1>1, <2>1
  <2>3. Good(build, run[k])
    BY <2>1 DEF Mild
  <2>4. Mild(run[k], ApplySkillEffect(run[k], i, effects[k + 1]))
    BY <2>2, <2>3, EffectSound
  <2>5. Mild(t, run[k + 1])
    BY <1>2, <2>1, <2>4, MildTwice
  <2> QED BY <1>3, <2>1, <2>5
<1>6. n \in S
  BY <1>4, <1>5, Climb
<1> QED BY <1>2, <1>3, <1>6

----------------------------------------------------------------------------
\* Hits land, and a cast resolves.

Landing(none, u, h) == LandHit(u, h.skill)
Anything(none, u, k) == TRUE
Landed == INSTANCE FoldFacts WITH Step <- Landing, Keeps <- Anything

Struck == {"foe", "defenses", "pool"}
Landings(t, due) == FoldLeft(LAMBDA v, h : LandHit(v, h.skill), t, due)

\* Any hits that land are mild.
LEMMA LandedSound ==
  ASSUME build \in Builds, NEW t, Good(build, t), NEW due \in Seq(HitShapes(build)),
         NEW u, u = Landings(t, due)
  PROVE  Good(build, u) /\ Only(t, u, Struck)
<1>1. PICK n \in Nat : n = Len(due)
  OBVIOUS
<1>2. DOMAIN due = 1 .. n
  BY <1>1
<1>3. PICK run : Landed!Traces(run, None, t, due, n)
  BY <1>1, <1>2, Landed!FoldTrace
<1>4. u = Landed!Fold(None, t, due)
  BY DEF Landings, Landing, Landed!Fold, FoldLeft, Landed!FoldLeft, MapThenFoldSet,
         Landed!MapThenFoldSet, Max, Landed!Max
<1>5. /\ run[0] = t /\ run[n] = u
      /\ \A k \in 0 .. n - 1 : run[k + 1] = LandHit(run[k], due[k + 1].skill)
  BY <1>1, <1>3, <1>4 DEF Landed!Traces, Landing
<1>6. PICK S : S = {k \in 0 .. n : Good(build, run[k]) /\ Only(t, run[k], Struck)}
  OBVIOUS
<1>7. 0 \in S
  <2>1. Only(t, t, Struck)
    BY DEF Only
  <2>2. 0 \in 0 .. n
    OBVIOUS
  <2> QED BY <1>5, <1>6, <2>1, <2>2
<1>8. ASSUME NEW k \in 0 .. n - 1, k \in S PROVE k + 1 \in S
  <2>1. k + 1 \in 0 .. n /\ k + 1 \in 1 .. n /\ Good(build, run[k]) /\ Only(t, run[k], Struck)
    BY <1>6, <1>8
  <2>2. due[k + 1] \in HitShapes(build)
    BY <1>1, <2>1
  <2>3. due[k + 1].skill \in Ids
    BY <2>2 DEF HitShapes, Numbers, Ids
  <2>4. Good(build, run[k + 1]) /\ Only(run[k], run[k + 1], Struck)
    BY <1>5, <2>1, <2>3, LandHitSound DEF Struck
  <2>5. Only(t, run[k + 1], Struck)
    BY <2>1, <2>4, OnlyTwice
  <2> QED BY <1>6, <2>1, <2>4, <2>5
<1>9. n \in S
  BY <1>7, <1>8, Climb
<1> QED BY <1>5, <1>6, <1>9

\* land_scheduled_hits takes the hits that land off the schedule.
LEMMA LandScheduledSound ==
  ASSUME build \in Builds, NEW t, Good(build, t)
  PROVE  LET u == LandScheduledHits(t) IN
         /\ Good(build, u) /\ Only(t, u, Struck \cup {"hits"})
         /\ u.hits \in Seq({h \in Range(t.hits) : h.at > t.now})
<1>1. /\ t.hits \in Seq(HitShapes(build)) /\ DOMAIN t = Fields
      /\ \A k \in DOMAIN t.hits : /\ t.cast # None
                                  /\ t.hits[k].skill = t.cast.skill
                                  /\ t.hits[k].at <= t.cast.resolves
  BY DEF Good, Casts, Shape
<1>2. PICK past, later : /\ past = {h \in Range(t.hits) : h.at <= t.now}
                         /\ later = {h \in Range(t.hits) : h.at > t.now}
  OBVIOUS
<1>3. past \subseteq HitShapes(build) /\ later \subseteq HitShapes(build)
  BY <1>1, <1>2 DEF Range
<1>4. \A h \in later : t.cast # None /\ h.skill = t.cast.skill /\ h.at <= t.cast.resolves
  BY <1>1, <1>2 DEF Range
<1>5. PICK due, left : due = Retain(t.hits, past) /\ left = Retain(t.hits, later)
  OBVIOUS
<1>6. due \in Seq(past) /\ left \in Seq(later)
  BY <1>1, <1>5, RetainSeq
<1>7. due \in Seq(HitShapes(build)) /\ left \in Seq(HitShapes(build))
  BY <1>3, <1>6
<1>8. \A k \in DOMAIN left : left[k] \in later
  BY <1>6
<1>9. PICK kept : kept = [t EXCEPT !.hits = left]
  OBVIOUS
<1>10. Only(t, kept, {"hits"}) /\ kept.hits = left /\ kept.cast = t.cast
  BY <1>1, <1>9 DEF Only, Fields
<1>11. Casts(build, kept)
  BY <1>4, <1>7, <1>8, <1>10 DEF Casts, Good
<1>12. Good(build, kept)
  BY <1>10, <1>11, Frame DEF Good
<1>13. PICK u : u = LandScheduledHits(t)
  OBVIOUS
<1>14. u = Landings(kept, due)
  BY <1>2, <1>5, <1>9, <1>13 DEF LandScheduledHits, Landings
<1>15. Good(build, u) /\ Only(kept, u, Struck)
  BY <1>7, <1>12, <1>14, LandedSound
<1>16. u.hits = left
  BY <1>10, <1>15 DEF Only, Struck, Fields
<1>17. Only(t, u, Struck \cup {"hits"})
  BY <1>10, <1>15 DEF Only
<1> QED BY <1>2, <1>6, <1>13, <1>15, <1>16, <1>17

\* The cast of t ended: nothing of it is in flight, and its recharge runs.
Resolved(t, u) ==
  /\ t.cast # None /\ t.cast.resolves <= t.now
  /\ u.cast = None /\ u.hits = <<>>
  /\ \A k \in Ids : u.ready[k] = IF Same(t.cast.skill, k) THEN t.now + Skill(t.cast.skill).cooldown
                                 ELSE t.ready[k]

\* resolve_pending_cast ends the cast, and its skill recharges from now.
LEMMA ResolveSound ==
  ASSUME build \in Builds, NEW t, Good(build, t)
  PROVE  LET u == ResolvePendingCast(t) IN
         /\ Good(build, u) /\ Only(t, u, Soft \cup {"cast", "hits", "ready"})
         /\ t.health > 0 => u.health > 0
         /\ u = t \/ Resolved(t, u)
<1>1. PICK u : u = ResolvePendingCast(t)
  OBVIOUS
<1>2. CASE t.cast = None \/ t.cast.resolves > t.now
  <2>1. u = t
    BY <1>1, <1>2 DEF ResolvePendingCast
  <2> QED BY <1>1, <2>1 DEF Only
<1>3. CASE t.cast # None /\ ~(t.cast.resolves > t.now)
  <2>1. t.cast \in CastShapes(build) /\ DOMAIN t = Fields /\ t.now \in Nat
    BY <1>3 DEF Good, Casts, Shape
  <2>2. PICK i : i = t.cast.skill
    OBVIOUS
  <2>3. i \in Ids /\ t.cast.resolves \in Nat /\ t.cast.resolves <= t.now
    BY <1>3, <2>1, <2>2 DEF CastShapes, Numbers, Ids
  <2>4. PICK landed : landed = LandScheduledHits(t)
    OBVIOUS
  <2>5. /\ Good(build, landed) /\ Only(t, landed, Struck \cup {"hits"})
        /\ landed.hits \in Seq({h \in Range(t.hits) : h.at > t.now})
    BY <2>4, LandScheduledSound
  <2>6. landed.hits = <<>>
    <3>1. \A k \in DOMAIN t.hits : t.hits[k].at <= t.cast.resolves /\ t.hits[k].at \in Nat
      <4>1. t.hits \in Seq(HitShapes(build))
            /\ \A k \in DOMAIN t.hits : t.hits[k].at <= t.cast.resolves
        BY DEF Good, Casts
      <4>2. \A k \in DOMAIN t.hits : t.hits[k] \in HitShapes(build)
        BY <4>1
      <4> QED BY <4>1, <4>2 DEF HitShapes
    <3>2. {h \in Range(t.hits) : h.at > t.now} = {}
      BY <2>1, <2>3, <3>1 DEF Range
    <3>3. landed.hits \in Seq({})
      BY <2>5, <3>2
    <3> QED BY <3>3
  <2>7. PICK over : over = [landed EXCEPT !.cast = None]
    OBVIOUS
  <2>8. DOMAIN landed = Fields
    BY <2>5 DEF Good, Shape
  <2>9. Only(landed, over, {"cast"}) /\ over.cast = None /\ over.hits = <<>>
    BY <2>6, <2>7, <2>8 DEF Only, Fields
  <2>10. Casts(build, over)
    <3>1. over.hits \in Seq(HitShapes(build))
      BY <2>9
    <3>2. DOMAIN over.hits = {}
      BY <2>9
    <3> QED BY <2>9, <3>1, <3>2 DEF Casts
  <2>11. Good(build, over)
    BY <2>5, <2>9, <2>10, Frame DEF Good
  <2>12. PICK cooled : cooled = SetSkillCooldown(over, i, Skill(i).cooldown)
    OBVIOUS
  <2>13. /\ Good(build, cooled) /\ Only(over, cooled, {"ready"})
         /\ \A k \in Ids : cooled.ready[k] = IF Same(i, k) THEN over.now + Skill(i).cooldown ELSE over.ready[k]
    <3>1. PICK d \in Nat : d = Skill(i).cooldown
      BY <2>3, SkillFacts
    <3>2. cooled = SetSkillCooldown(over, i, d)
      BY <2>12, <3>1
    <3>3. /\ Good(build, cooled) /\ Only(over, cooled, {"ready"})
          /\ \A k \in Ids : cooled.ready[k] = IF Same(i, k) THEN over.now + d ELSE over.ready[k]
      BY <2>3, <2>11, <3>2, SetCooldownSound
    <3> QED BY <3>1, <3>3
  <2>14. PICK spent : spent = GainResourceOnUse(cooled, i)
    OBVIOUS
  <2>15. Good(build, spent) /\ Only(cooled, spent, {"pool"})
    BY <2>3, <2>13, <2>14, GainOnUseSound
  <2>16. PICK effects : effects = Retain(Skill(i).effects, {e \in Range(Skill(i).effects) : e.op # "Strike"})
    OBVIOUS
  <2>17. effects \in Seq(Effects)
    <3>1. PICK all : all = Skill(i).effects
      OBVIOUS
    <3>2. all \in Seq(Effects)
      BY <2>3, <3>1, SkillFacts
    <3>3. effects \in Seq({e \in Range(all) : e.op # "Strike"})
      BY <2>16, <3>1, <3>2, RetainSeq
    <3>4. {e \in Range(all) : e.op # "Strike"} \subseteq Effects
      BY <3>2 DEF Range
    <3> QED BY <3>3, <3>4
  <2>18. u = ApplyAll(spent, i, effects)
    BY <1>1, <1>3, <2>2, <2>4, <2>7, <2>12, <2>14, <2>16 DEF ResolvePendingCast
  <2>19. Mild(spent, u)
    BY <2>3, <2>15, <2>17, <2>18, ApplyAllSound
  <2>20. Good(build, u) /\ Only(spent, u, Soft) /\ (spent.health > 0 => u.health > 0)
    BY <2>19 DEF Mild
  <2>21. Only(t, spent, Struck \cup {"cast", "hits", "ready"})
    BY <2>5, <2>9, <2>13, <2>15 DEF Only, Struck
  <2>22. spent.health = t.health
    BY <2>21 DEF Only, Fields, Struck
  <2>23. Only(t, u, Soft \cup {"cast", "hits", "ready"})
    BY <2>20, <2>21 DEF Only, Struck, Soft
  <2>24. u.cast = None /\ u.hits = <<>> /\ u.ready = cooled.ready
    BY <2>9, <2>13, <2>15, <2>20 DEF Only, Fields, Soft
  <2>25. over.ready = t.ready /\ over.now = t.now
    BY <2>5, <2>9 DEF Only, Fields, Struck
  <2>26. Resolved(t, u)
    BY <1>3, <2>2, <2>3, <2>13, <2>24, <2>25 DEF Resolved
  <2> QED BY <1>1, <2>20, <2>22, <2>23, <2>26
<1> QED BY <1>2, <1>3

----------------------------------------------------------------------------
\* A cast starts.

\* The hits of a cast fall no later than its end.
LEMMA Spread ==
  ASSUME NEW c \in Nat, NEW n \in Nat, NEW k \in 1 .. n
  PROVE  (c * k) \div n \in Nat /\ (c * k) \div n <= c
<1>1. PICK q : q = (c * k) \div n
  OBVIOUS
<1>2. c * k \in Nat /\ c * k <= c * n
  OBVIOUS
<1>3. q \in Nat /\ q * n <= c * k
  BY <1>1, <1>2
<1>4. q * n <= c * n
  BY <1>2, <1>3
<1>5. q <= c
  BY <1>3, <1>4
<1> QED BY <1>1, <1>3, <1>5

\* hit_schedule gives hits of the skill within the cast.
LEMMA ScheduleSound ==
  ASSUME build \in Builds, NEW t, Good(build, t), NEW i \in Ids, NEW time \in Nat
  PROVE  LET hs == HitSchedule(t, i, time) IN
         /\ hs \in Seq(HitShapes(build))
         /\ \A k \in DOMAIN hs : hs[k].skill = i /\ hs[k].at <= t.now + time
<1>1. PICK n \in Nat : n = Skill(i).hits
  BY SkillFacts
<1>2. PICK hs : hs = HitSchedule(t, i, time)
  OBVIOUS
<1>3. hs = [k \in 1 .. n |-> [at |-> t.now + (time * k) \div n, skill |-> i]]
  BY <1>1, <1>2 DEF HitSchedule
<1>4. t.now \in Nat /\ i \in Numbers(build)
  BY DEF Good, Shape, Ids, Numbers
<1>5. ASSUME NEW k \in 1 .. n
      PROVE  hs[k] \in HitShapes(build) /\ hs[k].skill = i /\ hs[k].at <= t.now + time
  <2>1. PICK a : a = (time * k) \div n
    OBVIOUS
  <2>2. a \in Nat /\ a <= time
    BY <2>1, Spread
  <2>3. hs[k] = [at |-> t.now + a, skill |-> i]
    BY <1>3, <2>1
  <2>4. hs[k] \in HitShapes(build)
    BY <1>4, <2>2, <2>3 DEF HitShapes
  <2>5. hs[k].skill = i /\ hs[k].at <= t.now + time
    BY <1>4, <2>2, <2>3
  <2> QED BY <2>4, <2>5
<1>6. DOMAIN hs = 1 .. n
  BY <1>3
<1>7. hs \in Seq(HitShapes(build))
  <2>1. hs \in [1 .. n -> HitShapes(build)]
    BY <1>3, <1>5
  <2> QED BY <2>1
<1> QED BY <1>2, <1>5, <1>6, <1>7

\* A cast takes a natural number of milliseconds.
LEMMA CastTimeNat ==
  ASSUME build \in Builds, NEW t, NEW i \in Ids
  PROVE  CastTime(t, i) \in Nat
<1>1. PICK c \in Nat : c = Skill(i).cast
  BY SkillFacts
<1>2. (c * 2 + 1) \div 3 \in Nat
  OBVIOUS
<1>3. PICK d \in Nat : d = IF HasBuff(t, "Quickness") THEN (c * 2 + 1) \div 3 ELSE c
  BY <1>2
<1>4. CastTime(t, i) = Most(d, TICK)
  BY <1>1, <1>3 DEF CastTime
<1> QED BY <1>4, Amounts DEF Most

\* Without a cast no hit is scheduled.
LEMMA NoHits ==
  ASSUME NEW b, NEW t, Good(b, t), t.cast = None
  PROVE  t.hits = <<>>
<1>1. PICK hs : hs = t.hits
  OBVIOUS
<1>2. hs \in Seq(HitShapes(b)) /\ DOMAIN hs = {}
  BY <1>1 DEF Good, Casts
<1>3. Len(hs) = 0
  BY <1>2
<1> QED BY <1>1, <1>2, <1>3, EmptySeq

Starting == {"pool", "before", "set", "shroud", "hits", "cast", "next", "upkeep", "ready"}

\* The bars of a skill that is pressed.
Barred(t, u, i) ==
  \/ Skill(i).enters /\ u.shroud # None /\ u.before = t.set /\ u.set = SHROUD_SET
  \/ /\ ~Skill(i).enters /\ u.before = t.before
     /\ u.shroud = t.shroud \/ u.shroud = None
     /\ u.set = IF ShroudLeft(t, u) THEN t.before ELSE t.set

\* Before its cast a skill that enters or leaves a shroud changes the bar.
LEMMA BarredSound ==
  ASSUME build \in Builds, NEW t, Good(build, t), t.cast = None, NEW i \in Ids,
         NEW u, u = IF Skill(i).enters THEN EnterShroud(t, i)
                    ELSE IF Skill(i).exits THEN ExitShroud(t, FALSE)
                    ELSE t
  PROVE  /\ Good(build, u) /\ Only(t, u, {"before", "set", "shroud", "ready"})
         /\ Barred(t, u, i) /\ u.ready = Owing(build, t, u)
<1>0. ~CastLost(t, u) /\ t.ready = [k \in Numbers(build) |-> t.ready[k]] /\ t.hits = <<>>
  BY NoHits DEF CastLost, Good, Recharges
<1>1. CASE Skill(i).enters
  <2>1. u = EnterShroud(t, i)
    BY <1>1
  <2>2. LET v == EnterShroud(t, i) IN
        /\ Good(build, v) /\ Only(t, v, {"before", "set", "shroud"})
        /\ v.before = t.set /\ v.set = SHROUD_SET /\ v.shroud # None
    BY EnterSound
  <2>3. u.ready = t.ready
    BY <2>1, <2>2 DEF Only, Fields
  <2>4. u.ready = Owing(build, t, u)
    BY <1>0, <2>1, <2>2, <2>3 DEF Owing, ShroudLeft
  <2>5. Only(t, u, {"before", "set", "shroud", "ready"})
    BY <2>1, <2>2 DEF Only
  <2> QED BY <1>1, <2>1, <2>2, <2>4, <2>5 DEF Barred
<1>2. CASE ~Skill(i).enters /\ Skill(i).exits
  <2>1. u = ExitShroud(t, FALSE)
    BY <1>2
  <2>2. /\ Good(build, u) /\ Only(t, u, {"shroud", "set", "cast", "hits", "ready"})
        /\ Lost(build, t, u)
    BY <2>1, ExitSound
  <2>3. u.cast = t.cast /\ u.hits = t.hits
    BY <1>0, <2>2 DEF Lost
  <2>4. Only(t, u, {"before", "set", "shroud", "ready"})
    BY <2>2, <2>3 DEF Only
  <2>5. /\ u.before = t.before /\ (u.shroud = t.shroud \/ u.shroud = None)
        /\ u.set = IF ShroudLeft(t, u) THEN t.before ELSE t.set
        /\ u.ready = Owing(build, t, u)
    BY <2>2 DEF Lost
  <2> QED BY <1>2, <2>2, <2>4, <2>5 DEF Barred
<1>3. CASE ~Skill(i).enters /\ ~Skill(i).exits
  <2>1. u = t
    BY <1>3
  <2>2. Only(t, u, {"before", "set", "shroud", "ready"}) /\ ~ShroudLeft(t, u)
    BY <2>1 DEF Only, ShroudLeft
  <2>3. u.ready = Owing(build, t, u)
    BY <1>0, <2>1, <2>2 DEF Owing
  <2> QED BY <1>3, <2>1, <2>2, <2>3 DEF Barred
<1> QED BY <1>1, <1>2, <1>3

\* start_cast begins a cast, and interrupts none.
LEMMA StartCastSound ==
  ASSUME build \in Builds, NEW t, Good(build, t), t.cast = None, NEW i \in Ids
  PROVE  LET u == StartCast(t, i) IN
         /\ Good(build, u) /\ Only(t, u, Starting) /\ Barred(t, u, i)
         /\ u.ready = Owing(build, t, u)
         /\ u.cast # None /\ u.cast.skill = i
<1>1. PICK paid : paid = PayResource(t, i)
  OBVIOUS
<1>2. Good(build, paid) /\ Only(t, paid, {"pool"})
  BY <1>1, PaySound
<1>3. /\ paid.cast = None /\ paid.now = t.now /\ paid.set = t.set /\ paid.before = t.before
      /\ paid.shroud = t.shroud /\ paid.ready = t.ready /\ paid.hits = t.hits
  BY <1>2 DEF Only, Fields
<1>4. PICK barred : barred = IF Skill(i).enters THEN EnterShroud(paid, i)
                             ELSE IF Skill(i).exits THEN ExitShroud(paid, FALSE)
                             ELSE paid
  OBVIOUS
<1>5. /\ Good(build, barred) /\ Only(paid, barred, {"before", "set", "shroud", "ready"})
      /\ Barred(paid, barred, i) /\ barred.ready = Owing(build, paid, barred)
  BY <1>2, <1>3, <1>4, BarredSound
<1>6. /\ barred.now = t.now /\ barred.cast = None /\ DOMAIN barred = Fields
      /\ barred.upkeep \in Nat /\ t.now \in Nat
  BY <1>2, <1>3, <1>5, LevelFacts DEF Only, Fields
<1>7. PICK time \in Nat : time = CastTime(barred, i)
  BY CastTimeNat
<1>8. PICK hs : hs = HitSchedule(t, i, time)
  OBVIOUS
<1>9. hs \in Seq(HitShapes(build)) /\ \A k \in DOMAIN hs : hs[k].skill = i /\ hs[k].at <= t.now + time
  BY <1>8, ScheduleSound
<1>10. PICK c : c = [skill |-> i, resolves |-> t.now + time]
  OBVIOUS
<1>11. c \in CastShapes(build) /\ c.skill = i /\ c.resolves = t.now + time
  BY <1>6, <1>10 DEF CastShapes, Numbers, Ids
<1>12. PICK next, upkeep : /\ next = t.now + time + HUMAN_DELAY + GAP
                           /\ upkeep = Least(barred.upkeep + Skill(i).upkeep, MAX_UPKEEP)
  OBVIOUS
<1>13. upkeep \in 0..MAX_UPKEEP
  BY <1>6, <1>12, SkillFacts, Amounts DEF Least
<1>14. PICK u : u = StartCast(t, i)
  OBVIOUS
<1>15. barred.hits = <<>>
  BY <1>5, <1>6, NoHits
<1>16. u = [barred EXCEPT !.hits = hs, !.cast = c, !.next = next, !.upkeep = upkeep]
  <2>1. u = [barred EXCEPT !.hits = @ \o hs, !.cast = c, !.next = next, !.upkeep = upkeep]
    BY <1>1, <1>4, <1>7, <1>8, <1>10, <1>12, <1>14 DEF StartCast
  <2>2. barred.hits \o hs = hs
    BY <1>9, <1>15
  <2> QED BY <2>1, <2>2
<1>17. /\ Only(barred, u, {"hits", "cast", "next", "upkeep"})
       /\ u.hits = hs /\ u.cast = c /\ u.upkeep = upkeep
  BY <1>6, <1>16 DEF Only, Fields
<1>18. /\ u.health = barred.health /\ u.pool = barred.pool /\ u.endurance = barred.endurance
       /\ u.shroud = barred.shroud /\ u.set = barred.set /\ u.before = barred.before
       /\ u.ready = barred.ready
  BY <1>17 DEF Only, Fields
<1>19. c # None
  BY <1>11, CastNone
<1>20. Casts(build, u)
  BY <1>9, <1>11, <1>17, <1>19 DEF Casts
<1>21. Levels(build, u)
  BY <1>5, <1>13, <1>17, <1>18 DEF Good, Levels
<1>22. Good(build, u)
  BY <1>5, <1>17, <1>20, <1>21, Frame DEF Good
<1>23. Only(t, u, Starting)
  BY <1>2, <1>5, <1>17 DEF Only, Starting
<1>24. Barred(t, u, i)
  BY <1>3, <1>5, <1>18 DEF Barred, ShroudLeft
<1>25. u.ready = Owing(build, t, u)
  <2>1. ~CastLost(paid, barred) /\ ~CastLost(t, u) /\ (ShroudLeft(paid, barred) <=> ShroudLeft(t, u))
    BY <1>3, <1>18 DEF CastLost, ShroudLeft
  <2> QED BY <1>3, <1>5, <1>18, <2>1 DEF Owing
<1> QED BY <1>11, <1>14, <1>17, <1>19, <1>22, <1>23, <1>24, <1>25

----------------------------------------------------------------------------
\* The start of a tick.

\* expire_timed_state drops cover, buffs and barrier whose time is over.
LEMMA ExpireSound ==
  ASSUME build \in Builds, NEW t, Good(build, t)
  PROVE  LET u == ExpireTimedState(t) IN
         Good(build, u) /\ Only(t, u, {"defenses", "buffs", "barrier"})
<1>1. PICK ds, bs, ls : /\ ds = Retain(t.defenses, {d \in Range(t.defenses) : d.expires > t.now})
                        /\ bs = {b \in t.buffs : b.expires > t.now}
                        /\ ls = Retain(t.barrier, {layer \in Range(t.barrier) : layer.expires > t.now})
  OBVIOUS
<1>2. PICK u : u = ExpireTimedState(t)
  OBVIOUS
<1>3. u = [t EXCEPT !.defenses = ds, !.buffs = bs, !.barrier = ls]
  BY <1>1, <1>2 DEF ExpireTimedState
<1>4. DOMAIN t = Fields
  BY DEF Good, Shape
<1>5. Only(t, u, {"defenses", "buffs", "barrier"}) /\ u.defenses = ds /\ u.barrier = ls
  BY <1>3, <1>4 DEF Only, Fields
<1>6. Covers(u)
  BY <1>1, <1>5, RetainCovers DEF Good, Covers
<1>7. Barriers(u)
  <2>1. PICK all : all = t.barrier
    OBVIOUS
  <2>2. all \in Seq(Layers) /\ BarrierLeft(all) <= BARRIER_CAP /\ BarrierLeft(all) \in Nat
    BY <2>1, BarrierNat DEF Good, Barriers
  <2>3. ls \in Seq(Layers) /\ BarrierLeft(ls) <= BarrierLeft(all)
    BY <1>1, <2>1, <2>2, BarrierRetain
  <2>4. BarrierLeft(ls) \in Nat
    BY <2>3, BarrierNat
  <2> QED BY <1>5, <2>2, <2>3, <2>4, Amounts DEF Barriers
<1> QED BY <1>2, <1>5, <1>6, <1>7, Frame DEF Good

Draining == {"pool", "upkeep", "shroud", "set", "cast", "hits", "ready"}

\* regenerate_resources may empty the pool of a shroud.
LEMMA RegenerateSound ==
  ASSUME build \in Builds, NEW t, Good(build, t)
  PROVE  LET u == RegenerateResources(t) IN
         Good(build, u) /\ Only(t, u, Draining) /\ Lost(build, t, u)
<1>1. PICK u : u = RegenerateResources(t)
  OBVIOUS
<1>2. /\ DOMAIN t = Fields /\ t.pool \in Nat /\ t.pool <= Ceiling(build) /\ Ceiling(build) \in Nat
      /\ t.upkeep \in 0..MAX_UPKEEP /\ t.upkeep \in Nat /\ build.regen \in Nat
      /\ build.cap \in Nat /\ build.cap <= Ceiling(build)
  BY LevelFacts, BuildFacts, CeilingFacts DEF Good, Levels
<1>3. CASE InShroud(t)
  <2>1. PICK p : p = Most(t.pool - t.shroud.drain, 0)
    OBVIOUS
  <2>2. t.shroud \in ShroudShapes(build)
    BY <1>3 DEF InShroud, Good, Bars
  <2>3. t.shroud.drain \in Nat
    BY <2>2 DEF ShroudShapes
  <2>4. p \in Nat /\ p <= Ceiling(build)
    BY <1>2, <2>1, <2>3 DEF Most
  <2>5. PICK drained : drained = [t EXCEPT !.pool = p]
    OBVIOUS
  <2>6. Good(build, drained) /\ Only(t, drained, {"pool"})
    BY <2>4, <2>5, PoolSet
  <2>7. Lost(build, t, drained)
    BY <2>6, LostFrame DEF Fate
  <2>8. CASE drained.pool = 0
    <3>1. u = ExitShroud(drained, TRUE)
      BY <1>1, <1>3, <2>1, <2>5, <2>8 DEF RegenerateResources
    <3>2. /\ Good(build, u) /\ Only(drained, u, {"shroud", "set", "cast", "hits", "ready"})
          /\ Lost(build, drained, u)
      BY <2>6, <3>1, ExitSound
    <3>3. Lost(build, t, u)
      BY <2>7, <3>2, LostTwice
    <3>4. Only(t, u, Draining)
      BY <2>6, <3>2 DEF Only, Draining
    <3> QED BY <1>1, <3>2, <3>3, <3>4
  <2>9. CASE drained.pool # 0
    <3>1. u = drained
      BY <1>1, <1>3, <2>1, <2>5, <2>9 DEF RegenerateResources
    <3>2. Only(t, u, Draining)
      BY <2>6, <3>1 DEF Only, Draining
    <3> QED BY <1>1, <2>6, <2>7, <3>1, <3>2
  <2> QED BY <2>8, <2>9
<1>4. CASE ~InShroud(t) /\ build.kind = "Energy"
  <2>1. PICK rate : rate = Most(build.regen - t.upkeep, -build.regen)
    OBVIOUS
  <2>2. PICK p : p = Most(Least(t.pool + rate, PoolCap[build.kind]), 0)
    OBVIOUS
  <2>3. rate \in Int
    BY <1>2, <2>1 DEF Most
  <2>4. p \in Nat /\ p <= Ceiling(build)
    <3>1. PICK c \in Nat : c = PoolCap[build.kind] /\ c <= Ceiling(build)
      BY BuildFacts, CeilingFacts
    <3> QED BY <1>2, <2>2, <2>3, <3>1 DEF Most, Least
  <2>5. PICK up : up = IF p = 0 THEN 0 ELSE t.upkeep
    OBVIOUS
  <2>6. up \in 0..MAX_UPKEEP
    BY <1>2, <2>5, Amounts
  <2>7. u = [t EXCEPT !.pool = p, !.upkeep = up]
    BY <1>1, <1>4, <2>1, <2>2, <2>5 DEF RegenerateResources
  <2>8. Only(t, u, {"pool", "upkeep"}) /\ u.pool = p /\ u.upkeep = up
        /\ u.health = t.health /\ u.endurance = t.endurance
    BY <1>2, <2>7 DEF Only, Fields
  <2>9. Levels(build, u)
    BY <1>2, <2>4, <2>6, <2>8 DEF Good, Levels
  <2>10. Good(build, u)
    BY <2>8, <2>9, Frame DEF Good
  <2>11. Lost(build, t, u)
    BY <2>8, LostFrame DEF Fate
  <2>12. Only(t, u, Draining)
    BY <2>8 DEF Only, Draining
  <2> QED BY <1>1, <2>10, <2>11, <2>12
<1>5. CASE ~InShroud(t) /\ build.kind \in {"Initiative", "Flow"}
  <2>1. PICK p : p = Least(t.pool + build.regen, build.cap)
    OBVIOUS
  <2>2. p \in Nat /\ p <= Ceiling(build)
    BY <1>2, <2>1 DEF Least
  <2>3. u = [t EXCEPT !.pool = p]
    BY <1>1, <1>5, <2>1 DEF RegenerateResources
  <2>4. Good(build, u) /\ Only(t, u, {"pool"})
    BY <2>2, <2>3, PoolSet
  <2>5. Lost(build, t, u)
    BY <2>4, LostFrame DEF Fate
  <2>6. Only(t, u, Draining)
    BY <2>4 DEF Only, Draining
  <2> QED BY <1>1, <2>4, <2>5, <2>6
<1>6. CASE ~InShroud(t) /\ build.kind \notin {"Energy", "Initiative", "Flow"}
  <2>1. u = t
    BY <1>1, <1>6 DEF RegenerateResources
  <2>2. Only(t, u, {})
    BY <2>1 DEF Only
  <2>3. Only(t, u, Draining) /\ Lost(build, t, u)
    BY <2>2, OnlyMore, LostFrame
  <2> QED BY <1>1, <2>1, <2>3
<1> QED BY <1>3, <1>4, <1>5, <1>6

\* A handler that sets the endurance alone.
LEMMA EnduranceSet ==
  ASSUME build \in Builds, NEW t, Good(build, t), NEW e \in 0..(2 * DODGE_COST),
         NEW u, u = [t EXCEPT !.endurance = e]
  PROVE  Good(build, u) /\ Only(t, u, {"endurance"})
<1>1. DOMAIN t = Fields
  BY DEF Good, Shape
<1>2. /\ Only(t, u, {"endurance"}) /\ u.endurance = e
      /\ u.health = t.health /\ u.pool = t.pool /\ u.upkeep = t.upkeep
  BY <1>1 DEF Only, Fields
<1>3. Levels(build, u)
  BY <1>2 DEF Good, Levels
<1> QED BY <1>2, <1>3, Frame DEF Good

\* tick_endurance_and_dodge adds the cover of a dodge.
LEMMA DodgeSound ==
  ASSUME build \in Builds, NEW t, Good(build, t)
  PROVE  LET u == TickEnduranceAndDodge(t) IN
         Good(build, u) /\ Only(t, u, {"endurance", "defenses"})
<1>1. PICK e : e = Least(t.endurance + 1, 2 * DODGE_COST)
  OBVIOUS
<1>2. e \in 0..(2 * DODGE_COST)
  BY <1>1, LevelFacts, Amounts DEF Least
<1>3. PICK rested : rested = [t EXCEPT !.endurance = e]
  OBVIOUS
<1>4. Good(build, rested) /\ Only(t, rested, {"endurance"}) /\ DOMAIN t = Fields
  BY <1>2, <1>3, EnduranceSet, LevelFacts
<1>5. PICK u : u = TickEnduranceAndDodge(t)
  OBVIOUS
<1>6. rested.endurance = e
  BY <1>3, <1>4 DEF Fields
<1>7. PICK d, tired : d = e - DODGE_COST /\ tired = [rested EXCEPT !.endurance = d]
  OBVIOUS
<1>8. CASE u = rested
  BY <1>4, <1>5, <1>8 DEF Only
<1>9. CASE e >= DODGE_COST /\ u = ApplyDefense(tired, "Evade", DODGE_EVADE, 1, FALSE)
  <2>1. d \in 0..(2 * DODGE_COST)
    BY <1>2, <1>7, <1>9, Amounts
  <2>2. Good(build, tired) /\ Only(rested, tired, {"endurance"})
    BY <1>4, <1>7, <2>1, EnduranceSet
  <2>3. "Evade" \in Cover /\ 1 \in Nat /\ FALSE \in BOOLEAN
    BY DEF Cover
  <2>4. Good(build, u) /\ Only(tired, u, {"defenses"})
    BY <1>9, <2>2, <2>3, Amounts, ApplyDefenseSound
  <2>5. Only(t, u, {"endurance", "defenses"})
    BY <1>4, <2>2, <2>4 DEF Only
  <2> QED BY <1>5, <2>4, <2>5
<1>10. u = rested \/ (e >= DODGE_COST /\ u = ApplyDefense(tired, "Evade", DODGE_EVADE, 1, FALSE))
  BY <1>1, <1>3, <1>5, <1>6, <1>7 DEF TickEnduranceAndDodge
<1> QED BY <1>8, <1>9, <1>10

\* The head of the loop.
AtTickStart(t) == TickEnduranceAndDodge(RegenerateResources(ExpireTimedState([t EXCEPT !.charge = FALSE])))

TickStarting == Draining \cup {"charge", "defenses", "buffs", "barrier", "endurance"}

\* The handlers a tick starts with.
LEMMA TickStartSound ==
  ASSUME build \in Builds, NEW t, Good(build, t)
  PROVE  LET u == AtTickStart(t) IN Good(build, u) /\ Only(t, u, TickStarting) /\ Lost(build, t, u)
<1>1. PICK a : a = [t EXCEPT !.charge = FALSE]
  OBVIOUS
<1>2. DOMAIN t = Fields
  BY DEF Good, Shape
<1>3. Only(t, a, {"charge"})
  BY <1>1, <1>2 DEF Only, Fields
<1>4. Good(build, a)
  BY <1>3, Frame DEF Good
<1>5. PICK e : e = ExpireTimedState(a)
  OBVIOUS
<1>6. Good(build, e) /\ Only(a, e, {"defenses", "buffs", "barrier"})
  BY <1>4, <1>5, ExpireSound
<1>7. PICK r : r = RegenerateResources(e)
  OBVIOUS
<1>8. Good(build, r) /\ Only(e, r, Draining) /\ Lost(build, e, r)
  BY <1>6, <1>7, RegenerateSound
<1>9. PICK u : u = TickEnduranceAndDodge(r)
  OBVIOUS
<1>10. Good(build, u) /\ Only(r, u, {"endurance", "defenses"})
  BY <1>8, <1>9, DodgeSound
<1>11. u = AtTickStart(t)
  BY <1>1, <1>5, <1>7, <1>9 DEF AtTickStart
<1>12. Only(t, e, {"charge", "defenses", "buffs", "barrier"})
  BY <1>3, <1>6 DEF Only
<1>13. Lost(build, t, e)
  BY <1>12, LostFrame DEF Fate
<1>14. Lost(build, r, u)
  BY <1>8, <1>10, LostFrame DEF Fate
<1>15. Lost(build, t, u)
  BY <1>8, <1>13, <1>14, LostTwice
<1>16. Only(t, u, TickStarting)
  BY <1>8, <1>10, <1>12 DEF Only, TickStarting, Draining
<1> QED BY <1>10, <1>11, <1>15, <1>16

----------------------------------------------------------------------------
\* What the enemy does.

Later(applied, i, j) == applied[j] < applied[i] \/ (applied[j] = applied[i] /\ j <= i)

\* Of the numbers in X, the last of those applied last.
LEMMA LastApplied ==
  ASSUME NEW n \in Nat, NEW applied, \A k \in 1 .. n : applied[k] \in Nat,
         NEW X \in SUBSET (1 .. n), X # {}
  PROVE  \E i \in X : \A j \in X : Later(applied, i, j)
<1>1. PICK S : S = {k \in 0 .. n : (\E i \in X : i <= k) =>
                      \E i \in X : i <= k /\ \A j \in X : j <= k => Later(applied, i, j)}
  OBVIOUS
<1>2. 0 \in S
  BY <1>1
<1>3. ASSUME NEW k \in 0 .. n - 1, k \in S PROVE k + 1 \in S
  <2>1. k + 1 \in 1 .. n /\ k + 1 \in 0 .. n /\ applied[k + 1] \in Nat
    OBVIOUS
  <2>2. CASE k + 1 \notin X
    <3>1. \A i \in X : i <= k + 1 <=> i <= k
      BY <2>2
    <3> QED BY <1>1, <1>3, <2>1, <3>1
  <2>3. CASE k + 1 \in X /\ ~\E i \in X : i <= k
    <3>1. \A j \in X : j <= k + 1 => j = k + 1
      BY <2>3
    <3>2. Later(applied, k + 1, k + 1)
      BY DEF Later
    <3>3. k + 1 <= k + 1 /\ \A j \in X : j <= k + 1 => Later(applied, k + 1, j)
      BY <3>1, <3>2
    <3> QED BY <1>1, <2>1, <2>3, <3>3
  <2>4. CASE k + 1 \in X /\ \E i \in X : i <= k
    <3>1. PICK i \in X : i <= k /\ \A j \in X : j <= k => Later(applied, i, j)
      BY <1>1, <1>3, <2>4
    <3>2. applied[i] \in Nat /\ i \in 1 .. n
      OBVIOUS
    <3>3. CASE applied[i] <= applied[k + 1]
      <4>1. ASSUME NEW j \in X, j <= k + 1 PROVE Later(applied, k + 1, j)
        <5>1. j \in 1 .. n /\ applied[j] \in Nat
          OBVIOUS
        <5>2. CASE j = k + 1
          BY <5>2 DEF Later
        <5>3. CASE j # k + 1
          <6>1. j <= k
            BY <4>1, <5>1, <5>3
          <6>2. Later(applied, i, j)
            BY <3>1, <6>1
          <6> QED BY <2>1, <3>2, <3>3, <5>1, <6>1, <6>2 DEF Later
        <5> QED BY <5>2, <5>3
      <4>2. k + 1 <= k + 1
        OBVIOUS
      <4> QED BY <1>1, <2>1, <2>4, <4>1, <4>2
    <3>4. CASE ~(applied[i] <= applied[k + 1])
      <4>1. ASSUME NEW j \in X, j <= k + 1 PROVE Later(applied, i, j)
        <5>1. CASE j = k + 1
          BY <2>1, <3>2, <3>4, <5>1 DEF Later
        <5>2. CASE j # k + 1
          <6>1. j <= k
            BY <4>1, <5>2
          <6> QED BY <3>1, <6>1
        <5> QED BY <5>1, <5>2
      <4>2. i <= k + 1
        BY <3>1, <3>2
      <4> QED BY <1>1, <2>1, <4>1, <4>2
    <3> QED BY <3>3, <3>4
  <2> QED BY <2>2, <2>3, <2>4
<1>4. n \in S
  BY <1>2, <1>3, Climb
<1>5. \A i \in X : i <= n
  OBVIOUS
<1> QED BY <1>1, <1>4, <1>5

\* A cover without one of its entries.
LEMMA RemovedCovers ==
  ASSUME NEW all, Covering(all), NEW i \in DOMAIN all
  PROVE  Covering(RemoveAt(all, i))
<1>1. /\ all \in Seq(Defenses)
      /\ \A j, k \in DOMAIN all : all[j].kind = all[k].kind => j = k
  BY DEF Covering
<1>2. PICK n \in Nat : n = Len(all)
  BY <1>1
<1>3. DOMAIN all = 1 .. n /\ i \in 1 .. n
  BY <1>1, <1>2
<1>4. PICK l, r : l = SubSeq(all, 1, i - 1) /\ r = SubSeq(all, i + 1, n)
  OBVIOUS
<1>5. l \in Seq(Defenses) /\ Len(l) = i - 1 /\ \A k \in 1 .. i - 1 : l[k] = all[k]
  <2>1. \A k \in 1 .. i - 1 : all[k] \in Defenses
    BY <1>1, <1>2, <1>3
  <2>2. 1 \in Int /\ i - 1 \in Int /\ (i - 1) - 1 + 1 = i - 1 /\ (1 <= i - 1 \/ i - 1 = 0)
    BY <1>3
  <2>3. /\ l \in Seq(Defenses) /\ Len(l) = (IF 1 <= i - 1 THEN (i - 1) - 1 + 1 ELSE 0)
        /\ \A k \in 1 .. (i - 1) - 1 + 1 : l[k] = all[1 + k - 1]
    BY <1>4, <2>1, <2>2, SubSeqProperties
  <2> QED BY <2>2, <2>3
<1>6. r \in Seq(Defenses) /\ Len(r) = n - i /\ \A k \in 1 .. n - i : r[k] = all[i + k]
  <2>1. \A k \in i + 1 .. n : all[k] \in Defenses
    BY <1>1, <1>2, <1>3
  <2>2. i + 1 \in Int /\ n \in Int /\ n - (i + 1) + 1 = n - i /\ (i + 1 <= n \/ n - i = 0)
    BY <1>3
  <2>3. /\ r \in Seq(Defenses) /\ Len(r) = (IF i + 1 <= n THEN n - (i + 1) + 1 ELSE 0)
        /\ \A k \in 1 .. n - (i + 1) + 1 : r[k] = all[i + 1 + k - 1]
    BY <1>4, <2>1, <2>2, SubSeqProperties
  <2>4. \A k \in 1 .. n - i : i + 1 + k - 1 = i + k
    BY <1>3
  <2> QED BY <2>2, <2>3, <2>4
<1>7. PICK ds : ds = RemoveAt(all, i)
  OBVIOUS
<1>8. ds = l \o r
  BY <1>2, <1>4, <1>7 DEF RemoveAt
<1>9. /\ ds \in Seq(Defenses) /\ Len(ds) = n - 1
      /\ \A k \in 1 .. n - 1 : ds[k] = IF k <= i - 1 THEN l[k] ELSE r[k - (i - 1)]
  <2>1. /\ l \o r \in Seq(Defenses) /\ Len(l \o r) = Len(l) + Len(r)
        /\ \A k \in 1 .. Len(l) + Len(r) :
              (l \o r)[k] = IF k <= Len(l) THEN l[k] ELSE r[k - Len(l)]
    BY <1>5, <1>6, ConcatProperties
  <2>2. Len(l) = i - 1 /\ Len(l) + Len(r) = n - 1
    BY <1>3, <1>5, <1>6
  <2> QED BY <1>8, <2>1, <2>2
<1>10. PICK from : from = [k \in 1 .. n - 1 |-> IF k < i THEN k ELSE k + 1]
  OBVIOUS
<1>11. ASSUME NEW k \in 1 .. n - 1 PROVE from[k] \in 1 .. n /\ ds[k] = all[from[k]]
  <2>1. CASE k < i
    <3>1. k <= i - 1 /\ k \in 1 .. i - 1
      BY <1>3, <2>1
    <3> QED BY <1>3, <1>5, <1>9, <1>10, <2>1, <3>1
  <2>2. CASE ~(k < i)
    <3>1. k - (i - 1) \in 1 .. n - i /\ i + (k - (i - 1)) = k + 1 /\ ~(k <= i - 1) /\ k + 1 \in 1 .. n
      BY <1>3, <2>2
    <3> QED BY <1>6, <1>9, <1>10, <2>2, <3>1
  <2> QED BY <2>1, <2>2
<1>12. DOMAIN ds = 1 .. n - 1
  BY <1>9
<1>13. ASSUME NEW j \in 1 .. n - 1, NEW k \in 1 .. n - 1, ds[j].kind = ds[k].kind PROVE j = k
  <2>1. from[j] = from[k]
    BY <1>1, <1>3, <1>11, <1>13
  <2> QED BY <1>3, <1>10, <2>1
<1> QED BY <1>7, <1>9, <1>12, <1>13 DEF Covering

\* receive_boon_strip removes the boons applied last.
LEMMA BoonStripSound ==
  ASSUME build \in Builds, NEW t, Good(build, t)
  PROVE  LET u == ReceiveBoonStrip(t) IN Good(build, u) /\ Only(t, u, {"defenses"})
<1>1. PICK all, strippable : all = t.defenses /\ strippable = {i \in DOMAIN all : all[i].strippable}
  OBVIOUS
<1>2. Covering(all) /\ all \in Seq(Defenses)
  BY <1>1 DEF Good, Covers, Covering
<1>3. PICK u : u = ReceiveBoonStrip(t)
  OBVIOUS
<1>4. CASE strippable = {}
  <2>1. u = t
    BY <1>1, <1>3, <1>4 DEF ReceiveBoonStrip
  <2> QED BY <1>3, <2>1 DEF Only
<1>5. CASE strippable # {}
  <2>1. PICK applied : applied = [k \in DOMAIN all |-> all[k].applied]
    OBVIOUS
  <2>2. PICK n \in Nat : DOMAIN all = 1 .. n /\ n = Len(all)
    BY <1>2
  <2>3. \A k \in 1 .. n : applied[k] \in Nat
    <3>1. \A k \in 1 .. n : all[k] \in Defenses
      BY <1>2, <2>2
    <3>2. \A k \in 1 .. n : all[k].applied \in Nat
      BY <3>1 DEF Defenses
    <3> QED BY <2>1, <2>2, <3>2
  <2>4. strippable \in SUBSET (1 .. n)
    BY <1>1, <2>2
  <2>5. \E i \in strippable : \A j \in strippable : Later(applied, i, j)
    BY <1>5, <2>3, <2>4, LastApplied
  <2>6. PICK i : i = CHOOSE h \in strippable : \A j \in strippable :
                       \/ all[j].applied < all[h].applied
                       \/ all[j].applied = all[h].applied /\ j <= h
    OBVIOUS
  <2>7. \A j, k \in strippable : Later(applied, j, k) <=>
                       \/ all[k].applied < all[j].applied
                       \/ all[k].applied = all[j].applied /\ k <= j
    BY <2>1, <2>2, <2>4 DEF Later
  <2>8. i \in strippable
    BY <2>5, <2>6, <2>7
  <2>9. PICK ds : ds = RemoveAt(all, i)
    OBVIOUS
  <2>10. Covering(ds)
    BY <1>1, <1>2, <2>8, <2>9, RemovedCovers
  <2>11. u = [t EXCEPT !.defenses = ds]
    BY <1>1, <1>3, <1>5, <2>6, <2>9 DEF ReceiveBoonStrip
  <2> QED BY <1>3, <2>10, <2>11, DefensesSet
<1> QED BY <1>4, <1>5

\* The types of an event.
LEMMA EventFacts ==
  ASSUME NEW e \in Events
  PROVE  /\ e.at \in Nat
         /\ \/ e.op = "Strike" /\ e.damage \in Nat
            \/ e.op = "Control" /\ e.duration \in Nat
            \/ e.op = "Condition" /\ e.name \in STRING /\ e.damage \in Nat /\ e.duration \in Nat
            \/ e.op = "BoonStrip"
<1>1. CASE e \in [op : {"Strike"}, at : Nat, damage : Nat, unblockable : BOOLEAN]
  BY <1>1
<1>2. CASE e \in [op : {"Control"}, at : Nat, duration : Nat, unblockable : BOOLEAN]
  BY <1>2
<1>3. CASE e \in [op : {"Condition"}, at : Nat, name : STRING, damage : Nat, duration : Nat]
  BY <1>3
<1>4. CASE e \in [op : {"BoonStrip"}, at : Nat]
  BY <1>4
<1> QED BY <1>1, <1>2, <1>3, <1>4 DEF Events

Enduring == Absorbing \cup {"defenses", "charge", "disabled", "run", "conditions", "events"}

\* What an event of the enemy does: the window of protection goes on only while
\* nothing new disables the player.
Endured(t, u) ==
  /\ Good(build, u) /\ Only(t, u, Enduring) /\ Lost(build, t, u)
  /\ (u.run = t.run /\ u.disabled = t.disabled) \/ u.run = 0

\* What two handlers in a row endure.
LEMMA EnduredTwice ==
  ASSUME NEW t, NEW u, NEW v, Endured(t, u), Endured(u, v)
  PROVE  Endured(t, v)
<1>1. /\ Good(build, u) /\ Only(t, u, Enduring) /\ Lost(build, t, u)
      /\ (u.run = t.run /\ u.disabled = t.disabled) \/ u.run = 0
  BY DEF Endured
<1>2. /\ Good(build, v) /\ Only(u, v, Enduring) /\ Lost(build, u, v)
      /\ (v.run = u.run /\ v.disabled = u.disabled) \/ v.run = 0
  BY DEF Endured
<1>3. Only(t, v, Enduring)
  BY <1>1, <1>2, OnlyTwice
<1>4. Lost(build, t, v)
  BY <1>1, <1>2, LostTwice
<1>5. (v.run = t.run /\ v.disabled = t.disabled) \/ v.run = 0
  BY <1>1, <1>2
<1> QED BY <1>2, <1>3, <1>4, <1>5 DEF Endured

\* A handler that touches no cast, bar or window endures.
LEMMA EnduredOnly ==
  ASSUME NEW t, Good(build, t), NEW u, Good(build, u),
         NEW F \in SUBSET (Enduring \ (Fate \cup {"run", "disabled"})), Only(t, u, F)
  PROVE  Endured(t, u)
<1>1. u.run = t.run /\ u.disabled = t.disabled
  BY DEF Only, Fields
<1>2. Only(t, u, Enduring)
  BY DEF Only
<1>3. F \cap Fate = {}
  OBVIOUS
<1>4. Lost(build, t, u)
  BY <1>3, LostFrame
<1> QED BY <1>1, <1>2, <1>4 DEF Endured

\* A handler that changes nothing endures.
LEMMA EnduredStill ==
  ASSUME NEW t, Good(build, t)
  PROVE  Endured(t, t)
<1>1. Only(t, t, {}) /\ {} \in SUBSET (Enduring \ (Fate \cup {"run", "disabled"}))
  BY DEF Only
<1> QED BY <1>1, EnduredOnly

\* Damage alone is endured.
LEMMA EnduredAbsorbs ==
  ASSUME build \in Builds, NEW t, Good(build, t), NEW damage \in Nat
  PROVE  Endured(t, AbsorbDamage(t, damage))
<1>1. PICK u : u = AbsorbDamage(t, damage)
  OBVIOUS
<1>2. Good(build, u) /\ Only(t, u, Absorbing) /\ Lost(build, t, u)
  BY <1>1, AbsorbSound
<1>3. u.run = t.run /\ u.disabled = t.disabled
  BY <1>2 DEF Only, Absorbing, Fields
<1>4. Only(t, u, Enduring)
  BY <1>2 DEF Only, Enduring
<1> QED BY <1>1, <1>2, <1>3, <1>4 DEF Endured

\* Spent cover is endured.
LEMMA EnduredConsumes ==
  ASSUME build \in Builds, NEW t, Good(build, t), NEW kind, Has(t, kind)
  PROVE  Endured(t, ConsumeDefense(t, kind))
<1>1. PICK u : u = ConsumeDefense(t, kind)
  OBVIOUS
<1>2. Good(build, u) /\ Only(t, u, {"defenses"})
  BY <1>1, ConsumeDefenseSound
<1>3. {"defenses"} \in SUBSET (Enduring \ (Fate \cup {"run", "disabled"}))
  BY DEF Enduring, Absorbing, Fate
<1> QED BY <1>1, <1>2, <1>3, EnduredOnly

\* An event that is avoided spends a charge of cover.
LEMMA AvoidedSound ==
  ASSUME build \in Builds, NEW t, Good(build, t), NEW unblockable,
         NEW cover, cover = Avoider(t, unblockable)
  PROVE  Endured(t, Avoided(t, cover))
<1>1. PICK u : u = Avoided(t, cover)
  OBVIOUS
<1>2. CASE cover \in {"Aegis", "Blind"}
  <2>1. Has(t, cover)
    <3>1. CASE cover = "Aegis"
      BY <3>1 DEF Avoider
    <3>2. CASE cover = "Blind"
      BY <3>2 DEF Avoider
    <3> QED BY <1>2, <3>1, <3>2
  <2>2. PICK v : v = ConsumeDefense(t, cover)
    OBVIOUS
  <2>3. Good(build, v) /\ Only(t, v, {"defenses"})
    BY <2>1, <2>2, ConsumeDefenseSound
  <2>4. u = [v EXCEPT !.charge = TRUE]
    BY <1>1, <1>2, <2>2 DEF Avoided
  <2>5. DOMAIN v = Fields
    BY <2>3 DEF Good, Shape
  <2>6. Only(v, u, {"charge"})
    BY <2>4, <2>5 DEF Only, Fields
  <2>7. Good(build, u)
    BY <2>3, <2>6, Frame DEF Good
  <2>8. Only(t, u, {"defenses", "charge"})
    BY <2>3, <2>6 DEF Only
  <2>9. {"defenses", "charge"} \in SUBSET (Enduring \ (Fate \cup {"run", "disabled"}))
    BY DEF Enduring, Absorbing, Fate
  <2> QED BY <1>1, <2>7, <2>8, <2>9, EnduredOnly
<1>3. CASE cover \notin {"Aegis", "Blind"}
  <2>1. u = t
    BY <1>1, <1>3 DEF Avoided
  <2> QED BY <1>1, <2>1, EnduredStill
<1> QED BY <1>2, <1>3

\* receive_strike hurts, or spends cover.
LEMMA StrikeSound ==
  ASSUME build \in Builds, NEW t, Good(build, t), NEW e, e.damage \in Nat
  PROVE  Endured(t, ReceiveStrike(t, e))
<1>1. PICK cover : cover = Avoider(t, e.unblockable)
  OBVIOUS
<1>2. CASE cover # ""
  <2>1. ReceiveStrike(t, e) = Avoided(t, cover)
    BY <1>1, <1>2 DEF ReceiveStrike
  <2> QED BY <1>1, <2>1, AvoidedSound
<1>3. CASE cover = ""
  <2>1. PICK d \in Nat : d = e.damage
    OBVIOUS
  <2>2. d - d \div 3 \in Nat
    OBVIOUS
  <2>3. PICK taken \in Nat : taken = IF Has(t, "Protection") THEN d - d \div 3 ELSE d
    BY <2>1, <2>2
  <2>4. ReceiveStrike(t, e) = AbsorbDamage(t, taken)
    BY <1>1, <1>3, <2>1, <2>3 DEF ReceiveStrike
  <2> QED BY <2>4, EnduredAbsorbs
<1> QED BY <1>2, <1>3

\* receive_control ends the cast and the window, or spends cover.
LEMMA ControlSound ==
  ASSUME build \in Builds, NEW t, Good(build, t), NEW e, e.duration \in Nat
  PROVE  Endured(t, ReceiveControl(t, e))
<1>1. PICK cover : cover = Avoider(t, e.unblockable)
  OBVIOUS
<1>2. CASE cover # ""
  <2>1. ReceiveControl(t, e) = Avoided(t, cover)
    BY <1>1, <1>2 DEF ReceiveControl
  <2> QED BY <1>1, <2>1, AvoidedSound
<1>3. CASE cover = "" /\ Has(t, "Stability")
  <2>1. ReceiveControl(t, e) = ConsumeDefense(t, "Stability")
    BY <1>1, <1>3 DEF ReceiveControl
  <2> QED BY <1>3, <2>1, EnduredConsumes
<1>4. CASE cover = "" /\ ~Has(t, "Stability")
  <2>1. PICK v : v = CancelPendingCast(t)
    OBVIOUS
  <2>2. Good(build, v) /\ Only(t, v, {"cast", "hits", "ready"}) /\ Lost(build, t, v)
    BY <2>1, CancelSound
  <2>3. DOMAIN v = Fields /\ v.disabled \in Nat /\ t.now \in Nat
    BY <2>2 DEF Good, Shape
  <2>4. PICK d : d = Most(v.disabled, t.now + e.duration)
    OBVIOUS
  <2>5. d \in Nat
    BY <2>3, <2>4 DEF Most
  <2>6. PICK u : u = ReceiveControl(t, e)
    OBVIOUS
  <2>7. u = [v EXCEPT !.disabled = d, !.run = 0]
    BY <1>1, <1>4, <2>1, <2>4, <2>6 DEF ReceiveControl
  <2>8. Only(v, u, {"disabled", "run"}) /\ u.disabled = d /\ u.run = 0 /\ u.now = v.now
    BY <2>3, <2>7 DEF Only, Fields
  <2>9. Shape(u)
    BY <2>2, <2>3, <2>5, <2>8 DEF Good, Shape, Only
  <2>10. Good(build, u)
    BY <2>2, <2>8, <2>9, Frame DEF Good
  <2>11. Lost(build, v, u)
    BY <2>2, <2>8, LostFrame DEF Fate
  <2>12. Lost(build, t, u)
    BY <2>2, <2>11, LostTwice
  <2>13. Only(t, u, Enduring)
    BY <2>2, <2>8 DEF Only, Enduring, Absorbing
  <2> QED BY <2>6, <2>8, <2>10, <2>12, <2>13 DEF Endured
<1> QED BY <1>2, <1>3, <1>4

\* receive_condition adds a condition, or spends cover.
LEMMA ConditionSound ==
  ASSUME build \in Builds, NEW t, Good(build, t), NEW e,
         e.name \in STRING, e.damage \in Nat, e.duration \in Nat
  PROVE  Endured(t, ReceiveCondition(t, e))
<1>1. CASE Has(t, "Invulnerability") \/ (Has(t, "Resistance") /\ e.damage = 0)
  <2>1. ReceiveCondition(t, e) = t
    BY <1>1 DEF ReceiveCondition
  <2> QED BY <2>1, EnduredStill
<1>2. CASE ~(Has(t, "Invulnerability") \/ (Has(t, "Resistance") /\ e.damage = 0))
  <2>1. PICK c : c = [name |-> e.name, damage |-> e.damage, expires |-> t.now + e.duration,
                      applied |-> t.now]
    OBVIOUS
  <2>2. /\ t.now \in Nat /\ DOMAIN t = Fields
        /\ t.conditions \in Seq(Conditions) /\ t.events \in Seq(Events)
    BY DEF Good, Shape, Suffering
  <2>3. c \in Conditions
    BY <2>1, <2>2 DEF Conditions
  <2>4. PICK cs : cs = Append(t.conditions, c)
    OBVIOUS
  <2>5. cs \in Seq(Conditions)
    BY <2>2, <2>3, <2>4, AppendProperties
  <2>6. PICK u : u = ReceiveCondition(t, e)
    OBVIOUS
  <2>7. u = [t EXCEPT !.conditions = cs]
    BY <1>2, <2>1, <2>4, <2>6 DEF ReceiveCondition
  <2>8. Only(t, u, {"conditions"}) /\ u.conditions = cs /\ u.events = t.events
    BY <2>2, <2>7 DEF Only, Fields
  <2>9. Suffering(u)
    BY <2>2, <2>5, <2>8 DEF Suffering
  <2>10. Good(build, u)
    BY <2>8, <2>9, Frame DEF Good
  <2>11. {"conditions"} \in SUBSET (Enduring \ (Fate \cup {"run", "disabled"}))
    BY DEF Enduring, Absorbing, Fate
  <2> QED BY <2>6, <2>8, <2>10, <2>11, EnduredOnly
<1> QED BY <1>1, <1>2

\* Every event of the enemy is endured.
LEMMA EventSound ==
  ASSUME build \in Builds, NEW t, Good(build, t), NEW e \in Events
  PROVE  Endured(t, ReceiveEvent(t, e))
<1>1. PICK u : u = ReceiveEvent(t, e)
  OBVIOUS
<1>2. CASE t.foe.disabled > t.now
  <2>1. u = t
    BY <1>1, <1>2 DEF ReceiveEvent
  <2> QED BY <1>1, <2>1, EnduredStill
<1>3. CASE ~(t.foe.disabled > t.now) /\ e.op = "Strike" /\ e.damage \in Nat
  <2>1. u = ReceiveStrike(t, e)
    BY <1>1, <1>3 DEF ReceiveEvent
  <2> QED BY <1>1, <1>3, <2>1, StrikeSound
<1>4. CASE ~(t.foe.disabled > t.now) /\ e.op = "Control" /\ e.duration \in Nat
  <2>1. u = ReceiveControl(t, e)
    BY <1>1, <1>4 DEF ReceiveEvent
  <2> QED BY <1>1, <1>4, <2>1, ControlSound
<1>5. CASE /\ ~(t.foe.disabled > t.now) /\ e.op = "Condition"
           /\ e.name \in STRING /\ e.damage \in Nat /\ e.duration \in Nat
  <2>1. u = ReceiveCondition(t, e)
    BY <1>1, <1>5 DEF ReceiveEvent
  <2> QED BY <1>1, <1>5, <2>1, ConditionSound
<1>6. CASE ~(t.foe.disabled > t.now) /\ e.op = "BoonStrip"
  <2>1. u = ReceiveBoonStrip(t)
    BY <1>1, <1>6 DEF ReceiveEvent
  <2>2. Good(build, u) /\ Only(t, u, {"defenses"})
    BY <2>1, BoonStripSound
  <2>3. {"defenses"} \in SUBSET (Enduring \ (Fate \cup {"run", "disabled"}))
    BY DEF Enduring, Absorbing, Fate
  <2> QED BY <1>1, <2>2, <2>3, EnduredOnly
<1> QED BY <1>2, <1>3, <1>4, <1>5, <1>6, EventFacts

Receiving(none, u, e) == ReceiveEvent(u, e)
Received == INSTANCE FoldFacts WITH Step <- Receiving, Keeps <- Anything

Receivings(t, due) == FoldLeft(ReceiveEvent, t, due)

\* The events due are endured, whatever their order.
LEMMA ReceivedSound ==
  ASSUME build \in Builds, NEW t, Good(build, t), NEW due \in Seq(Events)
  PROVE  Endured(t, Receivings(t, due))
<1>1. PICK n \in Nat : n = Len(due)
  OBVIOUS
<1>2. DOMAIN due = 1 .. n
  BY <1>1
<1>3. PICK run : Received!Traces(run, None, t, due, n)
  BY <1>1, <1>2, Received!FoldTrace
<1>4. Receivings(t, due) = Received!Fold(None, t, due)
  BY DEF Receivings, Receiving, Received!Fold, FoldLeft, Received!FoldLeft, MapThenFoldSet,
         Received!MapThenFoldSet, Max, Received!Max
<1>5. /\ run[0] = t /\ run[n] = Receivings(t, due)
      /\ \A k \in 0 .. n - 1 : run[k + 1] = ReceiveEvent(run[k], due[k + 1])
  BY <1>1, <1>3, <1>4 DEF Received!Traces, Receiving
<1>6. PICK S : S = {k \in 0 .. n : Endured(t, run[k])}
  OBVIOUS
<1>7. 0 \in S
  <2>1. Endured(t, t)
    BY EnduredStill
  <2>2. 0 \in 0 .. n
    OBVIOUS
  <2> QED BY <1>5, <1>6, <2>1, <2>2
<1>8. ASSUME NEW k \in 0 .. n - 1, k \in S PROVE k + 1 \in S
  <2>1. k + 1 \in 0 .. n /\ k + 1 \in 1 .. n /\ Endured(t, run[k])
    BY <1>6, <1>8
  <2>2. due[k + 1] \in Events
    BY <1>1, <2>1
  <2>3. Good(build, run[k])
    BY <2>1 DEF Endured
  <2>4. Endured(run[k], run[k + 1])
    BY <1>5, <2>2, <2>3, EventSound
  <2>5. Endured(t, run[k + 1])
    BY <2>1, <2>4, EnduredTwice
  <2> QED BY <1>6, <2>1, <2>5
<1>9. n \in S
  BY <1>7, <1>8, Climb
<1> QED BY <1>5, <1>6, <1>9

\* process_enemy_events is endured, and leaves later events.
LEMMA EnemySound ==
  ASSUME build \in Builds, NEW t, Good(build, t)
  PROVE  Endured(t, ProcessEnemyEvents(t))
<1>1. PICK u : u = ProcessEnemyEvents(t)
  OBVIOUS
<1>2. CASE ~FoeAlive(t)
  <2>1. u = t
    BY <1>1, <1>2 DEF ProcessEnemyEvents
  <2> QED BY <1>1, <2>1, EnduredStill
<1>3. CASE FoeAlive(t)
  <2>1. PICK past, later : /\ past = {e \in Range(t.events) : e.at <= t.now}
                           /\ later = {e \in Range(t.events) : e.at > t.now}
    OBVIOUS
  <2>2. PICK due, left : due = Retain(t.events, past) /\ left = Retain(t.events, later)
    OBVIOUS
  <2>3. t.events \in Seq(Events) /\ t.conditions \in Seq(Conditions) /\ DOMAIN t = Fields
    BY DEF Good, Suffering, Shape
  <2>4. past \subseteq Events /\ later \subseteq Events
    BY <2>1, <2>3 DEF Range
  <2>5. due \in Seq(past) /\ left \in Seq(later)
    BY <2>2, <2>3, RetainSeq
  <2>6. due \in Seq(Events) /\ left \in Seq(Events)
    BY <2>4, <2>5
  <2>7. PICK popped : popped = [t EXCEPT !.events = left]
    OBVIOUS
  <2>8. Only(t, popped, {"events"}) /\ popped.events = left /\ popped.conditions = t.conditions
    BY <2>3, <2>7 DEF Only, Fields
  <2>9. Suffering(popped)
    BY <2>3, <2>6, <2>8 DEF Suffering
  <2>10. Good(build, popped)
    BY <2>8, <2>9, Frame DEF Good
  <2>11. {"events"} \in SUBSET (Enduring \ (Fate \cup {"run", "disabled"}))
    BY DEF Enduring, Absorbing, Fate
  <2>12. Endured(t, popped)
    BY <2>8, <2>10, <2>11, EnduredOnly
  <2>13. u = Receivings(popped, due)
    BY <1>1, <1>3, <2>1, <2>2, <2>7 DEF ProcessEnemyEvents, Receivings
  <2>14. Endured(popped, u)
    BY <2>6, <2>10, <2>13, ReceivedSound
  <2> QED BY <1>1, <2>12, <2>14, EnduredTwice
<1> QED BY <1>2, <1>3

Hurting(none, sum, c) == sum + c.damage
Hurts == INSTANCE FoldFacts WITH Step <- Hurting, Keeps <- Whole

Pain(cs) == FoldLeft(LAMBDA sum, c : sum + c.damage, 0, cs)

\* The damage of the conditions is natural.
LEMMA PainNat ==
  ASSUME NEW cs \in Seq(Conditions)
  PROVE  Pain(cs) \in Nat
<1>1. PICK n \in Nat : n = Len(cs)
  OBVIOUS
<1>2. DOMAIN cs = 1 .. n
  BY <1>1
<1>3. PICK sums : Hurts!Traces(sums, None, 0, cs, n)
  BY <1>1, <1>2, Hurts!FoldTrace
<1>4. Pain(cs) = Hurts!Fold(None, 0, cs)
  BY DEF Pain, Hurting, Hurts!Fold, FoldLeft, Hurts!FoldLeft, MapThenFoldSet,
         Hurts!MapThenFoldSet, Max, Hurts!Max
<1>5. /\ sums[0] = 0 /\ sums[n] = Pain(cs)
      /\ \A k \in 0 .. n - 1 : sums[k + 1] = sums[k] + cs[k + 1].damage
  BY <1>1, <1>3, <1>4 DEF Hurts!Traces, Hurting
<1>6. PICK S : S = {k \in 0 .. n : sums[k] \in Nat}
  OBVIOUS
<1>7. 0 \in S
  BY <1>5, <1>6
<1>8. ASSUME NEW k \in 0 .. n - 1, k \in S PROVE k + 1 \in S
  <2>1. k + 1 \in 0 .. n /\ k + 1 \in 1 .. n /\ sums[k] \in Nat
    BY <1>6, <1>8
  <2>2. cs[k + 1] \in Conditions
    BY <1>1, <2>1
  <2>3. cs[k + 1].damage \in Nat
    BY <2>2 DEF Conditions
  <2> QED BY <1>5, <1>6, <2>1, <2>3
<1>9. n \in S
  BY <1>7, <1>8, Climb
<1> QED BY <1>5, <1>6, <1>9

\* tick_conditions hurts and drops what is over.
LEMMA ConditionsSound ==
  ASSUME build \in Builds, NEW t, Good(build, t)
  PROVE  Endured(t, TickConditions(t))
<1>1. PICK due : due = {c \in Range(t.conditions) : c.expires >= t.now /\ t.now > c.applied
                                                    /\ (t.now - c.applied) % SECOND = 0}
  OBVIOUS
<1>2. PICK cs : cs = Retain(t.conditions, due)
  OBVIOUS
<1>3. t.conditions \in Seq(Conditions)
  BY DEF Good, Suffering
<1>4. due \subseteq Conditions
  BY <1>1, <1>3 DEF Range
<1>5. cs \in Seq(Conditions)
  <2>1. cs \in Seq(due)
    BY <1>2, <1>3, RetainSeq
  <2> QED BY <1>4, <2>1
<1>6. PICK damage \in Nat : damage = Pain(cs)
  BY <1>5, PainNat
<1>7. PICK hurt : hurt = IF damage = 0 THEN t ELSE AbsorbDamage(t, damage)
  OBVIOUS
<1>8. Endured(t, hurt)
  <2>1. CASE damage = 0
    BY <1>7, <2>1, EnduredStill
  <2>2. CASE damage # 0
    BY <1>7, <2>2, EnduredAbsorbs
  <2> QED BY <2>1, <2>2
<1>9. Good(build, hurt)
  BY <1>8 DEF Endured
<1>10. PICK left : left = Retain(hurt.conditions, {c \in Range(hurt.conditions) : c.expires > t.now})
  OBVIOUS
<1>11. /\ hurt.conditions \in Seq(Conditions) /\ hurt.events \in Seq(Events) /\ DOMAIN hurt = Fields
  BY <1>9 DEF Good, Suffering, Shape
<1>12. left \in Seq(Conditions)
  <2>1. left \in Seq({c \in Range(hurt.conditions) : c.expires > t.now})
    BY <1>10, <1>11, RetainSeq
  <2>2. {c \in Range(hurt.conditions) : c.expires > t.now} \subseteq Conditions
    BY <1>11 DEF Range
  <2> QED BY <2>1, <2>2
<1>13. PICK u : u = TickConditions(t)
  OBVIOUS
<1>14. u = [hurt EXCEPT !.conditions = left]
  BY <1>1, <1>2, <1>6, <1>7, <1>10, <1>13 DEF TickConditions, Pain
<1>15. Only(hurt, u, {"conditions"}) /\ u.conditions = left /\ u.events = hurt.events
  BY <1>11, <1>14 DEF Only, Fields
<1>16. Suffering(u)
  BY <1>11, <1>12, <1>15 DEF Suffering
<1>17. Good(build, u)
  BY <1>9, <1>15, <1>16, Frame DEF Good
<1>18. {"conditions"} \in SUBSET (Enduring \ (Fate \cup {"run", "disabled"}))
  BY DEF Enduring, Absorbing, Fate
<1>19. Endured(hurt, u)
  BY <1>9, <1>15, <1>17, <1>18, EnduredOnly
<1> QED BY <1>8, <1>13, <1>19, EnduredTwice

\* track_protected_window counts a tick, or starts over.
LEMMA TrackSound ==
  ASSUME build \in Builds, NEW t, Good(build, t)
  PROVE  LET u == TrackProtectedWindow(t) IN
         /\ Good(build, u) /\ Only(t, u, {"run", "longest"})
         /\ \/ u.run = t.run + TICK /\ u.longest = Most(t.longest, t.run + TICK)
            \/ u.run = 0 /\ u.longest = t.longest
<1>1. PICK u : u = TrackProtectedWindow(t)
  OBVIOUS
<1>2. DOMAIN t = Fields
  BY DEF Good, Shape
<1>3. CASE ControlOwned(t) \/ t.charge
  <2>1. PICK r, l : r = t.run + TICK /\ l = Most(t.longest, t.run + TICK)
    OBVIOUS
  <2>2. u = [t EXCEPT !.run = r, !.longest = l]
    BY <1>1, <1>3, <2>1 DEF TrackProtectedWindow
  <2>3. Only(t, u, {"run", "longest"}) /\ u.run = r /\ u.longest = l
    BY <1>2, <2>2 DEF Only, Fields
  <2> QED BY <1>1, <2>1, <2>3, Frame DEF Good
<1>4. CASE ~(ControlOwned(t) \/ t.charge)
  <2>1. u = [t EXCEPT !.run = 0]
    BY <1>1, <1>4 DEF TrackProtectedWindow
  <2>2. Only(t, u, {"run", "longest"}) /\ u.run = 0 /\ u.longest = t.longest
    BY <1>2, <2>1 DEF Only, Fields
  <2> QED BY <1>1, <2>2, Frame DEF Good
<1> QED BY <1>3, <1>4

----------------------------------------------------------------------------
\* What the player presses.

\* An opener stops within its script, never behind the cursor.
LEMMA StopSound ==
  ASSUME build \in Builds, NEW t, t.cursor \in 1 .. Len(build.opener) + 1
  PROVE  OpenerStop(t) \in t.cursor .. Len(build.opener) + 1
<1>1. PICK n \in Nat : n = Len(build.opener)
  BY BuildFacts
<1>2. PICK from \in 1 .. n + 1 : from = t.cursor
  BY <1>1
<1>3. PICK X : X = {c \in from .. n + 1 : c <= n => OpenerVerdict(t, c) # "skip"}
  OBVIOUS
<1>4. X \in SUBSET Nat /\ n + 1 \in X
  BY <1>3
<1>5. PICK c \in X : \A m \in X : c <= m
  BY <1>4, Summed!Least
<1>6. c \in from .. n + 1 /\ (c <= n => OpenerVerdict(t, c) # "skip")
  BY <1>3
<1>7. \A b \in from .. c - 1 : OpenerVerdict(t, b) = "skip"
  <2> SUFFICES ASSUME NEW b \in from .. c - 1 PROVE OpenerVerdict(t, b) = "skip"
    OBVIOUS
  <2>1. b \in from .. n + 1 /\ b <= n /\ ~(c <= b)
    BY <1>6
  <2>2. b \notin X
    BY <1>5, <2>1
  <2> QED BY <1>3, <2>1, <2>2
<1> QED BY <1>1, <1>2, <1>6, <1>7 DEF OpenerStop

\* pick_skill picks skills that are available and recharged.
LEMMA PicksSound ==
  ASSUME build \in Builds, NEW t, t.cursor \in 1 .. Len(build.opener) + 1, NEW i \in Picks(t)
  PROVE  i \in Ids /\ Recharged(t, i)
<1>1. PICK c : c = OpenerStop(t)
  OBVIOUS
<1>2. PICK n \in Nat : n = Len(build.opener) /\ DOMAIN build.opener = 1 .. n
  <2>1. build.opener \in Seq(Numbers(build))
    BY BuildFacts
  <2>2. Len(build.opener) \in Nat /\ DOMAIN build.opener = 1 .. Len(build.opener)
    BY <2>1, LenProperties
  <2> QED BY <2>2
<1>3. c \in 1 .. n + 1
  BY <1>1, <1>2, StopSound
<1>4. PICK verdict : verdict = IF c > n THEN "scorer" ELSE OpenerVerdict(t, c)
  OBVIOUS
<1>5. CASE verdict = "press"
  <2>1. c \in 1 .. n /\ OpenerVerdict(t, c) = "press"
    BY <1>3, <1>4, <1>5
  <2>2. i = build.opener[c]
    BY <1>1, <1>2, <1>4, <1>5 DEF Picks
  <2>3. Recharged(t, i)
    BY <2>1, <2>2 DEF OpenerVerdict
  <2>4. i \in Ids
    BY <1>2, <2>1, <2>2, BuildFacts DEF Ids, Numbers
  <2> QED BY <2>3, <2>4
<1>6. CASE verdict # "press"
  <2>1. i \in Scored(t)
    <3>1. CASE verdict = "swap"
      BY <1>1, <1>2, <1>4, <3>1 DEF Picks
    <3>2. CASE verdict # "swap"
      BY <1>1, <1>2, <1>4, <1>6, <3>2 DEF Picks
    <3> QED BY <3>1, <3>2
  <2> QED BY <2>1 DEF Scored
<1> QED BY <1>5, <1>6

\* The script moves on past the skill pressed.
LEMMA AdvancedSound ==
  ASSUME build \in Builds, NEW t, Good(build, t), t.cursor \in 1 .. Len(build.opener) + 1
  PROVE  LET u == Advanced(t) IN
         Good(build, u) /\ Only(t, u, {"cursor"}) /\ u.cursor \in 1 .. Len(build.opener) + 1
<1>1. PICK c : c = OpenerStop(t)
  OBVIOUS
<1>2. PICK n \in Nat : n = Len(build.opener)
  BY BuildFacts
<1>3. c \in 1 .. n + 1
  BY <1>1, <1>2, StopSound
<1>4. PICK d : d = IF c <= n /\ OpenerVerdict(t, c) = "press" THEN c + 1 ELSE c
  OBVIOUS
<1>5. d \in 1 .. n + 1
  BY <1>3, <1>4
<1>6. PICK u : u = Advanced(t)
  OBVIOUS
<1>7. u = [t EXCEPT !.cursor = d]
  BY <1>1, <1>2, <1>4, <1>6 DEF Advanced
<1>8. DOMAIN t = Fields
  BY DEF Good, Shape
<1>9. Only(t, u, {"cursor"}) /\ u.cursor = d
  BY <1>7, <1>8 DEF Only, Fields
<1> QED BY <1>2, <1>5, <1>6, <1>9, Frame DEF Good

\* try_legend_swap sets the pool and touches no bar.
LEMMA LegendSound ==
  ASSUME build \in Builds, NEW t, Good(build, t)
  PROVE  LET u == TryLegendSwap(t) IN
         Good(build, u) /\ Only(t, u, {"pool", "legendReady", "upkeep"})
<1>1. PICK u : u = TryLegendSwap(t)
  OBVIOUS
<1>2. CASE build.kind = "Energy" /\ t.now >= t.legendReady /\ 2 * t.pool < LEGEND_ENERGY
  <2>1. PICK when : when = t.now + LEGEND
    OBVIOUS
  <2>2. u = [t EXCEPT !.pool = LEGEND_ENERGY, !.legendReady = when, !.upkeep = 0]
    BY <1>1, <1>2, <2>1 DEF TryLegendSwap
  <2>3. DOMAIN t = Fields
    BY DEF Good, Shape
  <2>4. /\ Only(t, u, {"pool", "legendReady", "upkeep"})
        /\ u.pool = LEGEND_ENERGY /\ u.upkeep = 0
        /\ u.health = t.health /\ u.endurance = t.endurance
    BY <2>2, <2>3 DEF Only, Fields
  <2>5. LEGEND_ENERGY \in 0..Ceiling(build) /\ 0 \in 0..MAX_UPKEEP
    BY <1>2, BuildFacts, CeilingFacts, Amounts
  <2>6. Levels(build, u)
    BY <2>4, <2>5 DEF Good, Levels
  <2> QED BY <1>1, <2>4, <2>6, Frame DEF Good
<1>3. CASE ~(build.kind = "Energy" /\ t.now >= t.legendReady /\ 2 * t.pool < LEGEND_ENERGY)
  <2>1. u = t
    BY <1>1, <1>3 DEF TryLegendSwap
  <2> QED BY <1>1, <2>1 DEF Only
<1> QED BY <1>2, <1>3

\* try_weapon_swap takes a weapon set, and only outside a shroud.
LEMMA WeaponSwapSound ==
  ASSUME build \in Builds, NEW t, Good(build, t)
  PROVE  LET u == TryWeaponSwap(t) IN
         /\ Good(build, u) /\ Only(t, u, {"set", "swapReady", "next"})
         /\ u = t \/ (t.shroud = None /\ u.set \in {1, 2})
<1>1. PICK u : u = TryWeaponSwap(t)
  OBVIOUS
<1>2. PICK other \in {1, 2} : other = IF t.set = 1 THEN 2 ELSE 1
  OBVIOUS
<1>3. PICK ready, next : ready = t.now + SWAP /\ next = t.now + GAP
  OBVIOUS
<1>4. u = t \/ (~InShroud(t) /\ u = [t EXCEPT !.set = other, !.swapReady = ready, !.next = next])
  BY <1>1, <1>2, <1>3 DEF TryWeaponSwap
<1>5. CASE u = t
  BY <1>1, <1>5 DEF Only
<1>6. CASE ~InShroud(t) /\ u = [t EXCEPT !.set = other, !.swapReady = ready, !.next = next]
  <2>1. DOMAIN t = Fields /\ t.shroud = None
    BY <1>6 DEF Good, Shape, InShroud
  <2>2. /\ Only(t, u, {"set", "swapReady", "next"}) /\ u.set = other
        /\ u.shroud = None /\ u.before = t.before
    BY <1>6, <2>1 DEF Only, Fields
  <2>3. Bars(build, u)
    BY <2>2 DEF Good, Bars
  <2> QED BY <1>1, <2>1, <2>2, <2>3, Frame DEF Good
<1> QED BY <1>4, <1>5, <1>6

FirstStunbreak(t) == CHOOSE i \in Stunbreaks(t) : \A j \in Stunbreaks(t) : i <= j

\* try_stunbreak takes the first stunbreak of the build.
LEMMA FirstStunbreakSound ==
  ASSUME build \in Builds, NEW t, Stunbreaks(t) # {}
  PROVE  FirstStunbreak(t) \in Ids
<1>1. Stunbreaks(t) \in SUBSET Nat /\ Stunbreaks(t) \subseteq Ids
  BY BuildFacts DEF Stunbreaks, Ids, Numbers
<1>2. PICK i \in Stunbreaks(t) : \A j \in Stunbreaks(t) : i <= j
  BY <1>1, Summed!Least
<1> QED BY <1>1, <1>2 DEF FirstStunbreak

\* try_stunbreak is mild and recharges its skill.
LEMMA StunbreakSound ==
  ASSUME build \in Builds, NEW t, Good(build, t)
  PROVE  LET u == TryStunbreak(t) IN
         /\ Good(build, u) /\ Only(t, u, Soft \cup {"ready", "disabled", "next"})
         /\ \/ u = t
            \/ /\ FirstStunbreak(t) \in Ids
               /\ \A k \in Ids : u.ready[k] = IF Same(FirstStunbreak(t), k)
                                              THEN t.now + Skill(FirstStunbreak(t)).cooldown ELSE t.ready[k]
<1>1. PICK u : u = TryStunbreak(t)
  OBVIOUS
<1>2. CASE t.disabled <= t.now \/ Stunbreaks(t) = {}
  <2>1. u = t
    BY <1>1, <1>2 DEF TryStunbreak
  <2> QED BY <1>1, <2>1 DEF Only
<1>3. CASE ~(t.disabled <= t.now \/ Stunbreaks(t) = {})
  <2>1. PICK i : i = FirstStunbreak(t)
    OBVIOUS
  <2>2. i \in Ids
    BY <1>3, <2>1, FirstStunbreakSound
  <2>3. PICK paid : paid = PayResource(t, i)
    OBVIOUS
  <2>4. Good(build, paid) /\ Only(t, paid, {"pool"})
    BY <2>2, <2>3, PaySound
  <2>5. PICK cooled : cooled = SetSkillCooldown(paid, i, Skill(i).cooldown)
    OBVIOUS
  <2>6. /\ Good(build, cooled) /\ Only(paid, cooled, {"ready"})
        /\ \A k \in Ids : cooled.ready[k] = IF Same(i, k) THEN paid.now + Skill(i).cooldown ELSE paid.ready[k]
    BY <2>2, <2>4, <2>5, SkillFacts, SetCooldownSound
  <2>7. PICK next : next = t.now + GAP
    OBVIOUS
  <2>8. PICK freed : freed = [cooled EXCEPT !.disabled = t.now, !.next = next]
    OBVIOUS
  <2>9. DOMAIN cooled = Fields /\ t.now \in Nat /\ cooled.now \in Nat
    BY <2>6 DEF Good, Shape
  <2>10. Only(cooled, freed, {"disabled", "next"}) /\ freed.disabled = t.now /\ freed.now = cooled.now
    BY <2>8, <2>9 DEF Only, Fields
  <2>11. Shape(freed)
    BY <2>9, <2>10 DEF Shape, Only
  <2>12. Good(build, freed)
    BY <2>6, <2>10, <2>11, Frame DEF Good
  <2>13. u = ApplyAll(freed, i, Skill(i).effects)
    BY <1>1, <1>3, <2>1, <2>3, <2>5, <2>7, <2>8 DEF TryStunbreak, FirstStunbreak
  <2>14. Mild(freed, u)
    BY <2>2, <2>12, <2>13, SkillFacts, ApplyAllSound
  <2>15. Good(build, u) /\ Only(freed, u, Soft)
    BY <2>14 DEF Mild
  <2>16. Only(t, u, Soft \cup {"ready", "disabled", "next"})
    BY <2>4, <2>6, <2>10, <2>15 DEF Only, Soft
  <2>17. u.ready = cooled.ready /\ paid.ready = t.ready /\ paid.now = t.now
    BY <2>4, <2>10, <2>15 DEF Only, Fields, Soft
  <2> QED BY <1>1, <2>1, <2>2, <2>6, <2>15, <2>16, <2>17
<1> QED BY <1>2, <1>3

\* The fight begins.
LEMMA NewSound ==
  ASSUME build \in Builds, NEW script \in Scripts
  PROVE  LET u == NewTimeline(script) IN
         /\ Good(build, u) /\ u.now = 0 /\ u.cursor = 1 /\ u.run = 0 /\ u.longest = 0
         /\ u.set = 1 /\ u.before = 1 /\ u.ready = [i \in Ids |-> 0]
<1>1. PICK ready, foe : /\ ready = [i \in Ids |-> 0]
                        /\ foe = [hp |-> FoeHealth, disabled |-> 0, stability |-> script.stability]
  OBVIOUS
<1>2. PICK events, full : events = script.events /\ full = 2 * DODGE_COST
  OBVIOUS
<1>3. PICK u : u = NewTimeline(script)
  OBVIOUS
<1>4. u = [now |-> 0, next |-> 0, disabled |-> 0, set |-> 1, before |-> 1, shroud |-> None,
           swapReady |-> 0, legendReady |-> 0, cursor |-> 1, ready |-> ready,
           cast |-> None, hits |-> <<>>, defenses |-> <<>>, buffs |-> {}, barrier |-> <<>>,
           conditions |-> <<>>, health |-> MaxHealth, pool |-> build.start, upkeep |-> 0,
           endurance |-> full, pulseReady |-> 0, run |-> 0, longest |-> 0, charge |-> FALSE, foe |-> foe,
           events |-> events]
  BY <1>1, <1>2, <1>3 DEF NewTimeline
<1>5. DOMAIN u = Fields
  BY <1>4 DEF Fields
<1>6. /\ u.now = 0 /\ u.disabled = 0 /\ u.set = 1 /\ u.before = 1 /\ u.shroud = None
      /\ u.cursor = 1 /\ u.ready = ready /\ u.cast = None /\ u.hits = <<>> /\ u.defenses = <<>>
      /\ u.barrier = <<>> /\ u.conditions = <<>> /\ u.health = MaxHealth /\ u.pool = build.start
      /\ u.upkeep = 0 /\ u.endurance = full /\ u.run = 0 /\ u.longest = 0 /\ u.events = events
  BY <1>4
<1>7. Shape(u)
  BY <1>5, <1>6 DEF Shape
<1>8. Casts(build, u)
  <2>1. u.hits \in Seq(HitShapes(build)) /\ DOMAIN u.hits = {}
    BY <1>6
  <2> QED BY <1>6, <2>1 DEF Casts
<1>9. Bars(build, u)
  BY <1>6 DEF Bars
<1>10. Recharges(build, u)
  BY <1>1, <1>6 DEF Recharges, Numbers, Ids
<1>11. Levels(build, u)
  <2>1. full \in 0..(2 * DODGE_COST)
    BY <1>2, Amounts
  <2>2. MaxHealth \in 0..MaxHealth /\ 0 \in 0..MAX_UPKEEP
    BY Amounts
  <2>3. build.start \in 0..Ceiling(build)
    BY BuildFacts, CeilingFacts
  <2> QED BY <1>6, <2>1, <2>2, <2>3 DEF Levels
<1>12. Covers(u)
  <2>1. <<>> \in Seq(Defenses) /\ DOMAIN <<>> = {}
    OBVIOUS
  <2>2. u.defenses \in Seq(Defenses) /\ DOMAIN u.defenses = {}
    BY <1>6, <2>1
  <2> QED BY <2>2 DEF Covers, Covering
<1>13. Barriers(u)
  <2>1. <<>> \in Seq(Layers) /\ Len(<<>>) = 0
    OBVIOUS
  <2>2. BarrierLeft(<<>>) = 0
    BY <2>1, SumTrace
  <2> QED BY <1>6, <2>1, <2>2, Amounts DEF Barriers
<1>14. Suffering(u)
  <2>1. events \in Seq(Events)
    BY <1>2, ScriptsAssumption
  <2>2. <<>> \in Seq(Conditions)
    OBVIOUS
  <2> QED BY <1>6, <2>1, <2>2 DEF Suffering
<1>15. Good(build, u)
  BY <1>7, <1>8, <1>9, <1>10, <1>11, <1>12, <1>13, <1>14 DEF Good
<1> QED BY <1>1, <1>3, <1>6, <1>15

----------------------------------------------------------------------------
\* The recharge that is owed, and the clock.

\* A skill that rests until r is ready at d: the recharge runs at most a fourth
\* ahead of the clock, and what Alacrity takes next is already set aside.
Owes(r, d, now) ==
  r <= now \/ /\ 5 * (r - now) <= 4 * (d - now)
              /\ 5 * (r - now) + 4 * ALACRITY - PERIOD + (now % PERIOD) <= 4 * (d - now)

\* The period of Alacrity is made of ticks.
LEMMA Periods ==
  /\ TICK \in Nat \ {0} /\ PERIOD \in Nat \ {0} /\ PERIOD % TICK = 0
  /\ ALACRITY \in Nat /\ CHILLED \in Nat /\ 4 * ALACRITY <= PERIOD
BY Amounts, TimesAssumption

\* A recharge written now is owed, however much Alacrity will take off.
LEMMA FreshOwes ==
  ASSUME NEW now \in Nat, NEW d \in Nat
  PROVE  Owes(now + Hastened(d), now + d, now) /\ Hastened(d) \in Nat
<1>1. PICK h : h = Hastened(d)
  OBVIOUS
<1>2. PICK x \in Int : x = 4 * (d - ALACRITY)
  BY Periods
<1>3. h = Most(x \div 5, 0)
  BY <1>1, <1>2 DEF Hastened
<1>4. x \div 5 \in Int /\ 5 * (x \div 5) <= x
  OBVIOUS
<1>5. h \in Nat
  BY <1>3, <1>4 DEF Most
<1>6. PICK m : m = now % PERIOD
  OBVIOUS
<1>7. m \in 0 .. PERIOD - 1
  BY <1>6, Periods
<1>8. CASE h = 0
  BY <1>1, <1>5, <1>8 DEF Owes
<1>9. CASE h # 0
  <2>1. 5 * h <= x
    BY <1>3, <1>4, <1>9 DEF Most
  <2>2. 5 * h <= 4 * d - 4 * ALACRITY
    BY <1>2, <2>1, Periods
  <2>3. (now + h) - now = h /\ (now + d) - now = d
    BY <1>5
  <2>4. 5 * h <= 4 * d /\ 5 * h + 4 * ALACRITY - PERIOD + m <= 4 * d
    BY <1>5, <1>7, <2>2, Periods
  <2> QED BY <1>1, <1>5, <1>6, <2>3, <2>4 DEF Owes
<1> QED BY <1>8, <1>9

\* The clock within a period.
LEMMA NextTick ==
  ASSUME NEW now \in Nat, now % TICK = 0
  PROVE  /\ (now + TICK) % TICK = 0
         /\ \/ (now + TICK) % PERIOD = 0 /\ (now % PERIOD) + TICK = PERIOD
            \/ (now + TICK) % PERIOD = (now % PERIOD) + TICK
<1>1. PICK T, P : T = TICK /\ P = PERIOD
  OBVIOUS
<1>2. T \in Nat \ {0} /\ P \in Nat \ {0} /\ P % T = 0
  BY <1>1, Periods
<1>3. PICK a \in Nat : P = T * a
  BY <1>2
<1>4. PICK b \in Nat : now = T * b
  BY <1>1, <1>2
<1>5. PICK q, m : q = now \div P /\ m = now % P
  OBVIOUS
<1>6. q \in Nat /\ m \in 0 .. P - 1 /\ now = P * q + m
  BY <1>2, <1>5
<1>7. PICK c \in Int : c = b - a * q
  BY <1>6
<1>8. m = T * c
  BY <1>2, <1>3, <1>4, <1>6, <1>7
<1>9. c < a
  BY <1>2, <1>3, <1>6, <1>8
<1>10. m + T <= P
  BY <1>2, <1>3, <1>8, <1>9
<1>11. (now + T) % T = 0
  BY <1>2, <1>4
<1>12. CASE m + T = P
  <2>1. now + T = P * (q + 1)
    BY <1>2, <1>6, <1>12
  <2>2. (now + T) % P = 0
    BY <1>2, <1>6, <2>1
  <2> QED BY <1>1, <1>5, <1>11, <1>12, <2>2
<1>13. CASE m + T < P
  <2>1. now + T = P * q + (m + T) /\ m + T \in 0 .. P - 1
    BY <1>2, <1>6, <1>13
  <2>2. (now + T) % P = m + T
    BY <1>2, <1>6, <2>1
  <2> QED BY <1>1, <1>5, <1>11, <2>2
<1> QED BY <1>2, <1>6, <1>10, <1>12, <1>13

\* What is owed stays owed over a tick, with or without Alacrity.
LEMMA TickOwes ==
  ASSUME NEW now \in Nat, now % TICK = 0, NEW r \in Int, NEW d \in Int, Owes(r, d, now),
         NEW e \in Int, e >= d \/ ((now + TICK) % PERIOD = 0 /\ e = d - ALACRITY)
  PROVE  Owes(r, e, now + TICK)
<1>1. PICK m, n : m = now % PERIOD /\ n = (now + TICK) % PERIOD
  OBVIOUS
<1>2. PICK later \in Nat : later = now + TICK
  BY Periods
<1>3. m \in 0 .. PERIOD - 1 /\ n \in 0 .. PERIOD - 1
  BY <1>1, Periods
<1>4. (n = 0 /\ m + TICK = PERIOD) \/ n = m + TICK
  BY <1>1, NextTick
<1>5. CASE r <= now
  BY <1>2, <1>5, Periods DEF Owes
<1>6. CASE /\ 5 * (r - now) <= 4 * (d - now)
           /\ 5 * (r - now) + 4 * ALACRITY - PERIOD + m <= 4 * (d - now)
  <2>1. CASE n = 0 /\ m + TICK = PERIOD
    <3>1. e >= d - ALACRITY
      BY <1>1, <2>1, Periods
    <3>2. 5 * (r - later) <= 4 * (e - later)
      BY <1>2, <1>3, <1>6, <2>1, <3>1, Periods
    <3>3. 5 * (r - later) + 4 * ALACRITY - PERIOD + n <= 4 * (e - later)
      BY <2>1, <3>2, <1>2, Periods
    <3> QED BY <1>1, <1>2, <3>2, <3>3 DEF Owes
  <2>2. CASE n = m + TICK
    <3>1. n # 0
      BY <1>3, <2>2, Periods
    <3>2. e >= d
      BY <1>1, <3>1
    <3>3. 5 * (r - later) <= 4 * (e - later)
      BY <1>2, <1>6, <3>2, Periods
    <3>4. 5 * (r - later) + 4 * ALACRITY - PERIOD + n <= 4 * (e - later)
      BY <1>2, <1>3, <1>6, <2>2, <3>2, Periods
    <3> QED BY <1>1, <1>2, <3>3, <3>4 DEF Owes
  <2> QED BY <1>4, <2>1, <2>2
<1> QED BY <1>1, <1>5, <1>6 DEF Owes

\* A skill still owed a recharge is not ready.
LEMMA OwedRests ==
  ASSUME NEW now \in Nat, NEW r \in Int, NEW d \in Int, Owes(r, d, now), d <= now
  PROVE  r <= now
BY DEF Owes

\* tick_recharge_rate takes Alacrity's share of a period off every recharge.
LEMMA RateSound ==
  ASSUME build \in Builds, NEW t, Good(build, t)
  PROVE  LET u == TickRechargeRate(t) IN
         /\ Good(build, u) /\ Only(t, u, {"ready"})
         /\ \A i \in Ids : u.ready[i] >= t.ready[i] \/ (t.now % PERIOD = 0 /\ u.ready[i] = t.ready[i] - ALACRITY)
<1>1. PICK u : u = TickRechargeRate(t)
  OBVIOUS
<1>2. /\ t.ready \in [Ids -> Int] /\ DOMAIN t = Fields /\ t.now \in Nat
      /\ t.ready \in [Numbers(build) -> Int]
  BY DEF Good, Shape, Recharges, Numbers, Ids
<1>3. ASSUME NEW by \in Int,
             u = [t EXCEPT !.ready = [i \in Ids |-> IF @[i] > t.now THEN @[i] + by ELSE @[i]]]
      PROVE  /\ Good(build, u) /\ Only(t, u, {"ready"})
             /\ \A i \in Ids : u.ready[i] = t.ready[i] \/ u.ready[i] = t.ready[i] + by
  <2>1. PICK ready : ready = [i \in Ids |-> IF t.ready[i] > t.now THEN t.ready[i] + by ELSE t.ready[i]]
    OBVIOUS
  <2>2. u = [t EXCEPT !.ready = ready]
    BY <1>3, <2>1
  <2>3. Only(t, u, {"ready"}) /\ u.ready = ready
    BY <1>2, <2>2 DEF Only, Fields
  <2>4. ready \in [Ids -> Int]
    BY <1>2, <2>1
  <2>5. Recharges(build, u)
    BY <2>3, <2>4 DEF Recharges, Numbers, Ids
  <2>6. Good(build, u)
    BY <2>3, <2>5, Frame DEF Good
  <2> QED BY <2>1, <2>3, <2>6
<1>4. CASE u = t
  <2>1. Only(t, u, {"ready"})
    BY <1>4 DEF Only
  <2>2. \A i \in Ids : u.ready[i] >= t.ready[i]
    BY <1>2, <1>4
  <2> QED BY <1>1, <1>4, <2>1, <2>2
<1>5. CASE t.now % PERIOD = 0 /\ HasCondition(t, "Chilled")
  <2>1. u = [t EXCEPT !.ready = [i \in Ids |-> IF @[i] > t.now THEN @[i] + CHILLED ELSE @[i]]]
    BY <1>1, <1>5 DEF TickRechargeRate
  <2>2. CHILLED \in Int
    BY Periods
  <2>3. /\ Good(build, u) /\ Only(t, u, {"ready"})
        /\ \A i \in Ids : u.ready[i] = t.ready[i] \/ u.ready[i] = t.ready[i] + CHILLED
    BY <1>3, <2>1, <2>2
  <2>4. \A i \in Ids : u.ready[i] >= t.ready[i]
    BY <1>2, <2>3, Periods
  <2> QED BY <1>1, <2>3, <2>4
<1>6. CASE t.now % PERIOD = 0 /\ ~HasCondition(t, "Chilled") /\ HasBuff(t, "Alacrity")
  <2>1. u = [t EXCEPT !.ready = [i \in Ids |-> IF @[i] > t.now THEN @[i] + (-ALACRITY) ELSE @[i]]]
    BY <1>1, <1>6 DEF TickRechargeRate
  <2>2. -ALACRITY \in Int
    BY Periods
  <2>3. /\ Good(build, u) /\ Only(t, u, {"ready"})
        /\ \A i \in Ids : u.ready[i] = t.ready[i] \/ u.ready[i] = t.ready[i] + (-ALACRITY)
    BY <1>3, <2>1, <2>2
  <2>4. \A i \in Ids : u.ready[i] >= t.ready[i] \/ u.ready[i] = t.ready[i] - ALACRITY
    BY <1>2, <2>3, Periods
  <2> QED BY <1>1, <1>6, <2>3, <2>4
<1>7. u = t \/ (t.now % PERIOD = 0 /\ HasCondition(t, "Chilled"))
      \/ (t.now % PERIOD = 0 /\ ~HasCondition(t, "Chilled") /\ HasBuff(t, "Alacrity"))
  BY <1>1 DEF TickRechargeRate
<1> QED BY <1>4, <1>5, <1>6, <1>7

----------------------------------------------------------------------------
\* The inductive invariant.

ShapeInv == Good(build, tl)

ClockInv ==
  /\ tl.now < Duration + TICK
  /\ phase \in {"resolve", "suffer", "decide", "clock"} => tl.now < Duration
  /\ phase # "over" => tl.now % TICK = 0
  /\ tl.cursor \in 1 .. Len(build.opener) + 1

\* Outside a shroud the bar is a weapon set, and a shroud hides one.
HomeInv == ~reentered => (tl.set = SHROUD_SET => tl.shroud # None) /\ tl.before \in {1, 2}

AliveInv == phase \in {"resolve", "suffer"} => tl.health > 0

\* The tick the window already counts and the clock does not.
Margin == IF phase \in {"regenerate", "resolve", "suffer"} THEN 0 ELSE TICK

WindowInv ==
  /\ tl.run \in Nat /\ tl.longest \in Nat /\ control \in Nat
  /\ tl.run <= tl.longest /\ tl.longest <= tl.now + Margin
  /\ tl.run <= tl.now - control + Margin
  /\ control <= tl.now /\ control < Duration

RestInv ==
  /\ rest \in [Ids -> Nat]
  /\ phase # "over" => \A i \in Ids : Owes(rest[i], tl.ready[i], tl.now)

IInv ==
  /\ build \in Builds /\ phase \in Phases /\ reentered \in BOOLEAN
  /\ ShapeInv /\ ClockInv /\ HomeInv /\ AliveInv /\ WindowInv /\ RestInv

\* A step that starts no cast, and one that lets the dead rest.
NoCast == tl.cast = None => tl'.cast = None
Rests == tl.health = 0 /\ phase # "decide" => tl'.health = 0 /\ tl'.foe = tl.foe /\ tl'.longest = tl.longest

\* The invariant holds when the fight begins.
LEMMA InitIInv == Init => IInv
<1> SUFFICES ASSUME Init PROVE IInv
  OBVIOUS
<1>1. build \in Builds /\ phase = "regenerate" /\ rest = [i \in Ids |-> 0] /\ control = 0 /\ reentered = FALSE
  BY DEF Init
<1>2. PICK script \in Scripts : tl = NewTimeline(script)
  BY DEF Init
<1>3. /\ Good(build, tl) /\ tl.now = 0 /\ tl.cursor = 1 /\ tl.run = 0 /\ tl.longest = 0
      /\ tl.set = 1 /\ tl.before = 1 /\ tl.ready = [i \in Ids |-> 0]
  BY <1>1, <1>2, NewSound
<1>4. ClockInv
  <2>1. 0 < Duration + TICK /\ 0 % TICK = 0
    BY Amounts
  <2>2. 1 \in 1 .. Len(build.opener) + 1
    BY <1>1, BuildFacts
  <2> QED BY <1>1, <1>3, <2>1, <2>2 DEF ClockInv
<1>5. HomeInv /\ AliveInv
  BY <1>1, <1>3 DEF HomeInv, AliveInv, SHROUD_SET
<1>6. WindowInv
  <2>1. 0 < Duration
    BY Amounts
  <2> QED BY <1>1, <1>3, <2>1 DEF WindowInv, Margin
<1>7. RestInv
  BY <1>1, <1>3 DEF RestInv, Owes
<1> QED BY <1>1, <1>3, <1>4, <1>5, <1>6, <1>7 DEF IInv, ShapeInv, Phases

\* Whose recharge is owed: a shroud's entry, a cast that ended, or a stunbreak.
LeftFor(i) == InShroud(tl) /\ tl'.shroud = None /\ Same(tl.shroud.entry, i)
CastOf(i) == tl.cast # None /\ tl'.cast # tl.cast /\ Same(tl.cast.skill, i)

\* What a recharge that is owed is counted from.
LEMMA RestedFacts ==
  ASSUME NEW done, NEW pressed, Rested(tl', done, pressed)
  PROVE  /\ DOMAIN rest' = Ids
         /\ \A i \in Ids :
              /\ LeftFor(i) => rest'[i] = tl'.now + Hastened(tl.shroud.recharge)
              /\ ~LeftFor(i) /\ CastOf(i) /\ ~done => rest'[i] = tl'.now + Hastened(INTERRUPT)
              /\ ~LeftFor(i) /\ CastOf(i) /\ done => rest'[i] = tl'.now + Hastened(Skill(tl.cast.skill).cooldown)
              /\ ~LeftFor(i) /\ ~CastOf(i) /\ pressed # 0 /\ Same(pressed, i) =>
                   rest'[i] = tl'.now + Hastened(Skill(pressed).cooldown)
              /\ ~LeftFor(i) /\ ~CastOf(i) /\ (pressed = 0 \/ ~Same(pressed, i)) => rest'[i] = rest[i]
BY DEF Rested, LeftFor, CastOf

\* What is lost on the way owes its recharge.
LEMMA RestLost ==
  ASSUME build \in Builds, build' = build, ShapeInv, RestInv, phase # "over",
         Rested(tl', FALSE, 0), tl'.now = tl.now, tl'.ready = Owing(build, tl, tl'),
         tl.cast = None \/ tl'.cast = tl.cast \/ tl'.cast = None
  PROVE  RestInv'
<1>1. /\ tl.now \in Nat /\ tl.ready \in [Ids -> Int] /\ rest \in [Ids -> Nat] /\ 0 \notin Ids
      /\ tl.cast = None \/ tl.cast \in CastShapes(build)
      /\ tl.shroud = None \/ tl.shroud \in ShroudShapes(build)
  BY BuildFacts DEF ShapeInv, Good, Shape, Recharges, Casts, Bars, RestInv, Numbers, Ids
<1>2. Ids' = Ids /\ Ids = Numbers(build)
  BY DEF Ids, Numbers
<1>3. DOMAIN rest' = Ids
  BY RestedFacts
<1>4. ASSUME NEW i \in Ids
      PROVE  rest'[i] \in Nat /\ Owes(rest'[i], tl'.ready[i], tl'.now)
  <2>0. /\ LeftFor(i) <=> ShroudLeft(tl, tl') /\ Twin(build, tl.shroud.entry, i)
        /\ CastOf(i) <=> CastLost(tl, tl') /\ Twin(build, tl.cast.skill, i)
    BY TwinSame DEF LeftFor, CastOf, ShroudLeft, CastLost, InShroud
  <2>1. tl'.ready[i] = IF LeftFor(i) THEN tl.now + tl.shroud.recharge
                       ELSE IF CastOf(i) THEN tl.now + INTERRUPT
                       ELSE tl.ready[i]
    BY <1>2, <2>0 DEF Owing
  <2>2. CASE LeftFor(i)
    <3>1. PICK d : d = tl.shroud.recharge
      OBVIOUS
    <3>2. d \in Nat
      BY <1>1, <2>0, <2>2, <3>1 DEF ShroudLeft, ShroudShapes
    <3>3. rest'[i] = tl.now + Hastened(d)
      BY <2>2, <3>1, RestedFacts
    <3>4. Owes(tl.now + Hastened(d), tl.now + d, tl.now) /\ Hastened(d) \in Nat
      BY <1>1, <3>2, FreshOwes
    <3> QED BY <1>1, <2>1, <2>2, <3>1, <3>3, <3>4
  <2>3. CASE ~LeftFor(i) /\ CastOf(i)
    <3>1. rest'[i] = tl.now + Hastened(INTERRUPT)
      BY <2>3, RestedFacts
    <3>2. Owes(tl.now + Hastened(INTERRUPT), tl.now + INTERRUPT, tl.now) /\ Hastened(INTERRUPT) \in Nat
      BY <1>1, Amounts, FreshOwes
    <3> QED BY <1>1, <2>1, <2>3, <3>1, <3>2
  <2>4. CASE ~LeftFor(i) /\ ~CastOf(i)
    <3>1. rest'[i] = rest[i]
      BY <2>4, RestedFacts
    <3> QED BY <1>1, <2>1, <2>4, <3>1 DEF RestInv
  <2> QED BY <2>2, <2>3, <2>4
<1>5. rest' = [i \in Ids |-> rest'[i]]
  BY DEF Rested
<1>6. rest' \in [Ids -> Nat]
  BY <1>4, <1>5
<1> QED BY <1>2, <1>4, <1>6 DEF RestInv

\* A shroud left brings a weapon set back.
LEMMA HomeLost ==
  ASSUME HomeInv, Lost(build, tl, tl'), reentered' = reentered
  PROVE  HomeInv'
<1>1. /\ tl'.before = tl.before
      /\ tl'.shroud = tl.shroud \/ tl'.shroud = None
      /\ tl'.set = IF ShroudLeft(tl, tl') THEN tl.before ELSE tl.set
  BY DEF Lost
<1> SUFFICES ASSUME ~reentered
             PROVE  (tl'.set = SHROUD_SET => tl'.shroud # None) /\ tl'.before \in {1, 2}
  BY DEF HomeInv
<1>2. (tl.set = SHROUD_SET => tl.shroud # None) /\ tl.before \in {1, 2}
  BY DEF HomeInv
<1> QED BY <1>1, <1>2 DEF ShroudLeft, SHROUD_SET

\* What the invariant says, taken apart.
LEMMA IInvFacts ==
  ASSUME IInv
  PROVE  /\ build \in Builds /\ phase \in Phases /\ reentered \in BOOLEAN /\ Good(build, tl)
         /\ tl.now \in Nat /\ DOMAIN tl = Fields /\ tl.now < Duration + TICK
         /\ tl.run \in Nat /\ tl.longest \in Nat /\ control \in Nat
         /\ tl.cursor \in 1 .. Len(build.opener) + 1
BY DEF IInv, ShapeInv, Good, Shape, ClockInv, WindowInv

\* The start of a tick keeps the invariant.
LEMMA RegenerateStep ==
  ASSUME IInv, Regenerate
  PROVE  IInv' /\ NoCast /\ Rests
<1>1. /\ build' = build /\ control' = control /\ reentered' = reentered
      /\ phase = "regenerate" /\ phase' = "resolve" /\ tl.now < Duration /\ tl.health > 0
      /\ Rested(tl', FALSE, 0)
  BY DEF Regenerate, Running
<1>2. tl' = AtTickStart(tl)
  BY DEF Regenerate, AtTickStart
<1>3. Good(build, tl') /\ Only(tl, tl', TickStarting) /\ Lost(build, tl, tl')
  BY <1>2, IInvFacts, TickStartSound
<1>4. /\ tl'.now = tl.now /\ tl'.cursor = tl.cursor /\ tl'.health = tl.health
      /\ tl'.run = tl.run /\ tl'.longest = tl.longest
  BY <1>3 DEF Only, Fields, TickStarting, Draining
<1>5. ShapeInv'
  BY <1>1, <1>3 DEF ShapeInv
<1>6. ClockInv' /\ AliveInv'
  BY <1>1, <1>4 DEF IInv, ClockInv, AliveInv
<1>7. HomeInv'
  BY <1>1, <1>3, HomeLost DEF IInv
<1>8. WindowInv'
  BY <1>1, <1>4 DEF IInv, WindowInv, Margin
<1>9. RestInv'
  <2>1. /\ tl'.ready = Owing(build, tl, tl')
        /\ tl'.cast = tl.cast \/ tl'.cast = None
    BY <1>3 DEF Lost
  <2>2. phase # "over"
    BY <1>1
  <2> QED BY <1>1, <1>4, <2>1, <2>2, RestLost DEF IInv
<1>10. NoCast /\ Rests
  <2>1. tl'.cast = tl.cast \/ tl'.cast = None
    BY <1>3 DEF Lost
  <2> QED BY <1>1, <2>1 DEF NoCast, Rests
<1> QED BY <1>1, <1>5, <1>6, <1>7, <1>8, <1>9, <1>10, IInvFacts DEF IInv, Phases

\* Hits and the end of a cast keep the invariant.
LEMMA ResolveStep ==
  ASSUME IInv, Resolve
  PROVE  IInv' /\ NoCast /\ Rests
<1>1. /\ build' = build /\ control' = control /\ reentered' = reentered
      /\ phase = "resolve" /\ phase' = "suffer" /\ Rested(tl', TRUE, 0)
  BY DEF Resolve
<1>2. PICK landed : landed = LandScheduledHits(tl)
  OBVIOUS
<1>3. Good(build, landed) /\ Only(tl, landed, Struck \cup {"hits"})
  BY <1>2, IInvFacts, LandScheduledSound
<1>4. tl' = ResolvePendingCast(landed)
  BY <1>2 DEF Resolve
<1>5. /\ Good(build, tl') /\ Only(landed, tl', Soft \cup {"cast", "hits", "ready"})
      /\ landed.health > 0 => tl'.health > 0
      /\ tl' = landed \/ Resolved(landed, tl')
  BY <1>3, <1>4, IInvFacts, ResolveSound
<1>6. /\ landed.now = tl.now /\ landed.cast = tl.cast /\ landed.ready = tl.ready
      /\ landed.health = tl.health /\ landed.shroud = tl.shroud
  BY <1>3 DEF Only, Fields, Struck
<1>7. Only(tl, tl', Soft \cup {"cast", "hits", "ready"})
  BY <1>3, <1>5 DEF Only, Struck, Soft
<1>8. /\ tl'.now = tl.now /\ tl'.cursor = tl.cursor /\ tl'.shroud = tl.shroud
      /\ tl'.set = tl.set /\ tl'.before = tl.before
      /\ tl'.run = tl.run /\ tl'.longest = tl.longest
  BY <1>7 DEF Only, Fields, Soft
<1>9. ShapeInv'
  BY <1>1, <1>5 DEF ShapeInv
<1>10. tl'.health > 0
  BY <1>1, <1>5, <1>6 DEF IInv, AliveInv
<1>11. ClockInv' /\ AliveInv' /\ HomeInv' /\ WindowInv'
  BY <1>1, <1>8, <1>10 DEF IInv, ClockInv, AliveInv, HomeInv, WindowInv, Margin
<1>12. RestInv'
  <2>1. /\ tl.now \in Nat /\ tl.ready \in [Ids -> Int] /\ rest \in [Ids -> Nat] /\ 0 \notin Ids
        /\ \A i \in Ids : Owes(rest[i], tl.ready[i], tl.now)
        /\ tl.cast = None \/ tl.cast \in CastShapes(build)
    BY <1>1, IInvFacts, BuildFacts DEF IInv, RestInv, Good, Recharges, Casts, Numbers, Ids
  <2>2. Ids' = Ids
    BY <1>1 DEF Ids
  <2>3. ASSUME NEW i \in Ids
        PROVE  rest'[i] \in Nat /\ Owes(rest'[i], tl'.ready[i], tl'.now)
    <3>0. ~LeftFor(i)
      BY <1>8 DEF LeftFor, InShroud
    <3>1. CASE CastOf(i)
      <4>1. tl.cast.skill \in Ids
        BY <2>1, <3>1 DEF CastOf, CastShapes, Numbers, Ids
      <4>2. PICK d \in Nat : d = Skill(tl.cast.skill).cooldown
        BY <4>1, IInvFacts, SkillFacts
      <4>3. tl' # landed
        BY <1>6, <3>1 DEF CastOf
      <4>4. tl'.ready[i] = tl.now + d
        BY <1>5, <1>6, <3>1, <4>2, <4>3 DEF Resolved, CastOf
      <4>5. rest'[i] = tl.now + Hastened(d)
        BY <1>1, <1>8, <3>0, <3>1, <4>2, RestedFacts
      <4>6. Owes(tl.now + Hastened(d), tl.now + d, tl.now) /\ Hastened(d) \in Nat
        BY <2>1, FreshOwes
      <4> QED BY <1>8, <2>1, <4>4, <4>5, <4>6
    <3>2. CASE ~CastOf(i)
      <4>1. rest'[i] = rest[i]
        BY <1>1, <3>0, <3>2, RestedFacts
      <4>2. tl'.ready[i] = tl.ready[i]
        <5>1. CASE tl' = landed
          BY <1>6, <5>1
        <5>2. CASE Resolved(landed, tl')
          <6>1. tl.cast # None /\ tl'.cast = None
            BY <1>6, <5>2 DEF Resolved
          <6>2. ~Same(tl.cast.skill, i)
            BY <3>2, <6>1 DEF CastOf
          <6> QED BY <1>6, <5>2, <6>2 DEF Resolved
        <5> QED BY <1>5, <5>1, <5>2
      <4> QED BY <1>8, <2>1, <4>1, <4>2
    <3> QED BY <3>1, <3>2
  <2>4. rest' = [i \in Ids |-> rest'[i]]
    BY <1>1 DEF Rested
  <2>5. rest' \in [Ids -> Nat]
    BY <2>3, <2>4
  <2> QED BY <2>2, <2>3, <2>5 DEF RestInv
<1>13. NoCast /\ Rests
  <2>1. tl'.cast = tl.cast \/ tl'.cast = None
    BY <1>5, <1>6 DEF Resolved
  <2>2. tl.health > 0
    BY <1>1 DEF IInv, AliveInv
  <2>3. tl.health # 0
    BY <2>2, IInvFacts, LevelFacts
  <2> QED BY <2>1, <2>3 DEF NoCast, Rests
<1> QED BY <1>1, <1>9, <1>11, <1>12, <1>13, IInvFacts DEF IInv, Phases

\* Events, conditions and the window keep the invariant.
LEMMA SufferStep ==
  ASSUME IInv, Suffer
  PROVE  IInv' /\ NoCast /\ Rests
<1>1. /\ build' = build /\ reentered' = reentered
      /\ phase = "suffer" /\ phase' = "decide" /\ Rested(tl', FALSE, 0)
  BY DEF Suffer
<1>2. PICK ticked, suffered : ticked = TickConditions(tl) /\ suffered = ProcessEnemyEvents(ticked)
  OBVIOUS
<1>3. /\ tl' = TriggerPeriodic(TrackProtectedWindow(suffered))
      /\ control' = IF suffered.disabled > tl.disabled \/ suffered.run < tl.run THEN tl.now ELSE control
  BY <1>2 DEF Suffer
<1>4. Endured(tl, ticked)
  BY <1>2, IInvFacts, ConditionsSound
<1>5. Endured(ticked, suffered)
  <2>1. Good(build, ticked)
    BY <1>4 DEF Endured
  <2> QED BY <1>2, <2>1, IInvFacts, EnemySound
<1>6. Endured(tl, suffered)
  BY <1>4, <1>5, EnduredTwice
<1>7. /\ Good(build, suffered) /\ Only(tl, suffered, Enduring) /\ Lost(build, tl, suffered)
      /\ (suffered.run = tl.run /\ suffered.disabled = tl.disabled) \/ suffered.run = 0
  BY <1>6 DEF Endured
<1>8. /\ Good(build, tl') /\ Only(suffered, tl', {"run", "longest", "pulseReady", "health"})
      /\ \/ tl'.run = suffered.run + TICK /\ tl'.longest = Most(suffered.longest, suffered.run + TICK)
         \/ tl'.run = 0 /\ tl'.longest = suffered.longest
  <2>1. PICK tracked : tracked = TrackProtectedWindow(suffered)
    OBVIOUS
  <2>2. /\ Good(build, tracked) /\ Only(suffered, tracked, {"run", "longest"})
        /\ \/ tracked.run = suffered.run + TICK /\ tracked.longest = Most(suffered.longest, suffered.run + TICK)
           \/ tracked.run = 0 /\ tracked.longest = suffered.longest
    BY <1>7, <2>1, IInvFacts, TrackSound
  <2>3. tl' = TriggerPeriodic(tracked)
    BY <1>3, <2>1
  <2>4. Good(build, tl') /\ Only(tracked, tl', {"pulseReady", "health"})
    BY <2>2, <2>3, IInvFacts, PulseSound
  <2>5. tl'.run = tracked.run /\ tl'.longest = tracked.longest
    BY <2>4 DEF Only, Fields
  <2>6. Only(suffered, tl', {"run", "longest", "pulseReady", "health"})
    BY <2>2, <2>4 DEF Only
  <2> QED BY <2>2, <2>4, <2>5, <2>6
<1>9. Lost(build, tl, tl')
  <2>1. Lost(build, suffered, tl')
    BY <1>7, <1>8, LostFrame DEF Fate
  <2> QED BY <1>7, <2>1, LostTwice
<1>10. /\ tl'.now = tl.now /\ tl'.cursor = tl.cursor /\ suffered.longest = tl.longest
  BY <1>7, <1>8 DEF Only, Fields, Enduring, Absorbing
<1>11. ShapeInv'
  BY <1>1, <1>8 DEF ShapeInv
<1>12. ClockInv' /\ AliveInv'
  BY <1>1, <1>10 DEF IInv, ClockInv, AliveInv
<1>13. HomeInv'
  BY <1>1, <1>9, HomeLost DEF IInv
<1>14. WindowInv'
  <2>1. /\ tl.now \in Nat /\ tl.run \in Nat /\ tl.longest \in Nat /\ control \in Nat
        /\ tl.run <= tl.longest /\ tl.longest <= tl.now /\ tl.run <= tl.now - control
        /\ control <= tl.now /\ control < Duration /\ tl.now < Duration
        /\ tl.disabled \in Nat
    BY <1>1, IInvFacts DEF IInv, WindowInv, ClockInv, Margin, Good, Shape
  <2>2. TICK \in Nat /\ Duration \in Nat
    BY Amounts
  <2>3. /\ control' \in Nat /\ control' <= tl.now /\ control' < Duration
        /\ suffered.run \in Nat /\ suffered.run <= tl.now - control' /\ suffered.run <= tl.longest
    <3>1. CASE suffered.run = tl.run /\ suffered.disabled = tl.disabled
      <4>1. control' = control
        BY <1>3, <2>1, <3>1
      <4> QED BY <2>1, <3>1, <4>1
    <3>2. CASE suffered.run = 0
      <4>1. control' \in {control, tl.now}
        BY <1>3
      <4> QED BY <2>1, <3>2, <4>1
    <3> QED BY <1>7, <3>1, <3>2
  <2>4. /\ tl'.run \in Nat /\ tl'.longest \in Nat /\ tl'.run <= tl'.longest
        /\ tl'.longest <= tl.now + TICK /\ tl'.run <= tl.now - control' + TICK
    BY <1>8, <1>10, <2>1, <2>2, <2>3 DEF Most
  <2>5. Margin' = TICK
    BY <1>1 DEF Margin
  <2> QED BY <1>10, <2>3, <2>4, <2>5 DEF WindowInv
<1>15. RestInv'
  <2>1. /\ tl'.ready = Owing(build, tl, tl')
        /\ tl'.cast = tl.cast \/ tl'.cast = None
    BY <1>9 DEF Lost
  <2>2. phase # "over"
    BY <1>1
  <2> QED BY <1>1, <1>10, <2>1, <2>2, RestLost DEF IInv
<1>16. NoCast /\ Rests
  <2>1. tl'.cast = tl.cast \/ tl'.cast = None
    BY <1>9 DEF Lost
  <2>2. tl.health > 0
    BY <1>1 DEF IInv, AliveInv
  <2>3. tl.health # 0
    BY <2>2, IInvFacts, LevelFacts
  <2> QED BY <2>1, <2>3 DEF NoCast, Rests
<1> QED BY <1>1, <1>11, <1>12, <1>13, <1>14, <1>15, <1>16, IInvFacts DEF IInv, Phases

\* What is pressed is a skill that is ready, and its cast starts.
Pressed(i) ==
  /\ i \in Ids /\ tl.cast = None /\ Recharged(tl, i)
  /\ Good(build, tl') /\ Only(tl, tl', Starting \cup {"cursor", "legendReady"})
  /\ tl'.cursor \in 1 .. Len(build.opener) + 1
  /\ Barred(tl, tl', i) /\ tl'.ready = Owing(build, tl, tl')
  /\ tl'.cast # None /\ tl'.cast.skill = i
  /\ reentered' = (reentered \/ (Skill(i).enters /\ InShroud(tl)))

\* What pressing a skill changes.
LEMMA PressFacts ==
  ASSUME IInv, Press
  PROVE  \E i : Pressed(i)
<1>1. PICK t : t = TryLegendSwap(tl)
  OBVIOUS
<1>2. /\ Good(build, t) /\ Only(tl, t, {"pool", "legendReady", "upkeep"})
  BY <1>1, IInvFacts, LegendSound
<1>3. /\ t.now = tl.now /\ t.ready = tl.ready /\ t.cast = tl.cast /\ t.cursor = tl.cursor
  BY <1>2 DEF Only, Fields
<1>4. PICK i \in Picks(t) : /\ tl' = StartCast(Advanced(t), i)
                            /\ reentered' = (reentered \/ (Skill(i).enters /\ InShroud(tl)))
  BY <1>1 DEF Press
<1>5. tl.cast = None /\ build' = build
  BY DEF Press, Free
<1>6. i \in Ids /\ Recharged(t, i)
  BY <1>3, IInvFacts, PicksSound
<1>7. PICK a : a = Advanced(t)
  OBVIOUS
<1>8. Good(build, a) /\ Only(t, a, {"cursor"}) /\ a.cursor \in 1 .. Len(build.opener) + 1
  BY <1>2, <1>3, <1>7, IInvFacts, AdvancedSound
<1>9. Only(tl, a, {"pool", "legendReady", "upkeep", "cursor"})
  BY <1>2, <1>8 DEF Only
<1>10. /\ a.now = tl.now /\ a.ready = tl.ready /\ a.cast = tl.cast /\ a.shroud = tl.shroud
       /\ a.set = tl.set /\ a.before = tl.before
  BY <1>9 DEF Only, Fields
<1>11. /\ Good(build, tl') /\ Only(a, tl', Starting) /\ Barred(a, tl', i)
       /\ tl'.ready = Owing(build, a, tl')
       /\ tl'.cast # None /\ tl'.cast.skill = i
  BY <1>4, <1>5, <1>6, <1>7, <1>8, <1>10, IInvFacts, StartCastSound
<1>12. Only(tl, tl', Starting \cup {"cursor", "legendReady"})
  BY <1>9, <1>11 DEF Only, Starting
<1>13. tl'.cursor = a.cursor
  BY <1>11 DEF Only, Fields, Starting
<1>14. Barred(tl, tl', i)
  BY <1>10, <1>11 DEF Barred, ShroudLeft
<1>15. tl'.ready = Owing(build, tl, tl')
  BY <1>10, <1>11 DEF Owing, ShroudLeft, CastLost
<1>16. Recharged(tl, i)
  BY <1>3, <1>6 DEF Recharged
<1> QED BY <1>4, <1>5, <1>6, <1>8, <1>11, <1>12, <1>13, <1>14, <1>15, <1>16 DEF Pressed

\* Pressing a skill keeps the invariant.
LEMMA PressStep ==
  ASSUME IInv, Press
  PROVE  IInv'
<1>1. /\ build' = build /\ control' = control /\ phase = "decide" /\ phase' = "clock"
      /\ Rested(tl', FALSE, 0)
  BY DEF Press
<1>2. PICK i : Pressed(i)
  BY PressFacts
<1>3. /\ i \in Ids /\ tl.cast = None
      /\ Good(build, tl') /\ Only(tl, tl', Starting \cup {"cursor", "legendReady"})
      /\ tl'.cursor \in 1 .. Len(build.opener) + 1
      /\ Barred(tl, tl', i) /\ tl'.ready = Owing(build, tl, tl')
  BY <1>2 DEF Pressed
<1>4. reentered' = (reentered \/ (Skill(i).enters /\ InShroud(tl)))
  BY <1>2 DEF Pressed
<1>5. tl'.now = tl.now /\ tl'.run = tl.run /\ tl'.longest = tl.longest
  BY <1>3 DEF Only, Fields, Starting
<1>6. ShapeInv' /\ ClockInv' /\ AliveInv' /\ WindowInv'
  BY <1>1, <1>3, <1>5 DEF ShapeInv, IInv, ClockInv, AliveInv, WindowInv, Margin
<1>7. reentered' \in BOOLEAN
  BY <1>4, Zenon
<1>8. HomeInv'
  <2> SUFFICES ASSUME ~reentered'
               PROVE  (tl'.set = SHROUD_SET => tl'.shroud # None) /\ tl'.before \in {1, 2}
    BY DEF HomeInv
  <2>1. ~reentered /\ ~(Skill(i).enters /\ InShroud(tl))
    BY <1>4, Zenon
  <2>2. (tl.set = SHROUD_SET => tl.shroud # None) /\ tl.before \in {1, 2} /\ tl.set \in 1 .. 3
    BY <2>1, IInvFacts DEF IInv, HomeInv, Good, Bars
  <2>3. CASE Skill(i).enters /\ tl'.shroud # None /\ tl'.before = tl.set /\ tl'.set = SHROUD_SET
    BY <2>1, <2>2, <2>3 DEF InShroud, SHROUD_SET
  <2>4. CASE /\ ~Skill(i).enters /\ tl'.before = tl.before
             /\ tl'.shroud = tl.shroud \/ tl'.shroud = None
             /\ tl'.set = IF ShroudLeft(tl, tl') THEN tl.before ELSE tl.set
    BY <2>2, <2>4 DEF ShroudLeft, SHROUD_SET
  <2> QED BY <1>3, <2>3, <2>4 DEF Barred
<1>9. RestInv'
  <2>1. phase # "over"
    BY <1>1
  <2> QED BY <1>1, <1>3, <1>5, <2>1, RestLost, IInvFacts DEF IInv
<1> QED BY <1>1, <1>6, <1>7, <1>8, <1>9, IInvFacts DEF IInv, Phases

\* A swap of legend or weapons keeps the invariant.
LEMMA SwapStep ==
  ASSUME IInv, Swap
  PROVE  IInv' /\ NoCast
<1>1. /\ build' = build /\ control' = control /\ rest' = rest /\ reentered' = reentered
      /\ phase = "decide" /\ phase' = "clock"
  BY DEF Swap
<1>2. PICK t : t = TryLegendSwap(tl)
  OBVIOUS
<1>3. /\ Good(build, t) /\ Only(tl, t, {"pool", "legendReady", "upkeep"})
  BY <1>2, IInvFacts, LegendSound
<1>4. t.cursor = tl.cursor
  BY <1>3 DEF Only, Fields
<1>5. PICK a : a = Advanced(t)
  OBVIOUS
<1>6. Good(build, a) /\ Only(t, a, {"cursor"}) /\ a.cursor \in 1 .. Len(build.opener) + 1
  BY <1>3, <1>4, <1>5, IInvFacts, AdvancedSound
<1>7. tl' = TryWeaponSwap(a)
  BY <1>2, <1>5 DEF Swap
<1>8. /\ Good(build, tl') /\ Only(a, tl', {"set", "swapReady", "next"})
      /\ tl' = a \/ (a.shroud = None /\ tl'.set \in {1, 2})
  BY <1>6, <1>7, IInvFacts, WeaponSwapSound
<1>9. Only(tl, tl', {"pool", "legendReady", "upkeep", "cursor", "set", "swapReady", "next"})
  BY <1>3, <1>6, <1>8 DEF Only
<1>10. /\ tl'.now = tl.now /\ tl'.run = tl.run /\ tl'.longest = tl.longest
       /\ tl'.shroud = tl.shroud /\ tl'.before = tl.before /\ tl'.ready = tl.ready
  BY <1>9 DEF Only, Fields
<1>11. a.set = tl.set /\ tl'.cursor = a.cursor
  BY <1>3, <1>6, <1>8 DEF Only, Fields
<1>12. ShapeInv' /\ ClockInv' /\ AliveInv' /\ WindowInv'
  BY <1>1, <1>6, <1>8, <1>10, <1>11 DEF ShapeInv, IInv, ClockInv, AliveInv, WindowInv, Margin
<1>13. HomeInv'
  BY <1>1, <1>8, <1>10, <1>11 DEF IInv, HomeInv, SHROUD_SET
<1>14. RestInv'
  BY <1>1, <1>10 DEF IInv, RestInv, Ids
<1>15. NoCast
  <2>1. tl'.cast = tl.cast
    BY <1>9 DEF Only, Fields
  <2> QED BY <2>1 DEF NoCast
<1> QED BY <1>1, <1>12, <1>13, <1>14, <1>15, IInvFacts DEF IInv, Phases

\* A tick without a press, or with a stunbreak, keeps the invariant.
LEMMA WaitStep ==
  ASSUME IInv, Wait
  PROVE  IInv' /\ NoCast
<1>1. /\ build' = build /\ control' = control /\ reentered' = reentered
      /\ phase = "decide" /\ phase' = "clock"
  BY DEF Wait
<1>2. tl' = tl \/ tl' = TryStunbreak(tl)
  BY DEF Wait
<1>3. /\ Good(build, tl') /\ Only(tl, tl', Soft \cup {"ready", "disabled", "next"})
      /\ \/ tl' = tl
         \/ /\ FirstStunbreak(tl) \in Ids
            /\ \A k \in Ids : tl'.ready[k] = IF Same(FirstStunbreak(tl), k)
                                            THEN tl.now + Skill(FirstStunbreak(tl)).cooldown ELSE tl.ready[k]
  <2>1. CASE tl' = tl
    BY <2>1, IInvFacts DEF Only
  <2>2. CASE tl' = TryStunbreak(tl)
    BY <2>2, IInvFacts, StunbreakSound
  <2> QED BY <1>2, <2>1, <2>2
<1>4. /\ tl'.now = tl.now /\ tl'.run = tl.run /\ tl'.longest = tl.longest /\ tl'.cursor = tl.cursor
      /\ tl'.shroud = tl.shroud /\ tl'.before = tl.before /\ tl'.set = tl.set /\ tl'.cast = tl.cast
  BY <1>3 DEF Only, Fields, Soft
<1>5. ShapeInv' /\ ClockInv' /\ AliveInv' /\ WindowInv' /\ HomeInv'
  BY <1>1, <1>3, <1>4 DEF ShapeInv, IInv, ClockInv, AliveInv, WindowInv, HomeInv, Margin
<1>6. RestInv'
  <2>1. PICK pressed : pressed = IF tl' # tl THEN FirstStunbreak(tl) ELSE 0
    OBVIOUS
  <2>2. Rested(tl', FALSE, pressed)
    BY <2>1 DEF Wait, FirstStunbreak
  <2>3. /\ tl.now \in Nat /\ tl.ready \in [Ids -> Int] /\ rest \in [Ids -> Nat] /\ 0 \notin Ids
        /\ \A i \in Ids : Owes(rest[i], tl.ready[i], tl.now)
    BY <1>1, IInvFacts, BuildFacts DEF IInv, RestInv, Good, Recharges, Numbers, Ids
  <2>4. Ids' = Ids
    BY <1>1 DEF Ids
  <2>5. ASSUME NEW i \in Ids
        PROVE  rest'[i] \in Nat /\ Owes(rest'[i], tl'.ready[i], tl'.now)
    <3>0. ~LeftFor(i) /\ ~CastOf(i)
      BY <1>4 DEF LeftFor, CastOf, InShroud
    <3>1. CASE pressed # 0 /\ Same(pressed, i)
      <4>1. tl' # tl /\ pressed = FirstStunbreak(tl) /\ pressed \in Ids
        BY <1>3, <2>1, <3>1
      <4>2. PICK d \in Nat : d = Skill(pressed).cooldown
        BY <4>1, IInvFacts, SkillFacts
      <4>3. tl'.ready[i] = tl.now + d
        BY <1>3, <3>1, <4>1, <4>2
      <4>4. rest'[i] = tl.now + Hastened(d)
        BY <1>4, <2>2, <3>0, <3>1, <4>2, RestedFacts
      <4>5. Owes(tl.now + Hastened(d), tl.now + d, tl.now) /\ Hastened(d) \in Nat
        BY <2>3, FreshOwes
      <4> QED BY <1>4, <2>3, <4>3, <4>4, <4>5
    <3>2. CASE pressed = 0 \/ ~Same(pressed, i)
      <4>1. rest'[i] = rest[i]
        BY <2>2, <3>0, <3>2, RestedFacts
      <4>2. tl'.ready[i] = tl.ready[i]
        <5>1. CASE tl' = tl
          BY <5>1
        <5>2. CASE tl' # tl
          <6>1. pressed = FirstStunbreak(tl) /\ pressed # 0
            BY <1>3, <2>1, <2>3, <5>2
          <6>2. ~Same(FirstStunbreak(tl), i)
            BY <3>2, <6>1
          <6> QED BY <1>3, <5>2, <6>2
        <5> QED BY <5>1, <5>2
      <4> QED BY <1>4, <2>3, <4>1, <4>2
    <3> QED BY <3>1, <3>2
  <2>6. rest' = [i \in Ids |-> rest'[i]]
    BY <2>2 DEF Rested
  <2>7. rest' \in [Ids -> Nat]
    BY <2>5, <2>6
  <2> QED BY <2>4, <2>5, <2>7 DEF RestInv
<1>7. NoCast
  BY <1>4 DEF NoCast
<1> QED BY <1>1, <1>5, <1>6, <1>7, IInvFacts DEF IInv, Phases

\* A handler that sets the clock alone.
LEMMA NowSet ==
  ASSUME build \in Builds, NEW t, Good(build, t), NEW now \in Nat, NEW u, u = [t EXCEPT !.now = now]
  PROVE  Good(build, u) /\ Only(t, u, {"now"}) /\ u.now = now
<1>1. DOMAIN t = Fields /\ t.disabled \in Nat
  BY DEF Good, Shape
<1>2. Only(t, u, {"now"}) /\ u.now = now /\ u.disabled = t.disabled
  BY <1>1 DEF Only, Fields
<1>3. Shape(u)
  BY <1>1, <1>2 DEF Shape, Only
<1> QED BY <1>2, <1>3, Frame DEF Good

\* The recharge clock and the next tick keep the invariant.
LEMMA ClockStep ==
  ASSUME IInv, Clock
  PROVE  IInv' /\ NoCast /\ Rests
<1>1. /\ build' = build /\ control' = control /\ rest' = rest /\ reentered' = reentered
      /\ phase = "clock" /\ phase' = "regenerate"
  BY DEF Clock
<1>2. PICK t : t = [tl EXCEPT !.now = @ + TICK]
  OBVIOUS
<1>3. PICK now \in Nat : now = tl.now + TICK
  BY IInvFacts, Amounts
<1>4. Good(build, t) /\ Only(tl, t, {"now"}) /\ t.now = now
  <2>1. t = [tl EXCEPT !.now = now]
    BY <1>2, <1>3
  <2> QED BY <2>1, IInvFacts, NowSet
<1>5. tl' = TickRechargeRate(t)
  BY <1>2 DEF Clock
<1>6. /\ Good(build, tl') /\ Only(t, tl', {"ready"})
      /\ \A i \in Ids : tl'.ready[i] >= t.ready[i] \/ (t.now % PERIOD = 0 /\ tl'.ready[i] = t.ready[i] - ALACRITY)
  BY <1>4, <1>5, IInvFacts, RateSound
<1>7. Only(tl, tl', {"now", "ready"}) /\ tl'.now = now /\ t.ready = tl.ready
  BY <1>4, <1>6 DEF Only, Fields
<1>8. /\ tl'.run = tl.run /\ tl'.longest = tl.longest /\ tl'.cursor = tl.cursor
      /\ tl'.shroud = tl.shroud /\ tl'.before = tl.before /\ tl'.set = tl.set
  BY <1>7 DEF Only, Fields
<1>9. ShapeInv' /\ AliveInv' /\ HomeInv'
  BY <1>1, <1>6, <1>8 DEF ShapeInv, IInv, AliveInv, HomeInv
<1>10. tl.now \in Nat /\ tl.now % TICK = 0 /\ tl.now < Duration /\ TICK \in Nat /\ Duration \in Nat
  BY <1>1, IInvFacts, Amounts DEF IInv, ClockInv
<1>11. ClockInv'
  <2>1. now % TICK = 0
    BY <1>3, <1>10, NextTick
  <2>2. now < Duration + TICK
    BY <1>3, <1>10
  <2> QED BY <1>1, <1>7, <1>8, <2>1, <2>2 DEF IInv, ClockInv
<1>12. WindowInv'
  <2>1. /\ tl.run \in Nat /\ tl.longest \in Nat /\ control \in Nat
        /\ tl.run <= tl.longest /\ tl.longest <= tl.now + TICK
        /\ tl.run <= tl.now - control + TICK /\ control <= tl.now /\ control < Duration
    BY <1>1 DEF IInv, WindowInv, Margin
  <2>2. /\ tl.longest <= now + 0 /\ tl.run <= now - control + 0 /\ control <= now
    BY <1>3, <1>10, <2>1
  <2>3. Margin' = 0
    BY <1>1 DEF Margin
  <2> QED BY <1>1, <1>7, <1>8, <2>1, <2>2, <2>3 DEF WindowInv
<1>13. RestInv'
  <2>1. /\ tl.ready \in [Ids -> Int] /\ rest \in [Ids -> Nat]
        /\ \A i \in Ids : Owes(rest[i], tl.ready[i], tl.now)
    BY <1>1, IInvFacts DEF IInv, RestInv, Good, Recharges, Numbers, Ids
  <2>2. ASSUME NEW i \in Ids PROVE Owes(rest[i], tl'.ready[i], now)
    <3>1. tl'.ready[i] \in Int
      BY <1>6 DEF Good, Recharges, Numbers, Ids
    <3>2. tl'.ready[i] >= tl.ready[i] \/ (now % PERIOD = 0 /\ tl'.ready[i] = tl.ready[i] - ALACRITY)
      BY <1>4, <1>6, <1>7
    <3>3. rest[i] \in Int /\ tl.ready[i] \in Int /\ Owes(rest[i], tl.ready[i], tl.now)
      BY <2>1
    <3> QED BY <1>3, <1>10, <3>1, <3>2, <3>3, TickOwes
  <2> QED BY <1>1, <1>7, <2>1, <2>2 DEF RestInv, Ids
<1>14. NoCast /\ Rests
  <2>1. tl'.health = tl.health /\ tl'.cast = tl.cast /\ tl'.foe = tl.foe /\ tl'.longest = tl.longest
    BY <1>7 DEF Only, Fields
  <2> QED BY <2>1 DEF NoCast, Rests
<1> QED BY <1>1, <1>9, <1>11, <1>12, <1>13, <1>14, IInvFacts DEF IInv, Phases

\* The end of the fight keeps the invariant.
LEMMA FinishStep ==
  ASSUME IInv, Finish
  PROVE  IInv' /\ NoCast /\ Rests
<1>1. /\ build' = build /\ control' = control /\ rest' = rest /\ reentered' = reentered
      /\ phase = "regenerate" /\ phase' = "over"
  BY DEF Finish
<1>2. PICK now : now = Least(tl.now, Duration)
  OBVIOUS
<1>3. /\ tl.now \in Nat /\ tl.now < Duration + TICK /\ TICK \in Nat /\ Duration \in Nat \ {0}
      /\ now \in Nat /\ now <= Duration /\ now <= tl.now /\ (now = tl.now \/ now = Duration)
  BY <1>2, IInvFacts, Amounts DEF Least
<1>4. /\ Good(build, tl') /\ Only(tl, tl', Struck \cup {"hits", "now"})
      /\ tl'.now \in {tl.now, now}
  <2>1. CASE tl.health > 0
    <3>1. PICK t : t = [tl EXCEPT !.now = now]
      OBVIOUS
    <3>2. Good(build, t) /\ Only(tl, t, {"now"}) /\ t.now = now
      BY <1>3, <3>1, IInvFacts, NowSet
    <3>3. tl' = LandScheduledHits(t)
      BY <1>2, <2>1, <3>1 DEF Finish
    <3>4. Good(build, tl') /\ Only(t, tl', Struck \cup {"hits"})
      BY <3>2, <3>3, IInvFacts, LandScheduledSound
    <3>5. tl'.now = now
      BY <3>2, <3>4 DEF Only, Fields, Struck
    <3>6. Only(tl, tl', Struck \cup {"hits", "now"})
      BY <3>2, <3>4 DEF Only, Struck
    <3> QED BY <3>4, <3>5, <3>6
  <2>2. CASE ~(tl.health > 0)
    <3>1. tl' = tl
      BY <2>2 DEF Finish
    <3> QED BY <3>1, IInvFacts DEF Only
  <2> QED BY <2>1, <2>2
<1>5. /\ tl'.run = tl.run /\ tl'.longest = tl.longest /\ tl'.cursor = tl.cursor
      /\ tl'.shroud = tl.shroud /\ tl'.before = tl.before /\ tl'.set = tl.set
      /\ tl'.health = tl.health /\ tl'.cast = tl.cast
  BY <1>4 DEF Only, Fields, Struck
<1>6. ShapeInv' /\ AliveInv' /\ HomeInv'
  BY <1>1, <1>4, <1>5 DEF ShapeInv, IInv, AliveInv, HomeInv
<1>7. ClockInv'
  BY <1>1, <1>3, <1>4, <1>5 DEF IInv, ClockInv
<1>8. WindowInv'
  <2>1. /\ tl.run \in Nat /\ tl.longest \in Nat /\ control \in Nat
        /\ tl.run <= tl.longest /\ tl.longest <= tl.now /\ tl.run <= tl.now - control
        /\ control <= tl.now /\ control < Duration
    BY <1>1, <1>3 DEF IInv, WindowInv, Margin
  <2>2. PICK n \in Nat : n = tl'.now /\ n <= tl.now /\ (n = tl.now \/ n = Duration)
    BY <1>3, <1>4
  <2>3. tl.longest <= n + TICK /\ tl.run <= n - control + TICK /\ control <= n
    BY <1>3, <2>1, <2>2
  <2>4. Margin' = TICK
    BY <1>1 DEF Margin
  <2> QED BY <1>1, <1>5, <2>1, <2>2, <2>3, <2>4 DEF WindowInv
<1>9. RestInv'
  BY <1>1 DEF IInv, RestInv, Ids
<1>10. NoCast /\ Rests
  <2>1. tl.health = 0 => tl' = tl
    BY DEF Finish
  <2> QED BY <1>5, <2>1 DEF NoCast, Rests
<1> QED BY <1>1, <1>6, <1>7, <1>8, <1>9, <1>10, IInvFacts DEF IInv, Phases

\* A step that changes nothing keeps the invariant.
LEMMA StutterStep ==
  ASSUME IInv, UNCHANGED vars
  PROVE  IInv'
<1>1. /\ build' = build /\ tl' = tl /\ phase' = phase /\ rest' = rest
      /\ control' = control /\ reentered' = reentered
  BY DEF vars
<1>2. ShapeInv' /\ ClockInv' /\ AliveInv' /\ WindowInv' /\ HomeInv'
  BY <1>1 DEF IInv, ShapeInv, ClockInv, AliveInv, WindowInv, HomeInv, Margin
<1>3. RestInv'
  BY <1>1 DEF IInv, RestInv, Ids
<1> QED BY <1>1, <1>2, <1>3 DEF IInv, Phases

\* The invariant is inductive.
LEMMA NextIInv == IInv /\ [Next]_vars => IInv'
<1> SUFFICES ASSUME IInv, [Next]_vars PROVE IInv'
  OBVIOUS
<1> QED BY RegenerateStep, ResolveStep, SufferStep, PressStep, SwapStep, WaitStep, ClockStep,
           FinishStep, StutterStep DEF Next

(* Every reachable state of a fight is well formed: the inductive invariant, *)
(* with what the handlers keep of the timeline and the clock, the bars, the  *)
(* window and the recharges.                                                 *)
THEOREM FightInvariant == Spec => []IInv
BY InitIInv, NextIInv, PTL DEF Spec

(* Levels, times, bars, casts and cover stay within their types and caps,    *)
(* whatever gains, drains and swaps the fight strings together.              *)
THEOREM TypeCorrect == Spec => []TypeOK
<1>1. IInv => TypeOK
  <2> SUFFICES ASSUME IInv PROVE TypeOK
    OBVIOUS
  <2>1. /\ build \in Builds /\ phase \in Phases /\ reentered \in BOOLEAN
        /\ Shape(tl) /\ Casts(build, tl) /\ Bars(build, tl) /\ Recharges(build, tl)
        /\ Levels(build, tl) /\ Covers(tl) /\ Barriers(tl)
    BY DEF IInv, ShapeInv, Good
  <2>2. tl.now \in 0 .. Duration + TICK /\ tl.longest \in 0 .. tl.now + TICK /\ control \in 0 .. Duration
    <3>1. /\ tl.now \in Nat /\ tl.now < Duration + TICK /\ tl.longest \in Nat /\ control \in Nat
          /\ tl.longest <= tl.now + Margin /\ control < Duration
      BY DEF IInv, ShapeInv, Good, Shape, ClockInv, WindowInv
    <3>2. Margin \in {0, TICK} /\ TICK \in Nat /\ Duration \in Nat
      BY Amounts DEF Margin
    <3> QED BY <3>1, <3>2
  <2>3. tl.set \in 1 .. 3 /\ tl.before \in 1 .. 3
    BY <2>1 DEF Bars
  <2>4. /\ tl.health \in 0 .. MaxHealth /\ tl.pool \in 0 .. Ceiling(build)
        /\ tl.upkeep \in 0 .. MAX_UPKEEP /\ tl.endurance \in 0 .. (2 * DODGE_COST)
    BY <2>1 DEF Levels
  <2>5. DOMAIN tl.ready = Ids /\ (tl.cast # None => tl.cast.skill \in Ids)
    BY <2>1 DEF Recharges, Casts, CastShapes, Numbers, Ids
  <2>6. /\ tl.defenses \in Seq(Defenses)
        /\ \A i, j \in DOMAIN tl.defenses : tl.defenses[i].kind = tl.defenses[j].kind => i = j
    BY <2>1 DEF Covers, Covering
  <2>7. \A i \in DOMAIN tl.defenses : tl.defenses[i].kind \in Cover
    <3>1. \A i \in DOMAIN tl.defenses : tl.defenses[i] \in Defenses
      BY <2>6
    <3> QED BY <3>1 DEF Defenses
  <2>8. IsInjective([i \in DOMAIN tl.defenses |-> tl.defenses[i].kind])
    BY <2>6 DEF IsInjective
  <2>9. BarrierLeft(tl.barrier) <= BARRIER_CAP
    BY <2>1 DEF Barriers
  <2> QED BY <2>1, <2>2, <2>3, <2>4, <2>5, <2>7, <2>8, <2>9 DEF TypeOK
<1> QED BY <1>1, FightInvariant, PTL

(* No hit outlives its cast, however the cast is lost.                       *)
THEOREM HitsCorrect == Spec => []HitsHaveCast
<1>1. IInv => HitsHaveCast
  BY DEF IInv, ShapeInv, Good, Casts, HitsHaveCast
<1> QED BY <1>1, FightInvariant, PTL

(* In shroud the shroud's bar is held, and the exit brings a weapon set back *)
(* unless a shroud was entered from inside one.                              *)
THEOREM BarCorrect == Spec => []ShroudHoldsBar
<1>1. IInv => ShroudHoldsBar
  BY DEF IInv, ShapeInv, Good, Bars, HomeInv, ShroudHoldsBar, InShroud
<1> QED BY <1>1, FightInvariant, PTL

(* A protected window never reaches back over control that landed.           *)
THEOREM WindowCorrect == Spec => []WindowSinceControl
<1>1. IInv => WindowSinceControl
  <2> SUFFICES ASSUME IInv PROVE WindowSinceControl
    OBVIOUS
  <2>1. /\ tl.run \in Nat /\ tl.run <= tl.longest /\ tl.run <= tl.now - control + Margin
        /\ tl.now \in Nat /\ control \in Nat
    BY DEF IInv, ShapeInv, Good, Shape, WindowInv
  <2>2. Margin \in {0, TICK} /\ TICK \in Nat
    BY Amounts DEF Margin
  <2> QED BY <2>1, <2>2 DEF WindowSinceControl
<1> QED BY <1>1, FightInvariant, PTL

(* A player who is down when the tick of the death is over stays down, lands *)
(* nothing and is credited no further window.                                *)
THEOREM DownedCorrect == Spec => DownedStaysDown
<1>1. IInv /\ [Next]_vars =>
        [(tl.health = 0 /\ phase # "decide") =>
           tl'.health = 0 /\ tl'.foe = tl.foe /\ tl'.longest = tl.longest]_vars
  <2> SUFFICES ASSUME IInv, Next, phase # "decide" PROVE Rests
    BY DEF Rests
  <2>1. Regenerate \/ Resolve \/ Suffer \/ Clock \/ Finish
    BY DEF Next, Press, Swap, Wait
  <2> QED BY <2>1, RegenerateStep, ResolveStep, SufferStep, ClockStep, FinishStep
<1> QED BY <1>1, FightInvariant, PTL DEF Spec, DownedStaysDown

(* No skill is started again before the recharge it owes, Alacrity included. *)
THEOREM RechargeCorrect == Spec => RechargeKept
<1>1. IInv /\ [Next]_vars =>
        [\A i \in Ids : (tl.cast = None /\ tl'.cast # None /\ tl'.cast.skill = i) => tl.now >= rest[i]]_vars
  <2> SUFFICES ASSUME IInv, Next, NEW i \in Ids, tl.cast = None, tl'.cast # None, tl'.cast.skill = i
               PROVE  tl.now >= rest[i]
    OBVIOUS
  <2>1. ~NoCast
    BY DEF NoCast
  <2>2. Press
    BY <2>1, RegenerateStep, ResolveStep, SufferStep, SwapStep, WaitStep, ClockStep, FinishStep DEF Next
  <2>3. Recharged(tl, i) /\ phase # "over"
    <3>1. PICK j : Pressed(j)
      BY <2>2, PressFacts
    <3>2. j = i
      BY <3>1 DEF Pressed
    <3> QED BY <2>2, <3>1, <3>2 DEF Pressed, Press
  <2>4. /\ rest[i] \in Int /\ tl.ready[i] \in Int /\ tl.now \in Nat
        /\ Owes(rest[i], tl.ready[i], tl.now)
    BY <2>3, IInvFacts DEF IInv, RestInv, Good, Recharges, Numbers, Ids
  <2>5. rest[i] <= tl.now
    BY <2>3, <2>4, OwedRests DEF Recharged
  <2> QED BY <2>4, <2>5
<1> QED BY <1>1, FightInvariant, PTL DEF Spec, RechargeKept
=========================================================================
