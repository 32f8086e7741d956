---------------------------- MODULE WvwTimeline ----------------------------
(***************************************************************************)
(* The World-versus-World exchange model of the optimizer                  *)
(* (crates/optimizer/src/rotation/wvw_timeline.rs): a build's player       *)
(* against a scripted enemy on a clock of fixed ticks.  A tick runs the    *)
(* same handlers in the same order: expire and regenerate, land hits and   *)
(* resolve the cast, suffer conditions and the enemy's events, then decide *)
(* what to press.                                                          *)
(*                                                                         *)
(* Abstractions.  Damage is a small number per hit.  The score pick_skill  *)
(* ranks by is data, so any candidate it may rank first can be pressed.    *)
(* Of the trait and sigil records (procs, conditionals) one periodic heal  *)
(* is kept; the others, combos, attunements, clones, auto-attack chains,   *)
(* cleave and the trace are left out.  Times are in units of which TICK    *)
(* make one tick.                                                          *)
(***************************************************************************)
EXTENDS Integers, FiniteSets, SequencesExt, Functions

CONSTANTS
  Builds,            \* builds a fight is run for: [skills, opener, kind, start, cap, regen, pulse]
  PoolCap,           \* resource_cap: the profession's default cap of a kind of pool
  Scripts,           \* enemy scripts: [events, stability], the events in time order
  None,              \* no cast, no shroud
  Duration,          \* profile.duration_ms
  TICK,              \* TIMELINE_TICK_MS
  PERIOD,            \* tick_recharge_rate acts when the clock is a multiple of it
  SECOND,            \* between two ticks of a condition
  ALACRITY,          \* what Alacrity takes off a recharge per PERIOD
  CHILLED,           \* what Chilled adds to a recharge per PERIOD
  GAP,               \* MIN_SKILL_GAP_MS
  HUMAN_DELAY,       \* HUMAN_DELAY_MS
  DODGE_EVADE,       \* DODGE_EVADE_MS
  DODGE_COST,        \* DODGE_COST, in the endurance a tick regenerates
  INTERRUPT,         \* INTERRUPT_COOLDOWN_MS
  SWAP,              \* weapon_swap_cooldown_ms
  LEGEND,            \* LEGEND_SWAP_RECHARGE_MS
  LEGEND_ENERGY,     \* LEGEND_SWAP_ENERGY
  MAX_UPKEEP,        \* MAX_UPKEEP
  BAR,               \* ADRENALINE_BAR_STRIKES
  BARRIER_LIFETIME,  \* BARRIER_LIFETIME_MS
  BARRIER_CAP,       \* WVW_BARRIER_HEALTH_FRACTION of max_health
  MaxHealth,         \* params.max_health
  FoeHealth          \* target.hp; a strike takes one

SHROUD_SET == 3

Cover == {"Invulnerability", "Evade", "Stealth", "Aegis", "Stability", "Resistance",
          "Protection", "Blind", "Block"}

\* SkillEffect and ScriptedEvent, the fields the handlers read.
Effects ==
  [op : {"Strike", "StripBoons"}]
    \cup [op : {"Buff"}, name : STRING, stacks : Nat, duration : Nat]
    \cup [op : {"Cover"}, kind : Cover, duration : Nat, strippable : BOOLEAN]
    \cup [op : {"Healing", "Barrier"}, amount : Nat]
    \cup [op : {"RemovesCondition"}, count : Nat]
    \cup [op : {"CrowdControl"}, duration : Nat]

Events ==
  [op : {"Strike"}, at : Nat, damage : Nat, unblockable : BOOLEAN]
    \cup [op : {"Control"}, at : Nat, duration : Nat, unblockable : BOOLEAN]
    \cup [op : {"Condition"}, at : Nat, name : STRING, damage : Nat, duration : Nat]
    \cup [op : {"BoonStrip"}, at : Nat]

\* RotationSkill, the fields the handlers read.
Skills ==
  [id : Nat, set : 0..SHROUD_SET, cast : Nat, cooldown : Nat, hits : Nat, cost : Nat, floor : Nat,
   gainOnHit : Nat, gainOnUse : Nat, upkeep : Nat, drain : Nat, auto : BOOLEAN,
   stunbreak : BOOLEAN, spendAll : BOOLEAN, enters : BOOLEAN, exits : BOOLEAN,
   exposed : BOOLEAN, effects : Seq(Effects)]

\* A bar's skills, an opener over them, a pool that holds what it is given
\* (its cap is the default or the build's own), and a record that heals.
ASSUME BuildsAssumption ==
  \A b \in Builds :
    /\ b.skills \in Seq(Skills) /\ b.opener \in Seq(DOMAIN b.skills)
    /\ b.cap \in Nat /\ b.regen \in Nat /\ b.start \in 0..b.cap
    /\ PoolCap[b.kind] \in Nat
    /\ b.kind = "Energy" => LEGEND_ENERGY <= PoolCap[b.kind]
    /\ b.pulse \in [every : Nat, amount : Nat]

ASSUME ScriptsAssumption == Scripts \subseteq [events : Seq(Events), stability : BOOLEAN]

ASSUME NoneAssumption ==
  /\ None \notin [skill : Nat, resolves : Nat]
  /\ None \notin [entry : Nat, drain : Nat, exposed : BOOLEAN, recharge : Nat]

\* Time passes; a period is a whole number of ticks, and Alacrity adds at most
\* a fourth to it (25 on 100: alacrity_cd_advance_ms, rotation/simulator.rs:2449).
ASSUME TimesAssumption ==
  /\ {Duration, TICK, PERIOD, SECOND, INTERRUPT, SWAP, LEGEND, DODGE_EVADE} \subseteq Nat \ {0}
  /\ {ALACRITY, CHILLED, GAP, HUMAN_DELAY, BARRIER_LIFETIME} \subseteq Nat
  /\ PERIOD % TICK = 0 /\ 4 * ALACRITY <= PERIOD

ASSUME AmountsAssumption ==
  /\ {MaxHealth, BAR} \subseteq Nat \ {0}
  /\ {FoeHealth, DODGE_COST, LEGEND_ENERGY, MAX_UPKEEP, BARRIER_CAP} \subseteq Nat

VARIABLES
  build,    \* the build under evaluation; never changes
  tl,       \* the Timeline
  phase,    \* where in run's loop the timeline is
  rest,     \* history: skill -> the earliest time it may be started again
  control,  \* history: when the last control effect landed
  reentered \* history: a shroud was entered from inside a shroud

vars == <<build, tl, phase, rest, control, reentered>>

----------------------------------------------------------------------------
\* Reading the state.

Skill(i) == build.skills[i]
Ids == DOMAIN build.skills
Has(t, kind) == \E i \in DOMAIN t.defenses : t.defenses[i].kind = kind /\ t.defenses[i].expires > t.now
HasBuff(t, name) == \E b \in t.buffs : b.name = name /\ b.expires > t.now
HasCondition(t, name) ==
  \E k \in DOMAIN t.conditions : t.conditions[k].name = name /\ t.conditions[k].expires > t.now
InShroud(t) == t.shroud # None
Least(a, b) == IF a < b THEN a ELSE b
Most(a, b) == IF a > b THEN a ELSE b

\* Vec::retain: the elements of seq that are in kept, in their order.
Retain(seq, kept) == FoldLeft(LAMBDA got, e : IF e \in kept THEN Append(got, e) ELSE got, <<>>, seq)

\* control_owned: nothing can interrupt what the player starts now.
ControlOwned(t) ==
  \/ t.foe.disabled > t.now
  \/ \E kind \in {"Stability", "Invulnerability", "Evade", "Stealth", "Block"} : Has(t, kind)

SkillAvailable(t, i) == Skill(i).set \in {0, t.set}
Recharged(t, i) == t.ready[i] <= t.now
CanPayResource(t, i) == t.pool >= Most(Skill(i).cost, Skill(i).floor)
FoeAlive(t) == t.foe.hp > 0

----------------------------------------------------------------------------
\* Recharges, pools, cover.

\* The game tracks a recharge by skill: entries of one skill share it.
Same(i, j) == Skill(i).id = Skill(j).id

SetSkillCooldown(t, i, cooldown) ==
  [t EXCEPT !.ready = [j \in Ids |-> IF Same(i, j) THEN t.now + cooldown ELSE @[j]]]

\* pay_resource: a burst leaves the strikes above the last full bar.
PayResource(t, i) ==
  LET s == Skill(i) IN
  IF t.pool < s.cost THEN t
  ELSE [t EXCEPT !.pool = IF ~s.spendAll THEN @ - s.cost
                          ELSE IF build.kind = "Adrenaline" THEN @ % BAR
                          ELSE 0]

\* Gains stop at the profession's default cap, the build's own aside.
Gained(pool, gain) == IF gain = 0 THEN pool ELSE Least(pool + gain, PoolCap[build.kind])

\* gain_resource_on_hit: every hit of a skill that is no burst feeds adrenaline.
GainResourceOnHit(t, i) ==
  LET fed == Gained(t.pool, Skill(i).gainOnHit)
  IN [t EXCEPT !.pool = IF build.kind = "Adrenaline" /\ Skill(i).cost = 0
                        THEN Least(fed + 1, build.cap) ELSE fed]

\* Mutant: the cap is forgotten.
GainUncapped(t, i) == [t EXCEPT !.pool = @ + Skill(i).gainOnUse]

GainResourceOnUse(t, i) == [t EXCEPT !.pool = Gained(@, Skill(i).gainOnUse)]

\* Mutant: the hits in flight are kept.
CancelKeepingHits(t) ==
  IF t.cast = None THEN t
  ELSE SetSkillCooldown([t EXCEPT !.cast = None], t.cast.skill, INTERRUPT)

\* cancel_pending_cast: the unlanded hits die with the cast.
CancelPendingCast(t) ==
  IF t.cast = None THEN t
  ELSE SetSkillCooldown([t EXCEPT !.cast = None, !.hits = <<>>], t.cast.skill, INTERRUPT)

EnterShroud(t, i) ==
  [t EXCEPT !.before = t.set, !.set = SHROUD_SET,
            !.shroud = [entry |-> i, drain |-> Skill(i).drain, exposed |-> Skill(i).exposed,
                        recharge |-> Skill(i).cooldown]]

\* Mutant: the entry keeps the recharge its own cast gave it.
ExitWithoutRecharge(t, forced) ==
  IF ~InShroud(t) THEN t
  ELSE LET out == [t EXCEPT !.shroud = None, !.set = t.before]
       IN IF forced THEN CancelPendingCast(out) ELSE out

\* exit_shroud: an empty pool also cancels the cast, as an interrupt does.
ExitShroud(t, forced) ==
  IF ~InShroud(t) THEN t
  ELSE LET out == [t EXCEPT !.shroud = None, !.set = t.before]
       IN SetSkillCooldown(IF forced THEN CancelPendingCast(out) ELSE out,
                           t.shroud.entry, t.shroud.recharge)

\* apply_defense: one entry per kind; an extension keeps the first application.
ApplyDefense(t, kind, duration, stacks, strippable) ==
  LET old == {i \in DOMAIN t.defenses : t.defenses[i].kind = kind} IN
  IF old # {} THEN
    LET i == CHOOSE i \in old : TRUE
        d == t.defenses[i]
    IN [t EXCEPT !.defenses[i] = [d EXCEPT !.expires = Most(@, t.now + duration),
                                           !.stacks = Most(@, stacks),
                                           !.strippable = @ /\ strippable]]
  ELSE [t EXCEPT !.defenses = Append(@, [kind |-> kind, expires |-> t.now + duration,
                                         stacks |-> stacks, strippable |-> strippable,
                                         applied |-> t.now])]

RemoveDefense(t, kind) ==
  [t EXCEPT !.defenses = Retain(@, {d \in Range(@) : d.kind # kind})]

\* consume_defense, for a kind the player Has: one stack, or the entry.
ConsumeDefense(t, kind) ==
  LET i == CHOOSE i \in DOMAIN t.defenses : t.defenses[i].kind = kind
  IN IF t.defenses[i].stacks > 1 THEN [t EXCEPT !.defenses[i].stacks = @ - 1]
     ELSE RemoveDefense(t, kind)

\* apply_buff; four boons are also cover (boon_cover_kind).
ApplyBuff(t, name, stacks, duration) ==
  LET held == [t EXCEPT !.buffs = @ \cup {[name |-> name, expires |-> t.now + duration]}]
  IN IF name \in {"Stability", "Aegis", "Protection", "Resistance"}
     THEN ApplyDefense(held, name, duration, stacks, TRUE)
     ELSE held

\* heal: a shroud that shields the health also keeps healing out.
Heal(t, amount) ==
  IF InShroud(t) /\ ~t.shroud.exposed THEN t
  ELSE [t EXCEPT !.health = Least(@ + amount, MaxHealth)]

BarrierLeft(layers) == FoldLeft(LAMBDA sum, layer : sum + layer.amount, 0, layers)

ApplyBarrier(t, amount) ==
  LET applied == Least(amount, Most(BARRIER_CAP - BarrierLeft(t.barrier), 0))
  IN IF applied = 0 THEN t
     ELSE [t EXCEPT !.barrier = Append(@, [amount |-> applied, expires |-> t.now + BARRIER_LIFETIME])]

\* What a hit leaves of the barrier: the oldest layers go first.
Worn(layers, damage) ==
  LET left == [i \in DOMAIN layers |->
                 [layers[i] EXCEPT !.amount =
                    Most(@ - Most(damage - BarrierLeft(SubSeq(layers, 1, i - 1)), 0), 0)]]
  IN Retain(left, {layer \in Range(left) : layer.amount > 0})

\* absorb_damage: barrier, then the shroud's pool at half rate, then health.
AbsorbDamage(t, damage) ==
  LET remaining == Most(damage - BarrierLeft(t.barrier), 0)
      worn == [t EXCEPT !.barrier = Worn(@, damage)]
      Hurt(u, d) == [u EXCEPT !.health = Most(@ - d, 0)]
  IN IF InShroud(t) /\ ~t.shroud.exposed
     THEN LET toPool == remaining \div 2
              taken == Least(toPool, t.pool)
              drained == [worn EXCEPT !.pool = @ - taken]
          IN Hurt(IF drained.pool = 0 THEN ExitShroud(drained, TRUE) ELSE drained, toPool - taken)
     ELSE Hurt(worn, remaining)

\* cleanse: the conditions received last go first.
Cleanse(t, count) ==
  [t EXCEPT !.conditions = SubSeq(@, 1, Most(Len(@) - count, 0))]

----------------------------------------------------------------------------
\* apply_skill_effect, and the casts that call it.

\* A landed strike: the foe is hurt, stealth ends, the pool gains.
LandHit(t, i) ==
  GainResourceOnHit(RemoveDefense([t EXCEPT !.foe.hp = Most(@ - 1, 0)], "Stealth"), i)

ApplySkillEffect(t, i, effect) ==
  CASE effect.op = "Strike" -> LandHit(t, i)
    [] effect.op = "Buff" -> ApplyBuff(t, effect.name, effect.stacks, effect.duration)
    [] effect.op = "Cover" -> ApplyDefense(t, effect.kind, effect.duration, 1, effect.strippable)
    [] effect.op = "Healing" -> Heal(t, effect.amount)
    [] effect.op = "Barrier" -> ApplyBarrier(t, effect.amount)
    [] effect.op = "RemovesCondition" -> Cleanse(t, effect.count)
    [] effect.op = "StripBoons" -> [t EXCEPT !.foe.stability = FALSE]
    [] effect.op = "CrowdControl" ->
         IF t.foe.stability THEN t
         ELSE [t EXCEPT !.foe.disabled = Most(@, t.now + effect.duration)]

ApplyAll(t, i, effects) ==
  FoldLeft(LAMBDA u, effect : ApplySkillEffect(u, i, effect), t, effects)

LandScheduledHits(t) ==
  LET due == Retain(t.hits, {h \in Range(t.hits) : h.at <= t.now})
      kept == [t EXCEPT !.hits = Retain(@, {h \in Range(@) : h.at > t.now})]
  IN FoldLeft(LAMBDA u, h : LandHit(u, h.skill), kept, due)

\* resolve_pending_cast: the recharge starts when the cast is complete.
ResolvePendingCast(t) ==
  IF t.cast = None \/ t.cast.resolves > t.now THEN t
  ELSE LET i == t.cast.skill
           over == [LandScheduledHits(t) EXCEPT !.cast = None]
           spent == GainResourceOnUse(SetSkillCooldown(over, i, Skill(i).cooldown), i)
       IN ApplyAll(spent, i, Retain(Skill(i).effects, {e \in Range(Skill(i).effects) : e.op # "Strike"}))

\* hit_schedule: the hits of a cast, spread evenly, the last at its end.
HitSchedule(t, i, castTime) ==
  LET n == Skill(i).hits
  IN [k \in 1..n |-> [at |-> t.now + (castTime * k) \div n, skill |-> i]]

CastTime(t, i) ==
  Most(IF HasBuff(t, "Quickness") THEN (Skill(i).cast * 2 + 1) \div 3 ELSE Skill(i).cast, TICK)

StartCast(t, i) ==
  LET paid == PayResource(t, i)
      barred == IF Skill(i).enters THEN EnterShroud(paid, i)
                ELSE IF Skill(i).exits THEN ExitShroud(paid, FALSE)
                ELSE paid
      time == CastTime(barred, i)
  IN [barred EXCEPT !.hits = @ \o HitSchedule(t, i, time),
                    !.cast = [skill |-> i, resolves |-> t.now + time],
                    !.next = t.now + time + HUMAN_DELAY + GAP,
                    !.upkeep = Least(@ + Skill(i).upkeep, MAX_UPKEEP)]

----------------------------------------------------------------------------
\* The start of a tick.

ExpireTimedState(t) ==
  [t EXCEPT !.defenses = Retain(@, {d \in Range(@) : d.expires > t.now}),
            !.buffs = {b \in @ : b.expires > t.now},
            !.barrier = Retain(@, {layer \in Range(@) : layer.expires > t.now})]

\* regenerate_resources: a shroud drains; energy also pays for upkeep, and at
\* zero every upkeep ends; initiative and flow fill on the clock.
RegenerateResources(t) ==
  LET drained == [t EXCEPT !.pool = Most(@ - t.shroud.drain, 0)]
      rate == Most(build.regen - t.upkeep, -build.regen)
      energy == Most(Least(t.pool + rate, PoolCap[build.kind]), 0)
  IN IF InShroud(t) THEN IF drained.pool = 0 THEN ExitShroud(drained, TRUE) ELSE drained
     ELSE IF build.kind = "Energy"
          THEN [t EXCEPT !.pool = energy, !.upkeep = IF energy = 0 THEN 0 ELSE @]
     ELSE IF build.kind \in {"Initiative", "Flow"}
          THEN [t EXCEPT !.pool = Least(@ + build.regen, build.cap)]
     ELSE t

\* strike_within_evade_window
StrikeComing(t) ==
  \E k \in DOMAIN t.events : t.events[k].op = "Strike" /\ t.events[k].at < t.now + DODGE_EVADE

\* tick_endurance_and_dodge: endurance is held until a strike is coming.
TickEnduranceAndDodge(t) ==
  LET rested == [t EXCEPT !.endurance = Least(@ + 1, 2 * DODGE_COST)]
  IN IF /\ rested.endurance >= DODGE_COST
        /\ t.disabled <= t.now
        /\ ~HasCondition(t, "Immobile")
        /\ ~Has(t, "Evade")
        /\ StrikeComing(t)
     THEN ApplyDefense([rested EXCEPT !.endurance = @ - DODGE_COST], "Evade", DODGE_EVADE, 1, FALSE)
     ELSE rested

----------------------------------------------------------------------------
\* What the enemy does.

\* avoids_attack, as the cover that stops the attack ("" when none does).
Avoider(t, unblockable) ==
  IF Has(t, "Invulnerability") THEN "Invulnerability"
  ELSE IF Has(t, "Evade") THEN "Evade"
  ELSE IF unblockable THEN ""
  ELSE IF Has(t, "Aegis") THEN "Aegis"
  ELSE IF Has(t, "Block") THEN "Block"
  ELSE IF Has(t, "Blind") THEN "Blind"
  ELSE ""

\* An attack that was avoided: a charge is used up and secures this tick.
Avoided(t, cover) ==
  IF cover \in {"Aegis", "Blind"} THEN [ConsumeDefense(t, cover) EXCEPT !.charge = TRUE] ELSE t

\* receive_strike: Protection takes a third.
ReceiveStrike(t, e) ==
  LET cover == Avoider(t, e.unblockable)
  IN IF cover # "" THEN Avoided(t, cover)
     ELSE AbsorbDamage(t, IF Has(t, "Protection") THEN e.damage - e.damage \div 3 ELSE e.damage)

\* Mutant: the window goes on through control.
ControlKeepingRun(t, e) ==
  LET cover == Avoider(t, e.unblockable)
  IN IF cover # "" THEN Avoided(t, cover)
     ELSE IF Has(t, "Stability") THEN ConsumeDefense(t, "Stability")
     ELSE [CancelPendingCast(t) EXCEPT !.disabled = Most(@, t.now + e.duration)]

ReceiveControl(t, e) ==
  LET cover == Avoider(t, e.unblockable)
  IN IF cover # "" THEN Avoided(t, cover)
     ELSE IF Has(t, "Stability") THEN ConsumeDefense(t, "Stability")
     ELSE [CancelPendingCast(t) EXCEPT !.disabled = Most(@, t.now + e.duration), !.run = 0]

ReceiveCondition(t, e) ==
  IF Has(t, "Invulnerability") \/ (Has(t, "Resistance") /\ e.damage = 0) THEN t
  ELSE [t EXCEPT !.conditions = Append(@, [name |-> e.name, damage |-> e.damage,
                                           expires |-> t.now + e.duration, applied |-> t.now])]

\* receive_boon_strip: the strippable cover applied last goes first.
ReceiveBoonStrip(t) ==
  LET strippable == {i \in DOMAIN t.defenses : t.defenses[i].strippable}
      Newest(i) == \A j \in strippable : \/ t.defenses[j].applied < t.defenses[i].applied
                                         \/ t.defenses[j].applied = t.defenses[i].applied /\ j <= i
  IN IF strippable = {} THEN t
     ELSE [t EXCEPT !.defenses = RemoveAt(@, CHOOSE i \in strippable : Newest(i))]

\* A disabled foe's event is lost.
ReceiveEvent(t, e) ==
  IF t.foe.disabled > t.now THEN t
  ELSE CASE e.op = "Strike" -> ReceiveStrike(t, e)
         [] e.op = "Control" -> ReceiveControl(t, e)
         [] e.op = "Condition" -> ReceiveCondition(t, e)
         [] e.op = "BoonStrip" -> ReceiveBoonStrip(t)

ProcessEnemyEvents(t) ==
  IF ~FoeAlive(t) THEN t
  ELSE LET due == Retain(t.events, {e \in Range(t.events) : e.at <= t.now})
           popped == [t EXCEPT !.events = Retain(@, {e \in Range(@) : e.at > t.now})]
       IN FoldLeft(ReceiveEvent, popped, due)

\* tick_conditions: conditions hurt once per period from their application on.
TickConditions(t) ==
  LET due == {c \in Range(t.conditions) : c.expires >= t.now /\ t.now > c.applied
                                           /\ (t.now - c.applied) % SECOND = 0}
      damage == FoldLeft(LAMBDA sum, c : sum + c.damage, 0, Retain(t.conditions, due))
      hurt == IF damage = 0 THEN t ELSE AbsorbDamage(t, damage)
  IN [hurt EXCEPT !.conditions = Retain(@, {c \in Range(@) : c.expires > t.now})]

TrackProtectedWindow(t) ==
  IF ControlOwned(t) \/ t.charge
  THEN [t EXCEPT !.run = @ + TICK, !.longest = Most(@, t.run + TICK)]
  ELSE [t EXCEPT !.run = 0]

\* trigger_procs(Periodic), for a record that heals; the dead are healed too.
TriggerPeriodic(t) ==
  IF build.pulse.amount = 0 \/ t.pulseReady > t.now THEN t
  ELSE Heal([t EXCEPT !.pulseReady = t.now + build.pulse.every], build.pulse.amount)

----------------------------------------------------------------------------
\* What the player presses.

\* How pick_skill judges the opener's entry c: a skill on recharge was
\* pressed, one on the other set asks for a swap or is skipped, one the build
\* cannot pay for hands over to the scorer, but a shroud entry is skipped.
OpenerVerdict(t, c) ==
  LET i == build.opener[c] IN
  IF ~Recharged(t, i) THEN "skip"
  ELSE IF ~SkillAvailable(t, i)
       THEN IF Skill(i).set \in {1, 2} /\ t.now >= t.swapReady THEN "swap" ELSE "skip"
  ELSE IF CanPayResource(t, i) THEN "press"
  ELSE IF Skill(i).enters THEN "skip"
  ELSE "scorer"

\* The opener entry pick_skill stops at; past the end when every one is skipped.
OpenerStop(t) ==
  CHOOSE c \in t.cursor..(Len(build.opener) + 1) :
    /\ \A b \in t.cursor..(c - 1) : OpenerVerdict(t, b) = "skip"
    /\ c <= Len(build.opener) => OpenerVerdict(t, c) # "skip"

\* The skills the scorer may rank first; a heal waits until the health is down
\* to 72 percent, and an auto-attack is pressed when nothing else is left.
Scored(t) ==
  LET Heals(i) == \E k \in DOMAIN Skill(i).effects : Skill(i).effects[k].op = "Healing"
      ready == {i \in Ids : Recharged(t, i) /\ SkillAvailable(t, i)}
      best == {i \in ready : /\ ~Skill(i).auto /\ CanPayResource(t, i)
                             /\ Heals(i) => 25 * t.health <= 18 * MaxHealth}
  IN IF best # {} THEN best ELSE {i \in ready : Skill(i).auto}

\* pick_skill: what may be pressed now; nothing when the opener asks for a swap.
Picks(t) ==
  LET c == OpenerStop(t)
      verdict == IF c > Len(build.opener) THEN "scorer" ELSE OpenerVerdict(t, c)
  IN CASE verdict = "press" -> {build.opener[c]}
       [] verdict = "swap" -> {}
       [] OTHER -> Scored(t)

\* The opener cursor after pick_skill.
Advanced(t) ==
  LET c == OpenerStop(t)
  IN [t EXCEPT !.cursor = IF c <= Len(build.opener) /\ OpenerVerdict(t, c) = "press" THEN c + 1 ELSE c]

TryLegendSwap(t) ==
  IF build.kind = "Energy" /\ t.now >= t.legendReady /\ 2 * t.pool < LEGEND_ENERGY
  THEN [t EXCEPT !.pool = LEGEND_ENERGY, !.legendReady = t.now + LEGEND, !.upkeep = 0]
  ELSE t

\* Mutant: a swap out of the shroud's bar.
SwapFromAnyBar(t) ==
  LET other == IF t.set = 1 THEN 2 ELSE 1
  IN IF t.now >= t.swapReady /\ \E i \in Ids : Skill(i).set = other /\ Recharged(t, i)
     THEN [t EXCEPT !.set = other, !.swapReady = t.now + SWAP, !.next = t.now + GAP]
     ELSE t

\* try_weapon_swap: never in shroud, and only onto a set with a ready skill.
TryWeaponSwap(t) ==
  LET other == IF t.set = 1 THEN 2 ELSE 1
  IN IF /\ ~InShroud(t) /\ t.now >= t.swapReady
        /\ \E i \in Ids : Skill(i).set = other /\ Recharged(t, i)
     THEN [t EXCEPT !.set = other, !.swapReady = t.now + SWAP, !.next = t.now + GAP]
     ELSE t

\* The first stunbreak of the bar the player can press, if any.
Stunbreaks(t) == {i \in Ids : Skill(i).stunbreak /\ Recharged(t, i) /\ SkillAvailable(t, i)
                               /\ CanPayResource(t, i)}

TryStunbreak(t) ==
  LET i == CHOOSE i \in Stunbreaks(t) : \A j \in Stunbreaks(t) : i <= j
      freed == [SetSkillCooldown(PayResource(t, i), i, Skill(i).cooldown)
                  EXCEPT !.disabled = t.now, !.next = t.now + GAP]
  IN IF t.disabled <= t.now \/ Stunbreaks(t) = {} THEN t
     ELSE ApplyAll(freed, i, Skill(i).effects)

----------------------------------------------------------------------------
\* tick_recharge_rate, after the clock moved.
TickRechargeRate(t) ==
  LET Shifted(by) == [t EXCEPT !.ready = [i \in Ids |-> IF @[i] > t.now THEN @[i] + by ELSE @[i]]]
  IN IF t.now % PERIOD # 0 THEN t
     ELSE IF HasCondition(t, "Chilled") THEN Shifted(CHILLED)
     ELSE IF HasBuff(t, "Alacrity") THEN Shifted(-ALACRITY)
     ELSE t

\* Timeline::new
NewTimeline(script) ==
  [now |-> 0, next |-> 0, disabled |-> 0, set |-> 1, before |-> 1, shroud |-> None,
   swapReady |-> 0, legendReady |-> 0, cursor |-> 1, ready |-> [i \in Ids |-> 0],
   cast |-> None, hits |-> <<>>, defenses |-> <<>>, buffs |-> {}, barrier |-> <<>>,
   conditions |-> <<>>, health |-> MaxHealth, pool |-> build.start, upkeep |-> 0,
   endurance |-> 2 * DODGE_COST, pulseReady |-> 0, run |-> 0, longest |-> 0, charge |-> FALSE,
   foe |-> [hp |-> FoeHealth, disabled |-> 0, stability |-> script.stability],
   events |-> script.events]

Init ==
  /\ build \in Builds
  /\ \E script \in Scripts : tl = NewTimeline(script)
  /\ phase = "regenerate"
  /\ rest = [i \in Ids |-> 0]
  /\ control = 0
  /\ reentered = FALSE

\* Mutant: the loop looks at the clock alone.
RunningDead == tl.now < Duration

\* The condition of run's loop.
Running == tl.now < Duration /\ tl.health > 0

\* History: the least time a recharge of d takes, Alacrity up from start to end.
Hastened(d) == Most((4 * (d - ALACRITY)) \div 5, 0)

\* History: what the step to t owes: the skill of an ended cast, a left shroud
\* or a stunbreak is not started again, from any of its entries, before its
\* recharge, hastened.
Rested(t, done, stunbreak) ==
  LET Left(i) == InShroud(tl) /\ t.shroud = None /\ Same(tl.shroud.entry, i)
      Cast(i) == tl.cast # None /\ t.cast # tl.cast /\ Same(tl.cast.skill, i)
      Broke(i) == stunbreak # 0 /\ Same(stunbreak, i)
      Owed(i) == IF Left(i) THEN tl.shroud.recharge
                 ELSE IF Cast(i) THEN IF done THEN Skill(tl.cast.skill).cooldown ELSE INTERRUPT
                 ELSE Skill(stunbreak).cooldown
  IN rest' = [i \in Ids |-> IF Left(i) \/ Cast(i) \/ Broke(i)
                           THEN t.now + Hastened(Owed(i)) ELSE rest[i]]

\* The loop's head: the upkeep of the tick.
Regenerate ==
  /\ phase = "regenerate" /\ Running
  /\ tl' = TickEnduranceAndDodge(RegenerateResources(ExpireTimedState([tl EXCEPT !.charge = FALSE])))
  /\ phase' = "resolve"
  /\ Rested(tl', FALSE, 0)
  /\ UNCHANGED <<build, control, reentered>>

Resolve ==
  /\ phase = "resolve"
  /\ tl' = ResolvePendingCast(LandScheduledHits(tl))
  /\ phase' = "suffer"
  /\ Rested(tl', TRUE, 0)
  /\ UNCHANGED <<build, control, reentered>>

\* A control effect lands when an event of this tick sets the run back.
Suffer ==
  /\ phase = "suffer"
  /\ LET suffered == ProcessEnemyEvents(TickConditions(tl))
     IN /\ tl' = TriggerPeriodic(TrackProtectedWindow(suffered))
        /\ control' = IF suffered.disabled > tl.disabled \/ suffered.run < tl.run
                       THEN tl.now ELSE control
  /\ phase' = "decide"
  /\ Rested(tl', FALSE, 0)
  /\ UNCHANGED <<build, reentered>>

Free(t) == t.cast = None /\ t.now >= t.next /\ t.now >= t.disabled

\* A skill is picked and its cast starts.
Press ==
  /\ phase = "decide" /\ Free(tl)
  /\ LET ready == TryLegendSwap(tl)
     IN \E i \in Picks(ready) :
          /\ tl' = StartCast(Advanced(ready), i)
          /\ reentered' = (reentered \/ (Skill(i).enters /\ InShroud(tl)))
  /\ phase' = "clock"
  /\ Rested(tl', FALSE, 0)
  /\ UNCHANGED <<build, control>>

\* Nothing to press: the weapon swap.
Swap ==
  /\ phase = "decide" /\ Free(tl)
  /\ LET ready == TryLegendSwap(tl)
     IN /\ Picks(ready) = {}
        /\ tl' = TryWeaponSwap(Advanced(ready))
  /\ phase' = "clock"
  /\ UNCHANGED <<build, rest, control, reentered>>

\* Not free: a stunbreak while disabled, else nothing.
Wait ==
  /\ phase = "decide" /\ ~Free(tl)
  /\ tl' = IF tl.cast = None THEN TryStunbreak(tl) ELSE tl
  /\ phase' = "clock"
  /\ Rested(tl', FALSE,
            IF tl' # tl THEN CHOOSE i \in Stunbreaks(tl) : \A j \in Stunbreaks(tl) : i <= j ELSE 0)
  /\ UNCHANGED <<build, control, reentered>>

Clock ==
  /\ phase = "clock"
  /\ tl' = TickRechargeRate([tl EXCEPT !.now = @ + TICK])
  /\ phase' = "regenerate"
  /\ UNCHANGED <<build, rest, control, reentered>>

\* The end of run: a cast that finishes as the window closes lands its hits.
Finish ==
  /\ phase = "regenerate" /\ ~Running
  /\ tl' = IF tl.health > 0 THEN LandScheduledHits([tl EXCEPT !.now = Least(@, Duration)]) ELSE tl
  /\ phase' = "over"
  /\ UNCHANGED <<build, rest, control, reentered>>

Next == Regenerate \/ Resolve \/ Suffer \/ Press \/ Swap \/ Wait \/ Clock \/ Finish

Spec == Init /\ [][Next]_vars

----------------------------------------------------------------------------
\* Properties.

Phases == {"regenerate", "resolve", "suffer", "decide", "clock", "over"}

\* A pool is bounded by the larger of its two caps.
Ceiling(b) == Most(b.cap, PoolCap[b.kind])

\* The pool, the endurance and the health stay within their caps, whatever
\* gains, drains and swaps the fight strings together (timeline state,
\* wvw_timeline.rs:860-960).
TypeOK ==
  /\ build \in Builds /\ phase \in Phases
  /\ tl.now \in 0..(Duration + TICK) /\ tl.set \in 1..3 /\ tl.before \in 1..3
  /\ tl.health \in 0..MaxHealth /\ tl.pool \in 0..Ceiling(build) /\ tl.upkeep \in 0..MAX_UPKEEP
  /\ tl.endurance \in 0..(2 * DODGE_COST) /\ tl.longest \in 0..tl.now + TICK
  /\ DOMAIN tl.ready = Ids /\ (tl.cast # None => tl.cast.skill \in Ids)
  /\ \A i \in DOMAIN tl.defenses : tl.defenses[i].kind \in Cover
  /\ IsInjective([i \in DOMAIN tl.defenses |-> tl.defenses[i].kind])
  /\ BarrierLeft(tl.barrier) <= BARRIER_CAP
  /\ reentered \in BOOLEAN /\ control \in 0..Duration

\* Every hit in flight belongs to the cast in flight and lands before it ends:
\* no way to lose the cast (control, a shroud that runs dry) lets a hit of it
\* land later (ScheduledHit's comment, wvw_timeline.rs:585-586).
HitsHaveCast ==
  \A k \in DOMAIN tl.hits : /\ tl.cast # None
                            /\ tl.hits[k].skill = tl.cast.skill
                            /\ tl.hits[k].at <= tl.cast.resolves

\* In shroud the shroud's bar is held and, unless a shroud was entered from
\* inside one, the bar it hides is a weapon set and comes back with the exit.
ShroudHoldsBar ==
  /\ InShroud(tl) => tl.set = SHROUD_SET
  /\ ~reentered => /\ tl.set = SHROUD_SET => InShroud(tl)
                   /\ tl.before \in {1, 2}

\* No skill is started again before the recharge its last use, its
\* interruption or the shroud it opened has left it, Alacrity included: the
\* recharge of a lost cast replaces none that was owed longer.
RechargeKept ==
  [][\A i \in Ids : (tl.cast = None /\ tl'.cast # None /\ tl'.cast.skill = i) => tl.now >= rest[i]]_vars

\* Death is final once its tick is over: within the tick a periodic heal or a
\* stunbreak may still bring the player back, but a player who is down when the
\* next one begins stays down, lands no hit that was in flight and is credited
\* no further window (run, wvw_timeline.rs:1544, 1580-1583).
DownedStaysDown ==
  [][(tl.health = 0 /\ phase # "decide") =>
       tl'.health = 0 /\ tl'.foe = tl.foe /\ tl'.longest = tl.longest]_vars

\* A protected window never reaches back over control that landed on the
\* player, and the longest one reported is no shorter than the one running.
WindowSinceControl ==
  /\ tl.run <= tl.now - control + TICK
  /\ tl.run <= tl.longest

\* Comment of RotationSkill.weapon_set (rotation/mod.rs:55-56): the shroud's
\* bar is held "only while in shroud".
BarOnlyInShroud == tl.set = SHROUD_SET => InShroud(tl)
=============================================================================
