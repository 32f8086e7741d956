--------------------------- MODULE MCWvwTimeline ---------------------------
(* A small duel for TLC: times in units of 25 ms at a tick of 50 ms, the      *)
(* recharges and durations scaled down so that several of each fit the fight. *)
EXTENDS WvwTimeline

\* A skill with nothing special about it; the skills below say what differs.
Plain == [id |-> 0, set |-> 0, cast |-> 2, cooldown |-> 8, hits |-> 0, auto |-> FALSE, stunbreak |-> FALSE,
          cost |-> 0, floor |-> 0, spendAll |-> FALSE, gainOnHit |-> 0, gainOnUse |-> 0, upkeep |-> 0,
          enters |-> FALSE, exits |-> FALSE, drain |-> 0, exposed |-> FALSE, effects |-> <<>>]

Strikes(s, n) == [s EXCEPT !.hits = n, !.effects = <<[op |-> "Strike"]>> \o @]
Boon(name, n) == [op |-> "Buff", name |-> name, stacks |-> n, duration |-> 6]
Covers(kind) == [op |-> "Cover", kind |-> kind, duration |-> 6, strippable |-> FALSE]

Entry == [Plain EXCEPT !.cast = 0, !.cooldown = 10, !.floor = 1, !.drain = 1, !.enters = TRUE]
Auto(set) == Strikes([Plain EXCEPT !.set = set, !.cooldown = 0, !.auto = TRUE], 1)
Stun(effects) == [Plain EXCEPT !.cooldown = 8, !.stunbreak = TRUE, !.effects = effects]

\* A bar whose entries are skills of their own.
Bar(skills) == [i \in DOMAIN skills |-> [skills[i] EXCEPT !.id = i]]
Still == [every |-> 0, amount |-> 0]
MCPoolCap == [LifeForce |-> 10, Energy |-> 8, Adrenaline |-> 6, Initiative |-> 4]

\* A necromancer: gains life force on set 1, spends it in the shroud.
Reaper ==
  [kind |-> "LifeForce", start |-> 0, cap |-> 10, regen |-> 0, pulse |-> Still, opener |-> <<1, 2>>,
   skills |-> Bar(<<Strikes([Plain EXCEPT !.set = 1, !.gainOnUse = 7], 1),
                Entry,
                Strikes([Plain EXCEPT !.set = 3, !.cast = 4, !.gainOnHit = 1], 2),
                [Plain EXCEPT !.set = 3, !.cast = 0, !.exits = TRUE],
                Auto(2),
                Stun(<<Boon("Alacrity", 1), [op |-> "Healing", amount |-> 2]>>)>>)]

\* A shroud that leaves the health exposed, with cover and a strip.
Harbinger ==
  [kind |-> "LifeForce", start |-> 0, cap |-> 10, regen |-> 0, pulse |-> Still, opener |-> <<>>,
   skills |-> Bar(<<Strikes([Plain EXCEPT !.set = 1, !.gainOnUse = 6], 1),
                [Entry EXCEPT !.exposed = TRUE],
                Auto(3),
                [Plain EXCEPT !.effects = <<Boon("Aegis", 1)>>],
                [Plain EXCEPT !.effects = <<[op |-> "Healing", amount |-> 2]>>],
                Stun(<<[op |-> "StripBoons"], [op |-> "CrowdControl", duration |-> 4]>>)>>)]

Revenant ==
  [kind |-> "Energy", start |-> 4, cap |-> 8, regen |-> 1, pulse |-> Still, opener |-> <<3, 1>>,
   skills |-> Bar(<<[Plain EXCEPT !.cost = 2, !.upkeep = 3, !.effects = <<Boon("Stability", 2)>>],
                Strikes([Plain EXCEPT !.set = 1, !.cast = 6, !.cost = 2,
                                      !.effects = <<[op |-> "RemovesCondition", count |-> 1]>>], 3),
                Strikes([Plain EXCEPT !.set = 2], 1),
                Stun(<<Covers("Stealth"), [op |-> "Barrier", amount |-> 2]>>)>>)]

\* A trait heals on the clock.
Warrior ==
  [kind |-> "Adrenaline", start |-> 2, cap |-> 6, regen |-> 0, opener |-> <<>>,
   pulse |-> [every |-> 8, amount |-> 1],
   skills |-> Bar(<<Strikes([Plain EXCEPT !.cost = 2, !.spendAll = TRUE, !.cast = 4], 1),
                Strikes([Plain EXCEPT !.set = 1, !.effects = <<Boon("Quickness", 1)>>], 2),
                Auto(1),
                [Plain EXCEPT !.cooldown = 6, !.effects = <<Covers("Block"), Boon("Protection", 1)>>]>>)]

\* One skill on both weapon sets, with one recharge; more initiative than the default.
Thief ==
  LET Twin(set) == Strikes([Plain EXCEPT !.id = 1, !.set = set, !.cast = 4, !.cost = 2], 2)
  IN [kind |-> "Initiative", start |-> 4, cap |-> 5, regen |-> 1, pulse |-> Still, opener |-> <<>>,
      skills |-> <<Twin(1), Twin(2), [Auto(1) EXCEPT !.id = 3],
                   [Strikes([Plain EXCEPT !.set = 2, !.cooldown = 6], 1) EXCEPT !.id = 4],
                   [Stun(<<[op |-> "Healing", amount |-> 1]>>) EXCEPT !.id = 5]>>]

\* The same bar with an opener that asks for a weapon swap from inside the shroud.
Swapper == [Reaper EXCEPT !.opener = <<1, 2, 5>>]

MCBuilds == {Reaper, Swapper, Harbinger, Revenant, Warrior, Thief}

Hit(at, damage, unblockable) == [at |-> at, op |-> "Strike", damage |-> damage, unblockable |-> unblockable]
Hold(at) == [at |-> at, op |-> "Control", duration |-> 6, unblockable |-> FALSE]
Afflict(at, name, damage) == [at |-> at, op |-> "Condition", name |-> name, damage |-> damage, duration |-> 8]
Strip(at) == [at |-> at, op |-> "BoonStrip"]

\* The burst of WvwProfile::for_scenario, from a time on.
Burst(from) ==
  <<Hold(from), Hit(from + 4, 2, FALSE), Afflict(from + 8, "Bleeding", 1), Strip(from + 10),
    Afflict(from + 12, "Chilled", 0), Hold(from + 14), Hit(from + 18, 6, FALSE), Hit(from + 22, 2, TRUE)>>

\* Every three events in a row, of each kind the enemy has.
Kinds(at) == {Hit(at, 6, FALSE), Hit(at, 12, TRUE), Hold(at), Afflict(at, "Immobile", 0), Strip(at)}
Volleys == {<<a, b, c>> : a \in Kinds(8), b \in Kinds(12), c \in Kinds(16)}

\* Controlled twice and hit where no dodge helps.
Chain == <<Hold(8), Afflict(8, "Immobile", 0), Hold(12), Hit(16, 12, TRUE)>>

MCScripts ==
  [events : {<<>>, Burst(4), Burst(6), Chain}, stability : BOOLEAN]
    \cup [events : Volleys, stability : {FALSE}]
=============================================================================
