------------------------------- MODULE Economy -------------------------------
(***************************************************************************)
(* Where goods come from and where they go: asteroid belts whose pool the  *)
(* rocks are cut from, miners, holds, the station market, and the canisters*)
(* that wrecks and dead commanders leave.  One tonnage commodity.          *)
(*                                                                         *)
(* A miner remembers the rock it cuts (MiningState::rock) and the rock or  *)
(* belt it was ordered to as bare entity indexes, read again every tick,   *)
(* so the indexes - slots - matter: a rock that is gone leaves a slot for  *)
(* the next rock of any belt.  A tick of StepMining is taken one miner at  *)
(* a time, each with the refill its last cut asks for.  Rocks drift, out   *)
(* of their belt's radius or into another's; a belt counts the rocks of    *)
(* any belt that are within its radius.  Belts lie apart (SceneTemplates): *)
(* a rock is within one radius at most, and at first in its own belt's.    *)
(*                                                                         *)
(* Ships dock and launch as they like (module Commander), so each request  *)
(* may come whenever its other conditions hold; StepMining asks nothing.   *)
(***************************************************************************)
EXTENDS Integers, FiniteSetsExt

CONSTANTS Player, Belt,
          Slot,        \* entity slots rocks live in; as many as they need
          None,        \* no order, no rock, no belt
          MaxRocks,    \* BELT_MAX_ROCKS
          RockUnits,   \* BELT_ROCK_UNITS
          Baseline,    \* PoiResources::baseline
          MiningYield, \* MINING_YIELD
          Capacity,    \* CargoHold::capacity
          MaxStock,    \* bound: the market's stock
          MaxAway,     \* bound: rocks adrift at once
          MaxCans      \* bound: canisters afloat

ASSUME EconomyAssumption ==
  /\ {MaxRocks, RockUnits, Baseline, MiningYield, Capacity} \subseteq Nat \ {0}
  /\ {MaxStock, MaxCans, MaxAway} \subseteq Nat
  /\ IsFiniteSet(Player)
  /\ None \notin Belt

VARIABLES hold,     \* CargoHold::units of each player
          order,    \* the Mine order of each player
          aim,      \* MiningState::rock, or None
          pool,     \* PoiResources::units of each belt
          rock,     \* slot -> the OreBody there, or None
          cans,     \* [slot of a canister -> LootItem::units], 0 when free
          stock     \* MarketEntry::quantity

vars == <<hold, order, aim, pool, rock, cans, stock>>

Can == 1 .. MaxCans
Rock == [belt : Belt, units : 1 .. RockUnits, near : Belt \cup {None}]
Orders == [belt : Belt] \cup [slot : Slot]
Least(S) == Min(S)

-----------------------------------------------------------------------------
(* Belts                                                                   *)

\* BeltRockTarget: rocks in proportion to the pool, one at least while it lasts.
BeltRockTarget(units) ==
  IF units <= 0 THEN 0 ELSE Max({1, Least({MaxRocks, (MaxRocks * units) \div Baseline})})

FreshRock(b, units) ==
  LET target == BeltRockTarget(units)
      share == IF target > 0 THEN units \div target ELSE units
  IN [belt |-> b, near |-> b, units |-> Max({1, Least({RockUnits, share})})]

RocksOf(rk, b) == {i \in Slot : rk[i] # None /\ rk[i].belt = b}
CountBeltRocks(rk, b) == Cardinality({i \in Slot : rk[i] # None /\ rk[i].near = b})
Adrift(rk) == {i \in Slot : rk[i] # None /\ rk[i].near # rk[i].belt}

\* MaintainBeltRocks: every way to top up belt b's rocks for a pool of `units`.
Maintained(rk, b, units) ==
  LET free == {i \in Slot : rk[i] = None}
      need == Least({Cardinality(free), BeltRockTarget(units) - CountBeltRocks(rk, b)})
  IN IF need <= 0 THEN {rk}
     ELSE {[i \in Slot |-> IF i \in S THEN FreshRock(b, units) ELSE rk[i]] : S \in kSubset(need, free)}

\* MaterializeScenePoi for every belt: a pool up to its baseline, and its rocks.
Materialized ==
  {[i \in Slot |-> IF of[i] = None THEN None ELSE FreshRock(of[i], pool[of[i]])] :
     of \in {f \in [Slot -> Belt \cup {None}] :
              \A b \in Belt : Cardinality({i \in Slot : f[i] = b}) = BeltRockTarget(pool[b])}}

Init ==
  /\ pool \in [Belt -> 1 .. Baseline]
  /\ rock \in Materialized
  /\ hold = [p \in Player |-> 0]
  /\ order = [p \in Player |-> None]
  /\ aim = [p \in Player |-> None]
  /\ cans = [c \in Can |-> 0]
  /\ stock \in 0 .. MaxStock

\* StepSceneRegen for one belt: the pool drifts up and the rocks are topped up.
Regen(b) ==
  /\ pool' = [pool EXCEPT ![b] = Least({Baseline, @ + 2})]
  /\ rock' \in Maintained(rock, b, pool'[b])
  /\ UNCHANGED <<hold, order, aim, cans, stock>>

\* A rock tumbles straight on (StepMotion): out of its belt's radius for good,
\* and into another's or none.
Drift(i) ==
  /\ rock[i] # None
  /\ \E b \in (Belt \cup {None}) \ {rock[i].belt, rock[i].near} :
       rock' = [rock EXCEPT ![i].near = b]
  /\ Cardinality(Adrift(rock')) <= MaxAway
  /\ UNCHANGED <<hold, order, aim, pool, cans, stock>>

-----------------------------------------------------------------------------
(* Mining                                                                  *)

\* UnitOrder(Mine): a ship with room, at a belt or at a rock that is there.
OrderMine(p, o) ==
  /\ hold[p] < Capacity
  /\ o \in [slot : Slot] => rock[o.slot] # None
  /\ order' = [order EXCEPT ![p] = o]
  /\ UNCHANGED <<hold, aim, pool, rock, cans, stock>>

\* MineBelt: the belt ordered, or that of whatever rock is in the ordered slot.
MineBelt(p) ==
  IF order[p] \in [belt : Belt] THEN order[p].belt
  ELSE IF rock[order[p].slot] # None THEN rock[order[p].slot].belt ELSE None

\* The rock a miner works on next, with the rocks as they are then: the one it
\* aims at while it lives, else the nearest of the belt, topped up if it has none.
Targets(p) ==
  LET b == MineBelt(p)
      nearest(rk) == {<<i, rk>> : i \in RocksOf(rk, b)}
  IN IF aim[p] # None /\ rock[aim[p]] # None THEN {<<aim[p], rock>>}
     ELSE IF b = None THEN {}
     ELSE IF RocksOf(rock, b) # {} THEN nearest(rock)
     ELSE IF pool[b] > 0 THEN UNION {nearest(rk) : rk \in Maintained(rock, b, pool[b])}
     ELSE {}

\* What one cycle cuts: no more than the rock, the pool and the hold allow.
\* Mutants: the pool is not asked; the hold is not asked.
PoolLeft(p) == IF MineBelt(p) = None THEN MiningYield ELSE pool[MineBelt(p)]
YieldWithoutPool(p, units) == Least({MiningYield, units, Capacity - hold[p]})
YieldWithoutRoom(p, units) == Least({MiningYield, units, PoolLeft(p)})
Yield(p, units) == Least({MiningYield, units, PoolLeft(p), Capacity - hold[p]})

\* A rock once its ore has been cut to `left`; cut to nothing, it is destroyed.
RockAfter(r, left) == IF left = 0 THEN None ELSE [r EXCEPT !.units = left]

\* holdStation: the miner forgets its rock.
Park(p) ==
  /\ order[p] # None
  /\ hold[p] >= Capacity \/ Targets(p) = {}
  /\ aim' = [aim EXCEPT ![p] = None]
  /\ UNCHANGED <<hold, order, pool, rock, cans, stock>>

\* The miner turns to its rock, or its beam has not finished a cycle.
Approach(p) ==
  /\ order[p] # None /\ hold[p] < Capacity
  /\ \E t \in Targets(p) :
       /\ aim' = [aim EXCEPT ![p] = t[1]]
       /\ rock' = t[2]
  /\ UNCHANGED <<hold, order, pool, cans, stock>>

\* A cycle ends: rock and pool pay what the hold gets; an empty rock goes and the
\* belt of the order is topped up.
Cut(p) ==
  /\ order[p] # None /\ hold[p] < Capacity
  /\ \E t \in Targets(p) :
       LET i == t[1]
           b == MineBelt(p)
           y == Yield(p, t[2][i].units)
           left == t[2][i].units - y
           rk == [t[2] EXCEPT ![i] = RockAfter(@, left)]
       IN IF y <= 0
          THEN /\ aim' = [aim EXCEPT ![p] = None]
               /\ rock' = t[2]
               /\ UNCHANGED <<hold, pool>>
          ELSE /\ hold' = [hold EXCEPT ![p] = @ + y]
               /\ pool' = IF b = None THEN pool ELSE [pool EXCEPT ![b] = @ - y]
               /\ aim' = [aim EXCEPT ![p] = IF left = 0 \/ hold'[p] >= Capacity THEN None ELSE i]
               /\ rock' \in IF left = 0 /\ b # None THEN Maintained(rk, b, pool'[b]) ELSE {rk}
  /\ UNCHANGED <<order, cans, stock>>

-----------------------------------------------------------------------------
(* Trade, death and salvage                                                *)

BuyCommodity(p, q) ==
  /\ q <= stock /\ hold[p] + q <= Capacity
  /\ hold' = [hold EXCEPT ![p] = @ + q]
  /\ stock' = stock - q
  /\ UNCHANGED <<order, aim, pool, rock, cans>>

SellCommodity(p, q) ==
  /\ q <= hold[p] /\ stock + q <= MaxStock
  /\ hold' = [hold EXCEPT ![p] = @ - q]
  /\ stock' = stock + q
  /\ UNCHANGED <<order, aim, pool, rock, cans>>

\* A dead commander's hold spills as one canister and the respawn empties it;
\* the order goes, the rock it was cutting is not forgotten.
Killed(p) ==
  /\ IF hold[p] = 0 THEN cans' = cans
     ELSE \E c \in Can : cans[c] = 0 /\ cans' = [cans EXCEPT ![c] = hold[p]]
  /\ hold' = [hold EXCEPT ![p] = 0]
  /\ order' = [order EXCEPT ![p] = None]
  /\ UNCHANGED <<aim, pool, rock, stock>>

\* The pod's cargo goes down with the ship; the order stays.
UseEscapePod(p) ==
  /\ hold' = [hold EXCEPT ![p] = 0]
  /\ UNCHANGED <<order, aim, pool, rock, cans, stock>>

\* A wreck sheds a canister.
DropLoot(c) ==
  /\ cans[c] = 0
  /\ cans' = [cans EXCEPT ![c] = 1]
  /\ UNCHANGED <<hold, order, aim, pool, rock, stock>>

Expire(c) ==
  /\ cans[c] > 0
  /\ cans' = [cans EXCEPT ![c] = 0]
  /\ UNCHANGED <<hold, order, aim, pool, rock, stock>>

Room(p, c) == hold[p] + cans[c] <= Capacity

\* ScoopSystem: the players T touch the canister in one tick; the first claims
\* it, scooping it if it has a scoop and room, and it is gone either way.
\* Mutant: the claim is not noted, and everyone who touches it scoops it.
ScoopUnclaimed(c, T) ==
  /\ cans[c] > 0
  /\ hold' = [p \in Player |-> IF p \in T /\ Room(p, c) THEN hold[p] + cans[c] ELSE hold[p]]
  /\ cans' = [cans EXCEPT ![c] = 0]
  /\ UNCHANGED <<order, aim, pool, rock, stock>>
Scoop(c, T) ==
  /\ cans[c] > 0
  /\ \E p \in T : \/ Room(p, c) /\ hold' = [hold EXCEPT ![p] = @ + cans[c]]
                 \/ hold' = hold
  /\ cans' = [cans EXCEPT ![c] = 0]
  /\ UNCHANGED <<order, aim, pool, rock, stock>>

Mine(p) == Park(p) \/ Approach(p) \/ Cut(p)
Salvage == \E c \in Can : DropLoot(c) \/ Expire(c) \/ \E T \in (SUBSET Player) \ {{}} : Scoop(c, T)
Next ==
  \/ \E b \in Belt : Regen(b)
  \/ \E i \in Slot : Drift(i)
  \/ \E p \in Player :
       \/ \E o \in Orders : OrderMine(p, o)
       \/ Mine(p) \/ Killed(p) \/ UseEscapePod(p)
       \/ \E q \in 1 .. Capacity : BuyCommodity(p, q) \/ SellCommodity(p, q)
  \/ Salvage
Spec == Init /\ [][Next]_vars

-----------------------------------------------------------------------------
(* Properties                                                              *)

\* Types; every rock that is there has ore in it.
TypeOK ==
  /\ order \in [Player -> Orders \cup {None}]
  /\ aim \in [Player -> Slot \cup {None}]
  /\ rock \in [Slot -> Rock \cup {None}]
  /\ stock \in Nat

\* No belt's pool is overdrawn or grows past its baseline, though the rocks of a
\* belt may promise more ore than its pool holds and a miner may cut the rock of
\* one belt on the account of another.
PoolInRange == \A b \in Belt : pool[b] \in 0 .. Baseline

\* No hold is overfilled, whether the goods were bought, mined or scooped.
HoldWithinCapacity == \A p \in Player : hold[p] \in 0 .. Capacity

\* Goods in holds, canisters and the market come from nowhere but a belt or a
\* wreck: a trade, a death and a tick in which several ships touch one canister
\* add none.
Goods == MapThenSumSet(LAMBDA p : hold[p], Player) + MapThenSumSet(LAMBDA c : cans[c], Can) + stock
NothingConjured ==
  [][Goods' > Goods => (\E p \in Player : Cut(p)) \/ (\E c \in Can : DropLoot(c))]_vars

\* What MiningSystem.h calls the conservation invariant: rock and pool both drain
\* one to one, so what a cycle cuts from a belt's rock, its own pool pays.
PoolPays ==
  [][\A p \in Player, i \in Slot :
       Cut(p) /\ aim[p] = i /\ hold'[p] > hold[p]
         => pool[rock[i].belt] - pool'[rock[i].belt] = hold'[p] - hold[p]]_vars

\* What SceneTypes.h calls the live-rock cap per belt.
RockCap == \A b \in Belt : Cardinality(RocksOf(rock, b)) <= MaxRocks
=============================================================================
