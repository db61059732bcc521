---------------------------- MODULE EconomyProofs ----------------------------
(***************************************************************************)
(* Economy proved for any ships, belts, rocks and limits: whichever rock a *)
(* miner cuts for whichever order, no pool is overdrawn or overfilled, no  *)
(* hold is overfilled and no rock is left without ore.                     *)
(***************************************************************************)
EXTENDS Economy, FiniteSetTheorems, TLAPS

RockField == [Slot -> Rock \cup {None}]

\* A cut is bounded by integers only if the rock it cuts, the pool it charges
\* and the hold it fills are in range: the three are proved together.
Inv ==
  /\ TypeOK
  /\ pool \in [Belt -> 0 .. Baseline]
  /\ hold \in [Player -> 0 .. Capacity]
  /\ cans \in [Can -> Nat]

\* The least of up to four integers is one of them, and below the others.
LEMMA LeastOfFour ==
  ASSUME NEW a \in Int, NEW b \in Int, NEW c \in Int, NEW d \in Int
  PROVE  /\ Least({a, b, c, d}) \in {a, b, c, d}
         /\ Least({a, b, c, d}) <= a /\ Least({a, b, c, d}) <= b
         /\ Least({a, b, c, d}) <= c /\ Least({a, b, c, d}) <= d
<1>1. \E x \in {a, b, c, d} : \A y \in {a, b, c, d} : x =< y
  OBVIOUS
<1> QED BY <1>1 DEF Least, Min

LEMMA LeastOfTwo ==
  ASSUME NEW a \in Int, NEW b \in Int
  PROVE  Least({a, b}) \in {a, b} /\ Least({a, b}) <= a /\ Least({a, b}) <= b
<1>1. \E x \in {a, b} : \A y \in {a, b} : x =< y
  OBVIOUS
<1> QED BY <1>1 DEF Least, Min

LEMMA MostOfTwo ==
  ASSUME NEW a \in Int, NEW b \in Int
  PROVE  Max({a, b}) \in {a, b} /\ Max({a, b}) >= a /\ Max({a, b}) >= b
<1>1. \E x \in {a, b} : \A y \in {a, b} : x >= y
  OBVIOUS
<1> QED BY <1>1 DEF Max

\* How many rocks a belt should have is a number.
LEMMA TargetIsNat ==
  ASSUME NEW units \in 0 .. Baseline
  PROVE  BeltRockTarget(units) \in Nat
<1>1. CASE units <= 0
  BY <1>1 DEF BeltRockTarget
<1>2. CASE ~(units <= 0)
  <2> DEFINE scaled == (MaxRocks * units) \div Baseline
  <2>1. MaxRocks \in Nat /\ Baseline \in Nat /\ Baseline > 0 /\ units \in Nat
    BY EconomyAssumption
  <2>2. scaled \in Int
    <3>1. MaxRocks * units \in Int
      BY <2>1
    <3> QED BY <2>1, <3>1
  <2>3. Least({MaxRocks, scaled}) \in Int
    BY <2>1, <2>2, LeastOfTwo
  <2> HIDE DEF scaled
  <2>4. Max({1, Least({MaxRocks, scaled})}) \in Nat
    <3>1. /\ Max({1, Least({MaxRocks, scaled})}) \in {1, Least({MaxRocks, scaled})}
          /\ Max({1, Least({MaxRocks, scaled})}) >= 1
      BY <2>3, MostOfTwo
    <3> QED BY <2>3, <3>1
  <2> QED BY <1>2, <2>4 DEF BeltRockTarget, scaled
<1> QED BY <1>1, <1>2

\* A fresh rock has ore in it, and no more than a rock may have.
LEMMA FreshRockIsRock ==
  ASSUME NEW b \in Belt, NEW units \in 0 .. Baseline
  PROVE  FreshRock(b, units) \in Rock
<1> DEFINE target == BeltRockTarget(units)
           share == IF target > 0 THEN units \div target ELSE units
<1>1. target \in Nat
  BY TargetIsNat
<1>2. units \in Nat /\ RockUnits \in Nat /\ RockUnits >= 1
  BY EconomyAssumption
<1>3. share \in Int
  BY <1>1, <1>2
<1> HIDE DEF target, share
<1>4. Least({RockUnits, share}) \in Int /\ Least({RockUnits, share}) <= RockUnits
  BY <1>2, <1>3, LeastOfTwo
<1>5. Max({1, Least({RockUnits, share})}) \in 1 .. RockUnits
  BY <1>2, <1>4, MostOfTwo
<1> QED BY <1>5 DEF FreshRock, Rock, target, share

\* Topping up a belt leaves a field of rocks.
LEMMA MaintainedIsField ==
  ASSUME NEW rk \in RockField, NEW b \in Belt, NEW units \in 0 .. Baseline,
         NEW field \in Maintained(rk, b, units)
  PROVE  field \in RockField
BY FreshRockIsRock DEF Maintained, RockField

\* What a miner works on is a rock that is there, in a field of rocks.
LEMMA TargetIsRock ==
  ASSUME Inv, NEW p \in Player, order[p] # None, NEW t \in Targets(p)
  PROVE  t[1] \in Slot /\ t[2] \in RockField /\ t[2][t[1]] \in Rock
         /\ MineBelt(p) \in Belt \cup {None}
<1> DEFINE b == MineBelt(p)
<1>1. rock \in RockField /\ aim[p] \in Slot \cup {None} /\ pool \in [Belt -> 0 .. Baseline]
  BY DEF Inv, TypeOK, RockField
<1>2. b \in Belt \cup {None}
  BY <1>1 DEF Inv, TypeOK, RockField, Rock, Orders, MineBelt
<1> HIDE DEF b
<1>3. \/ aim[p] # None /\ rock[aim[p]] # None /\ t = <<aim[p], rock>>
      \/ b # None /\ \E i \in RocksOf(rock, b) : t = <<i, rock>>
      \/ b # None /\ \E rk \in Maintained(rock, b, pool[b]) : \E i \in RocksOf(rk, b) : t = <<i, rk>>
  BY DEF Targets, b
<1>4. CASE aim[p] # None /\ rock[aim[p]] # None /\ t = <<aim[p], rock>>
  BY <1>1, <1>2, <1>4 DEF RockField, b
<1>5. CASE b # None /\ \E i \in RocksOf(rock, b) : t = <<i, rock>>
  BY <1>1, <1>2, <1>5 DEF RockField, RocksOf, b
<1>6. CASE b # None /\ \E rk \in Maintained(rock, b, pool[b]) : \E i \in RocksOf(rk, b) : t = <<i, rk>>
  <2>1. PICK rk \in Maintained(rock, b, pool[b]) : \E i \in RocksOf(rk, b) : t = <<i, rk>>
    BY <1>6
  <2>2. rk \in RockField
    BY <1>1, <1>2, <1>6, MaintainedIsField
  <2> QED BY <1>2, <2>1, <2>2 DEF RockField, RocksOf, b
<1> QED BY <1>3, <1>4, <1>5, <1>6

\* What a cycle cuts is at most what rock, pool and hold allow.
LEMMA YieldBounds ==
  ASSUME Inv, NEW p \in Player, MineBelt(p) \in Belt \cup {None}, NEW units \in 1 .. RockUnits
  PROVE  /\ Yield(p, units) \in Int
         /\ Yield(p, units) <= units
         /\ Yield(p, units) <= Capacity - hold[p]
         /\ MineBelt(p) # None => Yield(p, units) <= pool[MineBelt(p)]
<1>1. MiningYield \in Int /\ Capacity \in Int /\ hold[p] \in Int /\ units \in Int
  BY EconomyAssumption DEF Inv
<1>2. PoolLeft(p) \in Int
  BY EconomyAssumption DEF PoolLeft, Inv
<1>3. Capacity - hold[p] \in Int
  BY <1>1
<1>4. /\ Yield(p, units) \in {MiningYield, units, PoolLeft(p), Capacity - hold[p]}
      /\ Yield(p, units) <= units /\ Yield(p, units) <= PoolLeft(p)
      /\ Yield(p, units) <= Capacity - hold[p]
  BY <1>1, <1>2, <1>3, LeastOfFour DEF Yield
<1> QED BY <1>1, <1>2, <1>3, <1>4 DEF PoolLeft

\* Belts start within their baseline, with rocks that have ore.
LEMMA InitInv == Init => Inv
<1> SUFFICES ASSUME Init PROVE Inv
  OBVIOUS
<1>1. pool \in [Belt -> 0 .. Baseline] /\ hold \in [Player -> 0 .. Capacity] /\ cans \in [Can -> Nat]
  BY EconomyAssumption DEF Init
<1>2. rock \in RockField
  BY <1>1, FreshRockIsRock DEF Init, Materialized, RockField
<1>3. order \in [Player -> Orders \cup {None}] /\ aim \in [Player -> Slot \cup {None}]
  BY DEF Init
<1>4. stock \in Nat
  BY EconomyAssumption DEF Init
<1> QED BY <1>1, <1>2, <1>3, <1>4 DEF Inv, TypeOK, RockField

\* Regeneration stops at the baseline.
LEMMA BeltInv ==
  ASSUME Inv, (\E b \in Belt : Regen(b)) \/ (\E i \in Slot : Drift(i))
  PROVE  Inv'
<1>1. ASSUME NEW b \in Belt, Regen(b) PROVE Inv'
  <2> DEFINE more == pool[b] + 2
  <2>1. Least({Baseline, more}) \in 0 .. Baseline
    <3>1. Baseline \in Int /\ more \in Nat /\ more \in Int
      BY EconomyAssumption DEF Inv
    <3> HIDE DEF more
    <3>2. Least({Baseline, more}) \in {Baseline, more} /\ Least({Baseline, more}) <= Baseline
      BY <3>1, LeastOfTwo
    <3> QED BY <3>1, <3>2, EconomyAssumption
  <2>2. pool' \in [Belt -> 0 .. Baseline] /\ pool'[b] \in 0 .. Baseline
    BY <1>1, <2>1 DEF Regen, Inv
  <2>3. rock' \in RockField
    BY <1>1, <2>2, MaintainedIsField DEF Regen, Inv, TypeOK, RockField
  <2> QED BY <1>1, <2>2, <2>3 DEF Regen, Inv, TypeOK, RockField
<1>2. ASSUME NEW i \in Slot, Drift(i) PROVE Inv'
  <2>1. \A b \in Belt \cup {None} : [rock[i] EXCEPT !.near = b] \in Rock
    BY <1>2 DEF Drift, Inv, TypeOK, Rock
  <2>2. rock' \in RockField
    BY <1>2, <2>1 DEF Drift, Inv, TypeOK, RockField
  <2> QED BY <1>2, <2>2 DEF Drift, Inv, TypeOK, RockField
<1> QED BY <1>1, <1>2

\* A miner that parks or turns to a rock changes no amount.
LEMMA ApproachInv ==
  ASSUME Inv, NEW p \in Player, Park(p) \/ Approach(p)
  PROVE  Inv'
<1>1. CASE Park(p)
  BY <1>1 DEF Park, Inv, TypeOK
<1>2. CASE Approach(p)
  <2>1. PICK t \in Targets(p) : aim' = [aim EXCEPT ![p] = t[1]] /\ rock' = t[2]
    BY <1>2 DEF Approach
  <2>2. t[1] \in Slot /\ t[2] \in RockField
    BY <1>2, TargetIsRock DEF Approach
  <2> QED BY <1>2, <2>1, <2>2 DEF Approach, Inv, TypeOK, RockField
<1> QED BY <1>1, <1>2

\* A cut leaves pool, hold and rock in range, whichever belt the rock is of.
LEMMA CutInv ==
  ASSUME Inv, NEW p \in Player, Cut(p)
  PROVE  Inv'
<1> DEFINE b == MineBelt(p)
           y(t) == Yield(p, t[2][t[1]].units)
           left(t) == t[2][t[1]].units - y(t)
           rk(t) == [t[2] EXCEPT ![t[1]] = RockAfter(@, left(t))]
<1>1. PICK t \in Targets(p) :
        IF y(t) <= 0
        THEN /\ aim' = [aim EXCEPT ![p] = None]
             /\ rock' = t[2]
             /\ UNCHANGED <<hold, pool>>
        ELSE /\ hold' = [hold EXCEPT ![p] = @ + y(t)]
             /\ pool' = IF b = None THEN pool ELSE [pool EXCEPT ![b] = @ - y(t)]
             /\ aim' = [aim EXCEPT ![p] = IF left(t) = 0 \/ hold'[p] >= Capacity THEN None ELSE t[1]]
             /\ rock' \in IF left(t) = 0 /\ b # None THEN Maintained(rk(t), b, pool'[b]) ELSE {rk(t)}
  BY DEF Cut
<1>2. t[1] \in Slot /\ t[2] \in RockField /\ t[2][t[1]] \in Rock /\ b \in Belt \cup {None}
  BY TargetIsRock DEF Cut
<1>3. t[2][t[1]].units \in 1 .. RockUnits
  BY <1>2 DEF Rock
<1>4. /\ y(t) \in Int /\ y(t) <= t[2][t[1]].units /\ y(t) <= Capacity - hold[p]
      /\ b # None => y(t) <= pool[b]
  BY <1>2, <1>3, YieldBounds
<1>5. UNCHANGED <<order, cans, stock>>
  BY DEF Cut
<1> HIDE DEF y, b
<1>6. CASE y(t) <= 0
  BY <1>1, <1>2, <1>5, <1>6 DEF Inv, TypeOK, RockField
<1>7. CASE ~(y(t) <= 0)
  <2>1. hold' \in [Player -> 0 .. Capacity]
    <3>1. hold[p] + y(t) \in 0 .. Capacity
      BY <1>4, <1>7, EconomyAssumption DEF Inv
    <3> QED BY <1>1, <1>7, <3>1 DEF Inv
  <2>2. pool' \in [Belt -> 0 .. Baseline]
    <3>1. CASE b = None
      BY <1>1, <1>7, <3>1 DEF Inv
    <3>2. CASE b # None
      <4>1. pool[b] - y(t) \in 0 .. Baseline
        BY <1>2, <1>4, <1>7, <3>2, EconomyAssumption DEF Inv
      <4> QED BY <1>1, <1>7, <3>2, <4>1 DEF Inv
    <3> QED BY <3>1, <3>2
  <2>3. rk(t) \in RockField
    <3>1. left(t) \in 0 .. RockUnits
      BY <1>3, <1>4, <1>7, EconomyAssumption
    <3>2. RockAfter(t[2][t[1]], left(t)) \in Rock \cup {None}
      BY <1>2, <3>1 DEF RockAfter, Rock
    <3> QED BY <1>2, <3>2 DEF RockField
  <2> HIDE DEF rk, left
  <2>4. rock' \in RockField
    <3>1. CASE left(t) = 0 /\ b # None
      <4>1. b \in Belt /\ pool'[b] \in 0 .. Baseline
        BY <1>2, <2>2, <3>1
      <4>2. rock' \in Maintained(rk(t), b, pool'[b])
        BY <1>1, <1>7, <3>1
      <4> QED BY <2>3, <4>1, <4>2, MaintainedIsField
    <3>2. CASE ~(left(t) = 0 /\ b # None)
      BY <1>1, <1>7, <2>3, <3>2
    <3> QED BY <3>1, <3>2
  <2>5. aim' \in [Player -> Slot \cup {None}]
    BY <1>1, <1>2, <1>7 DEF Inv, TypeOK
  <2> QED BY <1>5, <2>1, <2>2, <2>4, <2>5 DEF Inv, TypeOK, RockField
<1> QED BY <1>6, <1>7

\* Orders, trade, death and the pod.
LEMMA ShipInv ==
  ASSUME Inv, NEW p \in Player,
         \/ \E o \in Orders : OrderMine(p, o)
         \/ Killed(p) \/ UseEscapePod(p)
         \/ \E q \in 1 .. Capacity : BuyCommodity(p, q) \/ SellCommodity(p, q)
  PROVE  Inv'
<1> USE EconomyAssumption
<1>1. ASSUME NEW o \in Orders, OrderMine(p, o) PROVE Inv'
  BY <1>1 DEF OrderMine, Inv, TypeOK
<1>2. CASE Killed(p)
  <2>1. hold' \in [Player -> 0 .. Capacity] /\ order' \in [Player -> Orders \cup {None}]
    BY <1>2 DEF Killed, Inv, TypeOK
  <2>2. cans' \in [Can -> Nat]
    BY <1>2 DEF Killed, Inv
  <2> QED BY <1>2, <2>1, <2>2 DEF Killed, Inv, TypeOK
<1>3. CASE UseEscapePod(p)
  BY <1>3 DEF UseEscapePod, Inv, TypeOK
<1>4. ASSUME NEW q \in 1 .. Capacity, BuyCommodity(p, q) PROVE Inv'
  <2>1. hold' \in [Player -> 0 .. Capacity] /\ stock' \in Nat
    BY <1>4 DEF BuyCommodity, Inv, TypeOK
  <2> QED BY <1>4, <2>1 DEF BuyCommodity, Inv, TypeOK
<1>5. ASSUME NEW q \in 1 .. Capacity, SellCommodity(p, q) PROVE Inv'
  <2>1. hold' \in [Player -> 0 .. Capacity] /\ stock' \in Nat
    BY <1>5 DEF SellCommodity, Inv, TypeOK
  <2> QED BY <1>5, <2>1 DEF SellCommodity, Inv, TypeOK
<1> QED BY <1>1, <1>2, <1>3, <1>4, <1>5

\* Canisters appear, expire and are scooped by one ship that has room.
LEMMA SalvageInv ==
  ASSUME Inv, Salvage
  PROVE  Inv'
<1>1. PICK c \in Can : DropLoot(c) \/ Expire(c) \/ \E T \in (SUBSET Player) \ {{}} : Scoop(c, T)
  BY DEF Salvage
<1>2. CASE DropLoot(c)
  BY <1>2 DEF DropLoot, Inv, TypeOK
<1>3. CASE Expire(c)
  BY <1>3 DEF Expire, Inv, TypeOK
<1>4. ASSUME NEW T \in (SUBSET Player) \ {{}}, Scoop(c, T) PROVE Inv'
  <2>1. cans' \in [Can -> Nat]
    BY <1>4 DEF Scoop, Inv
  <2>2. hold' \in [Player -> 0 .. Capacity]
    BY <1>4, EconomyAssumption DEF Scoop, Room, Inv
  <2> QED BY <1>4, <2>1, <2>2 DEF Scoop, Inv, TypeOK
<1> QED BY <1>1, <1>2, <1>3, <1>4

LEMMA NextInv == Inv /\ [Next]_vars => Inv'
<1> SUFFICES ASSUME Inv, [Next]_vars PROVE Inv'
  OBVIOUS
<1>1. CASE (\E b \in Belt : Regen(b)) \/ (\E i \in Slot : Drift(i))
  BY <1>1, BeltInv
<1>2. ASSUME NEW p \in Player, Mine(p) PROVE Inv'
  BY <1>2, ApproachInv, CutInv DEF Mine
<1>3. ASSUME NEW p \in Player,
             \/ \E o \in Orders : OrderMine(p, o)
             \/ Killed(p) \/ UseEscapePod(p)
             \/ \E q \in 1 .. Capacity : BuyCommodity(p, q) \/ SellCommodity(p, q)
      PROVE  Inv'
  BY <1>3, ShipInv
<1>4. CASE Salvage
  BY <1>4, SalvageInv
<1>5. CASE UNCHANGED vars
  BY <1>5 DEF vars, Inv, TypeOK
<1> QED BY <1>1, <1>2, <1>3, <1>4, <1>5 DEF Next

\* Pools, holds, rocks and canisters stay in range in every behaviour.
THEOREM Invariance == Spec => []Inv
BY InitInv, NextInv, PTL DEF Spec

\* Every rock that is there has ore in it, whatever is cut, topped up or adrift.
THEOREM EconomyTyped == Spec => []TypeOK
<1>1. Inv => TypeOK
  BY DEF Inv
<1> QED BY <1>1, Invariance, PTL

\* No pool is overdrawn or regenerates past its baseline, though a miner may cut
\* the rock of one belt on the account of another.
THEOREM PoolsInRange == Spec => []PoolInRange
<1>1. Inv => PoolInRange
  BY DEF Inv, PoolInRange
<1> QED BY <1>1, Invariance, PTL

\* No hold is overfilled, whether its goods were bought, mined or scooped.
THEOREM HoldsWithinCapacity == Spec => []HoldWithinCapacity
<1>1. Inv => HoldWithinCapacity
  BY DEF Inv, HoldWithinCapacity
<1> QED BY <1>1, Invariance, PTL

-----------------------------------------------------------------------------
(* Sums over the players and the canisters.                                  *)

(* Every nonempty set of numbers has a least one.                            *)
LEMMA SmallestExists ==
  ASSUME NEW S \in SUBSET Nat, S # {}
  PROVE  \E n \in S : \A m \in S : n <= m
<1> DEFINE R == OpToRel(<, Nat)
<1>1. IsWellFoundedOn(R, Nat)
  BY NatLessThanWellFounded
<1> HIDE DEF R
<1>2. PICK n \in S : \A m \in S : ~(<<m, n>> \in R)
  BY <1>1, WFMin
<1>3. \A m \in S : ~(m < n)
  BY <1>2 DEF R, OpToRel
<1> QED BY <1>3

\* Induction, for a set: one that holds 0 and, with each number, the next.
LEMMA Everyone ==
  ASSUME NEW S, 0 \in S, \A k \in Nat : k \in S => k + 1 \in S
  PROVE  Nat \subseteq S
<1> DEFINE T == {k \in Nat : k \notin S}
<1>1. SUFFICES ASSUME T # {} PROVE FALSE
  OBVIOUS
<1>2. T \in SUBSET Nat
  OBVIOUS
<1>3. PICK k \in T : \A m \in T : k <= m
  <2> HIDE DEF T
  <2> QED BY <1>1, <1>2, SmallestExists
<1>4. k # 0 /\ k - 1 \in Nat /\ k - 1 \notin T
  BY <1>3
<1>5. k - 1 \in S /\ (k - 1) + 1 = k
  BY <1>4
<1> QED BY <1>3, <1>4, <1>5

\* The sum of f's values over S, and what its fold looks up: the sum over every
\* set of D, one of its elements added last.
SumOf(f, S) == MapThenSumSet(LAMBDA x : f[x], S)
First(s) == CHOOSE x \in s : TRUE
Sums(F, f, D) == F = [s \in D |-> IF s = {} THEN 0 ELSE f[First(s)] + F[s \ {First(s)}]]
Sized(S, k) == {s \in SUBSET S : Cardinality(s) <= k}

LEMMA Shrinks ==
  ASSUME NEW S, IsFiniteSet(S), NEW s \in SUBSET S
  PROVE  /\ Cardinality(s) \in Nat /\ (Cardinality(s) = 0 <=> s = {})
         /\ s # {} => /\ First(s) \in s /\ s \ {First(s)} \in SUBSET S
                      /\ Cardinality(s \ {First(s)}) = Cardinality(s) - 1
<1>1. IsFiniteSet(s)
  BY FS_Subset
<1>2. s # {} => First(s) \in s
  BY DEF First
<1>3. s # {} => Cardinality(s \ {First(s)}) = Cardinality(s) - 1
  BY <1>1, <1>2, FS_RemoveElement
<1> QED BY <1>1, <1>2, <1>3, FS_CardinalityType, FS_EmptySet

LEMMA SumsExist ==
  ASSUME NEW S, IsFiniteSet(S), NEW f
  PROVE  \E F : Sums(F, f, SUBSET S)
<1> DEFINE K == {k \in Nat : \E F : Sums(F, f, Sized(S, k))}
<1>1. 0 \in K
  <2> DEFINE F == [s \in Sized(S, 0) |-> 0]
  <2>1. ASSUME NEW s \in Sized(S, 0) PROVE s = {}
    <3>1. s \in SUBSET S /\ Cardinality(s) <= 0
      BY DEF Sized
    <3>2. Cardinality(s) \in Nat /\ (Cardinality(s) = 0 <=> s = {})
      BY <3>1, Shrinks
    <3> QED BY <3>1, <3>2
  <2>2. Sums(F, f, Sized(S, 0))
    BY <2>1 DEF Sums
  <2> QED BY <2>2
<1>2. ASSUME NEW k \in Nat, k \in K PROVE k + 1 \in K
  <2>1. PICK F : Sums(F, f, Sized(S, k))
    BY <1>2
  <2> DEFINE G == [s \in Sized(S, k + 1) |-> IF s = {} THEN 0 ELSE f[First(s)] + F[s \ {First(s)}]]
  <2>2. \A s \in Sized(S, k) : s \in Sized(S, k + 1) /\ G[s] = F[s]
    <3> SUFFICES ASSUME NEW s \in Sized(S, k) PROVE s \in Sized(S, k + 1) /\ G[s] = F[s]
      OBVIOUS
    <3>1. s \in Sized(S, k + 1)
      <4>1. s \in SUBSET S /\ Cardinality(s) <= k
        BY DEF Sized
      <4>2. Cardinality(s) \in Nat
        BY <4>1, Shrinks
      <4> QED BY <4>1, <4>2 DEF Sized
    <3>2. F[s] = IF s = {} THEN 0 ELSE f[First(s)] + F[s \ {First(s)}]
      BY <2>1 DEF Sums
    <3> QED BY <3>1, <3>2
  <2>3. ASSUME NEW s \in Sized(S, k + 1), s # {} PROVE s \ {First(s)} \in Sized(S, k)
    BY <2>3, Shrinks DEF Sized
  <2>4. \A s \in Sized(S, k + 1) :
          G[s] = IF s = {} THEN 0 ELSE f[First(s)] + G[s \ {First(s)}]
    BY <2>2, <2>3
  <2>5. G = [s \in Sized(S, k + 1) |-> G[s]]
    OBVIOUS
  <2> HIDE DEF G
  <2>6. Sums(G, f, Sized(S, k + 1))
    BY <2>4, <2>5 DEF Sums
  <2> QED BY <2>6
<1>3. Cardinality(S) \in K
  <2> HIDE DEF K
  <2>1. Cardinality(S) \in Nat
    BY FS_CardinalityType
  <2> QED BY <1>1, <1>2, <2>1, Everyone
<1>4. Sized(S, Cardinality(S)) = SUBSET S
  BY FS_Subset DEF Sized
<1> QED BY <1>3, <1>4

LEMMA SumOfIs ==
  ASSUME NEW S, IsFiniteSet(S), NEW f
  PROVE  \E F : Sums(F, f, SUBSET S) /\ SumOf(f, S) = F[S]
<1> DEFINE F == CHOOSE F : F = [s \in SUBSET S |->
                  IF s = {} THEN 0 ELSE f[CHOOSE x \in s : TRUE] + F[s \ {CHOOSE x \in s : TRUE}]]
<1>1. SumOf(f, S) = F[S]
  BY DEF SumOf, MapThenSumSet, MapThenFoldSet
<1>2. Sums(F, f, SUBSET S)
  <2> DEFINE P(G) == Sums(G, f, SUBSET S)
  <2>1. \E G : P(G)
    BY SumsExist
  <2>2. F = CHOOSE G : P(G)
    BY DEF Sums, First
  <2> HIDE DEF P, F
  <2>3. P(F)
    BY <2>1, <2>2, Zenon
  <2> QED BY <2>3 DEF P
<1> QED BY <1>1, <1>2

\* A sum grows by what one value grows.
LEMMA OneChanged ==
  ASSUME NEW S, IsFiniteSet(S), NEW f \in [S -> Int], NEW g \in [S -> Int],
         NEW x \in S, \A y \in S \ {x} : g[y] = f[y]
  PROVE  SumOf(f, S) \in Int /\ SumOf(g, S) = SumOf(f, S) + (g[x] - f[x])
<1>1. PICK F : Sums(F, f, SUBSET S) /\ SumOf(f, S) = F[S]
  BY SumOfIs
<1>2. PICK G : Sums(G, g, SUBSET S) /\ SumOf(g, S) = G[S]
  BY SumOfIs
<1> DEFINE Change(s) == IF x \in s THEN g[x] - f[x] ELSE 0
           Right(s) == F[s] \in Int /\ G[s] = F[s] + Change(s)
           K == {k \in Nat : \A s \in SUBSET S : Cardinality(s) = k => Right(s)}
<1>3. 0 \in K
  <2> SUFFICES ASSUME NEW s \in SUBSET S, s = {} PROVE Right(s)
    BY Shrinks
  <2> QED BY <1>1, <1>2 DEF Sums
<1>4. ASSUME NEW k \in Nat, k \in K PROVE k + 1 \in K
  <2> SUFFICES ASSUME NEW s \in SUBSET S, Cardinality(s) = k + 1 PROVE Right(s)
    OBVIOUS
  <2> DEFINE y == First(s)
             r == s \ {y}
  <2>1. s # {} /\ y \in S /\ y \in s /\ r \in SUBSET S /\ Cardinality(r) = k
    BY Shrinks
  <2>2. Right(r)
    BY <1>4, <2>1
  <2>3. F[s] = f[y] + F[r] /\ G[s] = g[y] + G[r]
    BY <1>1, <1>2, <2>1 DEF Sums
  <2>4. CASE y = x
    BY <2>1, <2>2, <2>3, <2>4
  <2>5. CASE y # x
    BY <2>1, <2>2, <2>3, <2>5
  <2> QED BY <2>4, <2>5
<1>5. Cardinality(S) \in K
  <2> HIDE DEF K
  <2>1. Cardinality(S) \in Nat
    BY FS_CardinalityType
  <2> QED BY <1>3, <1>4, <2>1, Everyone
<1> QED BY <1>1, <1>2, <1>5

-----------------------------------------------------------------------------
(* Nothing is conjured.                                                      *)

LEMMA GoodsAre ==
  /\ Goods = SumOf(hold, Player) + SumOf(cans, Can) + stock
  /\ Goods' = SumOf(hold', Player) + SumOf(cans', Can) + stock'
<1>1. Goods = SumOf(hold, Player) + SumOf(cans, Can) + stock
  BY DEF Goods, SumOf
<1>2. Goods' = SumOf(hold', Player) + SumOf(cans', Can) + stock'
  BY DEF Goods, SumOf, MapThenSumSet, MapThenFoldSet
<1> QED BY <1>1, <1>2

LEMMA Finite == IsFiniteSet(Player) /\ IsFiniteSet(Can)
<1>1. IsFiniteSet(Player) /\ MaxCans \in Int
  BY EconomyAssumption
<1>2. IsFiniteSet(1 .. MaxCans)
  BY <1>1, FS_Interval
<1> QED BY <1>1, <1>2 DEF Can

\* One hold changes, or one canister.
LEMMA HeldIs ==
  ASSUME Inv, Inv', NEW p \in Player, NEW n \in Nat, hold' = [hold EXCEPT ![p] = n]
  PROVE  SumOf(hold', Player) = SumOf(hold, Player) + (n - hold[p])
<1> DEFINE g == hold'
<1>1. hold \in [Player -> Int] /\ g \in [Player -> Int] /\ g[p] = n
  BY DEF Inv
<1>2. \A q \in Player \ {p} : g[q] = hold[q]
  BY <1>1
<1> HIDE DEF g
<1>3. SumOf(g, Player) = SumOf(hold, Player) + (g[p] - hold[p])
  BY <1>1, <1>2, Finite, OneChanged
<1> QED BY <1>1, <1>3 DEF g

LEMMA AfloatIs ==
  ASSUME Inv, Inv', NEW c \in Can, NEW n \in Nat, cans' = [cans EXCEPT ![c] = n]
  PROVE  SumOf(cans', Can) = SumOf(cans, Can) + (n - cans[c])
<1> DEFINE g == cans'
<1>1. cans \in [Can -> Int] /\ g \in [Can -> Int] /\ g[c] = n
  BY DEF Inv
<1>2. \A d \in Can \ {c} : g[d] = cans[d]
  BY <1>1
<1> HIDE DEF g
<1>3. SumOf(g, Can) = SumOf(cans, Can) + (g[c] - cans[c])
  BY <1>1, <1>2, Finite, OneChanged
<1> QED BY <1>1, <1>3 DEF g

LEMMA TotalsAreNumbers ==
  ASSUME Inv
  PROVE  SumOf(hold, Player) \in Int /\ SumOf(cans, Can) \in Int /\ stock \in Int
<1>1. ASSUME NEW S, IsFiniteSet(S), NEW f \in [S -> Int] PROVE SumOf(f, S) \in Int
  <2>1. CASE S = {}
    <3>1. PICK F : Sums(F, f, SUBSET S) /\ SumOf(f, S) = F[S]
      BY <1>1, SumOfIs
    <3> QED BY <2>1, <3>1 DEF Sums
  <2>2. CASE S # {}
    BY <1>1, <2>2, OneChanged
  <2> QED BY <2>1, <2>2
<1>2. hold \in [Player -> Int] /\ cans \in [Can -> Int] /\ stock \in Int
  BY DEF Inv, TypeOK
<1> QED BY <1>1, <1>2, Finite

\* A step that is no cut and no wreck adds nothing to hold, canister and market.
LEMMA NoneAdded ==
  ASSUME Inv, Inv', Next, ~(\E p \in Player : Cut(p)), ~(\E c \in Can : DropLoot(c))
  PROVE  ~(Goods' > Goods)
<1> DEFINE H == SumOf(hold, Player)
           A == SumOf(cans, Can)
           nextH == SumOf(hold', Player)
           nextA == SumOf(cans', Can)
<1>1. H \in Int /\ A \in Int /\ stock \in Int
  BY TotalsAreNumbers
<1>2. Goods = H + A + stock /\ Goods' = nextH + nextA + stock'
  BY GoodsAre
<1>3. hold \in [Player -> Nat] /\ cans \in [Can -> Nat]
  BY DEF Inv
<1> HIDE DEF H, A, nextH, nextA
<1>4. CASE UNCHANGED <<hold, cans, stock>>
  BY <1>1, <1>2, <1>4 DEF H, A, nextH, nextA
<1>5. ASSUME NEW p \in Player, Killed(p) PROVE ~(Goods' > Goods)
  <2> DEFINE lost == hold[p]
  <2>1. hold' = [hold EXCEPT ![p] = 0] /\ stock' = stock
    BY <1>3, <1>5 DEF Killed
  <2>2. nextH = H - lost
    <3>1. nextH = H + (0 - hold[p])
      BY <2>1, HeldIs DEF H, nextH
    <3> QED BY <1>1, <1>3, <3>1
  <2>3. nextA = A + lost
    <3>1. CASE lost = 0
      <4>1. cans' = cans
        BY <1>5, <3>1 DEF Killed
      <4> QED BY <1>1, <3>1, <4>1 DEF A, nextA
    <3>2. CASE lost # 0
      <4>1. PICK c \in Can : cans[c] = 0 /\ cans' = [cans EXCEPT ![c] = lost]
        BY <1>5, <3>2 DEF Killed
      <4>2. lost \in Nat
        BY <1>3
      <4> HIDE DEF lost
      <4>3. nextA = A + (lost - cans[c])
        BY <4>1, <4>2, AfloatIs DEF A, nextA
      <4> QED BY <1>1, <4>1, <4>2, <4>3
    <3> QED BY <3>1, <3>2
  <2> QED BY <1>1, <1>2, <1>3, <2>1, <2>2, <2>3
<1>6. ASSUME NEW p \in Player, UseEscapePod(p) PROVE ~(Goods' > Goods)
  <2>1. hold' = [hold EXCEPT ![p] = 0] /\ UNCHANGED <<cans, stock>>
    BY <1>3, <1>6 DEF UseEscapePod
  <2>2. nextH = H + (0 - hold[p]) /\ nextA = A
    BY <2>1, HeldIs DEF H, A, nextH, nextA
  <2> QED BY <1>1, <1>2, <1>3, <2>1, <2>2
<1>7. ASSUME NEW p \in Player, NEW q \in 1 .. Capacity, BuyCommodity(p, q) \/ SellCommodity(p, q)
      PROVE  ~(Goods' > Goods)
  <2>1. q \in Int /\ hold[p] \in Nat /\ hold[p] + q \in Nat
    BY <1>3, EconomyAssumption
  <2>2. CASE BuyCommodity(p, q)
    <3>1. hold' = [hold EXCEPT ![p] = hold[p] + q] /\ stock' = stock - q /\ cans' = cans
      BY <2>2 DEF BuyCommodity
    <3>2. nextH = H + q /\ nextA = A
      <4> DEFINE n == hold[p] + q
      <4>1. n \in Nat /\ hold' = [hold EXCEPT ![p] = n] /\ n - hold[p] = q
        BY <2>1, <3>1
      <4> HIDE DEF n
      <4>2. nextH = H + (n - hold[p])
        BY <4>1, HeldIs DEF H, nextH
      <4> QED BY <3>1, <4>1, <4>2 DEF A, nextA
    <3> QED BY <1>1, <1>2, <1>3, <2>1, <3>1, <3>2
  <2>3. CASE SellCommodity(p, q)
    <3>1. hold' = [hold EXCEPT ![p] = hold[p] - q] /\ stock' = stock + q /\ cans' = cans /\ hold[p] - q \in Nat
      BY <1>3, <2>1, <2>3 DEF SellCommodity
    <3>2. nextH = H + (hold[p] - q - hold[p]) /\ nextA = A
      BY <2>1, <3>1, HeldIs DEF H, A, nextH, nextA
    <3> QED BY <1>1, <1>2, <1>3, <2>1, <3>1, <3>2
  <2> QED BY <1>7, <2>2, <2>3
<1>8. ASSUME NEW c \in Can, Expire(c) PROVE ~(Goods' > Goods)
  <2>1. cans' = [cans EXCEPT ![c] = 0] /\ UNCHANGED <<hold, stock>> /\ cans[c] \in Nat
    BY <1>3, <1>8 DEF Expire
  <2>2. nextA = A + (0 - cans[c]) /\ nextH = H
    BY <2>1, AfloatIs DEF H, A, nextH, nextA
  <2> QED BY <1>1, <1>2, <2>1, <2>2
<1>9. ASSUME NEW c \in Can, NEW T \in (SUBSET Player) \ {{}}, Scoop(c, T) PROVE ~(Goods' > Goods)
  <2>1. cans' = [cans EXCEPT ![c] = 0] /\ stock' = stock /\ cans[c] \in Nat
    BY <1>3, <1>9 DEF Scoop
  <2>2. nextA = A + (0 - cans[c])
    BY <2>1, AfloatIs DEF A, nextA
  <2>3. CASE hold' = hold
    BY <1>1, <1>2, <2>1, <2>2, <2>3 DEF H, nextH
  <2>4. ASSUME NEW p \in T, hold' = [hold EXCEPT ![p] = @ + cans[c]] PROVE ~(Goods' > Goods)
    <3>1. p \in Player /\ hold[p] \in Int /\ hold[p] + cans[c] \in Nat
      BY <1>3, <2>1
    <3>2. nextH = H + cans[c]
      <4> DEFINE n == hold[p] + cans[c]
      <4>1. n \in Nat /\ hold' = [hold EXCEPT ![p] = n] /\ n - hold[p] = cans[c]
        BY <2>1, <2>4, <3>1
      <4> HIDE DEF n
      <4>2. nextH = H + (n - hold[p])
        BY <3>1, <4>1, HeldIs DEF H, nextH
      <4> QED BY <4>1, <4>2
    <3> QED BY <1>1, <1>2, <2>1, <2>2, <3>1, <3>2
  <2> QED BY <1>9, <2>3, <2>4 DEF Scoop
<1>10. CASE (\E b \in Belt : Regen(b)) \/ \E i \in Slot : Drift(i)
  BY <1>4, <1>10 DEF Regen, Drift
<1>11. ASSUME NEW p \in Player, (\E o \in Orders : OrderMine(p, o)) \/ Park(p) \/ Approach(p)
       PROVE  ~(Goods' > Goods)
  BY <1>4, <1>11 DEF OrderMine, Park, Approach
<1> QED BY <1>5, <1>6, <1>7, <1>8, <1>9, <1>10, <1>11 DEF Next, Mine, Salvage

\* No trade, death, pod or scoop makes goods: what holds, canisters and market
\* have together grows only by a beam's cut or a wreck's canister
\* (StationServices.h, GameServer.cpp OnEntityKilled, LootSystem.h ScoopSystem).
THEOREM NoGoodsConjured == Spec => NothingConjured
<1> DEFINE Cuts == \E p \in Player : Cut(p)
           Drops == \E c \in Can : DropLoot(c)
           A == Goods' > Goods => Cuts \/ Drops
<1>1. Inv /\ Inv' /\ [Next]_vars => [A]_vars
  BY NoneAdded
<1> HIDE DEF A
<1>2. Spec => [][A]_vars
  BY <1>1, Invariance, PTL DEF Spec
<1> QED BY <1>2 DEF A, NothingConjured
=============================================================================
