---------------------------- MODULE BattleProofs ----------------------------
(***************************************************************************)
(* Proofs about Battle, for any number of slots, generations, sessions and *)
(* ships: the registry's slots stay exact, and a ship without a player is  *)
(* resolved as killed at most once, however often it is reported.          *)
(***************************************************************************)
EXTENDS Battle, FiniteSetTheorems, TLAPS

Comp == HullType \cup OrderType \cup {Absent}
World ==
  [gen : [Slot -> Nat], alive : SUBSET Slot, free : Seq(Slot), size : Nat,
   pool : [Pools -> [Slot -> Comp]]]

Good(w) ==
  /\ w \in World
  /\ SlotsPartitioned(w)
  /\ \A i \in Slot : w.pool["hull"][i] \in HullType \cup {Absent}
  /\ \A i \in Slot : i \in w.alive <=> w.pool["hull"][i] # Absent

\* A hull is never mistaken for the absence of one.
LEMMA HullNotAbsent == \A h \in HullType : h # Absent
BY DEF HullType, Absent

\* Creating an entity takes a slot that was not alive and touches no component.
LEMMA CreateGood ==
  ASSUME NEW w, Good(w), CanCreate(w)
  PROVE  /\ Create(w) \in World
         /\ SlotsPartitioned(Create(w))
         /\ Create(w).gen = w.gen
         /\ Create(w).pool = w.pool
         /\ NextIndex(w) \in Slot
         /\ NextIndex(w) \notin w.alive
         /\ Create(w).alive = w.alive \cup {NextIndex(w)}
<1>1. /\ w \in World /\ SlotsPartitioned(w) /\ NextIndex(w) \in Slot
      /\ w.free \in Seq(Slot) /\ w.size \in Nat
  BY DEF Good, CanCreate, World
<1>2. CASE w.free = <<>>
  <2>1. NextIndex(w) = w.size
    BY <1>2 DEF NextIndex
  <2>2. /\ Create(w).alive = w.alive \cup {w.size}
        /\ Create(w).free = w.free
        /\ Create(w).size = w.size + 1
        /\ Create(w).gen = w.gen /\ Create(w).pool = w.pool
    BY <1>1, <1>2, <2>1 DEF Create, World
  <2>5. Create(w) \in World
    <3>1. w.alive \cup {w.size} \in SUBSET Slot /\ w.size + 1 \in Nat
      BY <1>1, <2>1 DEF World
    <3>2. Create(w) = [w EXCEPT !.alive = @ \cup {w.size}, !.free = @, !.size = @ + 1]
      BY <1>2, <2>1 DEF Create
    <3> QED BY <1>1, <3>1, <3>2 DEF World
  <2>3. w.size \notin w.alive
    BY <1>1, <1>2 DEF SlotsPartitioned
  <2>4. SlotsPartitioned(Create(w))
    BY <1>1, <1>2, <2>2 DEF SlotsPartitioned
  <2> QED BY <1>1, <2>1, <2>2, <2>5, <2>3, <2>4
<1>3. CASE w.free # <<>>
  <2> DEFINE n == Len(w.free)
             rest == SubSeq(w.free, 1, n - 1)
  <2>1. NextIndex(w) = w.free[n] /\ n \in Nat /\ n > 0
    BY <1>1, <1>3 DEF NextIndex
  <2>2. rest \in Seq(Slot) /\ Len(rest) = n - 1 /\ \A k \in 1 .. n - 1 : rest[k] = w.free[k]
    BY <1>1, <2>1
  <2>3. /\ Create(w).alive = w.alive \cup {w.free[n]}
        /\ Create(w).free = rest
        /\ Create(w).size = w.size
        /\ Create(w).gen = w.gen /\ Create(w).pool = w.pool
        /\ Create(w) \in World
    BY <1>1, <1>3, <2>1, <2>2 DEF Create, World
  <2>4. w.free[n] \notin w.alive
    BY <1>1, <2>1 DEF SlotsPartitioned
  <2>5. SlotsPartitioned(Create(w))
    <3> DEFINE freed == {w.free[k] : k \in DOMAIN w.free}
               left == {rest[k] : k \in DOMAIN rest}
    <3>1. DOMAIN w.free = 1 .. n /\ DOMAIN rest = 1 .. n - 1
      BY <1>1, <2>1, <2>2
    <3>2. \A j, k \in 1 .. n : w.free[j] = w.free[k] => j = k
      BY <1>1, <3>1 DEF SlotsPartitioned
    <3>3. freed = left \cup {w.free[n]} /\ w.free[n] \notin left
      BY <2>1, <2>2, <3>1, <3>2
    <3>4. w.alive \cup freed = 0 .. w.size - 1 /\ w.alive \cap freed = {}
      BY <1>1 DEF SlotsPartitioned
    <3>5. \A j, k \in DOMAIN rest : rest[j] = rest[k] => j = k
      BY <2>1, <2>2, <3>1, <3>2
    <3>6. Create(w).alive \cup left = 0 .. w.size - 1 /\ Create(w).alive \cap left = {}
      BY <2>3, <3>3, <3>4
    <3> HIDE DEF rest
    <3> QED BY <2>3, <3>5, <3>6 DEF SlotsPartitioned
  <2> QED BY <1>1, <2>1, <2>3, <2>4, <2>5
<1> QED BY <1>2, <1>3

\* What a system that only rewrites the hulls of ships leaves.
Rehulled(w, f) == [w EXCEPT !.pool["hull"] = f]

\* Rewriting hulls without adding or removing one keeps the registry in order.
LEMMA RehulledGood ==
  ASSUME NEW w, Good(w), NEW f \in [Slot -> HullType \cup {Absent}],
         \A i \in Slot : f[i] = Absent <=> w.pool["hull"][i] = Absent
  PROVE  /\ Good(Rehulled(w, f))
         /\ Rehulled(w, f).gen = w.gen
         /\ Rehulled(w, f).alive = w.alive
<1>1. w \in World /\ SlotsPartitioned(w) /\ "hull" \in Pools
  BY PoolsAssumption DEF Good
<1>2. f \in [Slot -> Comp]
  BY DEF Comp
<1>3. [w.pool EXCEPT !["hull"] = f] \in [Pools -> [Slot -> Comp]]
  BY <1>1, <1>2 DEF World
<1>4. /\ Rehulled(w, f) \in World
      /\ Rehulled(w, f).gen = w.gen /\ Rehulled(w, f).alive = w.alive
      /\ Rehulled(w, f).free = w.free /\ Rehulled(w, f).size = w.size
      /\ Rehulled(w, f).pool["hull"] = f
  BY <1>1, <1>3 DEF Rehulled, World
<1>5. SlotsPartitioned(Rehulled(w, f))
  BY <1>1, <1>4 DEF SlotsPartitioned
<1> QED BY <1>4, <1>5 DEF Good

\* The order pool is no part of what keeps the registry in order.
LEMMA ReorderedGood ==
  ASSUME NEW w, Good(w), NEW f \in [Slot -> Comp]
  PROVE  LET x == [w EXCEPT !.pool["order"] = f] IN
         Good(x) /\ x.gen = w.gen /\ x.alive = w.alive
<1> DEFINE x == [w EXCEPT !.pool["order"] = f]
<1>1. w \in World /\ SlotsPartitioned(w) /\ {"hull", "order"} = Pools
  BY PoolsAssumption DEF Good
<1>3. [w.pool EXCEPT !["order"] = f] \in [Pools -> [Slot -> Comp]]
  BY <1>1 DEF World
<1>4. /\ x \in World /\ x.gen = w.gen /\ x.alive = w.alive
      /\ x.free = w.free /\ x.size = w.size
      /\ x.pool["hull"] = w.pool["hull"]
  BY <1>1, <1>3 DEF World
<1>5. SlotsPartitioned(x)
  BY <1>1, <1>4 DEF SlotsPartitioned
<1> QED BY <1>4, <1>5 DEF Good

\* An order put on a slot, or taken off it, leaves the registry in order.
LEMMA OrderGood ==
  ASSUME NEW w, Good(w), NEW e, NEW c \in Comp
  PROVE  /\ Good(Add(w, "order", e, c))
         /\ Good(Remove(w, "order", e))
         /\ Add(w, "order", e, c).gen = w.gen
         /\ Remove(w, "order", e).gen = w.gen
         /\ Remove(w, "order", e).alive = w.alive
<1>1. w \in World /\ "order" \in Pools /\ Absent \in Comp
  BY PoolsAssumption DEF Good, Comp
<1>2. ASSUME NEW d \in Comp
      PROVE  LET x == [w EXCEPT !.pool["order"][e.index] = d] IN
             Good(x) /\ x.gen = w.gen /\ x.alive = w.alive
  <2> DEFINE f == [w.pool["order"] EXCEPT ![e.index] = d]
  <2>1. f \in [Slot -> Comp]
    BY <1>1, <1>2 DEF World
  <2>2. [w EXCEPT !.pool["order"][e.index] = d] = [w EXCEPT !.pool["order"] = f]
    BY <1>1 DEF World
  <2> HIDE DEF f
  <2> QED BY <2>1, <2>2, ReorderedGood
<1> QED BY <1>1, <1>2 DEF Add, Remove

\* A spawned ship, missile or debris leaves every other slot alone.
LEMMA CreateWithGood ==
  ASSUME NEW w, Good(w), CanCreate(w), NEW c \in HullType
  PROVE  LET x == CreateWith(w, "hull", c) IN
         /\ Good(x) /\ x.gen = w.gen /\ w.alive \subseteq x.alive
<1> DEFINE y == Create(w)
           i == NextIndex(w)
           f == [y.pool["hull"] EXCEPT ![i] = c]
           x == CreateWith(w, "hull", c)
<1>1. /\ w \in World /\ y \in World /\ SlotsPartitioned(y)
      /\ y.gen = w.gen /\ y.pool = w.pool
      /\ i \in Slot /\ i \notin w.alive /\ y.alive = w.alive \cup {i}
  BY CreateGood DEF Good
<1>2. "hull" \in Pools /\ c # Absent /\ y.pool["hull"] \in [Slot -> Comp]
  BY <1>1, PoolsAssumption, HullNotAbsent DEF World
<1>3. /\ f \in [Slot -> HullType \cup {Absent}]
      /\ f[i] = c /\ \A j \in Slot \ {i} : f[j] = w.pool["hull"][j]
  BY <1>1, <1>2 DEF Good
<1>4. x = [y EXCEPT !.pool["hull"] = f]
  BY <1>1, <1>2 DEF CreateWith, Add, NewId, World
<1>5. [y.pool EXCEPT !["hull"] = f] \in [Pools -> [Slot -> Comp]]
  BY <1>1, <1>3 DEF World, Comp
<1>6. /\ x \in World /\ x.gen = w.gen /\ x.alive = w.alive \cup {i}
      /\ x.free = y.free /\ x.size = y.size /\ x.pool["hull"] = f
  <2> HIDE DEF f, y, i
  <2> QED BY <1>1, <1>2, <1>4, <1>5 DEF World
<1>7. SlotsPartitioned(x)
  BY <1>1, <1>6 DEF SlotsPartitioned
<1>8. \A j \in Slot : j \in x.alive <=> f[j] # Absent
  BY <1>1, <1>2, <1>3, <1>6 DEF Good
<1> QED BY <1>3, <1>6, <1>7, <1>8 DEF Good

\* Destroying frees the slot under a new generation; a stale handle does nothing.
LEMMA DestroyGood ==
  ASSUME NEW w, Good(w), NEW e
  PROVE  LET x == Destroy(w, e) IN
         /\ Good(x)
         /\ \A i \in Slot : x.gen[i] >= w.gen[i]
         /\ IsValid(w, e) => e.index \in Slot /\ x.gen[e.index] = e.gen + 1
<1> DEFINE x == Destroy(w, e)
<1>1. /\ w \in World /\ SlotsPartitioned(w) /\ "hull" \in Pools
      /\ w.free \in Seq(Slot) /\ w.size \in Nat /\ w.alive \subseteq Slot
      /\ w.gen \in [Slot -> Nat] /\ w.pool \in [Pools -> [Slot -> Comp]]
  BY PoolsAssumption DEF Good, World
<1>2. CASE ~ IsValid(w, e)
  BY <1>1, <1>2 DEF Destroy
<1>3. CASE IsValid(w, e)
  <2> DEFINE i == e.index
             p == [q \in Pools |-> [w.pool[q] EXCEPT ![i] = Absent]]
             free == Append(w.free, i)
  <2>1. i \in w.alive /\ i \in Slot /\ w.gen[i] = e.gen
    BY <1>1, <1>3 DEF IsValid
  <2>2. p \in [Pools -> [Slot -> Comp]]
    BY <1>1 DEF Comp
  <2>3. /\ p["hull"] \in [Slot -> HullType \cup {Absent}]
        /\ p["hull"][i] = Absent
        /\ \A j \in Slot \ {i} : p["hull"][j] = w.pool["hull"][j]
    BY <1>1, <2>1 DEF Good
  <2>4. free \in Seq(Slot) /\ [w.gen EXCEPT ![i] = @ + 1] \in [Slot -> Nat]
    BY <1>1, <2>1
  <2>5. x = [w EXCEPT !.pool = p, !.alive = @ \ {i}, !.gen[i] = @ + 1, !.free = free]
    BY <1>3 DEF Destroy
  <2>6. /\ x \in World /\ x.alive = w.alive \ {i} /\ x.size = w.size
        /\ x.free = free /\ x.pool = p /\ x.gen = [w.gen EXCEPT ![i] = @ + 1]
    <3> HIDE DEF p, free, i, x
    <3> QED BY <1>1, <2>2, <2>4, <2>5 DEF World
  <2>7. SlotsPartitioned(x)
    <3> DEFINE n == Len(w.free)
               freed == {w.free[k] : k \in DOMAIN w.free}
    <3>1. /\ n \in Nat /\ DOMAIN w.free = 1 .. n /\ DOMAIN free = 1 .. n + 1
          /\ free[n + 1] = i /\ \A k \in 1 .. n : free[k] = w.free[k]
      BY <1>1, <2>1
    <3>2. {free[k] : k \in DOMAIN free} = freed \cup {i}
      <4> HIDE DEF free
      <4> QED BY <3>1
    <3>3. w.alive \cup freed = 0 .. w.size - 1 /\ w.alive \cap freed = {} /\ i \notin freed
      BY <1>1, <2>1 DEF SlotsPartitioned
    <3>4. \A j, k \in 1 .. n : w.free[j] = w.free[k] => j = k
      BY <1>1, <3>1 DEF SlotsPartitioned
    <3>5. \A j, k \in DOMAIN free : free[j] = free[k] => j = k
      <4> HIDE DEF free
      <4> QED BY <3>1, <3>3, <3>4
    <3>6. /\ x.alive \cup (freed \cup {i}) = 0 .. x.size - 1
          /\ x.alive \cap (freed \cup {i}) = {}
      BY <2>1, <2>6, <3>3
    <3> HIDE DEF free, x, freed
    <3> QED BY <2>6, <3>2, <3>5, <3>6 DEF SlotsPartitioned
  <2>8. \A j \in Slot : j \in x.alive <=> x.pool["hull"][j] # Absent
    BY <1>1, <2>1, <2>3, <2>6 DEF Good
  <2>9. Good(x)
    BY <2>3, <2>6, <2>7, <2>8 DEF Good
  <2>10. x.gen[i] = e.gen + 1 /\ \A j \in Slot : x.gen[j] >= w.gen[j]
    <3> HIDE DEF x
    <3> QED BY <1>1, <2>1, <2>6
  <2> QED BY <2>1, <2>9, <2>10
<1> QED BY <1>2, <1>3

-----------------------------------------------------------------------------
(* What the systems do to hulls.                                           *)

\* Every ship a system picks out of the pools is alive and has a hull.
LEMMA PickedIsLive ==
  ASSUME Good(world), NEW kinds, NEW e \in Of(kinds)
  PROVE  /\ IsValid(world, e) /\ e \in EntityId
         /\ world.pool["hull"][e.index] \in HullType
<1>1. PICK i \in world.alive : e = [index |-> i, gen |-> world.gen[i]]
  BY DEF Of, Living, LiveEntity
<1>2. i \in Slot /\ world.gen[i] \in Nat
  BY DEF Good, World
<1> QED BY <1>1, <1>2 DEF IsValid, EntityId, Good

\* A living entity's hull replaced by another hull.
LEMMA OneHullGood ==
  ASSUME NEW w, Good(w), NEW e, IsValid(w, e), NEW h \in HullType
  PROVE  LET x == [w EXCEPT !.pool["hull"][e.index] = h] IN
         Good(x) /\ x.gen = w.gen /\ x.alive = w.alive
<1> DEFINE f == [w.pool["hull"] EXCEPT ![e.index] = h]
<1>1. /\ w \in World /\ "hull" \in Pools /\ e.index \in Slot /\ e.index \in w.alive
      /\ w.pool["hull"] \in [Slot -> Comp]
  BY PoolsAssumption DEF Good, World, IsValid
<1>2. f \in [Slot -> HullType \cup {Absent}]
  BY <1>1 DEF Good
<1>3. \A i \in Slot : f[i] = Absent <=> w.pool["hull"][i] = Absent
  BY <1>1, HullNotAbsent DEF Good
<1>4. [w EXCEPT !.pool["hull"][e.index] = h] = Rehulled(w, f)
  BY <1>1 DEF Rehulled, World
<1> HIDE DEF f
<1> QED BY <1>2, <1>3, <1>4, RehulledGood

\* Damage, restored energy and grace that runs out give hulls again.
LEMMA HullUpdates ==
  ASSUME NEW h \in HullType, NEW d \in Nat
  PROVE  /\ Wounded(h, d) \in HullType
         /\ Fresh(h) \in HullType
         /\ [h EXCEPT !.invulnTicks = 0] \in HullType
<1>1. Less(h.energy, d) \in 0 .. MaxEnergy /\ MaxEnergy \in 0 .. MaxEnergy
  BY EnergyAssumption DEF HullType, Less
<1>2. 0 \in 0 .. 1 /\ 1 \in 0 .. 1
  OBVIOUS
<1>3. ASSUME NEW n \in 0 .. MaxEnergy, NEW t \in 0 .. 1
      PROVE  /\ [h EXCEPT !.energy = n] \in HullType
             /\ [h EXCEPT !.energy = n, !.invulnTicks = t] \in HullType
             /\ [h EXCEPT !.invulnTicks = t] \in HullType
  BY DEF HullType
<1> QED BY <1>1, <1>2, <1>3 DEF Wounded, Fresh

\* One ship hurt: nobody is created or destroyed by it.
LEMMA HurtGood ==
  ASSUME NEW w, Good(w), NEW e, IsValid(w, e), NEW d \in Nat
  PROVE  LET x == Hurt(w, e, d) IN Good(x) /\ x.gen = w.gen /\ x.alive = w.alive
<1>1. w \in World /\ "hull" \in Pools /\ w.pool["hull"][e.index] \in HullType
  BY PoolsAssumption DEF Good, World, IsValid
<1> DEFINE h == Wounded(w.pool["hull"][e.index], d)
<1>2. Hurt(w, e, d) = [w EXCEPT !.pool["hull"][e.index] = h]
  BY <1>1 DEF Hurt, World
<1>3. h \in HullType
  BY <1>1, HullUpdates
<1> HIDE DEF h
<1> QED BY <1>2, <1>3, OneHullGood

\* One ship restored: nobody is created or destroyed by it.
LEMMA RestoredGood ==
  ASSUME NEW w, Good(w), NEW e, IsValid(w, e)
  PROVE  LET x == Restored(w, e) IN Good(x) /\ x.gen = w.gen /\ x.alive = w.alive
<1>1. w \in World /\ "hull" \in Pools /\ w.pool["hull"][e.index] \in HullType
  BY PoolsAssumption DEF Good, World, IsValid
<1> DEFINE h == Fresh(w.pool["hull"][e.index])
<1>2. Restored(w, e) = [w EXCEPT !.pool["hull"][e.index] = h]
  BY <1>1 DEF Restored, World
<1>3. 0 \in Nat /\ h \in HullType
  BY <1>1, HullUpdates
<1> HIDE DEF h
<1> QED BY <1>2, <1>3, OneHullGood

\* A system that hurts many ships at once creates and destroys nobody.
LEMMA StruckGood ==
  ASSUME Good(world), NEW S \in SUBSET Combatants, NEW R \in SUBSET Combatants, NEW k,
         Struck(S, k, R)
  PROVE  Good(world') /\ world'.gen = world.gen
<1> DEFINE hull == world.pool["hull"]
           f == [i \in Slot |->
                   CASE LiveEntity(world, i) \in S -> Wounded(hull[i], 1)
                     [] LiveEntity(world, i) \in R -> [hull[i] EXCEPT !.invulnTicks = 0]
                     [] OTHER -> hull[i]]
<1>1. ASSUME NEW i \in Slot, LiveEntity(world, i) \in Combatants
      PROVE  hull[i] \in HullType
  <2>1. IsValid(world, LiveEntity(world, i))
    BY <1>1, PickedIsLive DEF Combatants
  <2>2. NoEntity.index \notin Slot
    BY BoundsAssumption DEF NoEntity, NoSlot, Slot
  <2>3. i \in world.alive
    BY <2>1, <2>2 DEF LiveEntity, IsValid, Good, World
  <2>4. LiveEntity(world, i).index = i
    BY <2>3 DEF LiveEntity
  <2> QED BY <1>1, <2>4, PickedIsLive DEF Combatants
<1>3. \A i \in Slot : hull[i] \in HullType \cup {Absent}
  BY DEF Good
<1>4. ASSUME NEW i \in Slot
      PROVE  /\ f[i] \in HullType \cup {Absent}
             /\ f[i] = Absent <=> hull[i] = Absent
  <2>1. CASE LiveEntity(world, i) \in S
    BY <1>1, <2>1, HullUpdates, HullNotAbsent
  <2>2. CASE LiveEntity(world, i) \notin S /\ LiveEntity(world, i) \in R
    BY <1>1, <2>2, HullUpdates, HullNotAbsent
  <2>3. CASE LiveEntity(world, i) \notin S /\ LiveEntity(world, i) \notin R
    BY <1>3, <2>3
  <2> QED BY <2>1, <2>2, <2>3
<1>5. f \in [Slot -> HullType \cup {Absent}]
  BY <1>4
<1>6. world' = Rehulled(world, f)
  BY DEF Struck, Rehulled
<1> HIDE DEF f
<1> QED BY <1>4, <1>5, <1>6, RehulledGood

-----------------------------------------------------------------------------
(* The steps of the tick.                                                  *)

\* Generations only grow.
Grown(w, x) == \A i \in Slot : x.gen[i] >= w.gen[i]

ShipsOK == ship \in [Session -> EntityId \cup {NoEntity}]
PendingOK == phase = "ordering" => [target |-> pending[1].target] \in OrderType

\* A new handle is one the registry may hand out.
LEMMA NewIdIsEntity ==
  ASSUME Good(world), CanCreate(world)
  PROVE  NewId(world) \in EntityId
BY DEF Good, World, CanCreate, NewId, EntityId

\* Dropped loot keeps whatever was alive alive.
LEMMA DropGood ==
  ASSUME NEW w, Good(w), NEW x \in Dropped(w)
  PROVE  Good(x) /\ x.gen = w.gen /\ w.alive \subseteq x.alive
<1>1. CASE x = w
  BY <1>1
<1>2. CASE CanCreate(w) /\ x = CreateWith(w, "hull", Debris)
  <2>1. Debris \in HullType
    BY EnergyAssumption DEF Debris, Hull, HullType
  <2> QED BY <1>2, <2>1, CreateWithGood
<1> QED BY <1>1, <1>2 DEF Dropped

\* Generations that stay have not shrunk.
LEMMA SameGrown ==
  ASSUME NEW w, Good(w), NEW x, x.gen = w.gen
  PROVE  Grown(w, x)
BY DEF Grown, Good, World

\* A target that resolves to a ship is a slot of the registry.
LEMMA TargetIsSlot ==
  ASSUME Good(world), NEW i, LiveEntity(world, i) \in Combatants
  PROVE  i \in Slot /\ LiveEntity(world, i) \in EntityId
<1>1. LiveEntity(world, i) \in EntityId /\ IsValid(world, LiveEntity(world, i))
  BY PickedIsLive DEF Combatants
<1>2. NoEntity \notin EntityId
  BY BoundsAssumption DEF NoEntity, EntityId, NoSlot, Slot
<1> QED BY <1>1, <1>2 DEF LiveEntity, Good, World

\* A step of the server keeps the registry in order, its handles typed and its
\* generations growing.
LEMMA StepGood ==
  ASSUME Good(world), ShipsOK, PendingOK, [Next]_vars
  PROVE  Good(world') /\ Grown(world, world') /\ ShipsOK' /\ PendingOK'
<1>1. ASSUME NEW s \in Session, FrontDoor(s)
      PROVE  Good(world') /\ Grown(world, world') /\ ShipsOK' /\ PendingOK'
  <2>1. Hull("player", s) \in HullType /\ NewId(world) \in EntityId
    BY <1>1, EnergyAssumption, NewIdIsEntity DEF Hull, HullType, Ships, FrontDoor
  <2> QED BY <1>1, <2>1, CreateWithGood, SameGrown DEF FrontDoor, ShipsOK, PendingOK
<1>2. ASSUME NEW s \in Session, HandleBuyEscort(s)
      PROVE  Good(world') /\ Grown(world, world') /\ ShipsOK' /\ PendingOK'
  <2> DEFINE x == CreateWith(world, "hull", Hull("escort", s))
             o == [target |-> ship[s].index]
  <2>1. Hull("escort", s) \in HullType
    BY EnergyAssumption DEF Hull, HullType, Ships
  <2>2. Good(x) /\ x.gen = world.gen
    BY <1>2, <2>1, CreateWithGood DEF HandleBuyEscort
  <2>3. o \in Comp
    BY <1>2 DEF HandleBuyEscort, ShipsOK, EntityId, OrderType, Comp
  <2>4. world' = Add(x, "order", NewId(world), o)
    BY <1>2 DEF HandleBuyEscort
  <2> HIDE DEF x, o
  <2>5. Good(world') /\ world'.gen = x.gen
    BY <2>2, <2>3, <2>4, OrderGood
  <2> QED BY <1>2, <2>2, <2>5, SameGrown DEF HandleBuyEscort, ShipsOK, PendingOK
<1>3. ASSUME NEW s \in Session, HandleAbilityRequest(s)
      PROVE  Good(world') /\ Grown(world, world') /\ ShipsOK' /\ PendingOK'
  BY <1>3, SameGrown DEF HandleAbilityRequest, ShipsOK, PendingOK
<1>4. ASSUME NEW s \in Session, HandleUnitOrder(s)
      PROVE  Good(world') /\ Grown(world, world') /\ ShipsOK' /\ PendingOK'
  <2>1. world' = world /\ ship' = ship
    BY <1>4 DEF HandleUnitOrder
  <2>2. PICK t \in Slot : pending'[1].target = t
    BY <1>4 DEF HandleUnitOrder
  <2> QED BY <2>1, <2>2, SameGrown DEF ShipsOK, PendingOK, OrderType
<1>5. ASSUME NEW s \in Session, Reap(s)
      PROVE  Good(world') /\ Grown(world, world') /\ ShipsOK' /\ PendingOK'
  <2> DEFINE x == Destroy(world, escort[s])
             y == Destroy(x, ship[s])
  <2>1. Good(x) /\ \A i \in Slot : x.gen[i] >= world.gen[i]
    BY DestroyGood
  <2>2. Good(y) /\ \A i \in Slot : y.gen[i] >= x.gen[i]
    BY <2>1, DestroyGood
  <2>3. world' = y /\ phase' = phase /\ phase # "ordering"
    BY <1>5 DEF Reap
  <2> HIDE DEF x, y
  <2>4. Grown(world, world')
    BY <2>1, <2>2, <2>3 DEF Good, World, Grown
  <2> QED BY <1>5, <2>2, <2>3, <2>4 DEF Reap, ShipsOK, PendingOK
<1>6. CASE RecordOrder
  BY <1>6, OrderGood, SameGrown DEF RecordOrder, ShipsOK, PendingOK, Comp
<1>7. CASE ResolveFireWeapon
  <2> DEFINE m == Head(bus)
  <2>1. CASE UNCHANGED world
    BY <1>7, <2>1, SameGrown DEF ResolveFireWeapon, ShipsOK, PendingOK
  <2>2. CASE \E e \in Shootable(m.by) : world' = Hurt(world, e, 1)
    <3>1. PICK e \in Of({"player", "npc"}) : world' = Hurt(world, e, 1)
      BY <2>2 DEF Shootable
    <3>2. Good(world') /\ world'.gen = world.gen
      BY <3>1, PickedIsLive, HurtGood
    <3> QED BY <1>7, <3>2, SameGrown DEF ResolveFireWeapon, ShipsOK, PendingOK
  <2>3. CASE /\ IsValid(world, m.by) /\ CanCreate(world)
             /\ LiveEntity(world, m.target) \in Combatants
             /\ world' = CreateWith(world, "hull",
                                    Missile(LiveEntity(world, m.target), m.by.index))
    <3>1. m.by.index \in Slot
      BY <2>3 DEF IsValid, Good, World
    <3>2. Missile(LiveEntity(world, m.target), m.by.index) \in HullType
      BY <2>3, <3>1, TargetIsSlot, EnergyAssumption DEF Missile, HullType
    <3>3. Good(world') /\ world'.gen = world.gen
      BY <2>3, <3>2, CreateWithGood
    <3> QED BY <1>7, <3>3, SameGrown DEF ResolveFireWeapon, ShipsOK, PendingOK
  <2>4. CASE IsValid(world, m.by) /\ world' = Restored(world, m.by)
    BY <1>7, <2>4, RestoredGood, SameGrown DEF ResolveFireWeapon, ShipsOK, PendingOK
  <2> QED BY <1>7, <2>1, <2>2, <2>3, <2>4 DEF ResolveFireWeapon, FireLaser, FireMissile
<1>8. CASE OnCrime
  <2>1. Hull("npc", NoSession) \in HullType
    BY EnergyAssumption DEF Hull, HullType, Ships
  <2> QED BY <1>8, <2>1, CreateWithGood, SameGrown DEF OnCrime, ShipsOK, PendingOK
<1>9. CASE OnEntityKilled
  <2> DEFINE v == Head(bus).victim
  <2>1. CASE UNCHANGED world
    BY <1>9, <2>1, SameGrown DEF OnEntityKilled, ShipsOK, PendingOK
  <2>2. CASE IsValid(world, v) /\ \E w \in Dropped(world) : world' = Respawned(w, v)
    <3>1. PICK w \in Dropped(world) : world' = Respawned(w, v)
      BY <2>2
    <3>2. Good(w) /\ w.gen = world.gen /\ IsValid(w, v)
      BY <2>2, DropGood DEF IsValid
    <3>3. Good(Restored(w, v)) /\ Restored(w, v).gen = world.gen
      BY <3>2, RestoredGood
    <3>4. Absent \in Comp
      BY DEF Comp
    <3>5. Good(world') /\ world'.gen = world.gen
      BY <3>1, <3>3, <3>4, OrderGood DEF Respawned
    <3> QED BY <1>9, <3>5, SameGrown DEF OnEntityKilled, ShipsOK, PendingOK
  <2>3. CASE \E w \in Dropped(world) : world' = Destroy(w, v)
    <3>1. PICK w \in Dropped(world) : world' = Destroy(w, v)
      BY <2>3
    <3>2. Good(w) /\ w.gen = world.gen
      BY DropGood
    <3>3. Good(world') /\ \A i \in Slot : world'.gen[i] >= w.gen[i]
      BY <3>1, <3>2, DestroyGood
    <3> QED BY <1>9, <3>2, <3>3 DEF OnEntityKilled, ShipsOK, PendingOK, Grown
  <2> QED BY <1>9, <2>1, <2>2, <2>3 DEF OnEntityKilled, Resolved, Dropped
<1>10. CASE StepAi
  <2>1. PICK e \in Of({"npc"}) :
          \/ world' = Destroy(world, e)
          \/ \E target \in Combatants \ {e} :
               CanCreate(world) /\ world' = CreateWith(world, "hull", Missile(target, e.index))
    BY <1>10 DEF StepAi
  <2>2. CASE world' = Destroy(world, e)
    BY <1>10, <2>2, DestroyGood DEF StepAi, ShipsOK, PendingOK, Grown
  <2>3. ASSUME NEW target \in Combatants, CanCreate(world),
               world' = CreateWith(world, "hull", Missile(target, e.index))
        PROVE  Good(world') /\ world'.gen = world.gen
    <3>1. Missile(target, e.index) \in HullType
      BY PickedIsLive, EnergyAssumption DEF Missile, HullType, Combatants, EntityId
    <3> QED BY <2>3, <3>1, CreateWithGood
  <2> QED BY <1>10, <2>1, <2>2, <2>3, SameGrown DEF StepAi, ShipsOK, PendingOK
<1>11. CASE SpawnPirate
  <2>1. Hull("npc", NoSession) \in HullType
    BY EnergyAssumption DEF Hull, HullType, Ships
  <2> QED BY <1>11, <2>1, CreateWithGood, SameGrown DEF SpawnPirate, ShipsOK, PendingOK
<1>12. CASE StepMissile
  <2>1. PICK m \in todo :
          \/ world' = Destroy(world, m)
          \/ UNCHANGED world
          \/ Detonate(m, Get(world, "hull", m))
    BY <1>12 DEF StepMissile
  <2>2. CASE world' = Destroy(world, m)
    BY <1>12, <2>2, DestroyGood DEF StepMissile, ShipsOK, PendingOK, Grown
  <2>3. CASE UNCHANGED world
    BY <1>12, <2>3, SameGrown DEF StepMissile, ShipsOK, PendingOK
  <2>4. CASE Detonate(m, Get(world, "hull", m))
    <3> DEFINE lock == Get(world, "hull", m).lock
    <3>1. IsValid(world, lock) /\ (world' = world \/ world' = Hurt(world, lock, Missiles))
      BY <2>4 DEF Detonate
    <3>2. Good(world') /\ world'.gen = world.gen
      BY <3>1, HurtGood, EnergyAssumption
    <3> QED BY <1>12, <3>2, SameGrown DEF StepMissile, ShipsOK, PendingOK
  <2> QED BY <2>1, <2>2, <2>3, <2>4
<1>13. CASE StepCombat
  <2>1. PICK S \in SUBSET Combatants, R \in SUBSET Combatants : \E k : Struck(S, k, R)
    BY <1>13 DEF StepCombat, Vulnerable, Immune
  <2>2. Good(world') /\ world'.gen = world.gen
    BY <2>1, StruckGood
  <2> QED BY <1>13, <2>2, SameGrown DEF StepCombat, ShipsOK, PendingOK
<1>14. CASE StepCollisions
  <2>1. PICK S \in SUBSET Combatants : Struck(S, [v \in S |-> NoSlot], {})
    BY <1>14 DEF StepCollisions, Vulnerable
  <2>2. Good(world') /\ world'.gen = world.gen
    BY <2>1, StruckGood
  <2> QED BY <1>14, <2>2, SameGrown DEF StepCollisions, ShipsOK, PendingOK
<1>15. CASE StepCabinHeat
  <2>1. PICK S \in SUBSET Combatants : Struck(S, [v \in S |-> v.index], {})
    BY <1>15 DEF StepCabinHeat, Vulnerable
  <2>2. Good(world') /\ world'.gen = world.gen
    BY <2>1, StruckGood
  <2> QED BY <1>15, <2>2, SameGrown DEF StepCabinHeat, ShipsOK, PendingOK
<1>16. CASE LootAndScoop
  BY <1>16, DestroyGood DEF LootAndScoop, ShipsOK, PendingOK, Grown
<1>17. CASE StepOrders \/ Fired \/ StartMissiles \/ ResolveKills \/ Resolve \/ EndTick
  BY <1>17, SameGrown
  DEF StepOrders, Fired, StartMissiles, ResolveKills, Resolve, EndTick, ShipsOK, PendingOK
<1>18. CASE UNCHANGED vars
  BY <1>18, SameGrown DEF vars, ShipsOK, PendingOK
<1> QED
  BY <1>1, <1>2, <1>3, <1>4, <1>5, <1>6, <1>7, <1>8, <1>9, <1>10, <1>11, <1>12, <1>13,
     <1>14, <1>15, <1>16, <1>17, <1>18 DEF Next

-----------------------------------------------------------------------------
(* The theorems.                                                           *)

Handles == Slot \X (0 .. MaxGen)

\* What has been killed is gone: its slot is under a later generation.
FelledOK ==
  /\ felled \in [Handles -> Nat]
  /\ \A h \in Handles : felled[h] <= 1 /\ (felled[h] # 0 => h[2] < world.gen[h[1]])

Inv == Good(world) /\ ShipsOK /\ PendingOK /\ FelledOK

\* The empty registry is in order.
LEMMA InitInv == Init => Inv
<1> SUFFICES ASSUME Init PROVE Inv
  OBVIOUS
<1>1. EmptyWorld \in World
  BY DEF EmptyWorld, World, Comp
<1>2. SlotsPartitioned(EmptyWorld)
  BY DEF SlotsPartitioned, EmptyWorld
<1>3. "hull" \in Pools
  BY PoolsAssumption
<1>4. Good(world)
  BY <1>1, <1>2, <1>3 DEF Init, Good, EmptyWorld
<1>5. ShipsOK /\ PendingOK
  BY DEF Init, ShipsOK, PendingOK, Nobody
<1>6. FelledOK
  BY <1>1, <1>4 DEF Init, FelledOK, Handles
<1> QED BY <1>4, <1>5, <1>6 DEF Inv

\* Nothing but the kill handler counts a kill, and it counts the death of a
\* handle under which it finds a living ship, whose generation it then ends.
LEMMA FelledKept ==
  ASSUME Inv, [Next]_vars
  PROVE  FelledOK'
<1>1. Good(world') /\ Grown(world, world') /\ Good(world)
  BY StepGood DEF Inv
<1>2. world.gen \in [Slot -> Nat] /\ world'.gen \in [Slot -> Nat]
  BY <1>1 DEF Good, World
<1>3. CASE felled' = felled
  <2>1. \A h \in Handles : h[1] \in Slot /\ h[2] \in Nat
    BY DEF Handles
  <2> QED BY <1>1, <1>2, <1>3, <2>1 DEF Inv, FelledOK, Grown
<1>4. ASSUME NEW v, IsValid(world, v), NEW w \in Dropped(world), world' = Destroy(w, v),
             felled' = [felled EXCEPT ![<<v.index, v.gen>>] = @ + 1]
      PROVE  FelledOK'
  <2> DEFINE g == <<v.index, v.gen>>
  <2>1. Good(w) /\ w.gen = world.gen /\ IsValid(w, v)
    BY <1>1, <1>4, DropGood DEF IsValid
  <2>2. v.index \in Slot /\ world'.gen[v.index] = v.gen + 1
    BY <1>4, <2>1, DestroyGood
  <2>3. v.gen = world.gen[v.index] /\ v.gen \in Nat
    BY <1>2, <1>4, <2>2 DEF IsValid
  <2>4. felled \in [Handles -> Nat]
    BY DEF Inv, FelledOK
  <2>5. g \in Handles => felled[g] = 0
    BY <2>3, <2>4 DEF Inv, FelledOK
  <2>6. felled' \in [Handles -> Nat]
    <3>1. felled' = [felled EXCEPT ![g] = felled[g] + 1]
      BY <1>4
    <3> HIDE DEF g
    <3>2. CASE g \in Handles
      BY <2>4, <2>5, <3>1, <3>2
    <3>3. CASE g \notin Handles
      BY <2>4, <3>1, <3>3
    <3> QED BY <3>2, <3>3
  <2>7. ASSUME NEW h \in Handles
        PROVE  felled'[h] <= 1 /\ (felled'[h] # 0 => h[2] < world'.gen[h[1]])
    <3>1. h[1] \in Slot /\ h[2] \in Nat
      BY DEF Handles
    <3>2. CASE h = g
      <4>1. felled'[h] = 1
        BY <1>4, <2>4, <2>5, <3>2
      <4>2. h[1] = v.index /\ h[2] = v.gen
        BY <3>2
      <4> QED BY <2>2, <2>3, <4>1, <4>2
    <3>3. CASE h # g
      <4>1. felled'[h] = felled[h]
        BY <1>4, <2>4, <3>3
      <4>2. felled[h] <= 1 /\ (felled[h] # 0 => h[2] < world.gen[h[1]])
        BY DEF Inv, FelledOK
      <4>3. world'.gen[h[1]] >= world.gen[h[1]]
        BY <1>1, <3>1 DEF Grown
      <4> QED BY <1>2, <2>4, <3>1, <4>1, <4>2, <4>3
    <3> QED BY <3>2, <3>3
  <2> QED BY <2>6, <2>7 DEF FelledOK
<1>5. CASE OnEntityKilled
  BY <1>3, <1>4, <1>5 DEF OnEntityKilled, Resolved
<1> QED
  BY <1>3, <1>5
  DEF Next, vars, FrontDoor, HandleBuyEscort, HandleAbilityRequest, HandleUnitOrder, Reap,
      RecordOrder, ResolveFireWeapon, OnCrime, StepOrders, Fired, StepAi, SpawnPirate,
      StartMissiles, StepMissile, StepCombat, StepCollisions, StepCabinHeat, ResolveKills,
      Resolve, LootAndScoop, EndTick

\* The registry in order, the handles typed and the kills counted once are kept
\* together by every step of the server.
THEOREM Invariance == Spec => []Inv
<1>1. Inv /\ [Next]_vars => Inv'
  BY StepGood, FelledKept DEF Inv
<1> QED BY <1>1, InitInv, PTL DEF Spec

\* Whatever is created, destroyed and reported, no slot of the registry leaks,
\* is handed out twice or keeps a component of the dead (ECS.h Create, Destroy).
THEOREM RegistryExact == Spec => []SlotsExact
<1>1. Inv => SlotsExact
  BY HullNotAbsent DEF Inv, Good, SlotsExact, World
<1> QED BY <1>1, Invariance, PTL

\* However many systems report a ship in a tick, it is resolved as killed at most
\* once (GameServer.cpp OnEntityKilled).
THEOREM KilledOnce == Spec => []NpcKilledOnce
<1>1. Inv => NpcKilledOnce
  BY DEF Inv, FelledOK, NpcKilledOnce
<1> QED BY <1>1, Invariance, PTL

-----------------------------------------------------------------------------
(* Missiles.                                                               *)

\* The missiles StepMissiles has still to step are alive.
TodoOK == phase = "missiles" => \A e \in todo : e \in EntityId /\ IsValid(world, e)

\* Destroying one living entity leaves the others alive.
LEMMA OthersLive ==
  ASSUME Good(world), NEW m \in EntityId, IsValid(world, m),
         NEW e \in EntityId, IsValid(world, e), e # m
  PROVE  IsValid(Destroy(world, m), e)
<1>1. e.index # m.index /\ e.index \in Slot /\ world.gen \in [Slot -> Nat]
  BY DEF IsValid, EntityId, Good, World
<1>2. /\ Destroy(world, m).alive = world.alive \ {m.index}
      /\ Destroy(world, m).gen = [world.gen EXCEPT ![m.index] = @ + 1]
  BY DEF Destroy, Good, World
<1> QED BY <1>1, <1>2 DEF IsValid

\* A step of a missile: it leaves the list; it is destroyed, or ships may be hurt.
LEMMA MissileStep ==
  ASSUME Inv, TodoOK, StepMissile
  PROVE  \E m \in todo :
           /\ todo' = todo \ {m} /\ m \in EntityId /\ IsValid(world, m)
           /\ \/ world' = Destroy(world, m)
              \/ world' = world
              \/ LET lock == Get(world, "hull", m).lock IN
                 /\ IsValid(world, lock) /\ lock \in EntityId
                 /\ world' = Hurt(world, lock, Missiles)
<1>1. PICK m \in todo :
        /\ todo' = todo \ {m}
        /\ \/ world' = Destroy(world, m)
           \/ world' = world
           \/ Detonate(m, Get(world, "hull", m))
  BY DEF StepMissile
<1>2. m \in EntityId /\ IsValid(world, m)
  BY <1>1 DEF StepMissile, TodoOK
<1> DEFINE lock == Get(world, "hull", m).lock
<1>3. lock \in EntityId \cup {NoEntity}
  BY <1>2 DEF Get, Inv, Good, IsValid, HullType, World
<1>4. ~ IsValid(world, NoEntity)
  BY BoundsAssumption DEF Inv, Good, World, IsValid, NoEntity, NoSlot, Slot
<1>5. CASE Detonate(m, Get(world, "hull", m))
  <2>1. IsValid(world, lock) /\ (world' = world \/ world' = Hurt(world, lock, Missiles))
    BY <1>5 DEF Detonate
  <2> QED BY <1>1, <1>2, <1>3, <1>4, <2>1
<1> QED BY <1>1, <1>2, <1>5

\* What is still on the list is alive after every step.
LEMMA TodoKept ==
  ASSUME Inv, TodoOK, [Next]_vars
  PROVE  TodoOK'
<1>1. CASE StartMissiles
  <2>1. \A e \in Of({"missile"}) : IsValid(world, e) /\ e \in EntityId
    BY PickedIsLive DEF Inv
  <2> QED BY <1>1, <2>1 DEF StartMissiles, TodoOK, IsValid
<1>2. CASE StepMissile
  <2>1. PICK m \in todo :
           /\ todo' = todo \ {m} /\ m \in EntityId /\ IsValid(world, m)
           /\ \/ world' = Destroy(world, m)
              \/ world' = world
              \/ LET lock == Get(world, "hull", m).lock IN
                 /\ IsValid(world, lock) /\ lock \in EntityId
                 /\ world' = Hurt(world, lock, Missiles)
    BY <1>2, MissileStep
  <2>2. \A e \in todo : e \in EntityId /\ IsValid(world, e)
    BY <1>2 DEF StepMissile, TodoOK
  <2>3. CASE world' = Destroy(world, m)
    BY <2>1, <2>2, <2>3, OthersLive DEF Inv, TodoOK
  <2>4. CASE world' # Destroy(world, m)
    <3>1. world'.alive = world.alive /\ world'.gen = world.gen
      BY <2>1, <2>4, HurtGood, EnergyAssumption DEF Inv
    <3> QED BY <2>1, <2>2, <3>1 DEF TodoOK, IsValid
  <2> QED BY <2>3, <2>4
<1>3. CASE phase' # "missiles"
  BY <1>3 DEF TodoOK
<1>4. CASE UNCHANGED vars
  BY <1>4 DEF vars, TodoOK, IsValid
<1> QED
  BY <1>1, <1>2, <1>3, <1>4
  DEF Next, FrontDoor, HandleBuyEscort, HandleAbilityRequest, HandleUnitOrder, Reap,
      RecordOrder, ResolveFireWeapon, OnCrime, OnEntityKilled, Dispatching, StepOrders,
      Fired, StepAi, SpawnPirate, StepCombat, StepCollisions, StepCabinHeat, ResolveKills,
      Resolve, LootAndScoop, EndTick

\* A ship that loses energy while a missile is stepped is the one it was locked on.
LEMMA HitStep ==
  ASSUME Inv, TodoOK, [Next]_vars, phase = "missiles",
         NEW i \in Slot, NEW m \in todo \ todo', i \in world.alive, i \in world'.alive,
         world'.pool["hull"][i].energy < world.pool["hull"][i].energy
  PROVE  Get(world, "hull", m).lock = LiveEntity(world, i)
<1>1. StepMissile
  BY DEF Next, vars, FrontDoor, HandleBuyEscort, HandleAbilityRequest, HandleUnitOrder, Reap,
      RecordOrder, ResolveFireWeapon, OnCrime, OnEntityKilled, Dispatching, StepOrders,
      Fired, StepAi, SpawnPirate, StartMissiles, StepCombat, StepCollisions, StepCabinHeat,
      ResolveKills, Resolve, LootAndScoop, EndTick
<1> DEFINE lock == Get(world, "hull", m).lock
<1>2. /\ IsValid(world, m)
      /\ \/ world' = Destroy(world, m)
         \/ world' = world
         \/ /\ IsValid(world, lock) /\ lock \in EntityId
            /\ world' = Hurt(world, lock, Missiles)
  BY <1>1, MissileStep
<1>3. /\ world \in World /\ "hull" \in Pools
      /\ world.pool["hull"][i] \in HullType /\ world.pool["hull"][i].energy \in Nat
  BY PoolsAssumption, EnergyAssumption DEF Inv, Good, HullType
<1>4. world' # world
  BY <1>3
<1>5. world' # Destroy(world, m)
  <2>1. SUFFICES ASSUME world' = Destroy(world, m) PROVE FALSE
    OBVIOUS
  <2>2. i # m.index
    BY <1>2, <2>1 DEF Destroy, Inv, Good, World
  <2>3. world'.pool["hull"][i] = world.pool["hull"][i]
    BY <1>2, <1>3, <2>1, <2>2 DEF Destroy, World
  <2> QED BY <1>3, <2>3
<1>6. i = lock.index
  <2>1. SUFFICES ASSUME i # lock.index PROVE FALSE
    OBVIOUS
  <2>2. world' = Hurt(world, lock, Missiles)
    BY <1>2, <1>4, <1>5
  <2> HIDE DEF lock
  <2>3. world'.pool["hull"][i] = world.pool["hull"][i]
    BY <1>3, <2>1, <2>2 DEF Hurt, World
  <2> QED BY <1>3, <2>3
<1>7. IsValid(world, lock) /\ lock \in EntityId
  BY <1>2, <1>4, <1>5
<1>8. lock = LiveEntity(world, i)
  <2> HIDE DEF lock
  <2> QED BY <1>6, <1>7 DEF LiveEntity, IsValid, EntityId
<1> QED BY <1>8

\* A detonation never hurts a ship created since in the slot the missile was
\* locked on (MissileSystem.h StepMissiles, MissileTargetValid).
THEOREM MissilesHitTheLock == Spec => HitsTheLock
<1> DEFINE Hits ==
      \A i \in Slot, m \in todo \ todo' :
       LET hull == world.pool["hull"] IN
       phase = "missiles" /\ i \in world.alive /\ i \in world'.alive
         /\ world'.pool["hull"][i].energy < hull[i].energy
         => Get(world, "hull", m).lock = LiveEntity(world, i)
<1>1. Init => TodoOK
  BY DEF Init, TodoOK
<1>2. Inv /\ TodoOK /\ [Next]_vars => TodoOK'
  BY TodoKept
<1>3. Inv /\ TodoOK /\ [Next]_vars => [Hits]_vars
  BY HitStep
<1> HIDE DEF Hits
<1>4. Spec => [][Hits]_vars
  BY <1>1, <1>2, <1>3, Invariance, PTL DEF Spec
<1> QED BY <1>4 DEF HitsTheLock, Hits

-----------------------------------------------------------------------------
(* No ship flies with its energy gone.                                     *)

\* What travels on the bus and waits in the list of kills.
Weapons == {"Laser", "Missile", "Ecm", "EnergyBomb", "EscapePod"}
Message ==
  [msg : {"FireWeapon"}, by : EntityId \cup {NoEntity}, weapon : Weapons,
   target : Slot \cup {NoSlot, 0}]
  \cup [msg : {"Crime"}, by : EntityId \cup {NoEntity}]
  \cup [msg : {"EntityKilled"}, victim : EntityId, killer : Slot \cup {NoSlot}]

\* The living ships of a world whose energy is gone.
Doomed(w) ==
  {e \in EntityId : /\ IsValid(w, e)
                    /\ w.pool["hull"][e.index].kind \in Ships
                    /\ w.pool["hull"][e.index].energy = 0}

Told(q, v) == \E k \in DOMAIN q : q[k].msg = "EntityKilled" /\ q[k].victim = v

QueuesOK == bus \in Seq(Message) /\ kills \in Seq(Message)

\* Every ship without energy is still to be handled: a report names it.
DoomedAreTold == \A v \in Doomed(world) : Told(bus, v) \/ Told(kills, v)

\* Kills are only collected between the missiles and the bus.
KillsAreSent ==
  phase \in {"requests", "ordering", "firing", "moving", "resolving", "looting"} => kills = <<>>

\* What is told in two lists is told in one after the other.
LEMMA ToldInBoth ==
  ASSUME NEW q \in Seq(Message), NEW r \in Seq(Message), NEW v
  PROVE  /\ Told(q, v) => Told(q \o r, v)
         /\ Told(r, v) => Told(q \o r, v)
<1>1. DOMAIN q = 1 .. Len(q) /\ DOMAIN r = 1 .. Len(r) /\ DOMAIN (q \o r) = 1 .. Len(q) + Len(r)
  OBVIOUS
<1>2. ASSUME NEW k \in DOMAIN q PROVE k \in DOMAIN (q \o r) /\ (q \o r)[k] = q[k]
  BY <1>1
<1>3. ASSUME NEW k \in DOMAIN r
      PROVE  Len(q) + k \in DOMAIN (q \o r) /\ (q \o r)[Len(q) + k] = r[k]
  BY <1>1
<1> QED BY <1>2, <1>3 DEF Told

\* The oldest message gone, the others are still there.
LEMMA ToldInTail ==
  ASSUME NEW q \in Seq(Message), q # <<>>, NEW v, Told(q, v)
  PROVE  Told(Tail(q), v) \/ (Head(q).msg = "EntityKilled" /\ Head(q).victim = v)
<1>1. PICK k \in DOMAIN q : q[k].msg = "EntityKilled" /\ q[k].victim = v
  BY DEF Told
<1>2. CASE k = 1
  BY <1>1, <1>2
<1>3. CASE k # 1
  <2>1. k - 1 \in DOMAIN Tail(q) /\ Tail(q)[k - 1] = q[k]
    BY <1>1, <1>3
  <2> QED BY <1>1, <2>1 DEF Told
<1> QED BY <1>2, <1>3

\* A list with one report in it tells of its victim.
LEMMA ToldIt ==
  ASSUME NEW v, NEW k
  PROVE  Told(<<Killed(v, k)>>, v)
BY DEF Told, Killed

\* A handle of a slot that is alive is the only valid one.
LEMMA SameSlotSame ==
  ASSUME NEW w, NEW e \in EntityId, NEW f \in EntityId, IsValid(w, e), IsValid(w, f),
         e.index = f.index
  PROVE  e = f
BY DEF EntityId, IsValid

\* Whatever is created has energy or is no ship.
LEMMA CreateWithSpares ==
  ASSUME NEW w, Good(w), CanCreate(w), NEW c \in HullType,
         c.kind \notin Ships \/ c.energy # 0
  PROVE  Doomed(CreateWith(w, "hull", c)) \subseteq Doomed(w)
<1> DEFINE y == Create(w)
           i == NextIndex(w)
           x == CreateWith(w, "hull", c)
<1>1. /\ w \in World /\ y \in World /\ y.gen = w.gen /\ y.pool = w.pool
      /\ i \in Slot /\ i \notin w.alive /\ y.alive = w.alive \cup {i}
  BY CreateGood DEF Good
<1>2. "hull" \in Pools /\ y.pool["hull"] \in [Slot -> Comp]
  BY <1>1, PoolsAssumption DEF World
<1>3. /\ x.gen = w.gen /\ x.alive = w.alive \cup {i}
      /\ x.pool["hull"][i] = c
      /\ \A j \in Slot \ {i} : x.pool["hull"][j] = w.pool["hull"][j]
  <2>1. x = [y EXCEPT !.pool["hull"][i] = c]
    BY <1>1 DEF CreateWith, Add, NewId
  <2> HIDE DEF x, y, i
  <2> QED BY <1>1, <1>2, <2>1 DEF World
<1>4. ASSUME NEW e \in Doomed(x) PROVE e \in Doomed(w)
  <2>1. e \in EntityId /\ e.index # i
    BY <1>3, <1>4 DEF Doomed
  <2> HIDE DEF x
  <2> QED BY <1>3, <1>4, <2>1 DEF Doomed, IsValid, EntityId
<1> QED BY <1>4

\* A destroyed ship is doomed no longer, and no other becomes so.
LEMMA DestroySpares ==
  ASSUME NEW w, Good(w), NEW v
  PROVE  Doomed(Destroy(w, v)) \subseteq Doomed(w) \ {v}
<1> DEFINE x == Destroy(w, v)
<1>1. w \in World /\ "hull" \in Pools
  BY PoolsAssumption DEF Good
<1>2. CASE ~ IsValid(w, v)
  BY <1>2 DEF Destroy, Doomed
<1>3. CASE IsValid(w, v)
  <2>1. /\ x.alive = w.alive \ {v.index}
        /\ \A j \in Slot \ {v.index} : x.gen[j] = w.gen[j] /\ x.pool["hull"][j] = w.pool["hull"][j]
    BY <1>1, <1>3 DEF Destroy, World
  <2>2. ASSUME NEW e \in Doomed(x) PROVE e \in Doomed(w) /\ e # v
    <3>1. e \in EntityId /\ e.index \in x.alive /\ e.index # v.index
      BY <2>1, <2>2 DEF Doomed, IsValid
    <3> HIDE DEF x
    <3> QED BY <2>1, <2>2, <3>1 DEF Doomed, IsValid, EntityId
  <2> QED BY <2>2
<1> QED BY <1>2, <1>3

\* Orders have nothing to do with energy.
LEMMA OrderSpares ==
  ASSUME NEW w, Good(w), NEW e, NEW c
  PROVE  /\ Doomed(Add(w, "order", e, c)) = Doomed(w)
         /\ Doomed(Remove(w, "order", e)) = Doomed(w)
<1>1. w \in World /\ "hull" \in Pools /\ "order" \in Pools
  BY PoolsAssumption DEF Good
<1>2. ASSUME NEW d
      PROVE  LET x == [w EXCEPT !.pool["order"][e.index] = d] IN Doomed(x) = Doomed(w)
  BY <1>1 DEF Doomed, IsValid, World
<1> QED BY <1>1, <1>2 DEF Add, Remove

\* One hull replaced: the others are as they were.
LEMMA OneHullSpares ==
  ASSUME NEW w, Good(w), NEW v \in EntityId, IsValid(w, v), NEW h \in HullType
  PROVE  LET x == [w EXCEPT !.pool["hull"][v.index] = h] IN
         Doomed(x) \subseteq (Doomed(w) \ {v}) \cup (IF h.energy = 0 THEN {v} ELSE {})
<1> DEFINE x == [w EXCEPT !.pool["hull"][v.index] = h]
<1>1. w \in World /\ "hull" \in Pools /\ v.index \in Slot
  BY PoolsAssumption DEF Good, EntityId
<1>2. /\ x.gen = w.gen /\ x.alive = w.alive /\ x.pool["hull"][v.index] = h
      /\ \A j \in Slot \ {v.index} : x.pool["hull"][j] = w.pool["hull"][j]
  BY <1>1 DEF World
<1>3. ASSUME NEW e \in Doomed(x)
      PROVE  e \in (Doomed(w) \ {v}) \cup (IF h.energy = 0 THEN {v} ELSE {})
  <2> HIDE DEF x
  <2>1. e \in EntityId /\ IsValid(w, e)
    BY <1>2, <1>3 DEF Doomed, IsValid
  <2>2. CASE e.index = v.index
    <3>1. e = v
      BY <2>1, <2>2, SameSlotSame
    <3> QED BY <1>2, <1>3, <3>1 DEF Doomed
  <2>3. CASE e.index # v.index
    BY <1>2, <1>3, <2>1, <2>3 DEF Doomed, EntityId
  <2> QED BY <2>2, <2>3
<1> QED BY <1>3

\* Who is hurt dies of it or keeps some energy.
LEMMA HurtSpares ==
  ASSUME NEW w, Good(w), NEW v \in EntityId, IsValid(w, v), NEW d \in Nat
  PROVE  Doomed(Hurt(w, v, d)) \subseteq Doomed(w) \cup (IF Dies(w, v, d) THEN {v} ELSE {})
<1>1. w \in World /\ "hull" \in Pools /\ w.pool["hull"][v.index] \in HullType
  BY PoolsAssumption DEF Good, World, IsValid
<1> DEFINE old == w.pool["hull"][v.index]
           h == Wounded(old, d)
<1>2. Hurt(w, v, d) = [w EXCEPT !.pool["hull"][v.index] = h]
  BY <1>1 DEF Hurt, World
<1>3. h \in HullType /\ (h.energy = 0 <=> Dies(w, v, d))
  <2>1. old.energy \in Nat
    BY <1>1, EnergyAssumption DEF HullType
  <2>3. h \in HullType
    BY <1>1, HullUpdates
  <2>2. h.energy = Less(old.energy, d)
    BY <1>1 DEF Wounded, HullType
  <2> HIDE DEF h
  <2> QED BY <2>1, <2>2, <2>3 DEF Less, Dies, Get
<1> HIDE DEF h, old
<1> QED BY <1>2, <1>3, OneHullSpares

\* A ship out of its pod, or respawned, is out of danger.
LEMMA RestoredSpares ==
  ASSUME NEW w, Good(w), NEW v \in EntityId, IsValid(w, v)
  PROVE  Doomed(Restored(w, v)) \subseteq Doomed(w) \ {v}
<1>1. w \in World /\ "hull" \in Pools /\ w.pool["hull"][v.index] \in HullType
  BY PoolsAssumption DEF Good, World, IsValid
<1> DEFINE h == Fresh(w.pool["hull"][v.index])
<1>2. Restored(w, v) = [w EXCEPT !.pool["hull"][v.index] = h]
  BY <1>1 DEF Restored, World
<1>3. h \in HullType /\ h.energy # 0
  <2>1. 0 \in Nat /\ h \in HullType
    BY <1>1, HullUpdates
  <2>2. h.energy = MaxEnergy
    BY <1>1 DEF Fresh, HullType
  <2> QED BY <2>1, <2>2, EnergyAssumption
<1> HIDE DEF h
<1> QED BY <1>2, <1>3, OneHullSpares

\* A system's victims, listed: each of them is on the list.
LEMMA OrderingsTell ==
  ASSUME Good(world), NEW S \in SUBSET EntityId, S \subseteq Living(world),
         NEW q \in Orderings(S)
  PROVE  /\ Cardinality(S) \in Nat /\ q \in [1 .. Cardinality(S) -> S]
         /\ \A v \in S : \E k \in DOMAIN q : q[k] = v
<1>1. IsFiniteSet(S)
  <2> DEFINE f == [e \in S |-> e.index]
  <2>1. f \in [S -> Slot] /\ IsFiniteSet(Slot)
    <3>1. f \in [S -> Slot]
      BY DEF EntityId
    <3>2. MaxSlots - 1 \in Int /\ 0 \in Int
      BY BoundsAssumption
    <3> HIDE DEF f
    <3> QED BY <3>1, <3>2, FS_Interval DEF Slot
  <2>2. \A e \in Living(world) : e.gen = world.gen[e.index]
    BY DEF Living, LiveEntity
  <2>3. ASSUME NEW d \in S, NEW e \in S, f[d] = f[e] PROVE d = e
    BY <2>2, <2>3 DEF EntityId
  <2>4. f \in Injection(S, Slot)
    <3> HIDE DEF f
    <3> QED BY <2>1, <2>3 DEF Injection, IsInjective
  <2> QED BY <2>1, <2>4, FS_Injection
<1> DEFINE n == Cardinality(S)
<1>2. n \in Nat /\ IsFiniteSet(1 .. n) /\ Cardinality(1 .. n) = n
  BY <1>1, FS_CardinalityType, FS_Interval
<1>3. q \in Injection(1 .. n, S)
  BY DEF Orderings, Injection, IsInjective
<1>4. q \in Surjection(1 .. n, S)
  BY <1>1, <1>2, <1>3, FS_Injection
<1> QED BY <1>2, <1>3, <1>4 DEF Injection, Surjection

\* The reports of a system's victims name each of them.
LEMMA ReportsTell ==
  ASSUME Good(world), NEW S \in SUBSET EntityId, S \subseteq Living(world),
         NEW q \in Orderings(S), NEW k, \A v \in S : k[v] \in Slot \cup {NoSlot}
  PROVE  LET r == [i \in DOMAIN q |-> Killed(q[i], k[q[i]])] IN
         r \in Seq(Message) /\ \A v \in S : Told(r, v)
<1> DEFINE r == [i \in DOMAIN q |-> Killed(q[i], k[q[i]])]
           n == Cardinality(S)
<1>1. n \in Nat /\ q \in [1 .. n -> S] /\ \A v \in S : \E i \in DOMAIN q : q[i] = v
  BY OrderingsTell
<1>2. \A i \in 1 .. n : r[i] \in Message
  BY <1>1 DEF Killed, Message
<1>3. r \in Seq(Message)
  <2>1. r \in [1 .. n -> Message]
    BY <1>1, <1>2
  <2> HIDE DEF r
  <2> QED BY <1>1, <2>1
<1>4. ASSUME NEW v \in S PROVE Told(r, v)
  <2>1. PICK i \in DOMAIN q : q[i] = v
    BY <1>1
  <2>2. i \in DOMAIN r /\ r[i].msg = "EntityKilled" /\ r[i].victim = v
    BY <2>1 DEF Killed
  <2> QED BY <2>2 DEF Told
<1> QED BY <1>3, <1>4

\* A system that strikes many ships reports those it kills.
LEMMA StruckTells ==
  ASSUME Good(world), QueuesOK, DoomedAreTold,
         NEW S \in SUBSET Combatants, NEW R \in SUBSET Combatants, S \cap R = {}, NEW k,
         \A v \in S : k[v] \in Slot \cup {NoSlot},
         Struck(S, k, R), UNCHANGED bus
  PROVE  DoomedAreTold' /\ QueuesOK'
<1> DEFINE hull == world.pool["hull"]
           T == {v \in S : Dies(world, v, 1)}
<1>1. T \in SUBSET EntityId /\ T \subseteq Living(world) /\ \A e \in Combatants : e \in EntityId
  BY PickedIsLive DEF Combatants, Of
<1>2. PICK q \in Orderings(T) : kills' = kills \o [i \in DOMAIN q |-> Killed(q[i], k[q[i]])]
  BY DEF Struck
<1> DEFINE r == [i \in DOMAIN q |-> Killed(q[i], k[q[i]])]
<1>3. r \in Seq(Message) /\ \A v \in T : Told(r, v)
  BY <1>1, <1>2, ReportsTell
<1>4. kills' = kills \o r /\ kills' \in Seq(Message)
  BY <1>2, <1>3 DEF QueuesOK
<1> HIDE DEF r
<1>5. world \in World /\ "hull" \in Pools /\ Good(world') /\ world'.gen = world.gen
  BY StruckGood, PoolsAssumption DEF Good
<1>6. world'.alive = world.alive
  BY <1>5 DEF Struck, World
<1>7. ASSUME NEW i \in Slot
      PROVE  world'.pool["hull"][i] = CASE LiveEntity(world, i) \in S -> Wounded(hull[i], 1)
                                        [] LiveEntity(world, i) \in R -> [hull[i] EXCEPT !.invulnTicks = 0]
                                        [] OTHER -> hull[i]
  BY <1>5 DEF Struck, World
<1>8. ASSUME NEW e \in Doomed(world') PROVE e \in Doomed(world) \cup T
  <2>1. /\ e \in EntityId /\ IsValid(world, e) /\ e.index \in Slot
        /\ e = LiveEntity(world, e.index)
    BY <1>5, <1>6, <1>8 DEF Doomed, IsValid, LiveEntity, EntityId
  <2>2. hull[e.index] \in HullType
    BY <2>1 DEF IsValid, Good
  <2> DEFINE h == hull[e.index]
             g == world'.pool["hull"][e.index]
  <2>3. g.kind \in Ships /\ g.energy = 0
    BY <1>8 DEF Doomed
  <2>4. CASE e \in S
    <3>1. g = Wounded(h, 1)
      BY <1>7, <2>1, <2>4
    <3>2. h.energy \in Nat /\ g.energy = Less(h.energy, 1)
      BY <2>2, <3>1, EnergyAssumption DEF HullType, Wounded
    <3>3. h.energy <= 1
      BY <2>3, <3>2 DEF Less
    <3> QED BY <2>4, <3>3 DEF Dies, Get
  <2>5. CASE e \notin S /\ e \in R
    <3>1. g = [h EXCEPT !.invulnTicks = 0]
      BY <1>7, <2>1, <2>5
    <3>2. g.kind = h.kind /\ g.energy = h.energy
      BY <2>2, <3>1 DEF HullType
    <3> QED BY <2>1, <2>3, <3>2 DEF Doomed
  <2>6. CASE e \notin S /\ e \notin R
    <3>1. g = h
      BY <1>7, <2>1, <2>6
    <3> QED BY <2>1, <2>3, <3>1 DEF Doomed
  <2> QED BY <2>4, <2>5, <2>6
<1>9. ASSUME NEW e \in Doomed(world') PROVE Told(bus', e) \/ Told(kills', e)
  <2>1. CASE e \in Doomed(world)
    BY <1>3, <1>4, <2>1, ToldInBoth DEF QueuesOK, DoomedAreTold
  <2>2. CASE e \in T
    <3>1. Told(r, e)
      BY <1>3, <2>2
    <3> QED BY <1>3, <1>4, <3>1, ToldInBoth DEF QueuesOK
  <2> QED BY <1>8, <1>9, <2>1, <2>2
<1> QED BY <1>4, <1>9 DEF DoomedAreTold, QueuesOK

\* A step that dooms nobody and loses no report.
LEMMA NobodyDoomed ==
  ASSUME DoomedAreTold, Doomed(world') \subseteq Doomed(world),
         \A v \in Doomed(world') : (Told(bus, v) => Told(bus', v)) /\ (Told(kills, v) => Told(kills', v))
  PROVE  DoomedAreTold'
BY DEF DoomedAreTold

\* The oldest message handled: what it did not name is still told, and whatever
\* its handler adds comes after.
LEMMA HeadHandled ==
  ASSUME QueuesOK, DoomedAreTold, bus # <<>>, UNCHANGED kills,
         NEW r \in Seq(Message), bus' = Tail(bus) \o r,
         NEW dead, Doomed(world') \subseteq Doomed(world) \cup dead,
         \A v \in dead : Told(r, v),
         \A v \in Doomed(world') \ dead : ~ (Head(bus).msg = "EntityKilled" /\ Head(bus).victim = v)
  PROVE  DoomedAreTold' /\ QueuesOK'
<1>1. Tail(bus) \in Seq(Message) /\ bus' \in Seq(Message)
  BY DEF QueuesOK
<1>2. ASSUME NEW v \in Doomed(world') PROVE Told(bus', v) \/ Told(kills', v)
  <2>1. CASE v \in dead
    BY <1>1, <2>1, ToldInBoth
  <2>2. CASE v \notin dead
    <3>1. Told(bus, v) \/ Told(kills, v)
      BY <2>2 DEF DoomedAreTold
    <3>2. Told(bus, v) => Told(Tail(bus), v)
      BY <1>2, <2>2, ToldInTail DEF QueuesOK
    <3> QED BY <1>1, <3>1, <3>2, ToldInBoth
  <2> QED BY <2>1, <2>2
<1> QED BY <1>1, <1>2 DEF DoomedAreTold, QueuesOK

\* What a command or a crime adds to the bus is a message.
LEMMA Messages ==
  /\ \A by \in EntityId \cup {NoEntity}, weapon \in Weapons, target \in Slot \cup {NoSlot, 0} :
       Fire(by, weapon, target) \in Message
  /\ \A by \in EntityId \cup {NoEntity} : \A flag \in Flagged(by) : flag \in Seq(Message)
  /\ \A v \in EntityId, k \in Slot \cup {NoSlot} : Killed(v, k) \in Message
BY DEF Fire, Crime, Killed, Flagged, Message, Weapons

LEMMA NoEntityInvalid == ASSUME NEW w, Good(w) PROVE ~ IsValid(w, NoEntity)
BY BoundsAssumption DEF Good, World, IsValid, NoEntity, NoSlot, Slot

\* The weapons: what they kill outright they report.
LEMMA FireTells ==
  ASSUME Inv, QueuesOK, DoomedAreTold, ResolveFireWeapon
  PROVE  DoomedAreTold' /\ QueuesOK'
<1> DEFINE m == Head(bus)
<1>1. /\ bus # <<>> /\ m.msg = "FireWeapon" /\ bus \in Seq(Message) /\ m \in Message
      /\ UNCHANGED kills /\ Good(world)
  BY DEF ResolveFireWeapon, Dispatching, QueuesOK, Inv
<1>2. m.by \in EntityId \cup {NoEntity} /\ m.by.index \in Slot \cup {NoSlot}
  BY <1>1 DEF Message, EntityId, NoEntity
<1>3. \A v \in Doomed(world') : ~ (m.msg = "EntityKilled" /\ m.victim = v)
  BY <1>1
<1>4. Tail(bus) = Tail(bus) \o <<>> /\ <<>> \in Seq(Message) /\ Tail(bus) \in Seq(Message)
  BY <1>1
<1>6. ASSUME NEW r \in Seq(Message), bus' = Tail(bus) \o r,
             Doomed(world') \subseteq Doomed(world)
      PROVE  DoomedAreTold' /\ QueuesOK'
  <2> DEFINE dead == {}
  <2>1. /\ Doomed(world') \subseteq Doomed(world) \cup dead
        /\ \A v \in dead : Told(r, v)
        /\ \A v \in Doomed(world') \ dead : ~ (m.msg = "EntityKilled" /\ m.victim = v)
    BY <1>3, <1>6
  <2> HIDE DEF dead
  <2> QED BY <1>1, <1>6, <2>1, HeadHandled
<1>5. ASSUME bus' = Tail(bus), Doomed(world') \subseteq Doomed(world)
      PROVE  DoomedAreTold' /\ QueuesOK'
  BY <1>4, <1>5, <1>6
<1>7. CASE world' = world /\ bus' = Tail(bus)
  BY <1>5, <1>7
<1>8. CASE IsValid(world, m.by) /\ FireLaser(m)
  <2>1. CASE UNCHANGED world /\ bus' = Tail(bus)
    BY <1>7, <2>1
  <2>2. ASSUME NEW e \in Shootable(m.by), NEW flag \in Flagged(m.by),
               world' = Hurt(world, e, 1),
               bus' = Tail(bus) \o flag \o IF Dies(world, e, 1)
                                          THEN <<Killed(e, m.by.index)>> ELSE <<>>
        PROVE  DoomedAreTold' /\ QueuesOK'
    <3> DEFINE k == IF Dies(world, e, 1) THEN <<Killed(e, m.by.index)>> ELSE <<>>
               dead == IF Dies(world, e, 1) THEN {e} ELSE {}
               r == flag \o k
    <3>1. e \in EntityId /\ IsValid(world, e)
      BY <1>1, <2>2, PickedIsLive DEF Shootable
    <3>2. flag \in Seq(Message) /\ k \in Seq(Message)
      <4>1. Killed(e, m.by.index) \in Message
        BY <1>2, <3>1, Messages
      <4> QED BY <1>2, <2>2, <4>1, Messages
    <3>3. \A v \in dead : Told(k, v)
      BY ToldIt
    <3>4. Doomed(world') \subseteq Doomed(world) \cup dead
      BY <1>1, <2>2, <3>1, HurtSpares
    <3>5. bus' = Tail(bus) \o r /\ r \in Seq(Message)
      <4> HIDE DEF k
      <4>1. bus' = Tail(bus) \o flag \o k
        BY <2>2 DEF k
      <4> QED BY <1>4, <3>2, <4>1
    <3>6. \A v \in dead : Told(r, v)
      <4> HIDE DEF k, dead
      <4> QED BY <3>2, <3>3, ToldInBoth
    <3> HIDE DEF k, dead, r
    <3> QED BY <1>1, <1>3, <3>4, <3>5, <3>6, HeadHandled
  <2> QED BY <1>8, <2>1, <2>2 DEF FireLaser
<1>9. CASE IsValid(world, m.by) /\ FireMissile(m)
  <2>1. CASE UNCHANGED world /\ bus' = Tail(bus)
    BY <1>7, <2>1
  <2>2. CASE /\ LiveEntity(world, m.target) \in Combatants \ {m.by}
             /\ CanCreate(world)
             /\ world' = CreateWith(world, "hull",
                                    Missile(LiveEntity(world, m.target), m.by.index))
             /\ \E flag \in Flagged(m.by) : bus' = Tail(bus) \o flag
    <3> DEFINE c == Missile(LiveEntity(world, m.target), m.by.index)
    <3>1. c.kind \notin Ships
      BY DEF Missile, Ships
    <3>2. c \in HullType
      <4>1. LiveEntity(world, m.target) \in EntityId
        BY <1>1, <2>2, PickedIsLive DEF Combatants
      <4> QED BY <1>2, <4>1, EnergyAssumption DEF Missile, HullType
    <3>3. world' = CreateWith(world, "hull", c) /\ CanCreate(world)
      BY <2>2
    <3> HIDE DEF c
    <3>4. Doomed(world') \subseteq Doomed(world)
      BY <1>1, <3>1, <3>2, <3>3, CreateWithSpares
    <3>5. PICK flag \in Flagged(m.by) : bus' = Tail(bus) \o flag
      BY <2>2
    <3>6. flag \in Seq(Message)
      BY <1>2, <3>5, Messages
    <3> QED BY <1>6, <3>4, <3>5, <3>6
  <2> QED BY <1>9, <2>1, <2>2 DEF FireMissile
<1>10. ASSUME UNCHANGED world, NEW q \in Downed(m), NEW flag \in Flagged(m.by),
              bus' = Tail(bus) \o flag \o q
       PROVE  DoomedAreTold' /\ QueuesOK'
  <2>1. flag \in Seq(Message)
    BY <1>2, <1>10, Messages
  <2>2. q \in Seq(Message)
    <3>0. PICK S : /\ S \subseteq Of({"escort", "npc", "missile"})
                   /\ \E p \in Orderings(S) : q = [i \in DOMAIN p |-> Killed(p[i], m.by.index)]
      BY <1>10 DEF Downed, Of
    <3>1. PICK p \in Orderings(S) : q = [i \in DOMAIN p |-> Killed(p[i], m.by.index)]
      BY <3>0
    <3>2. S \in SUBSET EntityId /\ S \subseteq Living(world)
      BY <1>1, <3>0, PickedIsLive DEF Of
    <3>3. Cardinality(S) \in Nat /\ p \in [1 .. Cardinality(S) -> S]
      BY <1>1, <3>1, <3>2, OrderingsTell
    <3>4. \A i \in 1 .. Cardinality(S) : Killed(p[i], m.by.index) \in Message
      BY <1>2, <3>2, <3>3, Messages
    <3> QED BY <3>1, <3>3, <3>4
  <2>3. flag \o q \in Seq(Message) /\ bus' = Tail(bus) \o (flag \o q)
    BY <1>4, <1>10, <2>1, <2>2
  <2> QED BY <1>6, <1>10, <2>3
<1>11. CASE bus' = Tail(bus) /\ IsValid(world, m.by) /\ world' = Restored(world, m.by)
  <2>1. m.by \in EntityId
    BY <1>1, <1>2, <1>11, NoEntityInvalid
  <2>2. Doomed(world') \subseteq Doomed(world)
    BY <1>1, <1>11, <2>1, RestoredSpares
  <2> QED BY <1>5, <1>11, <2>2
<1> QED BY <1>7, <1>8, <1>9, <1>10, <1>11 DEF ResolveFireWeapon

\* The kill handler: whoever a report names is respawned or gone.
LEMMA KilledTells ==
  ASSUME Inv, QueuesOK, DoomedAreTold, OnEntityKilled
  PROVE  DoomedAreTold' /\ QueuesOK'
<1> DEFINE v == Head(bus).victim
<1>1. /\ bus # <<>> /\ Head(bus).msg = "EntityKilled" /\ bus \in Seq(Message) /\ Head(bus) \in Message
      /\ UNCHANGED kills /\ Good(world) /\ bus' = Tail(bus)
  BY DEF OnEntityKilled, Dispatching, QueuesOK, Inv
<1>2. v \in EntityId
  BY <1>1 DEF Message
<1>3. <<>> \in Seq(Message) /\ bus' = Tail(bus) \o <<>>
  BY <1>1
<1>4. ASSUME NEW w \in Dropped(world)
      PROVE  Good(w) /\ Doomed(w) \subseteq Doomed(world) /\ w.gen = world.gen
             /\ world.alive \subseteq w.alive
  <2>1. CASE w = world
    BY <1>1, <2>1
  <2>2. CASE CanCreate(world) /\ w = CreateWith(world, "hull", Debris)
    <3>1. Debris \in HullType /\ Debris.kind \notin Ships
      BY EnergyAssumption DEF Debris, Hull, HullType, Ships
    <3> QED BY <1>1, <1>4, <2>2, <3>1, CreateWithSpares, DropGood
  <2> QED BY <1>4, <2>1, <2>2 DEF Dropped
<1>5. Doomed(world') \subseteq Doomed(world) \ {v}
  <2>1. CASE Resolved(v) /\ UNCHANGED world
    BY <2>1 DEF Resolved, Doomed
  <2>2. ASSUME ~ Resolved(v), NEW w \in Dropped(world), world' = Respawned(w, v)
        PROVE  Doomed(world') \subseteq Doomed(world) \ {v}
    <3>1. Good(w) /\ IsValid(w, v)
      BY <1>4, <2>2 DEF Resolved, IsValid
    <3>2. Doomed(Restored(w, v)) \subseteq Doomed(w) \ {v} /\ Good(Restored(w, v))
      BY <1>2, <3>1, RestoredSpares, RestoredGood
    <3>3. Doomed(world') = Doomed(Restored(w, v))
      BY <2>2, <3>2, OrderSpares DEF Respawned
    <3> QED BY <1>4, <2>2, <3>2, <3>3
  <2>3. ASSUME NEW w \in Dropped(world), world' = Destroy(w, v)
        PROVE  Doomed(world') \subseteq Doomed(world) \ {v}
    BY <1>4, <2>3, DestroySpares
  <2>4. CASE world' = Destroy(world, v)
    BY <1>1, <2>4, DestroySpares
  <2> QED BY <2>1, <2>2, <2>3, <2>4 DEF OnEntityKilled
<1> DEFINE dead == {}
           none == <<>>
<1>6. /\ Doomed(world') \subseteq Doomed(world) \cup dead
      /\ \A x \in dead : Told(none, x)
      /\ \A x \in Doomed(world') \ dead : ~ (Head(bus).msg = "EntityKilled" /\ v = x)
      /\ none \in Seq(Message) /\ bus' = Tail(bus) \o none
  BY <1>3, <1>5
<1> HIDE DEF dead, none
<1> QED BY <1>1, <1>6, HeadHandled

\* A crime brings the police and no deaths.
LEMMA CrimeTells ==
  ASSUME Inv, QueuesOK, DoomedAreTold, OnCrime
  PROVE  DoomedAreTold' /\ QueuesOK'
<1>1. /\ bus # <<>> /\ Head(bus).msg = "Crime" /\ bus \in Seq(Message)
      /\ UNCHANGED kills /\ Good(world) /\ bus' = Tail(bus)
  BY DEF OnCrime, Dispatching, QueuesOK, Inv
<1> DEFINE c == Hull("npc", NoSession)
<1>2. c \in HullType /\ c.energy # 0
  BY EnergyAssumption DEF Hull, HullType, Ships
<1>3. Doomed(world') \subseteq Doomed(world)
  <2> HIDE DEF c
  <2>1. world' = world \/ (CanCreate(world) /\ world' = CreateWith(world, "hull", c))
    BY DEF OnCrime, c
  <2> QED BY <1>1, <1>2, <2>1, CreateWithSpares
<1> DEFINE dead == {}
           none == <<>>
<1>4. /\ Doomed(world') \subseteq Doomed(world) \cup dead
      /\ \A x \in dead : Told(none, x)
      /\ \A x \in Doomed(world') \ dead : ~ (Head(bus).msg = "EntityKilled" /\ Head(bus).victim = x)
      /\ none \in Seq(Message) /\ bus' = Tail(bus) \o none
  BY <1>1, <1>3
<1> HIDE DEF dead, none
<1> QED BY <1>1, <1>4, HeadHandled

\* Reports are only ever added, outside the dispatch.
LEMMA NothingLost ==
  ASSUME QueuesOK, DoomedAreTold, Doomed(world') \subseteq Doomed(world),
         NEW r \in Seq(Message), NEW s \in Seq(Message),
         bus' = bus \o r, kills' = kills \o s
  PROVE  DoomedAreTold' /\ QueuesOK'
<1>1. bus' \in Seq(Message) /\ kills' \in Seq(Message)
  BY DEF QueuesOK
<1>2. \A v : (Told(bus, v) => Told(bus', v)) /\ (Told(kills, v) => Told(kills', v))
  BY ToldInBoth DEF QueuesOK
<1> QED BY <1>1, <1>2, NobodyDoomed DEF QueuesOK

LEMMA NothingMoved ==
  ASSUME QueuesOK, DoomedAreTold, Doomed(world') \subseteq Doomed(world), UNCHANGED <<bus, kills>>
  PROVE  DoomedAreTold' /\ QueuesOK'
BY NobodyDoomed DEF QueuesOK

\* A missile's step: whom it kills it reports.
LEMMA MissileTells ==
  ASSUME Inv, TodoOK, QueuesOK, DoomedAreTold, StepMissile
  PROVE  DoomedAreTold' /\ QueuesOK'
<1>1. PICK m \in todo :
        LET c == Get(world, "hull", m) IN
          \/ world' = Destroy(world, m) /\ UNCHANGED kills
          \/ kills' = Append(kills, Killed(m, c.lock.index)) /\ UNCHANGED world
          \/ Detonate(m, c)
          \/ UNCHANGED <<world, kills>>
  BY DEF StepMissile
<1>2. /\ m \in EntityId /\ IsValid(world, m) /\ Good(world) /\ UNCHANGED bus
      /\ bus \in Seq(Message) /\ kills \in Seq(Message)
  BY <1>1 DEF StepMissile, TodoOK, Inv, QueuesOK
<1> DEFINE c == Get(world, "hull", m)
<1>3. c \in HullType
  BY <1>2 DEF IsValid, Get, Good, World
<1>4. /\ c.lock \in EntityId \cup {NoEntity} /\ c.lock.index \in Slot \cup {NoSlot}
      /\ c.from \in Slot \cup {NoSlot}
  BY <1>3 DEF HullType, EntityId, NoEntity
<1>5. <<>> \in Seq(Message) /\ bus' = bus \o <<>>
  BY <1>2
<1>6. CASE world' = Destroy(world, m) /\ UNCHANGED kills
  <2>1. Doomed(world') \subseteq Doomed(world)
    BY <1>2, <1>6, DestroySpares
  <2> QED BY <1>2, <1>6, <2>1, NothingMoved
<1>7. CASE kills' = Append(kills, Killed(m, c.lock.index)) /\ UNCHANGED world
  <2> DEFINE s == <<Killed(m, c.lock.index)>>
  <2>1. s \in Seq(Message)
    BY <1>2, <1>4, Messages
  <2>2. kills' = kills \o s
    BY <1>2, <1>7
  <2> HIDE DEF s, c
  <2> QED BY <1>5, <1>7, <2>1, <2>2, NothingLost
<1>8. CASE UNCHANGED <<world, kills>>
  BY <1>2, <1>8, NothingMoved
<1>9. CASE Detonate(m, c)
  <2> DEFINE hit == /\ Has(world, "hull", c.lock) /\ KindOf(c.lock) \in Ships
                    /\ Get(world, "hull", c.lock).invulnTicks = 0
             dead == IF hit /\ Dies(world, c.lock, Missiles) THEN {c.lock} ELSE {}
             k == IF hit /\ Dies(world, c.lock, Missiles) THEN <<Killed(c.lock, c.from)>> ELSE <<>>
             s == <<Killed(m, c.from)>>
  <2>1. /\ IsValid(world, c.lock)
        /\ world' = IF hit THEN Hurt(world, c.lock, Missiles) ELSE world
        /\ kills' = kills \o k \o s
    BY <1>9 DEF Detonate
  <2>2. c.lock \in EntityId
    BY <1>2, <1>4, <2>1, NoEntityInvalid
  <2>3. k \in Seq(Message) /\ s \in Seq(Message) /\ \A v \in dead : Told(k, v)
    <3>1. Killed(c.lock, c.from) \in Message /\ Killed(m, c.from) \in Message
      BY <1>2, <1>4, <2>2, Messages
    <3> QED BY <3>1, ToldIt
  <2>4. Doomed(world') \subseteq Doomed(world) \cup dead
    <3>1. Doomed(Hurt(world, c.lock, Missiles)) \subseteq
            Doomed(world) \cup (IF Dies(world, c.lock, Missiles) THEN {c.lock} ELSE {})
      BY <1>2, <2>1, <2>2, HurtSpares, EnergyAssumption
    <3> QED BY <2>1, <3>1
  <2> HIDE DEF dead, k, s, c
  <2>5. kills' = kills \o (k \o s) /\ k \o s \in Seq(Message) /\ kills' \in Seq(Message)
    BY <1>2, <2>1, <2>3
  <2>6. ASSUME NEW v \in Doomed(world') PROVE Told(bus', v) \/ Told(kills', v)
    <3>1. v \in dead => Told(k \o s, v)
      BY <2>3, ToldInBoth
    <3>2. v \in dead => Told(kills', v)
      BY <1>2, <2>5, <3>1, ToldInBoth
    <3>3. v \notin dead => Told(bus, v) \/ Told(kills, v)
      BY <2>4, <2>6 DEF DoomedAreTold
    <3>4. Told(kills, v) => Told(kills', v)
      BY <1>2, <2>5, ToldInBoth
    <3> QED BY <1>2, <3>2, <3>3, <3>4
  <2> QED BY <1>2, <2>5, <2>6 DEF DoomedAreTold, QueuesOK
<1> QED BY <1>1, <1>6, <1>7, <1>8, <1>9

Flying == QueuesOK /\ DoomedAreTold /\ KillsAreSent

\* What players ask for puts commands on the bus and healthy ships into the world.
LEMMA RequestTells ==
  ASSUME Inv, Flying, NEW s \in Session,
         FrontDoor(s) \/ HandleBuyEscort(s) \/ HandleAbilityRequest(s) \/ HandleUnitOrder(s)
           \/ Reap(s)
  PROVE  DoomedAreTold' /\ QueuesOK'
<1>1. /\ Good(world) /\ QueuesOK /\ DoomedAreTold /\ bus \in Seq(Message) /\ kills \in Seq(Message)
      /\ <<>> \in Seq(Message) /\ kills = kills \o <<>>
  BY DEF Inv, Flying, QueuesOK
<1>2. \A k \in {"player", "escort"} : Hull(k, s) \in HullType /\ Hull(k, s).energy # 0
  BY EnergyAssumption DEF Hull, HullType, Ships
<1>3. CASE FrontDoor(s)
  <2>1. Doomed(world') \subseteq Doomed(world)
    BY <1>1, <1>2, <1>3, CreateWithSpares DEF FrontDoor
  <2> QED BY <1>1, <1>3, <2>1, NothingMoved DEF FrontDoor
<1>4. CASE HandleBuyEscort(s)
  <2> DEFINE w == CreateWith(world, "hull", Hull("escort", s))
  <2>1. Good(w) /\ Doomed(w) \subseteq Doomed(world)
    BY <1>1, <1>2, <1>4, CreateWithGood, CreateWithSpares DEF HandleBuyEscort
  <2>2. Doomed(world') = Doomed(w)
    <3>1. world' = Add(w, "order", NewId(world), [target |-> ship[s].index])
      BY <1>4 DEF HandleBuyEscort
    <3> HIDE DEF w
    <3> QED BY <2>1, <3>1, OrderSpares
  <2>3. UNCHANGED <<bus, kills>>
    BY <1>4 DEF HandleBuyEscort
  <2> HIDE DEF w
  <2> QED BY <1>1, <2>1, <2>2, <2>3, NothingMoved
<1>5. CASE HandleAbilityRequest(s)
  <2>1. PICK weapon \in {"Missile", "Ecm", "EnergyBomb", "EscapePod"}, target \in Slot :
          bus' = Append(bus, Fire(ship[s], weapon, target))
    BY <1>5 DEF HandleAbilityRequest
  <2>2. ship[s] \in EntityId \cup {NoEntity}
    BY DEF Inv, ShipsOK
  <2> DEFINE r == <<Fire(ship[s], weapon, target)>>
  <2>3. r \in Seq(Message)
    BY <2>1, <2>2, Messages DEF Weapons
  <2>4. bus' = bus \o r
    BY <1>1, <2>1
  <2>5. world' = world /\ kills' = kills \o <<>> /\ Doomed(world') \subseteq Doomed(world)
    BY <1>1, <1>5 DEF HandleAbilityRequest
  <2> HIDE DEF r
  <2> QED BY <1>1, <2>3, <2>4, <2>5, NothingLost
<1>6. CASE HandleUnitOrder(s)
  <2>1. PICK flag \in Flagged(ship[s]) : bus' = bus \o flag
    BY <1>6 DEF HandleUnitOrder
  <2>2. flag \in Seq(Message)
    BY <2>1, Messages DEF Inv, ShipsOK
  <2>3. world' = world /\ kills' = kills \o <<>> /\ Doomed(world') \subseteq Doomed(world)
    BY <1>1, <1>6 DEF HandleUnitOrder
  <2> QED BY <1>1, <2>1, <2>2, <2>3, NothingLost
<1>7. CASE Reap(s)
  <2>1. Good(Destroy(world, escort[s])) /\ Doomed(Destroy(world, escort[s])) \subseteq Doomed(world)
    BY <1>1, DestroyGood, DestroySpares
  <2>2. Doomed(world') \subseteq Doomed(world)
    BY <1>7, <2>1, DestroySpares DEF Reap
  <2> QED BY <1>1, <1>7, <2>2, NothingMoved DEF Reap
<1> QED BY <1>3, <1>4, <1>5, <1>6, <1>7

\* The simulation and the phases of the tick.
LEMMA SimulationTells ==
  ASSUME Inv, Flying,
         StepOrders \/ Fired \/ StepAi \/ SpawnPirate \/ StartMissiles \/ ResolveKills
           \/ Resolve \/ LootAndScoop \/ EndTick \/ UNCHANGED vars
  PROVE  DoomedAreTold' /\ QueuesOK'
<1>1. /\ Good(world) /\ QueuesOK /\ DoomedAreTold /\ bus \in Seq(Message) /\ kills \in Seq(Message)
      /\ <<>> \in Seq(Message) /\ kills = kills \o <<>>
  BY DEF Inv, Flying, QueuesOK
<1>2. CASE StepOrders
  <2>1. PICK F \in SUBSET Ordered : \E q \in Orderings(F) :
               bus' = bus \o [i \in DOMAIN q |-> Fire(q[i], "Laser", NoSlot)]
    BY <1>2 DEF StepOrders
  <2>2. PICK q \in Orderings(F) : bus' = bus \o [i \in DOMAIN q |-> Fire(q[i], "Laser", NoSlot)]
    BY <2>1
  <2>3. F \in SUBSET EntityId /\ F \subseteq Living(world)
    BY <1>1, <2>1, PickedIsLive DEF Of, Ordered
  <2>4. Cardinality(F) \in Nat /\ q \in [1 .. Cardinality(F) -> F]
    BY <1>1, <2>2, <2>3, OrderingsTell
  <2> DEFINE r == [i \in DOMAIN q |-> Fire(q[i], "Laser", NoSlot)]
  <2>5. r \in Seq(Message)
    <3>1. \A i \in 1 .. Cardinality(F) : Fire(q[i], "Laser", NoSlot) \in Message
      BY <2>3, <2>4, Messages DEF Weapons
    <3> QED BY <2>4, <3>1
  <2>6. world' = world /\ kills' = kills \o <<>> /\ Doomed(world') \subseteq Doomed(world)
    BY <1>1, <1>2 DEF StepOrders
  <2>7. bus' = bus \o r
    BY <2>2
  <2> HIDE DEF r
  <2> QED BY <1>1, <2>5, <2>6, <2>7, NothingLost
<1>3. CASE Fired \/ StartMissiles \/ Resolve \/ EndTick \/ UNCHANGED vars
  <2>1. UNCHANGED <<world, bus, kills>>
    BY <1>3 DEF Fired, StartMissiles, Resolve, EndTick, vars
  <2> QED BY <1>1, <2>1, NothingMoved
<1>4. CASE StepAi
  <2>1. PICK e \in Of({"npc"}) :
          \/ world' = Destroy(world, e)
          \/ \E target \in Combatants \ {e} :
               CanCreate(world) /\ world' = CreateWith(world, "hull", Missile(target, e.index))
    BY <1>4 DEF StepAi
  <2>2. ASSUME NEW target \in Combatants, CanCreate(world),
               world' = CreateWith(world, "hull", Missile(target, e.index))
        PROVE  Doomed(world') \subseteq Doomed(world)
    <3>1. Missile(target, e.index) \in HullType /\ Missile(target, e.index).kind \notin Ships
      BY <1>1, PickedIsLive, EnergyAssumption DEF Missile, HullType, Combatants, EntityId, Ships
    <3> QED BY <1>1, <2>2, <3>1, CreateWithSpares
  <2>3. Doomed(world') \subseteq Doomed(world)
    BY <1>1, <2>1, <2>2, DestroySpares
  <2> QED BY <1>1, <1>4, <2>3, NothingMoved DEF StepAi
<1>5. CASE SpawnPirate
  <2>1. Hull("npc", NoSession) \in HullType /\ Hull("npc", NoSession).energy # 0
    BY EnergyAssumption DEF Hull, HullType, Ships
  <2>2. Doomed(world') \subseteq Doomed(world)
    BY <1>1, <1>5, <2>1, CreateWithSpares DEF SpawnPirate
  <2> QED BY <1>1, <1>5, <2>2, NothingMoved DEF SpawnPirate
<1>6. CASE ResolveKills
  <2>1. bus' = bus \o kills /\ kills' = <<>> /\ world' = world
    BY <1>6 DEF ResolveKills
  <2>2. \A v : Told(bus, v) \/ Told(kills, v) => Told(bus', v)
    BY <1>1, <2>1, ToldInBoth
  <2>3. bus' \in Seq(Message) /\ kills' \in Seq(Message)
    BY <1>1, <2>1
  <2> QED BY <1>1, <2>1, <2>2, <2>3 DEF DoomedAreTold, QueuesOK
<1>7. CASE LootAndScoop
  <2>1. Doomed(world') \subseteq Doomed(world)
    BY <1>1, <1>7, DestroySpares DEF LootAndScoop
  <2> QED BY <1>1, <1>7, <2>1, NothingMoved DEF LootAndScoop
<1> QED BY <1>2, <1>3, <1>4, <1>5, <1>6, <1>7

\* Combat, collisions and heat: each reports those it strikes dead.
LEMMA StrikesTell ==
  ASSUME Inv, Flying, StepCombat \/ StepCollisions \/ StepCabinHeat
  PROVE  DoomedAreTold' /\ QueuesOK'
<1>1. Good(world) /\ QueuesOK /\ DoomedAreTold
  BY DEF Inv, Flying
<1>2. \A e \in Combatants : e \in EntityId /\ e.index \in Slot
  BY <1>1, PickedIsLive DEF Combatants, EntityId
<1>3. CASE StepCombat
  <2>1. PICK S \in SUBSET Vulnerable, R \in SUBSET Immune : \E k \in [S -> Slot] : Struck(S, k, R)
    BY <1>3 DEF StepCombat
  <2>2. PICK k \in [S -> Slot] : Struck(S, k, R)
    BY <2>1
  <2>3. S \cap R = {} /\ S \subseteq Combatants /\ R \subseteq Combatants
    <3>1. \A e \in Vulnerable \cap Immune : world.pool["hull"][e.index].invulnTicks \in Nat
      BY <1>1, PickedIsLive DEF Vulnerable, Combatants, HullType
    <3> QED BY <2>1, <3>1 DEF Vulnerable, Immune, Get
  <2> QED BY <1>1, <1>3, <2>2, <2>3, StruckTells DEF StepCombat
<1>4. CASE StepCollisions
  <2>1. PICK S \in SUBSET Combatants : Struck(S, [v \in S |-> NoSlot], {})
    BY <1>4 DEF StepCollisions, Vulnerable
  <2> DEFINE k == [v \in S |-> NoSlot]
             R == {}
  <2>2. /\ \A v \in S : k[v] \in Slot \cup {NoSlot}
        /\ Struck(S, k, R) /\ S \cap R = {} /\ R \in SUBSET Combatants
    BY <2>1
  <2>3. UNCHANGED bus
    BY <1>4 DEF StepCollisions
  <2> HIDE DEF k, R
  <2> QED BY <1>1, <2>2, <2>3, StruckTells
<1>5. CASE StepCabinHeat
  <2>1. PICK S \in SUBSET Combatants : Struck(S, [v \in S |-> v.index], {})
    BY <1>5 DEF StepCabinHeat, Vulnerable
  <2> DEFINE k == [v \in S |-> v.index]
             R == {}
  <2>2. /\ \A v \in S : k[v] \in Slot \cup {NoSlot}
        /\ Struck(S, k, R) /\ S \cap R = {} /\ R \in SUBSET Combatants
    BY <1>2, <2>1
  <2>3. UNCHANGED bus
    BY <1>5 DEF StepCabinHeat
  <2> HIDE DEF k, R
  <2> QED BY <1>1, <2>2, <2>3, StruckTells
<1> QED BY <1>3, <1>4, <1>5

\* Kills are collected from the missiles on and are all sent before the bus runs.
LEMMA KillsKept ==
  ASSUME KillsAreSent, [Next]_vars
  PROVE  KillsAreSent'
BY DEF KillsAreSent, Next, vars, FrontDoor, HandleBuyEscort, HandleAbilityRequest,
     HandleUnitOrder, Reap, RecordOrder, ResolveFireWeapon, OnCrime, OnEntityKilled,
     StepOrders, Fired, StepAi, SpawnPirate, StartMissiles, StepMissile, StepCombat,
     StepCollisions, StepCabinHeat, ResolveKills, Resolve, LootAndScoop, EndTick

LEMMA FlyingKept ==
  ASSUME Inv, TodoOK, Flying, [Next]_vars
  PROVE  Flying'
<1>1. QueuesOK /\ DoomedAreTold /\ KillsAreSent'
  BY KillsKept DEF Flying
<1>2. DoomedAreTold' /\ QueuesOK'
  <2>1. ASSUME NEW s \in Session,
               FrontDoor(s) \/ HandleBuyEscort(s) \/ HandleAbilityRequest(s) \/ HandleUnitOrder(s)
                 \/ Reap(s)
        PROVE  DoomedAreTold' /\ QueuesOK'
    BY <2>1, RequestTells
  <2>2. CASE RecordOrder
    <3>1. Doomed(world') \subseteq Doomed(world)
      BY <2>2, OrderSpares DEF RecordOrder, Inv
    <3> QED BY <1>1, <2>2, <3>1, NothingMoved DEF RecordOrder
  <2>3. CASE ResolveFireWeapon \/ OnCrime \/ OnEntityKilled
    BY <1>1, <2>3, FireTells, CrimeTells, KilledTells
  <2>4. CASE StepMissile
    BY <1>1, <2>4, MissileTells
  <2>5. CASE StepCombat \/ StepCollisions \/ StepCabinHeat
    BY <2>5, StrikesTell
  <2>6. CASE StepOrders \/ Fired \/ StepAi \/ SpawnPirate \/ StartMissiles \/ ResolveKills
               \/ Resolve \/ LootAndScoop \/ EndTick \/ UNCHANGED vars
    BY <2>6, SimulationTells
  <2> QED BY <2>1, <2>2, <2>3, <2>4, <2>5, <2>6 DEF Next
<1> QED BY <1>1, <1>2 DEF Flying

\* Whoever takes a ship's last energy, in whatever order, its report is not lost:
\* when the tick's bus has run dry no ship flies on without energy
\* (GameServer.cpp ResolveKills, OnEntityKilled).
THEOREM NobodyWalksDead == Spec => []NoWalkingDead
<1>1. Init => TodoOK /\ Flying
  <2> SUFFICES ASSUME Init PROVE TodoOK /\ Flying
    OBVIOUS
  <2>1. Doomed(world) = {}
    BY DEF Init, EmptyWorld, Doomed, IsValid
  <2>2. phase = "requests" /\ bus = <<>> /\ kills = <<>>
    BY DEF Init
  <2>3. QueuesOK /\ DoomedAreTold /\ KillsAreSent
    BY <2>1, <2>2 DEF QueuesOK, DoomedAreTold, KillsAreSent
  <2> QED BY <2>2, <2>3 DEF Flying, TodoOK
<1>2. Inv /\ TodoOK /\ Flying /\ [Next]_vars => (TodoOK /\ Flying)'
  BY TodoKept, FlyingKept
<1>3. Inv /\ Flying => NoWalkingDead
  <2> SUFFICES ASSUME Inv, Flying, phase = "requests", bus = <<>>, NEW e \in Combatants
               PROVE  Get(world, "hull", e).energy > 0
    BY DEF NoWalkingDead
  <2>1. /\ IsValid(world, e) /\ e \in EntityId /\ world.pool["hull"][e.index] \in HullType
        /\ world.pool["hull"][e.index].kind \in Ships
    BY PickedIsLive DEF Inv, Combatants, Of, KindOf, Get
  <2>2. kills = <<>> /\ DoomedAreTold
    BY DEF Flying, KillsAreSent
  <2>3. e \notin Doomed(world)
    BY <2>2 DEF DoomedAreTold, Told
  <2>4. world.pool["hull"][e.index].energy \in Nat
    BY <2>1, EnergyAssumption DEF HullType
  <2> QED BY <2>1, <2>3, <2>4 DEF Doomed, Get
<1> QED BY <1>1, <1>2, <1>3, Invariance, PTL DEF Spec
=============================================================================
