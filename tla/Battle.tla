------------------------------- MODULE Battle -------------------------------
(***************************************************************************)
(* One tick of the game server as far as ships shoot, die and are replaced *)
(* (src/Server/GameServer.cpp RunTick): the requests that publish commands *)
(* on the message bus, the simulation, the weapon systems that report      *)
(* kills, and the handler that resolves each report, all over the entity   *)
(* registry, whose slots are reused.                                       *)
(*                                                                         *)
(* Geometry, chance and cooldowns decide who hits whom: every outcome is   *)
(* allowed.  Energy is small.  "npc" stands for pirates, police and        *)
(* traders; a session has at most one escort.  The steps between two       *)
(* dispatches are sequential code and are split only where they loop.      *)
(***************************************************************************)
EXTENDS EcsOps, FiniteSets

CONSTANTS
  Session,      \* the players that may be connected
  NoSession,
  MaxEnergy,
  Missiles,     \* energy a missile takes; a laser, a ram or the sun takes one
  MaxNpcs,   \* the spawn director's cap
  MaxFired      \* bound: commands a tick's requests publish

ASSUME PoolsAssumption == Pools = {"hull", "order"}
ASSUME EnergyAssumption == MaxEnergy \in Nat \ {0} /\ Missiles \in Nat \ {0}

VARIABLES
  world,     \* the registry with its pools
  ship,      \* session -> its primary entity
  escort,    \* session -> its escort, as the ownership index has it
  bus,       \* the message bus
  pending,   \* the attack order HandleUnitOrder adds after its dispatch
  phase,     \* where in the tick the server is
  todo,      \* the missiles StepMissiles has still to step
  kills,     \* the kills collected for the bus
  felled,    \* history: how often a ship without a player was resolved as killed
  deaths     \* history: session -> its deaths in this tick

vars == <<world, ship, escort, bus, pending, phase, todo, kills, felled, deaths>>

-----------------------------------------------------------------------------
(* Components.  A hull is a Combatant or a missile; loot is debris.        *)

Ships == {"player", "escort", "npc"}
HullType ==
  [kind : Ships \cup {"missile", "debris"}, of : Session \cup {NoSession},
   energy : 0 .. MaxEnergy, invulnTicks : 0 .. 1,
   lock : EntityId \cup {NoEntity}, from : Slot \cup {NoSlot}]
OrderType == [target : Slot]

Hull(k, s) == [kind |-> k, of |-> s, energy |-> MaxEnergy, invulnTicks |-> 0,
               lock |-> NoEntity, from |-> NoSlot]
Missile(lock, from) ==
  [kind |-> "missile", of |-> NoSession, energy |-> 0, invulnTicks |-> 0,
   lock |-> lock, from |-> from]
Debris == Hull("debris", NoSession)

KindOf(e) == Get(world, "hull", e).kind
Of(kinds) == {e \in Living(world) : Has(world, "hull", e) /\ KindOf(e) \in kinds}
Combatants == Of(Ships)
Player(e) == Has(world, "hull", e) /\ KindOf(e) = "player"

Fire(by, weapon, target) ==
  [msg |-> "FireWeapon", by |-> by, weapon |-> weapon, target |-> target]
Crime(offender) == [msg |-> "Crime", by |-> offender]
Killed(victim, killer) == [msg |-> "EntityKilled", victim |-> victim, killer |-> killer]

\* FlagIfCrime: a first offence against the law is published, or there is none.
Flagged(offender) == {<<>>, <<Crime(offender)>>}

\* The order in which a pool is walked depends on what was removed before.
Orderings(S) ==
  {q \in [1 .. Cardinality(S) -> S] : \A i, j \in DOMAIN q : q[i] = q[j] => i = j}

Nobody == [s \in Session |-> NoEntity]

Init ==
  /\ world = EmptyWorld
  /\ ship = Nobody /\ escort = Nobody
  /\ bus = <<>> /\ pending = <<>> /\ kills = <<>>
  /\ phase = "requests" /\ todo = {}
  /\ felled = [h \in Slot \X (0 .. MaxGen) |-> 0] /\ deaths = [s \in Session |-> 0]

-----------------------------------------------------------------------------
(* Requests.                                                               *)

FrontDoor(s) ==
  /\ phase = "requests" /\ ship[s] = NoEntity /\ CanCreate(world)
  /\ world' = CreateWith(world, "hull", Hull("player", s))
  /\ ship' = [ship EXCEPT ![s] = NewId(world)]
  /\ UNCHANGED <<escort, bus, pending, phase, todo, kills, felled, deaths>>

HandleBuyEscort(s) ==
  /\ phase = "requests" /\ ship[s] # NoEntity /\ escort[s] = NoEntity
  /\ CanCreate(world)
  /\ world' = Add(CreateWith(world, "hull", Hull("escort", s)), "order", NewId(world),
                  [target |-> ship[s].index])
  /\ escort' = [escort EXCEPT ![s] = NewId(world)]
  /\ UNCHANGED <<ship, bus, pending, phase, todo, kills, felled, deaths>>

HandleAbilityRequest(s) ==
  /\ phase = "requests" /\ IsValid(world, ship[s]) /\ Len(bus) < MaxFired
  /\ \E weapon \in {"Missile", "Ecm", "EnergyBomb", "EscapePod"}, target \in Slot :
       /\ weapon # "Missile" => target = 0
       /\ bus' = Append(bus, Fire(ship[s], weapon, target))
  /\ UNCHANGED <<world, ship, escort, pending, phase, todo, kills, felled, deaths>>

\* PlanUnitOrder: an Attack order of the owner's ship or escort.
OrderPlan(s, unit, target) ==
  /\ Has(world, "hull", unit) /\ Get(world, "hull", unit).of = s
  /\ LiveEntity(world, target) \in Combatants
  /\ target # unit.index

HandleUnitOrder(s) ==
  /\ phase = "requests"
  /\ \E i, target \in Slot :
       /\ OrderPlan(s, LiveEntity(world, i), target)
       /\ pending' = <<[unit |-> LiveEntity(world, i), target |-> target]>>
  /\ \E flag \in Flagged(ship[s]) : bus' = bus \o flag
  /\ phase' = "ordering"
  /\ UNCHANGED <<world, ship, escort, todo, kills, felled, deaths>>

\* The order is recorded after the dispatch, whatever the dispatch did.
RecordOrder ==
  /\ phase = "ordering" /\ bus = <<>>
  /\ world' = Add(world, "order", pending[1].unit, [target |-> pending[1].target])
  /\ pending' = <<>>
  /\ phase' = "requests"
  /\ UNCHANGED <<ship, escort, bus, todo, kills, felled, deaths>>

-----------------------------------------------------------------------------
(* The bus: Dispatch takes the oldest message and runs its subscriber.     *)

Dispatching == phase \in {"ordering", "firing", "resolving"} /\ bus # <<>>

\* Legal laser targets: not one's own team, but any other player.
Shootable(by) == {e \in Of({"player", "npc"}) : e # by}

Less(energy, damage) == IF energy > damage THEN energy - damage ELSE 0
Wounded(h, damage) == [h EXCEPT !.energy = Less(@, damage)]
Hurt(w, e, damage) == [w EXCEPT !.pool["hull"][e.index] = Wounded(@, damage)]
DiesBelow(w, e, damage) == Get(w, "hull", e).energy < damage    \* mutant
Dies(w, e, damage) == Get(w, "hull", e).energy <= damage

FireLaser(m) ==
  \/ UNCHANGED world /\ bus' = Tail(bus)         \* overheated, a miss, or grace
  \/ \E e \in Shootable(m.by) :
       /\ Get(world, "hull", e).invulnTicks = 0
       /\ world' = Hurt(world, e, 1)
       /\ \E flag \in Flagged(m.by) :
            bus' = Tail(bus) \o flag \o IF Dies(world, e, 1)
                                       THEN <<Killed(e, m.by.index)>> ELSE <<>>

FireMissile(m) ==
  \/ UNCHANGED world /\ bus' = Tail(bus)         \* no lock, or the rack is empty
  \/ /\ LiveEntity(world, m.target) \in Combatants \ {m.by}
     /\ CanCreate(world)
     /\ world' = CreateWith(world, "hull",
                            Missile(LiveEntity(world, m.target), m.by.index))
     /\ \E flag \in Flagged(m.by) : bus' = Tail(bus) \o flag

Downed(m) ==
  LET reach == IF m.weapon = "Ecm" THEN Of({"missile"})
                                   ELSE Of({"escort", "npc", "missile"})
  IN  {[i \in DOMAIN q |-> Killed(q[i], m.by.index)] :
         q \in UNION {Orderings(S) : S \in SUBSET reach}}

\* Energy restored and the grace of a respawn, as a death or the pod leaves it.
Fresh(h) == [h EXCEPT !.energy = MaxEnergy, !.invulnTicks = 1]
Restored(w, v) == [w EXCEPT !.pool["hull"][v.index] = Fresh(@)]

ResolveFireWeapon ==
  /\ Dispatching /\ Head(bus).msg = "FireWeapon"
  /\ LET m == Head(bus) IN
       IF ~ IsValid(world, m.by) THEN UNCHANGED world /\ bus' = Tail(bus)
       ELSE \/ m.weapon = "Laser" /\ FireLaser(m)
            \/ m.weapon = "Missile" /\ FireMissile(m)
            \/ /\ m.weapon \in {"Ecm", "EnergyBomb"}
               /\ UNCHANGED world
               /\ \E q \in Downed(m), flag \in Flagged(m.by) :
                    /\ flag # <<>> => m.weapon = "EnergyBomb" /\ q # <<>>
                    /\ bus' = Tail(bus) \o flag \o q
            \/ /\ m.weapon = "EscapePod" /\ bus' = Tail(bus)
               /\ world' \in {world, Restored(world, m.by)}       \* no pod, or out of it
  /\ UNCHANGED <<ship, escort, pending, phase, todo, kills, felled, deaths>>

\* DropPlayerCargo and DropLoot: some debris, or none.
Dropped(w) == {w} \cup IF CanCreate(w) THEN {CreateWith(w, "hull", Debris)} ELSE {}

Respawned(w, v) == Remove(Restored(w, v), "order", v)

\* The police is dispatched: two ships in the code, one here.
OnCrime ==
  /\ Dispatching /\ Head(bus).msg = "Crime"
  /\ bus' = Tail(bus)
  /\ IF IsValid(world, Head(bus).by) /\ CanCreate(world)
     THEN world' = CreateWith(world, "hull", Hull("npc", NoSession))
     ELSE UNCHANGED world
  /\ UNCHANGED <<ship, escort, pending, phase, todo, kills, felled, deaths>>

\* What the kill handler takes for "already resolved".
Resolved(v) == ~ IsValid(world, v)

OnEntityKilled ==
  /\ Dispatching /\ Head(bus).msg = "EntityKilled"
  /\ bus' = Tail(bus)
  /\ LET v == Head(bus).victim IN
     \/ Resolved(v) /\ UNCHANGED <<world, felled, deaths>>
     \/ /\ ~ Resolved(v) /\ Player(v)
        /\ \E w \in Dropped(world) : world' = Respawned(w, v)
        /\ deaths' = [deaths EXCEPT ![Get(world, "hull", v).of] = @ + 1]
        /\ UNCHANGED felled
     \/ /\ ~ Resolved(v) /\ ~ Player(v) /\ v \in Combatants
        /\ \E w \in Dropped(world) : world' = Destroy(w, v)
        /\ felled' = [felled EXCEPT ![<<v.index, v.gen>>] = @ + 1]
        /\ UNCHANGED deaths
     \/ /\ ~ Resolved(v) /\ ~ Player(v) /\ v \notin Combatants
        /\ world' = Destroy(world, v)
        /\ UNCHANGED <<felled, deaths>>
  /\ UNCHANGED <<ship, escort, pending, phase, todo, kills>>

-----------------------------------------------------------------------------
(* The simulation.                                                         *)

\* StepOrders: a ship that is flown by a player and aims at its target fires.
Ordered ==
  {e \in Of({"player"}) :
     /\ Has(world, "order", e)
     /\ LiveEntity(world, Get(world, "order", e).target) # NoEntity}

StepOrders ==
  /\ phase = "requests"
  /\ \E F \in SUBSET Ordered : \E q \in Orderings(F) :
       bus' = bus \o [i \in DOMAIN q |-> Fire(q[i], "Laser", NoSlot)]
  /\ phase' = "firing"
  /\ UNCHANGED <<world, ship, escort, pending, todo, kills, felled, deaths>>

Fired ==
  /\ phase = "firing" /\ bus = <<>>
  /\ phase' = "moving"
  /\ UNCHANGED <<world, ship, escort, bus, pending, todo, kills, felled, deaths>>

\* An NPC that shook off everyone leaves; one in trouble launches a missile.
StepAi ==
  /\ phase = "moving"
  /\ \E e \in Of({"npc"}) :
       \/ world' = Destroy(world, e)
       \/ \E target \in Combatants \ {e} :
            CanCreate(world) /\ world' = CreateWith(world, "hull", Missile(target, e.index))
  /\ UNCHANGED <<ship, escort, bus, pending, phase, todo, kills, felled, deaths>>

SpawnPirate ==
  /\ phase = "moving" /\ Of({"player"}) # {}
  /\ Cardinality(Of({"npc", "escort"})) < MaxNpcs
  /\ CanCreate(world)
  /\ world' = CreateWith(world, "hull", Hull("npc", NoSession))
  /\ UNCHANGED <<ship, escort, bus, pending, phase, todo, kills, felled, deaths>>

-----------------------------------------------------------------------------
(* ResolveKills: missiles, combat, collisions and heat, then the bus.      *)

StartMissiles ==
  /\ phase = "moving"
  /\ todo' = Of({"missile"})
  /\ phase' = "missiles"
  /\ UNCHANGED <<world, ship, escort, bus, pending, kills, felled, deaths>>

\* mutant: whoever lives in the slot that was locked on
DetonateOnSlot(m, c) ==
  LET v == LiveEntity(world, c.lock.index)
      hit == Has(world, "hull", v) /\ KindOf(v) \in Ships
               /\ Get(world, "hull", v).invulnTicks = 0
  IN  /\ world' = IF hit THEN Hurt(world, v, Missiles) ELSE world
      /\ kills' = kills \o (IF hit /\ Dies(world, v, Missiles)
                            THEN <<Killed(v, c.from)>> ELSE <<>>)
                        \o <<Killed(m, c.from)>>

\* Detonation on the entity the missile was locked on, if that still lives.
Detonate(m, c) ==
  LET hit == Has(world, "hull", c.lock) /\ KindOf(c.lock) \in Ships
               /\ Get(world, "hull", c.lock).invulnTicks = 0
  IN  /\ IsValid(world, c.lock)
      /\ world' = IF hit THEN Hurt(world, c.lock, Missiles) ELSE world
      /\ kills' = kills \o (IF hit /\ Dies(world, c.lock, Missiles)
                            THEN <<Killed(c.lock, c.from)>> ELSE <<>>)
                        \o <<Killed(m, c.from)>>

StepMissile ==
  /\ phase = "missiles"
  /\ \E m \in todo :
       LET c == Get(world, "hull", m) IN
       /\ todo' = todo \ {m}
       /\ \/ world' = Destroy(world, m) /\ UNCHANGED kills        \* burnt out
          \/ /\ IsValid(world, c.lock)                            \* jammed
             /\ kills' = Append(kills, Killed(m, c.lock.index))
             /\ UNCHANGED world
          \/ Detonate(m, c)
          \/ UNCHANGED <<world, kills>>                           \* flies on
  /\ UNCHANGED <<ship, escort, bus, pending, phase, felled, deaths>>

\* Each ship in S is hurt once and the dead are reported, with k their killers;
\* for the ships in R the grace of a respawn runs out.
Struck(S, k, R) ==
  /\ LET hull == world.pool["hull"] IN
     world' = [world EXCEPT !.pool["hull"] = [i \in Slot |->
                 CASE LiveEntity(world, i) \in S -> Wounded(hull[i], 1)
                   [] LiveEntity(world, i) \in R -> [hull[i] EXCEPT !.invulnTicks = 0]
                   [] OTHER -> hull[i]]]
  /\ \E q \in Orderings({v \in S : Dies(world, v, 1)}) :
       kills' = kills \o [i \in DOMAIN q |-> Killed(q[i], k[q[i]])]

Immune == {e \in Combatants : Get(world, "hull", e).invulnTicks > 0}
Vulnerable == {e \in Combatants : Get(world, "hull", e).invulnTicks = 0}

\* Those who engage on their own: never their own team, which is one for
\* players and escorts; police and escorts also fire at pirates.
Foes(v) == Of(IF KindOf(v) = "npc" THEN {"npc", "escort"} ELSE {"npc"}) \ {v}

StepCombat ==
  /\ phase = "missiles" /\ todo = {}
  /\ \E S \in SUBSET {v \in Vulnerable : Foes(v) # {}}, R \in SUBSET Immune :
       \E k \in [S -> Slot] :
         /\ \A v \in S : k[v] \in {e.index : e \in Foes(v)}
         /\ Struck(S, k, R)
  /\ phase' = "ramming"
  /\ UNCHANGED <<ship, escort, bus, pending, todo, felled, deaths>>

\* Hulls, stations and planets; who was rammed by whom does not matter here.
StepCollisions ==
  /\ phase = "ramming"
  /\ \E S \in SUBSET Vulnerable : Struck(S, [v \in S |-> NoSlot], {})
  /\ phase' = "cooking"
  /\ UNCHANGED <<ship, escort, bus, pending, todo, felled, deaths>>

\* Only players carry cabin heat; the death is credited to the ship itself.
StepCabinHeat ==
  /\ phase = "cooking"
  /\ \E S \in SUBSET {e \in Vulnerable : KindOf(e) = "player"} :
       Struck(S, [v \in S |-> v.index], {})
  /\ phase' = "cooked"
  /\ UNCHANGED <<ship, escort, bus, pending, todo, felled, deaths>>

ResolveKills ==
  /\ phase = "cooked"
  /\ bus' = bus \o kills
  /\ kills' = <<>>
  /\ phase' = "resolving"
  /\ UNCHANGED <<world, ship, escort, pending, todo, felled, deaths>>

-----------------------------------------------------------------------------
(* The end of the tick.                                                    *)

Resolve ==
  /\ phase = "resolving" /\ bus = <<>>
  /\ phase' = "looting"
  /\ UNCHANGED <<world, ship, escort, bus, pending, todo, kills, felled, deaths>>

LootAndScoop ==
  /\ phase = "looting"
  /\ \E e \in Of({"debris"}) : world' = Destroy(world, e)
  /\ UNCHANGED <<ship, escort, bus, pending, phase, todo, kills, felled, deaths>>

Reap(s) ==
  /\ phase = "looting" /\ ship[s] # NoEntity
  /\ world' = Destroy(Destroy(world, escort[s]), ship[s])
  /\ ship' = [ship EXCEPT ![s] = NoEntity]
  /\ escort' = [escort EXCEPT ![s] = NoEntity]
  /\ UNCHANGED <<bus, pending, phase, todo, kills, felled, deaths>>

EndTick ==
  /\ phase = "looting"
  /\ deaths' = [s \in Session |-> 0]
  /\ phase' = "requests"
  /\ UNCHANGED <<world, ship, escort, bus, pending, todo, kills, felled>>

Next ==
  \/ \E s \in Session : \/ FrontDoor(s) \/ HandleBuyEscort(s) \/ HandleAbilityRequest(s)
                        \/ HandleUnitOrder(s) \/ Reap(s)
  \/ RecordOrder \/ ResolveFireWeapon \/ OnCrime \/ OnEntityKilled
  \/ StepOrders \/ Fired \/ StepAi \/ SpawnPirate
  \/ StartMissiles \/ StepMissile \/ StepCombat \/ StepCollisions \/ StepCabinHeat
  \/ ResolveKills \/ Resolve \/ LootAndScoop \/ EndTick

Spec == Init /\ [][Next]_vars

-----------------------------------------------------------------------------
(* Properties.                                                             *)

\* A slot is alive exactly if it holds a hull or debris, and is free otherwise,
\* listed once on the stack: no create, destroy or double report may leak a
\* slot, hand one out twice, or leave components behind on a dead one.
SlotsExact ==
  /\ SlotsPartitioned(world)
  /\ \A i \in Slot : i \in world.alive <=> world.pool["hull"][i] # Absent
  /\ \A i \in world.alive : world.pool["hull"][i] \in HullType

\* However many systems report a ship in a tick, and whoever has taken its slot
\* by the time a report is handled, a ship without a player is resolved as
\* killed (paid for, looted, announced and destroyed) at most once.
NpcKilledOnce == \A h \in DOMAIN felled : felled[h] <= 1

\* When requests are served and nothing is under way on the bus, no ship flies
\* with its energy gone: every lethal hit of the last tick was reported and its
\* report ended in a death or a respawn.
NoWalkingDead ==
  phase = "requests" /\ bus = <<>> =>
    \A e \in Combatants : Get(world, "hull", e).energy > 0

\* A missile that detonates hurts the ship it was locked on, never one that has
\* been created since in that ship's slot.
HitsTheLock ==
  [][\A i \in Slot, m \in todo \ todo' :
       LET hull == world.pool["hull"] IN
       phase = "missiles" /\ i \in world.alive /\ i \in world'.alive
         /\ world'.pool["hull"][i].energy < hull[i].energy
         => Get(world, "hull", m).lock = LiveEntity(world, i)]_vars

\* "generational handles so stale references are detected after a slot is
\* recycled" (ECS.h): an order belongs to a living ship.
OrdersOnLiving == \A i \in Slot : world.pool["order"][i] # Absent => i \in world.alive

\* "A victim reported by two systems in one tick is fine - the death handler
\* skips already-resolved entities" (GameServer.cpp): one death a tick at most.
DiesOncePerTick == \A s \in Session : deaths[s] <= 1
=============================================================================
