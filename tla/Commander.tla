------------------------------ MODULE Commander ------------------------------
(***************************************************************************)
(* One commander's ship as the server moves it: docking and launching,     *)
(* travel, standing orders, death and the escape pod, against the per-tick *)
(* pipeline (AdvanceSimulation) that turns orders and the launch cruise    *)
(* into flight.  Six components that different handlers own - transform,   *)
(* DockState, LaunchCruise, FlightIntent, ActiveOrder, Witchspace - must   *)
(* agree, and every handler writes only some of them.                      *)
(*                                                                         *)
(* Space is cut at the distances the code compares: from the centre of a   *)
(* system's station, Bay ends at LAUNCH_OFFSET (2000), Lane at DOCK_RANGE  *)
(* (5000), Locked at MASS_LOCK_RANGE, Open is the rest of the system, and  *)
(* Deep is where a misjump strands a ship, 20 million units off.  Other    *)
(* ships appear as what they do to this one: shots, mass locks, crimes.    *)
(***************************************************************************)
EXTENDS Naturals

CONSTANTS System,      \* galaxy systems, one station each
          MaxFuel,     \* Fuel::max
          Fugitive,    \* FUGITIVE_THRESHOLD
          MaxWanted,   \* bound: the highest wanted level explored
          None         \* no launch cruise

ASSUME CommanderAssumption ==
  /\ System # {}
  /\ None \notin System
  /\ MaxFuel \in Nat \ {0}
  /\ Fugitive \in Nat \ {0}
  /\ MaxWanted \in Nat
  /\ Fugitive <= MaxWanted

VARIABLES pos,         \* [sys, dist]: WorldTransform
          docked,      \* DockState::docked
          station,     \* DockState::stationId, the last station docked at
          fuel,        \* Fuel::tenths
          wanted,      \* Wanted::level
          witchspace,  \* the Witchspace tag
          cruise,      \* LaunchCruise: the system it launched from, or None
          intent,      \* FlightIntent: "rest", or "go" under throttle
          order,       \* ActiveOrder
          pod          \* Equipment::escapePod

vars == <<pos, docked, station, fuel, wanted, witchspace, cruise, intent, order, pod>>
commerce == <<fuel, wanted, pod>>
controls == <<cruise, intent, order>>

Bay == 0
Lane == 1
Locked == 2
Open == 3
Deep == 4
Place == [sys : System, dist : Bay .. Deep]
At(s, d) == [sys |-> s, dist |-> d]

\* Move, Approach, Attack, Collect and Escort all steer for some point: "roam".
Orders == [kind : {"none", "stop", "roam", "mine"}] \cup [kind : {"dock"}, target : System]
NoOrder == [kind |-> "none"]
Docking == order.kind = "dock"

\* A commander wakes docked, its controls neutral, with whatever tank, record
\* and witchspace tag the account was saved with.
Init ==
  /\ station \in System
  /\ pos = At(station, Bay)
  /\ docked = TRUE
  /\ fuel \in 0 .. MaxFuel
  /\ wanted \in 0 .. MaxWanted
  /\ witchspace \in BOOLEAN
  /\ pod \in BOOLEAN
  /\ cruise = None
  /\ intent = "rest"
  /\ order = NoOrder

-----------------------------------------------------------------------------
(* Requests                                                                *)

InDockRange == pos.dist <= Lane
MayDock == wanted < Fugitive /\ InDockRange

\* Dock: only the DockState changes; order, cruise and throttle stay.
DockRequest ==
  /\ MayDock
  /\ docked' = TRUE
  /\ station' = pos.sys
  /\ UNCHANGED <<pos, witchspace, commerce, controls>>

\* Undock puts the hull in the bay of the station it last docked at and starts
\* the fly-out.  Nothing asks whether the ship is docked.
Undock ==
  /\ pos' = At(station, Bay)
  /\ cruise' = station
  /\ docked' = FALSE
  /\ UNCHANGED <<station, witchspace, commerce, intent, order>>

Refuel ==
  /\ docked
  /\ \E buy \in 1 .. MaxFuel - fuel : fuel' = fuel + buy
  /\ UNCHANGED <<pos, docked, station, wanted, witchspace, controls, pod>>

BuyPod ==
  /\ docked /\ ~pod
  /\ pod' = TRUE
  /\ UNCHANGED <<pos, docked, station, fuel, wanted, witchspace, controls>>

\* The two range checks of Hyperspace.
Affordable(cost) == cost <= MaxFuel /\ cost <= fuel

\* Mutant: the jump forgets to leave the pad.
HyperspaceOnPad(dest, cost) ==
  /\ Affordable(cost)
  /\ fuel' = fuel - cost
  /\ wanted' = wanted \div 2
  /\ \/ pos' = At(dest, Deep) /\ witchspace' = TRUE
     \/ pos' = At(dest, Lane) /\ witchspace' = FALSE
  /\ UNCHANGED <<docked, station, controls, pod>>

\* A jump leaves the pad whatever the dock state, and either arrives in the
\* lane off the destination's station or misjumps into deep space.
Hyperspace(dest, cost) ==
  /\ Affordable(cost)
  /\ fuel' = fuel - cost
  /\ wanted' = wanted \div 2
  /\ docked' = FALSE
  /\ \/ pos' = At(dest, Deep) /\ witchspace' = TRUE
     \/ pos' = At(dest, Lane) /\ witchspace' = FALSE
  /\ UNCHANGED <<station, controls, pod>>

\* The in-system drive hops towards the nearest planet; a hull or a planet near
\* by locks it.  Out of deep space the nearest planet may be any system's.
InSystemJump ==
  /\ \/ pos.dist = Open /\ \E d \in {Locked, Open} : pos' = At(pos.sys, d)
     \/ pos.dist = Deep /\ \E s \in System : pos' = At(s, Open)
  /\ UNCHANGED <<docked, station, witchspace, commerce, controls>>

\* A jump to a scene of the same system; in deep space no scene is in range.
PoiJump ==
  /\ pos.dist = Open
  /\ \E d \in {Locked, Open} : pos' = At(pos.sys, d)
  /\ UNCHANGED <<docked, station, witchspace, commerce, controls>>

\* The latest order wins; an Attack on a protected ship is a crime when ordered.
UnitOrder(o) ==
  /\ o.kind # "stop" => ~docked
  /\ order' = o
  /\ wanted' \in IF o.kind = "roam" THEN wanted .. MaxWanted ELSE {wanted}
  /\ UNCHANGED <<pos, docked, station, fuel, witchspace, cruise, intent, pod>>

-----------------------------------------------------------------------------
(* Death, the pod, crimes and the sun                                      *)

\* The nearest station is the system's own, except out of deep space.
NearestStations == IF pos.dist = Deep THEN System ELSE {pos.sys}

RespawnAtNearestStation ==
  \E s \in NearestStations :
    /\ pos' = At(s, Bay)
    /\ docked' = TRUE
    /\ station' = s

\* The pod leaves order, cruise and throttle as they are.
UseEscapePod ==
  /\ pod /\ ~docked /\ ~witchspace
  /\ pod' = FALSE
  /\ wanted' = 0
  /\ fuel' = MaxFuel
  /\ RespawnAtNearestStation
  /\ UNCHANGED <<witchspace, controls>>

\* Death clears the record and the order; witchspace tag, cruise and throttle stay.
Killed ==
  /\ wanted' = 0
  /\ RespawnAtNearestStation
  /\ order' = NoOrder
  /\ UNCHANGED <<fuel, witchspace, cruise, intent, pod>>

\* A shot at a protected ship marks the shooter, docked or not.
Offend ==
  /\ wanted' \in wanted .. MaxWanted
  /\ UNCHANGED <<pos, docked, station, fuel, witchspace, controls, pod>>

DecayWanted ==
  /\ wanted > 0
  /\ wanted' = wanted - 1
  /\ UNCHANGED <<pos, docked, station, fuel, witchspace, controls, pod>>

\* Skimming a sun tops up the tank.
Scoop ==
  /\ pos.dist = Open /\ fuel < MaxFuel
  /\ fuel' = fuel + 1
  /\ UNCHANGED <<pos, docked, station, wanted, witchspace, controls, pod>>

-----------------------------------------------------------------------------
(* One tick of AdvanceSimulation                                           *)

\* StepOrders and StepMining: the throttle an order asks for.  A docked ship's
\* order zeroes it, except that StepMining does not ask; without an order the
\* last throttle stays, unless SafeParkSilent clears that of a silent client.
Ordered ==
  CASE order.kind = "none" -> {intent, "rest"}
    [] order.kind = "stop" -> {"rest"}
    [] order.kind = "mine" -> {"rest", "go"}
    [] OTHER -> IF docked THEN {"rest"}
                ELSE IF Docking /\ pos # At(order.target, Bay) THEN {"go"}
                ELSE {"rest", "go"}

\* StepLaunchCruise overrides it until the hull is clear of the bay.  Mutant:
\* the order is translated last and wins.
Launching == cruise # None /\ pos = At(cruise, Bay)
ThrottleOfOrder == IF order # NoOrder THEN Ordered ELSE IF Launching THEN {"go"} ELSE {"rest"}
Throttle == IF cruise = None THEN Ordered ELSE IF Launching THEN {"go"} ELSE {"rest"}

Neighbours == {At(pos.sys, d) : d \in {e \in Bay .. Open : e <= pos.dist + 1 /\ pos.dist <= e + 1}}
              \cup (IF pos.dist >= Open THEN {At(s, Open) : s \in System} ELSE {})

\* Where a ship under throttle gets to next: out of the bay while launching,
\* towards the station of a Dock order, otherwise wherever it is heading.
Ahead ==
  IF Launching THEN {At(pos.sys, Lane)}
  ELSE IF Docking /\ ~docked
       THEN IF pos.sys = order.target /\ pos.dist # Deep
            THEN {At(pos.sys, IF pos.dist = Bay THEN Bay ELSE pos.dist - 1)}
            ELSE {At(order.target, Open)}
       ELSE Neighbours

\* Mutants: the order docks the ship itself; the order is kept when refused.
CompleteUnasked(p) ==
  IF Docking /\ p.dist <= Lane
  THEN order' = NoOrder /\ docked' = TRUE /\ station' = p.sys
  ELSE UNCHANGED <<order, docked, station>>
CompleteIfDocked(p) ==
  IF Docking /\ p.dist <= Lane /\ wanted < Fugitive
  THEN order' = NoOrder /\ docked' = TRUE /\ station' = p.sys
  ELSE UNCHANGED <<order, docked, station>>

\* CompleteDockOrders: in range of any station the order is dropped, and the
\* ship docks there unless it is refused.  The throttle is left as it is.
CompleteDockOrders(p) ==
  IF Docking /\ p.dist <= Lane
  THEN /\ order' = NoOrder
       /\ IF wanted < Fugitive
          THEN docked' = TRUE /\ station' = p.sys
          ELSE UNCHANGED <<docked, station>>
  ELSE UNCHANGED <<order, docked, station>>

\* crossing: this tick takes a ship under throttle out of its zone.  Flight does
\* not read DockState.
Advance(crossing) ==
  /\ intent' \in Throttle
  /\ cruise' = IF Launching THEN cruise ELSE None
  /\ IF crossing /\ intent' = "go" THEN pos' \in Ahead ELSE pos' = pos
  /\ CompleteDockOrders(pos')
  /\ UNCHANGED <<witchspace, commerce>>

Order == \E o \in Orders \ {NoOrder} : UnitOrder(o)
Jump == \E dest \in System, cost \in 1 .. MaxFuel : Hyperspace(dest, cost)
Next ==
  \/ \E crossing \in BOOLEAN : Advance(crossing)
  \/ DockRequest \/ Undock \/ Refuel \/ BuyPod
  \/ Jump \/ InSystemJump \/ PoiJump \/ Order
  \/ UseEscapePod \/ Killed \/ Offend \/ DecayWanted \/ Scoop

\* The server ticks for ever, and a ship that keeps flying leaves its zone.
Spec == Init /\ [][Next]_vars /\ WF_vars(Advance(TRUE))

-----------------------------------------------------------------------------
(* Properties                                                              *)

\* The components stay in range: in particular no sequence of jumps, refuels,
\* skims and pods takes the tank below empty or above its maximum.
TypeOK ==
  /\ pos \in Place
  /\ docked \in BOOLEAN
  /\ station \in System
  /\ fuel \in 0 .. MaxFuel
  /\ wanted \in 0 .. MaxWanted
  /\ witchspace \in BOOLEAN
  /\ cruise \in System \cup {None}
  /\ intent \in {"rest", "go"}
  /\ order \in Orders
  /\ pod \in BOOLEAN

\* A ship in the deep space of a misjump carries the Witchspace tag, which the
\* escape pod and the kill rewards read to refuse a way out and a bounty; and it
\* is never docked there, whatever jumps, orders, pods and deaths came before.
DeepSpaceMarked == pos.dist = Deep => witchspace /\ ~docked

\* No way into a station is open to a fugitive: not the dock request, nor a Dock
\* order that arrives, nor a pod or a death, which both wipe the record first.
CleanWhenDocking == [][~docked /\ docked' => wanted' < Fugitive]_vars

\* A launch cruise, which takes the helm from the player, lets go of it: it ends
\* again and again unless the player keeps launching or dying in the bay.
CruiseEnds == []<>(cruise = None) \/ []<><<Undock \/ Killed \/ UseEscapePod>>_vars

\* A Dock order ends - docked or refused - whatever launches, hops, pods and
\* crimes come in between, unless the player keeps ordering or jumping away.
DockOrderEnds == []<>~Docking \/ []<><<Order \/ Jump>>_vars

\* What OrderSystem.h and OrderSystemTests.cpp say: a docked ship does not fly,
\* once its fly-out is over and no Mine order flies it.
DockedHolds ==
  [][docked /\ cruise = None /\ order.kind # "mine" /\ (\E c \in BOOLEAN : Advance(c))
       => pos' = pos]_vars

\* What EquipmentSystem.h says: there is no free ride home from a misjump - a
\* ship in deep space comes to a station's bay only by dying.
NoRideHome == [][pos.dist = Deep /\ pos'.dist = Bay => Killed]_vars
=============================================================================
