--------------------------- MODULE CommanderProofs ---------------------------
(* Commander proved for every set of systems, tank and threshold: the types, *)
(* that a stranded ship is marked and undocked, and that no way into a       *)
(* station is open to a fugitive.  And of the mirror the client keeps of it, *)
(* DockMirror: with nothing under way the client's screens show where the    *)
(* server has the ship, but for the races that are named.                    *)
EXTENDS DockMirror, WellFoundedInduction, TLAPS

\* The three invariants are proved together: a marked ship stays marked because
\* only a clean arrival, which leaves deep space, takes the tag away.
Inv == TypeOK /\ DeepSpaceMarked

\* A system and a distance make a place.
LEMMA AtIsPlace ==
  ASSUME NEW s \in System, NEW d \in Bay .. Deep
  PROVE  At(s, d) \in Place /\ At(s, d).sys = s /\ At(s, d).dist = d
  BY DEF At, Place

\* A commander wakes docked in a bay with its values in range.
LEMMA InitInv == Init => Inv
  BY CommanderAssumption DEF Init, Inv, TypeOK, DeepSpaceMarked, Place, At, Bay, Deep, Orders, NoOrder

\* The services of a station and the crimes and suns outside move no ship.
LEMMA ServicesInv ==
  ASSUME Inv, DockRequest \/ Refuel \/ BuyPod \/ Offend \/ DecayWanted \/ Scoop
  PROVE  Inv'
<1> USE CommanderAssumption DEF Inv, TypeOK, DeepSpaceMarked, commerce, controls
<1>1. CASE DockRequest
  BY <1>1 DEF DockRequest, MayDock, InDockRange, Place, Bay, Lane, Deep
<1>2. CASE Refuel
  BY <1>2 DEF Refuel
<1>3. CASE BuyPod
  BY <1>3 DEF BuyPod
<1>4. CASE Offend
  BY <1>4 DEF Offend
<1>5. CASE DecayWanted
  BY <1>5 DEF DecayWanted
<1>6. CASE Scoop
  BY <1>6 DEF Scoop
<1> QED BY <1>1, <1>2, <1>3, <1>4, <1>5, <1>6

\* Launches and jumps: a misjump marks the ship it strands, and the drives that
\* do not touch the tag never enter deep space.
LEMMA TravelInv ==
  ASSUME Inv, Undock \/ Jump \/ InSystemJump \/ PoiJump
  PROVE  Inv'
<1> USE CommanderAssumption DEF Inv, TypeOK, DeepSpaceMarked, commerce, controls, Bay, Lane, Locked, Open, Deep
<1>0. pos.sys \in System
  BY DEF Place
<1>1. CASE Undock
  <2>1. pos' \in Place /\ pos'.dist = 0
    BY <1>1, AtIsPlace DEF Undock
  <2>2. cruise' \in System \cup {None} /\ docked' \in BOOLEAN
    BY <1>1, Zenon DEF Undock, Inv, TypeOK
  <2>3. UNCHANGED <<station, witchspace, fuel, wanted, pod, intent, order>>
    BY <1>1 DEF Undock
  <2> QED BY <2>1, <2>2, <2>3
<1>2. CASE Jump
  <2>1. PICK dest \in System, cost \in 1 .. MaxFuel : Hyperspace(dest, cost)
    BY <1>2 DEF Jump
  <2>2. fuel' \in 0 .. MaxFuel /\ wanted' \in 0 .. MaxWanted
    BY <2>1 DEF Hyperspace, Affordable
  <2>3. pos' \in Place /\ (pos'.dist = Deep => witchspace') /\ witchspace' \in BOOLEAN
    <3>1. CASE pos' = At(dest, Deep) /\ witchspace' = TRUE
      BY <3>1, AtIsPlace
    <3>2. CASE pos' = At(dest, Lane) /\ witchspace' = FALSE
      <4>1. pos' \in Place /\ pos'.dist # Deep
        BY <3>2, AtIsPlace
      <4>2. witchspace' \in BOOLEAN
        BY <3>2, Zenon
      <4> QED BY <4>1, <4>2
    <3> QED BY <2>1, <3>1, <3>2 DEF Hyperspace
  <2> QED BY <2>1, <2>2, <2>3 DEF Hyperspace
<1>3. CASE InSystemJump
  <2>1. pos' \in Place /\ pos'.dist # Deep
    BY <1>0, <1>3, AtIsPlace DEF InSystemJump
  <2> QED BY <1>3, <2>1 DEF InSystemJump
<1>4. CASE PoiJump
  <2>1. pos' \in Place /\ pos'.dist # Deep
    BY <1>0, <1>4, AtIsPlace DEF PoiJump
  <2> QED BY <1>4, <2>1 DEF PoiJump
<1> QED BY <1>1, <1>2, <1>3, <1>4

\* The pod and death put the ship into a bay.
LEMMA RespawnInv ==
  ASSUME Inv, UseEscapePod \/ Killed
  PROVE  Inv'
<1> USE CommanderAssumption DEF Inv, TypeOK, DeepSpaceMarked, commerce, controls, Bay, Deep
<1>1. pos' \in Place /\ pos'.dist = 0 /\ station' \in System /\ docked' = TRUE
  <2>1. NearestStations \subseteq System
    BY DEF NearestStations, Place
  <2>2. RespawnAtNearestStation
    BY DEF UseEscapePod, Killed
  <2> QED BY <2>1, <2>2, AtIsPlace DEF RespawnAtNearestStation
<1>2. CASE UseEscapePod
  <2>1. wanted' = 0 /\ fuel' = MaxFuel
    BY <1>2 DEF UseEscapePod
  <2>3. pod' \in BOOLEAN
    BY <1>2, Zenon DEF UseEscapePod
  <2>2. UNCHANGED <<witchspace, cruise, intent, order>>
    BY <1>2 DEF UseEscapePod
  <2> QED BY <1>1, <2>1, <2>2, <2>3
<1>3. CASE Killed
  <2>1. NoOrder \in Orders
    BY DEF NoOrder, Orders
  <2> QED BY <1>1, <1>3, <2>1 DEF Killed
<1> QED BY <1>2, <1>3

\* An order is recorded, or refused on a docked ship.
LEMMA OrderInv ==
  ASSUME Inv, Order
  PROVE  Inv'
<1>1. PICK o \in Orders \ {NoOrder} : UnitOrder(o)
  BY DEF Order
<1> QED BY <1>1, CommanderAssumption DEF UnitOrder, Inv, TypeOK, DeepSpaceMarked

\* Where flight takes a ship is a place, and deep space only if it is there.
LEMMA AheadIsPlace ==
  ASSUME TypeOK
  PROVE  /\ Ahead \subseteq Place
         /\ \A p \in Ahead : p.dist # Deep
<1> USE DEF TypeOK, Bay, Lane, Locked, Open, Deep
<1>0. pos.sys \in System /\ pos.dist \in 0 .. 4
  BY DEF Place
<1>1. CASE Launching
  BY <1>0, <1>1, AtIsPlace DEF Ahead
<1>2. CASE ~Launching /\ Docking /\ ~docked
  <2>1. order.target \in System
    BY <1>2 DEF Docking, Orders
  <2> QED BY <1>0, <1>2, <2>1, AtIsPlace DEF Ahead
<1>3. CASE ~Launching /\ ~(Docking /\ ~docked)
  BY <1>0, <1>3, AtIsPlace DEF Ahead, Neighbours
<1> QED BY <1>1, <1>2, <1>3

\* A tick: the throttle, the flight and the docks it completes.
LEMMA AdvanceInv ==
  ASSUME Inv, NEW crossing \in BOOLEAN, Advance(crossing)
  PROVE  Inv'
<1> USE DEF Inv
<1>1. pos' \in Place /\ (pos'.dist = Deep => pos' = pos)
  BY AheadIsPlace DEF Advance, TypeOK
<1>2. intent' \in {"rest", "go"}
  BY DEF Advance, TypeOK, Throttle, Ordered
<1>3. cruise' \in System \cup {None}
  BY DEF Advance, TypeOK
<1>4. /\ order' \in Orders
      /\ docked' \in BOOLEAN
      /\ station' \in System
      /\ pos'.dist = Deep => docked' = docked
  <2>1. CompleteDockOrders(pos')
    BY DEF Advance
  <2>2. CASE Docking /\ pos'.dist <= Lane
    <3>1. pos'.sys \in System /\ pos'.dist # Deep
      BY <1>1, <2>2 DEF Place, Lane, Deep
    <3>2. order' \in Orders
      BY <2>1, <2>2 DEF CompleteDockOrders, Orders, NoOrder
    <3> QED BY <2>1, <2>2, <3>1, <3>2 DEF CompleteDockOrders, TypeOK
  <2>3. CASE ~(Docking /\ pos'.dist <= Lane)
    BY <2>1, <2>3 DEF CompleteDockOrders, TypeOK
  <2> QED BY <2>2, <2>3
<1>5. UNCHANGED <<witchspace, fuel, wanted, pod>>
  BY DEF Advance, commerce
<1> QED BY <1>1, <1>2, <1>3, <1>4, <1>5 DEF TypeOK, DeepSpaceMarked

\* Every step keeps the invariant.
LEMMA NextInv == Inv /\ [Next]_vars => Inv'
<1> SUFFICES ASSUME Inv, [Next]_vars PROVE Inv'
  OBVIOUS
<1>1. CASE DockRequest \/ Refuel \/ BuyPod \/ Offend \/ DecayWanted \/ Scoop
  BY <1>1, ServicesInv
<1>2. CASE Undock \/ Jump \/ InSystemJump \/ PoiJump
  BY <1>2, TravelInv
<1>3. CASE UseEscapePod \/ Killed
  BY <1>3, RespawnInv
<1>4. CASE Order
  BY <1>4, OrderInv
<1>5. CASE \E crossing \in BOOLEAN : Advance(crossing)
  BY <1>5, AdvanceInv
<1>6. CASE UNCHANGED vars
  BY <1>6 DEF vars, Inv, TypeOK, DeepSpaceMarked
<1> QED BY <1>1, <1>2, <1>3, <1>4, <1>5, <1>6 DEF Next

\* The values of a commander stay in range, the tank's among them.
THEOREM CommanderTyped == Spec => []TypeOK
<1>1. Inv => TypeOK
  BY DEF Inv
<1> QED BY InitInv, NextInv, <1>1, PTL DEF Spec

\* A ship stranded in deep space is marked and undocked.
THEOREM StrandedIsMarked == Spec => []DeepSpaceMarked
<1>1. Inv => DeepSpaceMarked
  BY DEF Inv
<1> QED BY InitInv, NextInv, <1>1, PTL DEF Spec

\* No step takes a fugitive into a station.
LEMMA DocksClean == Inv /\ [Next]_vars => (~docked /\ docked' => wanted' < Fugitive)
<1> SUFFICES ASSUME Inv, Next, ~docked, docked' PROVE wanted' < Fugitive
  BY DEF vars
<1> USE CommanderAssumption DEF Inv, TypeOK, commerce, controls
<1>1. CASE DockRequest
  BY <1>1 DEF DockRequest, MayDock
<1>2. CASE UseEscapePod \/ Killed
  BY <1>2 DEF UseEscapePod, Killed
<1>3. CASE \E crossing \in BOOLEAN : Advance(crossing)
  BY <1>3 DEF Advance, CompleteDockOrders
<1>4. CASE Jump
  BY <1>4 DEF Jump, Hyperspace
<1>5. CASE Order
  BY <1>5 DEF Order, UnitOrder
<1>6. CASE Undock \/ Refuel \/ BuyPod \/ InSystemJump \/ PoiJump \/ Offend \/ DecayWanted \/ Scoop
  BY <1>6 DEF Undock, Refuel, BuyPod, InSystemJump, PoiJump, Offend, DecayWanted, Scoop
<1> QED BY <1>1, <1>2, <1>3, <1>4, <1>5, <1>6 DEF Next

\* Whatever brings a ship into a station, it comes in with a record below the
\* fugitive threshold.
THEOREM FugitivesStayOut == Spec => CleanWhenDocking
<1> QED BY InitInv, NextInv, DocksClean, PTL DEF Spec, CleanWhenDocking

-----------------------------------------------------------------------------
(* The client's handlers, folded over what has arrived.                      *)

(* Every nonempty set of numbers has a least one.                            *)
LEMMA Least ==
  ASSUME NEW S \in SUBSET Nat, S # {}
  PROVE  \E n \in S : \A m \in S : n <= m
<1> DEFINE R == OpToRel(<, Nat)
<1>1. IsWellFoundedOn(R, Nat)
  BY NatLessThanWellFounded
<1> HIDE DEF R
<1>2. PICK n \in S : \A m \in S : ~(<<m, n>> \in R)
  BY <1>1, WFMin
<1>3. \A m \in S : ~(m < n)
  BY <1>2 DEF R, OpToRel
<1> QED BY <1>3

\* Induction, for a set: one that holds 0 and, below n, each successor.
LEMMA UpTo ==
  ASSUME NEW n \in Nat, NEW S, 0 \in S, \A k \in 0 .. n - 1 : k \in S => k + 1 \in S
  PROVE  \A k \in 0 .. n : k \in S
<1> DEFINE T == {k \in 0 .. n : k \notin S}
<1>1. SUFFICES ASSUME T # {} PROVE FALSE
  OBVIOUS
<1>2. T \in SUBSET Nat
  OBVIOUS
<1>3. PICK k \in T : \A m \in T : k <= m
  <2> HIDE DEF T
  <2> QED BY <1>1, <1>2, Least
<1>4. k # 0 /\ k - 1 \in 0 .. n - 1 /\ k - 1 \notin T
  BY <1>3
<1>5. k - 1 \in S /\ (k - 1) + 1 = k
  BY <1>4
<1> QED BY <1>3, <1>4, <1>5

\* What FoldLeft of the handlers over q looks up: the outcome of every set of
\* the first k positions, the last of them handled last.
Unfolded(f, c, q, k) ==
  f = [s \in SUBSET (1 .. k) |-> IF s = {} THEN c ELSE Handled(f[s \ {Max(s)}], q[Max(s)])]

LEMMA MaxIs ==
  ASSUME NEW k \in Nat, NEW s \in SUBSET (1 .. k + 1), k + 1 \in s
  PROVE  Max(s) = k + 1
<1>1. \A x \in s : k + 1 >= x
  OBVIOUS
<1>2. \A x \in s : (\A y \in s : x >= y) => x = k + 1
  OBVIOUS
<1> QED BY <1>1, <1>2 DEF Max

LEMMA UnfoldedExists ==
  ASSUME NEW c, NEW q, NEW n \in Nat
  PROVE  \E f : Unfolded(f, c, q, n)
<1> DEFINE S == {k \in Nat : \E f : Unfolded(f, c, q, k)}
<1>1. 0 \in S
  <2> DEFINE f == [s \in SUBSET (1 .. 0) |-> c]
  <2>1. f = [s \in SUBSET (1 .. 0) |-> IF s = {} THEN c ELSE Handled(f[s \ {Max(s)}], q[Max(s)])]
    <3>1. \A s \in SUBSET (1 .. 0) : s = {}
      OBVIOUS
    <3> HIDE DEF f
    <3>2. f = [s \in SUBSET (1 .. 0) |-> c]
      BY DEF f
    <3> QED BY <3>1, <3>2
  <2> QED BY <2>1 DEF Unfolded
<1>2. ASSUME NEW k \in 0 .. n - 1, k \in S PROVE k + 1 \in S
  <2>1. PICK f : Unfolded(f, c, q, k)
    BY <1>2
  <2> DEFINE g == [s \in SUBSET (1 .. k + 1) |->
                     IF s \in SUBSET (1 .. k) THEN f[s] ELSE Handled(f[s \ {k + 1}], q[k + 1])]
  <2>2. ASSUME NEW s \in SUBSET (1 .. k + 1)
        PROVE  g[s] = IF s = {} THEN c ELSE Handled(g[s \ {Max(s)}], q[Max(s)])
    <3>1. CASE s \in SUBSET (1 .. k)
      <4>1. s \ {Max(s)} \in SUBSET (1 .. k) /\ s \ {Max(s)} \in SUBSET (1 .. k + 1)
        BY <3>1
      <4>2. g[s] = f[s] /\ g[s \ {Max(s)}] = f[s \ {Max(s)}]
        BY <3>1, <4>1
      <4>3. f[s] = IF s = {} THEN c ELSE Handled(f[s \ {Max(s)}], q[Max(s)])
        BY <2>1, <3>1 DEF Unfolded
      <4> QED BY <4>2, <4>3
    <3>2. CASE s \notin SUBSET (1 .. k)
      <4>1. k + 1 \in s /\ s # {}
        BY <3>2
      <4>2. Max(s) = k + 1
        BY <4>1, MaxIs
      <4>3. s \ {k + 1} \in SUBSET (1 .. k) /\ s \ {k + 1} \in SUBSET (1 .. k + 1)
        OBVIOUS
      <4>4. g[s] = Handled(f[s \ {k + 1}], q[k + 1]) /\ g[s \ {k + 1}] = f[s \ {k + 1}]
        BY <3>2, <4>3
      <4> QED BY <4>1, <4>2, <4>4
    <3> QED BY <3>1, <3>2
  <2>3. Unfolded(g, c, q, k + 1)
    <3>1. g = [s \in SUBSET (1 .. k + 1) |-> g[s]]
      OBVIOUS
    <3> HIDE DEF g
    <3> QED BY <2>2, <3>1 DEF Unfolded
  <2> QED BY <2>3
<1>3. n \in S
  <2> HIDE DEF S
  <2> QED BY <1>1, <1>2, UpTo
<1> QED BY <1>3

\* What a frame makes of c, the client's state, when q has arrived.
Framed(c, q) == FoldLeft(Handled, c, q)

\* g[k] is what the first k messages of q make of c.
OneByOne(g, c, q, n) ==
  g[0] = c /\ \A k \in 0 .. n - 1 : g[k + 1] = Handled(g[k], q[k + 1])

\* Folding the handlers over a list is handling its messages one by one.
LEMMA HandledOneByOne ==
  ASSUME NEW c, NEW q, NEW n \in Nat, DOMAIN q = 1 .. n
  PROVE  \E g : OneByOne(g, c, q, n) /\ Framed(c, q) = g[n]
<1> DEFINE F == CHOOSE f : f = [s \in SUBSET (1 .. n) |->
                  IF s = {} THEN c ELSE Handled(f[s \ {Max(s)}], q[Max(s)])]
<1>1. Framed(c, q) = F[1 .. n]
  BY DEF Framed, FoldLeft, MapThenFoldSet
<1>2. Unfolded(F, c, q, n)
  <2> DEFINE P(f) == f = [s \in SUBSET (1 .. n) |->
                            IF s = {} THEN c ELSE Handled(f[s \ {Max(s)}], q[Max(s)])]
  <2>1. \E f : P(f)
    <3>1. PICK f : Unfolded(f, c, q, n)
      BY UnfoldedExists
    <3>2. P(f)
      BY <3>1 DEF Unfolded
    <3> QED BY <3>2
  <2>2. F = CHOOSE f : P(f)
    OBVIOUS
  <2> HIDE DEF P, F
  <2>3. P(F)
    BY <2>1, <2>2, Zenon
  <2> QED BY <2>3 DEF P, Unfolded
<1> HIDE DEF F
<1> DEFINE g == [k \in 0 .. n |-> F[1 .. k]]
<1>3. g[0] = c
  <2>1. 1 .. 0 = {} /\ 1 .. 0 \in SUBSET (1 .. n)
    OBVIOUS
  <2> QED BY <1>2, <2>1 DEF Unfolded
<1>4. ASSUME NEW k \in 0 .. n - 1 PROVE g[k + 1] = Handled(g[k], q[k + 1])
  <2>1. /\ 1 .. k + 1 \in SUBSET (1 .. n) /\ 1 .. k + 1 # {} /\ k + 1 \in 1 .. k + 1
        /\ (1 .. k + 1) \ {k + 1} = 1 .. k /\ k \in Nat
    OBVIOUS
  <2>2. Max(1 .. k + 1) = k + 1
    BY <2>1, MaxIs
  <2>3. F[1 .. k + 1] = Handled(F[1 .. k], q[k + 1])
    BY <1>2, <2>1, <2>2 DEF Unfolded
  <2> QED BY <2>3
<1>5. Framed(c, q) = g[n]
  BY <1>1
<1> HIDE DEF g
<1>6. OneByOne(g, c, q, n)
  BY <1>3, <1>4 DEF OneByOne
<1> QED BY <1>5, <1>6

\* What a frame of the client does with what has arrived.
ClientState == [shown : BOOLEAN, over : BOOLEAN, out : Seq({"dock"})]

\* One outcome: the client's state stays typed; a docking shows the station, an
\* arrival shows space, a death ends the game and nothing else does.
LEMMA HandledIs ==
  ASSUME NEW c \in ClientState, NEW m \in Outcomes
  PROVE  /\ Handled(c, m) \in ClientState
         /\ m \in {"docked", "ejected"} => Handled(c, m).shown
         /\ m = "arrived" => ~Handled(c, m).shown
         /\ m = "death" => Handled(c, m).over
         /\ m # "death" => Handled(c, m).over = c.over
<1>1. Append(c.out, "dock") \in Seq({"dock"})
  BY DEF ClientState
<1>2. CASE m = "docked"
  BY <1>2 DEF Handled, ClientState
<1>3. CASE m = "arrived"
  BY <1>3 DEF Handled, ClientState
<1>4. CASE m = "death"
  BY <1>4 DEF Handled, ClientState
<1>5. CASE m = "ejected"
  BY <1>1, <1>5 DEF Handled, ClientState
<1> QED BY <1>2, <1>3, <1>4, <1>5 DEF Outcomes

\* All that has arrived: only the last message decides what is shown, and without
\* a death among them the game goes on.
LEMMA FrameIs ==
  ASSUME NEW c \in ClientState, NEW q \in Seq(Outcomes), q # <<>>
  PROVE  LET r == Framed(c, q)
             m == q[Len(q)]
         IN  /\ r \in ClientState
             /\ m \in {"docked", "ejected"} => r.shown
             /\ m = "arrived" => ~r.shown
             /\ m = "death" => r.over
             /\ (\A k \in DOMAIN q : q[k] # "death") => r.over = c.over
<1> DEFINE n == Len(q)
           r == Framed(c, q)
<1>1. n \in Nat /\ n > 0 /\ DOMAIN q = 1 .. n /\ \A k \in 1 .. n : q[k] \in Outcomes
  OBVIOUS
<1>0. PICK g : OneByOne(g, c, q, n) /\ r = g[n]
  BY <1>1, HandledOneByOne
<1>2. /\ g[0] = c
      /\ \A k \in 0 .. n - 1 : g[k + 1] = Handled(g[k], q[k + 1])
      /\ r = g[n]
  BY <1>0 DEF OneByOne
<1> HIDE DEF r
<1>3. \A k \in 0 .. n : g[k] \in ClientState
  <2> DEFINE S == {k \in Nat : g[k] \in ClientState}
  <2>1. 0 \in S
    BY <1>2
  <2>2. ASSUME NEW k \in 0 .. n - 1, k \in S PROVE k + 1 \in S
    BY <1>1, <1>2, <2>2, HandledIs
  <2>3. \A k \in 0 .. n : k \in S
    <3> HIDE DEF S
    <3> QED BY <1>1, <2>1, <2>2, UpTo
  <2> QED BY <2>3
<1>4. ASSUME \A k \in DOMAIN q : q[k] # "death" PROVE r.over = c.over
  <2> DEFINE S == {k \in 0 .. n : g[k].over = c.over}
  <2>1. 0 \in S
    BY <1>1, <1>2
  <2>2. ASSUME NEW k \in 0 .. n - 1, k \in S PROVE k + 1 \in S
    <3>1. /\ k + 1 \in 0 .. n /\ g[k] \in ClientState /\ g[k].over = c.over
          /\ q[k + 1] \in Outcomes /\ q[k + 1] # "death"
      BY <1>1, <1>3, <1>4, <2>2
    <3>2. g[k + 1].over = c.over
      BY <1>2, <2>2, <3>1, HandledIs
    <3> QED BY <3>1, <3>2
  <2>3. n \in S
    <3> HIDE DEF S
    <3>1. \A k \in 0 .. n : k \in S
      BY <1>1, <2>1, <2>2, UpTo
    <3> QED BY <1>1, <3>1
  <2> QED BY <1>2, <2>3
<1>5. /\ r = Handled(g[n - 1], q[n]) /\ g[n - 1] \in ClientState /\ q[n] \in Outcomes
  <2>1. n - 1 \in 0 .. n - 1 /\ (n - 1) + 1 = n
    BY <1>1
  <2> QED BY <1>1, <1>2, <1>3, <2>1
<1> HIDE DEF n
<1> QED BY <1>4, <1>5, HandledIs DEF n, r

-----------------------------------------------------------------------------
(* The client's mirror of the docked flag.                                   *)

MirrorTyped ==
  /\ screen \in {"intro", "flight", "over"}
  /\ shown \in BOOLEAN /\ over \in BOOLEAN /\ live \in BOOLEAN
  /\ docked \in BOOLEAN
  /\ up \in Seq(Requests) /\ down \in Seq(Outcomes)
  /\ race \in {"none", "early", "crossed"}

UndockSent == Contains(up, "undock")
Latest(q) == q[Len(q)]

\* Before the commander is loaded nothing moves on the server, and a launch that
\* is asked for is an early one.
Unborn ==
  ~live => /\ docked /\ down = <<>> /\ ~over /\ screen # "over"
           /\ UndockSent => race = "early"

ScreensOK == (screen = "over" => over) /\ (screen = "intro" => ~live)

\* A docked ship was told so last; when that has been read the station is shown,
\* unless the game is over, a launch is on its way or one was lost.
DockTold ==
  docked => IF down = <<>> THEN shown \/ over \/ UndockSent \/ race = "early"
            ELSE Latest(down) # "arrived"

\* A launch nothing has crossed with: no docking is under way and none is shown.
LaunchClean ==
  race = "none" /\ UndockSent =>
    ~shown /\ ~over /\ \A k \in DOMAIN down : down[k] = "arrived"

\* Unless something crossed, a ship in space was told so last, or launched itself.
SpaceTold ==
  ~docked /\ race = "none" => IF down = <<>> THEN ~shown ELSE Latest(down) = "arrived"

MirrorInv == MirrorTyped /\ Unborn /\ ScreensOK /\ DockTold /\ LaunchClean /\ SpaceTold

\* One more message, and the oldest one gone.
LEMMA Appended ==
  ASSUME NEW S, NEW q \in Seq(S), NEW m \in S
  PROVE  /\ Append(q, m) \in Seq(S) /\ Append(q, m) # <<>> /\ Latest(Append(q, m)) = m
         /\ \A x : Contains(Append(q, m), x) <=> Contains(q, x) \/ x = m
<1>1. /\ Append(q, m) \in Seq(S) /\ Len(Append(q, m)) = Len(q) + 1
      /\ Append(q, m)[Len(q) + 1] = m /\ \A k \in 1 .. Len(q) : Append(q, m)[k] = q[k]
      /\ Len(q) \in Nat
  OBVIOUS
<1> QED BY <1>1 DEF Latest, Contains

LEMMA Oldest ==
  ASSUME NEW S, NEW q \in Seq(S), q # <<>>
  PROVE  /\ Tail(q) \in Seq(S) /\ Head(q) \in S
         /\ \A x : Contains(q, x) <=> Contains(Tail(q), x) \/ x = Head(q)
<1>1. /\ Tail(q) \in Seq(S) /\ Len(Tail(q)) = Len(q) - 1 /\ Len(q) \in Nat \ {0} /\ Head(q) = q[1]
      /\ \A k \in 1 .. Len(q) - 1 : Tail(q)[k] = q[k + 1]
  OBVIOUS
<1>2. ASSUME NEW x, Contains(q, x) PROVE Contains(Tail(q), x) \/ x = Head(q)
  <2>1. PICK k \in 1 .. Len(q) : q[k] = x
    BY <1>2 DEF Contains
  <2>2. CASE k = 1
    BY <1>1, <2>1, <2>2
  <2>3. CASE k # 1
    <3>1. k - 1 \in 1 .. Len(q) - 1 /\ Tail(q)[k - 1] = q[k]
      BY <1>1, <2>1, <2>3
    <3> QED BY <1>1, <2>1, <3>1 DEF Contains
  <2> QED BY <2>2, <2>3
<1>3. ASSUME NEW x, Contains(Tail(q), x) \/ x = Head(q) PROVE Contains(q, x)
  <2>1. CASE x = Head(q)
    BY <1>1, <2>1 DEF Contains
  <2>2. CASE Contains(Tail(q), x)
    <3>1. PICK k \in 1 .. Len(q) - 1 : Tail(q)[k] = x
      BY <1>1, <2>2 DEF Contains
    <3>2. k + 1 \in 1 .. Len(q) /\ q[k + 1] = x
      BY <1>1, <3>1
    <3> QED BY <3>2 DEF Contains
  <2> QED BY <1>3, <2>1, <2>2
<1> QED BY <1>1, <1>2, <1>3

\* More of the same message appended.
LEMMA Joined ==
  ASSUME NEW S, NEW q \in Seq(S), NEW m \in S, NEW r \in Seq({m})
  PROVE  /\ q \o r \in Seq(S)
         /\ \A x \in S \ {m} : Contains(q \o r, x) <=> Contains(q, x)
<1>1. /\ q \o r \in Seq(S) /\ Len(q \o r) = Len(q) + Len(r) /\ Len(q) \in Nat /\ Len(r) \in Nat
      /\ \A k \in 1 .. Len(q) : (q \o r)[k] = q[k]
  <2>1. r \in Seq(S)
    OBVIOUS
  <2> QED BY <2>1
<1>2. ASSUME NEW k \in 1 .. Len(q) + Len(r), k > Len(q) PROVE (q \o r)[k] = m
  <2> DEFINE j == k - Len(q)
  <2>1. j \in 1 .. Len(r) /\ (q \o r)[k] = r[j]
    BY <1>1, <1>2
  <2>2. r[j] \in {m}
    BY <2>1
  <2> QED BY <2>1, <2>2
<1>3. ASSUME NEW x \in S \ {m}, Contains(q \o r, x) PROVE Contains(q, x)
  <2>1. PICK k \in 1 .. Len(q) + Len(r) : (q \o r)[k] = x
    BY <1>1, <1>3 DEF Contains
  <2>2. k \in 1 .. Len(q)
    BY <1>1, <1>2, <2>1
  <2> QED BY <1>1, <2>1, <2>2 DEF Contains
<1>4. ASSUME NEW x, Contains(q, x) PROVE Contains(q \o r, x)
  <2>1. PICK k \in 1 .. Len(q) : q[k] = x
    BY <1>4 DEF Contains
  <2>2. k \in 1 .. Len(q \o r) /\ (q \o r)[k] = x
    BY <1>1, <2>1
  <2> QED BY <2>2 DEF Contains
<1> QED BY <1>1, <1>3, <1>4

\* What is left when the first n are taken ends as before.
LEMMA Remaining ==
  ASSUME NEW S, NEW q \in Seq(S), NEW n \in 1 .. Len(q), n < Len(q)
  PROVE  LET r == SubSeq(q, n + 1, Len(q)) IN
         /\ r \in Seq(S) /\ r # <<>> /\ Latest(r) = Latest(q)
         /\ \A k \in DOMAIN r : \E j \in DOMAIN q : r[k] = q[j]
<1> DEFINE r == SubSeq(q, n + 1, Len(q))
<1>1. Len(q) \in Nat /\ n \in Nat /\ n \in 1 .. Len(q) /\ DOMAIN q = 1 .. Len(q)
  OBVIOUS
<1>2. r \in Seq(S) /\ Len(r) = Len(q) - n
  <2>1. /\ n + 1 \in Nat /\ n + 1 <= Len(q) /\ Len(q) - (n + 1) + 1 = Len(q) - n
        /\ \A k \in n + 1 .. Len(q) : q[k] \in S
    BY <1>1
  <2>2. r \in Seq(S)
    BY <1>1, <2>1
  <2>3. Len(r) = Len(q) - n
    BY <1>1, <2>1
  <2> QED BY <2>2, <2>3
<1>3. ASSUME NEW k \in 1 .. Len(q) - n PROVE k + n \in 1 .. Len(q) /\ r[k] = q[k + n]
  <2>1. k \in Nat /\ k + n \in 1 .. Len(q) /\ n + 1 + k - 1 = k + n /\ k \in 1 .. Len(q) - (n + 1) + 1
    BY <1>1, <1>3
  <2>2. r[k] = q[n + 1 + k - 1]
    BY <1>1, <2>1
  <2> QED BY <2>1, <2>2
<1> HIDE DEF r
<1>4. DOMAIN r = 1 .. Len(q) - n /\ Len(q) - n \in 1 .. Len(q) - n /\ (Len(q) - n) + n = Len(q)
  BY <1>1, <1>2
<1>5. Latest(r) = Latest(q)
  BY <1>2, <1>3, <1>4 DEF Latest
<1>6. ASSUME NEW k \in DOMAIN r PROVE \E j \in DOMAIN q : r[k] = q[j]
  <2>1. k + n \in DOMAIN q /\ r[k] = q[k + n]
    BY <1>1, <1>3, <1>4
  <2> QED BY <2>1
<1>7. r # <<>>
  BY <1>1, <1>2
<1> QED BY <1>2, <1>5, <1>6, <1>7 DEF r

LEMMA MirrorInitInv == MirrorInit => MirrorInv
<1> SUFFICES ASSUME MirrorInit PROVE MirrorInv
  OBVIOUS
<1>1. /\ docked = TRUE /\ screen = "intro" /\ shown = TRUE /\ over = FALSE /\ live = FALSE
      /\ up = <<"dock">> /\ down = <<>> /\ race = "none"
  BY DEF MirrorInit, Init
<1>2. up \in Seq(Requests) /\ down \in Seq(Outcomes)
  BY <1>1 DEF Requests
<1>3. ~UndockSent
  BY <1>1 DEF UndockSent, Contains
<1> QED BY <1>1, <1>2, <1>3
  DEF MirrorInv, MirrorTyped, Unborn, ScreensOK, DockTold, LaunchClean, SpaceTold

\* What the client does by itself: it leaves the intro, launches, asks, dies and
\* comes back.
LEMMA ClientInv ==
  ASSUME MirrorInv, EnterFlight \/ LaunchPlayer \/ Ask \/ EnterGameOver \/ RespawnAfterDeath
  PROVE  MirrorInv'
<1> USE DEF MirrorInv, MirrorTyped, Unborn, ScreensOK, DockTold, LaunchClean, SpaceTold
<1>0. /\ up \in Seq(Requests) /\ down \in Seq(Outcomes)
      /\ "dock" \in Requests /\ "undock" \in Requests
  BY DEF Requests
<1>1. CASE EnterFlight
  <2>1. /\ screen = "intro" /\ screen' = "flight" /\ shown' = TRUE /\ up' = Append(up, "dock")
        /\ UNCHANGED <<docked, over, live, down, race>>
    BY <1>1 DEF EnterFlight, DockPlayer, vars
  <2>2. up' \in Seq(Requests) /\ (UndockSent' <=> UndockSent)
    BY <1>0, <2>1, Appended DEF UndockSent
  <2> QED BY <2>1, <2>2
<1>2. CASE LaunchPlayer
  <2>1. /\ screen = "flight" /\ shown /\ shown' = FALSE /\ up' = Append(up, "undock")
        /\ UNCHANGED <<docked, screen, over, live, down>>
    BY <1>2 DEF LaunchPlayer, vars
  <2>2. up' \in Seq(Requests) /\ UndockSent'
    BY <1>0, <2>1, Appended DEF UndockSent
  <2>3. /\ race' \in {"none", "early", "crossed"}
        /\ ~live => race' = "early"
        /\ race' = "none" => ~over /\ ToSet(down) \ {"arrived"} = {}
    BY <1>2 DEF LaunchPlayer
  <2>4. race' = "none" => \A k \in DOMAIN down : down[k] = "arrived"
    BY <2>3 DEF ToSet
  <2>5. down # <<>> => Len(down) \in DOMAIN down
    BY <1>0
  <2> QED BY <2>1, <2>2, <2>3, <2>4, <2>5 DEF Latest
<1>3. CASE Ask
  <2>1. PICK r \in Requests \ {"undock"} : up' = Append(up, r)
    BY <1>3 DEF Ask, Requests
  <2>2. up' \in Seq(Requests) /\ (UndockSent' <=> UndockSent)
    BY <1>0, <2>1, Appended DEF UndockSent
  <2>3. UNCHANGED <<docked, screen, shown, over, live, down, race>>
    BY <1>3 DEF Ask, vars, client
  <2> QED BY <2>2, <2>3
<1>4. CASE EnterGameOver
  <2>1. /\ screen = "flight" /\ over /\ screen' = "over"
        /\ UNCHANGED <<docked, shown, over, live, up, down, race>>
    BY <1>4 DEF EnterGameOver, vars
  <2>2. UndockSent' <=> UndockSent
    BY <2>1 DEF UndockSent
  <2> QED BY <2>1, <2>2
<1>5. CASE RespawnAfterDeath
  <2>1. /\ screen = "over" /\ screen' = "flight" /\ over' = FALSE /\ shown' = TRUE
        /\ up' = Append(up, "dock")
        /\ UNCHANGED <<docked, live, down>>
        /\ race' = IF ~docked \/ ToSet(up) \cap {"undock", "jump"} # {} THEN "crossed" ELSE race
    BY <1>5 DEF RespawnAfterDeath, DockPlayer, vars
  <2>2. up' \in Seq(Requests) /\ (UndockSent' <=> UndockSent)
    BY <1>0, <2>1, Appended DEF UndockSent
  <2> QED BY <2>1, <2>2
<1> QED BY <1>1, <1>2, <1>3, <1>4, <1>5

\* A frame: what has arrived is handled, the last of it last.
LEMMA FrameInv ==
  ASSUME MirrorInv, Frame
  PROVE  MirrorInv'
<1> USE DEF MirrorInv, MirrorTyped, Unborn, ScreensOK, DockTold, LaunchClean, SpaceTold
<1> DEFINE c == [shown |-> shown, over |-> over, out |-> <<>>]
<1>1. PICK n \in 1 .. Len(down) :
        /\ shown' = Framed(c, SubSeq(down, 1, n)).shown
        /\ over' = Framed(c, SubSeq(down, 1, n)).over
        /\ up' = up \o Framed(c, SubSeq(down, 1, n)).out
        /\ down' = SubSeq(down, n + 1, Len(down))
  BY DEF Frame, Framed
<1>2. screen = "flight" /\ ~over /\ UNCHANGED <<docked, screen, live, race>>
  BY DEF Frame, vars
<1> DEFINE q == SubSeq(down, 1, n)
           r == Framed(c, q)
<1>3. /\ q \in Seq(Outcomes) /\ q # <<>> /\ Len(q) = n /\ DOMAIN q = 1 .. n
      /\ \A k \in 1 .. n : q[k] = down[k]
      /\ down # <<>>
  OBVIOUS
<1>4. c \in ClientState
  BY DEF ClientState
<1>5. /\ r \in ClientState
      /\ q[n] \in {"docked", "ejected"} => r.shown
      /\ q[n] = "arrived" => ~r.shown
      /\ q[n] = "death" => r.over
      /\ (\A k \in DOMAIN q : q[k] # "death") => r.over = c.over
  <2> HIDE DEF c, q
  <2> QED BY <1>3, <1>4, FrameIs
<1>6. shown' = r.shown /\ over' = r.over /\ up' = up \o r.out
  BY <1>1
<1> HIDE DEF r
<1>7. /\ shown' \in BOOLEAN /\ over' \in BOOLEAN
      /\ q[n] = down[n] /\ down[n] \in Outcomes
  BY <1>3, <1>5, <1>6 DEF ClientState
<1>8. up' \in Seq(Requests) /\ (UndockSent' <=> UndockSent)
  <2>1. r.out \in Seq({"dock"})
    BY <1>5 DEF ClientState
  <2>2. "dock" \in Requests /\ "undock" \in Requests \ {"dock"}
    BY DEF Requests
  <2> QED BY <1>6, <2>1, <2>2, Joined DEF UndockSent
<1>9. CASE n = Len(down)
  <2>1. down' = <<>> /\ down[n] = Latest(down)
    BY <1>1, <1>9 DEF Latest
  <2>2. down' \in Seq(Outcomes) /\ (docked => shown' \/ over')
    BY <1>3, <1>5, <1>6, <1>7, <2>1 DEF Outcomes
  <2>3. ~docked /\ race = "none" => ~shown'
    BY <1>3, <1>5, <1>6, <1>7, <2>1
  <2>4. race = "none" /\ UndockSent => ~shown' /\ ~over'
    BY <1>3, <1>5, <1>6, <1>7
  <2> QED BY <1>2, <1>3, <1>7, <1>8, <2>1, <2>2, <2>3, <2>4
<1>10. CASE n < Len(down)
  <2>1. /\ down' \in Seq(Outcomes) /\ down' # <<>> /\ Latest(down') = Latest(down)
        /\ \A k \in DOMAIN down' : \E j \in DOMAIN down : down'[k] = down[j]
    BY <1>1, <1>10, Remaining
  <2>3. race = "none" /\ UndockSent => ~shown' /\ ~over' /\ \A k \in DOMAIN down' : down'[k] = "arrived"
    BY <1>3, <1>5, <1>6, <1>7, <2>1
  <2> QED BY <1>2, <1>3, <1>7, <1>8, <2>1, <2>3
<1> QED BY <1>9, <1>10

\* What no handler of the server touches, and what it takes from the lane: at
\* most its head.
Served(handled) ==
  /\ live /\ UNCHANGED <<screen, shown, over, live>>
  /\ up' \in Seq(Requests)
  /\ UndockSent' => UndockSent
  /\ ~handled => (UndockSent' <=> UndockSent)

\* The server docks the ship and tells the client.
LEMMA DockingTold ==
  ASSUME MirrorInv, Served(TRUE), NEW m \in Outcomes \ {"arrived"}, docked' = TRUE, Tell(m)
  PROVE  MirrorInv'
<1> USE DEF MirrorInv, MirrorTyped, Unborn, ScreensOK, DockTold, LaunchClean, SpaceTold, Served
<1>1. down \in Seq(Outcomes) /\ down' = Append(down, m)
  BY DEF Tell
<1>2. down' \in Seq(Outcomes) /\ down' # <<>> /\ Latest(down') = m
  BY <1>1, Appended
<1>3. race' = IF UndockSent THEN "crossed" ELSE race
  BY DEF Tell, UndockSent
<1> QED BY <1>2, <1>3

\* The server jumps with the ship and tells the client.
LEMMA ArrivalTold ==
  ASSUME MirrorInv, Served(FALSE), docked' = FALSE, Tell("arrived")
  PROVE  MirrorInv'
<1> USE DEF MirrorInv, MirrorTyped, Unborn, ScreensOK, DockTold, LaunchClean, SpaceTold, Served
<1>1. down \in Seq(Outcomes) /\ down' = Append(down, "arrived") /\ race' = race
  BY DEF Tell
<1>2. "arrived" \in Outcomes
  BY DEF Outcomes
<1>3. down' \in Seq(Outcomes) /\ down' # <<>> /\ Latest(down') = "arrived"
  BY <1>1, <1>2, Appended
<1>4. (\A k \in DOMAIN down : down[k] = "arrived") => \A k \in DOMAIN down' : down'[k] = "arrived"
  <2>1. /\ DOMAIN down = 1 .. Len(down) /\ Len(down) \in Nat /\ DOMAIN down' = 1 .. Len(down) + 1
        /\ \A k \in 1 .. Len(down) : down'[k] = down[k]
        /\ down'[Len(down) + 1] = "arrived"
    BY <1>1, <1>2
  <2> QED BY <2>1
<1> QED BY <1>1, <1>3, <1>4

\* The server neither docks the ship nor puts it in space.
LEMMA DockUnmoved ==
  ASSUME MirrorInv, Served(FALSE), docked' = docked, UNCHANGED <<down, race>>
  PROVE  MirrorInv'
BY DEF MirrorInv, MirrorTyped, Unborn, ScreensOK, DockTold, LaunchClean, SpaceTold, Served, Latest

\* An Undock is handled: nothing has to be told, the client has launched already.
LEMMA LaunchServed ==
  ASSUME MirrorInv, Served(TRUE), UndockSent, docked' = FALSE, UNCHANGED <<down, race>>
  PROVE  MirrorInv'
<1> USE DEF MirrorInv, MirrorTyped, Unborn, ScreensOK, DockTold, LaunchClean, SpaceTold, Served
<1>1. down # <<>> => Len(down) \in DOMAIN down
  OBVIOUS
<1> QED BY <1>1 DEF Latest

\* One request off the lane.
LEMMA RequestInv ==
  ASSUME MirrorInv, ProcessReliableRequests
  PROVE  MirrorInv'
<1> DEFINE r == Head(up)
<1>1. /\ up \in Seq(Requests) /\ up # <<>> /\ docked \in BOOLEAN
      /\ up' = Tail(up) /\ UNCHANGED <<screen, shown, over, live>>
  BY DEF MirrorInv, MirrorTyped, ProcessReliableRequests, client
<1>2. /\ up' \in Seq(Requests)
      /\ UndockSent <=> UndockSent' \/ r = "undock"
  BY <1>1, Oldest DEF UndockSent
<1>3. CASE ~live
  <2>1. UNCHANGED <<docked, down, race>>
    BY <1>3 DEF ProcessReliableRequests, vars
  <2> QED BY <1>1, <1>2, <1>3, <2>1
    DEF MirrorInv, MirrorTyped, Unborn, ScreensOK, DockTold, LaunchClean, SpaceTold
<1>4. CASE live
  <2>1. Handle(r) /\ Served(TRUE) /\ (r # "undock" => Served(FALSE))
    BY <1>1, <1>2, <1>4 DEF ProcessReliableRequests, Served
  <2> HIDE DEF r
  <2>2. CASE r = "dock" /\ MayDock /\ DockRequest /\ Tell("docked")
    BY <2>1, <2>2, DockingTold DEF DockRequest, Outcomes
  <2>3. CASE r # "undock" /\ Refuse
    BY <2>1, <2>3, DockUnmoved DEF Refuse, Silent, vars
  <2>4. CASE r = "undock" /\ Undock /\ Silent
    BY <1>2, <2>1, <2>4, LaunchServed DEF Undock, Silent
  <2>5. CASE r = "order" /\ Order /\ Silent
    BY <2>1, <2>5, DockUnmoved DEF Order, UnitOrder, Silent
  <2>6. CASE r = "eject" /\ UseEscapePod /\ Tell("ejected")
    <3>1. docked' = TRUE
      BY <2>6 DEF UseEscapePod, RespawnAtNearestStation
    <3> QED BY <2>1, <2>6, <3>1, DockingTold DEF Outcomes
  <2>7. CASE r = "jump" /\ Jump /\ Tell("arrived")
    <3>1. docked' = FALSE
      BY <2>7 DEF Jump, Hyperspace
    <3> QED BY <2>1, <2>7, <3>1, ArrivalTold
  <2> QED BY <2>1, <2>2, <2>3, <2>4, <2>5, <2>6, <2>7 DEF Handle
<1> QED BY <1>3, <1>4

\* A tick, a death, and what moves neither flag.
LEMMA WorldInv ==
  ASSUME MirrorInv, (\E crossing \in BOOLEAN : Tick(crossing)) \/ Die \/ Otherwise
  PROVE  MirrorInv'
<1>1. live /\ UNCHANGED <<screen, shown, over, live, up>>
  BY DEF Tick, Die, Otherwise, client
<1>2. Served(TRUE) /\ Served(FALSE)
  BY <1>1 DEF Served, MirrorInv, MirrorTyped, UndockSent
<1>3. ASSUME NEW crossing \in BOOLEAN, Tick(crossing) PROVE MirrorInv'
  <2> DEFINE arrives == Docking /\ pos'.dist <= Lane /\ wanted < Fugitive
  <2>1. CASE arrives
    <3>1. docked' = TRUE /\ Tell("docked")
      BY <1>3, <2>1 DEF Tick, Advance, CompleteDockOrders
    <3> QED BY <1>2, <3>1, DockingTold DEF Outcomes
  <2>2. CASE ~arrives
    <3>1. docked' = docked /\ Silent
      BY <1>3, <2>2 DEF Tick, Advance, CompleteDockOrders
    <3> QED BY <1>2, <3>1, DockUnmoved DEF Silent
  <2> QED BY <2>1, <2>2
<1>4. CASE Die
  <2>1. docked' = TRUE /\ Tell("death")
    BY <1>4 DEF Die, Killed, RespawnAtNearestStation
  <2> QED BY <1>2, <2>1, DockingTold DEF Outcomes
<1>5. CASE Otherwise
  <2>1. docked' = docked /\ UNCHANGED <<down, race>>
    BY <1>5 DEF Otherwise, InSystemJump, PoiJump, Refuel, BuyPod, Scoop, Offend, DecayWanted
  <2> QED BY <1>2, <2>1, DockUnmoved
<1> QED BY <1>3, <1>4, <1>5

\* The session has its ship.
LEMMA ConnectInv ==
  ASSUME MirrorInv, Connect
  PROVE  MirrorInv'
BY DEF Connect, MirrorInv, MirrorTyped, Unborn, ScreensOK, DockTold, LaunchClean, SpaceTold,
   UndockSent, Latest, vars, client

\* Nobody moves.
LEMMA MirrorStill ==
  ASSUME MirrorInv, UNCHANGED mirrorVars
  PROVE  MirrorInv'
BY DEF MirrorInv, MirrorTyped, Unborn, ScreensOK, DockTold, LaunchClean, SpaceTold,
   UndockSent, Latest, mirrorVars, vars, client

\* The two flags and all that is under way between them keep telling one story,
\* whatever crosses (GameServer.cpp HandleStationRequest, main.cpp
\* process_server_events).
THEOREM MirrorInvariant == MirrorSpec => []MirrorInv
<1>1. MirrorInv /\ [MirrorNext]_mirrorVars => MirrorInv'
  BY ClientInv, FrameInv, RequestInv, WorldInv, MirrorStill, ConnectInv DEF MirrorNext
<1> QED BY <1>1, MirrorInitInv, PTL DEF MirrorSpec

\* With nothing under way a docked commander has the station's screens, unless a
\* launch was asked for before it was loaded (space.cpp launch_player).
THEOREM StationIsShown == MirrorSpec => []DockedIsShown
<1>1. MirrorInv => DockedIsShown
  <2> SUFFICES ASSUME MirrorInv, AtRest PROVE docked /\ ~shown => race = "early"
    BY DEF DockedIsShown
  <2>1. ~UndockSent
    BY DEF AtRest, UndockSent, Contains
  <2> QED BY <2>1 DEF MirrorInv, DockTold, AtRest
<1> QED BY <1>1, MirrorInvariant, PTL

\* With nothing under way a ship in space is shown in space, unless a launch or
\* a respawn crossed with the server's last word.
THEOREM FlightIsShown == MirrorSpec => []SpaceIsShown
<1>1. MirrorInv => SpaceIsShown
  BY DEF MirrorInv, MirrorTyped, SpaceTold, SpaceIsShown, AtRest
<1> QED BY <1>1, MirrorInvariant, PTL

\* The server's half of the mirror is the commander of module Commander: each of
\* its steps is one of the commander's, or leaves the ship alone.
THEOREM MirrorImplementsCommander == MirrorSpec => Init /\ [][Next]_vars
<1>1. MirrorInit => Init
  BY DEF MirrorInit
<1>2. [MirrorNext]_mirrorVars => [Next]_vars
  <2> SUFFICES ASSUME [MirrorNext]_mirrorVars PROVE [Next]_vars
    OBVIOUS
  <2>1. CASE EnterFlight \/ Frame \/ LaunchPlayer \/ Ask \/ EnterGameOver \/ RespawnAfterDeath
    BY <2>1 DEF EnterFlight, Frame, LaunchPlayer, Ask, EnterGameOver, RespawnAfterDeath
  <2>2. CASE Connect
    BY <2>2 DEF Connect
  <2>3. CASE ProcessReliableRequests
    BY <2>3 DEF ProcessReliableRequests, Handle, Refuse, Next
  <2>4. ASSUME NEW crossing \in BOOLEAN, Tick(crossing) PROVE Next
    BY <2>4 DEF Tick, Next
  <2>5. CASE Die
    BY <2>5 DEF Die, Next
  <2>6. CASE Otherwise
    BY <2>6 DEF Otherwise, Next
  <2>7. CASE UNCHANGED mirrorVars
    BY <2>7 DEF mirrorVars
  <2> QED BY <2>1, <2>2, <2>3, <2>4, <2>5, <2>6, <2>7 DEF MirrorNext
<1> QED BY <1>1, <1>2, PTL DEF MirrorSpec
=============================================================================
