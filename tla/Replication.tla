----------------------------- MODULE Replication -----------------------------
(***************************************************************************)
(* What a client sees of the ships around it.  Presence is told by the     *)
(* snapshots, which are lost, doubled and overtaken; absence by reliable   *)
(* events: the deaths the kill handler broadcasts and the despawns that    *)
(* DespawnTracker finds by comparing the slots in use after two ticks; who *)
(* flies a ship by PlayerInfo.  The client keeps the ships it has heard of *)
(* (SnapshotInterpolator), the roster and its target lock, all by slot.    *)
(*                                                                         *)
(* One client, Me, is followed; other sessions come, fall silent and are   *)
(* reaped.  Geometry is left out: a snapshot holds the viewer and any of   *)
(* the ships, as the area of interest and the budget leave them; a kill    *)
(* leaves one canister at most; escorts are left out.  The lane            *)
(* is in order and loses nothing (module ReliableFifo), and a snapshot is  *)
(* what its decoder rebuilds (module SnapshotStream).                      *)
(***************************************************************************)
EXTENDS EcsOps, Integers, FiniteSets

Seqs == INSTANCE SequencesExt

CONSTANTS
  Player, Me,
  NoPlayer,    \* the owner of pirates, police, traders, missiles, rocks and loot
  MaxAge,      \* EvictStale: ticks a ship is kept unheard of
  MaxDelay,    \* bound: a snapshot is on its way for at most so many ticks
  MaxSnaps,    \* bound: snapshots under way
  MaxLane      \* bound: a tick starts with at most so many events under way

ASSUME OwnerPool == Pools = {"owner"}
ASSUME MeAssumption == Me \in Player /\ NoPlayer \notin Player

VARIABLES
  world,      \* the registry
  ship,       \* player -> the primary entity of its session
  seen,       \* the players whose session was made in this tick: lastSeenTick is now
  linked,     \* Me has a session, if only a shell: broadcasts reach it
  previous,   \* DespawnTracker's m_previous
  phase,      \* where in the tick the server is
  lane,       \* events on their way to Me, oldest first
  snaps,      \* snapshots on their way to Me: their age in ticks and their ships
  gap,        \* how many ticks the client's m_latestTick is behind, Far if more
  history,    \* slot -> the ship last heard of there, and lag ticks before m_latestTick
  roster,     \* g_playerRoster: slot -> the player who flies it
  lock,       \* g_missile_lock_target
  picked      \* history: the ship the lock was set on, and whose it was

server == <<world, ship, seen, linked, previous, phase>>
client == <<gap, history, roster, lock, picked>>
viewVars == <<server, lane, snaps, client>>

Far == MaxAge + MaxDelay + 1
NoPick == [ship |-> NoEntity, of |-> NoPlayer]
Unheard == [gen |-> -1, lag |-> Far]       \* no ship of the slot is kept
Info(p) == [msg |-> "info", id |-> ship'[p].index, who |-> p]
Death(i) == [msg |-> "death", id |-> i, who |-> NoPlayer]
Despawn(i) == [msg |-> "despawn", id |-> i, who |-> NoPlayer]

Unowned == {e \in Living(world) : Get(world, "owner", e).of = NoPlayer}

ViewInit ==
  /\ world = EmptyWorld
  /\ ship = [p \in Player |-> NoEntity] /\ seen = {} /\ linked = FALSE
  /\ previous = {} /\ phase = "idle"
  /\ lane = <<>> /\ snaps = {} /\ gap = Far
  /\ history = [i \in Slot |-> Unheard]
  /\ roster = [i \in Slot |-> NoPlayer]
  /\ lock = NoSlot /\ picked = NoPick

-----------------------------------------------------------------------------
(* The server's tick.  What it sends leaves with PublishState, so the      *)
(* client's steps stand between the ticks.                                 *)

Broadcast(ms) == lane' = IF linked' THEN lane \o ms ELSE lane

Joined(w, p) == CreateWith(w, "owner", [of |-> p])

RunTick ==
  /\ phase = "idle"
  /\ Len(lane) <= MaxLane
  /\ phase' = "requests"
  /\ UNCHANGED <<world, ship, seen, linked, previous, lane, snaps, client>>

\* mutant: a loaded commander's session keeps the time of its hello
NotedNever(p) == {}
Noted(p) == {p}

\* A hello is accepted: the ship is made and the whole roster goes to everyone.
OnHello(p) ==
  /\ phase = "requests" /\ ship[p] = NoEntity /\ CanCreate(world)
  /\ linked' = (linked \/ p = Me)
  /\ ship' = [ship EXCEPT ![p] = NewId(world)]
  /\ seen' = seen \cup Noted(p)
  /\ world' = Joined(world, p)
  /\ LET roll == Seqs!SetToSeq({q \in Player : ship'[q] # NoEntity})
     IN Broadcast([k \in DOMAIN roll |-> Info(roll[k])])
  /\ UNCHANGED <<previous, phase, snaps, client>>

\* The first datagram of Me opens a shell.
OnReliable ==
  /\ phase = "requests" /\ ~linked
  /\ linked' = TRUE
  /\ UNCHANGED <<world, ship, seen, previous, phase, lane, snaps, client>>

\* The kill of what is no player's, by a request or an order to fire, or reported
\* by the weapon systems: its loot is made before it is destroyed.
OnEntityKilled(e) ==
  /\ phase \in {"requests", "kills"} /\ e \in Unowned
  /\ \E loot \in BOOLEAN :
       /\ loot => CanCreate(world)
       /\ world' = Destroy(IF loot THEN Joined(world, NoPlayer) ELSE world, e)
  /\ linked' = linked
  /\ Broadcast(<<Death(e.index)>>)
  /\ UNCHANGED <<ship, seen, previous, phase, snaps, client>>

\* Gone without a word: a trader that arrives or a ship that has fled (StepAi),
\* a missile that is spent, a rock mined out, a canister scooped or expired.
Vanish(e) ==
  /\ phase \in {"simulation", "kills"} /\ e \in Unowned
  /\ world' = Destroy(world, e)
  /\ UNCHANGED <<ship, seen, linked, previous, phase, lane, snaps, client>>

\* A missile is launched; SpawnDirector, after StepAi.
Spawn ==
  /\ phase \in {"requests", "simulation"} /\ CanCreate(world)
  /\ world' = Joined(world, NoPlayer)
  /\ UNCHANGED <<ship, seen, linked, previous, phase, lane, snaps, client>>

AdvanceSimulation ==
  /\ phase = "requests"
  /\ phase' = "simulation"
  /\ UNCHANGED <<world, ship, seen, linked, previous, lane, snaps, client>>

ResolveKills ==
  /\ phase = "simulation"
  /\ phase' = "kills"
  /\ UNCHANGED <<world, ship, seen, linked, previous, lane, snaps, client>>

DestroyAll(w, es) == Seqs!FoldLeft(Destroy, w, es)

CurrentIds == world'.alive

\* DespawnTracker::Update: what was there after the last tick and no longer is.
Gone == previous \ CurrentIds

\* The sessions of others that have been silent for too long go with their ships.
ReapAndDespawn ==
  /\ phase = "kills"
  /\ \E silent \in SUBSET {p \in Player \ ({Me} \cup seen) : ship[p] # NoEntity} :
       /\ world' = DestroyAll(world, Seqs!SetToSeq({ship[p] : p \in silent}))
       /\ ship' = [p \in Player |-> IF p \in silent THEN NoEntity ELSE ship[p]]
  /\ linked' = linked
  /\ LET gone == Seqs!SetToSeq(Gone) IN Broadcast([k \in DOMAIN gone |-> Despawn(gone[k])])
  /\ previous' = CurrentIds
  /\ phase' = "publish"
  /\ UNCHANGED <<seen, snaps, client>>

Older(S) == {[s EXCEPT !.age = @ + 1] : s \in {t \in S : t.age < MaxDelay}}

\* The tick's snapshot, and the tick is over.  It is lost, or the network has it.
PublishState(sent) ==
  /\ phase = "publish"
  /\ IF ship[Me] # NoEntity /\ sent
     THEN /\ Cardinality(Older(snaps)) < MaxSnaps
          /\ \E near \in SUBSET Living(world) :
               /\ ship[Me] \in near
               /\ snaps' = Older(snaps) \cup {[age |-> 0, ships |-> near]}
     ELSE snaps' = Older(snaps)
  /\ gap' = IF gap < Far THEN gap + 1 ELSE Far
  /\ phase' = "idle" /\ seen' = {}
  /\ UNCHANGED <<world, ship, linked, previous, lane, history, roster, lock, picked>>

-----------------------------------------------------------------------------
(* The client's frame.                                                     *)

\* Ingest, of a snapshot whose tick is so many ticks ahead of m_latestTick: the
\* newer state of a ship stays.
Ahead(s) == gap - s.age
HeardOf(s, i) == {e \in s.ships : e.index = i /\ Ahead(s) >= -history[i].lag}
Aged(h, ticks) == [h EXCEPT !.lag = IF @ + ticks < Far THEN @ + ticks ELSE Far]
Ingest(s) ==
  LET moved == IF Ahead(s) > 0 THEN Ahead(s) ELSE 0
  IN [i \in Slot |->
        IF HeardOf(s, i) # {}
        THEN [gen |-> (CHOOSE e \in HeardOf(s, i) : TRUE).gen, lag |-> moved - Ahead(s)]
        ELSE Aged(history[i], moved)]

\* mutant: nothing is ever stale
EvictNothing(h) == h
EvictStale(h) == [i \in Slot |-> IF h[i].lag > MaxAge THEN Unheard ELSE h[i]]

\* mutant: the lock is not let go
ForgetButLock(c, i) ==
  [history |-> [c.history EXCEPT ![i] = Unheard],
   roster  |-> [c.roster EXCEPT ![i] = NoPlayer],
   lock    |-> c.lock]
\* The handlers of EntityDeath and EntityDespawn, on c, the client's [history, roster, lock].
Forget(c, i) ==
  [history |-> [c.history EXCEPT ![i] = Unheard],
   roster  |-> [c.roster EXCEPT ![i] = NoPlayer],
   lock    |-> IF c.lock = i THEN NoSlot ELSE c.lock]
Handled(c, m) ==
  IF m.msg = "info" THEN [c EXCEPT !.roster[m.id] = m.who] ELSE Forget(c, m.id)

\* Pump takes what has come, a snapshot first; the events are handled and the
\* stale ships dropped.  A snapshot may come again.
Read(heard, n) ==
  LET c == Seqs!FoldLeft(Handled, [history |-> heard, roster |-> roster, lock |-> lock], SubSeq(lane, 1, n))
  IN /\ history' = EvictStale(c.history)
     /\ roster' = c.roster
     /\ lock' = c.lock
     /\ picked' = IF c.lock = NoSlot THEN NoPick ELSE picked
     /\ lane' = SubSeq(lane, n + 1, Len(lane))

FrameWith(s) ==
  /\ phase = "idle" /\ s \in snaps
  /\ \E n \in 0 .. Len(lane) : Read(Ingest(s), n)
  /\ \E again \in BOOLEAN : snaps' = IF again THEN snaps ELSE snaps \ {s}
  /\ gap' = IF Ahead(s) > 0 THEN s.age ELSE gap
  /\ UNCHANGED server

FrameWithout ==
  /\ phase = "idle"
  /\ \E n \in 1 .. Len(lane) : Read(history, n)
  /\ UNCHANGED <<server, snaps, gap>>

\* A click or an order picks a ship that is drawn, other than one's own.
SetLock(i) ==
  /\ phase = "idle" /\ history[i] # Unheard /\ i # ship[Me].index
  /\ lock' = i
  /\ LET there == [index |-> i, gen |-> history[i].gen]
     IN picked' = IF IsValid(world, there) THEN [ship |-> there, of |-> Get(world, "owner", there).of] ELSE NoPick
  /\ UNCHANGED <<server, lane, snaps, gap, history, roster>>

-----------------------------------------------------------------------------
ViewNext ==
  \/ (\E p \in Player : OnHello(p)) \/ OnReliable
  \/ (\E i \in Slot : OnEntityKilled(LiveEntity(world, i)) \/ Vanish(LiveEntity(world, i))) \/ Spawn
  \/ RunTick \/ AdvanceSimulation \/ ResolveKills \/ ReapAndDespawn
  \/ (\E sent \in BOOLEAN : PublishState(sent))
  \/ (\E s \in snaps : FrameWith(s)) \/ FrameWithout \/ (\E i \in Slot : SetLock(i))

\* The tick goes on.
Proceed ==
  RunTick \/ AdvanceSimulation \/ ResolveKills \/ ReapAndDespawn \/ \E sent \in BOOLEAN : PublishState(sent)

\* A snapshot newer than all before is read.
FrameAnew == \E s \in snaps : Ahead(s) > 0 /\ FrameWith(s)

\* Both loops run, the lane delivers, and of the snapshots some get through.
ViewSpec ==
  /\ ViewInit /\ [][ViewNext]_viewVars
  /\ WF_viewVars(Proceed) /\ WF_viewVars(FrameWithout)
  /\ SF_viewVars(PublishState(TRUE)) /\ SF_viewVars(FrameAnew)

-----------------------------------------------------------------------------
(* Properties                                                              *)

Told == ship[Me] # NoEntity /\ lane = <<>>

\* Once every event has been handled, the roster names the players who are there,
\* each at the ship that is theirs, and nobody else: no name of one who left
\* stays, least of all on the ship that has the slot now.
RosterTrue ==
  Told => roster = [i \in Slot |-> IF \E p \in Player : ship[p].index = i
                                   THEN CHOOSE p \in Player : ship[p].index = i
                                   ELSE NoPlayer]

\* A lock set on a player's ship is let go when the player has left, and is never
\* found on the next ship in the slot.
LockLetsGo == Told /\ picked.of # NoPlayer => IsValid(world, picked.ship)

\* A ship that is gone does not stay in view, whatever snapshot of it came late
\* and whether or not its end was told.
Ghost(i) == history[i] # Unheard /\ ~IsValid(world, [index |-> i, gen |-> history[i].gen])
GhostsVanish == \A i \in Slot : Ghost(i) ~> ~Ghost(i)

\* What DespawnTracker.h says: a real removal is sent, so the client that has heard
\* everything never has its lock on another ship than the one it chose.
LockTrue ==
  Told /\ phase = "idle" /\ picked # NoPick /\ lock \in world.alive
    => IsValid(world, picked.ship)
=============================================================================
