# A formal model of Deepspace Outpost's server core

Deepspace Outpost is a multiplayer space trading game: an authoritative server
(`src/Server`, `src/GameLogic`, `src/NeuronServer`), clients (`src/DeepspaceOutpost`,
`src/NeuronClient`) and a shared base (`src/NeuronCore`). This directory holds TLA+
modules of the parts where order, loss, failure and time decide whether the program is
right, TLC configurations that check them on small instances, and theorems that TLAPS
checks for all values of the constants. `PROJECT.json` lists, for machines, what this
file says for readers: components, runs, the map from definitions to source lines,
findings, hazards, theorems.

## 1. The system

One server process runs a fixed-step loop. `GameServer::RunTick` drains the UDP socket,
applies commander loads that have come back, drains each session's reliable requests,
runs the simulation systems, publishes events, snapshots and status, reaps silent
sessions, and on a cadence saves players. A second thread, the writer of
`PersistenceService`, talks to the database. Clients run one loop that sends input and
reliable requests every frame. Everything between the two is UDP datagrams.

### Components, their state, operations and correctness

| Component (source) | State | Operations | What makes it correct |
|---|---|---|---|
| Reliable channel (`NeuronCore/ReliableChannel.h`) | next sequence, unacked map, next expected, reorder buffer, ready queue | Send, WritePacket, ReadPacket, Receive | exactly once, in order, nothing given up |
| Message endpoint (`NeuronCore/Messages/MessageEndpoint.h`) | one channel per lane, a dirty flag per lane | Send, WriteDatagrams, OnDatagram, Receive | lanes are independent channels; messages and acknowledgements get through; idle lanes are silent |
| Snapshot stream (`NeuronCore/SnapshotStream.h`, `SnapshotDelta.h`, `SnapshotPacketizer.h`, `Quantization.h`) | encoder ring, keyframe counter; decoder ring, latest tick | Encode, Decode, acknowledge through input | both ends mean the same baseline by the same tick |
| Session table (`GameLogic/ServerSessions.h`, `NeuronCore/OwnershipIndex.h`) | sessions by endpoint, token index, ownership index, next player id | OnReliable, OnInput, OnHello, SpawnLoaded, rename, GrantOwnership, Reap | the three tables agree; a player keeps his session; a departed player leaves nothing |
| Persistence (`NeuronServer/PersistenceService.*`, `PersistenceStore.h`, `OnChangeCache.h`, `GameLogic/PlayerPersistence.h`, `Server/OdbcStore.cpp`, `GameServer.cpp`) | pending snapshots, loads and results; the writer's locals; rows; the on-change cache | QueuePlayerSnapshot, RequestLoad, DrainLoads, FlushPendingOnce, SavePlayers, ApplyCompletedLoads, destructors | progress never goes back, a load sees the saves before it, a stop loses nothing |
| Admin channel (`NeuronServer/AdminChannel.h`, `NeuronClient/AdminClient.cpp`, `GameServer::PublishAdmin`) | admin sessions, token index, event ring, the roster last pushed; the manager's state and mirror | hello, replay, roster rows and departures, events, rebind, reap; Connect, Disconnect, Service | the event feed has no gap, the mirror converges to the roster, tokens name live sessions |
| ECS registry (`NeuronCore/ECS.h`), `GameLogic/DespawnTracker.h` | slots with generations, free list, pools; ids seen last tick | Create, Destroy, Add, Remove, Each; Update | no slot is leaked or given twice, a stale handle reaches nobody |
| Message bus and kill pipeline (`Messages/MessageBus.h`, `CombatMessages.h`, `KillRewards.h`, `GameServer::OnEntityKilled`) | queue, handlers, the tick's kills | Publish, Dispatch, the three subscribers, respawn, loot | each death is reported and resolved once |
| Combat, missiles, equipment, heat; AI and spawning | combatants, missiles and their locks | StepCombat, StepMissiles, StepCollisions, StepCabinHeat, abilities, StepAi, SpawnDirector | hits end in deaths, a missile hits what it was locked on |
| Station services (`StationServices.h`, `Economy.h`) | dock state, hold, stock, fuel, equipment, wallet | dock, undock, buy, sell, outfit, respawn | who may dock, what a hold may take, nothing conjured |
| Hyperspace, docking, launch, orders, flight | transform, DockState, LaunchCruise, FlightIntent, ActiveOrder, Witchspace | requests, orders, the flight pipeline of a tick | six components of one ship that different handlers own agree |
| Mining, scenes, loot | belts and pools, rocks, miners, canisters | materialise, regenerate, mine, drop, expire, scoop | ore in holds is ore out of pools |
| Client (`DeepspaceOutpost/main.cpp`, `space.cpp`, `docked.cpp`, `NeuronClient/ReplicationClient.cpp`) | the game's state machine, `docked`, mirrors of what the server said | frames, event handlers, requests | what it shows is what the server holds |
| Publishing (`AreaOfInterest.h`, `SnapshotBuilder.h`, `SnapshotBudget.h`, `StrategicView.h`) | frame scratch, budget priorities | once per tick and session | nothing starves |
| Pacing (`TickPacer.h`), metrics, datagram pump, lag compensation (`TransformHistory.h`), chat limiter | accumulators and rings | pure functions of time | bounds at the edges |
| Server manager's windows, bot client, tools, data | views of what the server sends | | |

### How they interact

* A client's hello travels on the Control lane of its message endpoint, creates a shell in
  the session table, and either spawns a ship or parks the session and calls `RequestLoad`
  (or, for a hello without a name, spawns at once). The result comes back through
  `DrainLoads` on a later tick.
* A token in every later datagram finds the session through the token index; a datagram
  from a new address moves the session there.
* The input datagram carries the newest snapshot tick the client has decoded; it picks the
  baseline of the next delta.
* Weapons, missiles, rams and heat report kills; at the end of the simulation they go over
  the message bus to `OnEntityKilled`, which changes the registry, scores, loot and, by
  omission, the ownership index. Requests dispatch the same bus in mid-drain.
* Docking is decided by four handlers on the server and mirrored by one flag on the
  client, which also sets it on its own; requests and outcomes cross on the reliable
  Gameplay lane.
* Orders turn into a `FlightIntent` each tick, which the launch cruise overrides and
  flight obeys without asking anything else.
* `SavePlayers` hands snapshots to the writer, which shares only the queues with the
  simulation, under one lock that is never held during store I/O.

### What is hard

Concurrency: the writer thread against the simulation (two threads, one lock). Failure:
store calls that throw or are swallowed, a killed process, an orderly stop. The network:
loss, duplication, reordering on every datagram. Time: session grace, shell timeout, save
cadence, keyframe interval. Identity: names that key accounts, tokens, recycled entity
indices. `PROJECT.json` lists each hazard at its line with the properties that would
catch it, or a note where there is none yet.

## 2. Modules

`ChannelOps` holds what the methods of `ReliableChannel.h` compute, as operators on one
channel's fields (a `std::map` from sequence to message is a partial function).
`WritePacket` packs by size; the model lets any prefix of the unacknowledged messages be
what fits, at least one, as the code guarantees.

`ReliableFifo` is the abstract specification of a lane: two lists per peer, the second a
prefix of the other peer's first. `ReliableChannel` is one lane in full, with two
history variables (`sent`, `got`) and the network as a set of datagrams per receiver
from which a datagram may be read, read and kept, or lost. It is shown to implement
`ReliableFifo`, by TLC and by proof.

`MessageEndpoint` uses the same operators for several lanes with the dirty flags. Each
lane is mapped to `ReliableChannel` by `INSTANCE ... WITH`; liveness lives here, since
only the dirty flag and the unacknowledged map decide when anything is sent again.

`ServerSessions` is the session table with the callers in `GameServer.cpp` that drive
it. Time is a session's age in ticks. A name is a sequence of numbers so that
de-duplication can append a suffix (`<<1>>` Bob, `<<1, 2>>` Bob-2, `<<0, i>>` the default
name of the ship with index i). Entity handles are pairs of index and generation, and any
free index may come next. The token source never repeats itself, so a token is the
number of its player. The tick order of the code is in the guards: loads, reaps and the
end of a tick wait until every request that has arrived is drained.

`Persistence` is the life of a commander's durable state through both threads. The
writer's pass is split where the lock or a store call is (swap, one upsert, one load,
publish); the simulation applies the results of one `DrainLoads` before it does anything
else. A commander's state is the account it grew out of and a progress counter that play
only raises, which is what the properties need to see a state that went back or went to
the wrong account. A hello with a name parks its session (`Hello`); one without spawns at
once, under the default name of its ship's index, and queues the new account's snapshot
without having loaded anything (`HelloBlank`). Indices come back after a reap or a restart
and may be typed as names, so a default name may have a row already; the properties about
rows say where they except it. A live session keeps its name here: renames are in
`ServerSessions`. A pass that throws is `Throw`, a store call that logs and carries on
(as `OdbcStore` does) is the swallowed branch of `UpsertPlayer` and `LoadPlayer`, a killed
process is `Kill`, an orderly one `Stop` and `Restart`.

`SnapshotStream` is one session's stream of snapshots: deltas against the acknowledged
baseline, keyframes, split snapshots that can never be a baseline, both rings and the
acknowledgement. Values in view are numbers of which `Quantum` consecutive ones look the
same on the wire.

`AdminMirror` is the management channel from the server's feed to the manager's mirror.
A lane towards the manager is the list of what the session has sent on it, taken in
order, which is what `ReliableFifo` promises and `ReliableChannel` is proved to keep;
lanes have no order among each other, and that is where its two defects lie. The manager's
event log is bounded as in the code (`LogSize` for `MAX_EVENTS`) and gives up its entries
in the order of arrival; the history `taken` is every event the connection has taken,
evicted or not. A manager's counters outlive a session that the server has replaced.

`EcsOps` is the entity registry of `ECS.h` as operators on a record: slots, generations,
the free stack, and pools of components. `Battle` is one tick of the server over it:
requests that publish commands, the dispatches, orders, AI and spawns, the weapon systems
in their order, the kill reports and their handler, loot, and the reap. Whom a shot
reaches is geometry and therefore nondeterministic; who may be hurt, which handle is
looked up when, and what is destroyed and created in between is the code's. The order in
which a pool is walked depends on what was removed from it, so every order is allowed.
Two histories, `felled` and `deaths`, count what the handler resolved.

`Commander` is one ship against every handler that moves it: requests, orders, the flight
pipeline, death, the pod. Space is cut at the distances the code compares (`Bay`, `Lane`,
`Locked`, `Open`, `Deep`); `Advance(crossing)` is a tick of `AdvanceSimulation`, and
whether it takes the ship out of its zone is a choice. Systems with a station, tank and
record are parameters.

`DockMirror` composes `Commander` with the client. Server steps are Commander's own
actions, conjoined with the outcome that the handler sends; the client is its state
machine (intro, flight, game over), its handlers and the requests it sends. A session that
is not loaded drains and drops what arrives. Since there is one commander, deaths and pods
of others, which the client's handlers tell by `LocalPlayer`, are left out. The history
`race` remembers whether the last launch or respawn crossed with something under way.

`Economy` follows one tonnage commodity from belt pools through rocks, beams, holds,
market and canisters. Rocks live in entity slots, because miners remember them by slot;
`Approach` and `Cut` are one miner's share of `StepMining`, `Regen` and `Drift` the
belt's: a rock is charged to its own belt (`belt`) and counted by the belt in whose radius
it is (`near`), which a drifting rock leaves, perhaps straight for another's; `Scoop(c,
T)` one tick of all the ships `T` that touch a canister.

`Replication` is the followed client's view of the ships, over `EcsOps`. A tick is cut at
the places where slots are freed and filled, since `DespawnTracker` sees only its end;
a ship that vanishes without a report, one that is killed and one that is reaped differ
in what is sent. What a tick sends leaves with `PublishState`, so the client's steps stand
between ticks. Ticks are kept as distances: a snapshot's age, an entry's `lag`, and `gap`,
which saturates where every older entry is stale anyway, so no tick counter bounds the
run. `picked` remembers which ship the lock was set on.

The `MC*` modules only give constants their values; the `*Proofs` modules hold the
proofs, one per component or pair of components that belong together: `CommanderProofs`
has those of `DockMirror` as well, `ServerSessionsProofs` those of the `MessageEndpoint`
each session holds, and `SnapshotStreamProofs` those of `Replication`, the reader of the
stream. The specifications of the two guests have names of their own for that reason
(`EndpointSpec`, `ViewSpec`).
Operators marked "Faulty variant" or
"Mutant" are not used by any specification: each is a
plausible bug in the definition that follows it, and the property that catches it is
listed in `PROJECT.json`.

## 3. Runs

| Run | Bounds | What it shows |
|---|---|---|
| `reliable_channel` | 2 peers, both send 2 messages of 2 contents, 2 datagrams in flight each way | in order and once, nothing given up, buffer only past the gap, implements the FIFO |
| `message_endpoint` | client sends on Gameplay, server on Bulk, one message each, 2 datagrams in flight per lane and direction; Bulk may lose everything | each lane is a channel by itself; what is sent on Gameplay is received and acknowledged |
| `sessions` | 2 endpoints, 2 players in all, 3 indices, cap 1, shell timeout 0, grace 1; blank names and a typed `Commander-1`; with and without persistence | token index exact, no orphaned entity, names clash only with a default name, sessions kept until the grace is over, silence clears everything |
| `persistence` | 1 endpoint, Bob, a typed `Commander-1` and nameless commanders with index 1 in turn, progress 1, 2 outstanding loads, 1 fault (a throw or a kill) | rows are never lost and progress never goes back (but under a default name), loads see saves, stop saves all, parked sessions get their load, saves land |
| `snapshot_stream` | 5 views (empty, a ship in 3 positions, two ships that need two datagrams), 4 ticks, rings of 2, keyframe interval 2, 2 datagrams and 1 input in flight | every held baseline is true; in order every delta finds its baseline |
| `admin_mirror` | 2 addresses, 1 player, 2 rows, ring 1, log 2, cap 1, 3 events, 4 pushes to a session, 2 tokens | no gap in the feed at the seam of replay and live events, the log is what was taken last, the mirror wrong by late replayed rows only, the token index exact |
| `battle` | 1 player, 3 slots of 2 generations, 1 NPC besides escort and missile, energy 2, 1 command per tick | no slot leaked or given twice, one death per hull, none missed, missiles hit their lock |
| `commander` | 2 systems, tank 3, fugitive from level 2 of 3 | deep space is tagged, no fugitive docks, launch cruise and Dock order end |
| `dock_mirror` | 1 system, tank 1, clean or fugitive, 2 messages under way when another is provoked | client and server agree on docked at rest, but for named crossings; a docking is shown in the end |
| `economy` | 2 miners, 2 belts, 3 rock slots, 1 rock per belt, rocks and pools of 2, holds and stock of 1, 1 canister, 1 rock adrift; symmetric in miners, belts and slots | pools and holds in range, nothing conjured |
| `replication` | the client and one other player, 2 slots of 2 lives, ships kept 1 tick unheard of, 2 snapshots under way for up to 1 tick, a tick starts with at most 1 event under way | roster true, locks on players let go, ghosts vanish |
| `failed_load` | the smallest instance with the case | one of the findings below |

Why the bounds are enough. Two messages are the fewest with a gap (the second arrives
first), two datagrams in flight the fewest that overtake each other, and two contents the
fewest that tell an exchange from the right order. Two endpoints are the fewest for a
rebind onto an address that is taken; three indices let a ship, an escort and a newcomer
exist at once, and freed ones come back with the next generation. Grace 1 and shell 0 keep
the two timeouts apart with the fewest ages. One fault is enough for every property that
speaks of a single pass, and two outstanding loads are a request and its retry. Rings of
two entries and an interval of two make eviction and a forced keyframe happen within four
ticks. A manager with one spare address and one spare token has a session replaced while
its counters go on; a ring of one and a log of two overflow with three events. A progress
of one is enough to go back from, and one index for a nameless commander to meet the row
of an earlier one. Three slots hold a player, its killer and a missile; a second
generation makes every handle that is kept go stale, and energy 2 lets a ship survive one
hit. Two systems are the fewest for a jump away from the station last docked at, and a
tank of three allows two jumps of different cost. One system is enough for the mirror,
which never reads which; two messages before the third are a request, an outcome and what
crosses them. Two belts and two miners are the fewest that share a rock and mistake a
pool; a third slot lets a rock come back where another was. Two slots are the client's own
and one that another player, an NPC and its successor take in turn within a tick; two
snapshots overtake each other, and one that is a tick old is overtaken by a despawn. In
each instance every action of the module fires.

Configurations beside the runs, each of which finds a property violated, for a reader who
wants the trace: `MCIdleLanes`, `MCEscortCap`, `MCLostSave`, `MCSharedAccount`,
`MCBlankName`, `MCAdminReplay`, `MCGhostOrder`, `MCDoubleKill`, `MCRideHome`,
`MCDockedDrift`, `MCStationShown`, `MCFreeOre` and `MCLockTrue`, to be checked with
`MCMessageEndpoint`, `MCServerSessions`, `MCPersistence` (three), `MCAdminMirror`,
`MCBattle` (two), `MCCommander` (two), `MCDockMirror`, `MCEconomy` and `MCReplication` in
that order. `MCAdminReplay` has two such properties, `ReplayRaceFree` and `LogIsTail`; TLC
shows both with `-continue`.

Bounds are guards (`MaxSent`, `MaxInFlight`, `MaxPlayers`, `MaxProgress`, `MaxLoads`,
`MaxFaults`, `MaxTick`, `MaxInputs`, `MaxEvents`, `MaxPushed`, `MaxTokens`, `MaxGen`,
`MaxFired`, `MaxWanted`, `MaxFlight`, `MaxStock`, `MaxCans`, `MaxAway`,
`MaxDelay`, `MaxSnaps`, `MaxLane`), never state
constraints. `MaxLoads` also bounds
what `SavePlayers` asks for again. Deadlock is left unchecked only where the bounds let
the system come to rest: the two channel runs, `admin_mirror`, `MCAdminReplay`,
`MCIdleLanes` and `MCLostSave`.

### Fairness

* `MessageEndpoint`: both ends call `WriteDatagrams` and drain `Receive` every tick or
  frame, hence weak fairness of each. The network forgets or hands over what it holds
  (weak fairness on leaving), and on a fair lane it does not lose for ever what the
  writer would still write (strong fairness of `DeliverFresh`). The other lane gets no
  such promise: `EventuallyReceived` holds while it loses everything.
* `ServerSessions`: the server ticks and drains what has arrived (weak fairness of `Tick`
  and `OnHello`). Nothing is assumed of clients.
* `Persistence`: both threads run (weak fairness of the writer, of draining and applying
  loads, of the restart after a stop). `SavePlayers` is on a tick cadence of a loop that
  may be stopped and started, so it is enabled again and again and gets strong fairness.
* `Commander`: `WF_vars(Advance(TRUE))`. The server ticks for ever, and a ship that stays
  under throttle leaves its zone in the end. Nothing is assumed of the player, so
  `CruiseEnds` and `DockOrderEnds` name what a player may do to keep starting over.
* `DockMirror`: the reliable lanes deliver and the server drains them (weak fairness of
  `ProcessReliableRequests`), the client's loop runs (of `Frame`, `EnterGameOver`,
  `RespawnAfterDeath`). Nothing is assumed of the flight or of the player.
* `Replication`: the server's tick goes on (weak fairness of `Proceed`), the lane is read
  (of `FrameWithout`), and of the snapshots some get through, as on any network worth the
  name: strong fairness of `PublishState(TRUE)` and of reading one that is newer than
  all before.

### Assumptions that the code does not enforce

`OneClient` in `persistence`: no two clients type one name at a time. Without it
`StoredUnderOwnName` fails, which is `MCSharedAccount`. `PromptWriter`: the writer
is done with a load within a live session's grace time (minutes against milliseconds);
otherwise a load requested for a reaped session could be applied to a later session of
that name with an old row, since `ApplyCompletedLoads` matches by name alone. Both are
constants of `Persistence`; the theorems name the ones they need as hypotheses. A guard of
`HelloBlank` leaves out an index whose default name a session has typed at that moment:
two sessions would then share one name, which `NamesUnique` of `ServerSessions` names.

The constants' own assumptions say what a type or a table bounds in the code: limits are
numbers, and endpoints, players and sessions are finitely many at a time.

## 4. Proofs

`ReliableChannelProofs` proves, for any two peers, any set of messages and any bound on
what is sent and in flight:

* `TypeCorrect`: the type invariant;
* `ChannelInvariant`: `ChannelInv` is inductive;
* `InOrderDelivery`, `NoMessageLost`, `NothingStuckInBuffer`: the three safety
  properties of the run;
* `ChannelImplementsFifo`: `Spec => Fifo!Spec`.

The only assumptions are the two on the constants: there are two peers and the bound is
a number. None of the three properties is inductive by itself. That `DropAcked` never
erases an undelivered message needs that no acknowledgement in flight passes what its
writer has delivered (`InFlight`), though its writer may have delivered more since.
That a late copy is harmless needs that every copy, in a datagram, a buffer or the
unacknowledged map, is the message sent under its sequence (`Copies`). That what is
delivered continues what was delivered needs that history, ready queue and next
expected sequence count the same (`Handed`, `Numbered`). `ChannelInv` is the conjunction.
`InvDeliver` is the long case: `ReadCopies` first shows that what a read has in hand are
true copies, then each conjunct is shown for the reader and for everyone else. The
refinement follows from the invariant: `SendIsSeen` and `ReceiveIsSeen` show that these
two are the abstract steps, the second because the front of `m_ready` is what the other
peer sent next (`FrontIsNext`); all that moves packets leaves the two histories alone
(`PacketsUnseen`).

`BattleProofs` proves, for any sessions, slots, generations and energies, that a slot is
live exactly if it holds a hull and free otherwise (`RegistryExact`), that a ship without
a player is resolved as killed at most once (`KilledOnce`), and that a missile hurts only
what it was locked on (`MissilesHitTheLock`). The invariant `Inv` has four parts: `Good`,
that live and free slots partition the registry and the pools hold what they should;
`ShipsOK`, what sessions name; `PendingOK`, the order a request has still to add; and
`FelledOK`, that a handle which has been counted as killed is of a generation its slot has
left behind, so no later report of it can pass the guard of `OnEntityKilled`. One lemma
per registry operator (`CreateGood`, `DestroyGood`, ...) shows that it keeps `Good`; the
step lemmas only combine them. `HitsTheLock` also needs that every missile still to be
stepped in this tick is live: no step of one missile destroys another (`OthersLive`).

That nobody flies on without energy (`NobodyWalksDead`) needs an invariant over all that
is queued, `Flying`: a ship whose energy is gone is named by a report on the bus or among
the tick's kills, under the handle it still has, and kills are only collected between
the missiles and the bus (`KillsAreSent`). Every weapon system has its lemma that whom
it fells it also tells of.

`CommanderProofs` proves `TypeOK` and `DeepSpaceMarked` together (`Inv`) for any systems,
tank and threshold, and from them that no step docks a fugitive. Neither stands alone: a
jump keeps the tank in range only from a state in range, and a respawn out of deep space
needs to know what stations are near. Its second half is about the composition:
`MirrorInv` says how the two docked flags may differ, by what the server told last and
what is still under way (`DockTold`, `SpaceTold`), that a launch with which nothing has
crossed finds no docking under way (`LaunchClean`), and that nothing moves before a
commander is loaded (`Unborn`). A frame folds the client's handlers over all that has
arrived; the fold is unfolded message by message through the function that defines it, and
what a frame leaves is decided by its last message and by whether a death was among them.
`StationIsShown` and `FlightIsShown` are the two invariants of the run, and
`MirrorImplementsCommander` is the refinement: each step of the composition is a step of
the ship on its own or leaves it alone.

`EconomyProofs` proves `TypeOK`, `PoolInRange` and `HoldWithinCapacity` for any miners,
belts, slots and quantities. `Inv` puts rocks, pools, holds, stock and canisters in range
together, since one cut moves four of them. `YieldBounds` is the core: the minimum of the
beam's yield, the rock, the pool and the room left is never below zero nor above any.
`NoGoodsConjured` is about sums over any finite set of players and canisters. A sum is a
fold over a set, and what it does when one summand changes is an induction over the set's
cardinality; as no prover here takes the induction theorems, each such lemma is put as a
set of numbers for which it fails, whose least member is led to a contradiction.

`ServerSessionsProofs` proves all that the run checks of safety, for any endpoints,
indices, names and timeouts. `Inv` joins what three tables say of one player:
`Identities` (a live session has a player and token nobody else has), `TokensExact` (the
token index inverts the sessions' tokens) and `Ownership`. The last is the hard one, as
the ownership index keeps destroyed escorts: what it holds beyond the living are handles
of a generation that its slot has left behind, so that a reap never takes the ship of
another. That two typed names differ needs that `UniqueName` finds a free suffix at all:
among as many candidates as there are sessions one is free, by counting. That a session
is kept (`SessionsAreKept`) follows from the invariant step by step.

Its last part is the refinement `LanesStayApart`: the endpoint is one `ReliableChannel` per
lane. The invariant `EndpointInv` says only that every field has a cell per peer and lane
and that the datagrams of a lane in flight are finitely many. `OneCell` shows that writing
one cell is, seen from its lane, a write of that channel's field, and from any other lane
nothing. `WriteDatagrams` is the step that moves several lanes at once: each active lane
with room writes one packet, each other lane stands still, and `PacketsFew` carries the
bound on the lane's datagrams over to the channel's packets. A datagram that is read or
lost leaves its own lane only, as two datagrams of a lane differ in their packets
(`Removed`). With the theorems of `ReliableChannelProofs`, which hold for every instance
of their parameters, each lane of an endpoint delivers in order and once; this last step
is not a theorem here, since `tlapm` cannot cite a theorem of a parametrised instance.

`SnapshotStreamProofs` has two invariants. `TrueInv`: each entry of a ring and each
datagram in flight says of its tick what was encoded at it, and with it a delta applied to
the view of its baseline gives the view of its own tick. `OrderInv`, for what arrives in
order: a baseline the server may still use is in the client's ring, or newer snapshots, at
least a tick apart each, have pushed it out of a full one (`Remembered`); a delta reaches
back no further than the ring is long, so it never meets the second case.

Its second half is about the replicated view. `RosterIsTrue` and `LockIsLetGo` are about a
drained lane, so their invariant `ViewInv` must say what a lane that is not drained will
come to. `RosterOK`: of every slot, the last event that waits about it, or else the roster
itself, has the truth of it, whatever the earlier events said (`Reads`). `LockOK`: the ship
the lock was set on is still there and its player's, or an end of it waits. `PreviousOK` is
why no end is missed: a ship that may be reaped was there after the last tick, so the
despawn diff, which only compares slots, finds the slot empty at its end, for nothing is
spawned between the reap and the comparison. A frame handles any number of events; `HandledIs`
says what one does, and `EventsHandled` what a fold over them leaves, by induction over a
set of numbers as above. Likewise for the folds of a tick that destroy several ships
(`AllDestroyed`).

`PersistenceProofs` has three. `AccountInv`, under `OneClient`: every state on its way to
a row is of the account of that name. `FreshInv`, under `PromptWriter` too: row, writer,
queue, load and session each hold at most what the next one on the way to the player
holds, and what was loaded of a commander who is not playing is what a load would give
now. Default names are excepted from the first half, as a nameless commander begins its
row anew, but not from the second, so one who types such a name gets what the row holds.
It holds as long as the store swallows nothing (`Clean`); with a swallowed call
`NeverFreshOverStored` is false, which is the run `failed_load`, so the two theorems that
rest on it say `"swallow" \notin Faults`. The run `persistence` has no such fault either.
`LastInv`: without a fault, what was last queued for a commander is in the queue, or else
in the writer's pass, or else in the row. From them follow the three action properties
of the run, and that a stored commander is never spawned with less than its row holds.

`AdminMirrorProofs` proves that tokens and live sessions are one to one and within the cap
(`TokenInv`), and on that the feed and the mirror (`FeedInv`). For the manager's own
session, which it knows by its address until the acknowledgement tells it the token and by
the token from then on, `Carried` says two things of what it has taken and what waits on the
two lanes. `FeedOf`: taken, live and replayed events together are the latest ones, each at
one place; a push adds the next at the live end, taking one moves it to `taken`, and a
replay starts from the ring, which is why a session must find the manager blank.
That the log is always the newest part of `taken` (`KeptNewest`) is a fact about dropping
the front of a list that has grown by one.
`MirrorOf`: the last live message that waits about a player says what the roster says; of
whom none waits, the mirror is right, or shows a replayed row, or one is still to come. A
second session cannot claim the manager, for a token is never minted twice. What
`PublishAdmin` pushes is shown once to be the next events and a true word on everybody whose
row changed (`PublishTells`), so the steps of the feed do not look into it.

What each theorem assumes is what the modules assume of their constants, and what it
names itself. Model-checked only:

* Liveness, under fairness, which the prover does not reach: `EventuallyReceived`,
  `EventuallyAcked`, `SilenceReapsAll`, `LoadsFinish`, `SavesLand`, `CruiseEnds`,
  `DockOrderEnds`, `DockingShows` and `GhostsVanish`. Every safety property of every passing
  run is a theorem, and so are the refinements (`ChannelImplementsFifo`, `LanesStayApart`,
  `MirrorImplementsCommander`).
* The type invariants of `ReliableChannel`, `Commander` and `Economy` are proved and not
  run again.

## 5. Findings

* **Idle lanes are not silent** (`MCIdleLanes`). `OnDatagram` marks the lane dirty for a
  bare acknowledgement too, so two idle ends acknowledge each other's acknowledgements
  for ever. `MessageEndpoint.h:18-20` says they are silent.
* **Dead escorts count** (`MCEscortCap`). A destroyed escort stays in the ownership index,
  and the cap counts the index.
* **A thrown pass loses a save** (`MCLostSave`). The on-change cache takes a queued
  snapshot for a written one, so the next cadence does not send it again while the state
  does not change, against the comments in the writer loop and its header.
* **Two clients, one name** (`MCSharedAccount`). Both are loaded with the named commander's
  state; the second is renamed and saves that state over the account of its new name.
* **A nameless commander takes over a row** (`MCBlankName`). A blank hello is spawned without
  a load and saved as `Commander-<index>`; the index may be one that an earlier nameless
  commander, or somebody who typed that name, has left a row under, which begins anew.
* **A failed load creates a commander** (`failed_load`). `OdbcStore::LoadPlayer` answers a
  failed query as an unknown name.
* **`OdbcStore::LoadPlayer` binds through a null pointer** (by reading): `BindText` and
  `BindInt` are called outside the functions that set `m_arena`. `Persistence` takes the
  name to be bound, as it is meant; as written, a load with the ODBC store does not get
  as far as the query.

* **A docked ship flies on** (`MCDockedDrift`). `CompleteDockOrders` leaves the throttle of
  the approach, and flight does not read `DockState`.
* **Free ore** (`MCFreeOre`). A miner that is ordered to another belt goes on cutting the
  old belt's rock, and the new belt's pool pays.
* **Replay against live rows** (`MCAdminReplay`, `ReplayRaceFree`). They travel on different lanes; a late
  replayed row brings back a player who has left the manager's roster.
* **A gap in the event log** (`MCAdminReplay`, `LogIsTail`). The manager's log drops what came first, not
  what is oldest: live events that came before the replayed ones go first, and the log is
  then not the tail of the feed.
* **Orders for ghosts** (`MCGhostOrder`). `HandleUnitOrder` validates, dispatches the bus,
  and adds the order to whatever is now in the unit's slot.
* **A player dies twice in a tick** (`MCDoubleKill`). A respawn keeps the handle, so the
  second report of one death finds it alive.
* **A ride home** (`MCRideHome`). `Undock` moves any ship, docked or not, to the bay of its
  last station, out of deep space too.
* **Belts outgrow their cap** (by reading, and `RockCap` of `Economy`). Rocks that drift out
  of the counted radius are replaced and stay.
* **Pools are not saved** (by reading). Nothing on the server calls `UpsertPoiResources`.
* **The station shown in space** (`MCStationShown`). `dock_player` flips the client at once; a
  launch or a jump that crosses with a Dock, with an order's docking or with a death leaves
  it so when the late Dock is refused, and the client sends no other.
* **The lock slides** (`MCLockTrue`). `DespawnTracker` compares slots, so one that is freed
  silently and refilled in the same tick is never reported, and the target lock passes to
  the new ship. Players' ships are safe from it (`LockLetsGo`), for they are freed between
  the tick's last spawn and the comparison.
* **The lost launch** (`DockedIsShown` without its exception). A launch before the commander
  is loaded shows space, while its `Undock` is dropped and the ship stays docked.

Smaller ones, met on the way:

* The on-change cache is keyed by endpoint. A nameless commander who comes to the state
  that the cache still holds of the last one at that endpoint is taken for saved, though
  its fresh snapshot was queued in between (`SavesLand` excepts default names for it).
* A nameless commander's default name is not compared with what others have typed
  (`NamesUnique` states it as its exception).
* A missile of a dead shooter may pay its kill to whoever spawned in the shooter's slot.
* The `Witchspace` tag survives death, so a respawned ship cannot use its pod until it jumps.
* `Undock`, jumps, missiles and ECM do not ask for the dock state, though the comment in
  `HandleAbilityRequest` leaves "dock gating" to the subscriber that resolves them.
* The spawn director's cap counts every hull that is no player, escorts and police
  included, and a Mine order on one rock ends with the rock, though `MiningSystem.h:11`
  says it retargets.

## 6. Not modelled, and why

* Client rendering, windows, input, sound, ship tables, shaders, tools and seeds: more
  than half of the repository's lines. They decide nothing that two components could
  disagree about, or are data. Of the client only its state machine, its docked flag, its
  protocol ends, its roster, the ships it keeps and its target lock are modelled.
* Geometry and floating point: flight, collision, broadphase, ballistics, steering,
  interpolation. The models allow every outcome, and say where they do.
* Numbers that no property reads: prices and credits, shields, laser heat, cooldowns,
  damage, scores.
* Bytes and layouts (framing, serialisation, the catalogue): a packet is its record, and
  the network does not corrupt. Sequence wrap-around after 2^32 messages.
* World generation, which runs once from a seed. The command log, market, POI and galaxy
  rows, which share the writer's pass but are read back by nothing the models speak of.
* Metrics, interest management, the snapshot budget, chat, lag compensation, pacing: see
  the plan.

## 7. Plan

Done of it so far: the core (channel to snapshots), the admin channel, registry and kill
pipeline, ship protocols, mining and trade, the docked mirror, the replicated view.

1. `Connection`: a client that outlives its session, the session table and one lane
   together, for the shell that is reaped while its client keeps its sequences.
2. Wallets: outfitting, refunds and kill rewards against credits; conserved over trades.
3. Pure algorithms checked against reference definitions: `TickPacer`, `TransformHistory`,
   the chat limiter, `SnapshotBudget`.
4. Persistence with several rows per pass and with rename of a live commander.
