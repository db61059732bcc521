------------------------------ MODULE Persistence ------------------------------
(***************************************************************************)
(* Commanders' durable state, from the session to the store and back:      *)
(* the simulation thread (Server/GameServer.cpp: loads before a spawn,     *)
(* saves on a cadence through an on-change cache), the queues and the      *)
(* writer thread (NeuronServer/PersistenceService.cpp), and the store.     *)
(*                                                                         *)
(* The two threads interleave at every point where the service's lock is   *)
(* free.  A store call may fail: as the service expects, by throwing, or   *)
(* as Server/OdbcStore.cpp does it, by logging and carrying on.  The       *)
(* process may be killed, or stopped gracefully and started again.         *)
(*                                                                         *)
(* A commander's durable state is whose account it grew out of, and how    *)
(* far it has got: a number that Play only ever increases.  A client that  *)
(* types no name is a new commander, called after the entity index of its  *)
(* ship; indices come back, and may be typed as names too.  A live session *)
(* keeps its name: renames are in ServerSessions.                          *)
(***************************************************************************)
EXTENDS Integers, Sequences, FiniteSets, Functions

CONSTANTS Slot,        \* endpoint keys, one session each
          Name,        \* names that clients type
          Index,       \* entity indices that a nameless commander's ship may get
          MaxProgress, \* bound on a commander's progress
          MaxLoads,    \* bound on the loads requested and not yet drained
          MaxFaults,   \* bound on store failures and kills together
          Faults,      \* which may happen: subset of {"throw", "swallow", "kill"}
          OneClient,   \* no two clients type the same name at a time
          PromptWriter \* a load takes less than a session's grace time

ASSUME PersistenceAssumption == /\ Name \subseteq Seq(Nat) \ {<<>>}
                                /\ Index \subseteq Nat
                                /\ IsFiniteSet(Slot)
                                /\ MaxProgress \in Nat /\ MaxLoads \in Nat
                                /\ MaxFaults \in Nat
                                /\ Faults \subseteq {"throw", "swallow", "kill"}
                                /\ OneClient \in BOOLEAN /\ PromptWriter \in BOOLEAN

VARIABLES session,   \* slot -> its session
          lastSaved, \* m_lastPersist: slot -> the state last queued for it
          players,   \* m_pendingPlayers: name -> snapshot
          loads,     \* m_pendingLoads
          completed, \* m_completedLoads
          drained,   \* the results that ApplyCompletedLoads still has to apply
          writer,    \* the writer thread and the locals of its pass
          store,     \* the store: name -> snapshot
          stopping,  \* m_stop: the destructor waits for the writer
          faults,    \* failures and kills so far
          queued     \* history: name -> the last snapshot queued for it

simVars == <<session, lastSaved, drained, stopping>>
queueVars == <<players, loads, completed>>
vars == <<simVars, queueVars, writer, store, faults, queued>>

NoState == [account |-> <<>>, progress |-> 0]
Absent == [phase |-> "absent", name |-> <<>>, state |-> NoState]
Idle == [busy |-> FALSE, players |-> <<>>, loads |-> <<>>, results |-> <<>>]

DefaultName(i) == <<0, i>>
DefaultNames == {DefaultName(i) : i \in Index}

Put(f, x, v) == [y \in DOMAIN f \cup {x} |-> IF y = x THEN v ELSE f[y]]
Live == {s \in Slot : session[s].phase = "live"}
Loading == {s \in Slot : session[s].phase = "loading"}

Booted == /\ session' = [s \in Slot |-> Absent]
          /\ lastSaved' = <<>> /\ players' = <<>> /\ loads' = <<>>
          /\ completed' = <<>> /\ drained' = <<>>
          /\ writer' = Idle /\ stopping' = FALSE

Init == /\ session = [s \in Slot |-> Absent]
        /\ lastSaved = <<>> /\ players = <<>> /\ loads = <<>>
        /\ completed = <<>> /\ drained = <<>>
        /\ writer = Idle /\ stopping = FALSE
        /\ store = <<>> /\ faults = 0 /\ queued = <<>>

-----------------------------------------------------------------------------
(* The simulation thread.  It applies the results of one DrainLoads before *)
(* it does anything else.                                                  *)
Between == ~stopping /\ drained = <<>>

(* Faulty variant: the first snapshot waiting for the writer stays.        *)
QueueFirst(snapshots) ==
  /\ players' = [n \in DOMAIN players \cup DOMAIN snapshots |->
                   IF n \in DOMAIN players THEN players[n] ELSE snapshots[n]]
  /\ queued' = [n \in DOMAIN queued \cup DOMAIN snapshots |->
                   IF n \in DOMAIN snapshots THEN snapshots[n] ELSE queued[n]]

(* QueuePlayerSnapshot of each: coalesced by name, the latest wins.        *)
QueuePlayerSnapshots(snapshots) ==
  /\ players' = [n \in DOMAIN players \cup DOMAIN snapshots |->
                   IF n \in DOMAIN snapshots THEN snapshots[n] ELSE players[n]]
  /\ queued' = [n \in DOMAIN queued \cup DOMAIN snapshots |->
                   IF n \in DOMAIN snapshots THEN snapshots[n] ELSE queued[n]]

Outstanding == Len(loads) + Len(writer.loads) + Len(writer.results) + Len(completed)

(* A hello with a name parks its session and asks for the commander.       *)
Hello(s, n) ==
  /\ Between
  /\ session[s].phase = "absent"
  /\ OneClient => \A t \in Slot : session[t].name # n
  /\ Outstanding < MaxLoads
  /\ session' = [session EXCEPT ![s] = [Absent EXCEPT !.phase = "loading", !.name = n]]
  /\ loads' = Append(loads, n)
  /\ UNCHANGED <<lastSaved, drained, stopping, players, completed, writer, store, faults, queued>>

(* A hello without a name: FinishLoadedSpawn at once, with no load.  The   *)
(* new commander is called after its ship's index, which no other ship has,*)
(* and is saved under that name.  An index whose name is typed by somebody *)
(* just then is left out.                                                  *)
HelloBlank(s, i) ==
  /\ Between
  /\ session[s].phase = "absent"
  /\ \A t \in Slot : session[t].name # DefaultName(i)
  /\ LET state == [account |-> DefaultName(i), progress |-> 0]
     IN /\ session' = [session EXCEPT ![s] =
                         [phase |-> "live", name |-> DefaultName(i), state |-> state]]
        /\ QueuePlayerSnapshots([n \in {DefaultName(i)} |-> state])
  /\ UNCHANGED <<lastSaved, drained, stopping, loads, completed, writer, store, faults>>

DrainLoads ==
  /\ Between
  /\ completed # <<>>
  /\ drained' = completed
  /\ completed' = <<>>
  /\ UNCHANGED <<session, lastSaved, stopping, players, loads, writer, store, faults, queued>>

(* ServerSessions::UniqueName, over the names of the other sessions.       *)
UniqueName(base, self) ==
  LET taken(n) == \E t \in Slot \ {self} : session[t].name = n
      free == {i \in 2..(Cardinality(Slot) + 2) : ~taken(Append(base, i))}
  IN IF taken(base) THEN Append(base, CHOOSE i \in free : \A j \in free : i <= j)
     ELSE base

(* Faulty variant: gives the result to any session that waits for a load.  *)
WaitingAny(n) == {s \in Slot : session[s].phase = "loading"}

(* The sessions that wait for the commander of that name.                  *)
Waiting(n) == {s \in Slot : session[s].phase = "loading" /\ session[s].name = n}

(* ApplyCompletedLoads: a result goes to one session that waits for it, or *)
(* to nobody; FinishLoadedSpawn restores the state or creates the account. *)
ApplyLoad ==
  /\ drained # <<>>
  /\ drained' = Tail(drained)
  /\ LET r == Head(drained)
     IN \/ /\ Waiting(r.name) = {}
           /\ UNCHANGED <<session, players, queued>>
        \/ \E s \in Waiting(r.name) :
             LET name == UniqueName(session[s].name, s)
                 state == IF r.found THEN r.state ELSE [account |-> name, progress |-> 0]
             IN /\ session' = [session EXCEPT ![s] =
                                 [phase |-> "live", name |-> name, state |-> state]]
                /\ IF r.found THEN UNCHANGED <<players, queued>>
                   ELSE QueuePlayerSnapshots([n \in {name} |-> state])
  /\ UNCHANGED <<lastSaved, stopping, loads, completed, writer, store, faults>>

Play(s) ==
  /\ Between
  /\ s \in Live
  /\ session[s].state.progress < MaxProgress
  /\ session' = [session EXCEPT ![s].state.progress = @ + 1]
  /\ UNCHANGED <<lastSaved, drained, stopping, queueVars, writer, store, faults, queued>>

Snapshots(slots) == [n \in {session[s].name : s \in slots} |->
                       session[CHOOSE s \in slots : session[s].name = n].state]
Durable(s) == [name |-> session[s].name, state |-> session[s].state]

(* Faulty variant: does not ask again for the loads that are outstanding.  *)
SavePlayersNoRetry ==
  /\ Between
  /\ LET changed == {s \in Live : s \notin DOMAIN lastSaved \/ lastSaved[s] # Durable(s)}
     IN /\ QueuePlayerSnapshots(Snapshots(changed))
        /\ lastSaved' = [s \in Live |-> Durable(s)]
  /\ UNCHANGED <<session, drained, stopping, loads, completed, writer, store, faults>>

(* SavePlayers: queue each live player that changed since it was last      *)
(* queued, ask again for each load outstanding, prune the cache.           *)
SavePlayers ==
  /\ Between
  /\ Outstanding + Cardinality(Loading) <= MaxLoads
  /\ LET changed == {s \in Live : s \notin DOMAIN lastSaved \/ lastSaved[s] # Durable(s)}
     IN /\ QueuePlayerSnapshots(Snapshots(changed))
        /\ lastSaved' = [s \in {t \in Slot : t \in Live
                                  \/ (t \in DOMAIN lastSaved /\ t \in Loading)} |->
                           IF s \in Live THEN Durable(s) ELSE lastSaved[s]]
  /\ \E order \in [1..Cardinality(Loading) -> Loading] :
       /\ \A i, j \in DOMAIN order : order[i] = order[j] => i = j
       /\ loads' = loads \o [i \in DOMAIN order |-> session[order[i]].name]
  /\ UNCHANGED <<session, drained, stopping, completed, writer, store, faults>>

(* The names whose loads are requested and not yet applied.                *)
Requested == {loads[i] : i \in DOMAIN loads}
               \cup {writer.loads[i] : i \in DOMAIN writer.loads}
               \cup {r.name : r \in {(writer.results \o completed)[i] :
                                i \in DOMAIN (writer.results \o completed)}}

(* Reap of a silent session; a live one is not saved on the way out.       *)
Reap(s) ==
  /\ Between
  /\ session[s].phase # "absent"
  /\ PromptWriter /\ s \in Live => session[s].name \notin Requested
  /\ session' = [session EXCEPT ![s] = Absent]
  /\ UNCHANGED <<lastSaved, drained, stopping, queueVars, writer, store, faults, queued>>

(* Faulty variant: stops without a last snapshot of every live player.     *)
StopWithoutSave ==
  /\ Between
  /\ stopping' = TRUE
  /\ UNCHANGED <<session, lastSaved, drained, loads, completed, writer, store, faults, players, queued>>

(* The destructors: a last snapshot of every live player, then join.       *)
Stop ==
  /\ Between
  /\ stopping' = TRUE
  /\ QueuePlayerSnapshots(Snapshots(Live))
  /\ UNCHANGED <<session, lastSaved, drained, loads, completed, writer, store, faults>>

-----------------------------------------------------------------------------
(* The writer thread: FlushPendingOnce, again while there is work.         *)
HasPending == players # <<>> \/ loads # <<>>

Swap ==
  /\ ~writer.busy
  /\ HasPending
  /\ writer' = [busy |-> TRUE, players |-> players, loads |-> loads, results |-> <<>>]
  /\ players' = <<>> /\ loads' = <<>>
  /\ UNCHANGED <<simVars, completed, store, faults, queued>>

(* The snapshot of n is written, or, when swallowed, quietly is not.       *)
UpsertPlayer(n) ==
  /\ n \in DOMAIN writer.players
  /\ writer' = [writer EXCEPT !.players = Restrict(@, DOMAIN @ \ {n})]
  /\ \/ store' = Put(store, n, writer.players[n]) /\ UNCHANGED faults
     \/ /\ "swallow" \in Faults /\ faults < MaxFaults
        /\ faults' = faults + 1 /\ UNCHANGED store
  /\ UNCHANGED <<simVars, queueVars, queued>>

Result(n) == IF n \in DOMAIN store
             THEN [name |-> n, found |-> TRUE, state |-> store[n]]
             ELSE [name |-> n, found |-> FALSE, state |-> NoState]
NotFound(n) == [name |-> n, found |-> FALSE, state |-> NoState]

(* Faulty variant: the loads are read before the snapshots are written.    *)
LoadPlayerFirst ==
  /\ writer.loads # <<>>
  /\ writer' = [writer EXCEPT !.loads = Tail(@), !.results = Append(@, Result(Head(writer.loads)))]
  /\ UNCHANGED <<simVars, queueVars, store, queued, faults>>

(* A load that fails and is swallowed says that nobody has that name.      *)
LoadPlayer ==
  /\ writer.busy /\ writer.players = <<>> /\ writer.loads # <<>>
  /\ LET n == Head(writer.loads)
     IN \/ /\ writer' = [writer EXCEPT !.loads = Tail(@), !.results = Append(@, Result(n))]
           /\ UNCHANGED faults
        \/ /\ "swallow" \in Faults /\ faults < MaxFaults
           /\ writer' = [writer EXCEPT !.loads = Tail(@), !.results = Append(@, NotFound(n))]
           /\ faults' = faults + 1
  /\ UNCHANGED <<simVars, queueVars, store, queued>>

Publish ==
  /\ writer.busy /\ writer.players = <<>> /\ writer.loads = <<>>
  /\ completed' = completed \o writer.results
  /\ writer' = Idle
  /\ UNCHANGED <<simVars, players, loads, store, faults, queued>>

(* A store call throws: WriterLoop drops the whole pass.                   *)
Throw ==
  /\ "throw" \in Faults /\ faults < MaxFaults
  /\ writer.players # <<>> \/ writer.loads # <<>>
  /\ writer' = Idle
  /\ faults' = faults + 1
  /\ UNCHANGED <<simVars, queueVars, store, queued>>

(* The writer has left its loop and made its last, empty pass: the process *)
(* ends and a new one starts.                                              *)
Restart ==
  /\ stopping /\ ~writer.busy /\ ~HasPending
  /\ Booted
  /\ UNCHANGED <<store, faults, queued>>

Kill ==
  /\ "kill" \in Faults /\ faults < MaxFaults
  /\ Booted
  /\ faults' = faults + 1
  /\ UNCHANGED <<store, queued>>

Writer == Swap \/ (\E n \in DOMAIN writer.players : UpsertPlayer(n))
               \/ LoadPlayer \/ Publish \/ Throw

Next == \/ \E s \in Slot : (\E n \in Name : Hello(s, n)) \/ (\E i \in Index : HelloBlank(s, i))
                         \/ Play(s) \/ Reap(s)
        \/ DrainLoads \/ ApplyLoad \/ SavePlayers \/ Stop
        \/ Writer \/ Restart \/ Kill

Spec == Init /\ [][Next]_vars

(* Both threads run, and SavePlayers comes round while the server is up.   *)
Fairness == /\ WF_vars(Writer) /\ WF_vars(Restart)
            /\ WF_vars(DrainLoads) /\ WF_vars(ApplyLoad)
            /\ SF_vars(SavePlayers)
FairSpec == Spec /\ Fairness

-----------------------------------------------------------------------------
StateType == [account : Seq(Nat), progress : 0..MaxProgress]
ResultType == [name : Seq(Nat), found : BOOLEAN, state : StateType]

(* Types, and an idle writer holds nothing back.                           *)
TypeOK ==
  /\ session \in [Slot -> [phase : {"absent", "loading", "live"}, name : Seq(Nat),
                           state : StateType]]
  /\ \A f \in {players, writer.players, store, queued} :
       \A n \in DOMAIN f : n \in Seq(Nat) /\ f[n] \in StateType
  /\ \A s \in DOMAIN lastSaved : s \in Slot /\ lastSaved[s].state \in StateType
  /\ loads \in Seq(Seq(Nat)) /\ Outstanding <= MaxLoads
  /\ \A rs \in {completed, drained, writer.results} : rs \in Seq(ResultType)
  /\ writer.busy \in BOOLEAN /\ stopping \in BOOLEAN /\ faults \in 0..MaxFaults
  /\ ~writer.busy => writer = Idle

(* A row of the store holds only the state of the account it is keyed by.  *)
StoredUnderOwnName == \A n \in DOMAIN store : store[n].account = n

(* A commander who is in the store and typed its name, so that it had to   *)
(* wait for its load, is never spawned fresh.                              *)
NeverFreshOverStored ==
  [][\A s \in Slot : session[s].phase = "loading" /\ session'[s].phase = "live"
                     /\ session'[s].name \in DOMAIN store
       => session'[s].state.progress >= store[session'[s].name].progress]_vars

(* A stored row is never lost, and its progress never goes back, whatever  *)
(* fails by throwing or is killed: an old snapshot or a stale load never   *)
(* overwrites a newer one.  The exception is a default name, whose row the *)
(* next nameless commander with that index begins anew.                    *)
StoreMonotone ==
  [][\A n \in DOMAIN store :
       /\ n \in DOMAIN store'
       /\ n \notin DefaultNames => store'[n].progress >= store[n].progress]_vars

(* The same of every row: nobody is spawned over a row that was not loaded *)
(* ("a blank name has no account", GameServer.cpp:364-365).                *)
NobodyOverwritten ==
  [][\A n \in DOMAIN store : store'[n].progress >= store[n].progress]_vars

(* While nothing has failed, a commander who comes back gets at least what *)
(* was last queued for it, though the snapshot may not be written yet.     *)
LoadSeesSaves ==
  [][\A s \in Slot :
       /\ faults = 0
       /\ session[s].phase = "loading" /\ session'[s].phase = "live"
       /\ session'[s].name \in DOMAIN queued
       => session'[s].state.progress >= queued[session'[s].name].progress]_vars

(* A graceful stop loses nothing, while nothing has failed.                *)
StopSavesAll ==
  [][stopping /\ ~stopping' /\ faults' = 0 =>
       \A s \in Live : /\ session[s].name \in DOMAIN store
                       /\ store[session[s].name] = session[s].state]_vars

(* A session that waits for its commander does not wait for ever, even if  *)
(* the store throws its load away.                                         *)
LoadsFinish == \A s \in Slot : s \in Loading ~> s \notin Loading

Reached(s, k) == /\ s \in Live
                 /\ session[s].state.progress = k
Stored(s, k) == /\ session[s].name \in DOMAIN store
                /\ store[session[s].name].progress >= k

(* While nothing has failed, what a player has reached gets into the       *)
(* store, unless the session ends first.  The exception is a default name: *)
(* its next commander may come to be in the state that the on-change cache *)
(* still holds of the last one, and is then taken for saved.               *)
SavesLand == \A s \in Slot, k \in 1..MaxProgress :
               Reached(s, k) ~> \/ s \notin Live \/ Stored(s, k) \/ faults # 0
                                \/ session[s].name \in DefaultNames

(* The same when the store throws now and then: what WriterLoop's handler  *)
(* promises of the snapshots it drops.                                     *)
SavesLandDespiteThrow ==
  \A s \in Slot, k \in 1..MaxProgress : Reached(s, k) ~> (s \notin Live \/ Stored(s, k))
=============================================================================
