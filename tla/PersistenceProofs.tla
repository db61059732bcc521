--------------------------- MODULE PersistenceProofs ---------------------------
(***************************************************************************)
(* Proofs about Persistence, for any sessions, names, progress and number  *)
(* of faults.  What a theorem assumes of the clients, of the writer and of *)
(* the store's failures it names: OneClient, PromptWriter, and a store     *)
(* that does not swallow.                                                  *)
(***************************************************************************)
EXTENDS Persistence, FiniteSetTheorems, TLAPS

Elems(q) == {q[i] : i \in DOMAIN q}

LEMMA ElemsHeadTail ==
  ASSUME NEW S, NEW q \in Seq(S), q # <<>>
  PROVE  /\ Head(q) \in Elems(q) /\ Head(q) \in S
         /\ Elems(Tail(q)) \subseteq Elems(q) /\ Tail(q) \in Seq(S)
         /\ Len(Tail(q)) = Len(q) - 1
<1>1. /\ Len(q) \in Nat \ {0} /\ DOMAIN q = 1..Len(q) /\ Head(q) = q[1]
  OBVIOUS
<1> QED BY <1>1 DEF Elems

LEMMA ElemsAppend ==
  ASSUME NEW S, NEW q \in Seq(S), NEW e \in S
  PROVE  /\ Append(q, e) \in Seq(S) /\ Len(Append(q, e)) = Len(q) + 1
         /\ Elems(Append(q, e)) = Elems(q) \cup {e}
<1> DEFINE p == Append(q, e)
<1>1. /\ p \in Seq(S) /\ Len(p) = Len(q) + 1 /\ Len(q) \in Nat
      /\ p[Len(q) + 1] = e /\ \A i \in 1..Len(q) : p[i] = q[i]
  OBVIOUS
<1> HIDE DEF p
<1>2. DOMAIN p = 1..(Len(q) + 1) /\ DOMAIN q = 1..Len(q)
  BY <1>1
<1>3. Elems(p) \subseteq Elems(q) \cup {e}
  BY <1>1, <1>2 DEF Elems
<1>4. e \in Elems(p)
  BY <1>1, <1>2 DEF Elems
<1>5. ASSUME NEW i \in DOMAIN q PROVE q[i] \in Elems(p)
  <2>1. i \in DOMAIN p /\ p[i] = q[i]
    BY <1>1, <1>2
  <2> QED BY <2>1 DEF Elems
<1> QED BY <1>1, <1>3, <1>4, <1>5 DEF Elems, p

LEMMA ElemsConcat ==
  ASSUME NEW S, NEW p \in Seq(S), NEW q \in Seq(S)
  PROVE  /\ p \o q \in Seq(S) /\ Len(p \o q) = Len(p) + Len(q)
         /\ Elems(p \o q) = Elems(p) \cup Elems(q)
<1> DEFINE r == p \o q
<1>1. /\ r \in Seq(S) /\ Len(r) = Len(p) + Len(q) /\ Len(p) \in Nat /\ Len(q) \in Nat
      /\ \A i \in 1..Len(p) : r[i] = p[i]
      /\ \A i \in 1..Len(q) : r[Len(p) + i] = q[i]
  OBVIOUS
<1> HIDE DEF r
<1>2. DOMAIN r = 1..(Len(p) + Len(q)) /\ DOMAIN q = 1..Len(q) /\ DOMAIN p = 1..Len(p)
  BY <1>1
<1>3. ASSUME NEW i \in DOMAIN r PROVE r[i] \in Elems(p) \cup Elems(q)
  <2>1. CASE i \in 1..Len(p)
    BY <1>1, <1>2, <2>1 DEF Elems
  <2>2. CASE i \notin 1..Len(p)
    <3>1. i - Len(p) \in 1..Len(q) /\ Len(p) + (i - Len(p)) = i
      BY <1>1, <1>2, <2>2
    <3>2. r[i] = q[i - Len(p)]
      BY <1>1, <3>1
    <3> QED BY <1>2, <3>1, <3>2 DEF Elems
  <2> QED BY <2>1, <2>2
<1>4. ASSUME NEW i \in DOMAIN p PROVE p[i] \in Elems(r)
  <2>1. i \in DOMAIN r /\ r[i] = p[i]
    BY <1>1, <1>2
  <2> QED BY <2>1 DEF Elems
<1>5. ASSUME NEW i \in DOMAIN q PROVE q[i] \in Elems(r)
  <2>1. Len(p) + i \in DOMAIN r /\ r[Len(p) + i] = q[i]
    BY <1>1, <1>2
  <2> QED BY <2>1 DEF Elems
<1>6. Elems(r) = Elems(p) \cup Elems(q)
  BY <1>3, <1>4, <1>5 DEF Elems
<1> QED BY <1>1, <1>6 DEF r

-----------------------------------------------------------------------------
(* Types.                                                                  *)
SessionType == [phase : {"absent", "loading", "live"}, name : Seq(Nat), state : StateType]

StateMap(f) == \A n \in DOMAIN f : n \in Seq(Nat) /\ f[n] \in StateType

WriterShaped == /\ writer \in [busy : BOOLEAN, players : {writer.players},
                              loads : Seq(Seq(Nat)), results : Seq(ResultType)]
                /\ StateMap(writer.players)
                /\ ~writer.busy => writer = Idle

(* Under OneClient, who has a name has it alone.                           *)
NamesOwn == \A s \in Slot :
  /\ session[s].phase = "absent" => session[s] = Absent
  /\ session[s].phase # "absent" =>
       /\ session[s].name # <<>>
       /\ \A t \in Slot \ {s} : session[t].name # session[s].name
  /\ session[s].phase = "live" => session[s].state.account = session[s].name

Typed ==
  /\ session \in [Slot -> SessionType]
  /\ StateMap(players) /\ StateMap(store) /\ StateMap(queued)
  /\ \A s \in DOMAIN lastSaved : s \in Slot /\ lastSaved[s].state \in StateType
  /\ loads \in Seq(Seq(Nat)) /\ completed \in Seq(ResultType) /\ drained \in Seq(ResultType)
  /\ Outstanding <= MaxLoads
  /\ WriterShaped
  /\ stopping \in BOOLEAN /\ faults \in 0..MaxFaults

(* Whatever holds a commander's state holds it under its own name.         *)
OwnNames(f) == \A n \in DOMAIN f : f[n].account = n
Results == Elems(writer.results) \cup Elems(completed) \cup Elems(drained)
Accounts == /\ OwnNames(players) /\ OwnNames(writer.players) /\ OwnNames(store)
            /\ \A r \in Results : r.found => r.state.account = r.name

AccountInv == Typed /\ NamesOwn /\ Accounts

LEMMA Idles ==
  /\ Idle.busy = FALSE /\ Idle.players = <<>> /\ Idle.loads = <<>> /\ Idle.results = <<>>
  /\ NoState \in StateType /\ Absent \in SessionType
  /\ Absent.phase = "absent" /\ Absent.name = <<>> /\ Absent.state = NoState
  /\ \A n \in Seq(Nat) :
       LET x == [Absent EXCEPT !.phase = "loading", !.name = n]
       IN x \in SessionType /\ x.phase = "loading" /\ x.name = n /\ x.state = NoState
<1>1. NoState \in StateType
  BY PersistenceAssumption DEF NoState, StateType
<1>2. Absent \in SessionType
  BY <1>1 DEF Absent, SessionType
<1>3. ASSUME NEW n \in Seq(Nat)
      PROVE  LET x == [Absent EXCEPT !.phase = "loading", !.name = n]
             IN x \in SessionType /\ x.phase = "loading" /\ x.name = n /\ x.state = NoState
  BY <1>1 DEF Absent, SessionType
<1>4. /\ Idle.busy = FALSE /\ Idle.players = <<>> /\ Idle.loads = <<>> /\ Idle.results = <<>>
      /\ Absent.phase = "absent" /\ Absent.name = <<>> /\ Absent.state = NoState
  BY DEF Idle, Absent
<1> QED BY <1>1, <1>2, <1>3, <1>4

LEMMA ResultTyped ==
  ASSUME NEW n \in Seq(Nat), StateMap(store)
  PROVE  /\ Result(n) \in ResultType /\ Result(n).name = n
         /\ Result(n).found <=> n \in DOMAIN store
         /\ n \in DOMAIN store => Result(n).state = store[n]
<1>1. CASE n \in DOMAIN store
  <2>1. store[n] \in StateType
    BY <1>1 DEF StateMap
  <2> QED BY <1>1, <2>1 DEF Result, ResultType
<1>2. CASE n \notin DOMAIN store
  BY <1>2, Idles DEF Result, ResultType
<1> QED BY <1>1, <1>2

(* The writer's steps, field by field.                                     *)
LEMMA WriterFields ==
  ASSUME WriterShaped, NEW p, NEW q \in Seq(Seq(Nat)), NEW rs \in Seq(ResultType)
  PROVE  LET x == [writer EXCEPT !.players = p]
             y == [writer EXCEPT !.loads = q, !.results = rs]
             z == [busy |-> TRUE, players |-> p, loads |-> q, results |-> <<>>]
             W(u) == [busy : BOOLEAN, players : {u},
                      loads : Seq(Seq(Nat)), results : Seq(ResultType)]
         IN  /\ x \in W(p) /\ x.busy = writer.busy /\ x.players = p
             /\ x.loads = writer.loads /\ x.results = writer.results
             /\ y \in W(writer.players) /\ y.busy = writer.busy
             /\ y.players = writer.players /\ y.loads = q /\ y.results = rs
             /\ z \in W(p) /\ z.busy = TRUE /\ z.players = p /\ z.loads = q /\ z.results = <<>>
             /\ Idle \in W(Idle.players) /\ StateMap(Idle.players)
<1>1. <<>> \in Seq(Seq(Nat)) /\ <<>> \in Seq(ResultType) /\ StateMap(<<>>)
  BY DEF StateMap
<1> QED BY <1>1 DEF WriterShaped, Idle

(* What is queued replaces what was, name by name.                         *)
LEMMA QueueIs ==
  ASSUME NEW x, QueuePlayerSnapshots(x)
  PROVE  /\ DOMAIN players' = DOMAIN players \cup DOMAIN x
         /\ DOMAIN queued' = DOMAIN queued \cup DOMAIN x
         /\ \A n \in DOMAIN x : players'[n] = x[n] /\ queued'[n] = x[n]
         /\ \A n \in DOMAIN players \ DOMAIN x : players'[n] = players[n]
         /\ \A n \in DOMAIN queued \ DOMAIN x : queued'[n] = queued[n]
BY DEF QueuePlayerSnapshots

LEMMA SnapshotsAre ==
  ASSUME Typed, NamesOwn, NEW slots \in SUBSET Live
  PROVE  /\ DOMAIN Snapshots(slots) = {session[s].name : s \in slots}
         /\ \A s \in slots : Snapshots(slots)[session[s].name] = session[s].state
         /\ StateMap(Snapshots(slots)) /\ OwnNames(Snapshots(slots))
<1>1. ASSUME NEW s \in slots
      PROVE  /\ Snapshots(slots)[session[s].name] = session[s].state
             /\ session[s] \in SessionType /\ session[s].state.account = session[s].name
  <2>1. \A t \in slots : session[t].name = session[s].name => t = s
    BY DEF NamesOwn, Live
  <2>2. (CHOOSE t \in slots : session[t].name = session[s].name) = s
    BY <2>1
  <2> QED BY <2>2 DEF Snapshots, NamesOwn, Live, Typed
<1>2. DOMAIN Snapshots(slots) = {session[s].name : s \in slots}
  BY DEF Snapshots
<1>3. ASSUME NEW n \in DOMAIN Snapshots(slots)
      PROVE  /\ n \in Seq(Nat) /\ Snapshots(slots)[n] \in StateType
             /\ Snapshots(slots)[n].account = n
  <2>1. PICK s \in slots : session[s].name = n
    BY <1>2
  <2>2. session[s].name \in Seq(Nat) /\ session[s].state \in StateType
    BY <1>1 DEF SessionType
  <2> QED BY <1>1, <2>1, <2>2
<1> QED BY <1>1, <1>2, <1>3 DEF StateMap, OwnNames

-----------------------------------------------------------------------------
(* The simulation thread.                                                  *)
LEMMA HelloAccounts ==
  ASSUME OneClient, AccountInv, NEW s \in Slot, NEW n \in Name, Hello(s, n)
  PROVE  AccountInv'
<1> DEFINE x == [Absent EXCEPT !.phase = "loading", !.name = n]
<1>1. /\ session' = [session EXCEPT ![s] = x] /\ loads' = Append(loads, n)
      /\ session[s].phase = "absent" /\ \A t \in Slot : session[t].name # n
      /\ Outstanding < MaxLoads
      /\ UNCHANGED <<lastSaved, drained, stopping, players, completed, writer, store, faults, queued>>
  BY DEF Hello
<1>2. n \in Seq(Nat) /\ Typed /\ NamesOwn /\ Accounts
  BY PersistenceAssumption DEF AccountInv
<1>3. x \in SessionType /\ x.phase = "loading" /\ x.name = n
  BY <1>2, Idles
<1> HIDE DEF x
<1>4. session' \in [Slot -> SessionType]
  BY <1>1, <1>2, <1>3 DEF Typed
<1>5. loads' \in Seq(Seq(Nat)) /\ Len(loads') = Len(loads) + 1
  BY <1>1, <1>2, ElemsAppend DEF Typed
<1>6. Outstanding' <= MaxLoads
  BY <1>1, <1>2, <1>5, PersistenceAssumption DEF Outstanding, Typed, WriterShaped
<1>7. Typed'
  BY <1>1, <1>2, <1>4, <1>5, <1>6 DEF Typed, WriterShaped, StateMap
<1>8. n # <<>>
  BY <1>1, <1>2, Idles DEF NamesOwn
<1>9. ASSUME NEW t \in Slot PROVE session'[t] = IF t = s THEN x ELSE session[t]
  BY <1>1, <1>2 DEF Typed
<1>10. NamesOwn'
  BY <1>1, <1>2, <1>3, <1>8, <1>9 DEF NamesOwn
<1>11. Accounts'
  BY <1>1, <1>2 DEF Accounts, OwnNames, Results, Elems
<1> QED BY <1>7, <1>10, <1>11 DEF AccountInv

(* Queuing one snapshot touches no other name.                             *)
LEMMA QueueOneIs ==
  ASSUME NEW n, NEW st, QueuePlayerSnapshots([m \in {n} |-> st])
  PROVE  /\ DOMAIN players' = DOMAIN players \cup {n}
         /\ DOMAIN queued' = DOMAIN queued \cup {n}
         /\ players'[n] = st /\ queued'[n] = st
         /\ \A m \in DOMAIN players \ {n} : players'[m] = players[m]
         /\ \A m \in DOMAIN queued \ {n} : queued'[m] = queued[m]
<1> DEFINE f == [m \in {n} |-> st]
<1>1. DOMAIN f = {n} /\ f[n] = st /\ QueuePlayerSnapshots(f)
  OBVIOUS
<1> HIDE DEF f
<1> QED BY <1>1, QueueIs

(* A nameless commander is new, under a name nobody has.                   *)
LEMMA BlankIs ==
  ASSUME NEW s \in Slot, NEW i \in Index, HelloBlank(s, i)
  PROVE  \E n \in DefaultNames, st \in StateType :
           /\ n \in Seq(Nat) /\ n # <<>> /\ st.account = n /\ st.progress = 0
           /\ ~stopping /\ drained = <<>>
           /\ session[s].phase = "absent" /\ \A t \in Slot : session[t].name # n
           /\ session' = [session EXCEPT ![s] = [phase |-> "live", name |-> n, state |-> st]]
           /\ QueuePlayerSnapshots([m \in {n} |-> st])
           /\ UNCHANGED <<lastSaved, drained, stopping, loads, completed, writer, store, faults>>
<1> DEFINE n == DefaultName(i)
           st == [account |-> n, progress |-> 0]
<1>1. n \in Seq(Nat) /\ n # <<>> /\ n \in DefaultNames
  BY PersistenceAssumption DEF DefaultName, DefaultNames
<1>2. /\ ~stopping /\ drained = <<>>
      /\ session[s].phase = "absent" /\ \A t \in Slot : session[t].name # n
      /\ session' = [session EXCEPT ![s] = [phase |-> "live", name |-> n, state |-> st]]
      /\ QueuePlayerSnapshots([m \in {n} |-> st])
      /\ UNCHANGED <<lastSaved, drained, stopping, loads, completed, writer, store, faults>>
  BY DEF HelloBlank, Between
<1> HIDE DEF n
<1>3. st \in StateType /\ st.account = n /\ st.progress = 0
  BY <1>1, PersistenceAssumption DEF StateType
<1> HIDE DEF st
<1> QED BY <1>1, <1>2, <1>3

LEMMA BlankAccounts ==
  ASSUME AccountInv, NEW s \in Slot, NEW i \in Index, HelloBlank(s, i)
  PROVE  AccountInv'
<1>1. PICK n \in DefaultNames, st \in StateType :
        /\ n \in Seq(Nat) /\ n # <<>> /\ st.account = n
        /\ session[s].phase = "absent" /\ \A t \in Slot : session[t].name # n
        /\ session' = [session EXCEPT ![s] = [phase |-> "live", name |-> n, state |-> st]]
        /\ QueuePlayerSnapshots([m \in {n} |-> st])
        /\ UNCHANGED <<lastSaved, drained, stopping, loads, completed, writer, store, faults>>
  BY BlankIs
<1> DEFINE x == [phase |-> "live", name |-> n, state |-> st]
<1>2. Typed /\ NamesOwn /\ Accounts
  BY DEF AccountInv
<1>3. /\ x \in SessionType /\ x.phase = "live" /\ x.name = n /\ x.state.account = n
      /\ session' = [session EXCEPT ![s] = x]
  BY <1>1 DEF SessionType
<1> HIDE DEF x
<1>4. /\ session' \in [Slot -> SessionType]
      /\ \A t \in Slot : session'[t] = IF t = s THEN x ELSE session[t]
  BY <1>2, <1>3 DEF Typed
<1>5. NamesOwn'
  BY <1>1, <1>2, <1>3, <1>4 DEF NamesOwn
<1>6. StateMap(players)' /\ StateMap(queued)' /\ OwnNames(players)'
  <2>1. /\ DOMAIN players' = DOMAIN players \cup {n} /\ DOMAIN queued' = DOMAIN queued \cup {n}
        /\ players'[n] = st /\ queued'[n] = st
        /\ \A m \in DOMAIN players \ {n} : players'[m] = players[m]
        /\ \A m \in DOMAIN queued \ {n} : queued'[m] = queued[m]
    BY <1>1, QueueOneIs
  <2> QED BY <1>1, <1>2, <2>1 DEF Typed, StateMap, Accounts, OwnNames
<1>7. Typed'
  BY <1>1, <1>2, <1>4, <1>6 DEF Typed, Outstanding, WriterShaped, StateMap
<1>8. Accounts'
  BY <1>1, <1>2, <1>6 DEF Accounts, OwnNames, Results, Elems
<1> QED BY <1>5, <1>7, <1>8 DEF AccountInv

LEMMA DrainAccounts ==
  ASSUME AccountInv, DrainLoads
  PROVE  AccountInv'
<1>1. /\ drained = <<>> /\ drained' = completed /\ completed' = <<>>
      /\ UNCHANGED <<session, lastSaved, stopping, players, loads, writer, store, faults, queued>>
      /\ Typed /\ NamesOwn /\ Accounts
  BY DEF DrainLoads, Between, AccountInv
<1>2. Outstanding' <= MaxLoads
  <2>1. Len(completed') = 0 /\ Len(completed) \in Nat /\ Outstanding' = Outstanding - Len(completed)
    BY <1>1 DEF Outstanding, Typed, WriterShaped
  <2> QED BY <1>1, <2>1, PersistenceAssumption DEF Typed, Outstanding, WriterShaped
<1>3. Typed'
  BY <1>1, <1>2 DEF Typed, WriterShaped, StateMap
<1>4. Results' \subseteq Results
  BY <1>1 DEF Results, Elems
<1> QED BY <1>1, <1>3, <1>4 DEF AccountInv, NamesOwn, Accounts, OwnNames

(* Nobody else has the name a session waits under, so it keeps it.         *)
LEMMA ApplyIs ==
  ASSUME AccountInv, ApplyLoad
  PROVE  LET r == Head(drained)
         IN  /\ drained # <<>> /\ r \in ResultType /\ r \in Elems(drained)
             /\ drained' = Tail(drained) /\ drained' \in Seq(ResultType)
             /\ Elems(drained') \subseteq Elems(drained)
             /\ UNCHANGED <<lastSaved, stopping, loads, completed, writer, store, faults>>
             /\ \/ Waiting(r.name) = {} /\ UNCHANGED <<session, players, queued>>
                \/ \E s \in Waiting(r.name), st \in StateType :
                     /\ st.account = r.name
                     /\ session' = [session EXCEPT ![s] =
                                      [phase |-> "live", name |-> r.name, state |-> st]]
                     /\ \/ r.found /\ st = r.state /\ UNCHANGED <<players, queued>>
                        \/ /\ ~r.found /\ st.progress = 0
                           /\ QueuePlayerSnapshots([n \in {r.name} |-> st])
<1> DEFINE r == Head(drained)
<1>1. /\ drained # <<>> /\ Typed /\ NamesOwn /\ Accounts
      /\ UNCHANGED <<lastSaved, stopping, loads, completed, writer, store, faults>>
      /\ drained' = Tail(drained)
  BY DEF ApplyLoad, AccountInv
<1>2. /\ r \in ResultType /\ r \in Elems(drained)
      /\ drained' \in Seq(ResultType) /\ Elems(drained') \subseteq Elems(drained)
  <2>1. drained \in Seq(ResultType)
    BY <1>1 DEF Typed
  <2> HIDE DEF r
  <2> QED BY <1>1, <2>1, ElemsHeadTail DEF r
<1>3. r.found => r.state.account = r.name
  BY <1>1, <1>2 DEF Accounts, Results
<1>4. r.name \in Seq(Nat) /\ r.state \in StateType /\ r.found \in BOOLEAN
  BY <1>2 DEF ResultType
<1>5. CASE Waiting(r.name) = {}
  BY <1>1, <1>2, <1>5 DEF ApplyLoad
<1>6. CASE Waiting(r.name) # {}
  <2>1. PICK s \in Waiting(r.name) :
         LET name == UniqueName(session[s].name, s)
             state == IF r.found THEN r.state ELSE [account |-> name, progress |-> 0]
         IN /\ session' = [session EXCEPT ![s] =
                             [phase |-> "live", name |-> name, state |-> state]]
            /\ IF r.found THEN UNCHANGED <<players, queued>>
               ELSE QueuePlayerSnapshots([n \in {name} |-> state])
    BY <1>6 DEF ApplyLoad
  <2>2. UniqueName(session[s].name, s) = r.name
    <3>1. session[s].name = r.name /\ s \in Slot /\ session[s].phase # "absent"
      BY DEF Waiting
    <3>2. ~ \E t \in Slot \ {s} : session[t].name = r.name
      BY <1>1, <3>1 DEF NamesOwn
    <3> QED BY <3>1, <3>2 DEF UniqueName
  <2> DEFINE st == IF r.found THEN r.state ELSE [account |-> r.name, progress |-> 0]
  <2>3. /\ session' = [session EXCEPT ![s] = [phase |-> "live", name |-> r.name, state |-> st]]
        /\ IF r.found THEN UNCHANGED <<players, queued>>
           ELSE QueuePlayerSnapshots([n \in {r.name} |-> st])
    BY <2>1, <2>2
  <2>4. /\ st \in StateType /\ st.account = r.name
        /\ r.found => st = r.state
        /\ ~r.found => st.progress = 0
    BY <1>3, <1>4, PersistenceAssumption DEF StateType
  <2> HIDE DEF st, r
  <2>5. \/ r.found /\ st = r.state /\ UNCHANGED <<players, queued>>
        \/ ~r.found /\ st.progress = 0 /\ QueuePlayerSnapshots([n \in {r.name} |-> st])
    BY <1>4, <2>3, <2>4
  <2>6. \E q \in Waiting(r.name), u \in StateType :
          /\ u.account = r.name
          /\ session' = [session EXCEPT ![q] = [phase |-> "live", name |-> r.name, state |-> u]]
          /\ \/ r.found /\ u = r.state /\ UNCHANGED <<players, queued>>
             \/ ~r.found /\ u.progress = 0 /\ QueuePlayerSnapshots([n \in {r.name} |-> u])
    BY <2>3, <2>4, <2>5
  <2> QED BY <1>1, <1>2, <2>6 DEF r
<1> QED BY <1>5, <1>6

LEMMA ApplyAccounts ==
  ASSUME AccountInv, ApplyLoad
  PROVE  AccountInv'
<1> DEFINE r == Head(drained)
<1>1. /\ Typed /\ NamesOwn /\ Accounts
      /\ drained # <<>> /\ r \in ResultType /\ r \in Elems(drained)
      /\ drained' \in Seq(ResultType) /\ Elems(drained') \subseteq Elems(drained)
      /\ UNCHANGED <<lastSaved, stopping, loads, completed, writer, store, faults>>
  BY ApplyIs DEF AccountInv
<1>2. Outstanding' <= MaxLoads /\ WriterShaped' /\ StateMap(store)'
  BY <1>1 DEF Typed, Outstanding, WriterShaped, StateMap
<1>3. Results' \subseteq Results
  BY <1>1 DEF Results, Elems
<1> HIDE DEF r
<1>4. CASE UNCHANGED <<session, players, queued>>
  <2>1. Typed'
    BY <1>1, <1>2, <1>4 DEF Typed, StateMap
  <2>2. Accounts'
    BY <1>1, <1>3, <1>4 DEF Accounts, OwnNames
  <2> QED BY <1>1, <1>4, <2>1, <2>2 DEF AccountInv, NamesOwn
<1>5. ASSUME NEW s \in Waiting(r.name), NEW st \in StateType, st.account = r.name,
             session' = [session EXCEPT ![s] = [phase |-> "live", name |-> r.name, state |-> st]],
             \/ UNCHANGED <<players, queued>>
             \/ QueuePlayerSnapshots([n \in {r.name} |-> st])
      PROVE  AccountInv'
  <2> DEFINE x == [phase |-> "live", name |-> r.name, state |-> st]
  <2>1. r.name \in Seq(Nat) /\ s \in Slot /\ session[s].name = r.name /\ session[s].phase = "loading"
    BY <1>1, <1>5 DEF ResultType, Waiting
  <2>2. x \in SessionType /\ x.phase = "live" /\ x.name = r.name /\ x.state.account = r.name
    BY <1>5, <2>1 DEF SessionType
  <2>3. session' = [session EXCEPT ![s] = x]
    BY <1>5
  <2> HIDE DEF x
  <2>4. /\ session' \in [Slot -> SessionType]
        /\ \A t \in Slot : session'[t] = IF t = s THEN x ELSE session[t]
    BY <1>1, <2>1, <2>2, <2>3 DEF Typed
  <2>5. NamesOwn'
    BY <1>1, <2>1, <2>2, <2>4 DEF NamesOwn
  <2>6. StateMap(players)' /\ StateMap(queued)' /\ OwnNames(players)'
    <3>1. CASE UNCHANGED <<players, queued>>
      BY <1>1, <3>1 DEF Typed, StateMap, Accounts, OwnNames
    <3>2. CASE QueuePlayerSnapshots([n \in {r.name} |-> st])
      <4> DEFINE f == [n \in {r.name} |-> st]
      <4>1. DOMAIN f = {r.name} /\ f[r.name] = st
        OBVIOUS
      <4>2. QueuePlayerSnapshots(f)
        BY <3>2
      <4> HIDE DEF f
      <4>3. /\ DOMAIN players' = DOMAIN players \cup DOMAIN f
            /\ DOMAIN queued' = DOMAIN queued \cup DOMAIN f
            /\ \A n \in DOMAIN f : players'[n] = f[n] /\ queued'[n] = f[n]
            /\ \A n \in DOMAIN players \ DOMAIN f : players'[n] = players[n]
            /\ \A n \in DOMAIN queued \ DOMAIN f : queued'[n] = queued[n]
        BY <4>2, QueueIs
      <4> QED BY <1>1, <1>5, <2>1, <4>1, <4>3 DEF Typed, StateMap, Accounts, OwnNames
    <3> QED BY <1>5, <3>1, <3>2
  <2>7. Typed'
    BY <1>1, <1>2, <2>4, <2>6 DEF Typed
  <2>8. Accounts'
    BY <1>1, <1>3, <2>6 DEF Accounts, OwnNames
  <2> QED BY <2>5, <2>7, <2>8 DEF AccountInv
<1> QED BY <1>4, <1>5, ApplyIs DEF r

(* A player that plays on stays who it is.                                 *)
LEMMA PlayIs ==
  ASSUME Typed, NEW s \in Slot, Play(s)
  PROVE  /\ session' \in [Slot -> SessionType]
         /\ \A t \in Slot \ {s} : session'[t] = session[t]
         /\ session'[s].phase = session[s].phase /\ session'[s].name = session[s].name
         /\ session'[s].state.account = session[s].state.account
         /\ session'[s].state.progress = session[s].state.progress + 1
<1> DEFINE x == [session[s] EXCEPT !.state.progress = @ + 1]
<1>1. /\ session' = [session EXCEPT ![s] = x] /\ session[s] \in SessionType
      /\ session[s].state.progress < MaxProgress /\ session \in [Slot -> SessionType]
  BY DEF Play, Typed
<1>2. /\ session[s].state.progress \in 0..MaxProgress /\ session[s].state.account \in Seq(Nat)
      /\ session[s].state.progress + 1 \in 0..MaxProgress
  BY <1>1, PersistenceAssumption DEF SessionType, StateType
<1>3. /\ x.phase = session[s].phase /\ x.name = session[s].name
      /\ x.state = [session[s].state EXCEPT !.progress = @ + 1]
  BY <1>1 DEF SessionType
<1>4. /\ x.state.account = session[s].state.account
      /\ x.state.progress = session[s].state.progress + 1
      /\ x.state \in StateType
  BY <1>1, <1>2, <1>3 DEF SessionType, StateType
<1>5. x \in SessionType
  BY <1>1, <1>3, <1>4 DEF SessionType
<1> HIDE DEF x
<1> QED BY <1>1, <1>3, <1>4, <1>5

LEMMA PlayAccounts ==
  ASSUME AccountInv, NEW s \in Slot, Play(s)
  PROVE  AccountInv'
<1>1. /\ Typed /\ NamesOwn /\ Accounts
      /\ UNCHANGED <<lastSaved, drained, stopping, queueVars, writer, store, faults, queued>>
      /\ session[s].phase = "live"
  BY DEF AccountInv, Play, Live
<1>2. /\ session' \in [Slot -> SessionType]
      /\ \A t \in Slot \ {s} : session'[t] = session[t]
      /\ session'[s].phase = session[s].phase /\ session'[s].name = session[s].name
      /\ session'[s].state.account = session[s].state.account
  BY <1>1, PlayIs
<1>3. Typed'
  BY <1>1, <1>2 DEF Typed, Outstanding, WriterShaped, StateMap, queueVars
<1>4. NamesOwn'
  BY <1>1, <1>2 DEF NamesOwn
<1>5. Accounts'
  BY <1>1 DEF Accounts, OwnNames, Results, Elems, queueVars
<1> QED BY <1>3, <1>4, <1>5 DEF AccountInv

LEMMA QueueAccounts ==
  ASSUME Typed, NamesOwn, Accounts, NEW slots \in SUBSET Live,
         QueuePlayerSnapshots(Snapshots(slots))
  PROVE  StateMap(players)' /\ StateMap(queued)' /\ OwnNames(players)'
<1> DEFINE f == Snapshots(slots)
<1>1. StateMap(f) /\ OwnNames(f)
  BY SnapshotsAre
<1> HIDE DEF f
<1>2. /\ DOMAIN players' = DOMAIN players \cup DOMAIN f
      /\ DOMAIN queued' = DOMAIN queued \cup DOMAIN f
      /\ \A n \in DOMAIN f : players'[n] = f[n] /\ queued'[n] = f[n]
      /\ \A n \in DOMAIN players \ DOMAIN f : players'[n] = players[n]
      /\ \A n \in DOMAIN queued \ DOMAIN f : queued'[n] = queued[n]
  BY QueueIs DEF f
<1> QED BY <1>1, <1>2 DEF Typed, StateMap, Accounts, OwnNames

LEMMA SaveAccounts ==
  ASSUME AccountInv, SavePlayers
  PROVE  AccountInv'
<1> DEFINE changed == {s \in Live : s \notin DOMAIN lastSaved \/ lastSaved[s] # Durable(s)}
           kept == {t \in Slot : t \in Live \/ (t \in DOMAIN lastSaved /\ t \in Loading)}
<1>1. /\ Typed /\ NamesOwn /\ Accounts
      /\ UNCHANGED <<session, drained, stopping, completed, writer, store, faults>>
      /\ Outstanding + Cardinality(Loading) <= MaxLoads
      /\ QueuePlayerSnapshots(Snapshots(changed))
      /\ lastSaved' = [s \in kept |-> IF s \in Live THEN Durable(s) ELSE lastSaved[s]]
  BY DEF AccountInv, SavePlayers
<1>2. StateMap(players)' /\ StateMap(queued)' /\ OwnNames(players)'
  BY <1>1, QueueAccounts
<1>3. ASSUME NEW s \in DOMAIN lastSaved' PROVE s \in Slot /\ lastSaved'[s].state \in StateType
  <2>1. s \in kept /\ lastSaved'[s] = IF s \in Live THEN Durable(s) ELSE lastSaved[s]
    BY <1>1
  <2>2. CASE s \in Live
    BY <1>1, <2>1, <2>2 DEF Typed, SessionType, Durable, Live
  <2>3. CASE s \notin Live
    BY <1>1, <2>1, <2>3 DEF Typed
  <2> QED BY <2>2, <2>3
<1>4. loads' \in Seq(Seq(Nat)) /\ Len(loads') = Len(loads) + Cardinality(Loading)
      /\ Cardinality(Loading) \in Nat
  <2>1. PICK order \in [1..Cardinality(Loading) -> Loading] :
          loads' = loads \o [i \in DOMAIN order |-> session[order[i]].name]
    BY DEF SavePlayers
  <2> DEFINE asked == [i \in DOMAIN order |-> session[order[i]].name]
  <2>2. Cardinality(Loading) \in Nat
    <3>1. IsFiniteSet(Slot) /\ Loading \subseteq Slot
      BY PersistenceAssumption DEF Loading
    <3> QED BY <3>1, FS_Subset, FS_CardinalityType
  <2>3. \A i \in 1..Cardinality(Loading) : session[order[i]].name \in Seq(Nat)
    BY <1>1 DEF Typed, SessionType, Loading
  <2>4. asked \in Seq(Seq(Nat)) /\ Len(asked) = Cardinality(Loading)
    BY <2>2, <2>3
  <2> HIDE DEF asked
  <2>5. loads' = loads \o asked
    BY <2>1 DEF asked
  <2> QED BY <1>1, <2>2, <2>4, <2>5, ElemsConcat DEF Typed
<1>5. Outstanding' <= MaxLoads
  BY <1>1, <1>4, PersistenceAssumption DEF Outstanding, Typed, WriterShaped
<1>6. Typed'
  BY <1>1, <1>2, <1>3, <1>4, <1>5 DEF Typed, WriterShaped, StateMap
<1>7. Accounts'
  BY <1>1, <1>2 DEF Accounts, OwnNames, Results, Elems
<1> QED BY <1>1, <1>6, <1>7 DEF AccountInv, NamesOwn

LEMMA ReapAccounts ==
  ASSUME AccountInv, NEW s \in Slot, Reap(s)
  PROVE  AccountInv'
<1>1. /\ Typed /\ NamesOwn /\ Accounts
      /\ UNCHANGED <<lastSaved, drained, stopping, queueVars, writer, store, faults, queued>>
      /\ session' = [session EXCEPT ![s] = Absent]
      /\ Absent \in SessionType /\ Absent.phase = "absent" /\ Absent.name = <<>>
  BY Idles DEF AccountInv, Reap
<1>2. /\ session' \in [Slot -> SessionType]
      /\ \A t \in Slot : session'[t] = IF t = s THEN Absent ELSE session[t]
  BY <1>1 DEF Typed
<1>3. Typed'
  BY <1>1, <1>2 DEF Typed, Outstanding, WriterShaped, StateMap, queueVars
<1>4. NamesOwn'
  BY <1>1, <1>2 DEF NamesOwn
<1>5. Accounts'
  BY <1>1 DEF Accounts, OwnNames, Results, Elems, queueVars
<1> QED BY <1>3, <1>4, <1>5 DEF AccountInv

LEMMA StopAccounts ==
  ASSUME AccountInv, Stop
  PROVE  AccountInv'
<1>1. /\ Typed /\ NamesOwn /\ Accounts
      /\ UNCHANGED <<session, lastSaved, drained, loads, completed, writer, store, faults>>
      /\ stopping' = TRUE /\ QueuePlayerSnapshots(Snapshots(Live))
  BY DEF AccountInv, Stop
<1>2. StateMap(players)' /\ StateMap(queued)' /\ OwnNames(players)'
  BY <1>1, QueueAccounts
<1>3. Typed'
  BY <1>1, <1>2 DEF Typed, WriterShaped, StateMap, Outstanding
<1>4. Accounts'
  BY <1>1, <1>2 DEF Accounts, OwnNames, Results, Elems
<1> QED BY <1>1, <1>3, <1>4 DEF AccountInv, NamesOwn

-----------------------------------------------------------------------------
(* The writer thread.                                                      *)
LEMMA SwapIs ==
  ASSUME Typed, Swap
  PROVE  /\ writer = Idle /\ WriterShaped'
         /\ writer'.players = players /\ writer'.loads = loads /\ writer'.results = <<>>
         /\ players' = <<>> /\ loads' = <<>>
         /\ UNCHANGED <<session, lastSaved, drained, stopping, completed, store, faults, queued>>
<1>1. /\ writer' = [busy |-> TRUE, players |-> players, loads |-> loads, results |-> <<>>]
      /\ players' = <<>> /\ loads' = <<>> /\ writer = Idle
      /\ UNCHANGED <<session, lastSaved, drained, stopping, completed, store, faults, queued>>
  BY DEF Swap, Typed, WriterShaped, simVars
<1>2. /\ writer'.busy = TRUE /\ writer'.players = players /\ writer'.loads = loads
      /\ writer'.results = <<>>
  BY <1>1
<1>3. <<>> \in Seq(ResultType) /\ loads \in Seq(Seq(Nat)) /\ StateMap(players)
  BY DEF Typed
<1>4. writer' \in [busy : BOOLEAN, players : {writer'.players},
                   loads : Seq(Seq(Nat)), results : Seq(ResultType)]
  BY <1>1, <1>2, <1>3
<1> QED BY <1>1, <1>2, <1>3, <1>4 DEF WriterShaped, StateMap

LEMMA SwapAccounts ==
  ASSUME AccountInv, Swap
  PROVE  AccountInv'
<1>1. /\ Typed /\ NamesOwn /\ Accounts
      /\ writer = Idle /\ WriterShaped'
      /\ writer'.players = players /\ writer'.loads = loads /\ writer'.results = <<>>
      /\ players' = <<>> /\ loads' = <<>>
      /\ UNCHANGED <<session, lastSaved, drained, stopping, completed, store, faults, queued>>
  BY SwapIs DEF AccountInv
<1>2. Outstanding' = Outstanding
  <2>1. writer.loads = <<>> /\ writer.results = <<>>
    BY <1>1, Idles
  <2> QED BY <1>1, <2>1 DEF Outstanding, Typed
<1>3. Typed'
  BY <1>1, <1>2 DEF Typed, StateMap
<1>4. Results' \subseteq Results
  BY <1>1 DEF Results, Elems
<1>5. Accounts'
  BY <1>1, <1>4 DEF Accounts, OwnNames
<1> QED BY <1>1, <1>3, <1>5 DEF AccountInv, NamesOwn

LEMMA UpsertIs ==
  ASSUME Typed, NEW n \in DOMAIN writer.players, UpsertPlayer(n)
  PROVE  /\ WriterShaped' /\ writer.players # <<>> /\ writer.busy
         /\ DOMAIN writer'.players = DOMAIN writer.players \ {n}
         /\ \A m \in DOMAIN writer'.players : writer'.players[m] = writer.players[m]
         /\ writer'.loads = writer.loads /\ writer'.results = writer.results
         /\ UNCHANGED <<session, lastSaved, drained, stopping, players, loads, completed, queued>>
         /\ \/ /\ DOMAIN store' = DOMAIN store \cup {n} /\ store'[n] = writer.players[n]
               /\ \A m \in DOMAIN store \ {n} : store'[m] = store[m]
               /\ UNCHANGED faults
            \/ /\ "swallow" \in Faults /\ faults' = faults + 1 /\ faults < MaxFaults
               /\ UNCHANGED store
<1> DEFINE p == Restrict(writer.players, DOMAIN writer.players \ {n})
<1>1. /\ WriterShaped /\ writer' = [writer EXCEPT !.players = p]
      /\ UNCHANGED <<session, lastSaved, drained, stopping, players, loads, completed, queued>>
  BY DEF UpsertPlayer, Typed, simVars, queueVars
<1>2. DOMAIN p = DOMAIN writer.players \ {n} /\ \A m \in DOMAIN p : p[m] = writer.players[m]
  BY DEF Restrict
<1>3. StateMap(p)
  BY <1>1, <1>2 DEF StateMap, WriterShaped
<1> HIDE DEF p
<1>4. writer.players # <<>> /\ writer.busy
  <2>1. writer.players # <<>>
    OBVIOUS
  <2>2. writer # Idle
    BY <2>1, Idles
  <2> QED BY <1>1, <2>1, <2>2 DEF WriterShaped
<1>5. writer.loads \in Seq(Seq(Nat)) /\ writer.results \in Seq(ResultType)
  BY <1>1 DEF WriterShaped
<1>6. /\ writer' \in [busy : BOOLEAN, players : {p}, loads : Seq(Seq(Nat)), results : Seq(ResultType)]
      /\ writer'.busy = writer.busy /\ writer'.players = p
      /\ writer'.loads = writer.loads /\ writer'.results = writer.results
  BY <1>1, <1>5, WriterFields
<1>7. WriterShaped'
  BY <1>3, <1>4, <1>6 DEF WriterShaped, StateMap
<1>8. \/ /\ DOMAIN store' = DOMAIN store \cup {n} /\ store'[n] = writer.players[n]
         /\ \A m \in DOMAIN store \ {n} : store'[m] = store[m]
         /\ UNCHANGED faults
      \/ /\ "swallow" \in Faults /\ faults' = faults + 1 /\ faults < MaxFaults
         /\ UNCHANGED store
  BY DEF UpsertPlayer, Put
<1> QED BY <1>1, <1>2, <1>4, <1>6, <1>7, <1>8

LEMMA UpsertAccounts ==
  ASSUME AccountInv, NEW n \in DOMAIN writer.players, UpsertPlayer(n)
  PROVE  AccountInv'
<1>1. /\ Typed /\ NamesOwn /\ Accounts /\ WriterShaped'
      /\ DOMAIN writer'.players = DOMAIN writer.players \ {n}
      /\ \A m \in DOMAIN writer'.players : writer'.players[m] = writer.players[m]
      /\ writer'.loads = writer.loads /\ writer'.results = writer.results
      /\ UNCHANGED <<session, lastSaved, drained, stopping, players, loads, completed, queued>>
  BY UpsertIs DEF AccountInv
<1>2. /\ StateMap(store)' /\ OwnNames(store)' /\ OwnNames(writer.players)'
      /\ faults' \in 0..MaxFaults
  <2>1. CASE /\ DOMAIN store' = DOMAIN store \cup {n} /\ store'[n] = writer.players[n]
             /\ \A m \in DOMAIN store \ {n} : store'[m] = store[m]
             /\ UNCHANGED faults
    BY <1>1, <2>1 DEF Typed, WriterShaped, StateMap, Accounts, OwnNames
  <2>2. CASE faults' = faults + 1 /\ faults < MaxFaults /\ UNCHANGED store
    BY <1>1, <2>2, PersistenceAssumption DEF Typed, StateMap, Accounts, OwnNames
  <2> QED BY <1>1, <2>1, <2>2, UpsertIs
<1>3. Typed'
  BY <1>1, <1>2 DEF Typed, StateMap, Outstanding
<1>4. Results' = Results
  BY <1>1 DEF Results, Elems
<1>5. Accounts'
  BY <1>1, <1>2, <1>4 DEF Accounts, OwnNames
<1> QED BY <1>1, <1>3, <1>5 DEF AccountInv, NamesOwn

LEMMA LoadIs ==
  ASSUME Typed, LoadPlayer
  PROVE  LET n == Head(writer.loads)
         IN  /\ n \in Seq(Nat) /\ n \in Elems(writer.loads) /\ WriterShaped' /\ writer.busy
             /\ writer.players = <<>> /\ writer'.players = <<>>
             /\ Elems(writer'.loads) \subseteq Elems(writer.loads)
             /\ Len(writer'.loads) = Len(writer.loads) - 1
             /\ Len(writer'.results) = Len(writer.results) + 1
             /\ UNCHANGED <<session, lastSaved, drained, stopping, players, loads, completed,
                            store, queued>>
             /\ \/ /\ Elems(writer'.results) = Elems(writer.results) \cup {Result(n)}
                   /\ UNCHANGED faults
                \/ /\ "swallow" \in Faults /\ faults' = faults + 1 /\ faults < MaxFaults
                   /\ Elems(writer'.results) = Elems(writer.results) \cup {NotFound(n)}
<1> DEFINE n == Head(writer.loads)
<1>1. /\ WriterShaped /\ writer.busy /\ writer.players = <<>> /\ writer.loads # <<>>
      /\ writer.loads \in Seq(Seq(Nat)) /\ writer.results \in Seq(ResultType)
      /\ UNCHANGED <<session, lastSaved, drained, stopping, players, loads, completed, store, queued>>
  BY DEF LoadPlayer, Typed, simVars, queueVars, WriterShaped
<1>2. /\ n \in Seq(Nat) /\ n \in Elems(writer.loads)
      /\ Tail(writer.loads) \in Seq(Seq(Nat)) /\ Elems(Tail(writer.loads)) \subseteq Elems(writer.loads)
      /\ Len(Tail(writer.loads)) = Len(writer.loads) - 1
  BY <1>1, ElemsHeadTail
<1>3. Result(n) \in ResultType /\ NotFound(n) \in ResultType
  BY <1>2, ResultTyped, Idles DEF Typed, NotFound, ResultType
<1> HIDE DEF n
<1>4. PICK r \in {Result(n), NotFound(n)} :
        /\ writer' = [writer EXCEPT !.loads = Tail(writer.loads), !.results = Append(writer.results, r)]
        /\ \/ r = Result(n) /\ UNCHANGED faults
           \/ /\ r = NotFound(n)
              /\ "swallow" \in Faults /\ faults' = faults + 1 /\ faults < MaxFaults
  <2>1. \/ /\ writer' = [writer EXCEPT !.loads = Tail(writer.loads),
                                       !.results = Append(writer.results, Result(n))]
           /\ UNCHANGED faults
        \/ /\ "swallow" \in Faults /\ faults < MaxFaults
           /\ writer' = [writer EXCEPT !.loads = Tail(writer.loads),
                                       !.results = Append(writer.results, NotFound(n))]
           /\ faults' = faults + 1
    BY <1>1 DEF LoadPlayer, n
  <2> QED BY <2>1
<1>5. /\ Append(writer.results, r) \in Seq(ResultType)
      /\ Len(Append(writer.results, r)) = Len(writer.results) + 1
      /\ Elems(Append(writer.results, r)) = Elems(writer.results) \cup {r}
  BY <1>1, <1>3, ElemsAppend
<1>6. /\ writer' \in [busy : BOOLEAN, players : {writer.players},
                       loads : Seq(Seq(Nat)), results : Seq(ResultType)]
      /\ writer'.busy = writer.busy /\ writer'.players = writer.players
      /\ writer'.loads = Tail(writer.loads) /\ writer'.results = Append(writer.results, r)
  BY <1>1, <1>2, <1>4, <1>5, WriterFields
<1>7. WriterShaped'
  BY <1>1, <1>6 DEF WriterShaped, StateMap
<1> QED BY <1>1, <1>2, <1>4, <1>5, <1>6, <1>7 DEF n

LEMMA LoadAccounts ==
  ASSUME AccountInv, LoadPlayer
  PROVE  AccountInv'
<1> DEFINE n == Head(writer.loads)
<1>1. /\ Typed /\ NamesOwn /\ Accounts
      /\ n \in Seq(Nat) /\ WriterShaped' /\ writer'.players = <<>>
      /\ Len(writer'.loads) = Len(writer.loads) - 1
      /\ Len(writer'.results) = Len(writer.results) + 1
      /\ UNCHANGED <<session, lastSaved, drained, stopping, players, loads, completed, store, queued>>
  BY LoadIs DEF AccountInv
<1>2. faults' \in 0..MaxFaults /\ Elems(writer'.results) \subseteq
                                  Elems(writer.results) \cup {Result(n), NotFound(n)}
  BY LoadIs, PersistenceAssumption DEF AccountInv, Typed
<1>3. ASSUME NEW r \in {Result(n), NotFound(n)} PROVE r.found => r.state.account = r.name
  BY <1>1, ResultTyped DEF Typed, NotFound, Accounts, OwnNames
<1> HIDE DEF n
<1>4. Outstanding' = Outstanding
  BY <1>1 DEF Outstanding, Typed, WriterShaped
<1>5. Typed'
  BY <1>1, <1>2, <1>4 DEF Typed, StateMap
<1>6. Results' \subseteq Results \cup {Result(n), NotFound(n)}
  BY <1>1, <1>2 DEF Results, Elems
<1>7. Accounts'
  BY <1>1, <1>3, <1>6 DEF Accounts, OwnNames
<1> QED BY <1>1, <1>5, <1>7 DEF AccountInv, NamesOwn

LEMMA PublishIs ==
  ASSUME Typed, Publish
  PROVE  /\ writer.players = <<>> /\ writer.loads = <<>> /\ writer' = Idle
         /\ completed' \in Seq(ResultType)
         /\ Elems(completed') = Elems(completed) \cup Elems(writer.results)
         /\ Len(completed') = Len(completed) + Len(writer.results)
         /\ UNCHANGED <<session, lastSaved, drained, stopping, players, loads, store, faults, queued>>
<1>1. writer.results \in Seq(ResultType) /\ completed \in Seq(ResultType)
  BY DEF Typed, WriterShaped
<1> QED BY <1>1, ElemsConcat DEF Publish, simVars

(* An idle writer, whatever it was before.                                 *)
LEMMA IdleShaped ==
  ASSUME writer' = Idle
  PROVE  /\ WriterShaped' /\ OwnNames(writer'.players)
         /\ DOMAIN writer'.players = {} /\ Elems(writer'.loads) = {} /\ Elems(writer'.results) = {}
         /\ Len(writer'.loads) = 0 /\ Len(writer'.results) = 0
<1>1. <<>> \in Seq(Seq(Nat)) /\ <<>> \in Seq(ResultType) /\ StateMap(<<>>) /\ OwnNames(<<>>)
  BY DEF StateMap, OwnNames
<1>2. /\ writer'.busy = FALSE /\ writer'.players = <<>> /\ writer'.loads = <<>>
      /\ writer'.results = <<>>
  BY Idles
<1>3. writer' \in [busy : BOOLEAN, players : {writer'.players},
                   loads : Seq(Seq(Nat)), results : Seq(ResultType)]
  BY <1>1 DEF Idle
<1> QED BY <1>1, <1>2, <1>3 DEF WriterShaped, StateMap, OwnNames, Elems

LEMMA PublishAccounts ==
  ASSUME AccountInv, Publish
  PROVE  AccountInv'
<1>1. /\ Typed /\ NamesOwn /\ Accounts /\ writer.loads = <<>> /\ writer' = Idle
      /\ completed' \in Seq(ResultType)
      /\ Elems(completed') = Elems(completed) \cup Elems(writer.results)
      /\ Len(completed') = Len(completed) + Len(writer.results)
      /\ UNCHANGED <<session, lastSaved, drained, stopping, players, loads, store, faults, queued>>
  BY PublishIs DEF AccountInv
<1>2. Outstanding' <= MaxLoads
  BY <1>1, IdleShaped, PersistenceAssumption DEF Outstanding, Typed, WriterShaped
<1>3. Typed'
  BY <1>1, <1>2, IdleShaped DEF Typed, StateMap
<1>4. Results' \subseteq Results
  BY <1>1, IdleShaped DEF Results, Elems
<1>5. Accounts'
  BY <1>1, <1>4, IdleShaped DEF Accounts, OwnNames
<1> QED BY <1>1, <1>3, <1>5 DEF AccountInv, NamesOwn

LEMMA ThrowAccounts ==
  ASSUME AccountInv, Throw
  PROVE  AccountInv'
<1>1. /\ Typed /\ NamesOwn /\ Accounts /\ writer' = Idle
      /\ faults' = faults + 1 /\ faults < MaxFaults
      /\ UNCHANGED <<session, lastSaved, drained, stopping, players, loads, completed, store, queued>>
  BY DEF AccountInv, Throw, simVars, queueVars
<1>2. Outstanding' <= MaxLoads
  BY <1>1, IdleShaped, PersistenceAssumption DEF Outstanding, Typed, WriterShaped
<1>3. faults' \in 0..MaxFaults
  BY <1>1, PersistenceAssumption DEF Typed
<1>4. Typed'
  BY <1>1, <1>2, <1>3, IdleShaped DEF Typed, StateMap
<1>5. Results' \subseteq Results
  BY <1>1, IdleShaped DEF Results, Elems
<1>6. Accounts'
  BY <1>1, <1>5, IdleShaped DEF Accounts, OwnNames
<1> QED BY <1>1, <1>4, <1>6 DEF AccountInv, NamesOwn

(* A new process, over the store of the old one.                           *)
LEMMA BootedAccounts ==
  ASSUME AccountInv, Restart \/ Kill
  PROVE  AccountInv'
<1>1. /\ Typed /\ Accounts /\ Booted /\ UNCHANGED <<store, queued>>
      /\ faults' \in 0..MaxFaults
  BY PersistenceAssumption DEF AccountInv, Restart, Kill, Typed
<1>2. /\ session' = [s \in Slot |-> Absent] /\ lastSaved' = <<>> /\ players' = <<>>
      /\ loads' = <<>> /\ completed' = <<>> /\ drained' = <<>>
      /\ writer' = Idle /\ stopping' = FALSE
  BY <1>1 DEF Booted
<1>3. session' \in [Slot -> SessionType] /\ NamesOwn'
  BY <1>2, Idles DEF NamesOwn
<1>4. Outstanding' <= MaxLoads
  <2>1. Len(loads') = 0 /\ Len(completed') = 0 /\ Len(writer'.loads) = 0 /\ Len(writer'.results) = 0
    BY <1>2, IdleShaped
  <2> QED BY <2>1, PersistenceAssumption DEF Outstanding
<1>5. Typed'
  <2>1. /\ loads' \in Seq(Seq(Nat)) /\ completed' \in Seq(ResultType) /\ drained' \in Seq(ResultType)
        /\ DOMAIN lastSaved' = {} /\ DOMAIN players' = {}
    BY <1>2
  <2>2. StateMap(players)' /\ StateMap(store)' /\ StateMap(queued)'
    BY <1>1, <2>1 DEF Typed, StateMap
  <2> QED BY <1>1, <1>2, <1>3, <1>4, <2>1, <2>2, IdleShaped DEF Typed
<1>6. Results' = {}
  BY <1>2, IdleShaped DEF Results, Elems
<1>7. Accounts'
  BY <1>1, <1>2, <1>6, IdleShaped DEF Accounts, OwnNames
<1> QED BY <1>3, <1>5, <1>7 DEF AccountInv

LEMMA StutterAccounts ==
  ASSUME AccountInv, UNCHANGED vars
  PROVE  AccountInv'
<1>1. UNCHANGED <<session, lastSaved, drained, stopping, players, loads, completed, writer,
                  store, faults, queued>>
  BY DEF vars, simVars, queueVars
<1>2. Typed'
  BY <1>1 DEF AccountInv, Typed, Outstanding, WriterShaped, StateMap
<1> QED BY <1>1, <1>2 DEF AccountInv, NamesOwn, Accounts, OwnNames, Results, Elems

LEMMA AccountsInit == Init => AccountInv
<1> SUFFICES ASSUME Init PROVE AccountInv
  OBVIOUS
<1>1. /\ session = [s \in Slot |-> Absent] /\ lastSaved = <<>> /\ players = <<>>
      /\ loads = <<>> /\ completed = <<>> /\ drained = <<>> /\ writer = Idle
      /\ stopping = FALSE /\ store = <<>> /\ faults = 0 /\ queued = <<>>
  BY DEF Init
<1>2. session \in [Slot -> SessionType] /\ NamesOwn
  BY <1>1, Idles DEF NamesOwn
<1>3. /\ writer.players = <<>> /\ writer.loads = <<>> /\ writer.results = <<>>
      /\ writer.busy = FALSE
  BY <1>1, Idles
<1>4. StateMap(<<>>) /\ OwnNames(<<>>) /\ Elems(<<>>) = {}
  BY DEF StateMap, OwnNames, Elems
<1>5. /\ <<>> \in Seq(Seq(Nat)) /\ <<>> \in Seq(ResultType) /\ DOMAIN lastSaved = {}
      /\ 0 \in 0..MaxFaults
  BY <1>1, PersistenceAssumption
<1>6. WriterShaped
  BY <1>1, <1>3, <1>4, <1>5 DEF WriterShaped, Idle
<1>7. Outstanding <= MaxLoads
  BY <1>1, <1>3, PersistenceAssumption DEF Outstanding
<1>8. Typed
  BY <1>1, <1>2, <1>4, <1>5, <1>6, <1>7 DEF Typed
<1>9. Accounts
  BY <1>1, <1>3, <1>4 DEF Accounts, Results
<1> QED BY <1>2, <1>8, <1>9 DEF AccountInv

LEMMA AccountsStep ==
  ASSUME OneClient
  PROVE  AccountInv /\ [Next]_vars => AccountInv'
BY HelloAccounts, BlankAccounts, DrainAccounts, ApplyAccounts, PlayAccounts, SaveAccounts, ReapAccounts,
   StopAccounts, SwapAccounts, UpsertAccounts, LoadAccounts, PublishAccounts, ThrowAccounts,
   BootedAccounts, StutterAccounts
DEF Next, Writer

(* Names, and the accounts under them, stay apart in the sessions, the     *)
(* queues, the writer and the store together: each hands on what the other *)
(* had under that name.                                                    *)
THEOREM AccountsInvariant ==
  ASSUME OneClient
  PROVE  Spec => []AccountInv
BY AccountsInit, AccountsStep, PTL DEF Spec

(* The two threads' state stays in its types, whatever fails.              *)
THEOREM PersistenceTyped ==
  ASSUME OneClient
  PROVE  Spec => []TypeOK
<1>1. AccountInv => TypeOK
  BY DEF AccountInv, Typed, TypeOK, SessionType, StateMap, WriterShaped
<1> QED BY <1>1, AccountsInvariant, PTL

(* While no two clients type one name, UpsertPlayer never writes one       *)
(* commander's state into another's row, whatever the store throws away or *)
(* swallows and whenever the process dies.                                 *)
THEOREM RowsAreOwned ==
  ASSUME OneClient
  PROVE  Spec => []StoredUnderOwnName
<1>1. AccountInv => StoredUnderOwnName
  BY DEF AccountInv, Accounts, OwnNames, StoredUnderOwnName
<1> QED BY <1>1, AccountsInvariant, PTL

-----------------------------------------------------------------------------
(* How far each holder of a commander's state has got: the store behind    *)
(* the writer, the writer behind the queue, all behind the player.  Under  *)
(* a default name the next commander starts over, so nothing is said.      *)
Behind(f, g) == \A n \in (DOMAIN f \cap DOMAIN g) \ DefaultNames :
                  f[n].progress <= g[n].progress
BehindLive(f) == \A s \in Live : session[s].name \in DOMAIN f \ DefaultNames
                   => f[session[s].name].progress <= session[s].state.progress
Chain == /\ Behind(store, writer.players) /\ Behind(store, players)
         /\ Behind(writer.players, players)
         /\ BehindLive(store) /\ BehindLive(writer.players) /\ BehindLive(players)

LiveName(n) == \E s \in Live : session[s].name = n

(* What was loaded of a commander nobody plays is what a load would give   *)
(* now, and nothing of it is on its way to the store.                      *)
ResultsFresh == \A r \in Results :
  \/ LiveName(r.name)
  \/ /\ r.name \notin DOMAIN players /\ r.name \notin DOMAIN writer.players
     /\ r = Result(r.name)
LoadsFresh == \A n \in Elems(writer.loads) : LiveName(n) \/ n \notin DOMAIN players

FreshCore == AccountInv /\ Chain /\ ResultsFresh /\ LoadsFresh

(* No call of the store was swallowed, nor can one be.                     *)
Clean == "swallow" \notin Faults \/ faults = 0

LEMMA CleanBefore == AccountInv /\ [Next]_vars /\ Clean' => Clean
<1> SUFFICES ASSUME AccountInv, [Next]_vars, Clean' PROVE Clean
  OBVIOUS
<1>1. faults' = faults \/ faults' = faults + 1
  BY DEF Next, Hello, HelloBlank, DrainLoads, ApplyLoad, Play, SavePlayers, Reap, Stop, Writer, Swap,
         UpsertPlayer, LoadPlayer, Publish, Throw, Restart, Kill, vars
<1>2. faults \in Nat
  BY PersistenceAssumption DEF AccountInv, Typed
<1> QED BY <1>1, <1>2 DEF Clean

LEMMA ProgressTyped ==
  ASSUME Typed
  PROVE  /\ \A n \in DOMAIN store : store[n].progress \in Nat
         /\ \A n \in DOMAIN players : players[n].progress \in Nat
         /\ \A n \in DOMAIN writer.players : writer.players[n].progress \in Nat
         /\ \A s \in Slot : session[s].state.progress \in Nat
         /\ \A s \in Live : s \in Slot
<1>1. \A x \in StateType : x.progress \in Nat
  BY PersistenceAssumption DEF StateType
<1>2. \A s \in Slot : session[s].state \in StateType
  BY DEF Typed, SessionType
<1> QED BY <1>1, <1>2 DEF Typed, WriterShaped, StateMap, Live

(* Steps that leave what is stored, written and queued alone, and take no  *)
(* player away nor back.                                                   *)
LEMMA QuietCore ==
  ASSUME FreshCore, AccountInv', Live \subseteq Live', \A s \in Live' : s \in Live,
         \A s \in Live : /\ session'[s].name = session[s].name
                         /\ session[s].state.progress <= session'[s].state.progress,
         UNCHANGED <<players, writer, store>>, Results' \subseteq Results
  PROVE  FreshCore'
<1>1. \A n : LiveName(n) <=> LiveName(n)'
  BY DEF LiveName
<1>2. ASSUME NEW f, NEW g, f = g, BehindLive(f), \A n \in DOMAIN f : f[n].progress \in Nat
      PROVE  \A s \in Live' : session'[s].name \in DOMAIN g \ DefaultNames
               => g[session'[s].name].progress <= session'[s].state.progress
  <2>1. /\ \A s \in Slot : session[s].state.progress \in Nat /\ session'[s].state.progress \in Nat
        /\ \A s \in Live : s \in Slot
    <3>1. Typed /\ Typed'
      BY DEF FreshCore, AccountInv
    <3>2. \A x \in StateType : x.progress \in Nat
      BY PersistenceAssumption DEF StateType
    <3> QED BY <3>1, <3>2 DEF Typed, SessionType, Live
  <2> QED BY <1>2, <2>1 DEF BehindLive
<1>3. Chain'
  <2>1. /\ \A n \in DOMAIN store : store[n].progress \in Nat
        /\ \A n \in DOMAIN players : players[n].progress \in Nat
        /\ \A n \in DOMAIN writer.players : writer.players[n].progress \in Nat
    BY ProgressTyped DEF FreshCore, AccountInv
  <2>2. BehindLive(store)' /\ BehindLive(players)' /\ BehindLive(writer.players)'
    BY <1>2, <2>1 DEF FreshCore, Chain, BehindLive
  <2> QED BY <2>2 DEF FreshCore, Chain, Behind
<1>4. ResultsFresh'
  BY <1>1 DEF FreshCore, ResultsFresh, Result
<1>5. LoadsFresh'
  BY <1>1 DEF FreshCore, LoadsFresh, Elems
<1> QED BY <1>3, <1>4, <1>5 DEF FreshCore

LEMMA HelloCore ==
  ASSUME OneClient, FreshCore, NEW s \in Slot, NEW n \in Name, Hello(s, n)
  PROVE  FreshCore'
<1> DEFINE x == [Absent EXCEPT !.phase = "loading", !.name = n]
<1>1. /\ AccountInv /\ AccountInv' /\ Typed
      /\ session' = [session EXCEPT ![s] = x] /\ session[s].phase = "absent"
      /\ UNCHANGED <<players, writer, store, completed, drained>>
  BY HelloAccounts DEF FreshCore, AccountInv, Hello
<1>2. n \in Seq(Nat)
  BY PersistenceAssumption
<1>3. x.phase = "loading"
  BY <1>2, Idles
<1> HIDE DEF x
<1>4. \A t \in Slot : session'[t] = IF t = s THEN x ELSE session[t]
  BY <1>1 DEF Typed
<1>5. Live' = Live /\ \A t \in Live : session'[t] = session[t]
  BY <1>1, <1>3, <1>4 DEF Live
<1>6. Results' = Results
  BY <1>1 DEF Results, Elems
<1> QED BY <1>1, <1>5, <1>6, QuietCore, ProgressTyped

LEMMA BlankCore ==
  ASSUME FreshCore, NEW s \in Slot, NEW i \in Index, HelloBlank(s, i)
  PROVE  FreshCore'
<1>1. PICK n \in DefaultNames, st \in StateType :
        /\ session[s].phase = "absent" /\ \A t \in Slot : session[t].name # n
        /\ session' = [session EXCEPT ![s] = [phase |-> "live", name |-> n, state |-> st]]
        /\ QueuePlayerSnapshots([m \in {n} |-> st])
        /\ UNCHANGED <<drained, completed, writer, store>>
  BY BlankIs
<1> DEFINE x == [phase |-> "live", name |-> n, state |-> st]
<1>2. AccountInv /\ AccountInv' /\ Typed /\ Chain
  BY BlankAccounts DEF FreshCore, AccountInv
<1>3. x.phase = "live" /\ x.name = n /\ session' = [session EXCEPT ![s] = x]
  BY <1>1
<1> HIDE DEF x
<1>4. \A t \in Slot : session'[t] = IF t = s THEN x ELSE session[t]
  BY <1>2, <1>3 DEF Typed
<1>5. Live' = Live \cup {s} /\ s \notin Live /\ \A t \in Live : session'[t] = session[t]
  BY <1>1, <1>3, <1>4 DEF Live
<1>6. \A m : LiveName(m)' <=> LiveName(m) \/ m = n
  BY <1>3, <1>4, <1>5 DEF LiveName, Live
<1>7. /\ DOMAIN players' = DOMAIN players \cup {n}
      /\ \A m \in DOMAIN players \ {n} : players'[m] = players[m]
  BY <1>1, QueueOneIs
<1>8. Chain'
  <2>1. Behind(store, writer.players)' /\ Behind(store, players)' /\ Behind(writer.players, players)'
    BY <1>1, <1>2, <1>7 DEF Chain, Behind
  <2>2. \A t \in Live' : session'[t].name \notin DefaultNames => t \in Live
    BY <1>3, <1>4, <1>5
  <2>3. BehindLive(store)' /\ BehindLive(writer.players)'
    BY <1>1, <1>2, <1>5, <2>2 DEF Chain, BehindLive
  <2>4. BehindLive(players)'
    BY <1>1, <1>2, <1>5, <1>7, <2>2 DEF Chain, BehindLive
  <2> QED BY <2>1, <2>3, <2>4 DEF Chain
<1>9. ResultsFresh'
  <2>1. Results' = Results /\ \A m : Result(m)' = Result(m)
    BY <1>1 DEF Results, Elems, Result
  <2> QED BY <1>1, <1>6, <1>7, <2>1 DEF FreshCore, ResultsFresh
<1>10. LoadsFresh'
  BY <1>1, <1>6, <1>7 DEF FreshCore, LoadsFresh, Elems
<1> QED BY <1>2, <1>8, <1>9, <1>10 DEF FreshCore

LEMMA DrainCore ==
  ASSUME FreshCore, DrainLoads
  PROVE  FreshCore'
<1>1. /\ AccountInv /\ AccountInv' /\ Typed /\ drained' = completed /\ completed' = <<>>
      /\ UNCHANGED <<session, players, writer, store>>
  BY DrainAccounts DEF FreshCore, AccountInv, DrainLoads
<1>2. Results' \subseteq Results
  BY <1>1 DEF Results, Elems
<1> QED BY <1>1, <1>2, QuietCore, ProgressTyped DEF Live

LEMMA PlayCore ==
  ASSUME FreshCore, NEW s \in Slot, Play(s)
  PROVE  FreshCore'
<1>1. /\ AccountInv /\ AccountInv' /\ Typed
      /\ UNCHANGED <<players, writer, store, completed, drained>>
  BY PlayAccounts DEF FreshCore, AccountInv, Play, queueVars
<1>2. Results' = Results
  BY <1>1 DEF Results, Elems
<1>3. /\ \A t \in Slot \ {s} : session'[t] = session[t]
      /\ session'[s].phase = session[s].phase /\ session'[s].name = session[s].name
      /\ session'[s].state.progress = session[s].state.progress + 1
  BY <1>1, PlayIs
<1>4. Live' = Live
  BY <1>3 DEF Live
<1>5. \A t \in Live : /\ session'[t].name = session[t].name
                     /\ session[t].state.progress <= session'[t].state.progress
  <2>1. \A t \in Live : t \in Slot /\ session[t].state.progress \in Nat
    BY <1>1, ProgressTyped
  <2> QED BY <1>3, <2>1
<1> QED BY <1>1, <1>2, <1>4, <1>5, QuietCore

LEMMA StutterCore ==
  ASSUME FreshCore, UNCHANGED vars
  PROVE  FreshCore'
<1>1. /\ AccountInv /\ AccountInv' /\ Typed
      /\ UNCHANGED <<session, players, writer, store, completed, drained>>
  BY StutterAccounts DEF FreshCore, AccountInv, vars, simVars, queueVars
<1>2. Results' = Results
  BY <1>1 DEF Results, Elems
<1> QED BY <1>1, <1>2, QuietCore, ProgressTyped DEF Live

(* A name whose loads are outstanding is not given up.                     *)
LEMMA RequestedIs ==
  ASSUME Typed
  PROVE  /\ Elems(writer.loads) \subseteq Requested
         /\ \A r \in Elems(writer.results) \cup Elems(completed) : r.name \in Requested
<1>1. /\ writer.results \in Seq(ResultType) /\ completed \in Seq(ResultType)
      /\ Elems(writer.results \o completed) = Elems(writer.results) \cup Elems(completed)
  BY ElemsConcat DEF Typed, WriterShaped
<1> QED BY <1>1 DEF Requested, Elems

LEMMA ReapCore ==
  ASSUME PromptWriter, FreshCore, NEW s \in Slot, Reap(s)
  PROVE  FreshCore'
<1>1. /\ AccountInv /\ AccountInv' /\ Typed
      /\ session' = [session EXCEPT ![s] = Absent]
      /\ UNCHANGED <<players, writer, store, completed, drained>> /\ drained = <<>>
      /\ s \in Live => session[s].name \notin Requested
  BY ReapAccounts DEF FreshCore, AccountInv, Reap, Between, queueVars
<1>2. \A t \in Slot : session'[t] = IF t = s THEN Absent ELSE session[t]
  BY <1>1 DEF Typed
<1>3. Live' = Live \ {s} /\ \A t \in Live' : session'[t] = session[t]
  BY <1>2, Idles DEF Live
<1>4. Results' = Results /\ Elems(drained) = {}
  BY <1>1 DEF Results, Elems
<1>5. ASSUME NEW n \in Requested, LiveName(n) PROVE LiveName(n)'
  BY <1>1, <1>3, <1>5 DEF LiveName
<1>6. Chain'
  BY <1>1, <1>3 DEF FreshCore, Chain, Behind, BehindLive
<1>7. ResultsFresh'
  <2>1. ASSUME NEW r \in Results' PROVE r \in Results /\ r.name \in Requested
    BY <1>1, <1>4, RequestedIs DEF Results
  <2> QED BY <1>1, <1>5, <2>1 DEF FreshCore, ResultsFresh, Result
<1>8. LoadsFresh'
  <2>1. Elems(writer.loads)' = Elems(writer.loads) /\ Elems(writer.loads) \subseteq Requested
    BY <1>1, RequestedIs DEF Elems
  <2> QED BY <1>1, <1>5, <2>1 DEF FreshCore, LoadsFresh
<1> QED BY <1>1, <1>6, <1>7, <1>8 DEF FreshCore

LEMMA BootedCore ==
  ASSUME FreshCore, Restart \/ Kill
  PROVE  FreshCore'
<1>1. AccountInv' /\ Booted
  BY BootedAccounts DEF FreshCore, Restart, Kill
<1>2. /\ session' = [s \in Slot |-> Absent] /\ players' = <<>> /\ completed' = <<>>
      /\ drained' = <<>> /\ writer' = Idle
  BY <1>1 DEF Booted
<1>3. Live' = {} /\ Results' = {} /\ DOMAIN players' = {}
  BY <1>2, IdleShaped, Idles DEF Live, Results, Elems
<1>4. Chain'
  BY <1>2, <1>3, IdleShaped DEF Chain, Behind, BehindLive
<1>5. ResultsFresh' /\ LoadsFresh'
  BY <1>2, <1>3, IdleShaped DEF ResultsFresh, LoadsFresh
<1> QED BY <1>1, <1>4, <1>5 DEF FreshCore

(* What is queued is the state of those who play.                          *)
LEMMA QueueSlots ==
  ASSUME Typed, NamesOwn, NEW slots \in SUBSET Live, QueuePlayerSnapshots(Snapshots(slots))
  PROVE  /\ DOMAIN players' = DOMAIN players \cup {session[s].name : s \in slots}
         /\ DOMAIN queued' = DOMAIN queued \cup {session[s].name : s \in slots}
         /\ \A s \in slots : /\ players'[session[s].name] = session[s].state
                            /\ queued'[session[s].name] = session[s].state
         /\ \A n : (\A s \in slots : session[s].name # n) =>
              /\ n \in DOMAIN players => players'[n] = players[n]
              /\ n \in DOMAIN queued => queued'[n] = queued[n]
<1> DEFINE f == Snapshots(slots)
<1>1. /\ DOMAIN f = {session[s].name : s \in slots}
      /\ \A s \in slots : f[session[s].name] = session[s].state
  BY SnapshotsAre
<1> HIDE DEF f
<1>2. /\ DOMAIN players' = DOMAIN players \cup DOMAIN f
      /\ DOMAIN queued' = DOMAIN queued \cup DOMAIN f
      /\ \A n \in DOMAIN f : players'[n] = f[n] /\ queued'[n] = f[n]
      /\ \A n \in DOMAIN players \ DOMAIN f : players'[n] = players[n]
      /\ \A n \in DOMAIN queued \ DOMAIN f : queued'[n] = queued[n]
  BY QueueIs DEF f
<1> QED BY <1>1, <1>2

LEMMA QueueCore ==
  ASSUME FreshCore, AccountInv', NEW slots \in SUBSET Live,
         QueuePlayerSnapshots(Snapshots(slots)),
         UNCHANGED <<session, writer, store>>, Results' = Results
  PROVE  FreshCore'
<1>1. Typed /\ NamesOwn /\ Chain
  BY DEF FreshCore, AccountInv
<1>2. /\ DOMAIN players' = DOMAIN players \cup {session[s].name : s \in slots}
      /\ \A s \in slots : players'[session[s].name] = session[s].state
      /\ \A n : (\A s \in slots : session[s].name # n) =>
           (n \in DOMAIN players => players'[n] = players[n])
  BY <1>1, QueueSlots
<1>3. Live' = Live /\ \A n : LiveName(n) <=> LiveName(n)'
  BY DEF Live, LiveName
<1>4. ASSUME NEW f, Behind(f, players), BehindLive(f)
      PROVE  \A n \in (DOMAIN f \cap DOMAIN players') \ DefaultNames :
               f[n].progress <= players'[n].progress
  <2>1. TAKE n \in (DOMAIN f \cap DOMAIN players') \ DefaultNames
  <2>2. CASE \E s \in slots : session[s].name = n
    BY <1>2, <1>4, <2>2 DEF BehindLive
  <2>3. CASE \A s \in slots : session[s].name # n
    BY <1>2, <1>4, <2>3 DEF Behind
  <2> QED BY <2>2, <2>3
<1>5. BehindLive(players)'
  <2>1. SUFFICES ASSUME NEW t \in Live, session[t].name \in DOMAIN players' \ DefaultNames
                 PROVE  players'[session[t].name].progress <= session[t].state.progress
    BY <1>3 DEF BehindLive
  <2>2. CASE \E s \in slots : session[s].name = session[t].name
    BY <1>1, <1>2, <2>2, ProgressTyped DEF NamesOwn, Live
  <2>3. CASE \A s \in slots : session[s].name # session[t].name
    BY <1>1, <1>2, <2>1, <2>3 DEF Chain, BehindLive
  <2> QED BY <2>2, <2>3
<1>6. Chain'
  <2>1. Behind(store, players)'
    BY <1>1, <1>4 DEF Chain, Behind
  <2>2. Behind(writer.players, players)'
    BY <1>1, <1>4 DEF Chain, Behind
  <2>3. Behind(store, writer.players)' /\ BehindLive(store)' /\ BehindLive(writer.players)'
    BY <1>1, <1>3 DEF Chain, Behind, BehindLive
  <2> QED BY <1>5, <2>1, <2>2, <2>3 DEF Chain
<1>7. \A n \in DOMAIN players' : n \in DOMAIN players \/ LiveName(n)
  BY <1>2 DEF LiveName
<1>8. ResultsFresh'
  BY <1>3, <1>7 DEF FreshCore, ResultsFresh, Result
<1>9. LoadsFresh'
  BY <1>3, <1>7 DEF FreshCore, LoadsFresh, Elems
<1> QED BY <1>6, <1>8, <1>9 DEF FreshCore

LEMMA SaveCore ==
  ASSUME FreshCore, SavePlayers
  PROVE  FreshCore'
<1> DEFINE changed == {s \in Live : s \notin DOMAIN lastSaved \/ lastSaved[s] # Durable(s)}
<1>1. /\ AccountInv' /\ QueuePlayerSnapshots(Snapshots(changed))
      /\ UNCHANGED <<session, drained, completed, writer, store>>
  BY SaveAccounts DEF FreshCore, SavePlayers
<1>2. Results' = Results /\ changed \in SUBSET Live
  BY <1>1 DEF Results, Elems
<1> HIDE DEF changed
<1> QED BY <1>1, <1>2, QueueCore

LEMMA StopCore ==
  ASSUME FreshCore, Stop
  PROVE  FreshCore'
<1>1. /\ AccountInv' /\ QueuePlayerSnapshots(Snapshots(Live))
      /\ UNCHANGED <<session, drained, completed, writer, store>>
  BY StopAccounts DEF FreshCore, Stop
<1>2. Results' = Results
  BY <1>1 DEF Results, Elems
<1> QED BY <1>1, <1>2, QueueCore

-----------------------------------------------------------------------------
LEMMA SwapCore ==
  ASSUME FreshCore, Swap
  PROVE  FreshCore'
<1>1. /\ AccountInv /\ AccountInv' /\ Typed /\ Chain
      /\ writer'.players = players /\ writer'.results = <<>> /\ players' = <<>>
      /\ UNCHANGED <<session, drained, completed, store>>
  BY SwapAccounts, SwapIs DEF FreshCore, AccountInv
<1>2. Live' = Live /\ (\A n : LiveName(n) <=> LiveName(n)') /\ DOMAIN players' = {}
  BY <1>1 DEF Live, LiveName
<1>3. Results' \subseteq Results
  BY <1>1 DEF Results, Elems
<1>4. Chain'
  BY <1>1, <1>2 DEF Chain, Behind, BehindLive
<1>5. ResultsFresh'
  BY <1>1, <1>2, <1>3 DEF FreshCore, ResultsFresh, Result
<1>6. LoadsFresh'
  BY <1>2 DEF LoadsFresh
<1> QED BY <1>1, <1>4, <1>5, <1>6 DEF FreshCore

(* A row that did not change is found as before.                           *)
LEMMA FoundAsBefore ==
  ASSUME NEW n, n \in DOMAIN store <=> n \in DOMAIN store',
         n \in DOMAIN store => store'[n] = store[n]
  PROVE  Result(n)' = Result(n)
BY DEF Result

LEMMA UpsertCore ==
  ASSUME FreshCore, NEW n \in DOMAIN writer.players, UpsertPlayer(n), Clean'
  PROVE  FreshCore'
<1>1. /\ AccountInv /\ AccountInv' /\ Typed /\ Chain
      /\ DOMAIN writer'.players = DOMAIN writer.players \ {n}
      /\ \A m \in DOMAIN writer'.players : writer'.players[m] = writer.players[m]
      /\ writer'.loads = writer.loads /\ writer'.results = writer.results
      /\ UNCHANGED <<session, drained, players, completed>>
  BY UpsertAccounts, UpsertIs DEF FreshCore, AccountInv
<1>2. /\ DOMAIN store' = DOMAIN store \cup {n} /\ store'[n] = writer.players[n]
      /\ \A m \in DOMAIN store \ {n} : store'[m] = store[m]
  <2>1. ~("swallow" \in Faults /\ faults' = faults + 1)
    BY <1>1, PersistenceAssumption DEF Clean, Typed
  <2> QED BY <1>1, <2>1, UpsertIs
<1>3. Live' = Live /\ (\A m : LiveName(m) <=> LiveName(m)')
  BY <1>1 DEF Live, LiveName
<1>4. Results' = Results
  BY <1>1 DEF Results, Elems
<1>5. Behind(store, writer.players)' /\ Behind(store, players)' /\ Behind(writer.players, players)'
  BY <1>1, <1>2 DEF Chain, Behind
<1>6. BehindLive(store)' /\ BehindLive(players)' /\ BehindLive(writer.players)'
  BY <1>1, <1>2, <1>3 DEF Chain, BehindLive
<1>7. ResultsFresh'
  <2>1. ASSUME NEW r \in Results, ~LiveName(r.name)
        PROVE  /\ r.name \notin DOMAIN players /\ r.name \notin DOMAIN writer'.players
               /\ r = Result(r.name)'
    <3>1. /\ r.name \notin DOMAIN players /\ r.name \notin DOMAIN writer.players
          /\ r = Result(r.name)
      BY <2>1 DEF FreshCore, ResultsFresh
    <3> DEFINE k == r.name
    <3>2. k # n
      BY <3>1
    <3>3. /\ k \in DOMAIN store <=> k \in DOMAIN store'
          /\ k \in DOMAIN store => store'[k] = store[k]
      BY <1>2, <3>2
    <3> HIDE DEF k
    <3>4. Result(k)' = Result(k)
      BY <3>3, FoundAsBefore
    <3> QED BY <1>1, <3>1, <3>4 DEF k
  <2> QED BY <1>1, <1>3, <1>4, <2>1 DEF ResultsFresh
<1>8. LoadsFresh'
  BY <1>1, <1>3 DEF FreshCore, LoadsFresh, Elems
<1> QED BY <1>1, <1>5, <1>6, <1>7, <1>8 DEF FreshCore, Chain

LEMMA LoadCore ==
  ASSUME FreshCore, LoadPlayer, Clean'
  PROVE  FreshCore'
<1> DEFINE n == Head(writer.loads)
<1>1. /\ AccountInv /\ AccountInv' /\ Typed /\ Chain
      /\ n \in Seq(Nat) /\ n \in Elems(writer.loads)
      /\ writer.players = <<>> /\ writer'.players = <<>>
      /\ Elems(writer'.loads) \subseteq Elems(writer.loads)
      /\ UNCHANGED <<session, drained, players, completed, store>>
  BY LoadAccounts, LoadIs DEF FreshCore, AccountInv
<1>2. Elems(writer'.results) = Elems(writer.results) \cup {Result(n)}
  <2>1. ~("swallow" \in Faults /\ faults' = faults + 1)
    BY <1>1, PersistenceAssumption DEF Clean, Typed
  <2> QED BY <1>1, <2>1, LoadIs
<1>3. Result(n).name = n /\ (LiveName(n) \/ n \notin DOMAIN players)
  BY <1>1, ResultTyped DEF FreshCore, LoadsFresh, Typed
<1> HIDE DEF n
<1>4. Live' = Live /\ (\A m : LiveName(m) <=> LiveName(m)') /\ DOMAIN writer'.players = {}
  BY <1>1 DEF Live, LiveName
<1>5. Results' = Results \cup {Result(n)}
  BY <1>1, <1>2 DEF Results, Elems
<1>6. Chain'
  BY <1>1, <1>4 DEF Chain, Behind, BehindLive
<1>7. ResultsFresh'
  <2>1. ASSUME NEW r \in Results', ~LiveName(r.name)
        PROVE  r.name \notin DOMAIN players /\ r = Result(r.name)
    <3>1. CASE r = Result(n)
      BY <1>3, <2>1, <3>1
    <3>2. CASE r \in Results
      BY <2>1, <3>2 DEF FreshCore, ResultsFresh
    <3> QED BY <1>5, <3>1, <3>2
  <2>2. \A k : Result(k)' = Result(k)
    BY <1>1 DEF Result
  <2> QED BY <1>1, <1>4, <2>1, <2>2 DEF ResultsFresh
<1>8. LoadsFresh'
  BY <1>1, <1>4 DEF FreshCore, LoadsFresh, Elems
<1> QED BY <1>1, <1>6, <1>7, <1>8 DEF FreshCore

LEMMA GivenUpCore ==
  ASSUME FreshCore, Publish \/ Throw
  PROVE  FreshCore'
<1>1. AccountInv /\ AccountInv' /\ Typed /\ Chain
  BY PublishAccounts, ThrowAccounts DEF FreshCore, AccountInv
<1>2. /\ writer' = Idle
      /\ Elems(completed') \subseteq Elems(completed) \cup Elems(writer.results)
      /\ UNCHANGED <<session, drained, players, store>>
  BY <1>1, PublishIs DEF Throw, simVars, queueVars, Elems
<1>3. Live' = Live /\ (\A m : LiveName(m) <=> LiveName(m)')
  BY <1>2 DEF Live, LiveName
<1>4. Results' \subseteq Results
  BY <1>2, IdleShaped DEF Results, Elems
<1>5. Chain'
  BY <1>1, <1>2, <1>3, IdleShaped DEF Chain, Behind, BehindLive
<1>6. ResultsFresh'
  BY <1>2, <1>3, <1>4, IdleShaped DEF FreshCore, ResultsFresh, Result
<1>7. LoadsFresh'
  BY <1>2, IdleShaped DEF LoadsFresh
<1> QED BY <1>1, <1>5, <1>6, <1>7 DEF FreshCore

-----------------------------------------------------------------------------
(* A result that somebody waits for is fresh: nobody plays under its name. *)
LEMMA AwaitedIsFresh ==
  ASSUME FreshCore, NEW r \in Results, NEW s \in Waiting(r.name)
  PROVE  /\ s \in Slot /\ session[s].phase = "loading" /\ session[s].name = r.name
         /\ ~LiveName(r.name)
         /\ r.name \notin DOMAIN players /\ r.name \notin DOMAIN writer.players
         /\ r = Result(r.name)
<1>1. s \in Slot /\ session[s].phase = "loading" /\ session[s].name = r.name
  BY DEF Waiting
<1>2. ~LiveName(r.name)
  BY <1>1 DEF LiveName, Live, FreshCore, AccountInv, NamesOwn
<1> QED BY <1>1, <1>2 DEF FreshCore, ResultsFresh

LEMMA ApplyToCore ==
  ASSUME FreshCore, AccountInv', NEW r \in Results, Results' \subseteq Results,
         r \in ResultType, UNCHANGED <<completed, writer, store>>,
         NEW s \in Waiting(r.name), NEW st \in StateType,
         session' = [session EXCEPT ![s] = [phase |-> "live", name |-> r.name, state |-> st]],
         \/ r.found /\ st = r.state /\ UNCHANGED <<players, queued>>
         \/ ~r.found /\ st.progress = 0 /\ QueuePlayerSnapshots([n \in {r.name} |-> st])
  PROVE  FreshCore'
<1>1. /\ AccountInv /\ AccountInv' /\ Typed /\ Chain /\ r \in ResultType
      /\ UNCHANGED <<completed, writer, store>>
  BY DEF FreshCore, AccountInv
<1>2. r \in Results /\ Results' \subseteq Results
  OBVIOUS
<1>3. /\ session' = [session EXCEPT ![s] = [phase |-> "live", name |-> r.name, state |-> st]]
      /\ \/ r.found /\ st = r.state /\ UNCHANGED <<players, queued>>
         \/ ~r.found /\ st.progress = 0 /\ QueuePlayerSnapshots([n \in {r.name} |-> st])
  OBVIOUS
<1> QED
  <2> DEFINE x == [phase |-> "live", name |-> r.name, state |-> st]
             k == r.name
  <2>1. /\ s \in Slot /\ session[s].phase = "loading" /\ session[s].name = k
        /\ ~LiveName(k) /\ k \notin DOMAIN players /\ k \notin DOMAIN writer.players
        /\ r = Result(k) /\ k \in Seq(Nat)
    BY <1>1, <1>2, <1>3, AwaitedIsFresh DEF ResultType
  <2>2. /\ x.phase = "live" /\ x.name = k /\ x.state = st
        /\ session' = [session EXCEPT ![s] = x]
    BY <1>3
  <2>3. /\ st.progress \in Nat
        /\ k \in DOMAIN store => st = store[k]
        /\ k \notin DOMAIN store => st.progress = 0 /\ ~r.found
    <3>1. r.found <=> k \in DOMAIN store
      BY <1>1, <2>1, ResultTyped DEF Typed
    <3>2. k \in DOMAIN store => r.state = store[k]
      BY <1>1, <2>1, ResultTyped DEF Typed
    <3> QED BY <1>3, <3>1, <3>2, PersistenceAssumption DEF StateType
  <2>4. /\ DOMAIN players' \subseteq DOMAIN players \cup {k}
        /\ k \in DOMAIN players' => players'[k] = st /\ k \notin DOMAIN store
        /\ \A n \in DOMAIN players : n \in DOMAIN players' /\ players'[n] = players[n]
    <3>1. CASE r.found /\ UNCHANGED <<players, queued>>
      BY <2>1, <3>1
    <3>2. CASE ~r.found /\ QueuePlayerSnapshots([n \in {r.name} |-> st])
      <4> DEFINE f == [n \in {k} |-> st]
      <4>1. DOMAIN f = {k} /\ f[k] = st /\ QueuePlayerSnapshots(f)
        BY <3>2
      <4> HIDE DEF f
      <4>2. /\ DOMAIN players' = DOMAIN players \cup DOMAIN f
            /\ \A n \in DOMAIN f : players'[n] = f[n]
            /\ \A n \in DOMAIN players \ DOMAIN f : players'[n] = players[n]
        BY <4>1, QueueIs
      <4>3. k \notin DOMAIN store
        BY <1>1, <2>1, <3>2, ResultTyped DEF Typed
      <4> QED BY <2>1, <4>1, <4>2, <4>3
    <3> QED BY <1>3, <3>1, <3>2
  <2> HIDE DEF x, k
  <2>5. \A t \in Slot : session'[t] = IF t = s THEN x ELSE session[t]
    BY <1>1, <2>1, <2>2 DEF Typed
  <2>6. /\ Live' = Live \cup {s} /\ s \notin Live
        /\ \A t \in Live : session'[t] = session[t] /\ session[t].name # k
    BY <2>1, <2>2, <2>5 DEF Live, LiveName
  <2>7. /\ \A n : LiveName(n) => LiveName(n)'
        /\ LiveName(k)'
    BY <2>2, <2>1, <2>5, <2>6 DEF LiveName
  <2>8. Behind(store, writer.players)' /\ Behind(store, players)' /\ Behind(writer.players, players)'
    BY <1>1, <2>1, <2>4 DEF Chain, Behind
  <2>9. BehindLive(store)'
    BY <1>1, <2>1, <2>2, <2>3, <2>5, <2>6 DEF Chain, BehindLive
  <2>10. BehindLive(writer.players)'
    BY <1>1, <2>1, <2>2, <2>5, <2>6 DEF Chain, BehindLive
  <2>11. BehindLive(players)'
    <3>1. SUFFICES ASSUME NEW t \in Live', session'[t].name \in DOMAIN players' \ DefaultNames
                   PROVE  players'[session'[t].name].progress <= session'[t].state.progress
      BY DEF BehindLive
    <3>2. CASE t = s
      BY <2>1, <2>2, <2>3, <2>4, <2>5, <3>1, <3>2
    <3>3. CASE t \in Live
      BY <1>1, <2>4, <2>6, <3>1, <3>3 DEF Chain, BehindLive
    <3> QED BY <2>6, <3>2, <3>3
  <2>12. Chain'
    BY <2>8, <2>9, <2>10, <2>11 DEF Chain
  <2>13. ResultsFresh'
    <3>1. ASSUME NEW q \in Results', ~LiveName(q.name)'
          PROVE  /\ q.name \notin DOMAIN players' /\ q.name \notin DOMAIN writer'.players
                 /\ q = Result(q.name)
      <4>1. q \in Results /\ ~LiveName(q.name) /\ q.name # k
        BY <1>2, <2>7, <3>1
      <4>2. /\ q.name \notin DOMAIN players /\ q.name \notin DOMAIN writer.players
            /\ q = Result(q.name)
        BY <4>1 DEF FreshCore, ResultsFresh
      <4> QED BY <1>1, <2>4, <4>1, <4>2
    <3>2. \A n : Result(n)' = Result(n)
      BY <1>1 DEF Result
    <3> QED BY <3>1, <3>2 DEF ResultsFresh
  <2>14. LoadsFresh'
    BY <1>1, <2>4, <2>7 DEF FreshCore, LoadsFresh, Elems
  <2> QED BY <1>1, <2>12, <2>13, <2>14 DEF FreshCore

LEMMA ApplyCore ==
  ASSUME FreshCore, ApplyLoad
  PROVE  FreshCore'
<1> DEFINE r == Head(drained)
<1>1. /\ AccountInv /\ AccountInv' /\ Typed /\ Chain
      /\ r \in ResultType /\ r \in Elems(drained) /\ Elems(drained') \subseteq Elems(drained)
      /\ UNCHANGED <<completed, writer, store>>
  BY ApplyAccounts, ApplyIs DEF FreshCore, AccountInv
<1>2. r \in Results /\ Results' \subseteq Results
  BY <1>1 DEF Results, Elems
<1>3. CASE UNCHANGED <<session, players>>
  BY <1>1, <1>2, <1>3, QuietCore, ProgressTyped DEF Live
<1>4. ASSUME NEW q \in Results, q = r, NEW s \in Waiting(q.name), NEW st \in StateType,
             session' = [session EXCEPT ![s] = [phase |-> "live", name |-> q.name, state |-> st]],
             \/ q.found /\ st = q.state /\ UNCHANGED <<players, queued>>
             \/ ~q.found /\ st.progress = 0 /\ QueuePlayerSnapshots([n \in {q.name} |-> st])
      PROVE  FreshCore'
  BY <1>1, <1>2, <1>4, ApplyToCore
<1>5. \/ UNCHANGED <<session, players>>
      \/ \E q \in Results : \E s \in Waiting(q.name), st \in StateType :
           /\ q = r
           /\ session' = [session EXCEPT ![s] = [phase |-> "live", name |-> q.name, state |-> st]]
           /\ \/ q.found /\ st = q.state /\ UNCHANGED <<players, queued>>
              \/ ~q.found /\ st.progress = 0 /\ QueuePlayerSnapshots([n \in {q.name} |-> st])
  BY <1>1, <1>2, ApplyIs
<1> QED BY <1>3, <1>4, <1>5

LEMMA CoreStep ==
  ASSUME OneClient, PromptWriter
  PROVE  FreshCore /\ Clean' /\ [Next]_vars => FreshCore'
BY HelloCore, BlankCore, DrainCore, ApplyCore, PlayCore, SaveCore, ReapCore, StopCore, SwapCore, UpsertCore,
   LoadCore, GivenUpCore, BootedCore, StutterCore
DEF Next, Writer

LEMMA CoreInit == Init => FreshCore
<1> SUFFICES ASSUME Init PROVE FreshCore
  OBVIOUS
<1>1. AccountInv
  BY AccountsInit
<1>2. /\ Live = {} /\ players = <<>> /\ store = <<>> /\ completed = <<>> /\ drained = <<>>
      /\ writer.players = <<>> /\ writer.loads = <<>> /\ writer.results = <<>>
  BY Idles DEF Init, Live
<1>3. Results = {} /\ Elems(writer.loads) = {}
  BY <1>2 DEF Results, Elems
<1> QED BY <1>1, <1>2, <1>3 DEF FreshCore, Chain, Behind, BehindLive, ResultsFresh, LoadsFresh

FreshInv == AccountInv /\ (Clean => FreshCore)

(* As long as the store swallows nothing, every holder of a commander's    *)
(* state is behind the next one on the way to the player (a default name's *)
(* excepted), and what was loaded of somebody who does not play is still   *)
(* true, of any name.                                                      *)
THEOREM FreshInvariant ==
  ASSUME OneClient, PromptWriter
  PROVE  Spec => []FreshInv
<1>1. Init => FreshInv
  BY AccountsInit, CoreInit DEF FreshInv
<1>2. FreshInv /\ [Next]_vars => FreshInv'
  BY AccountsStep, CoreStep, CleanBefore DEF FreshInv
<1> QED BY <1>1, <1>2, PTL DEF Spec

-----------------------------------------------------------------------------
(* The store only ever takes what the writer has.                          *)
LEMMA StoreGrows ==
  ASSUME FreshCore, Next, Clean'
  PROVE  \A n \in DOMAIN store :
           /\ n \in DOMAIN store'
           /\ n \notin DefaultNames => store'[n].progress >= store[n].progress
<1>1. Typed /\ Chain
  BY DEF FreshCore, AccountInv
<1>2. \A n \in DOMAIN store : store[n].progress \in Nat
  BY <1>1, ProgressTyped
<1>3. CASE UNCHANGED store
  BY <1>2, <1>3
<1>4. ASSUME NEW n \in DOMAIN writer.players, UpsertPlayer(n)
      PROVE  \A m \in DOMAIN store :
               /\ m \in DOMAIN store'
               /\ m \notin DefaultNames => store'[m].progress >= store[m].progress
  <2>1. \/ /\ DOMAIN store' = DOMAIN store \cup {n} /\ store'[n] = writer.players[n]
           /\ \A m \in DOMAIN store \ {n} : store'[m] = store[m]
        \/ UNCHANGED store
    BY <1>1, <1>4, UpsertIs
  <2>2. n \in DOMAIN store \ DefaultNames => store[n].progress <= writer.players[n].progress
    BY <1>1 DEF Chain, Behind
  <2>3. writer.players[n].progress \in Nat
    BY <1>1, ProgressTyped
  <2> QED BY <1>2, <2>1, <2>2, <2>3
<1>5. UNCHANGED store \/ \E n \in DOMAIN writer.players : UpsertPlayer(n)
  BY DEF Next, Hello, HelloBlank, DrainLoads, ApplyLoad, Play, SavePlayers, Reap, Stop, Writer, Swap,
         LoadPlayer, Publish, Throw, Restart, Kill
<1> QED BY <1>3, <1>4, <1>5

(* A stored row is never lost, and unless its name is a default one its    *)
(* progress never goes back, for any number of sessions, names, stale      *)
(* loads, thrown passes and kills: given that the store never swallows a   *)
(* call, no two clients type one name, and a load is answered within a     *)
(* session's grace time.                                                   *)
THEOREM StoreNeverGoesBack ==
  ASSUME OneClient, PromptWriter, "swallow" \notin Faults
  PROVE  Spec => StoreMonotone
<1>1. FreshInv /\ [Next]_vars =>
        [\A n \in DOMAIN store :
           /\ n \in DOMAIN store'
           /\ n \notin DefaultNames => store'[n].progress >= store[n].progress]_vars
  BY StoreGrows DEF FreshInv, Clean
<1> QED BY <1>1, FreshInvariant, PTL DEF Spec, StoreMonotone

(* Who begins to play was given a result, and it was fresh.                *)
LEMMA BeginsFresh ==
  ASSUME FreshCore, Next, NEW s \in Slot,
         session[s].phase = "loading", session'[s].phase = "live"
  PROVE  /\ UNCHANGED store
         /\ session'[s].name \notin DOMAIN players
         /\ session'[s].name \notin DOMAIN writer.players
         /\ session'[s].name \in DOMAIN store => session'[s].state = store[session'[s].name]
<1>1. AccountInv /\ Typed
  BY DEF FreshCore, AccountInv
<1>2. ApplyLoad
  <2>1. ASSUME NEW t \in Slot, NEW n \in Name, Hello(t, n) PROVE FALSE
    <3> DEFINE x == [Absent EXCEPT !.phase = "loading", !.name = n]
    <3>1. n \in Seq(Nat) /\ session[t].phase = "absent" /\ session' = [session EXCEPT ![t] = x]
      BY <2>1, PersistenceAssumption DEF Hello
    <3>2. x.phase = "loading"
      BY <3>1, Idles
    <3> HIDE DEF x
    <3> QED BY <1>1, <3>1, <3>2 DEF Typed
  <2>2. ASSUME NEW t \in Slot, Play(t) PROVE FALSE
    BY <1>1, <2>2, PlayIs
  <2>6. ASSUME NEW t \in Slot, NEW i \in Index, HelloBlank(t, i) PROVE FALSE
    BY <1>1, <2>6 DEF HelloBlank, Typed
  <2>3. ASSUME NEW t \in Slot, Reap(t) PROVE FALSE
    BY <1>1, <2>3, Idles DEF Reap, Typed
  <2>4. ASSUME Booted PROVE FALSE
    BY <2>4, Idles DEF Booted
  <2>5. ASSUME UNCHANGED session PROVE FALSE
    BY <2>5
  <2> QED BY <2>1, <2>2, <2>3, <2>4, <2>5, <2>6
      DEF Next, DrainLoads, SavePlayers, Stop, Writer, Swap, UpsertPlayer, LoadPlayer, Publish,
          Throw, Restart, Kill, simVars
<1>3. PICK r \in Results : \E t \in Waiting(r.name), st \in StateType :
        /\ r \in ResultType
        /\ session' = [session EXCEPT ![t] = [phase |-> "live", name |-> r.name, state |-> st]]
        /\ r.found => st = r.state
  BY <1>1, <1>2, ApplyIs DEF Results
<1>4. PICK t \in Waiting(r.name), st \in StateType :
        /\ r \in ResultType
        /\ session' = [session EXCEPT ![t] = [phase |-> "live", name |-> r.name, state |-> st]]
        /\ r.found => st = r.state
  BY <1>3
<1>5. /\ t \in Slot /\ r.name \notin DOMAIN players /\ r.name \notin DOMAIN writer.players
      /\ r = Result(r.name)
  BY AwaitedIsFresh
<1>6. r.name \in Seq(Nat)
  BY <1>4 DEF ResultType
<1> DEFINE x == [phase |-> "live", name |-> r.name, state |-> st]
<1>7. session' = [session EXCEPT ![t] = x] /\ x.name = r.name /\ x.state = st
  BY <1>4
<1> HIDE DEF x
<1>8. t = s /\ session'[s] = x
  BY <1>1, <1>5, <1>7 DEF Typed
<1>9. r.name \in DOMAIN store => r.found /\ r.state = store[r.name]
  BY <1>1, <1>5, <1>6, ResultTyped DEF Typed
<1>10. UNCHANGED store
  BY <1>2 DEF ApplyLoad
<1> QED BY <1>4, <1>5, <1>7, <1>8, <1>9, <1>10

(* A commander who is in the store and typed its name is never spawned     *)
(* fresh, nor with less than the store has, unless the store swallows:     *)
(* after a load FinishLoadedSpawn makes an account only for a name that    *)
(* has none.  (A hello without a name does not wait, and is not meant.)    *)
THEOREM NoFreshSpawnOverStored ==
  ASSUME OneClient, PromptWriter, "swallow" \notin Faults
  PROVE  Spec => NeverFreshOverStored
<1>1. FreshInv /\ [Next]_vars =>
        [\A s \in Slot : session[s].phase = "loading" /\ session'[s].phase = "live"
                        /\ session'[s].name \in DOMAIN store
          => session'[s].state.progress >= store[session'[s].name].progress]_vars
  <2> SUFFICES ASSUME FreshInv, Next, NEW s \in Slot,
                      session[s].phase = "loading", session'[s].phase = "live",
                      session'[s].name \in DOMAIN store
               PROVE  session'[s].state.progress >= store[session'[s].name].progress
    OBVIOUS
  <2>1. FreshCore /\ Typed
    BY DEF FreshInv, Clean, AccountInv
  <2>2. session'[s].state = store[session'[s].name]
    BY <2>1, BeginsFresh
  <2>3. store[session'[s].name].progress \in Nat
    BY <2>1, ProgressTyped
  <2> QED BY <2>2, <2>3
<1> QED BY <1>1, FreshInvariant, PTL DEF Spec, NeverFreshOverStored

-----------------------------------------------------------------------------
(* Where the last snapshot queued for a commander is: with whoever would   *)
(* hand it on last.                                                        *)
Latest(n) ==
  \/ n \in DOMAIN players /\ players[n] = queued[n]
  \/ /\ n \notin DOMAIN players
     /\ n \in DOMAIN writer.players /\ writer.players[n] = queued[n]
  \/ /\ n \notin DOMAIN players /\ n \notin DOMAIN writer.players
     /\ n \in DOMAIN store /\ store[n] = queued[n]

AllLatest == \A n \in DOMAIN queued : Latest(n)
AllQueued == \A s \in Live : /\ session[s].name \in DOMAIN queued
                            /\ queued[session[s].name] = session[s].state

LastInv == /\ AccountInv
           /\ stopping => drained = <<>>
           /\ faults = 0 => AllLatest
           /\ faults = 0 /\ stopping => AllQueued

LEMMA QueueLatest ==
  ASSUME Typed, NamesOwn, AllLatest, NEW slots \in SUBSET Live,
         QueuePlayerSnapshots(Snapshots(slots)), UNCHANGED <<writer, store>>
  PROVE  AllLatest'
<1>1. /\ DOMAIN players' = DOMAIN players \cup {session[s].name : s \in slots}
      /\ DOMAIN queued' = DOMAIN queued \cup {session[s].name : s \in slots}
      /\ \A s \in slots : /\ players'[session[s].name] = session[s].state
                         /\ queued'[session[s].name] = session[s].state
      /\ \A n : (\A s \in slots : session[s].name # n) =>
           /\ n \in DOMAIN players => players'[n] = players[n]
           /\ n \in DOMAIN queued => queued'[n] = queued[n]
  BY QueueSlots
<1>2. ASSUME NEW n \in DOMAIN queued' PROVE Latest(n)'
  <2>1. CASE \E s \in slots : session[s].name = n
    BY <1>1, <2>1 DEF Latest
  <2>2. CASE \A s \in slots : session[s].name # n
    <3>1. n \in DOMAIN queued /\ (n \in DOMAIN players' <=> n \in DOMAIN players) /\ Latest(n)
      BY <1>1, <1>2, <2>2 DEF AllLatest
    <3>2. queued'[n] = queued[n] /\ (n \in DOMAIN players => players'[n] = players[n])
      BY <1>1, <2>2, <3>1
    <3> QED BY <3>1, <3>2 DEF Latest
  <2> QED BY <2>1, <2>2
<1> QED BY <1>2 DEF AllLatest

LEMMA QueueOneLatest ==
  ASSUME AllLatest, UNCHANGED <<writer, store>>,
         NEW n, NEW st, QueuePlayerSnapshots([m \in {n} |-> st])
  PROVE  AllLatest'
<1>1. /\ DOMAIN players' = DOMAIN players \cup {n}
      /\ DOMAIN queued' = DOMAIN queued \cup {n}
      /\ players'[n] = st /\ queued'[n] = st
      /\ \A m \in DOMAIN players \ {n} : players'[m] = players[m]
      /\ \A m \in DOMAIN queued \ {n} : queued'[m] = queued[m]
  BY QueueOneIs
<1>2. ASSUME NEW m \in DOMAIN queued' PROVE Latest(m)'
  <2>1. CASE m = n
    BY <1>1, <2>1 DEF Latest
  <2>2. CASE m # n
    BY <1>1, <1>2, <2>2 DEF AllLatest, Latest
  <2> QED BY <2>1, <2>2
<1> QED BY <1>2 DEF AllLatest

LEMMA SimLast ==
  ASSUME OneClient, LastInv, AccountInv',
         \/ \E s \in Slot : \/ \E n \in Name : Hello(s, n)
                            \/ \E i \in Index : HelloBlank(s, i)
                            \/ Play(s) \/ Reap(s)
         \/ DrainLoads \/ ApplyLoad \/ SavePlayers \/ Stop
  PROVE  LastInv'
<1>1. Typed /\ NamesOwn /\ faults' = faults /\ UNCHANGED <<writer, store>>
  BY DEF LastInv, AccountInv, Hello, HelloBlank, Play, Reap, DrainLoads, ApplyLoad, SavePlayers,
         Stop
<1>2. CASE ~stopping' /\ UNCHANGED <<players, queued>>
  BY <1>1, <1>2 DEF LastInv, AllLatest, Latest
<1>3. CASE ApplyLoad
  <2>1. ~stopping' /\ drained # <<>>
    BY <1>3 DEF ApplyLoad, LastInv
  <2>2. CASE UNCHANGED <<players, queued>>
    BY <1>2, <2>1, <2>2
  <2>3. ASSUME NEW n, NEW st, QueuePlayerSnapshots([m \in {n} |-> st]), AllLatest
        PROVE  AllLatest'
    BY <1>1, <2>3, QueueOneLatest
  <2>4. \/ UNCHANGED <<players, queued>>
        \/ \E n, st : QueuePlayerSnapshots([m \in {n} |-> st])
    BY <1>3, ApplyIs DEF LastInv
  <2> QED BY <1>1, <2>1, <2>2, <2>3, <2>4 DEF LastInv
<1>4. CASE SavePlayers
  <2> DEFINE changed == {s \in Live : s \notin DOMAIN lastSaved \/ lastSaved[s] # Durable(s)}
  <2>1. QueuePlayerSnapshots(Snapshots(changed)) /\ ~stopping'
    BY <1>4 DEF SavePlayers, Between
  <2>2. AllLatest => AllLatest'
    BY <1>1, <2>1, QueueLatest
  <2> QED BY <1>1, <2>1, <2>2 DEF LastInv
<1>5. CASE Stop
  <2>1. /\ QueuePlayerSnapshots(Snapshots(Live)) /\ UNCHANGED <<session, drained>>
        /\ drained = <<>>
    BY <1>5 DEF Stop, Between
  <2>2. AllLatest => AllLatest'
    BY <1>1, <2>1, QueueLatest
  <2>3. AllQueued'
    <3>1. Live' = Live
      BY <2>1 DEF Live
    <3>2. /\ DOMAIN queued' = DOMAIN queued \cup {session[s].name : s \in Live}
          /\ \A s \in Live : queued'[session[s].name] = session[s].state
      BY <1>1, <2>1, QueueSlots
    <3> QED BY <2>1, <3>1, <3>2 DEF AllQueued
  <2> QED BY <1>1, <2>1, <2>2, <2>3 DEF LastInv
<1>6. ASSUME NEW s \in Slot, (\E n \in Name : Hello(s, n)) \/ Play(s) \/ Reap(s)
      PROVE  ~stopping' /\ UNCHANGED <<players, queued>>
  <2>1. ASSUME NEW n \in Name, Hello(s, n) PROVE ~stopping' /\ UNCHANGED <<players, queued>>
    BY <2>1 DEF Hello, Between
  <2>2. CASE Play(s)
    BY <2>2 DEF Play, Between, queueVars
  <2>3. CASE Reap(s)
    BY <2>3 DEF Reap, Between, queueVars
  <2> QED BY <1>6, <2>1, <2>2, <2>3
<1>7. DrainLoads => ~stopping' /\ UNCHANGED <<players, queued>>
  BY DEF DrainLoads, Between
<1>8. ASSUME NEW s \in Slot, NEW i \in Index, HelloBlank(s, i) PROVE LastInv'
  <2>1. PICK n \in DefaultNames, st \in StateType :
          ~stopping /\ UNCHANGED stopping /\ QueuePlayerSnapshots([m \in {n} |-> st])
    BY <1>8, BlankIs
  <2>2. AllLatest => AllLatest'
    BY <1>1, <2>1, QueueOneLatest
  <2> QED BY <1>1, <2>1, <2>2 DEF LastInv
<1> QED BY <1>2, <1>3, <1>4, <1>5, <1>6, <1>7, <1>8

LEMMA WriterLast ==
  ASSUME LastInv, AccountInv', Writer
  PROVE  LastInv'
<1>1. /\ Typed /\ faults \in Nat
      /\ UNCHANGED <<session, drained, stopping, queued>>
  <2>1. Typed /\ faults \in Nat
    BY PersistenceAssumption DEF LastInv, AccountInv, Typed
  <2>2. UNCHANGED simVars /\ UNCHANGED queued
    BY DEF Writer, Swap, UpsertPlayer, LoadPlayer, Publish, Throw
  <2> QED BY <2>1, <2>2 DEF simVars
<1>2. AllQueued' <=> AllQueued
  BY <1>1 DEF AllQueued, Live
<1>3. ASSUME faults' = 0 PROVE faults = 0 /\ (AllLatest => AllLatest')
  <2>1. CASE Swap
    <3>1. /\ writer = Idle /\ writer'.players = players /\ players' = <<>> /\ UNCHANGED <<store, faults>>
      BY <1>1, <2>1, SwapIs
    <3>2. DOMAIN writer.players = {} /\ DOMAIN players' = {}
      <4>1. writer.players = <<>>
        BY <3>1, Idles
      <4> QED BY <3>1, <4>1
    <3> QED BY <1>1, <1>3, <3>1, <3>2 DEF AllLatest, Latest
  <2>2. ASSUME NEW n \in DOMAIN writer.players, UpsertPlayer(n)
        PROVE  faults = 0 /\ (AllLatest => AllLatest')
    <3>1. /\ DOMAIN writer'.players = DOMAIN writer.players \ {n}
          /\ \A m \in DOMAIN writer'.players : writer'.players[m] = writer.players[m]
          /\ DOMAIN store' = DOMAIN store \cup {n} /\ store'[n] = writer.players[n]
          /\ \A m \in DOMAIN store \ {n} : store'[m] = store[m]
          /\ UNCHANGED <<faults, players>>
      <4>1. ~("swallow" \in Faults /\ faults' = faults + 1 /\ faults < MaxFaults)
        BY <1>1, <1>3
      <4> QED BY <1>1, <2>2, <4>1, UpsertIs
    <3>2. ASSUME NEW m \in DOMAIN queued, Latest(m) PROVE Latest(m)'
      <4>1. CASE m = n
        BY <1>1, <2>2, <3>1, <3>2, <4>1 DEF Latest
      <4>2. CASE m # n
        BY <1>1, <3>1, <3>2, <4>2 DEF Latest
      <4> QED BY <4>1, <4>2
    <3> QED BY <1>1, <1>3, <3>1, <3>2 DEF AllLatest
  <2>3. CASE LoadPlayer
    <3>1. /\ writer.players = <<>> /\ writer'.players = <<>>
          /\ UNCHANGED <<faults, players, store>>
      BY <1>1, <1>3, <2>3, LoadIs
    <3> QED BY <1>1, <1>3, <3>1 DEF AllLatest, Latest
  <2>4. CASE Publish
    <3>1. /\ writer.players = <<>> /\ writer' = Idle /\ UNCHANGED <<faults, players, store>>
      BY <1>1, <2>4, PublishIs
    <3>2. writer'.players = <<>>
      BY <3>1, Idles
    <3> QED BY <1>1, <1>3, <3>1, <3>2 DEF AllLatest, Latest
  <2>5. CASE Throw
    BY <1>1, <1>3, <2>5 DEF Throw
  <2> QED BY <2>1, <2>2, <2>3, <2>4, <2>5 DEF Writer
<1> QED BY <1>1, <1>2, <1>3 DEF LastInv

LEMMA RestLast ==
  ASSUME LastInv, AccountInv', Restart \/ Kill \/ UNCHANGED vars
  PROVE  LastInv'
<1>1. CASE Restart
  <2>1. /\ ~writer.busy /\ players = <<>> /\ Booted /\ UNCHANGED <<store, faults, queued>>
    BY <1>1 DEF Restart, HasPending
  <2>2. writer = Idle
    BY <2>1 DEF LastInv, AccountInv, Typed, WriterShaped
  <2>3. players' = <<>> /\ writer' = Idle /\ drained' = <<>> /\ stopping' = FALSE
    BY <2>1 DEF Booted
  <2>4. AllLatest => AllLatest'
    BY <2>1, <2>2, <2>3 DEF AllLatest, Latest
  <2> QED BY <2>1, <2>3, <2>4 DEF LastInv
<1>2. CASE Kill
  <2>1. faults' # 0 /\ drained' = <<>>
    BY <1>2, PersistenceAssumption DEF Kill, Booted, LastInv, AccountInv, Typed
  <2> QED BY <2>1 DEF LastInv
<1>3. CASE UNCHANGED vars
  BY <1>3 DEF vars, simVars, queueVars, LastInv, AllLatest, Latest, AllQueued, Live
<1> QED BY <1>1, <1>2, <1>3

(* While nothing has failed, the last snapshot queued for a commander is   *)
(* the newest of it between the queue and the store, and a server that     *)
(* stops has queued everybody.                                             *)
THEOREM LastInvariant ==
  ASSUME OneClient
  PROVE  Spec => []LastInv
<1>1. Init => LastInv
  BY AccountsInit DEF Init, LastInv, AllLatest
<1>2. LastInv /\ [Next]_vars => LastInv'
  <2>1. LastInv /\ [Next]_vars => AccountInv'
    BY AccountsStep DEF LastInv
  <2> QED BY <2>1, SimLast, WriterLast, RestLast DEF Next
<1> QED BY <1>1, <1>2, PTL DEF Spec

(* While nothing has failed, a commander who comes back gets at least what *)
(* was last queued for it: FlushPendingOnce writes a pass's snapshots      *)
(* before it loads.                                                        *)
THEOREM ComebackSeesSaves ==
  ASSUME OneClient, PromptWriter
  PROVE  Spec => LoadSeesSaves
<1>1. FreshInv /\ LastInv /\ [Next]_vars =>
        [\A s \in Slot :
           /\ faults = 0
           /\ session[s].phase = "loading" /\ session'[s].phase = "live"
           /\ session'[s].name \in DOMAIN queued
           => session'[s].state.progress >= queued[session'[s].name].progress]_vars
  <2> SUFFICES ASSUME FreshInv, LastInv, Next, NEW s \in Slot, faults = 0,
                      session[s].phase = "loading", session'[s].phase = "live",
                      session'[s].name \in DOMAIN queued
               PROVE  session'[s].state.progress >= queued[session'[s].name].progress
    OBVIOUS
  <2>1. FreshCore /\ Typed /\ Latest(session'[s].name)
    BY DEF FreshInv, Clean, AccountInv, LastInv, AllLatest
  <2>2. session'[s].state = queued[session'[s].name]
    BY <2>1, BeginsFresh DEF Latest
  <2>3. queued[session'[s].name].progress \in Nat
    BY <2>1, PersistenceAssumption DEF Typed, StateMap, StateType
  <2> QED BY <2>2, <2>3
<1> QED BY <1>1, FreshInvariant, LastInvariant, PTL DEF Spec, LoadSeesSaves

(* A graceful stop loses nothing, while nothing has failed: the destructor *)
(* queues everybody, and the writer leaves only when nothing is queued.    *)
THEOREM StopsSaved ==
  ASSUME OneClient
  PROVE  Spec => StopSavesAll
<1>1. LastInv /\ [Next]_vars =>
        [stopping /\ ~stopping' /\ faults' = 0 =>
           \A s \in Live :
             /\ session[s].name \in DOMAIN store
             /\ store[session[s].name] = session[s].state]_vars
  <2> SUFFICES ASSUME LastInv, Next, stopping, ~stopping', faults' = 0, NEW s \in Live
               PROVE  /\ session[s].name \in DOMAIN store
                      /\ store[session[s].name] = session[s].state
    OBVIOUS
  <2>1. Restart \/ Kill
    BY DEF Next, Hello, HelloBlank, DrainLoads, ApplyLoad, Play, SavePlayers, Reap, Stop, Writer, Swap,
           UpsertPlayer, LoadPlayer, Publish, Throw, simVars, LastInv
  <2>2. Restart /\ faults = 0
    <3>1. Kill => faults' # 0
      BY PersistenceAssumption DEF Kill, LastInv, AccountInv, Typed
    <3> QED BY <2>1, <3>1 DEF Restart
  <2>3. players = <<>> /\ writer = Idle
    BY <2>2 DEF Restart, HasPending, LastInv, AccountInv, Typed, WriterShaped
  <2>4. AllLatest /\ AllQueued
    BY <2>2 DEF LastInv
  <2>5. DOMAIN players = {} /\ DOMAIN writer.players = {}
    <3>1. writer.players = <<>>
      BY <2>3, Idles
    <3> QED BY <2>3, <3>1
  <2> QED BY <2>4, <2>5 DEF AllLatest, AllQueued, Latest
<1> QED BY <1>1, LastInvariant, PTL DEF Spec, StopSavesAll
=============================================================================
