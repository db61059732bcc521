---------------------------- MODULE SnapshotStream ----------------------------
(***************************************************************************)
(* One session's snapshot stream: NeuronCore/SnapshotStream.h with the     *)
(* differ of SnapshotDelta.h and the splitter of SnapshotPacketizer.h.     *)
(*                                                                         *)
(* Each tick the server encodes what the viewer sees, as a delta against   *)
(* the snapshot the client last acknowledged or as a full one; datagrams   *)
(* are lost, duplicated and reordered; the client rebuilds snapshots from  *)
(* the baselines in its ring and acknowledges the newest.  Both sides must *)
(* mean the same snapshot by the same tick.                                *)
(*                                                                         *)
(* A snapshot maps the ids in view to values; Quantum consecutive values   *)
(* look the same on the wire.  The acknowledgement rides on inputs that    *)
(* the server applies newest first; as AckTick never decreases, that is    *)
(* the greatest acknowledgement received.                                  *)
(***************************************************************************)
EXTENDS Integers, Sequences, FiniteSets, Functions

CONSTANTS View,         \* the snapshots there may be: functions to Nat
          Quantum,      \* resolution of the wire
          PerDatagram,  \* entities that fit a datagram
          Interval,     \* SNAPSHOT_KEYFRAME_INTERVAL
          RingSize,     \* SNAPSHOT_BASELINE_RING
          MaxTick,      \* bound on the ticks
          MaxInFlight,  \* bound on the datagrams in flight
          MaxInputs     \* bound on the inputs in flight

ASSUME StreamAssumption ==
  /\ \A v \in View : \A e \in DOMAIN v : v[e] \in Nat
  /\ Quantum \in Nat \ {0} /\ PerDatagram \in Nat \ {0}
  /\ Interval \in Nat /\ RingSize \in Nat \ {0}
  /\ MaxTick \in Nat /\ MaxInFlight \in Nat /\ MaxInputs \in Nat

VARIABLES tick,          \* the server's last encoded tick
          ring,          \* the encoder's m_ring
          sinceKeyframe, \* m_sinceKeyframe
          acked,         \* the session's ackedSnapshotTick
          net,           \* snapshot datagrams in flight
          acks,          \* acknowledgements in flight
          held,          \* the decoder's m_ring
          latest,        \* the decoder's m_latestTick, 0 before the first
          truth,         \* history: what was encoded at each tick
          newest,        \* history: the newest tick delivered
          inOrder        \* history: nothing was duplicated or overtaken

serverVars == <<tick, ring, sinceKeyframe, acked>>
clientVars == <<held, latest>>
historyVars == <<truth, newest, inOrder>>
vars == <<serverVars, net, acks, clientVars, historyVars>>

Init == /\ tick = 0 /\ ring = <<>> /\ sinceKeyframe = Interval /\ acked = 0
        /\ net = {} /\ acks = {}
        /\ held = <<>> /\ latest = 0
        /\ truth = <<>> /\ newest = 0 /\ inOrder = TRUE

-----------------------------------------------------------------------------
Entry(t, v) == [tick |-> t, view |-> v]
Ticks(r) == {r[i].tick : i \in DOMAIN r}
FindInRing(r, t) == r[CHOOSE i \in DOMAIN r : /\ r[i].tick = t
                                              /\ \A j \in 1..(i - 1) : r[j].tick # t].view

PushRing(r, entry) ==
  LET longer == Append(r, entry)
  IN SubSeq(longer, IF Len(longer) > RingSize THEN 2 ELSE 1, Len(longer))

Wire(v) == [e \in DOMAIN v |-> v[e] \div Quantum]

(* SnapshotDiff: the new and wire-different entities, and the ids gone.    *)
Changed(base, v) ==
  {e \in DOMAIN v : e \notin DOMAIN base \/ base[e] \div Quantum # v[e] \div Quantum}
SnapshotDiff(b, base, t, v) ==
  [kind |-> "delta", tick |-> t, baseline |-> b,
   changed |-> Restrict(Wire(v), Changed(base, v)),
   removed |-> DOMAIN base \ DOMAIN v]

ApplyDelta(base, d) ==
  [e \in (DOMAIN base \ d.removed) \cup DOMAIN d.changed |->
     IF e \in DOMAIN d.changed THEN d.changed[e] ELSE base[e]]

(* A delta fits a datagram when its records do.                            *)
Fits(d) == Cardinality(DOMAIN d.changed) + Cardinality(d.removed) <= PerDatagram

(* PacketizeSnapshot: one complete datagram, or incomplete parts.          *)
Part(t, v, ids, whole) ==
  [kind |-> "full", tick |-> t, complete |-> whole, view |-> Restrict(Wire(v), ids)]
IsPacketized(parts, v) ==
  /\ \A p \in parts : Cardinality(p) \in 1..PerDatagram
  /\ UNION parts = DOMAIN v
  /\ \A p, q \in parts : p # q => p \cap q = {} /\ (Cardinality(p) = PerDatagram
                                                   \/ Cardinality(q) = PerDatagram)
PacketizeSnapshot(t, v, parts) ==
  IF Cardinality(DOMAIN v) <= PerDatagram THEN {Part(t, v, DOMAIN v, TRUE)}
  ELSE {Part(t, v, p, FALSE) : p \in parts}

-----------------------------------------------------------------------------
(* Faulty variant: deltas against the last snapshot sent.                  *)
BaselineLastSent == IF sinceKeyframe < Interval /\ ring # <<>> THEN {tick} ELSE {}

(* The baseline of this tick's delta: the acknowledged snapshot, unless a  *)
(* keyframe is due or the encoder has let it go.                           *)
Baseline == IF sinceKeyframe < Interval /\ acked # 0 /\ acked \in Ticks(ring)
            THEN {acked} ELSE {}

Deltas(v) == {d \in {SnapshotDiff(b, FindInRing(ring, b), tick + 1, v) : b \in Baseline} :
                Fits(d)}

(* Encode and send; what the network has no room for is lost.              *)
Encode(v) ==
  /\ tick < MaxTick
  /\ \E parts \in SUBSET SUBSET DOMAIN v :
       /\ IsPacketized(parts, v)
       /\ LET out == IF Deltas(v) # {} THEN Deltas(v)
                     ELSE PacketizeSnapshot(tick + 1, v, parts)
          IN \E kept \in SUBSET out :
               /\ Cardinality(net \cup kept) <= MaxInFlight
               /\ net' = net \cup kept
  /\ sinceKeyframe' = IF Deltas(v) # {} THEN sinceKeyframe + 1 ELSE 0
  /\ ring' = PushRing(ring, Entry(tick + 1, v))
  /\ tick' = tick + 1
  /\ truth' = Append(truth, v)
  /\ UNCHANGED <<acked, acks, clientVars, newest, inOrder>>

(* Store: a baseline that the client may acknowledge.                      *)
Store(entry) == /\ held' = PushRing(held, entry)
                /\ latest' = IF entry.tick >= latest THEN entry.tick ELSE latest

Decodable(d) == d.kind = "full" \/ d.baseline \in Ticks(held)

(* Faulty variant: keeps a part of a snapshot as if it were whole.         *)
DecodeKeepParts(d) ==
  \/ d.kind = "full" /\ Store(Entry(d.tick, d.view))
  \/ /\ d.kind = "delta" /\ Decodable(d)
     /\ Store(Entry(d.tick, ApplyDelta(FindInRing(held, d.baseline), d)))
  \/ ~Decodable(d) /\ UNCHANGED clientVars

Decode(d) ==
  \/ d.kind = "full" /\ d.complete /\ Store(Entry(d.tick, d.view))
  \/ d.kind = "full" /\ ~d.complete /\ UNCHANGED clientVars
  \/ /\ d.kind = "delta" /\ Decodable(d)
     /\ Store(Entry(d.tick, ApplyDelta(FindInRing(held, d.baseline), d)))
  \/ ~Decodable(d) /\ UNCHANGED clientVars

Deliver(d) ==
  /\ Decode(d)
  /\ newest' = IF d.tick > newest THEN d.tick ELSE newest
  /\ \/ net' = net \ {d} /\ inOrder' = (inOrder /\ newest <= d.tick)
     \/ net' = net /\ inOrder' = FALSE
  /\ UNCHANGED <<serverVars, acks, truth>>

Lose(d) == /\ net' = net \ {d}
           /\ UNCHANGED <<serverVars, acks, clientVars, historyVars>>

(* SendInput carries AckTick; OnInput applies the freshest.                *)
SendInput == /\ Cardinality(acks \cup {latest}) <= MaxInputs
             /\ acks' = acks \cup {latest}
             /\ UNCHANGED <<serverVars, net, clientVars, historyVars>>
OnInput(a) == /\ acked' = IF a > acked THEN a ELSE acked
              /\ acks' = acks \ {a}
              /\ UNCHANGED <<tick, ring, sinceKeyframe, net, clientVars, historyVars>>

Next == \/ \E v \in View : Encode(v)
        \/ \E d \in net : Deliver(d) \/ Lose(d)
        \/ SendInput
        \/ \E a \in acks : OnInput(a)

Spec == Init /\ [][Next]_vars

-----------------------------------------------------------------------------
(* Types; both rings are bounded.                                          *)
TypeOK == /\ tick \in 0..MaxTick /\ sinceKeyframe \in 0..Interval
          /\ acked \in 0..tick /\ acks \subseteq 0..tick
          /\ latest \in 0..tick /\ newest \in 0..tick
          /\ Len(ring) <= RingSize /\ Len(held) <= RingSize
          /\ \A i \in DOMAIN ring : ring[i].tick \in 1..tick /\ ring[i].view \in View
          /\ \A i \in DOMAIN held : held[i].tick \in 1..tick
          /\ \A d \in net : d.kind \in {"full", "delta"} /\ d.tick \in 1..tick
          /\ truth \in Seq(View) /\ Len(truth) = tick
          /\ inOrder \in BOOLEAN

(* Every snapshot the client holds is, as seen on the wire, the one the    *)
(* server encoded for that tick, whatever was lost, duplicated or          *)
(* overtaken: deltas never compound on a wrong or partial baseline.        *)
BaselinesTrue ==
  \A i \in DOMAIN held : held[i].view = Wire(truth[held[i].tick])

(* While nothing is duplicated or overtaken, every delta that arrives can  *)
(* be applied, however much was lost: the acknowledged baseline the server *)
(* picks is still in the client's ring.                                    *)
BaselineStillHeld ==
  [][\A d \in net : inOrder' /\ Deliver(d) => Decodable(d)]_vars
=============================================================================
