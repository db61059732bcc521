------------------------- MODULE SnapshotStreamProofs -------------------------
(***************************************************************************)
(* Proofs about what a client is shown.  SnapshotStream, the codec, for    *)
(* any views, wire resolution, datagram size, keyframe interval and ring   *)
(* size; then Replication, the client's history, roster and lock, for any  *)
(* players, component pools, slots, generations and delays.                *)
(***************************************************************************)
EXTENDS SnapshotStream, Replication, FiniteSetTheorems, WellFoundedInduction, TLAPS

(* Every nonempty set of numbers has a least one.                          *)
LEMMA Least ==
  ASSUME NEW S \in SUBSET Nat, S # {}
  PROVE  \E n \in S : \A m \in S : n <= m
<1> DEFINE R == OpToRel(<, Nat)
<1>1. IsWellFoundedOn(R, Nat)
  BY NatLessThanWellFounded
<1> HIDE DEF R
<1>2. PICK n \in S : \A m \in S : ~(<<m, n>> \in R)
  BY <1>1, WFMin
<1>3. \A m \in S : ~(m < n)
  BY <1>2 DEF R, OpToRel
<1> QED BY <1>3

-----------------------------------------------------------------------------
(* The rings.                                                              *)

(* A push appends, and drops the oldest of a full ring.                    *)
LEMMA PushRingIs ==
  ASSUME NEW S, NEW r \in Seq(S), NEW e \in S, Len(r) <= RingSize
  PROVE  LET q == PushRing(r, e)
             o == IF Len(r) = RingSize THEN 1 ELSE 0
         IN  /\ q \in Seq(S)
             /\ Len(q) = Len(r) + 1 - o
             /\ Len(q) \in 1..RingSize
             /\ \A k \in 1..(Len(q) - 1) : k + o \in 1..Len(r) /\ q[k] = r[k + o]
             /\ q[Len(q)] = e
<1> DEFINE longer == Append(r, e)
           n == Len(r)
<1>1. /\ RingSize \in Nat \ {0} /\ n \in Nat
      /\ longer \in Seq(S) /\ Len(longer) = n + 1
      /\ \A k \in 1..n : longer[k] = r[k]
      /\ longer[n + 1] = e
  BY StreamAssumption
<1> HIDE DEF longer
<1>2. CASE n = RingSize
  <2>1. PushRing(r, e) = SubSeq(longer, 2, n + 1)
    BY <1>1, <1>2 DEF PushRing, longer
  <2>2. /\ SubSeq(longer, 2, n + 1) \in Seq(S)
        /\ Len(SubSeq(longer, 2, n + 1)) = n
        /\ \A k \in 1..n : SubSeq(longer, 2, n + 1)[k] = longer[k + 1]
    BY <1>1
  <2> QED BY <1>1, <1>2, <2>1, <2>2
<1>3. CASE n < RingSize
  <2>1. PushRing(r, e) = SubSeq(longer, 1, n + 1)
    BY <1>1, <1>3 DEF PushRing, longer
  <2>2. /\ SubSeq(longer, 1, n + 1) \in Seq(S)
        /\ Len(SubSeq(longer, 1, n + 1)) = n + 1
        /\ \A k \in 1..(n + 1) : SubSeq(longer, 1, n + 1)[k] = longer[k]
    BY <1>1
  <2> DEFINE q == PushRing(r, e)
  <2>3. q \in Seq(S) /\ Len(q) = n + 1 /\ \A k \in 1..(n + 1) : q[k] = longer[k]
    BY <2>1, <2>2
  <2> HIDE DEF q
  <2>4. \A k \in 1..(Len(q) - 1) : k + 0 \in 1..n /\ q[k] = r[k + 0]
    BY <1>1, <2>3
  <2>5. q[Len(q)] = e /\ Len(q) \in 1..RingSize /\ Len(q) = n + 1 - 0
    BY <1>1, <1>3, <2>3
  <2> QED BY <1>3, <2>3, <2>4, <2>5 DEF q
<1> QED BY <1>1, <1>2, <1>3

(* What is found in a ring is an entry of that tick.                       *)
LEMMA FoundIsEntry ==
  ASSUME NEW S, NEW r \in Seq(S), NEW t \in Ticks(r)
  PROVE  \E i \in DOMAIN r : r[i].tick = t /\ FindInRing(r, t) = r[i].view
<1> DEFINE I == {i \in DOMAIN r : r[i].tick = t}
<1>1. DOMAIN r = 1..Len(r) /\ Len(r) \in Nat
  OBVIOUS
<1>2. I \in SUBSET Nat /\ I # {}
  BY <1>1 DEF Ticks
<1>3. PICK n \in I : \A m \in I : n <= m
  <2> HIDE DEF I
  <2> QED BY <1>2, Least
<1>4. \A j \in 1..(n - 1) : r[j].tick # t
  BY <1>1, <1>3
<1>5. \E i \in DOMAIN r : r[i].tick = t /\ \A j \in 1..(i - 1) : r[j].tick # t
  BY <1>3, <1>4
<1> QED BY <1>5 DEF FindInRing

-----------------------------------------------------------------------------
(* A delta against a view rebuilds, from what that view looked like on the *)
(* wire, what the new one looks like.                                      *)
LEMMA DeltaRebuilds ==
  ASSUME NEW base \in View, NEW v \in View, NEW b, NEW t
  PROVE  ApplyDelta(Wire(base), SnapshotDiff(b, base, t, v)) = Wire(v)
<1> DEFINE d == SnapshotDiff(b, base, t, v)
<1>1. /\ d.changed = [e \in Changed(base, v) |-> v[e] \div Quantum]
      /\ d.removed = DOMAIN base \ DOMAIN v
  BY DEF SnapshotDiff, Restrict, Wire, Changed
<1>2. /\ Changed(base, v) \subseteq DOMAIN v
      /\ \A e \in DOMAIN v \ Changed(base, v) :
           e \in DOMAIN base /\ base[e] \div Quantum = v[e] \div Quantum
  BY DEF Changed
<1> HIDE DEF d
<1>3. (DOMAIN Wire(base) \ d.removed) \cup DOMAIN d.changed = DOMAIN v
  BY <1>1, <1>2 DEF Wire, Changed
<1>4. \A e \in DOMAIN v : (IF e \in DOMAIN d.changed THEN d.changed[e] ELSE Wire(base)[e])
                            = v[e] \div Quantum
  BY <1>1, <1>2 DEF Wire
<1>5. ApplyDelta(Wire(base), d) = [e \in DOMAIN v |-> v[e] \div Quantum]
  BY <1>3, <1>4 DEF ApplyDelta
<1> QED BY <1>5 DEF Wire, d

-----------------------------------------------------------------------------
(* What was encoded so far, as the server and as the wire has it.          *)
Encoded == {Entry(t, truth[t]) : t \in 1..tick}
Known == {Entry(t, Wire(truth[t])) : t \in 1..tick}

(* What a datagram says of the tick it names is what was encoded then: a   *)
(* whole one by itself, a delta on top of its baseline.                    *)
Says(d) ==
  /\ d.kind \in {"full", "delta"} /\ d.tick \in 1..tick
  /\ d.kind = "full" /\ d.complete => d.view = Wire(truth[d.tick])
  /\ d.kind = "delta" =>
       /\ d.baseline \in 1..tick
       /\ ApplyDelta(Wire(truth[d.baseline]), d) = Wire(truth[d.tick])

Typed == /\ tick \in 0..MaxTick /\ sinceKeyframe \in 0..Interval
         /\ acked \in 0..tick /\ acks \subseteq 0..tick
         /\ latest \in 0..tick /\ newest \in 0..tick
         /\ inOrder \in BOOLEAN
         /\ truth \in Seq(View) /\ Len(truth) = tick

TrueInv == /\ Typed
           /\ ring \in Seq(Encoded) /\ Len(ring) <= RingSize
           /\ held \in Seq(Known) /\ Len(held) <= RingSize
           /\ \A d \in net : Says(d)

(* A ring of entries may be pushed another.                                *)
LEMMA PushStays ==
  ASSUME NEW S, NEW r \in Seq(S), Len(r) <= RingSize, NEW e \in S
  PROVE  PushRing(r, e) \in Seq(S) /\ Len(PushRing(r, e)) <= RingSize
<1> DEFINE q == PushRing(r, e)
<1>1. q \in Seq(S) /\ Len(q) \in 1..RingSize
  BY PushRingIs
<1> QED BY <1>1, StreamAssumption

LEMMA SeqWider ==
  ASSUME NEW S, NEW T, S \subseteq T, NEW r \in Seq(S)
  PROVE  r \in Seq(T)
OBVIOUS

(* What is sent at a tick says what was encoded at it.                     *)
LEMMA SentIsTrue ==
  ASSUME TrueInv, NEW v \in View, tick < MaxTick,
         truth' = Append(truth, v), tick' = tick + 1,
         NEW parts \in SUBSET SUBSET DOMAIN v,
         NEW d \in Deltas(v) \cup PacketizeSnapshot(tick + 1, v, parts)
  PROVE  Says(d)'
<1>1. /\ tick \in Nat /\ Len(truth) = tick /\ tick' = tick + 1
      /\ truth'[tick + 1] = v
      /\ \A t \in 1..tick : truth'[t] = truth[t] /\ truth[t] \in View
  BY DEF TrueInv, Typed
<1>2. CASE d \in Deltas(v)
  <2>1. PICK b \in Baseline : d = SnapshotDiff(b, FindInRing(ring, b), tick + 1, v)
    BY <1>2 DEF Deltas
  <2>2. b \in Ticks(ring)
    BY DEF Baseline
  <2>3. PICK i \in DOMAIN ring : ring[i].tick = b /\ FindInRing(ring, b) = ring[i].view
    BY <2>2, FoundIsEntry DEF TrueInv
  <2>4. ring[i] \in Encoded
    BY DEF TrueInv
  <2>5. b \in 1..tick /\ FindInRing(ring, b) = truth[b]
    BY <2>3, <2>4 DEF Encoded, Entry
  <2>6. ApplyDelta(Wire(truth[b]), d) = Wire(v)
    BY <1>1, <2>1, <2>5, DeltaRebuilds
  <2>7. d.kind = "delta" /\ d.tick = tick + 1 /\ d.baseline = b
    BY <2>1 DEF SnapshotDiff
  <2> QED BY <1>1, <2>5, <2>6, <2>7 DEF Says
<1>3. CASE d \in PacketizeSnapshot(tick + 1, v, parts)
  <2>1. /\ d.kind = "full" /\ d.tick = tick + 1
        /\ d.complete => d.view = Restrict(Wire(v), DOMAIN v)
    BY <1>3 DEF PacketizeSnapshot, Part
  <2>2. Restrict(Wire(v), DOMAIN v) = Wire(v)
    BY DEF Restrict, Wire
  <2> QED BY <1>1, <2>1, <2>2 DEF Says
<1> QED BY <1>2, <1>3

(* Whatever the decoder stores is a snapshot the server encoded.           *)
LEMMA StoredIsKnown ==
  ASSUME TrueInv, NEW d \in net, Decode(d)
  PROVE  \/ /\ (d.kind = "full" /\ d.complete) \/ (d.kind = "delta" /\ Decodable(d))
            /\ Entry(d.tick, Wire(truth[d.tick])) \in Known
            /\ Store(Entry(d.tick, Wire(truth[d.tick])))
         \/ UNCHANGED clientVars
<1>1. Says(d)
  BY DEF TrueInv
<1>2. Entry(d.tick, Wire(truth[d.tick])) \in Known
  BY <1>1 DEF Says, Known
<1>3. CASE d.kind = "full" /\ d.complete /\ Store(Entry(d.tick, d.view))
  <2>1. d.view = Wire(truth[d.tick])
    BY <1>1, <1>3 DEF Says
  <2>2. Store(Entry(d.tick, Wire(truth[d.tick])))
    BY <1>3, <2>1
  <2> QED BY <1>2, <1>3, <2>2
<1>4. CASE /\ d.kind = "delta" /\ Decodable(d)
           /\ Store(Entry(d.tick, ApplyDelta(FindInRing(held, d.baseline), d)))
  <2>1. d.baseline \in Ticks(held)
    BY <1>4 DEF Decodable
  <2>2. PICK i \in DOMAIN held : held[i].tick = d.baseline
                                 /\ FindInRing(held, d.baseline) = held[i].view
    BY <2>1, FoundIsEntry DEF TrueInv
  <2>3. held[i] \in Known
    BY DEF TrueInv
  <2>4. FindInRing(held, d.baseline) = Wire(truth[d.baseline])
    BY <2>2, <2>3 DEF Known, Entry
  <2> QED BY <1>1, <1>2, <1>4, <2>4 DEF Says
<1> QED BY <1>3, <1>4 DEF Decode

-----------------------------------------------------------------------------
LEMMA TrueInit == Init => TrueInv
<1> SUFFICES ASSUME Init PROVE TrueInv
  OBVIOUS
<1>1. Typed
  BY StreamAssumption DEF Init, Typed
<1>2. ring = <<>> /\ held = <<>> /\ net = {}
  BY DEF Init
<1> QED BY <1>1, <1>2, StreamAssumption DEF TrueInv

(* One more snapshot leaves what was said of the earlier ones as it was.   *)
LEMMA EncodeSaysStill ==
  ASSUME Typed, NEW v \in View, truth' = Append(truth, v), tick' = tick + 1
  PROVE  /\ Encoded \subseteq Encoded' /\ Entry(tick + 1, v) \in Encoded'
         /\ Known \subseteq Known'
         /\ \A d : Says(d) => Says(d)'
<1>1. /\ tick \in Nat /\ Len(truth) = tick
      /\ truth'[tick + 1] = v
      /\ \A t \in 1..tick : truth'[t] = truth[t]
      /\ 1..tick \subseteq 1..tick' /\ tick + 1 \in 1..tick'
  BY DEF Typed
<1>2. Encoded \subseteq Encoded' /\ Known \subseteq Known' /\ Entry(tick + 1, v) \in Encoded'
  BY <1>1 DEF Encoded, Known
<1>3. ASSUME NEW d, Says(d) PROVE Says(d)'
  BY <1>1, <1>3 DEF Says
<1> QED BY <1>2, <1>3

LEMMA EncodeTrue ==
  ASSUME TrueInv, NEW v \in View, Encode(v)
  PROVE  TrueInv'
<1>1. /\ tick < MaxTick /\ tick' = tick + 1 /\ truth' = Append(truth, v)
      /\ ring' = PushRing(ring, Entry(tick + 1, v))
      /\ UNCHANGED <<acked, acks, held, latest, newest, inOrder>>
  BY DEF Encode, clientVars
<1>2. Typed
  BY DEF TrueInv
<1>3. sinceKeyframe' \in 0..Interval
  <2>1. CASE Deltas(v) = {}
    BY <2>1, StreamAssumption DEF Encode
  <2>2. CASE Deltas(v) # {}
    <3>1. Baseline # {}
      BY <2>2 DEF Deltas
    <3>2. sinceKeyframe < Interval
      BY <3>1 DEF Baseline
    <3>3. sinceKeyframe' = sinceKeyframe + 1
      BY <2>2 DEF Encode
    <3> QED BY <1>2, <3>2, <3>3, StreamAssumption DEF Typed
  <2> QED BY <2>1, <2>2
<1>4. Typed'
  BY <1>1, <1>2, <1>3, StreamAssumption DEF Typed
<1>5. ring' \in Seq(Encoded') /\ Len(ring') <= RingSize
  <2>1. ring \in Seq(Encoded') /\ Len(ring) <= RingSize /\ Entry(tick + 1, v) \in Encoded'
    BY <1>1, <1>2, EncodeSaysStill, SeqWider DEF TrueInv
  <2> QED BY <1>1, <2>1, PushStays
<1>6. held' \in Seq(Known') /\ Len(held') <= RingSize
  BY <1>1, <1>2, EncodeSaysStill, SeqWider DEF TrueInv
<1>7. ASSUME NEW d \in net' PROVE Says(d)'
  <2>1. PICK parts \in SUBSET SUBSET DOMAIN v :
          net' \subseteq net \cup Deltas(v) \cup PacketizeSnapshot(tick + 1, v, parts)
    BY DEF Encode
  <2>2. CASE d \in net
    BY <1>1, <1>2, <2>2, EncodeSaysStill DEF TrueInv
  <2>3. CASE d \in Deltas(v) \cup PacketizeSnapshot(tick + 1, v, parts)
    BY <1>1, <2>3, SentIsTrue
  <2> QED BY <2>1, <2>2, <2>3
<1> QED BY <1>4, <1>5, <1>6, <1>7 DEF TrueInv

LEMMA DeliverTrue ==
  ASSUME TrueInv, NEW d \in net, Deliver(d)
  PROVE  TrueInv'
<1>1. /\ UNCHANGED <<tick, ring, sinceKeyframe, acked, acks, truth>>
      /\ net' \subseteq net /\ Decode(d)
      /\ newest' \in {newest, d.tick} /\ inOrder' \in BOOLEAN
  BY DEF Deliver, serverVars, TrueInv, Typed
<1>2. Encoded' = Encoded /\ Known' = Known /\ \A e : Says(e) => Says(e)'
  BY <1>1 DEF Encoded, Known, Says
<1>3. d.tick \in 1..tick
  BY DEF TrueInv, Says
<1>4. /\ held' \in Seq(Known) /\ Len(held') <= RingSize
      /\ latest' \in 0..tick
  <2>1. CASE UNCHANGED clientVars
    BY <2>1 DEF clientVars, TrueInv, Typed
  <2>2. CASE /\ Entry(d.tick, Wire(truth[d.tick])) \in Known
             /\ Store(Entry(d.tick, Wire(truth[d.tick])))
    <3> DEFINE e == Entry(d.tick, Wire(truth[d.tick]))
    <3>1. held' = PushRing(held, e) /\ latest' \in {latest, e.tick}
      BY <2>2 DEF Store
    <3>2. e.tick = d.tick
      BY DEF Entry
    <3> HIDE DEF e
    <3>3. e \in Known
      BY <2>2 DEF e
    <3> QED BY <1>3, <3>1, <3>2, <3>3, PushStays DEF TrueInv, Typed
  <2> QED BY <1>1, <2>1, <2>2, StoredIsKnown
<1>5. Typed'
  BY <1>1, <1>3, <1>4 DEF TrueInv, Typed
<1> QED BY <1>1, <1>2, <1>4, <1>5 DEF TrueInv

LEMMA RestTrue ==
  ASSUME TrueInv,
         (\E d \in net : Lose(d)) \/ SendInput \/ (\E a \in acks : OnInput(a)) \/ UNCHANGED vars
  PROVE  TrueInv'
<1>1. UNCHANGED <<tick, ring, sinceKeyframe, clientVars, historyVars>> /\ net' \subseteq net
  BY DEF Lose, SendInput, OnInput, vars, serverVars
<1>2. acked' \in 0..tick /\ acks' \subseteq 0..tick
  BY DEF TrueInv, Typed, Lose, SendInput, OnInput, vars, serverVars
<1>3. Encoded' = Encoded /\ Known' = Known /\ \A e : Says(e) => Says(e)'
  BY <1>1 DEF Encoded, Known, Says, historyVars
<1>4. Typed'
  BY <1>1, <1>2 DEF TrueInv, Typed, clientVars, historyVars
<1> QED BY <1>1, <1>3, <1>4 DEF TrueInv, clientVars

LEMMA TrueStep == TrueInv /\ [Next]_vars => TrueInv'
BY EncodeTrue, DeliverTrue, RestTrue DEF Next

(* Every snapshot either side holds, and every one in flight, says of its  *)
(* tick what the server encoded at it.                                     *)
THEOREM SnapshotsSayTheTruth == Spec => []TrueInv
BY TrueInit, TrueStep, PTL DEF Spec

LEMMA TrueMeans == TrueInv => TypeOK /\ BaselinesTrue
<1> SUFFICES ASSUME TrueInv PROVE TypeOK /\ BaselinesTrue
  OBVIOUS
<1>1. ASSUME NEW i \in DOMAIN ring PROVE ring[i].tick \in 1..tick /\ ring[i].view \in View
  <2>1. ring[i] \in Encoded
    BY DEF TrueInv
  <2> QED BY <2>1 DEF Encoded, Entry, TrueInv, Typed
<1>2. ASSUME NEW i \in DOMAIN held
      PROVE  held[i].tick \in 1..tick /\ held[i].view = Wire(truth[held[i].tick])
  <2>1. held[i] \in Known
    BY DEF TrueInv
  <2> QED BY <2>1 DEF Known, Entry
<1> QED BY <1>1, <1>2 DEF TrueInv, Typed, Says, TypeOK, BaselinesTrue

(* The encoder, the decoder and what is in flight stay in their types, and *)
(* neither SnapshotStream.h ring outgrows SNAPSHOT_BASELINE_RING.          *)
THEOREM SnapshotsTyped == Spec => []TypeOK
BY SnapshotsSayTheTruth, TrueMeans, PTL

(* A client never rebuilds anything but what the server encoded, whatever  *)
(* is lost, duplicated or overtaken: SnapshotDelta.h's deltas never        *)
(* compound on a wrong or partial baseline.                                *)
THEOREM ClientHoldsTheTruth == Spec => []BaselinesTrue
BY SnapshotsSayTheTruth, TrueMeans, PTL

-----------------------------------------------------------------------------
(* What is remembered was held and, if it no longer is, has been pushed    *)
(* out of a full ring by newer snapshots.                                  *)
Remembered(t) == \/ t \in Ticks(held)
                 \/ Len(held) = RingSize /\ \A i \in DOMAIN held : t < held[i].tick

Whole(d) == d.kind = "full" => d.complete

RingRecent == \A i \in DOMAIN ring : ring[i].tick = tick - Len(ring) + i

OneWhole == \A d, e \in net : Whole(d) /\ Whole(e) /\ d.tick = e.tick => d = e

DeltasShort == \A d \in net : d.kind = "delta" => d.tick - d.baseline \in 1..RingSize

(* While nothing was duplicated or overtaken.                              *)
HeldSpread == /\ \A i, j \in DOMAIN held : i <= j => held[j].tick - held[i].tick >= j - i
              /\ \A i \in DOMAIN held : held[i].tick <= newest
WholeIsNew == \A d \in net : Whole(d) => d.tick \notin Ticks(held)
AcksRemembered == \A a \in acks \cup {acked, latest} : a # 0 => Remembered(a)
BaselinesRemembered == \A d \in net : d.kind = "delta" => Remembered(d.baseline)

InOrderInv == HeldSpread /\ WholeIsNew /\ AcksRemembered /\ BaselinesRemembered

OrderInv == /\ TrueInv /\ RingRecent /\ OneWhole /\ DeltasShort
            /\ inOrder => InOrderInv

LEMMA HeldTyped ==
  ASSUME TrueInv
  PROVE  /\ Len(held) \in 0..RingSize /\ DOMAIN held = 1..Len(held)
         /\ \A i \in DOMAIN held : held[i].tick \in 1..tick
<1>1. ASSUME NEW i \in DOMAIN held PROVE held[i].tick \in 1..tick
  <2>1. held[i] \in Known
    BY DEF TrueInv
  <2> QED BY <2>1 DEF Known, Entry
<1> QED BY <1>1, StreamAssumption DEF TrueInv

(* A ring pushed an entry newer than all it holds.                         *)
LEMMA PushHeld ==
  ASSUME TrueInv, HeldSpread, NEW t \in 1..tick, NEW w, Entry(t, w) \in Known,
         \A i \in DOMAIN held : held[i].tick < t,
         held' = PushRing(held, Entry(t, w))
  PROVE  /\ \A i, j \in DOMAIN held' : i <= j => held'[j].tick - held'[i].tick >= j - i
         /\ \A i \in DOMAIN held' : held'[i].tick <= t
         /\ Ticks(held') \subseteq Ticks(held) \cup {t}
         /\ Remembered(t)'
         /\ \A b \in Nat : Remembered(b) => Remembered(b)'
<1> DEFINE n == Len(held)
           o == IF n = RingSize THEN 1 ELSE 0
           m == n + 1 - o
<1>1. /\ n \in 0..RingSize /\ RingSize \in Nat \ {0} /\ t \in Nat
      /\ DOMAIN held = 1..n
      /\ \A i \in 1..n : held[i].tick \in Nat /\ held[i].tick < t
  BY HeldTyped, StreamAssumption DEF TrueInv, Typed
<1>2. /\ held' \in Seq(Known) /\ Len(held') = m /\ m \in 1..RingSize
      /\ \A k \in 1..(m - 1) : k + o \in 1..n /\ held'[k] = held[k + o]
      /\ held'[m] = Entry(t, w)
  <2> DEFINE e == Entry(t, w)
  <2>1. held \in Seq(Known) /\ Len(held) <= RingSize /\ e \in Known
    BY DEF TrueInv
  <2> HIDE DEF e
  <2>2. /\ PushRing(held, e) \in Seq(Known)
        /\ Len(PushRing(held, e)) = m
        /\ Len(PushRing(held, e)) \in 1..RingSize
        /\ \A k \in 1..(Len(PushRing(held, e)) - 1) :
             k + o \in 1..n /\ PushRing(held, e)[k] = held[k + o]
        /\ PushRing(held, e)[Len(PushRing(held, e))] = e
    BY <2>1, PushRingIs
  <2>3. held' = PushRing(held, e)
    BY DEF e
  <2>4. PushRing(held, e)[m] = e
    BY <2>2
  <2> QED BY <2>2, <2>3, <2>4 DEF e
<1>3. o \in {0, 1} /\ m - 1 = n - o /\ (o = 1 <=> n = RingSize)
  <2>1. o \in {0, 1} /\ (o = 1 <=> n = RingSize)
    OBVIOUS
  <2>2. n \in Nat
    BY <1>1
  <2> QED BY <2>1, <2>2
<1>4. /\ DOMAIN held' = 1..m
      /\ \A k \in 1..(m - 1) : k + o \in 1..n /\ held'[k].tick = held[k + o].tick
      /\ held'[m].tick = t
  BY <1>2 DEF Entry
<1>5. \A i, j \in 1..n : i <= j => held[j].tick - held[i].tick >= j - i
  BY <1>1 DEF HeldSpread
<1> HIDE DEF n, o, m
<1>6. m \in 1..RingSize /\ m \in Nat
  BY <1>1, <1>2
<1>7. ASSUME NEW i \in 1..m, NEW j \in 1..m, i <= j
      PROVE  held'[j].tick - held'[i].tick >= j - i
  <2>1. CASE j = m /\ i = m
    BY <1>1, <1>4, <1>6, <2>1
  <2>2. CASE j = m /\ i # m
    <3>1. i \in 1..(m - 1) /\ i + o \in 1..n /\ held'[i].tick = held[i + o].tick
      BY <1>4, <1>6, <2>2
    <3>2. n \in 1..n
      BY <3>1, <1>1, <1>3
    <3>3. held[n].tick - held[i + o].tick >= n - (i + o)
      BY <1>1, <1>3, <1>5, <3>1, <3>2
    <3>4. held[n].tick + 1 <= t
      BY <1>1, <3>2
    <3> QED BY <1>1, <1>3, <1>4, <1>6, <2>2, <3>1, <3>2, <3>3, <3>4
  <2>3. CASE j # m
    <3>1. i \in 1..(m - 1) /\ j \in 1..(m - 1)
      BY <1>6, <1>7, <2>3
    <3>2. held[j + o].tick - held[i + o].tick >= (j + o) - (i + o)
      BY <1>3, <1>4, <1>5, <1>7, <3>1
    <3> QED BY <1>3, <1>4, <3>1, <3>2
  <2> QED BY <2>1, <2>2, <2>3
<1>8. ASSUME NEW i \in 1..m PROVE held'[i].tick <= t /\ held'[i].tick \in {held[k].tick : k \in 1..n} \cup {t}
  <2>1. CASE i = m
    BY <1>1, <1>4, <2>1
  <2>2. CASE i # m
    <3>1. i + o \in 1..n /\ held'[i].tick = held[i + o].tick
      BY <1>4, <1>6, <2>2
    <3> QED BY <1>1, <3>1
  <2> QED BY <2>1, <2>2
<1>9. Ticks(held') \subseteq Ticks(held) \cup {t}
  BY <1>1, <1>4, <1>8 DEF Ticks
<1>10. t \in Ticks(held')
  BY <1>4, <1>6 DEF Ticks
<1>11. ASSUME NEW b \in Nat, Remembered(b) PROVE Remembered(b)'
  <2>1. CASE b \in Ticks(held) /\ b \notin Ticks(held')
    <3>1. PICK i \in 1..n : held[i].tick = b
      BY <1>1, <2>1 DEF Ticks
    <3>2. i - o \notin 1..(m - 1)
      <4>1. ASSUME i - o \in 1..(m - 1) PROVE FALSE
        <5>1. (i - o) + o = i
          BY <1>3
        <5>2. held'[i - o].tick = b /\ i - o \in 1..m
          BY <1>4, <1>6, <3>1, <4>1, <5>1
        <5> QED BY <1>4, <2>1, <5>2 DEF Ticks
      <4> QED BY <4>1
    <3>3. i = 1 /\ o = 1
      BY <1>1, <1>3, <1>6, <3>2
    <3>4. ASSUME NEW k \in 1..m PROVE b < held'[k].tick
      <4>1. CASE k = m
        BY <1>1, <1>4, <3>1, <4>1
      <4>2. CASE k # m
        <5>1. k + o \in 1..n /\ held'[k].tick = held[k + o].tick
          BY <1>4, <1>6, <4>2
        <5>2. held[k + o].tick - held[i].tick >= (k + o) - i
          BY <1>5, <3>3, <5>1
        <5> QED BY <1>1, <3>1, <3>3, <5>1, <5>2
      <4> QED BY <4>1, <4>2
    <3>5. Len(held') = RingSize
      BY <1>1, <1>2, <1>3, <1>6, <3>3
    <3> QED BY <1>4, <3>4, <3>5 DEF Remembered
  <2>2. CASE Len(held) = RingSize /\ \A i \in DOMAIN held : b < held[i].tick
    <3>1. n = RingSize /\ m = RingSize
      BY <1>1, <1>3, <1>6, <2>2 DEF n
    <3>2. b < held[1].tick /\ held[1].tick < t
      BY <1>1, <2>2, <3>1
    <3>3. ASSUME NEW k \in 1..m PROVE b < held'[k].tick
      <4>1. CASE k = m
        BY <1>1, <1>4, <3>1, <3>2, <4>1
      <4>2. CASE k # m
        <5>1. k + o \in 1..n /\ held'[k].tick = held[k + o].tick
          BY <1>4, <1>6, <4>2
        <5> QED BY <1>1, <2>2, <5>1
      <4> QED BY <4>1, <4>2
    <3> QED BY <1>2, <1>4, <3>1, <3>3 DEF Remembered
  <2> QED BY <1>11, <2>1, <2>2 DEF Remembered
<1> QED BY <1>4, <1>7, <1>8, <1>9, <1>10, <1>11 DEF Remembered

-----------------------------------------------------------------------------
LEMMA OrderInit == Init => OrderInv
<1> SUFFICES ASSUME Init PROVE OrderInv
  OBVIOUS
<1>1. TrueInv
  BY TrueInit
<1>2. RingRecent /\ OneWhole /\ DeltasShort
  BY DEF Init, RingRecent, OneWhole, DeltasShort
<1>3. InOrderInv
  BY DEF Init, InOrderInv, HeldSpread, WholeIsNew, AcksRemembered, BaselinesRemembered
<1> QED BY <1>1, <1>2, <1>3 DEF OrderInv

(* What one Encode sends: a delta, or one whole datagram, or parts.        *)
LEMMA SentShape ==
  ASSUME OrderInv, NEW v \in View, NEW parts \in SUBSET SUBSET DOMAIN v,
         NEW out, out = IF Deltas(v) # {} THEN Deltas(v)
                        ELSE PacketizeSnapshot(tick + 1, v, parts)
  PROVE  /\ \A d \in out : d.tick = tick + 1
         /\ \A d, e \in out : Whole(d) /\ Whole(e) => d = e
         /\ \A d \in out : d.kind = "delta" => /\ d.baseline = acked
                                              /\ acked # 0
                                              /\ acked \in Ticks(ring)
<1>1. CASE Deltas(v) # {}
  <2>1. \A d \in out : \E b \in Baseline : d = SnapshotDiff(b, FindInRing(ring, b), tick + 1, v)
    BY <1>1 DEF Deltas
  <2>2. \A b \in Baseline : b = acked /\ acked # 0 /\ acked \in Ticks(ring)
    BY DEF Baseline
  <2>3. \A d \in out : d = SnapshotDiff(acked, FindInRing(ring, acked), tick + 1, v)
    BY <2>1, <2>2
  <2>4. \A d \in out : d.tick = tick + 1 /\ d.baseline = acked
    BY <2>3 DEF SnapshotDiff
  <2> QED BY <2>1, <2>2, <2>3, <2>4
<1>2. CASE Deltas(v) = {} /\ Cardinality(DOMAIN v) <= PerDatagram
  <2>1. \A d \in out : d = Part(tick + 1, v, DOMAIN v, TRUE)
    BY <1>2 DEF PacketizeSnapshot
  <2>2. \A d \in out : d.kind = "full" /\ d.tick = tick + 1
    BY <2>1 DEF Part
  <2> QED BY <2>1, <2>2
<1>3. CASE Deltas(v) = {} /\ ~(Cardinality(DOMAIN v) <= PerDatagram)
  <2>1. \A d \in out : \E p \in parts : d = Part(tick + 1, v, p, FALSE)
    BY <1>3 DEF PacketizeSnapshot
  <2>2. \A d \in out : d.kind = "full" /\ d.tick = tick + 1 /\ d.complete = FALSE
    BY <2>1 DEF Part
  <2> QED BY <2>2 DEF Whole
<1> QED BY <1>1, <1>2, <1>3

LEMMA RingPushed ==
  ASSUME TrueInv, RingRecent, NEW v \in View, Encode(v)
  PROVE  RingRecent'
<1> DEFINE n == Len(ring)
           o == IF n = RingSize THEN 1 ELSE 0
           e == Entry(tick + 1, v)
           m == n + 1 - o
<1>1. /\ n \in Nat /\ n <= RingSize /\ RingSize \in Nat /\ tick \in Nat
      /\ tick' = tick + 1 /\ ring' = PushRing(ring, e)
  BY StreamAssumption DEF TrueInv, Typed, Encode
<1>2. /\ ring \in Seq(Encoded \cup {e}) /\ e \in Encoded \cup {e}
      /\ e.tick = tick + 1 /\ DOMAIN ring = 1..n
  BY SeqWider DEF TrueInv, Entry
<1> HIDE DEF e
<1>3. /\ PushRing(ring, e) \in Seq(Encoded \cup {e})
      /\ Len(PushRing(ring, e)) = m
      /\ \A k \in 1..(Len(PushRing(ring, e)) - 1) :
           k + o \in 1..n /\ PushRing(ring, e)[k] = ring[k + o]
      /\ PushRing(ring, e)[Len(PushRing(ring, e))] = e
  <2> DEFINE T == Encoded \cup {e}
  <2>1. ring \in Seq(T) /\ e \in T /\ Len(ring) <= RingSize
    BY <1>1, <1>2
  <2> HIDE DEF T
  <2>2. /\ PushRing(ring, e) \in Seq(T)
        /\ Len(PushRing(ring, e)) = m
        /\ Len(PushRing(ring, e)) \in 1..RingSize
        /\ \A k \in 1..(Len(PushRing(ring, e)) - 1) :
             k + o \in 1..n /\ PushRing(ring, e)[k] = ring[k + o]
        /\ PushRing(ring, e)[Len(PushRing(ring, e))] = e
    BY <2>1, PushRingIs
  <2> QED BY <2>2 DEF T
<1>4. /\ ring' \in Seq(Encoded \cup {e}) /\ Len(ring') = m /\ ring'[m].tick = tick + 1
      /\ \A k \in 1..(m - 1) : k + o \in 1..n /\ ring'[k] = ring[k + o]
  BY <1>1, <1>2, <1>3
<1>5. o \in {0, 1}
  OBVIOUS
<1> HIDE DEF o, n
<1>6. ASSUME NEW k \in 1..m PROVE ring'[k].tick = tick' - m + k
  <2>1. CASE k = m
    BY <1>1, <1>4, <1>5, <2>1
  <2>2. CASE k # m
    <3>1. k \in 1..(m - 1)
      BY <1>1, <1>5, <2>2
    <3>2. ring'[k].tick = tick - n + (k + o)
      BY <1>2, <1>4, <3>1 DEF RingRecent, n
    <3> QED BY <1>1, <1>5, <3>2
  <2> QED BY <2>1, <2>2
<1>7. DOMAIN ring' = 1..m
  BY <1>4
<1> QED BY <1>4, <1>6, <1>7 DEF RingRecent

LEMMA EncodeOrder ==
  ASSUME OrderInv, NEW v \in View, Encode(v)
  PROVE  OrderInv'
<1>1. TrueInv /\ TrueInv' /\ RingRecent'
  BY EncodeTrue, RingPushed DEF OrderInv
<1>2. /\ tick \in Nat /\ RingSize \in Nat \ {0} /\ Len(ring) \in 0..RingSize
      /\ \A d \in net : d.tick \in 1..tick
      /\ UNCHANGED <<acked, acks, held, latest, newest, inOrder>>
  BY <1>1, StreamAssumption DEF TrueInv, Typed, Says, Encode, clientVars
<1>3. PICK parts \in SUBSET SUBSET DOMAIN v :
        net' \subseteq net \cup (IF Deltas(v) # {} THEN Deltas(v)
                               ELSE PacketizeSnapshot(tick + 1, v, parts))
  BY DEF Encode
<1> DEFINE out == IF Deltas(v) # {} THEN Deltas(v) ELSE PacketizeSnapshot(tick + 1, v, parts)
<1>4. /\ net' \subseteq net \cup out
      /\ out = IF Deltas(v) # {} THEN Deltas(v) ELSE PacketizeSnapshot(tick + 1, v, parts)
  BY <1>3
<1> HIDE DEF out
<1>5. /\ \A d \in out : d.tick = tick + 1
      /\ \A d, e \in out : Whole(d) /\ Whole(e) => d = e
      /\ \A d \in out : d.kind = "delta" => /\ d.baseline = acked /\ acked # 0
                                           /\ acked \in Ticks(ring)
  BY <1>4, SentShape
<1>6. OneWhole'
  <2>1. SUFFICES ASSUME NEW d \in net', NEW e \in net', Whole(d), Whole(e), d.tick = e.tick
                 PROVE  d = e
    BY DEF OneWhole, Whole
  <2>2. (d \in net /\ e \in net) \/ (d \in out /\ e \in out)
    BY <1>2, <1>4, <1>5, <2>1
  <2> QED BY <1>5, <2>1, <2>2 DEF OneWhole, OrderInv
<1>7. DeltasShort'
  <2>1. SUFFICES ASSUME NEW d \in net', d.kind = "delta"
                 PROVE  d.tick - d.baseline \in 1..RingSize
    BY DEF DeltasShort
  <2>2. CASE d \in net
    BY <2>1, <2>2 DEF DeltasShort, OrderInv
  <2>3. CASE d \in out
    <3>1. d.tick = tick + 1 /\ d.baseline = acked /\ acked \in Ticks(ring)
      BY <1>5, <2>1, <2>3
    <3>2. PICK i \in DOMAIN ring : ring[i].tick = acked
      BY <3>1 DEF Ticks
    <3>3. i \in 1..Len(ring) /\ acked = tick - Len(ring) + i
      BY <1>1, <3>2 DEF TrueInv, RingRecent, OrderInv
    <3> QED BY <1>2, <3>1, <3>3
  <2> QED BY <1>4, <2>2, <2>3
<1>8. ASSUME inOrder' PROVE InOrderInv'
  <2>1. InOrderInv
    BY <1>2, <1>8 DEF OrderInv
  <2>2. HeldSpread' /\ AcksRemembered' /\ (\A t : Remembered(t) <=> Remembered(t)')
    BY <1>2, <2>1 DEF InOrderInv, HeldSpread, AcksRemembered, Remembered, Ticks
  <2>3. \A t \in Ticks(held) : t \in 1..tick
    BY <1>1, HeldTyped DEF Ticks
  <2>4. ASSUME NEW d \in net' PROVE Whole(d) => d.tick \notin Ticks(held)
    BY <1>2, <1>4, <1>5, <2>1, <2>3 DEF InOrderInv, WholeIsNew
  <2>5. WholeIsNew'
    BY <1>2, <2>4 DEF WholeIsNew, Whole, Ticks
  <2>6. BaselinesRemembered'
    BY <1>4, <1>5, <2>1, <2>2 DEF InOrderInv, BaselinesRemembered, AcksRemembered
  <2> QED BY <2>2, <2>5, <2>6 DEF InOrderInv
<1> QED BY <1>1, <1>6, <1>7, <1>8 DEF OrderInv

(* Fewer datagrams, or none the less.                                      *)
LEMMA FewerInFlight ==
  ASSUME OneWhole, DeltasShort, net' \subseteq net
  PROVE  OneWhole' /\ DeltasShort'
<1>1. OneWhole'
  <2>1. \A d, e \in net' : Whole(d) /\ Whole(e) /\ d.tick = e.tick => d = e
    BY DEF OneWhole
  <2> QED BY <2>1 DEF OneWhole, Whole
<1>2. DeltasShort'
  BY DEF DeltasShort
<1> QED BY <1>1, <1>2

(* A whole snapshot that arrives in order is newer than all that is held.  *)
LEMMA ArrivesNew ==
  ASSUME OrderInv, InOrderInv, NEW d \in net, Whole(d), newest <= d.tick
  PROVE  \A i \in DOMAIN held : held[i].tick < d.tick
<1>1. TrueInv
  BY DEF OrderInv
<1>2. d.tick \in 1..tick /\ tick \in Nat /\ newest \in Nat
  BY <1>1 DEF TrueInv, Typed, Says
<1>3. ASSUME NEW i \in DOMAIN held PROVE held[i].tick < d.tick
  <2>1. held[i].tick \in 1..tick /\ held[i].tick <= newest
    BY <1>1, HeldTyped DEF InOrderInv, HeldSpread
  <2>2. held[i].tick # d.tick
    BY DEF InOrderInv, WholeIsNew, Ticks
  <2> QED BY <1>2, <2>1, <2>2
<1> QED BY <1>3

LEMMA DeliverOrder ==
  ASSUME OrderInv, NEW d \in net, Deliver(d)
  PROVE  OrderInv'
<1>1. TrueInv /\ TrueInv'
  BY DeliverTrue DEF OrderInv
<1>2. /\ UNCHANGED <<tick, ring, acked, acks, truth>>
      /\ net' \subseteq net /\ Decode(d)
      /\ newest' = IF d.tick > newest THEN d.tick ELSE newest
      /\ inOrder' => inOrder /\ newest <= d.tick /\ net' = net \ {d}
  BY DEF Deliver, serverVars
<1>3. RingRecent' /\ OneWhole' /\ DeltasShort'
  BY <1>2, FewerInFlight DEF OrderInv, RingRecent
<1>4. ASSUME inOrder' PROVE InOrderInv'
  <2>1. InOrderInv /\ newest <= d.tick /\ net' = net \ {d}
    BY <1>2, <1>4 DEF OrderInv
  <2>2. /\ tick \in Nat /\ newest \in Nat /\ d.tick \in 1..tick /\ newest' = d.tick
        /\ acked \in Nat /\ latest \in Nat /\ \A a \in acks : a \in Nat
        /\ \A e \in net : e.kind = "delta" => e.baseline \in Nat
    BY <1>1, <1>2, <2>1 DEF TrueInv, Typed, Says
  <2>3. CASE UNCHANGED clientVars
    <3>1. UNCHANGED <<held, latest>>
      BY <2>3 DEF clientVars
    <3>2. HeldSpread'
      <4>1. \A i \in DOMAIN held : held[i].tick <= d.tick
        BY <1>1, <2>1, <2>2, HeldTyped DEF InOrderInv, HeldSpread
      <4> QED BY <2>1, <2>2, <3>1, <4>1 DEF InOrderInv, HeldSpread
    <3>3. WholeIsNew'
      BY <1>2, <2>1, <3>1 DEF InOrderInv, WholeIsNew, Whole, Ticks
    <3>4. AcksRemembered' /\ BaselinesRemembered'
      BY <1>2, <2>1, <3>1
      DEF InOrderInv, AcksRemembered, BaselinesRemembered, Remembered, Ticks
    <3> QED BY <3>2, <3>3, <3>4 DEF InOrderInv
  <2>4. CASE /\ (d.kind = "full" /\ d.complete) \/ (d.kind = "delta" /\ Decodable(d))
             /\ Entry(d.tick, Wire(truth[d.tick])) \in Known
             /\ Store(Entry(d.tick, Wire(truth[d.tick])))
    <3> DEFINE w == Wire(truth[d.tick])
    <3>1. /\ held' = PushRing(held, Entry(d.tick, w)) /\ Entry(d.tick, w) \in Known
          /\ latest' \in {latest, d.tick} /\ Whole(d)
      BY <2>4 DEF Store, Entry, Whole
    <3> HIDE DEF w
    <3>2. \A i \in DOMAIN held : held[i].tick < d.tick
      BY <2>1, <3>1, ArrivesNew
    <3>3. /\ \A i, j \in DOMAIN held' : i <= j => held'[j].tick - held'[i].tick >= j - i
          /\ \A i \in DOMAIN held' : held'[i].tick <= d.tick
          /\ Ticks(held') \subseteq Ticks(held) \cup {d.tick}
          /\ Remembered(d.tick)'
          /\ \A b \in Nat : Remembered(b) => Remembered(b)'
      BY <1>1, <2>1, <2>2, <3>1, <3>2, PushHeld DEF InOrderInv
    <3>4. HeldSpread'
      BY <2>2, <3>3 DEF HeldSpread
    <3>5. ASSUME NEW e \in net', Whole(e) PROVE e.tick \notin Ticks(held')
      <4>1. e \in net /\ e # d
        BY <2>1, <3>5
      <4>2. e.tick # d.tick
        BY <3>1, <3>5, <4>1 DEF OrderInv, OneWhole
      <4>3. e.tick \notin Ticks(held)
        BY <2>1, <3>5, <4>1 DEF InOrderInv, WholeIsNew
      <4> QED BY <3>3, <4>2, <4>3
    <3>6. WholeIsNew'
      BY <3>5 DEF WholeIsNew, Whole, Ticks
    <3>7. AcksRemembered'
      <4>1. ASSUME NEW a \in acks' \cup {acked', latest'}, a # 0 PROVE Remembered(a)'
        <5>1. CASE a = d.tick
          BY <3>3, <2>2, <5>1 DEF Remembered
        <5>2. CASE a # d.tick
          <6>1. a \in acks \cup {acked, latest}
            BY <1>2, <3>1, <5>2
          <6>2. a \in Nat /\ Remembered(a)
            BY <2>1, <2>2, <4>1, <6>1 DEF InOrderInv, AcksRemembered
          <6> QED BY <3>3, <6>2
        <5> QED BY <5>1, <5>2
      <4> QED BY <4>1 DEF AcksRemembered
    <3>8. BaselinesRemembered'
      BY <1>2, <2>1, <2>2, <3>3 DEF InOrderInv, BaselinesRemembered
    <3> QED BY <3>4, <3>6, <3>7, <3>8 DEF InOrderInv
  <2> QED BY <1>1, <1>2, <2>3, <2>4, StoredIsKnown
<1> QED BY <1>1, <1>3, <1>4 DEF OrderInv

LEMMA RestOrder ==
  ASSUME OrderInv,
         (\E d \in net : Lose(d)) \/ SendInput \/ (\E a \in acks : OnInput(a)) \/ UNCHANGED vars
  PROVE  OrderInv'
<1>1. /\ TrueInv'
      /\ UNCHANGED <<tick, ring, held, latest, newest, inOrder>> /\ net' \subseteq net
      /\ acks' \cup {acked', latest'} \subseteq acks \cup {acked, latest}
  BY RestTrue DEF OrderInv, Lose, SendInput, OnInput, vars, serverVars, clientVars, historyVars
<1>2. RingRecent' /\ OneWhole' /\ DeltasShort'
  BY <1>1, FewerInFlight DEF OrderInv, RingRecent
<1>3. ASSUME InOrderInv PROVE InOrderInv'
  <2>1. \A t : Remembered(t) <=> Remembered(t)'
    BY <1>1 DEF Remembered, Ticks
  <2>2. HeldSpread' /\ WholeIsNew'
    BY <1>1, <1>3 DEF InOrderInv, HeldSpread, WholeIsNew, Whole, Ticks
  <2>3. AcksRemembered' /\ BaselinesRemembered'
    BY <1>1, <1>3, <2>1 DEF InOrderInv, AcksRemembered, BaselinesRemembered
  <2> QED BY <2>2, <2>3 DEF InOrderInv
<1> QED BY <1>1, <1>2, <1>3 DEF OrderInv

LEMMA OrderStep == OrderInv /\ [Next]_vars => OrderInv'
BY EncodeOrder, DeliverOrder, RestOrder DEF Next

(* While nothing is duplicated or overtaken, what either side may still    *)
(* take for a baseline is held by the client, or was pushed out of its     *)
(* ring by newer snapshots, which lie a tick apart at least.               *)
THEOREM BaselinesRemain == Spec => []OrderInv
BY OrderInit, OrderStep, PTL DEF Spec

(* A baseline that was pushed out lies more than a ring's length before    *)
(* what arrives in order, and no delta reaches back that far.              *)
LEMMA InOrderDecodable ==
  ASSUME OrderInv, NEW d \in net, inOrder', Deliver(d)
  PROVE  Decodable(d)
<1> SUFFICES ASSUME d.kind = "delta", d.baseline \notin Ticks(held) PROVE FALSE
  BY DEF Decodable, OrderInv, TrueInv, Says
<1>1. InOrderInv /\ newest <= d.tick /\ TrueInv
  BY DEF OrderInv, Deliver
<1>2. /\ Len(held) = RingSize /\ \A i \in DOMAIN held : d.baseline < held[i].tick
      /\ d.baseline \in Nat /\ d.tick \in Nat /\ d.tick - d.baseline <= RingSize
  BY <1>1 DEF InOrderInv, BaselinesRemembered, Remembered, OrderInv, DeltasShort, TrueInv,
              Typed, Says
<1>3. /\ RingSize \in Nat \ {0} /\ DOMAIN held = 1..RingSize
      /\ \A i \in DOMAIN held : held[i].tick \in Nat
  BY <1>1, <1>2, HeldTyped, StreamAssumption DEF TrueInv, Typed
<1>4. held[RingSize].tick - held[1].tick >= RingSize - 1
  BY <1>1, <1>3 DEF InOrderInv, HeldSpread
<1>5. Whole(d)
  BY DEF Whole
<1>6. held[RingSize].tick < d.tick
  BY <1>1, <1>3, <1>5, ArrivesNew
<1> QED BY <1>2, <1>3, <1>4, <1>6

(* While nothing is duplicated or overtaken, every delta that arrives      *)
(* finds its baseline in the decoder's ring, however much is lost: the     *)
(* encoder's ring and the decoder's are of one size, and an acknowledged   *)
(* snapshot leaves the first before it can leave the second.               *)
THEOREM DeltasFindTheirBaseline == Spec => BaselineStillHeld
<1>1. OrderInv /\ [Next]_vars => [\A d \in net : inOrder' /\ Deliver(d) => Decodable(d)]_vars
  BY InOrderDecodable
<1> QED BY <1>1, BaselinesRemain, PTL DEF Spec, BaselineStillHeld
-----------------------------------------------------------------------------
(* The registry, with one component: the player who flies the entity.      *)

Owner == Player \cup {NoPlayer}
Tag == [of : Owner] \cup {Absent}
World ==
  [gen : [Slot -> Nat], alive : SUBSET Slot, free : Seq(Slot), size : Nat,
   pool : [Pools -> [Slot -> Tag]]]

Good(w) ==
  /\ w \in World
  /\ SlotsPartitioned(w)
  /\ \A i \in Slot : i \in w.alive <=> w.pool["owner"][i] # Absent

\* An owner is never mistaken for the absence of one.
LEMMA TagNotAbsent == \A t \in [of : Owner] : t # Absent
BY DEF Absent

\* An empty registry is in order.
LEMMA EmptyGood == Good(EmptyWorld)
<1>1. EmptyWorld \in World
  <2>1. [p \in Pools |-> [i \in Slot |-> Absent]] \in [Pools -> [Slot -> Tag]]
    BY DEF Tag
  <2>2. [i \in Slot |-> 0] \in [Slot -> Nat] /\ <<>> \in Seq(Slot) /\ 0 \in Nat
    OBVIOUS
  <2> QED BY <2>1, <2>2 DEF EmptyWorld, World
<1>2. EmptyWorld.alive = {} /\ EmptyWorld.free = <<>> /\ EmptyWorld.size = 0
  BY DEF EmptyWorld
<1>3. SlotsPartitioned(EmptyWorld)
  BY <1>2 DEF SlotsPartitioned
<1>4. \A i \in Slot : EmptyWorld.pool["owner"][i] = Absent
  BY OwnerPool DEF EmptyWorld
<1> QED BY <1>1, <1>2, <1>3, <1>4 DEF Good

\* Creating an entity takes a slot that was not alive and touches no component.
LEMMA CreateGood ==
  ASSUME NEW w, Good(w), CanCreate(w)
  PROVE  /\ Create(w) \in World
         /\ SlotsPartitioned(Create(w))
         /\ Create(w).gen = w.gen
         /\ Create(w).pool = w.pool
         /\ NextIndex(w) \in Slot
         /\ NextIndex(w) \notin w.alive
         /\ Create(w).alive = w.alive \cup {NextIndex(w)}
<1>1. /\ w \in World /\ SlotsPartitioned(w) /\ NextIndex(w) \in Slot
      /\ w.free \in Seq(Slot) /\ w.size \in Nat
  BY DEF Good, CanCreate, World
<1>2. CASE w.free = <<>>
  <2>1. NextIndex(w) = w.size
    BY <1>2 DEF NextIndex
  <2>2. /\ Create(w).alive = w.alive \cup {w.size}
        /\ Create(w).free = w.free
        /\ Create(w).size = w.size + 1
        /\ Create(w).gen = w.gen /\ Create(w).pool = w.pool
    BY <1>1, <1>2, <2>1 DEF Create, World
  <2>5. Create(w) \in World
    <3>1. w.alive \cup {w.size} \in SUBSET Slot /\ w.size + 1 \in Nat
      BY <1>1, <2>1 DEF World
    <3>2. Create(w) = [w EXCEPT !.alive = @ \cup {w.size}, !.free = @, !.size = @ + 1]
      BY <1>2, <2>1 DEF Create
    <3> QED BY <1>1, <3>1, <3>2 DEF World
  <2>3. w.size \notin w.alive
    BY <1>1, <1>2 DEF SlotsPartitioned
  <2>4. SlotsPartitioned(Create(w))
    BY <1>1, <1>2, <2>2 DEF SlotsPartitioned
  <2> QED BY <1>1, <2>1, <2>2, <2>5, <2>3, <2>4
<1>3. CASE w.free # <<>>
  <2> DEFINE n == Len(w.free)
             rest == SubSeq(w.free, 1, n - 1)
  <2>1. NextIndex(w) = w.free[n] /\ n \in Nat /\ n > 0
    BY <1>1, <1>3 DEF NextIndex
  <2>2. rest \in Seq(Slot) /\ Len(rest) = n - 1 /\ \A k \in 1 .. n - 1 : rest[k] = w.free[k]
    BY <1>1, <2>1
  <2>3. /\ Create(w).alive = w.alive \cup {w.free[n]}
        /\ Create(w).free = rest
        /\ Create(w).size = w.size
        /\ Create(w).gen = w.gen /\ Create(w).pool = w.pool
        /\ Create(w) \in World
    BY <1>1, <1>3, <2>1, <2>2 DEF Create, World
  <2>4. w.free[n] \notin w.alive
    BY <1>1, <2>1 DEF SlotsPartitioned
  <2>5. SlotsPartitioned(Create(w))
    <3> DEFINE freed == {w.free[k] : k \in DOMAIN w.free}
               left == {rest[k] : k \in DOMAIN rest}
    <3>1. DOMAIN w.free = 1 .. n /\ DOMAIN rest = 1 .. n - 1
      BY <1>1, <2>1, <2>2
    <3>2. \A j, k \in 1 .. n : w.free[j] = w.free[k] => j = k
      BY <1>1, <3>1 DEF SlotsPartitioned
    <3>3. freed = left \cup {w.free[n]} /\ w.free[n] \notin left
      BY <2>1, <2>2, <3>1, <3>2
    <3>4. w.alive \cup freed = 0 .. w.size - 1 /\ w.alive \cap freed = {}
      BY <1>1 DEF SlotsPartitioned
    <3>5. \A j, k \in DOMAIN rest : rest[j] = rest[k] => j = k
      BY <2>1, <2>2, <3>1, <3>2
    <3>6. Create(w).alive \cup left = 0 .. w.size - 1 /\ Create(w).alive \cap left = {}
      BY <2>3, <3>3, <3>4
    <3> HIDE DEF rest
    <3> QED BY <2>3, <3>5, <3>6 DEF SlotsPartitioned
  <2> QED BY <1>1, <2>1, <2>3, <2>4, <2>5
<1> QED BY <1>2, <1>3

\* x has w's living entities, with their generations and components.
Keeps(w, x, S) ==
  \A i \in S : i \in x.alive /\ x.gen[i] = w.gen[i] /\ x.pool["owner"][i] = w.pool["owner"][i]

\* An entity that joins gets a slot of its own and leaves every other alone.
LEMMA JoinedGood ==
  ASSUME NEW w, Good(w), CanCreate(w), NEW p \in Owner
  PROVE  LET x == Joined(w, p)
             i == NextIndex(w)
         IN  /\ Good(x) /\ Keeps(w, x, w.alive)
             /\ NewId(w) = [index |-> i, gen |-> w.gen[i]] /\ NewId(w) \in EntityId
             /\ i \in Slot /\ i \notin w.alive /\ x.alive = w.alive \cup {i}
             /\ IsValid(x, NewId(w)) /\ x.pool["owner"][i] = [of |-> p]
<1> DEFINE y == Create(w)
           i == NextIndex(w)
           c == [of |-> p]
           f == [y.pool["owner"] EXCEPT ![i] = c]
           x == Joined(w, p)
<1>1. /\ w \in World /\ y \in World /\ SlotsPartitioned(y)
      /\ y.gen = w.gen /\ y.pool = w.pool
      /\ i \in Slot /\ i \notin w.alive /\ y.alive = w.alive \cup {i}
  BY CreateGood DEF Good
<1>2. "owner" \in Pools /\ c \in [of : Owner] /\ c # Absent /\ y.pool["owner"] \in [Slot -> Tag]
  BY <1>1, OwnerPool, TagNotAbsent DEF World
<1>3. /\ f \in [Slot -> Tag]
      /\ f[i] = c /\ \A j \in Slot \ {i} : f[j] = w.pool["owner"][j]
  BY <1>1, <1>2 DEF Good, Tag
<1>4. x = [y EXCEPT !.pool["owner"] = f]
  BY <1>1, <1>2 DEF Joined, CreateWith, Add, NewId, World
<1>5. [y.pool EXCEPT !["owner"] = f] \in [Pools -> [Slot -> Tag]]
  BY <1>1, <1>3 DEF World
<1>6. /\ x \in World /\ x.gen = w.gen /\ x.alive = w.alive \cup {i}
      /\ x.free = y.free /\ x.size = y.size /\ x.pool["owner"] = f
  <2> HIDE DEF f, y, i
  <2> QED BY <1>1, <1>2, <1>4, <1>5 DEF World
<1>7. SlotsPartitioned(x)
  BY <1>1, <1>6 DEF SlotsPartitioned
<1>8. \A j \in Slot : j \in x.alive <=> f[j] # Absent
  BY <1>1, <1>2, <1>3, <1>6 DEF Good
<1>9. Good(x)
  BY <1>3, <1>6, <1>7, <1>8 DEF Good
<1>10. Keeps(w, x, w.alive)
  <2>1. \A j \in w.alive : j \in Slot \ {i}
    BY <1>1 DEF World
  <2> HIDE DEF x, f, i
  <2> QED BY <1>3, <1>6, <2>1 DEF Keeps
<1>11. NewId(w) = [index |-> i, gen |-> w.gen[i]] /\ NewId(w) \in EntityId
  BY <1>1 DEF NewId, EntityId, World
<1>12. IsValid(x, NewId(w)) /\ x.pool["owner"][i] = c
  <2>1. NewId(w).index = i /\ NewId(w).gen = w.gen[i]
    BY <1>11
  <2> HIDE DEF x, f
  <2> QED BY <1>1, <1>3, <1>6, <2>1 DEF IsValid
<1> QED BY <1>1, <1>6, <1>9, <1>10, <1>11, <1>12

\* Destroying frees the one slot, under a new generation.
LEMMA DestroyGood ==
  ASSUME NEW w, Good(w), NEW e, IsValid(w, e)
  PROVE  LET x == Destroy(w, e) IN
         /\ Good(x) /\ e.index \in Slot
         /\ x.alive = w.alive \ {e.index}
         /\ Keeps(w, x, x.alive)
<1> DEFINE x == Destroy(w, e)
           i == e.index
           p == [q \in Pools |-> [w.pool[q] EXCEPT ![i] = Absent]]
           free == Append(w.free, i)
<1>1. /\ w \in World /\ SlotsPartitioned(w) /\ "owner" \in Pools
      /\ w.free \in Seq(Slot) /\ w.size \in Nat /\ w.alive \subseteq Slot
      /\ w.gen \in [Slot -> Nat] /\ w.pool \in [Pools -> [Slot -> Tag]]
  BY OwnerPool DEF Good, World
<1>2. i \in w.alive /\ i \in Slot /\ w.gen[i] = e.gen
  BY <1>1 DEF IsValid
<1>3. p \in [Pools -> [Slot -> Tag]]
  BY <1>1 DEF Tag
<1>4. p["owner"][i] = Absent /\ \A j \in Slot \ {i} : p["owner"][j] = w.pool["owner"][j]
  BY <1>1, <1>2
<1>5. free \in Seq(Slot) /\ [w.gen EXCEPT ![i] = @ + 1] \in [Slot -> Nat]
  BY <1>1, <1>2
<1>6. x = [w EXCEPT !.pool = p, !.alive = @ \ {i}, !.gen[i] = @ + 1, !.free = free]
  BY DEF Destroy
<1>7. /\ x \in World /\ x.alive = w.alive \ {i} /\ x.size = w.size
      /\ x.free = free /\ x.pool = p /\ x.gen = [w.gen EXCEPT ![i] = @ + 1]
  <2> HIDE DEF p, free, i, x
  <2> QED BY <1>1, <1>3, <1>5, <1>6 DEF World
<1>8. SlotsPartitioned(x)
  <2> DEFINE n == Len(w.free)
             freed == {w.free[k] : k \in DOMAIN w.free}
  <2>1. /\ n \in Nat /\ DOMAIN w.free = 1 .. n /\ DOMAIN free = 1 .. n + 1
        /\ free[n + 1] = i /\ \A k \in 1 .. n : free[k] = w.free[k]
    BY <1>1, <1>2
  <2>2. {free[k] : k \in DOMAIN free} = freed \cup {i}
    <3> HIDE DEF free
    <3> QED BY <2>1
  <2>3. w.alive \cup freed = 0 .. w.size - 1 /\ w.alive \cap freed = {} /\ i \notin freed
    BY <1>1, <1>2 DEF SlotsPartitioned
  <2>4. \A j, k \in 1 .. n : w.free[j] = w.free[k] => j = k
    BY <1>1, <2>1 DEF SlotsPartitioned
  <2>5. \A j, k \in DOMAIN free : free[j] = free[k] => j = k
    <3> HIDE DEF free
    <3> QED BY <2>1, <2>3, <2>4
  <2>6. /\ x.alive \cup (freed \cup {i}) = 0 .. x.size - 1
        /\ x.alive \cap (freed \cup {i}) = {}
    BY <1>2, <1>7, <2>3
  <2> HIDE DEF free, x, freed
  <2> QED BY <1>7, <2>2, <2>5, <2>6 DEF SlotsPartitioned
<1>9. \A j \in Slot : j \in x.alive <=> x.pool["owner"][j] # Absent
  BY <1>1, <1>2, <1>4, <1>7 DEF Good
<1>10. Good(x)
  BY <1>7, <1>8, <1>9 DEF Good
<1>11. Keeps(w, x, x.alive)
  <2>1. \A j \in x.alive : j \in Slot \ {i}
    BY <1>1, <1>7
  <2>2. \A j \in Slot \ {i} : x.gen[j] = w.gen[j] /\ x.pool["owner"][j] = w.pool["owner"][j]
    BY <1>1, <1>2, <1>4, <1>7
  <2> QED BY <2>1, <2>2 DEF Keeps
<1> QED BY <1>2, <1>7, <1>10, <1>11

-----------------------------------------------------------------------------
(* Lists: induction over them, and what a fold makes of one.               *)

\* Induction, for a set: one that holds 0 and, below n, each successor.
LEMMA UpTo ==
  ASSUME NEW n \in Nat, NEW S, 0 \in S, \A k \in 0 .. n - 1 : k \in S => k + 1 \in S
  PROVE  \A k \in 0 .. n : k \in S
<1> DEFINE T == {k \in 0 .. n : k \notin S}
<1>1. SUFFICES ASSUME T # {} PROVE FALSE
  OBVIOUS
<1>2. T \in SUBSET Nat
  OBVIOUS
<1>3. PICK k \in T : \A m \in T : k <= m
  <2> HIDE DEF T
  <2> QED BY <1>1, <1>2, Least
<1>4. k # 0 /\ k - 1 \in 0 .. n - 1 /\ k - 1 \notin T
  BY <1>3
<1>5. k - 1 \in S /\ (k - 1) + 1 = k
  BY <1>4
<1> QED BY <1>3, <1>4, <1>5

LEMMA MaxIs ==
  ASSUME NEW k \in Nat, NEW s \in SUBSET (1 .. k + 1), k + 1 \in s
  PROVE  Seqs!Max(s) = k + 1
<1>1. \A x \in s : k + 1 >= x
  OBVIOUS
<1>2. \A x \in s : (\A y \in s : x >= y) => x = k + 1
  OBVIOUS
<1> QED BY <1>1, <1>2 DEF Seqs!Max

\* The fold of a handler over the first k positions of q looks up, for every set
\* of positions, the outcome of the others and then of the last: h tells whether
\* it is the client's handler of events or the registry's Destroy.
Step(h, c, m) == IF h = "event" THEN Handled(c, m) ELSE Destroy(c, m)

Unfolded(h, f, c, q, k) ==
  f = [s \in SUBSET (1 .. k) |-> IF s = {} THEN c ELSE Step(h, f[s \ {Seqs!Max(s)}], q[Seqs!Max(s)])]

LEMMA UnfoldedExists ==
  ASSUME NEW h, NEW c, NEW q, NEW n \in Nat
  PROVE  \E f : Unfolded(h, f, c, q, n)
<1> DEFINE S == {k \in Nat : \E f : Unfolded(h, f, c, q, k)}
<1>1. 0 \in S
  <2> DEFINE f == [s \in SUBSET (1 .. 0) |-> c]
  <2>1. f = [s \in SUBSET (1 .. 0) |-> IF s = {} THEN c ELSE Step(h, f[s \ {Seqs!Max(s)}], q[Seqs!Max(s)])]
    <3>1. \A s \in SUBSET (1 .. 0) : s = {}
      OBVIOUS
    <3> HIDE DEF f
    <3>2. f = [s \in SUBSET (1 .. 0) |-> c]
      BY DEF f
    <3> QED BY <3>1, <3>2
  <2> QED BY <2>1 DEF Unfolded
<1>2. ASSUME NEW k \in 0 .. n - 1, k \in S PROVE k + 1 \in S
  <2>1. PICK f : Unfolded(h, f, c, q, k)
    BY <1>2
  <2> DEFINE g == [s \in SUBSET (1 .. k + 1) |->
                     IF s \in SUBSET (1 .. k) THEN f[s] ELSE Step(h, f[s \ {k + 1}], q[k + 1])]
  <2>2. ASSUME NEW s \in SUBSET (1 .. k + 1)
        PROVE  g[s] = IF s = {} THEN c ELSE Step(h, g[s \ {Seqs!Max(s)}], q[Seqs!Max(s)])
    <3>1. CASE s \in SUBSET (1 .. k)
      <4>1. s \ {Seqs!Max(s)} \in SUBSET (1 .. k) /\ s \ {Seqs!Max(s)} \in SUBSET (1 .. k + 1)
        BY <3>1
      <4>2. g[s] = f[s] /\ g[s \ {Seqs!Max(s)}] = f[s \ {Seqs!Max(s)}]
        BY <3>1, <4>1
      <4>3. f[s] = IF s = {} THEN c ELSE Step(h, f[s \ {Seqs!Max(s)}], q[Seqs!Max(s)])
        BY <2>1, <3>1 DEF Unfolded
      <4> QED BY <4>2, <4>3
    <3>2. CASE s \notin SUBSET (1 .. k)
      <4>1. k + 1 \in s /\ s # {}
        BY <3>2
      <4>2. Seqs!Max(s) = k + 1
        BY <4>1, MaxIs
      <4>3. s \ {k + 1} \in SUBSET (1 .. k) /\ s \ {k + 1} \in SUBSET (1 .. k + 1)
        OBVIOUS
      <4>4. g[s] = Step(h, f[s \ {k + 1}], q[k + 1]) /\ g[s \ {k + 1}] = f[s \ {k + 1}]
        BY <3>2, <4>3
      <4> QED BY <4>1, <4>2, <4>4
    <3> QED BY <3>1, <3>2
  <2>3. Unfolded(h, g, c, q, k + 1)
    <3>1. g = [s \in SUBSET (1 .. k + 1) |-> g[s]]
      OBVIOUS
    <3> HIDE DEF g
    <3> QED BY <2>2, <3>1 DEF Unfolded
  <2> QED BY <2>3
<1>3. n \in S
  <2> HIDE DEF S
  <2> QED BY <1>1, <1>2, UpTo
<1> QED BY <1>3

Folded(h, c, q) == Seqs!FoldLeft(LAMBDA x, y : Step(h, x, y), c, q)

\* g[k] is what the first k elements of q make of c.
OneByOne(h, g, c, q, n) ==
  g[0] = c /\ \A k \in 0 .. n - 1 : g[k + 1] = Step(h, g[k], q[k + 1])

\* Folding a handler over a list is handling its elements one by one.
LEMMA FoldedOneByOne ==
  ASSUME NEW h, NEW c, NEW q, NEW n \in Nat, DOMAIN q = 1 .. n
  PROVE  \E g : OneByOne(h, g, c, q, n) /\ Folded(h, c, q) = g[n]
<1> DEFINE F == CHOOSE f : f = [s \in SUBSET (1 .. n) |->
                  IF s = {} THEN c ELSE Step(h, f[s \ {Seqs!Max(s)}], q[Seqs!Max(s)])]
<1>1. Folded(h, c, q) = F[1 .. n]
  BY DEF Folded, Seqs!FoldLeft, Seqs!MapThenFoldSet
<1>2. Unfolded(h, F, c, q, n)
  <2> DEFINE P(f) == f = [s \in SUBSET (1 .. n) |->
                            IF s = {} THEN c ELSE Step(h, f[s \ {Seqs!Max(s)}], q[Seqs!Max(s)])]
  <2>1. \E f : P(f)
    <3>1. PICK f : Unfolded(h, f, c, q, n)
      BY UnfoldedExists
    <3>2. P(f)
      BY <3>1 DEF Unfolded
    <3> QED BY <3>2
  <2>2. F = CHOOSE f : P(f)
    OBVIOUS
  <2> HIDE DEF P, F
  <2>3. P(F)
    BY <2>1, <2>2, Zenon
  <2> QED BY <2>3 DEF P, Unfolded
<1> HIDE DEF F
<1> DEFINE g == [k \in 0 .. n |-> F[1 .. k]]
<1>3. g[0] = c
  <2>1. 1 .. 0 = {} /\ 1 .. 0 \in SUBSET (1 .. n)
    OBVIOUS
  <2> QED BY <1>2, <2>1 DEF Unfolded
<1>4. ASSUME NEW k \in 0 .. n - 1 PROVE g[k + 1] = Step(h, g[k], q[k + 1])
  <2>1. /\ 1 .. k + 1 \in SUBSET (1 .. n) /\ 1 .. k + 1 # {} /\ k + 1 \in 1 .. k + 1
        /\ (1 .. k + 1) \ {k + 1} = 1 .. k /\ k \in Nat
    OBVIOUS
  <2>2. Seqs!Max(1 .. k + 1) = k + 1
    BY <2>1, MaxIs
  <2>3. F[1 .. k + 1] = Step(h, F[1 .. k], q[k + 1])
    BY <1>2, <2>1, <2>2 DEF Unfolded
  <2> QED BY <2>3
<1>5. Folded(h, c, q) = g[n]
  BY <1>1
<1> HIDE DEF g
<1>6. OneByOne(h, g, c, q, n)
  BY <1>3, <1>4 DEF OneByOne
<1> QED BY <1>5, <1>6

\* The two folds of the model.
HandledAll(c, q) == Seqs!FoldLeft(Handled, c, q)

LEMMA HandledAllIs ==
  ASSUME NEW c, NEW q PROVE HandledAll(c, q) = Folded("event", c, q)
BY DEF HandledAll, Folded, Step, Seqs!FoldLeft, Seqs!MapThenFoldSet

LEMMA DestroyAllIs ==
  ASSUME NEW w, NEW q PROVE DestroyAll(w, q) = Folded("ship", w, q)
BY DEF DestroyAll, Folded, Step, Seqs!FoldLeft, Seqs!MapThenFoldSet

\* Several living entities destroyed one after the other.
LEMMA AllDestroyed ==
  ASSUME NEW w, Good(w), NEW q, NEW n \in Nat, DOMAIN q = 1 .. n,
         \A k \in 1 .. n : IsValid(w, q[k])
  PROVE  LET x == DestroyAll(w, q) IN
         /\ Good(x) /\ Keeps(w, x, x.alive)
         /\ x.alive = w.alive \ {q[k].index : k \in 1 .. n}
<1>1. PICK g : OneByOne("ship", g, w, q, n) /\ DestroyAll(w, q) = g[n]
  BY FoldedOneByOne, DestroyAllIs
<1>2. g[0] = w /\ \A k \in 0 .. n - 1 : g[k + 1] = Destroy(g[k], q[k + 1])
  BY <1>1 DEF OneByOne, Step
<1> DEFINE P(k) == /\ Good(g[k]) /\ Keeps(w, g[k], g[k].alive)
                   /\ g[k].alive = w.alive \ {q[j].index : j \in 1 .. k}
           S == {k \in 0 .. n : P(k)}
<1>3. 0 \in S
  BY <1>2 DEF Keeps
<1>4. ASSUME NEW k \in 0 .. n - 1, k \in S PROVE k + 1 \in S
  <2> DEFINE e == q[k + 1]
             v == g[k]
             x == Destroy(v, e)
             gone == {q[j].index : j \in 1 .. k}
  <2>1. /\ k + 1 \in 1 .. n /\ k + 1 \in 0 .. n /\ g[k + 1] = x /\ IsValid(w, e)
        /\ {q[j].index : j \in 1 .. k + 1} = gone \cup {e.index}
    BY <1>2
  <2>2. Good(v) /\ Keeps(w, v, v.alive) /\ v.alive = w.alive \ gone
    BY <1>4
  <2> HIDE DEF e, v, gone, P
  <2>3. CASE IsValid(v, e)
    <3>1. Good(x) /\ x.alive = v.alive \ {e.index} /\ Keeps(v, x, x.alive)
      BY <2>2, <2>3, DestroyGood
    <3>2. Keeps(w, x, x.alive)
      BY <2>2, <3>1 DEF Keeps
    <3>3. x.alive = w.alive \ (gone \cup {e.index})
      BY <2>2, <3>1
    <3> HIDE DEF x
    <3> QED BY <2>1, <3>1, <3>2, <3>3 DEF P
  <2>4. CASE ~IsValid(v, e)
    <3>1. x = v
      BY <2>4 DEF Destroy
    <3>2. e.index \notin v.alive
      BY <2>1, <2>2, <2>4 DEF IsValid, Keeps
    <3>3. v.alive = w.alive \ (gone \cup {e.index})
      BY <2>2, <3>2
    <3> HIDE DEF x
    <3> QED BY <2>1, <2>2, <3>1, <3>3 DEF P
  <2> QED BY <2>3, <2>4
<1>5. n \in S
  <2> HIDE DEF P, S
  <2>1. \A k \in 0 .. n - 1 : k \in S => k + 1 \in S
    BY <1>4
  <2>2. \A k \in 0 .. n : k \in S
    BY <1>3, <2>1, UpTo
  <2> QED BY <2>2
<1> QED BY <1>1, <1>5

-----------------------------------------------------------------------------
(* What the client's handlers make of the events that have come.           *)

Event == {m \in [msg : {"info", "death", "despawn"}, id : Slot, who : Owner] :
            m.msg # "info" => m.who = NoPlayer}
Client(U) == [history : [Slot -> U], roster : [Slot -> Owner], lock : Slot \cup {NoSlot}]

\* An event writes the one slot it is about, and the end of a ship lets it go.
LEMMA HandledIs ==
  ASSUME NEW U, Unheard \in U, NEW c \in Client(U), NEW m \in Event
  PROVE  LET x == Handled(c, m) IN
         /\ x \in Client(U)
         /\ x.roster[m.id] = m.who /\ \A i \in Slot \ {m.id} : x.roster[i] = c.roster[i]
         /\ x.lock = IF m.msg # "info" /\ c.lock = m.id THEN NoSlot ELSE c.lock
<1>1. /\ m.id \in Slot /\ m.who \in Owner /\ NoPlayer \in Owner
      /\ m.msg # "info" => m.who = NoPlayer
  BY DEF Event, Owner
<1>2. CASE m.msg = "info"
  <2>1. [c.roster EXCEPT ![m.id] = m.who] \in [Slot -> Owner]
    BY <1>1 DEF Client
  <2>2. Handled(c, m) = [c EXCEPT !.roster = [c.roster EXCEPT ![m.id] = m.who]]
    BY <1>2 DEF Handled, Client
  <2> QED BY <1>1, <1>2, <2>1, <2>2 DEF Client
<1>3. CASE m.msg # "info"
  <2>1. /\ [c.roster EXCEPT ![m.id] = NoPlayer] \in [Slot -> Owner]
        /\ [c.history EXCEPT ![m.id] = Unheard] \in [Slot -> U]
    BY <1>1 DEF Client
  <2>2. Handled(c, m) = Forget(c, m.id)
    BY <1>3 DEF Handled
  <2> QED BY <1>1, <1>3, <2>1, <2>2 DEF Client, Forget
<1> QED BY <1>2, <1>3

\* k is the last position of q that is about its slot, as far as position n.
LastOf(q, k, n) == \A j \in 1 .. n : j > k => q[j].id # q[k].id
NoneOf(q, i, n) == \A j \in 1 .. n : q[j].id # i

\* Of several events about a slot the last one counts; any end of the locked ship
\* lets it go.
LEMMA EventsHandled ==
  ASSUME NEW U, Unheard \in U, NEW c \in Client(U), NEW q, NEW n \in Nat, DOMAIN q = 1 .. n,
         \A k \in 1 .. n : q[k] \in Event
  PROVE  LET x == HandledAll(c, q) IN
         /\ x \in Client(U)
         /\ \A i \in Slot : NoneOf(q, i, n) => x.roster[i] = c.roster[i]
         /\ \A k \in 1 .. n : LastOf(q, k, n) => x.roster[q[k].id] = q[k].who
         /\ x.lock \in {c.lock, NoSlot}
         /\ \A k \in 1 .. n : q[k].msg # "info" /\ q[k].id = c.lock => x.lock = NoSlot
<1>1. PICK g : OneByOne("event", g, c, q, n) /\ HandledAll(c, q) = g[n]
  BY FoldedOneByOne, HandledAllIs
<1>2. g[0] = c /\ \A k \in 0 .. n - 1 : g[k + 1] = Handled(g[k], q[k + 1])
  BY <1>1 DEF OneByOne, Step
<1> DEFINE P(k) == /\ g[k] \in Client(U)
                   /\ \A i \in Slot : NoneOf(q, i, k) => g[k].roster[i] = c.roster[i]
                   /\ \A j \in 1 .. k : LastOf(q, j, k) => g[k].roster[q[j].id] = q[j].who
                   /\ g[k].lock \in {c.lock, NoSlot}
                   /\ \A j \in 1 .. k : q[j].msg # "info" /\ q[j].id = c.lock => g[k].lock = NoSlot
           S == {k \in 0 .. n : P(k)}
<1>3. 0 \in S
  BY <1>2
<1>4. ASSUME NEW k \in 0 .. n - 1, k \in S PROVE k + 1 \in S
  <2> DEFINE m == q[k + 1]
             v == g[k]
             x == g[k + 1]
  <2>1. k + 1 \in 1 .. n /\ k + 1 \in 0 .. n /\ m \in Event /\ x = Handled(v, m)
    BY <1>2
  <2>2. P(k)
    BY <1>4
  <2>3. v \in Client(U)
    BY <2>2
  <2>4. /\ x \in Client(U)
        /\ x.roster[m.id] = m.who /\ \A i \in Slot \ {m.id} : x.roster[i] = v.roster[i]
        /\ x.lock = IF m.msg # "info" /\ v.lock = m.id THEN NoSlot ELSE v.lock
    <3> HIDE DEF m, v, x
    <3> QED BY <2>1, <2>3, HandledIs
  <2> HIDE DEF x, v
  <2>5. ASSUME NEW i \in Slot, NoneOf(q, i, k + 1) PROVE x.roster[i] = c.roster[i]
    <3>1. NoneOf(q, i, k) /\ m.id # i
      BY <2>1, <2>5 DEF NoneOf
    <3> QED BY <2>2, <2>4, <3>1 DEF v
  <2>6. ASSUME NEW j \in 1 .. k + 1, LastOf(q, j, k + 1) PROVE x.roster[q[j].id] = q[j].who
    <3>1. CASE j = k + 1
      BY <2>4, <3>1
    <3>2. CASE j # k + 1
      <4>1. j \in 1 .. k /\ LastOf(q, j, k) /\ q[j].id # m.id
        BY <2>6, <3>2 DEF LastOf
      <4>2. q[j].id \in Slot
        BY <4>1 DEF Event
      <4>3. v.roster[q[j].id] = q[j].who
        BY <2>2, <4>1 DEF v
      <4> HIDE DEF m
      <4> QED BY <2>4, <4>1, <4>2, <4>3
    <3> QED BY <3>1, <3>2
  <2>7. x.lock \in {c.lock, NoSlot}
    BY <2>2, <2>4 DEF v
  <2>8. ASSUME NEW j \in 1 .. k + 1, q[j].msg # "info", q[j].id = c.lock PROVE x.lock = NoSlot
    <3>1. v.lock \in {c.lock, NoSlot}
      BY <2>2 DEF v
    <3>2. CASE j = k + 1
      BY <2>4, <2>8, <3>1, <3>2
    <3>3. CASE j # k + 1
      <4>1. j \in 1 .. k
        BY <3>3
      <4>2. v.lock = NoSlot
        BY <2>2, <2>8, <4>1 DEF v
      <4> QED BY <2>4, <4>2
    <3> QED BY <3>2, <3>3
  <2>9. P(k + 1)
    BY <2>4, <2>5, <2>6, <2>7, <2>8 DEF x
  <2> QED BY <2>1, <2>9
<1>5. n \in S
  <2> HIDE DEF P, S
  <2>1. \A k \in 0 .. n - 1 : k \in S => k + 1 \in S
    BY <1>4
  <2>2. \A k \in 0 .. n : k \in S
    BY <1>3, <2>1, UpTo
  <2> QED BY <2>2
<1> QED BY <1>1, <1>5

-----------------------------------------------------------------------------
(* The inductive invariant.                                                *)

\* p's ship is alive and is tagged as p's.
Flies(w, sh, p) == IsValid(w, sh[p]) /\ w.pool["owner"][sh[p].index] = [of |-> p]

Fleet(w, sh) ==
  /\ sh \in [Player -> EntityId \cup {NoEntity}]
  /\ \A p \in Player : sh[p] # NoEntity => Flies(w, sh, p)
ShipsOK == Fleet(world, ship)

\* A ship that may be reaped was there after the last tick, so that its end is told.
PreviousOK ==
  /\ previous \subseteq Slot
  /\ \A p \in Player \ seen : ship[p] # NoEntity => ship[p].index \in previous
  /\ phase = "publish" => previous = world.alive

TypesOK ==
  /\ lane \in Seq(Event) /\ linked \in BOOLEAN
  /\ roster \in [Slot -> Owner] /\ lock \in Slot \cup {NoSlot}
  /\ history = [i \in Slot |-> history[i]]

\* Without a session Me has heard nothing.
OutsideOK ==
  ~linked => /\ ship[Me] = NoEntity /\ lane = <<>> /\ snaps = {} /\ picked = NoPick
             /\ \A i \in Slot : history[i] = Unheard /\ roster[i] = NoPlayer

\* v may be the name at slot i: nobody is named where another or nobody flies,
\* and once Me flies whoever is there is named.
OkAt(sh, i, v) ==
  /\ v # NoPlayer => sh[v].index = i
  /\ sh[Me] # NoEntity => \A p \in Player : sh[p].index = i => v = p

\* The last word on every slot, in q or else in the roster r, is right.
Reads(sh, q, r) ==
  /\ \A i \in Slot : NoneOf(q, i, Len(q)) => OkAt(sh, i, r[i])
  /\ \A k \in 1 .. Len(q) : LastOf(q, k, Len(q)) => OkAt(sh, q[k].id, q[k].who)
RosterOK == Reads(ship, lane, roster)

\* The picked ship p is still there, its player's; or its end is in q.
Held(w, p) == IsValid(w, p.ship) /\ w.pool["owner"][p.ship.index] = [of |-> p.of]
Ends(q, i) == \E k \in 1 .. Len(q) : q[k].msg # "info" /\ q[k].id = i
LockOK ==
  /\ picked # NoPick => lock = picked.ship.index /\ lock \in Slot
  /\ picked.of # NoPlayer => Held(world, picked) \/ Ends(lane, picked.ship.index)

ViewInv ==
  Good(world) /\ ShipsOK /\ PreviousOK /\ TypesOK /\ OutsideOK /\ RosterOK /\ LockOK

\* No slot is none.
LEMMA NoSlotIs == NoSlot \notin Slot /\ NoEntity.index = NoSlot /\ NoEntity \notin EntityId
BY BoundsAssumption DEF NoSlot, Slot, NoEntity, EntityId

\* A player in a ship has a slot, and it is nobody else's.
LEMMA FleetApart ==
  ASSUME NEW w, NEW sh, Good(w), Fleet(w, sh)
  PROVE  /\ \A p \in Player : sh[p] # NoEntity =>
              /\ sh[p] \in EntityId /\ sh[p].index \in w.alive /\ sh[p].index \in Slot
              /\ w.gen[sh[p].index] = sh[p].gen
         /\ \A p \in Player : sh[p] = NoEntity => sh[p].index \notin Slot
         /\ \A p, q \in Player : sh[p].index \in Slot /\ sh[p].index = sh[q].index => p = q
<1>1. ASSUME NEW p \in Player, sh[p] # NoEntity
      PROVE  /\ sh[p] \in EntityId /\ sh[p].index \in w.alive /\ sh[p].index \in Slot
             /\ w.gen[sh[p].index] = sh[p].gen
  <2>1. sh[p] \in EntityId
    BY <1>1 DEF Fleet
  <2>2. IsValid(w, sh[p])
    BY <1>1 DEF Fleet, Flies
  <2>3. w.alive \subseteq Slot
    BY DEF Good, World
  <2> QED BY <2>1, <2>2, <2>3 DEF IsValid
<1>2. \A p \in Player : sh[p] = NoEntity => sh[p].index \notin Slot
  BY NoSlotIs
<1>3. ASSUME NEW p \in Player, NEW q \in Player, sh[p].index \in Slot, sh[p].index = sh[q].index
      PROVE  p = q
  <2>1. sh[p] # NoEntity /\ sh[q] # NoEntity
    BY <1>2, <1>3
  <2>2. [of |-> p] = [of |-> q]
    BY <1>3, <2>1 DEF Fleet, Flies
  <2>3. [of |-> p].of = p /\ [of |-> q].of = q
    OBVIOUS
  <2> QED BY <2>2, <2>3
<1> QED BY <1>1, <1>2, <1>3

LEMMA ShipsApart ==
  ASSUME Good(world), ShipsOK
  PROVE  /\ \A p \in Player : ship[p] # NoEntity =>
              /\ ship[p] \in EntityId /\ ship[p].index \in world.alive /\ ship[p].index \in Slot
              /\ world.gen[ship[p].index] = ship[p].gen
         /\ \A p \in Player : ship[p] = NoEntity => ship[p].index \notin Slot
         /\ \A p, q \in Player : ship[p].index \in Slot /\ ship[p].index = ship[q].index => p = q
BY FleetApart DEF ShipsOK

\* Where something flies that is no player's, no player does.
LEMMA NobodyThere ==
  ASSUME Good(world), ShipsOK, NEW e \in Unowned
  PROVE  /\ IsValid(world, e) /\ e.index \in Slot /\ e.index \in world.alive
         /\ world.pool["owner"][e.index].of = NoPlayer
         /\ \A p \in Player : ship[p].index # e.index
<1>1. PICK i \in world.alive : e = [index |-> i, gen |-> world.gen[i]]
  BY DEF Unowned, Living, LiveEntity
<1>2. IsValid(world, e) /\ e.index \in Slot /\ e.index = i
  BY <1>1 DEF IsValid, Good, World
<1>3. world.pool["owner"][e.index].of = NoPlayer
  BY DEF Unowned, Get
<1>4. ASSUME NEW p \in Player, ship[p].index = e.index PROVE FALSE
  <2>1. ship[p] # NoEntity
    BY <1>2, <1>4, ShipsApart
  <2>2. world.pool["owner"][e.index] = [of |-> p]
    BY <1>4, <2>1 DEF ShipsOK, Fleet, Flies
  <2> QED BY <1>3, <2>2, MeAssumption
<1> QED BY <1>1, <1>2, <1>3, <1>4

\* Whoever's slot is left alone keeps flying, and so does the ship that is picked.
LEMMA FliesOn ==
  ASSUME NEW w, NEW x, NEW S, Keeps(w, x, S), NEW sh, NEW p, Flies(w, sh, p), sh[p].index \in S
  PROVE  Flies(x, sh, p)
BY DEF Flies, Keeps, IsValid

LEMMA HeldOn ==
  ASSUME NEW w, NEW x, NEW S, Keeps(w, x, S), NEW p, Held(w, p), p.ship.index \in S
  PROVE  Held(x, p)
BY DEF Held, Keeps, IsValid

\* Two lists in turn, and what an event is about in them.
LEMMA InTurn ==
  ASSUME NEW q \in Seq(Event), NEW ms \in Seq(Event)
  PROVE  /\ q \o ms \in Seq(Event) /\ Len(q \o ms) = Len(q) + Len(ms)
         /\ Len(q) \in Nat /\ Len(ms) \in Nat
         /\ \A k \in 1 .. Len(q) : (q \o ms)[k] = q[k] /\ q[k] \in Event
         /\ \A k \in 1 .. Len(ms) : (q \o ms)[Len(q) + k] = ms[k] /\ ms[k] \in Event
OBVIOUS

\* Events that are right, about every slot where something changed, keep the last
\* words right.
LEMMA ReadsMore ==
  ASSUME NEW q \in Seq(Event), NEW ms \in Seq(Event), NEW r, NEW sh, Reads(sh, q, r), NEW x,
         \A k \in 1 .. Len(ms) : OkAt(x, ms[k].id, ms[k].who),
         \A i \in Slot : NoneOf(ms, i, Len(ms)) => \A v \in Owner : OkAt(sh, i, v) => OkAt(x, i, v),
         r \in [Slot -> Owner]
  PROVE  Reads(x, q \o ms, r)
<1> DEFINE t == q \o ms
           a == Len(q)
           b == Len(ms)
<1>1. /\ Len(t) = a + b /\ a \in Nat /\ b \in Nat
      /\ \A k \in 1 .. a : t[k] = q[k] /\ q[k] \in Event
      /\ \A k \in 1 .. b : t[a + k] = ms[k] /\ ms[k] \in Event
  BY InTurn
<1> HIDE DEF t
<1>2. ASSUME NEW k \in 1 .. a PROVE k \in 1 .. a + b /\ k < a + 1
  BY <1>1
<1>3. ASSUME NEW k \in 1 .. b PROVE a + k \in 1 .. a + b /\ a + k > a
  BY <1>1
<1>4. ASSUME NEW i \in Slot, NoneOf(t, i, a + b) PROVE OkAt(x, i, r[i])
  <2>1. NoneOf(q, i, a)
    BY <1>1, <1>2, <1>4 DEF NoneOf
  <2>2. NoneOf(ms, i, b)
    BY <1>1, <1>3, <1>4 DEF NoneOf
  <2>3. OkAt(sh, i, r[i]) /\ r[i] \in Owner
    BY <2>1 DEF Reads
  <2> QED BY <2>2, <2>3
<1>5. ASSUME NEW k \in 1 .. a + b, LastOf(t, k, a + b) PROVE OkAt(x, t[k].id, t[k].who)
  <2>1. CASE k \in 1 .. a
    <3>1. t[k] = q[k] /\ q[k].id \in Slot /\ q[k].who \in Owner
      BY <1>1, <2>1 DEF Event
    <3>2. LastOf(q, k, a)
      BY <1>1, <1>2, <1>5, <2>1 DEF LastOf
    <3>3. \A j \in 1 .. b : a + j > k
      BY <1>1, <2>1
    <3>4. NoneOf(ms, q[k].id, b)
      BY <1>1, <1>3, <1>5, <3>1, <3>3 DEF LastOf, NoneOf
    <3>5. OkAt(sh, q[k].id, q[k].who)
      BY <2>1, <3>2 DEF Reads
    <3> QED BY <3>1, <3>4, <3>5
  <2>2. CASE k \notin 1 .. a
    <3> DEFINE j == k - a
    <3>1. j \in 1 .. b /\ a + j = k
      BY <1>1, <2>2
    <3> HIDE DEF j
    <3>2. t[k] = ms[j]
      BY <1>1, <3>1
    <3> QED BY <3>1, <3>2
  <2> QED BY <2>1, <2>2
<1>6. Reads(x, t, r)
  BY <1>1, <1>4, <1>5 DEF Reads
<1> QED BY <1>6 DEF t

\* An end that is told stays told, whatever follows it.
LEMMA EndsMore ==
  ASSUME NEW q \in Seq(Event), NEW ms \in Seq(Event), NEW i, Ends(q, i) \/ Ends(ms, i)
  PROVE  Ends(q \o ms, i)
<1> DEFINE t == q \o ms
           a == Len(q)
           b == Len(ms)
<1>1. /\ Len(t) = a + b /\ a \in Nat /\ b \in Nat
      /\ \A k \in 1 .. a : t[k] = q[k]
      /\ \A k \in 1 .. b : t[a + k] = ms[k]
  BY InTurn
<1> HIDE DEF t
<1>2. CASE Ends(q, i)
  <2>1. PICK k \in 1 .. a : q[k].msg # "info" /\ q[k].id = i
    BY <1>2 DEF Ends
  <2>2. k \in 1 .. a + b /\ t[k] = q[k]
    BY <1>1
  <2> QED BY <1>1, <2>1, <2>2 DEF Ends, t
<1>3. CASE Ends(ms, i)
  <2>1. PICK k \in 1 .. b : ms[k].msg # "info" /\ ms[k].id = i
    BY <1>3 DEF Ends
  <2> DEFINE j == a + k
  <2>2. j \in 1 .. a + b /\ t[j] = ms[k]
    BY <1>1
  <2> HIDE DEF j
  <2> QED BY <1>1, <2>1, <2>2 DEF Ends, t
<1> QED BY <1>2, <1>3

\* What Broadcast leaves on the lane.
LEMMA BroadcastIs ==
  ASSUME TypesOK, OutsideOK, NEW ms \in Seq(Event), Broadcast(ms)
  PROVE  /\ lane' \in Seq(Event)
         /\ linked' => lane' = lane \o ms
         /\ ~linked' => lane' = lane
BY DEF TypesOK, Broadcast

\* The start.
LEMMA ViewStarts == ViewInit => ViewInv
<1> SUFFICES ASSUME ViewInit PROVE ViewInv
  OBVIOUS
<1> USE DEF ViewInit
<1>1. Good(world)
  BY EmptyGood
<1>2. ShipsOK /\ PreviousOK
  BY DEF ShipsOK, Fleet, PreviousOK
<1>3. TypesOK /\ OutsideOK
  <2>1. \A i \in Slot : history[i] = Unheard /\ roster[i] = NoPlayer
    OBVIOUS
  <2>2. history = [i \in Slot |-> history[i]]
    OBVIOUS
  <2>3. roster \in [Slot -> Owner] /\ lane \in Seq(Event) /\ linked \in BOOLEAN
    <3>1. NoPlayer \in Owner
      BY DEF Owner
    <3>2. roster \in [Slot -> Owner]
      BY <3>1
    <3>3. lane \in Seq(Event)
      OBVIOUS
    <3>4. linked \in BOOLEAN
      OBVIOUS
    <3> QED BY <3>2, <3>3, <3>4
  <2>4. ship[Me] = NoEntity
    BY MeAssumption
  <2>5. lock \in Slot \cup {NoSlot} /\ lane = <<>> /\ snaps = {} /\ picked = NoPick
    OBVIOUS
  <2> QED BY <2>1, <2>2, <2>3, <2>4, <2>5 DEF TypesOK, OutsideOK
<1>4. \A i \in Slot : OkAt(ship, i, NoPlayer)
  BY MeAssumption DEF OkAt
<1>5. RosterOK
  BY <1>4 DEF RosterOK, Reads
<1>6. LockOK
  BY DEF LockOK, NoPick
<1> QED BY <1>1, <1>2, <1>3, <1>5, <1>6 DEF ViewInv

-----------------------------------------------------------------------------
(* The steps of the tick.                                                  *)

\* A step that creates what is no player's, or takes away what is none's, leaves
\* every player's ship, and the picked one if it is a player's, as they were.
LEMMA ShipsStay ==
  ASSUME Good(world), ShipsOK, UNCHANGED ship, NEW S, Keeps(world, world', S),
         \A i \in world.alive : world.pool["owner"][i].of # NoPlayer => i \in S
  PROVE  /\ ShipsOK'
         /\ \A p : p.of # NoPlayer /\ Held(world, p) => Held(world', p)
<1>1. ASSUME NEW p \in Player, ship[p] # NoEntity PROVE Flies(world', ship, p)
  <2>1. Flies(world, ship, p)
    BY <1>1 DEF ShipsOK, Fleet
  <2>2. ship[p].index \in world.alive
    BY <1>1, ShipsApart
  <2>3. world.pool["owner"][ship[p].index].of = p
    BY <2>1 DEF Flies
  <2>4. ship[p].index \in S
    BY <2>2, <2>3, MeAssumption
  <2> QED BY <2>1, <2>4, FliesOn
<1>2. ShipsOK'
  BY <1>1 DEF ShipsOK, Fleet
<1>3. ASSUME NEW p, p.of # NoPlayer, Held(world, p) PROVE Held(world', p)
  <2>1. p.ship.index \in world.alive /\ world.pool["owner"][p.ship.index].of = p.of
    BY <1>3 DEF Held, IsValid
  <2>2. p.ship.index \in S
    BY <1>3, <2>1
  <2> QED BY <1>3, <2>2, HeldOn
<1> QED BY <1>2, <1>3

\* The server opens a tick and moves on in it.
LEMMA PhasesInv ==
  ASSUME ViewInv, RunTick \/ AdvanceSimulation \/ ResolveKills
  PROVE  ViewInv'
<1>1. UNCHANGED <<world, ship, seen, linked, previous, lane, snaps, gap, history, roster, lock, picked>>
  BY DEF RunTick, AdvanceSimulation, ResolveKills, client
<1>2. phase' # "publish"
  BY DEF RunTick, AdvanceSimulation, ResolveKills
<1>3. PreviousOK'
  BY <1>1, <1>2 DEF ViewInv, PreviousOK
<1>4. Good(world') /\ ShipsOK' /\ TypesOK' /\ OutsideOK' /\ RosterOK' /\ LockOK'
  BY <1>1 DEF ViewInv, ShipsOK, Fleet, TypesOK, OutsideOK, RosterOK, LockOK
<1> QED BY <1>3, <1>4 DEF ViewInv

\* A first datagram of Me that is no hello.
LEMMA OnReliableInv ==
  ASSUME ViewInv, OnReliable
  PROVE  ViewInv'
<1>1. /\ UNCHANGED <<world, ship, seen, previous, phase, lane, snaps, gap, history, roster, lock, picked>>
      /\ linked' = TRUE
  BY DEF OnReliable, client
<1>2. Good(world') /\ ShipsOK' /\ PreviousOK' /\ RosterOK' /\ LockOK'
  BY <1>1 DEF ViewInv, ShipsOK, Fleet, PreviousOK, RosterOK, LockOK
<1>3. TypesOK' /\ OutsideOK'
  BY <1>1 DEF ViewInv, TypesOK, OutsideOK
<1> QED BY <1>2, <1>3 DEF ViewInv

\* Something appears that is no player's.
LEMMA SpawnInv ==
  ASSUME ViewInv, Spawn
  PROVE  ViewInv'
<1>1. /\ UNCHANGED <<ship, seen, linked, previous, phase, lane, snaps, gap, history, roster, lock, picked>>
      /\ world' = Joined(world, NoPlayer) /\ CanCreate(world) /\ phase # "publish"
  BY DEF Spawn, client
<1>2. NoPlayer \in Owner /\ Good(world)
  BY DEF Owner, ViewInv
<1>3. Good(world') /\ Keeps(world, world', world.alive)
  BY <1>1, <1>2, JoinedGood
<1>4. ShipsOK' /\ \A p : p.of # NoPlayer /\ Held(world, p) => Held(world', p)
  BY <1>1, <1>3, ShipsStay DEF ViewInv
<1>5. PreviousOK' /\ TypesOK' /\ OutsideOK' /\ RosterOK'
  BY <1>1 DEF ViewInv, PreviousOK, TypesOK, OutsideOK, RosterOK
<1>6. LockOK'
  BY <1>1, <1>4 DEF ViewInv, LockOK
<1> QED BY <1>3, <1>4, <1>5, <1>6 DEF ViewInv

\* What is no player's is destroyed, loot having been dropped or not.
LEMMA UnownedGone ==
  ASSUME Good(world), ShipsOK, UNCHANGED ship, NEW e \in Unowned, NEW loot \in BOOLEAN,
         loot => CanCreate(world),
         world' = Destroy(IF loot THEN Joined(world, NoPlayer) ELSE world, e)
  PROVE  /\ Good(world') /\ ShipsOK'
         /\ \A p : p.of # NoPlayer /\ Held(world, p) => Held(world', p)
<1> DEFINE w == IF loot THEN Joined(world, NoPlayer) ELSE world
<1>1. /\ IsValid(world, e) /\ e.index \in Slot /\ e.index \in world.alive
      /\ world.pool["owner"][e.index].of = NoPlayer
  BY NobodyThere
<1>2. NoPlayer \in Owner
  BY DEF Owner
<1>3. Good(w) /\ Keeps(world, w, world.alive)
  <2>1. CASE loot
    BY <1>2, <2>1, JoinedGood
  <2>2. CASE ~loot
    BY <2>2 DEF Keeps
  <2> QED BY <2>1, <2>2
<1> HIDE DEF w
<1>4. IsValid(w, e) /\ \A i \in world.alive : i \in w.alive
  BY <1>1, <1>3 DEF IsValid, Keeps
<1>5. /\ Good(world') /\ world'.alive = w.alive \ {e.index}
      /\ Keeps(w, world', world'.alive)
  BY <1>3, <1>4, DestroyGood DEF w
<1>6. Keeps(world, world', world.alive \ {e.index})
  BY <1>3, <1>4, <1>5 DEF Keeps
<1>7. \A i \in world.alive : world.pool["owner"][i].of # NoPlayer => i \in world.alive \ {e.index}
  BY <1>1
<1>8. ShipsOK' /\ \A p : p.of # NoPlayer /\ Held(world, p) => Held(world', p)
  BY <1>6, <1>7, ShipsStay
<1> QED BY <1>5, <1>8

LEMMA VanishInv ==
  ASSUME ViewInv, NEW e, Vanish(e)
  PROVE  ViewInv'
<1>1. /\ UNCHANGED <<ship, seen, linked, previous, phase, lane, snaps, gap, history, roster, lock, picked>>
      /\ e \in Unowned /\ world' = Destroy(world, e) /\ phase # "publish"
  BY DEF Vanish, client
<1>2. world' = Destroy(IF FALSE THEN Joined(world, NoPlayer) ELSE world, e)
  BY <1>1
<1>3. /\ Good(world') /\ ShipsOK'
      /\ \A p : p.of # NoPlayer /\ Held(world, p) => Held(world', p)
  BY <1>1, <1>2, UnownedGone DEF ViewInv
<1>5. PreviousOK' /\ TypesOK' /\ OutsideOK' /\ RosterOK'
  BY <1>1 DEF ViewInv, PreviousOK, TypesOK, OutsideOK, RosterOK
<1>6. LockOK'
  BY <1>1, <1>3 DEF ViewInv, LockOK
<1> QED BY <1>3, <1>5, <1>6 DEF ViewInv

\* A kill is told to everyone: nobody flies there, before or after.
LEMMA OnEntityKilledInv ==
  ASSUME ViewInv, NEW e, OnEntityKilled(e)
  PROVE  ViewInv'
<1> DEFINE m == Death(e.index)
           ms == <<m>>
<1>1. /\ UNCHANGED <<ship, seen, linked, previous, phase, snaps, gap, history, roster, lock, picked>>
      /\ e \in Unowned /\ phase # "publish" /\ Broadcast(ms)
  BY DEF OnEntityKilled, client
<1>2. PICK loot \in BOOLEAN : /\ loot => CanCreate(world)
                              /\ world' = Destroy(IF loot THEN Joined(world, NoPlayer) ELSE world, e)
  BY DEF OnEntityKilled
<1>3. /\ Good(world') /\ ShipsOK'
      /\ \A p : p.of # NoPlayer /\ Held(world, p) => Held(world', p)
  BY <1>1, <1>2, UnownedGone DEF ViewInv
<1>4. /\ e.index \in Slot /\ \A p \in Player : ship[p].index # e.index
  BY <1>1, NobodyThere DEF ViewInv
<1>5. m \in Event /\ m.id = e.index /\ m.who = NoPlayer
  BY <1>4 DEF Death, Event, Owner
<1> HIDE DEF m
<1>6. ms \in Seq(Event) /\ Len(ms) = 1 /\ ms[1] = m /\ \A k \in 1 .. 1 : k = 1
  BY <1>5
<1> HIDE DEF ms
<1>7. \/ lane' = lane \o ms /\ linked
      \/ lane' = lane
  BY <1>1, <1>6, BroadcastIs DEF ViewInv
<1>8. lane' \in Seq(Event) /\ (~linked => lane' = lane)
  BY <1>1, <1>6, BroadcastIs DEF ViewInv
<1>9. PreviousOK' /\ TypesOK' /\ OutsideOK'
  BY <1>1, <1>8 DEF ViewInv, PreviousOK, TypesOK, OutsideOK
<1>10. RosterOK'
  <2>1. Reads(ship, lane, roster) /\ lane \in Seq(Event) /\ roster \in [Slot -> Owner]
    BY DEF ViewInv, RosterOK, TypesOK
  <2>2. \A k \in 1 .. Len(ms) : OkAt(ship, ms[k].id, ms[k].who)
    BY <1>4, <1>5, <1>6 DEF OkAt
  <2>3. Reads(ship, lane \o ms, roster)
    BY <1>6, <2>1, <2>2, ReadsMore
  <2> QED BY <1>1, <1>7, <2>1, <2>3 DEF RosterOK
<1>11. LockOK'
  <2>1. lane \in Seq(Event) /\ (picked # NoPick => lock = picked.ship.index /\ lock \in Slot)
    BY DEF ViewInv, TypesOK, LockOK
  <2>2. ASSUME picked.of # NoPlayer PROVE Held(world', picked) \/ Ends(lane', picked.ship.index)
    <3>1. CASE Held(world, picked)
      BY <1>3, <2>2, <3>1
    <3>2. CASE Ends(lane, picked.ship.index)
      BY <1>6, <1>7, <2>1, <3>2, EndsMore
    <3> QED BY <2>2, <3>1, <3>2 DEF ViewInv, LockOK
  <2> QED BY <1>1, <2>1, <2>2 DEF LockOK
<1> QED BY <1>3, <1>9, <1>10, <1>11 DEF ViewInv

-----------------------------------------------------------------------------
(* Sets listed: the roster in an OnHello, the ships reaped and the slots gone. *)

LEMMA SlotsFinite == IsFiniteSet(Slot)
BY BoundsAssumption, FS_Interval DEF Slot

\* What has a slot each, of its own, is finite in number.
LEMMA SlottedFinite ==
  ASSUME NEW E, NEW f \in [E -> Slot], \A d, e \in E : f[d] = f[e] => d = e
  PROVE  IsFiniteSet(E)
<1>1. f \in Injection(E, Slot)
  BY DEF Injection, IsInjective
<1> QED BY <1>1, SlotsFinite, FS_Injection

LEMMA ListedIs ==
  ASSUME NEW E, IsFiniteSet(E)
  PROVE  LET s == Seqs!SetToSeq(E) IN
         /\ s \in Seq(E) /\ Len(s) \in Nat /\ DOMAIN s = 1 .. Len(s)
         /\ \A i \in 1 .. Len(s) : s[i] \in E
         /\ \A x \in E : \E i \in 1 .. Len(s) : s[i] = x
<1> DEFINE n == Cardinality(E)
           g == Seqs!SetToSeq(E)
<1>1. n \in Nat /\ ExistsBijection(1 .. n, E)
  BY FS_CardinalityType
<1>2. \E f \in [1 .. n -> E] : Seqs!IsInjective(f)
  <2>1. PICK f : f \in Bijection(1 .. n, E)
    BY <1>1 DEF ExistsBijection
  <2>2. f \in [1 .. n -> E] /\ Seqs!IsInjective(f)
    BY <2>1 DEF Bijection, Injection, IsInjective, Seqs!IsInjective
  <2> QED BY <2>2
<1>3. g \in [1 .. n -> E] /\ Seqs!IsInjective(g)
  <2>1. g = CHOOSE f \in [1 .. n -> E] : Seqs!IsInjective(f)
    BY DEF Seqs!SetToSeq, Seqs!Cardinality, Cardinality
  <2> HIDE DEF g, n
  <2> QED BY <1>2, <2>1
<1> HIDE DEF g
<1>4. IsFiniteSet(1 .. n) /\ Cardinality(1 .. n) = n
  BY <1>1, FS_Interval
<1>5. g \in Injection(1 .. n, E)
  BY <1>3 DEF Injection, IsInjective, Seqs!IsInjective
<1>6. g \in Surjection(1 .. n, E)
  BY <1>4, <1>5, FS_Injection
<1>7. \A x \in E : \E i \in 1 .. n : g[i] = x
  BY <1>6 DEF Surjection
<1>8. g \in Seq(E) /\ Len(g) = n /\ DOMAIN g = 1 .. n
  BY <1>1, <1>3
<1> QED BY <1>1, <1>3, <1>7, <1>8 DEF g

-----------------------------------------------------------------------------
(* Players come and go.                                                    *)

\* A player joins, and the whole roster is told.
LEMMA OnHelloInv ==
  ASSUME ViewInv, NEW p \in Player, OnHello(p)
  PROVE  ViewInv'
<1> DEFINE R == {q \in Player : ship'[q] # NoEntity}
           roll == Seqs!SetToSeq(R)
           ms == [k \in DOMAIN roll |-> Info(roll[k])]
<1>1. /\ UNCHANGED <<previous, phase, snaps, gap, history, roster, lock, picked>>
      /\ phase = "requests" /\ ship[p] = NoEntity /\ CanCreate(world)
      /\ linked' = (linked \/ p = Me)
      /\ ship' = [ship EXCEPT ![p] = NewId(world)]
      /\ seen' = seen \cup {p}
      /\ world' = Joined(world, p)
      /\ Broadcast(ms)
  BY DEF OnHello, client, Noted
<1>2. /\ Good(world) /\ ShipsOK /\ PreviousOK /\ TypesOK /\ OutsideOK /\ RosterOK /\ LockOK
      /\ p \in Owner /\ ship \in [Player -> EntityId \cup {NoEntity}]
  BY DEF ViewInv, Owner, ShipsOK, Fleet
<1>3. /\ Good(world') /\ Keeps(world, world', world.alive)
      /\ NewId(world).index = NextIndex(world) /\ NewId(world) \in EntityId
      /\ NextIndex(world) \in Slot
      /\ IsValid(world', NewId(world)) /\ world'.pool["owner"][NextIndex(world)] = [of |-> p]
  BY <1>1, <1>2, JoinedGood
<1>4. /\ ship'[p] = NewId(world) /\ \A q \in Player \ {p} : ship'[q] = ship[q]
      /\ ship' \in [Player -> EntityId \cup {NoEntity}]
  BY <1>1, <1>2, <1>3
<1>5. Fleet(world', ship')
  <2>1. ASSUME NEW q \in Player, ship'[q] # NoEntity PROVE Flies(world', ship', q)
    <3>1. CASE q = p
      BY <1>3, <1>4, <3>1 DEF Flies
    <3>2. CASE q # p
      <4>1. ship'[q] = ship[q] /\ Flies(world, ship, q) /\ ship[q].index \in world.alive
        BY <1>2, <1>4, <2>1, <3>2, ShipsApart DEF ShipsOK, Fleet
      <4>2. Flies(world', ship, q)
        BY <1>3, <4>1, FliesOn
      <4> QED BY <4>1, <4>2 DEF Flies
    <3> QED BY <3>1, <3>2
  <2> QED BY <1>4, <2>1 DEF Fleet
<1>6. /\ \A q \in R : ship'[q].index \in Slot
      /\ \A q \in Player \ R : ship'[q].index \notin Slot
      /\ \A q, u \in Player : ship'[q].index \in Slot /\ ship'[q].index = ship'[u].index => q = u
  BY <1>3, <1>5, FleetApart
<1>7. IsFiniteSet(R)
  <2> DEFINE f == [q \in R |-> ship'[q].index]
  <2>1. f \in [R -> Slot] /\ \A d, e \in R : f[d] = f[e] => d = e
    BY <1>6
  <2> HIDE DEF f
  <2> QED BY <2>1, SlottedFinite
<1>8. /\ Len(roll) \in Nat /\ DOMAIN roll = 1 .. Len(roll)
      /\ \A k \in 1 .. Len(roll) : roll[k] \in R
      /\ \A q \in R : \E k \in 1 .. Len(roll) : roll[k] = q
  BY <1>7, ListedIs
<1> HIDE DEF roll
<1>9. ASSUME NEW k \in 1 .. Len(roll)
      PROVE  ms[k] \in Event /\ ms[k].id = ship'[roll[k]].index /\ ms[k].who = roll[k]
  <2>1. ms[k] = [msg |-> "info", id |-> ship'[roll[k]].index, who |-> roll[k]]
    BY <1>8 DEF Info
  <2>2. ship'[roll[k]].index \in Slot /\ roll[k] \in Owner
    BY <1>6, <1>8 DEF Owner
  <2> QED BY <2>1, <2>2 DEF Event
<1>10. ms \in Seq(Event) /\ Len(ms) = Len(roll)
  BY <1>8, <1>9
<1> HIDE DEF ms, R
<1>11. /\ lane' \in Seq(Event)
       /\ linked' => lane' = lane \o ms
       /\ ~linked' => lane' = lane
  BY <1>1, <1>2, <1>10, BroadcastIs
<1>12. ~linked' => ~linked /\ p # Me /\ ship'[Me] = ship[Me]
  BY <1>1, <1>4, MeAssumption
<1>13. PreviousOK'
  BY <1>1, <1>2, <1>4 DEF PreviousOK
<1>14. TypesOK' /\ OutsideOK'
  <2>1. linked' \in BOOLEAN
    BY <1>1
  <2>2. TypesOK'
    BY <1>1, <1>2, <1>11, <2>1 DEF TypesOK
  <2>3. OutsideOK'
    BY <1>1, <1>2, <1>11, <1>12 DEF OutsideOK
  <2> QED BY <2>2, <2>3
<1>15. RosterOK'
  <2>1. Reads(ship, lane, roster) /\ lane \in Seq(Event) /\ roster \in [Slot -> Owner]
    BY <1>2 DEF RosterOK, TypesOK
  <2>2. CASE linked'
    <3>1. \A k \in 1 .. Len(ms) : OkAt(ship', ms[k].id, ms[k].who)
      <4>1. ASSUME NEW k \in 1 .. Len(ms) PROVE OkAt(ship', ms[k].id, ms[k].who)
        <5>1. /\ roll[k] \in Player /\ ms[k].id = ship'[roll[k]].index /\ ms[k].who = roll[k]
              /\ ship'[roll[k]].index \in Slot
          BY <1>6, <1>8, <1>9, <1>10 DEF R
        <5> QED BY <1>6, <5>1 DEF OkAt
      <4> QED BY <4>1
    <3>2. ASSUME NEW i \in Slot, NoneOf(ms, i, Len(ms)), NEW v \in Owner, OkAt(ship, i, v)
          PROVE  OkAt(ship', i, v)
      <4>1. \A q \in Player : ship'[q].index # i
        <5>1. SUFFICES ASSUME NEW q \in Player, ship'[q].index = i PROVE FALSE
          OBVIOUS
        <5>2. PICK k \in 1 .. Len(roll) : roll[k] = q
          BY <1>6, <1>8, <5>1
        <5> QED BY <1>9, <1>10, <3>2, <5>1, <5>2 DEF NoneOf
      <4>2. v = NoPlayer
        <5>1. SUFFICES ASSUME v # NoPlayer PROVE FALSE
          OBVIOUS
        <5>2. v \in Player /\ ship[v].index = i
          BY <3>2, <5>1 DEF Owner, OkAt
        <5>3. v # p
          BY <1>1, <1>2, <5>2, ShipsApart
        <5> QED BY <1>4, <4>1, <5>2, <5>3
      <4> QED BY <4>1, <4>2 DEF OkAt
    <3>3. Reads(ship', lane \o ms, roster)
      BY <1>10, <2>1, <3>1, <3>2, ReadsMore
    <3> QED BY <1>1, <1>11, <2>2, <3>3 DEF RosterOK
  <2>3. CASE ~linked'
    <3>1. /\ lane' = <<>> /\ ship'[Me] = NoEntity
          /\ \A i \in Slot : roster[i] = NoPlayer
      BY <1>2, <1>11, <1>12, <2>3 DEF OutsideOK
    <3>2. \A i \in Slot : OkAt(ship', i, roster[i])
      BY <3>1 DEF OkAt
    <3>3. Reads(ship', lane', roster)
      BY <3>1, <3>2 DEF Reads
    <3> QED BY <1>1, <3>3 DEF RosterOK
  <2> QED BY <2>2, <2>3
<1>16. LockOK'
  <2>1. lane \in Seq(Event) /\ (picked # NoPick => lock = picked.ship.index /\ lock \in Slot)
    BY <1>2 DEF TypesOK, LockOK
  <2>2. ASSUME picked.of # NoPlayer PROVE Held(world', picked) \/ Ends(lane', picked.ship.index)
    <3>1. CASE Held(world, picked)
      <4>1. picked.ship.index \in world.alive
        BY <3>1 DEF Held, IsValid
      <4> QED BY <1>3, <3>1, <4>1, HeldOn
    <3>2. CASE Ends(lane, picked.ship.index)
      BY <1>10, <1>11, <2>1, <3>2, EndsMore
    <3> QED BY <1>2, <2>2, <3>1, <3>2 DEF LockOK
  <2> QED BY <1>1, <2>1, <2>2 DEF LockOK
<1> QED BY <1>3, <1>5, <1>13, <1>14, <1>15, <1>16 DEF ViewInv, ShipsOK

\* Silent players leave with their ships; DespawnTracker tells of every slot that
\* was in use after the last tick and no longer is.
LEMMA ReapAndDespawnInv ==
  ASSUME ViewInv, ReapAndDespawn
  PROVE  ViewInv'
<1> DEFINE gone == Seqs!SetToSeq(Gone)
           ms == [k \in DOMAIN gone |-> Despawn(gone[k])]
<1>1. /\ UNCHANGED <<seen, linked, snaps, gap, history, roster, lock, picked>>
      /\ previous' = world'.alive /\ phase' = "publish"
      /\ Broadcast(ms)
  BY DEF ReapAndDespawn, CurrentIds, client
<1>2. PICK silent \in SUBSET {p \in Player \ ({Me} \cup seen) : ship[p] # NoEntity} :
        /\ world' = DestroyAll(world, Seqs!SetToSeq({ship[p] : p \in silent}))
        /\ ship' = [p \in Player |-> IF p \in silent THEN NoEntity ELSE ship[p]]
  BY DEF ReapAndDespawn
<1> DEFINE E == {ship[p] : p \in silent}
           q == Seqs!SetToSeq(E)
<1>3. /\ Good(world) /\ ShipsOK /\ PreviousOK /\ TypesOK /\ OutsideOK /\ RosterOK /\ LockOK
      /\ ship \in [Player -> EntityId \cup {NoEntity}]
  BY DEF ViewInv, ShipsOK, Fleet
<1>4. \A p \in silent : /\ p \in Player /\ p # Me /\ p \notin seen /\ ship[p] # NoEntity
                        /\ ship[p].index \in previous
  BY <1>2, <1>3 DEF PreviousOK
<1>5. \A p \in silent : IsValid(world, ship[p]) /\ ship[p].index \in Slot
  BY <1>3, <1>4, ShipsApart DEF ShipsOK, Fleet, Flies
<1>6. IsFiniteSet(E)
  <2> DEFINE f == [e \in E |-> e.index]
  <2>1. \A d, e \in E : d.index = e.index => d = e
    BY <1>3, <1>4, <1>5, ShipsApart
  <2>2. f \in [E -> Slot] /\ \A d, e \in E : f[d] = f[e] => d = e
    BY <1>5, <2>1
  <2> HIDE DEF f
  <2> QED BY <2>2, SlottedFinite
<1>7. /\ Len(q) \in Nat /\ DOMAIN q = 1 .. Len(q)
      /\ \A k \in 1 .. Len(q) : q[k] \in E
      /\ \A e \in E : \E k \in 1 .. Len(q) : q[k] = e
  <2> HIDE DEF E
  <2> QED BY <1>6, ListedIs
<1>8. world' = DestroyAll(world, q)
  BY <1>2
<1> HIDE DEF q
<1>9. \A k \in 1 .. Len(q) : IsValid(world, q[k])
  BY <1>5, <1>7
<1>10. /\ Good(world') /\ Keeps(world, world', world'.alive)
       /\ world'.alive = world.alive \ {q[k].index : k \in 1 .. Len(q)}
  BY <1>3, <1>7, <1>8, <1>9, AllDestroyed
<1>11. \A i \in world.alive : i \notin world'.alive <=> \E p \in silent : ship[p].index = i
  <2>1. ASSUME NEW i \in world.alive, i \notin world'.alive PROVE \E p \in silent : ship[p].index = i
    <3>1. PICK k \in 1 .. Len(q) : q[k].index = i
      BY <1>10, <2>1
    <3> QED BY <1>7, <3>1
  <2>2. ASSUME NEW i \in world.alive, NEW p \in silent, ship[p].index = i PROVE i \notin world'.alive
    <3>1. PICK k \in 1 .. Len(q) : q[k] = ship[p]
      BY <1>7
    <3> QED BY <1>10, <2>2, <3>1
  <2> QED BY <2>1, <2>2
<1> HIDE DEF E
<1>12. /\ \A p \in silent : ship'[p] = NoEntity
       /\ \A p \in Player \ silent : ship'[p] = ship[p]
       /\ ship' \in [Player -> EntityId \cup {NoEntity}]
       /\ Me \notin silent /\ ship'[Me] = ship[Me]
  BY <1>2, <1>3, <1>4, MeAssumption
<1>13. Fleet(world', ship')
  <2>1. ASSUME NEW p \in Player, ship'[p] # NoEntity PROVE Flies(world', ship', p)
    <3>1. p \notin silent /\ ship'[p] = ship[p] /\ ship[p] # NoEntity
      BY <1>12, <2>1
    <3>2. Flies(world, ship, p) /\ ship[p].index \in world.alive /\ ship[p].index \in Slot
      BY <1>3, <3>1, ShipsApart DEF ShipsOK, Fleet
    <3>3. ship[p].index \in world'.alive
      BY <1>3, <1>4, <1>11, <3>1, <3>2, ShipsApart
    <3>4. Flies(world', ship, p)
      BY <1>10, <3>2, <3>3, FliesOn
    <3> QED BY <3>1, <3>4 DEF Flies
  <2> QED BY <1>12, <2>1 DEF Fleet
<1>14. /\ \A p \in Player : ship'[p] # NoEntity => ship'[p].index \in world'.alive
       /\ \A p \in Player : ship'[p] = NoEntity => ship'[p].index \notin Slot
       /\ world'.alive \subseteq Slot
  BY <1>10, <1>13, FleetApart DEF Good, World
<1>15. Gone \subseteq Slot /\ IsFiniteSet(Gone)
  <2>1. Gone \subseteq Slot
    BY <1>3 DEF Gone, PreviousOK
  <2> QED BY <2>1, SlotsFinite, FS_Subset
<1>16. /\ Len(gone) \in Nat /\ DOMAIN gone = 1 .. Len(gone)
       /\ \A k \in 1 .. Len(gone) : gone[k] \in Gone
       /\ \A i \in Gone : \E k \in 1 .. Len(gone) : gone[k] = i
  BY <1>15, ListedIs
<1> HIDE DEF gone
<1>17. ASSUME NEW k \in 1 .. Len(gone)
       PROVE  /\ ms[k] \in Event /\ ms[k].id = gone[k] /\ ms[k].who = NoPlayer
              /\ ms[k].msg # "info"
  <2>1. ms[k] = [msg |-> "despawn", id |-> gone[k], who |-> NoPlayer]
    BY <1>16 DEF Despawn
  <2>2. gone[k] \in Slot /\ NoPlayer \in Owner
    BY <1>15, <1>16 DEF Owner
  <2> QED BY <2>1, <2>2 DEF Event
<1>18. ms \in Seq(Event) /\ Len(ms) = Len(gone)
  BY <1>16, <1>17
<1> HIDE DEF ms
<1>19. \A i \in previous : i \notin world'.alive => Ends(ms, i) /\ ~NoneOf(ms, i, Len(ms))
  <2>1. SUFFICES ASSUME NEW i \in previous, i \notin world'.alive
                 PROVE  Ends(ms, i) /\ ~NoneOf(ms, i, Len(ms))
    OBVIOUS
  <2>2. PICK k \in 1 .. Len(gone) : gone[k] = i
    BY <1>16, <2>1 DEF Gone, CurrentIds
  <2> QED BY <1>17, <1>18, <2>2 DEF Ends, NoneOf
<1>20. /\ lane' \in Seq(Event)
       /\ linked => lane' = lane \o ms
       /\ ~linked => lane' = lane
  BY <1>1, <1>3, <1>18, BroadcastIs
<1>21. PreviousOK'
  BY <1>1, <1>14 DEF PreviousOK
<1>22. TypesOK' /\ OutsideOK'
  BY <1>1, <1>3, <1>12, <1>20 DEF TypesOK, OutsideOK
<1>23. RosterOK'
  <2>1. Reads(ship, lane, roster) /\ lane \in Seq(Event) /\ roster \in [Slot -> Owner]
    BY <1>3 DEF RosterOK, TypesOK
  <2>2. CASE linked
    <3>1. \A k \in 1 .. Len(ms) : OkAt(ship', ms[k].id, ms[k].who)
      <4>1. ASSUME NEW k \in 1 .. Len(ms) PROVE OkAt(ship', ms[k].id, ms[k].who)
        <5>1. gone[k] \notin world'.alive /\ gone[k] \in Slot
          BY <1>15, <1>16, <1>18 DEF Gone, CurrentIds
        <5>2. \A p \in Player : ship'[p].index # gone[k]
          BY <1>14, <5>1
        <5> QED BY <1>17, <1>18, <5>2 DEF OkAt
      <4> QED BY <4>1
    <3>2. ASSUME NEW i \in Slot, NoneOf(ms, i, Len(ms)), NEW v \in Owner, OkAt(ship, i, v)
          PROVE  OkAt(ship', i, v)
      <4>1. ASSUME v # NoPlayer PROVE ship'[v].index = i
        <5>1. v \in Player /\ ship[v].index = i
          BY <3>2, <4>1 DEF Owner, OkAt
        <5>2. v \notin silent
          <6>1. SUFFICES ASSUME v \in silent PROVE FALSE
            OBVIOUS
          <6>2. i \in previous /\ i \in world.alive
            BY <1>3, <1>4, <5>1, <6>1, ShipsApart
          <6>3. i \notin world'.alive
            BY <1>11, <5>1, <6>1, <6>2
          <6> QED BY <1>19, <3>2, <6>2, <6>3
        <5> QED BY <1>12, <5>1, <5>2
      <4>2. ASSUME ship'[Me] # NoEntity, NEW p \in Player, ship'[p].index = i PROVE v = p
        <5>1. p \notin silent
          BY <1>12, <1>14, <4>2
        <5>2. ship[p].index = i /\ ship[Me] # NoEntity
          BY <1>12, <4>2, <5>1
        <5> QED BY <3>2, <5>2 DEF OkAt
      <4> QED BY <4>1, <4>2 DEF OkAt
    <3>3. Reads(ship', lane \o ms, roster)
      BY <1>18, <2>1, <3>1, <3>2, ReadsMore
    <3> QED BY <1>1, <1>20, <2>2, <3>3 DEF RosterOK
  <2>3. CASE ~linked
    <3>1. /\ lane' = <<>> /\ ship'[Me] = NoEntity
          /\ \A i \in Slot : roster[i] = NoPlayer
      BY <1>3, <1>12, <1>20, <2>3 DEF OutsideOK
    <3>2. \A i \in Slot : OkAt(ship', i, roster[i])
      BY <3>1 DEF OkAt
    <3>3. Reads(ship', lane', roster)
      BY <3>1, <3>2 DEF Reads
    <3> QED BY <1>1, <3>3 DEF RosterOK
  <2> QED BY <2>2, <2>3
<1>24. LockOK'
  <2>1. lane \in Seq(Event) /\ (picked # NoPick => lock = picked.ship.index /\ lock \in Slot)
    BY <1>3 DEF TypesOK, LockOK
  <2>2. ASSUME picked.of # NoPlayer PROVE Held(world', picked) \/ Ends(lane', picked.ship.index)
    <3>0. linked /\ lane' = lane \o ms
      <4>1. picked # NoPick
        BY <2>2 DEF NoPick
      <4> QED BY <1>3, <1>20, <4>1 DEF OutsideOK
    <3>1. CASE Held(world, picked) /\ picked.ship.index \in world'.alive
      BY <1>10, <3>1, HeldOn
    <3>2. CASE Held(world, picked) /\ picked.ship.index \notin world'.alive
      <4>1. picked.ship.index \in world.alive
        BY <3>2 DEF Held, IsValid
      <4>2. PICK p \in silent : ship[p].index = picked.ship.index
        BY <1>11, <3>2, <4>1
      <4>3. Ends(ms, picked.ship.index)
        BY <1>4, <1>19, <3>2, <4>2
      <4> QED BY <1>18, <2>1, <3>0, <4>3, EndsMore
    <3>3. CASE Ends(lane, picked.ship.index)
      BY <1>18, <2>1, <3>0, <3>3, EndsMore
    <3> QED BY <1>3, <2>2, <3>1, <3>2, <3>3 DEF LockOK
  <2> QED BY <1>1, <2>1, <2>2 DEF LockOK
<1> QED BY <1>10, <1>13, <1>21, <1>22, <1>23, <1>24 DEF ViewInv, ShipsOK

\* The snapshot goes out and the tick is over: whoever flies now was there.
LEMMA PublishStateInv ==
  ASSUME ViewInv, NEW sent, PublishState(sent)
  PROVE  ViewInv'
<1>1. /\ UNCHANGED <<world, ship, linked, previous, lane, history, roster, lock, picked>>
      /\ phase = "publish" /\ phase' = "idle" /\ seen' = {}
  BY DEF PublishState
<1>2. Good(world) /\ ShipsOK /\ PreviousOK /\ OutsideOK
  BY DEF ViewInv
<1>3. PreviousOK'
  BY <1>1, <1>2, ShipsApart DEF PreviousOK
<1>4. OutsideOK'
  <2>1. ASSUME ~linked PROVE snaps' = {}
    <3>1. ship[Me] = NoEntity /\ snaps = {}
      BY <1>2, <2>1 DEF OutsideOK
    <3>2. snaps' = Older(snaps)
      BY <3>1 DEF PublishState
    <3> QED BY <3>1, <3>2 DEF Older
  <2> QED BY <1>1, <1>2, <2>1 DEF OutsideOK
<1>5. Good(world') /\ ShipsOK' /\ TypesOK' /\ RosterOK' /\ LockOK'
  BY <1>1 DEF ViewInv, ShipsOK, TypesOK, RosterOK, LockOK
<1> QED BY <1>3, <1>4, <1>5 DEF ViewInv

-----------------------------------------------------------------------------
(* The client's frames.                                                    *)

\* Of the first n positions about a slot there is a last one.
LEMMA LastThere ==
  ASSUME NEW q, NEW n \in Nat, NEW k \in 1 .. n
  PROVE  \E j \in 1 .. n : q[j].id = q[k].id /\ LastOf(q, j, n)
<1> DEFINE T == {d \in 0 .. n - 1 : q[n - d].id = q[k].id}
<1>1. \E d \in 0 .. n - 1 : n - d = k
  <2>1. n - k \in 0 .. n - 1 /\ n - (n - k) = k
    OBVIOUS
  <2> QED BY <2>1
<1>2. T \in SUBSET Nat /\ T # {}
  <2>1. PICK d \in 0 .. n - 1 : n - d = k
    BY <1>1
  <2>2. d \in T
    BY <2>1
  <2>3. \A e \in 0 .. n - 1 : e \in Nat
    OBVIOUS
  <2> QED BY <2>2, <2>3
<1>3. PICK d \in T : \A e \in T : d <= e
  <2> HIDE DEF T
  <2> QED BY <1>2, Least
<1>4. d \in 0 .. n - 1 /\ n - d \in 1 .. n /\ q[n - d].id = q[k].id
  OBVIOUS
<1>5. ASSUME NEW j \in 1 .. n, j > n - d PROVE q[j].id # q[k].id
  <2>1. n - j \in 0 .. n - 1 /\ n - (n - j) = j /\ ~(d <= n - j)
    BY <1>4, <1>5
  <2> QED BY <1>3, <2>1
<1> QED BY <1>4, <1>5 DEF LastOf

\* A list cut in two.
LEMMA CutIs ==
  ASSUME NEW q \in Seq(Event), NEW n \in 0 .. Len(q)
  PROVE  LET a == SubSeq(q, 1, n)
             b == SubSeq(q, n + 1, Len(q))
         IN  /\ a \in Seq(Event) /\ Len(a) = n /\ DOMAIN a = 1 .. n
             /\ b \in Seq(Event) /\ Len(b) = Len(q) - n
             /\ \A k \in 1 .. n : a[k] = q[k] /\ a[k] \in Event
             /\ \A k \in 1 .. Len(q) - n : b[k] = q[n + k]
<1>1. Len(q) \in Nat /\ n \in Nat /\ n <= Len(q)
  OBVIOUS
<1>2. ASSUME NEW k \in 1 .. n PROVE q[k] \in Event
  BY <1>1
<1>3. ASSUME NEW k \in 1 .. Len(q) - n PROVE n + k \in 1 .. Len(q)
  BY <1>1
<1> QED BY <1>1, <1>2, <1>3

\* When the first n events have been written to the roster, the rest of the lane
\* has the last words, or else the roster.
LEMMA ReadsLess ==
  ASSUME NEW q \in Seq(Event), NEW n \in 0 .. Len(q), NEW sh, NEW r, Reads(sh, q, r), NEW x,
         \A i \in Slot : NoneOf(q, i, n) => x[i] = r[i],
         \A k \in 1 .. n : LastOf(q, k, n) => x[q[k].id] = q[k].who
  PROVE  Reads(sh, SubSeq(q, n + 1, Len(q)), x)
<1> DEFINE b == SubSeq(q, n + 1, Len(q))
           m == Len(q)
           c == m - n
<1>1. m \in Nat /\ n \in Nat /\ c \in Nat /\ m = n + c /\ n \in 0 .. m
  OBVIOUS
<1>2. Len(b) = c /\ \A k \in 1 .. c : b[k] = q[n + k]
  BY CutIs
<1> HIDE DEF b, c, m
<1>3. ASSUME NEW k \in 1 .. n PROVE k \in 1 .. m /\ k < n + 1
  BY <1>1
<1>4. ASSUME NEW k \in 1 .. c PROVE n + k \in 1 .. m
  BY <1>1
<1>5. ASSUME NEW k \in 1 .. m, k \notin 1 .. n PROVE k - n \in 1 .. c /\ n + (k - n) = k
  <2>1. k \in Int /\ n \in Int /\ c \in Int /\ k > n /\ k <= n + c
    BY <1>1, <1>5
  <2> QED BY ONLY <2>1
<1>6. ASSUME NEW i \in Slot, NoneOf(b, i, c) PROVE OkAt(sh, i, x[i])
  <2>1. ASSUME NEW j \in 1 .. m, j \notin 1 .. n PROVE q[j].id # i
    <3> DEFINE d == j - n
    <3>1. d \in 1 .. c /\ n + d = j
      BY <1>5, <2>1
    <3> HIDE DEF d
    <3> QED BY <1>2, <1>6, <3>1 DEF NoneOf
  <2>2. CASE NoneOf(q, i, n)
    <3>1. NoneOf(q, i, m)
      BY <2>1, <2>2 DEF NoneOf
    <3> QED BY <2>2, <3>1 DEF Reads, m
  <2>3. CASE ~NoneOf(q, i, n)
    <3>1. PICK k \in 1 .. n : q[k].id = i
      BY <2>3 DEF NoneOf
    <3>2. PICK j \in 1 .. n : q[j].id = i /\ LastOf(q, j, n)
      BY <1>1, <3>1, LastThere
    <3>3. LastOf(q, j, m) /\ j \in 1 .. m
      BY <1>3, <2>1, <3>2 DEF LastOf
    <3>4. OkAt(sh, q[j].id, q[j].who)
      BY <3>3 DEF Reads, m
    <3> QED BY <3>2, <3>4
  <2> QED BY <2>2, <2>3
<1>7. ASSUME NEW k \in 1 .. c, LastOf(b, k, c) PROVE OkAt(sh, b[k].id, b[k].who)
  <2> DEFINE l == n + k
  <2>1. l \in 1 .. m /\ b[k] = q[l]
    BY <1>2, <1>4
  <2>2. ASSUME NEW j \in 1 .. m, j > l PROVE q[j].id # q[l].id
    <3>1. j \notin 1 .. n
      BY <1>1, <2>2
    <3> DEFINE d == j - n
    <3>2. d \in 1 .. c /\ n + d = j
      BY <1>5, <3>1
    <3>3. d > k
      BY <1>1, <2>2
    <3> HIDE DEF d, l
    <3> QED BY <1>2, <1>7, <2>1, <3>2, <3>3 DEF LastOf
  <2>3. LastOf(q, l, m)
    BY <2>2 DEF LastOf
  <2> HIDE DEF l
  <2>4. OkAt(sh, q[l].id, q[l].who)
    BY <2>1, <2>3 DEF Reads, m
  <2> QED BY <2>1, <2>4
<1>8. Reads(sh, b, x)
  BY <1>2, <1>6, <1>7 DEF Reads
<1> QED BY <1>8 DEF b, m

\* The client reads a snapshot or none, and then n events of the lane.
LEMMA ReadInv ==
  ASSUME ViewInv, linked, UNCHANGED server, NEW heard, heard = [i \in Slot |-> heard[i]],
         NEW n \in 0 .. Len(lane), Read(heard, n)
  PROVE  ViewInv'
<1> DEFINE U == {heard[i] : i \in Slot} \cup {Unheard}
           c0 == [history |-> heard, roster |-> roster, lock |-> lock]
           a == SubSeq(lane, 1, n)
           c == HandledAll(c0, a)
<1>1. /\ Good(world) /\ ShipsOK /\ PreviousOK /\ TypesOK /\ OutsideOK /\ RosterOK /\ LockOK
      /\ lane \in Seq(Event) /\ roster \in [Slot -> Owner] /\ lock \in Slot \cup {NoSlot}
  BY DEF ViewInv, TypesOK
<1>2. /\ history' = EvictStale(c.history) /\ roster' = c.roster /\ lock' = c.lock
      /\ picked' = IF c.lock = NoSlot THEN NoPick ELSE picked
      /\ lane' = SubSeq(lane, n + 1, Len(lane))
  BY DEF Read, HandledAll
<1>3. UNCHANGED <<world, ship, seen, linked, previous, phase>>
  BY DEF server
<1>4. /\ a \in Seq(Event) /\ Len(a) = n /\ DOMAIN a = 1 .. n /\ n \in Nat
      /\ \A k \in 1 .. n : a[k] = lane[k] /\ a[k] \in Event
      /\ lane' \in Seq(Event) /\ Len(lane') = Len(lane) - n
      /\ \A k \in 1 .. Len(lane) - n : lane'[k] = lane[n + k]
  BY <1>1, <1>2, CutIs
<1>5. Unheard \in U /\ c0 \in Client(U) /\ c0.roster = roster /\ c0.lock = lock
  <2>1. heard \in [Slot -> U]
    OBVIOUS
  <2> HIDE DEF U
  <2> QED BY <1>1, <2>1 DEF Client, U
<1> HIDE DEF U, c0, a
<1>6. /\ c \in Client(U)
      /\ \A i \in Slot : NoneOf(a, i, n) => c.roster[i] = roster[i]
      /\ \A k \in 1 .. n : LastOf(a, k, n) => c.roster[a[k].id] = a[k].who
      /\ c.lock \in {lock, NoSlot}
      /\ \A k \in 1 .. n : a[k].msg # "info" /\ a[k].id = lock => c.lock = NoSlot
  <2>1. \A k \in 1 .. n : a[k] \in Event
    BY <1>4
  <2>2. LET x == HandledAll(c0, a) IN
        /\ x \in Client(U)
        /\ \A i \in Slot : NoneOf(a, i, n) => x.roster[i] = c0.roster[i]
        /\ \A k \in 1 .. n : LastOf(a, k, n) => x.roster[a[k].id] = a[k].who
        /\ x.lock \in {c0.lock, NoSlot}
        /\ \A k \in 1 .. n : a[k].msg # "info" /\ a[k].id = c0.lock => x.lock = NoSlot
    <3>1. n \in Nat /\ DOMAIN a = 1 .. n
      BY <1>4
    <3> QED BY ONLY <1>5, <2>1, <3>1, EventsHandled, Zenon
  <2> QED BY <1>5, <2>2
<1> HIDE DEF c
<1>7. c.roster \in [Slot -> Owner] /\ c.lock \in Slot \cup {NoSlot}
  BY <1>6 DEF Client
<1>8. TypesOK' /\ OutsideOK' /\ PreviousOK'
  <2>1. history' = [i \in Slot |-> history'[i]]
    BY <1>2 DEF EvictStale
  <2>2. TypesOK'
    BY <1>1, <1>2, <1>3, <1>4, <1>7, <2>1 DEF TypesOK
  <2> QED BY <1>1, <1>3, <2>2 DEF OutsideOK, PreviousOK
<1>9. RosterOK'
  <2>1. \A i \in Slot : NoneOf(lane, i, n) => c.roster[i] = roster[i]
    BY <1>4, <1>6 DEF NoneOf
  <2>2. ASSUME NEW k \in 1 .. n, LastOf(lane, k, n) PROVE c.roster[lane[k].id] = lane[k].who
    <3>1. \A j \in 1 .. n : a[j] = lane[j]
      BY <1>4
    <3>2. LastOf(a, k, n)
      BY <2>2, <3>1 DEF LastOf
    <3> QED BY <1>6, <3>1, <3>2
  <2>3. Reads(ship, lane, roster)
    BY <1>1 DEF RosterOK
  <2>4. Reads(ship, SubSeq(lane, n + 1, Len(lane)), c.roster)
    BY <1>1, <2>1, <2>2, <2>3, ReadsLess
  <2> QED BY <1>2, <1>3, <2>4 DEF RosterOK
<1>10. LockOK'
  <2>1. CASE c.lock = NoSlot
    <3>1. picked' = NoPick /\ NoPick.of = NoPlayer
      BY <1>2, <2>1 DEF NoPick
    <3> QED BY <3>1 DEF LockOK
  <2>2. CASE c.lock # NoSlot
    <3>1. lock' = lock /\ picked' = picked
      BY <1>2, <1>6, <2>2
    <3>2. ASSUME picked.of # NoPlayer, Ends(lane, picked.ship.index)
          PROVE  Ends(lane', picked.ship.index)
      <4>1. PICK k \in 1 .. Len(lane) : lane[k].msg # "info" /\ lane[k].id = picked.ship.index
        BY <3>2 DEF Ends
      <4>2. lock = picked.ship.index
        BY <1>1, <3>2 DEF LockOK, NoPick
      <4>3. k \notin 1 .. n
        BY <1>4, <1>6, <2>2, <4>1, <4>2
      <4> DEFINE j == k - n
      <4>4. j \in 1 .. Len(lane) - n /\ n + j = k
        BY <1>1, <4>1, <4>3
      <4> HIDE DEF j
      <4> QED BY <1>4, <4>1, <4>4 DEF Ends
    <3> QED BY <1>1, <1>3, <3>1, <3>2 DEF LockOK, Held
  <2> QED BY <2>1, <2>2
<1>11. Good(world') /\ ShipsOK'
  BY <1>1, <1>3 DEF ShipsOK
<1> QED BY <1>8, <1>9, <1>10, <1>11 DEF ViewInv

LEMMA FramesInv ==
  ASSUME ViewInv, (\E s \in snaps : FrameWith(s)) \/ FrameWithout
  PROVE  ViewInv'
<1>1. CASE \E s \in snaps : FrameWith(s)
  <2>1. PICK s \in snaps : FrameWith(s)
    BY <1>1
  <2>2. linked /\ UNCHANGED server
    BY <2>1 DEF FrameWith, ViewInv, OutsideOK, TypesOK
  <2>3. PICK n \in 0 .. Len(lane) : Read(Ingest(s), n)
    BY <2>1 DEF FrameWith
  <2>4. Ingest(s) = [i \in Slot |-> Ingest(s)[i]]
    BY DEF Ingest
  <2> QED BY <2>2, <2>3, <2>4, ReadInv
<1>2. CASE FrameWithout
  <2>1. PICK n \in 1 .. Len(lane) : Read(history, n)
    BY <1>2 DEF FrameWithout
  <2>2. lane \in Seq(Event) /\ n \in 0 .. Len(lane) /\ lane # <<>>
    BY <2>1 DEF ViewInv, TypesOK
  <2>3. linked /\ UNCHANGED server /\ history = [i \in Slot |-> history[i]]
    BY <1>2, <2>2 DEF FrameWithout, ViewInv, OutsideOK, TypesOK
  <2> QED BY <2>1, <2>2, <2>3, ReadInv
<1> QED BY <1>1, <1>2

\* The lock is set on a ship that is drawn, whether it is still there or not.
LEMMA SetLockInv ==
  ASSUME ViewInv, NEW i \in Slot, SetLock(i)
  PROVE  ViewInv'
<1> DEFINE there == [index |-> i, gen |-> history[i].gen]
           who == Get(world, "owner", there).of
<1>1. /\ UNCHANGED <<world, ship, seen, linked, previous, phase, lane, snaps, history, roster>>
      /\ history[i] # Unheard /\ lock' = i
      /\ picked' = IF IsValid(world, there) THEN [ship |-> there, of |-> who] ELSE NoPick
  BY DEF SetLock, server
<1>2. /\ Good(world) /\ ShipsOK /\ PreviousOK /\ TypesOK /\ OutsideOK /\ RosterOK
  BY DEF ViewInv
<1>3. linked
  BY <1>1, <1>2 DEF OutsideOK, TypesOK
<1>4. TypesOK' /\ OutsideOK' /\ PreviousOK' /\ RosterOK'
  BY <1>1, <1>2, <1>3 DEF TypesOK, OutsideOK, PreviousOK, RosterOK
<1>5. LockOK'
  <2>1. CASE IsValid(world, there)
    <3>1. picked' = [ship |-> there, of |-> who] /\ there.index = i
      BY <1>1, <2>1
    <3>2. i \in world.alive
      BY <2>1 DEF IsValid
    <3>3. world.pool["owner"][i] \in [of : Owner]
      <4>1. world.pool["owner"][i] \in Tag /\ world.pool["owner"][i] # Absent
        BY <1>2, <3>2, OwnerPool DEF Good, World
      <4> QED BY <4>1 DEF Tag
    <3>4. who = world.pool["owner"][i].of
      BY DEF Get
    <3>5. world.pool["owner"][i] = [of |-> who]
      BY <3>3, <3>4
    <3> HIDE DEF who, there
    <3>6. picked'.ship = there /\ picked'.of = who
      BY <3>1
    <3>7. Held(world', picked')
      BY <1>1, <2>1, <3>1, <3>5, <3>6 DEF Held
    <3> QED BY <1>1, <3>1, <3>6, <3>7 DEF LockOK
  <2>2. CASE ~IsValid(world, there)
    <3>1. picked' = NoPick /\ NoPick.of = NoPlayer
      BY <1>1, <2>2 DEF NoPick
    <3> QED BY <3>1 DEF LockOK
  <2> QED BY <2>1, <2>2
<1>6. Good(world') /\ ShipsOK'
  BY <1>1, <1>2 DEF ShipsOK
<1> QED BY <1>4, <1>5, <1>6 DEF ViewInv

-----------------------------------------------------------------------------
LEMMA ViewSteps == ViewInv /\ [ViewNext]_viewVars => ViewInv'
<1> SUFFICES ASSUME ViewInv, [ViewNext]_viewVars PROVE ViewInv'
  OBVIOUS
<1>1. CASE UNCHANGED viewVars
  BY <1>1 DEF viewVars, server, client, ViewInv, ShipsOK, PreviousOK, TypesOK, OutsideOK, RosterOK, LockOK
<1>2. CASE ViewNext
  <2>1. CASE \E p \in Player : OnHello(p)
    BY <2>1, OnHelloInv
  <2>2. CASE OnReliable
    BY <2>2, OnReliableInv
  <2>3. CASE \E i \in Slot : OnEntityKilled(LiveEntity(world, i)) \/ Vanish(LiveEntity(world, i))
    BY <2>3, OnEntityKilledInv, VanishInv
  <2>4. CASE Spawn
    BY <2>4, SpawnInv
  <2>5. CASE RunTick \/ AdvanceSimulation \/ ResolveKills
    BY <2>5, PhasesInv
  <2>6. CASE ReapAndDespawn
    BY <2>6, ReapAndDespawnInv
  <2>7. CASE \E sent \in BOOLEAN : PublishState(sent)
    BY <2>7, PublishStateInv
  <2>8. CASE (\E s \in snaps : FrameWith(s)) \/ FrameWithout
    BY <2>8, FramesInv
  <2>9. CASE \E i \in Slot : SetLock(i)
    BY <2>9, SetLockInv
  <2> QED BY <1>2, <2>1, <2>2, <2>3, <2>4, <2>5, <2>6, <2>7, <2>8, <2>9 DEF ViewNext
<1> QED BY <1>1, <1>2

LEMMA ViewInvMeans == ViewInv => RosterTrue /\ LockLetsGo
<1> SUFFICES ASSUME ViewInv, Told PROVE RosterTrue /\ LockLetsGo
  BY DEF RosterTrue, LockLetsGo
<1>1. /\ Good(world) /\ ShipsOK /\ TypesOK /\ RosterOK /\ LockOK
      /\ lane = <<>> /\ ship[Me] # NoEntity
  BY DEF ViewInv, Told
<1>2. ASSUME NEW i \in Slot PROVE OkAt(ship, i, roster[i]) /\ roster[i] \in Owner
  BY <1>1, <1>2 DEF RosterOK, Reads, NoneOf, TypesOK
<1> DEFINE names == [i \in Slot |-> IF \E p \in Player : ship[p].index = i
                                    THEN CHOOSE p \in Player : ship[p].index = i
                                    ELSE NoPlayer]
<1>3. ASSUME NEW i \in Slot PROVE roster[i] = names[i]
  <2>1. CASE \E p \in Player : ship[p].index = i
    <3> DEFINE p == CHOOSE p \in Player : ship[p].index = i
    <3>1. p \in Player /\ ship[p].index = i
      BY <2>1
    <3>2. names[i] = p
      BY <2>1
    <3> HIDE DEF p, names
    <3> QED BY <1>1, <1>2, <3>1, <3>2 DEF OkAt
  <2>2. CASE ~\E p \in Player : ship[p].index = i
    BY <1>2, <2>2 DEF OkAt, Owner
  <2> QED BY <2>1, <2>2
<1>4. roster = names
  <2>1. roster \in [Slot -> Owner] /\ names = [i \in Slot |-> names[i]]
    BY <1>1 DEF TypesOK
  <2> HIDE DEF names
  <2> QED BY <1>3, <2>1
<1>5. picked.of # NoPlayer => IsValid(world, picked.ship)
  BY <1>1 DEF LockOK, Held, Ends
<1> QED BY <1>4, <1>5 DEF RosterTrue, LockLetsGo

(* The world's ships, the tick's last list, what waits on the lane, the     *)
(* roster and the lock fit together in every state of the view.             *)
THEOREM ViewInvariant == ViewSpec => []ViewInv
BY ViewStarts, ViewSteps, PTL DEF ViewSpec

(* Once every event has been handled, the roster names the players who are  *)
(* there, each at the ship that is theirs, and nobody else: the infos and   *)
(* the ends of ships are sent in the order the slots changed hands          *)
(* (GameServer.cpp FinishLoadedSpawn, ReapAndDespawn).                      *)
THEOREM RosterIsTrue == ViewSpec => []RosterTrue
BY ViewInvariant, ViewInvMeans, PTL

(* A lock set on a player's ship is let go when that player has left, and   *)
(* never passes to the ship that has the slot next.                         *)
THEOREM LockIsLetGo == ViewSpec => []LockLetsGo
BY ViewInvariant, ViewInvMeans, PTL
=============================================================================
