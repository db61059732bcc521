------------------------ MODULE ReliableChannelProofs ------------------------
(***************************************************************************)
(* Proofs about ReliableChannel, for every pair of peers, every set of     *)
(* message contents and every bound.                                       *)
(***************************************************************************)
EXTENDS ReliableChannel, SequenceTheorems, TLAPS

USE DEF EmptyMap

LEMMA OtherPeer ==
  ASSUME NEW p \in Peer
  PROVE  /\ Other(p) \in Peer
         /\ Other(p) # p
         /\ Other(Other(p)) = p
         /\ \A q \in Peer : q = p \/ q = Other(p)
<1>1. PICK a \in Peer, b \in Peer : a # b /\ Peer = {a, b}
  BY PeerAssumption
<1>2. \A r \in Peer : Other(r) \in Peer /\ Other(r) # r
  BY <1>1 DEF Other
<1>3. QED
  BY <1>1, <1>2

-----------------------------------------------------------------------------
(***************************************************************************)
(* Type correctness.                                                       *)
(***************************************************************************)
LEMMA PartialMapMembership ==
  ASSUME NEW f \in PartialMap
  PROVE  /\ DOMAIN f \in SUBSET (1..MaxSent)
         /\ \A s \in DOMAIN f : f[s] \in Msg
         /\ f = [s \in DOMAIN f |-> f[s]]
BY DEF PartialMap

LEMMA PartialMapIntro ==
  ASSUME NEW f, f = [s \in DOMAIN f |-> f[s]],
         DOMAIN f \subseteq 1..MaxSent,
         \A s \in DOMAIN f : f[s] \in Msg
  PROVE  f \in PartialMap
<1>1. f \in [DOMAIN f -> Msg]
  OBVIOUS
<1>2. QED
  BY <1>1 DEF PartialMap

(* Reading a datagram leaves well-typed messages to deliver and to buffer. *)
LEMMA ReadTypes ==
  ASSUME NEW buf \in PartialMap, NEW msgs \in PartialMap,
         NEW expected \in 1..(MaxSent + 1), NEW next \in 1..(MaxSent + 1),
         IsNextGap(next, expected, InHand(expected, buf, msgs))
  PROVE  /\ Delivered(next, expected, buf, msgs) \in Seq(Msg)
         /\ Len(Delivered(next, expected, buf, msgs)) = next - expected
         /\ StillBuffered(next, expected, buf, msgs) \in PartialMap
<1> USE MaxSentAssumption
<1>1. /\ DOMAIN buf \subseteq 1..MaxSent
      /\ DOMAIN msgs \subseteq 1..MaxSent
      /\ \A s \in InHand(expected, buf, msgs) : Copy(buf, msgs, s) \in Msg
  BY PartialMapMembership DEF InHand, Copy
<1>2. \A i \in 1..(next - expected) :
        expected + i - 1 \in InHand(expected, buf, msgs)
  BY DEF IsNextGap
<1>3. next - expected \in Nat
  BY DEF IsNextGap
<1>4. Delivered(next, expected, buf, msgs) \in [1..(next - expected) -> Msg]
  BY <1>1, <1>2 DEF Delivered
<1>5. /\ Delivered(next, expected, buf, msgs) \in Seq(Msg)
      /\ Len(Delivered(next, expected, buf, msgs)) = next - expected
  BY <1>3, <1>4
<1>6. StillBuffered(next, expected, buf, msgs) \in PartialMap
  <2> DEFINE f == StillBuffered(next, expected, buf, msgs)
  <2>1. DOMAIN f = {t \in InHand(expected, buf, msgs) : t > next}
    BY DEF StillBuffered
  <2>2. f = [s \in DOMAIN f |-> f[s]]
    BY <2>1 DEF StillBuffered
  <2>3. DOMAIN f \subseteq 1..MaxSent
    BY <2>1, <1>1 DEF InHand
  <2>4. \A s \in DOMAIN f : f[s] \in Msg
    BY <2>1, <1>1 DEF StillBuffered
  <2>5. QED
    BY <2>2, <2>3, <2>4, PartialMapIntro
<1>7. QED
  BY <1>5, <1>6

(* Both channels start empty. *)
LEMMA TypeInit == Init => TypeOK
<1>1. EmptyMap \in PartialMap
  BY PartialMapIntro
<1>2. QED
  BY <1>1, MaxSentAssumption DEF Init, TypeOK

(* No step takes a field out of its type.                                  *)
LEMMA TypeStep == TypeOK /\ [Next]_vars => TypeOK'
<1> USE MaxSentAssumption
<1> SUFFICES ASSUME TypeOK, [Next]_vars
             PROVE  TypeOK'
  OBVIOUS
<1>1. ASSUME NEW p \in Peer, NEW m \in Msg, Send(p, m)
      PROVE  TypeOK'
  <2>1. Insert(unacked[p], nextSeq[p], m) \in PartialMap
    <3> DEFINE f == Insert(unacked[p], nextSeq[p], m)
    <3>1. unacked[p] \in PartialMap /\ nextSeq[p] \in 1..MaxSent
      BY <1>1 DEF TypeOK, Send
    <3>2. DOMAIN f = DOMAIN unacked[p] \cup {nextSeq[p]}
      BY DEF Insert
    <3>3. f = [s \in DOMAIN f |-> f[s]]
      BY <3>2 DEF Insert
    <3>4. DOMAIN f \subseteq 1..MaxSent
      BY <3>1, <3>2, PartialMapMembership
    <3>5. \A s \in DOMAIN f : f[s] \in Msg
      BY <3>1, <3>2, PartialMapMembership DEF Insert
    <3>6. QED
      BY <3>3, <3>4, <3>5, PartialMapIntro
  <2>2. QED
    BY <1>1, <2>1 DEF TypeOK, Send
<1>2. ASSUME NEW p \in Peer, WritePacket(p)
      PROVE  TypeOK'
  <2>1. PICK chosen \in SUBSET DOMAIN unacked[p] :
          net' = [net EXCEPT ![Other(p)] =
                    @ \cup {Datagram(nextExpected[p], unacked[p], chosen)}]
    BY <1>2 DEF WritePacket
  <2>2. [s \in chosen |-> unacked[p][s]] \in PartialMap
    <3> DEFINE f == [s \in chosen |-> unacked[p][s]]
    <3>1. unacked[p] \in PartialMap
      BY DEF TypeOK
    <3>2. DOMAIN f \subseteq 1..MaxSent /\ \A s \in DOMAIN f : f[s] \in Msg
      BY <3>1, PartialMapMembership
    <3>3. QED
      BY <3>2, PartialMapIntro
  <2>3. Datagram(nextExpected[p], unacked[p], chosen)
          \in [ack : 0..MaxSent, msgs : PartialMap]
    BY <2>2 DEF TypeOK, Datagram
  <2>4. QED
    BY <1>2, <2>1, <2>3, OtherPeer DEF TypeOK, WritePacket
<1>3. ASSUME NEW p \in Peer, NEW d \in net[p], Deliver(p, d)
      PROVE  TypeOK'
  <2>1. d \in [ack : 0..MaxSent, msgs : PartialMap]
    BY DEF TypeOK
  <2>2. DropAcked(unacked[p], d.ack) \in PartialMap
    <3> DEFINE f == DropAcked(unacked[p], d.ack)
    <3>1. unacked[p] \in PartialMap
      BY DEF TypeOK
    <3>2. /\ DOMAIN f = {t \in DOMAIN unacked[p] : t > d.ack}
          /\ f = [s \in DOMAIN f |-> f[s]]
      BY DEF DropAcked
    <3>3. DOMAIN f \subseteq 1..MaxSent /\ \A s \in DOMAIN f : f[s] \in Msg
      BY <3>1, <3>2, PartialMapMembership DEF DropAcked
    <3>4. QED
      BY <3>2, <3>3, PartialMapIntro
  <2>3. PICK next \in 1..(MaxSent + 1) :
          /\ IsNextGap(next, nextExpected[p],
                       InHand(nextExpected[p], buffered[p], d.msgs))
          /\ nextExpected' = [nextExpected EXCEPT ![p] = next]
          /\ ready' = [ready EXCEPT ![p] =
               @ \o Delivered(next, nextExpected[p], buffered[p], d.msgs)]
          /\ buffered' = [buffered EXCEPT ![p] =
               StillBuffered(next, nextExpected[p], @, d.msgs)]
    BY <1>3 DEF Deliver, ReadPacket
  <2>4. /\ Delivered(next, nextExpected[p], buffered[p], d.msgs) \in Seq(Msg)
        /\ StillBuffered(next, nextExpected[p], buffered[p], d.msgs) \in PartialMap
    BY <2>1, <2>3, ReadTypes DEF TypeOK
  <2>5. ready[p] \o Delivered(next, nextExpected[p], buffered[p], d.msgs) \in Seq(Msg)
    BY <2>4, ConcatProperties DEF TypeOK
  <2>6. net' \in [Peer -> SUBSET [ack : 0..MaxSent, msgs : PartialMap]]
    BY <1>3 DEF Deliver, TypeOK
  <2>7. QED
    BY <1>3, <2>2, <2>3, <2>4, <2>5, <2>6 DEF TypeOK, Deliver, ReadPacket
<1>4. ASSUME NEW p \in Peer, NEW d \in net[p], Lose(p, d)
      PROVE  TypeOK'
  BY <1>4 DEF TypeOK, Lose
<1>5. ASSUME NEW p \in Peer, Receive(p)
      PROVE  TypeOK'
  <2>1. Head(ready[p]) \in Msg /\ Tail(ready[p]) \in Seq(Msg)
    BY <1>5, HeadTailProperties DEF TypeOK, Receive
  <2>2. QED
    BY <1>5, <2>1 DEF TypeOK, Receive
<1>6. CASE UNCHANGED vars
  BY <1>6 DEF TypeOK, vars
<1>7. QED
  BY <1>1, <1>2, <1>3, <1>4, <1>5, <1>6 DEF Next

(* Every field of both channels keeps its type.                            *)
THEOREM TypeCorrect == Spec => []TypeOK
BY TypeInit, TypeStep, PTL DEF Spec

-----------------------------------------------------------------------------
(***************************************************************************)
(* The inductive invariant.                                                *)
(***************************************************************************)
LEMMA InvInit == Init => ChannelInv
<1> SUFFICES ASSUME Init PROVE ChannelInv
  OBVIOUS
<1>1. TypeOK
  BY TypeInit
<1>2. QED
  BY <1>1, OtherPeer DEF Init, ChannelInv, NothingLost, BufferedPastGap,
       Numbered, Copies, InFlight, Handed

LEMMA InvSend ==
  ASSUME ChannelInv, TypeOK', NEW q \in Peer, NEW m \in Msg, Send(q, m)
  PROVE  ChannelInv'
<1> USE MaxSentAssumption
<1>1. /\ sent' = [sent EXCEPT ![q] = Append(@, m)]
      /\ nextSeq' = [nextSeq EXCEPT ![q] = @ + 1]
      /\ unacked' = [unacked EXCEPT ![q] = Insert(@, nextSeq[q], m)]
      /\ UNCHANGED <<nextExpected, buffered, ready, net, got>>
  BY DEF Send
<1>2. /\ sent \in [Peer -> Seq(Msg)]
      /\ nextSeq \in [Peer -> 1..(MaxSent + 1)]
      /\ nextExpected \in [Peer -> 1..(MaxSent + 1)]
      /\ unacked \in [Peer -> PartialMap]
      /\ ready \in [Peer -> Seq(Msg)]
      /\ got \in [Peer -> Seq(Msg)]
  BY DEF ChannelInv, TypeOK
(* What has been sent stays: sent only grows, at its end. *)
<1>3. \A p \in Peer : /\ Len(sent[p]) \in Nat
                     /\ Len(sent'[p]) >= Len(sent[p])
                     /\ \A s \in 1..Len(sent[p]) : sent'[p][s] = sent[p][s]
  BY <1>1, <1>2
<1>4. /\ Len(sent'[q]) = Len(sent[q]) + 1
      /\ sent'[q][nextSeq[q]] = m
      /\ nextSeq[q] = Len(sent[q]) + 1
  BY <1>1, <1>2 DEF ChannelInv, Numbered
<1>5. ASSUME NEW map, NEW p \in Peer, Copies(map, p)
      PROVE  \A s \in DOMAIN map : s \in 1..Len(sent'[p]) /\ map[s] = sent'[p][s]
  BY <1>3, <1>5 DEF Copies
<1>6. ASSUME NEW p \in Peer
      PROVE  /\ Numbered(p)'
             /\ Copies(unacked[p], p)'
             /\ Copies(buffered[p], Other(p))'
             /\ InFlight(p)'
             /\ Handed(p)'
  <2>1. Other(p) \in Peer
    BY OtherPeer
  <2>2. Numbered(p)'
    BY <1>1, <1>2, <1>4, <2>1 DEF ChannelInv, Numbered
  <2>3. Copies(unacked[p], p)'
    <3>1. \A s \in DOMAIN unacked[p] : s \in 1..Len(sent'[p])
                                       /\ unacked[p][s] = sent'[p][s]
      BY <1>5 DEF ChannelInv
    <3>2. CASE p # q
      BY <1>1, <1>2, <3>1, <3>2 DEF Copies
    <3>3. CASE p = q
      <4>1. unacked'[p] = Insert(unacked[p], nextSeq[q], m)
        BY <1>1, <1>2, <3>3
      <4>2. QED
        BY <1>3, <1>4, <3>1, <3>3, <4>1 DEF Copies, Insert
    <3>4. QED
      BY <3>2, <3>3
  <2>4. Copies(buffered[p], Other(p))'
    BY <1>1, <1>5, <2>1 DEF ChannelInv, Copies
  <2>5. InFlight(p)'
    <3>1. \A d \in net[p] : d.ack < nextExpected[Other(p)] /\ Copies(d.msgs, Other(p))
      BY DEF ChannelInv, InFlight
    <3>2. \A d \in net[p] : \A s \in DOMAIN d.msgs :
            s \in 1..Len(sent'[Other(p)]) /\ d.msgs[s] = sent'[Other(p)][s]
      BY <1>5, <2>1, <3>1
    <3>3. QED
      BY <1>1, <3>1, <3>2 DEF InFlight, Copies
  <2>6. Handed(p)'
    <3>1. /\ Handed(p)
          /\ nextExpected[p] <= Len(sent[Other(p)]) + 1
      BY <2>1, OtherPeer DEF ChannelInv, Numbered
    <3>2. Len(got[p]) \in Nat /\ Len(ready[p]) \in Nat /\ nextExpected[p] \in Nat
      BY <1>2
    <3> DEFINE other == Other(p)
               g == Len(got[p])
               r == Len(ready[p])
    <3>3. /\ g + r = nextExpected[p] - 1
          /\ \A i \in 1..g : got[p][i] = sent[other][i]
          /\ \A i \in 1..r : ready[p][i] = sent[other][g + i]
      BY <3>1 DEF Handed
    <3>4. /\ Len(sent[other]) \in Nat
          /\ nextExpected[p] <= Len(sent[other]) + 1
          /\ \A s \in 1..Len(sent[other]) : sent'[other][s] = sent[other][s]
      BY <1>3, <2>1, <3>1
    <3> HIDE DEF other, g, r
    <3>5. /\ \A i \in 1..g : got[p][i] = sent'[other][i]
          /\ \A i \in 1..r : ready[p][i] = sent'[other][g + i]
      <4>1. g \in Nat /\ r \in Nat /\ nextExpected[p] \in Nat
        BY <3>2 DEF g, r
      <4>2. g + r <= Len(sent[other])
        BY <3>3, <3>4, <4>1
      <4>3. /\ \A i \in 1..g : i \in 1..Len(sent[other])
            /\ \A i \in 1..r : g + i \in 1..Len(sent[other])
        BY <3>4, <4>1, <4>2
      <4>4. QED
        BY <3>3, <3>4, <4>3
    <3>6. QED
      BY <1>1, <3>3, <3>5 DEF Handed, other, g, r
  <2>7. QED
    BY <2>2, <2>3, <2>4, <2>5, <2>6
<1>7. NothingLost'
  <2> SUFFICES ASSUME NEW p \in Peer, NEW s \in nextExpected[Other(p)]..Len(sent'[p])
               PROVE  s \in DOMAIN unacked'[p] /\ unacked'[p][s] = sent'[p][s]
    BY <1>1 DEF NothingLost
  <2>1. CASE p # q
    BY <1>1, <1>2, <2>1 DEF ChannelInv, NothingLost
  <2>2. CASE p = q /\ s = nextSeq[q]
    BY <1>1, <1>2, <1>4, <2>2 DEF Insert
  <2>3. CASE p = q /\ s # nextSeq[q]
    <3>1. s \in nextExpected[Other(p)]..Len(sent[p])
      BY <1>2, <1>3, <1>4, <2>3, OtherPeer
    <3>2. s \in DOMAIN unacked[p] /\ unacked[p][s] = sent[p][s]
      BY <3>1 DEF ChannelInv, NothingLost
    <3>3. s \in 1..Len(sent[p])
      BY <1>2, <3>1, OtherPeer
    <3>4. QED
      BY <1>1, <1>2, <1>3, <2>3, <3>2, <3>3 DEF Insert
  <2>4. QED
    BY <2>1, <2>2, <2>3
<1>8. BufferedPastGap'
  <2> SUFFICES ASSUME NEW p \in Peer, NEW s \in DOMAIN buffered[p]
               PROVE  s > nextExpected[p] /\ buffered[p][s] = sent'[Other(p)][s]
    BY <1>1 DEF BufferedPastGap
  <2>1. s > nextExpected[p] /\ Copies(buffered[p], Other(p))
    BY DEF ChannelInv, BufferedPastGap
  <2>2. QED
    BY <1>5, <2>1, OtherPeer
<1>9. QED
  BY <1>6, <1>7, <1>8 DEF ChannelInv

LEMMA InvWrite ==
  ASSUME ChannelInv, TypeOK', NEW q \in Peer, WritePacket(q)
  PROVE  ChannelInv'
<1>1. PICK chosen \in SUBSET DOMAIN unacked[q] :
        net' = [net EXCEPT ![Other(q)] =
                  @ \cup {Datagram(nextExpected[q], unacked[q], chosen)}]
  BY DEF WritePacket
<1>2. UNCHANGED <<nextSeq, unacked, nextExpected, buffered, ready, sent, got>>
  BY DEF WritePacket
<1>3. /\ net \in [Peer -> SUBSET [ack : 0..MaxSent, msgs : PartialMap]]
      /\ nextExpected \in [Peer -> 1..(MaxSent + 1)]
  BY DEF ChannelInv, TypeOK
<1>4. /\ NothingLost' /\ BufferedPastGap'
      /\ \A p \in Peer : /\ Numbered(p)' /\ Handed(p)'
                         /\ Copies(unacked[p], p)'
                         /\ Copies(buffered[p], Other(p))'
  BY <1>2 DEF ChannelInv, NothingLost, BufferedPastGap, Numbered, Handed, Copies
<1>5. ASSUME NEW p \in Peer
      PROVE  InFlight(p)'
  <2>1. \A d \in net[p] : d.ack < nextExpected[Other(p)] /\ Copies(d.msgs, Other(p))
    BY DEF ChannelInv, InFlight
  <2>2. CASE p # Other(q)
    BY <1>1, <1>2, <1>3, <2>1, <2>2 DEF InFlight, Copies
  <2>3. CASE p = Other(q)
    <3> DEFINE d == Datagram(nextExpected[q], unacked[q], chosen)
    <3>1. Other(p) = q
      BY <2>3, OtherPeer
    <3>2. d.ack = nextExpected[q] - 1 /\ Copies(d.msgs, q)
      BY DEF Datagram, ChannelInv, Copies
    <3>3. d.ack < nextExpected[q]
      BY <1>3, <3>2
    <3>4. net'[p] = net[p] \cup {d}
      BY <1>1, <1>3, <2>3
    <3>5. \A e \in net'[p] : e.ack < nextExpected[Other(p)] /\ Copies(e.msgs, Other(p))
      BY <2>1, <3>1, <3>2, <3>3, <3>4
    <3>6. QED
      BY <1>2, <3>5 DEF InFlight, Copies
  <2>4. QED
    BY <2>2, <2>3
<1>6. QED
  BY <1>4, <1>5 DEF ChannelInv

LEMMA InvLose ==
  ASSUME ChannelInv, TypeOK', NEW q \in Peer, NEW d \in net[q], Lose(q, d)
  PROVE  ChannelInv'
<1>1. /\ \A p \in Peer : net'[p] \subseteq net[p]
      /\ UNCHANGED <<nextSeq, unacked, nextExpected, buffered, ready, sent, got>>
  BY DEF Lose, ChannelInv, TypeOK
<1>2. \A p \in Peer : InFlight(p)'
  BY <1>1 DEF ChannelInv, InFlight, Copies
<1>3. QED
  BY <1>1, <1>2 DEF ChannelInv, NothingLost, BufferedPastGap, Numbered, Handed, Copies

LEMMA InvReceive ==
  ASSUME ChannelInv, TypeOK', NEW q \in Peer, Receive(q)
  PROVE  ChannelInv'
<1>1. /\ ready[q] # <<>>
      /\ got' = [got EXCEPT ![q] = Append(@, Head(ready[q]))]
      /\ ready' = [ready EXCEPT ![q] = Tail(@)]
      /\ UNCHANGED <<nextSeq, unacked, nextExpected, buffered, net, sent>>
  BY DEF Receive
<1>2. got \in [Peer -> Seq(Msg)] /\ ready \in [Peer -> Seq(Msg)]
  BY DEF ChannelInv, TypeOK
<1>3. /\ NothingLost' /\ BufferedPastGap'
      /\ \A p \in Peer : /\ Numbered(p)' /\ InFlight(p)'
                         /\ Copies(unacked[p], p)'
                         /\ Copies(buffered[p], Other(p))'
  BY <1>1 DEF ChannelInv, NothingLost, BufferedPastGap, Numbered, InFlight, Copies
<1>4. ASSUME NEW p \in Peer
      PROVE  Handed(p)'
  <2>1. Handed(p)
    BY DEF ChannelInv
  <2>2. CASE p # q
    BY <1>1, <1>2, <2>1, <2>2 DEF Handed
  <2>3. CASE p = q
    <3> DEFINE g == got[q]
               r == ready[q]
    <3>1. got'[p] = Append(g, Head(r)) /\ ready'[p] = Tail(r)
      BY <1>1, <1>2, <2>3
    <3>2. /\ g \in Seq(Msg) /\ r \in Seq(Msg) /\ r # <<>>
          /\ Len(g) \in Nat
      BY <1>1, <1>2
    <3>3. /\ Len(Tail(r)) = Len(r) - 1 /\ Len(r) \in Nat /\ Len(r) > 0
          /\ \A i \in 1..Len(Tail(r)) : Tail(r)[i] = r[i + 1]
          /\ Head(r) = r[1]
      BY <3>2, HeadTailProperties, LenProperties, EmptySeq
    <3>4. /\ Len(Append(g, Head(r))) = Len(g) + 1
          /\ \A i \in 1..Len(g) : Append(g, Head(r))[i] = g[i]
          /\ Append(g, Head(r))[Len(g) + 1] = Head(r)
      BY <3>2
    <3>5. /\ Len(g) + Len(r) = nextExpected[p] - 1
          /\ \A i \in 1..Len(g) : g[i] = sent[Other(p)][i]
          /\ \A i \in 1..Len(r) : r[i] = sent[Other(p)][Len(g) + i]
      BY <2>1, <2>3 DEF Handed
    <3> HIDE DEF g, r
    <3>6. r[1] = sent[Other(p)][Len(g) + 1]
      BY <3>3, <3>5
    <3>7. \A i \in 1..(Len(g) + 1) : Append(g, Head(r))[i] = sent[Other(p)][i]
      BY <3>2, <3>3, <3>4, <3>5, <3>6
    <3>8. \A i \in 1..Len(Tail(r)) :
            Tail(r)[i] = sent[Other(p)][(Len(g) + 1) + i]
      <4> SUFFICES ASSUME NEW i \in 1..Len(Tail(r))
                   PROVE  Tail(r)[i] = sent[Other(p)][(Len(g) + 1) + i]
        OBVIOUS
      <4>1. i + 1 \in 1..Len(r) /\ Len(g) + (i + 1) = (Len(g) + 1) + i
        BY <3>2, <3>3
      <4>2. QED
        BY <3>3, <3>5, <4>1
    <3>9. (Len(g) + 1) + Len(Tail(r)) = Len(g) + Len(r)
      BY <3>2, <3>3
    <3>10. QED
      BY <1>1, <3>1, <3>4, <3>5, <3>7, <3>8, <3>9 DEF Handed
  <2>4. QED
    BY <2>2, <2>3
<1>5. QED
  BY <1>3, <1>4 DEF ChannelInv

(* What reading a datagram delivers and buffers are copies of what the     *)
(* other peer sent, and the run delivered ends inside it.                  *)
LEMMA ReadCopies ==
  ASSUME NEW q \in Peer, NEW buf, NEW msgs,
         NEW expected \in Nat, NEW next \in Nat,
         Len(sent[q]) \in Nat, expected >= 1, expected <= Len(sent[q]) + 1,
         Copies(buf, q), Copies(msgs, q),
         IsNextGap(next, expected, InHand(expected, buf, msgs))
  PROVE  /\ expected <= next /\ next <= Len(sent[q]) + 1
         /\ \A i \in 1..(next - expected) :
              Delivered(next, expected, buf, msgs)[i] = sent[q][expected + i - 1]
         /\ Copies(StillBuffered(next, expected, buf, msgs), q)
         /\ \A s \in DOMAIN StillBuffered(next, expected, buf, msgs) : s > next
<1>1. \A s \in InHand(expected, buf, msgs) :
        s \in 1..Len(sent[q]) /\ Copy(buf, msgs, s) = sent[q][s]
  BY DEF Copies, InHand, Copy
<1>2. expected <= next /\ expected..(next - 1) \subseteq InHand(expected, buf, msgs)
  BY DEF IsNextGap
<1>3. next <= Len(sent[q]) + 1
  <2>1. CASE next = expected
    BY <2>1
  <2>2. CASE next # expected
    <3>1. next - 1 \in expected..(next - 1)
      BY <1>2, <2>2
    <3>2. QED
      BY <1>1, <1>2, <3>1
  <2>3. QED
    BY <2>1, <2>2
<1>4. ASSUME NEW i \in 1..(next - expected)
      PROVE  Delivered(next, expected, buf, msgs)[i] = sent[q][expected + i - 1]
  <2>1. expected + i - 1 \in expected..(next - 1)
    BY <1>2
  <2>2. QED
    BY <1>1, <1>2, <2>1 DEF Delivered
<1>5. /\ Copies(StillBuffered(next, expected, buf, msgs), q)
      /\ \A s \in DOMAIN StillBuffered(next, expected, buf, msgs) : s > next
  BY <1>1 DEF Copies, StillBuffered
<1>6. QED
  BY <1>2, <1>3, <1>4, <1>5

LEMMA InvDeliver ==
  ASSUME ChannelInv, TypeOK', NEW q \in Peer, NEW d \in net[q], Deliver(q, d)
  PROVE  ChannelInv'
<1> USE MaxSentAssumption
<1> DEFINE other == Other(q)
           expected == nextExpected[q]
           buf == buffered[q]
<1>1. /\ unacked' = [unacked EXCEPT ![q] = DropAcked(@, d.ack)]
      /\ UNCHANGED <<nextSeq, sent, got>>
      /\ net' = net \/ net' = [net EXCEPT ![q] = @ \ {d}]
  BY DEF Deliver, ReadPacket
<1>2. PICK next \in 1..(MaxSent + 1) :
        /\ IsNextGap(next, expected, InHand(expected, buf, d.msgs))
        /\ nextExpected' = [nextExpected EXCEPT ![q] = next]
        /\ ready' = [ready EXCEPT ![q] =
                       @ \o Delivered(next, expected, buf, d.msgs)]
        /\ buffered' = [buffered EXCEPT ![q] =
                          StillBuffered(next, expected, @, d.msgs)]
  BY DEF Deliver, ReadPacket
<1>3. /\ nextExpected \in [Peer -> 1..(MaxSent + 1)]
      /\ nextSeq \in [Peer -> 1..(MaxSent + 1)]
      /\ ready \in [Peer -> Seq(Msg)] /\ got \in [Peer -> Seq(Msg)]
      /\ sent \in [Peer -> Seq(Msg)]
      /\ unacked \in [Peer -> PartialMap] /\ buffered \in [Peer -> PartialMap]
      /\ d \in [ack : 0..MaxSent, msgs : PartialMap]
      /\ net \in [Peer -> SUBSET [ack : 0..MaxSent, msgs : PartialMap]]
  BY DEF ChannelInv, TypeOK
<1>4. other \in Peer /\ Other(other) = q /\ other # q
  BY OtherPeer
<1>5. /\ Len(sent[other]) \in Nat
      /\ expected \in Nat /\ expected >= 1 /\ expected <= Len(sent[other]) + 1
  BY <1>3, <1>4 DEF ChannelInv, Numbered
<1>6. /\ d.ack < nextExpected[other]
      /\ Copies(d.msgs, other) /\ Copies(buf, other)
  BY <1>4 DEF ChannelInv, InFlight
<1>7. /\ expected <= next /\ next <= Len(sent[other]) + 1
      /\ \A i \in 1..(next - expected) :
           Delivered(next, expected, buf, d.msgs)[i] = sent[other][expected + i - 1]
      /\ Copies(StillBuffered(next, expected, buf, d.msgs), other)
      /\ \A s \in DOMAIN StillBuffered(next, expected, buf, d.msgs) : s > next
  <2>1. next \in Nat
    OBVIOUS
  <2> HIDE DEF other, expected, buf
  <2>2. QED
    BY <1>2, <1>4, <1>5, <1>6, <2>1, ReadCopies
<1>8. ASSUME NEW p \in Peer
      PROVE  /\ nextExpected[p] \in Nat /\ nextExpected'[p] \in Nat
             /\ nextExpected'[p] >= nextExpected[p]
  <2>1. next \in Nat /\ nextExpected[p] \in Nat /\ expected <= next
    BY <1>3, <1>7
  <2>2. nextExpected'[p] = IF p = q THEN next ELSE nextExpected[p]
    BY <1>2, <1>3
  <2>3. QED
    BY <2>1, <2>2
<1>9. ASSUME NEW p \in Peer
      PROVE  /\ Numbered(p)' /\ InFlight(p)'
             /\ Copies(unacked[p], p)' /\ Copies(buffered[p], Other(p))'
             /\ Handed(p)'
  <2>1. /\ Numbered(p) /\ InFlight(p) /\ Handed(p)
        /\ Copies(unacked[p], p) /\ Copies(buffered[p], Other(p))
        /\ Other(p) \in Peer /\ (p = q \/ p = other)
    BY OtherPeer DEF ChannelInv
  <2>2. Numbered(p)'
    <3>1. CASE p = q
      BY <1>1, <1>2, <1>3, <1>4, <2>1, <3>1 DEF Numbered
    <3>2. CASE p = other
      <4>1. nextExpected'[Other(p)] = next /\ nextSeq[p] = Len(sent[other]) + 1
        BY <1>2, <1>3, <1>4, <2>1, <3>2 DEF Numbered
      <4>2. QED
        BY <1>1, <1>7, <2>1, <3>2, <4>1 DEF Numbered
    <3>3. QED
      BY <2>1, <3>1, <3>2
  <2>3. InFlight(p)'
    <3>1. net'[p] \subseteq net[p]
      BY <1>1, <1>3
    <3>2. \A e \in net[p] : e.ack \in Nat /\ e.ack < nextExpected[Other(p)]
                           /\ Copies(e.msgs, Other(p))
      BY <1>3, <2>1 DEF InFlight
    <3>3. nextExpected[Other(p)] \in Nat /\ nextExpected'[Other(p)] \in Nat
      BY <1>8, <2>1
    <3>4. \A e \in net[p] : e.ack < nextExpected'[Other(p)]
      BY <1>8, <2>1, <3>2, <3>3
    <3>5. QED
      BY <1>1, <3>1, <3>2, <3>4 DEF InFlight, Copies
  <2>4. Copies(unacked[p], p)'
    BY <1>1, <1>3, <2>1 DEF Copies, DropAcked
  <2>5. Copies(buffered[p], Other(p))'
    <3>1. CASE p = q
      <4>1. buffered'[p] = StillBuffered(next, expected, buf, d.msgs)
        BY <1>2, <1>3, <3>1
      <4>2. QED
        BY <1>1, <1>7, <3>1, <4>1 DEF Copies
    <3>2. CASE p # q
      BY <1>1, <1>2, <1>3, <2>1, <3>2 DEF Copies
    <3>3. QED
      BY <3>1, <3>2
  <2>6. Handed(p)'
    <3>1. CASE p # q
      BY <1>1, <1>2, <1>3, <2>1, <3>1 DEF Handed
    <3>2. CASE p = q
      <4> DEFINE del == Delivered(next, expected, buf, d.msgs)
                 g == Len(got[q])
                 r == ready[q]
      <4>1. /\ del \in Seq(Msg) /\ Len(del) = next - expected
            /\ r \in Seq(Msg) /\ g \in Nat /\ Len(r) \in Nat
        BY <1>2, <1>3, ReadTypes
      <4>2. /\ Len(r \o del) = Len(r) + Len(del)
            /\ \A i \in 1..(Len(r) + Len(del)) : (r \o del)[i] =
                  IF i <= Len(r) THEN r[i] ELSE del[i - Len(r)]
        BY <4>1, ConcatProperties
      <4>3. /\ g + Len(r) = expected - 1
            /\ \A i \in 1..g : got[q][i] = sent[other][i]
            /\ \A i \in 1..Len(r) : r[i] = sent[other][g + i]
        BY <2>1, <3>2 DEF Handed
      <4>4. ready'[q] = r \o del /\ nextExpected'[q] = next /\ got'[q] = got[q]
        BY <1>1, <1>2, <1>3
      <4>5. \A i \in 1..(next - expected) : del[i] = sent[other][expected + i - 1]
        BY <1>7
      <4>9. /\ g \in Nat /\ Len(r) \in Nat /\ expected \in Nat /\ next \in Nat
            /\ g + Len(r) = expected - 1 /\ expected <= next
            /\ Len(del) = next - expected
        <5>1. next \in Nat
          OBVIOUS
        <5> HIDE DEF del, g, r, other, expected
        <5>2. g \in Nat /\ Len(r) \in Nat /\ Len(del) = next - expected
          BY <4>1
        <5>3. expected \in Nat /\ expected <= next
          BY <1>5, <1>7
        <5>4. g + Len(r) = expected - 1
          BY <4>3
        <5>5. QED
          BY <5>1, <5>2, <5>3, <5>4
      <4> HIDE DEF del, g, r, other, expected
      <4>6. \A i \in 1..Len(r \o del) : (r \o del)[i] = sent[other][g + i]
        <5> SUFFICES ASSUME NEW i \in 1..(Len(r) + Len(del))
                     PROVE  (r \o del)[i] = sent[other][g + i]
          BY <4>2
        <5>1. CASE i <= Len(r)
          BY <4>1, <4>2, <4>3, <5>1
        <5>2. CASE i > Len(r)
          <6>1. /\ i - Len(r) \in 1..(next - expected)
                /\ expected + (i - Len(r)) - 1 = g + i
            BY <4>9, <5>2
          <6>2. QED
            BY <4>1, <4>2, <4>5, <5>2, <6>1
        <5>3. QED
          BY <4>9, <5>1, <5>2
      <4>7. g + Len(r \o del) = next - 1
        <5>1. Len(r \o del) = Len(r) + (next - expected)
          BY <4>2, <4>9
        <5>2. QED
          BY <4>9, <5>1
      <4>8. QED
        BY <1>1, <3>2, <4>3, <4>4, <4>6, <4>7 DEF Handed, g, r, other
    <3>3. QED
      BY <3>1, <3>2
  <2>7. QED
    BY <2>2, <2>3, <2>4, <2>5, <2>6
<1>10. NothingLost'
  <2> SUFFICES ASSUME NEW p \in Peer,
                      NEW s \in nextExpected'[Other(p)]..Len(sent[p])
               PROVE  s \in DOMAIN unacked'[p] /\ unacked'[p][s] = sent[p][s]
    BY <1>1 DEF NothingLost
  <2>1. /\ Other(p) \in Peer /\ Len(sent[p]) \in Nat
        /\ nextExpected[Other(p)] \in Nat /\ nextExpected'[Other(p)] \in Nat
    BY <1>3, <1>8, OtherPeer
  <2>2. s \in nextExpected[Other(p)]..Len(sent[p])
    BY <1>8, <2>1
  <2>3. s \in DOMAIN unacked[p] /\ unacked[p][s] = sent[p][s]
    BY <2>2 DEF ChannelInv, NothingLost
  <2>4. CASE p # q
    BY <1>1, <1>3, <2>3, <2>4
  <2>5. CASE p = q
    <3>1. s > d.ack
      BY <1>3, <1>6, <2>1, <2>2, <2>5
    <3>2. QED
      BY <1>1, <1>3, <2>3, <2>5, <3>1 DEF DropAcked
  <2>6. QED
    BY <2>4, <2>5
<1>11. BufferedPastGap'
  <2> SUFFICES ASSUME NEW p \in Peer, NEW s \in DOMAIN buffered'[p]
               PROVE  /\ s > nextExpected'[p]
                      /\ buffered'[p][s] = sent[Other(p)][s]
    BY <1>1 DEF BufferedPastGap
  <2>1. CASE p = q
    <3>1. buffered'[p] = StillBuffered(next, expected, buf, d.msgs)
      BY <1>2, <1>3, <2>1
    <3>2. QED
      BY <1>2, <1>3, <1>7, <2>1, <3>1 DEF Copies
  <2>2. CASE p # q
    BY <1>2, <1>3, <2>2 DEF ChannelInv, BufferedPastGap
  <2>3. QED
    BY <2>1, <2>2
<1>12. QED
  BY <1>9, <1>10, <1>11 DEF ChannelInv

(* The channel's invariant is inductive, so it holds of every behaviour.   *)
THEOREM ChannelInvariant == Spec => []ChannelInv
<1>1. ASSUME ChannelInv, [Next]_vars PROVE ChannelInv'
  <2>1. TypeOK'
    BY <1>1, TypeStep DEF ChannelInv
  <2>2. CASE UNCHANGED vars
    BY <2>1, <2>2, <1>1 DEF vars, ChannelInv, NothingLost, BufferedPastGap,
         Numbered, Copies, InFlight, Handed
  <2>3. CASE Next
    BY <1>1, <2>1, <2>3, InvSend, InvWrite, InvDeliver, InvLose, InvReceive
       DEF Next
  <2>4. QED
    BY <1>1, <2>2, <2>3
<1>2. QED
  BY <1>1, InvInit, PTL DEF Spec

-----------------------------------------------------------------------------
(***************************************************************************)
(* What the invariant gives the users of the channel.                      *)
(***************************************************************************)
(* Exactly once and in order: the messages handed out and ready are the    *)
(* first ones the other peer sent.                                         *)
LEMMA HandedInOrder == ChannelInv => InOrderOnce
<1> SUFFICES ASSUME ChannelInv, NEW p \in Peer
             PROVE  got[p] \o ready[p]
                      = SubSeq(sent[Other(p)], 1, nextExpected[p] - 1)
  BY DEF InOrderOnce
<1> DEFINE whole == sent[Other(p)]
           n == nextExpected[p] - 1
           g == Len(got[p])
           r == Len(ready[p])
<1>1. /\ got[p] \in Seq(Msg) /\ ready[p] \in Seq(Msg) /\ whole \in Seq(Msg)
      /\ nextExpected[p] \in 1..(MaxSent + 1)
      /\ g \in Nat /\ r \in Nat /\ Len(whole) \in Nat
  BY OtherPeer DEF ChannelInv, TypeOK
<1>2. n \in Nat /\ n <= Len(whole)
  <2>1. /\ nextExpected[p] <= nextSeq[Other(p)]
        /\ nextSeq[Other(p)] = Len(whole) + 1
    BY OtherPeer DEF ChannelInv, Numbered
  <2>2. QED
    BY <1>1, <2>1, MaxSentAssumption
<1>3. /\ g + r = n
      /\ \A i \in 1..g : got[p][i] = whole[i]
      /\ \A i \in 1..r : ready[p][i] = whole[g + i]
  BY DEF ChannelInv, Handed
<1>4. /\ got[p] \o ready[p] \in Seq(Msg)
      /\ Len(got[p] \o ready[p]) = g + r
      /\ \A i \in 1..(g + r) :
           (got[p] \o ready[p])[i] =
             IF i <= g THEN got[p][i] ELSE ready[p][i - g]
  BY <1>1, ConcatProperties
<1> HIDE DEF whole, n, g, r
<1>5. g \in Nat /\ r \in Nat /\ n \in Nat /\ g + r = n
  BY <1>1, <1>2, <1>3
<1>6. \A i \in 1..n : whole[i] \in Msg
  BY <1>1, <1>2, ElementOfSeq
<1>7. /\ SubSeq(whole, 1, n) \in Seq(Msg)
      /\ Len(SubSeq(whole, 1, n)) = n
      /\ \A i \in 1..n : SubSeq(whole, 1, n)[i] = whole[i]
  <2>1. \A i \in 1..(n - 1 + 1) : SubSeq(whole, 1, n)[i] = whole[1 + i - 1]
    BY <1>2, <1>6, SubSeqProperties
  <2>2. /\ SubSeq(whole, 1, n) \in Seq(Msg)
        /\ Len(SubSeq(whole, 1, n)) = IF 1 <= n THEN n - 1 + 1 ELSE 0
    BY <1>2, <1>6, SubSeqProperties
  <2>3. QED
    BY <1>2, <2>1, <2>2
<1>8. \A i \in 1..n : (got[p] \o ready[p])[i] = SubSeq(whole, 1, n)[i]
  <2> DEFINE c == got[p] \o ready[p]
             front == SubSeq(whole, 1, n)
  <2>1. /\ \A i \in 1..(g + r) : c[i] = IF i <= g THEN got[p][i] ELSE ready[p][i - g]
        /\ \A i \in 1..n : front[i] = whole[i]
    BY <1>4, <1>7
  <2> HIDE DEF c, front
  <2>2. ASSUME NEW i \in 1..n
        PROVE  c[i] = front[i]
    <3>1. CASE i <= g
      BY <1>3, <1>5, <2>1, <3>1
    <3>2. CASE i > g
      <4>1. i - g \in 1..r /\ g + (i - g) = i
        BY <1>5, <3>2
      <4>2. QED
        BY <1>3, <1>5, <2>1, <3>2, <4>1
    <3>3. QED
      BY <1>5, <3>1, <3>2
  <2>3. QED
    BY <2>2 DEF c, front
<1>9. got[p] \o ready[p] = SubSeq(whole, 1, n)
  BY <1>3, <1>4, <1>7, <1>8, SeqEqual
<1>10. QED
  BY <1>9 DEF whole, n

(* Every behaviour of the lossy network delivers exactly once, in order.   *)
THEOREM InOrderDelivery == Spec => []InOrderOnce
BY ChannelInvariant, HandedInOrder, PTL

(* No acknowledgement, however late or repeated, loses a message.          *)
THEOREM NoMessageLost == Spec => []NothingLost
<1>1. ChannelInv => NothingLost
  BY DEF ChannelInv
<1>2. QED
  BY <1>1, ChannelInvariant, PTL

(* A message received early waits beyond the sequence it must follow.      *)
THEOREM NothingStuckInBuffer == Spec => []BufferedPastGap
<1>1. ChannelInv => BufferedPastGap
  BY DEF ChannelInv
<1>2. QED
  BY <1>1, ChannelInvariant, PTL

(***************************************************************************)
(* What the users of the lane see of each method.                          *)
(***************************************************************************)
(* Giving a message to the channel is the abstract Send.                   *)
LEMMA SendIsSeen ==
  ASSUME ChannelInv, NEW p \in Peer, NEW m \in Msg, Send(p, m)
  PROVE  Fifo!Next
<1>1. /\ Len(sent[p]) \in Nat /\ nextSeq[p] = Len(sent[p]) + 1
      /\ nextSeq[p] <= MaxSent
  BY DEF ChannelInv, TypeOK, Numbered, Send
<1>2. Len(sent[p]) < MaxSent
  BY <1>1, MaxSentAssumption
<1>3. Fifo!Send(p, m)
  BY <1>2 DEF Send, Fifo!Send
<1> QED BY <1>3 DEF Fifo!Next

(* The front of m_ready is the message the other peer sent next.           *)
LEMMA FrontIsNext ==
  ASSUME ChannelInv, NEW p \in Peer, ready[p] # <<>>
  PROVE  /\ Len(got[p]) < Len(sent[Other(p)])
         /\ Head(ready[p]) = sent[Other(p)][Len(got[p]) + 1]
<1> DEFINE g == Len(got[p])
           r == Len(ready[p])
           whole == sent[Other(p)]
<1>1. /\ got[p] \in Seq(Msg) /\ ready[p] \in Seq(Msg)
      /\ g \in Nat /\ r \in Nat /\ Len(whole) \in Nat
      /\ nextExpected[p] \in Nat
  BY OtherPeer, MaxSentAssumption DEF ChannelInv, TypeOK
<1>2. r > 0 /\ Head(ready[p]) = ready[p][1]
  BY <1>1, EmptySeq, LenProperties
<1>3. nextExpected[p] <= Len(whole) + 1
  BY OtherPeer DEF ChannelInv, Numbered
<1>4. g + r = nextExpected[p] - 1 /\ \A i \in 1..r : ready[p][i] = whole[g + i]
  BY DEF ChannelInv, Handed
<1> HIDE DEF g, r, whole
<1>5. g < Len(whole) /\ Head(ready[p]) = whole[g + 1]
  BY <1>1, <1>2, <1>3, <1>4
<1> QED BY <1>5 DEF g, whole

(* Taking a message from the channel is the abstract Receive.              *)
LEMMA ReceiveIsSeen ==
  ASSUME ChannelInv, NEW p \in Peer, Receive(p)
  PROVE  Fifo!Next
<1>1. /\ Len(got[p]) < Len(sent[Other(p)])
      /\ Head(ready[p]) = sent[Other(p)][Len(got[p]) + 1]
  BY FrontIsNext DEF Receive
<1>2. got' = [got EXCEPT ![p] = Append(@, sent[Other(p)][Len(@) + 1])]
  BY <1>1 DEF Receive, ChannelInv, TypeOK
<1>3. Fifo!Receive(p)
  BY <1>1, <1>2 DEF Receive, Fifo!Receive, Fifo!Other, Other
<1> QED BY <1>3 DEF Fifo!Next

(* Packets, and the acknowledgements in them, are not seen.                *)
LEMMA PacketsUnseen ==
  ASSUME NEW p \in Peer,
         WritePacket(p) \/ \E d \in net[p] : Deliver(p, d) \/ Lose(p, d)
  PROVE  UNCHANGED Fifo!fifoVars
BY DEF WritePacket, Deliver, ReadPacket, Lose, Fifo!fifoVars

(* The channel implements the abstract lane: its users cannot tell it from *)
(* a pair of lists, whatever the network does to its packets.              *)
THEOREM ChannelImplementsFifo == Spec => FifoSpec
<1>1. Init => Fifo!Init
  BY DEF Init, Fifo!Init
<1>2. ChannelInv /\ [Next]_vars => [Fifo!Next]_(Fifo!fifoVars)
  <2> SUFFICES ASSUME ChannelInv, [Next]_vars, ~UNCHANGED Fifo!fifoVars
               PROVE  Fifo!Next
    OBVIOUS
  <2>1. Next
    BY DEF vars, Fifo!fifoVars
  <2>2. PICK p \in Peer : Receive(p) \/ \E m \in Msg : Send(p, m)
    BY <2>1, PacketsUnseen DEF Next
  <2> QED BY <2>2, SendIsSeen, ReceiveIsSeen
<1> QED BY <1>1, <1>2, ChannelInvariant, PTL DEF Spec, FifoSpec, Fifo!Spec
=============================================================================
