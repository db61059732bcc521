--------------------------- MODULE ReliableChannel ---------------------------
(***************************************************************************)
(* One reliable lane between two peers: the sequenced, cumulatively acked, *)
(* in-order channel of NeuronCore/ReliableChannel.h over a datagram        *)
(* network that loses, duplicates and reorders.                            *)
(*                                                                         *)
(* net[p] is the set of datagrams on their way to p.  One that is read may *)
(* stay (a duplicate) and any may vanish, so every order, repetition and   *)
(* loss occurs; MaxInFlight bounds how many overtake each other.  The u32  *)
(* sequences do not wrap: MaxSent bounds what a peer sends on one lane far *)
(* below 2^32.                                                             *)
(***************************************************************************)
EXTENDS ChannelOps, FiniteSets

CONSTANTS Peer,     \* the two ends of the lane
          Msg,      \* message contents (type tag and payload)
          MaxSent,  \* bound on the messages one peer sends
          MaxInFlight  \* bound on the datagrams on their way to one peer

ASSUME PeerAssumption == \E a, b \in Peer : a # b /\ Peer = {a, b}
ASSUME MaxSentAssumption == MaxSent \in Nat

Other(p) == CHOOSE q \in Peer : q # p

VARIABLES nextSeq,       \* m_nextSeq: sequence of the next message sent
          unacked,       \* m_unacked: messages the peer has not acknowledged
          nextExpected,  \* m_nextExpected: next sequence to deliver
          buffered,      \* m_buffered: messages received past a gap
          ready,         \* m_ready: delivered in order, awaiting Receive
          net,           \* datagrams on their way to each peer
          sent,          \* history: everything given to Send
          got            \* history: everything handed out by Receive

vars == <<nextSeq, unacked, nextExpected, buffered, ready, net, sent, got>>

Init == /\ nextSeq = [p \in Peer |-> 1]
        /\ unacked = [p \in Peer |-> EmptyMap]
        /\ nextExpected = [p \in Peer |-> 1]
        /\ buffered = [p \in Peer |-> EmptyMap]
        /\ ready = [p \in Peer |-> <<>>]
        /\ net = [p \in Peer |-> {}]
        /\ sent = [p \in Peer |-> <<>>]
        /\ got = [p \in Peer |-> <<>>]

(***************************************************************************)
(* The operations of a peer.                                               *)
(***************************************************************************)
Send(p, m) ==
  /\ nextSeq[p] <= MaxSent
  /\ unacked' = [unacked EXCEPT ![p] = Insert(@, nextSeq[p], m)]
  /\ nextSeq' = [nextSeq EXCEPT ![p] = @ + 1]
  /\ sent' = [sent EXCEPT ![p] = Append(@, m)]
  /\ UNCHANGED <<nextExpected, buffered, ready, net, got>>

WritePacket(p) ==
  /\ \E chosen \in SUBSET DOMAIN unacked[p] :
       /\ IsChosen(chosen, unacked[p])
       /\ net' = [net EXCEPT ![Other(p)] =
                    @ \cup {Datagram(nextExpected[p], unacked[p], chosen)}]
       /\ Cardinality(net'[Other(p)]) <= MaxInFlight
  /\ UNCHANGED <<nextSeq, unacked, nextExpected, buffered, ready, sent, got>>

(* ReadPacket of datagram d: the acknowledgement first, then the messages, *)
(* delivering up to the first gap.                                         *)
ReadPacket(p, d) ==
  /\ unacked' = [unacked EXCEPT ![p] = DropAcked(@, d.ack)]
  /\ \E next \in 1..(MaxSent + 1) :
       /\ IsNextGap(next, nextExpected[p],
                    InHand(nextExpected[p], buffered[p], d.msgs))
       /\ nextExpected' = [nextExpected EXCEPT ![p] = next]
       /\ ready' = [ready EXCEPT ![p] =
                      @ \o Delivered(next, nextExpected[p], buffered[p], d.msgs)]
       /\ buffered' = [buffered EXCEPT ![p] =
                         StillBuffered(next, nextExpected[p], @, d.msgs)]
  /\ UNCHANGED <<nextSeq, sent, got>>

(* The datagram that is read either leaves the network or has a duplicate. *)
Deliver(p, d) ==
  /\ ReadPacket(p, d)
  /\ \/ UNCHANGED net
     \/ net' = [net EXCEPT ![p] = @ \ {d}]

Lose(p, d) ==
  /\ net' = [net EXCEPT ![p] = @ \ {d}]
  /\ UNCHANGED <<nextSeq, unacked, nextExpected, buffered, ready, sent, got>>

(* Faulty variant: hands out the front of m_ready without popping it.      *)
ReceiveWithoutPop(p) ==
  /\ ready[p] # <<>>
  /\ Len(got[p]) < MaxSent
  /\ got' = [got EXCEPT ![p] = Append(@, Head(ready[p]))]
  /\ UNCHANGED <<nextSeq, unacked, nextExpected, buffered, ready, net, sent>>

Receive(p) ==
  /\ ready[p] # <<>>
  /\ got' = [got EXCEPT ![p] = Append(@, Head(ready[p]))]
  /\ ready' = [ready EXCEPT ![p] = Tail(@)]
  /\ UNCHANGED <<nextSeq, unacked, nextExpected, buffered, net, sent>>

Next == \E p \in Peer :
          \/ \E m \in Msg : Send(p, m)
          \/ WritePacket(p)
          \/ \E d \in net[p] : Deliver(p, d)
          \/ \E d \in net[p] : Lose(p, d)
          \/ Receive(p)

Spec == Init /\ [][Next]_vars

-----------------------------------------------------------------------------
(***************************************************************************)
(* Properties.                                                             *)
(***************************************************************************)
PartialMap == UNION {[S -> Msg] : S \in SUBSET (1..MaxSent)}

(* Every field holds a value of its C++ type, within the model's bound.    *)
TypeOK ==
  /\ nextSeq \in [Peer -> 1..(MaxSent + 1)]
  /\ nextExpected \in [Peer -> 1..(MaxSent + 1)]
  /\ unacked \in [Peer -> PartialMap]
  /\ buffered \in [Peer -> PartialMap]
  /\ ready \in [Peer -> Seq(Msg)]
  /\ sent \in [Peer -> Seq(Msg)]
  /\ got \in [Peer -> Seq(Msg)]
  /\ net \in [Peer -> SUBSET [ack : 0..MaxSent, msgs : PartialMap]]

(* Exactly once and in order (ReliableChannel.h:5-6): what a peer was      *)
(* handed, followed by what waits in m_ready, is the first                 *)
(* m_nextExpected - 1 messages of the other peer, whatever the network did.*)
InOrderOnce ==
  \A p \in Peer :
    got[p] \o ready[p] = SubSeq(sent[Other(p)], 1, nextExpected[p] - 1)

(* No message is given up: until the other peer has delivered it, it stays *)
(* in m_unacked and is resent (ReliableChannel.h:14-15), so no stale or    *)
(* reordered acknowledgement erases it early.                              *)
NothingLost ==
  \A p \in Peer : \A s \in nextExpected[Other(p)]..Len(sent[p]) :
    /\ s \in DOMAIN unacked[p]
    /\ unacked[p][s] = sent[p][s]

(* A message received past a gap is neither stuck nor delivered again: all *)
(* of m_buffered lies beyond the sequence the channel waits for.           *)
BufferedPastGap ==
  \A p \in Peer : \A s \in DOMAIN buffered[p] :
    /\ s > nextExpected[p]
    /\ buffered[p][s] = sent[Other(p)][s]

(***************************************************************************)
(* The inductive invariant.  Every copy of a message, wherever it is, is   *)
(* the one sent under its sequence; an acknowledgement in flight never     *)
(* passes what its writer has delivered; what was handed out and what      *)
(* waits in m_ready are the messages before m_nextExpected.                *)
(***************************************************************************)
Copies(map, p) ==
  \A s \in DOMAIN map : s \in 1..Len(sent[p]) /\ map[s] = sent[p][s]

Numbered(p) == /\ nextSeq[p] = Len(sent[p]) + 1
               /\ nextExpected[Other(p)] <= nextSeq[p]

InFlight(p) == \A d \in net[p] : /\ d.ack < nextExpected[Other(p)]
                                 /\ Copies(d.msgs, Other(p))

Handed(p) ==
  /\ Len(got[p]) + Len(ready[p]) = nextExpected[p] - 1
  /\ \A i \in 1..Len(got[p]) : got[p][i] = sent[Other(p)][i]
  /\ \A i \in 1..Len(ready[p]) : ready[p][i] = sent[Other(p)][Len(got[p]) + i]

ChannelInv ==
  /\ TypeOK
  /\ NothingLost
  /\ BufferedPastGap
  /\ \A p \in Peer : /\ Numbered(p)
                     /\ Copies(unacked[p], p)
                     /\ Copies(buffered[p], Other(p))
                     /\ InFlight(p)
                     /\ Handed(p)

(* The channel implements the abstract lane: the packets, sequences and    *)
(* acknowledgements are invisible to its users.                            *)
Fifo == INSTANCE ReliableFifo
FifoSpec == Fifo!Spec
=============================================================================
