--------------------------- MODULE MessageEndpoint ---------------------------
(***************************************************************************)
(* The reliable transport of two peers (client and server), one            *)
(* ReliableChannel per lane: NeuronCore/Messages/MessageEndpoint.h.        *)
(*                                                                         *)
(* WriteDatagrams emits a datagram for every lane that has something       *)
(* unacknowledged or has read a datagram since its last write (m_dirty).   *)
(* Nothing else retransmits or acknowledges, so whether a message ever     *)
(* arrives and whether the lanes ever fall silent both hang on m_dirty.    *)
(*                                                                         *)
(* The network holds at most MaxInFlight datagrams of a lane towards a     *)
(* peer; a further one is lost.  A datagram may be lost, may overtake,     *)
(* and, when MayDuplicate, may be read and stay.                           *)
(***************************************************************************)
EXTENDS ChannelOps, FiniteSets

CONSTANTS Peer,         \* the client and the server
          Lane,         \* lane indices; a smaller one is drained first
          Msg,          \* message contents
          Origin,       \* pairs <<peer, lane>>: who sends on which lane
          MaxSent,      \* MaxSent[l]: bound on what a peer sends on lane l
          MaxInFlight,  \* bound on a lane's datagrams in flight to a peer
          MayDuplicate, \* whether the network duplicates
          FairLane      \* lanes whose datagrams get through now and then

ASSUME EndpointAssumption == /\ \E a, b \in Peer : a # b /\ Peer = {a, b}
                             /\ Lane \subseteq Nat
                             /\ FairLane \subseteq Lane
                             /\ Origin \subseteq Peer \X Lane
                             /\ MaxSent \in [Lane -> Nat]
                             /\ MaxInFlight \in Nat \ {0}
                             /\ MayDuplicate \in BOOLEAN

Other(p) == CHOOSE q \in Peer : q # p

VARIABLES nextSeq, unacked, nextExpected, buffered, ready,  \* m_lanes[l]
          dirty,       \* m_dirty[l]: read a datagram since the last write
          net,         \* datagrams on their way to each peer
          sent, got    \* history: given to Send, handed out by Receive

laneVars == <<nextSeq, unacked, nextExpected, buffered, ready>>
endpointVars == <<laneVars, dirty, net, sent, got>>

EachLane(v) == [p \in Peer |-> [l \in Lane |-> v]]

EndpointInit ==
  /\ nextSeq = EachLane(1)
  /\ unacked = EachLane(EmptyMap)
  /\ nextExpected = EachLane(1)
  /\ buffered = EachLane(EmptyMap)
  /\ ready = EachLane(<<>>)
  /\ dirty = EachLane(FALSE)
  /\ net = [p \in Peer |-> {}]
  /\ sent = EachLane(<<>>)
  /\ got = EachLane(<<>>)

Send(p, l, m) ==
  /\ <<p, l>> \in Origin
  /\ nextSeq[p][l] <= MaxSent[l]
  /\ unacked' = [unacked EXCEPT ![p][l] = Insert(@, nextSeq[p][l], m)]
  /\ nextSeq' = [nextSeq EXCEPT ![p][l] = @ + 1]
  /\ sent' = [sent EXCEPT ![p][l] = Append(@, m)]
  /\ UNCHANGED <<nextExpected, buffered, ready, dirty, net, got>>

(* Faulty variant: a tick that has acks to give resends nothing.           *)
ActiveAcksFirst(p) ==
  LET toAck == {l \in Lane : dirty[p][l]}
  IN IF toAck # {} THEN toAck ELSE {l \in Lane : DOMAIN unacked[p][l] # {}}

(* The lanes that write: something unacknowledged, or an ack to give.      *)
Active(p) == {l \in Lane : DOMAIN unacked[p][l] # {} \/ dirty[p][l]}

HasRoom(p, l) == Cardinality({d \in net[p] : d.lane = l}) < MaxInFlight

WriteDatagrams(p) ==
  /\ Active(p) # {}
  /\ \E chosen \in [Active(p) -> SUBSET UNION {DOMAIN unacked[p][l] : l \in Lane}] :
       /\ \A l \in Active(p) : IsChosen(chosen[l], unacked[p][l])
       /\ net' = [net EXCEPT ![Other(p)] = @ \cup
            {[lane |-> l, packet |->
                Datagram(nextExpected[p][l], unacked[p][l], chosen[l])] :
               l \in {k \in Active(p) : HasRoom(Other(p), k)}}]
  /\ dirty' = [dirty EXCEPT ![p] = [l \in Lane |-> FALSE]]
  /\ UNCHANGED <<laneVars, sent, got>>

(* ReliableChannel::ReadPacket on the channel of lane l.                   *)
ReadPacket(p, l, packet) ==
  LET expected == nextExpected[p][l]
      msgs == packet.msgs
  IN /\ unacked' = [unacked EXCEPT ![p][l] = DropAcked(@, packet.ack)]
     /\ \E next \in 1..(MaxSent[l] + 1) :
          /\ IsNextGap(next, expected, InHand(expected, buffered[p][l], msgs))
          /\ nextExpected' = [nextExpected EXCEPT ![p][l] = next]
          /\ ready' = [ready EXCEPT ![p][l] =
                         @ \o Delivered(next, expected, buffered[p][l], msgs)]
          /\ buffered' = [buffered EXCEPT ![p][l] =
                            StillBuffered(next, expected, @, msgs)]
     /\ UNCHANGED <<nextSeq, sent, got>>

(* Faulty variant: only a datagram that delivers something marks the lane. *)
OnDatagramMarkNew(p, d) ==
  /\ ReadPacket(p, d.lane, d.packet)
  /\ dirty' = [dirty EXCEPT ![p][d.lane] =
                 @ \/ nextExpected'[p][d.lane] # nextExpected[p][d.lane]]

(* Faulty variant: routes every datagram to the first lane.                *)
OnDatagramFirstLane(p, d) ==
  LET first == CHOOSE l \in Lane : \A k \in Lane : l <= k
  IN /\ ReadPacket(p, first, d.packet)
     /\ dirty' = [dirty EXCEPT ![p][first] = TRUE]

(* Route by the lane byte; even a bare acknowledgement marks the lane.     *)
OnDatagram(p, d) ==
  /\ ReadPacket(p, d.lane, d.packet)
  /\ dirty' = [dirty EXCEPT ![p][d.lane] = TRUE]

Deliver(p, d) ==
  /\ OnDatagram(p, d)
  /\ \/ net' = [net EXCEPT ![p] = @ \ {d}]
     \/ MayDuplicate /\ UNCHANGED net

Lose(p, d) ==
  /\ net' = [net EXCEPT ![p] = @ \ {d}]
  /\ UNCHANGED <<laneVars, dirty, sent, got>>

(* The first lane with a delivered message, in order of priority.          *)
Receive(p) ==
  \E l \in Lane :
    /\ ready[p][l] # <<>>
    /\ \A k \in Lane : k < l => ready[p][k] = <<>>
    /\ got' = [got EXCEPT ![p][l] = Append(@, Head(ready[p][l]))]
    /\ ready' = [ready EXCEPT ![p][l] = Tail(@)]
    /\ UNCHANGED <<nextSeq, unacked, nextExpected, buffered, dirty, net, sent>>

EndpointNext ==
  \E p \in Peer :
    \/ \E l \in Lane, m \in Msg : Send(p, l, m)
    \/ WriteDatagrams(p)
    \/ \E d \in net[p] : Deliver(p, d)
    \/ \E d \in net[p] : Lose(p, d)
    \/ Receive(p)

(***************************************************************************)
(* Fairness.  Both ends call WriteDatagrams and drain Receive on every     *)
(* tick or frame.  The network holds no datagram forever, and on a fair    *)
(* lane it does not lose for ever what the writer would still write.       *)
(***************************************************************************)
Fresh(p, d) ==
  LET q == Other(p)
      l == d.lane
  IN d.packet.ack = nextExpected[q][l] - 1
     /\ IsChosen(DOMAIN d.packet.msgs, unacked[q][l])

DeliverFresh(p, l) == \E d \in net[p] : d.lane = l /\ Fresh(p, d) /\ Deliver(p, d)

EndpointFairness ==
  \A p \in Peer :
    /\ WF_endpointVars(WriteDatagrams(p))
    /\ WF_endpointVars(Receive(p))
    /\ \A l \in Lane :
         WF_net(\E d \in net[p] : d.lane = l /\ (Deliver(p, d) \/ Lose(p, d)))
    /\ \A l \in FairLane : SF_endpointVars(DeliverFresh(p, l))

EndpointSpec == EndpointInit /\ [][EndpointNext]_endpointVars

FairEndpointSpec == EndpointSpec /\ EndpointFairness

-----------------------------------------------------------------------------
(***************************************************************************)
(* Properties.                                                             *)
(***************************************************************************)
(* Every lane on its own is a ReliableChannel, whatever the other lanes    *)
(* carry ("never head-of-line-blocks", MessageEndpoint.h:5-8): a tick that *)
(* writes all lanes is one write of each, and no datagram is read by the   *)
(* channel of another lane.                                                *)
Channel(l) == INSTANCE ReliableChannel WITH
  MaxSent <- MaxSent[l],
  nextSeq <- [p \in Peer |-> nextSeq[p][l]],
  unacked <- [p \in Peer |-> unacked[p][l]],
  nextExpected <- [p \in Peer |-> nextExpected[p][l]],
  buffered <- [p \in Peer |-> buffered[p][l]],
  ready <- [p \in Peer |-> ready[p][l]],
  net <- [p \in Peer |-> {d.packet : d \in {e \in net[p] : e.lane = l}}],
  sent <- [p \in Peer |-> sent[p][l]],
  got <- [p \in Peer |-> got[p][l]]

LanesAreChannels ==
  /\ \A l \in Lane : Channel(l)!Init
  /\ [][\A l \in Lane : Channel(l)!Next \/ UNCHANGED Channel(l)!vars]_endpointVars

(* On a lane whose datagrams get through now and then, every message is    *)
(* eventually handed to the other peer, even while another lane's          *)
(* datagrams are all lost.                                                 *)
EventuallyReceived ==
  \A p \in Peer, l \in FairLane : \A n \in 1..MaxSent[l] :
    Len(sent[p][l]) >= n ~> Len(got[Other(p)][l]) >= n

(* A sender stops resending: although acknowledgements are themselves lost *)
(* and are sent only in answer to a datagram, every message of a fair lane *)
(* is eventually acknowledged.                                             *)
EventuallyAcked ==
  \A p \in Peer, l \in FairLane : []<>(DOMAIN unacked[p][l] = {})

(* "... so idle lanes are silent" (MessageEndpoint.h:18-20): once nothing  *)
(* is left to send or acknowledge, no datagram flows.                      *)
IdleLanesSilent == <>[](\A p \in Peer : net[p] = {})
=============================================================================
