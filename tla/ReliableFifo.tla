---------------------------- MODULE ReliableFifo ----------------------------
(***************************************************************************)
(* What a reliable lane promises its two users ("exactly once and in       *)
(* order", NeuronCore/ReliableChannel.h:5-6), with no packets, sequence    *)
(* numbers or acknowledgements: each peer has the list of messages it      *)
(* sent and the list it was handed, and the second is always a prefix of   *)
(* the other peer's first.                                                 *)
(***************************************************************************)
EXTENDS Naturals, Sequences

CONSTANTS Peer,     \* the two ends of the lane
          Msg,      \* message contents (type tag and payload)
          MaxSent   \* bound on the messages one peer sends

Other(p) == CHOOSE q \in Peer : q # p

VARIABLES sent,   \* sent[p]: everything p has sent, in order
          got     \* got[p]: everything p has been handed, in order

fifoVars == <<sent, got>>

Init == /\ sent = [p \in Peer |-> <<>>]
        /\ got = [p \in Peer |-> <<>>]

Send(p, m) == /\ Len(sent[p]) < MaxSent
              /\ sent' = [sent EXCEPT ![p] = Append(@, m)]
              /\ UNCHANGED got

(* The next message of the other peer, and no other, is handed over.       *)
Receive(p) == /\ Len(got[p]) < Len(sent[Other(p)])
              /\ got' = [got EXCEPT ![p] = Append(@, sent[Other(p)][Len(@) + 1])]
              /\ UNCHANGED sent

Next == \E p \in Peer : Receive(p) \/ \E m \in Msg : Send(p, m)

Spec == Init /\ [][Next]_fifoVars
=============================================================================
