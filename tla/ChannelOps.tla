----------------------------- MODULE ChannelOps -----------------------------
(***************************************************************************)
(* What the methods of NeuronCore/ReliableChannel.h compute, as operators  *)
(* on the channel's fields.  A std::map from sequence to message is a      *)
(* partial function, read in increasing order of sequence.                 *)
(***************************************************************************)
EXTENDS Naturals, Sequences

EmptyMap == [s \in {} |-> s]

Insert(map, seq, m) ==
  [s \in DOMAIN map \cup {seq} |-> IF s = seq THEN m ELSE map[s]]

(* Faulty variant: also erases the sequence after theirAck.                *)
DropAckedPastAck(unacked, theirAck) ==
  [s \in {t \in DOMAIN unacked : t > theirAck + 1} |-> unacked[s]]

(* Erase the sequences up to theirAck.                                     *)
DropAcked(unacked, theirAck) ==
  [s \in {t \in DOMAIN unacked : t > theirAck} |-> unacked[s]]

(* chosen is what WritePacket puts in a datagram: the unacked messages in  *)
(* order of sequence until the next one does not fit, always at least one. *)
(* Payload sizes are abstracted: any such prefix may be all that fits.     *)
IsChosen(chosen, unacked) ==
  /\ chosen \subseteq DOMAIN unacked
  /\ \A s \in chosen : \A t \in DOMAIN unacked : t < s => t \in chosen
  /\ DOMAIN unacked # {} => chosen # {}

Datagram(expected, unacked, chosen) ==
  [ack |-> expected - 1, msgs |-> [s \in chosen |-> unacked[s]]]

(* The sequences in hand once a datagram's messages are read: old ones are *)
(* ignored and a sequence already buffered keeps its first copy.           *)
InHand(expected, buffered, msgs) ==
  DOMAIN buffered \cup {s \in DOMAIN msgs : s >= expected}

Copy(buffered, msgs, s) == IF s \in DOMAIN buffered THEN buffered[s] ELSE msgs[s]

(* ReadPacket delivers the contiguous run at expected; next is the first   *)
(* sequence missing after it.                                              *)
IsNextGap(next, expected, inHand) ==
  /\ next >= expected
  /\ next \notin inHand
  /\ expected..(next - 1) \subseteq inHand

(* Faulty variant: flushes the buffer before the message that filled the gap.*)
DeliveredReversed(next, expected, buffered, msgs) ==
  [i \in 1..(next - expected) |-> Copy(buffered, msgs, next - i)]

Delivered(next, expected, buffered, msgs) ==
  [i \in 1..(next - expected) |-> Copy(buffered, msgs, expected + i - 1)]

(* Faulty variant: a flushed message is not erased from m_buffered.        *)
StillBufferedKept(next, expected, buffered, msgs) ==
  [s \in InHand(expected, buffered, msgs) |-> Copy(buffered, msgs, s)]

StillBuffered(next, expected, buffered, msgs) ==
  [s \in {t \in InHand(expected, buffered, msgs) : t > next}
     |-> Copy(buffered, msgs, s)]
=============================================================================
