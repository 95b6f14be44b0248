------------------------------- MODULE Packet -------------------------------
(***************************************************************************)
(* subscriber/Packet and subscriber/Message: the cursor over the messages  *)
(* of a datagram, as ChannelController::OnIncrementalPacket moves it.      *)
(*                                                                         *)
(* Every receiver has one buffer and one Packet for all its datagrams.     *)
(* What a longer datagram left in the buffer is still there when a shorter *)
(* one lies in front of it, and a datagram too short to have a number      *)
(* leaves the number of the one before in the Packet.  The datagrams reach *)
(* the two receivers late, repeated or not at all; the number's width is   *)
(* left to ChannelController.                                              *)
(***************************************************************************)
EXTENDS Integers, SequencesExt

CONSTANTS
  Receivers,      \* those of the incremental feeds A and B
  None,           \* no receiver
  Sizes,          \* of messages, the two bytes that hold the size included
  ShortLengths,   \* of datagrams that end in or right after their header
  MaxLength,      \* MulticastReceiver::max_length, the size of data_
  MaxMessages,    \* bound: how many messages a datagram has
  MaxDatagrams    \* bound: how many datagrams are sent

kByteOffest == 12   \* the header of a datagram

ASSUME PacketAssumption ==
  /\ None \notin Receivers
  /\ Sizes \subseteq Nat \ {0}
  /\ ShortLengths \subseteq 0 .. kByteOffest
  /\ {MaxLength, MaxMessages, MaxDatagrams} \subseteq Nat

VARIABLES
  sent,             \* sent[n][k]: where message k of datagram n is, and its size
  data,             \* MulticastReceiver::data_: the messages that begin in it
  seqnum,           \* Packet::seqnum_
  received,         \* Packet::received_
  processed,        \* Packet::processed_
  reader,           \* the receiver whose packet is in the loop
  expectedseqnum,   \* ChannelController::expectedseqnum_
  handed            \* history variable: the messages handed on, <<n, k>>

perReceiver == <<data, seqnum, received, processed>>
vars        == <<sent, perReceiver, reader, expectedseqnum, handed>>

\* Where the last message of a datagram ends.
Length(d) == Last(d).at + Last(d).size

\* A datagram that fits into data_, its messages one behind the other.
Datagrams ==
  {d \in UNION {[1 .. len -> [at : kByteOffest .. MaxLength, size : Sizes]] :
                   len \in 1 .. MaxMessages} :
     /\ d[1].at = kByteOffest /\ Length(d) <= MaxLength
     /\ \A k \in 1 .. Len(d) - 1 : d[k + 1].at = d[k].at + d[k].size}

Content(n, d) ==
  {[at |-> d[k].at, size |-> d[k].size, message |-> <<n, k>>] : k \in DOMAIN d}

Send(d) ==
  /\ Len(sent) < MaxDatagrams
  /\ sent' = Append(sent, d)
  /\ UNCHANGED <<perReceiver, reader, expectedseqnum, handed>>
-----------------------------------------------------------------------------
(* Packet.                                                                 *)

HasNextMessage(r) == processed[r] < received[r]

\* Mutant: the length of a longer datagram survives.
Reset_KeepsLength(r, n, length) ==
  /\ received' = [received EXCEPT ![r] = IF length > @ THEN length ELSE @]
  /\ processed' = [processed EXCEPT ![r] = kByteOffest]
  /\ seqnum' = [seqnum EXCEPT ![r] = IF length > kByteOffest THEN n ELSE @]

Reset(r, n, length) ==
  /\ received' = [received EXCEPT ![r] = length]
  /\ processed' = [processed EXCEPT ![r] = kByteOffest]
  /\ seqnum' = [seqnum EXCEPT ![r] = IF length > kByteOffest THEN n ELSE @]

\* Mutant: the size is taken not to count the field that holds it.
NextMessage_SizeApart(r) ==
  \E m \in data[r] :
    /\ m.at = processed[r]
    /\ processed' = [processed EXCEPT ![r] = @ + 2 + m.size]
    /\ handed' = Append(handed, m.message)

\* NextMessage and the Message::Reset it calls: the message is read at the
\* cursor, and its own size moves the cursor on.
NextMessage(r) ==
  \E m \in data[r] :
    /\ m.at = processed[r]
    /\ processed' = [processed EXCEPT ![r] = @ + m.size]
    /\ handed' = Append(handed, m.message)
-----------------------------------------------------------------------------
(* OnIncrementalPacket.                                                    *)

\* Mutants: whatever the number, the packet passes; the last one passes again.
Filter_Any(r) == expectedseqnum' = seqnum'[r] + 1 /\ reader' = r

Filter_Again(r) ==
  IF seqnum'[r] + 1 >= expectedseqnum
    THEN expectedseqnum' = seqnum'[r] + 1 /\ reader' = r
    ELSE UNCHANGED expectedseqnum /\ reader' = None

Filter(r) ==
  IF seqnum'[r] >= expectedseqnum \/ expectedseqnum = 0
    THEN expectedseqnum' = seqnum'[r] + 1 /\ reader' = r
    ELSE UNCHANGED expectedseqnum /\ reader' = None

Idle == \A r \in Receivers : reader = r => ~HasNextMessage(r)

\* HandleReceiveFrom with datagram n, or, n = 0, with one that ends before
\* its first message, perhaps within the header: then the cursor is put past
\* the end.
HandleReceiveFrom(r, n, length) ==
  LET d == IF n = 0 THEN << >> ELSE sent[n]
  IN  /\ Idle
      /\ data' = [data EXCEPT ![r] = {m \in @ : m.at >= length} \cup Content(n, d)]
      /\ Reset(r, n, length)
      /\ Filter(r)
      /\ UNCHANGED <<sent, handed>>

OnIncrementalMessage ==
  /\ ~Idle
  /\ NextMessage(reader)
  /\ UNCHANGED <<sent, data, seqnum, received, reader, expectedseqnum>>
-----------------------------------------------------------------------------
Init ==
  /\ sent      = << >>
  /\ data      = [r \in Receivers |-> {}]
  /\ seqnum    = [r \in Receivers |-> 0]
  /\ received  = [r \in Receivers |-> 0]
  /\ processed = [r \in Receivers |-> 0]
  /\ reader    = None
  /\ expectedseqnum = 0
  /\ handed    = << >>

Next ==
  \/ \E d \in Datagrams : Send(d)
  \/ \E r \in Receivers :
       \/ \E n \in 1 .. Len(sent) : HandleReceiveFrom(r, n, Length(sent[n]))
       \/ \E length \in ShortLengths : HandleReceiveFrom(r, 0, length)
  \/ OnIncrementalMessage

Spec == Init /\ [][Next]_vars
-----------------------------------------------------------------------------
(* Properties.                                                             *)

Messages == (1 .. MaxDatagrams) \X (1 .. MaxMessages)
Pieces   == [at : Nat, size : Sizes, message : Messages]

(* The type of every variable.  The cursor never passes what was received, *)
(* unless that ends before the header does, where it stays put.            *)
PacketTypeOK ==
  /\ sent \in Seq(Datagrams) /\ Len(sent) <= MaxDatagrams
  /\ data \in [Receivers -> SUBSET Pieces]
  /\ seqnum \in [Receivers -> 0 .. Len(sent)]
  /\ received  \in [Receivers -> Nat]
  /\ processed \in [Receivers -> Nat]
  /\ \A r \in Receivers :
       processed[r] <= received[r] \/ processed[r] = kByteOffest
  /\ reader \in Receivers \cup {None}
  /\ expectedseqnum \in 0 .. Len(sent) + 1
  /\ handed \in Seq(Messages)

(* Whenever the loop goes on, the cursor stands on a message of the very   *)
(* datagram that was received last, all of which was received: never       *)
(* between two messages, nor on what an earlier datagram has left in the   *)
(* buffer behind this one.                                                 *)
CursorOnMessage ==
  ~Idle => \E m \in data[reader] :
             /\ m.at = processed[reader]
             /\ m.message[1] = seqnum[reader]
             /\ m.at + m.size <= received[reader]

(* Whatever copies of the datagrams arrive on A and B, in whatever order   *)
(* and with whatever gaps, the channel is handed the messages of some of   *)
(* them, in the order sent, every one of each and none twice.              *)
HandedWhole ==
  /\ \A i, j \in DOMAIN handed : i < j =>
       \/ handed[i][1] < handed[j][1]
       \/ handed[i][1] = handed[j][1] /\ handed[i][2] < handed[j][2]
  /\ Idle => \A i \in DOMAIN handed : \A k \in DOMAIN sent[handed[i][1]] :
               <<handed[i][1], k>> \in ToSet(handed)

(* A datagram without messages goes to the filter with a number that is    *)
(* not its own but that of the receiver's last one.  Still it moves the    *)
(* filter neither back nor on: what the filter expects next always follows *)
(* the messages handed on, and no datagram is kept out for a short one.    *)
ShortsMoveNothing ==
  Idle => IF handed = << >> THEN expectedseqnum \in {0, 1}
                            ELSE expectedseqnum = Last(handed)[1] + 1
=============================================================================
