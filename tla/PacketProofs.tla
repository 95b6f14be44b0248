---------------------------- MODULE PacketProofs ----------------------------
(***************************************************************************)
(* The cursor stays on the messages of the datagram received last, and     *)
(* what it hands on are whole datagrams, in order and once, for all sizes  *)
(* of messages and any number of receivers.                                *)
(*                                                                         *)
(* The invariant says what a buffer holds: nothing yet, a datagram without *)
(* messages, or, up to the length received, the messages of the datagram   *)
(* whose number the Packet has, with the cursor at the beginning of one of *)
(* them or at the end.  What was handed on is compared with the place of   *)
(* the cursor in the buffer of the receiver that is being read.            *)
(***************************************************************************)
EXTENDS Packet, SequenceTheorems, FiniteSetTheorems, TLAPS

Short(r) == received[r] <= kByteOffest /\ processed[r] >= received[r]

Holds(r, n) ==
  /\ n \in 1 .. Len(sent) /\ received[r] = Length(sent[n])
  /\ {m \in data[r] : m.at < received[r]} = Content(n, sent[n])
  /\ \/ processed[r] = received[r]
     \/ \E k \in DOMAIN sent[n] : processed[r] = sent[n][k].at

BufferInv ==
  \A r \in Receivers :
    /\ Short(r) \/ Holds(r, seqnum[r])
    /\ seqnum[r] < expectedseqnum \/ (seqnum[r] = 0 /\ expectedseqnum = 0)

Reading(n) == reader # None /\ seqnum[reader] = n

ReaderInv ==
  reader # None =>
    /\ expectedseqnum = seqnum[reader] + 1
    /\ Short(reader) => seqnum[reader] = 0

InOrder(s) ==
  \A i, j \in 1 .. Len(s) : i < j =>
    \/ s[i][1] < s[j][1]
    \/ s[i][1] = s[j][1] /\ s[i][2] < s[j][2]

\* Of a datagram being read, what lies before the cursor was handed on; of
\* any other, all or nothing.
HandedInv ==
  /\ InOrder(handed)
  /\ \A i \in 1 .. Len(handed) :
       /\ handed[i][1] \in 1 .. Len(sent) /\ handed[i][1] < expectedseqnum
       /\ handed[i][2] \in DOMAIN sent[handed[i][1]]
       /\ Reading(handed[i][1]) =>
            sent[handed[i][1]][handed[i][2]].at < processed[reader]
  /\ \A i \in 1 .. Len(handed) : \A k \in DOMAIN sent[handed[i][1]] :
       Reading(handed[i][1]) \/ <<handed[i][1], k>> \in ToSet(handed)
  /\ \A n \in 1 .. Len(sent) : \A k \in DOMAIN sent[n] :
       Reading(n) /\ sent[n][k].at < processed[reader] => <<n, k>> \in ToSet(handed)

LastInv ==
  \/ IF handed = << >> THEN expectedseqnum \in {0, 1}
                       ELSE expectedseqnum = Last(handed)[1] + 1
  \/ reader # None /\ ~Short(reader) /\ processed[reader] = kByteOffest

CursorInv == PacketTypeOK /\ BufferInv /\ ReaderInv /\ HandedInv /\ LastInv
-----------------------------------------------------------------------------
(* Induction over the natural numbers for a set, from the well-foundedness *)
(* of their order.                                                         *)
LEMMA NatSetInduction ==
  ASSUME NEW S, 0 \in S, \A n \in Nat : n \in S => n + 1 \in S
  PROVE  Nat \subseteq S
<1> DEFINE T == Nat \ S
           R == {ss \in Nat \X Nat : ss[1] < ss[2]}
<1>1. IsWellFoundedOn(R, Nat)
  BY NatLessThanWellFounded DEF OpToRel
<1> SUFFICES ASSUME T # {} PROVE FALSE
  OBVIOUS
<1>2. PICK x \in T : \A y \in T : ~(<<y, x>> \in R)
  <2> HIDE DEF R, T
  <2>1. T \subseteq Nat
    BY DEF T
  <2> QED  BY <1>1, <2>1, WFMin
<1>3. x # 0 /\ x \in Nat
  OBVIOUS
<1>4. x - 1 \in Nat /\ <<x - 1, x>> \in R
  BY <1>3
<1>5. x - 1 \in S
  BY <1>2, <1>4
<1>6. (x - 1) + 1 \in S
  BY <1>4, <1>5
<1> QED  BY <1>2, <1>3, <1>6

(* A datagram: the messages lie one behind the other, ...                  *)
LEMMA DatagramFacts ==
  ASSUME NEW d \in Datagrams
  PROVE  /\ DOMAIN d = 1 .. Len(d) /\ Len(d) \in 1 .. MaxMessages /\ Len(d) \in Nat
         /\ \A k \in 1 .. Len(d) :
              /\ d[k].at \in Nat /\ d[k].at >= kByteOffest
              /\ d[k].size \in Sizes /\ d[k].size \in Nat /\ d[k].size > 0
         /\ d[1].at = kByteOffest
         /\ \A k \in 1 .. Len(d) - 1 : d[k + 1].at = d[k].at + d[k].size
         /\ Length(d) = d[Len(d)].at + d[Len(d)].size
<1> USE PacketAssumption
<1>1. /\ d[1].at = kByteOffest
      /\ \A k \in 1 .. Len(d) - 1 : d[k + 1].at = d[k].at + d[k].size
  BY DEF Datagrams
<1>2. PICK len \in 1 .. MaxMessages :
        d \in [1 .. len -> [at : kByteOffest .. MaxLength, size : Sizes]]
  BY DEF Datagrams
<1>3. len \in Nat /\ len > 0 /\ len <= MaxMessages /\ MaxMessages \in Nat
  BY <1>2
<1>4. DOMAIN d = 1 .. len /\ Len(d) = len
  BY <1>2, <1>3
<1>5. ASSUME NEW k \in 1 .. len
      PROVE  /\ d[k].at \in Nat /\ d[k].at >= kByteOffest
             /\ d[k].size \in Sizes /\ d[k].size \in Nat /\ d[k].size > 0
  <2>1. d[k] \in [at : kByteOffest .. MaxLength, size : Sizes]
    BY <1>2
  <2>2. d[k].at \in kByteOffest .. MaxLength /\ d[k].size \in Sizes
    BY <2>1
  <2>3. d[k].at \in Nat /\ d[k].at >= kByteOffest
    BY <2>2 DEF kByteOffest
  <2>4. \A x \in Sizes : x \in Nat /\ x > 0
    OBVIOUS
  <2> QED  BY <2>2, <2>3, <2>4, Zenon
<1>6. Length(d) = d[Len(d)].at + d[Len(d)].size
  BY <1>3, <1>4 DEF Length, Last
<1> QED  BY <1>1, <1>3, <1>4, <1>5, <1>6

(* ... so that each begins where all before it have ended, ...             *)
LEMMA OneBehindTheOther ==
  ASSUME NEW d \in Datagrams, NEW j \in 1 .. Len(d), NEW k \in 1 .. Len(d), j < k
  PROVE  d[j].at + d[j].size <= d[k].at
<1> DEFINE S == {x \in Nat : \A a, b \in 1 .. Len(d) :
                   b = a + 1 + x => d[a].at + d[a].size <= d[b].at}
<1>1. /\ Len(d) \in Nat
      /\ \A a \in 1 .. Len(d) : d[a].at \in Nat /\ d[a].size \in Nat
      /\ \A a \in 1 .. Len(d) - 1 : d[a + 1].at = d[a].at + d[a].size
  BY DatagramFacts
<1>2. 0 \in S
  <2> SUFFICES ASSUME NEW a \in 1 .. Len(d), NEW b \in 1 .. Len(d), b = a + 1 + 0
               PROVE  d[a].at + d[a].size <= d[b].at
    OBVIOUS
  <2>1. a \in 1 .. Len(d) - 1 /\ b = a + 1
    BY <1>1
  <2>2. d[b].at = d[a].at + d[a].size /\ d[b].at \in Nat
    BY <1>1, <2>1
  <2> QED  BY <2>2
<1>3. ASSUME NEW x \in Nat, x \in S
      PROVE  x + 1 \in S
  <2> SUFFICES ASSUME NEW a \in 1 .. Len(d), NEW b \in 1 .. Len(d), b = a + 1 + (x + 1)
               PROVE  d[a].at + d[a].size <= d[b].at
    OBVIOUS
  <2>1. PICK c \in 1 .. Len(d) - 1 : c \in 1 .. Len(d) /\ c = a + 1 + x /\ c + 1 = b
    <3>1. /\ b - 1 \in 1 .. Len(d) - 1 /\ b - 1 \in 1 .. Len(d) /\ b - 1 = a + 1 + x
          /\ (b - 1) + 1 = b
      BY <1>1
    <3> QED  BY <3>1
  <2>2. d[a].at + d[a].size <= d[c].at
    BY <1>3, <2>1
  <2>3. d[b].at = d[c].at + d[c].size
    BY <1>1, <2>1
  <2>4. /\ d[a].at \in Nat /\ d[a].size \in Nat /\ d[c].at \in Nat
        /\ d[c].size \in Nat /\ d[b].at \in Nat
    BY <1>1, <2>1
  <2> HIDE DEF S
  <2>5. \A t, u, v, w, y \in Nat : t + u <= v /\ y = v + w => t + u <= y
    OBVIOUS
  <2> QED  BY <2>2, <2>3, <2>4, <2>5, Zenon
<1> HIDE DEF S
<1>4. Nat \subseteq S
  BY <1>2, <1>3, NatSetInduction
<1>5. k - j - 1 \in S
  BY <1>1, <1>4
<1>6. k = j + 1 + (k - j - 1)
  BY <1>1
<1> QED  BY <1>5, <1>6 DEF S

(* ... and all of it within its length.                                    *)
LEMMA WithinLength ==
  ASSUME NEW d \in Datagrams
  PROVE  /\ Length(d) \in Nat /\ Length(d) > kByteOffest
         /\ \A k \in 1 .. Len(d) :
              d[k].at + d[k].size <= Length(d) /\ d[k].at < Length(d)
<1> DEFINE n == Len(d)
<1>1. /\ n \in Nat /\ n > 0 /\ Length(d) = d[n].at + d[n].size
      /\ \A k \in 1 .. n :
           /\ d[k].at \in Nat /\ d[k].at >= kByteOffest
           /\ d[k].size \in Nat /\ d[k].size > 0
  BY DatagramFacts
<1>2. ASSUME NEW k \in 1 .. n
      PROVE  d[k].at + d[k].size <= Length(d) /\ d[k].at < Length(d)
  <2>1. CASE k = n
    BY <1>1, <2>1
  <2>2. CASE k # n
    <3>1. n \in 1 .. n /\ k < n
      BY <1>1, <2>2
    <3>2. d[k].at + d[k].size <= d[n].at
      BY <3>1, OneBehindTheOther
    <3> HIDE DEF n
    <3> QED  BY <1>1, <3>1, <3>2
  <2> QED  BY <2>1, <2>2
<1> HIDE DEF n
<1>3. Length(d) \in Nat /\ Length(d) > kByteOffest
  BY <1>1 DEF kByteOffest
<1> QED  BY <1>2, <1>3 DEF n

(* A datagram is laid over the beginning of the buffer.                    *)
LEMMA LaidOver ==
  ASSUME NEW d \in Datagrams, NEW n, NEW b, b \subseteq Pieces,
         NEW c, \A m : m \in c <=> (m \in b /\ m.at >= Length(d)) \/ m \in Content(n, d)
  PROVE  \A m : m \in c /\ m.at < Length(d) <=> m \in Content(n, d)
<1>1. Length(d) \in Nat
  BY WithinLength
<1>2. ASSUME NEW m \in Content(n, d)
      PROVE  m.at < Length(d)
  <2>1. PICK k \in 1 .. Len(d) : m.at = d[k].at
    BY DatagramFacts DEF Content
  <2> QED  BY <2>1, WithinLength
<1>3. ASSUME NEW m \in b, m.at >= Length(d)
      PROVE  ~(m.at < Length(d))
  <2>1. m.at \in Nat
    BY DEF Pieces
  <2> QED  BY <1>1, <1>3, <2>1
<1> QED  BY <1>2, <1>3

LEMMA ContentIs ==
  ASSUME NEW d \in Datagrams, NEW n
  PROVE  /\ \A m \in Content(n, d) : \E k \in 1 .. Len(d) :
              m.at = d[k].at /\ m.size = d[k].size /\ m.message = <<n, k>>
         /\ \A k \in 1 .. Len(d) :
              [at |-> d[k].at, size |-> d[k].size, message |-> <<n, k>>] \in Content(n, d)
         /\ n \in 1 .. MaxDatagrams => Content(n, d) \subseteq Pieces
<1>1. /\ DOMAIN d = 1 .. Len(d) /\ Len(d) \in 1 .. MaxMessages /\ Len(d) \in Nat
      /\ \A k \in 1 .. Len(d) : d[k].at \in Nat /\ d[k].size \in Sizes
  BY DatagramFacts
<1>2. \A k \in 1 .. Len(d) : k \in 1 .. MaxMessages
  BY <1>1, PacketAssumption
<1> QED  BY <1>1, <1>2 DEF Content, Pieces, Messages
-----------------------------------------------------------------------------
(* The loop.                                                               *)

LEMMA MessageAfter ==
  ASSUME NEW d \in Datagrams, NEW k \in 1 .. Len(d)
  PROVE  \/ d[k].at + d[k].size = Length(d)
         \/ \E j \in DOMAIN d : d[k].at + d[k].size = d[j].at
<1>1. CASE k = Len(d)
  BY <1>1, DatagramFacts
<1>2. CASE k # Len(d)
  <2>1. k \in 1 .. Len(d) - 1 /\ k + 1 \in 1 .. Len(d)
    BY <1>2, DatagramFacts
  <2>2. d[k + 1].at = d[k].at + d[k].size /\ DOMAIN d = 1 .. Len(d)
    BY <2>1, DatagramFacts
  <2> QED  BY <2>1, <2>2
<1> QED  BY <1>1, <1>2

LEMMA SameMessage ==
  ASSUME NEW d \in Datagrams, NEW j \in 1 .. Len(d), NEW k \in 1 .. Len(d)
  PROVE  /\ d[j].at = d[k].at => j = k
         /\ d[j].at < d[k].at => j < k
<1>1. /\ d[j].at \in Nat /\ d[k].at \in Nat
      /\ d[j].size \in Nat /\ d[k].size \in Nat /\ d[j].size > 0 /\ d[k].size > 0
  BY DatagramFacts
<1>2. j < k => d[j].at < d[k].at
  BY <1>1, OneBehindTheOther
<1>3. k < j => d[k].at < d[j].at
  BY <1>1, OneBehindTheOther
<1>4. j < k \/ j = k \/ k < j
  BY DatagramFacts
<1> QED  BY <1>1, <1>2, <1>3, <1>4

(* While the loop goes on, the cursor is on a message of the datagram with *)
(* the number of the Packet, and on that message alone.                    *)
LEMMA CursorAt ==
  ASSUME CursorInv, ~Idle
  PROVE  /\ reader \in Receivers /\ processed[reader] < received[reader]
         /\ seqnum[reader] \in 1 .. Len(sent) /\ expectedseqnum = seqnum[reader] + 1
         /\ sent[seqnum[reader]] \in Datagrams
         /\ Holds(reader, seqnum[reader])
         /\ \E k \in 1 .. Len(sent[seqnum[reader]]) :
              LET piece == sent[seqnum[reader]][k]
              IN  /\ processed[reader] = piece.at
                  /\ [at |-> piece.at, size |-> piece.size,
                      message |-> <<seqnum[reader], k>>] \in data[reader]
                  /\ \A m \in data[reader] : m.at = processed[reader] =>
                       m.size = piece.size /\ m.message = <<seqnum[reader], k>>
<1>1. PICK r \in Receivers : reader = r /\ processed[r] < received[r]
  BY DEF Idle, HasNextMessage
<1>2. /\ r # None /\ sent \in Seq(Datagrams)
      /\ received[r] \in Nat /\ processed[r] \in Nat
      /\ data[r] \subseteq Pieces
  BY PacketAssumption DEF CursorInv, PacketTypeOK
<1>3. ~Short(r)
  BY <1>1, <1>2 DEF Short
<1>4. PICK n : n = seqnum[r]
  OBVIOUS
<1>5. Holds(r, n) /\ n \in 1 .. Len(sent) /\ expectedseqnum = n + 1
  BY <1>1, <1>2, <1>3, <1>4 DEF CursorInv, BufferInv, ReaderInv, Holds
<1>6. PICK d \in Datagrams : d = sent[n]
  BY <1>2, <1>5
<1>7. /\ received[r] = Length(d)
      /\ {m \in data[r] : m.at < received[r]} = Content(n, d)
  BY <1>5, <1>6 DEF Holds
<1>8. PICK k \in 1 .. Len(d) : processed[r] = d[k].at
  <2>1. processed[r] # received[r]
    BY <1>1, <1>2
  <2> QED  BY <1>5, <1>6, <2>1, DatagramFacts DEF Holds
<1>9. ASSUME NEW m \in data[r], m.at = processed[r]
      PROVE  m.size = d[k].size /\ m.message = <<n, k>>
  <2>1. m \in Content(n, d)
    BY <1>1, <1>7, <1>9
  <2>2. PICK j \in 1 .. Len(d) :
          m.at = d[j].at /\ m.size = d[j].size /\ m.message = <<n, j>>
    BY <2>1, ContentIs
  <2>3. j = k
    <3>1. d[j].at = d[k].at
      BY <1>8, <1>9, <2>2
    <3> QED  BY <3>1, SameMessage
  <2> QED  BY <2>2, <2>3
<1>10. [at |-> d[k].at, size |-> d[k].size, message |-> <<n, k>>] \in data[r]
  <2>1. [at |-> d[k].at, size |-> d[k].size, message |-> <<n, k>>] \in Content(n, d)
    BY ContentIs
  <2> QED  BY <1>7, <2>1
<1>11. \E j \in 1 .. Len(d) :
         /\ processed[r] = d[j].at
         /\ [at |-> d[j].at, size |-> d[j].size, message |-> <<n, j>>] \in data[r]
         /\ \A m \in data[r] : m.at = processed[r] =>
              m.size = d[j].size /\ m.message = <<n, j>>
  BY <1>8, <1>9, <1>10
<1> QED  BY <1>1, <1>4, <1>5, <1>6, <1>11

(* Between two datagrams all that was handed on is whole.                  *)
LEMMA IdleMeans ==
  ASSUME CursorInv, Idle
  PROVE  /\ \A i \in 1 .. Len(handed) : \A k \in DOMAIN sent[handed[i][1]] :
              <<handed[i][1], k>> \in ToSet(handed)
         /\ IF handed = << >> THEN expectedseqnum \in {0, 1}
                              ELSE expectedseqnum = Last(handed)[1] + 1
<1>1. ASSUME reader # None
      PROVE  /\ reader \in Receivers /\ received[reader] \in Nat /\ processed[reader] \in Nat
             /\ processed[reader] >= received[reader]
  BY <1>1 DEF CursorInv, PacketTypeOK, Idle, HasNextMessage
<1>2. ASSUME NEW i \in 1 .. Len(handed), NEW k \in DOMAIN sent[handed[i][1]]
      PROVE  <<handed[i][1], k>> \in ToSet(handed)
  <2>1. PICK n : n = handed[i][1]
    OBVIOUS
  <2>2. n \in 1 .. Len(sent) /\ k \in DOMAIN sent[n]
    BY <1>2, <2>1 DEF CursorInv, HandedInv
  <2>3. PICK d \in Datagrams : d = sent[n]
    BY <2>2 DEF CursorInv, PacketTypeOK
  <2>4. CASE Reading(n)
    <3>1. reader # None /\ seqnum[reader] = n
      BY <2>4 DEF Reading
    <3>2. ~Short(reader)
      BY <2>2, <3>1 DEF CursorInv, ReaderInv
    <3>3. Holds(reader, n)
      BY <1>1, <3>1, <3>2 DEF CursorInv, BufferInv
    <3>4. Length(d) = received[reader] /\ processed[reader] >= Length(d)
      BY <1>1, <2>3, <3>1, <3>3 DEF Holds
    <3>5. k \in 1 .. Len(d) /\ sent[n][k].at < processed[reader]
      <4>1. k \in 1 .. Len(d) /\ sent[n][k].at \in Nat
        BY <2>2, <2>3, DatagramFacts
      <4>2. sent[n][k].at < Length(d)
        BY <2>3, <4>1, WithinLength
      <4> QED  BY <1>1, <3>1, <3>4, <4>1, <4>2
    <3> QED  BY <2>1, <2>2, <2>4, <3>5 DEF CursorInv, HandedInv
  <2>5. CASE ~Reading(n)
    BY <2>1, <2>2, <2>5 DEF CursorInv, HandedInv
  <2> QED  BY <2>4, <2>5
<1>3. ~(reader # None /\ ~Short(reader) /\ processed[reader] = kByteOffest)
  <2> SUFFICES ASSUME reader # None, ~Short(reader), processed[reader] = kByteOffest
               PROVE  FALSE
    OBVIOUS
  <2>1. received[reader] <= kByteOffest
    BY <1>1
  <2> QED  BY <1>1, <2>1 DEF Short
<1> QED  BY <1>2, <1>3 DEF CursorInv, LastInv

LEMMA MessageKeeps ==
  ASSUME CursorInv, OnIncrementalMessage
  PROVE  CursorInv'
<1>1. ~Idle /\ NextMessage(reader)
      /\ UNCHANGED <<sent, data, seqnum, received, reader, expectedseqnum>>
  BY DEF OnIncrementalMessage
<1>2. PICK r \in Receivers, n \in 1 .. Len(sent), d \in Datagrams, at \in Nat :
        r = reader /\ n = seqnum[reader] /\ d = sent[n] /\ at = processed[r]
  BY <1>1, CursorAt DEF CursorInv, PacketTypeOK
<1>3. /\ r \in Receivers /\ r # None /\ at < received[r]
      /\ n \in 1 .. Len(sent) /\ expectedseqnum = n + 1 /\ d \in Datagrams /\ Holds(r, n)
  BY <1>1, <1>2, CursorAt, PacketAssumption
<1>4. PICK k \in 1 .. Len(d) :
        /\ at = d[k].at
        /\ \A m \in data[r] : m.at = at => m.size = d[k].size /\ m.message = <<n, k>>
  BY <1>1, <1>2, CursorAt
<1>5. /\ processed' = [processed EXCEPT ![r] = at + d[k].size]
      /\ handed' = Append(handed, <<n, k>>)
  BY <1>1, <1>2, <1>4 DEF NextMessage
<1>6. /\ sent' = sent /\ data' = data /\ seqnum' = seqnum /\ received' = received
      /\ reader' = r /\ reader = r /\ expectedseqnum' = expectedseqnum
      /\ seqnum[r] = n /\ sent[n] = d /\ processed[r] = at
  BY <1>1, <1>2
<1>7. /\ received[r] = Length(d) /\ Length(d) \in Nat /\ Length(d) > kByteOffest
      /\ at \in Nat /\ d[k].size \in Nat /\ d[k].size > 0 /\ at >= kByteOffest
      /\ at + d[k].size <= received[r] /\ DOMAIN d = 1 .. Len(d) /\ Len(d) \in Nat
      /\ k \in 1 .. MaxMessages
  <2>1. k \in 1 .. MaxMessages
    <3>1. Len(d) \in 1 .. MaxMessages /\ MaxMessages \in Nat
      BY DatagramFacts, PacketAssumption
    <3> QED  BY <3>1
  <2>2. received[r] = Length(d)
    BY <1>3, <1>6 DEF Holds
  <2>3. /\ Length(d) \in Nat /\ Length(d) > kByteOffest
        /\ d[k].at + d[k].size <= Length(d)
    BY WithinLength
  <2>4. /\ d[k].at \in Nat /\ d[k].at >= kByteOffest /\ d[k].size \in Nat /\ d[k].size > 0
        /\ DOMAIN d = 1 .. Len(d) /\ Len(d) \in Nat
    BY DatagramFacts
  <2> QED  BY <1>4, <2>1, <2>2, <2>3, <2>4
<1>8. processed \in [Receivers -> Nat] /\ handed \in Seq(Messages)
  BY DEF CursorInv, PacketTypeOK
<1>9. /\ processed'[r] = at + d[k].size
      /\ \A s \in Receivers \ {r} : processed'[s] = processed[s]
  BY <1>3, <1>5, <1>8
<1>10. PacketTypeOK'
  <2>1. processed' \in [Receivers -> Nat]
    BY <1>3, <1>5, <1>7, <1>8
  <2>2. \A s \in Receivers : processed'[s] <= received[s] \/ processed'[s] = kByteOffest
    BY <1>7, <1>9 DEF CursorInv, PacketTypeOK
  <2>3. n \in 1 .. MaxDatagrams
    BY <1>3, PacketAssumption DEF CursorInv, PacketTypeOK
  <2>4. handed' \in Seq(Messages)
    BY <1>5, <1>7, <1>8, <2>3 DEF Messages
  <2> QED  BY <1>6, <2>1, <2>2, <2>4 DEF CursorInv, PacketTypeOK
<1>11. Holds(r, n)'
  <2>1. \/ at + d[k].size = Length(d)
        \/ \E j \in DOMAIN d : at + d[k].size = d[j].at
    BY <1>4, MessageAfter
  <2>2. /\ received[r] = Length(d)
        /\ {m \in data[r] : m.at < received[r]} = Content(n, d)
    BY <1>3, <1>6 DEF Holds
  <2> QED  BY <1>3, <1>6, <1>9, <2>1, <2>2 DEF Holds
<1>12. BufferInv'
  <2>1. ASSUME NEW s \in Receivers
        PROVE  (Short(s) \/ Holds(s, seqnum[s]))'
    <3>1. CASE s = r
      <4>1. seqnum'[s] = n
        BY <1>6, <3>1
      <4> QED  BY <1>6, <1>11, <3>1, <4>1 DEF Holds
    <3>2. CASE s # r
      <4>1. processed'[s] = processed[s]
        BY <1>9, <3>2
      <4>2. Short(s) \/ Holds(s, seqnum[s])
        BY DEF CursorInv, BufferInv
      <4> QED  BY <1>6, <4>1, <4>2 DEF Short, Holds
    <3> QED  BY <3>1, <3>2
  <2> QED  BY <1>6, <2>1 DEF CursorInv, BufferInv
<1>13. ~Short(r)'
  BY <1>6, <1>7 DEF Short, kByteOffest
<1>14. ReaderInv'
  BY <1>3, <1>6, <1>13 DEF ReaderInv, Short
<1>15. /\ \A i \in 1 .. Len(handed) : handed'[i] = handed[i]
       /\ Len(handed') = Len(handed) + 1 /\ handed'[Len(handed) + 1] = <<n, k>>
       /\ Len(handed) \in Nat
       /\ ToSet(handed') = ToSet(handed) \cup {<<n, k>>}
  <2>1. /\ \A i \in 1 .. Len(handed) : handed'[i] = handed[i]
        /\ Len(handed') = Len(handed) + 1 /\ handed'[Len(handed) + 1] = <<n, k>>
        /\ Len(handed) \in Nat /\ handed' \in Seq({<<n, k>>} \cup Messages)
    BY <1>5, <1>8
  <2>2. /\ ToSet(handed) = {handed[i] : i \in 1 .. Len(handed)}
        /\ ToSet(handed') = {handed'[i] : i \in 1 .. Len(handed')}
    <3>1. DOMAIN handed = 1 .. Len(handed) /\ DOMAIN handed' = 1 .. Len(handed')
      BY <1>8, <2>1
    <3> QED  BY <3>1, Zenon DEF ToSet
  <2>3. ToSet(handed') = ToSet(handed) \cup {<<n, k>>}
    <3>1. \A i \in 1 .. Len(handed') : i \in 1 .. Len(handed) \/ i = Len(handed) + 1
      BY <2>1
    <3>2. Len(handed) + 1 \in 1 .. Len(handed') /\ 1 .. Len(handed) \subseteq 1 .. Len(handed')
      BY <2>1
    <3> QED  BY <2>1, <2>2, <3>1, <3>2
  <2> QED  BY <2>1, <2>3
<1>16. \A i \in 1 .. Len(handed) :
         /\ handed[i][1] \in 1 .. Len(sent) /\ handed[i][1] < expectedseqnum
         /\ handed[i][2] \in DOMAIN sent[handed[i][1]]
         /\ handed[i][1] = n => d[handed[i][2]].at < at
  BY <1>3, <1>6 DEF CursorInv, HandedInv, Reading
<1>17. InOrder(handed)'
  <2>1. InOrder(handed)
    BY DEF CursorInv, HandedInv
  <2>2. ASSUME NEW i \in 1 .. Len(handed)
        PROVE  handed[i][1] < n \/ (handed[i][1] = n /\ handed[i][2] < k)
    <3>1. CASE handed[i][1] = n
      <4>1. handed[i][2] \in 1 .. Len(d) /\ d[handed[i][2]].at < d[k].at
        BY <1>4, <1>6, <1>7, <1>16, <3>1
      <4> QED  BY <3>1, <4>1, SameMessage
    <3>2. CASE handed[i][1] # n
      BY <1>3, <1>16, <3>2
    <3> QED  BY <3>1, <3>2
  <2>3. ASSUME NEW i \in 1 .. Len(handed) + 1, NEW j \in 1 .. Len(handed) + 1, i < j
        PROVE  \/ handed'[i][1] < handed'[j][1]
               \/ handed'[i][1] = handed'[j][1] /\ handed'[i][2] < handed'[j][2]
    <3>1. i \in 1 .. Len(handed) /\ handed'[i] = handed[i]
      BY <1>15, <2>3
    <3>2. CASE j = Len(handed) + 1
      <4>1. handed'[j][1] = n /\ handed'[j][2] = k
        BY <1>15, <3>2
      <4> QED  BY <2>2, <3>1, <4>1
    <3>3. CASE j # Len(handed) + 1
      <4>1. j \in 1 .. Len(handed) /\ handed'[j] = handed[j]
        BY <1>15, <3>3
      <4> QED  BY <2>1, <2>3, <3>1, <4>1 DEF InOrder
    <3> QED  BY <3>2, <3>3
  <2> QED  BY <1>15, <2>3 DEF InOrder
<1>18. \A x : Reading(x)' <=> x = n
  BY <1>3, <1>6 DEF Reading
<1>19. HandedInv'
  <2>1. ASSUME NEW i \in 1 .. Len(handed')
        PROVE  /\ handed'[i][1] \in 1 .. Len(sent) /\ handed'[i][1] < expectedseqnum
               /\ handed'[i][2] \in DOMAIN sent[handed'[i][1]]
               /\ handed'[i][1] = n => sent[handed'[i][1]][handed'[i][2]].at < processed'[r]
    <3>1. CASE i = Len(handed) + 1
      <4>1. handed'[i][1] = n /\ handed'[i][2] = k
        BY <1>15, <3>1
      <4>2. d[k].at < processed'[r]
        BY <1>4, <1>7, <1>9
      <4> QED  BY <1>3, <1>6, <1>7, <4>1, <4>2
    <3>2. CASE i # Len(handed) + 1
      <4>1. i \in 1 .. Len(handed) /\ handed'[i] = handed[i]
        BY <1>15, <3>2
      <4>2. handed[i][1] = n =>
              handed[i][2] \in 1 .. Len(d) /\ d[handed[i][2]].at < processed'[r]
        <5>1. ASSUME handed[i][1] = n
              PROVE  handed[i][2] \in 1 .. Len(d) /\ d[handed[i][2]].at < at
          BY <1>6, <1>7, <1>16, <4>1, <5>1
        <5>2. handed[i][1] = n => d[handed[i][2]].at \in Nat
          BY <5>1, DatagramFacts
        <5>3. \A u, v, w \in Nat : u < v => u < v + w
          OBVIOUS
        <5> QED  BY <1>7, <1>9, <5>1, <5>2, <5>3
      <4> QED  BY <1>6, <1>16, <4>1, <4>2
    <3> QED  BY <3>1, <3>2
  <2>2. ASSUME NEW i \in 1 .. Len(handed'), NEW j \in DOMAIN sent[handed'[i][1]]
        PROVE  handed'[i][1] = n \/ <<handed'[i][1], j>> \in ToSet(handed')
    <3>1. CASE i = Len(handed) + 1
      BY <1>15, <3>1
    <3>2. CASE i # Len(handed) + 1
      <4>1. i \in 1 .. Len(handed) /\ handed'[i] = handed[i]
        BY <1>15, <3>2
      <4>2. Reading(handed[i][1]) \/ <<handed[i][1], j>> \in ToSet(handed)
        BY <2>2, <4>1 DEF CursorInv, HandedInv
      <4> QED  BY <1>6, <1>15, <4>1, <4>2 DEF Reading
    <3> QED  BY <3>1, <3>2
  <2>3. ASSUME NEW j \in DOMAIN sent[n], sent[n][j].at < processed'[r]
        PROVE  <<n, j>> \in ToSet(handed')
    <3>1. j \in 1 .. Len(d) /\ d[j].at \in Nat /\ d[j].at < at + d[k].size
      BY <1>6, <1>7, <1>9, <2>3, DatagramFacts
    <3>2. CASE j = k
      BY <1>15, <3>2
    <3>3. CASE j # k
      <4>1. ~(k < j)
        <5>1. k < j => d[k].at + d[k].size <= d[j].at
          BY <3>1, OneBehindTheOther
        <5> QED  BY <1>4, <1>7, <3>1, <5>1
      <4>2. d[j].at + d[j].size <= d[k].at
        <5>1. j < k
          BY <3>1, <3>3, <4>1
        <5> QED  BY <3>1, <5>1, OneBehindTheOther
      <4>3. d[j].at < at
        <5>1. d[j].size \in Nat /\ d[j].size > 0
          BY <3>1, DatagramFacts
        <5> QED  BY <1>4, <1>7, <3>1, <4>2, <5>1
      <4>4. Reading(n)
        BY <1>3, <1>6 DEF Reading
      <4>5. <<n, j>> \in ToSet(handed)
        BY <1>3, <1>6, <2>3, <4>3, <4>4 DEF CursorInv, HandedInv
      <4> QED  BY <1>15, <4>5
    <3> QED  BY <3>2, <3>3
  <2> QED  BY <1>6, <1>17, <1>18, <2>1, <2>2, <2>3 DEF HandedInv
<1>20. LastInv'
  <2>1. handed' # << >> /\ Last(handed') = <<n, k>>
    BY <1>15 DEF Last
  <2> QED  BY <1>3, <1>6, <2>1 DEF LastInv
<1> QED  BY <1>10, <1>12, <1>14, <1>19, <1>20 DEF CursorInv
-----------------------------------------------------------------------------
(* A datagram arrives.                                                     *)

\* What is in the buffer afterwards: the datagram, or none.
LEMMA ReceivedIs ==
  ASSUME CursorInv, NEW r \in Receivers, NEW n \in 0 .. Len(sent), NEW length,
         n = 0 => length \in ShortLengths, n # 0 => length = Length(sent[n]),
         HandleReceiveFrom(r, n, length)
  PROVE  /\ data' \in [Receivers -> SUBSET Pieces]
         /\ received' \in [Receivers -> Nat] /\ processed' \in [Receivers -> Nat]
         /\ processed'[r] = kByteOffest
         /\ seqnum' = [seqnum EXCEPT ![r] = IF n = 0 THEN @ ELSE n]
         /\ \A s \in Receivers \ {r} :
              /\ data'[s] = data[s] /\ received'[s] = received[s]
              /\ processed'[s] = processed[s]
         /\ n = 0 => received'[r] <= kByteOffest
         /\ n # 0 => /\ received'[r] > kByteOffest /\ received'[r] = Length(sent[n])
                     /\ {m \in data'[r] : m.at < received'[r]} = Content(n, sent[n])
<1>1. PICK d : d = IF n = 0 THEN << >> ELSE sent[n]
  OBVIOUS
<1>2. PICK b, c : b = data[r] /\ c = {m \in b : m.at >= length} \cup Content(n, d)
  OBVIOUS
<1>3. /\ data' = [data EXCEPT ![r] = c]
      /\ received' = [received EXCEPT ![r] = length]
      /\ processed' = [processed EXCEPT ![r] = kByteOffest]
      /\ seqnum' = [seqnum EXCEPT ![r] = IF length > kByteOffest THEN n ELSE @]
  <2>1. /\ data' = [data EXCEPT ![r] = {m \in @ : m.at >= length} \cup Content(n, d)]
        /\ Reset(r, n, length)
    BY <1>1 DEF HandleReceiveFrom
  <2> QED  BY <1>2, <2>1 DEF Reset
<1>4. /\ data \in [Receivers -> SUBSET Pieces] /\ b \subseteq Pieces
      /\ received \in [Receivers -> Nat] /\ processed \in [Receivers -> Nat]
      /\ sent \in Seq(Datagrams) /\ Len(sent) <= MaxDatagrams
      /\ seqnum \in [Receivers -> 0 .. Len(sent)] /\ kByteOffest \in Nat
  BY <1>2 DEF CursorInv, PacketTypeOK, kByteOffest
<1>5. CASE n = 0
  <2>0. length \in Nat /\ length <= kByteOffest
    <3>1. length \in ShortLengths
      BY <1>5
    <3>2. ShortLengths \subseteq 0 .. 12
      BY PacketAssumption DEF kByteOffest
    <3> QED  BY <3>1, <3>2 DEF kByteOffest
  <2>1. ~(length > kByteOffest) /\ Content(n, d) = {}
    <3>1. d = << >> /\ DOMAIN d = {}
      BY <1>1, <1>5
    <3> QED  BY <2>0, <3>1 DEF Content, kByteOffest
  <2>2. c \subseteq Pieces
    BY <1>2, <1>4, <2>1
  <2>3. seqnum' = seqnum
    BY <1>3, <1>4, <2>1
  <2> QED  BY <1>3, <1>4, <1>5, <2>0, <2>2, <2>3
<1>6. CASE n # 0
  <2>1. /\ n \in 1 .. Len(sent) /\ d = sent[n] /\ d \in Datagrams
        /\ n \in 1 .. MaxDatagrams /\ length = Length(d)
    <3>1. n \in 1 .. Len(sent) /\ d = sent[n]
      BY <1>1, <1>4, <1>6
    <3>2. MaxDatagrams \in Nat
      BY PacketAssumption
    <3>3. length = Length(d)
      BY <1>6, <3>1
    <3> QED  BY <1>4, <3>1, <3>2, <3>3
  <2>2. Length(d) \in Nat /\ Length(d) > kByteOffest
    BY <2>1, WithinLength
  <2>3. c \subseteq Pieces
    BY <1>2, <1>4, <2>1, ContentIs
  <2>4. {m \in c : m.at < Length(d)} = Content(n, d)
    <3>1. \A m : m \in c <=> (m \in b /\ m.at >= Length(d)) \/ m \in Content(n, d)
      BY <1>2, <2>1
    <3>2. b \subseteq Pieces /\ d \in Datagrams
      BY <1>4, <2>1
    <3>3. \A m : m \in c /\ m.at < Length(d) <=> m \in Content(n, d)
      BY <3>1, <3>2, LaidOver
    <3> QED  BY <3>3
  <2>5. data'[r] = c /\ received'[r] = Length(d)
    BY <1>3, <1>4, <2>1
  <2>6. seqnum' = [seqnum EXCEPT ![r] = n]
    BY <1>3, <2>1, <2>2
  <2>7. {m \in data'[r] : m.at < received'[r]} = Content(n, sent[n])
    BY <2>1, <2>4, <2>5
  <2> QED  BY <1>3, <1>4, <1>6, <2>1, <2>2, <2>3, <2>5, <2>6, <2>7
<1> QED  BY <1>5, <1>6

LEMMA ReceiveKeeps ==
  ASSUME CursorInv, NEW r \in Receivers, NEW n \in 0 .. Len(sent), NEW length,
         n = 0 => length \in ShortLengths, n # 0 => length = Length(sent[n]),
         HandleReceiveFrom(r, n, length)
  PROVE  CursorInv'
<1>1. /\ Idle /\ Filter(r) /\ sent' = sent /\ handed' = handed
  BY DEF HandleReceiveFrom
<1>2. /\ data' \in [Receivers -> SUBSET Pieces]
      /\ received' \in [Receivers -> Nat] /\ processed' \in [Receivers -> Nat]
      /\ processed'[r] = kByteOffest
      /\ seqnum' = [seqnum EXCEPT ![r] = IF n = 0 THEN @ ELSE n]
      /\ \A s \in Receivers \ {r} :
           /\ data'[s] = data[s] /\ received'[s] = received[s]
           /\ processed'[s] = processed[s]
      /\ n = 0 => received'[r] <= kByteOffest
      /\ n # 0 => /\ received'[r] > kByteOffest /\ received'[r] = Length(sent[n])
                  /\ {m \in data'[r] : m.at < received'[r]} = Content(n, sent[n])
  BY ReceivedIs
<1>3. /\ seqnum \in [Receivers -> 0 .. Len(sent)] /\ expectedseqnum \in 0 .. Len(sent) + 1
      /\ sent \in Seq(Datagrams) /\ Len(sent) \in Nat /\ handed \in Seq(Messages)
      /\ r # None
  BY PacketAssumption DEF CursorInv, PacketTypeOK
<1>4. PICK x : x = IF n = 0 THEN seqnum[r] ELSE n
  OBVIOUS
<1>5. /\ seqnum'[r] = x /\ x \in 0 .. Len(sent) /\ seqnum' \in [Receivers -> 0 .. Len(sent)]
      /\ \A s \in Receivers \ {r} : seqnum'[s] = seqnum[s]
  BY <1>2, <1>3, <1>4
<1>6. \/ /\ x >= expectedseqnum \/ expectedseqnum = 0
         /\ expectedseqnum' = x + 1 /\ reader' = r
      \/ /\ ~(x >= expectedseqnum) /\ expectedseqnum # 0
         /\ expectedseqnum' = expectedseqnum /\ reader' = None
  BY <1>1, <1>5 DEF Filter
<1>7. /\ expectedseqnum' \in 0 .. Len(sent) + 1 /\ expectedseqnum <= expectedseqnum'
      /\ reader' \in Receivers \cup {None}
  BY <1>3, <1>5, <1>6
<1>8. PacketTypeOK'
  <2>1. \A s \in Receivers : processed'[s] <= received'[s] \/ processed'[s] = kByteOffest
    BY <1>2 DEF CursorInv, PacketTypeOK
  <2> QED  BY <1>1, <1>2, <1>5, <1>7, <2>1 DEF CursorInv, PacketTypeOK
<1>9. \A s \in Receivers : seqnum[s] < expectedseqnum \/ (seqnum[s] = 0 /\ expectedseqnum = 0)
  BY DEF CursorInv, BufferInv
\* Without a number of its own a datagram passes only where none has come.
<1>10. ASSUME n = 0, reader' = r
       PROVE  x = 0 /\ expectedseqnum = 0 /\ expectedseqnum' = 1
  <2>1. x >= expectedseqnum \/ expectedseqnum = 0
    BY <1>3, <1>6, <1>10
  <2>2. x = seqnum[r] /\ expectedseqnum' = x + 1
    BY <1>3, <1>4, <1>6, <1>10
  <2> QED  BY <1>3, <1>5, <1>9, <2>1, <2>2
<1>11. /\ n = 0 => Short(r)'
       /\ n # 0 => ~Short(r)' /\ Holds(r, n)'
  <2>1. n = 0 => Short(r)'
    BY <1>2 DEF Short, kByteOffest
  <2>2. ASSUME n # 0
        PROVE  ~Short(r)' /\ Holds(r, n)'
    <3>1. n \in 1 .. Len(sent) /\ sent[n] \in Datagrams
      BY <1>3, <2>2
    <3>2. 1 \in DOMAIN sent[n] /\ sent[n][1].at = kByteOffest
      BY <3>1, DatagramFacts
    <3>3. ~Short(r)'
      BY <1>2, <2>2 DEF Short, kByteOffest
    <3>4. Holds(r, n)'
      BY <1>1, <1>2, <2>2, <3>1, <3>2 DEF Holds
    <3> QED  BY <3>3, <3>4
  <2> QED  BY <2>1, <2>2
<1>12. BufferInv'
  <2>1. ASSUME NEW s \in Receivers
        PROVE  (Short(s) \/ Holds(s, seqnum[s]))'
    <3>1. CASE s = r
      <4>1. n # 0 => seqnum'[s] = n
        BY <1>4, <1>5, <3>1
      <4>2. CASE n = 0
        BY <1>11, <3>1, <4>2 DEF Short
      <4>3. CASE n # 0
        BY <1>11, <3>1, <4>1, <4>3 DEF Holds
      <4> QED  BY <4>2, <4>3
    <3>2. CASE s # r
      <4>1. /\ data'[s] = data[s] /\ received'[s] = received[s]
            /\ processed'[s] = processed[s] /\ seqnum'[s] = seqnum[s]
        BY <1>2, <1>5, <3>2
      <4>2. Short(s) \/ Holds(s, seqnum[s])
        BY DEF CursorInv, BufferInv
      <4> QED  BY <1>1, <4>1, <4>2 DEF Short, Holds
    <3> QED  BY <3>1, <3>2
  <2>2. ASSUME NEW s \in Receivers
        PROVE  seqnum'[s] < expectedseqnum' \/ (seqnum'[s] = 0 /\ expectedseqnum' = 0)
    <3>1. CASE s = r
      BY <1>3, <1>5, <1>6, <3>1
    <3>2. CASE s # r
      <4>1. seqnum'[s] = seqnum[s] /\ seqnum[s] \in 0 .. Len(sent)
        BY <1>3, <1>5, <3>2
      <4> QED  BY <1>3, <1>5, <1>6, <1>9, <4>1
    <3> QED  BY <3>1, <3>2
  <2> QED  BY <2>1, <2>2 DEF BufferInv
<1>13. ReaderInv'
  <2>1. CASE reader' = None
    BY <2>1 DEF ReaderInv
  <2>2. CASE reader' = r
    <3>1. expectedseqnum' = seqnum'[r] + 1
      BY <1>3, <1>5, <1>6, <2>2
    <3>2. Short(r)' => seqnum'[r] = 0
      BY <1>5, <1>10, <1>11, <2>2
    <3> QED  BY <2>2, <3>1, <3>2 DEF ReaderInv, Short
  <2> QED  BY <1>6, <2>1, <2>2
<1>14. /\ \A i \in 1 .. Len(handed) : \A k \in DOMAIN sent[handed[i][1]] :
            <<handed[i][1], k>> \in ToSet(handed)
       /\ IF handed = << >> THEN expectedseqnum \in {0, 1}
                            ELSE expectedseqnum = Last(handed)[1] + 1
  BY <1>1, IdleMeans
<1>15. InOrder(handed) /\ \A i \in 1 .. Len(handed) :
         /\ handed[i][1] \in 1 .. Len(sent) /\ handed[i][1] < expectedseqnum
         /\ handed[i][2] \in DOMAIN sent[handed[i][1]]
  BY DEF CursorInv, HandedInv
<1>16. ASSUME NEW i \in 1 .. Len(handed)
       PROVE  ~Reading(handed[i][1])' /\ handed[i][1] < expectedseqnum'
  <2>1. handed[i][1] \in Nat /\ handed[i][1] < expectedseqnum /\ handed[i][1] # 0
    BY <1>3, <1>15
  <2>2. reader' = r => handed[i][1] # x
    BY <1>3, <1>5, <1>6, <2>1
  <2>3. ~Reading(handed[i][1])'
    BY <1>1, <1>5, <1>6, <2>2 DEF Reading
  <2> QED  BY <1>3, <1>7, <2>1, <2>3
<1>17. HandedInv'
  <2>1. ASSUME NEW y \in 1 .. Len(sent), NEW k \in DOMAIN sent[y], Reading(y)'
        PROVE  ~(sent[y][k].at < processed'[reader'])
    <3>1. reader' = r
      BY <1>6, <2>1 DEF Reading
    <3>2. sent[y][k].at \in Nat /\ sent[y][k].at >= kByteOffest
      <4>1. sent[y] \in Datagrams
        BY <1>3
      <4>2. k \in 1 .. Len(sent[y])
        BY <4>1, DatagramFacts
      <4> QED  BY <4>1, <4>2, DatagramFacts
    <3>3. processed'[reader'] = kByteOffest /\ kByteOffest \in Nat
      BY <1>2, <3>1 DEF kByteOffest
    <3> QED  BY <3>2, <3>3
  <2>2. InOrder(handed')
    BY <1>1, <1>15
  <2>3. \A i \in 1 .. Len(handed') :
          /\ handed'[i][1] \in 1 .. Len(sent') /\ handed'[i][1] < expectedseqnum'
          /\ handed'[i][2] \in DOMAIN sent'[handed'[i][1]]
          /\ ~Reading(handed[i][1])'
          /\ handed'[i] = handed[i]
    BY <1>1, <1>15, <1>16
  <2>4. \A i \in 1 .. Len(handed') : \A k \in DOMAIN sent'[handed'[i][1]] :
          <<handed'[i][1], k>> \in ToSet(handed')
    BY <1>1, <1>14
  <2>5. \A y \in 1 .. Len(sent') : \A k \in DOMAIN sent'[y] :
          Reading(y)' => ~(sent'[y][k].at < processed'[reader'])
    BY <1>1, <2>1
  <2> QED  BY <1>1, <2>2, <2>3, <2>4, <2>5 DEF HandedInv, InOrder, Reading
<1>18. LastInv'
  <2>1. CASE reader' = r /\ n # 0
    <3>1. reader' # None /\ processed'[reader'] = kByteOffest
      BY <1>2, <1>3, <2>1
    <3>2. ~Short(reader)'
      BY <1>11, <2>1 DEF Short
    <3> QED  BY <3>1, <3>2 DEF LastInv
  <2>2. CASE reader' = r /\ n = 0
    <3>1. expectedseqnum = 0 /\ expectedseqnum' = 1
      BY <1>10, <2>2
    <3>2. handed = << >>
      <4>1. Len(handed) = 0
        <5> SUFFICES ASSUME Len(handed) # 0
                     PROVE  FALSE
          OBVIOUS
        <5>1. 1 \in 1 .. Len(handed)
          BY <1>3
        <5>2. handed[1][1] \in Nat /\ handed[1][1] < 0
          BY <1>3, <1>15, <3>1, <5>1
        <5> QED  BY <5>2
      <4> QED  BY <1>3, <4>1
    <3> QED  BY <1>1, <3>1, <3>2 DEF LastInv
  <2>3. CASE reader' = None
    <3>1. expectedseqnum' = expectedseqnum
      BY <1>3, <1>6, <2>3
    <3> QED  BY <1>1, <1>14, <3>1 DEF LastInv
  <2> QED  BY <1>6, <2>1, <2>2, <2>3
<1> QED  BY <1>8, <1>12, <1>13, <1>17, <1>18 DEF CursorInv

\* A datagram that is sent and has not arrived changes nothing.
LEMMA SendKeeps ==
  ASSUME CursorInv, NEW d \in Datagrams, Send(d)
  PROVE  CursorInv'
<1>1. /\ Len(sent) < MaxDatagrams /\ sent' = Append(sent, d)
      /\ UNCHANGED <<data, seqnum, received, processed, reader, expectedseqnum, handed>>
  BY DEF Send, perReceiver
<1>2. /\ sent \in Seq(Datagrams) /\ Len(sent) \in Nat /\ MaxDatagrams \in Nat
      /\ seqnum \in [Receivers -> 0 .. Len(sent)] /\ expectedseqnum \in 0 .. Len(sent) + 1
      /\ reader \in Receivers \cup {None}
  BY PacketAssumption DEF CursorInv, PacketTypeOK
<1>3. /\ sent' \in Seq(Datagrams) /\ Len(sent') = Len(sent) + 1
      /\ Len(sent') <= MaxDatagrams
      /\ \A n \in 1 .. Len(sent) : sent'[n] = sent[n]
  BY <1>1, <1>2
<1>4. PacketTypeOK'
  <2>1. seqnum' \in [Receivers -> 0 .. Len(sent')] /\ expectedseqnum' \in 0 .. Len(sent') + 1
    BY <1>1, <1>2, <1>3
  <2> QED  BY <1>1, <1>3, <2>1 DEF CursorInv, PacketTypeOK
<1>5. BufferInv'
  <2>1. ASSUME NEW s \in Receivers
        PROVE  (Short(s) \/ Holds(s, seqnum[s]))'
    <3>1. Short(s) => Short(s)'
      BY <1>1 DEF Short
    <3>2. ASSUME Holds(s, seqnum[s])
          PROVE  Holds(s, seqnum[s])'
      <4>1. /\ seqnum[s] \in 1 .. Len(sent) /\ seqnum[s] \in 1 .. Len(sent')
            /\ sent'[seqnum[s]] = sent[seqnum[s]]
        BY <1>2, <1>3, <3>2 DEF Holds
      <4> QED  BY <1>1, <3>2, <4>1 DEF Holds
    <3> QED  BY <3>1, <3>2 DEF CursorInv, BufferInv
  <2> QED  BY <1>1, <2>1 DEF CursorInv, BufferInv
<1>6. ReaderInv' /\ LastInv'
  BY <1>1 DEF CursorInv, ReaderInv, LastInv, Short
<1>7. HandedInv'
  <2>1. \A n : Reading(n)' <=> Reading(n)
    BY <1>1 DEF Reading
  <2>2. ~Reading(Len(sent) + 1)
    BY <1>2, PacketAssumption DEF Reading
  <2>3. \A n \in 1 .. Len(sent') : n \in 1 .. Len(sent) \/ n = Len(sent) + 1
    BY <1>2, <1>3
  <2>4. \A n \in 1 .. Len(sent) : n \in 1 .. Len(sent')
    BY <1>2, <1>3
  <2>5. \A i \in 1 .. Len(handed) : handed[i][1] \in 1 .. Len(sent)
    BY DEF CursorInv, HandedInv
  <2>6. \A i \in 1 .. Len(handed) : sent'[handed[i][1]] = sent[handed[i][1]]
    BY <1>3, <2>5
  <2>7. InOrder(handed)'
    BY <1>1 DEF CursorInv, HandedInv, InOrder
  <2>8. \A i \in 1 .. Len(handed') :
          /\ handed'[i][1] \in 1 .. Len(sent') /\ handed'[i][1] < expectedseqnum'
          /\ handed'[i][2] \in DOMAIN sent'[handed'[i][1]]
          /\ Reading(handed[i][1]) =>
               sent'[handed'[i][1]][handed'[i][2]].at < processed'[reader']
          /\ handed'[i] = handed[i]
    BY <1>1, <2>4, <2>6 DEF CursorInv, HandedInv
  <2>9. \A i \in 1 .. Len(handed') : \A k \in DOMAIN sent'[handed'[i][1]] :
          Reading(handed[i][1]) \/ <<handed'[i][1], k>> \in ToSet(handed')
    BY <1>1, <2>6 DEF CursorInv, HandedInv
  <2>10. \A n \in 1 .. Len(sent') : \A k \in DOMAIN sent'[n] :
           Reading(n) /\ sent'[n][k].at < processed'[reader'] => <<n, k>> \in ToSet(handed')
    BY <1>1, <1>3, <2>2, <2>3 DEF CursorInv, HandedInv
  <2>11. \A i \in 1 .. Len(handed') : Reading(handed[i][1])' <=> Reading(handed[i][1])
    BY <1>1 DEF Reading
  <2>12. \A n \in 1 .. Len(sent') : Reading(n)' <=> Reading(n)
    BY <2>1
  <2> QED  BY <2>7, <2>8, <2>9, <2>10, <2>11, <2>12 DEF HandedInv
<1> QED  BY <1>4, <1>5, <1>6, <1>7 DEF CursorInv

LEMMA CursorInvInit ==
  ASSUME Init
  PROVE  CursorInv
<1>1. /\ sent = << >> /\ data = [r \in Receivers |-> {}]
      /\ seqnum = [r \in Receivers |-> 0] /\ received = [r \in Receivers |-> 0]
      /\ processed = [r \in Receivers |-> 0] /\ reader = None
      /\ expectedseqnum = 0 /\ handed = << >>
  BY DEF Init
<1>2. Len(sent) = 0 /\ Len(handed) = 0 /\ sent \in Seq(Datagrams) /\ handed \in Seq(Messages)
  BY <1>1
<1>3. PacketTypeOK
  BY <1>1, <1>2, PacketAssumption DEF PacketTypeOK
<1>4. BufferInv /\ ReaderInv /\ LastInv
  BY <1>1 DEF BufferInv, ReaderInv, LastInv, Short, kByteOffest
<1>5. HandedInv
  BY <1>2 DEF HandedInv, InOrder
<1> QED  BY <1>3, <1>4, <1>5 DEF CursorInv

LEMMA CursorInvNext ==
  ASSUME CursorInv, [Next]_vars
  PROVE  CursorInv'
<1>1. CASE \E d \in Datagrams : Send(d)
  BY <1>1, SendKeeps
<1>2. ASSUME NEW r \in Receivers,
             \/ \E n \in 1 .. Len(sent) : HandleReceiveFrom(r, n, Length(sent[n]))
             \/ \E length \in ShortLengths : HandleReceiveFrom(r, 0, length)
      PROVE  CursorInv'
  <2>1. ASSUME NEW n \in 1 .. Len(sent), HandleReceiveFrom(r, n, Length(sent[n]))
        PROVE  CursorInv'
    <3>1. n \in 0 .. Len(sent) /\ n # 0
      OBVIOUS
    <3> QED  BY <2>1, <3>1, ReceiveKeeps
  <2>2. ASSUME NEW length \in ShortLengths, HandleReceiveFrom(r, 0, length)
        PROVE  CursorInv'
    <3>1. 0 \in 0 .. Len(sent)
      BY DEF CursorInv, PacketTypeOK
    <3> QED  BY <2>2, <3>1, ReceiveKeeps
  <2> QED  BY <1>2, <2>1, <2>2
<1>3. CASE OnIncrementalMessage
  BY <1>3, MessageKeeps
<1>4. CASE UNCHANGED vars
  <2>1. UNCHANGED <<sent, data, seqnum, received, processed, reader, expectedseqnum, handed>>
    BY <1>4 DEF vars, perReceiver
  <2>2. PacketTypeOK' /\ BufferInv' /\ ReaderInv' /\ LastInv'
    BY <2>1 DEF CursorInv, PacketTypeOK, BufferInv, ReaderInv, LastInv, Short, Holds
  <2>3. HandedInv'
    BY <2>1 DEF CursorInv, HandedInv, InOrder, Reading
  <2> QED  BY <2>2, <2>3 DEF CursorInv
<1> QED  BY <1>1, <1>2, <1>3, <1>4 DEF Next

(* What a buffer holds, where the cursor is in it and what was handed on   *)
(* always agree.                                                           *)
THEOREM CursorAgrees == Spec => []CursorInv
<1>1. Init => CursorInv
  BY CursorInvInit
<1>2. CursorInv /\ [Next]_vars => CursorInv'
  BY CursorInvNext
<1> QED  BY <1>1, <1>2, PTL DEF Spec
-----------------------------------------------------------------------------
(* The properties of the run.                                              *)

(* Packet never moves its cursor behind the length received, whatever the  *)
(* sizes of the messages and what older datagrams left in the buffer.      *)
THEOREM PacketTypeCorrect == Spec => []PacketTypeOK
<1>1. CursorInv => PacketTypeOK
  BY DEF CursorInv
<1> QED  BY <1>1, CursorAgrees, PTL

(* NextMessage always reads a message of the datagram received last, never *)
(* what an older one left in the buffer nor the middle of a message.       *)
THEOREM AlwaysOnMessage == Spec => []CursorOnMessage
<1>1. CursorInv => CursorOnMessage
  <2> SUFFICES ASSUME CursorInv, ~Idle
               PROVE  \E m \in data[reader] :
                        /\ m.at = processed[reader]
                        /\ m.message[1] = seqnum[reader]
                        /\ m.at + m.size <= received[reader]
    BY DEF CursorOnMessage
  <2>1. PICK n \in 1 .. Len(sent), d \in Datagrams :
          n = seqnum[reader] /\ d = sent[n] /\ received[reader] = Length(d)
    BY CursorAt DEF Holds
  <2>2. PICK k \in 1 .. Len(d), m \in data[reader] :
          /\ processed[reader] = d[k].at
          /\ m = [at |-> d[k].at, size |-> d[k].size, message |-> <<n, k>>]
    BY <2>1, CursorAt
  <2>3. m.at = d[k].at /\ m.size = d[k].size /\ m.message[1] = n
    BY <2>2
  <2>4. d[k].at + d[k].size <= Length(d)
    BY WithinLength
  <2> QED  BY <2>1, <2>2, <2>3, <2>4
<1> QED  BY <1>1, CursorAgrees, PTL

(* OnIncrementalPacket hands on whole datagrams, in order, none twice,     *)
(* whatever reaches the receivers, and however many there are.             *)
THEOREM AlwaysWhole == Spec => []HandedWhole
<1>1. CursorInv => HandedWhole
  <2> SUFFICES ASSUME CursorInv
               PROVE  HandedWhole
    OBVIOUS
  <2>1. DOMAIN handed = 1 .. Len(handed) /\ InOrder(handed)
    BY DEF CursorInv, PacketTypeOK, HandedInv
  <2>2. Idle => \A i \in DOMAIN handed : \A k \in DOMAIN sent[handed[i][1]] :
                  <<handed[i][1], k>> \in ToSet(handed)
    BY <2>1, IdleMeans
  <2>3. \A i, j \in DOMAIN handed : i < j =>
          \/ handed[i][1] < handed[j][1]
          \/ handed[i][1] = handed[j][1] /\ handed[i][2] < handed[j][2]
    BY <2>1 DEF InOrder
  <2> QED  BY <2>2, <2>3 DEF HandedWhole
<1> QED  BY <1>1, CursorAgrees, PTL

(* Datagrams too short for a number of their own leave the packet filter   *)
(* where the messages handed on have brought it.                           *)
THEOREM ShortsNeverMove == Spec => []ShortsMoveNothing
<1>1. CursorInv => ShortsMoveNothing
  BY IdleMeans DEF ShortsMoveNothing
<1> QED  BY <1>1, CursorAgrees, PTL
=============================================================================
