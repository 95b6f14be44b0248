----------------------- MODULE ChannelControllerProofs -----------------------
(***************************************************************************)
(* Theorems about ChannelController.  The channel is an environment like   *)
(* any other for the instrument controllers, so what is proved about them  *)
(* holds under every schedule of packets.                                  *)
(***************************************************************************)
EXTENDS ChannelController, InstrumentControllerProofs

LEMMA ChannelStep ==
  ASSUME [ChannelNext]_channelVars
  PROVE  [ControllerNext]_controllerVars
  <1>1. ASSUME NEW i \in Securities, NEW kind \in Kinds, AddEntry(i, kind)
        PROVE  ControllerNext
    BY <1>1 DEF AddEntry, ControllerNext
  <1>2. ASSUME NEW i \in Securities, SubscribeInstrument(i)
        PROVE  ControllerNext
    BY <1>2 DEF SubscribeInstrument, ControllerNext
  <1>3. CASE HandleEntry
    <2>1. PICK i \in Securities : OnIncremental(i, CurrentItem.rptseq)
      BY <1>3 DEF HandleEntry
    <2>2. CurrentItem.rptseq \in 1 .. LastRptSeq(i)
      BY <2>1 DEF OnIncremental
    <2> QED
      BY <2>1, <2>2 DEF ControllerNext
  <1>4. CASE HandleEndOfEvent
    BY <1>4 DEF HandleEndOfEvent, ControllerNext
  <1>5. ASSUME NEW i \in Securities, NEW s \in 0 .. LastRptSeq(i),
               OnSnapshotPacket(i, s)
        PROVE  ControllerNext
    BY <1>5 DEF OnSnapshotPacket, ControllerNext
  <1>6. ASSUME NEW n \in 1 .. Len(packets), OnIncrementalPacket(n)
        PROVE  UNCHANGED controllerVars
    BY <1>6 DEF OnIncrementalPacket
  <1>7. CASE EndEvent \/ SendPacket \/ UNCHANGED channelVars
    BY <1>7 DEF EndEvent, SendPacket, channelVars
  <1> QED
    BY <1>1, <1>2, <1>3, <1>4, <1>5, <1>6, <1>7 DEF ChannelNext

(* Every behaviour of the channel is one of the controllers under their    *)
(* open environment.                                                       *)
LEMMA ChannelIsAnEnvironment == ChannelSpec => ControllerSpec
  <1>1. ChannelInit => ControllerInit
    BY DEF ChannelInit
  <1>2. [ChannelNext]_channelVars => [ControllerNext]_controllerVars
    BY ChannelStep
  <1> QED
    BY <1>1, <1>2, PTL DEF ChannelSpec, ControllerSpec

(* Hence, however packets are lost, repeated and reordered, and even when  *)
(* the sequence numbers wrap: books are published books,                   *)
THEOREM ChannelBooksArePublished == ChannelSpec => []BookIsPublished
  BY ChannelIsAnEnvironment, BooksArePublished

(* the snapshot feed is joined exactly while it is needed,                 *)
THEOREM ChannelFeedIsHeldForRecovery == ChannelSpec => []FeedServesRecovery
  BY ChannelIsAnEnvironment, FeedIsHeldForRecovery

(* and listeners are never taken back in time.                             *)
THEOREM ChannelQuotesGoForward == ChannelSpec => QuoteForward
  BY ChannelIsAnEnvironment, QuotesGoForward
-----------------------------------------------------------------------------
(* Type correctness.                                                       *)

\* No packet is empty, so that there is an item to begin with.
NoEmptyPacket == \A n \in 1 .. Len(packets) : packets[n] # << >>

LEMMA ChannelTypeInit == ChannelInit => ChannelTypeOK /\ NoEmptyPacket
<1> SUFFICES ASSUME ChannelInit PROVE ChannelTypeOK /\ NoEmptyPacket
  OBVIOUS
<1>1. TypeOK
  BY TypeInit DEF ChannelInit
<1>2. /\ packets \in Seq(Seq(Items)) /\ Len(packets) = 0
      /\ draft \in Seq(Items)
  BY EmptySeq DEF ChannelInit
<1>3. expectedseqnum \in 0 .. SeqNumSpan - 1
  BY ChannelAssumption DEF ChannelInit
<1>4. eventend \in [Securities -> SUBSET Nat]
  BY DEF ChannelInit
<1>5. pkt = 0 /\ pos = 0 /\ pkt \in 0 .. Len(packets)
  BY <1>2 DEF ChannelInit
<1>6. accepted \subseteq 1 .. Len(packets) /\ warned \in BOOLEAN
  BY Zenon DEF ChannelInit
<1>7. ChannelTypeOK
  BY <1>1, <1>2, <1>3, <1>4, <1>5, <1>6 DEF ChannelTypeOK
<1>8. NoEmptyPacket
  BY <1>2 DEF NoEmptyPacket
<1> QED
  BY <1>7, <1>8

LEMMA SeqNumType == \A n \in Nat : (SeqNum(n) + 1) % SeqNumSpan \in 0 .. SeqNumSpan - 1
  BY ChannelAssumption DEF SeqNum

LEMMA ChannelTypeStep ==
  ASSUME ChannelTypeOK, TypeOK', NoEmptyPacket, [ChannelNext]_channelVars
  PROVE  ChannelTypeOK' /\ NoEmptyPacket'
<1> USE DEF ChannelTypeOK, NoEmptyPacket
<1>1. /\ packets \in Seq(Seq(Items)) /\ Len(packets) \in Nat
      /\ \A n \in 1 .. Len(packets) : packets[n] \in Seq(Items) /\ Len(packets[n]) \in Nat
  BY ElementOfSeq, LenProperties
<1>2. ASSUME NEW i \in Securities, NEW kind \in Kinds, AddEntry(i, kind)
      PROVE  ChannelTypeOK' /\ NoEmptyPacket'
  <2>1. [sec |-> i, rptseq |-> LastRptSeq(i) + 1] \in Items
    BY LastIsNat DEF Items
  <2>2. draft' \in Seq(Items)
    BY <1>2, <2>1, AppendProperties DEF AddEntry
  <2> QED
    BY <1>2, <2>2 DEF AddEntry, cursorVars, filterVars
<1>3. CASE EndEvent
  <2>1. EventMark \in Items
    BY DEF Items, EventMark
  <2>2. draft' \in Seq(Items)
    BY <1>3, <2>1, AppendProperties DEF EndEvent
  <2>3. eventend' \in [Securities -> SUBSET Nat]
    BY <1>3, LastIsNat DEF EndEvent
  <2> QED
    BY <1>3, <2>2, <2>3 DEF EndEvent, cursorVars, filterVars
<1>4. CASE SendPacket
  <2>1. packets' = Append(packets, draft) /\ draft \in Seq(Items) /\ draft # << >>
    BY <1>4 DEF SendPacket
  <2>2. /\ packets' \in Seq(Seq(Items)) /\ Len(packets') = Len(packets) + 1
        /\ \A n \in 1 .. Len(packets) : packets'[n] = packets[n]
        /\ packets'[Len(packets) + 1] = draft
    BY <1>1, <2>1, AppendProperties
  <2>3. draft' \in Seq(Items)
    BY <1>4, EmptySeq DEF SendPacket
  <2>4. pkt # 0 => packets'[pkt] = packets[pkt]
    BY <1>1, <2>2
  <2> QED
    BY <1>1, <1>4, <2>1, <2>2, <2>3, <2>4 DEF SendPacket, cursorVars, filterVars
<1>5. ASSUME NEW n \in 1 .. Len(packets), OnIncrementalPacket(n)
      PROVE  ChannelTypeOK' /\ NoEmptyPacket'
  <2>1. UNCHANGED <<packets, draft, eventend>> /\ warned' \in BOOLEAN
    BY <1>5 DEF OnIncrementalPacket, marketVars
  <2>2. CASE AcceptPacket(n)
    <3>1. Len(packets[n]) # 0
      BY <1>1, EmptySeq
    <3>2. expectedseqnum' \in 0 .. SeqNumSpan - 1
      BY <1>1, <2>2, SeqNumType DEF AcceptPacket
    <3>3. pkt' = n /\ pos' = 1 /\ accepted' \subseteq 1 .. Len(packets)
      BY <2>2 DEF AcceptPacket
    <3>4. pkt' \in 0 .. Len(packets') /\ pos' \in 1 .. Len(packets'[pkt'])
      BY <1>1, <2>1, <3>1, <3>3
    <3>5. pkt' # 0
      BY <3>3
    <3> QED
      BY <2>1, <3>2, <3>3, <3>4, <3>5
  <2>3. CASE RejectPacket(n)
    BY <2>1, <2>3 DEF RejectPacket, cursorVars
  <2> QED
    BY <1>5, <2>2, <2>3 DEF OnIncrementalPacket
<1>6. ASSUME ~Idle, NextItem, UNCHANGED <<marketVars, filterVars>>
      PROVE  ChannelTypeOK' /\ NoEmptyPacket'
  BY <1>1, <1>6 DEF Idle, NextItem, marketVars, filterVars
<1>7. CASE HandleEntry \/ HandleEndOfEvent
  BY <1>6, <1>7 DEF HandleEntry, HandleEndOfEvent
<1>8. ASSUME UNCHANGED <<marketVars, cursorVars, filterVars>>
      PROVE  ChannelTypeOK' /\ NoEmptyPacket'
  BY <1>8 DEF marketVars, cursorVars, filterVars
<1>9. CASE \/ \E i \in Securities : SubscribeInstrument(i)
           \/ \E i \in Securities : \E s \in 0 .. LastRptSeq(i) : OnSnapshotPacket(i, s)
           \/ UNCHANGED channelVars
  BY <1>8, <1>9 DEF SubscribeInstrument, OnSnapshotPacket, channelVars
<1> QED
  BY <1>2, <1>3, <1>4, <1>5, <1>7, <1>9 DEF ChannelNext

(* Every variable of the channel keeps its type; the cursor in a packet    *)
(* never leaves it.                                                        *)
THEOREM ChannelTypeCorrect == ChannelSpec => []ChannelTypeOK
<1>1. ChannelSpec => []TypeOK
  BY ChannelIsAnEnvironment, TypeCorrect
<1>2. ChannelTypeOK /\ TypeOK' /\ NoEmptyPacket /\ [ChannelNext]_channelVars
        => ChannelTypeOK' /\ NoEmptyPacket'
  BY ChannelTypeStep
<1> QED
  BY <1>1, <1>2, ChannelTypeInit, PTL DEF ChannelSpec
-----------------------------------------------------------------------------
(* The order in which ChannelController handles what was published: only a *)
(* snapshot ends a gap, and listeners see ends of events only.  Both hold  *)
(* as long as the packet sequence numbers do not wrap.                     *)

NoWrap == MaxPackets + 1 < SeqNumSpan

(* The incremental feed as one line of places: those of the packets sent,  *)
(* then those of the packet being written.                                 *)
Content(n)  == IF n <= Len(packets) THEN packets[n] ELSE draft
Place(n, k) == n \in 1 .. Len(packets) + 1 /\ k \in 1 .. Len(Content(n))
At(n, k)    == Content(n)[k]

Before(n, k, m, l)  == n < m \/ (n = m /\ k < l)
Carries(n, k, i)    == Place(n, k) /\ At(n, k).sec = i

\* What the filter and the cursor have not passed yet.
ToCome(n, k) == n >= expectedseqnum \/ (n = pkt /\ k >= pos)

(* The updates of a security are on the feed once each, in order, ...      *)
Numbered ==
  \A i \in Securities :
    /\ \A n, k \in Nat : Carries(n, k, i) => At(n, k).rptseq \in 1 .. LastRptSeq(i)
    /\ \A r \in 1 .. LastRptSeq(i) :
         \E n, k \in Nat : Carries(n, k, i) /\ At(n, k).rptseq = r
    /\ \A n, k, m, l \in Nat :
         Carries(n, k, i) /\ Carries(m, l, i) /\ Before(n, k, m, l)
           => At(n, k).rptseq < At(m, l).rptseq

(* ... and every end of event stands behind the last update before it.     *)
Splits(e, n, k, i) ==
  \A m, l \in Nat : Carries(m, l, i) =>
    /\ Before(m, l, n, k) => At(m, l).rptseq <= e
    /\ Before(n, k, m, l) => At(m, l).rptseq > e

Marked ==
  \A i \in Securities :
    /\ 0 \in eventend[i]
    /\ \A n, k \in Nat : Carries(n, k, EndOfEvent) =>
         \E e \in eventend[i] : e \in 0 .. LastRptSeq(i) /\ Splits(e, n, k, i)

(* The filter lets packets pass in order.                                  *)
InTurn ==
  /\ Len(packets) <= MaxPackets
  /\ expectedseqnum <= Len(packets) + 1
  /\ \A n \in accepted : n < expectedseqnum
  /\ pkt # 0 => expectedseqnum = pkt + 1 /\ pkt \in accepted

(* What a controller out of sync waits for does not come any more.         *)
GapIsBehind ==
  \A i \in Securities : state[i] = "OUTOFSYNC" =>
    /\ processed[i] < LastRptSeq(i)
    /\ \A n, k \in Nat :
         Carries(n, k, i) /\ ToCome(n, k) => At(n, k).rptseq > processed[i] + 1

(* A controller with a pending change applied an update that has passed,   *)
(* and the next one has not passed by it.                                  *)
PendingIsApplied ==
  \A i \in Securities : state[i] \in {"SYNC", "OUTOFSYNC"} /\ statechange[i] =>
    \A n, k \in Nat : Carries(n, k, i) =>
      /\ ToCome(n, k) => At(n, k).rptseq > processed[i]
      /\ At(n, k).rptseq = processed[i] + 1 /\ n \in accepted => ToCome(n, k)

(* A controller whose books an entry changed is not behind what passed.    *)
CaughtUp ==
  \A i \in Securities : state[i] = "SYNC" /\ ~silent[i] =>
    \A n, k \in Nat :
      Carries(n, k, i) /\ n \in accepted /\ ~ToCome(n, k)
        => At(n, k).rptseq <= processed[i]
-----------------------------------------------------------------------------
(* How the line of places grows.                                           *)

SamePlaces ==
  \A n, k \in Nat : /\ Place(n, k)' <=> Place(n, k)
                    /\ Place(n, k) => At(n, k)' = At(n, k)

Adds(item, a, b) ==
  /\ a = Len(packets) + 1 /\ b \in Nat
  /\ Place(a, b)' /\ At(a, b)' = item
  /\ \A n, k \in Nat :
       /\ Place(n, k)' <=> Place(n, k) \/ (n = a /\ k = b)
       /\ Place(n, k) => At(n, k)' = At(n, k) /\ Before(n, k, a, b)

LEMMA PacketTypes ==
  ASSUME ChannelTypeOK
  PROVE  /\ Len(packets) \in Nat
         /\ draft \in Seq(Items) /\ Len(draft) \in Nat
         /\ \A n \in 1 .. Len(packets) :
              packets[n] \in Seq(Items) /\ Len(packets[n]) \in Nat
  BY ElementOfSeq, LenProperties DEF ChannelTypeOK

LEMMA WireSent == ASSUME ChannelTypeOK, SendPacket PROVE SamePlaces
<1>1. /\ Len(packets') = Len(packets) + 1
      /\ \A n \in 1 .. Len(packets) : packets'[n] = packets[n]
      /\ packets'[Len(packets) + 1] = draft
      /\ draft' = << >> /\ Len(draft') = 0
  BY AppendProperties, EmptySeq DEF SendPacket, ChannelTypeOK
<1> QED
  BY <1>1, PacketTypes DEF SamePlaces, Place, At, Content

LEMMA WireWritten ==
  ASSUME ChannelTypeOK, NEW item \in Items,
         packets' = packets, draft' = Append(draft, item)
  PROVE  \E a, b \in Nat : Adds(item, a, b)
<1>1. /\ Len(draft') = Len(draft) + 1
      /\ \A k \in 1 .. Len(draft) : draft'[k] = draft[k]
      /\ draft'[Len(draft) + 1] = item
  BY AppendProperties DEF ChannelTypeOK
<1>2. PICK a \in Nat, b \in Nat : a = Len(packets) + 1 /\ b = Len(draft) + 1
  BY PacketTypes
<1>3. /\ Content(a) = draft /\ Content(a)' = draft'
      /\ \A n \in 1 .. Len(packets) : Content(n)' = Content(n)
  BY <1>2, PacketTypes DEF Content
<1>4. \A n, k \in Nat : /\ Place(n, k)' <=> Place(n, k) \/ (n = a /\ k = b)
                        /\ Place(n, k) => At(n, k)' = At(n, k) /\ Before(n, k, a, b)
  <2> SUFFICES ASSUME NEW n \in Nat, NEW k \in Nat
      PROVE  /\ Place(n, k)' <=> Place(n, k) \/ (n = a /\ k = b)
             /\ Place(n, k) => At(n, k)' = At(n, k) /\ Before(n, k, a, b)
    OBVIOUS
  <2>1. CASE n \in 1 .. Len(packets)
    BY <1>2, <1>3, <2>1, PacketTypes DEF Place, At, Before
  <2>2. CASE n = a
    <3>1. Content(n) = draft /\ Content(n)' = draft'
      BY <1>3, <2>2
    <3>2. /\ Len(draft) \in Nat /\ b = Len(draft) + 1
          /\ n \in 1 .. Len(packets) + 1 /\ packets' = packets
      BY <1>2, <2>2, PacketTypes
    <3>3. Place(n, k) <=> k \in 1 .. Len(draft)
      BY <3>1, <3>2 DEF Place
    <3>4. Place(n, k)' <=> k \in 1 .. Len(draft')
      BY <3>1, <3>2 DEF Place
    <3>5. k \in 1 .. Len(draft') <=> k \in 1 .. Len(draft) \/ k = b
      BY <1>1, <3>2
    <3>6. k \in 1 .. Len(draft) => At(n, k)' = At(n, k)
      BY <1>1, <3>1 DEF At
    <3>7. k \in 1 .. Len(draft) => k < b
      BY <3>2
    <3> QED BY <2>2, <3>3, <3>4, <3>5, <3>6, <3>7 DEF Before
  <2>3. CASE n \notin 1 .. a
    BY <1>2, <2>3, PacketTypes DEF Place
  <2> QED BY <1>2, <2>1, <2>2, <2>3, PacketTypes
<1>5. Place(a, b)' /\ At(a, b)' = item
  BY <1>1, <1>2, <1>3, PacketTypes DEF Place, At
<1> QED
  BY <1>2, <1>4, <1>5 DEF Adds

LEMMA WireSame ==
  ASSUME UNCHANGED <<packets, draft>> PROVE SamePlaces
  BY DEF SamePlaces, Place, At, Content

(* Every step but two of the exchange's leaves the line as it is.          *)
LEMMA WireStep ==
  ASSUME ChannelTypeOK, [ChannelNext]_channelVars
  PROVE  \/ SamePlaces /\ UNCHANGED <<eventend, history>>
         \/ \E i \in Securities, kind \in Kinds :
              /\ AddEntry(i, kind)
              /\ \E a, b \in Nat : Adds([sec |-> i, rptseq |-> LastRptSeq(i) + 1], a, b)
         \/ /\ EndEvent
            /\ \E a, b \in Nat : Adds(EventMark, a, b)
<1>1. ASSUME NEW i \in Securities, NEW kind \in Kinds, AddEntry(i, kind)
      PROVE  \E a, b \in Nat : Adds([sec |-> i, rptseq |-> LastRptSeq(i) + 1], a, b)
  <2>1. [sec |-> i, rptseq |-> LastRptSeq(i) + 1] \in Items
    BY LastIsNat DEF Items, ChannelTypeOK
  <2> QED BY <1>1, <2>1, WireWritten, PacketTypes DEF AddEntry
<1>2. ASSUME EndEvent
      PROVE  \E a, b \in Nat : Adds(EventMark, a, b)
  <2>1. EventMark \in Items
    BY DEF EventMark, Items
  <2> QED BY <1>2, <2>1, WireWritten, PacketTypes DEF EndEvent
<1>3. CASE SendPacket
  BY <1>3, WireSent DEF SendPacket, controllerVars
<1>4. ASSUME NEW i \in Securities, SubscribeInstrument(i)
      PROVE  SamePlaces /\ UNCHANGED <<eventend, history>>
  BY <1>4, WireSame DEF SubscribeInstrument, Subscribe, marketVars
<1>5. ASSUME NEW n \in 1 .. Len(packets), OnIncrementalPacket(n)
      PROVE  SamePlaces /\ UNCHANGED <<eventend, history>>
  BY <1>5, WireSame DEF OnIncrementalPacket, marketVars, controllerVars
<1>6. CASE HandleEntry
  BY <1>6, WireSame DEF HandleEntry, OnIncremental, marketVars
<1>7. CASE HandleEndOfEvent
  BY <1>7, WireSame DEF HandleEndOfEvent, Commit, marketVars
<1>8. ASSUME NEW i \in Securities, NEW s \in 0 .. LastRptSeq(i), OnSnapshotPacket(i, s)
      PROVE  SamePlaces /\ UNCHANGED <<eventend, history>>
  BY <1>8, WireSame DEF OnSnapshotPacket, OnSnapshot, marketVars
<1>9. CASE UNCHANGED channelVars
  BY <1>9, WireSame DEF channelVars, marketVars, controllerVars
<1> QED
  BY <1>1, <1>2, <1>3, <1>4, <1>5, <1>6, <1>7, <1>8, <1>9 DEF ChannelNext
-----------------------------------------------------------------------------
(* What is published.                                                      *)

LEMMA SecuritiesAreNoMarks ==
  /\ \A i \in Securities : i # EndOfEvent
  /\ EventMark.sec = EndOfEvent
  BY ChannelAssumption DEF EventMark

LEMMA EntryCounts ==
  ASSUME ChannelTypeOK, NEW j \in Securities, NEW kind \in Kinds, AddEntry(j, kind),
         NEW i \in Securities
  PROVE  LastRptSeq(i)' = IF i = j THEN LastRptSeq(i) + 1 ELSE LastRptSeq(i)
<1>1. Publish(j, kind) /\ TypeOK
  BY DEF AddEntry, PublishUpdate, ChannelTypeOK
<1>2. CASE i = j
  BY <1>1, <1>2, PublishType
<1>3. CASE i # j
  <2>1. history'[i] = history[i]
    BY <1>1, <1>3, PublishType
  <2> QED BY <1>3, <2>1 DEF LastRptSeq
<1> QED BY <1>2, <1>3

LEMMA NumberedStep ==
  ASSUME ChannelTypeOK, Numbered, [ChannelNext]_channelVars
  PROVE  Numbered'
<1> SUFFICES ASSUME NEW i \in Securities
    PROVE  /\ \A n, k \in Nat : Carries(n, k, i)' => At(n, k)'.rptseq \in 1 .. LastRptSeq(i)'
           /\ \A r \in 1 .. LastRptSeq(i)' :
                \E n, k \in Nat : Carries(n, k, i)' /\ At(n, k)'.rptseq = r
           /\ \A n, k, m, l \in Nat :
                Carries(n, k, i)' /\ Carries(m, l, i)' /\ Before(n, k, m, l)
                  => At(n, k)'.rptseq < At(m, l)'.rptseq
  BY DEF Numbered, Before
<1>0. LastRptSeq(i) \in Nat
  BY LastIsNat DEF ChannelTypeOK
<1>1. CASE SamePlaces /\ UNCHANGED <<eventend, history>>
  <2>1. LastRptSeq(i)' = LastRptSeq(i)
    BY <1>1 DEF LastRptSeq
  <2>2. \A n, k \in Nat : Carries(n, k, i)' <=> Carries(n, k, i)
    BY <1>1 DEF SamePlaces, Carries
  <2>3. \A n, k \in Nat : Carries(n, k, i) => At(n, k)' = At(n, k)
    BY <1>1 DEF SamePlaces, Carries
  <2> QED BY <2>1, <2>2, <2>3 DEF Numbered
<1>2. ASSUME NEW j \in Securities, NEW kind \in Kinds, AddEntry(j, kind),
             NEW a \in Nat, NEW b \in Nat,
             Adds([sec |-> j, rptseq |-> LastRptSeq(j) + 1], a, b)
      PROVE  /\ \A n, k \in Nat :
                  Carries(n, k, i)' => At(n, k)'.rptseq \in 1 .. LastRptSeq(i)'
             /\ \A r \in 1 .. LastRptSeq(i)' :
                  \E n, k \in Nat : Carries(n, k, i)' /\ At(n, k)'.rptseq = r
             /\ \A n, k, m, l \in Nat :
                  Carries(n, k, i)' /\ Carries(m, l, i)' /\ Before(n, k, m, l)
                    => At(n, k)'.rptseq < At(m, l)'.rptseq
  <2>1. LastRptSeq(i)' = IF i = j THEN LastRptSeq(i) + 1 ELSE LastRptSeq(i)
    BY <1>2, EntryCounts
  <2>2. \A n, k \in Nat :
          Carries(n, k, i)' <=> Carries(n, k, i) \/ (n = a /\ k = b /\ i = j)
    BY <1>2 DEF Adds, Carries, Before
  <2>3. \A n, k \in Nat :
          Carries(n, k, i) => At(n, k)' = At(n, k) /\ Before(n, k, a, b)
    BY <1>2 DEF Adds, Carries
  <2>4. i = j => At(a, b)'.rptseq = LastRptSeq(i) + 1 /\ Carries(a, b, i)'
    BY <1>2, <2>2 DEF Adds
  <2>5. \A n, k \in Nat : Carries(n, k, i)' => At(n, k)'.rptseq \in 1 .. LastRptSeq(i)'
    BY <1>0, <2>1, <2>2, <2>3, <2>4 DEF Numbered
  <2>6. \A r \in 1 .. LastRptSeq(i)' :
          \E n, k \in Nat : Carries(n, k, i)' /\ At(n, k)'.rptseq = r
    <3> SUFFICES ASSUME NEW r \in 1 .. LastRptSeq(i)'
        PROVE  \E n, k \in Nat : Carries(n, k, i)' /\ At(n, k)'.rptseq = r
      OBVIOUS
    <3>1. CASE r \in 1 .. LastRptSeq(i)
      <4>1. PICK n \in Nat, k \in Nat : Carries(n, k, i) /\ At(n, k).rptseq = r
        BY <3>1 DEF Numbered
      <4> QED BY <2>2, <2>3, <4>1
    <3>2. CASE r \notin 1 .. LastRptSeq(i)
      BY <1>0, <2>1, <2>4, <3>2
    <3> QED BY <3>1, <3>2
  <2>7. ASSUME NEW n \in Nat, NEW k \in Nat, NEW m \in Nat, NEW l \in Nat,
               Carries(n, k, i)', Carries(m, l, i)', Before(n, k, m, l)
        PROVE  At(n, k)'.rptseq < At(m, l)'.rptseq
    <3>1. CASE Carries(n, k, i) /\ Carries(m, l, i)
      BY <2>3, <2>7, <3>1 DEF Numbered
    <3>2. CASE Carries(n, k, i) /\ ~Carries(m, l, i)
      BY <1>0, <2>2, <2>3, <2>4, <2>7, <3>2 DEF Numbered
    <3>3. CASE ~Carries(n, k, i)
      <4>1. n = a /\ k = b
        BY <2>2, <2>7, <3>3
      <4>2. ~Before(a, b, m, l)
        BY <2>2, <2>3, <2>7 DEF Before
      <4> QED BY <2>7, <4>1, <4>2
    <3> QED BY <3>1, <3>2, <3>3
  <2> QED BY <2>5, <2>6, <2>7
<1>3. ASSUME EndEvent, NEW a \in Nat, NEW b \in Nat, Adds(EventMark, a, b)
      PROVE  /\ LastRptSeq(i)' = LastRptSeq(i)
             /\ \A n, k \in Nat :
                  /\ Carries(n, k, i)' <=> Carries(n, k, i)
                  /\ Carries(n, k, i) => At(n, k)' = At(n, k)
  <2>1. LastRptSeq(i)' = LastRptSeq(i)
    BY <1>3 DEF EndEvent, controllerVars, LastRptSeq
  <2> QED BY <1>3, <2>1, SecuritiesAreNoMarks DEF Adds, Carries
<1>4. CASE EndEvent /\ \E a, b \in Nat : Adds(EventMark, a, b)
  <2>1. /\ LastRptSeq(i)' = LastRptSeq(i)
        /\ \A n, k \in Nat :
             /\ Carries(n, k, i)' <=> Carries(n, k, i)
             /\ Carries(n, k, i) => At(n, k)' = At(n, k)
    BY <1>3, <1>4
  <2> QED BY <2>1 DEF Numbered
<1>5. CASE \E j \in Securities, kind \in Kinds :
             /\ AddEntry(j, kind)
             /\ \E a, b \in Nat : Adds([sec |-> j, rptseq |-> LastRptSeq(j) + 1], a, b)
  BY <1>2, <1>5
<1> QED BY <1>1, <1>4, <1>5, WireStep

LEMMA MarkedStep ==
  ASSUME ChannelTypeOK, Numbered, Marked, [ChannelNext]_channelVars
  PROVE  Marked'
<1> SUFFICES ASSUME NEW i \in Securities
    PROVE  /\ 0 \in eventend'[i]
           /\ \A n, k \in Nat : Carries(n, k, EndOfEvent)' =>
                \E e \in eventend'[i] : e \in 0 .. LastRptSeq(i)' /\ Splits(e, n, k, i)'
  BY DEF Marked, Splits
<1>0. LastRptSeq(i) \in Nat /\ eventend[i] \subseteq Nat
  BY LastIsNat DEF ChannelTypeOK
<1>1. CASE SamePlaces /\ UNCHANGED <<eventend, history>>
  <2>1. LastRptSeq(i)' = LastRptSeq(i)
    BY <1>1 DEF LastRptSeq
  <2>2. \A n, k \in Nat : /\ Carries(n, k, i)' <=> Carries(n, k, i)
                          /\ Carries(n, k, EndOfEvent)' <=> Carries(n, k, EndOfEvent)
                          /\ Carries(n, k, i) => At(n, k)' = At(n, k)
    BY <1>1 DEF SamePlaces, Carries
  <2>3. \A e, n, k \in Nat : Splits(e, n, k, i) => Splits(e, n, k, i)'
    BY <2>2 DEF Splits, Before
  <2> QED BY <1>0, <1>1, <2>1, <2>2, <2>3 DEF Marked
<1>2. ASSUME NEW j \in Securities, NEW kind \in Kinds, AddEntry(j, kind),
             NEW a \in Nat, NEW b \in Nat,
             Adds([sec |-> j, rptseq |-> LastRptSeq(j) + 1], a, b)
      PROVE  /\ 0 \in eventend'[i]
             /\ \A n, k \in Nat : Carries(n, k, EndOfEvent)' =>
                  \E e \in eventend'[i] : e \in 0 .. LastRptSeq(i)' /\ Splits(e, n, k, i)'
  <2>1. /\ LastRptSeq(i)' = IF i = j THEN LastRptSeq(i) + 1 ELSE LastRptSeq(i)
        /\ eventend' = eventend
    BY <1>2, EntryCounts DEF AddEntry
  <2>2. \A n, k \in Nat :
          /\ Carries(n, k, i)' <=> Carries(n, k, i) \/ (n = a /\ k = b /\ i = j)
          /\ Carries(n, k, EndOfEvent)' <=> Carries(n, k, EndOfEvent)
    BY <1>2, SecuritiesAreNoMarks DEF Adds, Carries, Before
  <2>3. \A n, k \in Nat :
          /\ Carries(n, k, i) => At(n, k)' = At(n, k)
          /\ Carries(n, k, EndOfEvent) => Before(n, k, a, b)
    BY <1>2 DEF Adds, Carries
  <2>4. i = j => At(a, b)'.rptseq = LastRptSeq(i) + 1
    BY <1>2 DEF Adds
  <2>5. ASSUME NEW n \in Nat, NEW k \in Nat, Carries(n, k, EndOfEvent),
               NEW e \in 0 .. LastRptSeq(i), Splits(e, n, k, i)
        PROVE  Splits(e, n, k, i)'
    <3>1. ~Before(a, b, n, k)
      BY <2>3, <2>5 DEF Before
    <3> QED BY <1>0, <2>2, <2>3, <2>4, <2>5, <3>1 DEF Splits, Before
  <2>6. 0 .. LastRptSeq(i) \subseteq 0 .. LastRptSeq(i)'
    BY <1>0, <2>1
  <2> QED BY <2>1, <2>2, <2>5, <2>6 DEF Marked
<1>3. ASSUME EndEvent, NEW a \in Nat, NEW b \in Nat, Adds(EventMark, a, b)
      PROVE  /\ 0 \in eventend'[i]
             /\ \A n, k \in Nat : Carries(n, k, EndOfEvent)' =>
                  \E e \in eventend'[i] : e \in 0 .. LastRptSeq(i)' /\ Splits(e, n, k, i)'
  <2>1. LastRptSeq(i)' = LastRptSeq(i) /\ eventend'[i] = eventend[i] \cup {LastRptSeq(i)}
    BY <1>3 DEF EndEvent, controllerVars, LastRptSeq
  <2>2. \A n, k \in Nat :
          /\ Carries(n, k, i)' <=> Carries(n, k, i)
          /\ Carries(n, k, EndOfEvent)' <=> Carries(n, k, EndOfEvent) \/ (n = a /\ k = b)
          /\ Carries(n, k, i) => At(n, k)' = At(n, k) /\ Before(n, k, a, b)
    BY <1>3, SecuritiesAreNoMarks DEF Adds, Carries
  <2>3. \A e, n, k \in Nat : Splits(e, n, k, i) => Splits(e, n, k, i)'
    BY <2>2 DEF Splits, Before
  <2>4. Splits(LastRptSeq(i), a, b, i)'
    BY <1>0, <2>1, <2>2 DEF Splits, Before, Numbered
  <2> QED BY <1>0, <2>1, <2>2, <2>3, <2>4 DEF Marked
<1> QED BY <1>1, <1>2, <1>3, WireStep
-----------------------------------------------------------------------------
(* The filter and the cursor.                                              *)

LEMMA SeqNumIsPlace ==
  ASSUME NoWrap, NEW n \in Nat, n <= MaxPackets
  PROVE  SeqNum(n) = n /\ (SeqNum(n) + 1) % SeqNumSpan = n + 1
<1>1. \A d \in Nat \ {0} : \A m \in Nat : m < d => m % d = m
  BY SMTT(30)
<1> QED
  BY <1>1, ChannelAssumption DEF NoWrap, SeqNum

LEMMA AcceptedInTurn ==
  ASSUME NoWrap, ChannelTypeOK, InTurn, NEW n \in 1 .. Len(packets), AcceptPacket(n)
  PROVE  /\ n >= expectedseqnum /\ expectedseqnum' = n + 1
         /\ n \notin accepted /\ accepted' = accepted \cup {n}
         /\ pkt' = n /\ pos' = 1
<1>1. n \in Nat /\ n <= MaxPackets /\ expectedseqnum \in Nat
  BY PacketTypes, ChannelAssumption DEF InTurn, ChannelTypeOK
<1> QED
  BY <1>1, SeqNumIsPlace DEF InTurn, AcceptPacket

LEMMA InTurnStep ==
  ASSUME NoWrap, ChannelTypeOK, InTurn, [ChannelNext]_channelVars
  PROVE  InTurn'
<1>1. ASSUME UNCHANGED <<packets, cursorVars, filterVars>>
      PROVE  InTurn'
  BY <1>1 DEF InTurn, cursorVars, filterVars
<1>2. CASE SendPacket
  <2>1. Len(packets') = Len(packets) + 1
    BY <1>2, AppendProperties DEF SendPacket, ChannelTypeOK
  <2> QED
    BY <1>2, <2>1, PacketTypes, ChannelAssumption
    DEF SendPacket, InTurn, ChannelTypeOK, cursorVars, filterVars
<1>3. ASSUME NEW n \in 1 .. Len(packets), OnIncrementalPacket(n)
      PROVE  InTurn'
  <2>1. packets' = packets
    BY <1>3 DEF OnIncrementalPacket, marketVars
  <2>2. CASE AcceptPacket(n)
    <3>1. /\ n \in Nat /\ Len(packets) \in Nat /\ n <= Len(packets)
          /\ expectedseqnum \in Nat /\ \A m \in accepted : m \in Nat
      BY PacketTypes, ChannelAssumption DEF ChannelTypeOK
    <3>2. /\ n >= expectedseqnum /\ expectedseqnum' = n + 1
          /\ accepted' = accepted \cup {n} /\ pkt' = n
      BY <2>2, AcceptedInTurn
    <3>3. \A m \in accepted' : m < n + 1
      BY <3>1, <3>2 DEF InTurn
    <3> QED
      BY <2>1, <3>1, <3>2, <3>3 DEF InTurn
  <2>3. CASE RejectPacket(n)
    BY <2>1, <2>3 DEF RejectPacket, InTurn, cursorVars
  <2> QED BY <1>3, <2>2, <2>3 DEF OnIncrementalPacket
<1>4. ASSUME NextItem, ~Idle, UNCHANGED <<marketVars, filterVars>>
      PROVE  InTurn'
  BY <1>4 DEF NextItem, Idle, InTurn, marketVars, filterVars
<1> QED
  BY <1>1, <1>2, <1>3, <1>4
  DEF ChannelNext, AddEntry, EndEvent, SubscribeInstrument, HandleEntry,
      HandleEndOfEvent, OnSnapshotPacket, channelVars, marketVars

(* The cursor stands on a place that is still to come, and what comes after *)
(* the step lies behind it.                                                *)
LEMMA Passing ==
  ASSUME ChannelTypeOK, InTurn, ~Idle, NextItem, UNCHANGED <<marketVars, filterVars>>
  PROVE  /\ Place(pkt, pos) /\ At(pkt, pos) = CurrentItem /\ ToCome(pkt, pos)
         /\ pkt \in Nat /\ pos \in Nat
         /\ \A n, k \in Nat : Place(n, k) =>
              (ToCome(n, k)' <=> Before(pkt, pos, n, k))
         /\ \A n, k \in Nat : Place(n, k) =>
              (ToCome(n, k) <=> Before(pkt, pos, n, k) \/ (n = pkt /\ k = pos))
<1>1. /\ pkt \in 1 .. Len(packets) /\ pos \in 1 .. Len(packets[pkt])
      /\ Len(packets[pkt]) \in Nat /\ Len(packets) \in Nat
      /\ expectedseqnum = pkt + 1 /\ expectedseqnum' = pkt + 1
  BY PacketTypes DEF ChannelTypeOK, InTurn, Idle, filterVars
<1>2. Place(pkt, pos) /\ At(pkt, pos) = CurrentItem /\ ToCome(pkt, pos)
  BY <1>1 DEF Place, At, Content, CurrentItem, ToCome
<1>3. ASSUME NEW n \in Nat, NEW k \in Nat, Place(n, k)
      PROVE  /\ ToCome(n, k)' <=> Before(pkt, pos, n, k)
             /\ ToCome(n, k) <=> Before(pkt, pos, n, k) \/ (n = pkt /\ k = pos)
  <2>1. n # 0 /\ (n = pkt => k <= Len(packets[pkt]))
    BY <1>1, <1>3 DEF Place, Content
  <2>2. ToCome(n, k)' <=> Before(pkt, pos, n, k)
    BY <1>1, <2>1 DEF ToCome, Before, NextItem
  <2> QED BY <1>1, <2>1, <2>2 DEF ToCome, Before
<1> QED BY <1>1, <1>2, <1>3

(* No other step moves the cursor on, and a packet that passes the filter  *)
(* was to come.                                                            *)
LEMMA Standing ==
  ASSUME NoWrap, ChannelTypeOK, InTurn, [ChannelNext]_channelVars,
         ~HandleEntry, ~HandleEndOfEvent
  PROVE  \A n, k \in Nat : Place(n, k) =>
           /\ ToCome(n, k)' => ToCome(n, k)
           /\ n \in accepted' =>
                \/ ToCome(n, k)'
                \/ n \in accepted /\ (ToCome(n, k)' <=> ToCome(n, k))
<1>1. ASSUME UNCHANGED <<cursorVars, filterVars>>,
             NEW n \in Nat, NEW k \in Nat
      PROVE  (ToCome(n, k)' <=> ToCome(n, k)) /\ accepted' = accepted
  BY <1>1 DEF ToCome, cursorVars, filterVars
<1>2. ASSUME NEW n \in 1 .. Len(packets), OnIncrementalPacket(n),
             NEW m \in Nat, NEW k \in Nat, Place(m, k)
      PROVE  /\ ToCome(m, k)' => ToCome(m, k)
             /\ m \in accepted' =>
                  \/ ToCome(m, k)'
                  \/ m \in accepted /\ (ToCome(m, k)' <=> ToCome(m, k))
  <2>1. pkt = 0 /\ m # 0 /\ k >= 1 /\ expectedseqnum \in Nat
    BY <1>2 DEF OnIncrementalPacket, Idle, Place, ChannelTypeOK
  <2>2. CASE AcceptPacket(n)
    BY <2>1, <2>2, AcceptedInTurn DEF ToCome, InTurn
  <2>3. CASE RejectPacket(n)
    BY <2>1, <2>3 DEF RejectPacket, ToCome, cursorVars
  <2> QED BY <1>2, <2>2, <2>3 DEF OnIncrementalPacket
<1>3. \/ UNCHANGED <<cursorVars, filterVars>>
      \/ \E n \in 1 .. Len(packets) : OnIncrementalPacket(n)
  BY DEF ChannelNext, AddEntry, EndEvent, SendPacket, SubscribeInstrument,
         OnSnapshotPacket, channelVars
<1> QED BY <1>1, <1>2, <1>3

LEMMA NothingComesBack ==
  ASSUME NoWrap, ChannelTypeOK, InTurn, [ChannelNext]_channelVars,
         NEW n \in Nat, NEW k \in Nat, Place(n, k), ToCome(n, k)'
  PROVE  ToCome(n, k)
<1>1. CASE HandleEntry \/ HandleEndOfEvent
  BY <1>1, Passing DEF HandleEntry, HandleEndOfEvent
<1>2. CASE ~(HandleEntry \/ HandleEndOfEvent)
  BY <1>2, Standing
<1> QED BY <1>1, <1>2

(* A place that a step adds for a security holds its next update.          *)
LEMMA NewPlaces ==
  ASSUME ChannelTypeOK, [ChannelNext]_channelVars, NEW i \in Securities
  PROVE  /\ LastRptSeq(i) \in Nat /\ LastRptSeq(i)' \in Nat
         /\ LastRptSeq(i) <= LastRptSeq(i)'
         /\ \A n, k \in Nat : Carries(n, k, i)' =>
              \/ Carries(n, k, i) /\ At(n, k)' = At(n, k)
              \/ At(n, k)'.rptseq = LastRptSeq(i) + 1 /\ n \notin accepted'
<1>0. LastRptSeq(i) \in Nat
  BY LastIsNat DEF ChannelTypeOK
<1>1. CASE SamePlaces /\ UNCHANGED <<eventend, history>>
  BY <1>0, <1>1 DEF SamePlaces, Carries, LastRptSeq
<1>2. ASSUME NEW j \in Securities, NEW kind \in Kinds, AddEntry(j, kind),
             NEW a \in Nat, NEW b \in Nat,
             Adds([sec |-> j, rptseq |-> LastRptSeq(j) + 1], a, b)
      PROVE  /\ LastRptSeq(i)' \in Nat /\ LastRptSeq(i) <= LastRptSeq(i)'
             /\ \A n, k \in Nat : Carries(n, k, i)' =>
                  \/ Carries(n, k, i) /\ At(n, k)' = At(n, k)
                  \/ At(n, k)'.rptseq = LastRptSeq(i) + 1 /\ n \notin accepted'
  <2>1. LastRptSeq(i)' = IF i = j THEN LastRptSeq(i) + 1 ELSE LastRptSeq(i)
    BY <1>2, EntryCounts
  <2>2. a \notin accepted'
    BY <1>2, PacketTypes DEF Adds, AddEntry, filterVars, ChannelTypeOK
  <2>3. i = j => At(a, b)'.rptseq = LastRptSeq(i) + 1
    BY <1>2 DEF Adds
  <2>4. \A n, k \in Nat : Carries(n, k, i)' =>
          \/ Carries(n, k, i) /\ At(n, k)' = At(n, k)
          \/ n = a /\ k = b /\ i = j
    BY <1>2 DEF Adds, Carries
  <2>5. LastRptSeq(i)' \in Nat /\ LastRptSeq(i) <= LastRptSeq(i)'
    BY <1>0, <2>1
  <2>6. \A n, k \in Nat : Carries(n, k, i)' =>
          \/ Carries(n, k, i) /\ At(n, k)' = At(n, k)
          \/ At(n, k)'.rptseq = LastRptSeq(i) + 1 /\ n \notin accepted'
    BY <2>2, <2>3, <2>4
  <2> QED BY <2>5, <2>6
<1>3. ASSUME EndEvent, NEW a \in Nat, NEW b \in Nat, Adds(EventMark, a, b)
      PROVE  /\ LastRptSeq(i)' = LastRptSeq(i)
             /\ \A n, k \in Nat : Carries(n, k, i)' =>
                  Carries(n, k, i) /\ At(n, k)' = At(n, k)
  <2>1. LastRptSeq(i)' = LastRptSeq(i)
    BY <1>3 DEF EndEvent, controllerVars, LastRptSeq
  <2> QED BY <1>3, <2>1, SecuritiesAreNoMarks DEF Adds, Carries
<1>4. CASE EndEvent /\ \E a, b \in Nat : Adds(EventMark, a, b)
  <2>1. /\ LastRptSeq(i)' = LastRptSeq(i)
        /\ \A n, k \in Nat : Carries(n, k, i)' =>
             Carries(n, k, i) /\ At(n, k)' = At(n, k)
    BY <1>3, <1>4
  <2> QED BY <1>0, <2>1
<1>5. CASE \E j \in Securities, kind \in Kinds :
             /\ AddEntry(j, kind)
             /\ \E a, b \in Nat : Adds([sec |-> j, rptseq |-> LastRptSeq(j) + 1], a, b)
  BY <1>0, <1>2, <1>5
<1> QED BY <1>1, <1>4, <1>5, WireStep
-----------------------------------------------------------------------------
(* The controllers.                                                        *)

Keeps(i) ==
  /\ state'[i] = state[i] /\ processed'[i] = processed[i]
  /\ statechange'[i] = statechange[i]

\* The current entry is applied, opens a gap, or does neither.
Takes(i) ==
  /\ HandleEntry /\ CurrentItem.sec = i
  /\ state'[i] = "SYNC" /\ processed'[i] = CurrentItem.rptseq
  /\ state[i] = "OUTOFSYNC" => CurrentItem.rptseq = processed[i] + 1

Loses(i) ==
  /\ HandleEntry /\ CurrentItem.sec = i
  /\ state[i] = "SYNC" /\ state'[i] = "OUTOFSYNC"
  /\ CurrentItem.rptseq \in Nat /\ CurrentItem.rptseq > processed[i] + 1
  /\ CurrentItem.rptseq <= LastRptSeq(i)
  /\ processed'[i] = processed[i] /\ statechange'[i] = statechange[i]

PassesBy(i) ==
  HandleEntry /\ CurrentItem.sec = i /\ state[i] \in {"SYNC", "OUTOFSYNC"}
    => CurrentItem.rptseq # processed[i] + 1

LEMMA EntryOutcome ==
  ASSUME TypeOK, NEW j \in Securities, NEW r, OnIncremental(j, r)
  PROVE  /\ UNCHANGED <<history, quote>>
         /\ \A i \in Securities : i # j => Keeps(i)
         /\ \/ /\ state'[j] = "SYNC" /\ processed'[j] = r
               /\ state[j] = "OUTOFSYNC" => r = processed[j] + 1
            \/ /\ state[j] = "SYNC" /\ state'[j] = "OUTOFSYNC"
               /\ r \in Nat /\ r > processed[j] + 1 /\ r <= LastRptSeq(j)
               /\ processed'[j] = processed[j] /\ statechange'[j] = statechange[j]
            \/ /\ Keeps(j)
               /\ state[j] \in {"SYNC", "OUTOFSYNC"} => r # processed[j] + 1
<1>0. /\ r \in Nat /\ r <= LastRptSeq(j) /\ processed[j] \in Int
      /\ UNCHANGED history
  BY LastIsNat DEF OnIncremental, TypeOK
<1>1. ASSUME ApplyEntry(j, r)
      PROVE  UNCHANGED quote /\ \A i \in Securities : i # j => statechange'[i] = statechange[i]
  BY <1>1 DEF ApplyEntry, ApplyBookEntry, ApplyOtherEntry, handlerVars, TypeOK
<1>2. CASE ApplyNext(j, r) \/ FillGap(j, r) \/ StartOfSession(j, r)
  BY <1>0, <1>1, <1>2
  DEF ApplyNext, FillGap, StartOfSession, SwitchState, Keeps, TypeOK
<1>3. CASE DetectGap(j, r)
  BY <1>0, <1>3 DEF DetectGap, SwitchState, handlerVars, Keeps, TypeOK
<1>4. CASE Discard(j, r)
  BY <1>0, <1>4 DEF Discard, handlerVars, Keeps, TypeOK
<1> QED BY <1>0, <1>2, <1>3, <1>4 DEF OnIncremental

LEMMA SnapshotOutcome ==
  ASSUME TypeOK, NEW j \in Securities, NEW s, OnSnapshot(j, s)
  PROVE  /\ UNCHANGED <<history, quote>>
         /\ \A i \in Securities : i # j => Keeps(i)
         /\ state'[j] = "SYNC" /\ ~statechange'[j]
  BY DEF OnSnapshot, Recover, FastForward, SwitchState, LoadSnapshot, Keeps, TypeOK

LEMMA SubscribeOutcome ==
  ASSUME TypeOK, NEW j \in Securities, Subscribe(j)
  PROVE  /\ UNCHANGED <<history, quote>>
         /\ \A i \in Securities : i # j => Keeps(i)
         /\ state'[j] = "INITIAL"
  BY DEF Subscribe, Keeps, TypeOK

(* What a step of the channel does to a controller.                        *)
LEMMA ControllerMoves ==
  ASSUME ChannelTypeOK, [ChannelNext]_channelVars, NEW i \in Securities
  PROVE  \/ Keeps(i) /\ PassesBy(i)
         \/ Takes(i)
         \/ Loses(i)
         \/ HandleEndOfEvent /\ state'[i] = state[i] /\ processed'[i] = processed[i]
              /\ (state[i] # "ABSENT" => ~statechange'[i])
         \/ Idle /\ state'[i] = "SYNC" /\ ~statechange'[i]
         \/ Idle /\ state'[i] = "INITIAL"
<1>0. TypeOK
  BY DEF ChannelTypeOK
<1>1. CASE HandleEntry
  <2>1. PICK j \in Securities : CurrentItem.sec = j /\ OnIncremental(j, CurrentItem.rptseq)
    BY <1>1 DEF HandleEntry
  <2>2. CASE i = j
    BY <1>0, <1>1, <2>1, <2>2, EntryOutcome DEF Takes, Loses, PassesBy
  <2>3. CASE i # j
    BY <1>0, <1>1, <2>1, <2>3, EntryOutcome DEF PassesBy
  <2> QED BY <2>2, <2>3
<1>2. CASE HandleEndOfEvent
  BY <1>0, <1>2 DEF HandleEndOfEvent, Commit, TypeOK
<1>3. ASSUME NEW j \in Securities, NEW s \in 0 .. LastRptSeq(j), OnSnapshotPacket(j, s)
      PROVE  ~HandleEntry => (Keeps(i) /\ PassesBy(i)) \/ (Idle /\ state'[i] = "SYNC" /\ ~statechange'[i])
  BY <1>0, <1>3, SnapshotOutcome DEF OnSnapshotPacket, PassesBy
<1>4. ASSUME NEW j \in Securities, SubscribeInstrument(j)
      PROVE  ~HandleEntry => (Keeps(i) /\ PassesBy(i)) \/ (Idle /\ state'[i] = "INITIAL")
  BY <1>0, <1>4, SubscribeOutcome DEF SubscribeInstrument, PassesBy
<1>5. ASSUME UNCHANGED <<state, processed, statechange>>
      PROVE  Keeps(i) /\ (~HandleEntry => PassesBy(i))
  BY <1>5 DEF Keeps, PassesBy
<1>6. ASSUME \/ \E j \in Securities, kind \in Kinds : AddEntry(j, kind)
             \/ EndEvent \/ SendPacket
             \/ \E n \in 1 .. Len(packets) : OnIncrementalPacket(n)
             \/ UNCHANGED channelVars
      PROVE  UNCHANGED <<state, processed, statechange>>
  BY <1>6 DEF AddEntry, PublishUpdate, EndEvent, SendPacket, OnIncrementalPacket,
              channelVars, controllerVars, handlerVars
<1> QED BY <1>1, <1>2, <1>3, <1>4, <1>5, <1>6 DEF ChannelNext
-----------------------------------------------------------------------------
(* What is behind a gap, and what a pending change has applied.            *)

LEMMA VersionBounds ==
  ASSUME ChannelTypeOK, BookIsPublished, NEW i \in Securities
  PROVE  /\ processed[i] \in Int /\ LastRptSeq(i) \in Nat
         /\ state[i] \in {"SYNC", "OUTOFSYNC"} =>
              Version(i) = processed[i] /\ processed[i] \in 0 .. LastRptSeq(i)
         /\ state[i] \notin {"SYNC", "OUTOFSYNC"} => Version(i) = 0
  BY LastIsNat DEF ChannelTypeOK, TypeOK, BookIsPublished, Version

\* The place of an entry that a controller handles, seen from the others.
LEMMA AtTheCursor ==
  ASSUME ChannelTypeOK, Numbered, InTurn, HandleEntry,
         NEW i \in Securities, CurrentItem.sec = i
  PROVE  /\ ToCome(pkt, pos) /\ pkt \in Nat /\ pos \in Nat
         /\ Carries(pkt, pos, i) /\ At(pkt, pos) = CurrentItem
         /\ CurrentItem.rptseq \in 1 .. LastRptSeq(i)
         /\ \A n, k \in Nat : Carries(n, k, i) =>
              /\ At(n, k).rptseq \in Nat
              /\ ToCome(n, k)' <=> At(n, k).rptseq > CurrentItem.rptseq
              /\ ToCome(n, k) => ToCome(n, k)' \/ At(n, k).rptseq = CurrentItem.rptseq
<1>1. ~Idle /\ NextItem /\ UNCHANGED <<marketVars, filterVars>>
  BY DEF HandleEntry
<1>2. /\ Place(pkt, pos) /\ At(pkt, pos) = CurrentItem /\ ToCome(pkt, pos)
      /\ pkt \in Nat /\ pos \in Nat
      /\ \A n, k \in Nat : Place(n, k) =>
           (ToCome(n, k)' <=> Before(pkt, pos, n, k))
      /\ \A n, k \in Nat : Place(n, k) =>
           (ToCome(n, k) <=> Before(pkt, pos, n, k) \/ (n = pkt /\ k = pos))
  BY <1>1, Passing
<1>3. Carries(pkt, pos, i)
  BY <1>2 DEF Carries
<1>4. ASSUME NEW n \in Nat, NEW k \in Nat, Carries(n, k, i)
      PROVE  /\ At(n, k).rptseq \in Nat
             /\ ToCome(n, k)' <=> At(n, k).rptseq > CurrentItem.rptseq
             /\ ToCome(n, k) => ToCome(n, k)' \/ At(n, k).rptseq = CurrentItem.rptseq
  <2>1. /\ Place(n, k) /\ LastRptSeq(i) \in Nat
        /\ At(n, k).rptseq \in 1 .. LastRptSeq(i)
        /\ CurrentItem.rptseq \in 1 .. LastRptSeq(i)
    BY <1>2, <1>3, <1>4, LastIsNat DEF Carries, Numbered, ChannelTypeOK
  <2>2. Before(pkt, pos, n, k) => At(n, k).rptseq > CurrentItem.rptseq
    BY <1>2, <1>3, <1>4, <2>1 DEF Numbered
  <2>3. Before(n, k, pkt, pos) => At(n, k).rptseq < CurrentItem.rptseq
    BY <1>2, <1>3, <1>4, <2>1 DEF Numbered
  <2>4. \/ Before(pkt, pos, n, k) \/ Before(n, k, pkt, pos)
        \/ n = pkt /\ k = pos
    BY <1>2 DEF Before
  <2> QED BY <1>2, <2>1, <2>2, <2>3, <2>4
<1> QED BY <1>2, <1>3, <1>4 DEF Numbered

LEMMA GapIsBehindStep ==
  ASSUME NoWrap, ChannelTypeOK, BookIsPublished, Numbered, InTurn, GapIsBehind,
         [ChannelNext]_channelVars
  PROVE  GapIsBehind'
<1> SUFFICES ASSUME NEW i \in Securities, state'[i] = "OUTOFSYNC"
    PROVE  /\ processed'[i] < LastRptSeq(i)'
           /\ \A n, k \in Nat :
                Carries(n, k, i)' /\ ToCome(n, k)' => At(n, k)'.rptseq > processed'[i] + 1
  BY DEF GapIsBehind
<1>0. processed[i] \in Int
  BY VersionBounds
<1>1. ASSUME state[i] = "OUTOFSYNC", processed'[i] = processed[i]
      PROVE  /\ processed'[i] < LastRptSeq(i)'
             /\ \A n, k \in Nat :
                  Carries(n, k, i)' /\ ToCome(n, k)' => At(n, k)'.rptseq > processed'[i] + 1
  <2>1. ASSUME NEW n \in Nat, NEW k \in Nat, Carries(n, k, i)', ToCome(n, k)'
        PROVE  At(n, k)'.rptseq > processed'[i] + 1
    <3>1. CASE Carries(n, k, i) /\ At(n, k)' = At(n, k)
      <4>1. ToCome(n, k)
        BY <2>1, <3>1, NothingComesBack DEF Carries
      <4> QED BY <1>1, <3>1, <4>1 DEF GapIsBehind
    <3>2. CASE At(n, k)'.rptseq = LastRptSeq(i) + 1
      BY <1>0, <1>1, <3>2, NewPlaces DEF GapIsBehind
    <3> QED BY <2>1, <3>1, <3>2, NewPlaces
  <2>2. processed'[i] < LastRptSeq(i)'
    BY <1>0, <1>1, NewPlaces DEF GapIsBehind
  <2> QED BY <2>1, <2>2
<1>2. CASE Loses(i)
  <2>0. /\ HandleEntry /\ CurrentItem.sec = i /\ CurrentItem.rptseq \in Nat
        /\ CurrentItem.rptseq > processed[i] + 1
        /\ CurrentItem.rptseq <= LastRptSeq(i)
        /\ processed'[i] = processed[i]
    BY <1>2 DEF Loses
  <2>1. ASSUME NEW n \in Nat, NEW k \in Nat, Carries(n, k, i)', ToCome(n, k)'
        PROVE  At(n, k)'.rptseq > processed'[i] + 1
    <3>1. CASE Carries(n, k, i) /\ At(n, k)' = At(n, k)
      <4>1. At(n, k).rptseq \in Nat /\ At(n, k).rptseq > CurrentItem.rptseq
        BY <2>0, <2>1, <3>1, AtTheCursor
      <4> QED BY <1>0, <2>0, <3>1, <4>1
    <3>2. CASE At(n, k)'.rptseq = LastRptSeq(i) + 1
      BY <1>0, <2>0, <3>2, NewPlaces
    <3> QED BY <2>1, <3>1, <3>2, NewPlaces
  <2>2. processed'[i] < LastRptSeq(i)'
    BY <1>0, <2>0, NewPlaces
  <2> QED BY <2>1, <2>2
<1> QED BY <1>1, <1>2, ControllerMoves DEF Keeps, Takes

LEMMA PendingIsAppliedStep ==
  ASSUME NoWrap, ChannelTypeOK, BookIsPublished, Numbered, InTurn, PendingIsApplied,
         [ChannelNext]_channelVars
  PROVE  PendingIsApplied'
<1> SUFFICES ASSUME NEW i \in Securities, state'[i] \in {"SYNC", "OUTOFSYNC"},
                    statechange'[i], NEW n \in Nat, NEW k \in Nat, Carries(n, k, i)'
    PROVE  /\ ToCome(n, k)' => At(n, k)'.rptseq > processed'[i]
           /\ At(n, k)'.rptseq = processed'[i] + 1 /\ n \in accepted' => ToCome(n, k)'
  BY DEF PendingIsApplied
<1>0. processed[i] \in Int
  BY VersionBounds
<1>1. CASE Takes(i)
  <2>0. /\ HandleEntry /\ CurrentItem.sec = i
        /\ processed'[i] = CurrentItem.rptseq
    BY <1>1 DEF Takes
  <2>1. CurrentItem.rptseq \in 1 .. LastRptSeq(i)
    BY <2>0, AtTheCursor
  <2>2. CASE Carries(n, k, i) /\ At(n, k)' = At(n, k)
    BY <2>0, <2>1, <2>2, AtTheCursor
  <2>3. CASE At(n, k)'.rptseq = LastRptSeq(i) + 1 /\ n \notin accepted'
    BY <2>0, <2>1, <2>3, NewPlaces
  <2> QED BY <2>2, <2>3, NewPlaces
<1>2. ASSUME state[i] \in {"SYNC", "OUTOFSYNC"}, statechange[i],
             processed'[i] = processed[i], PassesBy(i), ~HandleEndOfEvent
      PROVE  /\ ToCome(n, k)' => At(n, k)'.rptseq > processed'[i]
             /\ At(n, k)'.rptseq = processed'[i] + 1 /\ n \in accepted' => ToCome(n, k)'
  <2>1. CASE Carries(n, k, i) /\ At(n, k)' = At(n, k)
    <3>1. /\ ToCome(n, k) => At(n, k).rptseq > processed[i]
          /\ At(n, k).rptseq = processed[i] + 1 /\ n \in accepted => ToCome(n, k)
      BY <1>2, <2>1 DEF PendingIsApplied
    <3>2. Place(n, k) /\ (ToCome(n, k)' => ToCome(n, k))
      BY <2>1, NothingComesBack DEF Carries
    <3>3. CASE HandleEntry /\ CurrentItem.sec = i
      <4>1. CurrentItem.rptseq # processed[i] + 1
        BY <1>2, <3>3 DEF PassesBy
      <4>2. accepted' = accepted
        BY <3>3 DEF HandleEntry, filterVars
      <4> QED BY <1>2, <2>1, <3>1, <3>2, <3>3, <4>1, <4>2, AtTheCursor
    <3>4. CASE HandleEntry /\ CurrentItem.sec # i
      <4>1. ~Idle /\ NextItem /\ UNCHANGED <<marketVars, filterVars>>
        BY <3>4 DEF HandleEntry
      <4>2. ToCome(n, k) => ToCome(n, k)' \/ (n = pkt /\ k = pos)
        BY <3>2, <4>1, Passing
      <4>3. ~(n = pkt /\ k = pos)
        BY <2>1, <3>4, <4>1, Passing DEF Carries
      <4>4. accepted' = accepted
        BY <4>1 DEF filterVars
      <4> QED BY <1>2, <2>1, <3>1, <3>2, <4>2, <4>3, <4>4
    <3>5. CASE ~HandleEntry
      <4>1. n \in accepted' =>
              \/ ToCome(n, k)'
              \/ n \in accepted /\ (ToCome(n, k)' <=> ToCome(n, k))
        BY <1>2, <3>2, <3>5, Standing
      <4> QED BY <1>2, <2>1, <3>1, <3>2, <4>1
    <3> QED BY <3>3, <3>4, <3>5
  <2>2. CASE At(n, k)'.rptseq = LastRptSeq(i) + 1 /\ n \notin accepted'
    <3>1. processed[i] <= LastRptSeq(i) /\ LastRptSeq(i) \in Nat
      BY <1>0, <1>2, VersionBounds
    <3> QED BY <1>0, <1>2, <2>2, <3>1
  <2> QED BY <2>1, <2>2, NewPlaces
<1>3. CASE Loses(i)
  <2>1. CurrentItem.rptseq # processed[i] + 1
    BY <1>0, <1>3 DEF Loses
  <2>2. /\ HandleEntry /\ state[i] = "SYNC" /\ statechange[i]
        /\ processed'[i] = processed[i] /\ PassesBy(i)
    BY <1>3, <2>1 DEF Loses, PassesBy
  <2>3. ~HandleEndOfEvent
    BY <1>3, SecuritiesAreNoMarks DEF Loses, HandleEndOfEvent
  <2> QED BY <1>2, <2>2, <2>3
<1>4. CASE HandleEndOfEvent
  BY <1>4, ControllerMoves, SecuritiesAreNoMarks
  DEF HandleEndOfEvent, Takes, Loses, HandleEntry, Idle, Commit
<1> QED BY <1>1, <1>2, <1>3, <1>4, ControllerMoves DEF Keeps

\* The ways to be in SYNC after a step, other than by a snapshot.
LEMMA EditedMoves ==
  ASSUME ChannelTypeOK, [ChannelNext]_channelVars, NEW i \in Securities,
         state'[i] = "SYNC", ~silent'[i]
  PROVE  \/ Takes(i)
         \/ /\ state[i] = "SYNC" /\ ~silent[i] /\ processed'[i] = processed[i]
            /\ HandleEntry /\ CurrentItem.sec = i
                 => CurrentItem.rptseq < processed[i] + 1
<1>0. TypeOK
  BY DEF ChannelTypeOK
<1>1. CASE HandleEntry
  <2>1. PICK j \in Securities : CurrentItem.sec = j /\ OnIncremental(j, CurrentItem.rptseq)
    BY <1>1 DEF HandleEntry
  <2> DEFINE r == CurrentItem.rptseq
  <2>2. CASE \/ ApplyNext(j, r) \/ FillGap(j, r) \/ StartOfSession(j, r)
    <3>1. i # j => silent'[i] = silent[i] /\ state'[i] = state[i] /\ processed'[i] = processed[i]
      BY <1>0, <2>2
      DEF ApplyNext, FillGap, StartOfSession, SwitchState, ApplyEntry,
          ApplyBookEntry, ApplyOtherEntry, handlerVars, TypeOK
    <3>2. i = j => Takes(i)
      BY <1>0, <1>1, <2>1, <2>2
      DEF ApplyNext, FillGap, StartOfSession, SwitchState, Takes, TypeOK
    <3> QED BY <2>1, <3>1, <3>2
  <2>3. CASE DetectGap(j, r)
    BY <1>0, <2>1, <2>3 DEF DetectGap, SwitchState, handlerVars, TypeOK
  <2>4. CASE Discard(j, r)
    BY <2>1, <2>4 DEF Discard, handlerVars
  <2> QED BY <2>1, <2>2, <2>3, <2>4 DEF OnIncremental
<1>2. CASE HandleEndOfEvent
  BY <1>2, SecuritiesAreNoMarks DEF HandleEndOfEvent, Commit
<1>3. ASSUME NEW j \in Securities, NEW s \in 0 .. LastRptSeq(j), OnSnapshotPacket(j, s)
      PROVE  /\ state[i] = "SYNC" /\ ~silent[i] /\ processed'[i] = processed[i]
             /\ Idle
  BY <1>0, <1>3
  DEF OnSnapshotPacket, OnSnapshot, Recover, FastForward, SwitchState,
      LoadSnapshot, TypeOK
<1>4. ASSUME NEW j \in Securities, SubscribeInstrument(j)
      PROVE  /\ state[i] = "SYNC" /\ ~silent[i] /\ processed'[i] = processed[i]
             /\ Idle
  BY <1>0, <1>4 DEF SubscribeInstrument, Subscribe, TypeOK
<1>5. CASE \/ \E j \in Securities, kind \in Kinds : AddEntry(j, kind)
           \/ EndEvent \/ SendPacket
           \/ \E n \in 1 .. Len(packets) : OnIncrementalPacket(n)
           \/ UNCHANGED channelVars
  <2>1. UNCHANGED <<state, processed, silent>>
    BY <1>5 DEF AddEntry, PublishUpdate, EndEvent, SendPacket, OnIncrementalPacket,
                channelVars, controllerVars, handlerVars
  <2>2. CASE ~HandleEntry
    BY <2>1, <2>2
  <2> QED BY <1>1, <2>2
<1>6. Idle => ~HandleEntry
  BY DEF HandleEntry
<1> QED BY <1>1, <1>2, <1>3, <1>4, <1>5, <1>6 DEF ChannelNext

LEMMA CaughtUpStep ==
  ASSUME NoWrap, ChannelTypeOK, BookIsPublished, Numbered, InTurn, CaughtUp,
         [ChannelNext]_channelVars
  PROVE  CaughtUp'
<1> SUFFICES ASSUME NEW i \in Securities, state'[i] = "SYNC", ~silent'[i],
                    NEW n \in Nat, NEW k \in Nat,
                    Carries(n, k, i)', n \in accepted', ~ToCome(n, k)'
    PROVE  At(n, k)'.rptseq <= processed'[i]
  BY DEF CaughtUp
<1>0. processed[i] \in Int
  BY VersionBounds
<1>1. Carries(n, k, i) /\ At(n, k)' = At(n, k)
  BY NewPlaces
<1>2. Place(n, k)
  BY <1>1 DEF Carries
<1>3. CASE Takes(i)
  <2>0. /\ HandleEntry /\ CurrentItem.sec = i
        /\ processed'[i] = CurrentItem.rptseq
    BY <1>3 DEF Takes
  <2>1. CurrentItem.rptseq \in 1 .. LastRptSeq(i) /\ LastRptSeq(i) \in Nat
    BY <2>0, AtTheCursor, VersionBounds
  <2>2. /\ At(n, k).rptseq \in Nat
        /\ ~(At(n, k).rptseq > CurrentItem.rptseq)
    BY <1>1, <2>0, AtTheCursor
  <2> QED BY <1>1, <2>0, <2>1, <2>2
<1>4. ASSUME state[i] = "SYNC", ~silent[i], processed'[i] = processed[i],
             HandleEntry /\ CurrentItem.sec = i => CurrentItem.rptseq < processed[i] + 1
      PROVE  At(n, k)'.rptseq <= processed'[i]
  <2>1. n \in accepted /\ ~ToCome(n, k) => At(n, k).rptseq <= processed[i]
    BY <1>1, <1>4 DEF CaughtUp
  <2>2. CASE HandleEntry /\ CurrentItem.sec = i
    <3>1. accepted' = accepted
      BY <2>2 DEF HandleEntry, filterVars
    <3>2. ToCome(n, k) => At(n, k).rptseq = CurrentItem.rptseq
      BY <1>1, <2>2, AtTheCursor
    <3>3. CurrentItem.rptseq \in 1 .. LastRptSeq(i) /\ LastRptSeq(i) \in Nat
      BY <2>2, AtTheCursor, VersionBounds
    <3> QED BY <1>0, <1>1, <1>4, <2>1, <2>2, <3>1, <3>2, <3>3
  <2>3. CASE (HandleEntry \/ HandleEndOfEvent) /\ CurrentItem.sec # i
    <3>1. ~Idle /\ NextItem /\ UNCHANGED <<marketVars, filterVars>>
      BY <2>3 DEF HandleEntry, HandleEndOfEvent
    <3>2. ~(n = pkt /\ k = pos)
      BY <1>1, <2>3, <3>1, Passing DEF Carries
    <3>3. ~ToCome(n, k)
      BY <1>2, <3>1, <3>2, Passing
    <3>4. accepted' = accepted
      BY <3>1 DEF filterVars
    <3> QED BY <1>1, <1>4, <2>1, <3>3, <3>4
  <2>4. CASE ~(HandleEntry \/ HandleEndOfEvent)
    <3>1. n \in accepted /\ ~ToCome(n, k)
      BY <1>2, <2>4, Standing
    <3> QED BY <1>1, <1>4, <2>1, <3>1
  <2>5. HandleEndOfEvent => CurrentItem.sec # i
    BY SecuritiesAreNoMarks DEF HandleEndOfEvent
  <2> QED BY <2>2, <2>3, <2>4, <2>5
<1> QED BY <1>3, <1>4, EditedMoves
-----------------------------------------------------------------------------
(* The inductive invariant.                                                *)

OrderInv ==
  /\ ChannelTypeOK
  /\ NoEmptyPacket
  /\ BookIsPublished
  /\ Numbered
  /\ Marked
  /\ InTurn
  /\ GapIsBehind
  /\ PendingIsApplied
  /\ CaughtUp

LEMMA OrderInit ==
  ASSUME ChannelInit
  PROVE  /\ Numbered /\ Marked /\ InTurn
         /\ GapIsBehind /\ PendingIsApplied /\ CaughtUp
<1>0. ChannelTypeOK
  BY ChannelTypeInit
<1>1. /\ Len(packets) = 0 /\ Len(draft) = 0 /\ accepted = {} /\ pkt = 0
      /\ expectedseqnum = 0 /\ \A i \in Securities : eventend[i] = {0}
      /\ \A i \in Securities : state[i] = "ABSENT"
  BY EmptySeq DEF ChannelInit, ControllerInit
<1>2. \A i \in Securities : LastRptSeq(i) = 0
  BY EmptySeq DEF ChannelInit, ControllerInit, ExchangeInit, LastRptSeq
<1>3. \A n, k \in Nat : ~Place(n, k)
  BY <1>1 DEF Place, Content
<1>4. /\ \A i \in Securities : \A n, k \in Nat : ~Carries(n, k, i)
      /\ \A n, k \in Nat : ~Carries(n, k, EndOfEvent)
  BY <1>3 DEF Carries
<1>5. Numbered
  <2>1. \A i \in Securities : \A r \in 1 .. LastRptSeq(i) : FALSE
    BY <1>2
  <2> QED BY <1>4, <2>1 DEF Numbered
<1>6. Marked
  BY <1>1, <1>4 DEF Marked
<1>7. InTurn
  BY <1>1, ChannelAssumption DEF InTurn
<1>8. GapIsBehind /\ PendingIsApplied /\ CaughtUp
  BY <1>1 DEF GapIsBehind, PendingIsApplied, CaughtUp
<1> QED BY <1>5, <1>6, <1>7, <1>8

LEMMA OrderStep ==
  ASSUME NoWrap, OrderInv, ChannelTypeOK', BookIsPublished', [ChannelNext]_channelVars
  PROVE  OrderInv'
<1>1. NoEmptyPacket'
  BY ChannelTypeStep DEF OrderInv, ChannelTypeOK
<1>2. Numbered' /\ Marked'
  BY NumberedStep, MarkedStep DEF OrderInv
<1>3. InTurn' /\ GapIsBehind' /\ PendingIsApplied' /\ CaughtUp'
  BY InTurnStep, GapIsBehindStep, PendingIsAppliedStep, CaughtUpStep DEF OrderInv
<1> QED BY <1>1, <1>2, <1>3 DEF OrderInv

LEMMA OrderInvariant == ASSUME NoWrap PROVE ChannelSpec => []OrderInv
<1>1. ChannelSpec => []ChannelTypeOK
  BY ChannelTypeCorrect
<1>2. ChannelSpec => []BookIsPublished
  BY ChannelBooksArePublished
<1>3. ChannelInit /\ ChannelTypeOK /\ BookIsPublished => OrderInv
  BY OrderInit, ChannelTypeInit DEF OrderInv
<1>4. OrderInv /\ ChannelTypeOK' /\ BookIsPublished' /\ [ChannelNext]_channelVars
        => OrderInv'
  BY OrderStep
<1> QED BY <1>1, <1>2, <1>3, <1>4, PTL DEF ChannelSpec

(* Only a snapshot ends a gap: the branch of OnIncremental that would take *)
(* the missing update when it comes late is dead, because that update is   *)
(* in a packet the filter has passed already.                              *)
THEOREM OnlySnapshotsRecover ==
  ASSUME NoWrap PROVE ChannelSpec => OnlySnapshotRecovers
<1>1. ASSUME OrderInv, [ChannelNext]_channelVars, NEW i \in Securities,
             state[i] = "OUTOFSYNC", state'[i] = "SYNC"
      PROVE  Idle
  <2>1. ~Takes(i)
    <3> SUFFICES ASSUME Takes(i) PROVE FALSE
      OBVIOUS
    <3>1. /\ HandleEntry /\ CurrentItem.sec = i
          /\ CurrentItem.rptseq = processed[i] + 1
      BY <1>1 DEF Takes
    <3>2. /\ Carries(pkt, pos, i) /\ ToCome(pkt, pos) /\ pkt \in Nat /\ pos \in Nat
          /\ At(pkt, pos) = CurrentItem
      BY <1>1, <3>1, AtTheCursor DEF OrderInv
    <3>3. At(pkt, pos).rptseq > processed[i] + 1
      BY <1>1, <3>2 DEF OrderInv, GapIsBehind
    <3>4. processed[i] \in Int
      BY <1>1, VersionBounds DEF OrderInv
    <3> QED BY <3>1, <3>2, <3>3, <3>4
  <2> QED BY <1>1, <2>1, ControllerMoves DEF OrderInv, Keeps, Loses
<1>2. OrderInv /\ [ChannelNext]_channelVars =>
        [\A i \in Securities :
           state[i] = "OUTOFSYNC" /\ state'[i] = "SYNC" => Idle]_channelVars
  BY <1>1
<1> QED BY <1>2, OrderInvariant, PTL DEF ChannelSpec, OnlySnapshotRecovers

(* A controller in SYNC whose books were last changed by an entry is not   *)
(* behind any update it was handed: entries pass in their order, and one   *)
(* that does not follow the last leaves SYNC.                              *)
THEOREM EditedMeansCaughtUp ==
  ASSUME NoWrap PROVE ChannelSpec => []SyncIsCaughtUp
<1>1. ASSUME OrderInv PROVE SyncIsCaughtUp
  <2> SUFFICES ASSUME NEW i \in Securities, state[i] = "SYNC", ~silent[i],
                      NEW r \in 1 .. LastRptSeq(i), Handled(i, r)
               PROVE  r <= processed[i]
    BY DEF SyncIsCaughtUp
  <2>0. ChannelTypeOK /\ InTurn /\ CaughtUp
    BY <1>1 DEF OrderInv
  <2>1. PICK n \in accepted : \E k \in 1 .. Len(packets[n]) :
               /\ n = pkt => k < pos
               /\ packets[n][k] = [sec |-> i, rptseq |-> r]
    BY DEF Handled
  <2>2. PICK k \in 1 .. Len(packets[n]) :
               /\ n = pkt => k < pos
               /\ packets[n][k] = [sec |-> i, rptseq |-> r]
    BY <2>1
  <2>3. /\ n \in 1 .. Len(packets) /\ n \in Nat /\ k \in Nat
        /\ Len(packets) \in Nat /\ Len(packets[n]) \in Nat
    BY <2>0, PacketTypes DEF ChannelTypeOK
  <2>4. Content(n) = packets[n]
    BY <2>3 DEF Content
  <2>5. Carries(n, k, i) /\ At(n, k).rptseq = r
    BY <2>2, <2>3, <2>4 DEF Carries, Place, At
  <2>6. ~ToCome(n, k)
    <3>1. n < expectedseqnum /\ expectedseqnum \in Nat
      BY <2>0, ChannelAssumption DEF InTurn, ChannelTypeOK
    <3>2. n = pkt => pos \in Nat
      BY <2>0, <2>3 DEF ChannelTypeOK
    <3> QED BY <2>2, <2>3, <3>1, <3>2 DEF ToCome
  <2> QED BY <2>0, <2>3, <2>5, <2>6 DEF CaughtUp
<1> QED BY <1>1, OrderInvariant, PTL
-----------------------------------------------------------------------------
(* Events.                                                                 *)

\* What is shown at the end of an event: the versions of its end, but for
\* controllers whose next update was missed.
LEMMA ShownAtMark ==
  ASSUME OrderInv, ~Idle, CurrentItem.sec = EndOfEvent,
         NEW i \in Securities, state[i] # "ABSENT", statechange[i]
  PROVE  Version(i) \in eventend[i] \/ Missed(i, Version(i) + 1)
<1>1. CASE state[i] \notin {"SYNC", "OUTOFSYNC"}
  BY <1>1, VersionBounds DEF OrderInv, Marked
<1>2. CASE state[i] \in {"SYNC", "OUTOFSYNC"}
  <2>0. /\ Version(i) = processed[i] /\ processed[i] \in 0 .. LastRptSeq(i)
        /\ LastRptSeq(i) \in Nat
    BY <1>2, VersionBounds DEF OrderInv
  <2>1. /\ pkt \in 1 .. Len(packets) /\ pos \in 1 .. Len(packets[pkt])
        /\ Len(packets[pkt]) \in Nat /\ Len(packets) \in Nat
        /\ expectedseqnum = pkt + 1 /\ pkt \in accepted
    BY PacketTypes DEF OrderInv, ChannelTypeOK, InTurn, Idle
  <2>2. Carries(pkt, pos, EndOfEvent) /\ pkt \in Nat /\ pos \in Nat
    BY <2>1 DEF Carries, Place, At, Content, CurrentItem
  <2>3. PICK e \in eventend[i] : e \in 0 .. LastRptSeq(i) /\ Splits(e, pkt, pos, i)
    BY <2>2 DEF OrderInv, Marked
  <2>4. ASSUME NEW n \in Nat, NEW k \in Nat, Carries(n, k, i)
        PROVE  Before(n, k, pkt, pos) \/ Before(pkt, pos, n, k)
    <3>1. ~(n = pkt /\ k = pos)
      BY <2>2, <2>4, SecuritiesAreNoMarks DEF Carries
    <3> QED BY <2>2, <3>1 DEF Before
  <2>5. CASE processed[i] = e
    BY <2>0, <2>3, <2>5
  <2>6. CASE processed[i] > e
    <3>0. processed[i] \in 1 .. LastRptSeq(i)
      BY <2>0, <2>3, <2>6
    <3>1. PICK n \in Nat, k \in Nat : Carries(n, k, i) /\ At(n, k).rptseq = processed[i]
      BY <3>0 DEF OrderInv, Numbered
    <3>2. Before(pkt, pos, n, k)
      <4>1. Before(n, k, pkt, pos) => At(n, k).rptseq <= e
        BY <2>3, <3>1 DEF Splits
      <4>2. processed[i] \in Int /\ e \in Int
        BY <2>0, <2>3
      <4>3. ~Before(n, k, pkt, pos)
        BY <2>6, <3>1, <4>1, <4>2
      <4> QED BY <2>4, <3>1, <4>3
    <3>3. ToCome(n, k)
      BY <2>1, <2>2, <3>2 DEF Before, ToCome
    <3>4. At(n, k).rptseq > processed[i]
      BY <1>2, <3>1, <3>3 DEF OrderInv, PendingIsApplied
    <3> QED BY <2>0, <3>1, <3>4
  <2>7. CASE processed[i] < e
    <3>0. processed[i] + 1 \in 1 .. LastRptSeq(i) /\ processed[i] + 1 <= e
      BY <2>0, <2>3, <2>7
    <3>1. PICK n \in Nat, k \in Nat :
            Carries(n, k, i) /\ At(n, k).rptseq = processed[i] + 1
      BY <3>0 DEF OrderInv, Numbered
    <3>2. Before(n, k, pkt, pos)
      <4>1. Before(pkt, pos, n, k) => At(n, k).rptseq > e
        BY <2>3, <3>1 DEF Splits
      <4>2. processed[i] \in Int /\ e \in Int
        BY <2>0, <2>3
      <4>3. ~Before(pkt, pos, n, k)
        BY <2>7, <3>1, <4>1, <4>2
      <4> QED BY <2>4, <3>1, <4>3
    <3>3. ~ToCome(n, k)
      BY <2>1, <2>2, <3>2 DEF Before, ToCome
    <3>4. n \notin accepted
      BY <1>2, <3>1, <3>3 DEF OrderInv, PendingIsApplied
    <3>5. n \in 1 .. Len(packets) /\ n < pkt /\ At(n, k) = packets[n][k]
          /\ k \in 1 .. Len(packets[n])
      BY <2>1, <2>2, <3>1, <3>2, <3>4 DEF Before, Carries, Place, Content, At
    <3>6. packets[n][k] \in Items
      BY <3>5, PacketTypes DEF OrderInv
    <3>7. packets[n][k] = [sec |-> i, rptseq |-> processed[i] + 1]
      BY <3>1, <3>5, <3>6, SecuritiesAreNoMarks DEF Carries, Items
    <3> QED BY <2>0, <2>1, <3>4, <3>5, <3>7 DEF Missed
  <2>8. e \in Int /\ processed[i] \in Int
    BY <2>0, <2>3
  <2> QED BY <2>5, <2>6, <2>7, <2>8
<1> QED BY <1>1, <1>2

\* What was missed is not accepted later.
LEMMA MissedForGood ==
  ASSUME NoWrap, OrderInv, [ChannelNext]_channelVars, NEW i, NEW r, Missed(i, r)
  PROVE  Missed(i, r)'
<1>1. PICK n \in 1 .. Len(packets), m \in accepted :
        /\ n < m /\ n \notin accepted
        /\ \E k \in 1 .. Len(packets[n]) : packets[n][k] = [sec |-> i, rptseq |-> r]
  BY DEF Missed
<1>2. /\ n \in 1 .. Len(packets') /\ packets'[n] = packets[n]
  <2>1. CASE SendPacket
    BY <2>1, AppendProperties, PacketTypes DEF SendPacket, OrderInv, ChannelTypeOK
  <2>2. CASE ~SendPacket
    BY <2>2 DEF ChannelNext, AddEntry, EndEvent, SubscribeInstrument, OnIncrementalPacket,
                HandleEntry, HandleEndOfEvent, OnSnapshotPacket, channelVars, marketVars
  <2> QED BY <2>1, <2>2
<1>3. m \in accepted' /\ n \notin accepted'
  <2>1. ASSUME NEW p \in 1 .. Len(packets), OnIncrementalPacket(p)
        PROVE  m \in accepted' /\ n \notin accepted'
    <3>1. CASE AcceptPacket(p)
      <4>1. p >= expectedseqnum /\ accepted' = accepted \cup {p}
        BY <3>1, AcceptedInTurn DEF OrderInv
      <4>2. n < expectedseqnum /\ expectedseqnum \in Int /\ n \in Int
        BY <1>1, PacketTypes, ChannelAssumption DEF OrderInv, InTurn, ChannelTypeOK
      <4>3. p # n
        BY <4>1, <4>2
      <4> QED BY <1>1, <4>1, <4>3
    <3>2. CASE RejectPacket(p)
      BY <1>1, <3>2 DEF RejectPacket
    <3> QED BY <2>1, <3>1, <3>2 DEF OnIncrementalPacket
  <2>2. ASSUME UNCHANGED accepted
        PROVE  m \in accepted' /\ n \notin accepted'
    BY <1>1, <2>2
  <2> QED
    BY <2>1, <2>2
    DEF ChannelNext, AddEntry, EndEvent, SendPacket, SubscribeInstrument, HandleEntry,
        HandleEndOfEvent, OnSnapshotPacket, channelVars, filterVars
<1> QED BY <1>1, <1>2, <1>3 DEF Missed

LEMMA AtomicityStep ==
  ASSUME NoWrap, OrderInv, EventAtomicity, [ChannelNext]_channelVars
  PROVE  EventAtomicity'
<1> SUFFICES ASSUME NEW i \in Securities, NEW r, r = quote'[i].version + 1
    PROVE  quote'[i].version \in eventend'[i] \/ Missed(i, r)'
  BY DEF EventAtomicity, Missed
<1>1. eventend[i] \subseteq eventend'[i]
  <2>1. CASE EndEvent
    BY <2>1 DEF EndEvent
  <2>2. CASE ~EndEvent
    BY <2>2 DEF ChannelNext, AddEntry, SendPacket, SubscribeInstrument, OnIncrementalPacket,
                HandleEntry, HandleEndOfEvent, OnSnapshotPacket, channelVars, marketVars
  <2> QED BY <2>1, <2>2
<1>2. CASE quote'[i] = quote[i]
  <2>1. CASE quote[i].version \in eventend[i]
    BY <1>1, <1>2, <2>1
  <2>2. CASE Missed(i, quote[i].version + 1)
    BY <1>2, <2>2, MissedForGood
  <2> QED BY <2>1, <2>2 DEF EventAtomicity
<1>3. CASE HandleEndOfEvent /\ state[i] # "ABSENT" /\ statechange[i]
  <2>1. quote'[i].version = Version(i)
    BY <1>3 DEF HandleEndOfEvent, Commit
  <2>2. Version(i) \in eventend[i] \/ Missed(i, Version(i) + 1)
    BY <1>3, ShownAtMark DEF HandleEndOfEvent
  <2>3. Missed(i, r) => Missed(i, r)'
    BY MissedForGood
  <2> QED BY <1>1, <2>1, <2>2, <2>3
<1>4. \/ quote'[i] = quote[i]
      \/ HandleEndOfEvent /\ state[i] # "ABSENT" /\ statechange[i]
  <2>0. TypeOK
    BY DEF OrderInv, ChannelTypeOK
  <2>1. CASE HandleEndOfEvent
    BY <2>0, <2>1 DEF HandleEndOfEvent, Commit, TypeOK
  <2>2. CASE HandleEntry
    BY <2>0, <2>2, EntryOutcome DEF HandleEntry
  <2>3. CASE ~(HandleEndOfEvent \/ HandleEntry)
    BY <2>0, <2>3, SnapshotOutcome, SubscribeOutcome
    DEF ChannelNext, AddEntry, PublishUpdate, EndEvent, SendPacket, SubscribeInstrument,
        OnIncrementalPacket, OnSnapshotPacket, channelVars, controllerVars, handlerVars
  <2> QED BY <2>1, <2>2, <2>3
<1> QED BY <1>2, <1>3, <1>4

(* Listeners never see the middle of an event, but for the books of an     *)
(* instrument whose own next update was missed: Commit runs at ends of     *)
(* events only, and shows nothing but what had passed by then.             *)
THEOREM EventsAreAtomic ==
  ASSUME NoWrap PROVE ChannelSpec => []EventAtomicity
<1>1. ChannelInit => EventAtomicity
  <2> SUFFICES ASSUME ChannelInit, NEW i \in Securities
      PROVE  quote[i].version \in eventend[i]
    BY DEF EventAtomicity
  <2> QED BY DEF ChannelInit, ControllerInit, NoQuote
<1>2. OrderInv /\ EventAtomicity /\ [ChannelNext]_channelVars => EventAtomicity'
  BY AtomicityStep
<1> QED BY <1>1, <1>2, OrderInvariant, PTL DEF ChannelSpec
=============================================================================
