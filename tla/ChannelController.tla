-------------------------- MODULE ChannelController --------------------------
(***************************************************************************)
(* subscriber/ChannelController: the packets of the incremental feed, the  *)
(* packet filter in front of the instrument controllers, and the snapshot  *)
(* feed.  It gives the open environment of InstrumentController a body:    *)
(* the exchange writes packets, and a packet may be lost, arrive twice     *)
(* (feeds A and B carry the same packets) or arrive late.                  *)
(*                                                                         *)
(* The program runs its handlers on one thread, so a packet is worked off  *)
(* without interruption: while pkt # 0 nothing but the next item of that   *)
(* packet is handled, though the exchange goes on publishing.              *)
(***************************************************************************)
EXTENDS InstrumentController

CONSTANTS
  EndOfEvent,   \* the item that closes a message whose matchEventIndicator
                \*   says endOfEvent
  SeqNumSpan,   \* how many packet sequence numbers there are, 2^32 in the code
  MaxPackets    \* bound: how many packets the exchange sends

ASSUME ChannelAssumption ==
  /\ EndOfEvent \notin Securities
  /\ SeqNumSpan \in Nat \ {0}
  /\ MaxPackets \in Nat

VARIABLES
  packets,         \* packets[n] is the n-th packet of the incremental feed
  draft,           \* the packet the exchange is writing
  eventend,        \* eventend[i]: the versions of i at which an event ended
  expectedseqnum,  \* ChannelController::expectedseqnum_
  pkt, pos,        \* the packet being handled and the item in it, 0 when idle
  accepted,        \* history variable: the packets that passed the filter
  warned           \* history variable: the packet gap has been logged

marketVars  == <<packets, draft, eventend>>
cursorVars  == <<pkt, pos>>
filterVars  == <<expectedseqnum, accepted, warned>>
channelVars == <<controllerVars, marketVars, cursorVars, filterVars>>

\* An entry, as far as dispatch looks at it, or the end of an event.
Items == [sec : Securities, rptseq : Nat \ {0}]
           \cup {[sec |-> EndOfEvent, rptseq |-> 0]}
EventMark == [sec |-> EndOfEvent, rptseq |-> 0]

SeqNum(n) == n % SeqNumSpan
Idle      == pkt = 0
-----------------------------------------------------------------------------
(* The exchange: entries and ends of event fill packets.                   *)

AddEntry(i, kind) ==
  /\ PublishUpdate(i, kind)
  /\ draft' = Append(draft, [sec |-> i, rptseq |-> LastRptSeq(i) + 1])
  /\ UNCHANGED <<packets, eventend, cursorVars, filterVars>>

\* An event has entries: in this packet, or at the end of the one before.
EndEvent ==
  /\ IF draft # << >> THEN draft[Len(draft)] # EventMark
     ELSE packets # << >> /\ LET last == packets[Len(packets)]
                             IN  last[Len(last)] # EventMark
  /\ draft' = Append(draft, EventMark)
  /\ eventend' = [i \in Securities |-> eventend[i] \cup {LastRptSeq(i)}]
  /\ UNCHANGED <<controllerVars, packets, cursorVars, filterVars>>

SendPacket ==
  /\ draft # << >> /\ Len(packets) < MaxPackets
  /\ packets' = Append(packets, draft)
  /\ draft' = << >>
  /\ UNCHANGED <<controllerVars, eventend, cursorVars, filterVars>>
-----------------------------------------------------------------------------
(* The channel.                                                            *)

SubscribeInstrument(i) ==
  /\ Idle
  /\ Subscribe(i)
  /\ UNCHANGED <<marketVars, cursorVars, filterVars>>

\* Mutant: no filter.
AcceptPacket_Any(n) ==
  /\ expectedseqnum' = (SeqNum(n) + 1) % SeqNumSpan
  /\ accepted' = accepted \cup {n}
  /\ pkt' = n
  /\ pos' = 1

\* OnIncrementalPacket: the filter, then the loop over the messages.  The
\* log condition of the last lines is evaluated after expectedseqnum_ moved.
AcceptPacket(n) ==
  /\ SeqNum(n) >= expectedseqnum \/ expectedseqnum = 0
  /\ expectedseqnum' = (SeqNum(n) + 1) % SeqNumSpan
  /\ accepted' = accepted \cup {n}
  /\ pkt' = n
  /\ pos' = 1

RejectPacket(n) ==
  /\ ~(SeqNum(n) >= expectedseqnum \/ expectedseqnum = 0)
  /\ UNCHANGED <<expectedseqnum, accepted, cursorVars>>

OnIncrementalPacket(n) ==
  /\ Idle
  /\ joined \cap IncrementalReceivers # {}
  /\ AcceptPacket(n) \/ RejectPacket(n)
  /\ warned' = (warned \/ SeqNum(n) > expectedseqnum')
  /\ UNCHANGED <<controllerVars, marketVars>>

\* HandleIncrementalMessage, an entry or an end of event at a time.
CurrentItem == packets[pkt][pos]

\* Mutant: one item too many.
NextItem_Beyond ==
  IF pos <= Len(packets[pkt]) THEN pos' = pos + 1 /\ pkt' = pkt
                              ELSE pos' = 0 /\ pkt' = 0

NextItem ==
  IF pos < Len(packets[pkt]) THEN pos' = pos + 1 /\ pkt' = pkt
                             ELSE pos' = 0 /\ pkt' = 0

HandleEntry ==
  /\ ~Idle
  /\ \E i \in Securities :
       /\ CurrentItem.sec = i
       /\ OnIncremental(i, CurrentItem.rptseq)
  /\ NextItem
  /\ UNCHANGED <<marketVars, filterVars>>

HandleEndOfEvent ==
  /\ ~Idle
  /\ CurrentItem.sec = EndOfEvent
  /\ Commit
  /\ NextItem
  /\ UNCHANGED <<marketVars, filterVars>>

\* OnSnapshotPacket, with one SnapshotFullRefresh38.  A snapshot may be as
\* old as the carousel is slow, and packets that were received before Leave
\* closed the socket are still handled after it, so no guard asks for the
\* feed.  A snapshot that OnSnapshot ignores is a stuttering step.
OnSnapshotPacket(i, s) ==
  /\ Idle
  /\ OnSnapshot(i, s)
  /\ UNCHANGED <<marketVars, cursorVars, filterVars>>
-----------------------------------------------------------------------------
ChannelInit ==
  /\ ControllerInit
  /\ packets  = << >>
  /\ draft    = << >>
  /\ eventend = [i \in Securities |-> {0}]
  /\ expectedseqnum = 0
  /\ pkt = 0
  /\ pos = 0
  /\ accepted = {}
  /\ warned = FALSE

ChannelNext ==
  \/ \E i \in Securities, kind \in Kinds : AddEntry(i, kind)
  \/ EndEvent
  \/ SendPacket
  \/ \E i \in Securities : SubscribeInstrument(i)
  \/ \E n \in 1 .. Len(packets) : OnIncrementalPacket(n)
  \/ HandleEntry
  \/ HandleEndOfEvent
  \/ \E i \in Securities : \E s \in 0 .. LastRptSeq(i) : OnSnapshotPacket(i, s)

ChannelSpec == ChannelInit /\ [][ChannelNext]_channelVars

(* The loop over a packet runs to its end, and the exchange repeats the    *)
(* snapshots of all securities for as long as the session lasts, so one    *)
(* that is up to date gets through to a receiver that stays joined.        *)
(* Nothing is assumed of the incremental feed.                             *)
FreshSnapshot(i) ==
  /\ IsSnapshotFeedActive
  /\ OnSnapshotPacket(i, LastRptSeq(i))

Fairness ==
  /\ WF_channelVars(HandleEntry)
  /\ WF_channelVars(HandleEndOfEvent)
  /\ \A i \in Securities : SF_channelVars(FreshSnapshot(i))

FairChannelSpec == ChannelSpec /\ Fairness
-----------------------------------------------------------------------------
(* Properties.                                                             *)

(* The type of every variable this module adds.                            *)
ChannelTypeOK ==
  /\ TypeOK
  /\ packets  \in Seq(Seq(Items))
  /\ draft    \in Seq(Items)
  /\ eventend \in [Securities -> SUBSET Nat]
  /\ expectedseqnum \in 0 .. SeqNumSpan - 1
  /\ pkt \in 0 .. Len(packets)
  /\ IF pkt = 0 THEN pos = 0 ELSE pos \in 1 .. Len(packets[pkt])
  /\ accepted \subseteq 1 .. Len(packets)
  /\ warned \in BOOLEAN

(* Once out of sync, a controller returns to SYNC only by a snapshot: the  *)
(* branch of OnIncremental that would fill the gap from the incremental    *)
(* feed is dead, because the packet filter never lets an older packet      *)
(* through (as long as the 32-bit sequence numbers do not wrap).           *)
OnlySnapshotRecovers ==
  [][\A i \in Securities :
       state[i] = "OUTOFSYNC" /\ state'[i] = "SYNC" => Idle]_channelVars

\* Update r of i was sent in a packet that was lost, or came too late to
\* pass the filter, while a later one passed it.
Missed(i, r) ==
  \E n \in 1 .. Len(packets), m \in accepted :
    /\ n < m /\ n \notin accepted
    /\ \E k \in 1 .. Len(packets[n]) :
         packets[n][k] = [sec |-> i, rptseq |-> r]

(* Listeners never see the middle of an event, even if the event is spread *)
(* over packets, the channel was joined half-way through it, or snapshots  *)
(* ran ahead of the incremental feed.  If an end of event is lost, the     *)
(* Commit of the next one shows books as they stood in between; but only   *)
(* a book whose own next update was lost as well can be half-way through   *)
(* an event, so a loss never shows in the books of another instrument.     *)
EventAtomicity ==
  \A i \in Securities :
    \/ quote[i].version \in eventend[i]
    \/ Missed(i, quote[i].version + 1)

\* Update r of i has been through the filter and the handlers.
Handled(i, r) ==
  \E n \in accepted : \E k \in 1 .. Len(packets[n]) :
    /\ n = pkt => k < pos
    /\ packets[n][k] = [sec |-> i, rptseq |-> r]

(* A controller in SYNC whose books were last changed by an entry has      *)
(* caught up: no update it was ever handed is later than its books, be it  *)
(* one it discarded while it waited for a snapshot or one in a packet that *)
(* came twice.  Only while its books are those of a snapshot may it lag    *)
(* behind what it was handed: SYNC then means no more than that the        *)
(* snapshot was newer than the books it replaced.                          *)
SyncIsCaughtUp ==
  \A i \in Securities : state[i] = "SYNC" /\ ~silent[i] =>
    \A r \in 1 .. LastRptSeq(i) : Handled(i, r) => r <= processed[i]

(* Every controller that waits for a snapshot is in sync again.            *)
RecoveryCompletes ==
  \A i \in Securities :
    state[i] \in {"INITIAL", "OUTOFSYNC"} ~> state[i] = "SYNC"

(* With finitely many updates the snapshot feed is left for good.          *)
SnapshotFeedReleased == <>[](~IsSnapshotFeedActive)

(* InstrumentController.h:51 says of an update with RptSeq 1 that reaches  *)
(* an INITIAL controller: start of session, no recovery required.          *)
StartOfSessionSyncs ==
  [][\A i \in Securities :
       ~Idle /\ <<pkt', pos'>> # <<pkt, pos>>
         /\ CurrentItem = [sec |-> i, rptseq |-> 1] /\ state[i] = "INITIAL"
         => state'[i] = "SYNC"]_channelVars

(* ChannelController.cpp:84 announces every packet gap in the log.         *)
GapIsLogged ==
  (\E n \in accepted : \E m \in accepted : \E k \in m .. n : k \notin accepted)
    => warned
=============================================================================
