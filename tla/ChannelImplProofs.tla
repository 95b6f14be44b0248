-------------------------- MODULE ChannelImplProofs --------------------------
(***************************************************************************)
(* Theorems about ChannelImpl.  Its two halves meet in two places only:    *)
(* the thread they share, and the loop over the pending symbols.  So each  *)
(* half goes its way as if the other were not there, and what is proved    *)
(* about it alone is true of the whole.                                    *)
(***************************************************************************)
EXTENDS ChannelImpl, ChannelControllerProofs

DownloadProofs ==
  INSTANCE SymbolControllerProofs
  WITH state <- download, expectedseqnum <- downloadseqnum, pos <- definition,
       joined <- instrumentfeed

LEMMA ImplStep ==
  ASSUME [ImplNext]_implVars
  PROVE  [ChannelNext]_channelVars
<1>1. ASSUME NEW i \in Securities, ResolveSymbol(i)
      PROVE  ChannelNext
  BY <1>1 DEF ResolveSymbol, ChannelNext
<1>2. ASSUME NEW n \in 1 .. Len(packets), OnIncrementals(n)
      PROVE  ChannelNext
  BY <1>2 DEF OnIncrementals, ChannelNext
<1>3. ASSUME NEW i \in Securities, NEW s \in 0 .. LastRptSeq(i), OnSnapshots(i, s)
      PROVE  ChannelNext
  BY <1>3 DEF OnSnapshots, ChannelNext
<1>4. CASE PublishIncremental
  BY <1>4 DEF PublishIncremental, ChannelNext
<1>5. CASE HandleItem
  BY <1>5 DEF HandleItem, ChannelNext
<1>6. ASSUME NEW symbol \in Symbols, Subscription(symbol)
      PROVE  UNCHANGED channelVars
  BY <1>6 DEF Subscription
<1>7. ASSUME NEW feed \in Download!Feeds, OnDefinitions(feed)
      PROVE  UNCHANGED channelVars
  BY <1>7 DEF OnDefinitions
<1>8. CASE PublishDefinitions \/ HandleDefinition
  BY <1>8 DEF PublishDefinitions, HandleDefinition
<1>9. CASE UNCHANGED implVars
  BY <1>9 DEF implVars
<1> QED
  BY <1>1, <1>2, <1>3, <1>4, <1>5, <1>6, <1>7, <1>8, <1>9 DEF ImplNext

(* The market data side of a channel is a run of ChannelController.        *)
LEMMA MarketDataGoesItsWay == ImplSpec => ChannelSpec
<1>1. ImplInit => ChannelInit
  BY DEF ImplInit
<1>2. [ImplNext]_implVars => [ChannelNext]_channelVars
  BY ImplStep
<1> QED
  BY <1>1, <1>2, PTL DEF ImplSpec, ChannelSpec

(* Hence books are published books, however the download goes,             *)
THEOREM ImplBooksArePublished == ImplSpec => []BookIsPublished
  BY MarketDataGoesItsWay, ChannelBooksArePublished

(* the snapshot feed is joined exactly while a controller waits,           *)
THEOREM ImplFeedIsHeldForRecovery == ImplSpec => []FeedServesRecovery
  BY MarketDataGoesItsWay, ChannelFeedIsHeldForRecovery

(* and listeners see ends of events only, but for the books of an          *)
(* instrument whose own next update was missed.                            *)
THEOREM ImplEventsAreAtomic == ASSUME NoWrap PROVE ImplSpec => []EventAtomicity
  BY MarketDataGoesItsWay, EventsAreAtomic

(* A controller that waits is brought back by a snapshot, also where the   *)
(* last definition has just made it and its first packets race the         *)
(* resolution of the other symbols.                                        *)
THEOREM ImplOnlySnapshotsRecover == ASSUME NoWrap PROVE ImplSpec => OnlySnapshotRecovers
  BY MarketDataGoesItsWay, OnlySnapshotsRecover

(* and once an entry has followed the snapshot, the controller is not      *)
(* behind any update it was handed, those included that it discarded while *)
(* the symbols were being resolved.                                        *)
THEOREM ImplEditedMeansCaughtUp == ASSUME NoWrap PROVE ImplSpec => []SyncIsCaughtUp
  BY MarketDataGoesItsWay, EditedMeansCaughtUp

(* The whole channel keeps the promise of Replica: from the symbol on, to  *)
(* whoever listens, every instrument is a replica of the exchange's book   *)
(* that moves forward only and is shown as it is.                          *)
THEOREM ImplKeepsThePromise == ImplSpec => ImplementsReplica
<1>1. ImplSpec => ChannelSpec
  BY MarketDataGoesItsWay
<1>2. ImplSpec => ControllerSpec
  BY <1>1, ChannelIsAnEnvironment
<1> QED  BY <1>2, Refinement

\* The packet on the wire is one of the cycle.
WireOK == current \in 1 .. Packets

LEMMA WireIsOK == ImplSpec => []WireOK
<1> USE DEF WireOK
<1>0. Packets \in Nat \ {0}
  BY ImplAssumption DEF Download!DownloadAssumption, Download!CarouselAssumption
<1>1. ImplInit => WireOK
  BY <1>0 DEF ImplInit, Download!CarouselInit
<1>2. ASSUME WireOK, [ImplNext]_implVars PROVE WireOK'
  <2>1. CASE Download!Transmit
    BY <1>0, <1>2, <2>1 DEF Download!Transmit, Download!After
  <2>2. ASSUME NEW feed \in Download!Feeds,
               Download!Lose(feed) \/ Download!Fail(feed)
        PROVE  WireOK'
    BY <1>2, <2>2 DEF Download!Lose, Download!Fail
  <2>3. ASSUME NEW feed \in Download!Feeds, OnDefinitions(feed) PROVE WireOK'
    BY <1>2, <2>3 DEF OnDefinitions, Download!Deliver
  <2>4. ASSUME NEW symbol \in Symbols, Subscription(symbol)
        PROVE  UNCHANGED current
    BY <2>4 DEF Subscription, Download!Request, Download!feedVars
  <2>5. CASE HandleDefinition
    BY <1>2, <2>5 DEF HandleDefinition, Download!Handle, Download!feedVars
  <2>6. ASSUME \/ PublishIncremental \/ HandleItem \/ UNCHANGED implVars
               \/ \E i \in Securities : ResolveSymbol(i)
               \/ \E n \in 1 .. Len(packets) : OnIncrementals(n)
               \/ \E i \in Securities : \E s \in 0 .. LastRptSeq(i) : OnSnapshots(i, s)
        PROVE  UNCHANGED current
    BY <2>6 DEF PublishIncremental, HandleItem, implVars, downloadVars,
                ResolveSymbol, OnIncrementals, OnSnapshots
  <2> QED
    BY <1>2, <2>1, <2>2, <2>3, <2>4, <2>5, <2>6 DEF ImplNext, PublishDefinitions
<1> QED
  BY <1>1, <1>2, PTL DEF ImplSpec

LEMMA DownloadStep ==
  ASSUME WireOK, [ImplNext]_implVars
  PROVE  [Download!SymbolNext]_(Download!symbolVars)
<1> USE DEF Download!symbolVars, Download!downloadVars, Download!channelVars
<1>1. ASSUME NEW symbol \in Symbols, Subscription(symbol)
      PROVE  Download!SymbolNext
  BY <1>1 DEF Subscription, Download!Request, Download!SymbolNext
<1>2. ASSUME NEW feed \in Download!Feeds, OnDefinitions(feed)
      PROVE  Download!SymbolNext \/ UNCHANGED Download!symbolVars
  <2>1. Download!OnInstrumentPacket(Download!Carried(feed))
    BY <1>2 DEF OnDefinitions, Download!Deliver
  <2>2. Download!Carried(feed) \in 1 .. Packets
    BY ImplAssumption DEF WireOK, Download!Carried, Download!Before,
       Download!DownloadAssumption, Download!CarouselAssumption
  <2> QED
    BY <2>1, <2>2 DEF Download!SymbolNext
<1>3. CASE HandleDefinition
  BY <1>3 DEF HandleDefinition, Download!Handle, Download!SymbolNext
<1>4. CASE PublishDefinitions
  BY <1>4 DEF PublishDefinitions, Download!Transmit, Download!Lose,
     Download!Fail
<1>5. CASE PublishIncremental \/ HandleItem \/ UNCHANGED implVars
  BY <1>5 DEF PublishIncremental, HandleItem, implVars, downloadVars
<1>6. ASSUME NEW i \in Securities, ResolveSymbol(i)
      PROVE  UNCHANGED Download!symbolVars
  BY <1>6 DEF ResolveSymbol, downloadVars
<1>7. ASSUME NEW n \in 1 .. Len(packets), OnIncrementals(n)
      PROVE  UNCHANGED Download!symbolVars
  BY <1>7 DEF OnIncrementals, downloadVars
<1>8. ASSUME NEW i \in Securities, NEW s \in 0 .. LastRptSeq(i), OnSnapshots(i, s)
      PROVE  UNCHANGED Download!symbolVars
  BY <1>8 DEF OnSnapshots, downloadVars
<1> QED
  BY <1>1, <1>2, <1>3, <1>4, <1>5, <1>6, <1>7, <1>8 DEF ImplNext

(* The download side of a channel is a run of SymbolController.            *)
LEMMA DownloadGoesItsWay == ImplSpec => Download!SymbolSpec
<1>1. ImplInit => Download!SymbolInit
  BY DEF ImplInit, Download!CarouselInit
<1>2. WireOK /\ [ImplNext]_implVars => [Download!SymbolNext]_(Download!symbolVars)
  BY DownloadStep
<1> QED
  BY <1>1, <1>2, WireIsOK, PTL DEF ImplSpec, Download!SymbolSpec

LEMMA DownloadIsSound == DownloadProofs!DownloadAssumption
  BY ImplAssumption DEF DownloadProofs!DownloadAssumption, Download!DownloadAssumption

\* The instance with the theorems and the instance without say the same.
LEMMA SameDownload ==
  /\ Download!SymbolInit <=> DownloadProofs!SymbolInit
  /\ [Download!SymbolNext]_(Download!symbolVars)
       <=> [DownloadProofs!SymbolNext]_(DownloadProofs!symbolVars)
  /\ Download!SymbolTypeOK <=> DownloadProofs!SymbolTypeOK
  /\ Download!DirectoryComplete <=> DownloadProofs!DirectoryComplete
  /\ Download!RequestsResolved <=> DownloadProofs!RequestsResolved
BY DEF
  Download!SymbolInit, Download!SymbolNext, Download!symbolVars,
  Download!downloadVars, Download!channelVars, Download!Idle,
  Download!Subscribe, Download!GetInstrument, Download!StopInstrumentFeed,
  Download!HandleDefinition, Download!DownloadComplete,
  Download!NextDefinition, Download!StartDownload, Download!ContinueDownload,
  Download!SkipDefinition, Download!OnInstrument, Download!ResetState,
  Download!AcceptPacket, Download!StartAgain, Download!IgnorePacket,
  Download!OnInstrumentPacket, Download!DirectoryComplete,
  Download!IsDirectory, Download!Live, Download!RequestsResolved,
  Download!SymbolTypeOK,
  DownloadProofs!SymbolInit, DownloadProofs!SymbolNext,
  DownloadProofs!symbolVars, DownloadProofs!downloadVars,
  DownloadProofs!channelVars, DownloadProofs!Idle, DownloadProofs!Subscribe,
  DownloadProofs!GetInstrument, DownloadProofs!StopInstrumentFeed,
  DownloadProofs!HandleDefinition, DownloadProofs!DownloadComplete,
  DownloadProofs!NextDefinition, DownloadProofs!StartDownload,
  DownloadProofs!ContinueDownload, DownloadProofs!SkipDefinition,
  DownloadProofs!OnInstrument, DownloadProofs!ResetState,
  DownloadProofs!AcceptPacket, DownloadProofs!StartAgain,
  DownloadProofs!IgnorePacket, DownloadProofs!OnInstrumentPacket,
  DownloadProofs!DirectoryComplete, DownloadProofs!IsDirectory,
  DownloadProofs!Live, DownloadProofs!RequestsResolved,
  DownloadProofs!SymbolTypeOK

LEMMA DownloadTheorems ==
  Download!SymbolSpec => [](/\ Download!SymbolTypeOK
                            /\ Download!DirectoryComplete
                            /\ Download!RequestsResolved)
<1>1. DownloadProofs!SymbolSpec => []DownloadProofs!SymbolTypeOK
  BY DownloadProofs!SymbolTypeCorrect, DownloadIsSound
<1>2. DownloadProofs!SymbolSpec => []DownloadProofs!DirectoryComplete
  BY DownloadProofs!DownloadedIsComplete, DownloadIsSound
<1>3. DownloadProofs!SymbolSpec => []DownloadProofs!RequestsResolved
  BY DownloadProofs!RequestsAreResolved, DownloadIsSound
<1> QED
  BY <1>1, <1>2, <1>3, SameDownload, PTL
  DEF Download!SymbolSpec, DownloadProofs!SymbolSpec
-----------------------------------------------------------------------------
(* Controllers and requests.                                               *)

\* A handler neither makes nor drops a controller, and without one it leaves
\* the feeds alone.
LEMMA HandlersKeepControllers ==
  ASSUME TypeOK, NEW i \in Securities,
         \/ \E r \in 1 .. LastRptSeq(i) : OnIncremental(i, r)
         \/ \E s \in 0 .. LastRptSeq(i) : OnSnapshot(i, s)
  PROVE  /\ \A j \in Securities : state'[j] = "ABSENT" <=> state[j] = "ABSENT"
         /\ joined' = joined \/ \E j \in Securities : state[j] # "ABSENT"
<1>1. ASSUME NEW new \in {"SYNC", "OUTOFSYNC"}, state[i] # "ABSENT", SwitchState(i, new)
      PROVE  \A j \in Securities : state'[j] = "ABSENT" <=> state[j] = "ABSENT"
  BY <1>1 DEF SwitchState, TypeOK
<1>2. ASSUME NEW r \in 1 .. LastRptSeq(i), OnIncremental(i, r)
      PROVE  \/ UNCHANGED <<state, feedVars>>
             \/ \E new \in {"SYNC", "OUTOFSYNC"} :
                  state[i] # "ABSENT" /\ SwitchState(i, new)
  BY <1>2 DEF OnIncremental, ApplyNext, DetectGap, FillGap, StartOfSession, Discard
<1>3. ASSUME NEW s \in 0 .. LastRptSeq(i), OnSnapshot(i, s)
      PROVE  \/ UNCHANGED <<state, feedVars>>
             \/ \E new \in {"SYNC", "OUTOFSYNC"} :
                  state[i] # "ABSENT" /\ SwitchState(i, new)
  BY <1>3 DEF OnSnapshot, Recover, FastForward
<1> QED
  BY <1>1, <1>2, <1>3 DEF feedVars

\* A controller is one of a security subscribed to, and the feeds wait for it.
ControllersOK ==
  /\ \A i \in Securities : state[i] # "ABSENT" <=> i \in subscribed /\ i \notin resolving
  /\ resolving \subseteq subscribed
  /\ subscribed \subseteq Securities
  /\ joined # {} => \E i \in Securities : state[i] # "ABSENT"

\* What GetInstrument returns is a security of the channel.
LEMMA DirectorySecurities ==
  ASSUME Download!SymbolTypeOK,
         \A s \in Symbols : instruments[s] \in Securities,
         [Download!SymbolNext]_(Download!symbolVars)
  PROVE  \A s \in Symbols : instruments'[s] \in Securities
<1>1. /\ \A k \in 1 .. Len(Definitions) : Definitions[k].securityid \in Securities
      /\ 0 \in Securities
  <2>1. DOMAIN Definitions = 1 .. Len(Definitions)
    BY ImplAssumption, LenProperties DEF Download!DownloadAssumption
  <2> QED
    BY <2>1, ImplAssumption DEF Unknown
<1>2. ASSUME Download!OnInstrument PROVE \A s \in Symbols : instruments'[s] \in Securities
  <2>1. definition \in 1 .. Len(Definitions)
    BY <1>2, ImplAssumption DEF Download!OnInstrument, Download!Idle,
       Download!SymbolTypeOK, Download!DownloadAssumption
  <2>2. CASE Download!HandleDefinition(Definitions[definition])
    <3> DEFINE d == Definitions[definition]
    <3>1. d.action \in {"Add", "Modify", "Delete"} /\ d.securityid \in Securities
      <4>1. d \in DownloadProofs!DefinitionRecords
        BY <2>1, DownloadProofs!CycleFacts, DownloadIsSound
      <4> QED
        BY <1>1, <2>1, <4>1 DEF DownloadProofs!DefinitionRecords
    <3>2. \A s \in Symbols : instruments'[s] \in {instruments[s], d.securityid, 0}
      BY <2>2, <3>1 DEF Download!HandleDefinition, Download!SymbolTypeOK
    <3> QED
      BY <1>1, <3>1, <3>2
  <2>3. CASE instruments' = instruments
    BY <2>3
  <2> QED
    BY <1>2, <2>2, <2>3 DEF Download!OnInstrument, Download!StartDownload,
       Download!ContinueDownload, Download!SkipDefinition
<1>3. ASSUME NEW n \in 1 .. Packets, Download!OnInstrumentPacket(n)
      PROVE  \A s \in Symbols : instruments'[s] \in Securities
  BY <1>1, <1>3 DEF Download!OnInstrumentPacket, Download!AcceptPacket,
     Download!StartAgain, Download!ResetState, Download!IgnorePacket,
     Download!symbolVars, Download!downloadVars
<1>4. ASSUME NEW s \in Symbols, Download!Subscribe(s)
      PROVE  UNCHANGED instruments
  BY <1>4 DEF Download!Subscribe, Download!downloadVars
<1> QED
  BY <1>2, <1>3, <1>4 DEF Download!SymbolNext, Download!symbolVars, Download!downloadVars
LEMMA DirectoryStaysSound ==
  ImplSpec => [](\A s \in Symbols : instruments[s] \in Securities)
<1> DEFINE Sound == \A s \in Symbols : instruments[s] \in Securities
<1>1. Download!SymbolInit => Sound
  BY ImplAssumption DEF Download!SymbolInit, Unknown
<1>2. Download!SymbolTypeOK /\ Sound /\ [Download!SymbolNext]_(Download!symbolVars)
        => Sound'
  BY DirectorySecurities
<1>3. ImplSpec => Download!SymbolSpec
  BY DownloadGoesItsWay
<1> QED
  BY <1>1, <1>2, <1>3, DownloadTheorems, PTL DEF Download!SymbolSpec

LEMMA ControllersInit == ImplInit => ControllersOK
  BY DEF ImplInit, ChannelInit, ControllerInit, Download!CarouselInit,
         Download!SymbolInit, ControllersOK

LEMMA ControllersStep ==
  ASSUME ControllersOK, TypeOK, Download!SymbolTypeOK,
         \A s \in Symbols : instruments'[s] \in Securities,
         [ImplNext]_implVars
  PROVE  ControllersOK'
<1> USE DEF ControllersOK
<1>1. ASSUME NEW i \in Securities, ResolveSymbol(i)
      PROVE  ControllersOK'
  <2>1. /\ state' = [state EXCEPT ![i] = "INITIAL"] /\ resolving' = resolving \ {i}
        /\ i \in resolving /\ UNCHANGED subscribed
    BY <1>1 DEF ResolveSymbol, SubscribeInstrument, Subscribe, downloadVars
  <2>2. state'[i] = "INITIAL" /\ \A j \in Securities \ {i} : state'[j] = state[j]
    BY <2>1 DEF TypeOK
  <2> QED
    BY <2>1, <2>2
<1>2. CASE HandleDefinition
  <2>1. resolving = {} /\ resolving' = subscribed' \ subscribed /\ UNCHANGED <<state, joined>>
    BY <1>2 DEF HandleDefinition, channelVars, controllerVars, feedVars
  <2>2. \/ UNCHANGED subscribed
        \/ Download!StopInstrumentFeed
    BY <1>2 DEF HandleDefinition, Download!Handle, Download!OnInstrument,
       Download!StartDownload, Download!ContinueDownload,
       Download!SkipDefinition, Download!channelVars
  <2>3. subscribed \subseteq subscribed' /\ subscribed' \subseteq Securities
    BY <2>2 DEF Download!StopInstrumentFeed, Download!GetInstrument,
       Download!SymbolTypeOK
  <2> QED
    BY <2>1, <2>3
<1>3. ASSUME UNCHANGED <<resolving, subscribed>>,
             \/ UNCHANGED <<state, joined>>
             \/ \E i \in Securities :
                  \/ \E r \in 1 .. LastRptSeq(i) : OnIncremental(i, r)
                  \/ \E s \in 0 .. LastRptSeq(i) : OnSnapshot(i, s)
      PROVE  ControllersOK'
  BY <1>3, HandlersKeepControllers
<1>4. CASE HandleItem
  <2>1. ASSUME NEW i \in Securities, OnIncremental(i, CurrentItem.rptseq)
        PROVE  \E r \in 1 .. LastRptSeq(i) : OnIncremental(i, r)
    BY <2>1 DEF OnIncremental
  <2> QED
    BY <1>3, <1>4, <2>1 DEF HandleItem, HandleEntry, HandleEndOfEvent, Commit,
       feedVars, downloadVars
<1>5. ASSUME NEW i \in Securities, NEW s \in 0 .. LastRptSeq(i), OnSnapshots(i, s)
      PROVE  ControllersOK'
  BY <1>3, <1>5 DEF OnSnapshots, OnSnapshotPacket, downloadVars
<1>6. ASSUME NEW n \in 1 .. Len(packets), OnIncrementals(n)
      PROVE  ControllersOK'
  BY <1>3, <1>6 DEF OnIncrementals, OnIncrementalPacket, downloadVars,
     controllerVars, feedVars
<1>7. CASE PublishIncremental
  BY <1>3, <1>7 DEF PublishIncremental, AddEntry, EndEvent, SendPacket,
     PublishUpdate, downloadVars, controllerVars, feedVars
<1>8. ASSUME \/ \E symbol \in Symbols : Subscription(symbol)
             \/ \E feed \in Download!Feeds : OnDefinitions(feed)
             \/ PublishDefinitions
             \/ UNCHANGED implVars
      PROVE  ControllersOK'
  <2>1. UNCHANGED <<state, joined, resolving>>
    BY <1>8 DEF Subscription, OnDefinitions, PublishDefinitions, implVars,
       channelVars, controllerVars, feedVars
  <2>2. UNCHANGED subscribed
    BY <1>8 DEF Subscription, OnDefinitions, PublishDefinitions, implVars,
       downloadVars, Download!Request, Download!Subscribe, Download!Deliver,
       Download!OnInstrumentPacket, Download!AcceptPacket, Download!StartAgain,
       Download!IgnorePacket, Download!Transmit, Download!Lose, Download!Fail,
       Download!symbolVars, Download!channelVars
  <2> QED
    BY <1>3, <2>1, <2>2
<1> QED
  BY <1>1, <1>2, <1>4, <1>5, <1>6, <1>7, <1>8 DEF ImplNext

LEMMA ImplInvariants ==
  ImplSpec => [](/\ ChannelTypeOK /\ ControllersOK
                 /\ Download!SymbolTypeOK /\ Download!RequestsResolved)
<1>1. ImplSpec => []ChannelTypeOK
  BY MarketDataGoesItsWay, ChannelTypeCorrect
<1>2. ImplSpec => [](Download!SymbolTypeOK /\ Download!RequestsResolved)
  BY DownloadGoesItsWay, DownloadTheorems, PTL
<1>3. ChannelTypeOK => TypeOK
  BY DEF ChannelTypeOK
<1>4. ControllersOK /\ TypeOK /\ Download!SymbolTypeOK
        /\ (\A s \in Symbols : instruments[s] \in Securities)'
        /\ [ImplNext]_implVars => ControllersOK'
  BY ControllersStep
<1> QED
  BY <1>1, <1>2, <1>3, <1>4, ControllersInit, DirectoryStaysSound, PTL DEF ImplSpec

(* Every variable of the channel keeps its type.                           *)
THEOREM ImplTypeCorrect == ImplSpec => []ImplTypeOK
<1>1. ChannelTypeOK /\ Download!SymbolTypeOK /\ ControllersOK => ImplTypeOK
  BY DEF ImplTypeOK, ControllersOK
<1> QED
  BY <1>1, ImplInvariants, PTL

(* No controller before the download is complete, and after it those of    *)
(* the instruments that were asked for in time.                            *)
THEOREM RequestsBecomeControllers == ImplSpec => []ControllersMatchRequests
<1>1. ControllersOK /\ Download!RequestsResolved => ControllersMatchRequests
  BY DEF ControllersOK, Download!RequestsResolved, ControllersMatchRequests
<1> QED
  BY <1>1, ImplInvariants, PTL

(* A directory that calls itself complete is complete.                     *)
THEOREM ImplDirectoryIsComplete == ImplSpec => []Download!DirectoryComplete
  BY DownloadGoesItsWay, DownloadTheorems, PTL
=============================================================================
