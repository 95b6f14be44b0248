----------------------------- MODULE ChannelImpl -----------------------------
(***************************************************************************)
(* subscriber/ChannelImpl: the channel as a whole.  It owns the receivers  *)
(* of three feeds, the SymbolController that downloads the definitions and *)
(* the ChannelController with its instrument controllers.  The market data *)
(* feeds are joined by what the download sets off: leaving the instrument  *)
(* feed resolves the symbols that were asked for, from inside the handler  *)
(* of the last definition, and each of them starts to recover.             *)
(*                                                                         *)
(* All handlers run on one thread, so while one of them is half-way        *)
(* through (a packet, or the symbols being resolved) no other starts.  The *)
(* exchange goes on publishing.                                            *)
(***************************************************************************)
EXTENDS ChannelController, FiniteSets

CONSTANTS
  Symbols, Definitions, Packets, Cut,  \* see SymbolController
  Lags, MaxLosses, MaxFailures,        \* see InstrumentCarousel
  MaxRequests                          \* bound: how many symbols are asked for

VARIABLES
  download,          \* SymbolController::state_
  downloadseqnum,    \* SymbolController::expectedseqnum_
  totalnumreports, processedreports, instruments,  \* see SymbolController
  definition,        \* the definition being handled, 0 when idle
  pendingsubscription, requested,                  \* see SymbolController
  subscribed,        \* the securities ChannelImpl::Subscribe was called for
  instrumentfeed,    \* the instrument receivers whose joined_ is TRUE
  lag, current, onwire, losses, failed,            \* see InstrumentCarousel
  resolving          \* the securities StopInstrumentFeed has yet to subscribe

Download ==
  INSTANCE InstrumentCarousel
  WITH state <- download, expectedseqnum <- downloadseqnum, pos <- definition,
       joined <- instrumentfeed

downloadVars == <<download, downloadseqnum, totalnumreports, processedreports,
                  instruments, definition, pendingsubscription, requested,
                  subscribed, instrumentfeed, lag, current, onwire, losses,
                  failed>>
implVars     == <<channelVars, downloadVars, resolving>>

Unknown == 0   \* the securityid of Instrument{}

ASSUME ImplAssumption ==
  /\ Download!DownloadAssumption
  /\ Download!CarouselAssumption
  /\ MaxRequests \in Nat
  /\ Securities = {Unknown} \cup {Definitions[k].securityid : k \in DOMAIN Definitions}

\* No handler is half-way through.
ThreadIdle == Idle /\ Download!Idle /\ resolving = {}
-----------------------------------------------------------------------------
(* The exchange.                                                           *)

PublishIncremental ==
  /\ \/ \E i \in Securities \ {Unknown}, kind \in Kinds : AddEntry(i, kind)
     \/ EndEvent
     \/ SendPacket
  /\ UNCHANGED <<downloadVars, resolving>>

\* While somebody has joined the feed to receive them.
PublishDefinitions ==
  /\ instrumentfeed # {}
  /\ \/ Download!Transmit
     \/ \E feed \in Download!Feeds : Download!Lose(feed) \/ Download!Fail(feed)
  /\ UNCHANGED <<channelVars, resolving>>
-----------------------------------------------------------------------------
(* The program.                                                            *)

\* Subscribe(std::string), called by the plugin.
Subscription(symbol) ==
  /\ ThreadIdle
  /\ Cardinality(requested \cup pendingsubscription \cup {symbol}) <= MaxRequests
  /\ Download!Request(symbol)
  /\ UNCHANGED <<channelVars, resolving>>

\* OnPacket, a packet of the instrument feed.
OnDefinitions(feed) ==
  /\ ThreadIdle
  /\ Download!Deliver(feed)
  /\ UNCHANGED <<channelVars, resolving>>

\* The loop over its messages.  The last definition missing leaves the
\* instrument feed and sets off the loop over the pending symbols.
HandleDefinition ==
  /\ resolving = {}
  /\ Download!Handle
  /\ resolving' = subscribed' \ subscribed
  /\ UNCHANGED channelVars

\* Subscribe(Instrument), once for each of them.
ResolveSymbol(i) ==
  /\ i \in resolving
  /\ resolving' = resolving \ {i}
  /\ SubscribeInstrument(i)
  /\ UNCHANGED downloadVars

\* OnPacket, a packet of the incremental feed, and the loop over its messages.
OnIncrementals(n) ==
  /\ ThreadIdle
  /\ OnIncrementalPacket(n)
  /\ UNCHANGED <<downloadVars, resolving>>

HandleItem ==
  /\ HandleEntry \/ HandleEndOfEvent
  /\ UNCHANGED <<downloadVars, resolving>>

\* OnPacket, a packet of the snapshot feed.
OnSnapshots(i, s) ==
  /\ ThreadIdle
  /\ i # Unknown
  /\ OnSnapshotPacket(i, s)
  /\ UNCHANGED <<downloadVars, resolving>>
-----------------------------------------------------------------------------
\* The constructor of the SymbolController joins the instrument feed.
ImplInit ==
  /\ ChannelInit
  /\ Download!CarouselInit
  /\ resolving = {}

ImplNext ==
  \/ PublishIncremental
  \/ PublishDefinitions
  \/ \E symbol \in Symbols : Subscription(symbol)
  \/ \E feed \in Download!Feeds : OnDefinitions(feed)
  \/ HandleDefinition
  \/ \E i \in Securities : ResolveSymbol(i)
  \/ \E n \in 1 .. Len(packets) : OnIncrementals(n)
  \/ HandleItem
  \/ \E i \in Securities : \E s \in 0 .. LastRptSeq(i) : OnSnapshots(i, s)

ImplSpec == ImplInit /\ [][ImplNext]_implVars

\* The handler that is half-way through runs on.
Continue == HandleDefinition \/ HandleItem \/ \E i \in Securities : ResolveSymbol(i)

(* What a handler has begun it ends; the definitions are sent for ever     *)
(* and, once MaxLosses copies are lost, arrive; the snapshot feed repeats  *)
(* the snapshots of every defined security.  Nothing is assumed of the     *)
(* incremental feed, nor that anybody asks for a symbol.                   *)
ImplFairness ==
  /\ WF_implVars(Continue)
  /\ WF_implVars(PublishDefinitions)
  /\ WF_implVars(\E feed \in Download!Feeds : OnDefinitions(feed))
  /\ \A i \in Securities \ {Unknown} :
       SF_implVars(IsSnapshotFeedActive /\ OnSnapshots(i, LastRptSeq(i)))

FairImplSpec == ImplSpec /\ ImplFairness
-----------------------------------------------------------------------------
(* Properties.                                                             *)

(* The type of every variable.                                             *)
ImplTypeOK ==
  /\ ChannelTypeOK
  /\ Download!SymbolTypeOK
  /\ subscribed \subseteq Securities
  /\ resolving \subseteq subscribed

(* A symbol resolved in the middle of a download, twice or not at all      *)
(* would show here: while the download runs there is no controller and no  *)
(* market data feed is joined; when it has ended and the loop over the     *)
(* pending symbols too, the controllers are those of the instruments asked *)
(* for in time, and the instrument feed is left.                           *)
ControllersMatchRequests ==
  LET controllers == {i \in Securities : state[i] # "ABSENT"}
  IN  IF download = "DOWNLOADED"
        THEN /\ controllers \cup resolving = {instruments[s] : s \in requested}
             /\ controllers \cap resolving = {}
             /\ instrumentfeed = {}
        ELSE controllers = {} /\ resolving = {} /\ joined = {}

(* From a name to a book: a symbol that was asked for before the download  *)
(* was complete and is defined gets a controller that is in sync, whatever *)
(* is lost of the three feeds meanwhile.  (For the exception see           *)
(* DownloadCompletes of InstrumentCarousel.)                               *)
RequestIsFollowed ==
  <>(lag = 0 \/ failed # {}) =>
    \A s \in Symbols :
      LET Follows == \E i \in Securities \ {Unknown} :
                       instruments[s] = i /\ state[i] = "SYNC"
      IN  Download!Live(Len(Definitions), s) # {} => (s \in requested ~> Follows)

(* In the end the snapshot feed is left for good, unless a symbol nobody   *)
(* defines was asked for: it is taken for security 0, whose controller     *)
(* waits for ever and keeps the feed joined on everybody's behalf.         *)
SnapshotFeedOutcome ==
  <>[](IsSnapshotFeedActive <=> Unknown \in subscribed)
=============================================================================
