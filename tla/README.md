# A verification of the CME MDP adapter

The adapter joins the multicast feeds of a CME market data channel, downloads the
instrument definitions, follows the order books of the instruments it was asked
for and passes every book to listeners (an Apama correlator, through
`connectivity_plugin.cpp`). Multicast loses, repeats and reorders packets; the
adapter recovers from a carousel of snapshots. This directory holds TLA+ modules
of the part of the program that has to get this right, TLC configurations that
check them on small instances and TLAPS proofs for every instance. `PROJECT.json`
maps every definition to the lines it models, and lists the runs, the theorems,
the hazards and, for every checked property, a mutation of the code that breaks it.

Source paths below are relative to `src/`.

## 1. The system

One `boost::asio` io_service, run by one thread, calls every handler, so a handler
is never interrupted by another one; what interleaves is the order in which packets
of six sockets arrive, and what the exchange does meanwhile.

| Component | State | Operations | Talks to |
|---|---|---|---|
| `subscriber/MulticastReceiver`, six per channel (incremental, snapshot, instrument × feeds A, B) | `joined_`, socket, one buffer and `Packet` | `Join`, `Leave`, `IsActive`, receive completion | calls `ChannelImpl::OnPacket`, which may `Join` or `Leave` any receiver, this one included |
| `subscriber/ChannelImpl` (with `Channel`, `ChannelContext`) | `pendingsubscription_`, listeners, the receivers and both controllers | `Subscribe(symbol)`, `Subscribe(instrument)`, start and stop of feeds, snapshot (un)subscription | dispatches packets by type; the controllers call back through `ChannelContext` |
| `subscriber/ChannelController` | `expectedseqnum_`, a controller per security, `outofsync_instruments_` | `OnIncrementalPacket`, `OnSnapshotPacket`, `Subscribe`, `Commit` | calls the instrument controllers |
| `subscriber/InstrumentController`, one per security | `state_` (INITIAL, SYNC, OUTOFSYNC), `processed_rptseq_` | `OnIncremental`, `OnSnapshot`, `OnChannelReset`, `Commit` | asks `ChannelImpl` to join and leave the snapshot feed; drives its `InstrumentMdHandler` |
| `subscriber/InstrumentMdHandler`, one per security | `book_`, `implbook_`, `statechange_`, statistics | applies entries, loads snapshots, `Commit` | edits the books, notifies listeners |
| `marketdata/DepthBook`, `DepthList` | two lists of price levels per book, `size_` | `Add`, `Update`, `Delete`, `DeleteFrom`, `DeleteThru`, `Clear` | none |
| `subscriber/SymbolController` | `state_` (INIT, DOWNLOADING, DOWNLOADED), `expectedseqnum_`, two counts, `instruments_` | `OnInstrumentPacket`, `GetInstrument` | leaves the instrument feed when done, which resolves the pending symbols |
| `subscriber/Packet`, `Message` | cursor in the receive buffer | `Reset`, `HasNextMessage`, `NextMessage`, `GetSeqNum` | SBE decoders |
| `connectivity_plugin.cpp` | handler, io_service, detached thread | `start`, `hostReady`, `shutdown` | runs the channel |
| `config/*`, `subscriber/MarketDataListener`, plain values in `marketdata/`, `main.cpp` | none that changes | read a file, print, carry values | |

Nothing in the program catches an exception. `Config::load` throws when the file
cannot be read; `Join` and `Leave` use the throwing forms of open, set_option, bind and
close. An exception leaves `io_service::run` in the detached thread (or a destructor),
`std::terminate` is called, and the host's process ends with all its sockets.

### What is hard, and what makes it correct

* **InstrumentController and its book.** Entries are lost, come twice (feeds A and B)
  and late; snapshots are older or newer than the incremental feed. Correct means: a
  book is always the exchange's book as of `processed_rptseq_`, listeners never
  see a mixture and are never taken back in time, and no change is kept from them.
* **The snapshot feed.** All instruments share one. It has to be joined while any of
  them waits and left otherwise, and every wait must end.
* **Packets and events.** An event of the exchange spreads over entries, messages and
  packets; listeners are told at its end. The packet filter drops the second copy
  of a packet, and its sequence number wraps.
* **The symbol download.** A cycle is complete when two counts agree. After a loss,
  what was taken has to be forgotten, counts and all, or the comparison lies.
  Symbols subscribed to meanwhile are resolved from inside the handler of the
  last definition.
* **Price levels.** Edits name levels, not orders; one wrong edit shifts every later
  one. A full list must drop exactly the level that is no longer published.
* **Receivers.** Each keeps itself going by a chain of receives that share one buffer;
  feeds are joined and left from inside completions. A receiver that says it is active
  has to be receiving, in one chain, with nothing handed on twice or late.
* **The channel.** From a symbol to a book in sync the program goes through a download,
  a resolution and a recovery. The first sets off the second from inside a packet,
  the second the third; each must find the others in the state it assumes.
* **Plugin.** A detached thread lives on its receives. It must not run out of work where
  the program leaves one feed for another, and must end, with every feed left, after a
  shutdown that may come at any time.

## 2. The modules

```
Exchange  <---- Replica                  (abstract: what listeners are promised)
   ^               ^
   |               | implements
InstrumentController <--- InstrumentControllerProofs
   ^                              ^
   | EXTENDS and implements       |
ChannelController  <----- ChannelControllerProofs
   ^                              ^
   | EXTENDS and implements       |
ChannelImpl  <----------- ChannelImplProofs
   | INSTANCE, and implements its SymbolSpec
   v
InstrumentCarousel ---> SymbolController <---- SymbolControllerProofs

DepthList <---- DepthBook <---- DepthBookProofs        Plugin <---- PluginProofs

MulticastReceiver <---- MulticastReceiverProofs        Packet <---- PacketProofs
```

`MC...` modules hold what TLC needs: symmetry sets, the definitions of a cycle, a bound on
the second list of a book.

**Exchange** (external) is what the handlers are written against: each security has a
numbered history of updates. A book is the sequence of the updates it was built
from, so that two books are equal only if they were built from the same updates in
the same order; prices are left to DepthList. An update is a book entry (`"Book"`),
a BookReset (`"Reset"`) or an entry of one of the other six templates (`"Other"`),
which use up a RptSeq and leave the book alone.

**Replica** is the abstract specification: a replica stands at a version, holds the
reference book of that version, moves forward only (or to the empty book of a
channel reset), and listeners are shown only what it holds.

**InstrumentController** models `InstrumentController`, the books and the listeners'
view of `InstrumentMdHandler`, and the two functions of `ChannelImpl` that join and
leave the snapshot feed.

| Variable | Code |
|---|---|
| `state`, `processed` | `state_` (`"ABSENT"`: no controller), `processed_rptseq_` |
| `book`, `statechange` | `book_` and `implbook_` together, `statechange_` |
| `quote` | what `OnQuote` was last given, with its version |
| `outofsync`, `joined` | `outofsync_instruments_`, the receivers whose `joined_` is true |
| `silent` | history variable, see QuoteCurrent |

The branches of `OnIncremental` are the actions ApplyNext, DetectGap, FillGap,
StartOfSession and Discard; those of `OnSnapshot` are Recover and FastForward (an
ignored snapshot is a stuttering step). `InstrumentMdHandler::Reset`, which DetectGap
and both snapshot branches call, is empty in the code. The order of `switchState`
and the load of the snapshot is not visible, since the thread runs the handler to its
end. `processed_rptseq_` and `statechange_` are uninitialised members: the
constructor gives them any value of `Indeterminate` and of BOOLEAN. The environment
is open: any published update and any snapshot may arrive at any time, any
number of times. `OnChannelReset` is an action here because the function is public;
nothing in the repository calls it, so ChannelController has no such step.

**ChannelController** puts the packet layer underneath: the exchange writes
entries and ends of events into packets (`packets`, `draft`), and
`OnIncrementalPacket(n)` may happen for any packet sent so far, in any order, never or
repeatedly. A packet is worked off an item at a time (`pkt`, `pos`) and nothing else
is handled until it is done, while the exchange may go on publishing.
`OnSnapshotPacket` asks for no joined feed: packets received before `Leave`
closed the socket are still handled. `accepted` and `warned` are history variables.

**DepthList** has the operations as operators and no RECURSIVE, so that they can
be proved about; a level is an `int` compared with a `size_t`, so that level 0 is
out of range. **DepthBook** drives them with the entries an exchange publishes when it
shows the best `Depth` levels of its books; a snapshot is loaded by one Add per level. The code's `DeleteFrom` removes levels
1 to n and `DeleteThru` level n and all behind it; `test/depthlist.cpp` says the same,
and the model follows the code.

**SymbolController** models the download and `ChannelImpl`'s pending subscriptions
with any packet of a cycle arriving at any time. `HandleDefinition` keeps what the
code does with Modify: it changes a copy. The second `HandlePacket` in
`subscriber/SymbolController.cpp:53` finds no message left in the packet and has no step.
**InstrumentCarousel** (external) sends the packets in cycles on two feeds and loses some.
The program joins in the middle of a cycle. Feed B is in step with A or a packet behind
(`lag`), and one of the two may fall silent for good (`failed`), as a receiver does
after a receive error.

**ChannelImpl** composes the two halves. It EXTENDS ChannelController and takes
InstrumentCarousel as an instance over its own variables.

| Variable | Code |
|---|---|
| `download`, `downloadseqnum`, `totalnumreports`, `processedreports`, `instruments` | `state_`, `expectedseqnum_`, the two counts and `instruments_` of the SymbolController |
| `definition` | the place in the packet `HandlePacket` is working off, 0 when idle |
| `pendingsubscription`, `requested` | `pendingsubscription_`; history: what was asked for in time |
| `subscribed`, `resolving` | history: what `Subscribe(Instrument)` was called for by `StopInstrumentFeed`, and which of these calls are still to come |
| `instrumentfeed` | the instrument receivers whose `joined_` is true |
| `lag`, `current`, `onwire`, `losses`, `failed` | the instrument feed, see InstrumentCarousel |

`OnPacket` is OnDefinitions, OnIncrementals and OnSnapshots. Each asks for ThreadIdle: no
packet is half-way through and no symbol is still to be resolved. The last definition
leaves the instrument feed and starts the loop over the pending symbols, one
ResolveSymbol each, which makes a controller and joins the market data feeds; the
exchange publishes in between. `GetInstrument` of a symbol that is not in the directory gives
`Instrument{}`, security 0, which is one of `Securities` here; the exchange never
publishes anything for it.

**Plugin** models `connectivity_plugin.cpp` and what keeps its thread alive. Receivers
are counted rather than their datagrams: a receiver has receives that wait and
handlers that are due, a handler leaves and joins feeds (FinishDownload, EndRecovery,
StartRecovery, KeepFeeds) and starts its next receive, all in Switch. A handler begins
(Handler) and ends (HandlerEnds) in two steps, because the host's thread may call
`shutdown` in between.

| Variable | Code |
|---|---|
| `pc` | where the thread is: not started, in `make_channel`, before `run`, in `run`, ended; or the process is terminated |
| `stopped`, `told` | the io_service was stopped; history: `shutdown` was called |
| `joined`, `receiving`, `ready`, `handling` | the receivers' `joined_`, receives, due handlers, and the handler that runs |
| `failed`, `late` | history: a receive failed since Join; handlers that ended after `shutdown` |

`hostReady` is called once, as the host does. `run` returns when the io_service is
stopped or has nothing to do, the channel is destroyed and `~MulticastReceiver` leaves
the feeds. `start` logs a line and has no action. An exception ends the process from three
places: MakeThrows, HandlerThrows (any handler: besides Join and Leave, the decoders and
the host's interface may throw) and RunReturns, for a `close` in a destructor.

**MulticastReceiver** models the receivers of one feed, which `ChannelImpl` joins and
leaves together, from a handler of another feed (StartFeed, StopFeed) or of their own
(HandleReceiveFromAndLeave).

| Variable | Code |
|---|---|
| `joined`, `data` | `joined_` (the socket is open just then), `data_` |
| `receiving`, `ready` | the receives that wait on the socket, the handlers that are due |
| `arrived`, `inbox` | datagrams sent to the receiver, those in its socket |
| `handed`, `failed`, `overlapped` | history: what `callback_` was given; whether a receive failed since Join; whether Join met a handler due from before Leave |

asio is external. A completed receive fills `data_` at once, its handler runs later;
`close` cancels receives that wait, but not handlers that are due. A handler that
gets an error because of `close` does nothing and has no step; one that gets any other
error ends the chain (HandleError). An exception of Join or Leave ends the process and empties
the receivers (Terminate, with the variable `terminated`); since it may come at any moment, that of a Leave
inside the callback is the step that follows HandleReceiveFrom. The destructor runs after the event loop and is in Plugin.

**Packet** models the cursor of `Packet` and `Message` over a receiver's buffer, and the
loop of `OnIncrementalPacket` that moves it. `data` is the set of messages that begin in
the buffer: a datagram replaces those in front of its end, and the rest stay. A datagram has
messages of different lengths, or none at all, or is shorter than its header (`ShortLengths`);
in the last two cases `Reset` keeps the number of the one before, and with the last `processed_`
lies behind `received_`. The datagrams are well-formed: each size field holds the size of its message.

| Variable | Code |
|---|---|
| `sent` | the datagrams of the exchange: where each message is, and its size; all fit into `data_` (`MaxLength` for `max_length`) |
| `data`, `seqnum`, `received`, `processed` | `data_`, `seqnum_`, `received_`, `processed_`, per receiver |
| `reader`, `expectedseqnum` | the receiver whose packet is in the loop; `expectedseqnum_` |
| `handed` | history: the messages `OnIncrementalMessage` was given |

ChannelController and SymbolController take from it that a packet is a sequence of items.

## 3. The runs

| Run | Question | Bounds |
|---|---|---|
| `controller` | TypeOK, BookIsPublished, QuoteIsPublished, FeedServesRecovery, QuoteCurrent, QuoteForward, ImplementsReplica under the open environment | 2 securities, 5 updates of every kind in all, `processed_rptseq_` starting at 0 or 7 |
| `channel_pair` | ChannelTypeOK, EventAtomicity, SyncIsCaughtUp, OnlySnapshotRecovers | 2 securities, 3 updates in all, 4 packets |
| `channel_live` | RecoveryCompletes, SnapshotFeedReleased, while packet numbers wrap | 2 securities, 2 updates in all, 4 packets, 3 packet numbers |
| `channel_session` | finding: StartOfSessionSyncs is violated | 1 security |
| `channel_gaplog` | finding: GapIsLogged is violated | 1 security |
| `depth_books` | TypeOK, AlwaysSorted, MirrorsTheBook, EveryEntryTakes | a list of 4 prices and 2 quantities and one of the other book with one level, depth 2, 3 entries behind |
| `packet_cursor` | PacketTypeOK, CursorOnMessage, HandedWhole, ShortsMoveNothing | 2 receivers, 3 datagrams of up to 2 messages of 2 sizes, and any number without messages, whole headers or parts of one |
| `symbol_download` | SymbolTypeOK, DirectoryComplete, RequestsResolved | 7 definitions in 5 packets, two of them empty |
| `carousel_live` | DownloadCompletes | 3 definitions in 3 packets, feeds in step or a packet apart, 3 lost copies, 1 failing feed |
| `impl_channel` | ImplTypeOK, ControllersMatchRequests, RequestIsFollowed, SnapshotFeedOutcome | one instrument added, deleted and added again in 3 packets, one symbol nobody defines, feeds a packet apart until one fails, 2 updates, 2 packets |
| `plugin` | PluginTypeOK, OnePacketAfterShutdown, EndsToldDeafOrThrown, ShutdownReleasesFeeds | 6 receivers, 2 recoveries after the first |
| `receivers` | ReceiverTypeOK, ActiveReceives, OneChain, HandedInOrder, InboxIsEmptied | 2 receivers, 3 datagrams each, joined and left without bound |

What the properties say, in a line each:

* **BookIsPublished**: whatever is lost, repeated or reordered, a book is the
  exchange's book as of `processed_rptseq_`, in SYNC and OUTOFSYNC alike.
* **QuoteIsPublished, QuoteForward**: listeners hold some version of the exchange's
  book, no later than the controller's, and are never taken back in time.
* **QuoteCurrent**: a controller with no pending change has shown the books it holds,
  except after a snapshot or a BookReset. `ClearState` ends both with `statechange_`
  false, so that the new books wait for the next entry; `silent` marks this. The property
  says that this is the only such case, not that it is none.
* **FeedServesRecovery**: `outofsync_instruments_` is the set of controllers that wait,
  and both snapshot receivers are joined exactly while it is not empty.
* **EventAtomicity**: `Commit` shows ends of events only, also if snapshots ran ahead or
  the feed was joined in the middle of an event. When the packet with an end of event
  is lost, the next `Commit` shows books as they stand; then a book in the middle
  of an event can only be one whose own next entry was lost too.
* **OnlySnapshotRecovers**: the branch of `OnIncremental` that would fill a gap from
  the incremental feed is dead behind the packet filter.
* **SyncIsCaughtUp**: a controller in sync whose books were last changed by an entry is behind
  nothing it was ever handed: neither what it discarded while it waited, nor what came twice.
  A snapshot alone does not promise that. It may be newer than the controller and older
  than what was discarded; then the controller is in SYNC and behind, with the feed left,
  until the next entry shows the gap.
* **RecoveryCompletes, SnapshotFeedReleased**: every wait for a snapshot ends, and the
  feed is left for good when the updates end.
* **MirrorsTheBook, AlwaysSorted, EveryEntryTakes**: when no entry is outstanding a list
  is the visible part of the exchange's book; it is in order in between; no entry
  of a loss-free stream is refused.
* **DirectoryComplete, RequestsResolved**: a download that calls itself complete took every
  definition once and in order; the symbols asked for in time have the right
  controllers, then and not before.
* **DownloadCompletes**: the download ends, wherever in the cycle it begins, whatever is
  lost and if a feed fails, unless both feeds live on and apart. That exception is
  real: without it TLC finds two feeds that are a packet apart for ever, where packet N on
  B, after packet 1 on A, looks like a gap in every cycle.
* **ActiveReceives, InboxIsEmptied**: a receiver that is joined has a receive waiting or a
  handler due, unless a receive failed, and what arrives is taken.
* **ControllersMatchRequests**: in the whole channel there is no controller and no market
  data feed before the download is complete; then there are the controllers of the
  symbols asked for in time and no others, and the instrument feed is left.
* **RequestIsFollowed**: a symbol that was asked for in time and is defined gets a
  controller that is in sync. The run loses packets of the incremental and snapshot feeds at
  will and one of the two instrument feeds for good, which may come in the middle of a cycle;
  single copies of definitions are lost in `carousel_live`.
* **SnapshotFeedOutcome**: in the end the snapshot feed is left for good if and only if no
  unknown symbol was asked for. Security 0 keeps it joined for ever.
* **EndsToldDeafOrThrown**: the thread leaves `io_service::run` because the host said so, because
  every joined receiver failed, or with the process, when a handler threw; never because a
  switch of feeds left no work.
* **OnePacketAfterShutdown, ShutdownReleasesFeeds**: after `shutdown` the host hears of one
  packet at most, and the thread ends with all feeds left, also if `shutdown` came
  before `hostReady` or in the middle of a packet that joins a feed.
* **CursorOnMessage**: the loop over a packet reads a message of the datagram just received,
  never what a longer one left behind it.
* **HandedWhole**: from the copies on A and B the channel is handed whole datagrams, in
  order and once each.
* **ShortsMoveNothing**: a datagram without messages shows the filter the number of an earlier
  one, and changes nothing about which packets pass; so does one shorter than its header.
* **OneChain, HandedInOrder**: one receive at a time and no datagram handed on twice or
  late, unless a receiver was joined again while a handler from before was due.

### Why the bounds are enough

Controllers interact only through `outofsync_instruments_` and the snapshot feed, for
which two are enough to have one that must not release what the other one needs.
Three updates of one instrument give a gap (1, then 3), an entry that is late (2) and a snapshot
before, between and after. `MaxUpdates` bounds the updates of all instruments together: five
leave two for the other one in `controller`, three are enough for a gap of either in
`channel_pair`, two for a recovery of each in `channel_live`. Theorems remove the bound. Two kinds of start for
`processed_rptseq_` suffice: it is compared with 0 only. Three packets, of the four, give a lost
one between two others, and events that begin in one packet and end in the
next. The channel as a whole needs fewer: one security for a name, one for an
unknown name, and two packets, since its two halves are checked alone with more.
`SeqNumSpan` is 100 where wrapping is not the question (more than the
packets of a run, as 2^32 is more than those of a session) and 3 in
`channel_live`, where the filter wraps within four packets. Depth 2 with four
prices has levels to push out and as many to pull in as can go in one entry; the lists
of the two books share nothing but BookReset, so one level is enough in the second. Two
sizes make messages of one datagram begin where those of another did, or between them. Three lost
copies suffice to lose both copies of a packet and one more while recovering.
Three datagrams are one in `data_`, one waiting and one handed on; the
counts of receives are not bounded. Two joins of the snapshot feed after
the first let one meet a handler from before the last Leave.

Securities are interchangeable in every definition, so `controller` and
`channel_pair` use symmetry; both check safety properties only. The liveness runs do
not. `CHECK_DEADLOCK FALSE` is set throughout: the exchange stops at the bound on
updates or packets and a state with every entry handled is a legal end.

### Fairness

* `WF(HandleEntry)`, `WF(HandleEndOfEvent)`, `WF(Handle)`: the loop over the messages
  of a packet is ordinary code and runs to its end.
* `SF(FreshSnapshot(i))`: the exchange repeats the snapshots of all securities as long
  as the session lasts. The receiver can lose any of them but not all, so a
  snapshot of the latest version reaches a receiver that is joined again and again. It
  is strong fairness because other instruments may leave and rejoin the feed meanwhile.
  It is enabled only while a snapshot receiver is joined: an implementation that
  forgets to join gets no help from it. That a joined receiver goes
  on receiving is ActiveReceives and InboxIsEmptied; after a receive error it does not
  (hazards, `MulticastReceiver.cpp:15`), and the fairness assumes that there is none.
* Nothing is assumed of the incremental feed.
* `WF(Transmit)`, `WF(Deliver)`: the definitions are sent for ever, and a copy
  that is not among the `MaxLosses` lost ones arrives. What is sent at one time arrives
  before anything else is sent.
* ImplFairness: the same for the composition. WF(Continue) is the thread that ends what a
  handler began; the snapshots are fresh for the defined securities only.
* `WF` of the handler and of Complete, per receiver: `io_service::run` calls every handler
  that is due, and a receive with a datagram to take completes.
* `WF(Thread)` in Plugin: the operating system runs the thread. Nothing is assumed of the host,
  nor that packets arrive.

## 4. What is proved

`InstrumentControllerProofs`, for any set of securities, any number of updates of any
kinds and any initial value of `processed_rptseq_`:

* TypeCorrect, BooksArePublished, FeedIsHeldForRecovery, QuotesArePublished,
  QuotesAreCurrent, QuotesGoForward, Refinement (`ControllerSpec => ImplementsReplica`).

The invariant is the conjunction of TypeOK, HistoryOK, BookIsPublished,
FeedServesRecovery, QuoteIsPublished and QuoteCurrent. HistoryOK, that every
update carries the book it makes of the previous one, is what turns "applied update
r to the book of version r - 1" into "holds the book of version r". BookIsPublished
is inductive with it because every branch moves `processed_rptseq_` and the book
together. FeedServesRecovery has to say that `outofsync` is the set of waiting
controllers, not only that the feed is on while it is not empty, or
`switchState` could release the feed too early. Refinement follows: given the
invariant each branch is Advance, LoseSync, Show, Restart or a stutter of Replica.

`ChannelControllerProofs`: every step of the channel is a step of the open environment
of InstrumentController or none (the lemma ChannelIsAnEnvironment), so that the
books, the feed and the quotes are right under the packet layer too, for any span
of packet numbers, wrapping or not. ChannelTypeCorrect adds that the cursor never leaves its
packet, for which every packet sent must have an item (NoEmptyPacket).

Its second half proves OnlySnapshotsRecover, EventsAreAtomic and EditedMeansCaughtUp under one more assumption,
NoWrap: fewer packets are sent than there are sequence numbers (2^32 a session; when they
wrap the filter lets old packets pass, and TLC finds the first two false with a span of 2). The feed is seen as a line of
places, the packets sent and then the one being written. The invariant has six parts:

* Numbered: the updates of a security stand on the line once each, in order;
* Marked: for every end of event there is a version of each security such that exactly the
  updates up to it stand before the mark;
* InTurn: what passed the filter lies below `expectedseqnum_`, and the packet in hand is the
  last of it;
* GapIsBehind: no update still to come is the one a controller out of sync misses. So
  FillGap cannot fire while a packet is handled;
* CaughtUp: SyncIsCaughtUp in terms of places. A controller that applies the next update
  of its instrument has no later one behind it, because what passed stands in front on the line;
* PendingIsApplied: a controller with a pending change has applied an update that has
  passed, and its next one is to come, or was in a packet that was not accepted. This one
  is what `Commit` needs. At a mark, a version before the mark's means a missed
  update, one after it means an update applied before it came.

`ChannelImplProofs`, for any symbols, definitions and cut: every step of the whole channel is
one of ChannelController or none, and one of SymbolController or none (the lemmas
MarketDataGoesItsWay and DownloadGoesItsWay, which hold by the way the composition is
written). The theorems about the
halves then hold of the whole: ImplBooksArePublished, ImplFeedIsHeldForRecovery, ImplOnlySnapshotsRecover, ImplEventsAreAtomic,
ImplEditedMeansCaughtUp,
ImplDirectoryIsComplete, and ImplKeepsThePromise: the whole channel, from the symbol to the
book, implements Replica (`ImplSpec => ImplementsReplica`). ImplTypeCorrect is its own. RequestsBecomeControllers is about both at
once. Its invariant needs RequestsResolved from the download, the feed invariant from
the market data side, and that the directory holds known securities.

`SymbolControllerProofs`, for any list of definitions and any cut into packets:
SymbolTypeCorrect, DownloadedIsComplete, RequestsAreResolved. The invariant ties four
things together that the code keeps in different places: the position in the
packet lies within the packet expected (InPacket); the count of processed reports is
the position in the cycle (CountsAgree); the map is what that many definitions make
(ContentsAgree); nothing pending was dropped by a reset (NothingForgotten). This is why
comparing two counts is a test of completeness.

`DepthBookProofs`, for any prices, quantities, depth and types of entry, and any number of
entries on the way: DepthTypeCorrect, BooksMirrored, AlwaysInOrder, EntriesTake.
Its first part is about the operations alone. OperationsKeepLists: none of them, whatever
its arguments, makes a list longer than its depth. AddMirrors, DeleteMirrors,
UpdateMirrors, DeleteFromMirrors and DeleteThruMirrors: a list that holds the best `Depth`
levels of a book holds those of the changed book after the entries the exchange sends for
the change. MirrorsTheBook alone is not inductive, since it says nothing while entries are
outstanding. The invariant (AlwaysOnCourse) speaks of a course of books: as
many as there are entries on the way and one more, the first of them what the handler
holds, the last what the exchange shows, each the one before it after one entry, all in
order, and each entry changes its list. Handling an entry drops the first, publishing
adds behind the last: a change of a book adds its own entry, which may leave a list
that is short of levels, and then the ones that move up. That Load of a snapshot makes
the whole list is an induction over its length.

`PacketProofs`, for any sizes, receivers, and number of datagrams: PacketTypeCorrect,
AlwaysOnMessage, AlwaysWhole, ShortsNeverMove. The invariant (CursorAgrees) says of every
buffer that nothing or a short datagram was received into it last, or that up to
`received_` it holds exactly the datagram whose number is in the Packet, with the cursor at
the beginning of one of its messages or at the end (BufferInv). Of the datagram in the loop the
messages in front of the cursor were handed on, of every other datagram all or none
(HandedInv); `expectedseqnum_` is one more than the number in the loop (ReaderInv) and than
that of the last message handed on, unless the first message of a datagram is due (LastInv). A cursor
that stands on a message stands on one of this datagram, because what an earlier datagram
left lies at or behind the length; this and the order of the messages are inductions over the messages
of a datagram.

`MulticastReceiverProofs`, for any number of receivers and datagrams: ReceiverTypeCorrect,
ActiveMeansReceiving, NoSecondChain, DatagramsInOrder. The invariant adds that a closed
socket has no receive, that what waits in it is in order and later than
`data_`, and that `data_` is later than what was handed on while its handler is due.

`PluginProofs`, for any receivers and any number of recoveries: PluginTypeCorrect,
EndsOnlyForAReason, LateAtMostOnce. The invariant says that while the thread lives the
instrument feed or the incremental feed is joined, and that each joined receiver has a
receive that waits, a handler that is due or one that runs, unless it failed. One
lemma about Switch carries it over every change of feeds, one about Terminate over the end of the process.

The assumptions are the named ASSUMEs on the constants. Their content is that kinds,
depths and counts are of the right type and that packets cut the cycle in order.

### Model-checked only

RecoveryCompletes, SnapshotFeedReleased, DownloadCompletes, InboxIsEmptied,
RequestIsFollowed, SnapshotFeedOutcome, ShutdownReleasesFeeds: liveness under
fairness is beyond the prover. Every other property of a run that passes is the statement of
a theorem.

The library's induction theorems take the formula to prove as a parameter, which no installed
prover can instantiate. The few inductions above go by sets instead: NatSetInduction, that a set
which holds 0 and with every number the next one holds all of Nat, follows from the
well-foundedness of `<`.

## 5. Findings

1. **`processed_rptseq_` is not initialised** (`subscriber/InstrumentController.cpp:58`).
   "Start of session, no recovery required" (`subscriber/InstrumentController.h:51`)
   depends on it being 0. Run `channel_session` shows an INITIAL controller that
   drops RptSeq 1 and has to wait for a snapshot. The books stay right (the theorems
   hold for any initial value); the shortcut is lost.
2. **The packet gap is never logged** (`subscriber/ChannelController.cpp:83`): the
   condition compares with `expectedseqnum_` after it was moved to `seqnum + 1`. Run
   `channel_gaplog`.

## 6. Known hazards the properties do not cover yet

* **One definition.** `OnInstrument` in INIT does not ask whether the download is
  complete; with one report in the cycle it never is. The runs have two and more.
* **Short datagrams in the download.** `Packet` keeps the last number; after a reset
  `SymbolController` would take a datagram without messages for packet 1 again.
* **Modify** edits a copy: the new security id is dropped (kept as is in the model).
* **Late symbols.** `Subscribe(symbol)` after the download is never resolved.
* **Session restart.** Packet numbers restart at 1 while `expectedseqnum_` stays.
* **A quiet instrument.** After a snapshot or a BookReset the listeners are not told before
  the next book entry. QuoteCurrent excepts this by name (`silent`).
* **Feeds apart.** Two instrument feeds that stay a packet apart throw the download back in
  every cycle. DownloadCompletes and RequestIsFollowed except this by name (`lag`).
* **Exceptions** of `Config::load`, Join and Leave end the host's process. They are steps of
  the model; the code promises nothing of them but what EndsToldDeafOrThrown says, that
  nothing else ends the thread.
* **Templates of the snapshot feed.** `HandleSnapshotMessage` decodes every message as a
  SnapshotFullRefresh38.
* **Destruction of the plugin.** Nobody waits for the detached thread, which uses two
  members of the plugin. When a host destroys it is outside the repository.
* **Receive errors** end the chain of receives while `joined_` stays true: only Leave
  and Join start a new one. ActiveReceives and InboxIsEmptied except this by name.
* **Joining again at once.** If a feed is left and joined while a handler of it is due,
  that handler starts a second chain, and the two share `data_` and the packet: a
  datagram can be handed on twice and another one never. OneChain and
  HandedInOrder except this by name (`overlapped`).

## 7. Plan

Everything planned is modelled, and every safety property the runs check is proved. What is
left for proofs are the steps under the liveness properties that need no fairness: that
what is waited for stays possible (a controller out of sync with a joined feed can take the
snapshot, a receiver keeps its receive), and measures that go down.

Not modelled, and not planned: `config/*` and the values in `marketdata/` (read once,
no state), `MarketDataListener` (prints), `main.cpp` (written for an earlier interface
and not built into the plugin), the statistics of `InstrumentMdHandler` (written and
never read), the SBE decoders (generated, not in the repository), a second session in one
process (nothing in the code provides for it), and the functions of `ChannelImpl` that
nothing calls.

## 8. Running

```
tlc -config Controller.cfg MCInstrumentController.tla
tlc -config Channel_pair.cfg MCChannelController.tla
tlc -config DepthBook_books.cfg MCDepthBook.tla
tlc -config Packet_cursor.cfg Packet.tla
tlc -config Symbol_download.cfg MCSymbolController.tla
tlc -config Carousel_live.cfg MCInstrumentCarousel.tla
tlc -config Receiver_feed.cfg MulticastReceiver.tla
tlc -config Impl_channel.cfg MCChannelImpl.tla
tlc -config Plugin_life.cfg Plugin.tla
tlapm InstrumentControllerProofs.tla
```

The `Channel_*` configurations all use `MCChannelController`; every pair of module and configuration
is in `PROJECT.json`. `Channel_session.cfg` and `Channel_gaplog.cfg` are expected to
fail with the property they name.
