-------------------------- MODULE SymbolController --------------------------
(***************************************************************************)
(* subscriber/SymbolController downloads the instrument definitions of a   *)
(* channel, and subscriber/ChannelImpl resolves the symbols subscribed to  *)
(* meanwhile.  The exchange repeats the same numbered packets over and     *)
(* over (Carousel is external); here any of them may arrive at any time.   *)
(* Module InstrumentCarousel sends them in order.                          *)
(*                                                                         *)
(* The definitions of one cycle are numbered through, and packet n carries *)
(* those from Cut[n - 1] + 1 to Cut[n], possibly none.  The handlers run   *)
(* on one thread: while pos # 0 the next definition of the packet is all   *)
(* that happens.                                                           *)
(***************************************************************************)
EXTENDS Integers, Sequences

CONSTANTS
  Symbols,      \* symbols that are defined or asked for
  Definitions,  \* the MDInstrumentDefinition messages of one cycle, in order
  Packets,      \* how many packets they fill
  Cut           \* Cut[n]: how many definitions packets 1 to n hold

ASSUME DownloadAssumption ==
  /\ Definitions \in Seq([symbol : Symbols, securityid : Nat \ {0},
                          action : {"Add", "Modify", "Delete"}])
  /\ Packets \in Nat
  /\ Cut \in [0 .. Packets -> 0 .. Len(Definitions)]
  /\ Cut[0] = 0 /\ Cut[Packets] = Len(Definitions)
  /\ \A n \in 1 .. Packets : Cut[n - 1] <= Cut[n]

VARIABLES
  state,                \* SymbolController::state_
  expectedseqnum,       \* expectedseqnum_
  totalnumreports,      \* totalnumreports_
  processedreports,     \* processedreports_
  instruments,          \* instruments_: the securityid under each symbol, 0
                        \*   where there is none
  pos,                  \* the definition being handled, 0 when idle
  pendingsubscription,  \* ChannelImpl::pendingsubscription_, as a set
  subscribed,           \* the keys of ChannelController's controllers
  joined,               \* the instrument receivers whose joined_ is TRUE
  requested             \* history variable: symbols subscribed to before the
                        \*   download was complete

downloadVars == <<state, expectedseqnum, totalnumreports, processedreports,
                  instruments>>
channelVars  == <<pendingsubscription, subscribed, joined, requested>>
symbolVars   == <<downloadVars, pos, channelVars>>

Idle == pos = 0
-----------------------------------------------------------------------------
(* ChannelImpl.                                                            *)

\* Subscribe(std::string) only notes the symbol.
Subscribe(symbol) ==
  /\ Idle
  /\ pendingsubscription' = pendingsubscription \cup {symbol}
  /\ requested' = IF state = "DOWNLOADED" THEN requested
                                          ELSE requested \cup {symbol}
  /\ UNCHANGED <<downloadVars, pos, subscribed, joined>>

\* A symbol nobody defined has the securityid of Instrument{}, which is 0.
GetInstrument(symbol) == instruments[symbol]

\* Mutant: the symbols are resolved before the last definition is in.
StopInstrumentFeed_Before ==
  /\ joined' = {}
  /\ subscribed' = subscribed \cup {GetInstrument(s) : s \in pendingsubscription}
  /\ pendingsubscription' = {}
  /\ UNCHANGED requested

StopInstrumentFeed ==
  /\ joined' = {}
  /\ subscribed' = subscribed \cup {GetInstrument(s)' : s \in pendingsubscription}
  /\ pendingsubscription' = {}
  /\ UNCHANGED requested
-----------------------------------------------------------------------------
(* SymbolController.                                                       *)

\* Add is an emplace, which keeps an entry that is there.  Modify changes a
\* copy of the entry and leaves the map as it is.
HandleDefinition(d) ==
  /\ instruments' =
       [instruments EXCEPT ![d.symbol] =
          CASE d.action = "Add"    -> IF @ = 0 THEN d.securityid ELSE @
            [] d.action = "Modify" -> @
            [] d.action = "Delete" -> 0]
  /\ processedreports' = processedreports + 1

DownloadComplete == processedreports >= totalnumreports

\* The last definition of a packet moves expectedseqnum_ on.
NextDefinition ==
  IF pos < Cut[expectedseqnum]
    THEN pos' = pos + 1 /\ UNCHANGED expectedseqnum
    ELSE pos' = 0 /\ expectedseqnum' = expectedseqnum + 1

\* OnInstrument.  In INIT the completeness of the download is not asked.
StartDownload ==
  /\ state = "INIT"
  /\ totalnumreports' = Len(Definitions)
  /\ state' = "DOWNLOADING"
  /\ HandleDefinition(Definitions[pos])
  /\ UNCHANGED channelVars

ContinueDownload ==
  /\ state = "DOWNLOADING"
  /\ UNCHANGED totalnumreports
  /\ HandleDefinition(Definitions[pos])
  /\ IF DownloadComplete' THEN state' = "DOWNLOADED" /\ StopInstrumentFeed
                          ELSE UNCHANGED <<state, channelVars>>

SkipDefinition ==
  /\ state = "DOWNLOADED"
  /\ UNCHANGED <<state, totalnumreports, processedreports, instruments, channelVars>>

OnInstrument ==
  /\ ~Idle
  /\ StartDownload \/ ContinueDownload \/ SkipDefinition
  /\ NextDefinition

\* Mutants: counts, or the sequence number, survive the reset; the first
\* packet has number 0.
ResetState_KeepsCount ==
  /\ expectedseqnum' = 1
  /\ totalnumreports' = 0
  /\ instruments' = [s \in Symbols |-> 0]
  /\ UNCHANGED processedreports

ResetState_KeepsSeqNum ==
  /\ totalnumreports' = 0
  /\ processedreports' = 0
  /\ instruments' = [s \in Symbols |-> 0]
  /\ UNCHANGED expectedseqnum

ResetState_FromZero ==
  /\ expectedseqnum' = 0
  /\ totalnumreports' = 0
  /\ processedreports' = 0
  /\ instruments' = [s \in Symbols |-> 0]

ResetState ==
  /\ expectedseqnum' = 1
  /\ totalnumreports' = 0
  /\ processedreports' = 0
  /\ instruments' = [s \in Symbols |-> 0]

\* OnInstrumentPacket.  Its second HandlePacket finds no message left.
AcceptPacket(n) ==
  /\ n = expectedseqnum /\ state # "DOWNLOADED"
  /\ IF Cut[n - 1] < Cut[n]
       THEN pos' = Cut[n - 1] + 1 /\ UNCHANGED expectedseqnum
       ELSE expectedseqnum' = n + 1 /\ UNCHANGED pos
  /\ UNCHANGED <<state, totalnumreports, processedreports, instruments, channelVars>>

\* Mutant: what was asked for is forgotten with the directory.
StartAgain_Forgets(n) ==
  /\ n > expectedseqnum /\ state = "DOWNLOADING"
  /\ ResetState
  /\ state' = "INIT"
  /\ pendingsubscription' = {}
  /\ UNCHANGED <<pos, subscribed, joined, requested>>

StartAgain(n) ==
  /\ n > expectedseqnum /\ state = "DOWNLOADING"
  /\ ResetState
  /\ state' = "INIT"
  /\ UNCHANGED <<pos, channelVars>>

IgnorePacket(n) ==
  /\ ~(n = expectedseqnum /\ state # "DOWNLOADED")
  /\ ~(n > expectedseqnum /\ state = "DOWNLOADING")
  /\ UNCHANGED symbolVars

OnInstrumentPacket(n) ==
  /\ Idle
  /\ AcceptPacket(n) \/ StartAgain(n) \/ IgnorePacket(n)
-----------------------------------------------------------------------------
\* The constructor joins the instrument feed.
SymbolInit ==
  /\ state = "INIT"
  /\ expectedseqnum = 1
  /\ totalnumreports = 0
  /\ processedreports = 0
  /\ instruments = [s \in Symbols |-> 0]
  /\ pos = 0
  /\ pendingsubscription = {}
  /\ subscribed = {}
  /\ joined = {"instrumenta", "instrumentb"}
  /\ requested = {}

SymbolNext ==
  \/ \E symbol \in Symbols : Subscribe(symbol)
  \/ \E n \in 1 .. Packets : OnInstrumentPacket(n)
  \/ OnInstrument

SymbolSpec == SymbolInit /\ [][SymbolNext]_symbolVars
-----------------------------------------------------------------------------
(* Properties.                                                             *)

(* The type of every variable.                                             *)
SymbolTypeOK ==
  /\ state \in {"INIT", "DOWNLOADING", "DOWNLOADED"}
  /\ expectedseqnum \in 1 .. Packets + 1
  /\ totalnumreports \in {0, Len(Definitions)}
  /\ processedreports \in 0 .. Len(Definitions)
  /\ instruments \in [Symbols -> Nat]
  /\ pos \in 0 .. Len(Definitions)
  /\ pendingsubscription \subseteq Symbols
  /\ subscribed \subseteq Nat
  /\ joined \subseteq {"instrumenta", "instrumentb"}
  /\ requested \subseteq Symbols

\* The definitions among the first k that list a symbol and that no later one
\* of them deletes.
Live(k, symbol) ==
  {j \in 1 .. k :
     /\ Definitions[j].symbol = symbol /\ Definitions[j].action = "Add"
     /\ \A m \in j .. k : ~(/\ Definitions[m].symbol = symbol
                            /\ Definitions[m].action = "Delete")}

\* directory is what the first k definitions of a cycle amount to.
IsDirectory(directory, k) ==
  \A s \in Symbols :
    IF Live(k, s) = {} THEN directory[s] = 0
    ELSE \E j \in Live(k, s) : /\ \A m \in Live(k, s) : j <= m
                               /\ directory[s] = Definitions[j].securityid

(* A download that calls itself complete is complete: every definition of  *)
(* a cycle was taken once and in order, however the packets were lost,     *)
(* repeated and mixed from two feeds and several cycles on the way.        *)
DirectoryComplete ==
  state = "DOWNLOADED" => IsDirectory(instruments, Len(Definitions))

(* No instrument is subscribed to on the strength of an unfinished         *)
(* download, and once it is complete every symbol asked for in time has    *)
(* the controller of the right instrument, resets in between or not.       *)
RequestsResolved ==
  /\ subscribed = IF state = "DOWNLOADED" THEN {instruments[s] : s \in requested}
                                          ELSE {}
  /\ (joined = {}) <=> (state = "DOWNLOADED")
=============================================================================
