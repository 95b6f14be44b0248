----------------------- MODULE SymbolControllerProofs -----------------------
(***************************************************************************)
(* SymbolController keeps its promises for every list of definitions and   *)
(* every way of cutting it into packets.                                   *)
(***************************************************************************)
EXTENDS SymbolController, SequenceTheorems, TLAPS

\* What HandleDefinition makes of the map.
Listed(directory, d) ==
  [directory EXCEPT ![d.symbol] =
     CASE d.action = "Add"    -> IF @ = 0 THEN d.securityid ELSE @
       [] d.action = "Modify" -> @
       [] d.action = "Delete" -> 0]

DefinitionRecords == [symbol : Symbols, securityid : Nat \ {0},
                      action : {"Add", "Modify", "Delete"}]

\* How many definitions of the cycle have been taken.
Taken == IF pos = 0 THEN Cut[expectedseqnum - 1] ELSE pos - 1

(* The inductive invariant.  While the download lasts the place in the     *)
(* cycle, the count of reports and the contents of the map agree, which is *)
(* what makes the comparison of two counts a test of completeness.         *)
InPacket ==
  pos # 0 => /\ expectedseqnum \in 1 .. Packets
             /\ pos \in Cut[expectedseqnum - 1] + 1 .. Cut[expectedseqnum]

CountsAgree ==
  /\ state # "DOWNLOADED" => processedreports = Taken
  /\ state = "DOWNLOADED" => processedreports = Len(Definitions)
  /\ state = "DOWNLOADING" => totalnumreports = Len(Definitions)
  /\ state = "INIT" => processedreports = 0

ContentsAgree == IsDirectory(instruments, processedreports)

NothingForgotten ==
  /\ state # "DOWNLOADED" => pendingsubscription = requested
  /\ RequestsResolved

Inv == SymbolTypeOK /\ InPacket /\ CountsAgree /\ ContentsAgree /\ NothingForgotten

-----------------------------------------------------------------------------
(* Definitions are records, and packets hold what Cut says.                *)
LEMMA CycleFacts ==
  /\ Len(Definitions) \in Nat /\ Packets \in Nat
  /\ \A k \in 1 .. Len(Definitions) : Definitions[k] \in DefinitionRecords
  /\ \A n \in 0 .. Packets : Cut[n] \in 0 .. Len(Definitions)
  /\ Cut[0] = 0
  /\ \A n \in 1 .. Packets : Cut[n - 1] <= Cut[n]
<1>1. Definitions \in Seq(DefinitionRecords)
  BY DownloadAssumption DEF DefinitionRecords
<1>2. \A k \in 1 .. Len(Definitions) : Definitions[k] \in DefinitionRecords
  BY <1>1
<1>3. Len(Definitions) \in Nat
  BY <1>1
<1> QED  BY <1>2, <1>3, DownloadAssumption

(* One more definition.                                                    *)
LEMMA DirectoryStep ==
  ASSUME NEW directory \in [Symbols -> Nat], NEW k \in 0 .. Len(Definitions) - 1,
         IsDirectory(directory, k)
  PROVE  /\ Listed(directory, Definitions[k + 1]) \in [Symbols -> Nat]
         /\ IsDirectory(Listed(directory, Definitions[k + 1]), k + 1)
<1> DEFINE d == Definitions[k + 1]
           new == Listed(directory, d)
<1>1. d \in DefinitionRecords /\ k \in Nat
  BY CycleFacts
<1> HIDE DEF d
<1>2. new \in [Symbols -> Nat]
  BY <1>1 DEF Listed, DefinitionRecords
<1>3. ASSUME NEW s \in Symbols
      PROVE  IF Live(k + 1, s) = {} THEN new[s] = 0
             ELSE \E j \in Live(k + 1, s) : /\ \A m \in Live(k + 1, s) : j <= m
                                            /\ new[s] = Definitions[j].securityid
  <2>1. IF Live(k, s) = {} THEN directory[s] = 0
        ELSE \E j \in Live(k, s) : /\ \A m \in Live(k, s) : j <= m
                                   /\ directory[s] = Definitions[j].securityid
    BY DEF IsDirectory
  <2>2. CASE d.symbol # s \/ d.action = "Modify"
    <3>1. Live(k + 1, s) = Live(k, s)
      BY <1>1, <2>2 DEF Live, d, DefinitionRecords
    <3>2. new[s] = directory[s]
      BY <1>1, <2>2 DEF Listed, DefinitionRecords
    <3> QED  BY <2>1, <3>1, <3>2
  <2>3. CASE d.symbol = s /\ d.action = "Delete"
    <3>1. Live(k + 1, s) = {}
      BY <1>1, <2>3 DEF Live, d
    <3>2. new[s] = 0
      BY <1>1, <2>3 DEF Listed, DefinitionRecords
    <3> QED  BY <3>1, <3>2
  <2>4. CASE d.symbol = s /\ d.action = "Add"
    <3>1. Live(k + 1, s) = Live(k, s) \cup {k + 1}
      BY <1>1, <2>4 DEF Live, d
    <3>2. new[s] = IF directory[s] = 0 THEN d.securityid ELSE directory[s]
      BY <1>1, <2>4 DEF Listed, DefinitionRecords
    <3>3. CASE Live(k, s) = {}
      <4>1. Live(k + 1, s) = {k + 1} /\ new[s] = d.securityid
        BY <2>1, <3>1, <3>2, <3>3
      <4>2. new[s] = Definitions[k + 1].securityid
        BY <4>1 DEF d
      <4>3. \A m \in Live(k + 1, s) : k + 1 <= m
        BY <1>1, <4>1
      <4> QED  BY <4>1, <4>2, <4>3
    <3>4. CASE Live(k, s) # {}
      <4>1. PICK j \in Live(k, s) : /\ \A m \in Live(k, s) : j <= m
                                    /\ directory[s] = Definitions[j].securityid
        BY <2>1, <3>4
      <4>2. j \in 1 .. k
        BY DEF Live
      <4>3. directory[s] # 0
        BY <1>1, <4>1, <4>2, CycleFacts DEF DefinitionRecords
      <4>4. \A m \in Live(k + 1, s) : j <= m
        BY <1>1, <3>1, <4>1, <4>2
      <4> QED  BY <3>1, <3>2, <4>1, <4>3, <4>4
    <3> QED  BY <3>3, <3>4
  <2> QED  BY <1>1, <2>2, <2>3, <2>4 DEF DefinitionRecords
<1> QED  BY <1>2, <1>3 DEF IsDirectory, d

(* Before the first definition.                                            *)
LEMMA DirectoryOfNone == IsDirectory([s \in Symbols |-> 0], 0)
BY DEF IsDirectory, Live

LEMMA Start == SymbolInit => Inv
<1> SUFFICES ASSUME SymbolInit PROVE Inv
  OBVIOUS
<1> USE DEF SymbolInit
<1>1. SymbolTypeOK
  BY CycleFacts DEF SymbolTypeOK
<1>2. InPacket /\ CountsAgree
  BY CycleFacts DEF InPacket, CountsAgree, Taken
<1>3. ContentsAgree
  BY DirectoryOfNone DEF ContentsAgree
<1>4. NothingForgotten
  BY DEF NothingForgotten, RequestsResolved
<1> QED  BY <1>1, <1>2, <1>3, <1>4 DEF Inv
-----------------------------------------------------------------------------
(* Each action keeps the invariant.                                        *)

LEMMA SubscribeKeeps ==
  ASSUME Inv, NEW symbol \in Symbols, Subscribe(symbol)
  PROVE  Inv'
<1> USE DEF Inv, Subscribe, downloadVars
<1>1. SymbolTypeOK'
  BY DEF SymbolTypeOK
<1>2. InPacket' /\ CountsAgree'
  BY DEF InPacket, CountsAgree, Taken
<1>3. ContentsAgree'
  BY DEF ContentsAgree, IsDirectory
<1>4. NothingForgotten'
  BY DEF NothingForgotten, RequestsResolved
<1> QED  BY <1>1, <1>2, <1>3, <1>4

LEMMA AcceptPacketKeeps ==
  ASSUME Inv, NEW n \in 1 .. Packets, Idle, AcceptPacket(n)
  PROVE  Inv'
<1> USE DEF Inv, AcceptPacket, Idle, channelVars
<1>1. /\ n = expectedseqnum /\ state # "DOWNLOADED" /\ pos = 0 /\ state' = state
      /\ Cut[n - 1] \in 0 .. Len(Definitions) /\ Cut[n] \in 0 .. Len(Definitions)
      /\ Cut[n - 1] <= Cut[n] /\ Len(Definitions) \in Nat /\ Packets \in Nat
  BY CycleFacts
<1>2. SymbolTypeOK'
  BY <1>1 DEF SymbolTypeOK
<1>3. processedreports = Cut[n - 1]
  BY <1>1 DEF CountsAgree, Taken
<1>4. InPacket' /\ Taken' = Cut[n - 1]
  <2>1. CASE Cut[n - 1] < Cut[n]
    BY <1>1, <2>1 DEF InPacket, Taken
  <2>2. CASE ~(Cut[n - 1] < Cut[n])
    <3>1. expectedseqnum' = n + 1 /\ pos' = 0
      BY <1>1, <2>2
    <3>2. expectedseqnum' - 1 = n /\ Cut[n] = Cut[n - 1]
      BY <1>1, <2>2, <3>1
    <3> QED  BY <3>1, <3>2 DEF InPacket, Taken
  <2> QED  BY <2>1, <2>2
<1>5. CountsAgree'
  BY <1>1, <1>3, <1>4 DEF CountsAgree
<1>6. ContentsAgree' /\ NothingForgotten'
  BY <1>1 DEF ContentsAgree, IsDirectory, NothingForgotten, RequestsResolved
<1> QED  BY <1>2, <1>4, <1>5, <1>6

LEMMA StartAgainKeeps ==
  ASSUME Inv, NEW n \in 1 .. Packets, Idle, StartAgain(n)
  PROVE  Inv'
<1> USE DEF Inv, StartAgain, ResetState, Idle, channelVars
<1>1. SymbolTypeOK'
  BY CycleFacts DEF SymbolTypeOK
<1>2. InPacket' /\ CountsAgree'
  BY CycleFacts DEF InPacket, CountsAgree, Taken
<1>3. ContentsAgree'
  BY DirectoryOfNone DEF ContentsAgree
<1>4. NothingForgotten'
  BY DEF NothingForgotten, RequestsResolved
<1> QED  BY <1>1, <1>2, <1>3, <1>4

\* Where the handler stands, and how it moves on.
LEMMA Cursor ==
  ASSUME Inv, ~Idle, NextDefinition
  PROVE  /\ pos \in 1 .. Len(Definitions)
         /\ expectedseqnum' \in 1 .. Packets + 1 /\ pos' \in 0 .. Len(Definitions)
         /\ InPacket' /\ Taken' = pos /\ Taken = pos - 1
<1> USE DEF Inv, Idle, NextDefinition
<1>1. /\ expectedseqnum \in 1 .. Packets
      /\ pos \in Cut[expectedseqnum - 1] + 1 .. Cut[expectedseqnum]
      /\ Cut[expectedseqnum - 1] \in 0 .. Len(Definitions)
      /\ Cut[expectedseqnum] \in 0 .. Len(Definitions)
      /\ Packets \in Nat /\ Len(Definitions) \in Nat
  BY CycleFacts DEF InPacket
<1>2. pos \in 1 .. Len(Definitions) /\ Taken = pos - 1
  BY <1>1 DEF Taken
<1>3. CASE pos < Cut[expectedseqnum]
  BY <1>1, <1>2, <1>3 DEF InPacket, Taken
<1>4. CASE ~(pos < Cut[expectedseqnum])
  <2>1. pos' = 0 /\ expectedseqnum' = expectedseqnum + 1 /\ pos = Cut[expectedseqnum]
    BY <1>1, <1>4
  <2>2. expectedseqnum' - 1 = expectedseqnum
    BY <1>1, <2>1
  <2> QED  BY <1>1, <1>2, <2>1, <2>2 DEF InPacket, Taken
<1> QED  BY <1>3, <1>4

\* What HandleDefinition adds to the count and the contents.
LEMMA HandleDefinitionCounts ==
  ASSUME Inv, ~Idle, NextDefinition, state # "DOWNLOADED",
         HandleDefinition(Definitions[pos])
  PROVE  /\ processedreports = pos - 1 /\ processedreports' = pos
         /\ instruments' \in [Symbols -> Nat]
         /\ ContentsAgree'
<1>1. pos \in 1 .. Len(Definitions) /\ processedreports = pos - 1
  BY Cursor DEF Inv, CountsAgree
<1>2. processedreports' = pos /\ instruments' = Listed(instruments, Definitions[pos])
  BY <1>1 DEF HandleDefinition, Listed
<1>3. pos - 1 \in 0 .. Len(Definitions) - 1 /\ (pos - 1) + 1 = pos
  BY <1>1, CycleFacts
<1>4. instruments \in [Symbols -> Nat] /\ IsDirectory(instruments, pos - 1)
  BY <1>1 DEF Inv, SymbolTypeOK, ContentsAgree
<1>5. /\ Listed(instruments, Definitions[pos]) \in [Symbols -> Nat]
      /\ IsDirectory(Listed(instruments, Definitions[pos]), pos)
  <2>1. /\ Listed(instruments, Definitions[(pos - 1) + 1]) \in [Symbols -> Nat]
        /\ IsDirectory(Listed(instruments, Definitions[(pos - 1) + 1]), (pos - 1) + 1)
    BY <1>3, <1>4, DirectoryStep
  <2> QED  BY <1>3, <2>1
<1>6. IsDirectory(instruments', processedreports')
  BY <1>2, <1>5
<1> QED  BY <1>1, <1>2, <1>5, <1>6 DEF ContentsAgree

LEMMA OnInstrumentKeeps ==
  ASSUME Inv, OnInstrument
  PROVE  Inv'
<1>0. ~Idle /\ NextDefinition /\ Len(Definitions) \in Nat
  BY CycleFacts DEF OnInstrument
<1>1. CASE StartDownload
  <2> USE <1>1 DEF StartDownload
  <2>1. processedreports' = pos /\ instruments' \in [Symbols -> Nat] /\ ContentsAgree'
    BY <1>0, HandleDefinitionCounts
  <2>2. SymbolTypeOK'
    BY <1>0, <2>1, Cursor DEF Inv, SymbolTypeOK, channelVars
  <2>3. InPacket' /\ CountsAgree'
    BY <1>0, <2>1, Cursor DEF CountsAgree
  <2>4. NothingForgotten'
    BY DEF Inv, NothingForgotten, RequestsResolved, channelVars
  <2> QED  BY <2>1, <2>2, <2>3, <2>4 DEF Inv
<1>2. CASE ContinueDownload
  <2> USE <1>2 DEF ContinueDownload
  <2>1. processedreports' = pos /\ instruments' \in [Symbols -> Nat] /\ ContentsAgree'
    BY <1>0, HandleDefinitionCounts
  <2>2. totalnumreports' = Len(Definitions) /\ pos \in 1 .. Len(Definitions)
    BY <1>0, Cursor DEF Inv, CountsAgree
  <2>3. CASE DownloadComplete'
    <3>1. processedreports' = Len(Definitions) /\ state' = "DOWNLOADED"
      BY <1>0, <2>1, <2>2, <2>3 DEF DownloadComplete
    <3>2. /\ joined' = {} /\ requested' = requested /\ pendingsubscription' = {}
          /\ subscribed' = subscribed \cup {instruments'[s] : s \in pendingsubscription}
      BY <2>3 DEF StopInstrumentFeed, GetInstrument
    <3>3. subscribed = {} /\ pendingsubscription = requested /\ requested \subseteq Symbols
      BY DEF Inv, NothingForgotten, RequestsResolved, SymbolTypeOK
    <3>4. subscribed' = {instruments'[s] : s \in requested'}
      BY <3>2, <3>3
    <3>5. SymbolTypeOK'
      <4>1. subscribed' \subseteq Nat
        BY <2>1, <3>2, <3>3, <3>4
      <4> QED  BY <1>0, <2>1, <2>2, <3>1, <3>2, <4>1, Cursor DEF Inv, SymbolTypeOK
    <3>6. InPacket' /\ CountsAgree'
      BY <1>0, <3>1, Cursor DEF CountsAgree
    <3>7. NothingForgotten'
      BY <3>1, <3>2, <3>4 DEF NothingForgotten, RequestsResolved
    <3> QED  BY <2>1, <3>5, <3>6, <3>7 DEF Inv
  <2>4. CASE ~DownloadComplete'
    <3>1. state' = "DOWNLOADING" /\ UNCHANGED channelVars
      BY <2>4
    <3>2. SymbolTypeOK'
      BY <1>0, <2>1, <2>2, <3>1, Cursor DEF Inv, SymbolTypeOK, channelVars
    <3>3. InPacket' /\ CountsAgree'
      BY <1>0, <2>1, <2>2, <3>1, Cursor DEF CountsAgree
    <3>4. NothingForgotten'
      BY <3>1 DEF Inv, NothingForgotten, RequestsResolved, channelVars
    <3> QED  BY <2>1, <3>2, <3>3, <3>4 DEF Inv
  <2> QED  BY <2>3, <2>4
<1>3. CASE SkipDefinition
  <2> USE <1>3 DEF SkipDefinition
  <2>1. SymbolTypeOK'
    BY <1>0, Cursor DEF Inv, SymbolTypeOK, channelVars
  <2>2. InPacket' /\ CountsAgree'
    BY <1>0, Cursor DEF Inv, CountsAgree
  <2>3. ContentsAgree' /\ NothingForgotten'
    BY DEF Inv, ContentsAgree, IsDirectory, NothingForgotten, RequestsResolved, channelVars
  <2> QED  BY <2>1, <2>2, <2>3 DEF Inv
<1> QED  BY <1>1, <1>2, <1>3 DEF OnInstrument

LEMMA StutterKeeps ==
  ASSUME Inv, UNCHANGED symbolVars
  PROVE  Inv'
BY DEF Inv, symbolVars, downloadVars, channelVars, SymbolTypeOK, InPacket, CountsAgree,
       Taken, ContentsAgree, IsDirectory, NothingForgotten, RequestsResolved

LEMMA Invariance == SymbolSpec => []Inv
<1>1. Inv /\ [SymbolNext]_symbolVars => Inv'
  <2> SUFFICES ASSUME Inv, [SymbolNext]_symbolVars PROVE Inv'
    OBVIOUS
  <2>1. CASE \E symbol \in Symbols : Subscribe(symbol)
    BY <2>1, SubscribeKeeps
  <2>2. ASSUME NEW n \in 1 .. Packets, OnInstrumentPacket(n)
        PROVE  Inv'
    <3>1. CASE AcceptPacket(n)
      BY <2>2, <3>1, AcceptPacketKeeps DEF OnInstrumentPacket
    <3>2. CASE StartAgain(n)
      BY <2>2, <3>2, StartAgainKeeps DEF OnInstrumentPacket
    <3>3. CASE IgnorePacket(n)
      BY <3>3, StutterKeeps DEF IgnorePacket
    <3> QED  BY <2>2, <3>1, <3>2, <3>3 DEF OnInstrumentPacket
  <2>3. CASE OnInstrument
    BY <2>3, OnInstrumentKeeps
  <2>4. CASE UNCHANGED symbolVars
    BY <2>4, StutterKeeps
  <2> QED  BY <2>1, <2>2, <2>3, <2>4 DEF SymbolNext
<1> QED  BY Start, <1>1, PTL DEF SymbolSpec
-----------------------------------------------------------------------------
(* The theorems.                                                           *)

(* The type of every variable, expectedseqnum_ never beyond the packet     *)
(* after the last (SymbolController.cpp:49-61).                            *)
THEOREM SymbolTypeCorrect == SymbolSpec => []SymbolTypeOK
<1>1. Inv => SymbolTypeOK
  BY DEF Inv
<1> QED  BY Invariance, <1>1, PTL

(* For any definitions, any cut into packets and any losses, repetitions   *)
(* and reorderings: DOWNLOADED means that instruments_ holds exactly the   *)
(* instruments the cycle defines.                                          *)
THEOREM DownloadedIsComplete == SymbolSpec => []DirectoryComplete
<1>1. Inv => DirectoryComplete
  BY DEF Inv, CountsAgree, ContentsAgree, DirectoryComplete
<1> QED  BY Invariance, <1>1, PTL

(* StopInstrumentFeed subscribes to the instruments of the symbols asked   *)
(* for in time, all of them and no other, and not before.                  *)
THEOREM RequestsAreResolved == SymbolSpec => []RequestsResolved
<1>1. Inv => RequestsResolved
  BY DEF Inv, NothingForgotten
<1> QED  BY Invariance, <1>1, PTL
=============================================================================
