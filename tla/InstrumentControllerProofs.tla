--------------------- MODULE InstrumentControllerProofs ---------------------
(***************************************************************************)
(* Theorems about InstrumentController, for any set of securities, any     *)
(* number of updates and whatever processed_rptseq_ starts with.           *)
(***************************************************************************)
EXTENDS InstrumentController, SequenceTheorems, TLAPS

LEMMA AllKinds == \A kind \in Kinds : kind \in {"Book", "Reset", "Other"}
  BY ExchangeAssumption

(* The transitions of a controller, with the branches of its handlers told *)
(* apart: what every inductive step below goes through.                    *)
LEMMA Transitions ==
  ASSUME ControllerNext
  PROVE  \/ \E i \in Securities, kind \in Kinds : PublishUpdate(i, kind)
         \/ \E i \in Securities : Subscribe(i)
         \/ \E i \in Securities : OnChannelReset(i)
         \/ \E i \in Securities : \E r \in 1 .. LastRptSeq(i) :
              UNCHANGED history /\ (ApplyNext(i, r) \/ FillGap(i, r)
                                                    \/ StartOfSession(i, r))
         \/ \E i \in Securities : \E r \in 1 .. LastRptSeq(i) :
              UNCHANGED history /\ DetectGap(i, r)
         \/ \E i \in Securities : \E s \in 0 .. LastRptSeq(i) :
              UNCHANGED history /\ (Recover(i, s) \/ FastForward(i, s))
         \/ Commit
         \/ UNCHANGED controllerVars
  <1>1. ASSUME NEW i \in Securities, NEW r \in 1 .. LastRptSeq(i), Discard(i, r),
               UNCHANGED history
        PROVE  UNCHANGED controllerVars
    BY <1>1 DEF Discard, controllerVars
  <1> QED
    BY <1>1 DEF ControllerNext, OnIncremental, OnSnapshot
-----------------------------------------------------------------------------
(* Type correctness.                                                       *)

LEMMA ApplyType ==
  ASSUME NEW old \in Books, NEW kind \in Kinds, NEW r \in Nat
  PROVE  Apply(old, kind, r) \in Books
  BY AllKinds DEF Apply, Books, EmptyBook

LEMMA PublishType ==
  ASSUME TypeOK, NEW i \in Securities, NEW kind \in Kinds, Publish(i, kind)
  PROVE  /\ history' \in [Securities -> Seq(Updates)]
         /\ LastRptSeq(i)' = LastRptSeq(i) + 1
         /\ history'[i][LastRptSeq(i) + 1].kind = kind
         /\ history'[i][LastRptSeq(i) + 1].book
              = Apply(RefBook(i, LastRptSeq(i)), kind, LastRptSeq(i) + 1)
         /\ \A r \in 1 .. LastRptSeq(i) : history'[i][r] = history[i][r]
         /\ \A j \in Securities \ {i} : history'[j] = history[j]
  <1> DEFINE h == history[i]
             u == [kind |-> kind,
                   book |-> Apply(RefBook(i, Len(h)), kind, Len(h) + 1)]
  <1>1. h \in Seq(Updates) /\ Len(h) \in Nat
    BY DEF TypeOK
  <1>2. RefBook(i, Len(h)) \in Books
    <2>1. CASE Len(h) = 0
      BY <2>1 DEF RefBook, EmptyBook, Books
    <2>2. CASE Len(h) # 0
      <3>1. h[Len(h)] \in Updates
        BY <1>1, <2>2, ElementOfSeq
      <3> QED
        BY <3>1, <2>2 DEF RefBook, Updates
    <2> QED
      BY <2>1, <2>2
  <1>3. u \in Updates
    <2>1. Len(h) + 1 \in Nat
      BY <1>1
    <2>2. Apply(RefBook(i, Len(h)), kind, Len(h) + 1) \in Books
      BY <1>2, <2>1, ApplyType
    <2> QED
      BY <2>2 DEF Updates
  <1>4. history' = [history EXCEPT ![i] = Append(h, u)]
    BY DEF Publish, LastRptSeq
  <1>5. /\ Append(h, u) \in Seq(Updates)
        /\ Len(Append(h, u)) = Len(h) + 1
        /\ \A r \in 1 .. Len(h) : Append(h, u)[r] = h[r]
        /\ Append(h, u)[Len(h) + 1] = u
    BY <1>1, <1>3, AppendProperties
  <1>6. history'[i] = Append(h, u) /\ history \in [Securities -> Seq(Updates)]
    BY <1>4 DEF TypeOK
  <1> HIDE DEF h
  <1>7. /\ history'[i][Len(h) + 1].kind = kind
        /\ history'[i][Len(h) + 1].book
             = Apply(RefBook(i, Len(h)), kind, Len(h) + 1)
    BY <1>5, <1>6
  <1> USE DEF h
  <1> QED
    BY <1>4, <1>5, <1>6, <1>7 DEF LastRptSeq

LEMMA UpdateType ==
  ASSUME TypeOK, NEW i \in Securities, NEW r \in 1 .. LastRptSeq(i)
  PROVE  history[i][r] \in Updates /\ r \in Nat
  <1>1. history[i] \in Seq(Updates) /\ r \in 1 .. Len(history[i])
    BY DEF TypeOK, LastRptSeq
  <1>2. Len(history[i]) \in Nat
    BY <1>1, LenProperties
  <1>3. history[i][r] \in Updates
    BY <1>1, ElementOfSeq
  <1> QED
    BY <1>1, <1>2, <1>3

LEMMA RefBookType ==
  ASSUME TypeOK, NEW i \in Securities, NEW v \in 0 .. LastRptSeq(i)
  PROVE  RefBook(i, v) \in Books
  <1>1. CASE v = 0
    BY <1>1 DEF RefBook, EmptyBook, Books
  <1>2. CASE v # 0
    <2>1. history[i] \in Seq(Updates) /\ v \in 1 .. Len(history[i])
      BY <1>2 DEF TypeOK, LastRptSeq
    <2>2. history[i][v] \in Updates
      BY <2>1, ElementOfSeq
    <2> QED
      BY <1>2, <2>2 DEF RefBook, Updates
  <1> QED
    BY <1>1, <1>2

LEMMA FeedType ==
  ASSUME joined \subseteq SnapshotReceivers \cup IncrementalReceivers,
         outofsync \subseteq Securities, NEW i \in Securities,
         \/ SubscribeToSnapshotsForInstrument(i)
         \/ UnsubscribeToSnapshotsForInstrument(i)
  PROVE  /\ outofsync' \subseteq Securities
         /\ joined' \subseteq SnapshotReceivers \cup IncrementalReceivers
  BY DEF SubscribeToSnapshotsForInstrument, StartSnapshotFeed, StopSnapshotFeed,
         UnsubscribeToSnapshotsForInstrument, AddOutOfSyncInstrument,
         RemoveOutOfSyncInstrument

LEMMA ApplyEntryType ==
  ASSUME TypeOK, NEW i \in Securities, NEW r \in 1 .. LastRptSeq(i),
         ApplyEntry(i, r)
  PROVE  /\ book'        \in [Securities -> Books]
         /\ statechange' \in [Securities -> BOOLEAN]
         /\ silent'      \in [Securities -> BOOLEAN]
         /\ quote'       \in [Securities -> Quotes]
  <1>1. history[i][r].kind \in Kinds /\ r \in Nat
    BY UpdateType DEF Updates
  <1>2. Apply(book[i], history[i][r].kind, r) \in Books
    BY <1>1, ApplyType DEF TypeOK
  <1>3. CASE history[i][r].kind = "Other"
    BY <1>3 DEF ApplyEntry, ApplyOtherEntry, handlerVars, TypeOK
  <1>4. CASE history[i][r].kind # "Other"
    <2>1. ApplyBookEntry(i, r)
      BY <1>4 DEF ApplyEntry
    <2>2. book' \in [Securities -> Books] /\ quote' \in [Securities -> Quotes]
      BY <1>2, <2>1 DEF ApplyBookEntry, TypeOK
    <2>3. statechange' \in [Securities -> BOOLEAN]
      BY <2>1 DEF ApplyBookEntry, TypeOK
    <2>4. silent' \in [Securities -> BOOLEAN]
      BY <2>1 DEF ApplyBookEntry, TypeOK
    <2> QED
      BY <2>2, <2>3, <2>4
  <1> QED
    BY <1>3, <1>4

\* The effect of an entry on the books.
LEMMA ApplyEntryBook ==
  ASSUME TypeOK, NEW i \in Securities, NEW r \in 1 .. LastRptSeq(i),
         ApplyEntry(i, r)
  PROVE  /\ book' = [book EXCEPT ![i] = Apply(book[i], history[i][r].kind, r)]
         /\ UNCHANGED quote
  <1>1. CASE history[i][r].kind = "Other"
    BY <1>1 DEF ApplyEntry, ApplyOtherEntry, handlerVars, Apply, TypeOK
  <1>2. CASE history[i][r].kind # "Other"
    BY <1>2 DEF ApplyEntry, ApplyBookEntry
  <1> QED
    BY <1>1, <1>2

LEMMA TypeInit == ControllerInit => TypeOK
  <1>1. << >> \in Seq(Updates) /\ << >> \in Seq(Nat)
    BY EmptySeq
  <1>2. NoQuote \in Quotes
    BY <1>1 DEF NoQuote, Quotes, EmptyBook, Books
  <1> QED
    BY <1>1, <1>2 DEF ControllerInit, ExchangeInit, TypeOK, Books, EmptyBook,
       States

LEMMA TypeStep ==
  ASSUME TypeOK, BookIsPublished, [ControllerNext]_controllerVars
  PROVE  TypeOK'
  <1>1. ASSUME NEW i \in Securities, NEW kind \in Kinds, PublishUpdate(i, kind)
        PROVE  TypeOK'
    BY <1>1, PublishType DEF PublishUpdate, TypeOK, handlerVars, feedVars
  <1>2. ASSUME NEW i \in Securities, Subscribe(i)
        PROVE  TypeOK'
    BY <1>2, IndeterminateAssumption DEF Subscribe, AddOutOfSyncInstrument, TypeOK, States
  <1>3. ASSUME NEW i \in Securities, OnChannelReset(i)
        PROVE  TypeOK'
    <2>1. /\ outofsync' \subseteq Securities
          /\ joined' \subseteq SnapshotReceivers \cup IncrementalReceivers
      BY <1>3, FeedType DEF OnChannelReset, SwitchState, TypeOK
    <2>2. EmptyBook \in Books /\ NoQuote \in Quotes
      BY EmptySeq DEF EmptyBook, Books, NoQuote, Quotes
    <2> QED
      BY <1>3, <2>1, <2>2 DEF OnChannelReset, SwitchState, TypeOK, States
  <1>4. ASSUME NEW i \in Securities, NEW r \in 1 .. LastRptSeq(i),
               UNCHANGED history,
               ApplyNext(i, r) \/ FillGap(i, r) \/ StartOfSession(i, r)
        PROVE  TypeOK'
    <2>1. ApplyEntry(i, r)
      BY <1>4 DEF ApplyNext, FillGap, StartOfSession
    <2>2. /\ outofsync' \subseteq Securities
          /\ joined' \subseteq SnapshotReceivers \cup IncrementalReceivers
      BY <1>4, FeedType
         DEF ApplyNext, FillGap, StartOfSession, SwitchState, feedVars, TypeOK
    <2>3. /\ state' \in [Securities -> States]
          /\ processed' \in [Securities -> Int]
      <3>1. r \in Int
        OBVIOUS
      <3>2. CASE ApplyNext(i, r)
        BY <3>1, <3>2 DEF ApplyNext, TypeOK
      <3>3. CASE FillGap(i, r) \/ StartOfSession(i, r)
        BY <3>1, <3>3 DEF FillGap, StartOfSession, SwitchState, States, TypeOK
      <3> QED
        BY <1>4, <3>2, <3>3
    <2> QED
      BY <1>4, <2>1, <2>2, <2>3, ApplyEntryType DEF TypeOK
  <1>5. ASSUME NEW i \in Securities, NEW r \in 1 .. LastRptSeq(i),
               UNCHANGED history, DetectGap(i, r)
        PROVE  TypeOK'
    <2>1. /\ outofsync' \subseteq Securities
          /\ joined' \subseteq SnapshotReceivers \cup IncrementalReceivers
      BY <1>5, FeedType DEF DetectGap, SwitchState, TypeOK
    <2> QED
      BY <1>5, <2>1 DEF DetectGap, SwitchState, TypeOK, States, handlerVars
  <1>6. ASSUME NEW i \in Securities, NEW s \in 0 .. LastRptSeq(i),
               UNCHANGED history, Recover(i, s) \/ FastForward(i, s)
        PROVE  TypeOK'
    <2>1. RefBook(i, s) \in Books
      BY RefBookType
    <2>2. /\ outofsync' \subseteq Securities
          /\ joined' \subseteq SnapshotReceivers \cup IncrementalReceivers
      BY <1>6, FeedType DEF Recover, FastForward, SwitchState, feedVars, TypeOK
    <2>3. /\ state' \in [Securities -> States]
          /\ processed' \in [Securities -> Int]
      <3>1. s \in Int
        OBVIOUS
      <3>2. CASE Recover(i, s)
        BY <3>1, <3>2 DEF Recover, SwitchState, States, TypeOK
      <3>3. CASE FastForward(i, s)
        BY <3>1, <3>3 DEF FastForward, TypeOK
      <3> QED
        BY <1>6, <3>2, <3>3
    <2>4. LoadSnapshot(i, s)
      BY <1>6 DEF Recover, FastForward
    <2> QED
      BY <1>6, <2>1, <2>2, <2>3, <2>4 DEF LoadSnapshot, TypeOK
  <1>7. CASE Commit
    <2>1. ASSUME NEW i \in Securities
          PROVE  [book |-> book[i], version |-> Version(i)] \in Quotes
      <3>1. Version(i) \in Nat
        BY DEF BookIsPublished
      <3> QED
        BY <3>1 DEF TypeOK, Quotes
    <2> QED
      BY <1>7, <2>1 DEF Commit, TypeOK, feedVars
  <1>8. CASE UNCHANGED controllerVars
    BY <1>8 DEF controllerVars, handlerVars, feedVars, TypeOK
  <1> QED
    BY <1>1, <1>2, <1>3, <1>4, <1>5, <1>6, <1>7, <1>8, Transitions
-----------------------------------------------------------------------------
(* The history only grows, so what was a reference book stays one.         *)

LEMMA LastIsNat == ASSUME TypeOK, NEW i \in Securities
                   PROVE  LastRptSeq(i) \in Nat
  BY LenProperties DEF TypeOK, LastRptSeq

LEMMA OnlyThePublisher ==
  ASSUME [ControllerNext]_controllerVars
  PROVE  \/ UNCHANGED history
         \/ \E i \in Securities, kind \in Kinds : PublishUpdate(i, kind)
  BY Transitions DEF Subscribe, OnChannelReset, Commit, controllerVars

LEMMA HistoryGrows ==
  ASSUME TypeOK, [ControllerNext]_controllerVars, NEW i \in Securities
  PROVE  /\ LastRptSeq(i)' \in Nat
         /\ LastRptSeq(i) <= LastRptSeq(i)'
         /\ \A v \in 0 .. LastRptSeq(i) : RefBook(i, v)' = RefBook(i, v)
  <1>1. LastRptSeq(i) \in Nat
    BY LastIsNat
  <1>2. CASE UNCHANGED history
    BY <1>1, <1>2 DEF LastRptSeq, RefBook
  <1>3. ASSUME NEW j \in Securities, NEW kind \in Kinds, PublishUpdate(j, kind)
        PROVE  /\ LastRptSeq(i)' \in {LastRptSeq(i), LastRptSeq(i) + 1}
               /\ \A r \in 1 .. LastRptSeq(i) : history'[i][r] = history[i][r]
    <2>1. Publish(j, kind)
      BY <1>3 DEF PublishUpdate
    <2>2. CASE i = j
      BY <2>1, <2>2, PublishType
    <2>3. CASE i # j
      <3>1. history'[i] = history[i]
        BY <2>1, <2>3, PublishType
      <3> QED
        BY <3>1 DEF LastRptSeq
    <2> QED
      BY <2>2, <2>3
  <1>4. CASE \E j \in Securities, kind \in Kinds : PublishUpdate(j, kind)
    <2>1. \A r \in 1 .. LastRptSeq(i) : history'[i][r] = history[i][r]
      BY <1>3, <1>4
    <2>2. \A v \in 0 .. LastRptSeq(i) : RefBook(i, v)' = RefBook(i, v)
      BY <1>1, <2>1 DEF RefBook
    <2>3. LastRptSeq(i)' \in {LastRptSeq(i), LastRptSeq(i) + 1}
      BY <1>3, <1>4
    <2> QED
      BY <1>1, <2>2, <2>3
  <1> QED
    BY <1>2, <1>4, OnlyThePublisher

LEMMA HistoryStep ==
  ASSUME TypeOK, HistoryOK, [ControllerNext]_controllerVars
  PROVE  HistoryOK'
  <1>1. CASE UNCHANGED history
    BY <1>1 DEF HistoryOK, RefBook, LastRptSeq
  <1>2. ASSUME NEW j \in Securities, NEW kind \in Kinds, PublishUpdate(j, kind),
               NEW i \in Securities, NEW r \in 1 .. LastRptSeq(i)'
        PROVE  history'[i][r].book
                 = Apply(RefBook(i, r - 1)', history'[i][r].kind, r)
    <2>1. Publish(j, kind) /\ LastRptSeq(i) \in Nat /\ r \in Int
      BY <1>2, LastIsNat, HistoryGrows DEF PublishUpdate
    <2>2. CASE r \in 1 .. LastRptSeq(i)
      <3>1. history'[i][r] = history[i][r]
        <4>1. CASE i = j
          BY <2>1, <2>2, <4>1, PublishType
        <4>2. CASE i # j
          BY <2>1, <4>2, PublishType
        <4> QED
          BY <4>1, <4>2
      <3>2. r - 1 \in 0 .. LastRptSeq(i)
        BY <2>1, <2>2
      <3>3. RefBook(i, r - 1)' = RefBook(i, r - 1)
        BY <3>2, HistoryGrows
      <3> QED
        BY <2>2, <3>1, <3>3 DEF HistoryOK
    <2>3. CASE r \notin 1 .. LastRptSeq(i)
      <3>1. i = j
        <4>1. SUFFICES ASSUME i # j PROVE FALSE
          OBVIOUS
        <4>2. history'[i] = history[i]
          BY <2>1, <4>1, PublishType
        <4> QED
          BY <2>3, <4>2 DEF LastRptSeq
      <3>2. r = LastRptSeq(i) + 1
        <4>1. LastRptSeq(i)' = LastRptSeq(i) + 1
          BY <2>1, <3>1, PublishType
        <4> QED
          BY <2>1, <2>3, <4>1
      <3>3. RefBook(i, r - 1)' = RefBook(i, LastRptSeq(i))
        <4>1. LastRptSeq(i) \in 0 .. LastRptSeq(i) /\ r - 1 = LastRptSeq(i)
          BY <2>1, <3>2
        <4> QED
          BY <4>1, HistoryGrows
      <3> QED
        BY <2>1, <3>1, <3>2, <3>3, PublishType
    <2> QED
      BY <2>2, <2>3
  <1> QED
    BY <1>1, <1>2, OnlyThePublisher DEF HistoryOK
-----------------------------------------------------------------------------
(* The books.                                                              *)

\* The step of a branch that applies an entry: the version moves from r - 1
\* to r, and so do the books.
LEMMA ApplyingStep ==
  ASSUME TypeOK, HistoryOK, BookIsPublished,
         NEW i \in Securities, NEW r \in 1 .. LastRptSeq(i), UNCHANGED history,
         ApplyNext(i, r) \/ FillGap(i, r) \/ StartOfSession(i, r)
  PROVE  /\ Version(i) = r - 1 /\ Version(i)' = r
         /\ book'[i] = RefBook(i, r)'
         /\ \A j \in Securities \ {i} :
              Version(j)' = Version(j) /\ book'[j] = book[j]
         /\ UNCHANGED quote
  <1>1. r \in Nat /\ r # 0
    BY UpdateType
  <1>2. ApplyEntry(i, r)
    BY DEF ApplyNext, FillGap, StartOfSession
  <1>3. Version(i) = r - 1
    BY <1>1 DEF ApplyNext, FillGap, StartOfSession, Version, TypeOK
  <1>4. /\ processed' = [processed EXCEPT ![i] = r]
        /\ state' = [state EXCEPT ![i] = "SYNC"]
    <2>1. CASE ApplyNext(i, r)
      BY <2>1 DEF ApplyNext, TypeOK
    <2>2. CASE FillGap(i, r) \/ StartOfSession(i, r)
      BY <2>2 DEF FillGap, StartOfSession, SwitchState
    <2> QED
      BY <2>1, <2>2
  <1>5. Version(i)' = r
    BY <1>4 DEF Version, TypeOK
  <1>6. ASSUME NEW j \in Securities \ {i}
        PROVE  Version(j)' = Version(j) /\ book'[j] = book[j]
    BY <1>2, <1>4, ApplyEntryBook DEF Version, TypeOK
  <1>7. book'[i] = RefBook(i, r)'
    <2>1. book'[i] = Apply(book[i], history[i][r].kind, r)
      BY <1>2, ApplyEntryBook DEF TypeOK
    <2>2. book[i] = RefBook(i, r - 1)
      BY <1>3 DEF BookIsPublished
    <2>3. RefBook(i, r) = Apply(RefBook(i, r - 1), history[i][r].kind, r)
      BY <1>1 DEF HistoryOK, RefBook
    <2>4. RefBook(i, r)' = RefBook(i, r)
      BY DEF RefBook
    <2> QED
      BY <2>1, <2>2, <2>3, <2>4
  <1> QED
    BY <1>2, <1>3, <1>5, <1>6, <1>7, ApplyEntryBook

\* The step of a branch that takes a snapshot: version and books jump to s.
LEMMA SnapshotStep ==
  ASSUME TypeOK, BookIsPublished,
         NEW i \in Securities, NEW s \in 0 .. LastRptSeq(i), UNCHANGED history,
         Recover(i, s) \/ FastForward(i, s)
  PROVE  /\ Version(i)' = s /\ Version(i) <= s
         /\ book'[i] = RefBook(i, s)'
         /\ \A j \in Securities \ {i} :
              Version(j)' = Version(j) /\ book'[j] = book[j]
         /\ UNCHANGED quote
  <1>1. s \in Nat /\ LoadSnapshot(i, s)
    BY LastIsNat DEF Recover, FastForward
  <1>2. /\ processed' = [processed EXCEPT ![i] = s]
        /\ state' = [state EXCEPT ![i] = "SYNC"]
    <2>1. CASE FastForward(i, s)
      BY <2>1 DEF FastForward, TypeOK
    <2>2. CASE Recover(i, s)
      BY <2>2 DEF Recover, SwitchState
    <2> QED
      BY <2>1, <2>2
  <1>3. Version(i) <= s
    BY <1>1 DEF Recover, FastForward, Version, TypeOK
  <1>4. Version(i)' = s
    BY <1>2 DEF Version, TypeOK
  <1>5. ASSUME NEW j \in Securities \ {i}
        PROVE  Version(j)' = Version(j) /\ book'[j] = book[j]
    BY <1>1, <1>2 DEF Version, LoadSnapshot, TypeOK
  <1>6. book'[i] = RefBook(i, s)'
    BY <1>1 DEF LoadSnapshot, TypeOK, RefBook
  <1> QED
    BY <1>1, <1>3, <1>4, <1>5, <1>6 DEF LoadSnapshot

\* In any other step a controller keeps its version and its books, or is
\* reset; what moved is told per action.
LEMMA QuietStep ==
  ASSUME TypeOK, NEW i \in Securities,
         \/ \E j \in Securities, kind \in Kinds : PublishUpdate(j, kind)
         \/ \E j \in Securities : Subscribe(j)
         \/ \E j \in Securities : \E r \in 1 .. LastRptSeq(j) : DetectGap(j, r)
         \/ Commit
         \/ UNCHANGED controllerVars
  PROVE  Version(i)' = Version(i) /\ book'[i] = book[i]
  <1>1. CASE \E j \in Securities, kind \in Kinds : PublishUpdate(j, kind)
    BY <1>1 DEF PublishUpdate, Version, handlerVars
  <1>2. ASSUME NEW j \in Securities, Subscribe(j)
        PROVE  Version(i)' = Version(i) /\ book'[i] = book[i]
    BY <1>2 DEF Subscribe, Version, TypeOK
  <1>3. ASSUME NEW j \in Securities, NEW r \in 1 .. LastRptSeq(j), DetectGap(j, r)
        PROVE  Version(i)' = Version(i) /\ book'[i] = book[i]
    BY <1>3 DEF DetectGap, SwitchState, Version, TypeOK, handlerVars
  <1>4. CASE Commit
    BY <1>4 DEF Commit, Version
  <1>5. CASE UNCHANGED controllerVars
    BY <1>5 DEF controllerVars, handlerVars, Version
  <1> QED
    BY <1>1, <1>2, <1>3, <1>4, <1>5

LEMMA ResetStep ==
  ASSUME TypeOK, NEW j \in Securities, OnChannelReset(j), NEW i \in Securities
  PROVE  IF i = j
           THEN Version(i)' = 0 /\ book'[i] = EmptyBook /\ quote'[i] = NoQuote
           ELSE /\ Version(i)' = Version(i) /\ book'[i] = book[i]
                /\ quote'[i] = quote[i]
  BY DEF OnChannelReset, SwitchState, Version, TypeOK

LEMMA BookStep ==
  ASSUME TypeOK, HistoryOK, BookIsPublished, [ControllerNext]_controllerVars
  PROVE  BookIsPublished'
  <1> SUFFICES ASSUME NEW i \in Securities
               PROVE  /\ Version(i)' \in 0 .. LastRptSeq(i)'
                      /\ (book[i] = RefBook(i, Version(i)))'
    BY DEF BookIsPublished
  <1>1. ASSUME Version(i)' = Version(i), book'[i] = book[i]
        PROVE  /\ Version(i)' \in 0 .. LastRptSeq(i)'
               /\ (book[i] = RefBook(i, Version(i)))'
    <2>1. Version(i) \in 0 .. LastRptSeq(i) /\ book[i] = RefBook(i, Version(i))
      BY DEF BookIsPublished
    <2> DEFINE v == Version(i)
    <2>2. /\ v \in 0 .. LastRptSeq(i)'
          /\ \A w \in 0 .. LastRptSeq(i) : RefBook(i, w)' = RefBook(i, w)
      BY <2>1, LastIsNat, HistoryGrows
    <2>3. book'[i] = RefBook(i, v)
      BY <1>1, <2>1
    <2> QED
      BY <1>1, <2>1, <2>2, <2>3 DEF RefBook
  <1>2. ASSUME NEW j \in Securities, OnChannelReset(j)
        PROVE  /\ Version(i)' \in 0 .. LastRptSeq(i)'
               /\ (book[i] = RefBook(i, Version(i)))'
    BY <1>1, <1>2, ResetStep, HistoryGrows DEF RefBook
  <1>3. ASSUME NEW j \in Securities, NEW r \in 1 .. LastRptSeq(j),
               UNCHANGED history,
               ApplyNext(j, r) \/ FillGap(j, r) \/ StartOfSession(j, r)
        PROVE  /\ Version(i)' \in 0 .. LastRptSeq(i)'
               /\ (book[i] = RefBook(i, Version(i)))'
    <2>1. CASE i # j
      BY <1>1, <1>3, <2>1, ApplyingStep
    <2>2. CASE i = j
      BY <1>3, <2>2, ApplyingStep, LastIsNat DEF LastRptSeq
    <2> QED
      BY <2>1, <2>2
  <1>4. ASSUME NEW j \in Securities, NEW s \in 0 .. LastRptSeq(j),
               UNCHANGED history, Recover(j, s) \/ FastForward(j, s)
        PROVE  /\ Version(i)' \in 0 .. LastRptSeq(i)'
               /\ (book[i] = RefBook(i, Version(i)))'
    <2>1. CASE i # j
      BY <1>1, <1>4, <2>1, SnapshotStep
    <2>2. CASE i = j
      BY <1>4, <2>2, SnapshotStep, LastIsNat DEF LastRptSeq
    <2> QED
      BY <2>1, <2>2
  <1> QED
    BY <1>1, <1>2, <1>3, <1>4, QuietStep, Transitions
-----------------------------------------------------------------------------
(* The snapshot feed.                                                      *)

LEMMA FeedStep ==
  ASSUME TypeOK, FeedServesRecovery, [ControllerNext]_controllerVars
  PROVE  FeedServesRecovery'
  <1> USE DEF FeedServesRecovery, SnapshotReceivers, IncrementalReceivers,
              IsSnapshotFeedActive, AddOutOfSyncInstrument,
              RemoveOutOfSyncInstrument, HasOutOfSyncInstruments
  <1>1. ASSUME NEW i \in Securities, state[i] # "ABSENT",
               state' = [state EXCEPT ![i] = "SYNC"],
               UnsubscribeToSnapshotsForInstrument(i)
        PROVE  FeedServesRecovery'
    <2>1. outofsync' = {j \in Securities : state'[j] \in {"INITIAL", "OUTOFSYNC"}}
      BY <1>1 DEF UnsubscribeToSnapshotsForInstrument, TypeOK
    <2>2. joined' = IF outofsync # {} /\ outofsync' = {}
                      THEN joined \ SnapshotReceivers ELSE joined
      BY <1>1 DEF UnsubscribeToSnapshotsForInstrument, StopSnapshotFeed
    <2>3. \A j \in Securities : state'[j] # "ABSENT" => state[j] # "ABSENT"
      BY <1>1 DEF TypeOK
    <2>4. SnapshotReceivers \cap IncrementalReceivers = {}
      OBVIOUS
    <2>5. joined' \cap SnapshotReceivers
            = IF outofsync' = {} THEN {} ELSE SnapshotReceivers
      <3>1. CASE outofsync' = {}
        BY <2>2, <3>1
      <3>2. CASE outofsync' # {}
        <4>1. outofsync # {}
          BY <1>1, <3>2 DEF UnsubscribeToSnapshotsForInstrument
        <4> QED
          BY <2>2, <3>2, <4>1
      <3> QED
        BY <3>1, <3>2
    <2>6. \A j \in Securities : state'[j] # "ABSENT" => IncrementalReceivers \subseteq joined'
      BY <2>2, <2>3, <2>4
    <2> QED
      BY <2>1, <2>5, <2>6
  <1>2. ASSUME UNCHANGED <<state, feedVars>>
        PROVE  FeedServesRecovery'
    BY <1>2 DEF feedVars
  <1>3. ASSUME NEW i \in Securities, Subscribe(i)
        PROVE  FeedServesRecovery'
    <2>1. state' = [state EXCEPT ![i] = "INITIAL"]
      BY <1>3 DEF Subscribe
    <2>2. outofsync' = {j \in Securities : state'[j] \in {"INITIAL", "OUTOFSYNC"}}
      BY <1>3 DEF Subscribe, TypeOK
    <2>3. joined' = joined \cup IncrementalReceivers \cup SnapshotReceivers
      BY <1>3 DEF Subscribe
    <2> QED
      BY <1>3, <2>2, <2>3 DEF Subscribe
  <1>4. ASSUME NEW i \in Securities, NEW r \in 1 .. LastRptSeq(i), DetectGap(i, r)
        PROVE  FeedServesRecovery'
    <2>1. outofsync' = {j \in Securities : state'[j] \in {"INITIAL", "OUTOFSYNC"}}
      BY <1>4 DEF DetectGap, SwitchState, SubscribeToSnapshotsForInstrument, TypeOK
    <2>2. joined' = joined \cup SnapshotReceivers /\ i \in outofsync'
      BY <1>4 DEF DetectGap, SwitchState, SubscribeToSnapshotsForInstrument,
                  StartSnapshotFeed
    <2>3. \A j \in Securities : state'[j] # "ABSENT" => state[j] # "ABSENT"
      BY <1>4 DEF DetectGap, SwitchState, TypeOK
    <2> QED
      BY <2>1, <2>2, <2>3
  <1>5. ASSUME NEW i \in Securities, NEW r \in 1 .. LastRptSeq(i),
               ApplyNext(i, r) \/ FillGap(i, r) \/ StartOfSession(i, r)
        PROVE  FeedServesRecovery'
    BY <1>1, <1>2, <1>5 DEF ApplyNext, FillGap, StartOfSession, SwitchState
  <1>6. ASSUME NEW i \in Securities, NEW s \in 0 .. LastRptSeq(i),
               Recover(i, s) \/ FastForward(i, s)
        PROVE  FeedServesRecovery'
    BY <1>1, <1>2, <1>6 DEF Recover, FastForward, SwitchState
  <1>7. ASSUME NEW i \in Securities, OnChannelReset(i)
        PROVE  FeedServesRecovery'
    BY <1>1, <1>7 DEF OnChannelReset, SwitchState
  <1>8. CASE \/ \E i \in Securities, kind \in Kinds : PublishUpdate(i, kind)
             \/ Commit
             \/ UNCHANGED controllerVars
    BY <1>2, <1>8 DEF PublishUpdate, Commit, controllerVars
  <1> QED
    BY <1>3, <1>4, <1>5, <1>6, <1>7, <1>8, Transitions
-----------------------------------------------------------------------------
(* What listeners have seen.                                               *)

LEMMA QuoteStep ==
  ASSUME TypeOK, HistoryOK, BookIsPublished, QuoteIsPublished,
         [ControllerNext]_controllerVars, NEW i \in Securities
  PROVE  /\ quote'[i].version \in 0 .. Version(i)'
         /\ (quote[i].book = RefBook(i, quote[i].version))'
         /\ \/ quote'[i].version >= quote[i].version
            \/ quote'[i] = NoQuote /\ Version(i)' = 0
  <1> DEFINE v == quote[i].version
             Goal == /\ quote'[i].version \in 0 .. Version(i)'
                     /\ (quote[i].book = RefBook(i, quote[i].version))'
                     /\ \/ quote'[i].version >= quote[i].version
                        \/ quote'[i] = NoQuote /\ Version(i)' = 0
  <1>1. /\ v \in 0 .. Version(i) /\ quote[i].book = RefBook(i, v)
        /\ Version(i) \in Nat /\ Version(i) <= LastRptSeq(i)
        /\ LastRptSeq(i) \in Nat /\ book[i] = RefBook(i, Version(i))
    BY LastIsNat DEF QuoteIsPublished, BookIsPublished
  <1>2. ASSUME Version(i)' \in Nat, Version(i) <= Version(i)', quote'[i] = quote[i]
        PROVE  Goal
    <2>1. PICK w \in 0 .. LastRptSeq(i) : w = v
      BY <1>1
    <2>2. RefBook(i, w)' = RefBook(i, w)
      BY <2>1, HistoryGrows
    <2>3. quote'[i].version = w /\ w \in 0 .. Version(i)'
      BY <1>1, <1>2, <2>1
    <2>4. (quote[i].book = RefBook(i, quote[i].version))'
      BY <1>1, <1>2, <2>1, <2>2, <2>3 DEF RefBook
    <2> QED
      BY <1>1, <2>1, <2>3, <2>4
  <1>3. ASSUME NEW j \in Securities, NEW kind \in Kinds, PublishUpdate(j, kind)
        PROVE  Goal
    BY <1>1, <1>2, <1>3, QuietStep DEF PublishUpdate, handlerVars
  <1>4. ASSUME NEW j \in Securities, Subscribe(j)
        PROVE  Goal
    <2>1. quote'[i] = quote[i]
      BY <1>4 DEF Subscribe
    <2>2. Version(i)' = Version(i)
      BY <1>4, QuietStep
    <2> QED
      BY <1>1, <1>2, <2>1, <2>2
  <1>5. ASSUME NEW j \in Securities, OnChannelReset(j)
        PROVE  Goal
    <2>1. CASE i = j
      BY <1>5, <2>1, ResetStep DEF NoQuote, RefBook, EmptyBook
    <2>2. CASE i # j
      BY <1>1, <1>2, <1>5, <2>2, ResetStep
    <2> QED
      BY <2>1, <2>2
  <1>6. ASSUME NEW j \in Securities, NEW r \in 1 .. LastRptSeq(j),
               UNCHANGED history,
               ApplyNext(j, r) \/ FillGap(j, r) \/ StartOfSession(j, r)
        PROVE  Goal
    <2>1. r \in Nat
      BY UpdateType
    <2>2. Version(i)' \in Nat /\ Version(i) <= Version(i)'
      BY <1>1, <1>6, <2>1, ApplyingStep
    <2> QED
      BY <1>2, <1>6, <2>2, ApplyingStep
  <1>7. ASSUME NEW j \in Securities, NEW r \in 1 .. LastRptSeq(j), DetectGap(j, r)
        PROVE  Goal
    BY <1>1, <1>2, <1>7, QuietStep DEF DetectGap, handlerVars
  <1>8. ASSUME NEW j \in Securities, NEW s \in 0 .. LastRptSeq(j),
               UNCHANGED history, Recover(j, s) \/ FastForward(j, s)
        PROVE  Goal
    <2>1. s \in Nat
      BY LastIsNat
    <2>2. Version(i)' \in Nat /\ Version(i) <= Version(i)'
      BY <1>1, <1>8, <2>1, SnapshotStep
    <2> QED
      BY <1>2, <1>8, <2>2, SnapshotStep
  <1>9. CASE Commit
    <2>1. Version(i)' = Version(i) /\ UNCHANGED history
      BY <1>9, QuietStep DEF Commit
    <2>2. CASE quote'[i] = quote[i]
      BY <1>1, <1>2, <2>1, <2>2
    <2>3. CASE quote'[i] = [book |-> book[i], version |-> Version(i)]
      <3>1. quote'[i].version = Version(i) /\ quote'[i].book = RefBook(i, Version(i))
        BY <1>1, <2>3
      <3>2. (quote[i].book = RefBook(i, quote[i].version))'
        BY <2>1, <3>1 DEF RefBook
      <3> QED
        BY <1>1, <2>1, <3>1, <3>2
    <2> QED
      BY <1>9, <2>2, <2>3 DEF Commit
  <1>10. CASE UNCHANGED controllerVars
    BY <1>1, <1>2, <1>10, QuietStep DEF controllerVars, handlerVars
  <1> QED
    BY <1>3, <1>4, <1>5, <1>6, <1>7, <1>8, <1>9, <1>10, Transitions

LEMMA CurrentStep ==
  ASSUME TypeOK, QuoteCurrent, [ControllerNext]_controllerVars
  PROVE  QuoteCurrent'
  <1> SUFFICES ASSUME NEW i \in Securities,
                      state'[i] # "ABSENT", ~statechange'[i], ~silent'[i]
               PROVE  quote'[i].book = book'[i]
    BY DEF QuoteCurrent
  <1>1. ASSUME state[i] # "ABSENT", statechange'[i] = statechange[i],
               silent'[i] = silent[i], quote'[i] = quote[i], book'[i] = book[i]
        PROVE  quote'[i].book = book'[i]
    BY <1>1 DEF QuoteCurrent
  <1>2. ASSUME UNCHANGED handlerVars, state[i] # "ABSENT"
        PROVE  quote'[i].book = book'[i]
    BY <1>1, <1>2 DEF handlerVars
  <1>3. ASSUME NEW j \in Securities, NEW kind \in Kinds, PublishUpdate(j, kind)
        PROVE  quote'[i].book = book'[i]
    BY <1>2, <1>3 DEF PublishUpdate
  <1>4. ASSUME NEW j \in Securities, Subscribe(j)
        PROVE  quote'[i].book = book'[i]
    <2>1. CASE i = j
      BY <1>4, <2>1 DEF Subscribe, TypeOK
    <2>2. CASE i # j
      <3>1. /\ state'[i] = state[i] /\ silent'[i] = silent[i]
            /\ quote'[i] = quote[i] /\ book'[i] = book[i]
        BY <1>4, <2>2 DEF Subscribe, TypeOK
      <3>2. statechange'[i] = statechange[i]
        BY <1>4, <2>2 DEF Subscribe, TypeOK
      <3> QED
        BY <1>1, <3>1, <3>2
    <2> QED
      BY <2>1, <2>2
  <1>5. ASSUME NEW j \in Securities, OnChannelReset(j)
        PROVE  quote'[i].book = book'[i]
    <2>1. CASE i = j
      BY <1>5, <2>1 DEF OnChannelReset, TypeOK
    <2>2. CASE i # j
      BY <1>1, <1>5, <2>2 DEF OnChannelReset, SwitchState, TypeOK
    <2> QED
      BY <2>1, <2>2
  <1>6. ASSUME NEW j \in Securities, NEW r \in 1 .. LastRptSeq(j),
               ApplyNext(j, r) \/ FillGap(j, r) \/ StartOfSession(j, r)
        PROVE  quote'[i].book = book'[i]
    <2>1. /\ ApplyEntry(j, r)
          /\ state[j] # "ABSENT"
          /\ i # j => state'[i] = state[i]
      BY <1>6 DEF ApplyNext, FillGap, StartOfSession, SwitchState, TypeOK
    <2>2. CASE history[j][r].kind = "Other"
      <3>1. UNCHANGED handlerVars
        BY <2>1, <2>2 DEF ApplyEntry, ApplyOtherEntry
      <3> QED
        BY <1>2, <2>1, <3>1
    <2>3. CASE history[j][r].kind # "Other"
      <3>1. ApplyBookEntry(j, r)
        BY <2>1, <2>3 DEF ApplyEntry
      <3>2. CASE i # j
        <4>1. quote'[i] = quote[i] /\ book'[i] = book[i]
          BY <3>1, <3>2 DEF ApplyBookEntry, TypeOK
        <4>2. statechange'[i] = statechange[i]
          BY <3>1, <3>2 DEF ApplyBookEntry, TypeOK
        <4>3. silent'[i] = silent[i]
          BY <3>1, <3>2 DEF ApplyBookEntry, TypeOK
        <4> QED
          BY <1>1, <2>1, <3>2, <4>1, <4>2, <4>3
      <3>3. CASE i = j
        <4>1. history[i][r].kind \in {"Book", "Reset"}
          BY <2>3, <3>3, UpdateType, AllKinds DEF Updates
        <4>2. statechange'[i] = (history[i][r].kind = "Book")
          BY <3>1, <3>3 DEF ApplyBookEntry, TypeOK
        <4>3. silent'[i] = (history[i][r].kind = "Reset")
          BY <3>1, <3>3 DEF ApplyBookEntry, TypeOK
        <4> QED
          BY <4>1, <4>2, <4>3
      <3> QED
        BY <3>2, <3>3
    <2> QED
      BY <2>2, <2>3
  <1>7. ASSUME NEW j \in Securities, NEW r \in 1 .. LastRptSeq(j), DetectGap(j, r)
        PROVE  quote'[i].book = book'[i]
    BY <1>2, <1>7 DEF DetectGap, SwitchState, TypeOK
  <1>8. ASSUME NEW j \in Securities, NEW s \in 0 .. LastRptSeq(j),
               Recover(j, s) \/ FastForward(j, s)
        PROVE  quote'[i].book = book'[i]
    <2>1. LoadSnapshot(j, s) /\ (i # j => state'[i] = state[i])
      BY <1>8 DEF Recover, FastForward, SwitchState, TypeOK
    <2>2. CASE i = j
      BY <2>1, <2>2 DEF LoadSnapshot, TypeOK
    <2>3. CASE i # j
      BY <1>1, <2>1, <2>3 DEF LoadSnapshot, TypeOK
    <2> QED
      BY <2>2, <2>3
  <1>9. CASE Commit
    <2>1. state[i] # "ABSENT" /\ UNCHANGED <<book, silent>>
      BY <1>9 DEF Commit
    <2>2. CASE statechange[i]
      BY <1>9, <2>1, <2>2 DEF Commit
    <2>3. CASE ~statechange[i]
      <3>1. quote'[i] = quote[i]
        BY <1>9, <2>3 DEF Commit
      <3>2. quote[i].book = book[i]
        BY <2>1, <2>3 DEF QuoteCurrent
      <3> QED
        BY <2>1, <3>1, <3>2
    <2> QED
      BY <2>2, <2>3
  <1>10. CASE UNCHANGED controllerVars
    BY <1>2, <1>10 DEF controllerVars
  <1> QED
    BY <1>3, <1>4, <1>5, <1>6, <1>7, <1>8, <1>9, <1>10, Transitions
-----------------------------------------------------------------------------
(* The theorems.  TypeOK needs BookIsPublished (a version that is shown is *)
(* a natural number), BookIsPublished needs HistoryOK (the update applied  *)
(* makes the next reference book of the one before), and QuoteIsPublished  *)
(* needs both, so the invariant that is inductive is their conjunction.    *)

Inv == TypeOK /\ HistoryOK /\ BookIsPublished /\ FeedServesRecovery
         /\ QuoteIsPublished /\ QuoteCurrent

LEMMA Invariance == ControllerSpec => []Inv
  <1>1. ControllerInit => Inv
    <2> SUFFICES ASSUME ControllerInit PROVE Inv
      OBVIOUS
    <2>1. TypeOK
      BY TypeInit
    <2>2. \A i \in Securities : LastRptSeq(i) = 0
      BY DEF ControllerInit, ExchangeInit, LastRptSeq
    <2>3. HistoryOK
      <3> SUFFICES ASSUME NEW i \in Securities, NEW r \in 1 .. LastRptSeq(i)
                   PROVE  FALSE
        BY DEF HistoryOK
      <3>1. LastRptSeq(i) = 0
        BY <2>2
      <3> QED
        BY <3>1
    <2>4. \A i \in Securities : Version(i) = 0 /\ state[i] = "ABSENT"
      BY DEF ControllerInit, Version
    <2>5. BookIsPublished
      <3> SUFFICES ASSUME NEW i \in Securities
                   PROVE  /\ Version(i) \in 0 .. LastRptSeq(i)
                          /\ book[i] = RefBook(i, Version(i))
        BY DEF BookIsPublished
      <3>1. LastRptSeq(i) = 0 /\ Version(i) = 0 /\ book[i] = EmptyBook
        BY <2>2, <2>4 DEF ControllerInit
      <3> QED
        BY <3>1 DEF RefBook
    <2>6. FeedServesRecovery
      BY <2>4 DEF ControllerInit, FeedServesRecovery
    <2>7. QuoteIsPublished
      <3> SUFFICES ASSUME NEW i \in Securities
                   PROVE  /\ quote[i].version \in 0 .. Version(i)
                          /\ quote[i].book = RefBook(i, quote[i].version)
        BY DEF QuoteIsPublished
      <3>1. Version(i) = 0 /\ quote[i] = NoQuote
        BY <2>4 DEF ControllerInit
      <3> QED
        BY <3>1 DEF RefBook, NoQuote
    <2>8. QuoteCurrent
      BY <2>4 DEF QuoteCurrent
    <2> QED
      BY <2>1, <2>3, <2>5, <2>6, <2>7, <2>8 DEF Inv
  <1>2. Inv /\ [ControllerNext]_controllerVars => Inv'
    <2> SUFFICES ASSUME Inv, [ControllerNext]_controllerVars
                 PROVE  Inv'
      OBVIOUS
    <2>1. TypeOK' /\ HistoryOK' /\ BookIsPublished' /\ FeedServesRecovery'
      BY TypeStep, HistoryStep, BookStep, FeedStep DEF Inv
    <2>2. QuoteIsPublished'
      BY QuoteStep DEF Inv, QuoteIsPublished
    <2>3. QuoteCurrent'
      BY CurrentStep DEF Inv
    <2> QED
      BY <2>1, <2>2, <2>3 DEF Inv
  <1> QED
    BY <1>1, <1>2, PTL DEF ControllerSpec

(* Every variable keeps its type: no handler leaves a state, a book, a     *)
(* quote or a set of receivers that the others do not expect.              *)
THEOREM TypeCorrect == ControllerSpec => []TypeOK
  BY Invariance, PTL DEF Inv

(* In every state the books of every controller are those of the version   *)
(* that processed_rptseq_ names, for any loss, repetition and reordering.  *)
THEOREM BooksArePublished == ControllerSpec => []BookIsPublished
  BY Invariance, PTL DEF Inv

(* The snapshot feed is joined exactly while a controller waits for it,    *)
(* for any number of instruments losing and regaining their place.         *)
THEOREM FeedIsHeldForRecovery == ControllerSpec => []FeedServesRecovery
  BY Invariance, PTL DEF Inv

(* Commit and OnChannelReset show published books only, never ahead of the *)
(* controller.                                                             *)
THEOREM QuotesArePublished == ControllerSpec => []QuoteIsPublished
  BY Invariance, PTL DEF Inv

(* Without a pending change the listeners are up to date, snapshots and    *)
(* BookResets excepted.                                                    *)
THEOREM QuotesAreCurrent == ControllerSpec => []QuoteCurrent
  BY Invariance, PTL DEF Inv

(* Listeners are never taken back in time except by OnChannelReset.        *)
THEOREM QuotesGoForward == ControllerSpec => QuoteForward
  <1>1. Inv /\ [ControllerNext]_controllerVars
          => [\A i \in Securities :
                \/ quote'[i].version >= quote[i].version
                \/ quote'[i] = NoQuote /\ Version(i)' = 0]_controllerVars
    BY QuoteStep DEF Inv
  <1> QED
    BY <1>1, Invariance, PTL DEF ControllerSpec, QuoteForward
-----------------------------------------------------------------------------
(* Refinement: every step of the controllers is a step of Replica or       *)
(* leaves the replicas as they are.                                        *)

\* What a controller does to one replica is an Advance of that replica.
LEMMA AdvanceStep ==
  ASSUME Inv, NEW i \in Securities, NEW v \in 0 .. LastRptSeq(i),
         UNCHANGED history, UNCHANGED quote,
         state' = [state EXCEPT ![i] = "SYNC"],
         Version(i) <= v, Version(i)' = v, book' \in [Securities -> Books],
         book'[i] = RefBook(i, v)',
         \A j \in Securities \ {i} :
           Version(j)' = Version(j) /\ book'[j] = book[j]
  PROVE  Abstract!Advance(i, v)
  <1>1. Version(i) \in Nat /\ LastRptSeq(i) \in Nat
    BY LastIsNat DEF Inv, BookIsPublished
  <1>2. v \in Version(i) .. LastRptSeq(i)
    BY <1>1
  <1>3. [j \in Securities |-> state[j] = "SYNC"]'
          = [[j \in Securities |-> state[j] = "SYNC"] EXCEPT ![i] = TRUE]
    BY DEF Inv, TypeOK
  <1>4. [j \in Securities |-> Version(j)]'
          = [[j \in Securities |-> Version(j)] EXCEPT ![i] = v]
    OBVIOUS
  <1>5. book' = [book EXCEPT ![i] = RefBook(i, v)]
    BY DEF Inv, TypeOK, RefBook
  <1> QED
    BY <1>2, <1>3, <1>4, <1>5
       DEF Abstract!Advance, Abstract!LastRptSeq, Abstract!RefBook,
           Abstract!EmptyBook, LastRptSeq, RefBook, EmptyBook

LEMMA RefinementStep ==
  ASSUME Inv, Inv', [ControllerNext]_controllerVars
  PROVE  [Abstract!Next]_(Abstract!replicaVars)
  <1> USE DEF Abstract!replicaVars
  <1>1. ASSUME UNCHANGED <<history, quote, book>>,
               \A j \in Securities :
                 /\ Version(j)' = Version(j)
                 /\ (state'[j] = "SYNC") = (state[j] = "SYNC")
        PROVE  UNCHANGED Abstract!replicaVars
    <2>1. [j \in Securities |-> state[j] = "SYNC"]'
            = [j \in Securities |-> state[j] = "SYNC"]
      BY <1>1
    <2>2. [j \in Securities |-> Version(j)]' = [j \in Securities |-> Version(j)]
      BY <1>1
    <2> QED
      BY <1>1, <2>1, <2>2
  <1>2. ASSUME NEW i \in Securities, NEW kind \in Kinds, PublishUpdate(i, kind)
        PROVE  Abstract!Next
    <2>1. Abstract!Publish(i, kind)
      <3>1. Abstract!Published = Published
        BY DEF Published, Abstract!Published, LastRptSeq, Abstract!LastRptSeq
      <3>2. Abstract!Cardinality(Published) = Cardinality(Published)
        BY DEF Cardinality, Abstract!Cardinality
      <3>3. Abstract!Cardinality(Abstract!Published) < MaxUpdates
        BY <1>2, <3>1, <3>2 DEF PublishUpdate, Publish
      <3> QED
        BY <1>2, <3>3
           DEF PublishUpdate, Publish, Abstract!Publish, LastRptSeq, RefBook,
               Abstract!LastRptSeq, Abstract!RefBook, Apply, Abstract!Apply,
               EmptyBook, Abstract!EmptyBook
    <2>2. Abstract!Extend(i, kind)
      <3>1. UNCHANGED <<state, processed, book, quote>>
        BY <1>2 DEF PublishUpdate, handlerVars
      <3> QED
        BY <2>1, <3>1 DEF Abstract!Extend, Version
    <2> QED
      BY <2>2 DEF Abstract!Next
  <1>3. ASSUME NEW i \in Securities, Subscribe(i)
        PROVE  UNCHANGED Abstract!replicaVars
    <2>1. /\ UNCHANGED <<history, quote, book>>
          /\ state[i] = "ABSENT" /\ state' = [state EXCEPT ![i] = "INITIAL"]
      BY <1>3 DEF Subscribe
    <2>2. \A j \in Securities : Version(j)' = Version(j)
      BY <1>3, QuietStep DEF Inv
    <2> QED
      BY <1>1, <2>1, <2>2 DEF Inv, TypeOK
  <1>4. ASSUME NEW i \in Securities, OnChannelReset(i)
        PROVE  Abstract!Next
    <2>1. /\ UNCHANGED history /\ state' = [state EXCEPT ![i] = "SYNC"]
          /\ book' = [book EXCEPT ![i] = EmptyBook]
          /\ quote' = [quote EXCEPT ![i] = NoQuote]
      BY <1>4 DEF OnChannelReset, SwitchState
    <2>2. [j \in Securities |-> state[j] = "SYNC"]'
            = [[j \in Securities |-> state[j] = "SYNC"] EXCEPT ![i] = TRUE]
      BY <2>1 DEF Inv, TypeOK
    <2>3. [j \in Securities |-> Version(j)]'
            = [[j \in Securities |-> Version(j)] EXCEPT ![i] = 0]
      BY <1>4, ResetStep DEF Inv
    <2>4. Abstract!Restart(i)
      BY <2>1, <2>2, <2>3 DEF Abstract!Restart, Abstract!EmptyBook, Abstract!NoQuote,
                              EmptyBook, NoQuote
    <2> QED
      BY <2>4 DEF Abstract!Next
  <1>5. ASSUME NEW i \in Securities, NEW v \in 0 .. LastRptSeq(i),
               Abstract!Advance(i, v)
        PROVE  Abstract!Next
    BY <1>5 DEF Abstract!Next, Abstract!LastRptSeq, LastRptSeq
  <1>6. ASSUME NEW i \in Securities, NEW r \in 1 .. LastRptSeq(i),
               UNCHANGED history,
               ApplyNext(i, r) \/ FillGap(i, r) \/ StartOfSession(i, r)
        PROVE  Abstract!Next
    <2>1. r \in 0 .. LastRptSeq(i) /\ r \in Nat
      BY UpdateType, LastIsNat DEF Inv
    <2>2. state' = [state EXCEPT ![i] = "SYNC"]
      BY <1>6 DEF ApplyNext, FillGap, StartOfSession, SwitchState, Inv, TypeOK
    <2>3. Version(i) <= r
      BY <1>6, <2>1, ApplyingStep DEF Inv
    <2> QED
      BY <1>5, <1>6, <2>1, <2>2, <2>3, ApplyingStep, AdvanceStep DEF Inv, TypeOK
  <1>7. ASSUME NEW i \in Securities, NEW r \in 1 .. LastRptSeq(i),
               UNCHANGED history, DetectGap(i, r)
        PROVE  Abstract!Next
    <2>1. /\ UNCHANGED <<book, quote>>
          /\ state[i] = "SYNC" /\ state' = [state EXCEPT ![i] = "OUTOFSYNC"]
      BY <1>7 DEF DetectGap, SwitchState, handlerVars
    <2>2. [j \in Securities |-> state[j] = "SYNC"]'
            = [[j \in Securities |-> state[j] = "SYNC"] EXCEPT ![i] = FALSE]
      BY <2>1 DEF Inv, TypeOK
    <2>3. [j \in Securities |-> Version(j)]' = [j \in Securities |-> Version(j)]
      BY <1>7, QuietStep DEF Inv
    <2>4. Abstract!LoseSync(i)
      BY <1>7, <2>1, <2>2, <2>3 DEF Abstract!LoseSync
    <2> QED
      BY <2>4 DEF Abstract!Next
  <1>8. ASSUME NEW i \in Securities, NEW s \in 0 .. LastRptSeq(i),
               UNCHANGED history, Recover(i, s) \/ FastForward(i, s)
        PROVE  Abstract!Next
    <2>1. state' = [state EXCEPT ![i] = "SYNC"]
      BY <1>8 DEF Recover, FastForward, SwitchState, Inv, TypeOK
    <2> QED
      BY <1>5, <1>8, <2>1, SnapshotStep, AdvanceStep DEF Inv, TypeOK
  <1>9. CASE Commit
    <2> DEFINE S == {j \in Securities : state[j] # "ABSENT" /\ statechange[j]}
    <2>1. UNCHANGED <<history, book, state, processed>>
      BY <1>9 DEF Commit
    <2>2. quote' = [j \in Securities |->
                      IF j \in S THEN [book |-> book[j], version |-> Version(j)]
                                 ELSE quote[j]]
      BY <1>9 DEF Commit
    <2>3. Abstract!Show(S)
      BY <2>1, <2>2 DEF Abstract!Show, Version
    <2> QED
      BY <2>3 DEF Abstract!Next
  <1>10. CASE UNCHANGED controllerVars
    BY <1>10 DEF controllerVars, handlerVars, Version
  <1> QED
    BY <1>2, <1>3, <1>4, <1>6, <1>7, <1>8, <1>9, <1>10, Transitions

(* The controllers implement Replica: a listener that knows only Replica   *)
(* can be attached to them, whatever the network does.                     *)
THEOREM Refinement == ControllerSpec => ImplementsReplica
  <1>1. ControllerInit => Abstract!Init
    BY DEF ControllerInit, Abstract!Init, ExchangeInit, Abstract!ExchangeInit,
           Version, EmptyBook, Abstract!EmptyBook, NoQuote, Abstract!NoQuote
  <1>2. Inv /\ Inv' /\ [ControllerNext]_controllerVars
          => [Abstract!Next]_(Abstract!replicaVars)
    BY RefinementStep
  <1> QED
    BY <1>1, <1>2, Invariance, PTL DEF ControllerSpec, ImplementsReplica, Abstract!Spec
=============================================================================
