------------------------ MODULE InstrumentController ------------------------
(***************************************************************************)
(* The life of one instrument's replica, for every security of a channel:  *)
(* subscriber/InstrumentController decides by RptSeq which updates are     *)
(* applied and asks for snapshots when it has lost its place,              *)
(* subscriber/InstrumentMdHandler keeps the books and tells the listeners, *)
(* and the two functions of subscriber/ChannelImpl that it calls join and  *)
(* leave the snapshot feed.                                                *)
(*                                                                         *)
(* The environment of this module is as hostile as a network can be: any   *)
(* published update and any snapshot may arrive at any time, any number of *)
(* times and in any order, and Commit may run at any moment.  Module       *)
(* ChannelController puts the packet layer underneath.                     *)
(***************************************************************************)
EXTENDS Exchange

CONSTANT
  Indeterminate   \* what the uninitialised long processed_rptseq_ may hold

ASSUME IndeterminateAssumption == Indeterminate \subseteq Int /\ Indeterminate # {}

VARIABLES
  state,        \* InstrumentController::state_, or "ABSENT" before Subscribe
  processed,    \* InstrumentController::processed_rptseq_
  book,         \* InstrumentMdHandler::book_ and implbook_, taken together
  statechange,  \* InstrumentMdHandler::statechange_
  quote,        \* the books last passed to MarketDataListener::OnQuote
  silent,       \* history variable: the books were last replaced or cleared
                \*   by code that leaves statechange_ FALSE
  outofsync,    \* ChannelController::outofsync_instruments_
  joined        \* the multicast receivers whose joined_ is TRUE

handlerVars    == <<book, statechange, quote, silent>>
feedVars       == <<outofsync, joined>>
controllerVars == <<history, state, processed, handlerVars, feedVars>>

States == {"ABSENT", "INITIAL", "SYNC", "OUTOFSYNC"}

SnapshotReceivers    == {"snapshota", "snapshotb"}
IncrementalReceivers == {"incrementala", "incrementalb"}

Quotes  == [book : Books, version : Nat]
NoQuote == [book |-> EmptyBook, version |-> 0]

\* The version of the exchange's history that the books stand at.
Version(i) == IF state[i] \in {"SYNC", "OUTOFSYNC"} THEN processed[i] ELSE 0
-----------------------------------------------------------------------------
(* ChannelImpl: joining and leaving the snapshot feed.                     *)

IsSnapshotFeedActive == joined \cap SnapshotReceivers # {}

\* Mutant: StartAll called in place of StartSnapshotFeed.
StartSnapshotFeed_All == joined' = joined \cup SnapshotReceivers
                                     \cup {"instrumenta", "instrumentb"}

StartSnapshotFeed == joined' = joined \cup SnapshotReceivers
StopSnapshotFeed  == joined' = joined \ SnapshotReceivers

\* ChannelController::outofsync_instruments_.
AddOutOfSyncInstrument(i)    == outofsync' = outofsync \cup {i}
RemoveOutOfSyncInstrument(i) == outofsync' = outofsync \ {i}
HasOutOfSyncInstruments      == outofsync # {}

SubscribeToSnapshotsForInstrument(i) ==
  /\ AddOutOfSyncInstrument(i)
  /\ IF IsSnapshotFeedActive THEN UNCHANGED joined ELSE StartSnapshotFeed

\* Mutants: the feed is left although others wait, or is never left.
UnsubscribeToSnapshotsForInstrument_Early(i) ==
  /\ outofsync' = outofsync \ {i}
  /\ IF i \in outofsync /\ IsSnapshotFeedActive THEN StopSnapshotFeed
                                               ELSE UNCHANGED joined

UnsubscribeToSnapshotsForInstrument_Never(i) ==
  outofsync' = outofsync \ {i} /\ UNCHANGED joined

UnsubscribeToSnapshotsForInstrument(i) ==
  /\ RemoveOutOfSyncInstrument(i)
  /\ IF i \in outofsync /\ IsSnapshotFeedActive /\ ~HasOutOfSyncInstruments'
       THEN StopSnapshotFeed
       ELSE UNCHANGED joined

SwitchState(i, new) ==
  /\ state' = [state EXCEPT ![i] = new]
  /\ IF new = "OUTOFSYNC" THEN SubscribeToSnapshotsForInstrument(i)
                          ELSE UnsubscribeToSnapshotsForInstrument(i)
-----------------------------------------------------------------------------
(* InstrumentMdHandler: the books and what listeners are told of them.     *)

\* Mutants: statechange_ is not set; listeners are told of every entry.
ApplyBookEntry_Quiet(i, r) ==
  /\ book' = [book EXCEPT ![i] = Apply(@, history[i][r].kind, r)]
  /\ silent' = [silent EXCEPT ![i] = history[i][r].kind = "Reset"]
  /\ UNCHANGED <<statechange, quote>>

ApplyBookEntry_Immediate(i, r) ==
  /\ book' = [book EXCEPT ![i] = Apply(@, history[i][r].kind, r)]
  /\ quote' = [quote EXCEPT ![i] = [book |-> book'[i], version |-> r]]
  /\ UNCHANGED <<statechange, silent>>

\* An entry of MDIncrementalRefreshBook32.  BookReset ends in ClearState,
\* which takes back the statechange_ set just before it.
ApplyBookEntry(i, r) ==
  /\ book' = [book EXCEPT ![i] = Apply(@, history[i][r].kind, r)]
  /\ statechange' = [statechange EXCEPT ![i] = history[i][r].kind = "Book"]
  /\ silent' = [silent EXCEPT ![i] = history[i][r].kind = "Reset"]
  /\ UNCHANGED quote

\* An entry of the other templates: statistics and trades, which no listener
\* is given and no other handler reads.
ApplyOtherEntry == UNCHANGED handlerVars

\* The overloaded InstrumentMdHandler::OnIncremental.
ApplyEntry(i, r) ==
  IF history[i][r].kind = "Other" THEN ApplyOtherEntry ELSE ApplyBookEntry(i, r)

\* Mutant: the levels are added without ClearState.
LoadSnapshot_NoClear(i, s) ==
  /\ book'        = [book EXCEPT ![i] = @ \o RefBook(i, s)]
  /\ statechange' = [statechange EXCEPT ![i] = FALSE]
  /\ silent'      = [silent EXCEPT ![i] = TRUE]
  /\ UNCHANGED quote

\* ClearState, then one Add per level of the snapshot: the books become
\* those of version s and statechange_ stays FALSE.
LoadSnapshot(i, s) ==
  /\ book'        = [book EXCEPT ![i] = RefBook(i, s)]
  /\ statechange' = [statechange EXCEPT ![i] = FALSE]
  /\ silent'      = [silent EXCEPT ![i] = TRUE]
  /\ UNCHANGED quote

\* ChannelController::Commit runs InstrumentMdHandler::Commit on every
\* instrument: those with a pending change are shown to the listeners.
Commit ==
  /\ quote' = [i \in Securities |->
                 IF state[i] # "ABSENT" /\ statechange[i]
                   THEN [book |-> book[i], version |-> Version(i)]
                   ELSE quote[i]]
  /\ statechange' = [i \in Securities |-> state[i] = "ABSENT" /\ statechange[i]]
  /\ UNCHANGED <<history, state, processed, book, silent, feedVars>>
-----------------------------------------------------------------------------
(* InstrumentController.                                                   *)

\* The constructor, run by ChannelController::Subscribe for a security that
\* has no controller yet; ChannelImpl::Subscribe then joins the incremental
\* feed.  Neither processed_rptseq_ nor statechange_ is initialised.
Subscribe(i) ==
  /\ state[i] = "ABSENT"
  /\ state' = [state EXCEPT ![i] = "INITIAL"]
  /\ \E garbage \in Indeterminate :
       processed' = [processed EXCEPT ![i] = garbage]
  /\ \E garbage \in BOOLEAN :
       statechange' = [statechange EXCEPT ![i] = garbage]
  /\ silent' = [silent EXCEPT ![i] = TRUE]
  /\ AddOutOfSyncInstrument(i)
  /\ joined' = (joined \cup IncrementalReceivers)
                 \cup (IF IsSnapshotFeedActive THEN {} ELSE SnapshotReceivers)
  /\ UNCHANGED <<history, book, quote>>

\* Mutant: a gap is taken for the next update.
ApplyNext_Skips(i, r) ==
  /\ state[i] = "SYNC" /\ r >= processed[i] + 1
  /\ processed' = [processed EXCEPT ![i] = r]
  /\ ApplyEntry(i, r)
  /\ UNCHANGED <<state, feedVars>>

\* OnIncremental, one disjunct per branch.
ApplyNext(i, r) ==
  /\ state[i] = "SYNC" /\ r = processed[i] + 1
  /\ processed' = [processed EXCEPT ![i] = r]
  /\ ApplyEntry(i, r)
  /\ UNCHANGED <<state, feedVars>>

\* Mutant: a gap leaves the controller in SYNC.
DetectGap_Ignored(i, r) ==
  /\ state[i] = "SYNC" /\ r > processed[i] + 1
  /\ UNCHANGED <<state, processed, handlerVars, feedVars>>

DetectGap(i, r) ==
  /\ state[i] = "SYNC" /\ r > processed[i] + 1
  /\ SwitchState(i, "OUTOFSYNC")
  /\ UNCHANGED <<processed, handlerVars>>

FillGap(i, r) ==
  /\ state[i] = "OUTOFSYNC" /\ r = processed[i] + 1
  /\ processed' = [processed EXCEPT ![i] = r]
  /\ SwitchState(i, "SYNC")
  /\ ApplyEntry(i, r)

StartOfSession(i, r) ==
  /\ state[i] = "INITIAL" /\ processed[i] = 0 /\ r = 1
  /\ processed' = [processed EXCEPT ![i] = r]
  /\ SwitchState(i, "SYNC")
  /\ ApplyEntry(i, r)

Discard(i, r) ==
  /\ \/ state[i] = "ABSENT"
     \/ state[i] = "INITIAL" /\ ~(processed[i] = 0 /\ r = 1)
     \/ state[i] = "SYNC" /\ r < processed[i] + 1
     \/ state[i] = "OUTOFSYNC" /\ r # processed[i] + 1
  /\ UNCHANGED <<state, processed, handlerVars, feedVars>>

OnIncremental(i, r) ==
  /\ r \in 1 .. LastRptSeq(i)
  /\ \/ ApplyNext(i, r)
     \/ DetectGap(i, r)
     \/ FillGap(i, r)
     \/ StartOfSession(i, r)
     \/ Discard(i, r)
  /\ UNCHANGED history

\* Mutants: an old snapshot is good enough out of sync, or in sync.
Recover_AnySnapshot(i, s) ==
  /\ state[i] \in {"INITIAL", "OUTOFSYNC"}
  /\ processed' = [processed EXCEPT ![i] = s]
  /\ SwitchState(i, "SYNC")
  /\ LoadSnapshot(i, s)

FastForward_AnySnapshot(i, s) ==
  /\ state[i] = "SYNC"
  /\ processed' = [processed EXCEPT ![i] = s]
  /\ LoadSnapshot(i, s)
  /\ UNCHANGED <<state, feedVars>>

\* OnSnapshot: INITIAL takes any snapshot, OUTOFSYNC and SYNC a newer one.
Recover(i, s) ==
  /\ \/ state[i] = "INITIAL"
     \/ state[i] = "OUTOFSYNC" /\ s > processed[i]
  /\ processed' = [processed EXCEPT ![i] = s]
  /\ SwitchState(i, "SYNC")
  /\ LoadSnapshot(i, s)

FastForward(i, s) ==
  /\ state[i] = "SYNC" /\ s > processed[i]
  /\ processed' = [processed EXCEPT ![i] = s]
  /\ LoadSnapshot(i, s)
  /\ UNCHANGED <<state, feedVars>>

OnSnapshot(i, s) ==
  /\ s \in 0 .. LastRptSeq(i)
  /\ Recover(i, s) \/ FastForward(i, s)
  /\ UNCHANGED history

\* OnChannelReset clears the books and shows them at once.  ClearState leaves
\* statechange_ FALSE; nothing in the repository calls this function.
OnChannelReset(i) ==
  /\ state[i] # "ABSENT"
  /\ processed' = [processed EXCEPT ![i] = 0]
  /\ SwitchState(i, "SYNC")
  /\ book' = [book EXCEPT ![i] = EmptyBook]
  /\ statechange' = [statechange EXCEPT ![i] = FALSE]
  /\ quote' = [quote EXCEPT ![i] = NoQuote]
  /\ silent' = [silent EXCEPT ![i] = TRUE]
  /\ UNCHANGED history
-----------------------------------------------------------------------------
ControllerInit ==
  /\ ExchangeInit
  /\ state       = [i \in Securities |-> "ABSENT"]
  /\ processed   = [i \in Securities |-> 0]
  /\ book        = [i \in Securities |-> EmptyBook]
  /\ statechange = [i \in Securities |-> FALSE]
  /\ quote       = [i \in Securities |-> NoQuote]
  /\ silent      = [i \in Securities |-> TRUE]
  /\ outofsync   = {}
  /\ joined      = {}

PublishUpdate(i, kind) ==
  /\ Publish(i, kind)
  /\ UNCHANGED <<state, processed, handlerVars, feedVars>>

ControllerNext ==
  \/ \E i \in Securities, kind \in Kinds : PublishUpdate(i, kind)
  \/ \E i \in Securities : Subscribe(i) \/ OnChannelReset(i)
  \/ \E i \in Securities : \E r \in 1 .. LastRptSeq(i) : OnIncremental(i, r)
  \/ \E i \in Securities : \E s \in 0 .. LastRptSeq(i) : OnSnapshot(i, s)
  \/ Commit

ControllerSpec == ControllerInit /\ [][ControllerNext]_controllerVars
-----------------------------------------------------------------------------
(* Properties.                                                             *)

(* The type of every variable.                                             *)
TypeOK ==
  /\ history     \in [Securities -> Seq(Updates)]
  /\ state       \in [Securities -> States]
  /\ processed   \in [Securities -> Int]
  /\ book        \in [Securities -> Books]
  /\ statechange \in [Securities -> BOOLEAN]
  /\ quote       \in [Securities -> Quotes]
  /\ silent      \in [Securities -> BOOLEAN]
  /\ outofsync   \subseteq Securities
  /\ joined      \subseteq SnapshotReceivers \cup IncrementalReceivers

(* Whatever is lost, repeated or reordered on the way, the books of a      *)
(* controller that has ever been in sync are those of one version of the   *)
(* exchange's history, the one processed_rptseq_ names, and the books of   *)
(* any other are empty: OnIncremental and OnSnapshot never let the RptSeq  *)
(* and the contents drift apart, in SYNC nor in OUTOFSYNC.                 *)
BookIsPublished ==
  \A i \in Securities :
    /\ Version(i) \in 0 .. LastRptSeq(i)
    /\ book[i] = RefBook(i, Version(i))

(* Both snapshot receivers are joined while some controller waits for a    *)
(* snapshot and neither is while none does, so that recovery is never      *)
(* starved by another instrument's and never leaves the feed running:      *)
(* outofsync_instruments_ holds exactly the controllers out of sync.       *)
FeedServesRecovery ==
  /\ outofsync = {i \in Securities : state[i] \in {"INITIAL", "OUTOFSYNC"}}
  /\ joined \cap SnapshotReceivers
       = IF outofsync = {} THEN {} ELSE SnapshotReceivers
  /\ \A i \in Securities :
       state[i] # "ABSENT" => IncrementalReceivers \subseteq joined

(* What listeners hold is what the exchange published as of some version,  *)
(* and no later one than the controller's.                                 *)
QuoteIsPublished ==
  \A i \in Securities :
    /\ quote[i].version \in 0 .. Version(i)
    /\ quote[i].book = RefBook(i, quote[i].version)

(* Listeners are not taken back in time: a stale update or snapshot that   *)
(* arrives late never makes Commit show an older book than it has shown.   *)
(* The one way back is OnChannelReset, which shows the empty books.        *)
QuoteForward ==
  [][\A i \in Securities :
       \/ quote'[i].version >= quote[i].version
       \/ quote'[i] = NoQuote /\ Version(i)' = 0]_controllerVars

(* A controller with no pending change has shown its listeners the books   *)
(* it holds: no branch of the handlers changes the books and lets Commit   *)
(* skip them, but for the ones "silent" tells (a snapshot or a BookReset   *)
(* was the last to replace the books; both leave statechange_ FALSE).      *)
QuoteCurrent ==
  \A i \in Securities :
    state[i] # "ABSENT" /\ ~statechange[i] /\ ~silent[i]
      => quote[i].book = book[i]

(* The controllers together implement the replica that the listeners are   *)
(* promised.                                                               *)
Abstract == INSTANCE Replica WITH
  live    <- [i \in Securities |-> state[i] = "SYNC"],
  version <- [i \in Securities |-> Version(i)],
  view    <- book,
  shown   <- quote

ImplementsReplica == Abstract!Spec
=============================================================================
