------------------------------ MODULE Replica -------------------------------
(***************************************************************************)
(* What the adapter promises its listeners about each order book, without  *)
(* a word about packets, gaps or feeds.  A replica of security i stands at *)
(* a version of the exchange's history and holds the reference book of     *)
(* that version, never a mixture of versions.  The version only moves      *)
(* forward, except when the whole channel is reset, and listeners are only *)
(* ever shown the book the replica holds at that moment.                   *)
(***************************************************************************)
EXTENDS Exchange

VARIABLES
  live,      \* live[i]: the replica claims to follow the exchange
  version,   \* version[i]: the RptSeq the replica stands at, 0 before any
  view,      \* view[i]: the book the replica holds
  shown      \* shown[i]: the book last given to listeners, and its version

replicaVars == <<history, live, version, view, shown>>

Quotes == [book : Books, version : Nat]
NoQuote == [book |-> EmptyBook, version |-> 0]

Init ==
  /\ ExchangeInit
  /\ live    = [i \in Securities |-> FALSE]
  /\ version = [i \in Securities |-> 0]
  /\ view    = [i \in Securities |-> EmptyBook]
  /\ shown   = [i \in Securities |-> NoQuote]

Extend(i, kind) ==
  /\ Publish(i, kind)
  /\ UNCHANGED <<live, version, view, shown>>

\* Follow the next update, or jump ahead to a snapshot of a later version.
Advance(i, v) ==
  /\ v \in version[i] .. LastRptSeq(i)
  /\ live'    = [live EXCEPT ![i] = TRUE]
  /\ version' = [version EXCEPT ![i] = v]
  /\ view'    = [view EXCEPT ![i] = RefBook(i, v)]
  /\ UNCHANGED <<history, shown>>

LoseSync(i) ==
  /\ live[i]
  /\ live' = [live EXCEPT ![i] = FALSE]
  /\ UNCHANGED <<history, version, view, shown>>

Show(S) ==
  /\ shown' = [i \in Securities |->
                 IF i \in S THEN [book |-> view[i], version |-> version[i]]
                            ELSE shown[i]]
  /\ UNCHANGED <<history, live, version, view>>

Restart(i) ==
  /\ live'    = [live EXCEPT ![i] = TRUE]
  /\ version' = [version EXCEPT ![i] = 0]
  /\ view'    = [view EXCEPT ![i] = EmptyBook]
  /\ shown'   = [shown EXCEPT ![i] = NoQuote]
  /\ UNCHANGED history

Next ==
  \/ \E i \in Securities, kind \in Kinds : Extend(i, kind)
  \/ \E i \in Securities : \E v \in 0 .. LastRptSeq(i) : Advance(i, v)
  \/ \E i \in Securities : LoseSync(i) \/ Restart(i)
  \/ \E S \in SUBSET Securities : Show(S)

Spec == Init /\ [][Next]_replicaVars
=============================================================================
