------------------------------ MODULE Exchange ------------------------------
(***************************************************************************)
(* The exchange, as far as the adapter can tell: for every security a      *)
(* numbered history of updates.  The r-th update of a security carries     *)
(* RptSeq = r, and leaves the security's order book in a definite state,   *)
(* the reference book that replicas are compared with.  Nothing here is    *)
(* code of the adapter; it is what the handlers in subscriber/ are written *)
(* against (entries with rptSeq(), snapshots with rptSeq()).               *)
(*                                                                         *)
(* A book is the sequence of the updates it is built from.  Two books are  *)
(* equal exactly when they were built from the same updates in the same    *)
(* order, so an update that is lost, applied twice or applied out of order *)
(* shows, whatever prices and sizes it carries.  Module DepthList has the  *)
(* price levels themselves.                                                *)
(***************************************************************************)
EXTENDS Integers, Sequences, FiniteSets

CONSTANTS
  Securities,   \* the securities of one channel
  Kinds,        \* the kinds of update that are published, of the three below
  MaxUpdates    \* bound: how many updates are published

VARIABLE
  history       \* history[i][r] is the r-th update of security i

(***************************************************************************)
(* Kinds of update: "Book" is an entry of MDIncrementalRefreshBook32 that  *)
(* edits a price level, "Reset" one whose type is BookReset, and "Other"   *)
(* an entry of the six templates that carry a RptSeq but no book level     *)
(* (statistics, limits, volume, trades).                                   *)
(***************************************************************************)
ASSUME ExchangeAssumption ==
  /\ Kinds \subseteq {"Book", "Reset", "Other"}
  /\ MaxUpdates \in Nat

Books     == Seq(Nat)
EmptyBook == << >>

Updates == [kind : Kinds, book : Books]

(* The book that update number r of the given kind makes of a book.        *)
Apply(old, kind, r) ==
  CASE kind = "Book"  -> Append(old, r)
    [] kind = "Reset" -> EmptyBook
    [] kind = "Other" -> old

(* RptSeq of the latest update of i, and the book after update v.          *)
LastRptSeq(i) == Len(history[i])
RefBook(i, v) == IF v = 0 THEN EmptyBook ELSE history[i][v].book

Published == {u \in Securities \X (1 .. MaxUpdates) : u[2] <= LastRptSeq(u[1])}

ExchangeInit == history = [i \in Securities |-> << >>]

Publish(i, kind) ==
  /\ Cardinality(Published) < MaxUpdates
  /\ history' = [history EXCEPT ![i] =
                   Append(@, [kind |-> kind,
                              book |-> Apply(RefBook(i, LastRptSeq(i)), kind,
                                             LastRptSeq(i) + 1)])]

(* Every update carries the book that it makes of the one before.          *)
HistoryOK ==
  \A i \in Securities : \A r \in 1 .. LastRptSeq(i) :
    history[i][r].book = Apply(RefBook(i, r - 1), history[i][r].kind, r)
=============================================================================
