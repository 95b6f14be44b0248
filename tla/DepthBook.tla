----------------------------- MODULE DepthBook ------------------------------
(***************************************************************************)
(* marketdata/DepthBook, twice (book_ and implbook_), as the handlers of   *)
(* subscriber/InstrumentMdHandler edit it: four lists, one per type of     *)
(* entry, against the books of the exchange they are to mirror.            *)
(*                                                                         *)
(* The exchange is external.  It keeps every price level and publishes the *)
(* best Depth of them by the operations DepthList has: a change of a level *)
(* nobody sees is not published, and when visible levels go, the ones that *)
(* move up are published as new.  Entries are handled in the order they    *)
(* were published and none is lost: InstrumentController sees to that.     *)
(***************************************************************************)
EXTENDS DepthList

CONSTANTS
  EntryTypes,   \* the types of entry in use, of the four below
  MaxPrice,     \* bound: how many prices there are, 1 the best of its side
  MaxQuantity,  \* bound: the largest quantity
  MaxEntries    \* bound: how many entries are published ahead of the handler

ASSUME BookAssumption ==
  /\ EntryTypes \subseteq {"Bid", "Offer", "ImpliedBid", "ImpliedOffer"}
  /\ {MaxPrice, MaxQuantity, MaxEntries} \subseteq Nat
  /\ Prices = 1 .. MaxPrice
  /\ Quantities = 1 .. MaxQuantity

VARIABLES
  full,     \* full[t][p]: the quantity at price p in the exchange's book
  entries,  \* entries published and not handled yet
  lists     \* lists[t]: bids_ or asks_ of book_ or implbook_

vars == <<full, entries, lists>>

(* An entry of MDIncrementalRefreshBook32; fields an action does not read  *)
(* are 0.                                                                  *)
Entry(t, action, level, price, quantity) ==
  [type |-> t, action |-> action, level |-> level,
   price |-> price, quantity |-> quantity]

BookReset == Entry("BookReset", "New", 0, 0, 0)
-----------------------------------------------------------------------------
(* The exchange.                                                           *)

NoLevels == [p \in Prices |-> 0]

Present(b) == {p \in Prices : b[p] # 0}

Rank(b, p) == Cardinality({x \in Present(b) : x <= p})

\* The levels of a book, best first, and those of them that are published.
AllLevels(b) ==
  [r \in 1 .. Cardinality(Present(b)) |->
     LET p == CHOOSE p \in Present(b) : Rank(b, p) = r
     IN  [price |-> p, quantity |-> b[p]]]

Visible(b) == Best(AllLevels(b))

\* New entries for the levels that move up behind the first `kept`.
Refill(t, b, kept) ==
  LET seen == Visible(b)
  IN  [k \in 1 .. Len(seen) - kept |->
        Entry(t, "New", kept + k, seen[kept + k].price, seen[kept + k].quantity)]

Publish(t, b, new) ==
  /\ Len(entries) + Len(new) <= MaxEntries
  /\ full' = [full EXCEPT ![t] = b]
  /\ entries' = entries \o new
  /\ UNCHANGED lists

Insert(t, p, q) ==
  /\ full[t][p] = 0
  /\ LET b == [full[t] EXCEPT ![p] = q]
     IN  Publish(t, b, IF Rank(b, p) > Depth THEN << >>
                       ELSE <<Entry(t, "New", Rank(b, p), p, q)>>)

Amend(t, p, q) ==
  /\ full[t][p] \notin {0, q}
  /\ LET b == [full[t] EXCEPT ![p] = q]
     IN  Publish(t, b, IF Rank(b, p) > Depth THEN << >>
                       ELSE <<Entry(t, "Change", Rank(b, p), p, q)>>)

Withdraw(t, p) ==
  /\ full[t][p] # 0
  /\ LET b == [full[t] EXCEPT ![p] = 0]
         r == Rank(full[t], p)
     IN  Publish(t, b, IF r > Depth THEN << >>
                       ELSE <<Entry(t, "Delete", r, p, 0)>>
                              \o Refill(t, b, Len(Visible(full[t])) - 1))

\* The best n levels are traded away.
Sweep(t, n) ==
  /\ n \in 1 .. Len(Visible(full[t]))
  /\ LET b == [p \in Prices |-> IF Rank(full[t], p) <= n THEN 0 ELSE full[t][p]]
     IN  Publish(t, b, <<Entry(t, "DeleteFrom", n, 0, 0)>>
                         \o Refill(t, b, Len(Visible(full[t])) - n))

\* Level n and all behind it are withdrawn.
CutOff(t, n) ==
  /\ n \in 1 .. Len(Visible(full[t]))
  /\ LET b == [p \in Prices |-> IF Rank(full[t], p) >= n THEN 0 ELSE full[t][p]]
     IN  Publish(t, b, <<Entry(t, "DeleteThru", n, 0, 0)>>)

ResetBooks ==
  /\ Len(entries) < MaxEntries
  /\ full' = [t \in EntryTypes |-> NoLevels]
  /\ entries' = Append(entries, BookReset)
  /\ UNCHANGED lists
-----------------------------------------------------------------------------
(* InstrumentMdHandler.                                                    *)

\* HandleBidEntry and HandleAskEntry, which differ in the list they edit.
\* An action the switch has no case for is ignored.
Edit(list, e) ==
  CASE e.action = "New"        -> Add(list, e.level, e.price, e.quantity)
    [] e.action = "Change"     -> Update(list, e.level, e.price, e.quantity)
    [] e.action = "Delete"     -> Delete(list, e.level, e.price)
    [] e.action = "DeleteFrom" -> DeleteFrom(list, e.level)
    [] e.action = "DeleteThru" -> DeleteThru(list, e.level)
    [] OTHER                   -> list

ClearState == [t \in EntryTypes |-> Clear]

OnIncremental ==
  /\ entries # << >>
  /\ LET e == Head(entries)
     IN  lists' = IF e = BookReset THEN ClearState
                  ELSE [lists EXCEPT ![e.type] = Edit(@, e)]
  /\ entries' = Tail(entries)
  /\ UNCHANGED full

\* The Add per level that loads one list from a snapshot.
Load(seen) ==
  LET load[n \in 0 .. Len(seen)] ==
        IF n = 0 THEN Clear
        ELSE Add(load[n - 1], n, seen[n].price, seen[n].quantity)
  IN  load[Len(seen)]

\* A snapshot of the books as last published, after ClearState; the entries
\* it overtakes will be discarded by their RptSeq.
OnSnapshot ==
  /\ lists' = [t \in EntryTypes |-> Load(Visible(full[t]))]
  /\ entries' = << >>
  /\ UNCHANGED full
-----------------------------------------------------------------------------
Init ==
  /\ full = [t \in EntryTypes |-> NoLevels]
  /\ entries = << >>
  /\ lists = ClearState

Exchange ==
  \/ \E t \in EntryTypes, p \in Prices :
       Withdraw(t, p) \/ \E q \in Quantities : Insert(t, p, q) \/ Amend(t, p, q)
  \/ \E t \in EntryTypes, n \in 1 .. Depth : Sweep(t, n) \/ CutOff(t, n)
  \/ ResetBooks

Next == Exchange \/ OnIncremental \/ OnSnapshot

Spec == Init /\ [][Next]_vars
-----------------------------------------------------------------------------
(* Properties.                                                             *)

Books   == [Prices -> 0 .. MaxQuantity]
Actions == {"New", "Change", "Delete", "DeleteFrom", "DeleteThru"}
Entries == [type : EntryTypes, action : Actions, level : 1 .. Depth,
            price : 0 .. MaxPrice, quantity : 0 .. MaxQuantity]

(* The type of every variable; a list never outgrows the depth the vector  *)
(* was reserved for.                                                       *)
TypeOK ==
  /\ full \in [EntryTypes -> Books]
  /\ entries \in Seq(Entries \cup {BookReset}) /\ Len(entries) <= MaxEntries
  /\ lists \in [EntryTypes -> Lists]

(* When every published entry is handled, each list is the best levels of  *)
(* the exchange's book, level by level: insertions, deletions, sweeps and  *)
(* the levels they push over the edge or pull back add up.                 *)
MirrorsTheBook ==
  entries = << >> => \A t \in EntryTypes : lists[t] = Visible(full[t])

(* Even half-way through a burst of entries the prices of a list are in    *)
(* order and no price is there twice.                                      *)
AlwaysSorted ==
  \A t \in EntryTypes : \A m, n \in 1 .. Len(lists[t]) :
    m < n => lists[t][m].price < lists[t][n].price

(* No entry of a stream without losses is refused as out of range or for   *)
(* its price: the checks of Add, Update and Delete are never the ones to   *)
(* decide what the book contains.                                          *)
EveryEntryTakes ==
  [][OnIncremental /\ Head(entries) # BookReset
       => lists'[Head(entries).type] # lists[Head(entries).type]]_vars
=============================================================================
