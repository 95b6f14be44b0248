----------------------------- MODULE DepthList ------------------------------
(***************************************************************************)
(* marketdata/DepthList: one side of an order book, the vector levels_ of  *)
(* at most size_ price levels, best first.  Level numbers are those of the *)
(* feed and start at 1.  A request the list cannot satisfy is reported on  *)
(* a stream and leaves the list as it is.                                  *)
(*                                                                         *)
(* The code compares level - 1, an int, with levels_.size(), a size_t: the *)
(* int is converted to unsigned, so level 0 is beyond every size.          *)
(***************************************************************************)
EXTENDS Integers, SequencesExt

CONSTANTS
  Prices,      \* the prices of levels, floats the list only compares
  Quantities,  \* the quantities of levels
  Depth        \* size_, the marketdepth of the instrument's definition

ASSUME DepthAssumption == Depth \in Nat

Levels == [price : Prices, quantity : Quantities]
Lists  == {list \in Seq(Levels) : Len(list) <= Depth}

\* The published part of a list of any length.
Best(all) == IF Len(all) > Depth THEN SubSeq(all, 1, Depth) ELSE all

Has(list, level) == level \in 1 .. Len(list)

Clear == << >>

\* Mutants: the list is not cut back; the new level goes behind the old one.
Add_Unbounded(list, level, price, quantity) ==
  IF level \notin 1 .. Len(list) + 1 THEN list
  ELSE InsertAt(list, level, [price |-> price, quantity |-> quantity])

Add_Behind(list, level, price, quantity) ==
  IF level \notin 1 .. Len(list) + 1 THEN list
  ELSE LET place == IF Has(list, level) THEN level + 1 ELSE level
           grown == InsertAt(list, place, [price |-> price, quantity |-> quantity])
       IN  IF Len(grown) > Depth THEN RemoveAt(grown, Depth + 1) ELSE grown

\* The level is inserted, and the one pushed beyond the depth is dropped.
Add(list, level, price, quantity) ==
  IF level \notin 1 .. Len(list) + 1 THEN list
  ELSE LET grown == InsertAt(list, level, [price |-> price, quantity |-> quantity])
       IN  IF Len(grown) > Depth THEN RemoveAt(grown, Depth + 1) ELSE grown

\* Update and Delete name the price they expect at the level.
Update(list, level, price, quantity) ==
  IF Has(list, level) /\ list[level].price = price
    THEN [list EXCEPT ![level].quantity = quantity]
    ELSE list

\* Mutant: the level after the one meant.
Delete_Next(list, level, price) ==
  IF Has(list, level) /\ Has(list, level + 1) THEN RemoveAt(list, level + 1) ELSE list

Delete(list, level, price) ==
  IF Has(list, level) /\ list[level].price = price
    THEN RemoveAt(list, level)
    ELSE list

\* Mutant: one level too few.
DeleteFrom_Short(list, level) ==
  IF Has(list, level) THEN SubSeq(list, level, Len(list)) ELSE list

\* DeleteFrom removes levels 1 to level, DeleteThru level and all behind it.
DeleteFrom(list, level) ==
  IF Has(list, level) THEN SubSeq(list, level + 1, Len(list)) ELSE list

DeleteThru(list, level) ==
  IF Has(list, level) THEN SubSeq(list, 1, level - 1) ELSE list
=============================================================================
