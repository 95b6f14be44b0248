------------------------ MODULE MCSymbolController -------------------------
(* SymbolController for TLC: a cycle with every kind of definition, in      *)
(* five packets, the first and the fourth of which carry no definition.    *)
EXTENDS SymbolController

Definition(symbol, id, action) ==
  [symbol |-> symbol, securityid |-> id, action |-> action]

MCDefinitions == <<Definition("ES", 1, "Add"), Definition("NQ", 2, "Add"),
                   Definition("ES", 3, "Modify"), Definition("ES", 1, "Delete"),
                   Definition("NQ", 4, "Add"), Definition("ES", 5, "Add"),
                   Definition("YM", 6, "Add")>>

MCCut == [n \in 0 .. 5 |-> CASE n <= 1 -> 0 [] n = 2 -> 2 [] n = 3 -> 5
                             [] n = 4 -> 5 [] n = 5 -> 7]
=============================================================================
