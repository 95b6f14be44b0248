----------------------- MODULE MCInstrumentCarousel ------------------------
(* InstrumentCarousel for TLC: three definitions in three packets.         *)
EXTENDS InstrumentCarousel

Definition(symbol, id) ==
  [symbol |-> symbol, securityid |-> id, action |-> "Add"]

MCDefinitions == <<Definition("ES", 1), Definition("NQ", 2), Definition("YM", 3)>>

MCCut == [n \in 0 .. 3 |-> n]
=============================================================================
