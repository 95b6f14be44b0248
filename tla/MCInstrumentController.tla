----------------------- MODULE MCInstrumentController -----------------------
(* InstrumentController for TLC: the securities of a channel are           *)
(* interchangeable.                                                        *)
EXTENDS InstrumentController, TLC

Symmetry == Permutations(Securities)
=============================================================================
