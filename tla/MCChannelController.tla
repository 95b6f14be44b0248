------------------------- MODULE MCChannelController -------------------------
(* ChannelController for TLC: the securities of a channel are              *)
(* interchangeable.                                                        *)
EXTENDS ChannelController, TLC

Symmetry == Permutations(Securities)
=============================================================================
