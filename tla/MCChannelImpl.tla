---------------------------- MODULE MCChannelImpl ----------------------------
(* ChannelImpl for TLC: an instrument that is added, deleted and added      *)
(* again in the three packets of a cycle, and a symbol nobody defines.     *)
EXTENDS ChannelImpl

Definition(id, act) == [symbol |-> "ES", securityid |-> id, action |-> act]

MCDefinitions ==
  <<Definition(1, "Add"), Definition(1, "Delete"), Definition(1, "Add")>>

MCCut == [n \in 0 .. 3 |-> n]
=============================================================================
