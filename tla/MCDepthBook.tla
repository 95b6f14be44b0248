----------------------------- MODULE MCDepthBook -----------------------------
(* Two lists of two books; the second book has one level at most.          *)
EXTENDS DepthBook

OneImpliedOffer ==
  \A p \in Prices : full["ImpliedOffer"][p] > 0 =>
    p = 1 /\ full["ImpliedOffer"][p] = 1
=============================================================================
