--------------------------- MODULE MCMarketplace ---------------------------
(* One room and one customer for TLC.  Both processes serve requests, and one of them also
   runs the release job. *)
EXTENDS Marketplace

CONSTANTS w1, w2, b1, b2, m1

OneSlot == {<<1, 2>>}
=============================================================================
