--------------------------- MODULE MCBlockingList ---------------------------
(***************************************************************************)
(* Instances of BlockingList for TLC.                                      *)
(***************************************************************************)
EXTENDS BlockingList

CONSTANTS k1, k2, c1, c2
TwoKeys == {k1, k2}
TwoConsumers == {c1, c2}
BothOrders == {<<k1>>, <<k1, k2>>}
=============================================================================
