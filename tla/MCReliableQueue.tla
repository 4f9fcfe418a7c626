--------------------------- MODULE MCReliableQueue ---------------------------
(***************************************************************************)
(* Instances of ReliableQueue for TLC: the constants are set in the .cfg   *)
(* files of the runs.                                                      *)
(***************************************************************************)
EXTENDS ReliableQueue

CONSTANTS c1, c2
MCConsumers == {c1, c2}
=============================================================================
