---------------------------- MODULE MCReplication ----------------------------
(***************************************************************************)
(* Instances of Replication for TLC.                                       *)
(***************************************************************************)
EXTENDS Replication

CONSTANTS c1, c2
OneClient == {c1}
TwoClients == {c1, c2}
=============================================================================
