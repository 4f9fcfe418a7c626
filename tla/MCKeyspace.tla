----------------------------- MODULE MCKeyspace -----------------------------
(***************************************************************************)
(* Small instances of Keyspace.                                            *)
(***************************************************************************)
EXTENDS Keyspace, TLC

Symmetry == Permutations(Keys)
=============================================================================
