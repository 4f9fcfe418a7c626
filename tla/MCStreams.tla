------------------------------ MODULE MCStreams ------------------------------
(***************************************************************************)
(* A small instance of Streams.                                            *)
(***************************************************************************)
EXTENDS Streams, TLC

MCStreamOrder == <<"a", "b">>
MCExplicitIDs == {<<2, 1>>}
MCReadArgs == {[streams |-> {"a", "b"}, count |-> 1]}
MCXReadKeys == {{"b"}}
=============================================================================
