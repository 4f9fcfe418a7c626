---------------------------- MODULE MCPersistence ----------------------------
(***************************************************************************)
(* Instances of Persistence for TLC: which clients exist and what they     *)
(* send is set in the .cfg files.                                          *)
(***************************************************************************)
EXTENDS Persistence

CONSTANTS r1, r2, h1, b1
OneResp == {r1}
TwoResp == {r1, r2}
OneHttp == {h1}
OneBlock == {b1}
Nobody == {}
AllRespOps == {"SET", "SETNX", "INCR", "LPUSH", "LPOP", "FLUSHDB"}
AllHttpOps == {"SET", "SETNX", "INCR", "FLUSHDB"}
=============================================================================
