--------------------------- MODULE MCShardUpload ----------------------------
(* An instance of ShardUpload for TLC.                                     *)
EXTENDS ShardUpload

CONSTANTS d1, d2, d3

ThreeNodes == <<d1, d2, d3>>

RS21 == [type |-> "RS", k |-> 2, m |-> 1]
=============================================================================
