------------------------------ MODULE MCShardClerk ------------------------------
(***************************************************************************)
(* Instances of ShardClerk for TLC: two keys, in different shards.          *)
(***************************************************************************)
EXTENDS ShardClerk, TLC

CONSTANTS c1, mck       \* threads, as model values
MCKey == {<<>>, <<97>>}
=================================================================================
