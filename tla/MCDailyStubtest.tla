-------------------------- MODULE MCDailyStubtest --------------------------
(***************************************************************************)
(* An instance of DailyStubtest for TLC: the shard indices of the matrix   *)
(* are 0..NumShards - 1.                                                   *)
(***************************************************************************)
EXTENDS DailyStubtest

CONSTANT linux, stdlib

MCShardIndex == 0..NumShards - 1
=============================================================================
