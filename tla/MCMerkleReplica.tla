-------------------------- MODULE MCMerkleReplica --------------------------
(* MerkleReplica for TLC: the .cfg file gives the constants their values. *)
EXTENDS MerkleReplica
=============================================================================
