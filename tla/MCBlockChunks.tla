---------------------------- MODULE MCBlockChunks ----------------------------
(* Instances of BlockChunks for TLC.                                       *)
EXTENDS BlockChunks, TLC

Alike == Permutations(Stripes) \cup Permutations(Volumes) \cup Permutations(Snapshots)
=============================================================================
