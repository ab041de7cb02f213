---------------------------- MODULE MCBlockVolume ----------------------------
(* Instances of BlockVolume for TLC.                                       *)
EXTENDS BlockVolume, TLC

Nobody == {}
TheLoop == {"loop"}
ARequest == {"rpc"}
AReader == {"reader"}
PowerFaults == {"power", "sync", "lost"}
ProcessFaults == {"kill", "write", "store"}
\* Clients are alike, and so are the parts of a chunk.
Alike == Permutations(Clients) \cup Permutations(Parts)
\* The steps of InTurnSpec among those of Spec.
InTurn == OneTakes'
=============================================================================
