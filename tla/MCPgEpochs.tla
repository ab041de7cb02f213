----------------------------- MODULE MCPgEpochs -----------------------------
(* Instances of PgEpochs for TLC.                                          *)
EXTENDS PgEpochs, TLC

Unanswered == {"down", "drain", "late"}
Apart      == {"down", "drain", "lost"}
Stopping   == {"down"}
Draining   == {"drain"}

Alike == Permutations(Members) \cup Permutations(Osds \ Members)
=============================================================================
