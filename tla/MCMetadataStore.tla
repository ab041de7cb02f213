--------------------------- MODULE MCMetadataStore ---------------------------
(* Instances of MetadataStore for TLC.                                     *)
EXTENDS MetadataStore, TLC

ThreeWrites == {1, 2, 3}
\* A write of one key, a batch of both, a write of the other.
Overlapping == 1 :> {"a"} @@ 2 :> {"b", "a"} @@ 3 :> {"b"}
AnyFault == {"power", "kill", "write", "room", "sync", "index"}
JustKills == {"kill"}
=============================================================================
