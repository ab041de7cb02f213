---------------------------- MODULE MCMetaQuorum ----------------------------
(* Instances of MetaQuorum for TLC.  Operations 1, 2, 3 run on gateways A, *)
(* B, A unless said otherwise; each instance fixes their kinds.            *)
EXTENDS MetaQuorum, TLC

Two   == {1, 2}
Three == {1, 2, 3}
ViaTwo   == 1 :> "A" @@ 2 :> "B"
ViaThree == 1 :> "A" @@ 2 :> "B" @@ 3 :> "A"
ViaApart == 1 :> "A" @@ 2 :> "B" @@ 3 :> "C"

PutPut       == 1 :> "put" @@ 2 :> "put"
PutDelete    == 1 :> "put" @@ 2 :> "delete"
PutPutPut    == 1 :> "put" @@ 2 :> "put" @@ 3 :> "put"
PutPutDelete == 1 :> "put" @@ 2 :> "put" @@ 3 :> "delete"
PutUpdateDelete == 1 :> "put" @@ 2 :> "update" @@ 3 :> "delete"
PutDeleteDelete == 1 :> "put" @@ 2 :> "delete" @@ 3 :> "delete"

Slow == {1}
Skewed == {1, 3}
NoFaults   == {}
LateLosses == {"lost", "late", "down", "die"}
Crashes    == {"lost", "down", "crash"}

JustDown == {"down"}
Dying    == {"die"}
Passing  == {"die", "unread"}
Inside == {"lost", "late", "crash", "unread"}
Outside == {"lost", "late", "down", "unread", "die"}
CopySymmetry == Permutations(Copies)
=============================================================================
