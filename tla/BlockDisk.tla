------------------------------ MODULE BlockDisk ------------------------------
(***************************************************************************)
(* What a block volume promises its clients: a disk of cells.  Writes take *)
(* effect one at a time and are numbered in that order; val is the number  *)
(* of the write whose bytes a cell shows.  A crash may take back writes    *)
(* that were not acknowledged, or bring to light ones that were refused,   *)
(* and one it took back may still come later; none of this takes back a    *)
(* write that was acknowledged.                                            *)
(***************************************************************************)
EXTENDS Naturals, Sequences

CONSTANT Cells

VARIABLES wrote,  \* the cells each write sets, in the order of the writes
          acked,  \* the writes acknowledged
          val,    \* what each cell shows; 0: zeros, never written
          stops   \* how often the disk crashed

diskvars == <<wrote, acked, val, stops>>

Init == /\ wrote = <<>>
        /\ acked = {}
        /\ val = [c \in Cells |-> 0]
        /\ stops = 0

Write(S) == /\ wrote' = Append(wrote, S)
            /\ val' = [c \in Cells |-> IF c \in S THEN Len(wrote) + 1 ELSE val[c]]
            /\ UNCHANGED <<acked, stops>>

\* An error to its client, though its bytes may be somewhere.
RefusedWrite(S) == /\ wrote' = Append(wrote, S)
                   /\ UNCHANGED <<acked, val, stops>>

Ack(w) == /\ \A c \in wrote[w] : val[c] >= w
          /\ acked' = acked \cup {w}
          /\ UNCHANGED <<wrote, val, stops>>

\* Each cell shows a write made to it, at or after the last acknowledged one.
Kept == /\ val' \in [Cells -> 0..Len(wrote)]
        /\ \A c \in Cells :
              /\ val'[c] # 0 => c \in wrote[val'[c]]
              /\ \A w \in acked : c \in wrote[w] => val'[c] >= w

Crash == /\ Kept
         /\ stops' = stops + 1
         /\ UNCHANGED <<wrote, acked>>

\* After a crash a write with no answer may yet come, and go again.
Surface == /\ stops > 0 /\ Kept
           /\ UNCHANGED <<wrote, acked, stops>>

Next == \/ \E S \in SUBSET Cells : Write(S) \/ RefusedWrite(S)
        \/ \E w \in 1..Len(wrote) : Ack(w)
        \/ Crash
        \/ Surface

Spec == Init /\ [][Next]_diskvars
=============================================================================
