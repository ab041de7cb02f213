------------------------- MODULE BlockContentProofs -------------------------
(***************************************************************************)
(* A volume, a snapshot or a clone shows what it was set to until it is    *)
(* deleted: no write, trim or delete of one of them reaches another.  And  *)
(* the registry's accounts are exact while no call is cut off.             *)
(***************************************************************************)
EXTENDS BlockChunksProofs, FiniteSetTheorems

-----------------------------------------------------------------------------
(* The inductive invariant.                                                *)

\* A holder's chunks are what they were set to.
Shows(h) == \A c \in Chunks : db.row[<<h, c>>].stripe = want[<<h, c>>]
Kept == \A h \in Holders : life[h] = "whole" => Shows(h)
\* Nothing is known of an id that was not given out.
Unused == \A h \in Holders : h \notin used => life[h] = "new" /\ \A c \in Chunks : want[<<h, c>>] = Nil

\* Only a commit's batch writes chunks of a holder that is whole, and a delete's
\* only those of one that was asked to be deleted.
Touches(m, h) == \E k \in DOMAIN m.new.row : k[1] = h
Elsewhere == \A i \in 1..Len(log) : \A h \in Holders : Touches(log[i], h) =>
                /\ log[i].by = "commit" \/ life[h] # "whole"
                /\ log[i].by \in {"commit", "share"} \/ life[h] = "doomed"

\* A batch that is to make a holder whole finds it so, and not open yet.
Settling(m, h) == m.by \in {"create", "share"} /\ Opening(m, h)
Ready(h) == Shows(h) /\ db.st[h] \notin {"available", "attached"} /\ \A j \in 1..Len(log) : ~Touches(log[j], h)
Settled == \A i \in 1..Len(log) : \A h \in Holders : (Settling(log[i], h) /\ life[h] = "new") =>
              Ready(h) /\ \A j \in 1..Len(log) : j < i => h \notin DOMAIN log[j].new.st

\* Of a holder that the call makes, the log has no state but the call's own.
OwnState(h) == \A i \in 1..Len(log) : h \in DOMAIN log[i].new.st => call.waits /\ i = Len(log)
Mine == call.waits => Own.by = call.op
Creating == (call.op = "create" /\ call.stage = "row" /\ life[call.to] = "new") => Ready(call.to) /\ OwnState(call.to)
Deleting == call.op = "delete" => life[call.to] = "doomed"
Committing == call.op = "commit" => \A i \in 1..Len(log) : ~(Settling(log[i], call.to) /\ life[call.to] = "new")

\* The target of a share shows what was asked for, but for the chunks left.
Asks(c) == want[<<call.to, c>>] = IF <<call.from, c>> \in DOMAIN call.rows THEN call.rows[<<call.from, c>>].stripe
                                  ELSE db.row[<<call.to, c>>].stripe
AllNext == IsShare(Own) => \A k \in ShareNext : <<call.to, k[2]>> \in DOMAIN Own.new.row
Copying == call.op = "share" =>
              /\ call.stage # "done" => life[call.to] # "whole"
              /\ call.stage = "mark" => OwnState(call.to)
              /\ call.stage = "share" => (\A c \in Chunks : Asks(c)) /\ (call.waits => AllNext)

ContentInv == Kept /\ Unused /\ Elsewhere /\ Settled /\ Creating /\ Deleting /\ Committing /\ Copying /\ Mine

LEMMA ContentParts == ContentInv => /\ Kept /\ Unused /\ Elsewhere /\ Settled /\ Creating /\ Deleting
                                    /\ Committing /\ Copying /\ Mine
  BY DEF ContentInv

-----------------------------------------------------------------------------
(* A call begins or ends.                                                  *)

LEMMA EndContent == ASSUME Types, ContentInv, Ends PROVE ContentInv'
<1>0. /\ call'.op = "none" /\ ~call'.waits /\ Len(log') <= Len(log) /\ Len(log) \in Nat /\ Len(log') \in Nat
      /\ \A i \in 1..Len(log') : i \in 1..Len(log) /\ log'[i] = log[i]
      /\ db' = db /\ used' = used /\ want' = want /\ life' = life
  <2>1. Len(log) \in Nat /\ Len(log') \in Nat
    BY DEF Types, Ends
  <2> QED BY <2>1, IdleType DEF Ends
<1>1. Kept' /\ Unused'
  BY <1>0, ContentParts DEF Kept, Unused, Shows
<1>2. Elsewhere'
  BY <1>0, ContentParts DEF Elsewhere, Touches
<1>3. \A h : Ready(h) => Ready(h)'
  BY <1>0 DEF Ready, Shows, Touches
<1>4. Settled'
  <2> SUFFICES ASSUME NEW i \in 1..Len(log'), NEW h \in Holders, Settling(log'[i], h), life[h] = "new"
               PROVE  Ready(h)' /\ \A j \in 1..Len(log') : j < i => h \notin DOMAIN log'[j].new.st
    BY <1>0 DEF Settled, Settling, Opening
  <2>1. Ready(h) /\ \A j \in 1..Len(log) : j < i => h \notin DOMAIN log[j].new.st
    BY <1>0, ContentParts DEF Settled
  <2> QED BY <1>0, <1>3, <2>1
<1>5. Creating' /\ Deleting' /\ Committing' /\ Copying' /\ Mine'
  BY <1>0 DEF Creating, Deleting, Committing, Copying, Mine
<1> QED BY <1>1, <1>2, <1>4, <1>5 DEF ContentInv

LEMMA BeginContent == ASSUME Types, ChunksInv, ContentInv, Fits PROVE ContentInv'
<1>0. /\ db' = db /\ log' = log /\ want' = want /\ used \subseteq used' /\ ~call'.waits
      /\ \A h \in Holders : life'[h] # life[h] => h \in used /\ life'[h] = "doomed"
  BY DEF Fits
<1>1. Kept' /\ Unused'
  BY <1>0, ContentParts DEF Kept, Unused, Shows
<1>2. Elsewhere'
  BY <1>0, ContentParts DEF Elsewhere, Touches
<1>3. \A h : Ready(h) => Ready(h)'
  BY <1>0 DEF Ready, Shows, Touches
<1>4. Settled'
  <2> SUFFICES ASSUME NEW i \in 1..Len(log), NEW h \in Holders, Settling(log[i], h), life'[h] = "new"
               PROVE  Ready(h)' /\ \A j \in 1..Len(log) : j < i => h \notin DOMAIN log[j].new.st
    BY <1>0 DEF Settled, Settling, Opening
  <2> QED BY <1>0, <1>3, ContentParts DEF Settled
\* A new holder has no chunks, and is in no batch.
<1>5. ASSUME NEW h \in Holders \ used PROVE Ready(h) /\ life[h] = "new" /\ \A i \in 1..Len(log) : h \notin DOMAIN log[i].new.st
  <2>1. \A c \in Chunks : <<h, c>> \in Places /\ <<h, c>>[1] = h
    BY PlaceOf
  <2>2. \A c \in Chunks : db.row[<<h, c>>] = NoRow
    BY <2>1, InvParts DEF Given
  <2>3. Shows(h) /\ life[h] = "new"
    BY <2>2, ContentParts DEF Shows, Unused, NoRow
  <2>4. db.st[h] = "none"
    BY InvParts DEF Given
  <2>5. \A i \in 1..Len(log) : ~Touches(log[i], h) /\ h \notin DOMAIN log[i].new.st
    BY InvParts DEF Batches, BatchIds, Touches
  <2> QED BY <2>3, <2>4, <2>5 DEF Ready
<1>6. Creating'
  <2> SUFFICES ASSUME call'.op = "create" PROVE Ready(call.to)' /\ OwnState(call.to)'
    BY DEF Creating
  <2>1. PICK h \in Holders \ used : h = call'.to
    BY DEF Fits
  <2>2. Ready(h)' /\ OwnState(h)'
    BY <1>0, <1>3, <1>5 DEF OwnState
  <2> QED BY <2>1, <2>2
<1>7. Deleting' /\ Mine'
  BY <1>0 DEF Deleting, Fits, Mine
<1>8. Committing'
  <2> SUFFICES ASSUME call'.op = "commit", NEW i \in 1..Len(log), Settling(log[i], call'.to), life'[call'.to] = "new"
               PROVE  FALSE
    BY <1>0 DEF Committing, Settling, Opening
  <2>1. PICK h \in Holders : h = call'.to /\ db.st[h] \in {"available", "attached"}
    BY DEF Fits
  <2>2. life[h] = "new"
    BY <1>0, <2>1
  <2> QED BY <2>1, <2>2, ContentParts DEF Settled, Ready
<1>9. Copying'
  <2> SUFFICES ASSUME call'.op = "share"
               PROVE  call'.stage = "mark" /\ life'[call'.to] # "whole" /\ OwnState(call.to)'
    BY DEF Copying
  <2>1. PICK h \in Holders \ used : h = call'.to
    BY DEF Fits
  <2>2. OwnState(h)' /\ life'[h] # "whole"
    BY <1>0, <1>5 DEF OwnState
  <2> QED BY <2>1, <2>2 DEF Fits
<1> QED BY <1>1, <1>2, <1>4, <1>6, <1>7, <1>8, <1>9 DEF ContentInv

-----------------------------------------------------------------------------
(* A call proposes a batch.                                                *)

\* The batch is about the call's holder; only commits, shares and deletes write
\* chunks, a share once the log is empty; a share opens a holder that is whole.
Apt(d) == /\ DOMAIN d.st \subseteq {call.to} /\ \A k \in DOMAIN d.row : k[1] = call.to
          /\ DOMAIN d.row # {} => /\ call.op \in {"commit", "share", "delete"} /\ DOMAIN d.st = {}
                                  /\ call.op = "share" => log = <<>>
                                  /\ (call.op = "share" /\ call.stage = "share") =>
                                        \A k \in ShareNext : <<call.to, k[2]>> \in DOMAIN d.row
          /\ (call.op = "share" /\ Opening(MsgOf(d), call.to)) => log = <<>> /\ Ready(call.to)
          /\ call.op = "create" => call.stage = "row"

LEMMA ProposalContent ==
    ASSUME Types, ContentInv, NEW d \in Change, NEW F, Proposal(d, F), Apt(d),
           \A k \in DOMAIN d.row : Owned(k, d.row[k])
    PROVE  ContentInv'
<1>1. PICK m : m = MsgOf(d)
  OBVIOUS
<1>2. /\ ~call.waits /\ call.stage # "done" /\ call'.waits = TRUE
      /\ call'.op = call.op /\ call'.to = call.to /\ call'.from = call.from /\ call'.stage = call.stage
      /\ call'.rows = call.rows
      /\ log' = Append(log, m) /\ db' = db /\ used' = used /\ want' = want /\ life' = life
  BY <1>1 DEF Proposal, CarriesOn
<1>3. m \in Msg /\ m.new = d /\ m.by = call.op
  BY <1>1, Proposed
<1>4. /\ log \in Seq(Msg) /\ Len(log') = Len(log) + 1 /\ Len(log) \in Nat
      /\ \A i \in 1..Len(log) : log'[i] = log[i] /\ i \in 1..Len(log') /\ i < Len(log')
      /\ log'[Len(log')] = m /\ Own' = m
      /\ log = <<>> => Len(log) = 0
      /\ \A i \in 1..Len(log') : i \in 1..Len(log) \/ i = Len(log')
  <2>1. log \in Seq(Msg)
    BY DEF Types
  <2>2. /\ Len(log') = Len(log) + 1 /\ Len(log) \in Nat
        /\ \A i \in 1..Len(log) : log'[i] = log[i]
        /\ log'[Len(log) + 1] = m
    BY <1>2, <1>3, <2>1, LogAppend
  <2> QED BY <2>1, <2>2 DEF Own
\* Whom the batch writes chunks of.
<1>5. \A h : Touches(m, h) => h = call.to /\ call.op \in {"commit", "share", "delete"} /\ (call.op = "share" => log = <<>>)
  BY <1>3 DEF Touches, Apt
<1>6. \A h : h \in DOMAIN m.new.st => h = call.to
  BY <1>3 DEF Apt
<1>7. Kept' /\ Unused'
  BY <1>2, ContentParts DEF Kept, Unused, Shows
<1>8. Elsewhere'
  <2> SUFFICES ASSUME NEW i \in 1..Len(log'), NEW h \in Holders, Touches(log'[i], h)
               PROVE  /\ log'[i].by = "commit" \/ life[h] # "whole"
                      /\ log'[i].by \in {"commit", "share"} \/ life[h] = "doomed"
    BY <1>2 DEF Elsewhere, Touches
  <2>1. CASE i \in 1..Len(log)
    BY <1>4, <2>1, ContentParts DEF Elsewhere
  <2>2. CASE i = Len(log')
    <3>1. log'[i] = m /\ h = call.to /\ call.op \in {"commit", "share", "delete"}
      BY <1>4, <1>5, <2>2
    <3>2. CASE call.op = "delete"
      BY <3>1, <3>2, ContentParts DEF Deleting
    <3>3. CASE call.op = "share"
      BY <1>2, <1>3, <3>1, <3>3, ContentParts DEF Copying
    <3> QED BY <1>3, <3>1, <3>2, <3>3
  <2> QED BY <1>4, <2>1, <2>2
<1>9. ASSUME NEW h, Ready(h), ~Touches(m, h) PROVE Ready(h)'
  <2>1. \A j \in 1..Len(log') : ~Touches(log'[j], h)
    BY <1>4, <1>9 DEF Ready
  <2> QED BY <1>2, <1>9, <2>1 DEF Ready, Shows, Touches
<1>10. ASSUME NEW h, OwnState(h), h = call.to PROVE OwnState(h)' /\ \A i \in 1..Len(log) : h \notin DOMAIN log[i].new.st
  <2>1. \A i \in 1..Len(log) : h \notin DOMAIN log[i].new.st
    BY <1>2, <1>10 DEF OwnState
  <2> QED BY <1>2, <1>4, <2>1 DEF OwnState
<1>11. Settled'
  <2> SUFFICES ASSUME NEW i \in 1..Len(log'), NEW h \in Holders, Settling(log'[i], h), life[h] = "new"
               PROVE  Ready(h)' /\ \A j \in 1..Len(log') : j < i => h \notin DOMAIN log'[j].new.st
    BY <1>2 DEF Settled, Settling, Opening
  <2>1. CASE i \in 1..Len(log)
    <3>1. Settling(log[i], h)
      BY <1>4, <2>1
    <3>2. Ready(h) /\ \A j \in 1..Len(log) : j < i => h \notin DOMAIN log[j].new.st
      BY <2>1, <3>1, ContentParts DEF Settled
    <3>3. ~Touches(m, h)
      <4> SUFFICES ASSUME Touches(m, h) PROVE FALSE
        OBVIOUS
      <4>1. h = call.to /\ call.op \in {"commit", "delete"}
        BY <1>4, <1>5, <2>1
      <4>2. call.op # "delete"
        BY <4>1, ContentParts DEF Deleting
      <4>3. call.op # "commit"
        BY <2>1, <3>1, <4>1, ContentParts DEF Committing
      <4> QED BY <4>1, <4>2, <4>3
    <3>4. \A j \in 1..Len(log') : j < i => j \in 1..Len(log) /\ log'[j] = log[j]
      BY <1>4, <2>1
    <3> QED BY <1>9, <3>2, <3>3, <3>4
  <2>2. CASE i = Len(log')
    <3>1. h = call.to /\ call.op \in {"create", "share"} /\ Opening(m, h)
      BY <1>3, <1>4, <1>6, <2>2 DEF Settling, Opening
    <3>2. ~Touches(m, h)
      BY <1>3, <3>1 DEF Apt, Touches, Opening
    <3>3. CASE call.op = "create"
      <4>1. Ready(h) /\ OwnState(h)
        BY <3>1, <3>3, ContentParts DEF Creating, Apt
      <4> QED BY <1>4, <1>9, <1>10, <2>2, <3>1, <3>2, <4>1
    <3>4. CASE call.op = "share"
      <4>1. Ready(h) /\ log = <<>>
        BY <1>1, <3>1, <3>4 DEF Apt
      <4> QED BY <1>4, <1>9, <2>2, <3>2, <4>1
    <3> QED BY <3>1, <3>3, <3>4
  <2> QED BY <1>4, <2>1, <2>2
<1>12. Creating'
  <2> SUFFICES ASSUME call.op = "create", call.stage = "row", life[call.to] = "new"
               PROVE  Ready(call.to)' /\ OwnState(call.to)'
    BY <1>2 DEF Creating
  <2>1. PICK h : h = call.to /\ h = call'.to
    BY <1>2
  <2>2. Ready(h) /\ OwnState(h) /\ ~Touches(m, h)
    BY <1>5, <2>1, ContentParts DEF Creating
  <2>3. Ready(h)' /\ OwnState(h)'
    BY <1>9, <1>10, <2>1, <2>2
  <2> QED BY <2>1, <2>3
<1>13. Deleting' /\ Mine'
  BY <1>2, <1>3, <1>4, ContentParts DEF Deleting, Mine
<1>14. Committing'
  <2> SUFFICES ASSUME call.op = "commit", NEW i \in 1..Len(log'), Settling(log'[i], call.to), life[call.to] = "new"
               PROVE  FALSE
    BY <1>2 DEF Committing, Settling, Opening
  <2>1. i # Len(log')
    BY <1>3, <1>4 DEF Settling
  <2> QED BY <1>4, <2>1, ContentParts DEF Committing
<1>15. Copying'
  <2> SUFFICES ASSUME call.op = "share"
               PROVE  /\ life[call.to] # "whole"
                      /\ call.stage = "mark" => OwnState(call.to)'
                      /\ call.stage = "share" => (\A c \in Chunks : Asks(c)') /\ AllNext'
    BY <1>2 DEF Copying
  <2>1. life[call.to] # "whole"
    BY <1>2, ContentParts DEF Copying
  <2>2. ASSUME call.stage = "mark" PROVE OwnState(call.to)'
    <3>1. PICK h : h = call.to /\ h = call'.to
      BY <1>2
    <3>2. OwnState(h)'
      BY <1>10, <2>2, <3>1, ContentParts DEF Copying
    <3> QED BY <3>1, <3>2
  <2>3. ASSUME call.stage = "share" PROVE (\A c \in Chunks : Asks(c)') /\ AllNext'
    <3>1. \A c \in Chunks : Asks(c)'
      BY <1>2, <2>3, ContentParts DEF Copying, Asks
    <3>2. DOMAIN m.new.row # {} => \A k \in ShareNext : <<call.to, k[2]>> \in DOMAIN m.new.row
      BY <1>3, <2>3 DEF Apt
    <3>3. ShareNext' = ShareNext
      BY <1>2 DEF ShareNext
    <3> QED BY <1>2, <1>4, <3>1, <3>2, <3>3 DEF AllNext, IsShare
  <2> QED BY <2>1, <2>2, <2>3
<1> QED BY <1>7, <1>8, <1>11, <1>12, <1>13, <1>14, <1>15 DEF ContentInv

-----------------------------------------------------------------------------
(* Raft takes a batch.                                                     *)

\* A waiting call's own batch stays the last, and is the first only if served.
LEMMA PopsOwn ==
    ASSUME Types, ChunksInv, ContentInv, Pops, ~Served => call' = call, Served => ~call'.waits, call'.op = call.op
    PROVE  /\ Mine' /\ (\A h : OwnState(h) => OwnState(h)')
           /\ \A h : OwnState(h) /\ h \in DOMAIN log[1].new.st => Served
<1>0. /\ Len(log) \in Nat \ {0} /\ Len(log') = Len(log) - 1
      /\ \A i \in 1..Len(log') : i + 1 \in 1..Len(log) /\ log'[i] = log[i + 1]
      /\ Len(log) # 1 => Own' = Own
  BY PopsLeft DEF Pops
<1>1. Mine'
  BY <1>0, ContentParts DEF Mine, Served
<1>2. ASSUME NEW h, OwnState(h) PROVE OwnState(h)'
  <2> SUFFICES ASSUME NEW i \in 1..Len(log'), h \in DOMAIN log'[i].new.st PROVE call'.waits /\ i = Len(log')
    BY DEF OwnState
  <2>1. call.waits /\ i + 1 = Len(log)
    BY <1>0, <1>2 DEF OwnState
  <2>2. ~Served
    BY <1>0, <2>1 DEF Served
  <2> QED BY <1>0, <2>1, <2>2
<1>3. ASSUME NEW h, OwnState(h), h \in DOMAIN log[1].new.st PROVE Served
  <2>1. 1 \in 1..Len(log)
    BY <1>0
  <2> QED BY <1>3, <2>1 DEF OwnState, Served
<1> QED BY <1>1, <1>2, <1>3

LEMMA ConflictContent == ASSUME Types, ChunksInv, ContentInv, Conflicts PROVE ContentInv'
<1>0. /\ Pops /\ db' = db /\ used' = used /\ want' = want /\ life' = life
      /\ Served => CarriesOn(FALSE, {})
      /\ ~Served => call' = call
      /\ Len(log) \in Nat \ {0} /\ Len(log') = Len(log) - 1
      /\ \A i \in 1..Len(log') : i + 1 \in 1..Len(log) /\ log'[i] = log[i + 1]
  BY ConflictIs, PopsLeft DEF Pops
<1>1. /\ call'.op = call.op /\ call'.to = call.to /\ call'.from = call.from /\ call'.stage = call.stage
      /\ call'.rows = call.rows /\ (Served => ~call'.waits)
  BY <1>0 DEF CarriesOn
<1>2. Kept' /\ Unused' /\ Deleting'
  BY <1>0, <1>1, ContentParts DEF Kept, Unused, Shows, Deleting
<1>3. Elsewhere'
  <2> SUFFICES ASSUME NEW i \in 1..Len(log'), NEW h \in Holders, Touches(log'[i], h)
               PROVE  /\ log'[i].by = "commit" \/ life[h] # "whole"
                      /\ log'[i].by \in {"commit", "share"} \/ life[h] = "doomed"
    BY <1>0 DEF Elsewhere, Touches
  <2> QED BY <1>0, ContentParts DEF Elsewhere
<1>4. ASSUME NEW h, Ready(h) PROVE Ready(h)'
  <2>1. \A j \in 1..Len(log') : ~Touches(log'[j], h)
    BY <1>0, <1>4 DEF Ready
  <2> QED BY <1>0, <1>4, <2>1 DEF Ready, Shows, Touches
<1>5. Settled'
  <2> SUFFICES ASSUME NEW i \in 1..Len(log'), NEW h \in Holders, Settling(log'[i], h), life[h] = "new"
               PROVE  Ready(h)' /\ \A j \in 1..Len(log') : j < i => h \notin DOMAIN log'[j].new.st
    BY <1>0 DEF Settled, Settling, Opening
  <2>1. Ready(h) /\ \A j \in 1..Len(log) : j < i + 1 => h \notin DOMAIN log[j].new.st
    BY <1>0, ContentParts DEF Settled
  <2>2. \A j \in 1..Len(log') : j < i => j + 1 < i + 1
    OBVIOUS
  <2> QED BY <1>0, <1>4, <2>1, <2>2
<1>6. Mine' /\ \A h : OwnState(h) => OwnState(h)'
  BY <1>0, <1>1, PopsOwn
<1>7. PICK h : h = call.to /\ h = call'.to
  BY <1>1
<1>8. Creating'
  <2>1. (call.op = "create" /\ call.stage = "row" /\ life[h] = "new") => Ready(h) /\ OwnState(h)
    BY <1>7, ContentParts DEF Creating
  <2>2. (call.op = "create" /\ call.stage = "row" /\ life[h] = "new") => Ready(h)' /\ OwnState(h)'
    BY <1>4, <1>6, <2>1
  <2> QED BY <1>0, <1>1, <1>7, <2>2 DEF Creating
<1>9. Committing'
  BY <1>0, <1>1, ContentParts DEF Committing, Settling, Opening
<1>10. Copying'
  <2> SUFFICES ASSUME call.op = "share"
               PROVE  /\ call.stage # "done" => life[h] # "whole"
                      /\ call.stage = "mark" => OwnState(h)'
                      /\ call.stage = "share" => (\A c \in Chunks : Asks(c)') /\ ~call'.waits
    BY <1>0, <1>1, <1>7 DEF Copying
  <2>1. call.stage = "mark" => OwnState(h)'
    BY <1>6, <1>7, ContentParts DEF Copying
  <2>2. ASSUME call.stage = "share" PROVE (\A c \in Chunks : Asks(c)') /\ ~call'.waits
    <3>1. SharingRows
      BY <2>2, InvParts DEF Sharing
    <3>2. Served
      BY <1>0, <3>1 DEF SharingRows, Served
    <3> QED BY <1>0, <1>1, <2>2, <3>2, ContentParts DEF Copying, Asks
  <2> QED BY <1>7, <2>1, <2>2, ContentParts DEF Copying
<1> QED BY <1>2, <1>3, <1>5, <1>6, <1>8, <1>9, <1>10 DEF ContentInv

\* What the batch written makes of the histories.
Recalls(m) == /\ \A h \in Holders : life'[h] = IF life[h] = "new" /\ Settling(m, h) THEN "whole" ELSE life[h]
              /\ m.by = "commit" => \A k \in Places : want'[k] = IF k \in DOMAIN m.new.row THEN m.new.row[k].stripe
                                                                 ELSE want[k]
              /\ (m.by # "commit" /\ Served /\ call.op = "share" /\ call.stage = "mark") =>
                    \A k \in Places : want'[k] = IF k[1] = call.to THEN db.row[<<call.from, k[2]>>].stripe ELSE want[k]
              /\ (m.by # "commit" /\ ~(Served /\ call.op = "share" /\ call.stage = "mark")) => want' = want

LEMMA AppliedRecalls == ASSUME Types, Applied PROVE Recalls(log[1])
<1>1. PICK m : m = log[1]
  OBVIOUS
<1>2. Head(log) = m /\ m \in Msg
  BY <1>1, AppliedIs, LogTail DEF Pops, Types
<1>3. /\ want' = Over(Asked(m), want) /\ want \in [Places -> Stripes \cup {Nil}]
      /\ life' = [h \in Holders |-> IF life[h] = "new" /\ h \in Settles(m) THEN "whole" ELSE life[h]]
  BY <1>2 DEF Applied, Types, TypeOK, Places
<1>4. \A h \in Holders : life'[h] = IF life[h] = "new" /\ Settling(m, h) THEN "whole" ELSE life[h]
  BY <1>3 DEF Settles, Settling, Opening
<1>5. \A k \in Places : want'[k] = IF k \in DOMAIN Asked(m) THEN Asked(m)[k] ELSE want[k]
  BY <1>3 DEF Over
<1>6. CASE m.by = "commit"
  <2>1. Asked(m) = [k \in DOMAIN m.new.row |-> m.new.row[k].stripe]
    BY <1>6 DEF Asked
  <2>2. DOMAIN Asked(m) = DOMAIN m.new.row /\ \A k \in DOMAIN m.new.row : Asked(m)[k] = m.new.row[k].stripe
    BY <2>1
  <2> QED BY <1>1, <1>4, <1>5, <1>6, <2>2 DEF Recalls
<1>7. CASE m.by # "commit" /\ Served /\ call.op = "share" /\ call.stage = "mark"
  <2>1. Asked(m) = [k \in {call.to} \X Chunks |-> db.row[<<call.from, k[2]>>].stripe]
    BY <1>7 DEF Asked
  <2>2. \A k \in Places : k[1] = call.to <=> k \in {call.to} \X Chunks
    BY DEF Places
  <2>3. \A k \in Places : /\ k \in DOMAIN Asked(m) <=> k[1] = call.to
                          /\ k[1] = call.to => Asked(m)[k] = db.row[<<call.from, k[2]>>].stripe
    BY <2>1, <2>2
  <2> QED BY <1>1, <1>4, <1>5, <1>7, <2>3 DEF Recalls
<1>8. CASE m.by # "commit" /\ ~(Served /\ call.op = "share" /\ call.stage = "mark")
  <2>1. Asked(m) = <<>>
    BY <1>8 DEF Asked
  <2>2. DOMAIN Asked(m) = {}
    BY <2>1, EmptyPart
  <2>3. want' = want
    BY <1>3, <2>2 DEF Over
  <2> QED BY <1>1, <1>4, <1>8, <2>3 DEF Recalls
<1> QED BY <1>6, <1>7, <1>8

\* Chunks of a holder that the batch has none of stay as they are, and what the
\* holder shows, unless it is the target of the share that the batch marks.
LEMMA AppliedStays ==
    ASSUME Types, Applied, NEW h \in Holders, ~Touches(log[1], h)
    PROVE  /\ \A c \in Chunks : db'.row[<<h, c>>] = db.row[<<h, c>>]
           /\ h # call.to \/ ~(Served /\ call.op = "share" /\ call.stage = "mark") =>
                 \A c \in Chunks : want'[<<h, c>>] = want[<<h, c>>]
<1>1. PICK m : m = log[1]
  OBVIOUS
<1>2. Takes(m) /\ Recalls(m) /\ ~Touches(m, h)
  BY <1>1, AppliedIs, AppliedRecalls
<1>3. \A c \in Chunks : <<h, c>> \in Places /\ <<h, c>>[1] = h /\ <<h, c>> \notin DOMAIN m.new.row
  BY <1>2, PlaceOf DEF Touches
<1>4. \A c \in Chunks : db'.row[<<h, c>>] = db.row[<<h, c>>]
  BY <1>2, <1>3 DEF Takes
<1>5. ASSUME h # call.to \/ ~(Served /\ call.op = "share" /\ call.stage = "mark"), NEW c \in Chunks
      PROVE  want'[<<h, c>>] = want[<<h, c>>]
  BY <1>2, <1>3, <1>5 DEF Recalls
<1> QED BY <1>4, <1>5

\* What is marked, or shared, is not what makes a holder whole.
LEMMA MarksNothing ==
    ASSUME Types, ChunksInv, ContentInv, Applied, call.op = "share", Settling(log[1], call.to)
    PROVE  call.stage # "mark" /\ (call.stage = "share" => Served /\ call'.stage = "done")
<1>1. PICK m : m = log[1]
  OBVIOUS
<1>2. /\ Pops /\ (Served => Advances(m)) /\ (Len(log) = 1 => Own = m) /\ Len(log) \in Nat \ {0} /\ 1 \in 1..Len(log)
      /\ Opening(m, call.to) /\ m.by # "commit"
  BY <1>1, AppliedIs, PopsLeft DEF Pops, Settling
<1>3. ASSUME call.stage = "mark" PROVE FALSE
  <2>1. OwnState(call.to) /\ SharingMark
    BY <1>3, InvParts, ContentParts DEF Copying, Sharing
  <2>2. call.waits /\ Len(log) = 1
    BY <1>1, <1>2, <2>1 DEF OwnState, Opening
  <2> QED BY <1>2, <2>1, <2>2 DEF SharingMark, Opening
<1>4. ASSUME call.stage = "share" PROVE Served /\ call'.stage = "done"
  <2>1. SharingRows
    BY <1>4, InvParts DEF Sharing
  <2>2. Served /\ Own = m
    BY <1>2, <2>1 DEF SharingRows, Served
  <2>3. ~IsShare(m)
    BY <1>1, <1>2, InvParts DEF Batches, GivesTo, Opening
  <2>4. m.new.row = <<>>
    BY <2>1, <2>2, <2>3 DEF SharingRows, Served
  <2> QED BY <1>2, <1>4, <2>2, <2>4 DEF Advances
<1> QED BY <1>3, <1>4

\* A share goes on: the target shows what was asked for, but for the chunks left.
LEMMA AsksOn ==
    ASSUME Types, ChunksInv, ContentInv, Applied, Served, call.op = "share", call'.stage = "share", NEW c \in Chunks
    PROVE  Asks(c)'
<1>1. PICK m : m = log[1]
  OBVIOUS
<1>2. /\ Takes(m) /\ Recalls(m) /\ Advances(m) /\ Own = m /\ m.by = "share" /\ call.waits
  BY <1>1, AppliedIs, AppliedRecalls, PopsLeft, ContentParts DEF Served, Mine
<1>3. PICK to, from : to = call.to /\ from = call.from /\ to = call'.to /\ from = call'.from
  BY <1>2 DEF Advances
<1>4. /\ to \in Holders /\ from \in Holders /\ <<to, c>> \in Places /\ <<from, c>> \in Places
      /\ <<to, c>>[1] = to /\ <<to, c>>[2] = c /\ <<from, c>>[1] = from /\ <<from, c>>[2] = c
  BY <1>3, PlaceOf DEF Types, CallOf
<1>5. call.stage \in {"mark", "share"}
  BY <1>2, InvParts DEF Sharing, Types, CallOf
<1> SUFFICES want'[<<to, c>>] = IF <<from, c>> \in DOMAIN call'.rows THEN call'.rows[<<from, c>>].stripe
                                ELSE db'.row[<<to, c>>].stripe
  BY <1>3 DEF Asks
<1>6. CASE call.stage = "mark"
  <2>1. SharingMark
    BY <1>6, InvParts DEF Sharing
  <2>2. DOMAIN m.new.row = {} /\ db.row[<<to, c>>] = NoRow
    BY <1>2, <1>3, <2>1 DEF SharingMark
  <2>3. db'.row[<<to, c>>] = NoRow
    BY <1>2, <1>4, <2>2 DEF Takes
  <2>4. want'[<<to, c>>] = db.row[<<from, c>>].stripe
    BY <1>2, <1>3, <1>4, <1>6 DEF Recalls
  <2>5. call'.rows = [k \in RowsOf(from) |-> db.row[k]]
    BY <1>2, <1>3, <1>6 DEF Advances
  <2>6. <<from, c>> \in RowsOf(from) <=> db.row[<<from, c>>] # NoRow
    BY <1>4 DEF RowsOf
  <2> QED BY <2>3, <2>4, <2>5, <2>6
<1>7. CASE call.stage = "share"
  <2>1. SharingRows /\ AllNext /\ Asks(c)
    BY <1>2, <1>7, InvParts, ContentParts DEF Sharing, Copying
  <2>2. want' = want
    BY <1>2, <1>7 DEF Recalls
  <2>3. call'.rows = [k \in DOMAIN call.rows \ ShareNext |-> call.rows[k]] /\ m.new.row # <<>>
    BY <1>2, <1>7 DEF Advances
  <2>4. IsShare(m)
    BY <1>2, <2>1, <2>3 DEF SharingRows
  <2>5. /\ \A j \in DOMAIN m.new.row : \E k \in ShareNext :
              j = <<to, k[2]>> /\ m.new.row[j].stripe = call.rows[k].stripe
        /\ \A k \in ShareNext : <<to, k[2]>> \in DOMAIN m.new.row
    BY <1>2, <1>3, <2>1, <2>4 DEF SharingRows, AllNext
  <2>6. \A k \in ShareNext : k \in DOMAIN call.rows /\ k = <<from, k[2]>>
    <3>1. \A k \in ShareNext : k \in DOMAIN call.rows /\ k \in Places /\ k[1] = from
      BY <1>3, ShareType
    <3> QED BY <3>1, Place
  <2>7. want[<<to, c>>] = IF <<from, c>> \in DOMAIN call.rows THEN call.rows[<<from, c>>].stripe ELSE db.row[<<to, c>>].stripe
    BY <1>3, <2>1 DEF Asks
  <2>8. CASE <<from, c>> \in ShareNext
    <3>1. <<to, c>> \in DOMAIN m.new.row
      BY <1>4, <2>5, <2>8
    <3>2. PICK k \in ShareNext : <<to, c>> = <<to, k[2]>> /\ m.new.row[<<to, c>>].stripe = call.rows[k].stripe
      BY <2>5, <3>1
    <3>3. k[2] = c
      BY <3>2
    <3>4. k = <<from, c>>
      BY <2>6, <3>3
    <3>5. db'.row[<<to, c>>] = m.new.row[<<to, c>>]
      BY <1>2, <1>4, <3>1 DEF Takes
    <3>6. <<from, c>> \notin DOMAIN call'.rows /\ <<from, c>> \in DOMAIN call.rows
      BY <2>3, <2>6, <2>8
    <3> QED BY <2>2, <2>7, <3>2, <3>4, <3>5, <3>6
  <2>9. CASE <<from, c>> \in DOMAIN call.rows \ ShareNext
    <3>1. <<from, c>> \in DOMAIN call'.rows /\ call'.rows[<<from, c>>] = call.rows[<<from, c>>]
      BY <2>3, <2>9
    <3> QED BY <2>2, <2>7, <2>9, <3>1
  <2>10. CASE <<from, c>> \notin DOMAIN call.rows
    <3>1. <<to, c>> \notin DOMAIN m.new.row
      <4> SUFFICES ASSUME <<to, c>> \in DOMAIN m.new.row PROVE FALSE
        OBVIOUS
      <4>1. PICK k \in ShareNext : <<to, c>> = <<to, k[2]>>
        BY <2>5
      <4>2. k[2] = c
        BY <4>1
      <4> QED BY <2>6, <2>10, <4>2
    <3>2. db'.row[<<to, c>>] = db.row[<<to, c>>]
      BY <1>2, <1>4, <3>1 DEF Takes
    <3>3. <<from, c>> \notin DOMAIN call'.rows
      BY <2>3, <2>10
    <3> QED BY <2>2, <2>7, <2>10, <3>2, <3>3
  <2> QED BY <2>8, <2>9, <2>10
<1> QED BY <1>5, <1>6, <1>7

LEMMA AppliedContent == ASSUME Types, ChunksInv, ContentInv, Applied PROVE ContentInv'
<1>1. PICK m : m = log[1]
  OBVIOUS
<1>2. /\ Pops /\ Takes(m) /\ Recalls(m) /\ used' = used
      /\ Served => Advances(m)
      /\ ~Served => call' = call
      /\ Len(log) \in Nat \ {0} /\ Len(log') = Len(log) - 1 /\ 1 \in 1..Len(log)
      /\ \A i \in 1..Len(log') : i + 1 \in 1..Len(log) /\ log'[i] = log[i + 1] /\ 1 < i + 1
  BY <1>1, AppliedIs, AppliedRecalls, PopsLeft DEF Pops
<1>3. /\ call'.op = call.op /\ call'.to = call.to /\ call'.from = call.from /\ (Served => ~call'.waits)
      /\ (call.op # "none" => call.to \in Holders /\ call.to \in used)
      /\ life \in [Holders -> {"new", "whole", "doomed"}]
  BY <1>2, InvParts DEF Advances, Types, CallOf, TypeOK, Waiting
<1>4. \A h \in Holders : /\ life'[h] # life[h] => life[h] = "new" /\ Settling(m, h) /\ life'[h] = "whole"
                         /\ life'[h] = "new" => life[h] = "new" /\ ~Settling(m, h)
  BY <1>2 DEF Recalls
<1>5. Mine' /\ (\A h : OwnState(h) => OwnState(h)') /\ \A h : OwnState(h) /\ h \in DOMAIN m.new.st => Served
  BY <1>1, <1>2, <1>3, PopsOwn
\* A batch that makes a holder whole finds it so.
<1>6. ASSUME NEW h \in Holders, Settling(m, h), life[h] = "new" PROVE Ready(h)
  BY <1>1, <1>2, <1>6, ContentParts DEF Settled
<1>7. ASSUME NEW h \in Holders, Shows(h), ~Touches(m, h),
             h # call.to \/ ~(Served /\ call.op = "share" /\ call.stage = "mark")
      PROVE  Shows(h)'
  <2>1. \A c \in Chunks : db'.row[<<h, c>>] = db.row[<<h, c>>] /\ want'[<<h, c>>] = want[<<h, c>>]
    BY <1>1, <1>7, AppliedStays
  <2> QED BY <1>7, <2>1 DEF Shows
<1>8. Kept'
  <2> SUFFICES ASSUME NEW h \in Holders, life'[h] = "whole" PROVE Shows(h)'
    BY DEF Kept
  <2>1. CASE life[h] = "new"
    <3>1. Settling(m, h) /\ Ready(h)
      BY <1>4, <1>6, <2>1
    <3>2. Shows(h) /\ ~Touches(m, h)
      BY <1>1, <1>2, <3>1 DEF Ready
    <3>3. h # call.to \/ ~(call.op = "share" /\ call.stage = "mark")
      BY <1>1, <3>1, MarksNothing
    <3> QED BY <1>7, <3>2, <3>3
  <2>2. CASE life[h] = "whole"
    <3>1. Shows(h)
      BY <2>2, ContentParts DEF Kept
    <3>2. h # call.to \/ ~(call.op = "share" /\ call.stage = "mark")
      BY <2>2, ContentParts DEF Copying
    <3>3. CASE Touches(m, h)
      <4>1. m.by = "commit"
        BY <1>1, <1>2, <2>2, <3>3, ContentParts DEF Elsewhere
      <4>2. ASSUME NEW c \in Chunks PROVE db'.row[<<h, c>>].stripe = want'[<<h, c>>]
        <5>1. <<h, c>> \in Places
          BY PlaceOf
        <5> QED BY <1>2, <3>1, <4>1, <5>1 DEF Takes, Recalls, Shows
      <4> QED BY <4>2 DEF Shows
    <3> QED BY <1>7, <3>1, <3>2, <3>3
  <2> QED BY <1>3, <1>4, <2>1, <2>2
<1>9. Unused'
  <2> SUFFICES ASSUME NEW h \in Holders, h \notin used PROVE life'[h] = "new" /\ \A c \in Chunks : want'[<<h, c>>] = Nil
    BY <1>2 DEF Unused
  <2>1. life[h] = "new" /\ \A c \in Chunks : want[<<h, c>>] = Nil
    BY ContentParts DEF Unused
  <2>2. ~Touches(m, h) /\ ~Settling(m, h)
    BY <1>1, <1>2, InvParts DEF Batches, BatchIds, Touches, Settling, Opening
  <2>3. h # call.to \/ call.op = "none"
    BY <1>3
  <2>4. \A c \in Chunks : want'[<<h, c>>] = want[<<h, c>>]
    BY <1>1, <2>2, <2>3, AppliedStays
  <2> QED BY <1>4, <2>1, <2>2, <2>4
<1>10. Elsewhere'
  <2> SUFFICES ASSUME NEW i \in 1..Len(log'), NEW h \in Holders, Touches(log'[i], h)
               PROVE  /\ log'[i].by = "commit" \/ life'[h] # "whole"
                      /\ log'[i].by \in {"commit", "share"} \/ life'[h] = "doomed"
    BY DEF Elsewhere, Touches
  <2>1. Touches(log[i + 1], h) /\ i + 1 \in 1..Len(log) /\ log'[i] = log[i + 1]
    BY <1>2
  <2>2. life'[h] = life[h]
    BY <1>4, <1>6, <2>1 DEF Ready
  <2> QED BY <2>1, <2>2, ContentParts DEF Elsewhere
<1>11. ASSUME NEW h \in Holders, Ready(h), h \notin DOMAIN m.new.st,
              h # call.to \/ ~(Served /\ call.op = "share" /\ call.stage = "mark")
       PROVE  Ready(h)'
  <2>1. ~Touches(m, h) /\ Shows(h) /\ \A j \in 1..Len(log') : ~Touches(log'[j], h)
    BY <1>1, <1>2, <1>11 DEF Ready
  <2>2. db'.st[h] = db.st[h]
    BY <1>2, <1>11 DEF Takes
  <2>3. Shows(h)'
    BY <1>7, <1>11, <2>1
  <2> QED BY <1>11, <2>1, <2>2, <2>3 DEF Ready, Touches
<1>12. Settled'
  <2> SUFFICES ASSUME NEW i \in 1..Len(log'), NEW h \in Holders, Settling(log'[i], h), life'[h] = "new"
               PROVE  Ready(h)' /\ \A j \in 1..Len(log') : j < i => h \notin DOMAIN log'[j].new.st
    BY DEF Settled, Settling, Opening
  <2>1. Ready(h) /\ \A j \in 1..Len(log) : j < i + 1 => h \notin DOMAIN log[j].new.st
    BY <1>2, <1>4, ContentParts DEF Settled
  <2>2. ~Served /\ h \notin DOMAIN m.new.st
    BY <1>1, <1>2, <2>1 DEF Served
  <2>3. \A j \in 1..Len(log') : j < i => j + 1 < i + 1
    OBVIOUS
  <2> QED BY <1>2, <1>11, <2>1, <2>2, <2>3
<1>13. Creating'
  <2> SUFFICES ASSUME call.op = "create", call'.stage = "row", life'[call'.to] = "new"
               PROVE  Ready(call.to)' /\ OwnState(call.to)'
    BY <1>3 DEF Creating
  <2>1. ~Served /\ call' = call
    BY <1>2 DEF Advances
  <2>2. PICK h \in Holders : h = call.to /\ h = call'.to
    BY <1>3
  <2>3. Ready(h) /\ OwnState(h)
    BY <1>4, <2>1, <2>2, ContentParts DEF Creating
  <2>4. Ready(h)' /\ OwnState(h)'
    BY <1>5, <1>11, <2>1, <2>3
  <2> QED BY <2>2, <2>4
<1>14. Deleting'
  BY <1>3, <1>4, ContentParts DEF Deleting
<1>15. Committing'
  <2> SUFFICES ASSUME call.op = "commit", NEW i \in 1..Len(log'), Settling(log'[i], call.to), life'[call.to] = "new"
               PROVE  FALSE
    BY <1>3 DEF Committing, Settling, Opening
  <2> QED BY <1>2, <1>3, <1>4, ContentParts DEF Committing
<1>16. Copying'
  <2> SUFFICES ASSUME call.op = "share"
               PROVE  /\ call'.stage # "done" => life'[call.to] # "whole"
                      /\ call'.stage = "mark" => OwnState(call.to)'
                      /\ call'.stage = "share" => (\A c \in Chunks : Asks(c)') /\ ~call'.waits
    BY <1>3 DEF Copying
  <2>1. PICK h \in Holders : h = call.to /\ h = call'.to
    BY <1>3
  <2>2. /\ call.stage \in {"mark", "share", "done"} /\ (call.stage = "share" => SharingRows)
        /\ call.stage = "done" => ~Served /\ call'.stage = "done"
    BY <1>2, InvParts DEF Sharing, Types, CallOf, Served
  <2>3. ASSUME call'.stage # "done" PROVE life'[h] # "whole"
    <3>1. life[h] # "whole" /\ call.stage # "done"
      BY <2>1, <2>2, <2>3, ContentParts DEF Copying
    <3>2. ~Settling(m, h)
      BY <1>1, <2>1, <2>2, <2>3, <3>1, MarksNothing
    <3> QED BY <1>4, <3>1, <3>2
  <2>4. ASSUME call'.stage = "mark" PROVE OwnState(h)'
    <3>1. ~Served /\ call' = call
      BY <1>2, <2>4 DEF Advances
    <3>2. OwnState(h)
      BY <2>1, <2>4, <3>1, ContentParts DEF Copying
    <3> QED BY <1>5, <3>2
  <2>5. ASSUME call'.stage = "share" PROVE Served
    <3>1. CASE ~Served
      <4>1. SharingRows
        BY <1>2, <2>2, <2>5, <3>1
      <4> QED BY <1>2, <4>1 DEF SharingRows, Served
    <3> QED BY <3>1
  <2>6. ASSUME call'.stage = "share" PROVE (\A c \in Chunks : Asks(c)') /\ ~call'.waits
    BY <1>3, <2>5, <2>6, AsksOn
  <2>7. call'.stage = "mark" => OwnState(call.to)'
    BY <2>1, <2>4
  <2> QED BY <2>1, <2>3, <2>6, <2>7
<1> QED BY <1>5, <1>8, <1>9, <1>10, <1>12, <1>13, <1>14, <1>15, <1>16 DEF ContentInv

\* The state of a holder is set; a share opens its target only when it is ready.
LEMMA StateContent ==
    ASSUME Types, ContentInv, ~call.waits, call.stage # "done", call.op # "none", NEW st \in States,
           Sends(SetState(call.to, st)),
           call.op = "create" => call.stage = "row",
           (call.op = "share" /\ st = "available") => log = <<>> /\ Ready(call.to)
    PROVE  ContentInv'
<1>1. PICK h : h = call.to
  OBVIOUS
<1>2. PICK d : d = SetState(h, st)
  OBVIOUS
<1>3. h \in Holders
  BY <1>1 DEF Types, CallOf
<1>4. d \in Change /\ DOMAIN d.row = {} /\ DOMAIN d.st = {h} /\ d.st[h] = st
  BY <1>2, <1>3, SetStateType
<1>5. Proposal(d, call.freeing) /\ \A k \in DOMAIN d.row : Owned(k, d.row[k])
  BY <1>1, <1>2, <1>4, SendsIs
<1>6. MsgOf(d).new = d
  BY <1>4, <1>5, Proposed
<1>7. Apt(d)
  BY <1>1, <1>4, <1>6 DEF Apt, Opening
<1> QED BY <1>4, <1>5, <1>7, ProposalContent

\* create_volume, update_volume, the marks and the ends of shares and deletes.
LEMMA StateStepsContent ==
    ASSUME Types, ChunksInv, ContentInv, Creates \/ (Updates /\ ~Fails) \/ Marks \/ Opens \/ Drops
    PROVE  ContentInv'
<1>0. {"none", "creating", "available", "attached", "deleting"} = States
  BY DEF States
<1>1. CASE Creates
  <2>1. /\ call.op = "create" /\ call.stage = "row" /\ ~call.waits /\ Sends(SetState(call.to, "available"))
    BY <1>1 DEF Creates, At
  <2> QED BY <1>0, <2>1, StateContent
<1>2. CASE Updates /\ ~Fails
  <2>1. /\ call.op = "update" /\ call.stage = "row" /\ ~call.waits /\ Sends(SetState(call.to, call.new))
        /\ call.new \in {"available", "attached"}
    BY <1>2 DEF Updates, At, Types, CallOf
  <2>2. PICK st \in {"available", "attached"} : st = call.new
    BY <2>1
  <2> QED BY <1>0, <2>1, <2>2, StateContent
<1>3. CASE At("share", "mark") /\ Sends(SetState(call.to, "creating"))
  <2>1. call.op = "share" /\ call.stage = "mark" /\ ~call.waits
    BY <1>3 DEF At
  <2> QED BY <1>0, <1>3, <2>1, StateContent
<1>4. CASE At("delete", "mark") /\ Sends(SetState(call.to, "deleting"))
  <2>1. call.op = "delete" /\ call.stage = "mark" /\ ~call.waits
    BY <1>4 DEF At
  <2> QED BY <1>0, <1>4, <2>1, StateContent
<1>5. CASE Opens
  <2>1. /\ call.op = "share" /\ call.stage = "share" /\ ~call.waits /\ Sends(SetState(call.to, "available"))
        /\ call.rows = <<>>
    BY <1>5 DEF Opens, At
  <2>2. Len(log) = 0 /\ db.st[call.to] = "creating"
    BY <2>1, InvParts DEF Sharing, SharingRows
  <2>3. log = <<>> /\ 1..Len(log) = {}
    BY <2>2, LogEntry DEF Types
  \* Nothing is left to share, so every chunk is as it was asked for.
  <2>4. Shows(call.to)
    <3>1. \A c \in Chunks : Asks(c)
      BY <2>1, ContentParts DEF Copying
    <3>2. \A k : k \notin DOMAIN call.rows
      BY <2>1, EmptyPart
    <3> QED BY <3>1, <3>2 DEF Asks, Shows
  <2>5. Ready(call.to)
    BY <2>2, <2>3, <2>4 DEF Ready
  <2> QED BY <1>0, <2>1, <2>3, <2>5, StateContent
<1>6. CASE Drops
  <2>1. call.op = "delete" /\ call.stage = "release" /\ ~call.waits /\ Sends(SetState(call.to, "none"))
    BY <1>6 DEF Drops, At
  <2> QED BY <1>0, <2>1, StateContent
<1> QED BY <1>1, <1>2, <1>3, <1>4, <1>5, <1>6 DEF Marks

\* commit_chunks.
LEMMA CommitContent == ASSUME Types, ContentInv, Commits, ~Fails PROVE ContentInv'
<1>1. PICK v, c, s : v = call.to /\ c = call.chunk /\ s = call.new
  OBVIOUS
<1>2. /\ call.op = "commit" /\ call.stage = "row" /\ ~call.waits
      /\ SendsFreeing(CommitChange(v, c, s), CommitFrees(v, c))
      /\ v \in Volumes /\ c \in Chunks /\ s \in Stripes \cup {Nil}
  BY <1>1 DEF Commits, At, Types, CallOf
<1>3. PICK d : d = CommitChange(v, c, s)
  OBVIOUS
<1>3a. PICK F : F = CommitFrees(v, c)
  OBVIOUS
<1>4. PICK k : k = <<v, c>>
  OBVIOUS
<1>4a. /\ d \in Change /\ DOMAIN d.st = {} /\ DOMAIN d.row = {k} /\ k \in Places /\ k[1] = v
       /\ d.row[k] = IF s = Nil THEN NoRow ELSE [stripe |-> s, owner |-> s]
       /\ \A j \in DOMAIN d.row : Owned(j, d.row[j])
  BY <1>2, <1>3, <1>4, CommitType
<1>5. Proposal(d, F)
  <2>1. F \subseteq Stripes
    BY <1>3a DEF CommitFrees
  <2> QED BY <1>2, <1>3, <1>3a, <2>1, SendsFreeingIs
<1>6. Apt(d)
  BY <1>1, <1>2, <1>4a DEF Apt
<1> QED BY <1>4a, <1>5, <1>6, ProposalContent

\* release_chunks.
LEMMA ReleaseContent == ASSUME Types, ContentInv, ReleasesBatch PROVE ContentInv'
<1>1. PICK h : h = call.to
  OBVIOUS
<1>2. /\ call.op = "delete" /\ call.stage = "release" /\ ~call.waits
      /\ SendsFreeing(ReleaseChange(h), ReleaseFrees(h)) /\ h \in Holders
  BY <1>1 DEF ReleasesBatch, At, Types, CallOf
<1>3. PICK d, F, K : d = ReleaseChange(h) /\ F = ReleaseFrees(h) /\ K = ReleaseNext(h)
  OBVIOUS
<1>4. /\ d \in Change /\ DOMAIN d.st = {} /\ DOMAIN d.row = K /\ K \subseteq Places
      /\ \A k \in K : k[1] = h /\ db.row[k] # NoRow
      /\ \A k \in DOMAIN d.row : Owned(k, d.row[k])
  BY <1>2, <1>3, ReleaseType
<1>5. Proposal(d, F)
  <2>1. \A k \in K : db.row[k] \in Row
    BY <1>4 DEF Types, TypeOK, Places
  <2>2. \A k \in K : db.row[k].stripe \in Stripes
    BY <1>4, <2>1, Rows
  <2>3. F \subseteq Stripes
    BY <1>3, <2>2 DEF ReleaseFrees
  <2> QED BY <1>2, <1>3, <2>3, SendsFreeingIs
<1>6. Apt(d)
  BY <1>1, <1>2, <1>4 DEF Apt
<1> QED BY <1>4, <1>5, <1>6, ProposalContent

\* share_chunks.
LEMMA ShareContent == ASSUME Types, ChunksInv, ContentInv, Shares, ~Fails PROVE ContentInv'
<1>1. PICK h, d, K : h = call.to /\ d = ShareChange(h) /\ K = ShareNext
  OBVIOUS
<1>2. call.op = "share" /\ call.stage = "share" /\ ~call.waits /\ Sends(d)
  BY <1>1 DEF Shares, At
<1>3. log = <<>>
  <2>1. Len(log) = 0
    BY <1>2, InvParts DEF Sharing, SharingRows
  <2> QED BY <2>1, LogEntry DEF Types
<1>4. /\ d \in Change /\ DOMAIN d.st = {} /\ DOMAIN d.row = {<<h, k[2]>> : k \in K}
      /\ \A k \in DOMAIN d.row : Owned(k, d.row[k])
  BY <1>1, <1>2, ShareType
<1>5. Proposal(d, call.freeing)
  BY <1>2, SendsIs
<1>6. MsgOf(d).new = d
  BY <1>4, <1>5, Proposed
<1>7. Apt(d)
  BY <1>1, <1>2, <1>3, <1>4, <1>6 DEF Apt, Opening
<1> QED BY <1>4, <1>5, <1>7, ProposalContent

-----------------------------------------------------------------------------
(* The theorem.                                                            *)

LEMMA ContentInit == Init => ContentInv
<1> SUFFICES ASSUME Init PROVE ContentInv
  OBVIOUS
<1>1. /\ db.row = [k \in Holders \X Chunks |-> NoRow] /\ log = <<>> /\ call = Idle /\ used = {}
      /\ want = [k \in Holders \X Chunks |-> Nil] /\ life = [h \in Holders |-> "new"]
  BY DEF Init
<1>2. \A h \in Holders : life[h] = "new" /\ \A c \in Chunks : want[<<h, c>>] = Nil
  BY <1>1
<1>3. 1..Len(log) = {} /\ call.op = "none" /\ ~call.waits
  BY <1>1, IdleType
<1>4. Kept /\ Unused
  BY <1>2 DEF Kept, Unused
<1>5. Elsewhere /\ Settled
  BY <1>3 DEF Elsewhere, Settled
<1>6. Creating /\ Deleting /\ Committing /\ Copying /\ Mine
  BY <1>3 DEF Creating, Deleting, Committing, Copying, Mine
<1> QED BY <1>4, <1>5, <1>6 DEF ContentInv

LEMMA ContentNext == ASSUME Types, ChunksInv, ContentInv, [Next]_vars PROVE ContentInv'
<1>1. CASE Requests
  BY <1>1, RequestFits, BeginContent
<1>2. CASE (Fails /\ ~call.waits) \/ Responds \/ Cuts
  BY <1>2, EndsIs, EndContent
<1>3. CASE Creates \/ Marks \/ Opens \/ Drops
  BY <1>3, StateStepsContent
<1>4. CASE Updates
  <2>1. Fails => ~call.waits
    BY <1>4 DEF Updates, At
  <2> QED BY <1>2, <1>4, <2>1, StateStepsContent
<1>5. CASE Commits
  <2>1. Fails => ~call.waits
    BY <1>5 DEF Commits, At
  <2> QED BY <1>2, <1>5, <2>1, CommitContent
<1>6. CASE Shares
  <2>1. Fails => ~call.waits
    BY <1>6 DEF Shares, At
  <2> QED BY <1>2, <1>6, <2>1, ShareContent
<1>7. CASE ReleasesBatch
  BY <1>7, ReleaseContent
<1>8. CASE Raft
  BY <1>8, AppliedContent, ConflictContent DEF Raft
<1>9. CASE UNCHANGED vars
  <2>1. db' = db /\ log' = log /\ call' = call /\ used' = used /\ want' = want /\ life' = life
    BY <1>9 DEF vars
  <2>2. \A h : Shows(h)' = Shows(h)
    BY <2>1 DEF Shows
  <2>3. Kept' /\ Unused'
    BY <2>1, <2>2, ContentParts DEF Kept, Unused
  <2>4. Elsewhere'
    BY <2>1, ContentParts DEF Elsewhere, Touches
  <2>5. \A h : Ready(h) => Ready(h)'
    BY <2>1, <2>2 DEF Ready, Touches
  <2>6. \A h : OwnState(h) => OwnState(h)'
    BY <2>1 DEF OwnState
  <2>7. Settled'
    BY <2>1, <2>5, ContentParts DEF Settled, Settling, Opening
  <2>8. Creating' /\ Deleting' /\ Committing' /\ Mine'
    BY <2>1, <2>5, <2>6, ContentParts DEF Creating, Deleting, Committing, Mine, Own, Settling, Opening
  <2>9. Copying'
    <3>1. AllNext => AllNext'
      BY <2>1 DEF AllNext, IsShare, Own, ShareNext
    <3>2. \A c : Asks(c) => Asks(c)'
      BY <2>1 DEF Asks
    <3> QED BY <2>1, <2>6, <3>1, <3>2, ContentParts DEF Copying
  <2> QED BY <2>3, <2>4, <2>7, <2>8, <2>9 DEF ContentInv
<1> QED BY <1>1, <1>2, <1>3, <1>4, <1>5, <1>6, <1>7, <1>8, <1>9 DEF Next, Serving

\* A volume shows what commit_chunks set its chunks to, a snapshot what its
\* volume showed when it was taken, a clone what its snapshot did: no batch of
\* commit_chunks, share_chunks or release_chunks for one of them reaches another,
\* for any volumes, chunks and size of batch, whatever calls were cut off and
\* whenever the batches they left are applied.
THEOREM ContentIsKept == Spec => []ContentKept
<1>1. Init => ContentInv
  BY ContentInit
<1>2. Types /\ ChunksInv /\ ContentInv /\ [Next]_vars => ContentInv'
  BY ContentNext
<1>3. ContentInv => ContentKept
  BY ContentParts DEF ContentKept, Kept, Shows
<1> QED BY <1>1, <1>2, <1>3, Invariants, PTL DEF Spec

-----------------------------------------------------------------------------
(* The accounts: an invariant while no call was cut off.  The log then has *)
(* the batch of the call being served at most, and nothing changes between *)
(* a batch being built and being applied.                                  *)

Named(s) == \E k \in Places : db.row[k].stripe = s
\* The stripe of a commit whose batch was not applied yet.
Fresh == {s \in Stripes : call.op = "commit" /\ call.stage = "row" /\ s = call.new}

\* Each referrer in the registry has a chunk; a stripe that was given out is in
\* a chunk, or to be freed, or about to be committed.
Referred == \A s \in Stripes : \A r \in db.ref[s] : \E k \in Places : db.row[k].stripe = s /\ db.row[k].owner = r
Handed   == \A s \in Stripes : s \in used => (Named(s) <=> s \notin Gone \cup Fresh)

\* No commit is stale.
Expecting == /\ (call.op = "commit" /\ call.stage = "row") => db.row[<<call.to, call.chunk>>].stripe = call.expected
             /\ call.op = "update" => call.free = {}

\* The batch takes each referrer it drops out of the registry, and hands back
\* exactly the stripes of which that was the last one.
Drop(m, F) == /\ \A k \in DOMAIN m.new.row : \A s \in Stripes :
                    (db.row[k].stripe = s /\ db.row[k].owner \in db.ref[s]) => s \in DOMAIN m.new.ref
              /\ \A s \in Stripes : s \in F <=> \E k \in DOMAIN m.new.row :
                    db.row[k].stripe = s /\ db.ref[s] \in {{}, {db.row[k].owner}}
Put(m) == IF call.op = "commit"
          THEN /\ call.stage = "row" /\ DOMAIN m.new.row = {<<call.to, call.chunk>>}
               /\ m.new.row[<<call.to, call.chunk>>].stripe = call.new
          ELSE \A k \in DOMAIN m.new.row : m.new.row[k] = NoRow
Precise == call.waits => Matches(Own) /\ (call.op = "share" \/ (Drop(Own, call.freeing) /\ Put(Own)))

AccountInv == cuts = 0 => Referred /\ Handed /\ Expecting /\ Precise

\* The log, while no call was cut off.
LEMMA OnlyOwn ==
    ASSUME Types, ChunksInv, cuts = 0
    PROVE  /\ call.waits => Len(log) = 1 /\ Own = log[1] /\ Head(log) = log[1] /\ log # <<>>
           /\ ~call.waits => log = <<>>
<1>1. log \in Seq(Msg) /\ Len(log) \in Nat /\ Len(log) <= 1 /\ (~call.waits => Len(log) <= 0)
  BY DEF Types, TypeOK
<1>2. CASE call.waits
  <2>1. log # <<>>
    BY <1>2, InvParts DEF Waiting
  <2>2. Len(log) = 1
    <3>1. Len(log) # 0
      BY <1>1, <2>1, LogEntry
    <3> QED BY <1>1, <3>1
  <2>3. Head(log) = log[1]
    BY <1>1, <2>1, LogTail
  <2>4. Own = log[1]
    BY <2>2 DEF Own
  <2> QED BY <1>2, <2>1, <2>2, <2>3, <2>4
<1>3. CASE ~call.waits
  <2>1. Len(log) = 0
    BY <1>1, <1>3
  <2> QED BY <1>1, <1>3, <2>1, LogEntry
<1> QED BY <1>2, <1>3

\* A batch just built is as the tables are.
LEMMA BuiltMatches ==
    ASSUME NEW d
    PROVE  Matches(MsgOf(d))
<1> DEFINE m == MsgOf(d)
<1>1. m.exp.st = AsIn(d.st, db.st) /\ m.exp.row = AsIn(d.row, db.row) /\ m.exp.ref = AsIn(d.ref, db.ref)
  BY DEF MsgOf
<1>2. \A f, g : AsIn(AsIn(f, g), g) = AsIn(f, g)
  BY DEF AsIn
<1> HIDE DEF m
<1>3. Matches(m)
  BY <1>1, <1>2 DEF Matches
<1> QED BY <1>3 DEF m

\* A call proposes a change.
LEMMA ProposalAccount ==
    ASSUME Types, ChunksInv, AccountInv, NEW d \in Change, NEW F, Proposal(d, F),
           \A k \in DOMAIN d.row : Owned(k, d.row[k]),
           cuts = 0 => call.op = "share" \/ (Drop(MsgOf(d), F) /\ Put(MsgOf(d)))
    PROVE  AccountInv'
<1> SUFFICES ASSUME cuts' = 0 PROVE Referred' /\ Handed' /\ Expecting' /\ Precise'
  BY DEF AccountInv
<1>1. /\ UNCHANGED <<db, used, freed, cuts>> /\ log' = Append(log, MsgOf(d))
      /\ call'.op = call.op /\ call'.to = call.to /\ call'.stage = call.stage /\ call'.chunk = call.chunk
      /\ call'.expected = call.expected /\ call'.new = call.new /\ call'.free = call.free
      /\ call'.freeing = F /\ call'.waits
  BY DEF Proposal, CarriesOn
<1>2. cuts = 0 /\ Referred /\ Handed /\ Expecting
  BY <1>1 DEF AccountInv
<1>3. Referred'
  BY <1>1, <1>2 DEF Referred
<1>4. Handed'
  BY <1>1, <1>2 DEF Handed, Named, Gone, Fresh
<1>5. Expecting'
  BY <1>1, <1>2 DEF Expecting
<1>6. Own' = MsgOf(d)
  <2>1. log \in Seq(Msg) /\ MsgOf(d) \in Msg
    BY Proposed DEF Types
  <2> QED BY <1>1, <2>1, LogAppend DEF Own
<1>7. Matches(Own)'
  <2>1. Matches(MsgOf(d))
    BY BuiltMatches
  <2>2. PICK m : m = MsgOf(d)
    OBVIOUS
  <2> QED BY <1>1, <1>6, <2>1, <2>2 DEF Matches
<1>8. PICK m : m = MsgOf(d)
  OBVIOUS
<1>9. call.op = "share" \/ (Drop(m, F) /\ Put(m))
  BY <1>2, <1>8
<1>10. Own' = m
  BY <1>6, <1>8
<1>11. Precise'
  <2>1. CASE call.op = "share"
    BY <1>1, <1>7, <2>1 DEF Precise
  <2>2. CASE Drop(m, F) /\ Put(m)
    <3>1. Drop(Own, call.freeing)'
      BY <1>1, <1>10, <2>2 DEF Drop
    <3>2. Put(Own)'
      BY <1>1, <1>10, <2>2 DEF Put
    <3> QED BY <1>7, <3>1, <3>2 DEF Precise
  <2> QED BY <1>9, <2>1, <2>2
<1> QED BY <1>3, <1>4, <1>5, <1>11

\* create_volume, update_volume, the marks and the ends of shares and deletes.
LEMMA StateAccount ==
    ASSUME Types, ChunksInv, AccountInv, ~call.waits, call.stage # "done", call.op \notin {"none", "commit"},
           NEW st \in States, Sends(SetState(call.to, st))
    PROVE  AccountInv'
<1>1. PICK d : d = SetState(call.to, st)
  OBVIOUS
<1>2. call.to \in Holders /\ call.freeing = {}
  BY InvParts DEF Types, CallOf, Freeing
<1>3. d \in Change /\ DOMAIN d.row = {} /\ DOMAIN d.ref = {}
  BY <1>1, <1>2, SetStateType
<1>4. Proposal(d, {})
  BY <1>1, <1>2, SendsIs
<1>5. MsgOf(d).new = d
  BY DEF MsgOf
<1>6. PICK m : m = MsgOf(d)
  OBVIOUS
<1>7. Drop(m, {}) /\ Put(m)
  BY <1>3, <1>5, <1>6 DEF Drop, Put
<1> QED BY <1>3, <1>4, <1>6, <1>7, ProposalAccount

LEMMA StateStepsAccount ==
    ASSUME Types, ChunksInv, AccountInv, Creates \/ (Updates /\ ~Fails) \/ Marks \/ Opens \/ Drops
    PROVE  AccountInv'
<1>0. {"none", "creating", "available", "attached", "deleting"} = States
  BY DEF States
<1>1. CASE Creates
  BY <1>0, <1>1, StateAccount DEF Creates, At
<1>2. CASE Updates /\ ~Fails
  <2>1. /\ call.op = "update" /\ call.stage = "row" /\ ~call.waits /\ Sends(SetState(call.to, call.new))
        /\ call.new \in {"available", "attached"}
    BY <1>2 DEF Updates, At, Types, CallOf
  <2>2. PICK st \in {"available", "attached"} : st = call.new
    BY <2>1
  <2> QED BY <1>0, <2>1, <2>2, StateAccount
<1>3. CASE Marks
  BY <1>0, <1>3, StateAccount DEF Marks, At
<1>4. CASE Opens
  BY <1>0, <1>4, StateAccount DEF Opens, At
<1>5. CASE Drops
  BY <1>0, <1>5, StateAccount DEF Drops, At
<1> QED BY <1>1, <1>2, <1>3, <1>4, <1>5

\* commit_chunks: the old stripe of the chunk, if it was the last to have it.
LEMMA CommitAccount == ASSUME Types, ChunksInv, AccountInv, Commits, ~Fails PROVE AccountInv'
<1>0. /\ call.op = "commit" /\ call.stage = "row" /\ ~call.waits
      /\ call.to \in Volumes /\ call.chunk \in Chunks /\ call.new \in Stripes \cup {Nil}
  BY DEF Commits, At, Types, CallOf
<1>1. PICK v \in Volumes, c \in Chunks, s \in Stripes \cup {Nil} : v = call.to /\ c = call.chunk /\ s = call.new
  BY <1>0
<1>1a. PICK d, F, k : d = CommitChange(v, c, s) /\ F = CommitFrees(v, c) /\ k = <<v, c>>
  OBVIOUS
<1>2. SendsFreeing(d, F)
  BY <1>1, <1>1a DEF Commits
<1>3. /\ d \in Change /\ DOMAIN d.row = {k}
      /\ d.row[k] = IF s = Nil THEN NoRow ELSE [stripe |-> s, owner |-> s]
      /\ DOMAIN d.ref = {r \in Stripes : r = db.row[k].stripe /\ db.row[k].owner \in db.ref[r]}
      /\ \A j \in DOMAIN d.row : Owned(j, d.row[j])
  BY <1>1a, CommitType
<1>4. d.row[k].stripe = s
  BY <1>3 DEF NoRow
<1>5. F = {r \in Stripes : r = db.row[k].stripe /\ db.ref[r] \in {{}, {db.row[k].owner}}}
  BY <1>1a DEF CommitFrees, NowFree
<1>6. Proposal(d, F)
  BY <1>0, <1>2, <1>5, SendsFreeingIs
<1>7. PICK m : m = MsgOf(d)
  OBVIOUS
<1>8. m.new = d
  BY <1>7 DEF MsgOf
<1>9. Drop(m, F)
  BY <1>3, <1>5, <1>8 DEF Drop
<1>10. Put(m)
  BY <1>0, <1>1, <1>1a, <1>3, <1>4, <1>8 DEF Put
<1> QED BY <1>3, <1>6, <1>7, <1>9, <1>10, ProposalAccount

\* release_chunks: the stripes of which the holder was the last to have them.
LEMMA ReleaseAccount == ASSUME Types, ChunksInv, AccountInv, ReleasesBatch PROVE AccountInv'
<1>1. PICK h, d, F, K : h = call.to /\ d = ReleaseChange(h) /\ F = ReleaseFrees(h) /\ K = ReleaseNext(h)
  OBVIOUS
<1>2. /\ call.op = "delete" /\ call.stage = "release" /\ ~call.waits /\ SendsFreeing(d, F) /\ h \in Holders
  BY <1>1 DEF ReleasesBatch, At, Types, CallOf
<1>3. /\ d \in Change /\ DOMAIN d.row = K /\ K \subseteq Places
      /\ \A k \in K : d.row[k] = NoRow /\ db.row[k] # NoRow /\ HeldAs(k) = db.row[k].owner
      /\ \A k \in DOMAIN d.row : Owned(k, d.row[k])
      /\ \A s \in Stripes, k \in K : db.row[k].stripe = s /\ HeldAs(k) \in db.ref[s] => s \in DOMAIN d.ref
  BY <1>1, <1>2, ReleaseType
<1>4. \A k \in K : db.row[k].stripe \in Stripes
  <2>1. \A k \in K : db.row[k] \in Row
    BY <1>3 DEF Types, TypeOK, Places
  <2> QED BY <1>3, <2>1, Rows
<1>5. F = {db.row[k].stripe : k \in {x \in K : db.ref[db.row[x].stripe] \in {{}, {db.row[x].owner}}}}
  BY <1>1, <1>3 DEF ReleaseFrees, NowFree
<1>6. F \subseteq Stripes
  BY <1>4, <1>5
<1>7. Proposal(d, F)
  BY <1>2, <1>6, SendsFreeingIs
<1>8. PICK m : m = MsgOf(d)
  OBVIOUS
<1>9. m.new = d
  BY <1>8 DEF MsgOf
<1>10. Drop(m, F)
  <2>1. \A s \in Stripes : s \in F <=> \E k \in K : db.row[k].stripe = s /\ db.ref[s] \in {{}, {db.row[k].owner}}
    BY <1>5
  <2> QED BY <1>3, <1>9, <2>1 DEF Drop
<1>11. Put(m)
  BY <1>2, <1>3, <1>9 DEF Put
<1> QED BY <1>3, <1>7, <1>8, <1>10, <1>11, ProposalAccount

\* share_chunks.
LEMMA ShareAccount == ASSUME Types, ChunksInv, AccountInv, Shares, ~Fails PROVE AccountInv'
<1>1. PICK h, d : h = call.to /\ d = ShareChange(h)
  OBVIOUS
<1>2. call.op = "share" /\ call.stage = "share" /\ ~call.waits /\ Sends(d)
  BY <1>1 DEF Shares, At
<1>3. d \in Change /\ \A k \in DOMAIN d.row : Owned(k, d.row[k])
  BY <1>1, <1>2, ShareType
<1>4. Proposal(d, call.freeing)
  BY <1>2, SendsIs
<1> QED BY <1>2, <1>3, <1>4, ProposalAccount

\* Raft writes the batch of a commit or a delete, or of a state.
LEMMA DropWritten ==
    ASSUME Types, ChunksInv, ContentInv, AccountInv, Applied, cuts = 0, call.op # "share"
    PROVE  Referred' /\ Handed'
<1> DEFINE m == log[1]
           D == DOMAIN m.new.row
<1>0. call.waits /\ Len(log) = 1 /\ Own = m /\ Served
  BY OnlyOwn DEF Applied, Served
<1>1. Pops /\ Takes(m) /\ Advances(m) /\ m \in Msg /\ used' = used /\ freed' = freed
  BY <1>0, AppliedIs DEF Pops
<1>2. Referred /\ Handed /\ Drop(m, call.freeing) /\ Put(m)
  BY <1>0 DEF AccountInv, Precise
<1>3. ~IsShare(m) /\ TakesOut(m)
  <2>1. ~IsShare(m)
    BY <1>0, ContentParts DEF Mine, IsShare
  <2> QED BY <1>0, <2>1, InvParts DEF Batches
<1> HIDE DEF m
<1>4. /\ \A k \in D : k \in Places /\ m.exp.row[k] = db.row[k]
      /\ \A s \in DOMAIN m.new.ref : m.exp.ref[s] = db.ref[s]
      /\ \A k \in Places \ D : db'.row[k] = db.row[k]
      /\ \A k \in D : db'.row[k] = m.new.row[k]
  BY <1>1 DEF Takes
\* At most one chunk that names a stripe is taken out.
<1>5. \A k, j \in D : db.row[k].stripe = db.row[j].stripe => k = j
  BY <1>3, <1>4 DEF TakesOut
<1>6. ASSUME NEW s \in DOMAIN m.new.ref
      PROVE  \E k \in D : db.row[k].stripe = s /\ db'.ref[s] = db.ref[s] \ {db.row[k].owner}
  <2>1. PICK k \in D : m.exp.row[k].stripe = s
    BY <1>3 DEF TakesOut
  <2>2. m.new.ref[s] = m.exp.ref[s] \ {m.exp.row[k].owner}
    BY <1>3, <2>1 DEF TakesOut
  <2>3. s \in Stripes /\ db'.ref[s] = m.new.ref[s]
    BY <1>1 DEF Takes
  <2> QED BY <1>4, <2>1, <2>2, <2>3
<1>7. Referred'
  <2> SUFFICES ASSUME NEW s \in Stripes, NEW r \in db'.ref[s]
               PROVE  \E k \in Places : db'.row[k].stripe = s /\ db'.row[k].owner = r
    BY DEF Referred
  <2>1. CASE s \in DOMAIN m.new.ref
    <3>1. PICK j \in D : db.row[j].stripe = s /\ db'.ref[s] = db.ref[s] \ {db.row[j].owner}
      BY <1>6, <2>1
    <3>2. PICK k \in Places : db.row[k].stripe = s /\ db.row[k].owner = r
      BY <1>2, <3>1 DEF Referred
    <3>3. k \notin D
      BY <1>5, <3>1, <3>2
    <3> QED BY <1>4, <3>2, <3>3
  <2>2. CASE s \notin DOMAIN m.new.ref
    <3>1. r \in db.ref[s]
      BY <1>1, <2>2 DEF Takes
    <3>2. PICK k \in Places : db.row[k].stripe = s /\ db.row[k].owner = r
      BY <1>2, <3>1 DEF Referred
    <3>3. k \notin D
      BY <1>2, <2>2, <3>1, <3>2 DEF Drop
    <3> QED BY <1>4, <3>2, <3>3
  <2> QED BY <2>1, <2>2
<1>8. Fresh' = {} /\ Gone' = freed \cup call.free \cup call.freeing
  BY <1>1 DEF Advances, Fresh, Gone
<1>9. \A k \in D : db'.row[k].stripe \in Stripes => db'.row[k].stripe \in Fresh
  <2> SUFFICES ASSUME NEW k \in D, m.new.row[k].stripe \in Stripes PROVE m.new.row[k].stripe \in Fresh
    BY <1>4
  <2>1. m.new.row[k] # NoRow
    BY IdsAssumption DEF NoRow
  <2> QED BY <1>2, <2>1 DEF Put, Fresh
<1>10. Handed'
  <2> SUFFICES ASSUME NEW s \in Stripes, s \in used
               PROVE  Named(s)' <=> s \notin freed \cup call.free \cup call.freeing
    BY <1>1, <1>8 DEF Handed
  <2>1. CASE s \in Fresh
    <3>1. call.op = "commit" /\ call.stage = "row" /\ s = call.new /\ s # Nil
      BY <2>1, IdsAssumption DEF Fresh
    <3>2. s \notin freed \cup call.free \cup call.freeing
      BY <3>1, InvParts DEF Bringing, Unnamed
    <3>3. <<call.to, call.chunk>> \in D /\ m.new.row[<<call.to, call.chunk>>].stripe = s
      BY <1>2, <3>1 DEF Put
    <3> QED BY <1>4, <3>2, <3>3 DEF Named
  <2>2. CASE s \notin Fresh
    <3>1. \A k \in Places : db'.row[k].stripe = s => k \notin D /\ db.row[k].stripe = s
      BY <1>4, <1>9, <2>2
    <3>2. CASE s \in call.freeing
      <4>1. PICK k \in D : db.row[k].stripe = s /\ db.ref[s] \in {{}, {db.row[k].owner}}
        BY <1>2, <3>2 DEF Drop
      <4>2. ASSUME NEW j \in Places, db.row[j].stripe = s PROVE j = k
        <5>1. EnteredAt(k, s) /\ EnteredAt(j, s) /\ k \in Places
          BY <1>4, <4>1, <4>2, InvParts DEF Entered
        <5>2. db.row[j].owner = db.row[k].owner
          BY <4>1, <5>1 DEF EnteredAt
        <5> QED BY <4>1, <4>2, <5>1, <5>2, InvParts DEF Apart
      <4> QED BY <3>1, <3>2, <4>2 DEF Named
    <3>3. CASE s \notin call.freeing /\ s \in Gone
      <4>1. ~Named(s)
        BY <1>2, <3>3 DEF Handed
      <4> QED BY <3>1, <3>3, <4>1 DEF Named, Gone
    <3>4. CASE s \notin call.freeing /\ s \notin Gone
      <4>1. PICK k \in Places : db.row[k].stripe = s
        BY <1>2, <2>2, <3>4 DEF Handed, Named
      <4>2. CASE k \notin D
        BY <1>4, <3>4, <4>1, <4>2 DEF Named, Gone
      <4>3. CASE k \in D
        <5>1. db.ref[s] \notin {{}, {db.row[k].owner}}
          BY <1>2, <3>4, <4>1, <4>3 DEF Drop
        <5>2. PICK r \in db.ref[s] : r # db.row[k].owner
          BY <5>1
        <5>3. PICK j \in Places : db.row[j].stripe = s /\ db.row[j].owner = r
          BY <1>2, <5>2 DEF Referred
        <5>4. j \notin D
          BY <1>5, <4>1, <4>3, <5>2, <5>3
        <5> QED BY <1>4, <3>4, <5>3, <5>4 DEF Named, Gone
      <4> QED BY <4>2, <4>3
    <3> QED BY <3>2, <3>3, <3>4
  <2> QED BY <2>1, <2>2
<1> QED BY <1>7, <1>10

\* Raft writes the batch of a share: stripes in more chunks, and entered for them.
LEMMA GiveWritten ==
    ASSUME Types, ChunksInv, ContentInv, AccountInv, Applied, cuts = 0, call.op = "share"
    PROVE  Referred' /\ Handed'
<1> DEFINE m == log[1]
           D == DOMAIN m.new.row
<1>0. call.waits /\ Len(log) = 1 /\ Own = m /\ Served
  BY OnlyOwn DEF Applied, Served
<1>1. Pops /\ Takes(m) /\ Advances(m) /\ m \in Msg /\ used' = used /\ freed' = freed
  BY <1>0, AppliedIs DEF Pops
<1>2. Referred /\ Handed /\ call.free = {} /\ call.freeing = {}
  BY InvParts DEF AccountInv, Sharing, SharingIds
<1>3. D # {} => GivesTo(m)
  <2>1. D # {} => IsShare(m)
    BY <1>0, ContentParts DEF Mine, IsShare
  <2> QED BY <1>0, <2>1, InvParts DEF Batches
<1>4. D = {} => DOMAIN m.new.ref = {}
  <2>1. D = {} => TakesOut(m)
    BY <1>0, InvParts DEF Batches, IsShare
  <2> QED BY <2>1 DEF TakesOut
<1> HIDE DEF m
<1>5. /\ \A k \in D : k \in Places /\ db.row[k] = NoRow /\ db'.row[k] = m.new.row[k]
      /\ \A k \in Places \ D : db'.row[k] = db.row[k]
  BY <1>1, <1>3 DEF Takes, GivesTo, GivesRow
\* What was there stays.
<1>6. \A k \in Places : db.row[k].stripe \in Stripes => db'.row[k] = db.row[k]
  BY <1>5, IdsAssumption DEF NoRow
<1>7. Referred'
  <2> SUFFICES ASSUME NEW s \in Stripes, NEW r \in db'.ref[s]
               PROVE  \E k \in Places : db'.row[k].stripe = s /\ db'.row[k].owner = r
    BY DEF Referred
  <2>1. CASE r \in db.ref[s]
    <3>1. PICK k \in Places : db.row[k].stripe = s /\ db.row[k].owner = r
      BY <1>2, <2>1 DEF Referred
    <3> QED BY <1>6, <3>1
  <2>2. CASE r \notin db.ref[s]
    <3>1. s \in DOMAIN m.new.ref /\ db'.ref[s] = m.new.ref[s]
      BY <1>1, <2>2 DEF Takes
    <3>2. PICK k \in D : m.new.row[k].stripe = s
      BY <1>3, <1>4, <3>1 DEF GivesTo
    <3>3. /\ m.new.ref[s] = (IF db.ref[s] = {} THEN {s} ELSE db.ref[s]) \cup {k[1]}
          /\ m.new.row[k].owner = k[1] /\ \E j \in Places : db.row[j].stripe = s
      BY <1>3, <3>2 DEF GivesTo, GivesRow
    <3>4. CASE r = k[1]
      BY <1>5, <3>2, <3>3, <3>4
    <3>5. CASE r # k[1]
      <4>1. db.ref[s] = {} /\ r = s
        BY <2>2, <3>1, <3>3, <3>5
      <4>2. PICK j \in Places : db.row[j].stripe = s
        BY <3>3
      <4>3. db.row[j].owner = s
        BY <4>1, <4>2, InvParts DEF Entered, EnteredAt
      <4> QED BY <1>6, <4>1, <4>2, <4>3
    <3> QED BY <3>4, <3>5
  <2> QED BY <2>1, <2>2
<1>8. Fresh' = {} /\ Fresh = {} /\ Gone' = Gone
  BY <1>1, <1>2 DEF Advances, Fresh, Gone
<1>9. \A s \in Stripes : Named(s)' <=> Named(s)
  <2> SUFFICES ASSUME NEW s \in Stripes PROVE Named(s)' <=> Named(s)
    OBVIOUS
  <2>1. Named(s) => Named(s)'
    BY <1>6 DEF Named
  <2>2. ASSUME NEW k \in Places, db'.row[k].stripe = s PROVE Named(s)
    <3>1. CASE k \in D
      <4>1. m.new.row[k].stripe = s
        BY <1>5, <2>2, <3>1
      <4>2. GivesRow(m, k, k[1], s)
        BY <1>3, <3>1, <4>1 DEF GivesTo
      <4> QED BY <4>2 DEF GivesRow, Named
    <3>2. CASE k \notin D
      BY <1>5, <2>2, <3>2 DEF Named
    <3> QED BY <3>1, <3>2
  <2> QED BY <2>1, <2>2 DEF Named
<1>10. Handed'
  BY <1>1, <1>2, <1>8, <1>9 DEF Handed
<1> QED BY <1>7, <1>10

LEMMA AppliedAccount == ASSUME Types, ChunksInv, ContentInv, AccountInv, Applied PROVE AccountInv'
<1> SUFFICES ASSUME cuts' = 0 PROVE Referred' /\ Handed' /\ Expecting' /\ Precise'
  BY DEF AccountInv
<1>1. Pops /\ (Served => Advances(log[1])) /\ cuts = 0
  BY AppliedIs DEF Pops
<1>2. Served
  BY <1>1, OnlyOwn DEF Applied, Served
<1>3. Advances(log[1]) /\ Expecting
  BY <1>1, <1>2 DEF AccountInv
<1>4. Referred' /\ Handed'
  BY <1>1, DropWritten, GiveWritten
<1>5. call'.op = call.op /\ ~call'.waits /\ call'.stage # "row"
  BY <1>3 DEF Advances
<1>6. call.op = "update" => call'.free = {}
  BY <1>3, InvParts DEF Advances, Expecting, Freeing
<1> QED BY <1>4, <1>5, <1>6 DEF Expecting, Precise

\* No batch conflicts.
LEMMA ConflictAccount == ASSUME Types, ChunksInv, AccountInv, Conflicts PROVE AccountInv'
<1> SUFFICES ASSUME cuts = 0 PROVE FALSE
  BY DEF Conflicts, AccountInv
<1>1. call.waits /\ Own = Head(log) /\ ~Matches(Head(log))
  BY OnlyOwn DEF Conflicts
<1> QED BY <1>1 DEF AccountInv, Precise

\* A call begins: a commit with a stripe that is in no chunk, and with the one it
\* replaces as it is.
LEMMA BeginAccount ==
    ASSUME Types, ChunksInv, AccountInv, NEW c \in Call, Begins(c), ~c.waits, c.free = {}, c.op # "commit",
           NEW h \in Holders, used' \in {used, used \cup {h}}
    PROVE  AccountInv'
<1> SUFFICES ASSUME cuts' = 0 PROVE Referred' /\ Handed' /\ Expecting' /\ Precise'
  BY DEF AccountInv
<1>1. /\ call = Idle /\ db' = db /\ freed' = freed /\ cuts' = cuts
      /\ call'.op # "commit" /\ ~call'.waits /\ call'.free = {}
  BY BeginsIs DEF Begins
<1>2. call.op = "none" /\ call.free = {}
  BY <1>1, IdleType DEF Idle
<1>3. Referred /\ Handed
  BY <1>1 DEF AccountInv
<1>4. Fresh = {} /\ Fresh' = {} /\ Gone' = Gone
  BY <1>1, <1>2 DEF Fresh, Gone
<1>5. \A s \in Stripes : s \in used' => s \in used
  BY IdsAssumption DEF Holders
<1>6. Referred' /\ Handed'
  BY <1>1, <1>3, <1>4, <1>5 DEF Referred, Handed, Named
<1> QED BY <1>1, <1>6 DEF Expecting, Precise

LEMMA BeginCommitAccount ==
    ASSUME Types, ChunksInv, AccountInv, NEW v \in Volumes, NEW c \in Chunks, NEW s \in Stripes \cup {Nil},
           commit_chunks(v, c, s)
    PROVE  AccountInv'
<1> SUFFICES ASSUME cuts' = 0 PROVE Referred' /\ Handed' /\ Expecting' /\ Precise'
  BY DEF AccountInv
<1>1. PICK e : e = db.row[<<v, c>>].stripe
  OBVIOUS
<1>2. /\ call = Idle /\ db' = db /\ freed' = freed /\ cuts' = cuts /\ s \notin used
      /\ used' = used \cup ({s} \cap Stripes)
      /\ call' = [[New("commit", v, "row") EXCEPT !.chunk = c, !.new = s, !.expected = e] EXCEPT !.rows = <<>>]
  BY <1>1 DEF commit_chunks, Begins
<1>3. /\ call'.op = "commit" /\ call'.stage = "row" /\ ~call'.waits /\ call'.free = {} /\ call'.to = v
      /\ call'.chunk = c /\ call'.new = s /\ call'.expected = e
  BY <1>2 DEF New, Idle
<1>4. call.op = "none" /\ call.free = {}
  BY <1>2, IdleType DEF Idle
<1>5. Referred /\ Handed
  BY <1>2 DEF AccountInv
<1>6. Fresh = {} /\ Fresh' = {s} \cap Stripes /\ Gone' = Gone
  BY <1>2, <1>3, <1>4 DEF Fresh, Gone
<1>7. Referred' /\ Expecting' /\ Precise'
  BY <1>1, <1>2, <1>3, <1>5 DEF Referred, Expecting, Precise
<1>8. Handed'
  <2> SUFFICES ASSUME NEW x \in Stripes, x \in used' PROVE Named(x) <=> x \notin Gone \cup Fresh'
    BY <1>2, <1>6 DEF Handed, Named
  <2>1. CASE x # s
    BY <1>2, <1>5, <1>6, <2>1 DEF Handed
  <2>2. CASE x = s
    <3>1. ~Named(x)
      <4> SUFFICES ASSUME NEW k \in Places, db.row[k].stripe = x PROVE FALSE
        BY DEF Named
      <4>1. db.row[k] # NoRow
        BY IdsAssumption DEF NoRow
      <4> QED BY <1>2, <2>2, <4>1, InvParts DEF Given
    <3> QED BY <1>6, <2>2, <3>1
  <2> QED BY <2>1, <2>2
<1> QED BY <1>7, <1>8

LEMMA RequestAccount == ASSUME Types, ChunksInv, AccountInv, Requests PROVE AccountInv'
<1>1. ASSUME NEW v \in Volumes, create_volume(v) PROVE AccountInv'
  <2>1. v \in Holders /\ "create" \in Kinds /\ "row" \in Stages
    BY DEF Holders, Kinds, Stages
  <2> QED BY <1>1, <2>1, NewType, BeginAccount DEF create_volume
<1>2. ASSUME NEW v \in Volumes, NEW st \in {"available", "attached"}, update_volume(v, st) PROVE AccountInv'
  <2>1. v \in Holders /\ "update" \in Kinds /\ "row" \in Stages
    BY DEF Holders, Kinds, Stages
  <2> DEFINE c == [New("update", v, "row") EXCEPT !.new = st]
  <2>2. c \in Call /\ c.op = "update" /\ ~c.waits /\ c.free = {}
    BY <2>1, NewType DEF Call
  <2>3. Begins(c) /\ used' = used
    BY <1>2 DEF update_volume
  <2> HIDE DEF c
  <2> QED BY <2>1, <2>2, <2>3, BeginAccount
<1>3. ASSUME NEW from \in Holders, NEW to \in Holders, used' = used \cup {to},
             Begins([New("share", to, "mark") EXCEPT !.from = from])
      PROVE  AccountInv'
  <2>1. "share" \in Kinds /\ "mark" \in Stages
    BY DEF Kinds, Stages
  <2> DEFINE c == [New("share", to, "mark") EXCEPT !.from = from]
  <2>2. c \in Call /\ c.op = "share" /\ ~c.waits /\ c.free = {}
    BY <2>1, NewType DEF Call
  <2>3. Begins(c)
    BY <1>3
  <2> HIDE DEF c
  <2> QED BY <1>3, <2>2, <2>3, BeginAccount
<1>4. ASSUME NEW v \in Volumes, NEW s \in Snapshots, create_snapshot(v, s) \/ clone_volume(s, v) PROVE AccountInv'
  <2>1. v \in Holders /\ s \in Holders
    BY DEF Holders
  <2> QED BY <1>3, <1>4, <2>1 DEF create_snapshot, clone_volume
<1>5. ASSUME NEW h \in Holders, delete(h) PROVE AccountInv'
  <2>1. PICK stage \in {"release", "mark"} : stage = IF db.st[h] = "deleting" THEN "release" ELSE "mark"
    OBVIOUS
  <2>2. "delete" \in Kinds /\ stage \in Stages
    BY DEF Kinds, Stages
  <2>3. Begins(New("delete", h, stage)) /\ used' = used
    BY <1>5, <2>1 DEF delete
  <2> QED BY <2>2, <2>3, NewType, BeginAccount
<1> QED BY <1>1, <1>2, <1>4, <1>5, BeginCommitAccount DEF Requests

\* A call ends: what it was to hand back is handed back.
LEMMA EndAccount ==
    ASSUME Types, ChunksInv, AccountInv, call' = Idle, db' = db, used' = used, cuts' = cuts,
           freed' = freed \cup call.free, Fresh = {}
    PROVE  AccountInv'
<1> SUFFICES ASSUME cuts' = 0 PROVE Referred' /\ Handed' /\ Expecting' /\ Precise'
  BY DEF AccountInv
<1>1. call'.op = "none" /\ ~call'.waits /\ call'.free = {}
  BY IdleType DEF Idle
<1>2. Referred /\ Handed
  BY DEF AccountInv
<1>3. Fresh' = {} /\ Gone' = Gone
  BY <1>1 DEF Fresh, Gone
<1>4. Referred' /\ Handed'
  BY <1>2, <1>3 DEF Referred, Handed, Named
<1> QED BY <1>1, <1>4 DEF Expecting, Precise

LEMMA CutAccount == ASSUME Types, Cuts PROVE AccountInv'
<1>1. cuts' = cuts + 1 /\ cuts \in Nat
  BY BoundsAssumption DEF Cuts, HangsUp, LeaderChanges, Types, TypeOK
<1> QED BY <1>1 DEF AccountInv

LEMMA AccountInit == Init => AccountInv
<1> SUFFICES ASSUME Init PROVE AccountInv
  OBVIOUS
<1>1. /\ db.ref = [s \in Stripes |-> {}] /\ call = Idle /\ used = {}
  BY DEF Init
<1>2. call.op = "none" /\ ~call.waits
  BY <1>1, IdleType
<1> QED BY <1>1, <1>2 DEF AccountInv, Referred, Handed, Expecting, Precise

LEMMA AccountNext == ASSUME Types, ChunksInv, ContentInv, AccountInv, [Next]_vars PROVE AccountInv'
<1>1. CASE Requests
  BY <1>1, RequestAccount
<1>2. CASE Responds
  BY <1>2, EndAccount DEF Responds, Fresh
<1>3. CASE Creates \/ Marks \/ Opens \/ Drops
  BY <1>3, StateStepsAccount
<1>4. CASE Updates
  <2>1. CASE Fails
    <3>1. cuts = 0 => call.free = {}
      BY <1>4 DEF Updates, At, AccountInv, Expecting
    <3>2. cuts # 0 => AccountInv'
      BY <2>1 DEF Fails, AccountInv
    <3> QED BY <1>4, <2>1, <3>1, <3>2, EndAccount DEF Updates, At, Fails, Fresh
  <2> QED BY <1>4, <2>1, StateStepsAccount
<1>5. CASE Commits
  <2>1. CASE Stale
    <3>1. cuts # 0
      BY <1>5, <2>1 DEF Commits, At, Stale, AccountInv, Expecting
    <3> QED BY <1>5, <2>1, <3>1 DEF Commits, Fails, AccountInv
  <2>2. CASE ~Stale
    <3>1. ~Fails
      <4>1. call'.waits /\ ~Idle.waits
        BY <1>5, <2>2 DEF Commits, SendsFreeing, Idle, Types, Call
      <4> QED BY <4>1 DEF Fails
    <3> QED BY <1>5, <3>1, CommitAccount
  <2> QED BY <2>1, <2>2
<1>6. CASE Shares
  <2>1. CASE Fails
    <3>1. call.free = {} /\ call.op = "share"
      BY <1>6, InvParts DEF Shares, At, Sharing, SharingIds
    <3> QED BY <2>1, <3>1, EndAccount DEF Fails, Fresh
  <2> QED BY <1>6, <2>1, ShareAccount
<1>7. CASE ReleasesBatch
  BY <1>7, ReleaseAccount
<1>8. CASE Raft
  BY <1>8, AppliedAccount, ConflictAccount DEF Raft
<1>9. CASE Cuts
  BY <1>9, CutAccount
<1>10. CASE UNCHANGED vars
  <2>1. db' = db /\ log' = log /\ call' = call /\ used' = used /\ freed' = freed /\ cuts' = cuts
    BY <1>10 DEF vars
  <2>2. Referred => Referred'
    BY <2>1 DEF Referred
  <2>3. Handed => Handed'
    BY <2>1 DEF Handed, Named, Gone, Fresh
  <2>4. Expecting => Expecting'
    BY <2>1 DEF Expecting
  <2>5. Precise => Precise'
    BY <2>1 DEF Precise, Matches, Own, Drop, Put
  <2> QED BY <2>1, <2>2, <2>3, <2>4, <2>5 DEF AccountInv
<1> QED BY <1>1, <1>2, <1>3, <1>4, <1>5, <1>6, <1>7, <1>8, <1>9, <1>10 DEF Next, Serving

\* What the invariants say between calls.
LEMMA AccountGives == ASSUME Types, ChunksInv, AccountInv PROVE Accounted
<1> SUFFICES ASSUME cuts = 0, call = Idle, NEW s \in Stripes
             PROVE  /\ db.ref[s] # {} => db.ref[s] = OwnersOf(s)
                    /\ db.ref[s] = {} => OwnersOf(s) \subseteq {s} /\ Cardinality(Naming(s)) <= 1
                    /\ s \in used => (s \in freed <=> Naming(s) = {})
  BY DEF Accounted
<1>1. Referred /\ Handed /\ call.op = "none" /\ call.free = {}
  BY IdleType DEF AccountInv, Idle
<1>2. Naming(s) = {k \in Places : db.row[k].stripe = s}
  BY DEF Naming, Places
<1>3. \A k \in Naming(s) : k \in Places /\ db.row[k].stripe = s /\ EnteredAt(k, s)
  BY <1>2, InvParts DEF Entered
<1>4. db.ref[s] # {} => db.ref[s] = OwnersOf(s)
  BY <1>1, <1>2, <1>3 DEF Referred, OwnersOf, EnteredAt
<1>5. ASSUME db.ref[s] = {} PROVE OwnersOf(s) \subseteq {s} /\ Cardinality(Naming(s)) <= 1
  <2>1. \A k \in Naming(s) : db.row[k].owner = s
    BY <1>3, <1>5 DEF EnteredAt
  <2>2. \A k, j \in Naming(s) : k = j
    BY <1>3, <2>1, InvParts DEF Apart
  <2>3. CASE Naming(s) = {}
    BY <2>1, <2>3, FS_EmptySet DEF OwnersOf
  <2>4. CASE Naming(s) # {}
    <3>1. PICK k : Naming(s) = {k}
      BY <2>2, <2>4
    <3>2. Cardinality(Naming(s)) = 1
      BY <3>1, FS_Singleton
    <3> QED BY <2>1, <3>2 DEF OwnersOf
  <2> QED BY <2>3, <2>4
<1>6. s \in used => (s \in freed <=> Naming(s) = {})
  <2>1. Naming(s) = {} <=> ~Named(s)
    BY <1>2 DEF Named
  <2>2. Gone \cup Fresh = freed
    BY <1>1 DEF Gone, Fresh
  <2> QED BY <1>1, <2>1, <2>2 DEF Handed
<1> QED BY <1>4, <1>5, <1>6

\* The registry never keeps a referrer without a chunk, which would leak its
\* stripe, nor frees one that a chunk has: while no call of commit_chunks,
\* create_snapshot, clone_volume or delete is cut off, between calls its rows are
\* the referrers that chunks record, a stripe without a row is in one volume
\* alone, and a stripe no chunk has was handed back, exactly.
THEOREM AccountsAreExact == Spec => []Accounted
<1>1. Init => ContentInv /\ AccountInv
  BY ContentInit, AccountInit
<1>2. Types /\ ChunksInv /\ ContentInv /\ AccountInv /\ [Next]_vars => (ContentInv /\ AccountInv)'
  BY ContentNext, AccountNext
<1>3. Types /\ ChunksInv /\ AccountInv => Accounted
  BY AccountGives
<1> QED BY <1>1, <1>2, <1>3, Invariants, PTL DEF Spec

=============================================================================
