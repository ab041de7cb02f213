-------------------------- MODULE BlockChunksProofs --------------------------
(***************************************************************************)
(* Meta's tables of block storage keep their types, and no chunk of a      *)
(* volume or of a finished snapshot names a stripe that was freed.         *)
(***************************************************************************)
EXTENDS BlockChunks, TLAPS

-----------------------------------------------------------------------------
(* Types.                                                                  *)

Places == Holders \X Chunks
Part(D, R) == UNION {[K -> R] : K \in SUBSET D}
Kinds  == {"none", "create", "update", "commit", "share", "delete"}
Stages == {"none", "row", "mark", "share", "release", "done"}
Msg    == [new : Change, by : Kinds, exp : Change]
Call   == [op : Kinds, to : Holders \cup {Nil}, from : Holders \cup {Nil}, stage : Stages,
           waits : BOOLEAN, rows : Part(Places, Row), chunk : Nat, expected : Stripes \cup {Nil},
           new : Stripes \cup {Nil, "available", "attached"}, free : SUBSET Stripes,
           freeing : SUBSET Stripes]

\* What each operation has of the fields of a call.
CallOf(c) == /\ c.op # "none" => c.to \in Holders
             /\ c.op \in {"create", "update", "commit"} => c.to \in Volumes
             /\ c.op = "update" => c.new \in {"available", "attached"}
             /\ c.op = "commit" => c.chunk \in Chunks /\ c.new \in Stripes \cup {Nil}
             /\ c.op = "share" => c.from \in Holders /\ \A k \in DOMAIN c.rows : k[1] = c.from /\ c.rows[k] # NoRow
             /\ c.stage = "done" => ~c.waits
             /\ c.free \cup c.freeing \subseteq used

Owned(k, r) == r # NoRow => r.owner = k[1] \/ (r.owner = r.stripe /\ k[1] \in Volumes)
MsgOK(m) == /\ DOMAIN m.exp.row = DOMAIN m.new.row /\ DOMAIN m.exp.ref = DOMAIN m.new.ref
            /\ \A k \in DOMAIN m.new.row : Owned(k, m.new.row[k])

Types == /\ TypeOK /\ log \in Seq(Msg) /\ call \in Call /\ CallOf(call)
         /\ \A i \in 1..Len(log) : MsgOK(log[i])

\* A function on part of D.
LEMMA PartType ==
    ASSUME NEW D, NEW R, NEW f
    PROVE  f \in Part(D, R) <=> DOMAIN f \subseteq D /\ f \in [DOMAIN f -> R]
<1>1. ASSUME f \in Part(D, R) PROVE DOMAIN f \subseteq D /\ f \in [DOMAIN f -> R]
  <2>1. PICK K \in SUBSET D : f \in [K -> R]
    BY <1>1 DEF Part
  <2> QED BY <2>1
<1>2. ASSUME DOMAIN f \subseteq D, f \in [DOMAIN f -> R] PROVE f \in Part(D, R)
  BY <1>2 DEF Part
<1> QED BY <1>1, <1>2

LEMMA EmptyPart == DOMAIN <<>> = {} /\ \A D, R : <<>> \in Part(D, R)
<1>1. DOMAIN <<>> = {}
  OBVIOUS
<1>2. \A R : <<>> \in [{} -> R]
  OBVIOUS
<1> QED BY <1>1, <1>2, PartType

\* A change, table by table.
LEMMA ChangeType ==
    ASSUME NEW d
    PROVE  d \in Change <=>
             /\ d = [st |-> d.st, row |-> d.row, ref |-> d.ref]
             /\ d.st \in Part(Holders, States) /\ d.row \in Part(Places, Row)
             /\ d.ref \in Part(Stripes, SUBSET Referrers)
  BY DEF Change, Part, Places

LEMMA Rows ==
    ASSUME NEW r \in Row
    PROVE  /\ r.stripe \in Stripes <=> r # NoRow
           /\ r.stripe = Nil <=> r = NoRow
           /\ r # NoRow => r.owner \in Referrers
           /\ r = NoRow => r.stripe = Nil
  BY IdsAssumption DEF Row, NoRow

LEMMA PlaceOf == \A h \in Holders, c \in Chunks : <<h, c>> \in Places /\ <<h, c>>[1] = h /\ <<h, c>>[2] = c
  BY DEF Places
LEMMA Place == \A k \in Places : k[1] \in Holders /\ k[2] \in Chunks /\ k = <<k[1], k[2]>>
  BY DEF Places

\* The three ways the log changes.
LEMMA LogAppend ==
    ASSUME NEW S, NEW s \in Seq(S), NEW m \in S
    PROVE  /\ Append(s, m) \in Seq(S) /\ Len(Append(s, m)) = Len(s) + 1 /\ Len(s) \in Nat
           /\ \A i \in 1..Len(s) : Append(s, m)[i] = s[i]
           /\ Append(s, m)[Len(s) + 1] = m
  OBVIOUS
LEMMA LogTail ==
    ASSUME NEW S, NEW s \in Seq(S), s # <<>>
    PROVE  /\ Tail(s) \in Seq(S) /\ Len(s) \in Nat \ {0} /\ Len(Tail(s)) = Len(s) - 1
           /\ \A i \in 1..Len(Tail(s)) : i + 1 \in 2..Len(s) /\ Tail(s)[i] = s[i + 1]
           /\ Head(s) = s[1] /\ s[1] \in S
  OBVIOUS
LEMMA LogPrefix ==
    ASSUME NEW S, NEW s \in Seq(S), NEW n \in Nat, n <= Len(s)
    PROVE  /\ SubSeq(s, 1, n) \in Seq(S) /\ Len(SubSeq(s, 1, n)) = n
           /\ \A i \in 1..n : SubSeq(s, 1, n)[i] = s[i]
  OBVIOUS
LEMMA LogEntry ==
    ASSUME NEW S, NEW s \in Seq(S)
    PROVE  Len(s) \in Nat /\ (s = <<>> <=> Len(s) = 0) /\ \A i \in 1..Len(s) : s[i] \in S
  OBVIOUS

LEMMA MsgType ==
    ASSUME NEW m \in Msg
    PROVE  /\ m.by \in Kinds /\ m.new \in Change /\ m.exp \in Change
           /\ DOMAIN m.new.st \subseteq Holders /\ \A h \in DOMAIN m.new.st : m.new.st[h] \in States
           /\ DOMAIN m.new.row \subseteq Places /\ \A k \in DOMAIN m.new.row : m.new.row[k] \in Row
           /\ DOMAIN m.new.ref \subseteq Stripes /\ \A s \in DOMAIN m.new.ref : m.new.ref[s] \in SUBSET Referrers
           /\ m.exp.row \in Part(Places, Row) /\ m.exp.ref \in Part(Stripes, SUBSET Referrers)
<1>1. m.by \in Kinds /\ m.new \in Change /\ m.exp \in Change
  BY DEF Msg
<1>2. /\ m.new.st \in Part(Holders, States) /\ m.new.row \in Part(Places, Row)
      /\ m.new.ref \in Part(Stripes, SUBSET Referrers)
      /\ m.exp.row \in Part(Places, Row) /\ m.exp.ref \in Part(Stripes, SUBSET Referrers)
  BY <1>1, ChangeType
<1>3. /\ DOMAIN m.new.st \subseteq Holders /\ m.new.st \in [DOMAIN m.new.st -> States]
      /\ DOMAIN m.new.row \subseteq Places /\ m.new.row \in [DOMAIN m.new.row -> Row]
      /\ DOMAIN m.new.ref \subseteq Stripes /\ m.new.ref \in [DOMAIN m.new.ref -> SUBSET Referrers]
  BY <1>2, PartType
<1> QED BY <1>1, <1>2, <1>3

-----------------------------------------------------------------------------
(* What the calls propose.                                                 *)

\* The batch that Proposes puts in the log.
MsgOf(d) == [new |-> d, by |-> call.op,
             exp |-> [st |-> AsIn(d.st, db.st), row |-> AsIn(d.row, db.row), ref |-> AsIn(d.ref, db.ref)]]

LEMMA Proposed ==
    ASSUME Types, NEW d \in Change, \A k \in DOMAIN d.row : Owned(k, d.row[k])
    PROVE  /\ MsgOf(d) \in Msg /\ MsgOK(MsgOf(d))
           /\ MsgOf(d).new = d /\ MsgOf(d).by = call.op
           /\ \A k \in DOMAIN d.row : MsgOf(d).exp.row[k] = db.row[k]
           /\ \A s \in DOMAIN d.ref : MsgOf(d).exp.ref[s] = db.ref[s]
           /\ DOMAIN MsgOf(d).exp.row = DOMAIN d.row /\ DOMAIN MsgOf(d).exp.ref = DOMAIN d.ref
<1> DEFINE m == MsgOf(d)
<1>1. /\ db.st \in [Holders -> States] /\ db.row \in [Places -> Row] /\ db.ref \in [Stripes -> SUBSET Referrers]
      /\ call.op \in Kinds
  BY DEF Types, TypeOK, Places, Call
<1>2. /\ DOMAIN d.st \subseteq Holders /\ DOMAIN d.row \subseteq Places /\ DOMAIN d.ref \subseteq Stripes
  BY ChangeType, PartType
<1>3. /\ m.new = d /\ m.by = call.op /\ m.exp.st = AsIn(d.st, db.st) /\ m.exp.row = AsIn(d.row, db.row)
      /\ m.exp.ref = AsIn(d.ref, db.ref)
      /\ m.exp = [st |-> m.exp.st, row |-> m.exp.row, ref |-> m.exp.ref]
  BY DEF MsgOf
<1>4. /\ AsIn(d.st, db.st) \in [DOMAIN d.st -> States]
      /\ AsIn(d.row, db.row) \in [DOMAIN d.row -> Row]
      /\ AsIn(d.ref, db.ref) \in [DOMAIN d.ref -> SUBSET Referrers]
  BY <1>1, <1>2 DEF AsIn
<1>5. /\ AsIn(d.st, db.st) \in Part(Holders, States)
      /\ AsIn(d.row, db.row) \in Part(Places, Row)
      /\ AsIn(d.ref, db.ref) \in Part(Stripes, SUBSET Referrers)
  BY <1>2, <1>4 DEF Part
<1>6. m.exp \in Change
  <2> HIDE DEF m
  <2> QED BY <1>3, <1>5, ChangeType
<1>7. m \in Msg
  BY <1>1, <1>3, <1>6 DEF Msg, MsgOf
<1>8. /\ \A k \in DOMAIN d.row : AsIn(d.row, db.row)[k] = db.row[k]
      /\ \A s \in DOMAIN d.ref : AsIn(d.ref, db.ref)[s] = db.ref[s]
      /\ DOMAIN AsIn(d.row, db.row) = DOMAIN d.row /\ DOMAIN AsIn(d.ref, db.ref) = DOMAIN d.ref
  BY DEF AsIn
<1> HIDE DEF m
<1>9. MsgOK(m)
  BY <1>3, <1>8 DEF MsgOK
<1> QED BY <1>3, <1>7, <1>8, <1>9 DEF m

LEMMA SetStateType ==
    ASSUME NEW h \in Holders, NEW st \in States
    PROVE  /\ SetState(h, st) \in Change
           /\ DOMAIN SetState(h, st).row = {} /\ DOMAIN SetState(h, st).ref = {}
           /\ SetState(h, st).row = <<>>
           /\ DOMAIN SetState(h, st).st = {h} /\ SetState(h, st).st[h] = st
<1> DEFINE d == SetState(h, st)
<1>1. d.st = [x \in {h} |-> st] /\ d.row = <<>> /\ d.ref = <<>> /\ d = [st |-> d.st, row |-> d.row, ref |-> d.ref]
  BY DEF SetState, NoChange
<1>2. d.st \in [{h} -> States] /\ DOMAIN d.st = {h} /\ d.st[h] = st
  BY <1>1
<1>3. d.st \in Part(Holders, States)
  BY <1>2 DEF Part
<1> HIDE DEF d
<1>4. d \in Change
  BY <1>1, <1>3, EmptyPart, ChangeType
<1> QED BY <1>1, <1>2, <1>4, EmptyPart DEF d

\* A change of chunks and registry rows.
LEMMA RowsChange ==
    ASSUME NEW R, NEW F
    PROVE  LET d == [NoChange EXCEPT !.row = R, !.ref = F]
           IN  /\ d.row = R /\ d.ref = F /\ DOMAIN d.st = {}
               /\ (R \in Part(Places, Row) /\ F \in Part(Stripes, SUBSET Referrers)) => d \in Change
<1> DEFINE d == [NoChange EXCEPT !.row = R, !.ref = F]
<1>1. d.row = R /\ d.ref = F /\ d.st = <<>>
  BY DEF NoChange
<1>2. <<>> \in Part(Holders, States) /\ DOMAIN <<>> = {}
  BY EmptyPart
<1>3. ASSUME R \in Part(Places, Row), F \in Part(Stripes, SUBSET Referrers) PROVE d \in Change
  <2>1. \A A, B, C : R \in A /\ F \in B /\ <<>> \in C => d \in [st : C, row : A, ref : B]
    BY DEF NoChange
  <2>2. Change = [st : Part(Holders, States), row : Part(Places, Row), ref : Part(Stripes, SUBSET Referrers)]
    BY DEF Change, Part, Places
  <2> HIDE DEF d
  <2> QED BY <1>2, <1>3, <2>1, <2>2
<1> HIDE DEF d
<1> QED BY <1>1, <1>2, <1>3 DEF d

LEMMA CommitType ==
    ASSUME Types, NEW v \in Volumes, NEW c \in Chunks, NEW s \in Stripes \cup {Nil}
    PROVE  LET d == CommitChange(v, c, s)
               old == db.row[<<v, c>>]
           IN  /\ d \in Change /\ DOMAIN d.st = {} /\ DOMAIN d.row = {<<v, c>>} /\ <<v, c>> \in Places
               /\ d.row[<<v, c>>] = IF s = Nil THEN NoRow ELSE [stripe |-> s, owner |-> s]
               /\ DOMAIN d.ref = {r \in Stripes : r = old.stripe /\ old.owner \in db.ref[r]}
               /\ \A r \in DOMAIN d.ref : d.ref[r] = db.ref[r] \ {old.owner}
               /\ \A k \in DOMAIN d.row : Owned(k, d.row[k])
<1> DEFINE d == CommitChange(v, c, s)
           old == db.row[<<v, c>>]
           new == IF s = Nil THEN NoRow ELSE [stripe |-> s, owner |-> s]
           D == {r \in Stripes : r = old.stripe /\ old.owner \in db.ref[r]}
           R == [k \in {<<v, c>>} |-> new]
           F == [x \in D |-> db.ref[x] \ {old.owner}]
<1>0. d = [NoChange EXCEPT !.row = R, !.ref = F]
  BY DEF CommitChange, Releases, release
<1>1. d.row = R /\ d.ref = F /\ DOMAIN d.st = {}
  <2> HIDE DEF d, R, F
  <2> QED BY <1>0, RowsChange
<1>2. new \in Row /\ <<v, c>> \in Places /\ db.ref \in [Stripes -> SUBSET Referrers] /\ v \in Holders
  BY DEF Row, Referrers, Places, Holders, Types, TypeOK
<1>3. d.row \in [{<<v, c>>} -> Row] /\ d.ref \in [D -> SUBSET Referrers]
  BY <1>1, <1>2
<1>4. d.row \in Part(Places, Row) /\ d.ref \in Part(Stripes, SUBSET Referrers)
  BY <1>2, <1>3 DEF Part
<1>5. /\ DOMAIN d.row = {<<v, c>>} /\ d.row[<<v, c>>] = new /\ DOMAIN d.ref = D
      /\ \A r \in D : d.ref[r] = db.ref[r] \ {old.owner}
  BY <1>1
<1>6. Owned(<<v, c>>, new)
  BY DEF Owned
<1>7. d \in Change
  <2> HIDE DEF d, R, F
  <2> QED BY <1>0, <1>1, <1>4, RowsChange
<1> HIDE DEF d, D, new
<1> QED BY <1>1, <1>2, <1>5, <1>6, <1>7 DEF d, D, new

LEMMA FirstOfPart == ASSUME NEW K PROVE FirstOf(K) \subseteq K
  BY DEF FirstOf

\* release_chunks: rows of the holder, each stripe's referrer taken out.
LEMMA ReleaseType ==
    ASSUME Types, NEW h \in Holders
    PROVE  LET d == ReleaseChange(h)
           IN  /\ d \in Change /\ DOMAIN d.st = {} /\ DOMAIN d.row = ReleaseNext(h)
               /\ ReleaseNext(h) \subseteq RowsOf(h) /\ RowsOf(h) \subseteq Places
               /\ \A k \in ReleaseNext(h) : d.row[k] = NoRow /\ k[1] = h /\ db.row[k] # NoRow /\ HeldAs(k) = db.row[k].owner
               /\ \A s \in DOMAIN d.ref : \E k \in ReleaseNext(h) :
                     /\ db.row[k].stripe = s /\ HeldAs(k) \in db.ref[s]
               /\ \A s \in DOMAIN d.ref : \E k \in ReleaseNext(h) :
                     /\ db.row[k].stripe = s /\ d.ref[s] = db.ref[s] \ {HeldAs(k)}
               /\ \A s \in Stripes, k \in ReleaseNext(h) :
                     db.row[k].stripe = s /\ HeldAs(k) \in db.ref[s] => s \in DOMAIN d.ref
               /\ \A k \in DOMAIN d.row : Owned(k, d.row[k])
<1> DEFINE d == ReleaseChange(h)
           K == ReleaseNext(h)
           D == {r \in Stripes : \E k \in K : db.row[k].stripe = r /\ HeldAs(k) \in db.ref[r]}
           of(s) == CHOOSE x \in K : db.row[x].stripe = s
           R == [k \in K |-> NoRow]
           F == [s \in D |-> db.ref[s] \ {HeldAs(of(s))}]
<1>1. d = [NoChange EXCEPT !.row = R, !.ref = F]
  BY DEF ReleaseChange, Releases, release
<1>2. d.row = R /\ d.ref = F /\ DOMAIN d.st = {}
  <2> HIDE DEF d, R, F
  <2> QED BY <1>1, RowsChange
<1>3. /\ K \subseteq RowsOf(h) /\ RowsOf(h) \subseteq Places
      /\ \A k \in K : k[1] = h /\ db.row[k] # NoRow
  BY FirstOfPart DEF ReleaseNext, RowsOf, Places
<1>4. db.ref \in [Stripes -> SUBSET Referrers] /\ \A k \in Places : Owned(k, db.row[k])
  BY DEF Types, TypeOK, Places, Owned
<1>5. \A k \in K : HeldAs(k) = db.row[k].owner
  BY <1>3, <1>4, IdsAssumption DEF HeldAs, Owned, Places
<1>6. R \in [K -> Row] /\ NoRow \in Row
  BY DEF Row
<1>7. F \in [D -> SUBSET Referrers]
  BY <1>4
<1>8. R \in Part(Places, Row) /\ F \in Part(Stripes, SUBSET Referrers)
  <2> HIDE DEF R, F
  <2> QED BY <1>3, <1>6, <1>7 DEF Part
<1>9. d \in Change
  <2> HIDE DEF d, R, F
  <2> QED BY <1>1, <1>8, RowsChange
<1>10. \A s \in D : of(s) \in K /\ db.row[of(s)].stripe = s
  OBVIOUS
<1>11. /\ DOMAIN d.row = K /\ \A k \in K : d.row[k] = NoRow
       /\ DOMAIN d.ref = D /\ \A s \in D : d.ref[s] = db.ref[s] \ {HeldAs(of(s))}
  BY <1>2
<1>12. \A k \in DOMAIN d.row : Owned(k, d.row[k])
  BY <1>11 DEF Owned
<1>13. \A s \in D : \E k \in K : db.row[k].stripe = s /\ d.ref[s] = db.ref[s] \ {HeldAs(k)}
  BY <1>10, <1>11
<1> HIDE DEF d, K
<1> QED BY <1>2, <1>3, <1>5, <1>9, <1>11, <1>12, <1>13 DEF d, K

\* share_chunks: rows read from the source, for the target.
LEMMA ShareType ==
    ASSUME Types, call.op = "share"
    PROVE  LET h == call.to
               d == ShareChange(h)
           IN  /\ d \in Change /\ DOMAIN d.st = {} /\ DOMAIN d.row = {<<h, k[2]>> : k \in ShareNext}
               /\ ShareNext \subseteq DOMAIN call.rows /\ DOMAIN call.rows \subseteq Places
               /\ \A k \in ShareNext : /\ k[1] = call.from /\ call.rows[k] \in Row \ {NoRow}
                                       /\ d.row[<<h, k[2]>>] = [stripe |-> call.rows[k].stripe, owner |-> h]
                                       /\ call.rows[k].stripe \in DOMAIN d.ref
               /\ \A s \in DOMAIN d.ref : \E k \in ShareNext :
                     /\ call.rows[k].stripe = s /\ d.ref[s] = share(s, SharedAs(k, h), h)
               /\ \A k \in DOMAIN d.row : Owned(k, d.row[k])
<1> DEFINE h == call.to
           d == ShareChange(h)
           K == ShareNext
           D == {call.rows[k].stripe : k \in K}
           of(s) == CHOOSE x \in K : call.rows[x].stripe = s
           J == {<<h, k[2]>> : k \in K}
           R == [j \in J |-> [stripe |-> call.rows[<<call.from, j[2]>>].stripe, owner |-> h]]
           F == [s \in D |-> share(s, SharedAs(of(s), h), h)]
<1>1. d = [NoChange EXCEPT !.row = R, !.ref = F]
  BY DEF ShareChange
<1>2. d.row = R /\ d.ref = F /\ DOMAIN d.st = {}
  <2> HIDE DEF d, R, F
  <2> QED BY <1>1, RowsChange
<1>3. /\ K \subseteq DOMAIN call.rows /\ DOMAIN call.rows \subseteq Places /\ call.rows \in [DOMAIN call.rows -> Row]
      /\ h \in Holders /\ call.from \in Holders
      /\ \A k \in DOMAIN call.rows : k[1] = call.from /\ call.rows[k] # NoRow
  <2>1. call.rows \in Part(Places, Row) /\ h \in Holders /\ call.from \in Holders
    BY DEF Types, CallOf, Call
  <2>2. \A k \in DOMAIN call.rows : k[1] = call.from /\ call.rows[k] # NoRow
    BY DEF Types, CallOf
  <2>3. K \subseteq DOMAIN call.rows
    BY FirstOfPart DEF ShareNext
  <2> QED BY <2>1, <2>2, <2>3, PartType
<1>4. \A k \in K : /\ call.rows[k] \in Row \ {NoRow} /\ call.rows[k].stripe \in Stripes /\ call.rows[k].owner \in Referrers
                   /\ k = <<call.from, k[2]>> /\ k[2] \in Chunks /\ <<h, k[2]>> \in Places /\ <<h, k[2]>>[2] = k[2]
  BY <1>3, Rows, Place, PlaceOf
<1>5. \A j \in J : j \in Places /\ j[1] = h /\ <<call.from, j[2]>> \in K
  BY <1>4, PlaceOf, <1>3
<1>6. R \in [J -> Row]
  BY <1>3, <1>4, <1>5 DEF Row, Referrers
<1>7. \A s \in D : of(s) \in K /\ call.rows[of(s)].stripe = s
  OBVIOUS
<1>8. db.ref \in [Stripes -> SUBSET Referrers]
  BY DEF Types, TypeOK
<1>9. \A k \in K : SharedAs(k, h) \in Referrers
  BY <1>3, <1>4 DEF SharedAs, Referrers, Holders
<1>10. D \subseteq Stripes
  BY <1>4
<1>11. F \in [D -> SUBSET Referrers]
  <2>1. \A s \in D : share(s, SharedAs(of(s), h), h) \in SUBSET Referrers
    BY <1>3, <1>7, <1>8, <1>9, <1>10 DEF share, Referrers
  <2> QED BY <2>1
<1>12. R \in Part(Places, Row) /\ F \in Part(Stripes, SUBSET Referrers)
  <2> HIDE DEF R, F, D, J
  <2> QED BY <1>5, <1>6, <1>10, <1>11 DEF Part
<1>13. d \in Change
  <2> HIDE DEF d, R, F
  <2> QED BY <1>1, <1>12, RowsChange
<1>14. \A k \in K : R[<<h, k[2]>>] = [stripe |-> call.rows[k].stripe, owner |-> h]
  BY <1>4
<1>15. \A k \in J : Owned(k, R[k])
  BY <1>5 DEF Owned
<1>16. \A s \in D : \E k \in K : call.rows[k].stripe = s /\ F[s] = share(s, SharedAs(k, h), h)
  BY <1>7
<1>17. DOMAIN R = J /\ DOMAIN F = D /\ \A k \in K : call.rows[k].stripe \in D
  OBVIOUS
<1> HIDE DEF d, R, F, D
<1> QED BY <1>2, <1>3, <1>4, <1>13, <1>14, <1>15, <1>16, <1>17 DEF d

-----------------------------------------------------------------------------
(* Every step keeps the types.                                             *)

LEMMA IdleType == Idle \in Call /\ CallOf(Idle) /\ Idle.rows = <<>> /\ ~Idle.waits /\ Idle.op = "none"
                  /\ Idle.free = {} /\ Idle.freeing = {} /\ Idle.stage = "none"
<1>1. <<>> \in Part(Places, Row)
  BY EmptyPart
<1> QED BY <1>1 DEF Idle, Call, CallOf, Kinds, Stages

LEMMA TypesInit == Init => Types
<1> SUFFICES ASSUME Init PROVE Types
  OBVIOUS
<1>1. /\ db.st = [h \in Holders |-> "none"] /\ db.row = [k \in Holders \X Chunks |-> NoRow]
      /\ db.ref = [s \in Stripes |-> {}] /\ log = <<>> /\ call = Idle /\ used = {} /\ freed = {} /\ cuts = 0
      /\ want = [k \in Holders \X Chunks |-> Nil] /\ life = [h \in Holders |-> "new"]
  BY DEF Init
<1>2. \A k \in Places : db.row[k] = NoRow
  BY <1>1 DEF Places
<1>3. log \in Seq(Msg) /\ Len(log) = 0
  BY <1>1
<1>4. /\ db.st \in [Holders -> States] /\ db.row \in [Holders \X Chunks -> Row]
      /\ db.ref \in [Stripes -> SUBSET Referrers] /\ cuts \in 0..MaxCuts
      /\ want \in [Holders \X Chunks -> Stripes \cup {Nil}] /\ life \in [Holders -> {"new", "whole", "doomed"}]
  BY <1>1, BoundsAssumption DEF States, Row
<1>5. TypeOK
  BY <1>1, <1>2, <1>3, <1>4, IdleType DEF TypeOK, Places
<1> QED BY <1>1, <1>2, <1>3, <1>5, IdleType DEF Types

\* A call begins.
LEMMA BeginTypes ==
    ASSUME Types, NEW c \in Call, Begins(c), used \subseteq used', used' \subseteq Referrers, CallOf(c)',
           ~c.waits, c.free = {}, c.freeing = {}, life' \in [Holders -> {"new", "whole", "doomed"}]
    PROVE  Types'
<1>1. /\ call = Idle /\ call' = [c EXCEPT !.rows = <<>>] /\ UNCHANGED <<db, log, freed, want, cuts>>
  BY DEF Begins
<1>2. <<>> \in Part(Places, Row) /\ DOMAIN <<>> = {}
  BY EmptyPart
<1>3. call' \in Call /\ ~call'.waits /\ call'.rows = <<>> /\ call'.free = {} /\ call'.freeing = {}
  BY <1>1, <1>2 DEF Call
<1>4. CallOf(call)'
  BY <1>1, <1>2, <1>3 DEF CallOf, Call
<1>5. TypeOK'
  BY <1>1, <1>3, IdleType DEF Types, TypeOK
<1>6. \A i \in 1..Len(log) : MsgOK(log[i])'
  BY <1>1 DEF Types, MsgOK, Owned
<1> QED BY <1>1, <1>3, <1>4, <1>5, <1>6 DEF Types

LEMMA NewType ==
    ASSUME NEW op \in Kinds, NEW h \in Holders, NEW stage \in Stages
    PROVE  LET c == New(op, h, stage)
           IN  /\ c \in Call /\ c.op = op /\ c.to = h /\ c.stage = stage /\ ~c.waits /\ c.free = {} /\ c.freeing = {}
               /\ c.rows = <<>> /\ c.new = Nil /\ c.from = Nil /\ c.chunk = 0 /\ c.expected = Nil
  BY IdleType DEF New, Idle, Call

LEMMA RequestTypes ==
    ASSUME Types, Requests PROVE Types'
<1>0. /\ used \subseteq Referrers /\ life \in [Holders -> {"new", "whole", "doomed"}]
      /\ db.st \in [Holders -> States] /\ db.row \in [Places -> Row] /\ DOMAIN <<>> = {}
  BY EmptyPart DEF Types, TypeOK, Places
<1>1. ASSUME NEW v \in Volumes, create_volume(v) PROVE Types'
  <2>1. v \in Holders /\ "create" \in Kinds /\ "row" \in Stages
    BY DEF Holders, Kinds, Stages
  <2>2. CallOf(New("create", v, "row"))'
    BY <2>1, NewType, <1>0 DEF CallOf
  <2> QED BY <1>0, <1>1, <2>1, <2>2, NewType, BeginTypes DEF create_volume, Referrers
<1>2. ASSUME NEW v \in Volumes, NEW st \in {"available", "attached"}, update_volume(v, st) PROVE Types'
  <2>1. v \in Holders /\ "update" \in Kinds /\ "row" \in Stages
    BY DEF Holders, Kinds, Stages
  <2> DEFINE c == [New("update", v, "row") EXCEPT !.new = st]
  <2>2. /\ c \in Call /\ c.op = "update" /\ c.to = v /\ c.stage = "row" /\ ~c.waits /\ c.free = {} /\ c.freeing = {}
        /\ c.new = st
    BY <2>1, NewType DEF Call
  <2>3. Begins(c) /\ used' = used /\ life' = life
    BY <1>2 DEF update_volume
  <2> HIDE DEF c
  <2>4. CallOf(c)'
    BY <2>1, <2>2 DEF CallOf
  <2> QED BY <1>0, <2>2, <2>3, <2>4, BeginTypes
<1>3. ASSUME NEW v \in Volumes, NEW ch \in Chunks, NEW s \in Stripes \cup {Nil}, commit_chunks(v, ch, s) PROVE Types'
  <2>1. v \in Holders /\ "commit" \in Kinds /\ "row" \in Stages /\ ch \in Nat
    BY DEF Holders, Kinds, Stages, Chunks
  <2>0. PICK e \in Stripes \cup {Nil} : e = db.row[<<v, ch>>].stripe
    BY <1>0, <2>1, PlaceOf, Rows
  <2> DEFINE n == New("commit", v, "row")
             c == [n EXCEPT !.chunk = ch, !.new = s, !.expected = e]
  <2>5. n \in Call /\ n.op = "commit" /\ n.to = v /\ n.stage = "row" /\ ~n.waits /\ n.free = {} /\ n.freeing = {}
    BY <2>1, NewType
  <2> HIDE DEF n
  <2>2. /\ c \in Call /\ c.op = "commit" /\ c.to = v /\ c.stage = "row" /\ ~c.waits /\ c.free = {} /\ c.freeing = {}
        /\ c.new = s /\ c.chunk = ch
    BY <2>1, <2>5 DEF Call
  <2>3. Begins(c) /\ used' = used \cup ({s} \cap Stripes) /\ life' = life
    BY <1>3, <2>0 DEF commit_chunks, n
  <2> HIDE DEF c
  <2>4. CallOf(c)'
    BY <2>1, <2>2 DEF CallOf
  <2> QED BY <1>0, <2>2, <2>3, <2>4, BeginTypes DEF Referrers
<1>4. ASSUME NEW v \in Holders, NEW s \in Holders, used' = used \cup {s}, life' = life,
             Begins([New("share", s, "mark") EXCEPT !.from = v])
      PROVE  Types'
  <2>1. "share" \in Kinds /\ "mark" \in Stages
    BY DEF Kinds, Stages
  <2> DEFINE c == [New("share", s, "mark") EXCEPT !.from = v]
  <2>2. /\ c \in Call /\ c.op = "share" /\ c.to = s /\ c.stage = "mark" /\ ~c.waits /\ c.free = {} /\ c.freeing = {}
        /\ c.from = v /\ c.rows = <<>>
    BY <2>1, NewType DEF Call
  <2>3. Begins(c)
    BY <1>4
  <2> HIDE DEF c
  <2>4. CallOf(c)'
    BY <1>0, <2>1, <2>2 DEF CallOf
  <2> QED BY <1>0, <1>4, <2>2, <2>3, <2>4, BeginTypes DEF Referrers
<1>5. ASSUME NEW v \in Volumes, NEW s \in Snapshots, create_snapshot(v, s) \/ clone_volume(s, v) PROVE Types'
  BY <1>4, <1>5 DEF create_snapshot, clone_volume, Holders
<1>6. ASSUME NEW h \in Holders, delete(h) PROVE Types'
  <2>0. PICK stage \in {"release", "mark"} : stage = IF db.st[h] = "deleting" THEN "release" ELSE "mark"
    OBVIOUS
  <2>1. "delete" \in Kinds /\ stage \in Stages /\ stage # "done"
    BY DEF Kinds, Stages
  <2>2. Begins(New("delete", h, stage)) /\ used' = used /\ life' \in [Holders -> {"new", "whole", "doomed"}]
    BY <1>0, <1>6, <2>0 DEF delete
  <2>3. CallOf(New("delete", h, stage))'
    BY <2>1, NewType DEF CallOf
  <2> QED BY <1>0, <2>1, <2>2, <2>3, NewType, BeginTypes
<1> QED BY <1>1, <1>2, <1>3, <1>5, <1>6 DEF Requests

\* A call goes on, waiting or not for a batch.
CarriesOn(w, F) ==
    /\ call' \in Call /\ call'.waits = w /\ call'.freeing = F
    /\ call'.op = call.op /\ call'.to = call.to /\ call'.from = call.from /\ call'.stage = call.stage
    /\ call'.rows = call.rows /\ call'.chunk = call.chunk /\ call'.expected = call.expected
    /\ call'.new = call.new /\ call'.free = call.free
\* A call proposes change d, and is to free F.
Proposal(d, F) ==
    /\ ~call.waits /\ call.stage # "done" /\ CarriesOn(TRUE, F)
    /\ log' = Append(log, MsgOf(d)) /\ UNCHANGED <<db, used, freed, want, life, cuts>>
\* A call ends, well or not; a change of leader may lose the end of the log.
Ends == /\ call' = Idle /\ log' \in Seq(Msg) /\ Len(log') <= Len(log)
        /\ \A i \in 1..Len(log') : log'[i] = log[i]
        /\ freed \subseteq freed' /\ freed' \subseteq freed \cup call.free
        /\ UNCHANGED <<db, used, want, life>>

LEMMA SendsIs == ASSUME Types, NEW d, Sends(d), ~call.waits, call.stage # "done" PROVE Proposal(d, call.freeing)
<1>1. call' = [call EXCEPT !.waits = TRUE] /\ Proposes(d)
  BY DEF Sends
<1>2. call \in Call
  BY DEF Types
<1>3. CarriesOn(TRUE, call.freeing)
  BY <1>1, <1>2 DEF CarriesOn, Call
<1> QED BY <1>1, <1>3 DEF Proposal, Proposes, MsgOf

LEMMA SendsFreeingIs ==
    ASSUME Types, NEW d, NEW F \in SUBSET Stripes, SendsFreeing(d, F), ~call.waits, call.stage # "done"
    PROVE  Proposal(d, F)
<1>1. call' = [call EXCEPT !.waits = TRUE, !.freeing = F] /\ Proposes(d)
  BY DEF SendsFreeing
<1>2. call \in Call
  BY DEF Types
<1>3. CarriesOn(TRUE, F)
  BY <1>1, <1>2 DEF CarriesOn, Call
<1> QED BY <1>1, <1>3 DEF Proposal, Proposes, MsgOf

LEMMA EndsIs ==
    ASSUME Types, (Fails /\ ~call.waits) \/ Responds \/ Cuts
    PROVE  Ends /\ cuts' \in 0..MaxCuts /\ Len(log') <= cuts'
<1>0. /\ log \in Seq(Msg) /\ Len(log) \in Nat /\ cuts \in 0..MaxCuts /\ MaxCuts \in Nat
      /\ Len(log) <= cuts + (IF call.waits THEN 1 ELSE 0) /\ call.waits \in BOOLEAN /\ Len(log) <= cuts + 1
  BY BoundsAssumption DEF Types, TypeOK, Call
<1>1. ASSUME Responds PROVE Ends /\ cuts' \in 0..MaxCuts /\ Len(log') <= cuts'
  <2>1. ~call.waits
    BY <1>1 DEF Responds, Types, CallOf
  <2> QED BY <1>0, <1>1, <2>1 DEF Responds, Ends
<1>2. ASSUME HangsUp PROVE Ends /\ cuts' \in 0..MaxCuts /\ Len(log') <= cuts'
  BY <1>0, <1>2 DEF HangsUp, Ends
<1>3. ASSUME NEW n \in 0..MaxCuts, LeaderChanges(n) PROVE Ends /\ cuts' \in 0..MaxCuts /\ Len(log') <= cuts'
  <2>1. n \in Nat /\ n <= Len(log) /\ log' = SubSeq(log, 1, n)
    BY <1>0, <1>3 DEF LeaderChanges
  <2>2. log' \in Seq(Msg) /\ Len(log') = n /\ \A i \in 1..n : log'[i] = log[i]
    BY <1>0, <2>1, LogPrefix
  <2> QED BY <1>0, <1>3, <2>1, <2>2 DEF LeaderChanges, Ends
<1>4. ASSUME Fails, ~call.waits PROVE Ends /\ cuts' \in 0..MaxCuts /\ Len(log') <= cuts'
  BY <1>0, <1>4 DEF Fails, Ends
<1> QED BY <1>1, <1>2, <1>3, <1>4 DEF Cuts

LEMMA EndTypes ==
    ASSUME Types, Ends, cuts' \in 0..MaxCuts, Len(log') <= cuts'
    PROVE  Types'
<1>1. call' = Idle /\ UNCHANGED <<db, used, want, life>> /\ log' \in Seq(Msg)
  BY DEF Ends
<1>2. CallOf(call)' /\ call' \in Call /\ ~call'.waits /\ call'.free = {} /\ call'.freeing = {}
  BY <1>1, IdleType DEF CallOf
<1>3. freed' \subseteq used'
  BY <1>1 DEF Ends, Types, TypeOK, CallOf
<1>4. \A i \in 1..Len(log') : i \in 1..Len(log) /\ MsgOK(log'[i])
  <2>1. Len(log) \in Nat /\ Len(log') \in Nat
    BY <1>1 DEF Types
  <2> QED BY <2>1 DEF Ends, Types
<1>5. Len(log') <= cuts' + (IF call'.waits THEN 1 ELSE 0)
  BY <1>1, <1>2
<1>6. TypeOK'
  BY <1>1, <1>2, <1>3, <1>5 DEF Types, TypeOK
<1> QED BY <1>1, <1>2, <1>4, <1>6 DEF Types, MsgOK, Owned

LEMMA ProposalTypes ==
    ASSUME Types, NEW d \in Change, NEW F, F \subseteq used, F \subseteq Stripes, Proposal(d, F),
           \A k \in DOMAIN d.row : Owned(k, d.row[k])
    PROVE  Types'
<1>0. /\ ~call.waits /\ call.stage # "done" /\ UNCHANGED <<db, used, freed, want, life, cuts>> /\ call' \in Call
      /\ call'.waits = TRUE /\ call'.freeing = F /\ call'.free = call.free /\ log' = Append(log, MsgOf(d))
  BY DEF Proposal, CarriesOn
<1>1. MsgOf(d) \in Msg /\ MsgOK(MsgOf(d)) /\ log \in Seq(Msg)
  BY Proposed DEF Types
<1>2. /\ log' \in Seq(Msg) /\ Len(log') = Len(log) + 1 /\ Len(log) \in Nat
      /\ \A i \in 1..Len(log) : log'[i] = log[i] /\ MsgOK(log[i])
      /\ log'[Len(log) + 1] = MsgOf(d)
  BY <1>0, <1>1, LogAppend DEF Types
<1>3. CallOf(call)'
  BY <1>0 DEF Proposal, CarriesOn, CallOf, Types
<1>4. \A i \in 1..Len(log') : MsgOK(log'[i])
  <2> HIDE DEF MsgOK
  <2> QED BY <1>1, <1>2
<1>5. TypeOK'
  <2>1. Len(log) <= cuts /\ cuts \in Nat
    BY <1>0 DEF Types, TypeOK
  <2>2. Len(log') <= cuts' + (IF call'.waits THEN 1 ELSE 0)
    BY <1>0, <1>2, <2>1
  <2>3. call'.free \cup call'.freeing \subseteq Stripes
    BY <1>0 DEF Types, TypeOK
  <2> QED BY <1>0, <2>2, <2>3 DEF Types, TypeOK
<1>6. \A i \in 1..Len(log') : MsgOK(log[i])'
  BY <1>4 DEF MsgOK, Owned
<1> QED BY <1>0, <1>2, <1>3, <1>5, <1>6 DEF Types

\* Raft takes the first batch of the log.
Pops == /\ log # <<>> /\ log' = Tail(log) /\ log' \in Seq(Msg) /\ Len(log) \in Nat \ {0}
        /\ Len(log') = Len(log) - 1 /\ log[1] \in Msg /\ MsgOK(log[1])
        /\ \A i \in 1..Len(log') : i + 1 \in 2..Len(log) /\ log'[i] = log[i + 1]
        /\ UNCHANGED <<used, freed, cuts>>

LEMMA PopsIs == ASSUME Types, Raft PROVE Pops
<1>1. log # <<>> /\ log' = Tail(log) /\ UNCHANGED <<used, freed, cuts>> /\ log \in Seq(Msg)
  BY DEF Raft, Applied, Conflicts, Types
<1>2. Len(log) \in Nat \ {0}
  BY <1>1, LogTail
<1>3. MsgOK(log[1])
  BY <1>2 DEF Types
<1> QED BY <1>1, <1>3, LogTail DEF Pops

LEMMA ConflictIs ==
    ASSUME Types, Conflicts
    PROVE  /\ Pops /\ UNCHANGED <<db, want, life>>
           /\ Served => CarriesOn(FALSE, {})
           /\ ~Served => call' = call
<1>1. Pops
  BY PopsIs DEF Raft
<1>2. Served => call' = [call EXCEPT !.waits = FALSE, !.freeing = {}]
  BY DEF Conflicts
<1>3. Served => CarriesOn(FALSE, {})
  BY <1>2 DEF CarriesOn, Types, Call
<1> QED BY <1>1, <1>3 DEF Conflicts

\* What is written, table by table.
Takes(m) ==
    /\ \A h \in Holders : db'.st[h] = IF h \in DOMAIN m.new.st THEN m.new.st[h] ELSE db.st[h]
    /\ \A k \in Places : db'.row[k] = IF k \in DOMAIN m.new.row THEN m.new.row[k] ELSE db.row[k]
    /\ \A s \in Stripes : db'.ref[s] = IF s \in DOMAIN m.new.ref THEN m.new.ref[s] ELSE db.ref[s]
    /\ \A k \in DOMAIN m.new.row : k \in Places /\ m.exp.row[k] = db.row[k]
    /\ \A s \in DOMAIN m.new.ref : s \in Stripes /\ m.exp.ref[s] = db.ref[s]

\* The call whose batch m was written.
Advances(m) ==
    /\ call' \in Call /\ ~call'.waits /\ call'.freeing = {} /\ call'.free = call.free \cup call.freeing
    /\ call'.op = call.op /\ call'.to = call.to /\ call'.from = call.from
    /\ call'.chunk = call.chunk /\ call'.new = call.new
    /\ call.op = "share" => /\ call'.stage \in {"share", "done"} /\ call'.stage # "mark" /\ call'.stage # "row"
                            /\ call'.rows = IF call.stage = "mark" THEN [k \in RowsOf(call.from) |-> db.row[k]]
                                            ELSE [k \in DOMAIN call.rows \ ShareNext |-> call.rows[k]]
                            /\ call.stage # "mark" /\ m.new.row = <<>> => call'.stage = "done"
    /\ call.op # "share" => call'.stage \in {"release", "done"}

LEMMA AdvancedIs ==
    ASSUME Types, NEW m, call' = Advanced(m)
    PROVE  Advances(m)
<1> DEFINE reached == CASE call.op = "share" /\ call.stage = "mark" -> "share"
                     [] call.op = "share" /\ m.new.row # <<>> -> "share"
                     [] call.op = "delete" /\ call.stage = "mark" -> "release"
                     [] call.op = "delete" /\ m.new.row # <<>> -> "release"
                     [] OTHER -> "done"
           rows == IF call.op # "share" THEN <<>>
                ELSE IF call.stage = "mark" THEN [k \in RowsOf(call.from) |-> db.row[k]]
                ELSE [k \in DOMAIN call.rows \ ShareNext |-> call.rows[k]]
<1>1. call' = [call EXCEPT !.waits = FALSE, !.stage = reached, !.rows = rows,
                           !.free = call.free \cup call.freeing, !.freeing = {}]
  BY DEF Advanced
<1>2. /\ reached \in {"share", "release", "done"}
      /\ call.op = "share" => reached \in {"share", "done"}
      /\ call.op = "share" /\ call.stage # "mark" /\ m.new.row = <<>> => reached = "done"
      /\ call.op # "share" => reached \in {"release", "done"}
  OBVIOUS
<1>3. rows \in Part(Places, Row)
  <2>1. CASE call.op # "share"
    BY <2>1, EmptyPart
  <2>2. CASE call.op = "share" /\ call.stage = "mark"
    <3>1. RowsOf(call.from) \subseteq Places
      <4>1. call.from \in Holders
        BY <2>2 DEF Types, CallOf
      <4> QED BY <4>1 DEF RowsOf, Places
    <3>2. db.row \in [Places -> Row]
      BY DEF Types, TypeOK, Places
    <3>3. rows \in [RowsOf(call.from) -> Row]
      BY <2>2, <3>1, <3>2
    <3> QED BY <3>1, <3>3 DEF Part
  <2>3. CASE call.op = "share" /\ call.stage # "mark"
    <3>1. DOMAIN call.rows \subseteq Places /\ call.rows \in [DOMAIN call.rows -> Row]
      BY PartType DEF Types, Call
    <3>2. rows \in [DOMAIN call.rows \ ShareNext -> Row]
      BY <2>3, <3>1
    <3> QED BY <3>1, <3>2 DEF Part
  <2> QED BY <2>1, <2>2, <2>3
<1> HIDE DEF reached
<1>4. call.op = "share" => rows = IF call.stage = "mark" THEN [k \in RowsOf(call.from) |-> db.row[k]]
                                            ELSE [k \in DOMAIN call.rows \ ShareNext |-> call.rows[k]]
  OBVIOUS
<1> HIDE DEF rows
<1>5. call \in Call /\ "release" \in Stages /\ "done" \in Stages /\ "share" \in Stages
  BY DEF Types, Stages
<1>6. /\ call' \in Call /\ ~call'.waits /\ call'.freeing = {} /\ call'.free = call.free \cup call.freeing
      /\ call'.op = call.op /\ call'.to = call.to /\ call'.from = call.from
      /\ call'.chunk = call.chunk /\ call'.new = call.new /\ call'.stage = reached /\ call'.rows = rows
  <2>1. reached \in Stages /\ call.free \cup call.freeing \in SUBSET Stripes
    BY <1>2, <1>5 DEF Call
  <2> DEFINE f == call.free \cup call.freeing
  <2>2. f \in SUBSET Stripes
    BY <2>1
  <2>3. call' = [call EXCEPT !.waits = FALSE, !.stage = reached, !.rows = rows, !.free = f, !.freeing = {}]
    BY <1>1
  <2> HIDE DEF f
  <2>4. /\ call' \in Call /\ ~call'.waits /\ call'.freeing = {} /\ call'.free = f
        /\ call'.op = call.op /\ call'.to = call.to /\ call'.from = call.from
        /\ call'.chunk = call.chunk /\ call'.new = call.new /\ call'.stage = reached /\ call'.rows = rows
    BY <1>3, <1>5, <2>1, <2>2, <2>3 DEF Call
  <2> QED BY <2>4 DEF f
<1> QED BY <1>2, <1>4, <1>6 DEF Advances

LEMMA AppliedIs ==
    ASSUME Types, Applied
    PROVE  /\ Pops /\ Takes(log[1])
           /\ Served => Advances(log[1])
           /\ ~Served => call' = call
<1> DEFINE m == log[1]
<1>1. Pops /\ Head(log) = m /\ m \in Msg /\ MsgOK(m)
  <2>1. Pops
    BY PopsIs DEF Raft
  <2>2. log \in Seq(Msg) /\ log # <<>>
    BY <2>1 DEF Pops, Types
  <2> QED BY <2>1, <2>2, LogTail DEF Pops
<1>2. Matches(m) /\ db' = Written(m)
  BY <1>1 DEF Applied
<1>3. /\ db.st \in [Holders -> States] /\ db.row \in [Places -> Row] /\ db.ref \in [Stripes -> SUBSET Referrers]
  BY DEF Types, TypeOK, Places
<1> HIDE DEF m
<1>4. /\ db'.st = Over(m.new.st, db.st) /\ db'.row = Over(m.new.row, db.row) /\ db'.ref = Over(m.new.ref, db.ref)
  BY <1>2 DEF Written
<1>5. /\ m.exp.row = AsIn(m.exp.row, db.row) /\ m.exp.ref = AsIn(m.exp.ref, db.ref)
      /\ DOMAIN m.exp.row = DOMAIN m.new.row /\ DOMAIN m.exp.ref = DOMAIN m.new.ref
  BY <1>1, <1>2 DEF Matches, MsgOK
<1>6. \A k \in DOMAIN m.new.row : k \in Places /\ m.exp.row[k] = db.row[k]
  <2>1. \A k \in DOMAIN m.new.row : AsIn(m.exp.row, db.row)[k] = db.row[k]
    BY <1>5 DEF AsIn
  <2> QED BY <1>1, <1>5, <2>1, MsgType
<1>7. \A s \in DOMAIN m.new.ref : s \in Stripes /\ m.exp.ref[s] = db.ref[s]
  <2>1. \A s \in DOMAIN m.new.ref : AsIn(m.exp.ref, db.ref)[s] = db.ref[s]
    BY <1>5 DEF AsIn
  <2> QED BY <1>1, <1>5, <2>1, MsgType
<1>8. Takes(m)
  BY <1>3, <1>4, <1>6, <1>7 DEF Takes, Over
<1>9. Served => Advances(m)
  BY <1>1, AdvancedIs DEF Applied
<1> QED BY <1>1, <1>8, <1>9 DEF m, Applied

LEMMA ConflictTypes == ASSUME Types, Conflicts PROVE Types'
<1>1. Pops /\ UNCHANGED <<db, want, life>> /\ (Served => CarriesOn(FALSE, {})) /\ (~Served => call' = call)
  BY ConflictIs
<1>2. /\ call' \in Call /\ call'.free = call.free /\ call'.freeing \subseteq call.freeing
      /\ CallOf(call)'
  <2>1. CASE Served
    BY <1>1, <2>1 DEF CarriesOn, Pops, CallOf, Types
  <2>2. CASE ~Served
    BY <1>1, <2>2 DEF Pops, CallOf, Types
  <2> QED BY <2>1, <2>2
<1>3. Len(log') <= cuts' + (IF call'.waits THEN 1 ELSE 0)
  <2>1. Len(log) <= cuts + (IF call.waits THEN 1 ELSE 0) /\ cuts \in Nat /\ call.waits \in BOOLEAN /\ cuts' = cuts
        /\ Len(log) \in Nat /\ Len(log') = Len(log) - 1
    BY <1>1, BoundsAssumption DEF Types, TypeOK, Call, Pops
  <2>2. CASE Served
    BY <1>1, <2>1, <2>2 DEF Served
  <2>3. CASE ~Served
    <3>1. call' = call
      BY <1>1, <2>3
    <3>2. CASE call.waits
      BY <2>1, <3>1, <3>2
    <3>3. CASE ~call.waits
      BY <2>1, <3>1, <3>3
    <3> QED BY <3>2, <3>3
  <2> QED BY <2>2, <2>3
<1>4. TypeOK'
  BY <1>1, <1>2, <1>3 DEF Types, TypeOK, Pops
<1>5. \A i \in 1..Len(log') : MsgOK(log'[i])
  BY <1>1 DEF Pops, Types
<1>6. \A i \in 1..Len(log') : MsgOK(log[i])'
  BY <1>5 DEF MsgOK, Owned
<1> QED BY <1>1, <1>2, <1>4, <1>6 DEF Types, Pops

LEMMA AppliedTables ==
    ASSUME Types, Applied
    PROVE  /\ db'.st \in [Holders -> States] /\ db'.row \in [Places -> Row] /\ db'.ref \in [Stripes -> SUBSET Referrers]
           /\ \A k \in Places : Owned(k, db'.row[k])
<1> DEFINE m == log[1]
<1>1. /\ db.st \in [Holders -> States] /\ db.row \in [Places -> Row] /\ db.ref \in [Stripes -> SUBSET Referrers]
      /\ \A k \in Places : Owned(k, db.row[k])
  BY DEF Types, TypeOK, Places, Owned
<1>2. Pops /\ Takes(m) /\ m \in Msg /\ MsgOK(m)
  BY AppliedIs DEF Pops
<1>3. Head(log) = m
  BY <1>2, LogTail DEF Types, Pops
<1>4. /\ db'.st = Over(m.new.st, db.st) /\ db'.row = Over(m.new.row, db.row) /\ db'.ref = Over(m.new.ref, db.ref)
  BY <1>3 DEF Applied, Written
<1> HIDE DEF m
<1>5. /\ \A h \in DOMAIN m.new.st : m.new.st[h] \in States
      /\ \A k \in DOMAIN m.new.row : m.new.row[k] \in Row /\ Owned(k, m.new.row[k])
      /\ \A s \in DOMAIN m.new.ref : m.new.ref[s] \in SUBSET Referrers
  BY <1>2, MsgType DEF MsgOK
<1>6. Over(m.new.st, db.st) \in [Holders -> States]
  BY <1>1, <1>5 DEF Over
<1>7. Over(m.new.row, db.row) \in [Places -> Row]
  BY <1>1, <1>5 DEF Over
<1>8. Over(m.new.ref, db.ref) \in [Stripes -> SUBSET Referrers]
  BY <1>1, <1>5 DEF Over
<1>9. \A k \in Places : Owned(k, db'.row[k])
  BY <1>1, <1>2, <1>5 DEF Takes
<1> QED BY <1>4, <1>6, <1>7, <1>8, <1>9

LEMMA AppliedTypes == ASSUME Types, Applied PROVE Types'
<1> DEFINE m == log[1]
<1>1. /\ Pops /\ Takes(m) /\ (Served => Advances(m)) /\ (~Served => call' = call) /\ m \in Msg
      /\ UNCHANGED <<used, freed, cuts>>
  BY AppliedIs DEF Pops
<1>2. Head(log) = m
  BY <1>1, LogTail DEF Types, Pops
<1>3. CallOf(call)' /\ call' \in Call /\ call'.free \cup call'.freeing \subseteq Stripes
  <2>1. CASE Served
    <3>1. call' \in Call /\ Advances(m)
      BY <1>1, <2>1 DEF Advances
    <3>2. ASSUME call.op = "share" PROVE \A k \in DOMAIN call'.rows : k[1] = call.from /\ call'.rows[k] # NoRow
      <4>1. CASE call.stage = "mark"
        <5>1. call'.rows = [k \in RowsOf(call.from) |-> db.row[k]]
          BY <3>1, <3>2, <4>1 DEF Advances
        <5> QED BY <5>1 DEF RowsOf
      <4>2. CASE call.stage # "mark"
        <5>1. call'.rows = [k \in DOMAIN call.rows \ ShareNext |-> call.rows[k]]
          BY <3>1, <3>2, <4>2 DEF Advances
        <5>2. \A k \in DOMAIN call.rows : k[1] = call.from /\ call.rows[k] # NoRow
          BY <3>2 DEF Types, CallOf
        <5> QED BY <5>1, <5>2
      <4> QED BY <4>1, <4>2
    <3>3. CallOf(call) /\ call.free \cup call.freeing \subseteq Stripes
      BY DEF Types, TypeOK
    <3> QED BY <1>1, <3>1, <3>2, <3>3 DEF CallOf, Advances
  <2>2. CASE ~Served
    BY <1>1, <2>2 DEF CallOf, Types, TypeOK
  <2> QED BY <2>1, <2>2
<1>4. Len(log') <= cuts' + (IF call'.waits THEN 1 ELSE 0)
  <2>1. Len(log) <= cuts + (IF call.waits THEN 1 ELSE 0) /\ cuts \in Nat /\ call.waits \in BOOLEAN /\ cuts' = cuts
        /\ Len(log) \in Nat /\ Len(log') = Len(log) - 1 /\ call'.waits \in BOOLEAN
    BY <1>1, <1>3, BoundsAssumption DEF Types, TypeOK, Call, Pops
  <2>2. CASE Served
    <3>1. Len(log') = 0
      BY <2>1, <2>2 DEF Served
    <3> QED BY <2>1, <3>1
  <2>3. CASE ~Served
    <3>1. call' = call
      BY <1>1, <2>3
    <3>2. CASE call.waits
      BY <2>1, <3>1, <3>2
    <3>3. CASE ~call.waits
      BY <2>1, <3>1, <3>3
    <3> QED BY <3>2, <3>3
  <2> QED BY <2>2, <2>3
<1>5. want' \in [Holders \X Chunks -> Stripes \cup {Nil}]
  <2> DEFINE a == Asked(m)
  <2>1. want' = Over(a, want) /\ want \in [Holders \X Chunks -> Stripes \cup {Nil}]
    BY <1>2 DEF Applied, Types, TypeOK
  <2>2. \A k \in DOMAIN a : k \in Places => a[k] \in Stripes \cup {Nil}
    <3>1. CASE m.by = "commit"
      <4>1. a = [k \in DOMAIN m.new.row |-> m.new.row[k].stripe]
        BY <3>1 DEF Asked
      <4>2. \A k \in DOMAIN m.new.row : m.new.row[k].stripe \in Stripes \cup {Nil}
        BY <1>1, MsgType, Rows
      <4> HIDE DEF m
      <4> QED BY <4>1, <4>2
    <3>2. CASE m.by # "commit" /\ Served /\ call.op = "share" /\ call.stage = "mark"
      <4>1. a = [k \in {call.to} \X Chunks |-> db.row[<<call.from, k[2]>>].stripe]
        BY <3>2 DEF Asked
      <4>2. call.from \in Holders /\ call.to \in Holders /\ db.row \in [Places -> Row]
        BY <3>2 DEF Types, CallOf, TypeOK, Places
      <4>3. \A k \in {call.to} \X Chunks : db.row[<<call.from, k[2]>>].stripe \in Stripes \cup {Nil}
        BY <4>2, PlaceOf, Rows
      <4> QED BY <4>1, <4>3
    <3>3. CASE m.by # "commit" /\ ~(Served /\ call.op = "share" /\ call.stage = "mark")
      BY <3>3, EmptyPart DEF Asked
    <3> QED BY <3>1, <3>2, <3>3
  <2> HIDE DEF a
  <2> QED BY <2>1, <2>2 DEF Over, Places
<1>6. life' \in [Holders -> {"new", "whole", "doomed"}]
  <2>1. life' = [h \in Holders |-> IF life[h] = "new" /\ h \in Settles(Head(log)) THEN "whole" ELSE life[h]]
    BY DEF Applied
  <2> HIDE DEF Settles
  <2> QED BY <2>1 DEF Types, TypeOK
<1>7. TypeOK'
  <2>1. /\ db'.st \in [Holders -> States] /\ db'.row \in [Holders \X Chunks -> Row] /\ db'.ref \in [Stripes -> SUBSET Referrers]
        /\ \A k \in Holders \X Chunks : Owned(k, db'.row[k])
    BY AppliedTables DEF Places
  <2>2. \A k \in Holders \X Chunks : db'.row[k] # NoRow =>
                \/ db'.row[k].owner = k[1]
                \/ db'.row[k].owner = db'.row[k].stripe /\ k[1] \in Volumes
    BY <2>1 DEF Owned
  <2>3. used \subseteq Referrers /\ freed \subseteq used /\ cuts \in 0..MaxCuts
    BY DEF Types, TypeOK
  <2> QED BY <1>1, <1>3, <1>4, <1>5, <1>6, <2>1, <2>2, <2>3 DEF TypeOK
<1>8. \A i \in 1..Len(log') : MsgOK(log'[i])
  BY <1>1 DEF Pops, Types
<1>9. \A i \in 1..Len(log') : MsgOK(log[i])'
  BY <1>8 DEF MsgOK, Owned
<1> QED BY <1>1, <1>3, <1>7, <1>9 DEF Types, Pops

-----------------------------------------------------------------------------
(* The inductive invariant: the batches of the log.                        *)

\* A batch that writes chunks for the target of a share.
IsShare(m) == m.by = "share" /\ DOMAIN m.new.row # {}
\* The stripes a commit's batch brings.
NewIn(m) == {s \in Stripes : m.by = "commit" /\ \E k \in DOMAIN m.new.row : m.new.row[k].stripe = s}
\* A batch that makes a holder available.
Opening(m, h) == h \in DOMAIN m.new.st /\ m.new.st[h] = "available"

\* Whatever a batch takes out it expected to be there, each stripe once, with
\* the referrer whose chunk it takes; it adds the stripe of a commit, if any.
TakesOut(m) ==
    /\ \A k \in DOMAIN m.new.row : m.new.row[k] # NoRow =>
            /\ m.by = "commit" /\ m.new.row[k].owner = m.new.row[k].stripe
            /\ DOMAIN m.new.row = {k}
    /\ \A k, j \in DOMAIN m.new.row : m.exp.row[k].stripe = m.exp.row[j].stripe => k = j
    /\ \A k \in DOMAIN m.new.row : m.exp.row[k].stripe \in DOMAIN m.new.ref =>
          m.new.ref[m.exp.row[k].stripe] = m.exp.ref[m.exp.row[k].stripe] \ {m.exp.row[k].owner}
    /\ \A s \in DOMAIN m.new.ref : \E k \in DOMAIN m.new.row : m.exp.row[k].stripe = s

\* A share's batch is the first of the log, so the tables are as when it was
\* built: each chunk is one the target does not have, of a stripe that another
\* holder has, which is entered for both.
GivesRow(m, k, h, s) ==
    /\ h \in used /\ db.st[h] = "creating" /\ s \in Stripes /\ m.new.row[k].owner = h /\ db.row[k] = NoRow
    /\ \A c \in Chunks : db.row[<<h, c>>].stripe # s
    /\ \E j \in Places : db.row[j].stripe = s
    /\ s \in DOMAIN m.new.ref
    /\ m.new.ref[s] = (IF db.ref[s] = {} THEN {s} ELSE db.ref[s]) \cup {h}
    /\ h \in Volumes => db.ref[s] # {}
GivesTo(m) ==
    /\ DOMAIN m.new.st = {}
    /\ \A k \in DOMAIN m.new.row : GivesRow(m, k, k[1], m.new.row[k].stripe)
    /\ \A k, j \in DOMAIN m.new.row : m.new.row[k].stripe = m.new.row[j].stripe => k = j
    /\ \A s \in DOMAIN m.new.ref : \E k \in DOMAIN m.new.row : m.new.row[k].stripe = s

\* Every batch is of ids that were given out; only a share gives a holder
\* chunks that another has, before the holder is open.
BatchIds(m) == /\ \A h \in DOMAIN m.new.st : h \in used /\ (h \in Snapshots => m.new.st[h] # "attached")
               /\ \A k \in DOMAIN m.new.row : k[1] \in used
Batches == \A i \in 1..Len(log) :
              /\ BatchIds(log[i])
              /\ IsShare(log[i]) => i = 1 /\ GivesTo(log[i])
              /\ ~IsShare(log[i]) => TakesOut(log[i])
Unopened == \A i \in 1..Len(log) : IsShare(log[i]) => \A k \in DOMAIN log[i].new.row :
               k[1] \in Snapshots => \A j \in 1..Len(log) : ~Opening(log[j], k[1])

-----------------------------------------------------------------------------
(* The inductive invariant: the tables.                                    *)

Given == /\ \A h \in Holders : db.st[h] # "none" => h \in used
         /\ \A h \in Snapshots : db.st[h] # "attached"
         /\ \A k \in Places : db.row[k] # NoRow => k[1] \in used /\ db.row[k].stripe \in used
         /\ \A s \in Stripes : db.ref[s] # {} => s \in used

\* No two chunks have a stripe in the same name, nor two of one holder at all.
Apart   == \A k, j \in Places :
              (k # j /\ db.row[k].stripe \in Stripes /\ db.row[k].stripe = db.row[j].stripe) =>
                 k[1] # j[1] /\ db.row[k].owner # db.row[j].owner
\* A stripe without an entry is its volume's own; an entry has every referrer.
EnteredAt(k, s) == s \in Stripes => IF db.ref[s] = {} THEN db.row[k].owner = s ELSE db.row[k].owner \in db.ref[s]
Entered == \A k \in Places : EnteredAt(k, db.row[k].stripe)

\* A stripe that a commit is to bring is in no table.
Unnamed(s) == /\ s \in used /\ db.ref[s] = {} /\ s \notin freed \cup call.free \cup call.freeing
              /\ \A k \in Places : db.row[k].stripe # s
Bringing == /\ \A i \in 1..Len(log) : \A s \in NewIn(log[i]) :
                  Unnamed(s) /\ \A j \in 1..Len(log) : s \in NewIn(log[j]) => j = i
            /\ (call.op = "commit" /\ call.stage = "row" /\ call.new # Nil) =>
                  /\ Unnamed(call.new)
                  /\ \A i \in 1..Len(log) : call.new \in NewIn(log[i]) => call.waits /\ i = Len(log)

-----------------------------------------------------------------------------
(* The inductive invariant: the call and its own batch.                    *)

Own == log[Len(log)]
\* A call is about a holder that has its id, and waits for a batch of the log.
Waiting == (call.waits => log # <<>>) /\ (call.op # "none" => call.to \in used)

\* A snapshot that can never be finished, or is no more.
Dead(h) == /\ h \in Snapshots /\ h \in used /\ db.st[h] # "available"
           /\ \A i \in 1..Len(log) : ~Opening(log[i], h)
           /\ ~(call.op = "share" /\ call.to = h)

\* A share reads chunks that are not freed, from a holder nothing is shared to.
SharingIds ==
    /\ call.to \in used /\ call.from \in used /\ call.from # call.to
    /\ call.to \in Volumes => call.from \in Snapshots
    /\ call.free = {} /\ call.freeing = {}
    /\ \A c \in Chunks : db.row[<<call.from, c>>].stripe \notin freed
    /\ \A i \in 1..Len(log) : IsShare(log[i]) => \A k \in DOMAIN log[i].new.row : k[1] # call.from
\* Its target is new until it is marked.
SharingMark ==
    /\ \A c \in Chunks : db.row[<<call.to, c>>] = NoRow
    /\ \A i \in 1..Len(log) : \A k \in DOMAIN log[i].new.row : k[1] # call.to
    /\ call.waits => /\ call.to \in DOMAIN Own.new.st /\ Own.new.st[call.to] = "creating"
                     /\ DOMAIN Own.new.row = {}
\* Then the log has the call's own batch at most, and what is left to share is
\* as it was read.
Left(k) == /\ db.row[k] = call.rows[k] /\ db.row[<<call.to, k[2]>>] = NoRow
           /\ \A c \in Chunks : db.row[<<call.to, c>>].stripe # db.row[k].stripe
SharingRows ==
    /\ db.st[call.to] = "creating" /\ Len(log) = IF call.waits THEN 1 ELSE 0
    /\ \A k \in DOMAIN call.rows : Left(k)
    /\ call.waits => /\ \A j \in DOMAIN Own.new.row : \E k \in ShareNext :
                           j = <<call.to, k[2]>> /\ Own.new.row[j].stripe = call.rows[k].stripe
                     /\ IsShare(Own) \/ Own.new.row = <<>>
Sharing == call.op = "share" => /\ SharingIds
                                /\ call.stage \in {"mark", "share", "done"}
                                /\ call.stage = "mark" => SharingMark
                                /\ call.stage = "share" => SharingRows

\* What a commit or a delete is about to free: the registry has only the
\* referrer taken out, and the batch expects it so; or nobody but the chunk taken
\* out had the stripe when the batch was built, and whoever got it since is dead.
LastOne(s) == \E k \in DOMAIN Own.new.row :
                 /\ Own.exp.row[k].stripe = s /\ s \in DOMAIN Own.new.ref
                 /\ Own.exp.ref[s] = {Own.exp.row[k].owner}
OwnRows(s) == /\ \A k \in Places : db.row[k].stripe = s => k \in DOMAIN Own.new.row \/ Dead(k[1])
              /\ \A i \in 1..Len(log) : IsShare(log[i]) => \A k \in DOMAIN log[i].new.row :
                    log[i].new.row[k].stripe = s => Dead(k[1])
Freeing == /\ call.freeing # {} => call.waits /\ call.op \in {"commit", "delete"}
           /\ \A s \in call.freeing : /\ LastOne(s) \/ OwnRows(s)
                                      /\ \A k \in DOMAIN Own.new.row : Own.new.row[k].stripe # s

-----------------------------------------------------------------------------
(* The inductive invariant: what is gone.                                  *)

Gone == freed \cup call.free
GoneIsDead == \A k \in Places : db.row[k].stripe \in Gone => Dead(k[1])
GoneStays  == \A i \in 1..Len(log) : \A k \in DOMAIN log[i].new.row : log[i].new.row[k].stripe \notin Gone

ChunksInv == /\ Batches /\ Unopened /\ Given /\ Apart /\ Entered /\ Bringing /\ Waiting /\ Sharing /\ Freeing
             /\ GoneIsDead /\ GoneStays

-----------------------------------------------------------------------------
(* A call begins or ends.                                                  *)

LEMMA InvParts == ChunksInv => /\ Batches /\ Unopened /\ Given /\ Apart /\ Entered /\ Bringing /\ Waiting
                               /\ Sharing /\ Freeing /\ GoneIsDead /\ GoneStays
  BY DEF ChunksInv

\* While the tables stay the batches stay as they are.
LEMMA BatchesKept ==
    ASSUME Batches, db' = db, used \subseteq used', 
           \A i \in 1..Len(log') : i \in 1..Len(log) /\ log'[i] = log[i]
    PROVE  Batches'
<1>0. \A i \in 1..Len(log') : i \in 1..Len(log) /\ log'[i] = log[i]
  OBVIOUS
<1>1. \A i \in 1..Len(log') : BatchIds(log[i])'
  BY DEF Batches, BatchIds
<1>2. \A m, k, h, s : GivesRow(m, k, h, s) => GivesRow(m, k, h, s)'
  BY DEF GivesRow
<1>3. \A i \in 1..Len(log') : IsShare(log[i])' => i = 1 /\ GivesTo(log[i])'
  <2> SUFFICES ASSUME NEW i \in 1..Len(log'), IsShare(log[i])' PROVE i = 1 /\ GivesTo(log[i])'
    OBVIOUS
  <2>1. PICK m : m = log[i] /\ m = log'[i]
    OBVIOUS
  <2>2. IsShare(m)
    BY <2>1 DEF IsShare
  <2>3. i = 1 /\ GivesTo(m)
    BY <1>0, <2>1, <2>2 DEF Batches
  <2>4. \A k \in DOMAIN m.new.row : GivesRow(m, k, k[1], m.new.row[k].stripe)'
    BY <1>2, <2>3 DEF GivesTo
  <2>5. GivesTo(m)'
    BY <2>3, <2>4 DEF GivesTo
  <2>6. GivesTo(log[i])'
    BY <2>1, <2>5
  <2> QED BY <2>3, <2>6
<1>4. \A i \in 1..Len(log') : ~IsShare(log[i])' => TakesOut(log[i])'
  BY DEF Batches, IsShare, TakesOut
<1> QED BY <1>1, <1>3, <1>4 DEF Batches

LEMMA EndInv ==
    ASSUME Types, ChunksInv, Ends
    PROVE  ChunksInv'
<1>0. /\ call' = Idle /\ Len(log') <= Len(log) /\ Len(log) \in Nat /\ Len(log') \in Nat
      /\ \A i \in 1..Len(log') : i \in 1..Len(log) /\ log'[i] = log[i]
      /\ freed' \subseteq freed \cup call.free /\ db' = db /\ used' = used
      /\ call'.op = "none" /\ call'.free = {} /\ call'.freeing = {} /\ ~call'.waits
  <2>1. Len(log) \in Nat /\ Len(log') \in Nat
    BY DEF Types, Ends
  <2> QED BY <2>1, IdleType DEF Ends
<1>1. Batches'
  BY <1>0, InvParts, BatchesKept
<1>2. Unopened'
  BY <1>0, InvParts DEF Unopened, IsShare, Opening
<1>3. Given' /\ Apart' /\ Entered'
  BY <1>0, InvParts DEF Given, Apart, Entered, EnteredAt
<1>4. Bringing'
  BY <1>0, InvParts DEF Bringing, Unnamed, NewIn
<1>5. Waiting' /\ Sharing' /\ Freeing'
  BY <1>0 DEF Waiting, Sharing, Freeing
<1>6. \A h : Dead(h) => Dead(h)'
  BY <1>0 DEF Dead, Opening
<1>7. GoneIsDead'
  BY <1>0, <1>6, InvParts DEF GoneIsDead, Gone
<1>8. GoneStays'
  BY <1>0, InvParts DEF GoneStays, Gone
<1> QED BY <1>1, <1>2, <1>3, <1>4, <1>5, <1>7, <1>8 DEF ChunksInv

\* A call begins: a share with a target that is new, from a holder that is
\* live, a commit to one that is live with a stripe that is new.
Fits == /\ call = Idle /\ UNCHANGED <<db, log, freed, want>> /\ used \subseteq used'
        /\ \A h \in Holders : life'[h] # life[h] => h \in used /\ life'[h] = "doomed"
        /\ call'.op = "create" => call'.to \in Holders \ used
        /\ call'.op = "commit" => call'.to \in Holders /\ db.st[call'.to] \in {"available", "attached"}
        /\ call'.op = "delete" => life'[call'.to] = "doomed"
        /\ ~call'.waits /\ call'.free = {} /\ call'.freeing = {}
        /\ call'.op # "none" => call'.to \in used'
        /\ call'.op = "share" => /\ call'.stage = "mark" /\ call'.to \in Holders \ used /\ call'.from \in Holders
                                 /\ db.st[call'.from] \in {"available", "attached"} /\ call'.to \in used'
                                 /\ call'.to \in Volumes => call'.from \in Snapshots
        /\ call'.op = "commit" /\ call'.new # Nil => call'.new \in Stripes \ used /\ call'.new \in used'

LEMMA BeginInv ==
    ASSUME Types, ChunksInv, Fits
    PROVE  ChunksInv'
<1>0. /\ call = Idle /\ db' = db /\ log' = log /\ freed' = freed /\ used \subseteq used'
      /\ ~call'.waits /\ call'.free = {} /\ call'.freeing = {}
      /\ call.free = {} /\ call.freeing = {} /\ call.op = "none" /\ freed \subseteq used
  BY IdleType DEF Fits, Types, TypeOK
<1>00. /\ \A i \in 1..Len(log) : log[i] \in Msg /\ DOMAIN log[i].new.row \subseteq Places
       /\ db.st \in [Holders -> States] /\ db.row \in [Places -> Row]
  BY MsgType, LogEntry DEF Types, TypeOK, Places
<1>1. Batches'
  BY <1>0, InvParts, BatchesKept
<1>2. Unopened'
  BY <1>0, InvParts DEF Unopened, IsShare, Opening
<1>3. Given' /\ Apart' /\ Entered'
  BY <1>0, InvParts DEF Given, Apart, Entered, EnteredAt
<1>4. Bringing'
  <2>1. \A s : Unnamed(s) => Unnamed(s)'
    BY <1>0 DEF Unnamed
  <2>2. ASSUME call'.op = "commit", call'.new # Nil
        PROVE  Unnamed(call.new)' /\ \A i \in 1..Len(log) : call'.new \notin NewIn(log[i])
    <3>1. call'.new \in Stripes \ used /\ call'.new \in used'
      BY <2>2 DEF Fits
    <3>2. \A k \in Places : db.row[k].stripe # call'.new
      BY <1>00, <3>1, Rows, InvParts DEF Given
    <3>3. db.ref[call'.new] = {}
      BY <3>1, InvParts DEF Given
    <3>4. \A i \in 1..Len(log) : call'.new \notin NewIn(log[i])
      BY <3>1, InvParts DEF Bringing, Unnamed
    <3> QED BY <1>0, <3>1, <3>2, <3>3, <3>4 DEF Unnamed
  <2> QED BY <1>0, <2>1, <2>2, InvParts DEF Bringing, NewIn
<1>5. Waiting' /\ Freeing'
  BY <1>0 DEF Waiting, Freeing, Fits
<1>6. ASSUME NEW h, Dead(h) PROVE Dead(h)'
  BY <1>0, <1>6 DEF Dead, Opening, Fits
<1>7. GoneIsDead'
  BY <1>0, <1>6, InvParts DEF GoneIsDead, Gone
<1>8. GoneStays'
  BY <1>0, InvParts DEF GoneStays, Gone
<1>9. Sharing'
  <2> SUFFICES ASSUME call'.op = "share" PROVE SharingIds' /\ call'.stage = "mark" /\ SharingMark'
    BY DEF Sharing
  <2>1. /\ call'.stage = "mark" /\ call'.to \in Holders \ used /\ call'.from \in Holders
        /\ db.st[call'.from] \in {"available", "attached"} /\ call'.to \in used'
        /\ call'.to \in Volumes => call'.from \in Snapshots
    BY DEF Fits
  <2>2. call'.from \in used
    BY <2>1, InvParts DEF Given
  <2>3. ~Dead(call'.from)
    BY <2>1, InvParts DEF Dead, Given
  <2>4. \A c \in Chunks : <<call'.from, c>> \in Places /\ <<call'.from, c>>[1] = call'.from
    BY <2>1, PlaceOf
  <2>5. \A c \in Chunks : db.row[<<call'.from, c>>].stripe \notin freed
    BY <1>0, <2>3, <2>4, InvParts DEF GoneIsDead, Gone
  <2>6. \A i \in 1..Len(log) : IsShare(log[i]) => \A k \in DOMAIN log[i].new.row : k[1] # call'.from
    BY <2>1, InvParts DEF Batches, GivesTo, GivesRow
  <2>7. \A c \in Chunks : db.row[<<call'.to, c>>] = NoRow
    <3>1. \A c \in Chunks : <<call'.to, c>> \in Places /\ <<call'.to, c>>[1] = call'.to
      BY <2>1, PlaceOf
    <3> QED BY <2>1, <3>1, InvParts DEF Given
  <2>8. \A i \in 1..Len(log) : \A k \in DOMAIN log[i].new.row : k[1] # call'.to
    BY <2>1, InvParts DEF Batches, BatchIds
  <2>9. SharingIds'
    BY <1>0, <2>1, <2>2, <2>5, <2>6 DEF SharingIds, IsShare
  <2>10. SharingMark'
    BY <1>0, <2>7, <2>8 DEF SharingMark
  <2> QED BY <2>1, <2>9, <2>10
<1> QED BY <1>1, <1>2, <1>3, <1>4, <1>5, <1>7, <1>8, <1>9 DEF ChunksInv

-----------------------------------------------------------------------------
(* Raft takes a batch.                                                     *)

\* What is left of the log: no share's batch, and a waiting call's own last.
LEMMA PopsLeft ==
    ASSUME Types, ChunksInv, Pops
    PROVE  /\ Batches' /\ Unopened'
           /\ \A i \in 1..Len(log') : ~IsShare(log[i])'
           /\ Len(log) # 1 => Own' = Own /\ Len(log') # 0
           /\ Len(log) = 1 => Len(log') = 0 /\ Own = log[1]
           /\ \A i \in 1..Len(log') : i + 1 \in 1..Len(log) /\ log'[i] = log[i + 1] /\ i + 1 # 1
           /\ \A h : (\A i \in 1..Len(log) : ~Opening(log[i], h)) => \A i \in 1..Len(log') : ~Opening(log[i], h)'
<1>0. /\ Len(log) \in Nat \ {0} /\ Len(log') = Len(log) - 1 /\ used' = used
      /\ \A i \in 1..Len(log') : i + 1 \in 1..Len(log) /\ log'[i] = log[i + 1] /\ i + 1 # 1
  BY DEF Pops
<1>1. \A i \in 1..Len(log') : /\ ~IsShare(log[i + 1]) /\ TakesOut(log[i + 1]) /\ BatchIds(log[i + 1])
  BY <1>0, InvParts DEF Batches
<1>2. \A i \in 1..Len(log') : ~IsShare(log[i])'
  BY <1>0, <1>1 DEF IsShare
<1>3. Batches'
  <2>0. \A m : (TakesOut(m) => TakesOut(m)') /\ (BatchIds(m) => BatchIds(m)')
    BY <1>0 DEF TakesOut, BatchIds
  <2>1. ASSUME NEW i \in 1..Len(log') PROVE TakesOut(log[i])' /\ BatchIds(log[i])'
    <3>1. PICK m : m = log[i + 1] /\ m = log'[i]
      BY <1>0
    <3>2. TakesOut(m)' /\ BatchIds(m)'
      BY <1>1, <2>0, <3>1
    <3> QED BY <3>1, <3>2
  <2> QED BY <1>2, <2>1 DEF Batches
<1>4. Unopened'
  BY <1>2 DEF Unopened
<1>5. Len(log) # 1 => Own' = Own /\ Len(log') # 0
  BY <1>0 DEF Own
<1>6. Len(log) = 1 => Len(log') = 0 /\ Own = log[1]
  BY <1>0 DEF Own
<1>7. \A h : (\A i \in 1..Len(log) : ~Opening(log[i], h)) => \A i \in 1..Len(log') : ~Opening(log[i], h)'
  BY <1>0 DEF Opening
<1> QED BY <1>0, <1>2, <1>3, <1>4, <1>5, <1>6, <1>7

LEMMA ConflictInv ==
    ASSUME Types, ChunksInv, Conflicts
    PROVE  ChunksInv'
<1>0. /\ Pops /\ db' = db /\ used' = used /\ freed' = freed
      /\ Served => CarriesOn(FALSE, {})
      /\ ~Served => call' = call
      /\ Len(log) \in Nat \ {0} /\ Len(log') = Len(log) - 1 /\ log # <<>>
      /\ \A i \in 1..Len(log') : i + 1 \in 1..Len(log) /\ log'[i] = log[i + 1]
  BY ConflictIs, PopsLeft DEF Pops
<1>1. /\ call'.op = call.op /\ call'.to = call.to /\ call'.from = call.from /\ call'.stage = call.stage
      /\ call'.rows = call.rows /\ call'.new = call.new /\ call'.free = call.free
      /\ call'.freeing \subseteq call.freeing /\ (call'.waits => call.waits /\ ~Served)
      /\ call.waits \in BOOLEAN /\ call'.waits \in BOOLEAN
  <2>1. CASE Served
    BY <1>0, <2>1 DEF CarriesOn, Types, Call
  <2>2. CASE ~Served
    BY <1>0, <2>2 DEF Types, Call
  <2> QED BY <2>1, <2>2
<1>2. Batches' /\ Unopened' /\ \A i \in 1..Len(log') : ~IsShare(log[i])'
  BY <1>0, PopsLeft
<1>3. Given' /\ Apart' /\ Entered'
  BY <1>0, InvParts DEF Given, Apart, Entered, EnteredAt
<1>4. Bringing'
  <2>1. \A s : Unnamed(s) => Unnamed(s)'
    BY <1>0, <1>1 DEF Unnamed
  <2>2. \A i \in 1..Len(log') : \A s \in NewIn(log'[i]) :
            Unnamed(s)' /\ \A j \in 1..Len(log') : s \in NewIn(log'[j]) => j = i
    <3> SUFFICES ASSUME NEW i \in 1..Len(log'), NEW s \in NewIn(log'[i])
                 PROVE  Unnamed(s)' /\ \A j \in 1..Len(log') : s \in NewIn(log'[j]) => j = i
      OBVIOUS
    <3>1. i + 1 \in 1..Len(log) /\ s \in NewIn(log[i + 1])
      BY <1>0
    <3>2. Unnamed(s) /\ \A j \in 1..Len(log) : s \in NewIn(log[j]) => j = i + 1
      BY <3>1, InvParts DEF Bringing
    <3>3. \A j \in 1..Len(log') : s \in NewIn(log'[j]) => j + 1 = i + 1
      BY <1>0, <3>2
    <3> QED BY <2>1, <3>2, <3>3
  <2>3. ASSUME call'.op = "commit", call'.stage = "row", call'.new # Nil
        PROVE  Unnamed(call.new)' /\ \A i \in 1..Len(log') : call'.new \in NewIn(log'[i]) => call'.waits /\ i = Len(log')
    <3>1. Unnamed(call.new) /\ \A i \in 1..Len(log) : call.new \in NewIn(log[i]) => call.waits /\ i = Len(log)
      BY <1>1, <2>3, InvParts DEF Bringing
    <3>2. Unnamed(call.new)'
      BY <1>1, <2>1, <3>1
    <3>3. \A i \in 1..Len(log') : call.new \in NewIn(log'[i]) => call.waits /\ i + 1 = Len(log)
      BY <1>0, <3>1
    <3>4. CASE Served
      BY <1>0, <3>2, <3>4 DEF Served
    <3>5. CASE ~Served
      <4>1. call' = call
        BY <1>0, <3>5
      <4> QED BY <1>0, <3>2, <3>3, <4>1
    <3> QED BY <3>4, <3>5
  <2> QED BY <2>2, <2>3 DEF Bringing
<1>5. call'.waits => Own' = Own /\ Len(log') # 0
  BY <1>0, <1>1, PopsLeft DEF Served
<1>6. Waiting'
  BY <1>0, <1>1, <1>5, InvParts DEF Waiting
<1>7. \A h : Dead(h) => Dead(h)'
  BY <1>0, <1>1, PopsLeft DEF Dead
<1>8. GoneIsDead' /\ GoneStays'
  BY <1>0, <1>1, <1>7, InvParts DEF GoneIsDead, GoneStays, Gone
<1>9. Freeing'
  <2> SUFFICES ASSUME NEW s \in call'.freeing
               PROVE  /\ call'.waits /\ call'.op \in {"commit", "delete"}
                      /\ LastOne(s)' \/ OwnRows(s)'
                      /\ \A k \in DOMAIN Own'.new.row : Own'.new.row[k].stripe # s
    BY DEF Freeing
  <2>1. ~Served /\ call' = call
    BY <1>0 DEF CarriesOn
  <2>2. /\ call.waits /\ call.op \in {"commit", "delete"} /\ (LastOne(s) \/ OwnRows(s))
        /\ \A k \in DOMAIN Own.new.row : Own.new.row[k].stripe # s
    BY <2>1, InvParts DEF Freeing
  <2>3. Own' = Own
    BY <1>5, <2>1, <2>2
  <2>4. LastOne(s) => LastOne(s)'
    BY <2>3 DEF LastOne
  <2>5. OwnRows(s) => OwnRows(s)'
    BY <1>0, <1>2, <1>7, <2>3 DEF OwnRows
  <2> QED BY <2>1, <2>2, <2>3, <2>4, <2>5
<1>10. Sharing'
  <2> SUFFICES ASSUME call.op = "share"
               PROVE  /\ SharingIds' /\ call.stage \in {"mark", "share", "done"}
                      /\ call.stage = "mark" => SharingMark'
                      /\ call.stage = "share" => SharingRows'
    BY <1>1 DEF Sharing
  <2>1. /\ SharingIds /\ call.stage \in {"mark", "share", "done"}
        /\ call.stage = "mark" => SharingMark
        /\ call.stage = "share" => SharingRows
    BY InvParts DEF Sharing
  <2>2. SharingIds'
    BY <1>0, <1>1, <1>2, <2>1 DEF SharingIds
  <2>3. ASSUME call.stage = "mark" PROVE SharingMark'
    BY <1>0, <1>1, <1>5, <2>1, <2>3 DEF SharingMark
  <2>4. ASSUME call.stage = "share" PROVE SharingRows'
    <3>1. SharingRows
      BY <2>1, <2>4
    <3>2. call.waits /\ Len(log) = 1
      BY <1>0, <3>1 DEF SharingRows
    <3>3. ~call'.waits /\ Len(log') = 0
      BY <1>0, <1>1, <3>2 DEF Served
    <3> QED BY <1>0, <1>1, <3>1, <3>3 DEF SharingRows, Left
  <2> QED BY <2>1, <2>2, <2>3, <2>4
<1> QED BY <1>2, <1>3, <1>4, <1>6, <1>8, <1>9, <1>10 DEF ChunksInv

-----------------------------------------------------------------------------
(* A batch is written: the tables.                                         *)

LEMMA ShareWritten ==
    ASSUME Types, ChunksInv, Applied, IsShare(log[1])
    PROVE  Given' /\ Apart' /\ Entered'
<1> DEFINE m == log[1]
<1>0. /\ Takes(m) /\ m \in Msg /\ GivesTo(m) /\ BatchIds(m) /\ used' = used
      /\ DOMAIN m.new.row \subseteq Places /\ db.row \in [Places -> Row] /\ db'.row \in [Places -> Row]
      /\ \A k \in Places : Owned(k, db.row[k])
      /\ \A k \in DOMAIN m.new.row : m.new.row[k] \in Row
  <2>1. Pops /\ Takes(m)
    BY AppliedIs
  <2>2. m \in Msg /\ 1 \in 1..Len(log) /\ used' = used
    BY <2>1 DEF Pops
  <2>3. GivesTo(m) /\ BatchIds(m)
    BY <2>2, InvParts DEF Batches
  <2>4. db.row \in [Places -> Row] /\ \A k \in Places : Owned(k, db.row[k])
    BY DEF Types, TypeOK, Owned, Places
  <2> QED BY <2>1, <2>2, <2>3, <2>4, AppliedTables, MsgType
<1> HIDE DEF m
<1>1. ASSUME NEW k \in DOMAIN m.new.row
      PROVE  /\ k \in Places /\ k[1] \in Holders /\ db'.row[k] = m.new.row[k] /\ db'.row[k].owner = k[1]
             /\ GivesRow(m, k, k[1], db'.row[k].stripe) /\ db'.row[k].stripe \in Stripes
  <2>1. k \in Places /\ k[1] \in Holders /\ db'.row[k] = m.new.row[k]
    BY <1>0, Place DEF Takes
  <2>2. GivesRow(m, k, k[1], m.new.row[k].stripe)
    BY <1>0 DEF GivesTo
  <2>3. m.new.row[k].stripe \in Stripes /\ m.new.row[k].owner = k[1]
    BY <2>2 DEF GivesRow
  <2> QED BY <2>1, <2>2, <2>3
<1>2. ASSUME NEW k \in Places \ DOMAIN m.new.row PROVE db'.row[k] = db.row[k]
  BY <1>0 DEF Takes
<1>3. ASSUME NEW s \in DOMAIN m.new.ref
      PROVE  /\ s \in Stripes /\ db'.ref[s] = m.new.ref[s] /\ s \in used
             /\ \E h : m.new.ref[s] = (IF db.ref[s] = {} THEN {s} ELSE db.ref[s]) \cup {h}
  <2>1. PICK k \in DOMAIN m.new.row : m.new.row[k].stripe = s
    BY <1>0 DEF GivesTo
  <2>2. GivesRow(m, k, k[1], s)
    BY <1>1, <2>1
  <2>3. PICK j \in Places : db.row[j].stripe = s
    BY <2>2 DEF GivesRow
  <2>4. s \in used
    BY <1>0, <2>2, <2>3, Rows, InvParts DEF Given, GivesRow
  <2> QED BY <1>0, <2>2, <2>4 DEF Takes, GivesRow
<1>4. ASSUME NEW s \in Stripes \ DOMAIN m.new.ref PROVE db'.ref[s] = db.ref[s]
  BY <1>0 DEF Takes
<1>5. Given'
  <2>1. ASSUME NEW h \in Holders, db'.st[h] # "none" PROVE h \in used'
    BY <1>0, <2>1, InvParts DEF Takes, BatchIds, Given
  <2>2. ASSUME NEW h \in Snapshots PROVE db'.st[h] # "attached"
    BY <1>0, <2>2, InvParts DEF Takes, BatchIds, Given, Holders
  <2>3. ASSUME NEW k \in Places, db'.row[k] # NoRow PROVE k[1] \in used' /\ db'.row[k].stripe \in used'
    <3>1. CASE k \in DOMAIN m.new.row
      <4>1. PICK j \in Places : db.row[j].stripe = db'.row[k].stripe
        BY <1>1, <3>1 DEF GivesRow
      <4> QED BY <1>0, <1>1, <3>1, <4>1, Rows, InvParts DEF Given, BatchIds
    <3>2. CASE k \notin DOMAIN m.new.row
      BY <1>0, <1>2, <2>3, <3>2, InvParts DEF Given
    <3> QED BY <3>1, <3>2
  <2>4. ASSUME NEW s \in Stripes, db'.ref[s] # {} PROVE s \in used'
    BY <1>0, <1>3, <1>4, <2>4, InvParts DEF Given
  <2> QED BY <2>1, <2>2, <2>3, <2>4 DEF Given
<1>6. ASSUME NEW k \in DOMAIN m.new.row, NEW j \in Places \ DOMAIN m.new.row,
             db'.row[k].stripe = db'.row[j].stripe
      PROVE  k[1] # j[1] /\ db'.row[k].owner # db'.row[j].owner
  <2>1. db.row[j].stripe = db'.row[k].stripe /\ db.row[j] # NoRow /\ db'.row[j] = db.row[j]
    BY <1>0, <1>1, <1>2, <1>6, Rows
  <2>2. j[1] \in Holders /\ j[2] \in Chunks /\ j = <<j[1], j[2]>>
    BY Place
  <2>3. j[1] # k[1]
    BY <1>1, <2>1, <2>2 DEF GivesRow
  <2>4. db.row[j].owner = j[1] \/ db.row[j].owner = db.row[j].stripe
    BY <1>0, <2>1 DEF Owned
  <2> QED BY <1>1, <2>1, <2>3, <2>4, IdsAssumption DEF Holders
<1>7. Apart'
  <2> SUFFICES ASSUME NEW k \in Places, NEW j \in Places, k # j, db'.row[k].stripe \in Stripes,
                      db'.row[k].stripe = db'.row[j].stripe
               PROVE  k[1] # j[1] /\ db'.row[k].owner # db'.row[j].owner
    BY DEF Apart
  <2>1. CASE k \in DOMAIN m.new.row /\ j \in DOMAIN m.new.row
    BY <1>0, <1>1, <2>1 DEF GivesTo
  <2>2. CASE k \in DOMAIN m.new.row /\ j \notin DOMAIN m.new.row
    BY <1>6, <2>2
  <2>3. CASE k \notin DOMAIN m.new.row /\ j \in DOMAIN m.new.row
    BY <1>6, <2>3
  <2>4. CASE k \notin DOMAIN m.new.row /\ j \notin DOMAIN m.new.row
    BY <1>2, <2>4, InvParts DEF Apart
  <2> QED BY <2>1, <2>2, <2>3, <2>4
<1>8. Entered'
  <2> SUFFICES ASSUME NEW k \in Places, NEW s \in Stripes, s = db'.row[k].stripe
               PROVE  IF db'.ref[s] = {} THEN db'.row[k].owner = s ELSE db'.row[k].owner \in db'.ref[s]
    BY DEF Entered, EnteredAt
  <2>1. CASE k \in DOMAIN m.new.row
    BY <1>1, <1>3, <2>1 DEF GivesRow
  <2>2. CASE k \notin DOMAIN m.new.row
    <3>1. IF db.ref[s] = {} THEN db'.row[k].owner = s ELSE db'.row[k].owner \in db.ref[s]
      BY <1>2, <2>2, InvParts DEF Entered, EnteredAt
    <3> QED BY <1>3, <1>4, <3>1
  <2> QED BY <2>1, <2>2
<1> QED BY <1>5, <1>7, <1>8

LEMMA OutWritten ==
    ASSUME Types, ChunksInv, Applied, ~IsShare(log[1])
    PROVE  Given' /\ Apart' /\ Entered'
<1> DEFINE m == log[1]
<1>0. /\ Takes(m) /\ m \in Msg /\ TakesOut(m) /\ BatchIds(m) /\ used' = used
      /\ DOMAIN m.new.row \subseteq Places /\ db.row \in [Places -> Row] /\ db'.row \in [Places -> Row]
      /\ \A k \in DOMAIN m.new.row : m.new.row[k] \in Row
      /\ \A s \in NewIn(m) : Unnamed(s)
  <2>1. Pops /\ Takes(m)
    BY AppliedIs
  <2>2. m \in Msg /\ 1 \in 1..Len(log) /\ used' = used
    BY <2>1 DEF Pops
  <2>3. TakesOut(m) /\ BatchIds(m) /\ \A s \in NewIn(m) : Unnamed(s)
    BY <2>2, InvParts DEF Batches, Bringing
  <2>4. db.row \in [Places -> Row]
    BY DEF Types, TypeOK, Places
  <2> QED BY <2>1, <2>2, <2>3, <2>4, AppliedTables, MsgType
<1> HIDE DEF m
<1>1. ASSUME NEW k \in DOMAIN m.new.row, db'.row[k] # NoRow
      PROVE  /\ db'.row[k].stripe \in Stripes /\ Unnamed(db'.row[k].stripe) /\ db'.row[k].owner = db'.row[k].stripe
             /\ DOMAIN m.new.row = {k}
  <2>1. db'.row[k] = m.new.row[k] /\ k \in Places
    BY <1>0 DEF Takes
  <2>2. m.by = "commit" /\ db'.row[k].owner = db'.row[k].stripe /\ DOMAIN m.new.row = {k}
    BY <1>0, <1>1, <2>1 DEF TakesOut
  <2>3. db'.row[k].stripe \in Stripes
    BY <1>0, <1>1, <2>1, Rows
  <2>4. db'.row[k].stripe \in NewIn(m)
    BY <2>1, <2>2, <2>3 DEF NewIn
  <2> QED BY <1>0, <2>2, <2>3, <2>4
<1>2. ASSUME NEW k \in Places \ DOMAIN m.new.row PROVE db'.row[k] = db.row[k]
  BY <1>0 DEF Takes
<1>3. ASSUME NEW s \in DOMAIN m.new.ref
      PROVE  /\ s \in Stripes
             /\ \E k \in DOMAIN m.new.row : /\ k \in Places /\ db.row[k].stripe = s
                                            /\ db'.ref[s] = db.ref[s] \ {db.row[k].owner}
  <2>1. PICK k \in DOMAIN m.new.row : m.exp.row[k].stripe = s
    BY <1>0 DEF TakesOut
  <2>2. m.exp.row[k] = db.row[k] /\ k \in Places /\ m.exp.ref[s] = db.ref[s] /\ s \in Stripes /\ db'.ref[s] = m.new.ref[s]
    BY <1>0 DEF Takes
  <2>3. m.new.ref[s] = m.exp.ref[s] \ {m.exp.row[k].owner}
    BY <1>0, <2>1 DEF TakesOut
  <2> QED BY <2>1, <2>2, <2>3
<1>4. ASSUME NEW s \in Stripes \ DOMAIN m.new.ref PROVE db'.ref[s] = db.ref[s]
  BY <1>0 DEF Takes
<1>5. Given'
  <2>1. ASSUME NEW h \in Holders, db'.st[h] # "none" PROVE h \in used'
    BY <1>0, <2>1, InvParts DEF Takes, BatchIds, Given
  <2>2. ASSUME NEW h \in Snapshots PROVE db'.st[h] # "attached"
    BY <1>0, <2>2, InvParts DEF Takes, BatchIds, Given, Holders
  <2>3. ASSUME NEW k \in Places, db'.row[k] # NoRow PROVE k[1] \in used' /\ db'.row[k].stripe \in used'
    <3>1. CASE k \in DOMAIN m.new.row
      BY <1>0, <1>1, <2>3, <3>1 DEF BatchIds, Unnamed
    <3>2. CASE k \notin DOMAIN m.new.row
      BY <1>0, <1>2, <2>3, <3>2, InvParts DEF Given
    <3> QED BY <3>1, <3>2
  <2>4. ASSUME NEW s \in Stripes, db'.ref[s] # {} PROVE s \in used'
    <3>1. CASE s \in DOMAIN m.new.ref
      BY <1>0, <1>3, <2>4, <3>1, Rows, InvParts DEF Given
    <3>2. CASE s \notin DOMAIN m.new.ref
      BY <1>0, <1>4, <2>4, <3>2, InvParts DEF Given
    <3> QED BY <3>1, <3>2
  <2> QED BY <2>1, <2>2, <2>3, <2>4 DEF Given
<1>6. Apart'
  <2> SUFFICES ASSUME NEW k \in Places, NEW j \in Places, k # j, db'.row[k].stripe \in Stripes,
                      db'.row[k].stripe = db'.row[j].stripe
               PROVE  k[1] # j[1] /\ db'.row[k].owner # db'.row[j].owner
    BY DEF Apart
  <2>0. db'.row[k] # NoRow /\ db'.row[j] # NoRow
    BY <1>0, Rows
  <2>1. ~(k \in DOMAIN m.new.row /\ j \in DOMAIN m.new.row)
    BY <1>1, <2>0
  <2>2. ~(k \in DOMAIN m.new.row /\ j \notin DOMAIN m.new.row)
    BY <1>1, <1>2, <2>0 DEF Unnamed
  <2>3. ~(k \notin DOMAIN m.new.row /\ j \in DOMAIN m.new.row)
    BY <1>1, <1>2, <2>0 DEF Unnamed
  <2>4. CASE k \notin DOMAIN m.new.row /\ j \notin DOMAIN m.new.row
    BY <1>2, <2>4, InvParts DEF Apart
  <2> QED BY <2>1, <2>2, <2>3, <2>4
<1>7. Entered'
  <2> SUFFICES ASSUME NEW k \in Places, NEW s \in Stripes, s = db'.row[k].stripe
               PROVE  IF db'.ref[s] = {} THEN db'.row[k].owner = s ELSE db'.row[k].owner \in db'.ref[s]
    BY DEF Entered, EnteredAt
  <2>0. db'.row[k] # NoRow
    BY <1>0, Rows
  <2>1. CASE k \in DOMAIN m.new.row
    <3>1. Unnamed(s) /\ db'.row[k].owner = s
      BY <1>1, <2>0, <2>1
    <3>2. s \notin DOMAIN m.new.ref
      BY <1>3, <3>1 DEF Unnamed
    <3> QED BY <1>4, <3>1, <3>2 DEF Unnamed
  <2>2. CASE k \notin DOMAIN m.new.row
    <3>1. db'.row[k] = db.row[k] /\ IF db.ref[s] = {} THEN db.row[k].owner = s ELSE db.row[k].owner \in db.ref[s]
      BY <1>2, <2>2, InvParts DEF Entered, EnteredAt
    <3>2. CASE s \in DOMAIN m.new.ref
      <4>1. PICK j \in DOMAIN m.new.row : /\ j \in Places /\ db.row[j].stripe = s
                                          /\ db'.ref[s] = db.ref[s] \ {db.row[j].owner}
        BY <1>3, <3>2
      <4>2. db.row[j].owner # db.row[k].owner
        BY <2>2, <3>1, <4>1, InvParts DEF Apart
      <4>3. IF db.ref[s] = {} THEN db.row[j].owner = s ELSE db.row[j].owner \in db.ref[s]
        BY <4>1, InvParts DEF Entered, EnteredAt
      <4> QED BY <3>1, <4>1, <4>2, <4>3
    <3>3. CASE s \notin DOMAIN m.new.ref
      BY <1>4, <3>1, <3>3
    <3> QED BY <3>2, <3>3
  <2> QED BY <2>1, <2>2
<1> QED BY <1>5, <1>6, <1>7

-----------------------------------------------------------------------------
(* A batch is written: the call and the rest of the log.                   *)

LEMMA WrittenDead ==
    ASSUME Types, ChunksInv, Applied, NEW h, Dead(h)
    PROVE  Dead(h)'
<1>1. Pops /\ Takes(log[1]) /\ used' = used /\ 1 \in 1..Len(log)
  BY AppliedIs DEF Pops
<1>2. call'.op = call.op /\ call'.to = call.to
  BY AppliedIs DEF Advances
<1>3. h \in Holders /\ ~Opening(log[1], h)
  BY <1>1 DEF Dead, Holders
<1>4. db'.st[h] # "available"
  BY <1>1, <1>3 DEF Takes, Opening, Dead
<1>5. \A i \in 1..Len(log') : ~Opening(log[i], h)'
  BY <1>1, PopsLeft DEF Dead
<1> QED BY <1>1, <1>2, <1>4, <1>5 DEF Dead

\* A stripe no table has gets into one only by the batch that brings it.
LEMMA WrittenUnnamed ==
    ASSUME Types, ChunksInv, Applied, NEW s \in Stripes, Unnamed(s), s \notin NewIn(log[1])
    PROVE  Unnamed(s)'
<1> DEFINE m == log[1]
<1>1. Pops /\ Takes(m) /\ used' = used /\ freed' = freed /\ 1 \in 1..Len(log) /\ m \in Msg
  BY AppliedIs DEF Pops
<1>2. call'.free \cup call'.freeing \subseteq call.free \cup call.freeing
  BY AppliedIs DEF Advances
<1>3. /\ IsShare(m) => GivesTo(m)
      /\ ~IsShare(m) => TakesOut(m)
  BY <1>1, InvParts DEF Batches
<1>4. \A k \in DOMAIN m.new.row : m.new.row[k] \in Row
  BY <1>1, MsgType
<1> HIDE DEF m
<1>5. ASSUME NEW k \in DOMAIN m.new.row PROVE m.new.row[k].stripe # s
  <2>1. CASE IsShare(m)
    BY <1>3, <2>1 DEF GivesTo, GivesRow, Unnamed
  <2>2. CASE ~IsShare(m)
    <3>1. CASE m.new.row[k] = NoRow
      BY <1>4, <3>1, Rows, IdsAssumption
    <3>2. CASE m.new.row[k] # NoRow
      BY <1>3, <2>2, <3>2 DEF TakesOut, NewIn, m
    <3> QED BY <3>1, <3>2
  <2> QED BY <2>1, <2>2
<1>6. s \notin DOMAIN m.new.ref
  <2>1. CASE IsShare(m)
    BY <1>3, <1>5, <2>1 DEF GivesTo
  <2>2. CASE ~IsShare(m)
    <3>1. \A k \in DOMAIN m.new.row : k \in Places /\ m.exp.row[k] = db.row[k]
      BY <1>1 DEF Takes
    <3> QED BY <1>3, <2>2, <3>1 DEF TakesOut, Unnamed
  <2> QED BY <2>1, <2>2
<1>7. \A k \in Places : db'.row[k].stripe # s
  BY <1>1, <1>5 DEF Takes, Unnamed
<1>8. db'.ref[s] = {}
  BY <1>1, <1>6 DEF Takes, Unnamed
<1> QED BY <1>1, <1>2, <1>7, <1>8 DEF Unnamed

LEMMA WrittenBringing ==
    ASSUME Types, ChunksInv, Applied PROVE Bringing'
<1>0. /\ Pops /\ Len(log) \in Nat \ {0} /\ Len(log') = Len(log) - 1 /\ 1 \in 1..Len(log)
      /\ \A i \in 1..Len(log') : i + 1 \in 1..Len(log) /\ log'[i] = log[i + 1] /\ i + 1 # 1
      /\ (Served => Advances(log[1])) /\ (~Served => call' = call)
  BY AppliedIs, PopsLeft DEF Pops
<1>1. \A i \in 1..Len(log') : \A s \in NewIn(log'[i]) :
          Unnamed(s)' /\ \A j \in 1..Len(log') : s \in NewIn(log'[j]) => j = i
  <2> SUFFICES ASSUME NEW i \in 1..Len(log'), NEW s \in NewIn(log'[i])
               PROVE  Unnamed(s)' /\ \A j \in 1..Len(log') : s \in NewIn(log'[j]) => j = i
    OBVIOUS
  <2>1. i + 1 \in 1..Len(log) /\ s \in NewIn(log[i + 1]) /\ i + 1 # 1 /\ s \in Stripes
    <3>1. s \in Stripes
      BY DEF NewIn
    <3> QED BY <1>0, <3>1
  <2>2. Unnamed(s) /\ \A j \in 1..Len(log) : s \in NewIn(log[j]) => j = i + 1
    BY <2>1, InvParts DEF Bringing
  <2>3. Unnamed(s)'
    BY <1>0, <2>1, <2>2, WrittenUnnamed
  <2>4. \A j \in 1..Len(log') : s \in NewIn(log'[j]) => j + 1 = i + 1
    BY <1>0, <2>2
  <2> QED BY <2>3, <2>4
<1>2. ASSUME call'.op = "commit", call'.stage = "row", call'.new # Nil
      PROVE  Unnamed(call.new)' /\ \A i \in 1..Len(log') : call'.new \in NewIn(log'[i]) => call'.waits /\ i = Len(log')
  <2>1. ~Served /\ call' = call
    BY <1>0, <1>2 DEF Advances
  <2>2. Unnamed(call.new) /\ \A i \in 1..Len(log) : call.new \in NewIn(log[i]) => call.waits /\ i = Len(log)
    BY <1>2, <2>1, InvParts DEF Bringing
  <2>3. call.new \in Stripes
    BY <1>2, <2>1 DEF Types, CallOf
  <2>4. call.new \notin NewIn(log[1])
    BY <1>0, <2>1, <2>2 DEF Served
  <2>5. PICK s : s = call.new /\ s = call'.new
    BY <2>1
  <2>6. Unnamed(s)'
    BY <2>2, <2>3, <2>4, <2>5, WrittenUnnamed
  <2>7. \A i \in 1..Len(log') : call.new \in NewIn(log'[i]) => call.waits /\ i + 1 = Len(log)
    BY <1>0, <2>2
  <2> QED BY <1>0, <2>1, <2>5, <2>6, <2>7
<1> QED BY <1>1, <1>2 DEF Bringing

LEMMA WrittenGone ==
    ASSUME Types, ChunksInv, Applied PROVE GoneIsDead' /\ GoneStays'
<1> DEFINE m == log[1]
<1>0. /\ Pops /\ Takes(m) /\ freed' = freed /\ Len(log) \in Nat \ {0} /\ 1 \in 1..Len(log)
      /\ \A i \in 1..Len(log') : i + 1 \in 1..Len(log) /\ log'[i] = log[i + 1]
      /\ (Served => Advances(m) /\ Len(log') = 0 /\ Own = m) /\ (~Served => call' = call)
  BY AppliedIs, PopsLeft DEF Pops, Served
<1>1. \A k \in DOMAIN m.new.row : m.new.row[k].stripe \notin Gone
  BY <1>0, InvParts DEF GoneStays
<1> HIDE DEF m
<1>2. ASSUME NEW k \in Places, db'.row[k].stripe \in Gone PROVE Dead(k[1])
  BY <1>0, <1>1, <1>2, InvParts DEF Takes, GoneIsDead
<1>3. ASSUME Served, NEW k \in Places, db'.row[k].stripe \in call.freeing PROVE Dead(k[1])
  <2> DEFINE s == db'.row[k].stripe
  <2>1. (LastOne(s) \/ OwnRows(s)) /\ \A j \in DOMAIN m.new.row : m.new.row[j].stripe # s
    BY <1>0, <1>3, InvParts DEF Freeing
  <2>2. k \notin DOMAIN m.new.row /\ db'.row[k] = db.row[k] /\ s = db.row[k].stripe
    BY <1>0, <2>1 DEF Takes
  <2>3. s \in Stripes
    BY <1>3 DEF Types, TypeOK
  <2>4. ~LastOne(s)
    <3> SUFFICES ASSUME LastOne(s) PROVE FALSE
      OBVIOUS
    <3>1. PICK j \in DOMAIN m.new.row : m.exp.row[j].stripe = s /\ s \in DOMAIN m.new.ref /\ m.exp.ref[s] = {m.exp.row[j].owner}
      BY <1>0, <1>3 DEF LastOne
    <3>2. j \in Places /\ db.row[j].stripe = s /\ db.ref[s] = {db.row[j].owner}
      BY <1>0, <3>1 DEF Takes
    <3>3. db.row[k].owner \in db.ref[s]
      BY <2>2, <2>3, <3>2, InvParts DEF Entered, EnteredAt
    <3>4. db.row[j].owner # db.row[k].owner
      BY <2>2, <2>3, <3>1, <3>2, InvParts DEF Apart
    <3> QED BY <3>2, <3>3, <3>4
  <2>5. OwnRows(s)
    BY <2>1, <2>4
  <2> QED BY <1>0, <1>3, <2>2, <2>5 DEF OwnRows
<1>4. Gone' = IF Served THEN Gone \cup call.freeing ELSE Gone
  BY <1>0 DEF Gone, Advances
<1>5. GoneIsDead'
  <2> SUFFICES ASSUME NEW k \in Places, db'.row[k].stripe \in Gone' PROVE Dead(k[1])'
    BY DEF GoneIsDead
  <2>1. Dead(k[1])
    BY <1>2, <1>3, <1>4
  <2> QED BY <2>1, WrittenDead
<1>6. GoneStays'
  <2>1. CASE Served
    BY <1>0, <2>1 DEF GoneStays
  <2>2. CASE ~Served
    BY <1>0, <1>4, <2>2, InvParts DEF GoneStays
  <2> QED BY <2>1, <2>2
<1> QED BY <1>5, <1>6

LEMMA WrittenFreeing ==
    ASSUME Types, ChunksInv, Applied PROVE Freeing'
<1> DEFINE m == log[1]
<1>0. /\ Pops /\ Takes(m) /\ Len(log) \in Nat \ {0} /\ 1 \in 1..Len(log) /\ m \in Msg
      /\ (Served => Advances(m)) /\ (~Served => call' = call)
      /\ \A i \in 1..Len(log') : ~IsShare(log[i])'
      /\ Len(log) # 1 => Own' = Own
  BY AppliedIs, PopsLeft DEF Pops
<1> SUFFICES ASSUME NEW s \in call'.freeing
             PROVE  /\ call'.waits /\ call'.op \in {"commit", "delete"}
                    /\ LastOne(s)' \/ OwnRows(s)'
                    /\ \A k \in DOMAIN Own'.new.row : Own'.new.row[k].stripe # s
  BY DEF Freeing
<1>1. ~Served /\ call' = call
  BY <1>0 DEF Advances
<1>2. /\ call.waits /\ call.op \in {"commit", "delete"} /\ (LastOne(s) \/ OwnRows(s)) /\ s \in call.freeing
      /\ \A k \in DOMAIN Own.new.row : Own.new.row[k].stripe # s
  BY <1>1, InvParts DEF Freeing
<1>3. Own' = Own
  BY <1>0, <1>1, <1>2 DEF Served
<1>4. LastOne(s) => LastOne(s)'
  BY <1>3 DEF LastOne
<1>5. ASSUME OwnRows(s) PROVE OwnRows(s)'
  <2>1. ASSUME NEW k \in Places, db'.row[k].stripe = s PROVE k \in DOMAIN Own.new.row \/ Dead(k[1])
    <3>1. CASE k \notin DOMAIN m.new.row
      BY <1>0, <1>5, <2>1, <3>1 DEF Takes, OwnRows
    <3>2. CASE k \in DOMAIN m.new.row /\ IsShare(m)
      BY <1>0, <1>5, <2>1, <3>2 DEF Takes, OwnRows
    <3>3. CASE k \in DOMAIN m.new.row /\ ~IsShare(m)
      <4>1. TakesOut(m) /\ \A x \in NewIn(m) : Unnamed(x)
        BY <1>0, <3>3, InvParts DEF Batches, Bringing
      <4>2. m.new.row[k].stripe = s /\ s \in Stripes /\ m.new.row[k] \in Row
        <5>1. s \in Stripes
          BY <1>2 DEF Types, TypeOK
        <5> QED BY <1>0, <2>1, <3>3, <5>1, MsgType DEF Takes
      <4>3. s \in NewIn(m)
        BY <3>3, <4>1, <4>2, Rows DEF TakesOut, NewIn
      <4> QED BY <1>2, <4>1, <4>3 DEF Unnamed
    <3> QED BY <3>1, <3>2, <3>3
  <2>2. ASSUME NEW k \in Places, db'.row[k].stripe = s PROVE k \in DOMAIN Own'.new.row \/ Dead(k[1])'
    BY <1>3, <2>1, <2>2, WrittenDead
  <2> QED BY <1>0, <2>2 DEF OwnRows
<1> QED BY <1>1, <1>2, <1>3, <1>4, <1>5

\* What is left to share of the rows that were read.
LEMMA WrittenLeft ==
    ASSUME Types, ChunksInv, Applied, Served, call.op = "share", call.stage = "share", call'.stage = "share"
    PROVE  /\ db'.st[call.to] = "creating"
           /\ \A k \in DOMAIN call'.rows : Left(k)'
<1> DEFINE m == log[1]
<1>0. Pops /\ Takes(m) /\ Advances(m) /\ Own = m /\ 1 \in 1..Len(log) /\ m \in Msg
  BY AppliedIs, PopsLeft DEF Pops, Served
<1>1. SharingIds /\ SharingRows /\ call.to \in Holders /\ call.from \in Holders
  BY InvParts DEF Sharing, Types, CallOf
<1>2. call'.to = call.to /\ call'.rows = [k \in DOMAIN call.rows \ ShareNext |-> call.rows[k]] /\ m.new.row # <<>>
  BY <1>0 DEF Advances
<1>3. IsShare(m) /\ \A j \in DOMAIN m.new.row : \E k \in ShareNext :
                       j = <<call.to, k[2]>> /\ m.new.row[j].stripe = call.rows[k].stripe
  BY <1>0, <1>1, <1>2 DEF SharingRows, Served
<1>4. GivesTo(m)
  BY <1>0, <1>3, InvParts DEF Batches
<1>5. /\ db.row \in [Places -> Row] /\ DOMAIN call.rows \subseteq Places /\ ShareNext \subseteq DOMAIN call.rows
      /\ \A k \in DOMAIN call.rows : k[1] = call.from /\ call.rows[k] # NoRow /\ k[2] \in Chunks /\ k = <<k[1], k[2]>>
  <2>1. db.row \in [Places -> Row] /\ \A k \in DOMAIN call.rows : k[1] = call.from /\ call.rows[k] # NoRow
    BY DEF Types, TypeOK, Places, CallOf
  <2>2. DOMAIN call.rows \subseteq Places
    BY PartType DEF Types, Call
  <2> QED BY <2>1, <2>2, Place, ShareType
<1> HIDE DEF m
<1>6. db'.st[call.to] = "creating"
  BY <1>0, <1>1, <1>4 DEF Takes, GivesTo, SharingRows
<1>7. ASSUME NEW k \in DOMAIN call.rows \ ShareNext
      PROVE  /\ db'.row[k] = call.rows[k] /\ db'.row[<<call.to, k[2]>>] = NoRow
             /\ \A c \in Chunks : db'.row[<<call.to, c>>].stripe # db'.row[k].stripe
  <2>0. k \in Places /\ k[1] = call.from /\ k[2] \in Chunks /\ Left(k) /\ k = <<k[1], k[2]>>
    BY <1>1, <1>5 DEF SharingRows
  <2>1. \A j \in DOMAIN m.new.row : j[1] = call.to
    BY <1>3
  <2>2. db'.row[k] = db.row[k] /\ db.row[k] = call.rows[k]
    BY <1>0, <1>1, <2>0, <2>1 DEF Takes, Left, SharingIds
  <2>3. <<call.to, k[2]>> \notin DOMAIN m.new.row
    <3> SUFFICES ASSUME <<call.to, k[2]>> \in DOMAIN m.new.row PROVE FALSE
      OBVIOUS
    <3>1. PICK x \in ShareNext : <<call.to, k[2]>> = <<call.to, x[2]>>
      BY <1>3
    <3>2. x[2] = k[2] /\ x[1] = k[1] /\ x = <<x[1], x[2]>>
      BY <1>5, <2>0, <3>1
    <3> QED BY <2>0, <3>2
  <2>4. db'.row[<<call.to, k[2]>>] = NoRow
    BY <1>0, <1>1, <2>0, <2>3, PlaceOf DEF Takes, Left
  <2>5. ASSUME NEW c \in Chunks PROVE db'.row[<<call.to, c>>].stripe # db.row[k].stripe
    <3>0. <<call.to, c>> \in Places
      BY <1>1, PlaceOf
    <3>1. CASE <<call.to, c>> \notin DOMAIN m.new.row
      BY <1>0, <2>0, <3>0, <3>1 DEF Takes, Left
    <3>2. CASE <<call.to, c>> \in DOMAIN m.new.row
      <4>1. PICK x \in ShareNext : m.new.row[<<call.to, c>>].stripe = call.rows[x].stripe
        BY <1>3, <3>2
      <4>2. x \in Places /\ x # k /\ x[1] = k[1] /\ db.row[x] = call.rows[x] /\ db.row[x] # NoRow
        BY <1>1, <1>5, <2>0 DEF SharingRows, Left
      <4>3. db.row[x].stripe # db.row[k].stripe
        BY <1>5, <2>0, <4>2, Rows, InvParts DEF Apart
      <4> QED BY <1>0, <3>0, <3>2, <4>1, <4>2, <4>3 DEF Takes
    <3> QED BY <3>1, <3>2
  <2> QED BY <2>2, <2>4, <2>5
<1>8. \A k \in DOMAIN call'.rows : k \in DOMAIN call.rows \ ShareNext /\ call'.rows[k] = call.rows[k]
  BY <1>2
<1>9. \A k \in DOMAIN call'.rows : Left(k)'
  BY <1>2, <1>7, <1>8 DEF Left
<1> QED BY <1>6, <1>9

\* What was read of the source when the target was marked.
LEMMA WrittenMark ==
    ASSUME Types, ChunksInv, Applied, Served, call.op = "share", call.stage = "mark"
    PROVE  /\ db'.st[call.to] = "creating"
           /\ \A k \in DOMAIN call'.rows : Left(k)'
<1> DEFINE m == log[1]
<1>0. Pops /\ Takes(m) /\ Advances(m) /\ Own = m
  BY AppliedIs, PopsLeft DEF Pops, Served
<1>1. SharingIds /\ SharingMark /\ call.to \in Holders /\ call.from \in Holders /\ db.row \in [Places -> Row]
  BY InvParts DEF Sharing, Types, CallOf, TypeOK, Places
<1>2. /\ call'.to = call.to /\ call'.rows = [k \in RowsOf(call.from) |-> db.row[k]]
      /\ call.to \in DOMAIN m.new.st /\ m.new.st[call.to] = "creating" /\ DOMAIN m.new.row = {}
  BY <1>0, <1>1 DEF Advances, SharingMark, Served
<1> HIDE DEF m
<1>3. db'.st[call.to] = "creating" /\ \A k \in Places : db'.row[k] = db.row[k]
  BY <1>0, <1>1, <1>2 DEF Takes
<1>4. ASSUME NEW k \in DOMAIN call'.rows
      PROVE  /\ db'.row[k] = call'.rows[k] /\ db'.row[<<call.to, k[2]>>] = NoRow
             /\ \A c \in Chunks : db'.row[<<call.to, c>>].stripe # db'.row[k].stripe
  <2>1. k \in Places /\ db.row[k] # NoRow /\ call'.rows[k] = db.row[k] /\ k[2] \in Chunks
    <3>1. k \in RowsOf(call.from) /\ call'.rows[k] = db.row[k]
      BY <1>2
    <3> QED BY <1>1, <3>1, Place DEF RowsOf, Places
  <2>2. \A c \in Chunks : <<call.to, c>> \in Places /\ db.row[<<call.to, c>>] = NoRow
    BY <1>1, PlaceOf DEF SharingMark
  <2>3. \A c \in Chunks : db.row[<<call.to, c>>].stripe # db.row[k].stripe
    BY <1>1, <2>1, <2>2, Rows
  <2> QED BY <1>3, <2>1, <2>2, <2>3
<1> QED BY <1>2, <1>3, <1>4 DEF Left

LEMMA WrittenSharing ==
    ASSUME Types, ChunksInv, Applied PROVE Sharing'
<1> DEFINE m == log[1]
<1>0. /\ Pops /\ Takes(m) /\ Len(log) \in Nat \ {0} /\ 1 \in 1..Len(log) /\ used' = used /\ freed' = freed
      /\ Len(log') = Len(log) - 1
      /\ (Served => Advances(m)) /\ (~Served => call' = call)
      /\ \A i \in 1..Len(log') : i + 1 \in 1..Len(log) /\ log'[i] = log[i + 1] /\ ~IsShare(log[i])'
      /\ Len(log) # 1 => Own' = Own
  BY AppliedIs, PopsLeft DEF Pops
<1>1. /\ call'.op = call.op /\ call'.to = call.to /\ call'.from = call.from
      /\ call'.free \cup call'.freeing = call.free \cup call.freeing
  BY <1>0 DEF Advances
<1> SUFFICES ASSUME call.op = "share"
             PROVE  /\ SharingIds' /\ call'.stage \in {"mark", "share", "done"}
                    /\ call'.stage = "mark" => SharingMark'
                    /\ call'.stage = "share" => SharingRows'
  BY <1>1 DEF Sharing
<1>2. /\ SharingIds /\ call.stage \in {"mark", "share", "done"}
      /\ call.stage = "mark" => SharingMark
      /\ call.stage = "share" => SharingRows
      /\ call.from \in Holders /\ call.to \in Holders
  BY InvParts DEF Sharing, Types, CallOf
<1>3. SharingIds'
  <2>1. \A c \in Chunks : db'.row[<<call.from, c>>].stripe \notin freed
    <3>1. \A k \in DOMAIN m.new.row : m.new.row[k].stripe \notin freed
      BY <1>0, InvParts DEF GoneStays, Gone
    <3>2. \A c \in Chunks : <<call.from, c>> \in Places
      BY <1>2, PlaceOf
    <3> QED BY <1>0, <1>2, <3>1, <3>2 DEF Takes, SharingIds
  <2> QED BY <1>0, <1>1, <1>2, <2>1 DEF SharingIds
<1>4. CASE Served
  <2>1. call'.stage \in {"share", "done"} /\ ~call'.waits /\ Len(log') = 0
    BY <1>0, <1>4 DEF Advances, Served
  <2>2. ASSUME call'.stage = "share" PROVE SharingRows'
    <3>1. call.stage # "done"
      BY <1>4 DEF Served, Types, CallOf
    <3>2. db'.st[call.to] = "creating" /\ \A k \in DOMAIN call'.rows : Left(k)'
      BY <1>2, <1>4, <2>2, <3>1, WrittenLeft, WrittenMark
    <3> QED BY <1>1, <2>1, <3>2 DEF SharingRows
  <2> QED BY <1>3, <2>1, <2>2
<1>5. CASE ~Served
  <2>1. call' = call
    BY <1>0, <1>5
  <2>2. call.stage # "share"
    <3> SUFFICES ASSUME call.stage = "share" PROVE FALSE
      OBVIOUS
    <3>1. Len(log) = IF call.waits THEN 1 ELSE 0
      BY <1>2 DEF SharingRows
    <3> QED BY <1>0, <1>5, <3>1 DEF Served
  <2>3. ASSUME call.stage = "mark" PROVE SharingMark'
    <3>1. SharingMark
      BY <1>2, <2>3
    <3>2. \A c \in Chunks : db'.row[<<call.to, c>>] = NoRow
      <4>1. \A c \in Chunks : <<call.to, c>> \in Places /\ <<call.to, c>>[1] = call.to
        BY <1>2, PlaceOf
      <4>2. \A c \in Chunks : <<call.to, c>> \notin DOMAIN m.new.row
        BY <1>0, <3>1, <4>1 DEF SharingMark
      <4> QED BY <1>0, <3>1, <4>1, <4>2 DEF Takes, SharingMark
    <3>3. call.waits => Own' = Own
      BY <1>0, <1>5 DEF Served
    <3> QED BY <1>0, <2>1, <3>1, <3>2, <3>3 DEF SharingMark
  <2> QED BY <1>2, <1>3, <2>1, <2>2, <2>3
<1> QED BY <1>4, <1>5

LEMMA AppliedInv == ASSUME Types, ChunksInv, Applied PROVE ChunksInv'
<1>0. /\ Pops /\ (Served => Advances(log[1])) /\ (~Served => call' = call)
      /\ Len(log) # 1 => Len(log') # 0
  BY AppliedIs, PopsLeft
<1>1. Batches' /\ Unopened'
  BY <1>0, PopsLeft
<1>2. Given' /\ Apart' /\ Entered'
  BY ShareWritten, OutWritten
<1>3. Waiting'
  <2>1. call'.waits => call.waits /\ ~Served
    BY <1>0 DEF Advances
  <2>2. call'.waits => Len(log') # 0
    BY <1>0, <2>1 DEF Served
  <2>3. call'.op = call.op /\ call'.to = call.to /\ used' = used
    BY <1>0 DEF Advances, Pops
  <2> QED BY <2>2, <2>3, InvParts DEF Waiting
<1> QED BY <1>1, <1>2, <1>3, WrittenBringing, WrittenGone, WrittenFreeing, WrittenSharing DEF ChunksInv

-----------------------------------------------------------------------------
(* A call proposes a batch.                                                *)

\* The batch is of one of the two forms, and what it opens, brings and frees is
\* the call's.
Shaped(d) == /\ BatchIds(MsgOf(d))
             /\ IsShare(MsgOf(d)) => log = <<>> /\ GivesTo(MsgOf(d))
             /\ ~IsShare(MsgOf(d)) => TakesOut(MsgOf(d))
             /\ \A h \in Snapshots : Opening(MsgOf(d), h) => call.op = "share" /\ call.to = h /\ log = <<>>
             /\ \A s \in NewIn(MsgOf(d)) : call.op = "commit" /\ call.stage = "row" /\ call.new = s
             /\ \A k \in DOMAIN d.row : d.row[k].stripe \notin Gone
SharesOn(d) == call.op = "share" =>
                /\ IsShare(MsgOf(d)) => \A k \in DOMAIN d.row : k[1] # call.from
                /\ call.stage = "mark" => /\ call.to \in DOMAIN d.st /\ d.st[call.to] = "creating" /\ DOMAIN d.row = {}
                /\ call.stage = "share" => /\ log = <<>> /\ (IsShare(MsgOf(d)) \/ d.row = <<>>)
                                           /\ \A j \in DOMAIN d.row : \E k \in ShareNext :
                                                 j = <<call.to, k[2]>> /\ d.row[j].stripe = call.rows[k].stripe
Frees(d, F) == /\ F \subseteq Stripes
               /\ F # {} => call.op \in {"commit", "delete"}
               /\ \A s \in F : /\ \A k \in DOMAIN d.row : d.row[k].stripe # s
                               /\ \E k \in DOMAIN d.row : /\ db.row[k].stripe = s
                                                          /\ db.ref[s] # {} => s \in DOMAIN d.ref /\ db.ref[s] = {db.row[k].owner}

LEMMA ProposalInv ==
    ASSUME Types, ChunksInv, NEW d \in Change, NEW F, Proposal(d, F), Shaped(d), SharesOn(d), Frees(d, F),
           \A k \in DOMAIN d.row : Owned(k, d.row[k])
    PROVE  ChunksInv'
<1> DEFINE m == MsgOf(d)
<1>0. /\ ~call.waits /\ call' \in Call /\ call'.waits = TRUE /\ call'.freeing = F
      /\ call'.op = call.op /\ call'.to = call.to /\ call'.from = call.from /\ call'.stage = call.stage
      /\ call'.rows = call.rows /\ call'.new = call.new /\ call'.free = call.free
      /\ log' = Append(log, m) /\ db' = db /\ used' = used /\ freed' = freed
  BY DEF Proposal, CarriesOn
<1>1. /\ m \in Msg /\ MsgOK(m) /\ m.new = d /\ m.by = call.op
      /\ \A k \in DOMAIN d.row : m.exp.row[k] = db.row[k]
      /\ \A s \in DOMAIN d.ref : m.exp.ref[s] = db.ref[s]
      /\ DOMAIN d.row \subseteq Places
  BY Proposed, MsgType
<1>2. /\ BatchIds(m) /\ (IsShare(m) => log = <<>> /\ GivesTo(m)) /\ (~IsShare(m) => TakesOut(m))
      /\ \A h \in Snapshots : Opening(m, h) => call.op = "share" /\ call.to = h /\ log = <<>>
      /\ \A s \in NewIn(m) : call.op = "commit" /\ call.stage = "row" /\ call.new = s
      /\ \A k \in DOMAIN m.new.row : m.new.row[k].stripe \notin Gone
  BY <1>1 DEF Shaped
<1>3. call.op = "share" =>
         /\ IsShare(m) => \A k \in DOMAIN m.new.row : k[1] # call.from
         /\ call.stage = "mark" => /\ call.to \in DOMAIN m.new.st /\ m.new.st[call.to] = "creating" /\ DOMAIN m.new.row = {}
         /\ call.stage = "share" => /\ log = <<>> /\ (IsShare(m) \/ m.new.row = <<>>)
                                    /\ \A j \in DOMAIN m.new.row : \E k \in ShareNext :
                                          j = <<call.to, k[2]>> /\ m.new.row[j].stripe = call.rows[k].stripe
  BY <1>1 DEF SharesOn
<1>4. /\ F # {} => call.op \in {"commit", "delete"}
      /\ \A s \in F : /\ s \in Stripes /\ \A k \in DOMAIN m.new.row : m.new.row[k].stripe # s
                      /\ \E k \in DOMAIN m.new.row :
                            /\ m.exp.row[k] = db.row[k] /\ db.row[k].stripe = s /\ k \in Places
                            /\ db.ref[s] # {} => /\ s \in DOMAIN m.new.ref /\ m.exp.ref[s] = db.ref[s]
                                                 /\ db.ref[s] = {db.row[k].owner}
  BY <1>1 DEF Frees
<1> HIDE DEF m
<1>5. /\ log \in Seq(Msg) /\ log' \in Seq(Msg) /\ Len(log') = Len(log) + 1 /\ Len(log) \in Nat
      /\ \A i \in 1..Len(log) : log'[i] = log[i] /\ i \in 1..Len(log')
      /\ log'[Len(log')] = m /\ Len(log') \in 1..Len(log') /\ Own' = m /\ log' # <<>>
      /\ log = <<>> <=> Len(log) = 0
      /\ \A i \in 1..Len(log') : i \in 1..Len(log) \/ i = Len(log')
      /\ \A i \in 1..Len(log) : i # Len(log')
  <2>1. log \in Seq(Msg)
    BY DEF Types
  <2>2. /\ log' \in Seq(Msg) /\ Len(log') = Len(log) + 1 /\ Len(log) \in Nat
        /\ \A i \in 1..Len(log) : log'[i] = log[i]
        /\ log'[Len(log) + 1] = m
    BY <1>0, <1>1, <2>1, LogAppend
  <2>3. (log = <<>> <=> Len(log) = 0) /\ log' # <<>>
    BY <2>1, <2>2, LogEntry
  <2> QED BY <2>1, <2>2, <2>3 DEF Own
<1>6. Batches'
  <2>1. \A x, k, h, s : GivesRow(x, k, h, s) => GivesRow(x, k, h, s)'
    BY <1>0 DEF GivesRow
  <2>2. \A x : /\ (GivesTo(x) => GivesTo(x)') /\ (TakesOut(x) => TakesOut(x)') /\ (BatchIds(x) => BatchIds(x)')
               /\ (IsShare(x) <=> IsShare(x)')
    <3>1. \A x : GivesTo(x) => GivesTo(x)'
      BY <2>1 DEF GivesTo
    <3>2. \A x : (TakesOut(x) => TakesOut(x)') /\ (IsShare(x) <=> IsShare(x)')
      BY DEF TakesOut, IsShare
    <3>3. \A x : BatchIds(x) => BatchIds(x)'
      BY <1>0 DEF BatchIds
    <3> QED BY <3>1, <3>2, <3>3
  <2> SUFFICES ASSUME NEW i \in 1..Len(log')
               PROVE  /\ BatchIds(log[i])'
                      /\ IsShare(log[i])' => i = 1 /\ GivesTo(log[i])'
                      /\ ~IsShare(log[i])' => TakesOut(log[i])'
    BY DEF Batches
  <2>3. PICK x : x = log'[i]
    OBVIOUS
  <2>4. BatchIds(x) /\ (IsShare(x) => i = 1 /\ GivesTo(x)) /\ (~IsShare(x) => TakesOut(x))
    <3>1. CASE i \in 1..Len(log)
      BY <1>5, <2>3, <3>1, InvParts DEF Batches
    <3>2. CASE i = Len(log')
      BY <1>2, <1>5, <2>3, <3>2
    <3> QED BY <1>5, <3>1, <3>2
  <2>5. BatchIds(x)' /\ (IsShare(x)' => i = 1 /\ GivesTo(x)') /\ (~IsShare(x)' => TakesOut(x)')
    BY <2>2, <2>4
  <2> QED BY <2>3, <2>5
<1>7. Unopened'
  <2> SUFFICES ASSUME NEW i \in 1..Len(log'), IsShare(log'[i]), NEW k \in DOMAIN log'[i].new.row, k[1] \in Snapshots,
                      NEW j \in 1..Len(log'), Opening(log'[j], k[1])
               PROVE  FALSE
    BY DEF Unopened, IsShare, Opening
  <2>1. CASE i \in 1..Len(log) /\ j \in 1..Len(log)
    BY <1>5, <2>1, InvParts DEF Unopened
  <2>2. CASE i \in 1..Len(log) /\ j = Len(log')
    BY <1>2, <1>5, <2>2
  <2>3. CASE i = Len(log') /\ j \in 1..Len(log)
    BY <1>2, <1>5, <2>3
  <2>4. CASE i = Len(log') /\ j = Len(log')
    BY <1>2, <1>5, <2>4 DEF GivesTo, Opening
  <2> QED BY <1>5, <2>1, <2>2, <2>3, <2>4
<1>8. Given' /\ Apart' /\ Entered'
  BY <1>0, InvParts DEF Given, Apart, Entered, EnteredAt
<1>9. Bringing'
  <2>1. ASSUME NEW s, Unnamed(s) PROVE Unnamed(s)'
    <3>1. s \notin F
      BY <1>4, <2>1 DEF Unnamed
    <3> QED BY <1>0, <2>1, <3>1 DEF Unnamed
  <2>2. ASSUME NEW s \in NewIn(m) PROVE Unnamed(s) /\ \A i \in 1..Len(log) : s \notin NewIn(log[i])
    <3>1. s \in Stripes /\ call.op = "commit" /\ call.stage = "row" /\ call.new = s
      BY <1>2 DEF NewIn
    <3> QED BY <1>0, <3>1, InvParts, IdsAssumption DEF Bringing
  <2>3. \A i \in 1..Len(log') : \A s \in NewIn(log'[i]) :
            Unnamed(s)' /\ \A j \in 1..Len(log') : s \in NewIn(log'[j]) => j = i
    <3> SUFFICES ASSUME NEW i \in 1..Len(log'), NEW s \in NewIn(log'[i])
                 PROVE  Unnamed(s)' /\ \A j \in 1..Len(log') : s \in NewIn(log'[j]) => j = i
      OBVIOUS
    <3>1. CASE i \in 1..Len(log)
      <4>1. Unnamed(s) /\ \A j \in 1..Len(log) : s \in NewIn(log[j]) => j = i
        BY <1>5, <3>1, InvParts DEF Bringing
      <4>2. s \notin NewIn(m)
        BY <1>5, <2>2, <3>1
      <4> QED BY <1>5, <2>1, <4>1, <4>2
    <3>2. CASE i = Len(log')
      BY <1>5, <2>1, <2>2, <3>2
    <3> QED BY <1>5, <3>1, <3>2
  <2>4. ASSUME call'.op = "commit", call'.stage = "row", call'.new # Nil
        PROVE  Unnamed(call.new)' /\ \A i \in 1..Len(log') : call'.new \in NewIn(log'[i]) => call'.waits /\ i = Len(log')
    <3>1. Unnamed(call.new) /\ \A i \in 1..Len(log) : call.new \notin NewIn(log[i])
      BY <1>0, <2>4, InvParts DEF Bringing
    <3>2. PICK s : s = call.new /\ s = call'.new
      BY <1>0
    <3>3. Unnamed(s)'
      BY <2>1, <3>1, <3>2
    <3> QED BY <1>0, <1>5, <3>1, <3>2, <3>3
  <2> QED BY <2>3, <2>4 DEF Bringing
<1>10. ASSUME NEW h, Dead(h) PROVE Dead(h)'
  <2>1. ~Opening(m, h)
    BY <1>2, <1>10 DEF Dead
  <2>2. \A i \in 1..Len(log') : ~Opening(log'[i], h)
    BY <1>5, <1>10, <2>1 DEF Dead
  <2>3. \A i \in 1..Len(log') : ~Opening(log[i], h)'
    BY <2>2 DEF Opening
  <2> QED BY <1>0, <1>10, <2>3 DEF Dead
<1>11. GoneIsDead' /\ GoneStays'
  <2>1. Gone' = Gone
    BY <1>0 DEF Gone
  <2>2. \A i \in 1..Len(log') : \A k \in DOMAIN log'[i].new.row : log'[i].new.row[k].stripe \notin Gone
    BY <1>2, <1>5, InvParts DEF GoneStays
  <2> QED BY <1>0, <1>10, <2>1, <2>2, InvParts DEF GoneIsDead, GoneStays
<1>12. Waiting'
  BY <1>0, <1>5, InvParts DEF Waiting
<1>13. Freeing'
  <2> SUFFICES ASSUME NEW s \in F
               PROVE  /\ LastOne(s)' \/ OwnRows(s)'
                      /\ \A k \in DOMAIN Own'.new.row : Own'.new.row[k].stripe # s
    BY <1>0, <1>4 DEF Freeing
  <2>1. /\ call.op \in {"commit", "delete"} /\ s \in Stripes
        /\ \A k \in DOMAIN m.new.row : m.new.row[k].stripe # s
    BY <1>4
  <2>2. PICK k \in DOMAIN m.new.row : /\ m.exp.row[k] = db.row[k] /\ db.row[k].stripe = s /\ k \in Places
                                      /\ db.ref[s] # {} => /\ s \in DOMAIN m.new.ref /\ m.exp.ref[s] = db.ref[s]
                                                           /\ db.ref[s] = {db.row[k].owner}
    BY <1>4
  <2>3. CASE db.ref[s] # {}
    <3>1. LastOne(s)'
      BY <1>5, <2>2, <2>3 DEF LastOne
    <3> QED BY <1>0, <1>5, <2>1, <3>1
  <2>4. CASE db.ref[s] = {}
    <3>1. ASSUME NEW j \in Places, db.row[j].stripe = s PROVE j = k
      <4>1. db.row[j].owner = s /\ db.row[k].owner = s
        BY <2>1, <2>2, <2>4, <3>1, InvParts DEF Entered, EnteredAt
      <4> QED BY <2>1, <2>2, <3>1, <4>1, InvParts DEF Apart
    <3>2. ASSUME NEW i \in 1..Len(log'), IsShare(log'[i]), NEW j \in DOMAIN log'[i].new.row,
                 log'[i].new.row[j].stripe = s
          PROVE  Dead(j[1])
      <4>1. i \in 1..Len(log) /\ log'[i] = log[i]
        BY <1>1, <1>5, <2>1, <3>2 DEF IsShare
      <4>2. GivesRow(log[i], j, j[1], s)
        BY <3>2, <4>1, InvParts DEF Batches, GivesTo
      <4>3. j[1] \in Holders
        <5>1. log[i] \in Msg
          BY <1>5, <4>1, LogEntry
        <5> QED BY <3>2, <4>1, <5>1, MsgType, Place
      <4>4. j[1] \in Snapshots /\ j[1] \in used /\ db.st[j[1]] = "creating"
        BY <2>4, <4>2, <4>3 DEF GivesRow, Holders
      <4>5. \A x \in 1..Len(log) : ~Opening(log[x], j[1])
        BY <3>2, <4>1, <4>4, InvParts DEF Unopened
      <4> QED BY <2>1, <4>4, <4>5 DEF Dead
    <3>3. ASSUME NEW i \in 1..Len(log'), IsShare(log'[i]), NEW j \in DOMAIN log'[i].new.row,
                 log'[i].new.row[j].stripe = s
          PROVE  Dead(j[1])'
      BY <1>10, <3>2, <3>3
    <3>4. OwnRows(s)'
      BY <1>0, <1>5, <2>2, <3>1, <3>3 DEF OwnRows, IsShare
    <3> QED BY <1>0, <1>5, <2>1, <3>4
  <2> QED BY <2>3, <2>4
<1>14. Sharing'
  <2> SUFFICES ASSUME call.op = "share"
               PROVE  /\ SharingIds' /\ call.stage \in {"mark", "share", "done"}
                      /\ call.stage = "mark" => SharingMark'
                      /\ call.stage = "share" => SharingRows'
    BY <1>0 DEF Sharing
  <2>1. /\ SharingIds /\ call.stage \in {"mark", "share", "done"}
        /\ call.stage = "mark" => SharingMark
        /\ call.stage = "share" => SharingRows
        /\ F = {}
    BY <1>4, InvParts DEF Sharing
  <2>2. SharingIds'
    <3>1. \A i \in 1..Len(log') : IsShare(log'[i]) => \A k \in DOMAIN log'[i].new.row : k[1] # call.from
      BY <1>3, <1>5, <2>1 DEF SharingIds
    <3> QED BY <1>0, <2>1, <3>1 DEF SharingIds, IsShare
  <2>3. ASSUME call.stage = "mark" PROVE SharingMark'
    <3>1. \A i \in 1..Len(log') : \A k \in DOMAIN log'[i].new.row : k[1] # call.to
      BY <1>3, <1>5, <2>1, <2>3 DEF SharingMark
    <3> QED BY <1>0, <1>3, <1>5, <2>1, <2>3, <3>1 DEF SharingMark
  <2>4. ASSUME call.stage = "share" PROVE SharingRows'
    <3>1. SharingRows /\ Len(log') = 1 /\ ShareNext' = ShareNext
      BY <1>0, <1>3, <1>5, <2>1, <2>4 DEF ShareNext
    <3>2. \A k : Left(k) => Left(k)'
      BY <1>0 DEF Left
    <3>3. IsShare(Own)' \/ Own'.new.row = <<>>
      BY <1>3, <1>5, <2>4 DEF IsShare
    <3> QED BY <1>0, <1>3, <1>5, <2>4, <3>1, <3>2, <3>3 DEF SharingRows
  <2> QED BY <2>1, <2>2, <2>3, <2>4
<1> QED BY <1>6, <1>7, <1>8, <1>9, <1>11, <1>12, <1>13, <1>14 DEF ChunksInv

-----------------------------------------------------------------------------
(* The steps of a call.                                                    *)

\* What a call that begins has of the fields it was given.
LEMMA BeginsIs ==
    ASSUME NEW c \in Call, Begins(c)
    PROVE  /\ call = Idle /\ UNCHANGED <<db, log, freed, want>>
           /\ call'.op = c.op /\ call'.to = c.to /\ call'.from = c.from /\ call'.stage = c.stage
           /\ call'.waits = c.waits /\ call'.new = c.new /\ call'.free = c.free /\ call'.freeing = c.freeing
  BY DEF Begins, Call

LEMMA RequestFits == ASSUME Types, ChunksInv, Requests PROVE Fits
<1>0. /\ \A h \in Holders : db.st[h] # "none" => h \in used
      /\ \A h \in Snapshots : db.st[h] # "attached"
      /\ db.st \in [Holders -> States] /\ db.row \in [Places -> Row] /\ life \in [Holders -> {"new", "whole", "doomed"}]
  BY InvParts DEF Given, Types, TypeOK, Places
<1>1. ASSUME NEW v \in Volumes, create_volume(v) PROVE Fits
  <2>1. v \in Holders /\ "create" \in Kinds /\ "row" \in Stages
    BY DEF Holders, Kinds, Stages
  <2> QED BY <1>1, <2>1, NewType, BeginsIs DEF create_volume, Fits
<1>2. ASSUME NEW v \in Volumes, NEW st \in {"available", "attached"}, update_volume(v, st) PROVE Fits
  <2>1. v \in Holders /\ "update" \in Kinds /\ "row" \in Stages
    BY DEF Holders, Kinds, Stages
  <2> DEFINE c == [New("update", v, "row") EXCEPT !.new = st]
  <2>2. c \in Call /\ c.op = "update" /\ c.to = v /\ ~c.waits /\ c.free = {} /\ c.freeing = {}
    BY <2>1, NewType DEF Call
  <2>3. Begins(c) /\ used' = used /\ v \in used /\ life' = life
    BY <1>0, <1>2, <2>1 DEF update_volume
  <2> HIDE DEF c
  <2> QED BY <2>2, <2>3, BeginsIs DEF Fits
<1>3. ASSUME NEW v \in Volumes, NEW ch \in Chunks, NEW s \in Stripes \cup {Nil}, commit_chunks(v, ch, s) PROVE Fits
  <2>1. v \in Holders /\ "commit" \in Kinds /\ "row" \in Stages /\ ch \in Nat
    BY DEF Holders, Kinds, Stages, Chunks
  <2>2. PICK e \in Stripes \cup {Nil} : e = db.row[<<v, ch>>].stripe
    BY <1>0, <2>1, PlaceOf, Rows
  <2> DEFINE n == New("commit", v, "row")
             c == [n EXCEPT !.chunk = ch, !.new = s, !.expected = e]
  <2>3. n \in Call /\ n.op = "commit" /\ n.to = v /\ ~n.waits /\ n.free = {} /\ n.freeing = {}
    BY <2>1, NewType
  <2> HIDE DEF n
  <2>4. c \in Call /\ c.op = "commit" /\ c.to = v /\ ~c.waits /\ c.free = {} /\ c.freeing = {} /\ c.new = s
    BY <2>1, <2>3 DEF Call
  <2>5. /\ Begins(c) /\ used' = used \cup ({s} \cap Stripes) /\ v \in used /\ s \notin used /\ life' = life
        /\ db.st[v] \notin {"none", "deleting", "creating"}
    BY <1>0, <1>3, <2>1, <2>2 DEF commit_chunks, n
  <2>6. db.st[v] \in {"available", "attached"}
    BY <1>0, <2>1, <2>5 DEF States
  <2> HIDE DEF c
  <2> QED BY <2>1, <2>4, <2>5, <2>6, BeginsIs DEF Fits
<1>4. ASSUME NEW from \in Holders, NEW to \in Holders \ used, used' = used \cup {to}, life' = life,
             db.st[from] \in {"available", "attached"}, to \in Volumes => from \in Snapshots,
             Begins([New("share", to, "mark") EXCEPT !.from = from])
      PROVE  Fits
  <2>1. "share" \in Kinds /\ "mark" \in Stages
    BY DEF Kinds, Stages
  <2> DEFINE c == [New("share", to, "mark") EXCEPT !.from = from]
  <2>2. /\ c \in Call /\ c.op = "share" /\ c.to = to /\ c.from = from /\ c.stage = "mark" /\ ~c.waits
        /\ c.free = {} /\ c.freeing = {}
    BY <2>1, NewType DEF Call
  <2>3. Begins(c)
    BY <1>4
  <2> HIDE DEF c
  <2> QED BY <1>4, <2>2, <2>3, BeginsIs DEF Fits
<1>5. ASSUME NEW v \in Volumes, NEW s \in Snapshots, create_snapshot(v, s) \/ clone_volume(s, v) PROVE Fits
  <2>1. v \in Holders /\ s \in Holders /\ s \notin Volumes
    BY IdsAssumption DEF Holders
  <2>2. CASE create_snapshot(v, s)
    <3>1. db.st[v] \in {"available", "attached"}
      BY <1>0, <2>1, <2>2 DEF create_snapshot, States
    <3> QED BY <1>4, <2>1, <2>2, <3>1 DEF create_snapshot
  <2>3. CASE clone_volume(s, v)
    BY <1>4, <2>1, <2>3 DEF clone_volume
  <2> QED BY <1>5, <2>2, <2>3
<1>6. ASSUME NEW h \in Holders, delete(h) PROVE Fits
  <2>1. PICK stage \in {"release", "mark"} : stage = IF db.st[h] = "deleting" THEN "release" ELSE "mark"
    OBVIOUS
  <2>2. "delete" \in Kinds /\ stage \in Stages
    BY DEF Kinds, Stages
  <2>3. /\ Begins(New("delete", h, stage)) /\ used' = used /\ h \in used
        /\ \A x \in Holders : life'[x] = IF x = h THEN "doomed" ELSE life[x]
    BY <1>0, <1>6, <2>1 DEF delete
  <2> QED BY <2>2, <2>3, NewType, BeginsIs DEF Fits
<1> QED BY <1>1, <1>2, <1>3, <1>5, <1>6 DEF Requests

LEMMA RequestInv == ASSUME Types, ChunksInv, Requests PROVE ChunksInv'
  BY RequestFits, BeginInv

\* The state of a holder is set.
LEMMA StateSet ==
    ASSUME Types, ChunksInv, ~call.waits, call.stage # "done", call.op # "none", NEW st \in States,
           Sends(SetState(call.to, st)),
           st = "attached" => call.to \in Volumes,
           st = "available" => call.to \in Volumes \/ (call.op = "share" /\ log = <<>>),
           call.op = "share" => (call.stage = "mark" /\ st = "creating") \/ (call.stage = "share" /\ log = <<>>)
    PROVE  Types' /\ ChunksInv'
<1>1. PICK h : h = call.to
  OBVIOUS
<1>2. PICK d : d = SetState(h, st)
  OBVIOUS
<1>3. h \in Holders /\ h \in used /\ call.freeing = {} /\ ~(h \in Volumes /\ h \in Snapshots)
  BY <1>1, InvParts, IdsAssumption DEF Types, CallOf, Waiting, Freeing
<1>4. /\ d \in Change /\ DOMAIN d.row = {} /\ DOMAIN d.ref = {} /\ d.row = <<>> /\ DOMAIN d.st = {h} /\ d.st[h] = st
  BY <1>2, <1>3, SetStateType
<1>5. /\ Proposal(d, {}) /\ \A k \in DOMAIN d.row : Owned(k, d.row[k])
  BY <1>1, <1>2, <1>3, <1>4, SendsIs
<1>6. PICK m : m = MsgOf(d)
  OBVIOUS
<1>7. m.new = d /\ m.by = call.op
  BY <1>4, <1>5, <1>6, Proposed
<1>8. BatchIds(m) /\ ~IsShare(m) /\ TakesOut(m) /\ NewIn(m) = {}
  BY <1>1, <1>3, <1>4, <1>7 DEF BatchIds, IsShare, TakesOut, NewIn
<1>9. \A x \in Snapshots : Opening(m, x) => call.op = "share" /\ call.to = x /\ log = <<>>
  BY <1>1, <1>3, <1>4, <1>7 DEF Opening
<1>10. Shaped(d)
  BY <1>4, <1>6, <1>8, <1>9 DEF Shaped
<1>11. SharesOn(d)
  BY <1>1, <1>4, <1>6, <1>8 DEF SharesOn
<1>12. Frees(d, {})
  BY DEF Frees
<1>13. Types'
  BY <1>4, <1>5, ProposalTypes
<1> QED BY <1>4, <1>5, <1>10, <1>11, <1>12, <1>13, ProposalInv

\* create_volume, update_volume, the marks and the ends of shares and deletes.
LEMMA StateSteps ==
    ASSUME Types, ChunksInv, Creates \/ (Updates /\ ~Fails) \/ Marks \/ Opens \/ Drops
    PROVE  Types' /\ ChunksInv'
<1>0. {"none", "creating", "available", "attached", "deleting"} = States
  BY DEF States
<1>1. CASE Creates
  <2>1. /\ call.op = "create" /\ call.stage = "row" /\ ~call.waits /\ Sends(SetState(call.to, "available"))
        /\ call.to \in Volumes
    BY <1>1 DEF Creates, At, Types, CallOf
  <2> QED BY <1>0, <2>1, StateSet
<1>2. CASE Updates /\ ~Fails
  <2>1. /\ call.op = "update" /\ call.stage = "row" /\ ~call.waits /\ Sends(SetState(call.to, call.new))
        /\ call.to \in Volumes /\ call.new \in {"available", "attached"}
    BY <1>2 DEF Updates, At, Types, CallOf
  <2>2. PICK st \in {"available", "attached"} : st = call.new
    BY <2>1
  <2> QED BY <1>0, <2>1, <2>2, StateSet
<1>3. CASE At("share", "mark") /\ Sends(SetState(call.to, "creating"))
  <2>1. call.op = "share" /\ call.stage = "mark" /\ ~call.waits
    BY <1>3 DEF At
  <2> QED BY <1>0, <1>3, <2>1, StateSet
<1>4. CASE At("delete", "mark") /\ Sends(SetState(call.to, "deleting"))
  BY <1>0, <1>4, StateSet DEF At
<1>5. CASE Opens
  <2>1. call.op = "share" /\ call.stage = "share" /\ ~call.waits /\ Sends(SetState(call.to, "available"))
    BY <1>5 DEF Opens, At
  <2>2. Len(log) = 0
    BY <2>1, InvParts DEF Sharing, SharingRows
  <2>3. log = <<>>
    BY <2>2, LogEntry DEF Types
  <2> QED BY <1>0, <2>1, <2>3, StateSet
<1>6. CASE Drops
  BY <1>0, <1>6, StateSet DEF Drops, At
<1> QED BY <1>1, <1>2, <1>3, <1>4, <1>5, <1>6 DEF Marks

\* commit_chunks: one chunk, its old stripe handed back if nothing else has it.
LEMMA CommitStep == ASSUME Types, ChunksInv, Commits, ~Fails PROVE Types' /\ ChunksInv'
<1>1. PICK v, c, s : v = call.to /\ c = call.chunk /\ s = call.new
  OBVIOUS
<1>2. /\ call.op = "commit" /\ call.stage = "row" /\ ~call.waits
      /\ SendsFreeing(CommitChange(v, c, s), CommitFrees(v, c))
      /\ v \in Volumes /\ v \in used /\ c \in Chunks /\ s \in Stripes \cup {Nil}
  BY <1>1, InvParts DEF Commits, At, Types, CallOf, Waiting
<1>3. PICK d : d = CommitChange(v, c, s)
  OBVIOUS
<1>4. PICK k : k = <<v, c>>
  OBVIOUS
<1>5. PICK F : F = CommitFrees(v, c)
  OBVIOUS
<1>6. /\ d \in Change /\ DOMAIN d.st = {} /\ DOMAIN d.row = {k} /\ k \in Places /\ k[1] = v
      /\ d.row[k] = IF s = Nil THEN NoRow ELSE [stripe |-> s, owner |-> s]
      /\ DOMAIN d.ref = {r \in Stripes : r = db.row[k].stripe /\ db.row[k].owner \in db.ref[r]}
      /\ \A r \in DOMAIN d.ref : d.ref[r] = db.ref[r] \ {db.row[k].owner}
      /\ \A j \in DOMAIN d.row : Owned(j, d.row[j])
  BY <1>2, <1>3, <1>4, CommitType
<1>7. d.row[k].stripe = s /\ d.row[k].owner = s /\ (d.row[k] # NoRow => s \in Stripes)
  BY <1>2, <1>6 DEF NoRow
<1>8. F = {r \in Stripes : r = db.row[k].stripe /\ db.ref[r] \in {{}, {db.row[k].owner}}}
  BY <1>4, <1>5 DEF CommitFrees, NowFree
<1>9. Proposal(d, F)
  BY <1>2, <1>3, <1>5, <1>8, SendsFreeingIs
<1>10. PICK m : m = MsgOf(d)
  OBVIOUS
<1>11. /\ m.new = d /\ m.by = "commit" /\ m.exp.row[k] = db.row[k]
       /\ \A r \in DOMAIN d.ref : m.exp.ref[r] = db.ref[r]
  BY <1>2, <1>6, <1>10, Proposed
<1>12. BatchIds(m) /\ ~IsShare(m) /\ \A h : ~Opening(m, h)
  BY <1>2, <1>6, <1>11 DEF BatchIds, IsShare, Opening
<1>13. TakesOut(m)
  BY <1>6, <1>7, <1>11 DEF TakesOut
<1>14. \A x \in NewIn(m) : x = s
  BY <1>6, <1>7, <1>11 DEF NewIn
<1>15. s # Nil => Unnamed(s)
  BY <1>1, <1>2, InvParts DEF Bringing
<1>16. s \notin Gone
  <2>1. Gone \subseteq Referrers /\ Nil \notin Referrers
    BY IdsAssumption DEF Gone, Types, TypeOK, Referrers, Holders
  <2> QED BY <1>15, <2>1 DEF Unnamed, Gone
<1>17. Shaped(d)
  BY <1>1, <1>2, <1>6, <1>7, <1>10, <1>12, <1>13, <1>14, <1>16 DEF Shaped
<1>18. SharesOn(d)
  BY <1>2 DEF SharesOn
<1>19. s \notin F
  BY <1>6, <1>8, <1>15, IdsAssumption DEF Unnamed
<1>20. Frees(d, F)
  BY <1>2, <1>6, <1>7, <1>8, <1>19 DEF Frees
<1>21. F \subseteq used
  <2>1. db.row[k] \in Row
    BY <1>6 DEF Types, TypeOK, Places
  <2> QED BY <1>6, <1>8, <2>1, Rows, InvParts DEF Given
<1>22. Types'
  BY <1>6, <1>8, <1>9, <1>21, ProposalTypes
<1> QED BY <1>6, <1>9, <1>17, <1>18, <1>20, <1>22, ProposalInv

\* release_chunks: the holder's chunks, each taken out of the registry.
LEMMA ReleaseStep == ASSUME Types, ChunksInv, ReleasesBatch PROVE Types' /\ ChunksInv'
<1>1. PICK h : h = call.to
  OBVIOUS
<1>2. /\ call.op = "delete" /\ call.stage = "release" /\ ~call.waits
      /\ SendsFreeing(ReleaseChange(h), ReleaseFrees(h)) /\ h \in Holders /\ h \in used
  BY <1>1, InvParts DEF ReleasesBatch, At, Types, CallOf, Waiting
<1>3. PICK d : d = ReleaseChange(h)
  OBVIOUS
<1>4. PICK F : F = ReleaseFrees(h)
  OBVIOUS
<1>5. PICK K : K = ReleaseNext(h)
  OBVIOUS
<1>6. /\ d \in Change /\ DOMAIN d.st = {} /\ DOMAIN d.row = K /\ K \subseteq Places
      /\ \A k \in K : d.row[k] = NoRow /\ k[1] = h /\ db.row[k] # NoRow /\ HeldAs(k) = db.row[k].owner
      /\ \A k \in DOMAIN d.row : Owned(k, d.row[k])
  BY <1>2, <1>3, <1>5, ReleaseType
<1>7. /\ \A s \in DOMAIN d.ref : \E k \in K : db.row[k].stripe = s /\ d.ref[s] = db.ref[s] \ {db.row[k].owner}
      /\ \A s \in Stripes, k \in K : db.row[k].stripe = s /\ db.row[k].owner \in db.ref[s] => s \in DOMAIN d.ref
  <2>1. /\ \A s \in DOMAIN d.ref : \E k \in K : db.row[k].stripe = s /\ d.ref[s] = db.ref[s] \ {HeldAs(k)}
        /\ \A s \in Stripes, k \in K : db.row[k].stripe = s /\ HeldAs(k) \in db.ref[s] => s \in DOMAIN d.ref
    BY <1>2, <1>3, <1>5, ReleaseType
  <2> QED BY <1>6, <2>1
<1>8. \A k \in K : db.row[k].stripe \in Stripes /\ db.row[k].stripe \in used
  <2>1. \A k \in K : db.row[k] \in Row
    BY <1>6 DEF Types, TypeOK, Places
  <2> QED BY <1>6, <2>1, Rows, InvParts DEF Given
<1>9. \A k, j \in K : db.row[k].stripe = db.row[j].stripe => k = j
  BY <1>6, <1>8, InvParts DEF Apart
<1>10. \A s \in F : \E k \in K : db.row[k].stripe = s /\ db.ref[s] \in {{}, {db.row[k].owner}}
  BY <1>4, <1>5, <1>6 DEF ReleaseFrees, NowFree
<1>11. F \subseteq Stripes /\ F \subseteq used
  BY <1>8, <1>10
<1>12. Proposal(d, F)
  BY <1>2, <1>3, <1>4, <1>11, SendsFreeingIs
<1>13. PICK m : m = MsgOf(d)
  OBVIOUS
<1>14. /\ m.new = d /\ m.by = "delete" /\ \A k \in K : m.exp.row[k] = db.row[k]
       /\ \A s \in DOMAIN d.ref : m.exp.ref[s] = db.ref[s]
  BY <1>2, <1>6, <1>13, Proposed
<1>15. BatchIds(m) /\ ~IsShare(m) /\ (\A x : ~Opening(m, x)) /\ NewIn(m) = {}
  BY <1>2, <1>6, <1>14 DEF BatchIds, IsShare, Opening, NewIn
<1>16. TakesOut(m)
  <2>1. ASSUME NEW k \in K, db.row[k].stripe \in DOMAIN d.ref
        PROVE  d.ref[db.row[k].stripe] = db.ref[db.row[k].stripe] \ {db.row[k].owner}
    BY <1>7, <1>9, <2>1
  <2> QED BY <1>6, <1>7, <1>9, <1>14, <2>1 DEF TakesOut
<1>17. NoRow.stripe \notin Gone /\ NoRow.stripe \notin Stripes
  <2>1. Gone \subseteq Referrers /\ Nil \notin Referrers /\ Nil \notin Stripes
    BY IdsAssumption DEF Gone, Types, TypeOK, Referrers, Holders
  <2> QED BY <2>1 DEF NoRow
<1>18. Shaped(d)
  BY <1>6, <1>13, <1>15, <1>16, <1>17 DEF Shaped
<1>19. SharesOn(d)
  BY <1>2 DEF SharesOn
<1>20. Frees(d, F)
  <2> SUFFICES ASSUME NEW s \in F
               PROVE  /\ \A k \in DOMAIN d.row : d.row[k].stripe # s
                      /\ \E k \in DOMAIN d.row : /\ db.row[k].stripe = s
                                                 /\ db.ref[s] # {} => s \in DOMAIN d.ref /\ db.ref[s] = {db.row[k].owner}
    BY <1>2, <1>11 DEF Frees
  <2>1. PICK k \in K : db.row[k].stripe = s /\ db.ref[s] \in {{}, {db.row[k].owner}}
    BY <1>10
  <2> QED BY <1>6, <1>7, <1>11, <1>17, <2>1
<1>21. Types'
  BY <1>6, <1>11, <1>12, ProposalTypes
<1> QED BY <1>6, <1>12, <1>18, <1>19, <1>20, <1>21, ProposalInv

\* share_chunks: a batch of the chunks read, each of a stripe entered for both.
LEMMA ShareStep == ASSUME Types, ChunksInv, Shares, ~Fails PROVE Types' /\ ChunksInv'
<1>1. PICK h, from, d, K : h = call.to /\ from = call.from /\ d = ShareChange(h) /\ K = ShareNext
  OBVIOUS
<1>2. call.op = "share" /\ call.stage = "share" /\ ~call.waits /\ Sends(d) /\ call.freeing = {}
  BY <1>1, InvParts DEF Shares, At, Freeing
<1>3. SharingIds /\ SharingRows
  BY <1>2, InvParts DEF Sharing
<1>4. /\ h \in Holders /\ h \in used /\ from \in Holders /\ from # h /\ (h \in Volumes => from \in Snapshots)
      /\ db.st[h] = "creating" /\ log = <<>> /\ call.free = {}
      /\ \A c \in Chunks : db.row[<<from, c>>].stripe \notin freed
  <2>1. Len(log) = 0
    BY <1>2, <1>3 DEF SharingRows
  <2>2. log = <<>>
    BY <2>1, LogEntry DEF Types
  <2> QED BY <1>1, <1>2, <1>3, <2>2 DEF SharingIds, SharingRows, Types, CallOf
<1>5. /\ d \in Change /\ DOMAIN d.st = {} /\ DOMAIN d.row = {<<h, k[2]>> : k \in K}
      /\ K \subseteq DOMAIN call.rows /\ K \subseteq Places
      /\ \A k \in K : /\ k[1] = from /\ call.rows[k] \in Row \ {NoRow}
                      /\ d.row[<<h, k[2]>>] = [stripe |-> call.rows[k].stripe, owner |-> h]
                      /\ call.rows[k].stripe \in DOMAIN d.ref
      /\ \A s \in DOMAIN d.ref : \E k \in K : call.rows[k].stripe = s /\ d.ref[s] = share(s, SharedAs(k, h), h)
      /\ \A k \in DOMAIN d.row : Owned(k, d.row[k])
  BY <1>1, <1>2, ShareType
\* The chunks are as they were read, and the target has none of them.
<1>6. /\ \A k \in K : k \in Places /\ k[1] = from /\ k[2] \in Chunks
      /\ \A k \in K : db.row[k] = call.rows[k] /\ db.row[k].stripe \in Stripes /\ db.row[k].stripe \notin freed
  <2>1. \A k \in K : Left(k)
    BY <1>3, <1>5 DEF SharingRows
  <2>2. \A k \in K : k \in Places /\ k[1] = from /\ k[2] \in Chunks /\ k = <<from, k[2]>>
    BY <1>5, Place
  <2>3. \A k \in K : db.row[k] = call.rows[k]
    BY <2>1 DEF Left
  <2>4. \A k \in K : db.row[k].stripe \in Stripes
    BY <1>5, <2>3, Rows
  <2>5. \A k \in K : db.row[k].stripe \notin freed
    BY <1>4, <2>2
  <2> QED BY <2>2, <2>3, <2>4, <2>5
<1>6a. \A k \in K : /\ <<h, k[2]>> \in Places /\ <<h, k[2]>>[1] = h /\ db.row[<<h, k[2]>>] = NoRow
                    /\ \A c \in Chunks : db.row[<<h, c>>].stripe # db.row[k].stripe
  <2>1. \A k \in K : Left(k)
    BY <1>3, <1>5 DEF SharingRows
  <2>2. \A k \in K : db.row[<<h, k[2]>>] = NoRow /\ \A c \in Chunks : db.row[<<h, c>>].stripe # db.row[k].stripe
    BY <1>1, <2>1 DEF Left
  <2> QED BY <1>4, <1>6, <2>2, PlaceOf
<1>7. \A j \in DOMAIN d.row : \E k \in K : /\ j = <<h, k[2]>> /\ d.row[j].stripe = db.row[k].stripe
                                           /\ d.row[j].owner = h /\ j[1] = h
  <2> SUFFICES ASSUME NEW j \in DOMAIN d.row
               PROVE  \E k \in K : /\ j = <<h, k[2]>> /\ d.row[j].stripe = db.row[k].stripe
                                   /\ d.row[j].owner = h /\ j[1] = h
    OBVIOUS
  <2>1. PICK k \in K : j = <<h, k[2]>>
    BY <1>5
  <2>2. d.row[j] = [stripe |-> call.rows[k].stripe, owner |-> h]
    BY <1>5, <2>1
  <2>3. d.row[j].stripe = db.row[k].stripe /\ d.row[j].owner = h
    BY <1>6, <2>2
  <2> QED BY <2>1, <2>3
<1>8. ASSUME NEW k \in K, NEW s, s = db.row[k].stripe, db.ref[s] = {} PROVE SharedAs(k, h) = s /\ from \notin Snapshots
  <2>1. db.row[k].owner = s
    BY <1>6, <1>8, InvParts DEF Entered, EnteredAt
  <2>2. Owned(k, db.row[k]) /\ db.row[k] # NoRow
    BY <1>5, <1>6 DEF Types, TypeOK, Places, Owned
  <2>3. s \notin Holders
    BY <1>6, <1>8, IdsAssumption DEF Holders
  <2>4. from \in Volumes /\ from \notin Snapshots
    BY <1>4, <1>6, <2>1, <2>2, <2>3, IdsAssumption DEF Owned
  <2> QED BY <1>6, <2>1, <2>4 DEF SharedAs
<1>9. \A k, j \in K : db.row[k].stripe = db.row[j].stripe => k = j
  <2>1. ASSUME NEW k \in K, NEW j \in K, db.row[k].stripe = db.row[j].stripe, k # j PROVE FALSE
    <3>1. k \in Places /\ j \in Places /\ db.row[k].stripe \in Stripes /\ k[1] = j[1]
      BY <1>6
    <3> QED BY <2>1, <3>1, InvParts DEF Apart
  <2> QED BY <2>1
<1>10. PICK m : m = MsgOf(d)
  OBVIOUS
<1>11. m.new = d /\ m.by = "share"
  BY <1>2, <1>5, <1>10, Proposed
<1>12. ASSUME NEW j \in DOMAIN d.row PROVE GivesRow(m, j, j[1], d.row[j].stripe)
  <2>1. PICK k \in K : j = <<h, k[2]>> /\ d.row[j].stripe = db.row[k].stripe /\ d.row[j].owner = h /\ j[1] = h
    BY <1>7
  <2>2. PICK s : s = db.row[k].stripe
    OBVIOUS
  <2>3. s \in DOMAIN d.ref /\ s \in Stripes
    BY <1>5, <1>6, <2>2
  <2>4. PICK x \in K : db.row[x].stripe = s /\ d.ref[s] = share(s, SharedAs(x, h), h)
    <3>1. PICK x \in K : call.rows[x].stripe = s /\ d.ref[s] = share(s, SharedAs(x, h), h)
      BY <1>5, <2>3
    <3> QED BY <1>6, <3>1
  <2>5. d.ref[s] = (IF db.ref[s] = {} THEN {s} ELSE db.ref[s]) \cup {h}
    <3>1. CASE db.ref[s] = {}
      BY <1>8, <2>4, <3>1 DEF share
    <3>2. CASE db.ref[s] # {}
      BY <2>4, <3>2 DEF share
    <3> QED BY <3>1, <3>2
  <2>6. h \in Volumes => db.ref[s] # {}
    BY <1>4, <1>8, <2>2
  <2>7. db.row[j] = NoRow /\ (\A c \in Chunks : db.row[<<h, c>>].stripe # s) /\ k \in Places
    BY <1>6, <1>6a, <2>1, <2>2
  <2> QED BY <1>4, <1>11, <2>1, <2>2, <2>3, <2>5, <2>6, <2>7 DEF GivesRow
<1>13. \A s \in DOMAIN d.ref : \E j \in DOMAIN d.row : d.row[j].stripe = s
  <2> SUFFICES ASSUME NEW s \in DOMAIN d.ref PROVE \E j \in DOMAIN d.row : d.row[j].stripe = s
    OBVIOUS
  <2>1. PICK k \in K : call.rows[k].stripe = s
    BY <1>5
  <2>2. <<h, k[2]>> \in DOMAIN d.row
    BY <1>5
  <2>3. d.row[<<h, k[2]>>] = [stripe |-> call.rows[k].stripe, owner |-> h]
    BY <1>5
  <2>4. d.row[<<h, k[2]>>].stripe = s
    BY <2>1, <2>3
  <2> QED BY <2>2, <2>4
<1>14. \A i, j \in DOMAIN d.row : d.row[i].stripe = d.row[j].stripe => i = j
  BY <1>7, <1>9
<1>15. GivesTo(m)
  BY <1>5, <1>11, <1>12, <1>13, <1>14 DEF GivesTo
<1>16. ~IsShare(m) => TakesOut(m) /\ d.row = <<>>
  <2> SUFFICES ASSUME ~IsShare(m) PROVE TakesOut(m) /\ d.row = <<>>
    OBVIOUS
  <2>1. DOMAIN d.row = {} /\ DOMAIN d.ref = {}
    BY <1>11, <1>13 DEF IsShare
  <2>2. d.row \in [{} -> Row] /\ <<>> \in [{} -> Row]
    BY <1>5, <2>1, ChangeType, PartType, EmptyPart
  <2>3. d.row = <<>>
    BY <2>2
  <2> QED BY <1>11, <2>1, <2>3 DEF TakesOut
<1>17. BatchIds(m) /\ (\A x : ~Opening(m, x)) /\ NewIn(m) = {}
  BY <1>4, <1>5, <1>7, <1>11 DEF BatchIds, Opening, NewIn
<1>18. \A j \in DOMAIN d.row : d.row[j].stripe \notin Gone
  BY <1>4, <1>6, <1>7 DEF Gone
<1>19. Shaped(d)
  BY <1>4, <1>10, <1>15, <1>16, <1>17, <1>18 DEF Shaped
<1>20. \A j \in DOMAIN d.row : j[1] # from
  BY <1>4, <1>7
<1>21. SharesOn(d)
  <2>1. \A j \in DOMAIN d.row : \E k \in K : j = <<h, k[2]>> /\ d.row[j].stripe = call.rows[k].stripe
    BY <1>6, <1>7
  <2> QED BY <1>1, <1>2, <1>4, <1>10, <1>16, <1>20, <2>1 DEF SharesOn
<1>22. Frees(d, {}) /\ Proposal(d, {})
  BY <1>2, SendsIs DEF Frees
<1>23. Types'
  BY <1>5, <1>22, ProposalTypes
<1> QED BY <1>5, <1>19, <1>21, <1>22, <1>23, ProposalInv

-----------------------------------------------------------------------------
(* The theorems.                                                           *)

LEMMA InvInit == Init => ChunksInv
<1> SUFFICES ASSUME Init PROVE ChunksInv
  OBVIOUS
<1>1. /\ db.st = [h \in Holders |-> "none"] /\ db.row = [k \in Holders \X Chunks |-> NoRow]
      /\ db.ref = [s \in Stripes |-> {}] /\ log = <<>> /\ call = Idle /\ used = {} /\ freed = {}
  BY DEF Init
<1>2. /\ \A h \in Holders : db.st[h] = "none"
      /\ \A k \in Places : db.row[k] = NoRow /\ db.row[k].stripe = Nil
      /\ \A s \in Stripes : db.ref[s] = {}
      /\ \A h \in Snapshots : h \in Holders
      /\ Nil \notin Stripes
  BY <1>1, IdsAssumption DEF Places, NoRow, Holders
<1>3. 1..Len(log) = {}
  BY <1>1
<1>4. Given /\ Apart /\ Entered
  BY <1>2 DEF Given, Apart, Entered, EnteredAt
<1>5. Batches /\ Unopened /\ GoneStays
  BY <1>3 DEF Batches, Unopened, GoneStays
<1>6. Bringing /\ Waiting /\ Sharing /\ Freeing
  BY <1>1, <1>3, IdleType DEF Bringing, Waiting, Sharing, Freeing
<1>7. GoneIsDead
  BY <1>1, IdleType DEF GoneIsDead, Gone
<1> QED BY <1>4, <1>5, <1>6, <1>7 DEF ChunksInv

LEMMA InvNext == ASSUME Types, ChunksInv, [Next]_vars PROVE Types' /\ ChunksInv'
<1>1. CASE Requests
  BY <1>1, RequestTypes, RequestInv
<1>2. CASE (Fails /\ ~call.waits) \/ Responds \/ Cuts
  BY <1>2, EndsIs, EndTypes, EndInv
<1>3. CASE Creates \/ Marks \/ Opens \/ Drops
  BY <1>3, StateSteps
<1>4. CASE Updates
  <2>1. Fails => ~call.waits
    BY <1>4 DEF Updates, At
  <2> QED BY <1>2, <1>4, <2>1, StateSteps
<1>5. CASE Commits
  <2>1. Fails => ~call.waits
    BY <1>5 DEF Commits, At
  <2> QED BY <1>2, <1>5, <2>1, CommitStep
<1>6. CASE Shares
  <2>1. Fails => ~call.waits
    BY <1>6 DEF Shares, At
  <2> QED BY <1>2, <1>6, <2>1, ShareStep
<1>7. CASE ReleasesBatch
  BY <1>7, ReleaseStep
<1>8. CASE Raft
  BY <1>8, AppliedTypes, AppliedInv, ConflictTypes, ConflictInv DEF Raft
<1>9. CASE UNCHANGED vars
  <2>1. /\ db' = db /\ log' = log /\ call' = call /\ used' = used /\ freed' = freed /\ want' = want
        /\ life' = life /\ cuts' = cuts
    BY <1>9 DEF vars
  <2>2. Types'
    BY <2>1 DEF Types, TypeOK, CallOf, MsgOK, Owned
  <2>3. Batches' /\ Unopened' /\ GoneStays'
    <3>1. Batches'
      BY <2>1, InvParts, BatchesKept
    <3>2. Unopened' /\ GoneStays'
      BY <2>1, InvParts DEF IsShare, Unopened, Opening, GoneStays, Gone
    <3> QED BY <3>1, <3>2
  <2>4. Given' /\ Apart' /\ Entered' /\ Bringing' /\ Waiting'
    BY <2>1, InvParts DEF Given, Apart, Entered, EnteredAt, Bringing, Unnamed, NewIn, Waiting
  <2>5. Sharing'
    BY <2>1, InvParts DEF Sharing, SharingIds, SharingMark, SharingRows, Left, ShareNext, IsShare, Own
  <2>6. Freeing' /\ GoneIsDead'
    BY <2>1, InvParts DEF Freeing, LastOne, OwnRows, Own, IsShare, Dead, Opening, GoneIsDead, Gone
  <2> QED BY <2>2, <2>3, <2>4, <2>5, <2>6 DEF ChunksInv
<1> QED BY <1>1, <1>2, <1>3, <1>4, <1>5, <1>6, <1>7, <1>8, <1>9 DEF Next, Serving

LEMMA Invariants == Spec => [](Types /\ ChunksInv)
<1>1. Init => Types /\ ChunksInv
  BY TypesInit, InvInit
<1>2. (Types /\ ChunksInv) /\ [Next]_vars => (Types /\ ChunksInv)'
  BY InvNext
<1> QED BY <1>1, <1>2, PTL DEF Spec

\* Every variable keeps its type: a chunk of a volume is held as the stripe's
\* own or the volume's, one of a snapshot as the snapshot's, and the log has a
\* batch of the call being served at most, besides those of calls cut off.
THEOREM TypeCorrect == Spec => []TypeOK
<1>1. Types => TypeOK
  BY DEF Types
<1> QED BY <1>1, Invariants, PTL

\* What commit_chunks, delete_volume and delete_snapshot hand back to be freed is
\* never a stripe that a volume or a finished snapshot has, nor will it be: for
\* any volumes, chunks and size of batch, whatever calls were cut off, and in
\* whatever order the batches they left are applied or found to conflict.
THEOREM FreedIsNotLive == Spec => []LiveIntact
<1>1. Types /\ ChunksInv => LiveIntact
  <2> SUFFICES ASSUME Types, ChunksInv, NEW h \in Holders, Live(h), NEW c \in Chunks, db.row[<<h, c>>].stripe \in freed
               PROVE  FALSE
    BY DEF LiveIntact
  <2>1. <<h, c>> \in Places /\ <<h, c>>[1] = h
    BY PlaceOf
  <2>2. Dead(h)
    BY <2>1, InvParts DEF GoneIsDead, Gone
  <2> QED BY <2>2, InvParts DEF Dead, Live, Given
<1> QED BY <1>1, Invariants, PTL

=============================================================================
