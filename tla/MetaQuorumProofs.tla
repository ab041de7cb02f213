-------------------------- MODULE MetaQuorumProofs --------------------------
(***************************************************************************)
(* Proofs about MetaQuorum for any number of copies, operations, gateways  *)
(* and faults: its types, that a copy only moves up the write order, and   *)
(* that a quorum read is never older than what was acknowledged.           *)
(***************************************************************************)
EXTENDS MetaQuorum, FiniteSetTheorems, TLAPS

-----------------------------------------------------------------------------
(* The write order, and what the OSD's handlers do to a copy.              *)

\* Not-older is transitive, and being superseded is being not older.
LEMMA OrderTransitive ==
    ASSUME NEW a \in Object, NEW b \in Object, NEW c \in Object,
           ~Older(a, b), ~Older(b, c)
    PROVE  ~Older(a, c)
BY DEF Older, Object

\* Two writes are not each older than the other.
LEMMA OrderAsymmetric ==
    ASSUME NEW a \in Object, NEW b \in Object, Older(a, b)
    PROVE  ~Older(b, a)
BY DEF Older, Object

\* A stamp handed out is above zero and above all its gateway handed out or saw.
LEMMA StampsGrow ==
    ASSUME NEW last \in Nat, NEW seen \in Nat, NEW wall \in Nat
    PROVE  /\ next_after(last, seen, wall) \in Nat
           /\ next_after(last, seen, wall) > last
           /\ next_after(last, seen, wall) > seen
BY DEF next_after, Larger

\* The empty copy is a copy.
LEMMA BlankIsCopy == None \in Object /\ Blank \in Copy
BY DEF None, Object, Blank, Copy

\* put_object_meta gives a copy.
LEMMA PutKeepsType ==
    ASSUME NEW cp \in Copy, NEW in \in Object, NEW x
    PROVE  put_object_meta(cp, in, x) \in Copy
BY DEF put_object_meta, Copy

\* put_tombstone gives a copy.
LEMMA TombstoneKeepsType ==
    ASSUME NEW cp \in Copy, NEW s \in Nat
    PROVE  put_tombstone(cp, s) \in Copy
BY DEF put_tombstone, Copy, Larger

\* delete_object_meta gives a copy.
LEMMA DeleteKeepsType ==
    ASSUME NEW cp \in Copy, NEW s \in Nat
    PROVE  delete_object_meta(cp, s) \in Copy
BY TombstoneKeepsType, BlankIsCopy DEF delete_object_meta, Copy

\* Each handler moves a copy up the write order, given a stamp.
LEMMA PutAdvances ==
    ASSUME NEW cp \in Copy, NEW in \in Object, NEW x, in.stamp > 0
    PROVE  CopyAdvances(cp, put_object_meta(cp, in, x))
<1>1. CASE PutApplies(cp, in, x)
  <2>1. put_object_meta(cp, in, x).tomb = cp.tomb /\ put_object_meta(cp, in, x).obj = in
    BY <1>1 DEF put_object_meta, Copy
  <2>2. cp.obj # None => ~Older(in, cp.obj)
    BY <1>1 DEF PutApplies, PutSuperseded, supersedes, Object
  <2> QED BY <2>1, <2>2 DEF CopyAdvances, Copy
<1>2. CASE ~PutApplies(cp, in, x)
  BY <1>2 DEF put_object_meta, CopyAdvances, Copy, Older, Object
<1> QED BY <1>1, <1>2

\* Raising the tombstone moves a copy up.
LEMMA TombstoneAdvances ==
    ASSUME NEW cp \in Copy, NEW s \in Nat
    PROVE  CopyAdvances(cp, put_tombstone(cp, s))
BY DEF put_tombstone, CopyAdvances, Copy, Older, Object, Larger

\* A delete moves a copy up.
LEMMA DeleteAdvances ==
    ASSUME NEW cp \in Copy, NEW s \in Nat, s > 0
    PROVE  CopyAdvances(cp, delete_object_meta(cp, s))
<1>1. CASE DeleteSuperseded(cp, s)
  BY <1>1 DEF delete_object_meta, CopyAdvances, Copy, Older, Object
<1>2. CASE ~DeleteSuperseded(cp, s)
  <2>1. delete_object_meta(cp, s).tomb = Larger(cp.tomb, s)
    BY <1>2 DEF delete_object_meta, put_tombstone, Copy
  <2>2. cp.obj # None => cp.obj.stamp <= s
    BY <1>2 DEF DeleteSuperseded, Copy, Object
  <2> QED BY <2>1, <2>2 DEF CopyAdvances, Larger, Copy, Object
<1> QED BY <1>1, <1>2

\* What the handlers leave is stamped, if what they write is.
LEMMA PutStamped ==
    ASSUME NEW cp \in Copy, NEW in \in Object, NEW x, in.stamp > 0,
           cp.obj # None => cp.obj.stamp > 0
    PROVE  LET new == put_object_meta(cp, in, x)
           IN  new.obj # None => new.obj.stamp > 0
BY DEF put_object_meta, Copy

\* A delete leaves no unstamped object.
LEMMA DeleteStamped ==
    ASSUME NEW cp \in Copy, NEW s \in Nat, cp.obj # None => cp.obj.stamp > 0
    PROVE  LET new == delete_object_meta(cp, s)
           IN  new.obj # None => new.obj.stamp > 0
BY DEF delete_object_meta, put_tombstone, Copy

\* pg_index::derive's assumption, of one copy.
AboveTombstone(cp) == cp.obj # None => cp.obj.stamp > cp.tomb

\* A write lands above the tombstone or not at all.
LEMMA PutAbove ==
    ASSUME NEW cp \in Copy, NEW in \in Object, NEW x, in.stamp > 0, AboveTombstone(cp)
    PROVE  AboveTombstone(put_object_meta(cp, in, x))
<1>1. CASE PutApplies(cp, in, x)
  <2>1. put_object_meta(cp, in, x).tomb = cp.tomb /\ put_object_meta(cp, in, x).obj = in
    BY <1>1 DEF put_object_meta, Copy
  <2>2. in.stamp \in Nat /\ cp.tomb \in Nat /\ ~(cp.tomb >= in.stamp)
    BY <1>1 DEF PutApplies, PutSuperseded, deleted_since, Object, Copy
  <2> QED BY <2>1, <2>2 DEF AboveTombstone
<1>2. CASE ~PutApplies(cp, in, x)
  BY <1>2 DEF put_object_meta
<1> QED BY <1>1, <1>2

\* A delete that gets to its second store write leaves no object.
LEMMA DeleteAbove ==
    ASSUME NEW cp \in Copy, NEW s \in Nat, AboveTombstone(cp)
    PROVE  AboveTombstone(delete_object_meta(cp, s))
BY DEF delete_object_meta, put_tombstone, AboveTombstone, Copy

\* A write quorum and a read quorum share a copy.
LEMMA QuorumsMeet ==
    ASSUME NEW A \in WriteQuorums, NEW Q \in ReadQuorums
    PROVE  \E c \in Copies : c \in A /\ c \in Q
<1>1. N \in Nat /\ IsFiniteSet(Copies)
  BY CopiesAssumption, FS_CardinalityType DEF N
<1>2. /\ A \subseteq Copies /\ Q \subseteq Copies
      /\ Cardinality(A) \in Nat /\ Cardinality(Q) \in Nat
  BY <1>1, FS_Subset, FS_CardinalityType DEF WriteQuorums, ReadQuorums
<1>3. Cardinality(A) + Cardinality(Q) > Cardinality(Copies)
  BY <1>1, <1>2 DEF WriteQuorums, ReadQuorums, meta_write_quorum, meta_read_quorum, N
<1>4. A \cap Q # {}
  BY <1>1, <1>2, <1>3, FS_MajoritiesIntersect
<1> QED BY <1>2, <1>4

-----------------------------------------------------------------------------
(* Types.                                                                  *)

\* An operation before its first round has its type.
LEMMA NoRoundsType == NoRounds \in OpState
BY BlankIsCopy DEF NoRounds, OpState, NotAsked, Answers, Paths

\* An index entry has its type.
LEMMA DeriveType ==
    ASSUME NEW cp \in Copy
    PROVE  derive(cp) \in Entry
BY BlankIsCopy DEF derive, Entry, Copy, Object, None

\* No repair in progress has its type.
LEMMA NoHealType == NoHeal \in HealState
BY BlankIsCopy, DeriveType DEF NoHeal, HealState

\* What a request makes of a copy is a copy.
LEMMA HandledType ==
    ASSUME TypeOK, NEW o \in Ops, NEW w \in Object, NEW x, NEW c \in Copies
    PROVE  Handled(o, w, x, c) \in Copy
BY PutKeepsType, DeleteKeepsType DEF Handled, TypeOK, Object

\* Superseded in the last round it had.
OutOfRounds(o) == op[o].round >= MaxRestamps /\ \E c \in Copies : op[o].ans[c] = "sup"

\* An operation that ended has its type, and keeps what it wrote and what
\* came before it.
LEMMA EndedType ==
    ASSUME TypeOK, NEW o \in Ops, NEW res \in {"none", "acked", "failed"},
           NEW st \in {"idle", "sent", "settle", "look", "free", "done"},
           NEW todo \in SUBSET Nat, NEW how \in Paths
    PROVE  /\ Ended(o, res, st, todo, how) \in OpState
           /\ Ended(o, res, st, todo, how).st = st
           /\ Ended(o, res, st, todo, how).res = res
           /\ Ended(o, res, st, todo, how).w = op[o].w
           /\ Ended(o, res, st, todo, how).after = op[o].after
           /\ Ended(o, res, st, todo, how).behind = (op[o].behind \/ OutOfRounds(o))
<1>1. op[o] \in OpState
  BY DEF TypeOK
<1>2. /\ op[o].w \in Object /\ op[o].exp \in Nat /\ op[o].after \in SUBSET Ops
      /\ op[o].behind \in BOOLEAN
  BY <1>1 DEF OpState
<1>3. Sending \ {o} \in SUBSET Ops
  BY DEF Sending, InFlight, TypeOK, Requests
<1> DEFINE racing == IF st = "settle" THEN Sending \ {o} ELSE {}
           behind == op[o].behind \/ OutOfRounds(o)
<1>4. racing \in SUBSET Ops /\ behind \in BOOLEAN
  BY <1>2, <1>3 DEF OutOfRounds
<1> DEFINE e1 == [NoRounds EXCEPT !.st = st, !.res = res, !.w = op[o].w]
           e2 == [e1 EXCEPT !.exp = op[o].exp, !.todo = todo, !.how = how]
           e3 == [e2 EXCEPT !.after = op[o].after, !.racing = racing, !.behind = behind]
<1>5. Ended(o, res, st, todo, how) = e3
  BY DEF Ended, OutOfRounds
<1> HIDE DEF racing, behind
<1>6. e1 \in OpState /\ e1.st = st /\ e1.res = res /\ e1.w = op[o].w
  BY <1>2, NoRoundsType DEF OpState
<1> HIDE DEF e1
<1>7. e2 \in OpState /\ e2.st = st /\ e2.res = res /\ e2.w = op[o].w
  BY <1>2, <1>6 DEF OpState
<1> HIDE DEF e2
<1>8. /\ e3 \in OpState /\ e3.st = st /\ e3.res = res /\ e3.w = op[o].w
      /\ e3.after = op[o].after /\ e3.behind = behind
  BY <1>2, <1>4, <1>7 DEF OpState
<1> QED BY <1>5, <1>8 DEF behind

\* The initial state has its type.
LEMMA TypeInit == Init => TypeOK
BY BlankIsCopy, NoRoundsType, NoHealType DEF Init, TypeOK

\* The first round of an operation.
LEMMA TypeBegin ==
    ASSUME TypeOK, NEW o \in Ops, NEW w \in Object, NEW x \in Nat, NEW s \in Nat,
           Begin(o, w, x), Tick(o, s)
    PROVE  TypeOK'
<1>1. [NoRounds EXCEPT !.st = "sent", !.w = w, !.exp = x, !.round = 1, !.after = Acked]
          \in OpState
  BY NoRoundsType DEF OpState, Acked
<1>2. op' \in [Ops -> OpState]
  BY <1>1 DEF Begin, TypeOK
<1>3. clock' \in [Gateways -> Nat]
  BY DEF Tick, TypeOK, Gateways
<1> QED BY <1>2, <1>3 DEF Begin, TypeOK

\* Starting an operation keeps the types.
LEMMA TypeStart ==
    ASSUME TypeOK, NEW o \in Ops, PutObject(o) \/ DeleteObject(o) \/ UpdateObject(o)
    PROVE  TypeOK'
<1>0. clock[Via[o]] \in Nat /\ o \in Nat
  BY OpsAssumption DEF TypeOK, Gateways
<1>1. CASE PutObject(o)
  <2> PICK wall \in Walls :
        /\ Begin(o, [id |-> o, stamp |-> next_after(clock[Via[o]], 0, wall), upd |-> 0], 0)
        /\ Tick(o, next_after(clock[Via[o]], 0, wall))
    BY <1>1 DEF PutObject
  <2>1. next_after(clock[Via[o]], 0, wall) \in Nat
    BY <1>0, WallsAssumption, StampsGrow
  <2>2. [id |-> o, stamp |-> next_after(clock[Via[o]], 0, wall), upd |-> 0] \in Object
    BY <1>0, <2>1 DEF Object
  <2> QED BY <2>1, <2>2, TypeBegin
<1>2. CASE DeleteObject(o)
  <2> PICK wall \in Walls :
        /\ Begin(o, [None EXCEPT !.stamp = next_after(clock[Via[o]], 0, wall)], 0)
        /\ Tick(o, next_after(clock[Via[o]], 0, wall))
    BY <1>2 DEF DeleteObject
  <2>1. next_after(clock[Via[o]], 0, wall) \in Nat
    BY <1>0, WallsAssumption, StampsGrow
  <2>2. [None EXCEPT !.stamp = next_after(clock[Via[o]], 0, wall)] \in Object
    BY <2>1 DEF Object, None
  <2> QED BY <2>1, <2>2, TypeBegin
<1>3. CASE UpdateObject(o)
  <2> PICK wall \in Walls, c \in Copies :
        LET r   == copy[c].obj
            upd == next_after(clock[Via[o]], r.upd, wall) IN
        Begin(o, [r EXCEPT !.upd = upd], r.id) /\ Tick(o, upd)
    BY <1>3 DEF UpdateObject, ReadQuorums
  <2> DEFINE r == copy[c].obj
             upd == next_after(clock[Via[o]], r.upd, wall)
  <2>0. r \in Object
    BY DEF TypeOK, Copy
  <2>1. upd \in Nat
    BY <1>0, <2>0, WallsAssumption, StampsGrow DEF Object
  <2>2. [r EXCEPT !.upd = upd] \in Object /\ r.id \in Nat
    BY <2>0, <2>1 DEF Object
  <2>3. Begin(o, [r EXCEPT !.upd = upd], r.id) /\ Tick(o, upd)
    OBVIOUS
  <2> HIDE DEF r, upd
  <2> QED BY <2>1, <2>2, <2>3, TypeBegin
<1> QED BY <1>1, <1>2, <1>3

\* A copy's answer, or what comes instead of one.
LEMMA TypeAnswers ==
    ASSUME TypeOK, NEW o \in Ops, NEW c \in Copies,
           \/ AnswersOk(o, c) \/ AnswersSuperseded(o, c) \/ AnswersRefused(o, c)
           \/ AnswerLost(o, c) \/ RequestLost(o, c) \/ Unreachable(o, c)
           \/ CrashInDelete(o, c)
    PROVE  TypeOK'
<1>0. /\ op[o] \in OpState /\ copy[c] \in Copy /\ copy[c].obj \in Object
      /\ copy[c].obj.id \in Nat /\ copy[c].obj.stamp \in Nat /\ copy[c].tomb \in Nat
      /\ op[o].w \in Object /\ op[o].w.stamp \in Nat
      /\ op[o].exp \in Nat /\ op[o].held \in Nat /\ op[o].nrem \in Nat
      /\ faults \in Nat
  BY DEF TypeOK, OpState, Copy, Object
<1>1. ASSUME NEW a \in Answers
      PROVE  [op EXCEPT ![o].ans[c] = a] \in [Ops -> OpState]
  BY <1>0 DEF TypeOK, OpState
<1>2. \A a \in Answers : NoAnswer(o, c, a) => op' \in [Ops -> OpState]
  BY <1>1 DEF NoAnswer
<1>3. ASSUME NEW new \in Copy
      PROVE  [copy EXCEPT ![c] = new] \in [Copies -> Copy]
  BY DEF TypeOK
<1>4. Handled(o, op[o].w, op[o].exp, c) \in Copy
  BY <1>0, HandledType
<1>5. CASE AnswersOk(o, c)
  <2>1. Taken(o, c) \in OpState
    <3> DEFINE was == copy[c].obj.id
               asked == [op[o] EXCEPT !.ans[c] = "ok"]
               nrem == IF was # 0 THEN op[o].nrem + 1 ELSE op[o].nrem
               todo == IF was # 0 THEN op[o].todo \cup {was} ELSE op[o].todo
               took == op[o].took \cup {c}
               disp == [op[o].disp EXCEPT ![c] = IF c \in op[o].took THEN @ ELSE was]
    <3>1. asked \in OpState
      BY <1>0 DEF OpState, Answers
    <3>2. /\ nrem \in Nat /\ todo \in SUBSET Nat
          /\ took \in SUBSET Copies /\ disp \in [Copies -> Nat]
      BY <1>0 DEF OpState
    <3>3. Taken(o, c) = IF Kind[o] = "delete"
                        THEN [asked EXCEPT !.nrem = nrem, !.todo = todo]
                        ELSE [asked EXCEPT !.took = took, !.disp = disp]
      BY <1>0 DEF Taken, OpState
    <3> HIDE DEF asked, nrem, todo, took, disp
    <3>4. [asked EXCEPT !.nrem = nrem, !.todo = todo] \in OpState
      BY <3>1, <3>2 DEF OpState
    <3>5. [asked EXCEPT !.took = took, !.disp = disp] \in OpState
      BY <3>1, <3>2 DEF OpState
    <3> QED BY <3>3, <3>4, <3>5
  <2> QED BY <1>3, <1>4, <1>5, <2>1 DEF AnswersOk, TypeOK
<1>6. CASE AnswersSuperseded(o, c)
  <2> PICK h \in Nat : op' = [op EXCEPT ![o].ans[c] = "sup", ![o].held = Larger(@, h)]
    BY <1>0, <1>6 DEF AnswersSuperseded, HeldStamp, Larger
  <2>1. Larger(op[o].held, h) \in Nat
    BY <1>0 DEF Larger
  <2>2. op' \in [Ops -> OpState]
    BY <1>0, <2>1 DEF TypeOK, OpState, Answers
  <2> QED BY <1>6, <2>2 DEF AnswersSuperseded, TypeOK
<1>7. CASE AnswersRefused(o, c)
  BY <1>1, <1>7 DEF AnswersRefused, TypeOK, Answers
<1>8. CASE AnswerLost(o, c)
  BY <1>0, <1>2, <1>3, <1>4, <1>8 DEF AnswerLost, Fault, TypeOK, Answers
<1>9. CASE RequestLost(o, c)
  <2>1. late' \subseteq Requests
    BY <1>0, <1>9 DEF RequestLost, Request, Requests, TypeOK
  <2> QED BY <1>0, <1>2, <1>9, <2>1 DEF RequestLost, Fault, TypeOK, Answers
<1>10. CASE Unreachable(o, c)
  BY <1>0, <1>2, <1>10 DEF Unreachable, Fault, TypeOK, Answers
<1>11. CASE CrashInDelete(o, c)
  <2>1. put_tombstone(copy[c], op[o].w.stamp) \in Copy
    BY <1>0, TombstoneKeepsType
  <2> QED BY <1>0, <1>2, <1>3, <1>11, <2>1 DEF CrashInDelete, Fault, TypeOK, Answers
<1> QED BY <1>5, <1>6, <1>7, <1>8, <1>9, <1>10, <1>11

\* So does a late request.
LEMMA TypeLate ==
    ASSUME TypeOK, NEW m \in late, RequestLate(m)
    PROVE  TypeOK'
<1>1. m.op \in Ops /\ m.to \in Copies /\ m.w \in Object
  BY DEF TypeOK, Requests
<1>2. Handled(m.op, m.w, m.exp, m.to) \in Copy
  BY <1>1, HandledType
<1> QED BY <1>1, <1>2 DEF RequestLate, TypeOK

\* The end of a round.
LEMMA TypeRound ==
    ASSUME TypeOK, NEW o \in Ops,
           Restamp(o) \/ EndPut(o) \/ EndUpdate(o) \/ EndDelete(o) \/ GatewayDies(o)
    PROVE  TypeOK'
<1>0. /\ op[o] \in OpState /\ op[o].held \in Nat /\ op[o].todo \in SUBSET Nat
      /\ op[o].res \in {"none", "acked", "failed"} /\ o \in Nat
      /\ op[o].disp \in [Copies -> Nat] /\ op[o].took \in SUBSET Copies
      /\ clock[Via[o]] \in Nat
  BY OpsAssumption DEF TypeOK, OpState, Gateways
<1>1. \A r \in {"none", "acked", "failed"} : Done(o, r) \in OpState
  BY EndedType DEF Done, Paths
<1>2. Displaced(o) \in SUBSET Nat
  BY <1>0 DEF Displaced
<1>3. ASSUME NEW new \in OpState
      PROVE  [op EXCEPT ![o] = new] \in [Ops -> OpState]
  BY DEF TypeOK
<1>4. CASE Restamp(o)
  <2> PICK wall \in Walls :
        LET stamp == next_after(clock[Via[o]], op[o].held, wall) IN
        /\ op' = [op EXCEPT ![o].w.stamp = stamp, ![o].round = @ + 1,
                            ![o].ans = NotAsked, ![o].held = 0]
        /\ Tick(o, stamp)
    BY <1>4 DEF Restamp
  <2> DEFINE stamp == next_after(clock[Via[o]], op[o].held, wall)
  <2>1. stamp \in Nat
    BY <1>0, WallsAssumption, StampsGrow
  <2>2. /\ op' = [op EXCEPT ![o].w.stamp = stamp, ![o].round = @ + 1,
                            ![o].ans = NotAsked, ![o].held = 0]
        /\ clock' = [clock EXCEPT ![Via[o]] = stamp]
    BY DEF Tick
  <2> HIDE DEF stamp
  <2>3. op' \in [Ops -> OpState]
    BY <1>0, <2>1, <2>2 DEF TypeOK, OpState, Object, NotAsked, Answers
  <2>4. clock' \in [Gateways -> Nat]
    BY <2>1, <2>2 DEF TypeOK, Gateways
  <2> QED BY <1>4, <2>3, <2>4 DEF Restamp, TypeOK
<1>5. CASE EndPut(o)
  <2>1. PutCommitted(o) \in OpState
    BY <1>0, <1>1, <1>2, EndedType DEF PutCommitted, Paths
  <2>2. PutFailed(o) \in OpState
    BY <1>0, <1>1, EndedType DEF PutFailed, Paths
  <2> QED BY <1>3, <1>5, <2>1, <2>2 DEF EndPut, TypeOK
<1>6. CASE EndUpdate(o)
  BY <1>1, <1>3, <1>6 DEF EndUpdate, TypeOK
<1>7. CASE EndDelete(o)
  <2>1. DeleteCommitted(o) \in OpState
    BY <1>0, <1>1, EndedType DEF DeleteCommitted, Paths
  <2> QED BY <1>1, <1>3, <1>7, <2>1 DEF EndDelete, TypeOK
<1>8. CASE GatewayDies(o)
  BY <1>0, <1>1, <1>3, <1>8 DEF GatewayDies, Fault, TypeOK
<1> QED BY <1>4, <1>5, <1>6, <1>7, <1>8

\* Freeing.
LEMMA TypeFrees ==
    ASSUME TypeOK, NEW o \in Ops,
           \/ Settled(o) \/ Free(o)
           \/ \E c \in Copies : Look(o, c) \/ PassOver(o, c)
    PROVE  TypeOK'
<1>0. op[o] \in OpState /\ op[o].todo \in SUBSET Nat /\ op[o].how \in Paths
  BY DEF TypeOK, OpState
<1>1. CASE Settled(o)
  <2>1. op' \in [Ops -> OpState]
    BY <1>0, <1>1 DEF Settled, TypeOK, OpState
  <2> QED BY <1>1, <2>1 DEF Settled, TypeOK
<1>2. CASE Free(o)
  <2>1. op' \in [Ops -> OpState]
    BY <1>0, <1>2 DEF Free, TypeOK, OpState, Paths
  <2>2. freed' \subseteq Nat \X Paths
    BY <1>0, <1>2 DEF Free, TypeOK
  <2> QED BY <1>2, <2>1, <2>2 DEF Free, TypeOK
<1>3. ASSUME NEW c \in Copies, Look(o, c)
      PROVE  TypeOK'
  <2>1. op' \in [Ops -> OpState]
    BY <1>0, <1>3 DEF Look, TypeOK, OpState
  <2> QED BY <1>3, <2>1 DEF Look, TypeOK
<1>4. ASSUME NEW c \in Copies, PassOver(o, c)
      PROVE  TypeOK'
  <2> DEFINE new == [op[o] EXCEPT !.looked = op[o].looked \cup {c}, !.how = "passed"]
  <2>1. op' = [op EXCEPT ![o] = new]
    BY <1>4 DEF PassOver, TypeOK
  <2>2. "passed" \in Paths
    BY DEF Paths
  <2>3. new \in OpState
    BY <1>0, <2>2 DEF OpState
  <2> HIDE DEF new
  <2>4. op' \in [Ops -> OpState]
    BY <2>1, <2>3 DEF TypeOK
  <2>5. UNCHANGED <<copy, clock, late, heal, freed>> /\ Fault("unread")
    BY <1>4 DEF PassOver
  <2>6. faults' \in Nat
    BY <2>5 DEF Fault, TypeOK
  <2> QED BY <2>4, <2>5, <2>6 DEF TypeOK
<1> QED BY <1>1, <1>2, <1>3, <1>4

\* Recovery.
LEMMA TypePlan ==
    ASSUME TypeOK, NEW S \in SUBSET Copies, NEW e \in Entry, PlanFrom(S, e)
    PROVE  heal' \in HealState
<1>1. Behind(S, e) \in SUBSET Copies /\ {c \in S : derive(copy[c]) = e} \in SUBSET Copies
  BY DEF Behind
<1> QED BY <1>1, NoHealType DEF PlanFrom, HealState

\* So does recovery.
LEMMA TypeRecovery ==
    ASSUME TypeOK, Recovery
    PROVE  TypeOK'
<1>0. /\ heal \in HealState /\ heal.ent \in Entry /\ heal.ent.obj \in Object
      /\ heal.ent.obj.stamp \in Nat /\ heal.disp \in SUBSET Nat
      /\ heal.to \in SUBSET Copies
      /\ \A c \in Copies : /\ copy[c] \in Copy /\ copy[c].obj.id \in Nat
                           /\ derive(copy[c]) \in Entry
  BY DeriveType DEF TypeOK, HealState, Entry, Object, Copy
<1>1. CASE RecoveryPlan
  BY <1>0, <1>1, TypePlan DEF RecoveryPlan, TypeOK
<1>2. ASSUME NEW S \in ReadQuorums, PartialPlan(S)
      PROVE  TypeOK'
  <2>1. S \in SUBSET Copies
    BY DEF ReadQuorums
  <2> QED BY <1>0, <1>2, <2>1, TypePlan DEF PartialPlan, Fault, TypeOK
<1>3. CASE Fetch
  <2>1. heal' \in HealState
    BY <1>0, <1>3 DEF Fetch, HealState
  <2> QED BY <1>3, <2>1 DEF Fetch, TypeOK
<1>4. CASE Changed
  BY <1>4, NoHealType DEF Changed, TypeOK
<1>5. CASE HealDone
  <2>1. freed' \subseteq Nat \X Paths
    BY <1>0, <1>5 DEF HealDone, TypeOK, Paths
  <2> QED BY <1>5, <2>1, NoHealType DEF HealDone, TypeOK
<1>6. ASSUME NEW c \in Copies
      PROVE  Recovered(c) \in Copy
  BY <1>0, PutKeepsType, DeleteKeepsType DEF Recovered
<1>7. ASSUME NEW c \in Copies, Push(c)
      PROVE  TypeOK'
  <2>1. copy' \in [Copies -> Copy]
    BY <1>6, <1>7 DEF Push, TypeOK
  <2>2. heal' \in HealState
    <3> DEFINE to == heal.to \ {c}
               disp == IF Recovered(c).obj # copy[c].obj
                       THEN heal.disp \cup ({copy[c].obj.id} \ {0}) ELSE heal.disp
    <3>1. to \in SUBSET Copies /\ disp \in SUBSET Nat
      BY <1>0
    <3>2. heal' = [heal EXCEPT !.to = to, !.disp = disp]
      BY <1>7 DEF Push
    <3> HIDE DEF to, disp
    <3> QED BY <1>0, <3>1, <3>2 DEF HealState
  <2> QED BY <1>7, <2>1, <2>2 DEF Push, TypeOK
<1>8. ASSUME NEW c \in Copies, PushFailed(c)
      PROVE  TypeOK'
  <2>1. copy' \in [Copies -> Copy]
    BY <1>6, <1>8 DEF PushFailed, TypeOK
  <2>2. heal' \in HealState
    BY <1>0, <1>8 DEF PushFailed, HealState
  <2> QED BY <1>8, <2>1, <2>2 DEF PushFailed, Fault, TypeOK
<1> QED BY <1>1, <1>2, <1>3, <1>4, <1>5, <1>7, <1>8 DEF Recovery

\* So does every step.
LEMMA TypeNext == TypeOK /\ [Next]_vars => TypeOK'
<1> SUFFICES ASSUME TypeOK, [Next]_vars PROVE TypeOK'
  OBVIOUS
<1>1. CASE UNCHANGED vars
  BY <1>1 DEF vars, TypeOK
<1>2. ASSUME NEW o \in Ops, Gateway(o) PROVE TypeOK'
  BY <1>2, TypeStart, TypeAnswers, TypeRound, TypeFrees DEF Gateway
<1>3. ASSUME NEW o \in Ops, Failures(o) PROVE TypeOK'
  BY <1>3, TypeAnswers, TypeRound, TypeFrees DEF Failures
<1>4. ASSUME NEW m \in late, RequestLate(m) PROVE TypeOK'
  BY <1>4, TypeLate
<1>5. CASE Recovery
  BY <1>5, TypeRecovery
<1> QED BY <1>1, <1>2, <1>3, <1>4, <1>5 DEF Next

\* Every variable keeps its type.
THEOREM TypeCorrect == Spec => []TypeOK
BY TypeInit, TypeNext, PTL DEF Spec

-----------------------------------------------------------------------------
(* Every stamp is positive, and copies only advance.                       *)

\* Initially nothing unstamped is held or on its way.
LEMMA StampedInit == Init => Stamped
BY DEF Init, Stamped, Blank, NoRounds, NoHeal

\* What a copy-changing step does to the copy it changes.
Steps(old, new) == /\ CopyAdvances(old, new)
                   /\ (old.obj # None => old.obj.stamp > 0)
                        => (new.obj # None => new.obj.stamp > 0)
                   /\ "crash" \notin Faults /\ AboveTombstone(old) => AboveTombstone(new)

\* A copy that handles a stamped request stays stamped and moves up.
LEMMA HandledSteps ==
    ASSUME TypeOK, NEW o \in Ops, NEW w \in Object, w.stamp > 0, NEW x, NEW c \in Copies
    PROVE  Steps(copy[c], Handled(o, w, x, c))
<1>1. copy[c] \in Copy /\ w.stamp \in Nat
  BY DEF TypeOK, Object
<1> QED BY <1>1, PutAdvances, DeleteAdvances, PutStamped, DeleteStamped, PutAbove, DeleteAbove
        DEF Handled, Steps

\* A copy left alone does too.
LEMMA SameSteps ==
    ASSUME NEW cp \in Copy
    PROVE  Steps(cp, cp)
BY DEF Steps, CopyAdvances, Older, Copy, Object

\* Every step moves every copy up and keeps it stamped.
LEMMA CopySteps ==
    ASSUME TypeOK, Stamped, [Next]_vars, NEW c \in Copies
    PROVE  Steps(copy[c], copy'[c])
<1>0. /\ copy[c] \in Copy
      /\ \A o \in Ops : /\ op[o].w \in Object /\ op[o].w.stamp \in Nat
                        /\ op[o].st = "sent" => op[o].w.stamp > 0
  <2>1. \A o \in Ops : op[o] \in OpState
    BY DEF TypeOK
  <2>2. \A o \in Ops : op[o].w \in Object /\ op[o].w.stamp \in Nat
    BY <2>1 DEF OpState, Object
  <2>3. \A o \in Ops : op[o].st = "sent" => op[o].w.stamp > 0
    BY DEF Stamped
  <2> QED BY <2>2, <2>3 DEF TypeOK
<1>1. CASE copy' = copy
  BY <1>0, <1>1, SameSteps
<1>2. ASSUME NEW d \in Copies, NEW new \in Copy, Steps(copy[d], new),
             copy' = [copy EXCEPT ![d] = new]
      PROVE  Steps(copy[c], copy'[c])
  <2>1. CASE c = d
    BY <1>2, <2>1 DEF TypeOK
  <2>2. CASE c # d
    BY <1>0, <1>2, <2>2, SameSteps DEF TypeOK
  <2> QED BY <2>1, <2>2
<1>3. ASSUME NEW o \in Ops, NEW d \in Copies, AnswersOk(o, d) \/ AnswerLost(o, d)
      PROVE  Steps(copy[c], copy'[c])
  <2>1. op[o].w.stamp > 0
    BY <1>0, <1>3 DEF AnswersOk, AnswerLost, NoAnswer, Asked
  <2> QED BY <1>0, <1>2, <1>3, <2>1, HandledSteps, HandledType DEF AnswersOk, AnswerLost
<1>4. ASSUME NEW o \in Ops, NEW d \in Copies, CrashInDelete(o, d)
      PROVE  Steps(copy[c], copy'[c])
  <2>1. copy[d] \in Copy
    BY DEF TypeOK
  <2>2. put_tombstone(copy[d], op[o].w.stamp) \in Copy
    BY <1>0, <2>1, TombstoneKeepsType
  <2>3. put_tombstone(copy[d], op[o].w.stamp).obj = copy[d].obj
    BY <2>1 DEF put_tombstone, Copy
  <2>4. Steps(copy[d], put_tombstone(copy[d], op[o].w.stamp))
    BY <1>0, <1>4, <2>1, <2>3, TombstoneAdvances DEF Steps, CrashInDelete, Fault
  <2> QED BY <1>2, <1>4, <2>2, <2>4 DEF CrashInDelete
<1>5. ASSUME NEW m \in late, RequestLate(m)
      PROVE  Steps(copy[c], copy'[c])
  <2>1. m.op \in Ops /\ m.to \in Copies /\ m.w \in Object /\ m.w.stamp > 0
    BY DEF TypeOK, Requests, Stamped
  <2> QED BY <1>2, <1>5, <2>1, HandledSteps, HandledType DEF RequestLate
<1>6. ASSUME NEW d \in Copies, Push(d) \/ PushFailed(d)
      PROVE  Steps(copy[c], copy'[c])
  <2>1. /\ copy[d] \in Copy /\ heal.ent.obj \in Object
        /\ heal.ent.obj.stamp \in Nat /\ heal.ent.obj.stamp > 0
    BY <1>6 DEF TypeOK, HealState, Entry, Object, Stamped, Push, PushFailed
  <2>2. Recovered(d) \in Copy /\ Steps(copy[d], Recovered(d))
    BY <2>1, PutKeepsType, DeleteKeepsType, PutAdvances, DeleteAdvances,
       PutStamped, DeleteStamped, PutAbove, DeleteAbove DEF Recovered, Steps
  <2> QED BY <1>1, <1>2, <1>6, <2>2 DEF Push, PushFailed
<1>7. CASE UNCHANGED vars
  BY <1>1, <1>7 DEF vars
<1>8. ASSUME NEW o \in Ops, Gateway(o)
      PROVE  Steps(copy[c], copy'[c])
  BY <1>1, <1>3, <1>8
     DEF Gateway, PutObject, DeleteObject, UpdateObject, Begin, AnswersSuperseded,
         AnswersRefused, Restamp, EndPut, EndUpdate, EndDelete, Settled, Free, Look
<1>9. ASSUME NEW o \in Ops, Failures(o)
      PROVE  Steps(copy[c], copy'[c])
  BY <1>1, <1>3, <1>4, <1>9 DEF Failures, RequestLost, Unreachable, PassOver, GatewayDies
<1>10. CASE Recovery
  BY <1>1, <1>6, <1>10
     DEF Recovery, RecoveryPlan, PartialPlan, Fetch, Changed, HealDone
<1> QED BY <1>5, <1>7, <1>8, <1>9, <1>10 DEF Next

\* What a step does to an operation: nothing, a round's start (the first one
\* or another), an answer, or its end.
Begins(o)  == /\ op[o].st = "idle" /\ op'[o].after = Acked
              /\ \/ /\ Kind[o] = "put" /\ op'[o].w.id = o
                    /\ op'[o].w.stamp = clock'[Via[o]]
                 \/ Kind[o] = "delete" /\ op'[o].w.id = 0
                 \/ /\ Kind[o] = "update"
                    /\ \E c \in Copies : /\ op'[o].w.id = copy[c].obj.id
                                         /\ op'[o].w.stamp = copy[c].obj.stamp
Resends(o) == /\ op[o].st = "sent" /\ Restamps(o) /\ op'[o].after = op[o].after
              /\ op'[o].w.id = op[o].w.id /\ op'[o].w.stamp > clock[Via[o]]
              /\ op'[o].w.stamp = clock'[Via[o]]
Starts(o) == /\ op'[o].st = "sent" /\ op'[o].res = "none"
             /\ op'[o].w.stamp > 0 /\ op'[o].ans = NotAsked
             /\ Begins(o) \/ Resends(o)
Hears(o)  == /\ op[o].st = "sent" /\ op'[o].st = "sent"
             /\ op'[o].res = op[o].res /\ op'[o].w = op[o].w /\ op'[o].after = op[o].after
             /\ op[o].held # 0 => op'[o].held # 0
             /\ \E c \in Copies, a \in Answers :
                   /\ op'[o].ans = [op[o].ans EXCEPT ![c] = a]
                   /\ a \in {"ok", "sup"} => Covers(copy'[c], Kind[o], op[o].w)
                   /\ a = "ok" => ~IsSuperseded(o, c)
                   /\ a = "sup" => op'[o].held # 0
Ends(o)   == /\ op[o].st # "idle" /\ op'[o].st \notin {"idle", "sent"}
             /\ op'[o].w = op[o].w /\ op'[o].after = op[o].after
             /\ op[o].st # "sent" => op'[o].res = op[o].res
             /\ op[o].behind => op'[o].behind
             /\ op[o].st = "sent" /\ op'[o].res = "acked" =>
                   /\ Answered(o) \in WriteQuorums
                   /\ Restamps(o) => ~Again(o)
                   /\ OutOfRounds(o) => op'[o].behind
OpStep(o) == op'[o] = op[o] \/ Starts(o) \/ Hears(o) \/ Ends(o)

\* The first round starts an operation, unanswered.
LEMMA BeginStarts ==
    ASSUME TypeOK, NEW o \in Ops, NEW w \in Object, NEW x \in Nat, w.stamp > 0,
           Begin(o, w, x)
    PROVE  /\ op'[o].st = "sent" /\ op'[o].res = "none" /\ op'[o].w = w
           /\ op'[o].ans = NotAsked /\ op'[o].after = Acked /\ op[o].st = "idle"
<1> DEFINE e1 == [NoRounds EXCEPT !.st = "sent", !.w = w]
           e2 == [e1 EXCEPT !.exp = x, !.round = 1, !.after = Acked]
<1>1. /\ e1 \in OpState /\ e1.st = "sent" /\ e1.w = w
      /\ e1.res = "none" /\ e1.ans = NotAsked
  <2>1. NoRounds.res = "none" /\ NoRounds.ans = NotAsked
    BY DEF NoRounds
  <2> QED BY <2>1, NoRoundsType DEF OpState
<1> HIDE DEF e1
<1>2. /\ e2.st = "sent" /\ e2.w = w /\ e2.res = "none" /\ e2.ans = NotAsked
      /\ e2.after = Acked
  BY <1>1 DEF OpState
<1>3. op'[o] = e2
  BY DEF Begin, TypeOK, e1
<1> QED BY <1>2, <1>3 DEF Begin

\* Each kind of operation starts that way.
LEMMA StartSteps ==
    ASSUME TypeOK, Stamped, NEW o \in Ops,
           PutObject(o) \/ DeleteObject(o) \/ UpdateObject(o)
    PROVE  Starts(o)
<1>0. clock[Via[o]] \in Nat /\ o \in Nat /\ Via[o] \in Gateways
  BY OpsAssumption DEF TypeOK, Gateways
<1>1. CASE PutObject(o)
  <2> PICK wall \in Walls :
        /\ Kind[o] = "put"
        /\ Begin(o, [id |-> o, stamp |-> next_after(clock[Via[o]], 0, wall), upd |-> 0], 0)
        /\ Tick(o, next_after(clock[Via[o]], 0, wall))
    BY <1>1 DEF PutObject
  <2> DEFINE stamp == next_after(clock[Via[o]], 0, wall)
             w == [id |-> o, stamp |-> stamp, upd |-> 0]
  <2>1. stamp \in Nat /\ stamp > 0
    BY <1>0, WallsAssumption, StampsGrow
  <2>2. clock'[Via[o]] = stamp
    BY <1>0 DEF Tick, TypeOK
  <2>3. w \in Object /\ w.stamp = stamp /\ w.id = o
    BY <1>0, <2>1 DEF Object
  <2>4. Begin(o, w, 0)
    OBVIOUS
  <2> HIDE DEF w, stamp
  <2> QED BY <2>1, <2>2, <2>3, <2>4, BeginStarts DEF Starts, Begins
<1>2. CASE DeleteObject(o)
  <2> PICK wall \in Walls :
        /\ Kind[o] = "delete"
        /\ Begin(o, [None EXCEPT !.stamp = next_after(clock[Via[o]], 0, wall)], 0)
    BY <1>2 DEF DeleteObject
  <2> DEFINE w == [None EXCEPT !.stamp = next_after(clock[Via[o]], 0, wall)]
  <2>1. /\ next_after(clock[Via[o]], 0, wall) \in Nat
        /\ next_after(clock[Via[o]], 0, wall) > 0
    BY <1>0, WallsAssumption, StampsGrow
  <2>2. w \in Object /\ w.stamp > 0 /\ w.id = 0
    BY <2>1 DEF Object, None
  <2> HIDE DEF w
  <2> QED BY <2>2, BeginStarts DEF w, Starts, Begins
<1>3. CASE UpdateObject(o)
  <2> PICK wall \in Walls, c \in Copies :
        LET r   == copy[c].obj
            upd == next_after(clock[Via[o]], r.upd, wall) IN
        Kind[o] = "update" /\ r # None /\ Begin(o, [r EXCEPT !.upd = upd], r.id)
    BY <1>3 DEF UpdateObject, ReadQuorums, ReadReturns, Live
  <2> DEFINE r == copy[c].obj
             upd == next_after(clock[Via[o]], r.upd, wall)
             w == [r EXCEPT !.upd = upd]
  <2>0. r \in Object /\ r.stamp > 0
    BY DEF TypeOK, Copy, Stamped
  <2>1. upd \in Nat
    BY <1>0, <2>0, WallsAssumption, StampsGrow DEF Object
  <2>2. w \in Object /\ w.stamp > 0 /\ r.id \in Nat /\ w.stamp = r.stamp /\ w.id = r.id
    BY <2>0, <2>1 DEF Object
  <2>3. Begin(o, w, r.id) /\ Kind[o] = "update"
    OBVIOUS
  <2> HIDE DEF upd, w
  <2> QED BY <2>2, <2>3, BeginStarts DEF Starts, Begins
<1> QED BY <1>1, <1>2, <1>3

\* A step of a copy on a request: what the operation hears of it covers the write.
LEMMA AnswerSteps ==
    ASSUME TypeOK, Stamped, NEW o \in Ops, NEW c \in Copies,
           \/ AnswersOk(o, c) \/ AnswersSuperseded(o, c) \/ AnswersRefused(o, c)
           \/ AnswerLost(o, c) \/ RequestLost(o, c) \/ Unreachable(o, c)
           \/ CrashInDelete(o, c)
    PROVE  Hears(o)
<1> DEFINE w == op[o].w
<1>0. /\ op[o] \in OpState /\ copy[c] \in Copy /\ w \in Object
      /\ copy[c].obj \in Object /\ copy[c].tomb \in Nat /\ w.stamp \in Nat
      /\ copy[c].obj.stamp \in Nat /\ op[o].held \in Nat
      /\ copy[c].obj # None => copy[c].obj.stamp > 0
  BY DEF TypeOK, OpState, Copy, Object, Stamped
<1>1. op[o].st = "sent"
  BY DEF AnswersOk, AnswersSuperseded, AnswersRefused, AnswerLost, RequestLost,
         Unreachable, CrashInDelete, NoAnswer, Asked
<1>2. CASE AnswersOk(o, c)
  <2>1. op'[o] = Taken(o, c) /\ copy'[c] = Handled(o, w, op[o].exp, c)
    BY <1>2 DEF AnswersOk, TypeOK
  <2>2. /\ Taken(o, c).st = "sent" /\ Taken(o, c).res = op[o].res
        /\ Taken(o, c).w = w /\ Taken(o, c).ans = [op[o].ans EXCEPT ![c] = "ok"]
        /\ Taken(o, c).after = op[o].after /\ Taken(o, c).held = op[o].held
    BY <1>0, <1>1 DEF Taken, OpState
  <2>3. Covers(Handled(o, w, op[o].exp, c), Kind[o], w)
    <3>1. CASE Kind[o] = "delete"
      <4>1. Handled(o, w, op[o].exp, c).tomb = Larger(copy[c].tomb, w.stamp)
        BY <1>0, <1>2, <3>1
           DEF AnswersOk, IsSuperseded, Handled, delete_object_meta, put_tombstone, Copy
      <4> QED BY <1>0, <4>1 DEF Covers, Larger
    <3>2. CASE Kind[o] # "delete"
      <4>1. PutApplies(copy[c], w, op[o].exp)
        BY <1>2, <3>2 DEF AnswersOk, IsSuperseded, IsRefused, PutApplies
      <4>2. Handled(o, w, op[o].exp, c).obj = w
        BY <1>0, <3>2, <4>1 DEF Handled, put_object_meta, Copy
      <4> QED BY <1>0, <3>2, <4>2 DEF Covers, Older, Object
    <3> QED BY <3>1, <3>2
  <2> QED BY <1>1, <1>2, <2>1, <2>2, <2>3 DEF Hears, Answers, AnswersOk
<1>3. CASE AnswersSuperseded(o, c)
  <2> DEFINE held == IF Kind[o] = "delete" THEN copy[c].obj.stamp ELSE HeldStamp(copy[c])
  <2>0. w.stamp > 0 /\ held \in Nat
    BY <1>0, <1>1 DEF Stamped, HeldStamp, Larger
  <2>1. /\ op'[o].st = "sent" /\ op'[o].res = op[o].res /\ op'[o].w = w
        /\ op'[o].ans = [op[o].ans EXCEPT ![c] = "sup"] /\ copy'[c] = copy[c]
        /\ op'[o].after = op[o].after /\ op'[o].held = Larger(op[o].held, held)
    BY <1>0, <1>1, <1>3 DEF AnswersSuperseded, TypeOK, OpState
  <2>2. CASE Kind[o] = "delete"
    <3>1. copy[c].obj.stamp > w.stamp
      BY <1>3, <2>2 DEF AnswersSuperseded, IsSuperseded, DeleteSuperseded
    <3>2. op'[o].held # 0
      BY <1>0, <2>0, <2>1, <2>2, <3>1 DEF Larger
    <3> QED BY <1>1, <2>1, <2>2, <3>1, <3>2 DEF Hears, Answers, Covers
  <2>3. CASE Kind[o] # "delete"
    <3>1. copy[c].tomb >= w.stamp \/ Older(w, copy[c].obj)
      BY <1>3, <2>3 DEF AnswersSuperseded, IsSuperseded, PutSuperseded, supersedes, deleted_since
    <3>2. Covers(copy[c], Kind[o], w)
      BY <1>0, <2>3, <3>1, OrderAsymmetric DEF Covers
    <3>3. copy[c].tomb > 0 \/ copy[c].obj.stamp > 0
      BY <1>0, <2>0, <3>1 DEF Older
    <3>4. op'[o].held # 0
      BY <1>0, <2>0, <2>1, <2>3, <3>3 DEF Larger, HeldStamp
    <3> QED BY <1>1, <2>1, <3>2, <3>4 DEF Hears, Answers
  <2> QED BY <2>2, <2>3
<1>4. ASSUME NEW a \in {"refused", "unknown"}, op' = [op EXCEPT ![o].ans[c] = a]
      PROVE  Hears(o)
  <2>1. /\ op'[o].st = "sent" /\ op'[o].res = op[o].res /\ op'[o].w = w
        /\ op'[o].ans = [op[o].ans EXCEPT ![c] = a]
        /\ op'[o].after = op[o].after /\ op'[o].held = op[o].held
    BY <1>0, <1>1, <1>4 DEF TypeOK, OpState
  <2> QED BY <1>1, <2>1 DEF Hears, Answers
<1> QED BY <1>2, <1>3, <1>4
        DEF AnswersRefused, AnswerLost, RequestLost, Unreachable, CrashInDelete, NoAnswer

\* The end of a round: another, or an operation that ended.
LEMMA RoundSteps ==
    ASSUME TypeOK, Stamped, NEW o \in Ops,
           Restamp(o) \/ EndPut(o) \/ EndUpdate(o) \/ EndDelete(o) \/ GatewayDies(o)
    PROVE  Starts(o) \/ Ends(o)
<1>0. /\ op[o] \in OpState /\ op[o].held \in Nat /\ op[o].todo \in SUBSET Nat
      /\ op[o].res \in {"none", "acked", "failed"} /\ o \in Nat
      /\ op[o].disp \in [Copies -> Nat] /\ clock[Via[o]] \in Nat
      /\ op[o].behind \in BOOLEAN /\ Via[o] \in Gateways
  BY OpsAssumption DEF TypeOK, OpState, Gateways
<1>1. Displaced(o) \in SUBSET Nat
  BY <1>0 DEF Displaced, Answered
<1>2. CASE Restamp(o)
  <2> PICK wall \in Walls :
        LET stamp == next_after(clock[Via[o]], op[o].held, wall) IN
        /\ op' = [op EXCEPT ![o].w.stamp = stamp, ![o].round = @ + 1,
                            ![o].ans = NotAsked, ![o].held = 0]
        /\ Tick(o, stamp)
    BY <1>2 DEF Restamp
  <2> DEFINE stamp == next_after(clock[Via[o]], op[o].held, wall)
  <2>1. stamp > 0 /\ stamp > clock[Via[o]]
    BY <1>0, WallsAssumption, StampsGrow
  <2>2. op' = [op EXCEPT ![o].w.stamp = stamp, ![o].round = @ + 1,
                         ![o].ans = NotAsked, ![o].held = 0]
    OBVIOUS
  <2>3. op[o].st = "sent" /\ op[o].res = "none" /\ Restamps(o)
    BY <1>2 DEF Restamp, RoundOver, Stamped, Again
  <2>4. clock'[Via[o]] = stamp
    BY <1>0 DEF Tick, TypeOK
  <2> HIDE DEF stamp
  <2>5. /\ op'[o].st = "sent" /\ op'[o].res = "none" /\ op'[o].ans = NotAsked
        /\ op'[o].w.stamp = stamp /\ op'[o].w.id = op[o].w.id /\ op'[o].after = op[o].after
    BY <1>0, <2>2, <2>3 DEF TypeOK, OpState, Object
  <2> QED BY <2>1, <2>3, <2>4, <2>5 DEF Starts, Resends
<1>3. ASSUME NEW st \in {"settle", "look", "free", "done"}, NEW todo \in SUBSET Nat,
             NEW res \in {"none", "acked", "failed"}, NEW how \in Paths,
             op[o].st # "idle", op'[o] = Ended(o, res, st, todo, how),
             op[o].st # "sent" => res = op[o].res,
             op[o].st = "sent" /\ res = "acked" => /\ Answered(o) \in WriteQuorums
                                                   /\ Restamps(o) => ~Again(o)
      PROVE  Ends(o)
  <2>1. st \in {"idle", "sent", "settle", "look", "free", "done"}
    OBVIOUS
  <2>2. /\ op'[o].st = st /\ op'[o].res = res /\ op'[o].w = op[o].w
        /\ op'[o].after = op[o].after /\ op'[o].behind = (op[o].behind \/ OutOfRounds(o))
    BY <1>3, <2>1, EndedType
  <2>3. st \notin {"idle", "sent"}
    OBVIOUS
  <2> QED BY <1>0, <1>3, <2>2, <2>3 DEF Ends
<1>4. CASE EndPut(o)
  <2>1. /\ op[o].st = "sent" /\ ~Again(o)
        /\ op'[o] = IF Answered(o) \in WriteQuorums THEN PutCommitted(o) ELSE PutFailed(o)
    BY <1>4 DEF EndPut, RoundOver, TypeOK
  <2>2. CASE Answered(o) \in WriteQuorums
    BY <1>0, <1>1, <1>3, <2>1, <2>2 DEF PutCommitted, Done, Paths
  <2>3. CASE Answered(o) \notin WriteQuorums
    BY <1>0, <1>3, <2>1, <2>3 DEF PutFailed, Done, Paths
  <2> QED BY <2>2, <2>3
<1>5. CASE EndUpdate(o)
  <2>1. /\ op[o].st = "sent" /\ ~Restamps(o)
        /\ op'[o] = IF Answered(o) \in WriteQuorums THEN Done(o, "acked") ELSE Done(o, "failed")
    BY <1>5 DEF EndUpdate, RoundOver, TypeOK, Restamps
  <2> QED BY <1>3, <2>1 DEF Done, Paths
<1>6. CASE EndDelete(o)
  <2>1. /\ op[o].st = "sent" /\ ~Again(o)
        /\ op'[o] = IF Answered(o) \in WriteQuorums THEN DeleteCommitted(o) ELSE Done(o, "failed")
    BY <1>6 DEF EndDelete, RoundOver, TypeOK
  <2>2. CASE Answered(o) \in WriteQuorums
    BY <1>0, <1>3, <2>1, <2>2 DEF DeleteCommitted, Done, Paths
  <2>3. CASE Answered(o) \notin WriteQuorums
    BY <1>3, <2>1, <2>3 DEF Done, Paths
  <2> QED BY <2>2, <2>3
<1>7. CASE GatewayDies(o)
  <2>1. op[o].st # "idle" /\ op'[o] = Done(o, op[o].res)
    BY <1>7 DEF GatewayDies, TypeOK
  <2>2. op[o].st = "sent" => op[o].res = "none"
    BY DEF Stamped
  <2> QED BY <1>0, <1>3, <2>1, <2>2 DEF Done, Paths
<1> QED BY <1>2, <1>4, <1>5, <1>6, <1>7

\* Freeing leaves the write and its result alone.
LEMMA FreeSteps ==
    ASSUME TypeOK, NEW o \in Ops,
           \/ Settled(o) \/ Free(o)
           \/ \E c \in Copies : Look(o, c) \/ PassOver(o, c)
    PROVE  Ends(o)
<1>0. op[o] \in OpState
  BY DEF TypeOK
<1>1. CASE Settled(o)
  BY <1>0, <1>1 DEF Settled, Ends, TypeOK, OpState
<1>2. CASE Free(o)
  BY <1>0, <1>2 DEF Free, Ends, TypeOK, OpState
<1>3. ASSUME NEW c \in Copies, Look(o, c)
      PROVE  Ends(o)
  BY <1>0, <1>3 DEF Look, Ends, TypeOK, OpState
<1>4. ASSUME NEW c \in Copies, PassOver(o, c)
      PROVE  Ends(o)
  BY <1>0, <1>4 DEF PassOver, Ends, TypeOK, OpState
<1> QED BY <1>1, <1>2, <1>3, <1>4

\* Every step of an operation is one of these.
LEMMA OpSteps ==
    ASSUME TypeOK, Stamped, [Next]_vars, NEW p \in Ops
    PROVE  OpStep(p)
<1>0. ASSUME NEW o \in Ops, NEW new, op' = [op EXCEPT ![o] = new], p # o
      PROVE  op'[p] = op[p]
  BY <1>0 DEF TypeOK
<1>1. ASSUME NEW o \in Ops, Gateway(o) \/ Failures(o), p # o
      PROVE  op'[p] = op[p]
  <2>1. CASE Gateway(o)
    BY <1>1, <2>1
       DEF Gateway, PutObject, DeleteObject, UpdateObject, Begin, AnswersOk,
           AnswersSuperseded, AnswersRefused, Restamp, EndPut, EndUpdate, EndDelete,
           Settled, Free, Look, TypeOK
  <2>2. CASE Failures(o)
    BY <1>1, <2>2
       DEF Failures, AnswerLost, RequestLost, Unreachable, CrashInDelete, NoAnswer,
           PassOver, GatewayDies, TypeOK
  <2> QED BY <1>1, <2>1, <2>2
<1>2. ASSUME Gateway(p) \/ Failures(p)
      PROVE  OpStep(p)
  BY <1>2, StartSteps, AnswerSteps, RoundSteps, FreeSteps DEF Gateway, Failures, OpStep
<1>3. CASE op' = op
  BY <1>3 DEF OpStep
<1>4. ASSUME NEW m \in late, RequestLate(m)
      PROVE  OpStep(p)
  BY <1>3, <1>4 DEF RequestLate
<1>5. CASE Recovery
  BY <1>3, <1>5
     DEF Recovery, RecoveryPlan, PartialPlan, Fetch, Changed, HealDone, Push, PushFailed
<1> QED BY <1>1, <1>2, <1>3, <1>4, <1>5 DEF Next, vars, OpStep

\* Every step keeps what is held or on its way stamped.
LEMMA StampedNext ==
    ASSUME TypeOK, Stamped, [Next]_vars
    PROVE  Stamped'
<1>1. \A o \in Ops : /\ op'[o].st \in {"idle", "sent"} => op'[o].res = "none"
                     /\ op'[o].st # "idle" => op'[o].w.stamp > 0
  BY OpSteps DEF OpStep, Starts, Hears, Ends, Stamped
<1>2. \A c \in Copies : copy'[c].obj # None => copy'[c].obj.stamp > 0
  BY CopySteps DEF Steps, Stamped
<1>3. \A m \in late' : m.w.stamp > 0
  <2>1. ASSUME NEW o \in Ops, NEW c \in Copies, RequestLost(o, c)
        PROVE  \A m \in late' : m.w.stamp > 0
    BY <2>1 DEF RequestLost, NoAnswer, Asked, Request, Stamped
  <2>2. CASE late' \subseteq late
    BY <2>2 DEF Stamped
  <2>3. ASSUME NEW o \in Ops, Gateway(o) \/ Failures(o)
        PROVE  \A m \in late' : m.w.stamp > 0
    BY <2>1, <2>2, <2>3
       DEF Gateway, PutObject, DeleteObject, UpdateObject, Begin, AnswersOk,
           AnswersSuperseded, AnswersRefused, Restamp, EndPut, EndUpdate, EndDelete,
           Settled, Free, Look, Failures, AnswerLost, Unreachable, CrashInDelete,
           PassOver, GatewayDies
  <2>4. CASE Recovery
    BY <2>2, <2>4
       DEF Recovery, RecoveryPlan, PartialPlan, Fetch, Changed, HealDone, Push, PushFailed
  <2> QED BY <2>2, <2>3, <2>4 DEF Next, vars, RequestLate
<1>4. heal'.st # "idle" => heal'.ent.obj.stamp > 0
  <2>0. heal \in HealState
    BY DEF TypeOK
  <2>1. ASSUME NEW S \in SUBSET Copies, NEW c \in S, PlanFrom(S, derive(copy[c]))
        PROVE  heal'.ent.obj.stamp > 0
    <3>1. heal'.ent = derive(copy[c])
      BY <2>1, NoHealType DEF PlanFrom, HealState
    <3>2. copy[c] \in Copy /\ copy[c].tomb \in Nat
      BY DEF TypeOK, Copy
    <3>3. CASE copy[c].obj # None
      BY <3>1, <3>3 DEF derive, Stamped
    <3>4. CASE copy[c].obj = None
      <4>1. derive(copy[c]) = [tombstone |-> copy[c].tomb # 0,
                               obj |-> [None EXCEPT !.stamp = copy[c].tomb]]
        BY <3>4 DEF derive
      <4>2. derive(copy[c]).obj.stamp = copy[c].tomb
        BY <4>1 DEF None
      <4>3. CASE copy[c].tomb = 0
        <5>1. [None EXCEPT !.stamp = 0] = None
          BY DEF None
        <5>2. NoEntry(derive(copy[c]))
          <6>1. derive(copy[c]).tombstone = (copy[c].tomb # 0)
            BY <4>1
          <6>2. derive(copy[c]).obj = None
            BY <4>1, <4>3, <5>1
          <6> QED BY <4>3, <6>1, <6>2 DEF NoEntry
        <5> QED BY <2>1, <5>2 DEF PlanFrom
      <4> QED BY <3>1, <3>2, <4>2, <4>3
    <3> QED BY <3>3, <3>4
  <2>2. CASE heal' = NoHeal
    BY <2>2 DEF NoHeal
  <2>3. CASE heal'.ent = heal.ent /\ heal.st # "idle"
    BY <2>3 DEF Stamped
  <2>4. CASE Recovery
    <3>1. CASE RecoveryPlan
      BY <2>1, <3>1 DEF RecoveryPlan
    <3>2. ASSUME NEW S \in ReadQuorums, PartialPlan(S)
          PROVE  heal'.ent.obj.stamp > 0
      BY <2>1, <3>2 DEF PartialPlan, ReadQuorums
    <3>3. CASE Fetch
      BY <2>0, <2>3, <3>3 DEF Fetch, HealState
    <3>4. ASSUME NEW c \in Copies, Push(c) \/ PushFailed(c)
          PROVE  heal'.ent = heal.ent /\ heal.st # "idle"
      BY <2>0, <3>4 DEF Push, PushFailed, HealState
    <3> QED BY <2>2, <2>3, <2>4, <3>1, <3>2, <3>3, <3>4 DEF Recovery, Changed, HealDone
  <2>5. CASE heal' = heal
    BY <2>5 DEF Stamped
  <2>6. ASSUME NEW o \in Ops, Gateway(o) \/ Failures(o)
        PROVE  heal' = heal
    BY <2>6
       DEF Gateway, PutObject, DeleteObject, UpdateObject, Begin, AnswersOk,
           AnswersSuperseded, AnswersRefused, Restamp, EndPut, EndUpdate, EndDelete,
           Settled, Free, Look, Failures, AnswerLost, RequestLost, Unreachable,
           CrashInDelete, PassOver, GatewayDies
  <2> QED BY <2>4, <2>5, <2>6 DEF Next, vars, RequestLate
<1> QED BY <1>1, <1>2, <1>3, <1>4 DEF Stamped

-----------------------------------------------------------------------------
(* What was answered, and what was acknowledged, stays held.               *)

\* A copy that covers a write goes on covering it.
LEMMA CoverStays ==
    ASSUME NEW old \in Copy, NEW new \in Copy, NEW kind, NEW w \in Object, w.stamp > 0,
           Covers(old, kind, w), CopyAdvances(old, new)
    PROVE  Covers(new, kind, w)
<1>0. /\ old.obj \in Object /\ new.obj \in Object /\ old.tomb \in Nat
      /\ new.tomb \in Nat /\ w.stamp \in Nat
      /\ old.obj.stamp \in Nat /\ new.obj.stamp \in Nat
  BY DEF Copy, Object
<1>1. CASE old.tomb >= w.stamp
  BY <1>0, <1>1 DEF CopyAdvances, Covers
<1>2. CASE kind = "delete" /\ old.obj.stamp > w.stamp
  <2>1. old.obj # None
    BY <1>0, <1>2 DEF None
  <2>2. ~Older(new.obj, old.obj) \/ new.tomb >= old.obj.stamp
    BY <2>1 DEF CopyAdvances
  <2>3. new.obj.stamp >= old.obj.stamp \/ new.tomb >= old.obj.stamp
    BY <1>0, <2>2 DEF Older
  <2> QED BY <1>0, <1>2, <2>3 DEF Covers
<1>3. CASE kind # "delete" /\ ~Older(old.obj, w)
  <2>1. old.obj.stamp >= w.stamp
    BY <1>0, <1>3 DEF Older
  <2>2. old.obj # None
    BY <1>0, <2>1 DEF None
  <2>3. ~Older(new.obj, old.obj) \/ new.tomb >= old.obj.stamp
    BY <2>2 DEF CopyAdvances
  <2>4. CASE ~Older(new.obj, old.obj)
    BY <1>0, <1>3, <2>4, OrderTransitive DEF Covers
  <2>5. CASE new.tomb >= old.obj.stamp
    BY <1>0, <2>1, <2>5 DEF Covers
  <2> QED BY <2>3, <2>4, <2>5
<1> QED BY <1>1, <1>2, <1>3 DEF Covers

\* A copy that moves up keeps covering what it covered.
LEMMA CopyCoverStays ==
    ASSUME TypeOK, TypeOK', Stamped, [Next]_vars, NEW o \in Ops, NEW c \in Copies,
           op[o].w.stamp > 0, Covered(o, copy[c])
    PROVE  Covers(copy'[c], Kind[o], op[o].w)
<1>1. copy[c] \in Copy /\ copy'[c] \in Copy /\ op[o].w \in Object
  BY DEF TypeOK, OpState
<1>2. CopyAdvances(copy[c], copy'[c])
  BY CopySteps DEF Steps
<1> QED BY <1>1, <1>2, CoverStays DEF Covered

\* Every step keeps the copies that answered a round covering its write.
LEMMA AnsweredNext ==
    ASSUME TypeOK, TypeOK', Stamped, AnsweredIsHeld, [Next]_vars
    PROVE  AnsweredIsHeld'
<1> SUFFICES ASSUME NEW o \in Ops, NEW c \in Copies,
                    op'[o].st = "sent", op'[o].ans[c] \in {"ok", "sup"}
             PROVE  Covers(copy'[c], Kind[o], op'[o].w)
  BY DEF AnsweredIsHeld, Covered
<1>1. ASSUME op[o].st = "sent", op[o].ans[c] \in {"ok", "sup"}
      PROVE  Covers(copy'[c], Kind[o], op[o].w)
  <2>1. Covered(o, copy[c]) /\ op[o].w.stamp > 0
    BY <1>1 DEF AnsweredIsHeld, Stamped
  <2> QED BY <2>1, CopyCoverStays
<1>2. CASE op'[o] = op[o]
  BY <1>1, <1>2
<1>3. CASE Starts(o)
  BY <1>3 DEF Starts, NotAsked
<1>4. CASE Hears(o)
  <2> PICK d \in Copies, a \in Answers :
        /\ op'[o].ans = [op[o].ans EXCEPT ![d] = a]
        /\ a \in {"ok", "sup"} => Covers(copy'[d], Kind[o], op[o].w)
    BY <1>4 DEF Hears
  <2>1. op[o].ans \in [Copies -> Answers]
    BY DEF TypeOK, OpState
  <2>2. op'[o].w = op[o].w /\ op[o].st = "sent"
    BY <1>4 DEF Hears
  <2>3. CASE c = d
    BY <2>1, <2>2, <2>3
  <2>4. CASE c # d
    BY <1>1, <2>1, <2>2, <2>4
  <2> QED BY <2>3, <2>4
<1>5. CASE Ends(o)
  BY <1>5 DEF Ends
<1> QED BY <1>2, <1>3, <1>4, <1>5, OpSteps DEF OpStep

\* Every step keeps acknowledged operations covered on a write quorum.
LEMMA AckedNext ==
    ASSUME TypeOK, TypeOK', Stamped, AnsweredIsHeld, AckedIsHeld, [Next]_vars
    PROVE  AckedIsHeld'
<1> SUFFICES ASSUME NEW o \in Ops, op'[o].res = "acked"
             PROVE  \E A \in WriteQuorums : \A c \in A : Covers(copy'[c], Kind[o], op'[o].w)
  BY DEF AckedIsHeld, Acked, Covered, WriteQuorums, meta_write_quorum, N
<1>0. ASSUME NEW A \in WriteQuorums, \A c \in A : Covered(o, copy[c]),
             op[o].w.stamp > 0, op'[o].w = op[o].w
      PROVE  \A c \in A : Covers(copy'[c], Kind[o], op'[o].w)
  <2> SUFFICES ASSUME NEW c \in A PROVE Covers(copy'[c], Kind[o], op'[o].w)
    OBVIOUS
  <2>1. c \in Copies
    BY DEF WriteQuorums
  <2> QED BY <1>0, <2>1, CopyCoverStays
<1>1. ASSUME op[o].res = "acked", op'[o].w = op[o].w
      PROVE  \E A \in WriteQuorums : \A c \in A : Covers(copy'[c], Kind[o], op'[o].w)
  <2>1. op[o].w.stamp > 0
    BY <1>1 DEF Stamped
  <2> PICK A \in WriteQuorums : \A c \in A : Covered(o, copy[c])
    BY <1>1 DEF AckedIsHeld, Acked
  <2> QED BY <1>0, <1>1, <2>1
<1>2. CASE op'[o] = op[o]
  BY <1>1, <1>2
<1>3. CASE Starts(o)
  BY <1>3 DEF Starts
<1>4. CASE Hears(o)
  BY <1>1, <1>4 DEF Hears
<1>5. CASE Ends(o)
  <2>1. CASE op[o].st # "sent"
    BY <1>1, <1>5, <2>1 DEF Ends
  <2>2. CASE op[o].st = "sent" /\ Answered(o) \in WriteQuorums
    <3>1. \A c \in Answered(o) : Covered(o, copy[c])
      BY <2>2 DEF Answered, AnsweredIsHeld
    <3>2. op[o].w.stamp > 0 /\ op'[o].w = op[o].w
      BY <1>5, <2>2 DEF Ends, Stamped
    <3> QED BY <1>0, <2>2, <3>1, <3>2
  <2> QED BY <1>5, <2>1, <2>2 DEF Ends
<1> QED BY <1>2, <1>3, <1>4, <1>5, OpSteps DEF OpStep

\* The inductive invariant holds of every behaviour.
THEOREM InductiveInvariant == Spec => []IInv
<1>1. Init => IInv
  <2>1. Init => AnsweredIsHeld /\ AckedIsHeld
    BY DEF Init, AnsweredIsHeld, AckedIsHeld, Acked, NoRounds
  <2> QED BY <2>1, TypeInit, StampedInit DEF IInv
<1>2. IInv /\ [Next]_vars => IInv'
  <2> SUFFICES ASSUME IInv, [Next]_vars PROVE IInv'
    OBVIOUS
  <2>1. TypeOK /\ Stamped /\ AnsweredIsHeld /\ AckedIsHeld
    BY DEF IInv
  <2>2. TypeOK'
    BY <2>1, TypeNext
  <2> QED BY <2>1, <2>2, StampedNext, AnsweredNext, AckedNext DEF IInv
<1> QED BY <1>1, <1>2, PTL DEF Spec

\* A copy only ever moves up the write order, whichever handler runs: live
\* or late, of a gateway or of recovery, whole or cut short by a crash.
THEOREM CopiesAdvance == Spec => CopiesOnlyAdvance
<1>1. IInv /\ [Next]_vars => [\A c \in Copies : CopyAdvances(copy[c], copy'[c])]_vars
  BY CopySteps DEF IInv, Steps
<1> QED BY <1>1, InductiveInvariant, PTL DEF Spec, CopiesOnlyAdvance

\* While no OSD stops between a delete's two store writes, no copy ever holds
\* an object at or under its tombstone, as derive takes for granted: however
\* late or lost the requests, and whichever path (gateway, recovery) wrote.
THEOREM ObjectsAboveTombstones ==
    ASSUME "crash" \notin Faults
    PROVE  Spec => []NoObjectUnderTombstone
<1>1. Init => NoObjectUnderTombstone
  BY DEF Init, NoObjectUnderTombstone, Blank
<1>2. IInv /\ NoObjectUnderTombstone /\ [Next]_vars => NoObjectUnderTombstone'
  BY CopySteps DEF IInv, NoObjectUnderTombstone, Steps, AboveTombstone
<1> QED BY <1>1, <1>2, InductiveInvariant, PTL DEF Spec

-----------------------------------------------------------------------------
(* Reads.                                                                  *)

\* The invariant makes every quorum read fresh: the copy the read shares with
\* the acknowledging quorum covers the operation.
LEMMA HeldIsFresh == IInv => FreshReads
<1> SUFFICES ASSUME IInv, NEW o \in Ops, op[o].res = "acked", NEW Q \in ReadQuorums
             PROVE  /\ \A c \in Q : ReadReturns(Q, copy[c].obj) => NotOlderThan(o, copy[c].obj)
                    /\ ReadNotFound(Q) => \/ Kind[o] = "delete"
                                          \/ \E c \in Q : copy[c].tomb >= op[o].w.stamp
  BY DEF FreshReads, Acked
<1> DEFINE w == op[o].w
<1>0. /\ w \in Object /\ w.stamp \in Nat /\ w.stamp > 0
      /\ \A c \in Copies : /\ copy[c].obj \in Object /\ copy[c].tomb \in Nat
                           /\ copy[c].obj.stamp \in Nat
  BY DEF IInv, TypeOK, OpState, Copy, Object, Stamped
<1>1. PICK d \in Q : d \in Copies /\ Covers(copy[d], Kind[o], w)
  <2> PICK A \in WriteQuorums : \A c \in A : Covered(o, copy[c])
    BY DEF IInv, AckedIsHeld, Acked
  <2> QED BY QuorumsMeet DEF Covered
<1>2. ASSUME NEW c \in Q, ReadReturns(Q, copy[c].obj)
      PROVE  NotOlderThan(o, copy[c].obj)
  <2>0. c \in Copies
    BY DEF ReadQuorums
  <2>1. copy[d].tomb < copy[c].obj.stamp /\ ~Older(copy[c].obj, copy[d].obj)
    BY <1>2 DEF ReadReturns, NewestOf, Live
  <2>2. CASE copy[d].tomb >= w.stamp
    BY <1>0, <1>1, <2>0, <2>1, <2>2 DEF NotOlderThan, Older
  <2>3. CASE Kind[o] = "delete" /\ copy[d].obj.stamp > w.stamp
    BY <1>0, <1>1, <2>0, <2>1, <2>3 DEF NotOlderThan, Older
  <2>4. CASE Kind[o] # "delete" /\ ~Older(copy[d].obj, w)
    BY <1>0, <1>1, <2>0, <2>1, <2>4, OrderTransitive DEF NotOlderThan
  <2> QED BY <1>1, <2>2, <2>3, <2>4 DEF Covers
<1>3. ASSUME ReadNotFound(Q), Kind[o] # "delete"
      PROVE  \E c \in Q : copy[c].tomb >= w.stamp
  <2> PICK c \in Q : NewestOf(Q, copy[c].obj) /\ ~Live(Q, copy[c].obj)
    BY <1>3 DEF ReadNotFound
  <2>0. c \in Copies /\ Q \subseteq Copies
    BY DEF ReadQuorums
  <2>1. CASE copy[d].tomb >= w.stamp
    BY <2>1
  <2>2. CASE ~Older(copy[d].obj, w)
    <3>1. ~Older(copy[c].obj, copy[d].obj)
      BY DEF NewestOf
    <3>2. copy[c].obj.stamp >= w.stamp
      BY <1>0, <1>1, <2>0, <2>2, <3>1 DEF Older
    <3>3. copy[c].obj # None
      BY <1>0, <2>0, <3>2 DEF None
    <3>4. PICK e \in Q : ~(copy[e].tomb < copy[c].obj.stamp)
      BY <3>3 DEF Live
    <3> QED BY <1>0, <2>0, <3>2, <3>4
  <2> QED BY <1>1, <1>3, <2>1, <2>2 DEF Covers
<1> QED BY <1>2, <1>3

\* Whichever read quorum answers, a read is never older than an acknowledged
\* put, update or delete.
THEOREM ReadsAreFresh == Spec => []FreshReads
BY InductiveInvariant, HeldIsFresh, PTL
=============================================================================
