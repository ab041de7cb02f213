-------------------------- MODULE LastWriterProofs --------------------------
(***************************************************************************)
(* The last writer wins, whatever the gateways' clocks say: the proof of   *)
(* LaterWins for any number of copies, operations, gateways and faults.    *)
(* The argument is about one copy, in the write quorum that goes on        *)
(* covering the earlier put and among those that took the later operation: *)
(* it took it, so the operation is ranked above what the copy covered.     *)
(* Then what is freed safely: the shards of a commit that every copy       *)
(* superseded, and those an operation waited for before it looked.         *)
(***************************************************************************)
EXTENDS MetaQuorumProofs

-----------------------------------------------------------------------------
(* Where objects come from.                                                *)

\* A gateway's clock never goes back.
LEMMA ClocksAdvance ==
    ASSUME TypeOK, [Next]_vars, NEW g \in Gateways
    PROVE  clock'[g] >= clock[g]
<1>0. clock[g] \in Nat
  BY DEF TypeOK
<1>1. CASE clock' = clock
  BY <1>0, <1>1
<1>2. ASSUME NEW o \in Ops, NEW seen \in Nat, NEW wall \in Walls,
             Tick(o, next_after(clock[Via[o]], seen, wall))
      PROVE  clock'[g] >= clock[g]
  <2> DEFINE stamp == next_after(clock[Via[o]], seen, wall)
  <2>1. clock[Via[o]] \in Nat /\ Via[o] \in Gateways
    BY DEF TypeOK, Gateways
  <2>2. stamp \in Nat /\ stamp > clock[Via[o]]
    BY <2>1, WallsAssumption, StampsGrow
  <2>3. clock' = [clock EXCEPT ![Via[o]] = stamp]
    BY <1>2 DEF Tick
  <2> HIDE DEF stamp
  <2> QED BY <1>0, <2>1, <2>2, <2>3 DEF TypeOK
<1>3. ASSUME NEW o \in Ops, Gateway(o)
      PROVE  clock'[g] >= clock[g]
  <2>1. CASE PutObject(o)
    BY <1>2, <2>1 DEF PutObject
  <2>2. CASE DeleteObject(o)
    BY <1>2, <2>2 DEF DeleteObject
  <2>3. CASE UpdateObject(o)
    <3> PICK wall \in Walls, c \in Copies : Tick(o, next_after(clock[Via[o]], copy[c].obj.upd, wall))
      BY <2>3 DEF UpdateObject, ReadQuorums
    <3>1. copy[c].obj.upd \in Nat
      BY DEF TypeOK, Copy, Object
    <3> QED BY <1>2, <3>1
  <2>4. CASE Restamp(o)
    <3>1. op[o].held \in Nat
      BY DEF TypeOK, OpState
    <3> QED BY <1>2, <2>4, <3>1 DEF Restamp
  <2> QED BY <1>1, <1>3, <2>1, <2>2, <2>3, <2>4
          DEF Gateway, AnswersOk, AnswersSuperseded, AnswersRefused, EndPut, EndUpdate,
              EndDelete, Settled, Free, Look
<1>4. ASSUME NEW o \in Ops, Failures(o)
      PROVE  clock'[g] >= clock[g]
  BY <1>1, <1>4 DEF Failures, AnswerLost, RequestLost, Unreachable, CrashInDelete,
                    PassOver, GatewayDies
<1>5. CASE Recovery
  BY <1>1, <1>5 DEF Recovery, RecoveryPlan, PartialPlan, Fetch, Changed, HealDone,
                    Push, PushFailed
<1> QED BY <1>1, <1>3, <1>4, <1>5 DEF Next, vars, RequestLate

\* What a copy holds after a step it held before, or was sent: by an operation,
\* late, or by recovery.
Sent(x) == \/ \E o \in Ops : op[o].st = "sent" /\ x = op[o].w
           \/ \E m \in late : x = m.w
           \/ heal.st # "idle" /\ x = heal.ent.obj
LEMMA HeldWasSent ==
    ASSUME TypeOK, [Next]_vars, NEW c \in Copies
    PROVE  \/ copy'[c].obj \in {copy[c].obj, None}
           \/ Sent(copy'[c].obj)
<1>0. copy \in [Copies -> Copy]
  BY DEF TypeOK
<1>1. ASSUME NEW cp \in Copy, NEW in, NEW x
      PROVE  put_object_meta(cp, in, x).obj \in {cp.obj, in}
  BY DEF put_object_meta, Copy
<1>2. ASSUME NEW cp \in Copy, NEW s
      PROVE  delete_object_meta(cp, s).obj \in {cp.obj, None}
  BY DEF delete_object_meta, put_tombstone, Copy
<1>3. ASSUME NEW o \in Ops, NEW w, NEW x, NEW d \in Copies,
             copy' = [copy EXCEPT ![d] = Handled(o, w, x, d)]
      PROVE  copy'[c].obj \in {copy[c].obj, None, w}
  BY <1>0, <1>1, <1>2, <1>3 DEF Handled
<1>4. CASE copy' = copy
  BY <1>4
<1>5. ASSUME NEW o \in Ops, NEW d \in Copies, AnswersOk(o, d) \/ AnswerLost(o, d)
      PROVE  copy'[c].obj \in {copy[c].obj, None} \/ Sent(copy'[c].obj)
  <2>1. op[o].st = "sent"
    BY <1>5 DEF AnswersOk, AnswerLost, NoAnswer, Asked
  <2> QED BY <1>3, <1>5, <2>1 DEF AnswersOk, AnswerLost, Sent
<1>6. ASSUME NEW o \in Ops, NEW d \in Copies, CrashInDelete(o, d)
      PROVE  copy'[c].obj = copy[c].obj
  BY <1>0, <1>6 DEF CrashInDelete, put_tombstone, Copy
<1>7. ASSUME NEW m \in late, RequestLate(m)
      PROVE  copy'[c].obj \in {copy[c].obj, None} \/ Sent(copy'[c].obj)
  <2>1. m.op \in Ops /\ m.to \in Copies
    BY DEF TypeOK, Requests
  <2> QED BY <1>3, <1>7, <2>1 DEF RequestLate, Sent
<1>8. ASSUME NEW d \in Copies, Push(d) \/ PushFailed(d)
      PROVE  copy'[c].obj \in {copy[c].obj, None} \/ Sent(copy'[c].obj)
  <2>1. copy' = copy \/ copy' = [copy EXCEPT ![d] = Recovered(d)]
    BY <1>8 DEF Push, PushFailed
  <2>2. copy'[c].obj \in {copy[c].obj, None, heal.ent.obj}
    BY <1>0, <1>1, <1>2, <2>1 DEF Recovered
  <2> QED BY <1>8, <2>2 DEF Push, PushFailed, Sent
<1>9. ASSUME NEW o \in Ops, Gateway(o)
      PROVE  copy'[c].obj \in {copy[c].obj, None} \/ Sent(copy'[c].obj)
  BY <1>4, <1>5, <1>9
     DEF Gateway, PutObject, DeleteObject, UpdateObject, Begin, AnswersSuperseded,
         AnswersRefused, Restamp, EndPut, EndUpdate, EndDelete, Settled, Free, Look
<1>10. ASSUME NEW o \in Ops, Failures(o)
      PROVE  copy'[c].obj \in {copy[c].obj, None} \/ Sent(copy'[c].obj)
  BY <1>4, <1>5, <1>6, <1>10 DEF Failures, RequestLost, Unreachable, PassOver, GatewayDies
<1>11. CASE Recovery
  BY <1>4, <1>8, <1>11 DEF Recovery, RecoveryPlan, PartialPlan, Fetch, Changed, HealDone
<1> QED BY <1>4, <1>7, <1>9, <1>10, <1>11 DEF Next, vars

\* A late request is of an operation whose round was out.
LEMMA LateWasSent ==
    ASSUME TypeOK, [Next]_vars, NEW m \in late'
    PROVE  m \in late \/ \E o \in Ops : op[o].st = "sent" /\ m.w = op[o].w
<1>1. ASSUME NEW o \in Ops, NEW c \in Copies, RequestLost(o, c), m \notin late
      PROVE  op[o].st = "sent" /\ m.w = op[o].w
  BY <1>1 DEF RequestLost, NoAnswer, Asked, Request
<1>2. CASE late' \subseteq late
  BY <1>2
<1>3. ASSUME NEW o \in Ops, Gateway(o)
      PROVE  late' \subseteq late
  BY <1>3
     DEF Gateway, PutObject, DeleteObject, UpdateObject, Begin, AnswersOk,
         AnswersSuperseded, AnswersRefused, Restamp, EndPut, EndUpdate, EndDelete,
         Settled, Free, Look
<1>4. ASSUME NEW o \in Ops, Failures(o)
      PROVE  m \in late \/ \E p \in Ops : op[p].st = "sent" /\ m.w = op[p].w
  BY <1>1, <1>2, <1>4
     DEF Failures, AnswerLost, Unreachable, CrashInDelete, PassOver, GatewayDies
<1>5. CASE Recovery
  BY <1>2, <1>5
     DEF Recovery, RecoveryPlan, PartialPlan, Fetch, Changed, HealDone, Push, PushFailed
<1> QED BY <1>2, <1>3, <1>4, <1>5 DEF Next, vars, RequestLate

\* Recovery writes what a copy held when it was listed.
LEMMA HealWasHeld ==
    ASSUME TypeOK, [Next]_vars, heal'.st # "idle"
    PROVE  \/ heal.st # "idle" /\ heal'.ent = heal.ent
           \/ \E c \in Copies : heal'.ent = derive(copy[c])
<1>0. heal \in HealState
  BY DEF TypeOK
<1>1. ASSUME NEW S \in SUBSET Copies, NEW c \in S, PlanFrom(S, derive(copy[c]))
      PROVE  heal'.ent = derive(copy[c])
  BY <1>1, NoHealType DEF PlanFrom, HealState
<1>2. heal' # NoHeal
  BY DEF NoHeal
<1>3. CASE Recovery
  <2>1. CASE RecoveryPlan
    BY <1>1, <2>1 DEF RecoveryPlan
  <2>2. ASSUME NEW S \in ReadQuorums, PartialPlan(S)
        PROVE  \E c \in Copies : heal'.ent = derive(copy[c])
    BY <1>1, <2>2 DEF PartialPlan, ReadQuorums
  <2>3. CASE Fetch
    BY <1>0, <2>3 DEF Fetch, HealState
  <2>4. ASSUME NEW c \in Copies, Push(c) \/ PushFailed(c)
        PROVE  heal'.ent = heal.ent /\ heal.st # "idle"
    BY <1>0, <2>4 DEF Push, PushFailed, HealState
  <2> QED BY <1>2, <1>3, <2>1, <2>2, <2>3, <2>4 DEF Recovery, Changed, HealDone
<1>4. CASE heal' = heal
  BY <1>4
<1>5. ASSUME NEW o \in Ops, Gateway(o) \/ Failures(o)
      PROVE  heal' = heal
  BY <1>5
     DEF Gateway, PutObject, DeleteObject, UpdateObject, Begin, AnswersOk,
         AnswersSuperseded, AnswersRefused, Restamp, EndPut, EndUpdate, EndDelete,
         Settled, Free, Look, Failures, AnswerLost, RequestLost, Unreachable,
         CrashInDelete, PassOver, GatewayDies
<1> QED BY <1>3, <1>4, <1>5 DEF Next, vars, RequestLate

-----------------------------------------------------------------------------
(* Every object is named by a put that has gone out at its stamp or above. *)

\* Named, by the operations as they are before or after a step.
NamedBy(x, ops) == x.id # 0 => /\ x.id \in Ops /\ Kind[x.id] = "put"
                               /\ ops[x.id].st # "idle" /\ x.stamp <= ops[x.id].w.stamp

\* A put that has gone out keeps its name, and is only stamped higher.
LEMMA PutsGoUp ==
    ASSUME TypeOK, TypeOK', Stamped, NamesKept, [Next]_vars, NEW p \in Ops,
           Kind[p] = "put", op[p].st # "idle"
    PROVE  /\ op'[p].st # "idle" /\ op'[p].w.id = p
           /\ op'[p].w.stamp >= op[p].w.stamp
           /\ op'[p].w.stamp <= clock'[Via[p]]
<1>0. /\ op[p].w.stamp \in Nat /\ op'[p].w.stamp \in Nat /\ Via[p] \in Gateways
      /\ clock[Via[p]] \in Nat /\ clock'[Via[p]] \in Nat
  <2>1. op[p] \in OpState /\ op'[p] \in OpState /\ Via[p] \in Gateways
    BY DEF TypeOK, Gateways
  <2> QED BY <2>1 DEF TypeOK, OpState, Object
<1>1. op[p].w.id = p /\ op[p].w.stamp <= clock[Via[p]]
  BY DEF NamesKept
<1>2. clock'[Via[p]] >= clock[Via[p]]
  BY <1>0, ClocksAdvance
<1>3. CASE op'[p] = op[p] \/ Hears(p) \/ Ends(p)
  BY <1>0, <1>1, <1>2, <1>3 DEF Hears, Ends
<1>4. CASE Starts(p)
  BY <1>0, <1>1, <1>4 DEF Starts, Begins, Resends
<1> QED BY <1>3, <1>4, OpSteps DEF OpStep

\* So what was named stays named.
LEMMA NamedStays ==
    ASSUME TypeOK, TypeOK', Stamped, NamesKept, [Next]_vars,
           NEW x \in Object, NamedBy(x, op)
    PROVE  NamedBy(x, op')
<1> SUFFICES ASSUME x.id # 0 PROVE NamedBy(x, op')
  BY DEF NamedBy
<1>1. /\ x.id \in Ops /\ Kind[x.id] = "put" /\ op[x.id].st # "idle"
      /\ x.stamp <= op[x.id].w.stamp /\ x.stamp \in Nat
  BY DEF NamedBy, Object
<1>2. op[x.id] \in OpState /\ op'[x.id] \in OpState
  BY <1>1 DEF TypeOK
<1>3. op[x.id].w.stamp \in Nat /\ op'[x.id].w.stamp \in Nat
  BY <1>2 DEF OpState, Object
<1>4. op'[x.id].st # "idle" /\ op'[x.id].w.stamp >= op[x.id].w.stamp
  BY <1>1, PutsGoUp
<1> QED BY <1>1, <1>3, <1>4 DEF NamedBy

\* No object is named without a put behind it, whatever step is taken.
LEMMA NamesNext ==
    ASSUME TypeOK, TypeOK', Stamped, NamesKept, [Next]_vars
    PROVE  NamesKept'
<1>0. /\ \A o \in Ops : op[o] \in OpState /\ op'[o] \in OpState
      /\ \A o \in Ops : op[o].w \in Object /\ op'[o].w \in Object
      /\ \A c \in Copies : copy[c] \in Copy /\ copy[c].obj \in Object
      /\ \A m \in late : m.w \in Object
      /\ heal.ent \in Entry /\ heal.ent.obj \in Object
  <2>1. \A o \in Ops : op[o] \in OpState /\ op'[o] \in OpState
    BY DEF TypeOK
  <2>2. \A c \in Copies : copy[c] \in Copy
    BY DEF TypeOK
  <2>3. heal \in HealState /\ \A m \in late : m \in Requests
    BY DEF TypeOK
  <2> QED BY <2>1, <2>2, <2>3 DEF OpState, Copy, HealState, Entry, Requests
<1>1. /\ \A o \in Ops : op[o].st # "idle" => NamedBy(op[o].w, op)
      /\ \A c \in Copies : NamedBy(copy[c].obj, op)
      /\ \A m \in late : NamedBy(m.w, op)
      /\ heal.st # "idle" => NamedBy(heal.ent.obj, op)
  BY DEF NamesKept, Named, NamedBy
<1>2. \A x \in Object : NamedBy(x, op) => NamedBy(x, op')
  BY NamedStays
<1>3. ASSUME NEW o \in Ops, op'[o].st # "idle"
      PROVE  /\ NamedBy(op'[o].w, op')
             /\ Kind[o] = "put" => op'[o].w.id = o /\ op'[o].w.stamp <= clock'[Via[o]]
             /\ Kind[o] = "delete" => op'[o].w.id = 0
  <2>1. CASE Kind[o] = "put" /\ op[o].st # "idle"
    <3>1. op'[o].w.id = o /\ op'[o].w.stamp <= clock'[Via[o]]
      BY <2>1, PutsGoUp
    <3>2. op'[o].w.stamp <= op'[o].w.stamp
      BY <1>0 DEF Object
    <3> QED BY <1>3, <2>1, <3>1, <3>2 DEF NamedBy
  <2>2. CASE Kind[o] # "put" /\ op[o].st # "idle"
    <3>0. Kind[o] = "delete" => op[o].w.id = 0
      BY <2>2 DEF NamesKept
    <3>1. op'[o].w.id = op[o].w.id /\ (op'[o].w = op[o].w \/ Resends(o))
      BY <2>2, OpSteps DEF OpStep, Hears, Ends, Starts, Begins, Resends
    <3>2. CASE op'[o].w = op[o].w
      BY <1>0, <1>1, <1>2, <2>2, <3>0, <3>2
    <3>3. CASE Resends(o)
      <4>1. op[o].w.id = 0
        BY <2>2, <3>0, <3>3 DEF Resends, Restamps
      <4> QED BY <2>2, <3>1, <4>1 DEF NamedBy
    <3> QED BY <2>2, <3>1, <3>2, <3>3
  <2>3. CASE op[o].st = "idle"
    <3>1. Starts(o) /\ Begins(o)
      BY <1>3, <2>3, OpSteps DEF OpStep, Hears, Ends, Starts, Resends
    <3>2. CASE Kind[o] = "put" /\ op'[o].w.id = o /\ op'[o].w.stamp = clock'[Via[o]]
      <4>1. op'[o].w.stamp <= op'[o].w.stamp
        BY <1>0 DEF Object
      <4> QED BY <1>3, <3>2, <4>1 DEF NamedBy
    <3>3. CASE Kind[o] = "delete" /\ op'[o].w.id = 0
      BY <3>3 DEF NamedBy
    <3>4. ASSUME NEW c \in Copies, op'[o].w.id = copy[c].obj.id,
                 op'[o].w.stamp = copy[c].obj.stamp, Kind[o] = "update"
          PROVE  NamedBy(op'[o].w, op') /\ Kind[o] \notin {"put", "delete"}
      <4>1. NamedBy(copy[c].obj, op')
        BY <1>0, <1>1, <1>2
      <4> QED BY <3>4, <4>1 DEF NamedBy
    <3> QED BY <3>1, <3>2, <3>3, <3>4 DEF Begins
  <2> QED BY <2>1, <2>2, <2>3
<1>4. ASSUME NEW c \in Copies
      PROVE  NamedBy(copy'[c].obj, op')
  <2>1. CASE copy'[c].obj = None
    BY <2>1 DEF NamedBy, None
  <2>2. CASE copy'[c].obj = copy[c].obj \/ Sent(copy'[c].obj)
    <3>1. copy'[c].obj \in Object /\ NamedBy(copy'[c].obj, op)
      BY <1>0, <1>1, <2>2 DEF Sent
    <3> QED BY <1>2, <3>1
  <2> QED BY <2>1, <2>2, HeldWasSent
<1>5. ASSUME NEW m \in late'
      PROVE  NamedBy(m.w, op')
  <2>1. m.w \in Object /\ NamedBy(m.w, op)
    BY <1>0, <1>1, LateWasSent
  <2> QED BY <1>2, <2>1
<1>6. ASSUME heal'.st # "idle"
      PROVE  NamedBy(heal'.ent.obj, op')
  <2>1. CASE heal.st # "idle" /\ heal'.ent = heal.ent
    BY <1>0, <1>1, <1>2, <2>1
  <2>2. ASSUME NEW c \in Copies, heal'.ent = derive(copy[c])
        PROVE  NamedBy(heal'.ent.obj, op')
    <3>1. CASE copy[c].obj # None
      BY <1>0, <1>1, <1>2, <2>2, <3>1 DEF derive
    <3>2. CASE copy[c].obj = None
      <4>1. heal'.ent.obj.id = 0
        BY <2>2, <3>2 DEF derive, None
      <4> QED BY <4>1 DEF NamedBy
    <3> QED BY <3>1, <3>2
  <2> QED BY <1>6, <2>1, <2>2, HealWasHeld
<1> QED BY <1>3, <1>4, <1>5, <1>6 DEF NamesKept, Named, NamedBy

-----------------------------------------------------------------------------
(* What came before an operation, and how it ranks against that.           *)

\* What was acknowledged stays so, as it was written.
LEMMA AckedStays ==
    ASSUME TypeOK, Stamped, [Next]_vars, NEW p \in Ops, op[p].res = "acked"
    PROVE  op'[p].res = "acked" /\ op'[p].w = op[p].w
<1>1. op[p].st \notin {"idle", "sent"}
  BY DEF Stamped
<1> QED BY <1>1, OpSteps DEF OpStep, Starts, Begins, Resends, Hears, Ends

\* A superseded round goes on knowing above what to stamp the next.
LEMMA SupersededNext ==
    ASSUME TypeOK, Stamped, SupersededKnows, [Next]_vars
    PROVE  SupersededKnows'
<1> SUFFICES ASSUME NEW o \in Ops, NEW c \in Copies, op'[o].st = "sent", op'[o].ans[c] = "sup"
             PROVE  op'[o].held # 0
  BY DEF SupersededKnows
<1>1. CASE op'[o] = op[o]
  BY <1>1 DEF SupersededKnows
<1>2. CASE Starts(o)
  BY <1>2 DEF Starts, NotAsked
<1>3. CASE Hears(o)
  <2> PICK d \in Copies, a \in Answers : /\ op'[o].ans = [op[o].ans EXCEPT ![d] = a]
                                         /\ a = "sup" => op'[o].held # 0
    BY <1>3 DEF Hears
  <2>1. op[o].ans \in [Copies -> Answers]
    BY DEF TypeOK, OpState
  <2>2. CASE c = d
    BY <2>1, <2>2
  <2>3. CASE c # d
    BY <1>3, <2>1, <2>3 DEF Hears, SupersededKnows
  <2> QED BY <2>2, <2>3
<1>4. CASE Ends(o)
  BY <1>4 DEF Ends
<1> QED BY <1>1, <1>2, <1>3, <1>4, OpSteps DEF OpStep

\* What came before an operation was acknowledged, and stays so.
LEMMA AfterNext ==
    ASSUME TypeOK, Stamped, AfterAcked, [Next]_vars
    PROVE  AfterAcked'
<1> SUFFICES ASSUME NEW o \in Ops, NEW p \in op'[o].after
             PROVE  op'[p].res = "acked" /\ p # o
  BY DEF AfterAcked
<1>1. op'[o].after = Acked \/ op'[o].after = op[o].after
  BY OpSteps DEF OpStep, Starts, Begins, Resends, Hears, Ends
<1>2. op[o].after \subseteq Ops
  BY DEF TypeOK, OpState
<1>3. p \in Ops /\ op[p].res = "acked" /\ p # o
  <2>1. CASE op'[o].after = op[o].after
    BY <1>2, <2>1 DEF AfterAcked
  <2>2. CASE op'[o].after # op[o].after
    <3>1. op[o].res # "acked"
      BY <2>2, OpSteps DEF OpStep, Starts, Begins, Resends, Hears, Ends, Stamped
    <3> QED BY <1>1, <2>2, <3>1 DEF Acked
  <2> QED BY <2>1, <2>2
<1> QED BY <1>3, AckedStays

\* Two write quorums share a copy.
LEMMA WriteQuorumsMeet ==
    ASSUME NEW A \in WriteQuorums, NEW B \in WriteQuorums
    PROVE  \E c \in Copies : c \in A /\ c \in B
<1>1. N \in Nat /\ B \subseteq Copies /\ IsFiniteSet(Copies)
  BY CopiesAssumption, FS_CardinalityType DEF N, WriteQuorums
<1>2. Cardinality(B) \in Nat
  BY <1>1, FS_Subset, FS_CardinalityType
<1>3. B \in ReadQuorums
  BY <1>1, <1>2 DEF WriteQuorums, ReadQuorums, meta_read_quorum, meta_write_quorum
<1> QED BY <1>3, QuorumsMeet

\* A copy that covers an operation and takes another ranks that one above,
\* or, as to deletes, has seen a later one.
LEMMA TakingRanks ==
    ASSUME IInv, NEW o \in Ops, NEW p \in Ops, NEW c \in Copies,
           op[o].st = "sent", op[p].res = "acked", Restamps(o),
           Covered(p, copy[c]), ~IsSuperseded(o, c)
    PROVE  Outranks(o, p)
<1> DEFINE w == op[o].w
           v == op[p].w
           x == copy[c].obj
<1>0. /\ w \in Object /\ v \in Object /\ x \in Object /\ copy[c].tomb \in Nat
      /\ w.stamp \in Nat /\ v.stamp \in Nat /\ x.stamp \in Nat
      /\ w.stamp > 0 /\ v.stamp > 0
  <2>1. op[o] \in OpState /\ op[p] \in OpState /\ copy[c] \in Copy
    BY DEF IInv, TypeOK
  <2>2. w \in Object /\ v \in Object /\ x \in Object /\ copy[c].tomb \in Nat
    BY <2>1 DEF OpState, Copy
  <2>3. w.stamp > 0 /\ v.stamp > 0
    BY DEF IInv, Stamped
  <2> QED BY <2>2, <2>3 DEF Object
<1>1. copy[c].tomb >= v.stamp \/ (x.stamp > v.stamp \/ ~Older(x, v))
  BY DEF Covered, Covers
<1>2. x.stamp >= v.stamp => x # None
  BY <1>0 DEF None
<1>3. ~Older(x, v) => x.stamp >= v.stamp
  BY <1>0 DEF Older
<1>4. CASE Kind[o] = "delete"
  <2>1. x # None => x.stamp <= w.stamp
    BY <1>0, <1>4 DEF IsSuperseded, DeleteSuperseded
  <2>2. CASE copy[c].tomb >= v.stamp
    <3>1. CASE copy[c].tomb > w.stamp
      BY <1>4, <3>1 DEF Outranks, SawLaterDelete
    <3>2. CASE ~(copy[c].tomb > w.stamp)
      BY <1>0, <1>4, <2>2, <3>2 DEF Outranks
    <3> QED BY <3>1, <3>2
  <2>3. CASE x.stamp >= v.stamp
    BY <1>0, <1>2, <1>4, <2>1, <2>3 DEF Outranks
  <2> QED BY <1>0, <1>1, <1>3, <2>2, <2>3
<1>5. CASE Kind[o] # "delete"
  <2>1. (x # None => ~Older(w, x)) /\ copy[c].tomb < w.stamp
    BY <1>0, <1>5 DEF IsSuperseded, PutSuperseded, supersedes, deleted_since
  <2>2. CASE copy[c].tomb >= v.stamp
    BY <1>0, <1>5, <2>1, <2>2 DEF Outranks, Older
  <2>3. CASE x.stamp > v.stamp
    <3>1. ~Older(w, x)
      BY <1>0, <1>2, <2>1, <2>3
    <3> QED BY <1>0, <1>5, <2>3, <3>1 DEF Outranks, Older
  <2>4. CASE ~Older(x, v)
    <3>1. ~Older(w, x)
      BY <1>2, <1>3, <2>1, <2>4
    <3> QED BY <1>0, <1>5, <2>4, <3>1, OrderTransitive DEF Outranks
  <2> QED BY <1>1, <2>2, <2>3, <2>4
<1> QED BY <1>4, <1>5

\* An operation that outranks another goes on doing so while it is written
\* as it was.
LEMMA RankStays ==
    ASSUME TypeOK, TypeOK', Stamped, [Next]_vars, NEW o \in Ops, NEW p \in Ops,
           op[p].res = "acked", op'[o].w = op[o].w, Outranks(o, p)
    PROVE  Outranks(o, p)'
<1>1. op'[p].w = op[p].w
  BY AckedStays
<1>2. CASE SawLaterDelete(o)
  <2> PICK c \in Copies : copy[c].tomb > op[o].w.stamp
    BY <1>2 DEF SawLaterDelete
  <2>1. copy[c].tomb \in Nat /\ copy'[c].tomb \in Nat /\ op[o].w.stamp \in Nat
    <3>1. copy[c] \in Copy /\ copy'[c] \in Copy /\ op[o] \in OpState
      BY DEF TypeOK
    <3> QED BY <3>1 DEF Copy, OpState, Object
  <2>2. copy'[c].tomb >= copy[c].tomb
    BY CopySteps DEF Steps, CopyAdvances
  <2>3. copy'[c].tomb > op'[o].w.stamp
    BY <2>1, <2>2
  <2> QED BY <1>2, <2>3 DEF SawLaterDelete, Outranks
<1>3. CASE ~SawLaterDelete(o)
  BY <1>1, <1>3 DEF Outranks
<1> QED BY <1>2, <1>3

\* Every step keeps later operations ranked.
LEMMA RankedNext ==
    ASSUME IInv, TypeOK', SupersededKnows, AfterAcked, Ranked, [Next]_vars
    PROVE  Ranked'
<1> USE DEF IInv
<1> SUFFICES ASSUME NEW o \in Ops, NEW p \in op'[o].after, Restamps(o)
             PROVE  /\ op'[o].st = "sent" =>
                          \E A \in WriteQuorums : \A c \in A :
                             /\ Covers(copy'[c], Kind[p], op'[p].w)
                             /\ op'[o].ans[c] = "ok" => Outranks(o, p)'
                    /\ op'[o].res = "acked" /\ ~op'[o].behind => Outranks(o, p)'
  BY DEF Ranked, RanksOn, Covered, Restamps, WriteQuorums, meta_write_quorum, N
<1>0. op[o] \in OpState /\ op'[o].after \subseteq Ops /\ op[o].after \subseteq Ops
  BY DEF TypeOK, OpState
<1>1. op'[o].after = Acked \/ op'[o].after = op[o].after
  BY OpSteps DEF OpStep, Starts, Begins, Resends, Hears, Ends
<1>2. p \in Ops /\ op[p].res = "acked" /\ op'[p].w = op[p].w /\ op[p].w.stamp > 0
  <2>1. p \in Ops /\ op[p].res = "acked"
    BY <1>0, <1>1 DEF Acked, AfterAcked
  <2> QED BY <2>1, AckedStays DEF Stamped
<1>3. ASSUME NEW A \in WriteQuorums, \A c \in A : Covered(p, copy[c])
      PROVE  \A c \in A : Covers(copy'[c], Kind[p], op'[p].w)
  <2> SUFFICES ASSUME NEW c \in A PROVE Covers(copy'[c], Kind[p], op'[p].w)
    OBVIOUS
  <2>1. c \in Copies
    BY DEF WriteQuorums
  <2> QED BY <1>2, <1>3, <2>1, CopyCoverStays
<1>4. op[o].st = "sent" /\ p \in op[o].after => \E A \in WriteQuorums : RanksOn(A, o, p)
  BY DEF Ranked
<1>5. CASE Starts(o)
  <2>1. op'[o].res = "none" /\ \A c \in Copies : op'[o].ans[c] # "ok"
    BY <1>5 DEF Starts, NotAsked
  <2>2. PICK A \in WriteQuorums : \A c \in A : Covered(p, copy[c])
    <3>1. CASE Begins(o)
      BY <1>2 DEF AckedIsHeld, Acked
    <3>2. CASE Resends(o)
      <4>1. PICK A \in WriteQuorums : RanksOn(A, o, p)
        BY <1>4, <3>2 DEF Resends
      <4> QED BY <4>1 DEF RanksOn
    <3> QED BY <1>5, <3>1, <3>2 DEF Starts
  <2>3. \A c \in A : Covers(copy'[c], Kind[p], op'[p].w) /\ op'[o].ans[c] # "ok"
    BY <1>3, <2>1, <2>2 DEF WriteQuorums
  <2> QED BY <2>1, <2>3
<1>6. CASE op'[o] = op[o] \/ Hears(o)
  <2>1. /\ op'[o].w = op[o].w /\ op'[o].res = op[o].res /\ op'[o].st = op[o].st
        /\ p \in op[o].after
    BY <1>6 DEF Hears
  <2>2. Outranks(o, p) => Outranks(o, p)'
    BY <1>2, <2>1, RankStays
  <2>3. ASSUME op'[o].st = "sent"
        PROVE  \E A \in WriteQuorums : \A c \in A :
                   /\ Covers(copy'[c], Kind[p], op'[p].w)
                   /\ op'[o].ans[c] = "ok" => Outranks(o, p)'
    <3>0. PICK A \in WriteQuorums : RanksOn(A, o, p)
      BY <1>4, <2>1, <2>3
    <3>1. ASSUME NEW c \in A, op'[o].ans[c] = "ok"
          PROVE  Outranks(o, p)'
      <4>0. c \in Copies
        BY DEF WriteQuorums
      <4>1. CASE op[o].ans[c] = "ok"
        BY <2>2, <3>0, <4>1 DEF RanksOn
      <4>2. CASE op[o].ans[c] # "ok"
        <5>1. Hears(o)
          BY <1>6, <3>1, <4>2
        <5>2. PICK d \in Copies, a \in Answers : /\ op'[o].ans = [op[o].ans EXCEPT ![d] = a]
                                                 /\ a = "ok" => ~IsSuperseded(o, d)
          BY <5>1 DEF Hears
        <5>3. op[o].ans \in [Copies -> Answers]
          BY <1>0 DEF OpState
        <5>4. c = d /\ a = "ok"
          BY <3>1, <4>0, <4>2, <5>2, <5>3
        <5>5. Covered(p, copy[c])
          BY <3>0 DEF RanksOn
        <5>6. Outranks(o, p)
          BY <1>2, <2>1, <2>3, <4>0, <5>2, <5>4, <5>5, TakingRanks
        <5> QED BY <2>2, <5>6
      <4> QED BY <4>1, <4>2
    <3>2. \A c \in A : Covered(p, copy[c])
      BY <3>0 DEF RanksOn
    <3> QED BY <1>3, <3>1, <3>2
  <2>4. op'[o].res = "acked" /\ ~op'[o].behind => Outranks(o, p)'
    <3>1. CASE op'[o] = op[o]
      BY <2>1, <2>2, <3>1 DEF Ranked
    <3>2. CASE Hears(o)
      BY <2>1, <3>2 DEF Hears, Stamped
    <3> QED BY <1>6, <3>1, <3>2
  <2> QED BY <2>3, <2>4
<1>7. CASE Ends(o)
  <2>1. op'[o].w = op[o].w /\ op'[o].st # "sent" /\ p \in op[o].after
    BY <1>7 DEF Ends
  <2>2. ASSUME op'[o].res = "acked", ~op'[o].behind
        PROVE  Outranks(o, p)
    <3>1. CASE op[o].st # "sent"
      BY <1>7, <2>1, <2>2, <3>1 DEF Ends, Ranked
    <3>2. CASE op[o].st = "sent"
      <4>1. Answered(o) \in WriteQuorums /\ ~Again(o) /\ ~OutOfRounds(o)
        BY <1>7, <2>2, <3>2 DEF Ends
      <4>2. op[o].round \in Nat /\ MaxRestamps \in Nat
        BY <1>0, BoundsAssumption DEF OpState
      <4>3. \A c \in Copies : op[o].ans[c] # "sup"
        <5>1. op[o].held = 0 \/ op[o].round >= MaxRestamps
          BY <4>1, <4>2 DEF Again
        <5> QED BY <3>2, <4>1, <5>1 DEF SupersededKnows, OutOfRounds
      <4>4. PICK A \in WriteQuorums : RanksOn(A, o, p)
        BY <1>4, <2>1, <3>2
      <4>5. PICK c \in Copies : c \in A /\ c \in Answered(o)
        BY <4>1, WriteQuorumsMeet
      <4> QED BY <4>3, <4>4, <4>5 DEF Answered, RanksOn
    <3> QED BY <3>1, <3>2
  <2>3. Outranks(o, p) => Outranks(o, p)'
    BY <1>2, <2>1, RankStays
  <2> QED BY <2>1, <2>2, <2>3
<1> QED BY <1>5, <1>6, <1>7, OpSteps DEF OpStep

-----------------------------------------------------------------------------
(* The last writer wins.                                                   *)

\* Where the invariants hold no read quorum returns the outranked put: the
\* read is no older than the later operation, and everything named by the
\* put is.
LEMMA RankedWins == IInv /\ RankInv => LaterWins
<1> SUFFICES ASSUME IInv, RankInv, NEW o \in Acked, NEW p \in op[o].after,
                    Restamps(o), Kind[p] = "put", ~op[o].behind, ~SawLaterDelete(o),
                    NEW Q \in ReadQuorums, NEW c \in Q,
                    copy[c].obj.id = p, ReadReturns(Q, copy[c].obj)
             PROVE  FALSE
  BY DEF LaterWins, Readable
<1> DEFINE w == op[o].w
           v == op[p].w
           r == copy[c].obj
<1>0. o \in Ops /\ p \in Ops /\ c \in Copies /\ op[o].res = "acked" /\ op[p].res = "acked"
  <2>1. o \in Ops /\ op[o].res = "acked"
    BY DEF Acked
  <2> QED BY <2>1 DEF IInv, TypeOK, OpState, ReadQuorums, RankInv, AfterAcked
<1>1. /\ w \in Object /\ v \in Object /\ r \in Object
      /\ w.stamp \in Nat /\ v.stamp \in Nat /\ r.stamp \in Nat
      /\ w.id \in Nat /\ p \in Nat \ {0}
  <2>1. op[o] \in OpState /\ op[p] \in OpState /\ copy[c] \in Copy
    BY <1>0 DEF IInv, TypeOK
  <2>2. w \in Object /\ v \in Object /\ r \in Object
    BY <2>1 DEF OpState, Copy
  <2> QED BY <1>0, <2>2, OpsAssumption DEF Object
<1>2. op[o].st \notin {"idle", "sent"} /\ op[p].st \notin {"idle", "sent"}
  BY <1>0 DEF IInv, Stamped
<1>3. r.stamp <= v.stamp
  BY <1>0, <1>1 DEF RankInv, NamesKept, Named
<1>4. NotOlderThan(o, r)
  BY <1>0, HeldIsFresh DEF FreshReads, Acked
<1>5. Outranks(o, p)
  BY <1>0 DEF RankInv, Ranked
<1>6. CASE Kind[o] = "delete"
  BY <1>1, <1>3, <1>4, <1>5, <1>6 DEF Outranks, NotOlderThan
<1>7. CASE Kind[o] # "delete"
  <2>1. w.id = o /\ v.id = p
    BY <1>0, <1>2, <1>7 DEF RankInv, NamesKept, Restamps
  <2>2. o # p
    BY <1>0 DEF RankInv, AfterAcked
  <2>3. ~Older(r, w) /\ ~Older(w, v)
    BY <1>4, <1>5, <1>7 DEF Outranks, NotOlderThan
  <2> QED BY <1>1, <1>3, <2>1, <2>2, <2>3 DEF Older
<1> QED BY <1>6, <1>7

\* The invariant holds initially.
LEMMA RankInit == Init => RankInv
BY DEF Init, RankInv, NamesKept, SupersededKnows, AfterAcked, Ranked, NoRounds, Named,
       Blank, None, NoHeal

\* Every step keeps it.
LEMMA RankNext == IInv /\ RankInv /\ [Next]_vars => RankInv'
<1> SUFFICES ASSUME IInv, RankInv, [Next]_vars PROVE RankInv'
  OBVIOUS
<1>1. TypeOK /\ Stamped /\ TypeOK'
  BY TypeNext DEF IInv
<1> QED BY <1>1, NamesNext, SupersededNext, AfterNext, RankedNext DEF RankInv

\* An operation acknowledged after it began later outranks what was
\* acknowledged before: whatever the clocks, losses and late requests.
THEOREM LastWriter == Spec => []LaterWins
BY RankInit, RankNext, InductiveInvariant, RankedWins, PTL DEF Spec

-----------------------------------------------------------------------------
(* What is freed safely: a commit that every copy superseded, and what an  *)
(* operation waited RESTAMP_SETTLE for and then found on no copy.          *)

\* A copy is past a write: it has seen a delete as new, or another object
\* that is newer.  It stays so, and the last round of a put is not sent again.
Past(cp, w) == \/ cp.tomb >= w.stamp \/ cp.obj.stamp > w.stamp
               \/ cp.obj.stamp = w.stamp /\ cp.obj.id > w.id

\* Nothing carries the stamp of a put's round before a copy may have taken it:
\* so a copy that supersedes the round does so by another object.
Is(x, id, stamp) == x.id = id /\ x.stamp = stamp
Carried(o, stamp) == \/ \E c \in Copies : Is(copy[c].obj, o, stamp)
                     \/ \E m \in late : Is(m.w, o, stamp)
                     \/ \E p \in Ops \ {o} : op[p].st = "sent" /\ Is(op[p].w, o, stamp)
                     \/ heal.st # "idle" /\ Is(heal.ent.obj, o, stamp)
PutOut(o)    == Kind[o] = "put" /\ op[o].st = "sent"
MayBeHeld(o) == \E c \in Copies : op[o].ans[c] \in {"ok", "unknown"}
RoundsNew  == \A o \in Ops : PutOut(o) => MayBeHeld(o) \/ ~Carried(o, op[o].w.stamp)
PastRounds == \A o \in Ops, c \in Copies : PutOut(o) /\ op[o].ans[c] = "sup" =>
                  MayBeHeld(o) \/ Past(copy[c], op[o].w)

\* A put that ended, and that every copy is past.
PutEnded(x)  == x \in Ops /\ Kind[x] = "put" /\ op[x].st \notin {"idle", "sent"}
Overtaken(x) == PutEnded(x) /\ \A c \in Copies : Past(copy[c], op[x].w)
FreesOvertaken == /\ \A o \in Ops : op[o].st \in {"settle", "look"} => op[o].how # "superseded"
                  /\ \A o \in Ops : op[o].st = "free" /\ op[o].how = "superseded" =>
                                       \A x \in op[o].todo : Overtaken(x)
                  /\ \A f \in freed : f[2] = "superseded" => Overtaken(f[1])
PastInv == RoundsNew /\ PastRounds /\ FreesOvertaken

\* What an operation may free was held, so it is a put's.
PutOf(x) == x \in Ops /\ Kind[x] = "put" /\ op[x].st # "idle"
MayFree  == \A o \in Ops : /\ \A x \in op[o].todo : PutOf(x)
                           /\ \A c \in Copies : op[o].disp[c] # 0 => PutOf(op[o].disp[c])

\* A put that ended and, if it was acknowledged, that a write quorum covers of
\* which those read since (C) are past it.
Overtook(x, C) ==
    /\ PutEnded(x)
    /\ op[x].res = "acked" => \E A \in WriteQuorums : \A c \in A :
                                  Covered(x, copy[c]) /\ (c \in C => Past(copy[c], op[x].w))
Waits(o) == op[o].st = "settle" => /\ op[o].looked = {}
                                   /\ \A x \in op[o].todo : x \in op[o].racing \/ PutEnded(x)
Looks(o) == op[o].st = "look" /\ op[o].how = "settled" => \A x \in op[o].todo : Overtook(x, op[o].looked)
SettleInv == /\ MayFree
             /\ \A o \in Ops : Waits(o) /\ Looks(o) /\ (op[o].st = "free" => op[o].how # "settled")
             /\ \A f \in freed : f[2] = "settled" => Overtook(f[1], Copies)

\* What a copy holds after it handled a request: a delete leaves what it held
\* or nothing, a write what it held or, if that may be replaced, the write.
LEMMA HandledHolds ==
    ASSUME TypeOK, NEW o \in Ops, NEW w, NEW x, NEW c \in Copies
    PROVE  \/ Handled(o, w, x, c).obj \in {copy[c].obj, None}
           \/ /\ Kind[o] # "delete" /\ Handled(o, w, x, c).obj = w
              /\ precondition_holds(copy[c].obj, x)
<1>0. copy[c] \in Copy
  BY DEF TypeOK
<1>1. CASE Kind[o] = "delete"
  BY <1>0, <1>1 DEF Handled, delete_object_meta, put_tombstone, Copy
<1>2. CASE Kind[o] # "delete"
  BY <1>0, <1>2 DEF Handled, put_object_meta, PutApplies, Copy
<1> QED BY <1>1, <1>2

\* Whatever a copy holds after a step and not before it was sent, late or by
\* recovery; an operation that sent it knows that the copy may hold it.
Sends(o, c) == /\ op[o].st = "sent" /\ op'[o].st = "sent" /\ op'[o].w = op[o].w
               /\ op'[o].ans[c] \in {"ok", "unknown"}
LEMMA CopyFrom ==
    ASSUME TypeOK, [Next]_vars, NEW c \in Copies, copy'[c].obj # copy[c].obj
    PROVE  \/ \E o \in Ops : Sends(o, c) /\ copy'[c].obj = Handled(o, op[o].w, op[o].exp, c).obj
           \/ \E m \in late : m.op \in Ops /\ copy'[c].obj = Handled(m.op, m.w, m.exp, c).obj
           \/ heal.st # "idle" /\ copy'[c].obj \in {None, heal.ent.obj}
<1> DEFINE Goal == \/ \E o \in Ops : Sends(o, c) /\ copy'[c].obj = Handled(o, op[o].w, op[o].exp, c).obj
                   \/ \E m \in late : m.op \in Ops /\ copy'[c].obj = Handled(m.op, m.w, m.exp, c).obj
                   \/ heal.st # "idle" /\ copy'[c].obj \in {None, heal.ent.obj}
<1> SUFFICES Goal
  OBVIOUS
<1>0. copy \in [Copies -> Copy] /\ copy' # copy
  BY DEF TypeOK
<1>1. ASSUME NEW o \in Ops, NEW d \in Copies, AnswersOk(o, d) \/ AnswerLost(o, d)
      PROVE  Goal
  <2>1. copy' = [copy EXCEPT ![d] = Handled(o, op[o].w, op[o].exp, d)]
    BY <1>1 DEF AnswersOk, AnswerLost
  <2>2. c = d /\ copy'[c] = Handled(o, op[o].w, op[o].exp, c)
    BY <1>0, <2>1
  <2>3. op[o] \in OpState /\ op[o].st = "sent"
    BY <1>1 DEF TypeOK, AnswersOk, AnswerLost, NoAnswer, Asked
  <2>4. CASE AnswersOk(o, d)
    <3>1. op'[o] = Taken(o, d)
      BY <2>4 DEF AnswersOk, TypeOK
    <3>2. Taken(o, d).st = "sent" /\ Taken(o, d).w = op[o].w /\ Taken(o, d).ans[d] = "ok"
      BY <2>3 DEF Taken, OpState
    <3> QED BY <2>2, <2>3, <3>1, <3>2 DEF Sends
  <2>5. CASE AnswerLost(o, d)
    <3>1. op'[o].st = "sent" /\ op'[o].w = op[o].w /\ op'[o].ans[d] = "unknown"
      BY <2>3, <2>5 DEF AnswerLost, NoAnswer, TypeOK, OpState
    <3> QED BY <2>2, <2>3, <3>1 DEF Sends
  <2> QED BY <1>1, <2>4, <2>5
<1>2. ASSUME NEW o \in Ops, NEW d \in Copies, CrashInDelete(o, d)
      PROVE  FALSE
  BY <1>0, <1>2 DEF CrashInDelete, put_tombstone, Copy
<1>3. ASSUME NEW m \in late, RequestLate(m)
      PROVE  Goal
  <2>1. m.op \in Ops /\ m.to \in Copies
    BY DEF TypeOK, Requests
  <2> QED BY <1>0, <1>3, <2>1 DEF RequestLate
<1>4. ASSUME NEW d \in Copies, Push(d) \/ PushFailed(d)
      PROVE  Goal
  <2>1. copy' = [copy EXCEPT ![d] = Recovered(d)] /\ heal.st = "push"
    BY <1>0, <1>4 DEF Push, PushFailed
  <2>2. c = d /\ copy'[c] = Recovered(c) /\ copy[c] \in Copy
    BY <1>0, <2>1
  <2>3. Recovered(c).obj \in {copy[c].obj, None, heal.ent.obj}
    BY <2>2 DEF Recovered, put_object_meta, delete_object_meta, put_tombstone, Copy
  <2> QED BY <2>1, <2>2, <2>3
<1>5. ASSUME NEW o \in Ops, Gateway(o)
      PROVE  Goal
  BY <1>0, <1>1, <1>5
     DEF Gateway, PutObject, DeleteObject, UpdateObject, Begin, AnswersSuperseded,
         AnswersRefused, Restamp, EndPut, EndUpdate, EndDelete, Settled, Free, Look
<1>6. ASSUME NEW o \in Ops, Failures(o)
      PROVE  Goal
  BY <1>0, <1>1, <1>2, <1>6 DEF Failures, RequestLost, Unreachable, PassOver, GatewayDies
<1>7. CASE Recovery
  BY <1>0, <1>4, <1>7 DEF Recovery, RecoveryPlan, PartialPlan, Fetch, Changed, HealDone
<1> HIDE DEF Goal
<1> QED BY <1>0, <1>3, <1>5, <1>6, <1>7 DEF Next, vars

\* A request that is late after a step and was not before is of a round that
\* is out, and its copy may hold it for all the gateway knows.
LEMMA LateFrom ==
    ASSUME TypeOK, [Next]_vars, NEW m \in late', m \notin late
    PROVE  \E o \in Ops, c \in Copies : Sends(o, c) /\ m = Request(o, c)
<1>1. ASSUME NEW o \in Ops, NEW c \in Copies, RequestLost(o, c)
      PROVE  Sends(o, c) /\ m = Request(o, c)
  <2>1. op[o] \in OpState /\ op[o].st = "sent" /\ op' = [op EXCEPT ![o].ans[c] = "unknown"]
    BY <1>1 DEF TypeOK, RequestLost, NoAnswer, Asked
  <2>2. op'[o].st = "sent" /\ op'[o].w = op[o].w /\ op'[o].ans[c] = "unknown"
    BY <2>1 DEF TypeOK, OpState
  <2> QED BY <1>1, <2>1, <2>2 DEF RequestLost, Sends
<1>2. ~(late' \subseteq late)
  OBVIOUS
<1>3. ASSUME NEW o \in Ops, Gateway(o)
      PROVE  FALSE
  BY <1>2, <1>3
     DEF Gateway, PutObject, DeleteObject, UpdateObject, Begin, AnswersOk,
         AnswersSuperseded, AnswersRefused, Restamp, EndPut, EndUpdate, EndDelete,
         Settled, Free, Look
<1>4. ASSUME NEW o \in Ops, Failures(o)
      PROVE  \E c \in Copies : Sends(o, c) /\ m = Request(o, c)
  BY <1>1, <1>2, <1>4
     DEF Failures, AnswerLost, Unreachable, CrashInDelete, PassOver, GatewayDies
<1>5. CASE Recovery
  BY <1>2, <1>5
     DEF Recovery, RecoveryPlan, PartialPlan, Fetch, Changed, HealDone, Push, PushFailed
<1> QED BY <1>2, <1>3, <1>4, <1>5 DEF Next, vars, RequestLate

\* What a step does to an operation, as far as it decides what is freed.
Others(o) == \A p \in Ops \ {o} : op'[p] = op[p]
Began(o)  == /\ op[o].st = "idle" /\ op'[o].st = "sent" /\ op'[o].todo = {} /\ op'[o].disp = NoRounds.disp
             /\ Kind[o] = "update" => \E c \in Copies : copy[c].obj # None /\ op'[o].exp = copy[c].obj.id
                                                        /\ op'[o].w.id = copy[c].obj.id
Goes(o)   == /\ op[o].st = "sent" /\ op'[o].st = "sent" /\ op'[o].todo = op[o].todo
             /\ op'[o].disp = op[o].disp /\ op'[o].exp = op[o].exp /\ op'[o].w.id = op[o].w.id
             /\ op'[o].ans = NotAsked /\ op'[o].w.stamp > clock[Via[o]]
Heard(o)  == /\ op[o].st = "sent" /\ op'[o].st = "sent" /\ op'[o].w = op[o].w /\ op'[o].exp = op[o].exp
             /\ \E c \in Copies, a \in Answers :
                   /\ op[o].ans[c] = "wait" /\ op'[o].ans = [op[o].ans EXCEPT ![c] = a]
                   /\ a = "sup" => IsSuperseded(o, c) /\ copy' = copy
                   /\ op'[o].todo \subseteq op[o].todo \cup ({copy[c].obj.id} \ {0})
                   /\ \A d \in Copies : op'[o].disp[d] \in {op[o].disp[d], copy[c].obj.id}
Result(o, st, todo, how) == /\ op'[o].st = st /\ op'[o].todo = todo /\ op'[o].how = how
                            /\ op'[o].disp = NoRounds.disp /\ op'[o].looked = {}
                            /\ st = "settle" => op'[o].racing = Sending \ {o}
Over(o)   == /\ op[o].st # "idle" /\ op'[o].exp = op[o].exp /\ op'[o].w = op[o].w
             /\ copy' = copy /\ late' = late /\ Others(o)
             /\ \/ Result(o, "done", {}, "settled")
                \/ /\ Kind[o] = "put" /\ op[o].st = "sent"
                   /\ \/ Result(o, "free", {o}, "unapplied")
                      \/ Result(o, "free", {o}, "superseded") /\ \A c \in Copies : op[o].ans[c] = "sup"
                      \/ Result(o, "free", Displaced(o), "overwrite")
                      \/ Result(o, "settle", Displaced(o), "settled")
                \/ /\ Kind[o] = "delete" /\ op[o].st = "sent"
                   /\ \/ Result(o, "look", op[o].todo, "delete")
                      \/ Result(o, "settle", op[o].todo, "settled")
Frees(o)  == /\ op'[o].exp = op[o].exp /\ op'[o].w = op[o].w /\ op'[o].disp = op[o].disp
             /\ copy' = copy /\ late' = late /\ Others(o)
             /\ \/ /\ op[o].st = "settle" /\ op'[o].st = "look" /\ op'[o].looked = op[o].looked
                   /\ op'[o].todo = op[o].todo /\ op'[o].how = op[o].how
                   /\ \A p \in op[o].racing : op[p].st # "sent" /\ \A m \in late : m.op # p
                \/ /\ op[o].st = "look" /\ op'[o].st = "look"
                   /\ \/ /\ op'[o].how = op[o].how
                         /\ \E c \in Copies : /\ op'[o].looked = op[o].looked \cup {c}
                                              /\ op'[o].todo = op[o].todo \ {copy[c].obj.id}
                      \/ op'[o].how = "passed" /\ op'[o].todo = op[o].todo
                \/ /\ op[o].st \in {"free", "look"} /\ op'[o].st = "done" /\ op'[o].todo = {}
FreeStep(o) == op'[o] = op[o] \/ Began(o) \/ Goes(o) \/ Heard(o) \/ Over(o) \/ Frees(o)

\* The first round.
LEMMA BeganIs ==
    ASSUME TypeOK, NEW o \in Ops, PutObject(o) \/ DeleteObject(o) \/ UpdateObject(o)
    PROVE  Began(o)
<1>1. ASSUME NEW w \in Object, NEW x \in Nat, Begin(o, w, x)
      PROVE  /\ op[o].st = "idle" /\ op'[o].st = "sent" /\ op'[o].w = w /\ op'[o].exp = x
             /\ op'[o].todo = {} /\ op'[o].disp = NoRounds.disp
  <2> DEFINE e1 == [NoRounds EXCEPT !.st = "sent", !.w = w]
             e2 == [e1 EXCEPT !.exp = x, !.round = 1, !.after = Acked]
  <2>1. NoRounds.todo = {}
    BY DEF NoRounds
  <2>2. e1 \in OpState /\ e1.st = "sent" /\ e1.w = w /\ e1.todo = {} /\ e1.disp = NoRounds.disp
    BY <2>1, NoRoundsType DEF OpState
  <2> HIDE DEF e1
  <2>3. e2.st = "sent" /\ e2.w = w /\ e2.exp = x /\ e2.todo = {} /\ e2.disp = NoRounds.disp
    BY <2>2 DEF OpState
  <2>4. op'[o] = e2
    BY <1>1 DEF Begin, TypeOK, e1
  <2> QED BY <1>1, <2>3, <2>4 DEF Begin
<1>2. clock[Via[o]] \in Nat /\ o \in Nat /\ Via[o] \in Gateways
  BY OpsAssumption DEF TypeOK, Gateways
<1>3. CASE PutObject(o)
  <2> PICK wall \in Walls :
        Kind[o] = "put" /\ Begin(o, [id |-> o, stamp |-> next_after(clock[Via[o]], 0, wall), upd |-> 0], 0)
    BY <1>3 DEF PutObject
  <2>1. [id |-> o, stamp |-> next_after(clock[Via[o]], 0, wall), upd |-> 0] \in Object
    BY <1>2, WallsAssumption, StampsGrow DEF Object
  <2> QED BY <1>1, <2>1 DEF Began
<1>4. CASE DeleteObject(o)
  <2> PICK wall \in Walls :
        Kind[o] = "delete" /\ Begin(o, [None EXCEPT !.stamp = next_after(clock[Via[o]], 0, wall)], 0)
    BY <1>4 DEF DeleteObject
  <2>1. [None EXCEPT !.stamp = next_after(clock[Via[o]], 0, wall)] \in Object
    BY <1>2, WallsAssumption, StampsGrow DEF Object, None
  <2> QED BY <1>1, <2>1 DEF Began
<1>5. CASE UpdateObject(o)
  <2> PICK wall \in Walls, c \in Copies :
        LET r   == copy[c].obj
            upd == next_after(clock[Via[o]], r.upd, wall) IN
        r # None /\ Begin(o, [r EXCEPT !.upd = upd], r.id)
    BY <1>5 DEF UpdateObject, ReadQuorums, ReadReturns, Live
  <2> DEFINE r == copy[c].obj
             upd == next_after(clock[Via[o]], r.upd, wall)
             w == [r EXCEPT !.upd = upd]
  <2>1. r \in Object
    BY DEF TypeOK, Copy
  <2>2. upd \in Nat
    BY <1>2, <2>1, WallsAssumption, StampsGrow DEF Object
  <2>3. w \in Object /\ r.id \in Nat /\ w.id = r.id
    BY <2>1, <2>2 DEF Object
  <2>4. Begin(o, w, r.id) /\ r # None
    OBVIOUS
  <2> HIDE DEF upd, w
  <2> QED BY <1>1, <2>3, <2>4 DEF Began
<1> QED BY <1>3, <1>4, <1>5

\* An answer, or none.
LEMMA HeardIs ==
    ASSUME TypeOK, NEW o \in Ops, NEW c \in Copies,
           \/ AnswersOk(o, c) \/ AnswersSuperseded(o, c) \/ AnswersRefused(o, c)
           \/ AnswerLost(o, c) \/ RequestLost(o, c) \/ Unreachable(o, c)
           \/ CrashInDelete(o, c)
    PROVE  Heard(o)
<1>0. op[o] \in OpState /\ op[o].st = "sent" /\ op[o].ans[c] = "wait"
  BY DEF TypeOK, AnswersOk, AnswersSuperseded, AnswersRefused, AnswerLost, RequestLost,
         Unreachable, CrashInDelete, NoAnswer, Asked
<1>1. CASE AnswersOk(o, c)
  <2> DEFINE was == copy[c].obj.id
  <2>1. op'[o] = Taken(o, c)
    BY <1>1 DEF AnswersOk, TypeOK
  <2>2. /\ Taken(o, c).st = "sent" /\ Taken(o, c).w = op[o].w /\ Taken(o, c).exp = op[o].exp
        /\ Taken(o, c).ans = [op[o].ans EXCEPT ![c] = "ok"]
    BY <1>0 DEF Taken, OpState
  <2>3. Taken(o, c).todo \subseteq op[o].todo \cup ({was} \ {0})
    BY <1>0 DEF Taken, OpState
  <2>4. \A d \in Copies : Taken(o, c).disp[d] \in {op[o].disp[d], was}
    <3>1. CASE Kind[o] = "delete"
      BY <1>0, <3>1 DEF Taken, OpState
    <3>2. CASE Kind[o] # "delete"
      <4>1. \/ Taken(o, c).disp = [op[o].disp EXCEPT ![c] = op[o].disp[c]]
            \/ Taken(o, c).disp = [op[o].disp EXCEPT ![c] = was]
        BY <1>0, <3>2 DEF Taken, OpState
      <4>2. op[o].disp \in [Copies -> Nat]
        BY <1>0 DEF OpState
      <4> QED BY <4>1, <4>2
    <3> QED BY <3>1, <3>2
  <2> QED BY <1>0, <2>1, <2>2, <2>3, <2>4 DEF Heard, Answers
<1>2. CASE AnswersSuperseded(o, c)
  <2>1. /\ op'[o].st = "sent" /\ op'[o].w = op[o].w /\ op'[o].exp = op[o].exp
        /\ op'[o].ans = [op[o].ans EXCEPT ![c] = "sup"]
        /\ op'[o].todo = op[o].todo /\ op'[o].disp = op[o].disp
    BY <1>0, <1>2 DEF AnswersSuperseded, TypeOK, OpState
  <2>2. IsSuperseded(o, c) /\ copy' = copy
    BY <1>2 DEF AnswersSuperseded
  <2> QED BY <1>0, <2>1, <2>2 DEF Heard, Answers
<1>3. ASSUME NEW a \in {"refused", "unknown"}, op' = [op EXCEPT ![o].ans[c] = a]
      PROVE  Heard(o)
  <2>1. /\ op'[o].st = "sent" /\ op'[o].w = op[o].w /\ op'[o].exp = op[o].exp
        /\ op'[o].ans = [op[o].ans EXCEPT ![c] = a]
        /\ op'[o].todo = op[o].todo /\ op'[o].disp = op[o].disp
    BY <1>0, <1>3 DEF TypeOK, OpState
  <2> QED BY <1>0, <2>1 DEF Heard, Answers
<1> QED BY <1>1, <1>2, <1>3
        DEF AnswersRefused, AnswerLost, RequestLost, Unreachable, CrashInDelete, NoAnswer

\* What an operation ends with.
LEMMA EndedIs ==
    ASSUME TypeOK, NEW o \in Ops, NEW res \in {"none", "acked", "failed"},
           NEW st \in {"settle", "look", "free", "done"}, NEW todo \in SUBSET Nat, NEW how \in Paths,
           op' = [op EXCEPT ![o] = Ended(o, res, st, todo, how)]
    PROVE  Result(o, st, todo, how) /\ op'[o].exp = op[o].exp /\ op'[o].w = op[o].w
<1>1. op[o] \in OpState
  BY DEF TypeOK
<1>2. /\ op[o].w \in Object /\ op[o].exp \in Nat /\ op[o].after \in SUBSET Ops
      /\ op[o].behind \in BOOLEAN
  BY <1>1 DEF OpState
<1>3. Sending \ {o} \in SUBSET Ops
  BY DEF Sending, InFlight, TypeOK, Requests
<1> DEFINE racing == IF st = "settle" THEN Sending \ {o} ELSE {}
           behind == op[o].behind \/ OutOfRounds(o)
<1>4. racing \in SUBSET Ops /\ behind \in BOOLEAN
  BY <1>2, <1>3 DEF OutOfRounds
<1> DEFINE e1 == [NoRounds EXCEPT !.st = st, !.res = res, !.w = op[o].w]
           e2 == [e1 EXCEPT !.exp = op[o].exp, !.todo = todo, !.how = how]
           e3 == [e2 EXCEPT !.after = op[o].after, !.racing = racing, !.behind = behind]
<1>5. Ended(o, res, st, todo, how) = e3
  BY DEF Ended, OutOfRounds
<1>6. st = "settle" => racing = Sending \ {o}
  OBVIOUS
<1>7. NoRounds.looked = {}
  BY DEF NoRounds
<1> HIDE DEF racing, behind
<1>8. /\ e1 \in OpState /\ e1.st = st /\ e1.w = op[o].w
      /\ e1.disp = NoRounds.disp /\ e1.looked = {}
  BY <1>2, <1>7, NoRoundsType DEF OpState
<1> HIDE DEF e1
<1>9. /\ e2 \in OpState /\ e2.st = st /\ e2.w = op[o].w /\ e2.exp = op[o].exp
      /\ e2.todo = todo /\ e2.how = how /\ e2.disp = NoRounds.disp /\ e2.looked = {}
  BY <1>2, <1>8 DEF OpState
<1> HIDE DEF e2
<1>10. /\ e3.st = st /\ e3.w = op[o].w /\ e3.exp = op[o].exp
       /\ e3.todo = todo /\ e3.how = how /\ e3.disp = NoRounds.disp /\ e3.looked = {}
       /\ e3.racing = racing
  BY <1>9 DEF OpState
<1>11. op'[o] = e3
  BY <1>5 DEF TypeOK
<1> QED BY <1>6, <1>10, <1>11 DEF Result

\* The end of a round.
LEMMA OverIs ==
    ASSUME TypeOK, NEW o \in Ops,
           Restamp(o) \/ EndPut(o) \/ EndUpdate(o) \/ EndDelete(o) \/ GatewayDies(o)
    PROVE  Goes(o) \/ Over(o)
<1>0. /\ op[o] \in OpState /\ op[o].todo \in SUBSET Nat /\ op[o].res \in {"none", "acked", "failed"}
      /\ op[o].disp \in [Copies -> Nat] /\ op[o].took \in SUBSET Copies /\ o \in Nat /\ {} \in SUBSET Nat
  BY OpsAssumption DEF TypeOK, OpState
<1>1. Displaced(o) \in SUBSET Nat /\ {o} \in SUBSET Nat
  BY <1>0 DEF Displaced
<1>2. CASE Restamp(o)
  <2> PICK wall \in Walls :
        op' = [op EXCEPT ![o].w.stamp = next_after(clock[Via[o]], op[o].held, wall), ![o].round = @ + 1,
                         ![o].ans = NotAsked, ![o].held = 0]
    BY <1>2 DEF Restamp
  <2>1. op[o].st = "sent"
    BY <1>2 DEF Restamp, RoundOver
  <2>2. PICK s : s = next_after(clock[Via[o]], op[o].held, wall)
    OBVIOUS
  <2>3. s > clock[Via[o]]
    <3>1. clock[Via[o]] \in Nat /\ op[o].held \in Nat
      BY <1>0 DEF TypeOK, OpState, Gateways
    <3> QED BY <2>2, <3>1, WallsAssumption, StampsGrow
  <2>4. op' = [op EXCEPT ![o].w.stamp = s, ![o].round = @ + 1, ![o].ans = NotAsked, ![o].held = 0]
    BY <2>2
  <2>5. /\ op'[o].st = "sent" /\ op'[o].todo = op[o].todo /\ op'[o].disp = op[o].disp
        /\ op'[o].exp = op[o].exp /\ op'[o].w.id = op[o].w.id /\ op'[o].ans = NotAsked
        /\ op'[o].w.stamp = s
    BY <1>0, <2>1, <2>4 DEF TypeOK, OpState, Object
  <2> QED BY <2>1, <2>5, <2>3 DEF Goes
<1>3. ASSUME NEW res \in {"none", "acked", "failed"}, op' = [op EXCEPT ![o] = Done(o, res)]
      PROVE  Result(o, "done", {}, "settled") /\ op'[o].exp = op[o].exp /\ op'[o].w = op[o].w
  BY <1>0, <1>3, EndedIs DEF Done, Paths
<1>4. ASSUME NEW new, op' = [op EXCEPT ![o] = new]
      PROVE  Others(o)
  BY <1>4 DEF Others, TypeOK
<1>5. CASE EndPut(o)
  <2>1. Kind[o] = "put" /\ op[o].st = "sent" /\ copy' = copy /\ late' = late
    BY <1>5 DEF EndPut, RoundOver
  <2>2. ASSUME NEW res \in {"acked", "failed"}, NEW how \in Paths, NEW st \in {"settle", "free"},
               NEW todo \in SUBSET Nat, op' = [op EXCEPT ![o] = Ended(o, res, st, todo, how)]
        PROVE  Result(o, st, todo, how) /\ op'[o].exp = op[o].exp /\ op'[o].w = op[o].w
    BY <2>2, EndedIs
  <2>3. CASE Answered(o) \in WriteQuorums
    <3>1. op' = [op EXCEPT ![o] = PutCommitted(o)]
      BY <1>5, <2>3 DEF EndPut
    <3>2. CASE AllSuperseded(o)
      <4>1. op' = [op EXCEPT ![o] = Ended(o, "acked", "free", {o}, "superseded")]
        BY <3>1, <3>2 DEF PutCommitted
      <4>2. Result(o, "free", {o}, "superseded") /\ op'[o].exp = op[o].exp /\ op'[o].w = op[o].w
        BY <1>1, <2>2, <4>1 DEF Paths
      <4> QED BY <1>4, <2>1, <3>2, <4>1, <4>2 DEF Over, AllSuperseded
    <3>3. CASE op' = [op EXCEPT ![o] = Done(o, "acked")]
      BY <1>3, <1>4, <2>1, <3>3 DEF Over
    <3>4. CASE op' = [op EXCEPT ![o] = Ended(o, "acked", "free", Displaced(o), "overwrite")]
      <4>1. Result(o, "free", Displaced(o), "overwrite") /\ op'[o].exp = op[o].exp /\ op'[o].w = op[o].w
        BY <1>1, <2>2, <3>4 DEF Paths
      <4> QED BY <1>4, <2>1, <3>4, <4>1 DEF Over
    <3>5. CASE op' = [op EXCEPT ![o] = Ended(o, "acked", "settle", Displaced(o), "settled")]
      <4>1. Result(o, "settle", Displaced(o), "settled") /\ op'[o].exp = op[o].exp /\ op'[o].w = op[o].w
        BY <1>1, <2>2, <3>5 DEF Paths
      <4> QED BY <1>4, <2>1, <3>5, <4>1 DEF Over
    <3> QED BY <3>1, <3>2, <3>3, <3>4, <3>5 DEF PutCommitted
  <2>4. CASE Answered(o) \notin WriteQuorums
    <3>1. op' = [op EXCEPT ![o] = PutFailed(o)]
      BY <1>5, <2>4 DEF EndPut
    <3>2. CASE op' = [op EXCEPT ![o] = Done(o, "failed")]
      BY <1>3, <1>4, <2>1, <3>2 DEF Over
    <3>3. CASE op' = [op EXCEPT ![o] = Ended(o, "failed", "free", {o}, "unapplied")]
      <4>1. Result(o, "free", {o}, "unapplied") /\ op'[o].exp = op[o].exp /\ op'[o].w = op[o].w
        BY <1>1, <2>2, <3>3 DEF Paths
      <4> QED BY <1>4, <2>1, <3>3, <4>1 DEF Over
    <3> QED BY <3>1, <3>2, <3>3 DEF PutFailed
  <2> QED BY <2>3, <2>4
<1>6. CASE EndUpdate(o)
  <2>1. op[o].st = "sent" /\ copy' = copy /\ late' = late
    BY <1>6 DEF EndUpdate, RoundOver
  <2>2. \E res \in {"none", "acked", "failed"} : op' = [op EXCEPT ![o] = Done(o, res)]
    BY <1>6 DEF EndUpdate
  <2> QED BY <1>3, <1>4, <2>1, <2>2 DEF Over
<1>7. CASE EndDelete(o)
  <2>1. Kind[o] = "delete" /\ op[o].st = "sent" /\ copy' = copy /\ late' = late
    BY <1>7 DEF EndDelete, RoundOver
  <2>2. CASE \E res \in {"none", "acked", "failed"} : op' = [op EXCEPT ![o] = Done(o, res)]
    BY <1>3, <1>4, <2>1, <2>2 DEF Over
  <2>3. CASE op' = [op EXCEPT ![o] = Ended(o, "acked", "look", op[o].todo, "delete")]
    <3>1. Result(o, "look", op[o].todo, "delete") /\ op'[o].exp = op[o].exp /\ op'[o].w = op[o].w
      BY <1>0, <2>3, EndedIs DEF Paths
    <3> QED BY <1>4, <2>1, <2>3, <3>1 DEF Over
  <2>4. CASE op' = [op EXCEPT ![o] = Ended(o, "acked", "settle", op[o].todo, "settled")]
    <3>1. Result(o, "settle", op[o].todo, "settled") /\ op'[o].exp = op[o].exp /\ op'[o].w = op[o].w
      BY <1>0, <2>4, EndedIs DEF Paths
    <3> QED BY <1>4, <2>1, <2>4, <3>1 DEF Over
  <2> QED BY <1>7, <2>2, <2>3, <2>4 DEF EndDelete, DeleteCommitted
<1>8. CASE GatewayDies(o)
  <2>1. op[o].st # "idle" /\ copy' = copy /\ late' = late /\ op' = [op EXCEPT ![o] = Done(o, op[o].res)]
    BY <1>8 DEF GatewayDies
  <2> QED BY <1>0, <1>3, <1>4, <2>1 DEF Over
<1> QED BY <1>2, <1>5, <1>6, <1>7, <1>8

\* Waiting, looking and freeing.
LEMMA FreesIs ==
    ASSUME TypeOK, NEW o \in Ops,
           \/ Settled(o) \/ Free(o)
           \/ \E c \in Copies : Look(o, c) \/ PassOver(o, c)
    PROVE  Frees(o)
<1>0. op[o] \in OpState
  BY DEF TypeOK
<1>1. copy' = copy /\ late' = late
  BY DEF Settled, Free, Look, PassOver
<1>2. Others(o)
  BY DEF Others, TypeOK, Settled, Free, Look, PassOver
<1> DEFINE Same == op'[o].exp = op[o].exp /\ op'[o].w = op[o].w /\ op'[o].disp = op[o].disp
<1>3. CASE Settled(o)
  <2>1. /\ Same /\ op'[o].st = "look" /\ op'[o].looked = op[o].looked
        /\ op'[o].todo = op[o].todo /\ op'[o].how = op[o].how
    BY <1>0, <1>3 DEF Settled, TypeOK, OpState
  <2> QED BY <1>1, <1>2, <1>3, <2>1 DEF Frees, Settled
<1>4. CASE Free(o)
  <2>1. Same /\ op'[o].st = "done" /\ op'[o].todo = {}
    BY <1>0, <1>4 DEF Free, TypeOK, OpState
  <2> QED BY <1>1, <1>2, <1>4, <2>1 DEF Frees, Free
<1>5. ASSUME NEW c \in Copies, Look(o, c)
      PROVE  Frees(o)
  <2>1. /\ Same /\ op'[o].st = "look" /\ op'[o].how = op[o].how /\ op[o].st = "look"
        /\ op'[o].looked = op[o].looked \cup {c} /\ op'[o].todo = op[o].todo \ {copy[c].obj.id}
    BY <1>0, <1>5 DEF Look, TypeOK, OpState
  <2> QED BY <1>1, <1>2, <2>1 DEF Frees
<1>6. ASSUME NEW c \in Copies, PassOver(o, c)
      PROVE  Frees(o)
  <2>1. /\ Same /\ op'[o].st = "look" /\ op'[o].how = "passed" /\ op[o].st = "look"
        /\ op'[o].todo = op[o].todo
    BY <1>0, <1>6 DEF PassOver, TypeOK, OpState
  <2> QED BY <1>1, <1>2, <2>1 DEF Frees
<1> QED BY <1>3, <1>4, <1>5, <1>6

\* Every step of an operation is one of these.
LEMMA FreeStepIs ==
    ASSUME TypeOK, [Next]_vars, NEW p \in Ops
    PROVE  FreeStep(p)
<1>1. ASSUME NEW o \in Ops, Gateway(o) \/ Failures(o), p # o
      PROVE  op'[p] = op[p]
  <2>1. CASE Gateway(o)
    BY <1>1, <2>1
       DEF Gateway, PutObject, DeleteObject, UpdateObject, Begin, AnswersOk,
           AnswersSuperseded, AnswersRefused, Restamp, EndPut, EndUpdate, EndDelete,
           Settled, Free, Look, TypeOK
  <2>2. CASE Failures(o)
    BY <1>1, <2>2
       DEF Failures, AnswerLost, RequestLost, Unreachable, CrashInDelete, NoAnswer,
           PassOver, GatewayDies, TypeOK
  <2> QED BY <1>1, <2>1, <2>2
<1>2. ASSUME Gateway(p) \/ Failures(p)
      PROVE  FreeStep(p)
  BY <1>2, BeganIs, HeardIs, OverIs, FreesIs DEF Gateway, Failures, FreeStep
<1>3. CASE op' = op
  BY <1>3 DEF FreeStep
<1>4. CASE Recovery
  BY <1>3, <1>4
     DEF Recovery, RecoveryPlan, PartialPlan, Fetch, Changed, HealDone, Push, PushFailed
<1> QED BY <1>1, <1>2, <1>3, <1>4 DEF Next, vars, FreeStep, RequestLate

\* What is freed after a step and was not before an operation freed, or recovery.
LEMMA FreedFrom ==
    ASSUME TypeOK, [Next]_vars, NEW f \in freed', f \notin freed, f[2] # "recovery"
    PROVE  \E o \in Ops : /\ f[1] \in op[o].todo /\ f[2] = op[o].how
                          /\ op[o].st = "free" \/ (op[o].st = "look" /\ op[o].looked = Copies)
<1>1. ASSUME NEW o \in Ops, Free(o)
      PROVE  /\ f[1] \in op[o].todo /\ f[2] = op[o].how
             /\ op[o].st = "free" \/ (op[o].st = "look" /\ op[o].looked = Copies)
  BY <1>1 DEF Free
<1>2. freed' # freed
  OBVIOUS
<1>3. CASE HealDone
  BY <1>3 DEF HealDone
<1>4. ASSUME NEW o \in Ops, Gateway(o)
      PROVE  Free(o)
  BY <1>2, <1>4
     DEF Gateway, PutObject, DeleteObject, UpdateObject, Begin, AnswersOk, AnswersSuperseded,
         AnswersRefused, Restamp, EndPut, EndUpdate, EndDelete, Settled, Look
<1>5. ASSUME NEW o \in Ops, Failures(o)
      PROVE  FALSE
  BY <1>2, <1>5 DEF Failures, AnswerLost, RequestLost, Unreachable, CrashInDelete,
                    PassOver, GatewayDies
<1>6. CASE Recovery
  BY <1>2, <1>3, <1>6 DEF Recovery, RecoveryPlan, PartialPlan, Fetch, Changed, Push, PushFailed
<1> QED BY <1>1, <1>2, <1>4, <1>5, <1>6 DEF Next, vars, RequestLate

-----------------------------------------------------------------------------
(* Commits that every copy superseded.                                     *)

\* What carries a put's stamp carried it before, while no copy may have taken
\* the put's round.
LEMMA CarriedBefore ==
    ASSUME TypeOK, Stamped, NamesKept, [Next]_vars, NEW o \in Ops, NEW s,
           Kind[o] = "put", ~MayBeHeld(o)', Carried(o, s)'
    PROVE  Carried(o, s)
<1>0. o # 0 /\ None.id = 0
  BY OpsAssumption DEF None
<1>1. ASSUME NEW c \in Copies
      PROVE  ~Sends(o, c)
  BY DEF Sends, MayBeHeld
<1>2. ASSUME NEW c \in Copies, Is(copy'[c].obj, o, s)
      PROVE  Carried(o, s)
  <2>1. CASE copy'[c].obj = copy[c].obj
    BY <1>2, <2>1 DEF Carried
  <2>2. ASSUME NEW p \in Ops, Sends(p, c), copy'[c].obj = Handled(p, op[p].w, op[p].exp, c).obj
        PROVE  Carried(o, s)
    <3>1. p # o /\ op[p].st = "sent"
      BY <1>1, <2>2 DEF Sends
    <3>2. copy'[c].obj \in {copy[c].obj, None, op[p].w}
      BY <2>2, HandledHolds
    <3> QED BY <1>0, <1>2, <3>1, <3>2 DEF Is, Carried
  <2>3. ASSUME NEW m \in late, m.op \in Ops, copy'[c].obj = Handled(m.op, m.w, m.exp, c).obj
        PROVE  Carried(o, s)
    <3>1. copy'[c].obj \in {copy[c].obj, None, m.w}
      BY <2>3, HandledHolds
    <3> QED BY <1>0, <1>2, <3>1 DEF Is, Carried
  <2>4. CASE heal.st # "idle" /\ copy'[c].obj \in {None, heal.ent.obj}
    BY <1>0, <1>2, <2>4 DEF Is, Carried
  <2> QED BY <2>1, <2>2, <2>3, <2>4, CopyFrom
<1>3. ASSUME NEW m \in late', Is(m.w, o, s)
      PROVE  Carried(o, s)
  <2>1. CASE m \in late
    BY <1>3, <2>1 DEF Carried
  <2>2. ASSUME NEW p \in Ops, NEW c \in Copies, Sends(p, c), m = Request(p, c)
        PROVE  Carried(o, s)
    <3>1. p # o /\ op[p].st = "sent" /\ m.w = op[p].w
      BY <1>1, <2>2 DEF Sends, Request
    <3> QED BY <1>3, <3>1 DEF Carried
  <2> QED BY <2>1, <2>2, LateFrom
<1>4. ASSUME NEW p \in Ops, p # o, op'[p].st = "sent", Is(op'[p].w, o, s)
      PROVE  Carried(o, s)
  <2>1. CASE op'[p] = op[p] \/ Hears(p)
    <3>1. op[p].st = "sent" /\ op'[p].w = op[p].w
      BY <1>4, <2>1 DEF Hears
    <3> QED BY <1>4, <3>1 DEF Carried
  <2>2. CASE Begins(p)
    BY <1>0, <1>4, <2>2 DEF Begins, Is, Carried
  <2>3. CASE Resends(p)
    <3>1. op[p].w.id \in {0, p}
      BY <2>3 DEF Resends, Restamps, NamesKept
    <3> QED BY <1>0, <1>4, <2>3, <3>1 DEF Resends, Is
  <2> QED BY <1>4, <2>1, <2>2, <2>3, OpSteps DEF OpStep, Starts, Ends
<1>5. ASSUME heal'.st # "idle", Is(heal'.ent.obj, o, s)
      PROVE  Carried(o, s)
  <2>1. CASE heal.st # "idle" /\ heal'.ent = heal.ent
    BY <1>5, <2>1 DEF Carried
  <2>2. ASSUME NEW c \in Copies, heal'.ent = derive(copy[c])
        PROVE  Carried(o, s)
    <3>1. CASE copy[c].obj # None
      BY <1>5, <2>2, <3>1 DEF derive, Carried
    <3>2. CASE copy[c].obj = None
      <4>1. heal'.ent.obj.id = 0
        BY <2>2, <3>2 DEF derive, None
      <4> QED BY <1>0, <1>5, <4>1 DEF Is
    <3> QED BY <3>1, <3>2
  <2> QED BY <1>5, <2>1, <2>2, HealWasHeld
<1> QED BY <1>2, <1>3, <1>4, <1>5 DEF Carried

\* What is carried in a put's name, the put was sent with.
LEMMA CarriedIsNamed ==
    ASSUME TypeOK, NamesKept, NEW o \in Ops, NEW s, Carried(o, s)
    PROVE  op[o].st # "idle" /\ s <= op[o].w.stamp
<1>0. o # 0
  BY OpsAssumption
<1> QED BY <1>0 DEF Carried, Is, NamesKept, Named

\* Nothing carries the stamp of a round before it is sent.
LEMMA RoundsNewNext ==
    ASSUME TypeOK, TypeOK', Stamped, NamesKept, RoundsNew, [Next]_vars
    PROVE  RoundsNew'
<1> SUFFICES ASSUME NEW o \in Ops, Kind[o] = "put", op'[o].st = "sent", ~MayBeHeld(o)',
                    Carried(o, op[o].w.stamp)'
             PROVE  FALSE
  BY DEF RoundsNew, PutOut
<1>0. PICK s : s = op'[o].w.stamp
  OBVIOUS
<1>1. Carried(o, s)'
  BY <1>0 DEF Carried
<1>2. Carried(o, s)
  BY <1>1, CarriedBefore
<1>3. CASE op'[o] = op[o] \/ Heard(o)
  <2>1. op[o].st = "sent" /\ op'[o].w = op[o].w
    BY <1>3 DEF Heard
  <2>2. ~MayBeHeld(o)
    <3>1. CASE op'[o] = op[o]
      BY <3>1 DEF MayBeHeld
    <3>2. CASE Heard(o)
      <4> PICK c \in Copies, a \in Answers : op[o].ans[c] = "wait" /\ op'[o].ans = [op[o].ans EXCEPT ![c] = a]
        BY <3>2 DEF Heard
      <4>1. op[o].ans \in [Copies -> Answers]
        BY DEF TypeOK, OpState
      <4> QED BY <4>1 DEF MayBeHeld
    <3> QED BY <1>3, <3>1, <3>2
  <2> QED BY <1>0, <1>2, <2>1, <2>2 DEF RoundsNew, PutOut
<1>4. CASE Began(o)
  BY <1>2, <1>4, CarriedIsNamed DEF Began
<1>5. CASE Goes(o)
  <2>1. op[o].st = "sent" /\ op[o].w.stamp <= clock[Via[o]] /\ s <= op[o].w.stamp
    BY <1>2, <1>5, CarriedIsNamed DEF Goes, NamesKept
  <2>2. /\ op[o].w.stamp \in Nat /\ s \in Nat /\ clock[Via[o]] \in Nat
    <3>1. op[o] \in OpState /\ op'[o] \in OpState /\ Via[o] \in Gateways
      BY DEF TypeOK, Gateways
    <3>2. op[o].w \in Object /\ op'[o].w \in Object
      BY <3>1 DEF OpState
    <3> QED BY <1>0, <3>1, <3>2 DEF Object, TypeOK
  <2> QED BY <1>0, <1>5, <2>1, <2>2 DEF Goes
<1> QED BY <1>3, <1>4, <1>5, FreeStepIs DEF FreeStep, Over, Result, Frees

\* A copy that is past a write stays past it.
LEMMA PastStays ==
    ASSUME TypeOK, TypeOK', Stamped, [Next]_vars, NEW c \in Copies, NEW w \in Object,
           Past(copy[c], w)
    PROVE  Past(copy'[c], w)
<1>1. copy[c] \in Copy /\ copy'[c] \in Copy
  BY DEF TypeOK
<1>2. /\ copy[c].obj \in Object /\ copy'[c].obj \in Object
      /\ copy[c].tomb \in Nat /\ copy'[c].tomb \in Nat
  BY <1>1 DEF Copy
<1>3. CopyAdvances(copy[c], copy'[c])
  BY CopySteps DEF Steps
<1>4. CASE copy[c].tomb >= w.stamp
  BY <1>2, <1>3, <1>4 DEF CopyAdvances, Past, Object
<1>5. CASE ~(copy[c].tomb >= w.stamp)
  <2>1. copy[c].obj # None
    BY <1>2, <1>5 DEF Past, None, Object
  <2>2. ~Older(copy'[c].obj, copy[c].obj) \/ copy'[c].tomb >= copy[c].obj.stamp
    BY <1>3, <2>1 DEF CopyAdvances
  <2> QED BY <1>2, <1>5, <2>2 DEF Past, Older, Object
<1> QED BY <1>4, <1>5

\* Every copy that superseded a put's round is past it.
LEMMA PastRoundsNext ==
    ASSUME TypeOK, TypeOK', Stamped, NamesKept, RoundsNew, PastRounds, [Next]_vars
    PROVE  PastRounds'
<1> SUFFICES ASSUME NEW o \in Ops, NEW c \in Copies, Kind[o] = "put", op'[o].st = "sent",
                    op'[o].ans[c] = "sup", ~MayBeHeld(o)'
             PROVE  Past(copy'[c], op'[o].w)
  BY DEF PastRounds, PutOut
<1>0. op[o] \in OpState /\ copy[c] \in Copy
  BY DEF TypeOK
<1>1. op[o].w \in Object /\ copy[c].obj \in Object /\ op[o].ans \in [Copies -> Answers] /\ copy[c].tomb \in Nat
  BY <1>0 DEF OpState, Copy
<1>2. CASE op'[o] = op[o]
  <2>1. Past(copy[c], op[o].w)
    BY <1>2 DEF PastRounds, PutOut, MayBeHeld
  <2> QED BY <1>1, <1>2, <2>1, PastStays
<1>3. CASE Heard(o)
  <2> PICK d \in Copies, a \in Answers :
         /\ op[o].ans[d] = "wait" /\ op'[o].ans = [op[o].ans EXCEPT ![d] = a]
         /\ a = "sup" => IsSuperseded(o, d) /\ copy' = copy
    BY <1>3 DEF Heard
  <2>1. ~MayBeHeld(o) /\ op[o].st = "sent" /\ op'[o].w = op[o].w
    BY <1>1, <1>3 DEF MayBeHeld, Heard
  <2>2. CASE c # d
    <3>1. Past(copy[c], op[o].w)
      BY <1>1, <2>1, <2>2 DEF PastRounds, PutOut
    <3> QED BY <1>1, <2>1, <3>1, PastStays
  <2>3. CASE c = d
    <3>1. IsSuperseded(o, c) /\ copy' = copy
      BY <1>1, <2>3
    <3>2. op[o].w.id = o /\ op[o].w.stamp > 0
      BY <2>1 DEF NamesKept, Stamped
    <3>3. copy[c].tomb >= op[o].w.stamp \/ Older(op[o].w, copy[c].obj)
      BY <3>1 DEF IsSuperseded, PutSuperseded, supersedes, deleted_since
    <3>4. ~Is(copy[c].obj, o, op[o].w.stamp)
      BY <2>1 DEF RoundsNew, PutOut, Carried
    <3>5. Past(copy[c], op[o].w)
      BY <1>1, <3>2, <3>3, <3>4 DEF Past, Older, Is, Object
    <3> QED BY <2>1, <3>1, <3>5
  <2> QED BY <2>2, <2>3
<1>4. CASE Starts(o)
  BY <1>4 DEF Starts, NotAsked
<1>5. CASE Began(o) \/ Goes(o)
  BY <1>4, <1>5, <1>2, OpSteps, <1>3 DEF OpStep, Began, Goes, Hears, Ends, NotAsked
<1> QED BY <1>2, <1>3, <1>5, FreeStepIs DEF FreeStep, Over, Result, Frees

\* A put that ended is not sent again.
LEMMA EndedStays ==
    ASSUME TypeOK, Stamped, [Next]_vars, NEW x, PutEnded(x)
    PROVE  PutEnded(x)' /\ op'[x].w = op[x].w
<1>1. x \in Ops /\ Kind[x] = "put" /\ op[x].st \notin {"idle", "sent"}
  BY DEF PutEnded
<1> QED BY <1>1, OpSteps DEF OpStep, Starts, Begins, Resends, Hears, Ends, PutEnded

\* One that every copy is past stays so.
LEMMA OvertakenStays ==
    ASSUME TypeOK, TypeOK', Stamped, [Next]_vars, NEW x, Overtaken(x)
    PROVE  Overtaken(x)'
<1>1. PutEnded(x)' /\ op'[x].w = op[x].w /\ x \in Ops
  BY EndedStays DEF Overtaken, PutEnded
<1>2. op[x].w \in Object
  BY <1>1 DEF TypeOK, OpState
<1>3. \A c \in Copies : Past(copy'[c], op[x].w)
  BY <1>2, PastStays DEF Overtaken
<1> QED BY <1>1, <1>3 DEF Overtaken

\* What is freed as superseded every copy is past.
LEMMA OvertakenNext ==
    ASSUME TypeOK, TypeOK', Stamped, NamesKept, PastInv, [Next]_vars
    PROVE  FreesOvertaken'
<1>0. RoundsNew /\ PastRounds /\ FreesOvertaken
  BY DEF PastInv
<1>1. ASSUME NEW o \in Ops, op'[o].st \in {"settle", "look"}
      PROVE  op'[o].how # "superseded"
  BY <1>0, <1>1, FreeStepIs DEF FreesOvertaken, FreeStep, Began, Goes, Heard, Over, Result, Frees
<1>2. ASSUME NEW o \in Ops, op'[o].st = "free", op'[o].how = "superseded", NEW x \in op'[o].todo
      PROVE  Overtaken(x)'
  <2>1. CASE op'[o] = op[o]
    BY <1>0, <1>2, <2>1, OvertakenStays DEF FreesOvertaken
  <2>2. CASE Over(o)
    <3>1. /\ Kind[o] = "put" /\ op[o].st = "sent" /\ x = o /\ \A c \in Copies : op[o].ans[c] = "sup"
          /\ copy' = copy /\ op'[o].w = op[o].w
      BY <1>2, <2>2 DEF Over, Result
    <3>2. ~MayBeHeld(o)
      BY <3>1 DEF MayBeHeld
    <3>3. \A c \in Copies : Past(copy'[c], op'[o].w)
      BY <1>0, <3>1, <3>2 DEF PastRounds, PutOut
    <3> QED BY <1>2, <3>1, <3>3 DEF Overtaken, PutEnded
  <2> QED BY <1>2, <2>1, <2>2, FreeStepIs DEF FreeStep, Began, Goes, Heard, Frees
<1>3. ASSUME NEW f \in freed', f[2] = "superseded"
      PROVE  Overtaken(f[1])'
  <2>1. Overtaken(f[1])
    <3>1. CASE f \in freed
      BY <1>0, <1>3, <3>1 DEF FreesOvertaken
    <3>2. CASE f \notin freed
      <4> PICK o \in Ops : /\ f[1] \in op[o].todo /\ f[2] = op[o].how
                           /\ op[o].st = "free" \/ (op[o].st = "look" /\ op[o].looked = Copies)
        BY <1>3, <3>2, FreedFrom
      <4> QED BY <1>0, <1>3 DEF FreesOvertaken
    <3> QED BY <3>1, <3>2
  <2>2. PICK x : x = f[1]
    OBVIOUS
  <2>3. Overtaken(x)'
    BY <2>1, <2>2, OvertakenStays
  <2> QED BY <2>2, <2>3
<1> QED BY <1>1, <1>2, <1>3 DEF FreesOvertaken

\* No read returns a put that every copy is past: what copies hold in its
\* name is at most as new as its last round.
LEMMA OvertakenUnread ==
    ASSUME TypeOK, NamesKept, NEW x, Overtaken(x)
    PROVE  ~Readable(x)
<1> SUFFICES ASSUME NEW Q \in ReadQuorums, NEW c \in Q, copy[c].obj.id = x, ReadReturns(Q, copy[c].obj)
             PROVE  FALSE
  BY DEF Readable
<1>1. x \in Ops /\ Kind[x] = "put" /\ op[x].st # "idle" /\ x # 0 /\ c \in Copies
  BY OpsAssumption DEF Overtaken, PutEnded, ReadQuorums
<1>2. copy[c] \in Copy /\ op[x] \in OpState
  BY <1>1 DEF TypeOK
<1>3. copy[c].obj \in Object /\ copy[c].tomb \in Nat /\ op[x].w \in Object
  BY <1>2 DEF Copy, OpState
<1>4. copy[c].obj.stamp <= op[x].w.stamp /\ op[x].w.id = x
  BY <1>1 DEF NamesKept, Named
<1>5. copy[c].tomb < copy[c].obj.stamp
  BY DEF ReadReturns, Live
<1>6. Past(copy[c], op[x].w)
  BY <1>1 DEF Overtaken
<1> QED BY <1>3, <1>4, <1>5, <1>6 DEF Past, Object

\* A commit that every copy superseded frees its own shards: whatever is late,
\* lost or being recovered, no read returns the object then or later.
THEOREM SupersededFrees == Spec => [](\A f \in freed : f[2] = "superseded" => ~Readable(f[1]))
<1>1. Init => RankInv /\ PastInv
  <2>1. Init => PastInv
    BY DEF Init, PastInv, RoundsNew, PutOut, PastRounds, FreesOvertaken, NoRounds
  <2> QED BY <2>1, RankInit
<1>2. IInv /\ RankInv /\ PastInv /\ [Next]_vars => RankInv' /\ PastInv'
  <2> SUFFICES ASSUME IInv, RankInv, PastInv, [Next]_vars PROVE RankInv' /\ PastInv'
    OBVIOUS
  <2>1. TypeOK /\ Stamped /\ TypeOK' /\ NamesKept /\ RoundsNew /\ PastRounds
    BY TypeNext DEF IInv, RankInv, PastInv
  <2> QED BY <2>1, RankNext, RoundsNewNext, PastRoundsNext, OvertakenNext DEF PastInv
<1>3. IInv /\ RankInv /\ PastInv => \A f \in freed : f[2] = "superseded" => ~Readable(f[1])
  BY OvertakenUnread DEF IInv, RankInv, PastInv, FreesOvertaken
<1> QED BY <1>1, <1>2, <1>3, InductiveInvariant, PTL DEF Spec

-----------------------------------------------------------------------------
(* What is freed after RESTAMP_SETTLE.                                     *)

\* A put that has gone out stays one that has.
LEMMA PutOfStays ==
    ASSUME TypeOK, TypeOK', Stamped, NamesKept, [Next]_vars, NEW x, PutOf(x)
    PROVE  PutOf(x)'
BY PutsGoUp DEF PutOf

\* What a copy holds is a put's.
LEMMA HeldIsPut ==
    ASSUME NamesKept, NEW c \in Copies, copy[c].obj.id # 0
    PROVE  PutOf(copy[c].obj.id)
BY DEF NamesKept, Named, PutOf

\* What may be freed was held.
LEMMA MayFreeNext ==
    ASSUME TypeOK, TypeOK', Stamped, NamesKept, MayFree, [Next]_vars
    PROVE  MayFree'
<1> DEFINE In(x, ops) == x \in Ops /\ Kind[x] = "put" /\ ops[x].st # "idle"
<1>0. \A x : In(x, op) => In(x, op')
  BY PutOfStays DEF PutOf
<1>1. \A c \in Copies : NoRounds.disp[c] = 0
  BY DEF NoRounds
<1> SUFFICES ASSUME NEW o \in Ops
             PROVE  /\ \A x \in op'[o].todo : In(x, op')
                    /\ \A c \in Copies : op'[o].disp[c] # 0 => In(op'[o].disp[c], op')
  BY DEF MayFree, PutOf
<1>2. /\ \A x \in op[o].todo : In(x, op)
      /\ \A c \in Copies : op[o].disp[c] # 0 => In(op[o].disp[c], op)
  BY DEF MayFree, PutOf
<1>3. \A c \in Copies : copy[c].obj.id # 0 => In(copy[c].obj.id, op)
  BY HeldIsPut DEF PutOf
<1>4. PutOf(o) => In(o, op)
  BY DEF PutOf
<1> HIDE DEF In
<1>5. CASE op'[o] = op[o]
  BY <1>0, <1>2, <1>5
<1>6. CASE Began(o)
  BY <1>1, <1>6 DEF Began
<1>7. CASE Goes(o)
  BY <1>0, <1>2, <1>7 DEF Goes
<1>8. CASE Heard(o)
  <2> PICK c \in Copies :
         /\ op'[o].todo \subseteq op[o].todo \cup ({copy[c].obj.id} \ {0})
         /\ \A d \in Copies : op'[o].disp[d] \in {op[o].disp[d], copy[c].obj.id}
    BY <1>8 DEF Heard
  <2> QED BY <1>0, <1>2, <1>3
<1>9. CASE Over(o)
  <2>1. \A c \in Copies : op'[o].disp[c] = 0
    BY <1>1, <1>9 DEF Over, Result
  <2>2. op'[o].todo \subseteq {x \in {o} : PutOf(x)} \cup Displaced(o) \cup op[o].todo
    BY <1>9 DEF Over, Result, PutOf
  <2>3. \A x \in Displaced(o) : In(x, op)
    <3>1. op[o].took \subseteq Copies
      BY DEF TypeOK, OpState
    <3> QED BY <1>2, <3>1 DEF Displaced
  <2> QED BY <1>0, <1>2, <1>4, <2>1, <2>2, <2>3
<1>10. CASE Frees(o)
  <2>1. op'[o].todo \subseteq op[o].todo /\ op'[o].disp = op[o].disp
    BY <1>10 DEF Frees
  <2> QED BY <1>0, <1>2, <2>1
<1> QED BY <1>5, <1>6, <1>7, <1>8, <1>9, <1>10, FreeStepIs DEF FreeStep

\* A put overtaken on the copies that were read stays so, whatever recovery
\* writes: copies only move up.
LEMMA OvertookStays ==
    ASSUME IInv, TypeOK', [Next]_vars, NEW x, NEW C, Overtook(x, C)
    PROVE  Overtook(x, C)'
<1>0. TypeOK /\ Stamped
  BY DEF IInv
<1>1. PutEnded(x)' /\ op'[x].w = op[x].w /\ x \in Ops /\ op[x].st \notin {"idle", "sent"}
  BY <1>0, EndedStays DEF Overtook, PutEnded
<1>2. op'[x].res = op[x].res
  BY <1>0, <1>1, OpSteps DEF OpStep, Starts, Begins, Resends, Hears, Ends
<1>3. op[x].w \in Object /\ op[x].w.stamp > 0
  BY <1>0, <1>1 DEF TypeOK, OpState, Stamped
<1>4. ASSUME op'[x].res = "acked"
      PROVE  \E A \in WriteQuorums : \A c \in A :
                Covers(copy'[c], Kind[x], op'[x].w) /\ (c \in C => Past(copy'[c], op'[x].w))
  <2> PICK A \in WriteQuorums : \A c \in A : Covered(x, copy[c]) /\ (c \in C => Past(copy[c], op[x].w))
    BY <1>2, <1>4 DEF Overtook
  <2>1. A \subseteq Copies
    BY DEF WriteQuorums
  <2>2. \A c \in A : Covers(copy'[c], Kind[x], op'[x].w)
    BY <1>0, <1>1, <1>3, <2>1, CopyCoverStays
  <2>3. \A c \in A : c \in C => Past(copy'[c], op'[x].w)
    BY <1>0, <1>1, <1>3, <2>1, PastStays
  <2> QED BY <2>2, <2>3
<1> QED BY <1>1, <1>4 DEF Overtook, Covered

\* A copy that covers an acknowledged put and does not hold it is past it.
LEMMA CoveredElsewhere ==
    ASSUME TypeOK, NamesKept, NEW x \in Ops, NEW c \in Copies, Kind[x] = "put", op[x].st # "idle",
           Covered(x, copy[c]), copy[c].obj.id # x
    PROVE  Past(copy[c], op[x].w)
<1>1. copy[c].obj \in Object /\ copy[c].tomb \in Nat /\ op[x].w \in Object /\ op[x].w.id = x
  BY DEF TypeOK, Copy, OpState, NamesKept
<1>2. copy[c].tomb >= op[x].w.stamp \/ ~Older(copy[c].obj, op[x].w)
  BY DEF Covered, Covers
<1> QED BY <1>1, <1>2 DEF Past, Older, Object

\* No read returns an acknowledged put that a write quorum is past.
LEMMA OvertookUnread ==
    ASSUME TypeOK, NamesKept, NEW x, Overtook(x, Copies), op[x].res = "acked"
    PROVE  ~Readable(x)
<1> SUFFICES ASSUME NEW Q \in ReadQuorums, NEW d \in Q, copy[d].obj.id = x, ReadReturns(Q, copy[d].obj)
             PROVE  FALSE
  BY DEF Readable
<1>1. x \in Ops /\ Kind[x] = "put" /\ op[x].st # "idle" /\ x # 0 /\ d \in Copies
  BY OpsAssumption DEF Overtook, PutEnded, ReadQuorums
<1>2. PICK A \in WriteQuorums : \A c \in A : c \in Copies => Past(copy[c], op[x].w)
  BY DEF Overtook
<1>3. PICK c \in Copies : c \in A /\ c \in Q
  BY QuorumsMeet
<1>4. /\ copy[c].obj \in Object /\ copy[c].tomb \in Nat /\ copy[d].obj \in Object
      /\ op[x].w \in Object
  BY <1>1 DEF TypeOK, Copy, OpState
<1>5. copy[d].obj.stamp <= op[x].w.stamp /\ op[x].w.id = x
  BY <1>1 DEF NamesKept, Named
<1>6. copy[c].tomb < copy[d].obj.stamp /\ ~Older(copy[d].obj, copy[c].obj)
  BY <1>3 DEF ReadReturns, Live, NewestOf
<1>7. Past(copy[c], op[x].w)
  BY <1>2, <1>3
<1> QED BY <1>4, <1>5, <1>6, <1>7 DEF Past, Older, Object

\* What an operation that has settled is to free is no longer on its way.
LEMMA WaitsNext ==
    ASSUME TypeOK, Stamped, SettleInv, [Next]_vars, NEW o \in Ops
    PROVE  Waits(o)'
<1> SUFFICES ASSUME op'[o].st = "settle"
             PROVE  op'[o].looked = {} /\ \A x \in op'[o].todo : x \in op'[o].racing \/ PutEnded(x)'
  BY DEF Waits
<1>0. Waits(o) /\ MayFree
  BY DEF SettleInv
<1>1. \A x : PutEnded(x) => PutEnded(x)'
  BY EndedStays
<1>2. CASE op'[o] = op[o]
  BY <1>0, <1>1, <1>2 DEF Waits
<1>3. CASE Over(o)
  <2>1. /\ op'[o].looked = {} /\ op'[o].racing = Sending \ {o} /\ op[o].st = "sent"
        /\ \/ Kind[o] = "put" /\ op'[o].todo = Displaced(o)
           \/ Kind[o] = "delete" /\ op'[o].todo = op[o].todo
    BY <1>3 DEF Over, Result
  <2>2. ASSUME NEW x \in op'[o].todo
        PROVE  PutOf(x) /\ x # o
    <3>1. CASE Kind[o] = "put"
      <4>1. op[o].took \subseteq Copies
        BY DEF TypeOK, OpState
      <4> QED BY <1>0, <2>1, <2>2, <3>1, <4>1 DEF MayFree, Displaced
    <3>2. CASE Kind[o] = "delete"
      BY <1>0, <2>1, <2>2, <3>2 DEF MayFree, PutOf
    <3> QED BY <2>1, <3>1, <3>2
  <2>3. \A x \in op'[o].todo : x \in op'[o].racing \/ PutEnded(x)
    BY <2>1, <2>2 DEF Sending, InFlight, PutEnded, PutOf
  <2> QED BY <1>1, <2>1, <2>3
<1> QED BY <1>2, <1>3, FreeStepIs DEF FreeStep, Began, Goes, Heard, Frees

\* What it is to free it found on none of the copies it has read.
LEMMA LooksNext ==
    ASSUME IInv, NamesKept, TypeOK', SettleInv, [Next]_vars, NEW o \in Ops
    PROVE  Looks(o)'
<1> SUFFICES ASSUME op'[o].st = "look", op'[o].how = "settled", NEW x \in op'[o].todo, NEW C,
                    C = op'[o].looked
             PROVE  Overtook(x, C)'
  BY DEF Looks, Overtook
<1>0. Waits(o) /\ Looks(o) /\ MayFree /\ TypeOK /\ AckedIsHeld
  BY DEF SettleInv, IInv
<1>1. Overtook(x, C) => Overtook(x, C)'
  BY OvertookStays
<1>2. CASE op'[o] = op[o]
  BY <1>0, <1>1, <1>2 DEF Looks
<1>3. ASSUME op[o].st = "settle", op'[o].looked = op[o].looked, op'[o].todo = op[o].todo,
             \A p \in op[o].racing : op[p].st # "sent"
      PROVE  Overtook(x, C)'
  <2>1. PutOf(x) /\ (x \in op[o].racing \/ PutEnded(x)) /\ op[o].looked = {}
    BY <1>0, <1>3 DEF MayFree, Waits
  <2>2. PutEnded(x)
    BY <1>3, <2>1 DEF PutOf, PutEnded
  <2>3. op[x].res = "acked" => \E A \in WriteQuorums : \A c \in A : Covered(x, copy[c])
    BY <1>0, <2>1 DEF AckedIsHeld, Acked, PutOf
  <2> QED BY <1>1, <1>3, <2>1, <2>2, <2>3 DEF Overtook
<1>4. ASSUME NEW c \in Copies, op[o].st = "look", op[o].how = "settled",
             op'[o].looked = op[o].looked \cup {c}, op'[o].todo = op[o].todo \ {copy[c].obj.id}
      PROVE  Overtook(x, C)'
  <2>1. Overtook(x, op[o].looked) /\ copy[c].obj.id # x
    BY <1>0, <1>4 DEF Looks
  <2>2. x \in Ops /\ Kind[x] = "put" /\ op[x].st # "idle"
    BY <2>1 DEF Overtook, PutEnded
  <2>3. Covered(x, copy[c]) => Past(copy[c], op[x].w)
    BY <1>0, <2>1, <2>2, CoveredElsewhere
  <2>4. Overtook(x, op[o].looked \cup {c})
    BY <2>1, <2>3 DEF Overtook
  <2> QED BY <1>1, <1>4, <2>4
<1>5. CASE Frees(o)
  BY <1>3, <1>4, <1>5 DEF Frees
<1> QED BY <1>0, <1>2, <1>5, FreeStepIs DEF FreeStep, Began, Goes, Heard, Over, Result

\* Every step keeps the invariant.
LEMMA SettleNext ==
    ASSUME IInv, RankInv, SettleInv, [Next]_vars
    PROVE  SettleInv'
<1>0. TypeOK /\ TypeOK' /\ Stamped /\ NamesKept /\ MayFree
  BY TypeNext DEF IInv, RankInv, SettleInv
<1>1. MayFree'
  BY <1>0, MayFreeNext
<1>2. \A o \in Ops : Waits(o)' /\ Looks(o)'
  BY <1>0, WaitsNext, LooksNext
<1>3. ASSUME NEW o \in Ops, op'[o].st = "free"
      PROVE  op'[o].how # "settled"
  BY <1>0, <1>3, FreeStepIs DEF SettleInv, FreeStep, Began, Goes, Heard, Over, Result, Frees
<1>4. ASSUME NEW f \in freed', f[2] = "settled"
      PROVE  Overtook(f[1], Copies)'
  <2>1. Overtook(f[1], Copies)
    <3>1. CASE f \in freed
      BY <1>4, <3>1 DEF SettleInv
    <3>2. CASE f \notin freed
      <4> PICK o \in Ops : /\ f[1] \in op[o].todo /\ f[2] = op[o].how
                           /\ op[o].st = "free" \/ (op[o].st = "look" /\ op[o].looked = Copies)
        BY <1>0, <1>4, <3>2, FreedFrom
      <4>1. Looks(o) /\ (op[o].st = "free" => op[o].how # "settled")
        BY DEF SettleInv
      <4> QED BY <1>4, <4>1 DEF Looks
    <3> QED BY <3>1, <3>2
  <2>2. PICK x : x = f[1]
    OBVIOUS
  <2>3. Overtook(x, Copies)'
    BY <1>0, <2>1, <2>2, OvertookStays
  <2> QED BY <2>2, <2>3
<1> QED BY <1>1, <1>2, <1>3, <1>4 DEF SettleInv

\* What an overwrite or a delete frees after RESTAMP_SETTLE, having read every
\* copy and found it on none, and what a superseded commit frees, no read
\* returns then or later if its put was acknowledged: whatever races, is late,
\* lost or stops, and with recovery writing copies all the while.
THEOREM AckedFreesAreSafe == Spec => []AckedFreesSafe
<1>1. Init => RankInv /\ SettleInv
  <2>1. Init => SettleInv
    BY DEF Init, SettleInv, MayFree, Waits, Looks, NoRounds
  <2> QED BY <2>1, RankInit
<1>2. IInv /\ RankInv /\ SettleInv /\ [Next]_vars => RankInv' /\ SettleInv'
  BY RankNext, SettleNext
<1>3. /\ IInv /\ RankInv /\ SettleInv
      /\ \A f \in freed : f[2] = "superseded" => ~Readable(f[1])
      => AckedFreesSafe
  BY OvertookUnread DEF IInv, RankInv, SettleInv, AckedFreesSafe
<1> QED BY <1>1, <1>2, <1>3, InductiveInvariant, SupersededFrees, PTL DEF Spec
=============================================================================
