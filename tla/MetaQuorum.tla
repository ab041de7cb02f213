----------------------------- MODULE MetaQuorum -----------------------------
(***************************************************************************)
(* The copies of one key's ObjectMeta, kept by every OSD of its placement  *)
(* group, in a bucket that never had versioning.  Gateways write, update   *)
(* and delete the key at a majority of the copies, ordered by stamps from  *)
(* their own clocks; a write a copy supersedes is stamped above what the   *)
(* copy holds and sent again.  What a commit or a delete displaced has its *)
(* shards freed; recovery, on meta's leader, brings the copies to agree.   *)
(*                                                                         *)
(* An object is named by the operation that created it.  Faults is the     *)
(* kinds of fault an instance admits:                                      *)
(*   lost   a request or its answer is lost (the caller sees a timeout)    *)
(*   late   a lost request is handled after its caller gave up on it       *)
(*   down   a copy can't be connected to, or refuses the PG's epoch        *)
(*   crash  an OSD stops between a delete's two store writes               *)
(*   unread a copy can't be read before what it may hold is freed          *)
(*   die    a gateway stops in the middle of an operation                  *)
(***************************************************************************)
EXTENDS ObjectCopy, FiniteSets

CONSTANTS Copies,       \* the OSDs holding the key's metadata
          Ops,          \* the operations, in the order of their object ids
          Kind,         \* Ops -> {"put", "update", "delete"}
          Via,          \* Ops -> the gateway it runs on
          Walls,        \* the wall-clock readings a gateway may see
          MaxRestamps,  \* MAX_RESTAMPS: rounds a write is sent at most
          MaxRacing,    \* how many operations are in flight at once
          Faults,       \* the kinds of fault admitted
          MaxFaults,    \* how many of them happen
          Recovers      \* whether meta's recovery runs in this instance

ASSUME CopiesAssumption == IsFiniteSet(Copies) /\ Copies # {}
ASSUME OpsAssumption    == Ops \subseteq Nat \ {0}
ASSUME KindAssumption   == Kind \in [Ops -> {"put", "update", "delete"}]
ASSUME WallsAssumption  == Walls \subseteq Nat
ASSUME BoundsAssumption == /\ MaxRestamps \in Nat \ {0}
                           /\ MaxRacing \in Nat \ {0}
                           /\ MaxFaults \in Nat
ASSUME RecoversAssumption == Recovers \in BOOLEAN

VARIABLES copy,    \* each OSD's copy of the key
          clock,   \* each gateway's last stamp
          op,      \* each operation's progress
          late,    \* lost requests still on their way
          heal,    \* recovery of the key
          freed,   \* the objects whose shards were freed, and by which path
          faults   \* faults so far

vars == <<copy, clock, op, late, heal, freed, faults>>

N == Cardinality(Copies)
meta_write_quorum == N \div 2 + 1
\* Mutated: one copy short of meeting every write quorum.
meta_read_quorum_short == N - meta_write_quorum
meta_read_quorum  == N - meta_write_quorum + 1
WriteQuorums == {Q \in SUBSET Copies : Cardinality(Q) >= meta_write_quorum}
ReadQuorums  == {Q \in SUBSET Copies : Cardinality(Q) >= meta_read_quorum}
Gateways == {Via[o] : o \in Ops}

-----------------------------------------------------------------------------
(* Stamps.  A full counter borrows the next millisecond, which is again    *)
(* the next number.                                                        *)
\* Mutated: the time since the last stamp (a clock that steps back underflows).
next_after_elapsed(last, seen, wall) == IF wall = last THEN last + 1 ELSE wall - last

next_after(last, seen, wall) ==
    LET floor == Larger(last, seen) IN IF wall > floor THEN wall ELSE floor + 1

-----------------------------------------------------------------------------
(* Reads: the newest object among the copies that answered, unless a copy  *)
(* among them saw a delete as new as it.                                   *)
NewestOf(Q, r) == /\ \E c \in Q : copy[c].obj = r
                  /\ \A c \in Q : ~Older(r, copy[c].obj)
Live(Q, r)     == r # None /\ \A c \in Q : copy[c].tomb < r.stamp
ReadReturns(Q, r) == Q \in ReadQuorums /\ NewestOf(Q, r) /\ Live(Q, r)
ReadNotFound(Q)   == /\ Q \in ReadQuorums
                     /\ \E c \in Q : NewestOf(Q, copy[c].obj) /\ ~Live(Q, copy[c].obj)
Readable(id) == \E Q \in ReadQuorums : \E c \in Q :
                   copy[c].obj.id = id /\ ReadReturns(Q, copy[c].obj)

-----------------------------------------------------------------------------
(* An operation's progress.                                                *)
(*   st      idle, sent (a round is out), settle (waiting RESTAMP_SETTLE), *)
(*           look (reading the copies again), free (shards to free), done  *)
(*   res     what its client heard: none, acked or failed                  *)
(*   w, exp  the ObjectMeta it writes (a delete: its stamp) and the id of  *)
(*           the object it updates                                         *)
(*   round, ans, held   the round, its answers, the highest stamp a copy   *)
(*           that superseded it holds                                      *)
(*   took, disp   the copies that took it in some round, and the object    *)
(*           each then displaced                                           *)
(*   nrem    how many objects a delete's copies reported removed           *)
(*   todo    the objects it may free, how: the path that frees them;       *)
(*           looked: the copies read since                                 *)
(*   racing  the operations with a request out when it ended               *)
(*   after   the operations acknowledged before it began (history)         *)
(*   behind  superseded in the last round it had (history)                 *)
Paths == {"unapplied", "superseded", "overwrite", "delete", "settled", "passed", "recovery"}
Answers == {"wait", "ok", "sup", "unknown", "refused"}
OpState ==
    [st : {"idle", "sent", "settle", "look", "free", "done"},
     res : {"none", "acked", "failed"}, w : Object, exp : Nat,
     round : Nat, ans : [Copies -> Answers], held : Nat,
     took : SUBSET Copies, disp : [Copies -> Nat], nrem : Nat,
     todo : SUBSET Nat, how : Paths, looked : SUBSET Copies,
     racing : SUBSET Ops, after : SUBSET Ops, behind : BOOLEAN]

NotAsked == [c \in Copies |-> "wait"]
NoRounds == [st |-> "idle", res |-> "none", w |-> None, exp |-> 0,
             round |-> 0, ans |-> NotAsked, held |-> 0,
             took |-> {}, disp |-> [c \in Copies |-> 0], nrem |-> 0,
             todo |-> {}, how |-> "settled", looked |-> {}, racing |-> {}, after |-> {},
             behind |-> FALSE]

Requests == [op : Ops, to : Copies, w : Object, exp : Nat]
Request(o, c) == [op |-> o, to |-> c, w |-> op[o].w, exp |-> op[o].exp]

Fault(kind) == kind \in Faults /\ faults < MaxFaults /\ faults' = faults + 1
InFlight == {p \in Ops : op[p].st = "sent"}
Sending  == InFlight \cup {m.op : m \in late}
Acked    == {p \in Ops : op[p].res = "acked"}
Restamps(o) == Kind[o] \in {"put", "delete"}

NoHeal == [st |-> "idle", ent |-> derive(Blank), to |-> {}, from |-> {},
           disp |-> {}, ok |-> TRUE]
HealState == [st : {"idle", "fetch", "push"}, ent : Entry,
              to : SUBSET Copies, from : SUBSET Copies,
              disp : SUBSET Nat, ok : BOOLEAN]

Init == /\ copy   = [c \in Copies |-> Blank]
        /\ clock  = [g \in Gateways |-> 0]
        /\ op     = [o \in Ops |-> NoRounds]
        /\ late   = {}
        /\ heal   = NoHeal
        /\ freed  = {}
        /\ faults = 0

-----------------------------------------------------------------------------
(* The first round goes out.                                               *)
Begin(o, w, exp) ==
    /\ op[o].st = "idle" /\ Cardinality(InFlight) < MaxRacing
    /\ op' = [op EXCEPT ![o] = [NoRounds EXCEPT !.st = "sent", !.w = w, !.exp = exp,
                                                !.round = 1, !.after = Acked]]
    /\ UNCHANGED <<copy, late, heal, freed, faults>>

Tick(o, stamp) == clock' = [clock EXCEPT ![Via[o]] = stamp]

\* A PUT's commit: its shards are written, its ObjectMeta stamped now.
PutObject(o) == \E wall \in Walls :
    LET stamp == next_after(clock[Via[o]], 0, wall) IN
    /\ Kind[o] = "put"
    /\ Begin(o, [id |-> o, stamp |-> stamp, upd |-> 0], 0)
    /\ Tick(o, stamp)

\* A delete of the current object.
DeleteObject(o) == \E wall \in Walls :
    LET stamp == next_after(clock[Via[o]], 0, wall) IN
    /\ Kind[o] = "delete"
    /\ Begin(o, [None EXCEPT !.stamp = stamp], 0)
    /\ Tick(o, stamp)

\* Mutated: the update takes a new stamp, as a PUT does.
UpdateObject_restamped(o) == \E wall \in Walls, Q \in ReadQuorums : \E c \in Q :
    LET r     == copy[c].obj
        stamp == next_after(clock[Via[o]], r.stamp, wall) IN
    /\ Kind[o] = "update"
    /\ ReadReturns(Q, r)
    /\ Begin(o, [r EXCEPT !.stamp = stamp], r.id)
    /\ Tick(o, stamp)

\* A tagging, retention or legal-hold update of the object a read returned:
\* it keeps the object's stamp and is ordered among its updates.
UpdateObject(o) == \E wall \in Walls, Q \in ReadQuorums : \E c \in Q :
    LET r   == copy[c].obj
        upd == next_after(clock[Via[o]], r.upd, wall) IN
    /\ Kind[o] = "update"
    /\ ReadReturns(Q, r)
    /\ Begin(o, [r EXCEPT !.upd = upd], r.id)
    /\ Tick(o, upd)

-----------------------------------------------------------------------------
(* A copy handles a request: what it holds then, and what it answers.      *)
Handled(o, w, exp, c) ==
    IF Kind[o] = "delete" THEN delete_object_meta(copy[c], w.stamp)
                          ELSE put_object_meta(copy[c], w, exp)

IsSuperseded(o, c) ==
    IF Kind[o] = "delete" THEN DeleteSuperseded(copy[c], op[o].w.stamp)
                          ELSE PutSuperseded(copy[c], op[o].w)
IsRefused(o, c) == /\ Kind[o] # "delete"
                   /\ ~IsSuperseded(o, c)
                   /\ ~precondition_holds(copy[c].obj, op[o].exp)

Asked(o, c) == op[o].st = "sent" /\ op[o].ans[c] = "wait"

\* superseded: the copy keeps its own and says at which stamp.
AnswersSuperseded(o, c) ==
    LET held == IF Kind[o] = "delete" THEN copy[c].obj.stamp ELSE HeldStamp(copy[c]) IN
    /\ Asked(o, c)
    /\ IsSuperseded(o, c)
    /\ op' = [op EXCEPT ![o].ans[c] = "sup", ![o].held = Larger(@, held)]
    /\ UNCHANGED <<copy, clock, late, heal, freed, faults>>

\* FailedPrecondition: an update of an object the copy no longer holds.
AnswersRefused(o, c) ==
    /\ Asked(o, c)
    /\ IsRefused(o, c)
    /\ op' = [op EXCEPT ![o].ans[c] = "refused"]
    /\ UNCHANGED <<copy, clock, late, heal, freed, faults>>

\* Taken: the copy hands back what it displaced; of a write's rounds the
\* first it took counts, a delete's removals add up.
Taken(o, c) ==
    LET was == copy[c].obj.id IN
    IF Kind[o] = "delete"
    THEN [op[o] EXCEPT !.ans[c] = "ok",
                       !.nrem = IF was # 0 THEN @ + 1 ELSE @,
                       !.todo = IF was # 0 THEN @ \cup {was} ELSE @]
    ELSE [op[o] EXCEPT !.ans[c] = "ok",
                       !.took = @ \cup {c},
                       !.disp[c] = IF c \in op[o].took THEN @ ELSE was]
AnswersOk(o, c) ==
    /\ Asked(o, c)
    /\ ~IsSuperseded(o, c) /\ ~IsRefused(o, c)
    /\ copy' = [copy EXCEPT ![c] = Handled(o, op[o].w, op[o].exp, c)]
    /\ op' = [op EXCEPT ![o] = Taken(o, c)]
    /\ UNCHANGED <<clock, late, heal, freed, faults>>

NoAnswer(o, c, ans) == Asked(o, c) /\ op' = [op EXCEPT ![o].ans[c] = ans]

\* Handled, but the answer never came: the copy may hold it, for all the
\* gateway knows.
AnswerLost(o, c) ==
    /\ NoAnswer(o, c, "unknown")
    /\ Fault("lost")
    /\ copy' = [copy EXCEPT ![c] = Handled(o, op[o].w, op[o].exp, c)]
    /\ UNCHANGED <<clock, late, heal, freed>>

\* Never handled, or (late) handled some time after its timeout.
RequestLost(o, c) ==
    /\ NoAnswer(o, c, "unknown")
    /\ Fault("lost")
    /\ \/ late' = late
       \/ "late" \in Faults /\ late' = late \cup {Request(o, c)}
    /\ UNCHANGED <<copy, clock, heal, freed>>

RequestLate(m) ==
    /\ m \in late
    /\ copy' = [copy EXCEPT ![m.to] = Handled(m.op, m.w, m.exp, m.to)]
    /\ late' = late \ {m}
    /\ UNCHANGED <<clock, op, heal, freed, faults>>

\* No connection, or StaleEpoch: certainly not applied in this round.
Unreachable(o, c) ==
    /\ NoAnswer(o, c, "refused")
    /\ Fault("down")
    /\ UNCHANGED <<copy, clock, late, heal, freed>>

\* The OSD stops after the tombstone and before the removal.
CrashInDelete(o, c) ==
    /\ Kind[o] = "delete" /\ ~IsSuperseded(o, c)
    /\ NoAnswer(o, c, "unknown")
    /\ Fault("crash")
    /\ copy' = [copy EXCEPT ![c] = put_tombstone(copy[c], op[o].w.stamp)]
    /\ UNCHANGED <<clock, late, heal, freed>>

-----------------------------------------------------------------------------
(* The round's answers are in.                                             *)
RoundOver(o) == op[o].st = "sent" /\ \A c \in Copies : op[o].ans[c] # "wait"
\* Mutated: a superseded write is not sent again.
Again_never(o) == FALSE

Again(o) == Restamps(o) /\ op[o].held # 0 /\ op[o].round < MaxRestamps
\* Mutated: a timeout counts as an answer.
Answered_any(o) == {c \in Copies : op[o].ans[c] # "refused"}

Answered(o) == {c \in Copies : op[o].ans[c] \in {"ok", "sup"}}

\* A copy holds something newer: stamp above it and send again.
Restamp(o) == \E wall \in Walls :
    LET stamp == next_after(clock[Via[o]], op[o].held, wall) IN
    /\ RoundOver(o) /\ Again(o)
    /\ op' = [op EXCEPT ![o].w.stamp = stamp, ![o].round = @ + 1,
                        ![o].ans = NotAsked, ![o].held = 0]
    /\ Tick(o, stamp)
    /\ UNCHANGED <<copy, late, heal, freed, faults>>

\* What the operation ends with; what is left of it is what it frees.
Ended(o, res, st, todo, how) ==
    [NoRounds EXCEPT !.st = st, !.res = res, !.w = op[o].w, !.exp = op[o].exp,
                     !.todo = todo, !.how = how, !.after = op[o].after,
                     !.racing = IF st = "settle" THEN Sending \ {o} ELSE {},
                     !.behind = \/ op[o].behind
                                \/ /\ op[o].round >= MaxRestamps
                                   /\ \E c \in Copies : op[o].ans[c] = "sup"]

Done(o, res) == Ended(o, res, "done", {}, "settled")

\* unapplied: no replica can have applied the write.  As the code counts
\* it, from the last round's answers.
unapplied(o) == \A c \in Copies : op[o].ans[c] = "refused"

\* settle_commit of a write short of its quorum: its own shards go only if
\* it is unapplied.
PutFailed(o) ==
    IF unapplied(o) THEN Ended(o, "failed", "free", {o}, "unapplied")
                    ELSE Done(o, "failed")

\* settle_commit and reclaimable_after_overwrite of a write that made it.
Displaced(o) == {op[o].disp[c] : c \in op[o].took \cap Answered(o)} \ {0, o}
\* Mutated: one copy's word is enough.
Unanimous_one(o) == Displaced(o) # {}

Unanimous(o) == /\ Answered(o) \subseteq op[o].took
                /\ \E x \in Displaced(o) : \A c \in Answered(o) : op[o].disp[c] = x
AllSuperseded(o) == \A c \in Copies : op[o].ans[c] = "sup" /\ c \notin op[o].took
\* Mutated: what the copies disagree on is kept.
PutCommitted_keeps(o) ==
    IF Displaced(o) # {} /\ Unanimous(o)
    THEN Ended(o, "acked", "free", Displaced(o), "overwrite")
    ELSE Done(o, "acked")

PutCommitted(o) ==
    IF AllSuperseded(o) THEN Ended(o, "acked", "free", {o}, "superseded")
    ELSE IF Displaced(o) = {} THEN Done(o, "acked")
    ELSE IF Unanimous(o) THEN Ended(o, "acked", "free", Displaced(o), "overwrite")
    ELSE Ended(o, "acked", "settle", Displaced(o), "settled")

EndPut(o) ==
    /\ Kind[o] = "put"
    /\ RoundOver(o) /\ ~Again(o)
    /\ op' = [op EXCEPT ![o] = IF Answered(o) \in WriteQuorums THEN PutCommitted(o)
                                                               ELSE PutFailed(o)]
    /\ UNCHANGED <<copy, clock, late, heal, freed, faults>>

EndUpdate(o) ==
    /\ Kind[o] = "update"
    /\ RoundOver(o)
    /\ op' = [op EXCEPT ![o] = IF Answered(o) \in WriteQuorums THEN Done(o, "acked")
                                                               ELSE Done(o, "failed")]
    /\ UNCHANGED <<copy, clock, late, heal, freed, faults>>

\* What a delete's copies removed is freed once none holds it: looked at
\* now if they all removed the same object, else after RESTAMP_SETTLE.
agreed(o) == /\ op[o].nrem >= Cardinality(Answered(o))
             /\ \A x, y \in op[o].todo : x = y
DeleteCommitted(o) ==
    IF op[o].todo = {} THEN Done(o, "acked")
    ELSE IF agreed(o) THEN Ended(o, "acked", "look", op[o].todo, "delete")
    ELSE Ended(o, "acked", "settle", op[o].todo, "settled")
EndDelete(o) ==
    /\ Kind[o] = "delete"
    /\ RoundOver(o) /\ ~Again(o)
    /\ op' = [op EXCEPT ![o] = IF Answered(o) \in WriteQuorums
                               THEN DeleteCommitted(o)
                               ELSE Done(o, "failed")]
    /\ UNCHANGED <<copy, clock, late, heal, freed, faults>>

\* The gateway stops: nobody hears of the operation again, and what it had
\* still to free stays allocated.
GatewayDies(o) ==
    /\ op[o].st \notin {"idle", "done"}
    /\ Fault("die")
    /\ op' = [op EXCEPT ![o] = Done(o, op[o].res)]
    /\ UNCHANGED <<copy, clock, late, heal, freed>>

-----------------------------------------------------------------------------
(* Freeing.                                                                *)

\* Mutated: freed without waiting or reading the copies.
Settled_at_once(o) ==
    /\ op[o].st = "settle"
    /\ op' = [op EXCEPT ![o].st = "free", ![o].racing = {}]
    /\ UNCHANGED <<copy, clock, late, heal, freed, faults>>

\* RESTAMP_SETTLE: every write with a request out when the operation ended
\* has had its last round by then, and none of its requests is on its way.
Settled(o) ==
    /\ op[o].st = "settle"
    /\ \A p \in op[o].racing : op[p].st # "sent" /\ \A m \in late : m.op # p
    /\ op' = [op EXCEPT ![o].st = "look", ![o].racing = {}]
    /\ UNCHANGED <<copy, clock, late, heal, freed, faults>>

\* unreferenced: the copies are read one after another, and an object one
\* holds as current is kept.  A copy that can't be read is passed over.
Look(o, c) ==
    /\ op[o].st = "look" /\ c \notin op[o].looked
    /\ op' = [op EXCEPT ![o].looked = @ \cup {c}, ![o].todo = @ \ {copy[c].obj.id}]
    /\ UNCHANGED <<copy, clock, late, heal, freed, faults>>
PassOver(o, c) ==
    /\ op[o].st = "look" /\ c \notin op[o].looked
    /\ Fault("unread")
    /\ op' = [op EXCEPT ![o].looked = @ \cup {c}, ![o].how = "passed"]
    /\ UNCHANGED <<copy, clock, late, heal, freed>>

Free(o) ==
    /\ \/ op[o].st = "free"
       \/ op[o].st = "look" /\ op[o].looked = Copies
    /\ freed' = freed \cup (op[o].todo \X {op[o].how})
    /\ op' = [op EXCEPT ![o].st = "done", ![o].todo = {}, ![o].how = "settled",
                        ![o].looked = {}]
    /\ UNCHANGED <<copy, clock, late, heal, faults>>

-----------------------------------------------------------------------------
(* Recovery: meta's leader lists the copies, finds the newest entry and    *)
(* who is behind it, fetches the object whole from a copy that holds it,   *)
(* and writes it (or repeats the delete) on each copy behind.              *)

\* Mutated: a delete is not repeated.
Behind_puts(S, e) == {c \in S : ~e.tombstone /\ derive(copy[c]) # e}

Behind(S, e) == {c \in S : IF e.tombstone THEN copy[c].obj # None
                                          ELSE derive(copy[c]) # e}
PlanFrom(S, e) ==
    /\ Recovers /\ heal.st = "idle"
    /\ \E c \in S : e = derive(copy[c])
    /\ \A c \in S : ~EntryOlder(e, derive(copy[c]))
    /\ ~NoEntry(e)
    /\ Behind(S, e) # {}
    /\ heal' = [NoHeal EXCEPT !.st = IF e.tombstone THEN "push" ELSE "fetch",
                              !.ent = e, !.to = Behind(S, e),
                              !.from = {c \in S : derive(copy[c]) = e}]
RecoveryPlan ==
    /\ \E c \in Copies : PlanFrom(Copies, derive(copy[c]))
    /\ UNCHANGED <<copy, clock, op, late, freed, faults>>
\* Some members don't answer the listing; a read quorum does.
PartialPlan(S) ==
    /\ S # Copies
    /\ \E c \in S : PlanFrom(S, derive(copy[c]))
    /\ Fault("down")
    /\ UNCHANGED <<copy, clock, op, late, freed>>

Fetch ==
    /\ heal.st = "fetch"
    /\ \E c \in heal.from : copy[c].obj = heal.ent.obj
    /\ heal' = [heal EXCEPT !.st = "push", !.from = {}]
    /\ UNCHANGED <<copy, clock, op, late, freed, faults>>
\* Changed: a holder has a newer object now, or none has the listed one.
Changed ==
    /\ heal.st = "fetch"
    /\ \/ \E c \in heal.from : Older(heal.ent.obj, copy[c].obj)
       \/ \A c \in heal.from : copy[c].obj # heal.ent.obj
    /\ heal' = NoHeal
    /\ UNCHANGED <<copy, clock, op, late, freed, faults>>

\* Mutated: recovery writes what it listed, whatever the copy holds by now.
Recovered_blind(c) == IF heal.ent.tombstone
                      THEN [put_tombstone(copy[c], heal.ent.obj.stamp) EXCEPT !.obj = None]
                      ELSE [copy[c] EXCEPT !.obj = heal.ent.obj]

Recovered(c) == IF heal.ent.tombstone
                THEN delete_object_meta(copy[c], heal.ent.obj.stamp)
                ELSE put_object_meta(copy[c], heal.ent.obj, 0)
Push(c) ==
    /\ heal.st = "push" /\ c \in heal.to
    /\ copy' = [copy EXCEPT ![c] = Recovered(c)]
    /\ heal' = [heal EXCEPT !.to = @ \ {c},
                            !.disp = IF Recovered(c).obj # copy[c].obj
                                     THEN @ \cup ({copy[c].obj.id} \ {0}) ELSE @]
    /\ UNCHANGED <<clock, op, late, freed, faults>>
\* A failed push (its outcome Failed), applied or not.
PushFailed(c) ==
    /\ heal.st = "push" /\ c \in heal.to
    /\ Fault("down")
    /\ \/ copy' = copy
       \/ copy' = [copy EXCEPT ![c] = Recovered(c)]
    /\ heal' = [heal EXCEPT !.to = @ \ {c}, !.ok = FALSE]
    /\ UNCHANGED <<clock, op, late, freed>>

\* free_displaced, when every copy behind was brought up.
HealDone ==
    /\ heal.st = "push" /\ heal.to = {}
    /\ freed' = IF heal.ok THEN freed \cup ((heal.disp \ {heal.ent.obj.id}) \X {"recovery"})
                         ELSE freed
    /\ heal' = NoHeal
    /\ UNCHANGED <<copy, clock, op, late, faults>>

-----------------------------------------------------------------------------
Gateway(o) ==
    \/ PutObject(o) \/ DeleteObject(o) \/ UpdateObject(o)
    \/ \E c \in Copies : \/ AnswersOk(o, c) \/ AnswersSuperseded(o, c)
                         \/ AnswersRefused(o, c)
    \/ Restamp(o) \/ EndPut(o) \/ EndUpdate(o) \/ EndDelete(o)
    \/ Settled(o) \/ Free(o)
    \/ \E c \in Copies : Look(o, c)

Failures(o) ==
    \/ \E c \in Copies : \/ AnswerLost(o, c) \/ RequestLost(o, c)
                         \/ Unreachable(o, c) \/ CrashInDelete(o, c)
                         \/ PassOver(o, c)
    \/ GatewayDies(o)

Recovery == \/ RecoveryPlan
            \/ \E S \in ReadQuorums : PartialPlan(S)
            \/ Fetch \/ Changed \/ HealDone
            \/ \E c \in Copies : Push(c) \/ PushFailed(c)

Next == \/ \E o \in Ops : Gateway(o) \/ Failures(o)
        \/ \E m \in late : RequestLate(m)
        \/ Recovery

Spec == Init /\ [][Next]_vars

(***************************************************************************)
(* The fairness of the safety-free parts: every message sent is in the end *)
(* answered or given up on, spawned tasks run, and the leader's periodic   *)
(* peering goes on.  Faults are not fair: after MaxFaults of them the      *)
(* network is quiet.                                                       *)
(***************************************************************************)
Fairness == /\ \A o \in Ops : WF_vars(Gateway(o))
            /\ WF_vars(\E m \in late : RequestLate(m))
            /\ WF_vars(Recovery)
FairSpec == Spec /\ Fairness

-----------------------------------------------------------------------------
(* Properties.                                                             *)

\* Every variable has its type (the shape of copies, requests and plans).
TypeOK == /\ copy \in [Copies -> Copy]
          /\ clock \in [Gateways -> Nat]
          /\ op \in [Ops -> OpState]
          /\ late \subseteq Requests
          /\ heal \in HealState
          /\ freed \subseteq Nat \X Paths
          /\ faults \in Nat

\* Read-your-acknowledged-writes (read_object_meta: "any read quorum of them
\* holds the newest acknowledged write"): whichever read quorum answers, a
\* read never returns anything older than an acknowledged put or update, nor
\* "not found" unless some copy saw a later delete; after an acknowledged
\* delete it never returns an object the delete covers.
NotOlderThan(o, r) == IF Kind[o] = "delete" THEN r.stamp > op[o].w.stamp
                                            ELSE ~Older(r, op[o].w)
FreshReads ==
    \A o \in Acked, Q \in ReadQuorums :
        /\ \A c \in Q : ReadReturns(Q, copy[c].obj) => NotOlderThan(o, copy[c].obj)
        /\ ReadNotFound(Q) => Kind[o] = "delete"
                              \/ \E c \in Q : copy[c].tomb >= op[o].w.stamp

\* What makes it so: an acknowledged operation is covered, on a write quorum
\* of copies and for good, by what the copy holds: the write itself or a newer
\* one, or a delete as new.  (A delete is covered by its tombstone.)
Covers(cp, kind, w) ==
    \/ cp.tomb >= w.stamp
    \/ IF kind = "delete" THEN cp.obj.stamp > w.stamp ELSE ~Older(cp.obj, w)
Covered(o, cp) == Covers(cp, Kind[o], op[o].w)
AckedIsHeld == \A o \in Acked : \E A \in WriteQuorums :
                   \A c \in A : Covered(o, copy[c])

\* Restamping (put_object_meta_with, delete_meta_from_all): an operation that
\* began after another was acknowledged outranks it when it is acknowledged
\* itself, whatever the gateways' clocks say: no read returns the older one's
\* object any more.  (Unless it ran out of rounds, still superseded.)
LastWriterWins ==
    \A o \in Acked : \A p \in op[o].after :
        (Restamps(o) /\ Kind[p] = "put" /\ ~op[o].behind) => ~Readable(p)

\* The same as far as every instance keeps it: a put that began later always
\* outranks; a delete does unless some copy saw a delete above its stamp,
\* which that copy does not say (it answers "superseded" of objects only).
SawLaterDelete(o) == Kind[o] = "delete" /\ \E c \in Copies : copy[c].tomb > op[o].w.stamp
LaterWins ==
    \A o \in Acked : \A p \in op[o].after :
        (Restamps(o) /\ Kind[p] = "put" /\ ~op[o].behind) => ~Readable(p) \/ SawLaterDelete(o)

\* The data-safety property of every freeing path (settle_commit,
\* reclaimable_after_overwrite, unreferenced): of two racing writes, while no
\* request is lost and nobody stops, an object a quorum read can return never
\* has its shards freed.
ReadableIntact == faults = 0 => \A f \in freed : ~Readable(f[1])

\* The same of what is freed after RESTAMP_SETTLE and a read of every copy
\* (spawn_overwrite_reclaim, an unagreed delete: "an object gone from every
\* replica can't come back") and of a commit every copy superseded: whatever
\* races and fails, those never free an object a read can return.
SettledFreesSafe == \A f \in freed : f[2] \in {"settled", "superseded"} => ~Readable(f[1])

\* As far as that is so with recovery writing copies meanwhile: of the objects
\* whose put was acknowledged.
AckedFreesSafe == \A f \in freed : f[2] \in {"settled", "superseded"} /\ op[f[1]].res = "acked"
                                       => ~Readable(f[1])

\* The same of what is freed when a copy could not be read (reclaim_unsettled:
\* "a copy that can't be read is passed over"; reclaimable_after_overwrite: "X
\* is older than this write, which a quorum holds, so X is never read again").
PassedOverFreesSafe == \A f \in freed : f[2] = "passed" => ~Readable(f[1])

\* The same of what an overwrite frees at once, on the copies' agreement
\* (reclaimable_after_overwrite: "if all of them held X until this write, X's
\* own write is done").
OverwriteFreesSafe == \A f \in freed : f[2] = "overwrite" => ~Readable(f[1])

\* The same of what recovery frees (free_displaced: "every acting member now
\* holds the newest, so those were the last copies naming them").
RecoveryFreesSafe == \A f \in freed : f[2] = "recovery" => ~Readable(f[1])

\* MetaWriteError::unapplied: "No replica can have applied the write".  When
\* a failed commit is about to free the shards it sent, no copy holds it.
UnappliedIsHeldNowhere ==
    \A o \in Ops : (op[o].st = "free" /\ op[o].res = "failed")
                     => \A c \in Copies : copy[c].obj.id # o

\* What pg_index::derive takes for granted: "a write never lands under a
\* newer tombstone, and a delete removes it".
NoObjectUnderTombstone ==
    \A c \in Copies : copy[c].obj # None => copy[c].obj.stamp > copy[c].tomb

\* The inductive invariant behind AckedIsHeld and FreshReads: every write on
\* its way, held or being recovered is stamped (an unstamped one would replace
\* anything), and a copy that answered a round of a write covers it.
Stamped ==
    /\ \A o \in Ops : /\ op[o].st \in {"idle", "sent"} => op[o].res = "none"
                      /\ op[o].st # "idle" => op[o].w.stamp > 0
    /\ \A m \in late : m.w.stamp > 0
    /\ \A c \in Copies : copy[c].obj # None => copy[c].obj.stamp > 0
    /\ heal.st # "idle" => heal.ent.obj.stamp > 0
AnsweredIsHeld == \A o \in Ops, c \in Copies :
    (op[o].st = "sent" /\ op[o].ans[c] \in {"ok", "sup"}) => Covered(o, copy[c])
IInv == TypeOK /\ Stamped /\ AnsweredIsHeld /\ AckedIsHeld

\* The inductive invariant behind LaterWins.  Every object held, sent or being
\* recovered is named by a put, which has gone out at that stamp or above; a
\* round that was superseded knows above what to stamp the next; and while a
\* later operation is out, a write quorum goes on covering the earlier put,
\* so that the first of those copies to take the later one ranks it above.
Named(x) == x.id # 0 => /\ x.id \in Ops /\ Kind[x.id] = "put"
                        /\ op[x.id].st # "idle" /\ x.stamp <= op[x.id].w.stamp
NamesKept == /\ \A o \in Ops : op[o].st # "idle" =>
                    /\ Named(op[o].w)
                    /\ Kind[o] = "put" => op[o].w.id = o /\ op[o].w.stamp <= clock[Via[o]]
                    /\ Kind[o] = "delete" => op[o].w.id = 0
             /\ \A m \in late : Named(m.w)
             /\ \A c \in Copies : Named(copy[c].obj)
             /\ heal.st # "idle" => Named(heal.ent.obj)
SupersededKnows == \A o \in Ops, c \in Copies :
    (op[o].st = "sent" /\ op[o].ans[c] = "sup") => op[o].held # 0
AfterAcked == \A o \in Ops : \A p \in op[o].after : op[p].res = "acked" /\ p # o
Outranks(o, p) == \/ IF Kind[o] = "delete" THEN op[o].w.stamp >= op[p].w.stamp
                                           ELSE ~Older(op[o].w, op[p].w)
                  \/ SawLaterDelete(o)
RanksOn(A, o, p) == \A c \in A : /\ Covered(p, copy[c])
                                 /\ op[o].ans[c] = "ok" => Outranks(o, p)
Ranked == \A o \in Ops : \A p \in op[o].after :
    Restamps(o) =>
        /\ op[o].st = "sent" => \E A \in WriteQuorums : RanksOn(A, o, p)
        /\ op[o].res = "acked" /\ ~op[o].behind => Outranks(o, p)
RankInv == NamesKept /\ SupersededKnows /\ AfterAcked /\ Ranked

\* A copy only ever moves up the write order: whatever handler runs, the
\* object it held is still there, replaced by a newer write, or covered by
\* its tombstone, and the tombstone never goes down.
CopyAdvances(old, new) ==
    /\ new.tomb >= old.tomb
    /\ old.obj # None => ~Older(new.obj, old.obj) \/ new.tomb >= old.obj.stamp
CopiesOnlyAdvance == [][\A c \in Copies : CopyAdvances(copy[c], copy'[c])]_vars

\* Nothing leaks while nothing fails: once every operation has ended and the
\* copies agree, each object written is current or has had its shards freed.
AllEnded == heal.st = "idle" /\ late = {} /\ \A o \in Ops : op[o].st \in {"idle", "done"}
Agree == \A c, d \in Copies : copy[c].obj = copy[d].obj
NothingLeaks ==
    (AllEnded /\ Agree /\ faults = 0) =>
        \A o \in Ops : (Kind[o] = "put" /\ op[o].st = "done")
                         => (\E how \in Paths : <<o, how>> \in freed)
                            \/ \E c \in Copies : copy[c].obj.id = o

\* Healing (queue_heal, recovery_plan, recover_object): once faults stop every
\* operation ends, and the copies come to agree for good: every read quorum
\* gives the same answer.
ReadsAgree == \A Q, R \in ReadQuorums : \A c \in Q :
                  ReadReturns(Q, copy[c].obj) => ReadReturns(R, copy[c].obj)
Converges == <>[](AllEnded /\ ReadsAgree)
=============================================================================
