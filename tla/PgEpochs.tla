------------------------------ MODULE PgEpochs ------------------------------
(***************************************************************************)
(* A placement group changing its members under writes of one of its keys. *)
(* Meta keeps the group: its epoch, the acting member of each position,    *)
(* the member it is to go back to (up) and, for a member still being       *)
(* filled, whom it replaced.  Every change of the acting set is one commit *)
(* that raises the epoch; the OSDs concerned are told, at best.  A gateway *)
(* sends the epoch a write was placed under, and an OSD refuses one older  *)
(* than it knows.  Recovery moves the group back to its up set, brings     *)
(* every member that answers to the newest copy it was shown, and records  *)
(* the fill done.                                                          *)
(*                                                                         *)
(* A write is a number, in the order of stamps (MetaQuorum is about how    *)
(* those are chosen); write 1 is the object as every member has it at the  *)
(* beginning.  A write placed again after a refusal is a new one.  A group *)
(* is read and committed on condition that it is unchanged, so each change *)
(* is one step.  An OSD checks the epoch and stores a write in one step:   *)
(* what it is told in between could as well reach it after.  Failure       *)
(* domains are left out: any OSD in service may or may not suit a          *)
(* position.  Deletes, and the shards behind the copies, are not in this   *)
(* module.                                                                 *)
(***************************************************************************)
EXTENDS Naturals, FiniteSets, FiniteSetsExt, Functions

CONSTANTS Osds,
          Members,    \* the acting set of epoch 1; a position goes by its member then
          Nil,
          NWrites,
          MaxEpoch,   \* how often the group is changed
          Faults,     \* the kinds of fault admitted: an OSD stopping (down) or set
                      \* out of service, still answering (drain), a request or
                      \* its answer lost (lost), a gateway waiting no longer (late)
          MaxFaults   \* how many of them happen

Positions == Members
Writes    == 1..NWrites
Epochs    == 1..MaxEpoch

ASSUME MembersAssumption == /\ Members \subseteq Osds /\ Nil \notin Osds
                            /\ IsFiniteSet(Members) /\ Members # {}
ASSUME BoundsAssumption  == NWrites \in Nat \ {0} /\ MaxEpoch \in Nat \ {0} /\ MaxFaults \in Nat

VARIABLES pg,       \* the group, as committed
          node,     \* each OSD: in service, in service but down, or out
          known,    \* the epoch each OSD knows; 0 for none, as after a start
          pushes,   \* epochs on their way to OSDs
          held,     \* the write each OSD's copy is of; 0 for none
          writes,   \* each write's placement, how it fares at each OSD, and
                    \* the group's epoch when it ended (history)
          pass,     \* recovery's pass over the group
          withdraws,\* copies of members replaced, to be withdrawn
          faults    \* how many so far

vars == <<pg, node, known, pushes, held, writes, pass, withdraws, faults>>

Home == [p \in Positions |-> p]
Acting == Range(pg.acting)
NoPass == [epoch |-> 0, newest |-> 0, holders |-> {}, todo |-> {}, failed |-> FALSE, strays |-> {}]
Unplaced == [st |-> "new", epoch |-> 0, end |-> 0, to |-> {}, at |-> [o \in Osds |-> "none"]]

Init == /\ pg = [epoch |-> 1, acting |-> Home, up |-> Home, from |-> [p \in Positions |-> Nil]]
        /\ node = [o \in Osds |-> "in"] /\ known = [o \in Osds |-> 1] /\ pushes = {}
        /\ held = [o \in Osds |-> IF o \in Members THEN 1 ELSE 0]
        /\ writes = [w \in Writes |-> IF w = 1 THEN [Unplaced EXCEPT !.st = "acked"] ELSE Unplaced]
        /\ pass = NoPass /\ withdraws = {}
        /\ faults = 0

meta_write_quorum == Cardinality(Positions) \div 2 + 1
meta_read_quorum  == Cardinality(Positions) - meta_write_quorum + 1

Fault(kind) == kind \in Faults /\ faults < MaxFaults /\ faults' = faults + 1

Answers(o) == node[o] # "down"
\* usable_address: in service, whether it answers or not.
usable_address(o) == node[o] # "out"

-----------------------------------------------------------------------------
(* OSDs, and what they know.                                               *)

\* Mutated: the last epoch heard of.
learn_last(o, e) == [known EXCEPT ![o] = e]
\* The epoch known after hearing of e: never an older one.
learn(o, e) == [known EXCEPT ![o] = Max({@, e})]

GoesDown(o) == /\ node[o] = "in" /\ Fault("down")
               /\ node' = [node EXCEPT ![o] = "down"]
               /\ known' = [known EXCEPT ![o] = 0]
               /\ pushes' = {m \in pushes : m[1] # o}
               /\ writes' = [w \in Writes |-> [writes[w] EXCEPT !.at[o] =
                                 IF @ = "sent" THEN "failed" ELSE @]]
               /\ UNCHANGED <<pg, held, pass, withdraws>>

ComesBack(o) == /\ node[o] = "down"
                /\ node' = [node EXCEPT ![o] = "in"]
                /\ UNCHANGED <<pg, known, pushes, held, writes, pass, withdraws, faults>>

\* Only a request looks at what an OSD knows: an epoch told before one came
\* might as well be told when it has come.
Asked(o) == o \in pass.todo \/ \E w \in Writes : writes[w].at[o] = "sent"

\* Registering, an OSD is told the epoch of every group, as it is by then.
Registers(o) == /\ Answers(o) /\ known[o] = 0 /\ Asked(o)
                /\ known' = learn(o, pg.epoch)
                /\ UNCHANGED <<pg, node, pushes, held, writes, pass, withdraws, faults>>

Drains(o) == /\ node[o] = "in" /\ Fault("drain")
             /\ node' = [node EXCEPT ![o] = "out"]
             /\ UNCHANGED <<pg, known, pushes, held, writes, pass, withdraws>>

set_pg_epochs(o, e) == /\ <<o, e>> \in pushes /\ Answers(o)
                       /\ Asked(o)
                       /\ known' = learn(o, e)
                       /\ pushes' = pushes \ {<<o, e>>}
                       /\ UNCHANGED <<pg, node, held, writes, pass, withdraws, faults>>

decide(k, e) == CASE k > e -> "refuse" [] k = e -> "accept" [] OTHER -> "ask"

\* check: an OSD that does not know the epoch of a request asks meta, of which
\* any node answers, with what it has applied; if that is no newer the request
\* is served.  (An answer older than the request's epoch is left out: only a
\* write placed before could tell, and that might have come before.)
Told(o, e)   == IF decide(known[o], e) = "ask" THEN e..pg.epoch ELSE {known[o]}
Serves(o, e) == decide(known'[o], e) # "refuse"

-----------------------------------------------------------------------------
(* Meta: the members of the group.                                         *)

\* An OSD at more positions than it had, and more than one.
adds_shared_member(new) ==
    LET Count(m, o) == Cardinality({p \in Positions : m[p] = o})
    IN  \E o \in Range(new) : Count(new, o) > 1 /\ Count(new, o) > Count(pg.acting, o)

\* A change of the group, if it is one, and who is told of its epoch.
commit_pgs(new) ==
    /\ ~adds_shared_member(new.acting)
    /\ pg' = new
    /\ pushes' = IF new.epoch = pg.epoch THEN pushes
                 ELSE LET told == {o \in Acting \cup Range(new.acting) : Answers(o)}
                      IN  pushes \cup (told \X {new.epoch})

\* An up member gone for good, where another acts, is let go.
without_gone_up == [pg EXCEPT !.up = [p \in Positions |->
    IF pg.up[p] # pg.acting[p] /\ node[pg.up[p]] = "out" THEN pg.acting[p] ELSE pg.up[p]]]

\* Whether each position of f may be given to the OSD f has for it.
Spares(base, f) == /\ IsInjective(f)
                   /\ \A p \in DOMAIN f : /\ node[f[p]] = "in" /\ f[p] \notin Acting
                                          /\ \A q \in Positions \ {p} : f[p] # base.up[q]

\* Mutated: the stand-in isn't recorded as to be filled.
stand_in_filled(base, f) ==
    [epoch  |-> base.epoch + 1,
     acting |-> [p \in Positions |-> IF p \in DOMAIN f THEN f[p] ELSE base.acting[p]],
     up     |-> [p \in Positions |->
                    IF p \in DOMAIN f /\ node[base.acting[p]] = "out" /\ base.up[p] = base.acting[p]
                    THEN f[p] ELSE base.up[p]],
     from   |-> base.from]

stand_in(base, f) ==
    [epoch  |-> base.epoch + 1,
     acting |-> [p \in Positions |-> IF p \in DOMAIN f THEN f[p] ELSE base.acting[p]],
     up     |-> [p \in Positions |->
                    IF p \in DOMAIN f /\ node[base.acting[p]] = "out" /\ base.up[p] = base.acting[p]
                    THEN f[p] ELSE base.up[p]],
     from   |-> [p \in Positions |-> IF p \in DOMAIN f THEN base.acting[p] ELSE base.from[p]]]

\* Members in one of these states are stood in for; a position nothing suits
\* is left.
StandsIn(base, states) ==
    /\ pg.epoch < MaxEpoch
    /\ \E P \in SUBSET {p \in Positions : node[pg.acting[p]] \in states} :
          \E f \in [P -> Osds] : P # {} /\ Spares(base, f) /\ commit_pgs(stand_in(base, f))
    /\ UNCHANGED <<node, known, held, writes, pass, withdraws, faults>>

\* keep_acting_sets: a member out of service, or down for long enough.
Replaces == StandsIn(without_gone_up, {"out", "down"})
\* with_usable_acting: before a write is placed, a member out of service.
ReplacesOut == StandsIn(pg, {"out"})

LetsGo == /\ without_gone_up # pg
          /\ commit_pgs(without_gone_up)
          /\ UNCHANGED <<node, known, held, writes, pass, withdraws, faults>>

\* Where the group is to move: not onto a member that has another position,
\* nor two positions onto one (of which the first is chosen).
Movable == {p \in Positions : /\ pg.up[p] # pg.acting[p] /\ usable_address(pg.up[p])
                              /\ pg.up[p] \notin Acting}
remap_positions == {P \in SUBSET Movable : /\ \A p, q \in P : pg.up[p] = pg.up[q] => p = q
                                           /\ {pg.up[p] : p \in P} = {pg.up[p] : p \in Movable}}

\* Mutated: the member is to be filled from itself.
commit_remap_self(P) ==
    commit_pgs([epoch  |-> pg.epoch + 1,
                acting |-> [p \in Positions |-> IF p \in P THEN pg.up[p] ELSE pg.acting[p]],
                up     |-> pg.up,
                from   |-> [p \in Positions |-> IF p \in P THEN pg.up[p] ELSE pg.from[p]]])

commit_remap(P) ==
    commit_pgs([epoch  |-> pg.epoch + 1,
                acting |-> [p \in Positions |-> IF p \in P THEN pg.up[p] ELSE pg.acting[p]],
                up     |-> pg.up,
                from   |-> [p \in Positions |-> IF p \in P THEN pg.acting[p] ELSE pg.from[p]]])

-----------------------------------------------------------------------------
(* A write: placed, checked and applied at each member, answered.          *)

\* Sent to the members in service; one that is not fails at once.
Placed == [st |-> "placed", epoch |-> pg.epoch, end |-> 0, to |-> Acting,
           at |-> [o \in Osds |-> IF o \notin Acting THEN "none"
                                 ELSE IF node[o] = "in" THEN "sent" ELSE "failed"]]
Places(w) ==
    /\ writes[w].st = "new" /\ \A v \in Writes : v < w => writes[v].st # "new"
    /\ writes' = [writes EXCEPT ![w] = Placed]
    /\ UNCHANGED <<pg, node, known, pushes, held, pass, withdraws, faults>>

\* put_object_meta: an OSD refuses a write placed under an older epoch than it
\* knows or is told of, or stores it, unless it holds a newer one.
put_object_meta(w, o) ==
    /\ writes[w].at[o] = "sent"
    /\ \E e \in Told(o, writes[w].epoch) : known' = learn(o, e)
    /\ \/ /\ ~Serves(o, writes[w].epoch)
          /\ writes' = [writes EXCEPT ![w].at[o] = "failed"]
          /\ UNCHANGED <<held, faults>>
       \/ /\ Serves(o, writes[w].epoch)
          /\ held' = [held EXCEPT ![o] = Max({@, w})]
          /\ \/ writes' = [writes EXCEPT ![w].at[o] = "took"] /\ UNCHANGED faults
             \/ writes' = [writes EXCEPT ![w].at[o] = "failed"] /\ Fault("lost")
    /\ UNCHANGED <<pg, node, pushes, pass, withdraws>>

Lost(w, o) == /\ writes[w].at[o] = "sent" /\ Fault("lost")
              /\ writes' = [writes EXCEPT ![w].at[o] = "failed"]
              /\ UNCHANGED <<pg, node, known, pushes, held, pass, withdraws>>

Took(w) == {o \in writes[w].to : writes[w].at[o] = "took"}
Waiting(w) == {o \in writes[w].to : writes[w].at[o] = "sent"}
\* Acknowledged, whatever the group's epoch is by then, or short of its quorum.
Verdict(w) == IF Cardinality(Took(w)) >= meta_write_quorum THEN "acked" ELSE "failed"
Ended(w) == /\ writes[w].st = "placed"
            /\ writes' = [writes EXCEPT ![w] =
                   [st |-> Verdict(w), epoch |-> @.epoch, end |-> pg.epoch, to |-> {},
                    at |-> [o \in Osds |-> IF o \in Waiting(w) THEN @.at[o] ELSE "none"]]]
            /\ UNCHANGED <<pg, node, known, pushes, held, pass, withdraws>>

Ends(w)     == Waiting(w) = {} /\ Ended(w) /\ UNCHANGED faults
\* The gateway waits no longer; what it sent goes on.
TimesOut(w) == Waiting(w) # {} /\ Ended(w) /\ Fault("late")

Writing(w) == (\E o \in Osds : put_object_meta(w, o)) \/ Ends(w)
Losing(w)  == (\E o \in Osds : Lost(w, o)) \/ TimesOut(w)

-----------------------------------------------------------------------------
(* Recovery's pass over the group.                                         *)

Listed == {o \in Acting : node[o] = "in"}
\* Members filled from, and up members that don't act, if they may be asked.
Strays == {o \in ((Range(pg.from) \cup Range(pg.up)) \ {Nil}) \ Acting : usable_address(o) /\ Answers(o)}
Filling == \E p \in Positions : pg.from[p] # Nil
Idle == pass = NoPass /\ withdraws = {}

Remaps == /\ Idle /\ pg.epoch < MaxEpoch /\ Movable # {}
          /\ \E P \in remap_positions : commit_remap(P)
          /\ UNCHANGED <<node, known, held, writes, pass, withdraws, faults>>

\* Mutated: a fill with nothing left to copy needs no pass.
recovery_need_degraded(behind) == behind # {}
recovery_need(behind) == Filling \/ behind # {}

\* recovery_plan: nothing is decided on fewer members than a read needs.
Plans == LET newest == Max({held[o] : o \in Listed \cup Strays})
             behind == {o \in Listed : held[o] # newest}
         IN  /\ Idle /\ Cardinality(Listed) >= meta_read_quorum
             /\ recovery_need(behind)
             /\ pass' = [NoPass EXCEPT !.epoch = pg.epoch, !.newest = newest, !.todo = behind,
                            !.holders = IF behind = {} THEN {} ELSE {o \in Listed \cup Strays : held[o] = newest},
                            !.strays = {<<o, held[o]>> : o \in {x \in Strays : held[x] # 0}}]
             /\ UNCHANGED <<pg, node, known, pushes, held, writes, withdraws, faults>>

\* recover_object: before the first member behind is given the object it is
\* read from one listed with it (holders, empty once it is read).  If that
\* has a newer one by now the next pass sees to it; if none has it any more
\* this pass failed.
Has(o) == Answers(o) /\ held[o] = pass.newest
Changed == /\ pass.todo # {} /\ pass.holders # {}
           /\ \/ /\ \E o \in pass.holders : Answers(o) /\ held[o] > pass.newest
                 /\ pass' = [pass EXCEPT !.todo = {}, !.holders = {}]
              \/ /\ \A o \in pass.holders : ~Has(o)
                 /\ pass' = [pass EXCEPT !.todo = {}, !.holders = {}, !.failed = TRUE]
           /\ UNCHANGED <<pg, node, known, pushes, held, writes, withdraws, faults>>

\* Given to a member behind, under the epoch of the pass.
Recovers(o) ==
    /\ o \in pass.todo
    /\ pass.holders = {} \/ \E x \in pass.holders : Has(x)
    /\ IF Answers(o) THEN \E e \in Told(o, pass.epoch) : known' = learn(o, e) ELSE known' = known
    /\ LET takes == Answers(o) /\ Serves(o, pass.epoch)
       IN  /\ held' = IF takes THEN [held EXCEPT ![o] = Max({@, pass.newest})] ELSE held
           /\ pass' = [pass EXCEPT !.holders = {}, !.todo = @ \ {o}, !.failed = @ \/ ~takes]
    /\ UNCHANGED <<pg, node, pushes, writes, withdraws, faults>>

CanFinish == /\ pass.todo = {} /\ ~pass.failed /\ Filling /\ pg.epoch = pass.epoch
             /\ \A p \in Positions : pg.from[p] # Nil => usable_address(pg.acting[p])

\* finish_filling: the fill recorded done, what strays were listed with to go.
finish_filling ==
    /\ pass.epoch # 0 /\ CanFinish
    /\ pg' = [pg EXCEPT !.from = [p \in Positions |-> Nil]]
    /\ pass' = NoPass /\ withdraws' = pass.strays
    /\ UNCHANGED <<node, known, pushes, held, writes, faults>>

\* The pass is over, or another epoch interrupted it.
Stops == /\ pass.epoch # 0
         /\ (pass.todo = {} /\ ~CanFinish) \/ pg.epoch # pass.epoch
         /\ pass' = NoPass
         /\ UNCHANGED <<pg, node, known, pushes, held, writes, withdraws, faults>>

\* One write is taken back, and nothing else.
withdraw(o, w) == [held EXCEPT ![o] = IF @ = w THEN 0 ELSE @]
Withdraws(o, w) == /\ <<o, w>> \in withdraws
                   /\ held' = IF Answers(o) THEN withdraw(o, w) ELSE held
                   /\ withdraws' = withdraws \ {<<o, w>>}
                   /\ UNCHANGED <<pg, node, known, pushes, writes, pass, faults>>

-----------------------------------------------------------------------------

Nodes == \E o \in Osds : GoesDown(o) \/ Drains(o) \/ Registers(o) \/ \E e \in Epochs : set_pg_epochs(o, e)
Upkeep == Replaces \/ ReplacesOut \/ LetsGo
Recovery == Remaps \/ Plans \/ Changed \/ finish_filling \/ Stops
Directed == \/ \E o \in Osds : Recovers(o)
            \/ \E o \in Osds, w \in Writes : Withdraws(o, w)

Next == \/ Nodes \/ Upkeep \/ Recovery \/ Directed \/ \E o \in Osds : ComesBack(o)
        \/ \E w \in Writes : Places(w) \/ Writing(w) \/ Losing(w)

Spec == Init /\ [][Next]_vars

\* Meta's loops look again every few seconds, a request that reached an OSD
\* is served, and an OSD that is down is brought back.
FairSpec == /\ Spec /\ WF_vars(Upkeep) /\ WF_vars(Recovery) /\ WF_vars(Directed)
            /\ \A w \in Writes : WF_vars(Writing(w))
            /\ \A o \in Osds : WF_vars(ComesBack(o))

-----------------------------------------------------------------------------
(* Properties.                                                             *)

Groups == [epoch : Epochs, acting : [Positions -> Osds], up : [Positions -> Osds],
           from : [Positions -> Osds \cup {Nil}]]
Placements == [st : {"new", "placed", "acked", "failed"}, epoch : 0..MaxEpoch, end : 0..MaxEpoch,
               to : SUBSET Osds, at : [Osds -> {"none", "sent", "took", "failed"}]]
Passes == [epoch : 0..MaxEpoch, newest : 0..NWrites, holders : SUBSET Osds,
           todo : SUBSET Osds, failed : BOOLEAN, strays : SUBSET (Osds \X Writes)]

\* Every variable has its type, no OSD has two positions, no OSD knows, and
\* nothing was placed under, an epoch that was not committed, and a member
\* being filled replaced another.
TypeOK == /\ pg \in Groups /\ IsInjective(pg.acting)
          /\ \A p \in Positions : pg.from[p] # pg.acting[p]
          /\ node \in [Osds -> {"in", "down", "out"}]
          /\ known \in [Osds -> 0..pg.epoch] /\ pushes \subseteq Osds \X (2..pg.epoch)
          /\ held \in [Osds -> 0..NWrites]
          /\ writes \in [Writes -> Placements]
          /\ \A w \in Writes : writes[w].epoch <= pg.epoch
          /\ pass \in Passes /\ pass.epoch <= pg.epoch
          /\ withdraws \subseteq Osds \X Writes
          /\ faults \in 0..MaxFaults

\* Members that will not take a write: failed, or knowing a newer epoch.
FencedAt(w) == {o \in writes[w].to : \/ writes[w].at[o] = "failed"
                                     \/ writes[w].at[o] = "sent" /\ known[o] > writes[w].epoch}
Fenced(w) == Cardinality(FencedAt(w)) > Cardinality(Positions) - meta_write_quorum

\* Once too many members know a newer epoch for a write to be acknowledged
\* under the one it was placed by, that stays so: through restarts that
\* forget every epoch, and epochs told late or in another order.
FenceHolds == [][\A w \in Writes : writes[w].st = "placed" /\ Fenced(w)
                    => Fenced(w)' \/ writes'[w].st = "failed"]_vars

\* When nothing fails any more the group comes to rest, however often it was
\* moved: filled, every member in service with every acknowledged write.
Rested == /\ ~Filling
          /\ \A w \in Writes : writes[w].st = "acked" => \A o \in Acting : node[o] = "in" => held[o] >= w
Settles == <>[]Rested

\* Every read of the members hears from one that has write w or a newer one.
Kept(w) == \A Q \in kSubset(meta_read_quorum, Acting) : \E o \in Q : held[o] >= w

\* recovery_plan: "nothing is decided on a view that may be old"; pg_epochs: "a
\* write placed under an acting set that has since changed lands nowhere".  Once
\* the members that were to be filled are, whoever of them answers a read, one
\* has every acknowledged write or a newer one.
QuorumsHold == ~Filling => \A w \in Writes : writes[w].st = "acked" => Kept(w)

\* The same of the writes acknowledged while the group was as they were placed.
\* One acknowledged later, by members that have not heard of the newer epoch,
\* can come after recovery has listed what they hold; of it QuorumsHold fails.
InTime(w) == writes[w].st = "acked" /\ writes[w].end = writes[w].epoch
InTimeQuorumsHold == ~Filling => \A w \in Writes : InTime(w) => Kept(w)

\* placement_cache: "staleness costs a retry, never a wrong answer".  A read
\* that asks the members of epoch 1 finds nothing, and asks meta again, or
\* every acknowledged write.
CachedReadsFresh == \A w \in Writes : InTime(w) =>
    \A Q \in kSubset(meta_read_quorum, {o \in Members : Answers(o)}) :
        (\A o \in Q : held[o] = 0) \/ \E o \in Q : held[o] >= w

\* stand_in: "when it is back, recovery moves the PG back to it".
MovesToLiving == [][\A p \in Positions : pg'.acting[p] # pg.acting[p] => node[pg'.acting[p]] # "down"]_vars
=============================================================================
