--------------------------- MODULE PgEpochsProofs ---------------------------
(***************************************************************************)
(* Proofs about PgEpochs for any number of OSDs, members, writes, epochs   *)
(* and faults: its types (no OSD at two positions, no epoch known that was *)
(* not committed, no member filled from itself), and that a write fenced   *)
(* off by a newer epoch stays so.                                          *)
(***************************************************************************)
EXTENDS PgEpochs, NumberFacts, FiniteSetTheorems, TLAPS

-----------------------------------------------------------------------------
(* The operators the model is built from.                                  *)

\* Hearing of a committed epoch: it is known, nothing older than before.
LEMMA LearnType ==
    ASSUME TypeOK, NEW o \in Osds, NEW e \in 0..pg.epoch
    PROVE  /\ learn(o, e) \in [Osds -> 0..pg.epoch]
           /\ \A x \in Osds : learn(o, e)[x] >= known[x]
<1>1. pg.epoch \in Nat
  BY BoundsAssumption DEF TypeOK, Groups, Epochs
<1>2. known \in [Osds -> 0..pg.epoch]
  BY DEF TypeOK
<1>3. known[o] \in Nat /\ e \in Nat /\ known[o] <= pg.epoch /\ e <= pg.epoch
  BY <1>1, <1>2
<1>4. Max({known[o], e}) \in 0..pg.epoch /\ Max({known[o], e}) >= known[o]
  BY <1>1, <1>3, MaxOfTwo
<1> HIDE DEF Max
<1> QED BY <1>1, <1>2, <1>4 DEF learn

\* What an OSD may be told was committed, and is the epoch it knows already
\* unless it knows an older one than the request's.
LEMMA ToldType ==
    ASSUME TypeOK, NEW o \in Osds, NEW e \in Nat, NEW t \in Told(o, e)
    PROVE  t \in 0..pg.epoch /\ (known[o] > e => t = known[o])
<1>1. pg.epoch \in Nat /\ known[o] \in 0..pg.epoch
  BY BoundsAssumption DEF TypeOK, Groups, Epochs
<1>2. CASE decide(known[o], e) = "ask"
  <2>1. t \in e..pg.epoch
    BY <1>2 DEF Told
  <2>2. ~(known[o] > e)
    BY <1>2 DEF decide
  <2> QED BY <1>1, <2>1, <2>2
<1>3. CASE decide(known[o], e) # "ask"
  BY <1>1, <1>3 DEF Told
<1> QED BY <1>2, <1>3

-----------------------------------------------------------------------------
(* Types.                                                                  *)

\* What a proof needs of a state's types.
LEMMA Types ==
    ASSUME TypeOK
    PROVE  /\ pg.epoch \in Nat /\ pg.epoch >= 1 /\ pg.epoch <= MaxEpoch
           /\ pg.acting \in [Positions -> Osds] /\ pg.up \in [Positions -> Osds]
           /\ pg.from \in [Positions -> Osds \cup {Nil}]
           /\ Acting \subseteq Osds /\ \A p \in Positions : pg.acting[p] \in Acting
           /\ \A w \in Writes : writes[w] \in Placements
           /\ \A o \in Osds : known[o] \in Nat /\ held[o] \in Nat
BY BoundsAssumption DEF TypeOK, Groups, Epochs, Acting, Range

\* The initial state has its type.
LEMMA TypeInit == Init => TypeOK
<1> SUFFICES ASSUME Init PROVE TypeOK
  OBVIOUS
<1>0. /\ NWrites \in Nat /\ MaxEpoch \in Nat /\ MaxFaults \in Nat
      /\ NWrites >= 1 /\ MaxEpoch >= 1
  BY BoundsAssumption
<1>1. Home \in [Positions -> Osds] /\ IsInjective(Home)
  BY MembersAssumption DEF Home, Positions, IsInjective
<1>2. pg \in Groups /\ pg.epoch = 1 /\ pg.acting = Home
  BY <1>0, <1>1 DEF Init, Groups, Epochs
<1>3. \A p \in Positions : pg.from[p] # pg.acting[p]
  BY <1>1, MembersAssumption DEF Init
<1>4. Unplaced \in Placements /\ [Unplaced EXCEPT !.st = "acked"] \in Placements
      /\ Unplaced.epoch = 0 /\ [Unplaced EXCEPT !.st = "acked"].epoch = 0
  BY <1>0 DEF Unplaced, Placements
<1>5. writes \in [Writes -> Placements] /\ \A w \in Writes : writes[w].epoch <= 1
  BY <1>4 DEF Init
<1>6. pass \in Passes /\ pass.epoch <= 1
  BY <1>0 DEF Init, NoPass, Passes
<1>7. node \in [Osds -> {"in", "down", "out"}] /\ known \in [Osds -> 0..1]
  BY DEF Init
<1>8. held \in [Osds -> 0..NWrites]
  BY <1>0 DEF Init
<1> QED BY <1>0, <1>1, <1>2, <1>3, <1>5, <1>6, <1>7, <1>8 DEF Init, TypeOK

\* OSDs stopping, starting, draining and hearing of epochs.
LEMMA TypeNodes ==
    ASSUME TypeOK, Nodes \/ \E o \in Osds : ComesBack(o)
    PROVE  TypeOK'
<1>0. /\ pg.epoch \in Nat /\ pg.epoch >= 1 /\ MaxFaults \in Nat /\ faults \in 0..MaxFaults
      /\ node \in [Osds -> {"in", "down", "out"}]
  BY Types, BoundsAssumption DEF TypeOK
<1>f. ASSUME NEW k, Fault(k) PROVE faults' \in 0..MaxFaults
  BY <1>0, <1>f DEF Fault
<1>1. ASSUME NEW o \in Osds, GoesDown(o) PROVE TypeOK'
  <2>1. \A w \in Writes : /\ writes'[w] \in Placements
                          /\ writes'[w].epoch = writes[w].epoch
    <3> SUFFICES ASSUME NEW w \in Writes
                 PROVE  writes'[w] \in Placements /\ writes'[w].epoch = writes[w].epoch
      OBVIOUS
    <3>1. writes[w] \in Placements
      BY Types
    <3>2. writes'[w] = [writes[w] EXCEPT !.at[o] = IF @ = "sent" THEN "failed" ELSE @]
      BY <1>1 DEF GoesDown
    <3> QED BY <3>1, <3>2 DEF Placements
  <2>2. writes' \in [Writes -> Placements]
    BY <1>1, <2>1 DEF GoesDown
  <2>3. known' \in [Osds -> 0..pg.epoch]
    BY <1>0, <1>1 DEF GoesDown, TypeOK
  <2>4. node' \in [Osds -> {"in", "down", "out"}]
    BY <1>0, <1>1 DEF GoesDown
  <2>5. faults' \in 0..MaxFaults
    BY <1>1, <1>f DEF GoesDown
  <2> QED BY <1>1, <2>1, <2>2, <2>3, <2>4, <2>5 DEF GoesDown, TypeOK
<1>2. ASSUME NEW o \in Osds, Drains(o) PROVE TypeOK'
  <2>1. node' \in [Osds -> {"in", "down", "out"}]
    BY <1>0, <1>2 DEF Drains
  <2>2. faults' \in 0..MaxFaults
    BY <1>2, <1>f DEF Drains
  <2> QED BY <1>2, <2>1, <2>2 DEF Drains, TypeOK
<1>3. ASSUME NEW o \in Osds, Registers(o) PROVE TypeOK'
  <2>1. known' \in [Osds -> 0..pg.epoch]
    <3>1. pg.epoch \in 0..pg.epoch
      BY <1>0
    <3> QED BY <1>3, <3>1, LearnType DEF Registers
  <2> QED BY <1>3, <2>1 DEF Registers, TypeOK
<1>4. ASSUME NEW o \in Osds, NEW e \in Epochs, set_pg_epochs(o, e) PROVE TypeOK'
  <2>1. e \in 0..pg.epoch
    <3>1. <<o, e>> \in Osds \X (2..pg.epoch)
      BY <1>4 DEF set_pg_epochs, TypeOK
    <3>2. e \in 2..pg.epoch
      BY <3>1
    <3> QED BY <1>0, <3>2
  <2>2. known' \in [Osds -> 0..pg.epoch]
    BY <1>4, <2>1, LearnType DEF set_pg_epochs
  <2> QED BY <1>4, <2>2 DEF set_pg_epochs, TypeOK
<1>5. ASSUME NEW o \in Osds, ComesBack(o) PROVE TypeOK'
  <2>1. node' \in [Osds -> {"in", "down", "out"}]
    BY <1>0, <1>5 DEF ComesBack
  <2> QED BY <1>5, <2>1 DEF ComesBack, TypeOK
<1> QED BY <1>1, <1>2, <1>3, <1>4, <1>5 DEF Nodes

\* A change of the group that gives no OSD two positions, and fills no member
\* from itself.
LEMMA TypeCommit ==
    ASSUME TypeOK, NEW new \in Groups, new.epoch \in {pg.epoch, pg.epoch + 1},
           IsInjective(new.acting), \A p \in Positions : new.from[p] # new.acting[p],
           commit_pgs(new), UNCHANGED <<node, known, held, writes, pass, withdraws, faults>>
    PROVE  TypeOK'
<1>0. pg.epoch \in Nat /\ pg.epoch >= 1
  BY Types
<1>1. pg' = new
  BY DEF commit_pgs
<1>2. pushes' \subseteq Osds \X (2..new.epoch)
  <2>1. CASE new.epoch = pg.epoch
    BY <2>1 DEF commit_pgs, TypeOK
  <2>2. CASE new.epoch = pg.epoch + 1
    <3>1. pushes \subseteq Osds \X (2..new.epoch)
      BY <1>0, <2>2 DEF TypeOK
    <3>2. Range(new.acting) \subseteq Osds
      BY DEF Range, Groups
    <3>3. pushes' = pushes \cup ({o \in Acting \cup Range(new.acting) : Answers(o)} \X {new.epoch})
      BY <1>0, <2>2 DEF commit_pgs
    <3> QED BY <1>0, <2>2, <3>1, <3>2, <3>3, Types
  <2> QED BY <2>1, <2>2
<1>3. /\ known \in [Osds -> 0..new.epoch] /\ pass.epoch <= new.epoch
      /\ \A w \in Writes : writes[w].epoch <= new.epoch
  <2>1. /\ known \in [Osds -> 0..pg.epoch] /\ pass \in Passes /\ pass.epoch <= pg.epoch
        /\ \A w \in Writes : writes[w] \in Placements /\ writes[w].epoch <= pg.epoch
    BY DEF TypeOK
  <2>2. pass.epoch \in Nat /\ \A w \in Writes : writes[w].epoch \in Nat
    BY <2>1, BoundsAssumption DEF Passes, Placements
  <2> QED BY <1>0, <2>1, <2>2
<1> QED BY <1>1, <1>2, <1>3 DEF TypeOK

\* The function a with g's values where g has one.
Patched(D, P, g, a) == [p \in D |-> IF p \in P THEN g[p] ELSE a[p]]

\* A function with some of its values replaced by others, distinct and not
\* among its own, stays injective.
LEMMA InjectivePatch ==
    ASSUME NEW D, NEW S, NEW a \in [D -> S], IsInjective(a), NEW P \in SUBSET D,
           NEW g \in [P -> S], IsInjective(g), \A p \in P : g[p] \notin Range(a)
    PROVE  IsInjective(Patched(D, P, g, a))
BY DEF IsInjective, Range, Patched

\* Letting a gone up member go changes the up set only.
LEMMA LetGoType ==
    ASSUME TypeOK
    PROVE  /\ without_gone_up \in Groups
           /\ without_gone_up.epoch = pg.epoch /\ without_gone_up.acting = pg.acting
           /\ without_gone_up.from = pg.from
<1>1. pg \in Groups
  BY DEF TypeOK
<1>2. pg.acting \in [Positions -> Osds] /\ pg.up \in [Positions -> Osds]
  BY Types
<1> DEFINE up == [p \in Positions |-> IF pg.up[p] # pg.acting[p] /\ node[pg.up[p]] = "out"
                                     THEN pg.acting[p] ELSE pg.up[p]]
<1>3. up \in [Positions -> Osds]
  BY <1>2
<1>4. without_gone_up = [pg EXCEPT !.up = up]
  BY DEF without_gone_up
<1> HIDE DEF up
<1> QED BY <1>1, <1>3, <1>4 DEF Groups

\* Meta's changes of the group: members stood in for, let go, moved back.
LEMMA TypeMeta ==
    ASSUME TypeOK, Upkeep \/ Remaps
    PROVE  TypeOK'
<1>0. /\ pg.epoch \in Nat /\ pg.epoch >= 1 /\ MaxEpoch \in Nat
      /\ pg.acting \in [Positions -> Osds] /\ pg.up \in [Positions -> Osds]
      /\ pg.from \in [Positions -> Osds \cup {Nil}]
      /\ IsInjective(pg.acting) /\ \A p \in Positions : pg.from[p] # pg.acting[p]
      /\ pg \in Groups
  BY Types, BoundsAssumption DEF TypeOK
<1>1. ASSUME NEW base \in Groups, NEW states, StandsIn(base, states),
             base.epoch = pg.epoch, base.acting = pg.acting, base.from = pg.from
      PROVE  TypeOK'
  <2>0. PICK P \in SUBSET Positions :
           \E f \in [P -> Osds] : Spares(base, f) /\ commit_pgs(stand_in(base, f))
    BY <1>1 DEF StandsIn
  <2>1. PICK f \in [P -> Osds] : Spares(base, f) /\ commit_pgs(stand_in(base, f))
    BY <2>0
  <2>2. /\ base.epoch = pg.epoch /\ base.acting = pg.acting /\ base.from = pg.from
        /\ base.up \in [Positions -> Osds]
    BY <1>1 DEF Groups
  <2>3. IsInjective(f) /\ \A p \in P : f[p] \notin Acting
    BY <2>1 DEF Spares
  <2> DEFINE acting == [p \in Positions |-> IF p \in P THEN f[p] ELSE pg.acting[p]]
             from == [p \in Positions |-> IF p \in P THEN pg.acting[p] ELSE pg.from[p]]
             up == [p \in Positions |->
                       IF p \in P /\ node[base.acting[p]] = "out" /\ base.up[p] = base.acting[p]
                       THEN f[p] ELSE base.up[p]]
  <2>4. stand_in(base, f) = [epoch |-> pg.epoch + 1, acting |-> acting, up |-> up, from |-> from]
    BY <2>2 DEF stand_in
  <2>5. acting \in [Positions -> Osds] /\ IsInjective(acting)
    <3>1. IsInjective(Patched(Positions, P, f, pg.acting))
      BY <1>0, <2>3, InjectivePatch DEF Acting
    <3> QED BY <1>0, <3>1 DEF Patched
  <2>6. from \in [Positions -> Osds \cup {Nil}] /\ up \in [Positions -> Osds]
    BY <1>0, <2>2
  <2>7. \A p \in Positions : from[p] # acting[p]
    BY <1>0, <2>3, Types
  <2>8. pg.epoch + 1 \in Epochs
    BY <1>0, <1>1 DEF StandsIn, Epochs
  <2> HIDE DEF acting, from, up
  <2>9. /\ stand_in(base, f) \in Groups /\ stand_in(base, f).epoch = pg.epoch + 1
        /\ stand_in(base, f).acting = acting /\ stand_in(base, f).from = from
    BY <2>4, <2>5, <2>6, <2>8 DEF Groups
  <2> QED BY <1>1, <2>1, <2>5, <2>7, <2>9, TypeCommit DEF StandsIn
<1>2. CASE LetsGo
  BY <1>0, <1>2, LetGoType, TypeCommit DEF LetsGo
<1>3. CASE Remaps
  <2>1. PICK P \in remap_positions : commit_remap(P)
    BY <1>3 DEF Remaps
  <2>2. /\ P \subseteq Positions /\ \A p \in P : pg.up[p] \notin Acting
        /\ \A p, q \in P : pg.up[p] = pg.up[q] => p = q
    BY DEF remap_positions, Movable
  <2> DEFINE g == [p \in P |-> pg.up[p]]
             acting == [p \in Positions |-> IF p \in P THEN pg.up[p] ELSE pg.acting[p]]
             from == [p \in Positions |-> IF p \in P THEN pg.acting[p] ELSE pg.from[p]]
             new == [epoch |-> pg.epoch + 1, acting |-> acting, up |-> pg.up, from |-> from]
  <2>3. commit_pgs(new)
    BY <2>1 DEF commit_remap
  <2>4. acting \in [Positions -> Osds] /\ IsInjective(acting)
    <3>1. g \in [P -> Osds] /\ IsInjective(g) /\ \A p \in P : g[p] \notin Range(pg.acting)
      BY <1>0, <2>2 DEF IsInjective, Acting
    <3>2. IsInjective(Patched(Positions, P, g, pg.acting))
      BY <1>0, <2>2, <3>1, InjectivePatch
    <3>3. acting = Patched(Positions, P, g, pg.acting)
      BY <2>2 DEF Patched
    <3> QED BY <1>0, <2>2, <3>2, <3>3
  <2>5. from \in [Positions -> Osds \cup {Nil}] /\ \A p \in Positions : from[p] # acting[p]
    BY <1>0, <2>2, Types
  <2>6. pg.epoch + 1 \in Epochs
    BY <1>0, <1>3 DEF Remaps, Epochs
  <2> HIDE DEF acting, from
  <2>7. new \in Groups /\ new.epoch = pg.epoch + 1 /\ new.acting = acting /\ new.from = from
    BY <1>0, <2>4, <2>5, <2>6 DEF Groups
  <2> HIDE DEF new
  <2> QED BY <1>3, <2>3, <2>4, <2>5, <2>7, TypeCommit DEF Remaps
<1> QED BY <1>0, <1>1, <1>2, <1>3, LetGoType DEF Upkeep, Replaces, ReplacesOut

\* A write as it is placed has its type.
LEMMA PlacedType ==
    ASSUME TypeOK
    PROVE  Placed \in Placements /\ Placed.epoch = pg.epoch
<1>1. pg.epoch \in 0..MaxEpoch /\ 0 \in 0..MaxEpoch /\ Acting \subseteq Osds
  BY Types, BoundsAssumption
<1> QED BY <1>1 DEF Placed, Placements

\* A write with one OSD's answer has its type, and is the same otherwise.
LEMMA HeardType ==
    ASSUME TypeOK, NEW w \in Writes, NEW o \in Osds, NEW a \in {"took", "failed"},
           writes' = [writes EXCEPT ![w].at[o] = a]
    PROVE  /\ writes' \in [Writes -> Placements]
           /\ \A v \in Writes : /\ writes'[v].epoch = writes[v].epoch
                                /\ writes'[v].st = writes[v].st /\ writes'[v].to = writes[v].to
           /\ writes'[w].at = [writes[w].at EXCEPT ![o] = a]
           /\ \A v \in Writes : v # w => writes'[v] = writes[v]
<1>1. writes \in [Writes -> Placements] /\ writes[w] \in Placements
  BY DEF TypeOK
<1>2. writes' = [writes EXCEPT ![w] = [writes[w] EXCEPT !.at = [writes[w].at EXCEPT ![o] = a]]]
  OBVIOUS
<1> DEFINE new == [writes[w] EXCEPT !.at = [writes[w].at EXCEPT ![o] = a]]
<1>3. /\ new \in Placements /\ new.epoch = writes[w].epoch /\ new.st = writes[w].st
      /\ new.to = writes[w].to /\ new.at = [writes[w].at EXCEPT ![o] = a]
  BY <1>1 DEF Placements
<1> HIDE DEF new
<1>4. writes' = [writes EXCEPT ![w] = new]
  BY <1>2 DEF new
<1> QED BY <1>1, <1>3, <1>4

\* How a write ends: as it was, with a verdict, and only unanswered requests
\* left of it.
LEMMA EndedType ==
    ASSUME TypeOK, NEW w \in Writes, Ended(w)
    PROVE  /\ writes' \in [Writes -> Placements]
           /\ \A v \in Writes : writes'[v].epoch = writes[v].epoch
           /\ writes'[w].st = Verdict(w) /\ writes'[w].to = {}
           /\ \A v \in Writes : v # w => writes'[v] = writes[v]
<1>1. writes \in [Writes -> Placements] /\ writes[w] \in Placements
  BY DEF TypeOK
<1>2. Verdict(w) \in {"acked", "failed"} /\ pg.epoch \in 0..MaxEpoch
  BY Types, BoundsAssumption DEF Verdict
<1> DEFINE at == [o \in Osds |-> IF o \in Waiting(w) THEN writes[w].at[o] ELSE "none"]
           new == [st |-> Verdict(w), epoch |-> writes[w].epoch, end |-> pg.epoch, to |-> {}, at |-> at]
<1>3. at \in [Osds -> {"none", "sent", "took", "failed"}]
  BY <1>1 DEF Placements
<1>4. writes' = [writes EXCEPT ![w] = new]
  BY DEF Ended
<1> HIDE DEF at
<1>5. /\ new \in Placements /\ new.epoch = writes[w].epoch
      /\ new.st = Verdict(w) /\ new.to = {}
  BY <1>1, <1>2, <1>3 DEF Placements
<1> HIDE DEF new
<1> QED BY <1>1, <1>4, <1>5

\* Writes placed, served, lost and answered.
LEMMA TypeWrites ==
    ASSUME TypeOK, NEW w \in Writes, Places(w) \/ Writing(w) \/ Losing(w)
    PROVE  TypeOK'
<1>0. /\ pg.epoch \in Nat /\ pg.epoch >= 1 /\ MaxFaults \in Nat /\ faults \in 0..MaxFaults
      /\ writes \in [Writes -> Placements] /\ held \in [Osds -> 0..NWrites]
      /\ \A v \in Writes : writes[v].epoch <= pg.epoch
  BY Types, BoundsAssumption DEF TypeOK
<1>f. ASSUME NEW k, Fault(k) PROVE faults' \in 0..MaxFaults
  BY <1>0, <1>f DEF Fault
<1>1. CASE Places(w)
  <2>1. writes' = [writes EXCEPT ![w] = Placed]
    BY <1>1 DEF Places
  <2>2. writes' \in [Writes -> Placements] /\ \A v \in Writes : writes'[v].epoch <= pg.epoch
    BY <1>0, <2>1, PlacedType
  <2> QED BY <1>1, <2>2 DEF Places, TypeOK
<1>3. ASSUME NEW o \in Osds, put_object_meta(w, o) PROVE TypeOK'
  <2>1. PICK a \in {"took", "failed"} : writes' = [writes EXCEPT ![w].at[o] = a]
    BY <1>3 DEF put_object_meta
  <2>2. writes' \in [Writes -> Placements] /\ \A v \in Writes : writes'[v].epoch = writes[v].epoch
    BY <2>1, HeardType
  <2>3. held' \in [Osds -> 0..NWrites]
    <3>1. held[o] \in Nat /\ w \in Nat /\ w <= NWrites /\ held[o] <= NWrites /\ NWrites \in Nat
      BY <1>0, BoundsAssumption DEF Writes
    <3>2. Max({held[o], w}) \in 0..NWrites
      BY <3>1, MaxOfTwo
    <3> HIDE DEF Max
    <3> QED BY <1>0, <1>3, <3>2 DEF put_object_meta
  <2>4. faults' \in 0..MaxFaults
    BY <1>0, <1>3, <1>f DEF put_object_meta
  <2>5. UNCHANGED <<pg, node, pushes, pass, withdraws>>
    BY <1>3 DEF put_object_meta
  <2>6. known' \in [Osds -> 0..pg.epoch]
    <3>1. PICK e \in Told(o, writes[w].epoch) : known' = learn(o, e)
      BY <1>3 DEF put_object_meta
    <3>2. writes[w].epoch \in Nat
      BY <1>0, BoundsAssumption DEF Placements
    <3>3. e \in 0..pg.epoch
      BY <3>2, ToldType
    <3> QED BY <3>1, <3>3, LearnType
  <2> QED BY <1>0, <2>2, <2>3, <2>4, <2>5, <2>6 DEF TypeOK
<1>4. ASSUME NEW o \in Osds, Lost(w, o) PROVE TypeOK'
  <2>1. writes' \in [Writes -> Placements] /\ \A v \in Writes : writes'[v].epoch = writes[v].epoch
    BY <1>4, HeardType DEF Lost
  <2>2. faults' \in 0..MaxFaults
    BY <1>4, <1>f DEF Lost
  <2> QED BY <1>0, <1>4, <2>1, <2>2 DEF Lost, TypeOK
<1>5. CASE Ends(w) \/ TimesOut(w)
  <2>1. Ended(w)
    BY <1>5 DEF Ends, TimesOut
  <2>2. writes' \in [Writes -> Placements] /\ \A v \in Writes : writes'[v].epoch = writes[v].epoch
    BY <2>1, EndedType
  <2>3. faults' \in 0..MaxFaults
    BY <1>0, <1>5, <1>f DEF Ends, TimesOut
  <2>4. UNCHANGED <<pg, node, known, pushes, held, pass, withdraws>>
    BY <2>1 DEF Ended
  <2> QED BY <1>0, <2>2, <2>3, <2>4 DEF TypeOK
<1> QED BY <1>1, <1>3, <1>4, <1>5 DEF Writing, Losing

\* A read quorum and a write quorum overlap, and neither is empty.
LEMMA Quorums ==
    /\ Cardinality(Positions) \in Nat
    /\ meta_write_quorum \in 1..Cardinality(Positions)
    /\ meta_read_quorum \in 1..Cardinality(Positions)
    /\ meta_read_quorum = Cardinality(Positions) - meta_write_quorum + 1
<1>1. Cardinality(Positions) \in Nat /\ Cardinality(Positions) # 0
  BY MembersAssumption, FS_CardinalityType, FS_EmptySet DEF Positions
<1> DEFINE c == Cardinality(Positions)
<1> HIDE DEF c
<1>2. c \in Nat /\ c # 0
  BY <1>1 DEF c
<1>3. c \div 2 \in 0..(c - 1)
  BY <1>2
<1>4. meta_write_quorum = c \div 2 + 1 /\ meta_read_quorum = c - (c \div 2 + 1) + 1
  BY DEF meta_write_quorum, meta_read_quorum, c
<1> DEFINE h == c \div 2
<1>5. h \in 0..(c - 1) /\ meta_write_quorum = h + 1 /\ meta_read_quorum = c - (h + 1) + 1
  BY <1>3, <1>4
<1> HIDE DEF h
<1>6. meta_write_quorum \in 1..c /\ meta_read_quorum \in 1..c
  BY <1>2, <1>5
<1>7. meta_read_quorum = c - meta_write_quorum + 1
  BY <1>5
<1> QED BY <1>2, <1>6, <1>7 DEF c

\* Recovery planned, carried out and recorded.
LEMMA TypeRecovery ==
    ASSUME TypeOK, \/ Plans \/ Changed \/ finish_filling \/ Stops \/ Directed
    PROVE  TypeOK'
<1>0. /\ pg.epoch \in Nat /\ pg.epoch >= 1 /\ pg.epoch <= MaxEpoch /\ MaxEpoch \in Nat
      /\ NWrites \in Nat /\ held \in [Osds -> 0..NWrites]
      /\ pass \in Passes /\ pass.epoch <= pg.epoch /\ NoPass \in Passes /\ NoPass.epoch = 0
  BY Types, BoundsAssumption DEF TypeOK, NoPass, Passes
<1>1. CASE Plans
  <2> DEFINE seen == {held[o] : o \in Listed \cup Strays}
             newest == Max(seen)
             behind == {o \in Listed : held[o] # newest}
             holders == IF behind = {} THEN {} ELSE {o \in Listed \cup Strays : held[o] = newest}
             strays == {<<o, held[o]>> : o \in {x \in Strays : held[x] # 0}}
  <2>1. Listed \subseteq Osds /\ Strays \subseteq Osds
    BY Types DEF Listed, Strays, Range
  <2>2. Listed # {}
    <3>1. Cardinality(Listed) >= meta_read_quorum
      BY <1>1 DEF Plans
    <3>2. meta_read_quorum \in Nat /\ meta_read_quorum >= 1
      BY Quorums
    <3>3. Cardinality({}) = 0
      BY FS_EmptySet
    <3> QED BY <3>1, <3>2, <3>3
  <2>3. newest \in 0..NWrites
    <3>1. seen \subseteq 0..NWrites /\ seen # {}
      BY <1>0, <2>1, <2>2
    <3> HIDE DEF seen
    <3> QED BY <1>0, <3>1, MaxOfSet
  <2>4. pass' = [NoPass EXCEPT !.epoch = pg.epoch, !.newest = newest, !.todo = behind,
                    !.holders = holders, !.strays = strays]
    BY <1>1 DEF Plans
  <2> HIDE DEF newest
  <2>5. behind \in SUBSET Osds /\ holders \in SUBSET Osds
    BY <2>1
  <2>6. strays \in SUBSET (Osds \X Writes)
    BY <1>0, <2>1 DEF Writes
  <2>7. pg.epoch \in 0..MaxEpoch
    BY <1>0
  <2> HIDE DEF behind, holders, strays
  <2>8. pass' \in Passes /\ pass'.epoch = pg.epoch
    BY <2>3, <2>4, <2>5, <2>6, <2>7 DEF NoPass, Passes
  <2> QED BY <1>0, <1>1, <2>8 DEF Plans, TypeOK
<1>2. CASE Changed
  <2>1. pass' \in Passes /\ pass'.epoch = pass.epoch
    BY <1>0, <1>2 DEF Changed, Passes
  <2> QED BY <1>2, <2>1 DEF Changed, TypeOK
<1>3. CASE finish_filling
  <2>1. pg' \in Groups /\ pg'.epoch = pg.epoch /\ pg'.acting = pg.acting
        /\ \A p \in Positions : pg'.from[p] = Nil
    BY <1>3 DEF finish_filling, Groups, TypeOK
  <2>2. \A p \in Positions : pg'.from[p] # pg'.acting[p]
    BY <2>1, Types, MembersAssumption
  <2>3. pass' \in Passes /\ pass'.epoch <= pg.epoch /\ withdraws' \subseteq Osds \X Writes
    BY <1>0, <1>3 DEF finish_filling, Passes
  <2> QED BY <1>3, <2>1, <2>2, <2>3 DEF finish_filling, TypeOK
<1>4. CASE Stops
  BY <1>0, <1>4 DEF Stops, TypeOK
<1>5. ASSUME NEW o \in Osds, Recovers(o) PROVE TypeOK'
  <2> DEFINE takes == Answers(o) /\ Serves(o, pass.epoch)
  <2>1. /\ known' = known \/ \E e \in Told(o, pass.epoch) : known' = learn(o, e)
        /\ held' = IF takes THEN [held EXCEPT ![o] = Max({held[o], pass.newest})] ELSE held
        /\ pass' = [pass EXCEPT !.holders = {}, !.todo = pass.todo \ {o}, !.failed = pass.failed \/ ~takes]
        /\ UNCHANGED <<pg, node, pushes, writes, withdraws, faults>>
    BY <1>5 DEF Recovers
  <2>2. known' \in [Osds -> 0..pg.epoch]
    <3>1. pass.epoch \in Nat /\ known \in [Osds -> 0..pg.epoch]
      BY <1>0 DEF Passes, TypeOK
    <3>2. \A e \in Told(o, pass.epoch) : e \in 0..pg.epoch
      BY <3>1, ToldType
    <3> QED BY <2>1, <3>1, <3>2, LearnType
  <2>3. held' \in [Osds -> 0..NWrites]
    <3>1. held[o] \in Nat /\ held[o] <= NWrites /\ pass.newest \in Nat /\ pass.newest <= NWrites
      BY <1>0 DEF Passes
    <3>2. Max({held[o], pass.newest}) \in 0..NWrites
      BY <1>0, <3>1, MaxOfTwo
    <3> HIDE DEF Max, takes
    <3> QED BY <1>0, <2>1, <3>2
  <2> HIDE DEF takes
  <2>4. pass' \in Passes /\ pass'.epoch = pass.epoch
    <3>1. (pass.failed \/ ~takes) \in BOOLEAN
      OBVIOUS
    <3> QED BY <1>0, <2>1, <3>1 DEF Passes
  <2> QED BY <2>1, <2>2, <2>3, <2>4 DEF TypeOK
<1>6. ASSUME NEW o \in Osds, NEW w \in Writes, Withdraws(o, w) PROVE TypeOK'
  <2>1. held' \in [Osds -> 0..NWrites]
    BY <1>0, <1>6 DEF Withdraws, withdraw
  <2> QED BY <1>6, <2>1 DEF Withdraws, TypeOK
<1> QED BY <1>1, <1>2, <1>3, <1>4, <1>5, <1>6 DEF Directed

\* No step breaks the types.
LEMMA TypeNext == TypeOK /\ [Next]_vars => TypeOK'
<1> SUFFICES ASSUME TypeOK, [Next]_vars PROVE TypeOK'
  OBVIOUS
<1>1. CASE UNCHANGED vars
  BY <1>1 DEF vars, TypeOK
<1>2. CASE Next
  BY <1>2, TypeNodes, TypeMeta, TypeWrites, TypeRecovery DEF Next, Recovery
<1> QED BY <1>1, <1>2

\* Every reachable state has its type: whatever the OSDs, the members and the
\* bounds, no OSD ever has two positions of the group (commit_pgs,
\* remap_positions), no OSD knows an epoch meta has not committed
\* (set_pg_epochs), and no member is filled from itself (stand_in, commit_remap).
THEOREM TypeCorrect == Spec => []TypeOK
<1>1. Init => TypeOK
  BY TypeInit
<1>2. TypeOK /\ [Next]_vars => TypeOK'
  BY TypeNext
<1> QED BY <1>1, <1>2, PTL DEF Spec

-----------------------------------------------------------------------------
(* The fence.                                                              *)

\* A write goes to no more OSDs than there are positions.
Sized == \A w \in Writes : /\ IsFiniteSet(writes[w].to)
                            /\ Cardinality(writes[w].to) <= Cardinality(Positions)

\* The acting set is no larger than the number of positions.
LEMMA ActingSize ==
    ASSUME TypeOK
    PROVE  IsFiniteSet(Acting) /\ Cardinality(Acting) <= Cardinality(Positions)
<1>1. pg.acting \in Surjection(Positions, Acting)
  BY Types DEF Surjection, Acting, Range
<1> QED BY <1>1, MembersAssumption, FS_Surjection DEF Positions

\* What no step but its placing and its end changes of a write; and a member
\* that will not take it never will: one that stops has failed it, one that
\* hears of epochs knows no older one, and one that knows a newer one
\* refuses it.
LEMMA WriteSteps ==
    ASSUME TypeOK, [Next]_vars, NEW w \in Writes
    PROVE  \/ /\ writes'[w].to = writes[w].to /\ writes'[w].epoch = writes[w].epoch
              /\ writes'[w].st = writes[w].st /\ FencedAt(w) \subseteq FencedAt(w)'
           \/ Places(w) \/ Ended(w)
<1> DEFINE Keeps == /\ writes'[w].to = writes[w].to /\ writes'[w].epoch = writes[w].epoch
                    /\ writes'[w].st = writes[w].st /\ FencedAt(w) \subseteq FencedAt(w)'
<1>0. /\ writes \in [Writes -> Placements] /\ writes[w] \in Placements
      /\ known \in [Osds -> 0..pg.epoch] /\ pg.epoch \in Nat
      /\ writes[w].epoch \in Nat /\ writes[w].to \subseteq Osds
      /\ \A o \in Osds : known[o] \in Nat
  BY Types, BoundsAssumption DEF TypeOK, Placements
\* Nothing said of the write, and nothing forgotten.
<1>1. ASSUME writes'[w] = writes[w], \A o \in Osds : known'[o] \in Nat /\ known'[o] >= known[o]
      PROVE  Keeps
  <2>1. ASSUME NEW o \in FencedAt(w) PROVE o \in FencedAt(w)'
    <3>1. o \in Osds /\ o \in writes[w].to
      BY <1>0 DEF FencedAt
    <3>2. known'[o] >= known[o] /\ known[o] \in Nat /\ known'[o] \in Nat /\ writes[w].epoch \in Nat
      BY <1>0, <1>1, <3>1
    <3> QED BY <1>1, <3>1, <3>2 DEF FencedAt
  <2> QED BY <1>1, <2>1
<1>2. ASSUME NEW o \in Osds, NEW e \in 0..pg.epoch
      PROVE  \A x \in Osds : learn(o, e)[x] \in Nat /\ learn(o, e)[x] >= known[x]
  <2>1. /\ learn(o, e) \in [Osds -> 0..pg.epoch]
        /\ \A x \in Osds : learn(o, e)[x] >= known[x]
    BY LearnType
  <2> QED BY <1>0, <2>1
<1>3. pg.epoch \in 0..pg.epoch
  BY <1>0
<1>4. ASSUME NEW o \in Osds, GoesDown(o) PROVE Keeps
  <2>1. writes'[w] = [writes[w] EXCEPT !.at[o] = IF @ = "sent" THEN "failed" ELSE @]
    BY <1>4 DEF GoesDown
  <2>2. /\ writes'[w].to = writes[w].to /\ writes'[w].epoch = writes[w].epoch
        /\ writes'[w].st = writes[w].st
        /\ writes'[w].at[o] = IF writes[w].at[o] = "sent" THEN "failed" ELSE writes[w].at[o]
        /\ \A x \in Osds : x # o => writes'[w].at[x] = writes[w].at[x]
    BY <1>0, <2>1 DEF Placements
  <2>3. \A x \in Osds : x # o => known'[x] = known[x]
    BY <1>0, <1>4 DEF GoesDown
  <2> QED BY <1>0, <2>2, <2>3 DEF FencedAt
<1>5. CASE UNCHANGED <<writes, known>>
  BY <1>0, <1>1, <1>5
<1>6. ASSUME NEW o \in Osds, Registers(o) PROVE Keeps
  BY <1>1, <1>2, <1>3, <1>6 DEF Registers
<1>7. ASSUME NEW o \in Osds, NEW e \in Epochs, set_pg_epochs(o, e) PROVE Keeps
  <2>1. <<o, e>> \in Osds \X (2..pg.epoch)
    BY <1>7 DEF set_pg_epochs, TypeOK
  <2>2. e \in 0..pg.epoch
    BY <1>0, <2>1
  <2> QED BY <1>1, <1>2, <1>7, <2>2 DEF set_pg_epochs
<1>8. ASSUME NEW v \in Writes, Places(v), v # w PROVE Keeps
  BY <1>0, <1>1, <1>8 DEF Places
<1>10. ASSUME NEW v \in Writes, NEW o \in Osds, put_object_meta(v, o) \/ Lost(v, o) PROVE Keeps
  <2>1. PICK a \in {"took", "failed"} : writes' = [writes EXCEPT ![v].at[o] = a]
    BY <1>10 DEF put_object_meta, Lost
  <2>0. writes[v].at[o] = "sent"
    BY <1>10 DEF put_object_meta, Lost
  <2>2. \A x \in Osds : known'[x] \in Nat /\ known'[x] >= known[x]
    <3>1. CASE UNCHANGED known
      BY <1>0, <3>1
    <3>2. CASE put_object_meta(v, o)
      <4>1. PICK e \in Told(o, writes[v].epoch) : known' = learn(o, e)
        BY <3>2 DEF put_object_meta
      <4>2. writes[v].epoch \in Nat
        BY <1>0, BoundsAssumption DEF Placements
      <4> QED BY <1>2, <4>1, <4>2, ToldType
    <3> QED BY <1>10, <3>1, <3>2 DEF Lost
  <2>3. CASE v # w
    BY <1>0, <1>1, <2>1, <2>2, <2>3, HeardType
  <2>4. CASE v = w
    <3>1. writes'[w].at = [writes[w].at EXCEPT ![o] = a] /\ writes'[w].epoch = writes[w].epoch
          /\ writes'[w].st = writes[w].st /\ writes'[w].to = writes[w].to
      <4>1. writes' = [writes EXCEPT ![w].at[o] = a]
        BY <2>1, <2>4
      <4> QED BY <4>1, HeardType
    <3>2. known[o] > writes[w].epoch => writes'[w].at[o] = "failed"
      <4>1. CASE Lost(w, o)
        <5>1. writes' = [writes EXCEPT ![w].at[o] = "failed"]
          BY <4>1 DEF Lost
        <5> QED BY <1>0, <5>1, HeardType DEF Placements
      <4>2. CASE put_object_meta(w, o)
        <5>1. SUFFICES ASSUME known[o] > writes[w].epoch PROVE writes'[w].at[o] = "failed"
          OBVIOUS
        <5>2. ~Serves(o, writes[w].epoch)
          <6>1. known'[o] > writes[w].epoch
            BY <1>0, <2>2, <5>1
          <6> QED BY <1>0, <2>2, <6>1 DEF Serves, decide
        <5>3. writes' = [writes EXCEPT ![w].at[o] = "failed"]
          BY <4>2, <5>2 DEF put_object_meta
        <5> QED BY <1>0, <5>3, HeardType DEF Placements
      <4> QED BY <1>10, <2>4, <4>1, <4>2
    <3>3. \A x \in Osds : x # o => writes'[w].at[x] = writes[w].at[x]
      BY <1>0, <3>1 DEF Placements
    <3>4. ASSUME NEW x \in FencedAt(w) PROVE x \in FencedAt(w)'
      <4>1. x \in Osds /\ x \in writes[w].to
        BY <1>0 DEF FencedAt
      <4>2. known'[x] >= known[x] /\ known[x] \in Nat /\ known'[x] \in Nat
        BY <1>0, <2>2, <4>1
      <4>3. CASE x = o
        BY <2>0, <2>4, <3>1, <3>2, <4>1, <4>3 DEF FencedAt
      <4>4. CASE x # o
        <5>1. writes'[w].at[x] = writes[w].at[x]
          BY <3>3, <4>1, <4>4
        <5> QED BY <1>0, <3>1, <4>1, <4>2, <5>1 DEF FencedAt
      <4> QED BY <4>3, <4>4
    <3> QED BY <3>1, <3>4
  <2> QED BY <2>3, <2>4
<1>11. ASSUME NEW v \in Writes, Ended(v), v # w PROVE Keeps
  BY <1>0, <1>1, <1>11, EndedType DEF Ended
<1>12. ASSUME NEW o \in Osds, Recovers(o) PROVE Keeps
  <2>1. known' = known \/ \E e \in Told(o, pass.epoch) : known' = learn(o, e)
    BY <1>12 DEF Recovers
  <2>2. \A e \in Told(o, pass.epoch) : e \in 0..pg.epoch
    <3>1. pass.epoch \in Nat
      BY BoundsAssumption DEF TypeOK, Passes
    <3> QED BY <3>1, ToldType
  <2> QED BY <1>0, <1>1, <1>2, <1>12, <2>1, <2>2 DEF Recovers
<1>13. CASE Next
  <2>1. CASE Nodes \/ \E o \in Osds : ComesBack(o)
    BY <1>4, <1>5, <1>6, <1>7, <2>1 DEF Nodes, Drains, ComesBack
  <2>2. CASE Upkeep \/ Recovery
    BY <1>5, <2>2 DEF Upkeep, Replaces, ReplacesOut, StandsIn, LetsGo, Recovery, Remaps, Plans, Changed, finish_filling, Stops
  <2>3. CASE Directed
    BY <1>5, <1>12, <2>3 DEF Directed, Withdraws
  <2>4. CASE \E v \in Writes : Places(v) \/ Writing(v) \/ Losing(v)
    BY <1>8, <1>10, <1>11, <2>4 DEF Writing, Losing, Ends, TimesOut
  <2> QED BY <1>13, <2>1, <2>2, <2>3, <2>4 DEF Next
<1>14. CASE UNCHANGED vars
  BY <1>5, <1>14 DEF vars
<1> QED BY <1>13, <1>14

\* Sized holds of every state.
LEMMA SizedNext == TypeOK /\ Sized /\ [Next]_vars => Sized'
<1> SUFFICES ASSUME TypeOK, Sized, [Next]_vars, NEW w \in Writes
             PROVE  IsFiniteSet(writes'[w].to) /\ Cardinality(writes'[w].to) <= Cardinality(Positions)
  BY DEF Sized
<1>1. CASE writes'[w].to = writes[w].to
  BY <1>1 DEF Sized
<1>2. CASE Places(w)
  <2>1. writes'[w].to = Acting
    BY <1>2 DEF Places, Placed, TypeOK
  <2> QED BY <2>1, ActingSize
<1>3. CASE Ended(w)
  <2>1. writes'[w].to = {}
    BY <1>3, EndedType
  <2> QED BY <2>1, FS_EmptySet, Quorums
<1> QED BY <1>1, <1>2, <1>3, WriteSteps

\* One step leaves a write fenced, or ends it refused.
LEMMA FenceNext ==
    ASSUME TypeOK, Sized, [Next]_vars, NEW w \in Writes, writes[w].st = "placed", Fenced(w)
    PROVE  Fenced(w)' \/ writes'[w].st = "failed"
<1>0. /\ IsFiniteSet(writes[w].to) /\ Cardinality(writes[w].to) <= Cardinality(Positions)
      /\ Cardinality(FencedAt(w)) > Cardinality(Positions) - meta_write_quorum
      /\ meta_write_quorum \in Nat /\ Cardinality(Positions) \in Nat
  BY Quorums DEF Sized, Fenced
<1>1. CASE /\ writes'[w].to = writes[w].to /\ FencedAt(w) \subseteq FencedAt(w)'
  <2>1. IsFiniteSet(FencedAt(w)')
    BY <1>0, <1>1, FS_Subset DEF FencedAt
  <2>2. /\ Cardinality(FencedAt(w)) \in Nat /\ Cardinality(FencedAt(w)') \in Nat
        /\ Cardinality(FencedAt(w)) <= Cardinality(FencedAt(w)')
    BY <1>1, <2>1, FS_Subset, FS_CardinalityType
  <2>3. Cardinality(FencedAt(w)') > Cardinality(Positions) - meta_write_quorum
    BY <1>0, <2>2
  <2> QED BY <2>3 DEF Fenced, meta_write_quorum
<1>2. CASE Places(w)
  BY <1>2 DEF Places
<1>3. CASE Ended(w)
  <2>1. Took(w) \cap FencedAt(w) = {} /\ Took(w) \cup FencedAt(w) \subseteq writes[w].to
    BY DEF Took, FencedAt
  <2>2. IsFiniteSet(Took(w)) /\ IsFiniteSet(FencedAt(w))
    BY <1>0, <2>1, FS_Subset
  <2>3. /\ Cardinality(Took(w) \cup FencedAt(w)) = Cardinality(Took(w)) + Cardinality(FencedAt(w))
        /\ Cardinality(Took(w) \cup FencedAt(w)) <= Cardinality(writes[w].to)
        /\ Cardinality(Took(w)) \in Nat /\ Cardinality(FencedAt(w)) \in Nat
        /\ Cardinality(writes[w].to) \in Nat
    <3>1. Cardinality(Took(w) \cup FencedAt(w))
             = Cardinality(Took(w)) + Cardinality(FencedAt(w)) - Cardinality(Took(w) \cap FencedAt(w))
      BY <2>2, FS_Union
    <3>2. Cardinality(Took(w) \cap FencedAt(w)) = 0
      BY <2>1, FS_EmptySet
    <3>3. Cardinality(Took(w) \cup FencedAt(w)) <= Cardinality(writes[w].to)
      BY <1>0, <2>1, FS_Subset
    <3>4. /\ Cardinality(Took(w)) \in Nat /\ Cardinality(FencedAt(w)) \in Nat
          /\ Cardinality(writes[w].to) \in Nat
      BY <1>0, <2>2, FS_CardinalityType
    <3> QED BY <3>1, <3>2, <3>3, <3>4
  <2>4. Cardinality(Took(w)) < meta_write_quorum
    BY <1>0, <2>3
  <2>5. writes'[w].st = Verdict(w)
    BY <1>3, EndedType
  <2>6. ~(Cardinality(Took(w)) >= meta_write_quorum)
    BY <1>0, <2>3, <2>4
  <2> QED BY <2>5, <2>6 DEF Verdict
<1> QED BY <1>1, <1>2, <1>3, WriteSteps

\* A write fenced off stays so until it is refused: whatever the number of
\* members, and however OSDs stop, start without an epoch and hear of epochs
\* late, twice or in another order (PgEpochs::learn, decide, put_object_meta).
THEOREM FenceStays == Spec => FenceHolds
<1>1. Init => TypeOK /\ Sized
  <2>1. ASSUME Init PROVE Sized
    <3>1. \A w \in Writes : writes[w].to = {}
      BY <2>1 DEF Init, Unplaced
    <3>2. IsFiniteSet({}) /\ Cardinality({}) = 0 /\ Cardinality(Positions) \in Nat
      BY FS_EmptySet, Quorums
    <3> QED BY <3>1, <3>2 DEF Sized
  <2> QED BY <2>1, TypeInit
<1>2. TypeOK /\ Sized /\ [Next]_vars => (TypeOK /\ Sized)'
  BY TypeNext, SizedNext
<1>3. TypeOK /\ Sized /\ [Next]_vars
         => [\A w \in Writes : writes[w].st = "placed" /\ Fenced(w)
                => Fenced(w)' \/ writes'[w].st = "failed"]_vars
  BY FenceNext
<1> QED BY <1>1, <1>2, <1>3, PTL DEF Spec, FenceHolds
=============================================================================
