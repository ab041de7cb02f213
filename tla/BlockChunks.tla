----------------------------- MODULE BlockChunks -----------------------------
(***************************************************************************)
(* Meta's record of block storage: volumes and snapshots, the stripe each  *)
(* of their chunks is in, and the registry of who shares a stripe.  The    *)
(* leader serves one call at a time (block_lock).  A call reads the cache  *)
(* and proposes a batch of rows to Raft, each expected to be as the cache  *)
(* has it; a batch that conflicts is built again.  Calls of many chunks    *)
(* take a batch per BATCH chunks.                                          *)
(*                                                                         *)
(* A call may be cut off while its batch is on its way: its caller hung    *)
(* up, which drops the handler and its lock, or the leader changed, which  *)
(* may also lose the batch.  A batch left behind is applied in its place   *)
(* in the log, among the calls that follow.                                *)
(*                                                                         *)
(* A volume or a snapshot is a holder: a state and a row per chunk, which  *)
(* names a stripe and whom it is held as (the stripe's own id for a chunk  *)
(* the volume wrote, else the holder's).  An absent row names Nil, an      *)
(* absent registry row is the empty set.  The index of volumes by name,    *)
(* written in the batches that add and drop a volume's row, is left out.   *)
(***************************************************************************)
EXTENDS Naturals, Sequences, FiniteSets, FiniteSetsExt

CONSTANTS Volumes, Snapshots, Stripes, Nil,
          NChunks,
          Batch,    \* BATCH: chunks in one Raft write
          MaxCuts,  \* how many calls are cut off
          Attaches  \* whether volumes are attached and detached in this instance

ASSUME IdsAssumption == /\ Volumes \cap Snapshots = {} /\ Nil \notin Volumes \cup Snapshots
                        /\ Stripes \cap (Volumes \cup Snapshots \cup {Nil}) = {}
ASSUME BoundsAssumption == NChunks \in Nat \ {0} /\ Batch \in Nat \ {0} /\ MaxCuts \in Nat

VARIABLES db,     \* the committed tables, which the leader's cache mirrors
          log,    \* the batches proposed and not yet applied, in log order
          call,   \* the call that has block_lock
          used,   \* the ids given out: of volumes, snapshots and stripes
          freed,  \* the stripes whose shards were deleted
          want,   \* what each holder's chunks were set to (history)
          life,   \* holders made whole, and asked to be deleted (history)
          cuts    \* calls cut off

vars == <<db, log, call, used, freed, want, life, cuts>>

Holders   == Volumes \cup Snapshots
Chunks    == 1..NChunks
Referrers == Stripes \cup Holders
NoRow     == [stripe |-> Nil, owner |-> Nil]
Row       == {NoRow} \cup [stripe : Stripes, owner : Referrers]
States    == {"none", "creating", "available", "attached", "deleting"}

\* The rows a batch writes, of each table.
NoChange == [st |-> <<>>, row |-> <<>>, ref |-> <<>>]
Over(f, g) == [x \in DOMAIN g |-> IF x \in DOMAIN f THEN f[x] ELSE g[x]]
AsIn(f, g) == [x \in DOMAIN f |-> g[x]]

Idle == [op |-> "none", to |-> Nil, from |-> Nil, stage |-> "none", waits |-> FALSE,
         rows |-> <<>>, chunk |-> 0, expected |-> Nil, new |-> Nil, free |-> {}, freeing |-> {}]

Init == /\ db = [st  |-> [h \in Holders |-> "none"],
                 row |-> [k \in Holders \X Chunks |-> NoRow],
                 ref |-> [s \in Stripes |-> {}]]
        /\ log = <<>> /\ call = Idle /\ used = {} /\ freed = {}
        /\ want = [k \in Holders \X Chunks |-> Nil]
        /\ life = [h \in Holders |-> "new"] /\ cuts = 0

\* Mutated: the last chunk is left out.
RowsOf_short(h) == {k \in {h} \X (1..(NChunks - 1)) : db.row[k] # NoRow}
RowsOf(h) == {k \in {h} \X Chunks : db.row[k] # NoRow}
\* chunks_of gives the rows in the order of the chunks.
FirstOf(K) == {k \in K : Cardinality({j \in K : j[2] < k[2]}) < Batch}

-----------------------------------------------------------------------------
(* The shared-stripe registry.                                             *)

\* Mutated: the owner isn't entered.
share_only(s, owner, sharer) == db.ref[s] \cup {sharer}

\* The stripe has the sharer too, next to its owner.
share(s, owner, sharer) == IF db.ref[s] = {} THEN {owner, sharer} ELSE db.ref[s] \cup {sharer}
ShareRefused(s, owner)  == db.ref[s] # {} /\ owner \notin db.ref[s]

release(s, referrer)  == db.ref[s] \ {referrer}
Releases(s, referrer) == referrer \in db.ref[s]
\* Mutated: the one who wrote the stripe takes it along.
NowFree_own(s, referrer) == db.ref[s] = {} \/ referrer = s
NowFree(s, referrer)  == db.ref[s] \in {{}, {referrer}}

-----------------------------------------------------------------------------
(* What each stage of a call proposes, from the cache as it is then.       *)

SetState(h, st) == [NoChange EXCEPT !.st = [x \in {h} |-> st]]

\* commit_chunks: the chunk's stripe replaced (or, by Nil, the chunk trimmed).
CommitChange(v, c, s) ==
    LET old == db.row[<<v, c>>] IN
    [NoChange EXCEPT
        !.row = [k \in {<<v, c>>} |-> IF s = Nil THEN NoRow ELSE [stripe |-> s, owner |-> s]],
        !.ref = [x \in {r \in Stripes : r = old.stripe /\ Releases(r, old.owner)} |->
                    release(x, old.owner)]]
CommitFrees(v, c) == {s \in Stripes : s = db.row[<<v, c>>].stripe /\ NowFree(s, db.row[<<v, c>>].owner)}

\* share_chunks: a batch of the rows read when it began, now for another holder.
SharedAs(k, h) == IF k[1] \in Snapshots THEN k[1] ELSE call.rows[k].owner
ShareNext == FirstOf(DOMAIN call.rows)
\* Mutated: the row is copied as the source has it.
ShareChange_owner(h) ==
    [NoChange EXCEPT
        !.row = [j \in {<<h, k[2]>> : k \in ShareNext} |-> call.rows[<<call.from, j[2]>>]],
        !.ref = [s \in {call.rows[k].stripe : k \in ShareNext} |->
                    LET k == CHOOSE x \in ShareNext : call.rows[x].stripe = s
                    IN  share(s, SharedAs(k, h), h)]]

ShareChange(h) ==
    [NoChange EXCEPT
        !.row = [j \in {<<h, k[2]>> : k \in ShareNext} |->
                    [stripe |-> call.rows[<<call.from, j[2]>>].stripe, owner |-> h]],
        !.ref = [s \in {call.rows[k].stripe : k \in ShareNext} |->
                    LET k == CHOOSE x \in ShareNext : call.rows[x].stripe = s
                    IN  share(s, SharedAs(k, h), h)]]
ShareFails(h) == \E k \in ShareNext : ShareRefused(call.rows[k].stripe, SharedAs(k, h))

\* release_chunks: a batch of the rows the holder has left.
HeldAs(k) == IF k[1] \in Snapshots THEN k[1] ELSE db.row[k].owner
ReleaseNext(h) == FirstOf(RowsOf(h))
ReleaseChange(h) ==
    [NoChange EXCEPT
        !.row = [k \in ReleaseNext(h) |-> NoRow],
        !.ref = [s \in {r \in Stripes : \E k \in ReleaseNext(h) :
                            db.row[k].stripe = r /\ Releases(r, HeldAs(k))} |->
                    LET k == CHOOSE x \in ReleaseNext(h) : db.row[x].stripe = s
                    IN  release(s, HeldAs(k))]]
ReleaseFrees(h) == {db.row[k].stripe : k \in {x \in ReleaseNext(h) : NowFree(db.row[x].stripe, HeldAs(x))}}

-----------------------------------------------------------------------------
(* Calls.                                                                  *)

Begins(c) == /\ call = Idle
             /\ call' = [c EXCEPT !.rows = <<>>]
             /\ UNCHANGED <<db, log, freed, want, cuts>>
New(op, h, stage) == [Idle EXCEPT !.op = op, !.to = h, !.stage = stage]

create_volume(v) == /\ v \notin used /\ used' = used \cup {v}
                    /\ Begins(New("create", v, "row"))
                    /\ UNCHANGED life

\* update_volume: a gateway attaches a volume it last knew to be available
\* (which it may no longer be), or detaches one it knows nothing of.
update_volume(v, st) == /\ Attaches /\ db.st[v] # "none"
                        /\ st = "attached" => db.st[v] # "creating"
                        /\ Begins([New("update", v, "row") EXCEPT !.new = st])
                        /\ UNCHANGED <<used, life>>

commit_chunks(v, c, s) ==
    /\ db.st[v] \notin {"none", "deleting", "creating"}
    /\ s \notin used /\ used' = used \cup ({s} \cap Stripes)
    /\ Begins([New("commit", v, "row") EXCEPT !.chunk = c, !.new = s,
                                              !.expected = db.row[<<v, c>>].stripe])
    /\ UNCHANGED life

create_snapshot(v, s) ==
    /\ db.st[v] \notin {"none", "deleting", "creating"}
    /\ s \notin used /\ used' = used \cup {s}
    /\ Begins([New("share", s, "mark") EXCEPT !.from = v])
    /\ UNCHANGED life

clone_volume(s, v) ==
    /\ db.st[s] = "available"
    /\ v \notin used /\ used' = used \cup {v}
    /\ Begins([New("share", v, "mark") EXCEPT !.from = s])
    /\ UNCHANGED life

\* delete_volume, delete_snapshot: marked first, unless it is already.
delete(h) ==
    /\ db.st[h] \notin {"none", "attached"}
    /\ Begins(New("delete", h, IF db.st[h] = "deleting" THEN "release" ELSE "mark"))
    /\ life' = [life EXCEPT ![h] = "doomed"]
    /\ UNCHANGED used

Requests == \/ \E v \in Volumes : \/ create_volume(v)
                                  \/ \E st \in {"available", "attached"} : update_volume(v, st)
                                  \/ \E c \in Chunks, s \in Stripes \cup {Nil} : commit_chunks(v, c, s)
                                  \/ \E s \in Snapshots : create_snapshot(v, s) \/ clone_volume(s, v)
            \/ \E h \in Holders : delete(h)

Proposes(d) ==
    /\ log' = Append(log, [new |-> d, by |-> call.op,
                           exp |-> [st |-> AsIn(d.st, db.st), row |-> AsIn(d.row, db.row),
                                    ref |-> AsIn(d.ref, db.ref)]])
    /\ UNCHANGED <<db, used, freed, want, life, cuts>>
Sends(d) == Proposes(d) /\ call' = [call EXCEPT !.waits = TRUE]
SendsFreeing(d, free) == Proposes(d) /\ call' = [call EXCEPT !.waits = TRUE, !.freeing = free]
Fails == call' = Idle /\ UNCHANGED <<db, log, used, freed, want, life, cuts>>

At(op, stage) == call.op = op /\ call.stage = stage /\ ~call.waits

Creates == At("create", "row") /\ Sends(SetState(call.to, "available"))

Updates == /\ At("update", "row")
           /\ IF db.st[call.to] = "none" THEN Fails ELSE Sends(SetState(call.to, call.new))

\* Names what it replaces, so a stale writer cannot overwrite a newer chunk.
Stale == db.row[<<call.to, call.chunk>>].stripe # call.expected
Commits == /\ At("commit", "row")
           /\ IF Stale THEN Fails
              ELSE SendsFreeing(CommitChange(call.to, call.chunk, call.new),
                                CommitFrees(call.to, call.chunk))

Marks == \/ At("share", "mark") /\ Sends(SetState(call.to, "creating"))
         \/ At("delete", "mark") /\ Sends(SetState(call.to, "deleting"))

Shares == /\ At("share", "share") /\ call.rows # <<>>
          /\ IF ShareFails(call.to) THEN Fails ELSE Sends(ShareChange(call.to))

Opens == At("share", "share") /\ call.rows = <<>> /\ Sends(SetState(call.to, "available"))

ReleasesBatch == /\ At("delete", "release") /\ RowsOf(call.to) # {}
                 /\ SendsFreeing(ReleaseChange(call.to), ReleaseFrees(call.to))

Drops == At("delete", "release") /\ RowsOf(call.to) = {} /\ Sends(SetState(call.to, "none"))

\* The answer: the caller deletes the shards of what nothing uses any more.
Responds == /\ call.stage = "done"
            /\ call' = Idle /\ freed' = freed \cup call.free
            /\ UNCHANGED <<db, log, used, want, life, cuts>>

-----------------------------------------------------------------------------
(* Raft.                                                                   *)

Matches(m) == /\ m.exp.st  = AsIn(m.exp.st, db.st)
              /\ m.exp.row = AsIn(m.exp.row, db.row)
              /\ m.exp.ref = AsIn(m.exp.ref, db.ref)
Written(m) == [st |-> Over(m.new.st, db.st), row |-> Over(m.new.row, db.row),
               ref |-> Over(m.new.ref, db.ref)]

\* The call whose batch was written goes on; share_chunks reads the rows of
\* the source, once.
Advanced(m) ==
    LET reached == CASE call.op = "share" /\ call.stage = "mark" -> "share"
                     [] call.op = "share" /\ m.new.row # <<>> -> "share"
                     [] call.op = "delete" /\ call.stage = "mark" -> "release"
                     [] call.op = "delete" /\ m.new.row # <<>> -> "release"
                     [] OTHER -> "done"
        rows == IF call.op # "share" THEN <<>>
                ELSE IF call.stage = "mark" THEN [k \in RowsOf(call.from) |-> db.row[k]]
                ELSE [k \in DOMAIN call.rows \ ShareNext |-> call.rows[k]]
    IN  [call EXCEPT !.waits = FALSE, !.stage = reached, !.rows = rows,
                     !.free = @ \cup call.freeing, !.freeing = {}]

\* The batch of the call being served is the last in the log.
Served == call.waits /\ Len(log) = 1

Asked(m) == IF m.by = "commit" THEN [k \in DOMAIN m.new.row |-> m.new.row[k].stripe]
            ELSE IF Served /\ call.op = "share" /\ call.stage = "mark"
                 THEN [k \in {call.to} \X Chunks |-> db.row[<<call.from, k[2]>>].stripe]
            ELSE <<>>

Settles(m) == {h \in DOMAIN m.new.st : m.by \in {"create", "share"} /\ m.new.st[h] = "available"}

Applied == /\ log # <<>> /\ log' = Tail(log)
           /\ Matches(Head(log))
           /\ db' = Written(Head(log))
           /\ call' = IF Served THEN Advanced(Head(log)) ELSE call
           /\ want' = Over(Asked(Head(log)), want)
           /\ life' = [h \in Holders |-> IF life[h] = "new" /\ h \in Settles(Head(log)) THEN "whole" ELSE life[h]]
           /\ UNCHANGED <<used, freed, cuts>>

\* A conflict: nothing is written, and the batch is built again.
Conflicts == /\ log # <<>> /\ log' = Tail(log)
             /\ ~Matches(Head(log))
             /\ call' = IF Served THEN [call EXCEPT !.waits = FALSE, !.freeing = {}] ELSE call
             /\ UNCHANGED <<db, used, freed, want, life, cuts>>

HangsUp == /\ call # Idle /\ cuts < MaxCuts
           /\ call' = Idle /\ cuts' = cuts + 1
           /\ UNCHANGED <<db, log, used, freed, want, life>>

LeaderChanges(n) == /\ n < Len(log) /\ cuts < MaxCuts
                    /\ log' = SubSeq(log, 1, n)
                    /\ call' = Idle /\ cuts' = cuts + 1
                    /\ UNCHANGED <<db, used, freed, want, life>>

Serving == Creates \/ Updates \/ Commits \/ Marks \/ Shares \/ Opens \/ ReleasesBatch \/ Drops \/ Responds
Raft    == Applied \/ Conflicts
Cuts    == HangsUp \/ \E n \in 0..MaxCuts : LeaderChanges(n)

Next == Requests \/ Serving \/ Raft \/ Cuts

Spec == Init /\ [][Next]_vars

-----------------------------------------------------------------------------
(* Properties.                                                             *)

Live(h)   == db.st[h] \in {"available", "attached"}
Naming(s) == {k \in Holders \X Chunks : db.row[k].stripe = s}
OwnersOf(s) == {db.row[k].owner : k \in Naming(s)}

Change == [st : UNION {[H -> States] : H \in SUBSET Holders},
           row : UNION {[K -> Row] : K \in SUBSET (Holders \X Chunks)},
           ref : UNION {[S -> SUBSET Referrers] : S \in SUBSET Stripes}]
\* Every variable has its type, a volume's chunk is held as the stripe's own
\* or the volume's, a snapshot's as the snapshot's, and at most the call
\* being served and those cut off have a batch in the log.
TypeOK == /\ db.st \in [Holders -> States]
          /\ db.row \in [Holders \X Chunks -> Row]
          /\ db.ref \in [Stripes -> SUBSET Referrers]
          /\ \A k \in Holders \X Chunks : db.row[k] # NoRow =>
                \/ db.row[k].owner = k[1]
                \/ db.row[k].owner = db.row[k].stripe /\ k[1] \in Volumes
          /\ Len(log) <= cuts + (IF call.waits THEN 1 ELSE 0)
          /\ call.free \cup call.freeing \subseteq Stripes
          /\ used \subseteq Referrers /\ freed \subseteq used
          /\ want \in [Holders \X Chunks -> Stripes \cup {Nil}]
          /\ life \in [Holders -> {"new", "whole", "doomed"}] /\ cuts \in 0..MaxCuts

\* No chunk of a volume or a finished snapshot points at a stripe whose
\* shards were deleted, whatever calls were cut off and whenever the batches
\* they left behind are applied.
LiveIntact == \A h \in Holders : Live(h) => \A c \in Chunks : db.row[<<h, c>>].stripe \notin freed

\* A volume shows what was committed to it, a snapshot what its volume
\* showed when it was taken, a clone what its snapshot did, until deleted:
\* no write, trim or delete of one of them reaches another.
ContentKept == \A h \in Holders : Live(h) /\ life[h] = "whole" =>
                  \A c \in Chunks : db.row[<<h, c>>].stripe = want[<<h, c>>]

\* While no call is cut off, between calls the registry has exactly the
\* referrers that chunks record, a stripe without an entry is one volume's
\* own, and a stripe no chunk names was handed back to be freed.
Accounted == (cuts = 0 /\ call = Idle) =>
                \A s \in Stripes :
                   /\ db.ref[s] # {} => db.ref[s] = OwnersOf(s)
                   /\ db.ref[s] = {} => OwnersOf(s) \subseteq {s} /\ Cardinality(Naming(s)) <= 1
                   /\ s \in used => (s \in freed <=> Naming(s) = {})

\* The module's first lines: "a chunk never points at a stripe already freed".
NeverFreed == \A k \in Holders \X Chunks : db.row[k].stripe \notin freed

\* delete_volume: "a delete interrupted half way is visibly so": a volume not
\* marked as being deleted has all of its chunks.
DeleteIsVisible == \A h \in Holders : Live(h) =>
                      \A c \in Chunks : db.row[<<h, c>>].stripe = want[<<h, c>>]
=============================================================================
