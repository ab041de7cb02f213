# ObjectIO: TLA+ models and proofs

ObjectIO is an S3-compatible object store: gateways that speak S3, OSDs that
keep shards and object metadata on disks, and a metadata service (`meta`, a
Raft group) that owns placement, buckets and the repair of what fails. This
directory models the parts of it where the order of events decides whether an
object survives: the copies of one key's metadata, the quorum protocol that writes,
updates, deletes and reads them, what it frees and the recovery that brings the
copies to agree; and, under each copy, the OSD's metadata store, whose log and
checkpoints must keep what the OSD acknowledged through failures and crashes; above
the copies, the placement group that changes its members while all of this goes on;
and beside them the block volumes, whose writes live in a journal and a cache until
they are stored as stripes that snapshots and clones share.

## 1. The system

| Part | State it keeps | Operations | Code |
|---|---|---|---|
| OSD metadata handlers | per key: the current `ObjectMeta` (and versions), the tombstone of its last delete, an index entry per placement group (PG) | `put_object_meta`, `delete_object_meta`, `get_object_meta`, PG listings | `crates/osd/src/service.rs`, `pg_index.rs` |
| Gateway quorum I/O | the gateway's clock (last stamp) | `put_object_meta_with`, `delete_meta_from_all`, `read_object_meta`, `unreferenced`, `reclaimable_after_overwrite` | `crates/gateway/src/osd_pool.rs`, `crates/common/src/stamp.rs` |
| S3 handlers | none across requests (spawned reclaim tasks) | PUT, DELETE, tagging, retention, multipart | `crates/gateway/src/s3/` |
| Peering and recovery | acting sets and epochs of PGs (Raft state), plans in the leader's memory | listing a PG, `recovery_plan`, `recover_object`, `free_displaced`, moving shards | `crates/meta/src/service/{recovery,peering,pgs}.rs` |
| PG epochs on an OSD | the epoch known of each PG | `check`, `learn`, asking meta | `crates/osd/src/pg_epochs.rs` |
| Shared-stripe registry, packs | which objects name a stripe | register, release, sweep | `crates/meta/src/service/packs.rs`, `crates/gateway/src/packs.rs` |
| OSD metadata store | the log, its counters, two memtables, the index file and its label | write, group sync, checkpoint, compaction of the log, open and replay | `crates/storage/src/metadata/` |
| OSD shard store | block extents, checksums | write, read, free | `crates/osd/src/shard_store.rs`, `crates/storage/src/` |
| Block gateway | a journal on a local disk, a write-back cache of chunks | write, group sync, load, flush (background, or asked for), rotation, replay, snapshot | `crates/block/`, `crates/block-gateway/` |
| Block volume metadata | volumes, snapshots, chunk rows, the registry of shared stripes (Raft state) | create, update, commit a chunk, snapshot, clone, delete | `crates/meta/src/service/block_meta.rs` |
| Raft store of meta | log, state machine, snapshots | append, apply, install | `crates/meta-store/`, `crates/meta/` |
| Placement, erasure code | topology | CRUSH, copysets, encode/decode | `crates/placement/`, `crates/erasure/` |
| The rest | IAM, KMS, table catalogs, replication, lifecycle, console, CLI | | `crates/{auth,kms,iceberg,…}`, `bin/`, `console/` |

How they interact. A PUT writes an object's shards to OSDs, then commits its
`ObjectMeta`: one RPC to each OSD of the key's PG, all at once, a majority of
answers needed. The OSD handler runs under the key's lock and orders writes by
stamps that gateways take from their own clocks (`write_order`); a copy that
holds something newer answers *superseded* with the stamp it holds, and the
gateway stamps the write above it and sends it again, at most `MAX_RESTAMPS`
times. Each copy that takes a write hands back what it displaced, and the gateway
uses those answers to decide whether the displaced object's shards may be freed
now, after `RESTAMP_SETTLE` and a second look at the copies, or not at all.
A delete goes the same way and leaves a tombstone. Reads ask the copies and
answer with the newest object of a read quorum, unless one saw a delete as new.
A write that left copies apart queues the PG for recovery on meta's leader, which
lists the members, writes the newest entry to those behind, and frees what that
displaced.

A placement group has an acting member per position, an up set it is to go back to,
and an epoch. Meta's leader stands in for a member that is set out of service or
has been down for too long, recovery moves the group back to its up set, and each
such change raises the epoch, in one conditional commit. Gateways send the epoch a
write was placed under; an OSD refuses one older than it knows and asks meta about
one it does not know. The new member is empty: recovery lists the members that
answer and those they were filled from, brings each to the newest copy, records
the fill done and withdraws the copies of the members replaced.

A block gateway appends a write to its journal, applies it to the cache and answers
once an `fdatasync` that concurrent writes share covers it. Dirty chunks are stored
as new stripes, put in place in meta by a compare-and-swap that names the stripe
they replace; a chunk written in part is first made whole from what is stored.
When nothing is dirty the journal is replaced by an empty one. Meta frees a stripe
when the last of its referrers (a volume, its snapshots, their clones) lets it go.

What is hard: two gateways interleave at every copy in any order; clocks disagree;
a timed-out RPC may have been applied, or be applied later; an OSD can stop
between a delete's two store writes; the decision to free shards is made from
answers that may be stale when it is carried out; recovery works from a listing
while all of this goes on. Nothing but the stamps and the quorum intersection
protects against these. Below, an acknowledgement means that a record reached the
disk: appends share syncs, a sync may fail and lie afterwards, compaction swaps the
log's file under the writers, and a crash can come between any two of these steps.

What makes the core correct:
- an acknowledged put, update or delete is never contradicted by a later read;
- an acknowledged write that follows another outranks it, whatever the clocks say;
- an object that can be read never has its shards freed, and one that cannot is
  freed in the end;
- a copy never moves back in the write order;
- once faults stop the copies agree;
- a store that opens has every write it acknowledged;
- whatever members a placement group went through, once it is filled every read
  quorum of them has each acknowledged write, and it does get filled (the first half
  is true with an exception, see `late` in section 3);
- a block volume is a durable disk, whatever is flushed, loaded or replayed when,
  and a snapshot has what was acknowledged before it;
- no chunk of a volume, snapshot or clone points at a stripe that was freed, or
  changes through another that shares it.

## 2. The modules

| Module | What it is |
|---|---|
| `ObjectCopy` | one OSD's copy of one key, and what the handlers make of it: the write order, `put_object_meta`, `delete_object_meta`, tombstones, the PG index entry. Pure operators, no state. |
| `MetaQuorum` | EXTENDS `ObjectCopy`: the copies, the gateways' operations in rounds, lost and late requests, freeing, recovery. The properties and the inductive invariant are at its end. |
| `MCMetaQuorum` | instances of `MetaQuorum` for TLC. |
| `MetaQuorumProofs`, `LastWriterProofs` | EXTEND `MetaQuorum` and TLAPS: types, the order of a copy, fresh reads; that the last writer wins, and what is freed safely. |
| `PgEpochsProofs`, `MetadataStoreProofs`, `BlockVolumeProofs`, `BlockChunksProofs` | the theorems about those four modules. |
| `BlockContentProofs` | two further theorems about `BlockChunks`, on top of `BlockChunksProofs`. |
| `NumberFacts` | arithmetic and intervals that several proofs use. |
| `MetadataStore` | the log, memtables and index file of one OSD, and the writers, checkpointer and machine that act on them. |
| `PgEpochs` | one placement group changing members under writes of a key: stand-ins, moves, the epoch fence on each OSD, recovery's passes. |
| `BlockDisk` | the abstract specification of a block volume: a disk whose acknowledged writes survive crashes. |
| `BlockVolume` | one volume on a block gateway: clients, journal, cache, loads, flushes, the chunk's stripe in meta, stops and starts. `DurableDisk` is `BlockDisk!Spec` under a refinement mapping. |
| `BlockChunks` | meta's tables of volumes, snapshots, chunks and shared stripes, the call being served and the batches in the Raft log. |
| `MCMetadataStore`, `MCPgEpochs`, `MCBlockVolume`, `MCBlockChunks` | instances of these for TLC. |

`MQ_*.cfg`, `MS_*.cfg`, `PE_*.cfg`, `BV_*.cfg` and `BC_*.cfg` are the configurations.
`BlockVolume` takes a commit to meta as one compare-and-swap of a chunk's stripe,
which is what `commit_chunks` of `BlockChunks` is to one caller. `MetaQuorum` takes
the members of the group as fixed and `PgEpochs` takes a key's copy as a number in
the order of stamps, which `CopiesOnlyAdvance` justifies. `MetaQuorum` and
`MetadataStore` meet in one assumption: `MetaQuorum` takes each store write of a handler as durable once
answered, which is what `MetadataStore`'s `AckedSurvive` says. Where a handler
makes two store writes (a delete's tombstone and removal), `MetaQuorum` lets the
OSD stop between them.

### State and code

| `MetaQuorum` | Code |
|---|---|
| `copy[c].obj`, `copy[c].tomb` | the stored `ObjectMeta` of the key on OSD `c`, and its tombstone record |
| `clock[g]` | the `CLOCK` of gateway `g` (`stamp.rs`) |
| `op[o].w`, `exp` | the `ObjectMeta` a round carries, and `expected_object_id` |
| `op[o].round`, `ans`, `held` | the loop of `put_object_meta_with` / `delete_meta_from_all`: the round, each copy's answer, `newest` |
| `op[o].took`, `disp`, `nrem` | `took` and the displaced objects a gateway remembers across rounds |
| `op[o].st` = settle, look, free | the spawned reclaim: the sleep, the reads of `unreferenced`, the frees |
| `late` | requests in flight whose caller gave up |
| `heal` | one key's plan and its progress in `recover_object` |
| `freed` | (object, path) for which a shard delete was issued |
| `op[o].after`, `behind` | history, used by properties only |

| `MetadataStore` | Code |
|---|---|
| `log`, `old` | `metadata.wal` record by record, each in the page cache, on disk, in neither for good (`hole`) or torn; the file it replaced while a power cut could bring it back |
| `file`, `label` | the redb index file and its `checkpoint_lsn` |
| `active`, `frozen` | the two memtables |
| `wal` | `next_lsn`, `written_lsn`, `synced_lsn`, `failed` |
| `wr[w].st` | where a write is: in `append` (wrote, sync), before `apply`, returned |
| `ck` | the checkpoint thread, from `freeze` to `sync_parent_dir` |
| `InFlight`, `LogHeld`, `HandleHeld` | the gate, the writer lock, the lock of `sync_handle` |

| `PgEpochs` | Code |
|---|---|
| `pg` | the `PlacementGroup` row: `epoch`, `acting`, `up`, `filling` (`from`) |
| `node[o]` | the OSD's `admin_state`, and whether it answers |
| `known[o]`, `pushes` | `PgEpochs::known` on OSD `o`, lost at a restart; `SetPgEpochs` requests on their way |
| `held[o]` | the write OSD `o`'s copy of the key is of |
| `writes[w]` | a write's epoch, the members it was sent to, each one's answer, its outcome |
| `pass`, `withdraws` | `recover_pg` between its steps; the deletes `finish_filling` sends to strays |

| `BlockVolume` | Code |
|---|---|
| `file`, `old`, `sequence`, `synced`, `failed`, `syncing` | `WriteJournal`: the file (and the one it was renamed over), `sequence`, `synced`, `failed`, the `syncer` lock |
| `cache`, `versions` | `WriteCache`: dirty and clean chunks, the ranges a pending one has, `next_version` |
| `loading`, `reading` | `Resolver::whole_chunk` between the read from the OSDs and the cache lock |
| `flush`, `lock` | `flush_volume`, `flush_volume_all_locked`, `flush_lock` |
| `rec`, `late`, `snap` | the chunk's row in meta, commits still on their way, the last snapshot |

| `BlockChunks` | Code |
|---|---|
| `db` | `BlockTables`: volumes and snapshots (`st`), chunk rows (`row`), `StripeRefs` (`ref`) |
| `call`, `log` | the handler that has `block_lock`; batches given to Raft and not applied |
| `freed` | stripes whose shards `free_stripes` deleted |
| `used`, `want`, `life` | ids given out; history |

The refinement: `BlockDisk`'s `val` is, cell by cell, what a read would answer: the
cache's bytes where it has them, else the stored ones. Every step of a flush, a load
or a rotation has to be a stutter of that disk, and every restart a `Crash`.

### What is abstracted

- One key of a bucket that never had versioning, large objects (no shards in the
  metadata). An `ObjectMeta` is its object id, stamp and update stamp; ids are
  operation numbers, compared in the order the UUID strings would be.
- A stamp packs milliseconds and a counter; a full counter borrows the next
  millisecond, so a stamp is one number and `next_after` the next one.
- Reads (the one an update starts from, and those of the properties) and recovery's
  listing take the copies of their quorum in one step. `unreferenced`, whose
  non-atomicity matters, reads the copies one by one.
- A refused PG epoch counts as an unreachable copy, as `put_object_meta_with`
  does; placing the key again under a new epoch, the refusal of a stamp too far
  ahead of an OSD's clock, and writes with no stamp (from old gateways) are left out.
- `RESTAMP_SETTLE` is a timing assumption: it is taken to outlast every write that
  had a request out when the operation ended. `Settled` waits for exactly those.
- Freeing is one step for all shards of an object. Recovery's rebuilding and moving
  of shards, and its `held_nowhere` branch, are left out; recovery writes the
  metadata it found.
- In `MetadataStore` a write is one record that sets keys to its own number (a delete
  is a write like another), applied to the memtable in one step; callers hold a lock
  on the keys they write, as the OSD's handlers do (`lock_key`). redb commits are
  atomic and durable (external). A failed `fdatasync` leaves each page written or
  never to be written, as the comment on `failed` describes Linux. An `fdatasync` of
  the log that replaced another is taken to make its name durable too, as
  journalling file systems do: an open does not sync the directory, so a process
  killed between the rename and the directory sync leaves that to the file system.
  Damage to synced records is not modelled; `scan_wal`'s refusal of it is, since a
  power cut that loses a record before a whole one looks the same.
- The failure of every fetch in `recover_object` ends the repair as `Changed` does.
- In `PgEpochs` one key; failure domains, shards, room on OSDs and recovery's order
  and backoff are left out, so any spare may or may not suit a position, and a pass
  may come at any time. A change of the group is one step: the code commits it on
  condition that the group is as it was read. An OSD that is out of service does not
  also stop. Meta is one leader that does not fail, but an OSD's question is answered
  by any node of meta from what it has applied (`Told`): with any epoch from the
  request's to the committed one. An older answer is left out, since the OSD would act
  as if it had asked before the request came. A member of a group is stood in for by
  meta's upkeep (`Replaces`, out of service or down) or before a write is placed
  (`ReplacesOut`, out of service only, and the up set is left as it is).
- In `BlockVolume` one volume, chunks of two parts; an entry of the journal is whole
  or not there, and is of parts of one chunk (in the code one may span chunks, which
  are applied to the cache one after another under its lock). A commit that is on its
  way when the gateway stops is carried out later, or never (`InFlight`). A power cut keeps any subset of the entries not synced; a kill keeps
  the page cache. The two never come in one run: after a kill the journal is opened
  without syncing what the page cache had, or the rename it may follow, so a power
  cut then depends on the file system. Clean chunks are never evicted (a read that
  misses shows what eviction would).
- In `BlockChunks` a commit expects the stripe its chunk has when the call begins. The
  gateway read it earlier (`flush.rs:47`), so a caller whose view is stale appears here
  only through the batches of calls cut off; `BlockVolume` has the read and the commit
  apart. When meta answers that the chunk has changed, the gateway frees the new stripe
  (`flush.rs:72`); here the stripe is left, named by nothing and not freed. A batch is `Batch` chunks; ids are never reused; the limit on
  retries of a conflicting batch, which only ends a call, is left out.

## 3. The runs

| Run | Instance | Shows |
|---|---|---|
| `racing_puts` | 2 PUTs, skewed clocks, lost, late, down, die; 2 faults | `TypeOK`; `IInv`, the invariant of the proofs; `SettledFreesSafe`: what is freed after the settle is never readable; `ReadableIntact`, `NothingLeaks`: while nothing fails every path frees all and only what is unreadable; `LaterWins`: an acknowledged operation outranks what was acknowledged before it began |
| `update_vs_delete` | PUT, tagging update, delete, 2 at a time; skewed; 1 fault: lost, late, unread, or a stop inside a delete | `LaterWins`: an update never brings back what a delete removed; `FreshReads`; `AckedFreesSafe`: what is freed after the settle, or by a superseded commit, is never readable if its PUT was acknowledged |
| `heals` | PUT, then delete; 2 faults of lost, late, down, unread, die; recovery; fair | `Converges`: operations end and all read quorums agree for good; `CopiesOnlyAdvance`; `NoObjectUnderTombstone` |
| `store` | 3 writes of 2 keys, one a batch of both; any 3 faults of six kinds; 2 checkpoints | `TypeOK`; `AckedSurvive`: an open store has every acknowledged write; `LabelIsTrue`: the index file is as complete as its label says; `RefusedOnlyAfterPowerCut` |
| `epochs` | 3 members and a spare, a write over an older one, 2 changes of the group; any 2 of OSDs stopping, OSDs drained, requests or answers lost | `TypeOK`; `FenceHolds`: a write that can no longer be acknowledged under its epoch stays so, through restarts that forget every epoch and epochs told late or out of order; `InTimeQuorumsHold`: once filled, every read quorum of the members has every write that was acknowledged before its epoch was over |
| `settles` | the same group, 1 fault (an OSD down, one drained, or a gateway that gives up on a request still served), fair | `Settles`: the group ends filled, every member in service with every acknowledged write |
| `loop` | 1 chunk of 2 parts, 2 clients, 2 writes, the background loop, a reader; any 2 of power cuts, failed syncs, lost commits | `TypeOK`; `DurableDisk`: the volume implements `BlockDisk`; `CleanIsStored`: nothing the cache calls clean is missing from the OSDs, so the journal may go; `ReadsFresh` |
| `request` | 2 chunks of 2 parts, 2 writes, flushes and snapshots asked for, and the background loop, taking their copies in turn; a kill (with commits on their way), a failed append or a failed store | `DurableDisk`; `SnapshotHasAll`: a snapshot has every write acknowledged before it was asked for |
| `chunks` | 2 volumes and a snapshot, 2 chunks, 3 stripes, a chunk per batch, 1 call cut off | `TypeOK`; `LiveIntact`: no live chunk names a freed stripe; `ContentKept`: no write, trim or delete of one holder reaches another; `Accounted`: the registry has exactly the referrers there are |

Bounds. In the runs of `MetaQuorum` there are three symmetric copies (write quorum
2, read quorum 2: the smallest in which a quorum can miss a copy). Wall clocks read
1 or 3 (`Skewed`: enough for a gateway to be behind, level with, or ahead of
another), or 1 (`Slow`: only the counters tell stamps apart, and ties are common).
Two faults let an operation miss its quorum, or two operations each lose one
message. `MaxRestamps` is 2 or 3 (`MAX_RESTAMPS` in the code is larger: the
property that depends on it excludes writes that ran out of rounds, and 3 lets each
of two writes supersede the other). `MaxRacing` bounds how many operations are in
flight at once.

In `store` three writes of overlapping keys let one sync cover two of them, a write
fall on each side of a mark, and a later write hide an earlier one; three faults
reach a failed sync or write, a kill, and a power cut in one behaviour; two
checkpoints let one find the memtable another left frozen.

In `epochs` and `settles` one spare and three epochs let a member be replaced,
return, and be moved back to, or replaced once more. `epochs` says nothing of a write
that is acknowledged after the group has moved on: one drain is enough for such a
write to be missed by a read quorum (`late`, below). Of the others, two faults are what
the code tolerates: with a third `InTimeQuorumsHold` fails too (`PE_old_view`). `Settles`
is about every acknowledged write, late or not: recovery's next pass finds it. In `loop` two
writes of one chunk, each of any of its parts, reach every order of write, load,
store, mark and rotation of two versions; three writes with one fault pass as well
(900 000 states). Left alone the two kinds of flush break the properties (`stale`).
`request` has both and checks the behaviours of `InTurnSpec` (as `Spec` with the action
constraint `InTurn`, so that TLC reports the actions by name): a flush takes its copies of chunks only
while no other has copies that it has not stored. Client flushes always do, since they
take theirs under the flush lock, and so does the loop by itself; the loop's copy
taken while a client's flush is at work, or the other way round, is the one thing left
out, and is what `stale` shows. A commit lost while the gateway goes on is in `loop`, and
with client flushes in the theorems; together with a kill the instance of `request` is too
large. In `chunks` two volumes and a snapshot make the longest chain of
sharers (volume, snapshot, clone), three stripes let a chunk be written, shared and
written again, and a batch of one chunk lets anything come between the chunks of a
call.

### Fairness

`FairSpec` of `MetaQuorum` asks weak fairness of each gateway's operations (every RPC
has a timeout and spawned tasks run: tokio), of late requests (a packet arrives or is
dropped), and of recovery as a whole (the leader peers dirty PGs periodically,
forever). `FairSpec` of `PgEpochs` asks it of meta's upkeep (every `KEEP_EVERY`), of
recovery's loop and its requests, of each write's requests and answers, and of
an OSD that is down coming back (the units the installer writes say
`Restart=on-failure`, `bin/install/src/systemd.rs`). What an OSD is told of epochs
is not fair: it may miss them all. Faults are never fair and at most `MaxFaults`.
Runs without a liveness property use `Spec`, but for
`request`, which leaves out the steps `InTurnSpec` does (above). Deadlock is not checked: operations,
writes and calls are finite and the system then rests.

### Where code and comments disagree

Three runs are expected to fail: each checks what a comment of the code says.

| Run | Property | What happens |
|---|---|---|
| `overwrite_frees` | `OverwriteFreesSafe` | The copies agree that an overwrite displaced X, so X is freed at once; X had been superseded on one of them in its first round, is stamped again, and becomes current. |
| `stale` | `SnapshotHasAll` | The background flush takes its copy of a chunk and then waits for the flush lock. A client's flush meanwhile stores a newer version, marks it clean and may empty the journal; the background flush then stores the old copy over it (it reads the chunk's stripe anew, so its compare-and-swap passes). The snapshot lacks an acknowledged write; so does the volume after a restart. |
| `late` | `QuorumsHold` | "a write placed under an acting set that has since changed lands nowhere" (`pg_epochs.rs:7`). A write is on its way to a, b and c when a is drained and d stands in. c hears of the new epoch and refuses; recovery fills d with the older object and records the fill done; a and b, which have not heard, take the write, and the gateway, which asks for a quorum of answers and not for the epoch, acknowledges it. The read quorum {d, c} returns the older object until recovery looks at the group again. |

More configurations show divergences that have no run of their own. Each is refuted
by TLC in seconds. (`MQ_settled_recovery` has two copies, write quorum 2 and read quorum
1: the order of reads, recovery and frees it is about needs no third.)

| Configuration | Property | What happens |
|---|---|---|
| `MQ_unapplied` | `UnappliedIsHeldNowhere` | `MetaWriteError::unapplied` ("No replica can have applied the write", `osd_pool.rs:1197`) is computed from the last round. A copy that took the write in round 1 and is unreachable in round 2 counts as never having had it, and the caller frees the shards. |
| `MQ_recovery_frees` | `RecoveryFreesSafe` | As `overwrite_frees`, through recovery, with two PUTs and no fault: recovery displaces a PUT in the middle of its rounds and frees its shards ("those were the last copies naming them", `recovery.rs:1714`); it is stamped again. |
| `MQ_hidden_tombstone` | `Converges` | An OSD that stops between the tombstone and the removal of a delete lists the object, as the copies that missed the delete do. Recovery sees no difference ("the copies are brought to agree", `osd_pool.rs:2338`); reads through that copy say not found, others return the object, for good. |
| `MQ_delete_delete` | `LastWriterWins` | A delete compares its stamp with the object only (`osd_pool.rs:2265` says it "is stamped above it and sent again"). When a copy holds a newer tombstone and another an older object, nothing tells a gateway with a slow clock to stamp its delete higher; acknowledged, it leaves the object readable. |
| `MS_replayed` | `AppliedIsDurable` | An open after the process alone was killed reads the log through the page cache ("Everything already on disk is durable by definition", `wal.rs:362`). A record never synced is replayed and served; a power cut can then take it back. If the index file was checkpointed meanwhile, its label outlives the record, the next append skips a number, and the open after that refuses the log. |
| `MQ_settled_recovery` | `SettledFreesSafe` | "An object gone from every replica can't come back" (`osd_pool.rs:2373`). PUT 1, superseded on c1 by PUT 2, is stamped again, reaches c1, and its gateway dies. PUT 2's reclaim reads c2, which holds 2. Recovery fetches 1 from c1 to write it to c2; a delete removes 1 from c1; the reclaim reads c1, has found 1 nowhere and frees it; recovery writes 1 to c2. |
| `MQ_passed_over` | `PassedOverFreesSafe` | "X is older than this write, which a quorum holds, so X is never read again" (`osd_pool.rs:2611`). PUT 1, superseded by PUT 2 on one copy, is stamped above it and reaches one copy, where its gateway dies. PUT 2 displaced 1 elsewhere; its reclaim cannot read that copy, passes it over (`osd_pool.rs:2676`) and frees 1, which reads return as the newest. |
| `PE_old_view` | `InTimeQuorumsHold` | Recovery's plan: "nothing is decided on a view that may be old" (`recovery.rs:1222`). A write that one member missed; of the two that have it one is drained and the other stops. Recovery counts the empty stand-in among the members a read needs and does not ask the draining OSD (`usable_address` wants it in service), so it records the fill done without the write. |
| `PE_cached` | `CachedReadsFresh` | "staleness costs a retry, never a wrong answer" (`placement_cache.rs:9`). Reads carry no epoch. With two members drained and one of them replaced, a write is acknowledged by the third and the new member; a GET placed before that asks the three old ones, has its quorum from the two drained, and returns the older object. |
| `PE_flaps` | `MovesToLiving` | "A member only down stays in `up`: when it is back, recovery moves the PG back to it" (`pgs.rs:670`). `remap_positions` asks for an address and `In`, not for an answer: the group is moved back onto the member that is still down, and stood in for again. |
| `BV_mix` | `SnapshotIsOnePoint` | "the snapshot is one point in time rather than a mix of two" (`block-gateway/src/service.rs:428`). A partial write to a chunk that becomes pending after the flush listed the pending ones is filtered out of what it stores, and a later write to another chunk is in. |
| `BC_half` | `DeleteIsVisible` | "a delete interrupted half way is visibly so" (`block_meta.rs:498`). An attach or detach afterwards sets the volume back to `Attached` or `Available`, with part of its chunks gone. |
| `BC_freed` | `NeverFreed` | "a chunk never points at a stripe already freed" (`block_meta.rs:15`). Releasing a stripe without a registry row puts no condition on the batch: a snapshot being created by a call that was cut off shares the stripe in a batch applied after it was freed. The snapshot is never finished, so `LiveIntact` holds. |

Smaller ones have no configuration. The comment above the metadata operations
(`osd_pool.rs:1168`) is of an older design: writes "require every replica to succeed"
(the code asks for a majority, as does `put_object_meta_to_all`, whose own comment still
says all), reads "return the first success" (they take the newest of a read quorum),
and a stale copy is harmless "because ObjectListingEntry is the source of truth" (the
tombstones and the write order are what protects against it).

## 4. The proofs

Each theorem holds for every value of the constants that satisfies the `ASSUME`s of
its module, so for any number of copies, OSDs, writes, faults and rounds.

| Module | Theorem | Statement |
|---|---|---|
| `MetaQuorumProofs` | `TypeCorrect` | `Spec => []TypeOK` |
| | `CopiesAdvance` | `Spec => CopiesOnlyAdvance`: no handler (live, late, cut short by a crash, of a gateway or of recovery) moves a copy down the write order |
| | `InductiveInvariant` | `Spec => []IInv` |
| | `ReadsAreFresh` | `Spec => []FreshReads` |
| | `ObjectsAboveTombstones` | `Spec => []NoObjectUnderTombstone`, if OSDs do not stop inside a delete |
| `LastWriterProofs` | `LastWriter` | `Spec => []LaterWins` |
| | `SupersededFrees` | the shards of a commit that every copy superseded are of no object that a read returns |
| | `AckedFreesAreSafe` | `Spec => []AckedFreesSafe` |
| `PgEpochsProofs` | `TypeCorrect` | `Spec => []TypeOK`: no OSD has two positions, none knows an epoch that was not committed, no member is filled from itself |
| | `FenceStays` | `Spec => FenceHolds` |
| `MetadataStoreProofs` | `TypeCorrect` | `Spec => []TypeOK` |
| | `LabelTrue` | `Spec => []LabelIsTrue` |
| | `AcksSurvive` | `Spec => []AckedSurvive` |
| | `OnlyPowerCutsRefuse` | `Spec => []RefusedOnlyAfterPowerCut` |
| `BlockChunksProofs` | `TypeCorrect` | `Spec => []TypeOK` |
| | `FreedIsNotLive` | `Spec => []LiveIntact` |
| `BlockContentProofs` | `ContentIsKept` | `Spec => []ContentKept` |
| | `AccountsAreExact` | `Spec => []Accounted` |
| `BlockVolumeProofs` | `TypeCorrect` | `Spec => []TypeOK` |
| | `Invariants` | `InTurnSpec => [](IInv /\ OneTakes)`, under `OneFault` (below), as the next four |
| | `CleanChunksAreStored` | `InTurnSpec => []CleanIsStored` |
| | `ReadsAreFresh` | `InTurnSpec => ReadsFresh` |
| | `SnapshotsHaveAll` | `InTurnSpec => []SnapshotHasAll` |
| | `VolumeIsDurableDisk` | `InTurnSpec => DurableDisk`: the volume implements `BlockDisk` |
| | `OneKindTakesInTurn` | `Spec => InTurnSpec`, if there are only client flushes or only one loop |

### MetaQuorum

The constants: a finite non-empty set of copies; operations numbered from 1, of any
kinds and gateways; any clock readings. The write and read quorums are the code's
formulas, and `QuorumsMeet` proves that they intersect.

`FreshReads` is not inductive: that a read is fresh now says
nothing of which copies hold what. What holds up is that every acknowledged
operation is *covered* on a write quorum (`AckedIsHeld`): each copy there holds the
write, a newer one, or a tombstone as new. Two facts carry it from step to step.
`CopiesAdvance` shows that a copy, whatever happens to it, keeps covering what it
covered (`CoverStays`). And an operation is acknowledged only by copies that
answered its last round, each of which covered the write when it answered and so
covers it still (`AnsweredIsHeld`): a *superseded* answer counts, since something newer
covers as well. Both need that every write is stamped (`Stamped`), as a copy lets an
unstamped write replace anything. `IInv` is the conjunction. `HeldIsFresh` then gets
`FreshReads` from `AckedIsHeld` and quorum intersection.

`NoObjectUnderTombstone` is inductive without crashes, given that recovery
carries an entry that satisfies it too; an OSD that stops between a delete's two
store writes breaks it, which is why the theorem excludes that fault.

`LaterWins` needs `RankInv`. While an operation `o` is out that began after a put `p`
was acknowledged, a write quorum covers `p`. A copy of that quorum that takes a round
of `o` either ranks `o` above `p`, or answers *superseded* with a stamp above which
the next round goes (`SupersededKnows`); a round that ends with a quorum and nobody
superseding it therefore carries a write that ranks above `p`, and every read
quorum meets a copy that took it. That a stored object is its put's, at a stamp the
put has been sent with (`NamesKept`), excludes that `p` comes back under a higher
stamp. A delete is different: a copy answers *superseded* of objects only, so a
newer tombstone leaves a delete at its low stamp. `LaterWins` makes exactly that
exception; `LastWriterWins`, without it, is what `MQ_delete_delete` refutes.

What is freed. A commit that every copy superseded frees its own shards, and `PastInv` says
why no read misses them: nothing carries the stamp of a round before some copy may have
taken it (`RoundsNew`), so a copy that answers *superseded* while none may have taken it
is past the round by another object or a tombstone, and stays past it (`PastStays`). Once
all copies are, what any of them still holds of the object is under a tombstone, no late
request of it is taken, and no read returns it. This needs no assumption.

What is freed after `RESTAMP_SETTLE` needs `SettleInv`. It may free only what a PUT wrote
(`MayFree`), and when the wait ends that PUT has ended (`Waits`). If it was acknowledged
a write quorum covers it, at the last stamp it was sent with. A copy of that quorum that is
read and does not hold the object is then *past* it (`CoveredElsewhere`), and stays past
it whatever a late request or recovery brings, since copies only move up
(`OvertookStays`). Once all copies have been read a whole write quorum is past the PUT,
every read quorum meets it, and no read returns the object (`OvertookUnread`). No
hypothesis on faults or recovery is needed. The argument has nothing to say of a PUT
that was *not* acknowledged: no quorum covers it, recovery can carry it from a copy not
read yet to one already read, and `MQ_settled_recovery` shows that it does. Nor of a copy that
was passed over, which is `MQ_passed_over`. `MQ_acked_frees` checks the property with
recovery, two PUTs and a delete (TLC finds no error in two minutes).

### PgEpochs

The constants: a finite non-empty set of members, among any set of OSDs. `TypeOK` is
inductive by itself. It carries the facts the code takes for granted of a committed
group: the acting set has no OSD twice, and epochs on OSDs, in requests, writes
and passes are at most the committed one. `FenceHolds` follows from it and from
`Sized`: a write was sent to as many members as the group has positions. A member
that was fenced off stays so (its `known` only goes up), or it restarts and
forgets, and then its request has failed. When a write's outcome is settled, the
members that took it are too few for a quorum, since the fenced ones and they
are disjoint parts of the members it was sent to.

### MetadataStore

The constants: any finite set of writes, with any sets of keys. `DurableInv` says
what the files, the counters and the memtables have to do with each other at every
step of a writer, a checkpoint, a crash or an open:

- each record of the log, and of the file it replaced while a power cut could bring
  that back, is in the order of its number (`Ordered`); a record with a larger number than
  an acknowledged write was appended after it (`After`), and writes of one key follow
  one another (`Exclusive`);
- an acknowledged write is in the index file under the label, or its record is on
  disk in *each* file that a power cut may leave (`Durable`);
- a write in flight has a number above the label and above the mark of a checkpoint
  that has frozen the memtable, and the index file with the frozen memtable is
  complete up to that mark: this is what lets the checkpoint label the file with the
  mark, and compaction drop the records up to it;
- at most one process syncs, compacts or holds the log at a time, and `synced` never
  passes what is on disk.

`LabelIsTrue` and `AckedSurvive` are conjuncts of it. `RefusedOnlyAfterPowerCut` needs
another invariant, `Unbroken`: while no power cut came, the log's numbers follow each other
without a gap, from at most one above the label; a torn record is the last; and the
next number is the one after the last record. `UnbrokenOpens` shows that
`scan_wal` accepts such a log. Both were checked with TLC on the instance of `store`
before they were proved.

### BlockChunks

The constants: any sets of volumes, snapshots and stripes, all ids apart, any number of
chunks, size of batch and number of calls cut off. `LiveIntact` is far from inductive:
a stripe is given up in one batch, handed to the caller in another step and freed in a
third, while batches of calls cut off before are still to be applied. `ChunksInv` says
of the tables, the log and the call:

- a stripe that is freed, or about to be handed back, is named only by snapshots that
  are *dead*: not available, with no batch in the log that makes them so and no call
  that would propose one (`GoneIsDead`), and by no batch in the log (`GoneStays`);
- the stripes a batch is about to give up are either the last referrer's, which the
  batch expects of the registry (`LastOne`), or had no registry row and were only in
  the chunks that the batch takes out, or in dead snapshots (`OwnRows`): this is the
  case in which the batch has no condition on the registry, and a share that comes in
  between can only be of a dead snapshot;
- a share's batch is always the first of the log (`Batches`): a call cut off leaves at most
  one, and a share begins its batches only once the log is empty, its mark having been
  applied. So the tables are, at that moment, as they were when it was built, and what
  is left to share is as it was read (`SharingRows`);
- no two chunks have a stripe in the same name (`Apart`), the registry has every
  referrer of a stripe that it has a row for, and a stripe without a row is its
  volume's own (`Entered`); a stripe that a commit brings is in no table (`Bringing`).

Each kind of step has a lemma: a call begins (`BeginInv`), proposes (`ProposalInv`) or ends
(`EndInv`), and Raft finds a conflict (`ConflictInv`) or writes a batch (`AppliedInv`, which
rests on `ShareWritten` and `OutWritten` for the two forms of batches). The invariant
was checked with TLC, with up to two calls cut off, before it was proved.

`ContentKept` takes `ChunksInv` and a second invariant, `ContentInv`, about what the
batches in the log will do to a holder's content when they are applied:

- a holder that was made whole shows what it was set to, available or not (`Kept`);
- only a commit's batch writes chunks of a whole holder, and it sets them to what
  was asked in the same step; a delete's batch writes those of a holder that was asked
  to be deleted, which is then no longer whole (`Elsewhere`, `Deleting`);
- a batch that is to make a new holder whole finds it showing what it was set to, not
  open yet, and with no batch in the log that writes a chunk of it (`Settled`): so it
  does not matter when the batch of a create or a share that was cut off is
  applied. No commit is served for such a holder before (`Committing`);
- while chunks are shared, the target shows what its source showed when the mark was
  applied, but for the chunks that are left to share, which were read as they were
  then (`Copying`); the batch in the log has the whole of the next part.

The steps are the same kinds as above (`BeginContent`, `ProposalContent`, `EndContent`,
`ConflictContent`, `AppliedContent`).

`Accounted` is about the time between calls, while none was cut off; a call changes the
registry, the chunks and what is handed back in several steps. `AccountInv` says what
holds at each of them, again only while no call was cut off. The log then has at most the
batch of the call being served, and nothing changes the tables between its being built
and being applied: it cannot conflict (`Precise`), and no commit finds its chunk stale
(`Expecting`). Further:

- each referrer in the registry has a chunk that records it (`Referred`), the converse
  of `Entered` of `ChunksInv`;
- a stripe that was given out is in a chunk, or freed or about to be, or is the one that
  the commit being served brings, and only one of these (`Handed`);
- a batch takes each referrer that it drops out of the registry, and hands back exactly
  the stripes of which that was the last one (`Drop`); it sets the chunks it writes to
  the stripe of the commit, or to nothing (`Put`).

That a stripe without a row is in one chunk at most follows from `Entered` and `Apart`
(`AccountGives`). The invariant was checked with TLC, with no call cut off, before it was
proved; the theorem is about any number of volumes, snapshots and chunks and any size of
batch.

### BlockVolume

The constants: any numbers of chunks, writes and faults, any non-empty set of parts, any
clients, readers and flushes. The names of clients and flushes are apart from `"none"`,
which stands for nobody in `lock` and `syncing`, and no flush is of both kinds. `TypeOK`
is proved of all of these, for `Spec`. The rest is proved for `InTurnSpec`, any number of
client flushes and background loops among it, and under `OneFault`:

- `InTurnSpec` is `Spec` with the steps left out after which two flushes would both have
  copies of chunks that are not stored yet (`OneTakes`). Without that the properties are
  false of the code: a background flush copies a chunk before it has the flush lock and
  can store it over what a client's flush stored meanwhile, which is what `stale` shows.
  Taking the copies under the lock, as a client's flush does, would make it true:
  `OneKindTakesInTurn` proves it of flushes of one kind, from the lock alone;
- the faults are kills or power cuts, not both (`OneFault`), as in section 2.

`CleanIsStored` says nothing of the journal, `DurableDisk` nothing of the stripes, and
neither is inductive. What a stop may not lose is `Firm`: the writes acknowledged or
waiting for a sync. `IInv` follows each of them through every place its bytes can be.

- *Stored.* Every byte anywhere is of a write to its cell (`AllGenuine`). A byte the cache
  holds has the newest firm write to its cell (`Seen`), and the chunk's stripe has it too
  unless the cache holds the byte dirty (`Backed`). The same is true of every stripe that a
  late commit could still put in its place, and of bytes loaded for a chunk that lacks
  some (`Lates`, `Loads`); bytes being read have what was acknowledged when the read
  began (`Reads`).
- *Flushed.* A copy has what its chunk had at its version, so that what `mark_flushed`
  calls clean, a chunk at the version stored, is stored (`Copies`, `Done`, `Storing`,
  `Ids`). Only the flush that has the lock stores, and the copies it has were taken after
  every earlier flush had stored its own, which is where `OneTakes` is needed.
- *Logs.* Each firm write is an entry of the journal, or *settled* before its entries
  begin: stored in all its cells (`Journaled`, `Older`). While a power cut can bring back
  the old name, that holds of the old journal too, and the part of either that was
  synced has what was acknowledged (`Durable`, `Syncing`).
- *Snapped*, `Taking`. What a flush that began for a snapshot still has to store, with
  what it stored, covers the writes acknowledged before it.

The step that needs an argument is that what is settled stays settled (`SettledStays`).
Stored bytes come from four places only, the stripes, commits that come late, the copies of
the flush at work and whole cached chunks (`Flows`), and the invariant has each of them no
older than the stripe it may replace. A journal is emptied when nothing is dirty, and then
every firm write is settled.

For the refinement, `LogWrite` is a `Write` of the disk, `AppendFails` a `RefusedWrite`, the
two ends of a sync an `Ack`, and a stop a `Crash`, which the invariant shows to keep every
acknowledged write. All other steps change nothing a read would answer, but for one: after
a stop, a late commit of a write that was never acknowledged can appear in a chunk that
the cache does not hold, which `BlockDisk` has as `Surface`. Before the first stop it cannot
(`First`: a chunk not whole in the cache has only zeros stored), and there the steps are
stutters. A commit in flight at a stop joins the late ones (`InFlightIs`, `StoppedFlows`,
`StoppedIds`). `IInv` was checked with TLC, on an instance of each kind of flush, before it
was proved.

### Only model-checked

- `ReadableIntact` and `NothingLeaks` of `MetaQuorum`: they are true of two racing writes
  only, so no theorem for any number of operations states them. With three,
  `MQ_overwrite_frees` shows an object freed while it can be read, and TLC
  finds one left allocated: a PUT keeps the first object it displaced on each copy, and
  one displaced on the same copy in a later round is forgotten.
- `SettledFreesSafe` for two racing PUTs without recovery (`racing_puts`). In general
  it is false (`MQ_settled_recovery`); what is true of any instance is `AckedFreesSafe`.
- `InTimeQuorumsHold` of `PgEpochs`: it is true of at most two faults only, so its proof
  has to count faults along a behaviour. `QuorumsHold`, without the exception for
  writes acknowledged late, is false with one (`late`).
- `Converges` and `Settles`: liveness under fairness is out of the prover's reach.

## 5. Plan

1. **MetaQuorum**, **MetadataStore**, **PgEpochs**, **BlockVolume** with **BlockDisk**,
   **BlockChunks** (done).
2. Proofs: `MetaQuorum`, `MetadataStore`, `FenceHolds`, `BlockVolume`,
   `BlockChunks`, what is freed while recovery runs (done). Next: `InTimeQuorumsHold`.
3. **SmallWrite**: shards kept with the metadata, refused short of *k* and withdrawn
   (`osd_pool.rs:1596`), as an extension of `ObjectCopy`.
4. **StripeRegistry**: the packs of small objects, which resemble `BlockChunks`.
5. The Raft storage of meta (`raft_storage.rs`, `raft_log.rs`): log, snapshots, restarts.

## 6. Not modelled

- Consensus: `meta` uses the openraft library; recovery is modelled as one leader, and
  `BlockChunks` takes the log as a sequence whose end a change of leader may lose.
- The repair of block stripes (`block_stripes`, `block_move_shard`,
  `block_add_shard_locations`) and the NBD front end.
- CRUSH placement, erasure coding, checksums, block allocation: numeric code over
  hashes and fields, out of TLC's reach.
- IAM, KMS, table catalogs, console, CLI, installer, benchmarks: request filtering and
  front ends, without a protocol of their own.
- Versioned buckets, replication, lifecycle, object lock, multipart: built on the
  operations modelled here; candidates once the core is complete.
