---------------------------- MODULE MetadataStore ----------------------------
(***************************************************************************)
(* An OSD's metadata store: a write-ahead log in front of an index.  A     *)
(* write (a batch of puts and deletes by key) is appended to the log as    *)
(* one record, made durable by an fdatasync that concurrent writes share,  *)
(* applied to a memtable, acknowledged.  A checkpoint freezes the memtable,*)
(* commits it to the index file under the log's mark, and replaces the log *)
(* by a new file that holds what came after the mark.  Opening the store   *)
(* replays the log over the index file.                                    *)
(*                                                                         *)
(* A record in the log is where the machine has it:                        *)
(*   cache  written, in the page cache, perhaps on disk                    *)
(*   disk   durable                                                        *)
(*   hole   in the page cache after a failed fdatasync marked it clean:    *)
(*          read by this boot, never written to the disk                   *)
(*   torn   not whole: its append failed part way, or a power cut lost it  *)
(* Callers hold a lock on the keys they write.  Faults is the kinds of     *)
(* fault an instance admits:                                               *)
(*   power  a power cut: what is in the page cache may be lost             *)
(*   kill   the process stops; the machine and its page cache go on        *)
(*   write, room, sync   an append fails, fails for want of room; a sync   *)
(*          of the log, or of its directory, fails                         *)
(*   index  a step of a checkpoint fails                                   *)
(***************************************************************************)
EXTENDS Naturals, Sequences, FiniteSets, FiniteSetsExt

CONSTANTS Keys, Writes,  \* writes are numbered from 1
          Keyset,        \* Writes -> the keys each sets
          Faults, MaxFaults, MaxCheckpoints

ASSUME WritesAssumption == Writes \subseteq Nat \ {0} /\ IsFiniteSet(Writes)
ASSUME KeysetAssumption == Keyset \in [Writes -> SUBSET Keys]
ASSUME LimitsAssumption == MaxFaults \in Nat /\ MaxCheckpoints \in Nat

VARIABLES up,      \* the store: up, down or refused (it would not open)
          log,     \* the log file
          old,     \* the log file it replaced, while its name may come back
          file,    \* the index file, durable: each key's last write
          label,   \* its checkpoint_lsn
          active, frozen,  \* the memtables; a frozen one is there or not
          wal,     \* the open log's counters
          wr,      \* each write's progress
          ck,      \* the checkpoint in progress
          faults,  \* how many, and whether a power cut was one (history)
          checkpoints

vars == <<up, log, old, file, label, active, frozen, wal, wr, ck, faults, checkpoints>>
durable  == <<log, old, file, label>>
volatile == <<active, frozen, wal>>

Slot   == [lsn : Nat, w : Writes, on : {"cache", "disk", "hole", "torn"}]
Table  == [Keys -> Writes \cup {0}]
Empty  == [k \in Keys |-> 0]
NoOld  == [there |-> FALSE, log |-> <<>>]
NoFrozen == [there |-> FALSE, tab |-> Empty]
NotBegun == [st |-> "idle", lsn |-> 0, nth |-> 0, covers |-> 0]
NoCheckpoint == [st |-> "idle", lsn |-> 0, len |-> 0, first |-> 0, new |-> <<>>]
Fresh == [next |-> 1, written |-> 0, synced |-> 0, failed |-> FALSE]

Init == /\ up = "up"
        /\ log = <<>> /\ old = NoOld
        /\ file = Empty /\ label = 0
        /\ active = Empty /\ frozen = NoFrozen
        /\ wal = Fresh
        /\ wr = [w \in Writes |-> NotBegun]
        /\ ck = NoCheckpoint
        /\ faults = [n |-> 0, cut |-> FALSE] /\ checkpoints = 0

Fault(kind) == /\ kind \in Faults /\ faults.n < MaxFaults
               /\ faults' = [n |-> faults.n + 1, cut |-> faults.cut \/ kind = "power"]
Larger(a, b) == IF a >= b THEN a ELSE b
OnDisk(s) == [i \in 1..Len(s) |-> [s[i] EXCEPT !.on = "disk"]]

\* Over: table t's changes over table s's.
Over(t, s) == [k \in Keys |-> IF t[k] # 0 THEN t[k] ELSE s[k]]
get(k) == IF active[k] # 0 THEN active[k]
          ELSE IF frozen.there /\ frozen.tab[k] # 0 THEN frozen.tab[k] ELSE file[k]

\* Writes between their append and their apply hold the gate shared.
InFlight == {w \in Writes : wr[w].st \in {"wrote", "sync", "apply"}}
\* The writer lock and sync_handle: a compaction's second pass holds both.
LogHeld    == ck.st = "renamed"
HandleHeld == LogHeld \/ \E w \in Writes : wr[w].st = "sync"

-----------------------------------------------------------------------------
(* A write.                                                                *)
Begins(w) == /\ up = "up" /\ ~LogHeld
             /\ wr[w].st = "idle"
             /\ \A v \in InFlight : Keyset[v] \cap Keyset[w] = {}
Fails(w)  == wr' = [wr EXCEPT ![w].st = "failed"]
\* The order of appends, across restarts (history: a number lost at a power
\* cut is given again).
NextNth   == Cardinality({v \in Writes : wr[v].nth # 0}) + 1
Record(w, on) == [lsn |-> wal.next, w |-> w, on |-> on]

\* append: number, write, count, under the writer lock.
LogAppend(w) ==
    /\ Begins(w) /\ ~wal.failed
    /\ log' = Append(log, Record(w, "cache"))
    /\ wal' = [wal EXCEPT !.next = @ + 1, !.written = wal.next]
    /\ wr' = [wr EXCEPT ![w].st = "wrote", ![w].lsn = wal.next, ![w].nth = NextNth]
    /\ UNCHANGED <<up, old, file, label, active, frozen, ck, faults, checkpoints>>

\* check: a log that failed takes no write.
Refuses(w) ==
    /\ Begins(w) /\ wal.failed
    /\ Fails(w)
    /\ UNCHANGED <<up, durable, volatile, ck, faults, checkpoints>>

\* append_failed, out of space: what was written is cut off.
NoRoom(w) ==
    /\ Begins(w) /\ ~wal.failed
    /\ Fault("room")
    /\ Fails(w)
    /\ UNCHANGED <<up, durable, volatile, ck, checkpoints>>

\* append_failed otherwise: part of the record, or all of it, is left.
WriteFails(w) ==
    /\ Begins(w) /\ ~wal.failed
    /\ Fault("write")
    /\ \E on \in {"torn", "cache"} : log' = Append(log, Record(w, on))
    /\ wal' = [wal EXCEPT !.failed = TRUE]
    /\ wr' = [wr EXCEPT ![w].st = "failed", ![w].lsn = wal.next, ![w].nth = NextNth]
    /\ UNCHANGED <<up, old, file, label, active, frozen, ck, checkpoints>>

\* sync_through: another write's sync covered this one ...
Covered(w) ==
    /\ up = "up" /\ wr[w].st = "wrote"
    /\ wal.synced >= wr[w].lsn
    /\ wr' = [wr EXCEPT ![w].st = "apply"]
    /\ UNCHANGED <<up, durable, volatile, ck, faults, checkpoints>>

\* ... or, with the sync handle held, it samples what is written and syncs.
TakeHandle(w) ==
    /\ up = "up" /\ wr[w].st = "wrote"
    /\ ~HandleHeld /\ wal.synced < wr[w].lsn
    /\ wr' = IF wal.failed THEN [wr EXCEPT ![w].st = "failed"]
             ELSE [wr EXCEPT ![w].st = "sync", ![w].covers = wal.written]
    /\ UNCHANGED <<up, durable, volatile, ck, faults, checkpoints>>

\* Mutated: the watermark is sampled after the sync.
SyncOk_late(w) ==
    /\ up = "up" /\ wr[w].st = "sync"
    /\ log' = [i \in 1..Len(log) |->
                 IF log[i].on = "cache" /\ log[i].lsn <= wr[w].covers
                 THEN [log[i] EXCEPT !.on = "disk"] ELSE log[i]]
    /\ old' = NoOld
    /\ wal' = [wal EXCEPT !.synced = Larger(@, wal.written)]
    /\ wr' = [wr EXCEPT ![w].st = "apply"]
    /\ UNCHANGED <<up, file, label, active, frozen, ck, faults, checkpoints>>

\* What was written before the sync is on disk; the file system's journal
\* has the log's name too.
SyncOk(w) ==
    /\ up = "up" /\ wr[w].st = "sync"
    /\ log' = [i \in 1..Len(log) |->
                 IF log[i].on = "cache" /\ log[i].lsn <= wr[w].covers
                 THEN [log[i] EXCEPT !.on = "disk"] ELSE log[i]]
    /\ old' = NoOld
    /\ wal' = [wal EXCEPT !.synced = Larger(@, wr[w].covers)]
    /\ wr' = [wr EXCEPT ![w].st = "apply"]
    /\ UNCHANGED <<up, file, label, active, frozen, ck, faults, checkpoints>>

\* Some of what was not on disk is, the rest never will be.
SyncFails(w) ==
    /\ up = "up" /\ wr[w].st = "sync"
    /\ Fault("sync")
    /\ \E S \in SUBSET {i \in 1..Len(log) : log[i].on = "cache"} :
         log' = [i \in 1..Len(log) |->
                   IF log[i].on # "cache" THEN log[i]
                   ELSE [log[i] EXCEPT !.on = IF i \in S THEN "disk" ELSE "hole"]]
    /\ wal' = [wal EXCEPT !.failed = TRUE]
    /\ Fails(w)
    /\ UNCHANGED <<up, old, file, label, active, frozen, ck, checkpoints>>

\* Applied to the memtable and acknowledged.
Apply(w) ==
    /\ up = "up" /\ wr[w].st = "apply"
    /\ active' = [k \in Keys |-> IF k \in Keyset[w] THEN w ELSE active[k]]
    /\ wr' = [wr EXCEPT ![w].st = "acked"]
    /\ UNCHANGED <<up, durable, frozen, wal, ck, faults, checkpoints>>

-----------------------------------------------------------------------------
(* A checkpoint.                                                           *)
Checkpointing(st) == up = "up" /\ ck.st = st

\* A memtable a failed checkpoint left frozen goes in first, under the label
\* the file has.
FlushLeftover ==
    /\ Checkpointing("idle") /\ frozen.there
    /\ file' = Over(frozen.tab, file)
    /\ frozen' = NoFrozen
    /\ UNCHANGED <<up, log, old, label, active, wal, wr, ck, faults, checkpoints>>

\* Mutated: the gate is not taken.
Freeze_ungated ==
    /\ Checkpointing("idle") /\ ~frozen.there /\ checkpoints < MaxCheckpoints
    /\ ~wal.failed
    /\ ck' = [NoCheckpoint EXCEPT !.st = "flush", !.lsn = wal.next - 1, !.len = Len(log)]
    /\ frozen' = [there |-> TRUE, tab |-> active] /\ active' = Empty
    /\ checkpoints' = checkpoints + 1
    /\ UNCHANGED <<up, durable, wal, wr, faults>>

\* With no write between append and apply: the log's mark, and the memtable
\* frozen.
Freeze ==
    /\ Checkpointing("idle") /\ ~frozen.there /\ checkpoints < MaxCheckpoints
    /\ InFlight = {}
    /\ ~wal.failed
    /\ ck' = [NoCheckpoint EXCEPT !.st = "flush", !.lsn = wal.next - 1, !.len = Len(log)]
    /\ frozen' = [there |-> TRUE, tab |-> active] /\ active' = Empty
    /\ checkpoints' = checkpoints + 1
    /\ UNCHANGED <<up, durable, wal, wr, faults>>

\* flush_frozen: one durable commit of the changes and the label.
Flush ==
    /\ Checkpointing("flush")
    /\ file' = Over(frozen.tab, file) /\ label' = ck.lsn
    /\ frozen' = NoFrozen
    /\ ck' = [ck EXCEPT !.st = "flushed"]
    /\ UNCHANGED <<up, log, old, active, wal, wr, faults, checkpoints>>

\* truncate_through, pass one: what follows the mark is copied and synced,
\* without the locks.
CopyFirst ==
    /\ Checkpointing("flushed") /\ ~wal.failed
    /\ ck' = [ck EXCEPT !.st = "copied", !.first = Len(log),
                        !.new = OnDisk(SubSeq(log, ck.len + 1, Len(log)))]
    /\ UNCHANGED <<up, durable, volatile, wr, faults, checkpoints>>

\* Pass two, with the locks: the rest, synced, and the new file renamed over
\* the old.
CopyRest ==
    /\ Checkpointing("copied") /\ ~HandleHeld /\ ~wal.failed
    /\ log' = ck.new \o OnDisk(SubSeq(log, ck.first + 1, Len(log)))
    /\ old' = [there |-> TRUE, log |-> log]
    /\ ck' = [ck EXCEPT !.st = "renamed"]
    /\ UNCHANGED <<up, file, label, volatile, wr, faults, checkpoints>>

\* sync_parent_dir: the name is durable, and with it all that was written.
DirSynced ==
    /\ Checkpointing("renamed")
    /\ old' = NoOld
    /\ wal' = [wal EXCEPT !.synced = Larger(@, wal.written)]
    /\ ck' = NoCheckpoint
    /\ UNCHANGED <<up, log, file, label, active, frozen, wr, faults, checkpoints>>
DirSyncFails ==
    /\ Checkpointing("renamed")
    /\ Fault("sync")
    /\ wal' = [wal EXCEPT !.failed = TRUE]
    /\ ck' = NoCheckpoint
    /\ UNCHANGED <<up, durable, active, frozen, wr, checkpoints>>

\* A step failed: the memtable stays frozen, or the log stays whole.  So does
\* a log that takes no writes.
GivesUp ==
    /\ up = "up" /\ ck.st \in {"flush", "flushed", "copied"}
    /\ \/ ck.st # "flush" /\ wal.failed /\ UNCHANGED faults
       \/ Fault("index")
    /\ ck' = NoCheckpoint
    /\ UNCHANGED <<up, durable, volatile, wr, checkpoints>>

-----------------------------------------------------------------------------
(* Stopping and opening.                                                   *)
\* Nobody hears of the writes in flight again.
Stops == /\ up' = "down"
         /\ wr' = [w \in Writes |-> IF w \in InFlight THEN [wr[w] EXCEPT !.st = "lost"]
                                                      ELSE wr[w]]
         /\ ck' = NoCheckpoint
         /\ active' = Empty /\ frozen' = NoFrozen /\ wal' = Fresh
Kill ==
    /\ up = "up"
    /\ Fault("kill")
    /\ Stops
    /\ UNCHANGED <<durable, checkpoints>>

\* What a power cut leaves of a file: all that was durable, any of the rest.
Left(s, S) == [i \in 1..Len(s) |->
                 [s[i] EXCEPT !.on = IF s[i].on = "disk" \/ (s[i].on = "cache" /\ i \in S)
                                     THEN "disk" ELSE "torn"]]
PowerCut ==
    /\ up # "refused"
    /\ Fault("power")
    /\ \E s \in {log} \cup (IF old.there THEN {old.log} ELSE {}) :
         \E S \in SUBSET {i \in 1..Len(s) : s[i].on = "cache"} : log' = Left(s, S)
    /\ old' = NoOld
    /\ IF up = "up" THEN Stops ELSE UNCHANGED <<up, volatile, wr, ck>>
    /\ UNCHANGED <<file, label, checkpoints>>

\* scan_wal: the whole records up to the first that is not; a whole one after
\* that, or a number missing, and the log is refused.
WholeEnd == LET T == {i \in 1..Len(log) : log[i].on = "torn"}
            IN IF T = {} THEN Len(log) ELSE Min(T) - 1
Damaged  == \/ \E i \in WholeEnd + 1 .. Len(log) : log[i].on # "torn"
            \/ WholeEnd > 0 /\ log[1].lsn > label + 1
            \/ \E i \in 2..WholeEnd : log[i].lsn # log[i - 1].lsn + 1
Last     == IF WholeEnd = 0 THEN 0 ELSE log[WholeEnd].lsn

\* The log's changes after the label, in order.
Replayed == [k \in Keys |->
    LET I == {i \in 1..WholeEnd : log[i].lsn > label /\ k \in Keyset[log[i].w]}
    IN IF I = {} THEN 0 ELSE log[Max(I)].w]

\* Mutated: off by one.
advance_past_short(last) == Larger(last, label) - 1

\* advance_past: no record is numbered at or below the label.
advance_past(last) == Larger(last, label)

\* Mutated: a torn tail is left in place.
Open_uncut ==
    /\ up = "down" /\ ~Damaged
    /\ up' = "up"
    /\ active' = Replayed /\ frozen' = NoFrozen
    /\ LET last == advance_past(Last)
       IN wal' = [next |-> last + 1, written |-> last, synced |-> last, failed |-> FALSE]
    /\ UNCHANGED <<log, old, file, label, wr, ck, faults, checkpoints>>

\* Opened: a torn tail is cut off (and the file synced), what is whole taken
\* as durable and replayed.
Open ==
    /\ up = "down" /\ ~Damaged
    /\ up' = "up"
    /\ log' = IF WholeEnd = Len(log) THEN log
              ELSE [i \in 1..WholeEnd |-> IF log[i].on = "cache"
                                          THEN [log[i] EXCEPT !.on = "disk"] ELSE log[i]]
    /\ active' = Replayed /\ frozen' = NoFrozen
    /\ LET last == advance_past(Last)
       IN wal' = [next |-> last + 1, written |-> last, synced |-> last, failed |-> FALSE]
    /\ UNCHANGED <<old, file, label, wr, ck, faults, checkpoints>>
OpenRefused ==
    /\ up = "down" /\ Damaged
    /\ up' = "refused"
    /\ UNCHANGED <<durable, volatile, wr, ck, faults, checkpoints>>

-----------------------------------------------------------------------------
Writer(w) == \/ LogAppend(w) \/ Refuses(w) \/ NoRoom(w) \/ WriteFails(w)
             \/ Covered(w) \/ TakeHandle(w) \/ SyncOk(w) \/ SyncFails(w)
             \/ Apply(w)
Checkpoint == \/ FlushLeftover \/ Freeze \/ Flush \/ CopyFirst \/ CopyRest
              \/ DirSynced \/ DirSyncFails \/ GivesUp
Machine == Kill \/ PowerCut \/ Open \/ OpenRefused

Next == (\E w \in Writes : Writer(w)) \/ Checkpoint \/ Machine
Spec == Init /\ [][Next]_vars

-----------------------------------------------------------------------------
(* Properties.                                                             *)

Progress == [st : {"idle", "wrote", "sync", "apply", "acked", "failed", "lost"},
             lsn : Nat, nth : Nat, covers : Nat]
Steps    == [st : {"idle", "flush", "flushed", "copied", "renamed"},
             lsn : Nat, len : Nat, first : Nat, new : Seq(Slot)]
Counters == [next : Nat \ {0}, written : Nat, synced : Nat, failed : BOOLEAN]

\* Every variable has its type (slots, tables, counters, progress).
TypeOK ==
    /\ up \in {"up", "down", "refused"}
    /\ log \in Seq(Slot) /\ old \in [there : BOOLEAN, log : Seq(Slot)]
    /\ file \in Table /\ label \in Nat
    /\ active \in Table /\ frozen \in [there : BOOLEAN, tab : Table]
    /\ wal \in Counters
    /\ wr \in [Writes -> Progress]
    /\ ck \in Steps
    /\ faults \in [n : 0..MaxFaults, cut : BOOLEAN]
    /\ checkpoints \in 0..MaxCheckpoints

\* v, what a key holds, is w or a write logged after it.
Holds(v, w) == v # 0 /\ wr[v].nth >= wr[w].nth
Acked == {w \in Writes : wr[w].st = "acked"}

\* Durability (append: "this does not return until an fdatasync covering the
\* record has completed"; scan_wal: "refusing to open rather than drop or
\* misplace acknowledged changes"): whatever was killed, cut off or failed, a
\* store that is open has every acknowledged write, or a later one, on each
\* of its keys.
AckedSurvive == up = "up" => \A w \in Acked : \A k \in Keyset[w] : Holds(get(k), w)

\* checkpoint: "The file must hold every record up to the LSN it is labelled
\* with, or the WAL is cut past one it lacks": no write is acknowledged under
\* the label and missing from the index file.
LabelIsTrue == \A w \in Acked : wr[w].lsn <= label =>
                   \A k \in Keyset[w] : Holds(file[k], w)

\* open_replaying (a torn tail left in place "would sit between the log and"
\* the next appends): failed appends and syncs and a killed process, without a
\* power cut, never leave a log the next open refuses.
RefusedOnlyAfterPowerCut == up = "refused" => faults.cut

\* disk_index: "a change is in the WAL (synced) before it is applied here":
\* what a read finds in a memtable is durable in the log.
AppliedIsDurable ==
    up = "up" => \A k \in Keys : active[k] # 0 =>
        \E i \in 1..Len(log) : log[i].w = active[k] /\ log[i].on = "disk"
=============================================================================
