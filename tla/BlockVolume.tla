----------------------------- MODULE BlockVolume -----------------------------
(***************************************************************************)
(* One volume on a block gateway.  A client's write is appended to the     *)
(* journal and applied to the write-back cache under the cache lock, and   *)
(* acknowledged once an fdatasync that concurrent writes share covers it.  *)
(* A partial write of a chunk the cache does not hold leaves it pending:   *)
(* its stored bytes are loaded and merged under the writes later.  Flushes *)
(* store whole dirty chunks as new stripes, each put in place of the one   *)
(* it read in meta by a compare-and-swap, and empty the journal when       *)
(* nothing is dirty.  There are two kinds: the background loop takes its   *)
(* copies of the chunks before the flush lock, a client's flush (the RPC,  *)
(* a detach, a snapshot) under it.                                         *)
(*                                                                         *)
(* A cell is a part of a chunk; its content is the number of the write it  *)
(* shows, 0 for zeros.  Faults is the kinds of fault an instance admits:   *)
(*   power  a power cut: journal entries not synced may be lost            *)
(*   kill   the gateway stops; the machine and its page cache go on        *)
(*   write, sync   an append, a sync of the journal or its directory fails *)
(*   store  a chunk cannot be written to the OSDs                          *)
(*   lost   a commit's answer is lost; meta may still carry it out, later  *)
(***************************************************************************)
EXTENDS Naturals, Sequences, FiniteSets, FiniteSetsExt

CONSTANTS NChunks, Parts, Clients, Readers,
          Background,  \* flush loops of the gateway: one, or none in an instance
          Foreground,  \* clients' flushes
          Faults, MaxFaults, MaxWrites

ASSUME SizesAssumption == NChunks \in Nat \ {0} /\ Parts # {} /\ MaxFaults \in Nat /\ MaxWrites \in Nat
ASSUME FlushersAssumption == /\ Background \cap Foreground = {}
                             /\ "none" \notin Clients \cup Background \cup Foreground

VARIABLES
    writes,    \* the cells each write sets, in journal order
    acked,     \* the writes acknowledged (history)
    file,      \* the journal: its header's sequence, its entries, how many are durable
    old,       \* the journal it replaced, while its name may come back
    sequence, synced, failed,  \* the open journal's counters; a write or sync failed
    syncing,   \* the fdatasync under way (the syncer lock)
    cache,     \* per chunk: dirty or clean, the parts held, their bytes, a version
    versions,  \* next_version
    loading,   \* per chunk: the stored bytes being loaded to make it whole
    reading,   \* reads that missed the cache
    client,    \* each client's write
    flush,     \* each flush's progress
    lock,      \* flush_lock
    rec,       \* meta: each chunk's stripe, and the bytes it holds
    stripes,   \* stripe ids given out
    late,      \* commits whose answer was lost
    snap,      \* the last snapshot taken
    refused,   \* the journal would not open
    stops,     \* how often the gateway stopped (history)
    faults

journal == <<file, old, sequence, synced, failed, syncing>>
memory  == <<cache, versions>>
meta    == <<rec, stripes, late, snap>>
vars == <<writes, acked, journal, memory, loading, reading, client, flush, lock, meta,
          refused, stops, faults>>

Chunks   == 1..NChunks
Flushers == Background \cup Foreground
Cells    == Chunks \X Parts
Bytes    == [Parts -> 0..MaxWrites]
Zeros    == [p \in Parts |-> 0]

NoFile == [base |-> 0, entries |-> <<>>, durable |-> 0, there |-> FALSE]
NewFile(seq) == [base |-> seq, entries |-> <<>>, durable |-> 0, there |-> TRUE]
NotHeld == [st |-> "none", held |-> {}, data |-> Zeros, ver |-> 0]
NoLoad  == [there |-> FALSE, data |-> Zeros]
NoRead  == [chunk |-> 0, data |-> Zeros, had |-> {}]
NoSync  == [by |-> "none", target |-> 0, len |-> 0]
NoSnap  == [there |-> FALSE, data |-> <<>>, had |-> {}]
Quiet   == [st |-> "idle", upto |-> 0, w |-> 0]
NoChunk == [chunk |-> 0, data |-> Zeros, ver |-> 0]
NoFlush == [st |-> "idle", pend |-> {}, todo |-> {}, done |-> {}, missed |-> FALSE,
            cur |-> NoChunk, expected |-> 0, had |-> {}]

Init == /\ writes = <<>> /\ acked = {}
        /\ file = NewFile(0) /\ old = NoFile
        /\ sequence = 0 /\ synced = 0 /\ failed = FALSE /\ syncing = NoSync
        /\ cache = [c \in Chunks |-> NotHeld] /\ versions = 0
        /\ loading = [c \in Chunks |-> NoLoad] /\ reading = [r \in Readers |-> NoRead]
        /\ client = [k \in Clients |-> Quiet]
        /\ flush = [f \in Flushers |-> NoFlush] /\ lock = "none"
        /\ rec = [c \in Chunks |-> [id |-> 0, data |-> Zeros]]
        /\ stripes = 0 /\ late = {} /\ snap = NoSnap
        /\ refused = FALSE /\ stops = 0 /\ faults = 0

Fault(kind) == kind \in Faults /\ faults < MaxFaults /\ faults' = faults + 1

-----------------------------------------------------------------------------
(* The cache.                                                              *)

\* A rotation holds the cache lock until the new journal's name is durable.
Unlocked == ~refused /\ \A f \in Flushers : flush[f].st # "renamed"

Whole(c)   == cache[c].st # "none" /\ cache[c].held = Parts
Pending(c) == cache[c].st = "dirty" /\ cache[c].held # Parts
Flushable  == {c \in Chunks : cache[c].st = "dirty" /\ Whole(c)}

\* Mutated: a pending chunk isn't counted.
NoneDirty_whole == Flushable = {}
NoneDirty  == \A c \in Chunks : cache[c].st # "dirty"

\* A chunk after write w to its parts P, as version v.
apply(e, P, w, v) ==
    [st |-> "dirty", held |-> e.held \cup P, ver |-> v,
     data |-> [p \in Parts |-> IF p \in P THEN w ELSE e.data[p]]]

\* Mutated: the stored bytes over the writes.
merged_over(e, base, v) ==
    [st |-> "dirty", held |-> Parts, ver |-> v,
     data |-> [p \in Parts |-> IF base[p] # 0 THEN base[p] ELSE e.data[p]]]

\* Stored bytes under the writes of a pending chunk.
merged(e, base, v) ==
    [st |-> "dirty", held |-> Parts, ver |-> v,
     data |-> [p \in Parts |-> IF p \in e.held THEN e.data[p] ELSE base[p]]]

PartsOf(w, c) == {p \in Parts : <<c, p>> \in writes[w]}

\* The cache that replaying journal entries leaves.
Replayed(entries) ==
    [c \in Chunks |->
        LET on(p)  == {i \in DOMAIN entries : p \in PartsOf(entries[i], c)}
            any    == UNION {on(p) : p \in Parts}
            held   == {p \in Parts : on(p) # {}}
        IN  IF any = {} THEN NotHeld
            ELSE [st |-> "dirty", held |-> held, ver |-> Max(any),
                  data |-> [p \in Parts |-> IF p \in held THEN entries[Max(on(p))] ELSE 0]]]

-----------------------------------------------------------------------------
(* Writes and the journal.                                                 *)

LogWrite(k, c, P) ==
    LET w == Len(writes) + 1 IN
    /\ Unlocked /\ ~failed /\ client[k].st = "idle" /\ w <= MaxWrites
    /\ writes' = Append(writes, {c} \X P)
    /\ file' = [file EXCEPT !.entries = Append(@, w)]
    /\ sequence' = sequence + 1
    /\ versions' = versions + 1
    /\ cache' = [cache EXCEPT ![c] = apply(@, P, w, versions + 1)]
    /\ client' = [client EXCEPT ![k] = [st |-> "logged", upto |-> sequence + 1, w |-> w]]
    /\ UNCHANGED <<acked, old, synced, failed, syncing, loading, reading, flush, lock, meta,
                   refused, stops, faults>>

\* An append that fails closes the journal to writes; what it left in the
\* file may be whole.  One that only lacks room is cut off and changes nothing.
AppendFails(k, c, P, whole) ==
    LET w == Len(writes) + 1 IN
    /\ Unlocked /\ ~failed /\ client[k].st = "idle" /\ w <= MaxWrites
    /\ Fault("write")
    /\ failed' = TRUE
    /\ writes' = Append(writes, {c} \X P)
    /\ file' = IF whole THEN [file EXCEPT !.entries = Append(@, w)] ELSE file
    /\ UNCHANGED <<acked, old, sequence, synced, syncing, memory, loading, reading, client,
                   flush, lock, meta, refused, stops>>

Return(k, ok) ==
    /\ client' = [client EXCEPT ![k] = Quiet]
    /\ acked' = IF ok THEN acked \cup {client[k].w} ELSE acked
    /\ UNCHANGED <<writes, file, old, sequence, memory, loading, reading, flush, lock, meta,
                   refused, stops>>

SyncCovered(k) == client[k].st = "logged" /\ synced >= client[k].upto

AlreadySynced(k) == /\ ~refused /\ SyncCovered(k)
                    /\ Return(k, TRUE)
                    /\ UNCHANGED <<synced, failed, syncing, faults>>

SyncRefused(k) == /\ Unlocked /\ client[k].st = "logged" /\ ~SyncCovered(k)
                  /\ syncing = NoSync /\ failed
                  /\ Return(k, FALSE)
                  /\ UNCHANGED <<synced, failed, syncing, faults>>

SyncBegin(k) ==
    /\ Unlocked /\ client[k].st = "logged" /\ ~SyncCovered(k)
    /\ syncing = NoSync /\ ~failed
    /\ syncing' = [by |-> k, target |-> sequence, len |-> Len(file.entries)]
    /\ UNCHANGED <<writes, acked, file, old, sequence, synced, failed, memory, loading, reading,
                   client, flush, lock, meta, refused, stops, faults>>

SyncEnd(k) ==
    /\ syncing.by = k
    /\ syncing' = NoSync
    /\ synced' = Max({synced, syncing.target})
    /\ file' = [file EXCEPT !.durable = syncing.len]
    /\ client' = [client EXCEPT ![k] = Quiet]
    /\ acked' = acked \cup {client[k].w}
    /\ UNCHANGED <<writes, old, sequence, failed, memory, loading, reading, flush, lock, meta,
                   refused, stops, faults>>

SyncFails(k) ==
    /\ syncing.by = k /\ Fault("sync")
    /\ syncing' = NoSync /\ failed' = TRUE
    /\ Return(k, FALSE)
    /\ UNCHANGED synced

-----------------------------------------------------------------------------
(* Loads: a pending chunk made whole, a read that misses the cache.        *)

LoadBegin(c) ==
    /\ ~refused /\ Pending(c) /\ ~loading[c].there
    /\ loading' = [loading EXCEPT ![c] = [there |-> TRUE, data |-> rec[c].data]]
    /\ UNCHANGED <<writes, acked, journal, memory, reading, client, flush, lock, meta, refused,
                   stops, faults>>

resolve(c) ==
    /\ Unlocked /\ loading[c].there
    /\ loading' = [loading EXCEPT ![c] = NoLoad]
    /\ IF Pending(c)
       THEN /\ cache' = [cache EXCEPT ![c] = merged(@, loading[c].data, versions + 1)]
            /\ versions' = versions + 1
       ELSE UNCHANGED memory
    /\ UNCHANGED <<writes, acked, journal, reading, client, flush, lock, meta, refused, stops, faults>>

ReadMisses(r, c) ==
    /\ ~refused /\ reading[r] = NoRead /\ cache[c].st = "none"
    /\ reading' = [reading EXCEPT ![r] = [chunk |-> c, data |-> rec[c].data, had |-> acked]]
    /\ UNCHANGED <<writes, acked, journal, memory, loading, client, flush, lock, meta, refused,
                   stops, faults>>

\* What the read answers: the cache's copy, if it has come to hold the chunk.
ReadAnswer(r) == IF Whole(reading[r].chunk) THEN cache[reading[r].chunk].data ELSE reading[r].data

add_clean(c, data) ==
    IF cache[c].st # "none" THEN UNCHANGED cache
    ELSE cache' = [cache EXCEPT ![c] = [NotHeld EXCEPT !.st = "clean", !.held = Parts,
                                                       !.data = data]]

ReadEnds(r) ==
    /\ Unlocked /\ reading[r] # NoRead
    /\ add_clean(reading[r].chunk, reading[r].data)
    /\ reading' = [reading EXCEPT ![r] = NoRead]
    /\ UNCHANGED <<writes, acked, journal, versions, loading, client, flush, lock, meta, refused,
                   stops, faults>>

-----------------------------------------------------------------------------
(* Flushes.                                                                *)

Captured(c) == [chunk |-> c, data |-> cache[c].data, ver |-> cache[c].ver]

\* flush_volume: the chunks due (by age, or all under pressure), taken before
\* the lock.  With none due the loop goes on to the journal.
CaptureDue(f, due) ==
    /\ f \in Background /\ Unlocked /\ flush[f].st = "idle" /\ due \subseteq Flushable
    /\ flush' = [flush EXCEPT ![f] =
                    [NoFlush EXCEPT !.st = IF due = {} THEN "reset" ELSE "waiting",
                                    !.todo = {Captured(c) : c \in due}]]
    /\ UNCHANGED <<writes, acked, journal, memory, loading, reading, client, lock, meta, refused,
                   stops, faults>>

TakeLock(f) ==
    /\ f \in Background /\ ~refused /\ flush[f].st = "waiting" /\ lock = "none"
    /\ lock' = f
    /\ flush' = [flush EXCEPT ![f].st = "storing"]
    /\ UNCHANGED <<writes, acked, journal, memory, loading, reading, client, meta, refused, stops, faults>>

\* flush_volume_all_locked: the lock, the pending chunks to make whole first...
FlushAll(f) ==
    /\ f \in Foreground /\ Unlocked /\ flush[f].st = "idle" /\ lock = "none"
    /\ lock' = f
    /\ flush' = [flush EXCEPT ![f] = [NoFlush EXCEPT !.st = "resolving", !.had = acked,
                                                     !.pend = {c \in Chunks : Pending(c)}]]
    /\ UNCHANGED <<writes, acked, journal, memory, loading, reading, client, meta, refused, stops, faults>>

\* ...then every whole dirty chunk.  One listed and still pending could not
\* be loaded, and counts as dirty.
CaptureAll(f) ==
    /\ Unlocked /\ flush[f].st = "resolving"
    /\ flush' = [flush EXCEPT ![f].st = "storing",
                              ![f].todo = {Captured(c) : c \in Flushable},
                              ![f].missed = \E c \in flush[f].pend : Pending(c)]
    /\ UNCHANGED <<writes, acked, journal, memory, loading, reading, client, lock, meta, refused,
                   stops, faults>>

NextChunk(f) == CHOOSE t \in flush[f].todo : \A u \in flush[f].todo : t.chunk <= u.chunk

\* store_chunk: the stripe meta has now, a new stripe written...
StoreBegin(f) ==
    /\ ~refused /\ flush[f].st = "storing" /\ flush[f].todo # {} /\ flush[f].cur = NoChunk
    /\ flush' = [flush EXCEPT ![f].cur = NextChunk(f),
                              ![f].expected = rec[NextChunk(f).chunk].id]
    /\ UNCHANGED <<writes, acked, journal, memory, loading, reading, client, lock, meta, refused,
                   stops, faults>>

\* ...or not: the chunk stays dirty.
StoreFails(f) ==
    /\ ~refused /\ flush[f].st = "storing" /\ flush[f].todo # {} /\ flush[f].cur = NoChunk
    /\ Fault("store")
    /\ flush' = [flush EXCEPT ![f].todo = @ \ {NextChunk(f)}, ![f].missed = TRUE]
    /\ UNCHANGED <<writes, acked, journal, memory, loading, reading, client, lock, meta, refused,
                   stops>>

Commit(f) == [chunk |-> flush[f].cur.chunk, expected |-> flush[f].expected,
              id |-> stripes + 1, data |-> flush[f].cur.data]
\* Mutated: whatever stripe is there.
Swaps_blind(m) == TRUE
Swaps(m)  == rec[m.chunk].id = m.expected
Swapped(m) == [rec EXCEPT ![m.chunk] = [id |-> m.id, data |-> m.data]]

\* Mutated: a chunk that could not be stored isn't counted.
Answered_quiet(f, ok) ==
    flush' = [flush EXCEPT ![f].cur = NoChunk, ![f].expected = 0,
                           ![f].todo = @ \ {flush[f].cur},
                           ![f].done = IF ok THEN @ \cup {<<flush[f].cur.chunk, flush[f].cur.ver>>}
                                       ELSE @]

Answered(f, ok) ==
    flush' = [flush EXCEPT ![f].cur = NoChunk, ![f].expected = 0,
                           ![f].todo = @ \ {flush[f].cur},
                           ![f].done = IF ok THEN @ \cup {<<flush[f].cur.chunk, flush[f].cur.ver>>}
                                       ELSE @,
                           ![f].missed = @ \/ ~ok]

CommitAnswered(f) ==
    /\ flush[f].cur # NoChunk
    /\ rec' = IF Swaps(Commit(f)) THEN Swapped(Commit(f)) ELSE rec
    /\ Answered(f, Swaps(Commit(f)))
    /\ stripes' = stripes + 1
    /\ UNCHANGED <<writes, acked, journal, memory, loading, reading, client, lock, late, snap,
                   refused, stops, faults>>

CommitLost(f) ==
    /\ flush[f].cur # NoChunk /\ Fault("lost")
    /\ late' = late \cup {Commit(f)}
    /\ Answered(f, FALSE)
    /\ stripes' = stripes + 1
    /\ UNCHANGED <<writes, acked, journal, memory, loading, reading, client, lock, rec, snap,
                   refused, stops>>

LateCommit(m) ==
    /\ late' = late \ {m}
    /\ rec' = IF Swaps(m) THEN Swapped(m) ELSE rec
    /\ UNCHANGED <<writes, acked, journal, memory, loading, reading, client, flush, lock, stripes,
                   snap, refused, stops, faults>>

\* Mutated: written since or not.
mark_flushed_any(done) ==
    cache' = [c \in Chunks |->
                 IF cache[c].st = "dirty" /\ \E v \in 0..versions : <<c, v>> \in done
                 THEN [cache[c] EXCEPT !.st = "clean", !.ver = 0] ELSE cache[c]]

\* What was stored and has not been written since is clean.
mark_flushed(done) ==
    cache' = [c \in Chunks |->
                 IF cache[c].st = "dirty" /\ <<c, cache[c].ver>> \in done
                 THEN [cache[c] EXCEPT !.st = "clean", !.ver = 0] ELSE cache[c]]

StoresEnd(f) ==
    /\ Unlocked /\ flush[f].st = "storing" /\ flush[f].todo = {}
    /\ mark_flushed(flush[f].done)
    /\ flush' = [flush EXCEPT ![f].st = "reset", ![f].done = {}]
    /\ lock' = IF f \in Background THEN "none" ELSE lock
    /\ UNCHANGED <<writes, acked, journal, versions, loading, reading, client, meta, refused,
                   stops, faults>>

\* reset_journal_if_clean: nothing dirty, so the journal is replaced by an
\* empty one: synced, renamed over it, then the directory synced.
Rotate(f) ==
    /\ Unlocked /\ flush[f].st = "reset" /\ NoneDirty /\ ~failed /\ syncing = NoSync
    /\ file' = NewFile(sequence) /\ old' = file
    /\ flush' = [flush EXCEPT ![f].st = "renamed"]
    /\ UNCHANGED <<writes, acked, sequence, synced, failed, syncing, memory, loading, reading,
                   client, lock, meta, refused, stops, faults>>

RotateEnds(f, ok) ==
    /\ flush[f].st = "renamed"
    /\ IF ok THEN old' = NoFile /\ UNCHANGED <<failed, faults>>
             ELSE failed' = TRUE /\ UNCHANGED old /\ Fault("sync")
    /\ flush' = [flush EXCEPT ![f] = IF f \in Background THEN NoFlush ELSE [@ EXCEPT !.st = "flushed"]]
    /\ UNCHANGED <<writes, acked, file, sequence, synced, syncing, memory, loading, reading,
                   client, lock, meta, refused,
                   stops>>

KeepsJournal(f) ==
    /\ Unlocked /\ flush[f].st = "reset" /\ (~NoneDirty \/ failed)
    /\ flush' = [flush EXCEPT ![f] = IF f \in Background THEN NoFlush ELSE [@ EXCEPT !.st = "flushed"]]
    /\ UNCHANGED <<writes, acked, journal, memory, loading, reading, client, lock, meta, refused,
                   stops, faults>>

\* The end of a Flush RPC, a detach, or a snapshot not to be taken.
FlushEnds(f) ==
    /\ flush[f].st = "flushed"
    /\ flush' = [flush EXCEPT ![f] = NoFlush]
    /\ lock' = "none"
    /\ UNCHANGED <<writes, acked, journal, memory, loading, reading, client, meta, refused, stops, faults>>

\* create_snapshot: with nothing left dirty meta records the chunk map.
CreateSnapshot(f) ==
    /\ flush[f].st = "flushed" /\ ~flush[f].missed
    /\ snap' = [there |-> TRUE, data |-> [c \in Chunks |-> rec[c].data], had |-> flush[f].had]
    /\ flush' = [flush EXCEPT ![f] = NoFlush]
    /\ lock' = "none"
    /\ UNCHANGED <<writes, acked, journal, memory, loading, reading, client, rec, stripes, late,
                   refused, stops, faults>>

-----------------------------------------------------------------------------
(* Stops and starts.                                                       *)

\* Mutated: the entries found count as synced.
Reopened_counted(j) ==
    /\ file' = j
    /\ sequence' = j.base /\ synced' = j.base + Len(j.entries)
    /\ failed' = FALSE /\ syncing' = NoSync

\* The counters restart from the header, whatever entries follow it.
Reopened(j) ==
    /\ file' = j
    /\ sequence' = j.base /\ synced' = j.base
    /\ failed' = FALSE /\ syncing' = NoSync

\* Sent and not answered when the gateway stops: it may still be recorded.
InFlight == {Commit(f) : f \in {g \in Flushers : flush[g].cur # NoChunk}}

\* The gateway as it starts on journal j, opened after its torn end was cut.
Started(j) ==
    /\ Reopened(j)
    /\ cache' = Replayed(j.entries) /\ versions' = Len(j.entries)
    /\ loading' = [c \in Chunks |-> NoLoad] /\ reading' = [r \in Readers |-> NoRead]
    /\ client' = [k \in Clients |-> Quiet]
    /\ flush' = [f \in Flushers |-> NoFlush] /\ lock' = "none"
    /\ late' \in {late, late \cup InFlight}
    /\ stripes' = IF late' = late THEN stripes ELSE stripes + 1
    /\ stops' = stops + 1
    /\ UNCHANGED <<writes, acked, rec, snap>>

Kill == /\ ~refused /\ Fault("kill")
        /\ Started(file)
        /\ UNCHANGED <<old, refused>>

\* Of the entries not synced any may be lost.  A whole one after a lost one
\* reads as damage, and the journal is refused; else the tail is cut.
PowerCut(j, kept) ==
    LET n == j.durable + Cardinality(kept)
        torn == kept # (j.durable + 1)..n
        left == [j EXCEPT !.entries = SubSeq(@, 1, IF torn THEN j.durable ELSE n),
                          !.durable = IF torn THEN j.durable ELSE n]
    IN  /\ ~refused /\ Fault("power")
        /\ Started(left)
        /\ old' = NoFile
        /\ refused' = torn

Stops == \/ Kill
         \/ \E j \in {file, old} : \E kept \in SUBSET ((j.durable + 1)..Len(j.entries)) :
                j.there /\ PowerCut(j, kept)

Writing(k) == \/ \E c \in Chunks, P \in (SUBSET Parts) \ {{}} :
                    \/ LogWrite(k, c, P)
                    \/ \E whole \in BOOLEAN : AppendFails(k, c, P, whole)
              \/ AlreadySynced(k) \/ SyncRefused(k)
              \/ SyncBegin(k) \/ SyncEnd(k) \/ SyncFails(k)

Flushing(f) == \/ \E due \in SUBSET Chunks : CaptureDue(f, due)
               \/ TakeLock(f) \/ FlushAll(f) \/ CaptureAll(f)
               \/ StoreBegin(f) \/ StoreFails(f) \/ CommitAnswered(f) \/ CommitLost(f)
               \/ StoresEnd(f) \/ Rotate(f) \/ KeepsJournal(f)
               \/ \E ok \in BOOLEAN : RotateEnds(f, ok)
               \/ FlushEnds(f) \/ CreateSnapshot(f)

Loading == \/ \E c \in Chunks : LoadBegin(c) \/ resolve(c)
           \/ \E r \in Readers : ReadEnds(r) \/ \E c \in Chunks : ReadMisses(r, c)

Next == \/ \E k \in Clients : Writing(k)
        \/ \E f \in Flushers : Flushing(f)
        \/ Loading
        \/ \E m \in late : LateCommit(m)
        \/ Stops

Spec == Init /\ [][Next]_vars

\* At most one flush has copies of chunks it has not done storing.
OneTakes == \A f, g \in Flushers : {flush[f].st, flush[g].st} \subseteq {"waiting", "storing"} => f = g

\* The behaviours in which flushes, the loop's and clients', take their copies
\* in turn.  The code does not see to it: the loop takes its own before it has
\* the flush lock, and SnapshotHasAll fails of Spec.
InTurnSpec == Init /\ [][Next /\ OneTakes']_vars

-----------------------------------------------------------------------------
(* Properties.                                                             *)

\* What a read of a cell answers: the cache's bytes, or the stored ones.
Visible(cell) == IF cell[2] \in cache[cell[1]].held THEN cache[cell[1]].data[cell[2]]
                 ELSE rec[cell[1]].data[cell[2]]

Disk == INSTANCE BlockDisk WITH wrote <- writes, val <- [cell \in Cells |-> Visible(cell)]

Journal == [base : Nat, entries : Seq(1..MaxWrites), durable : Nat, there : BOOLEAN]
Copy    == [chunk : Chunks, data : Bytes, ver : Nat]

\* Every variable has its type, and the flush lock is held by exactly the
\* flush that is storing chunks or, for a client's, is not over.
TypeOK ==
    /\ writes \in Seq(SUBSET Cells) /\ acked \subseteq DOMAIN writes
    /\ file \in Journal /\ old \in Journal /\ file.durable <= Len(file.entries)
    /\ sequence \in Nat /\ synced \in 0..sequence /\ {failed, refused} \subseteq BOOLEAN
    /\ syncing \in [by : Clients \cup {"none"}, target : 0..sequence, len : 0..Len(file.entries)]
    /\ cache \in [Chunks -> [st : {"none", "clean", "dirty"}, held : SUBSET Parts, data : Bytes,
                             ver : 0..versions]]
    /\ \A c \in Chunks : /\ cache[c].st = "none" <=> cache[c].held = {}
                         /\ cache[c].st = "clean" => Whole(c)
    /\ loading \in [Chunks -> [there : BOOLEAN, data : Bytes]]
    /\ reading \in [Readers -> [chunk : Chunks \cup {0}, data : Bytes, had : SUBSET DOMAIN writes]]
    /\ client \in [Clients -> [st : {"idle", "logged"}, upto : Nat, w : 0..MaxWrites]]
    /\ \A f \in Flushers :
          /\ flush[f].st \in {"idle", "waiting", "resolving", "storing", "reset", "renamed", "flushed"}
          /\ flush[f].pend \subseteq Chunks /\ flush[f].todo \subseteq Copy
          /\ flush[f].done \subseteq Chunks \X Nat /\ flush[f].cur \in Copy \cup {NoChunk}
          /\ lock = f <=> IF f \in Background THEN flush[f].st = "storing"
                          ELSE flush[f].st # "idle"
    /\ rec \in [Chunks -> [id : 0..stripes, data : Bytes]]
    /\ \A m \in late : m.id \in 1..stripes /\ m.expected \in 0..stripes
    /\ {stops, faults} \subseteq 0..MaxFaults

\* The volume is a durable disk: through resolves, flushes, late commits,
\* rotations of the journal and restarts, what reads answer changes only by
\* writes, and no stop takes back an acknowledged one.
DurableDisk == Disk!Spec

\* What was acknowledged of a chunk the cache calls clean is stored: the
\* journal may be emptied when nothing is dirty ("everything it recorded is
\* then on the OSDs").
CleanIsStored == \A c \in Chunks : cache[c].st = "clean" =>
                    \A w \in acked : \A p \in PartsOf(w, c) : rec[c].data[p] >= w

\* A read that loads a chunk from the OSDs answers with every write that was
\* acknowledged before it began, however writes and flushes overtake it.
ReadsFresh ==
    [][\A r \in Readers : (reading[r] # NoRead /\ reading'[r] = NoRead /\ stops' = stops) =>
          \A w \in reading[r].had : \A p \in PartsOf(w, reading[r].chunk) :
             ReadAnswer(r)[p] >= w]_vars

\* create_snapshot: "Everything written before the snapshot is in it".
SnapshotHasAll ==
    snap.there => \A w \in snap.had : \A cell \in writes[w] : snap.data[cell[1]][cell[2]] >= w

\* create_snapshot: "the snapshot is one point in time rather than a mix of
\* two": it is what the first n writes leave, for some n.
SnapshotIsOnePoint ==
    snap.there => \E n \in 0..Len(writes) : \A cell \in Cells :
        snap.data[cell[1]][cell[2]] = Max({0} \cup {w \in 1..n : cell \in writes[w]})
=============================================================================
