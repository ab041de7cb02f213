------------------------- MODULE BlockVolumeProofs -------------------------
(***************************************************************************)
(* Proofs about BlockVolume for any number of chunks, clients, writes and  *)
(* faults: its types; and, while only one kind of flush runs, that clean   *)
(* chunks are stored, that reads and snapshots have what was acknowledged, *)
(* and that the volume is the durable disk of BlockDisk.                   *)
(***************************************************************************)
EXTENDS BlockVolume, NumberFacts, SequenceTheorems, FiniteSetTheorems, TLAPS

-----------------------------------------------------------------------------
(* Types.                                                                  *)

Chunk == [st : {"none", "clean", "dirty"}, held : SUBSET Parts, data : Bytes, ver : Nat]
Flush == [st : {"idle", "waiting", "resolving", "storing", "reset", "renamed", "flushed"},
          pend : SUBSET Chunks, todo : SUBSET Copy, done : SUBSET (Chunks \X Nat), missed : BOOLEAN,
          cur : Copy \cup {NoChunk}, expected : Nat, had : SUBSET Nat]
Message == [chunk : Chunks, expected : Nat, id : Nat, data : Bytes]

Logged == {k \in Clients : client[k].st = "logged"}

TyWrites  == /\ writes \in Seq(SUBSET Cells) /\ Len(writes) <= MaxWrites /\ acked \subseteq DOMAIN writes
TyJournal == /\ file \in Journal /\ file.durable <= Len(file.entries)
             /\ old \in Journal /\ old.durable <= Len(old.entries)
             /\ sequence \in Nat /\ synced \in 0..sequence /\ failed \in BOOLEAN /\ refused \in BOOLEAN
             /\ syncing \in [by : Clients \cup {"none"}, target : 0..sequence, len : 0..Len(file.entries)]
\* The sync under way is of a client whose write no earlier sync covered.
TyClients == /\ client \in [Clients -> [st : {"idle", "logged"}, upto : Nat, w : 0..MaxWrites]]
             /\ \A k \in Logged : client[k].w \in DOMAIN writes /\ client[k].upto <= sequence
             /\ IF syncing.by = "none" THEN syncing = NoSync
                ELSE /\ syncing.by \in Logged /\ synced < client[syncing.by].upto
                     /\ client[syncing.by].upto <= syncing.target
TyCache   == /\ versions \in Nat /\ cache \in [Chunks -> Chunk]
             /\ \A c \in Chunks : /\ cache[c].ver <= versions
                                  /\ cache[c].st = "none" <=> cache[c].held = {}
                                  /\ cache[c].st = "clean" => cache[c].held = Parts
TyReads   == /\ loading \in [Chunks -> [there : BOOLEAN, data : Bytes]]
             /\ reading \in [Readers -> [chunk : Chunks \cup {0}, data : Bytes, had : SUBSET DOMAIN writes]]
TyFlush   == flush \in [Flushers -> Flush]
TyLock    == \A f \in Flushers : /\ lock = f <=> IF f \in Background THEN flush[f].st = "storing"
                                                 ELSE flush[f].st # "idle"
                                 /\ f \in Background => flush[f].st \notin {"resolving", "flushed"}
\* The chunks flush f has copies of, or stored, are whole: they stay so.
TakenBy(f, c) == \/ \E t \in flush[f].todo : t.chunk = c
                 \/ \E d \in flush[f].done : d[1] = c
                 \/ flush[f].cur # NoChunk /\ flush[f].cur.chunk = c
TyTaken   == \A f \in Flushers, c \in Chunks : TakenBy(f, c) => cache[c].held = Parts
TyMeta    == /\ stripes \in Nat /\ rec \in [Chunks -> [id : 0..stripes, data : Bytes]]
             /\ late \subseteq Message /\ \A m \in late : m.id \in 1..stripes /\ m.expected \in 0..stripes
             /\ \A f \in Flushers : flush[f].expected <= stripes
TyFaults  == faults \in 0..MaxFaults /\ stops \in 0..faults

Types == TyWrites /\ TyJournal /\ TyClients /\ TyCache /\ TyReads /\ TyFlush /\ TyLock /\ TyTaken /\ TyMeta
         /\ TyFaults

LEMMA TypesParts == Types => /\ TyWrites /\ TyJournal /\ TyClients /\ TyCache /\ TyReads /\ TyFlush
                             /\ TyLock /\ TyTaken /\ TyMeta /\ TyFaults
  BY DEF Types

LEMMA TypesGive == Types => TypeOK
<1> SUFFICES ASSUME Types PROVE TypeOK
  OBVIOUS
<1>1. /\ writes \in Seq(SUBSET Cells) /\ acked \subseteq DOMAIN writes
      /\ file \in Journal /\ old \in Journal /\ file.durable <= Len(file.entries)
      /\ sequence \in Nat /\ synced \in 0..sequence /\ {failed, refused} \subseteq BOOLEAN
      /\ syncing \in [by : Clients \cup {"none"}, target : 0..sequence, len : 0..Len(file.entries)]
  BY TypesParts DEF TyWrites, TyJournal
<1>2. /\ cache \in [Chunks -> [st : {"none", "clean", "dirty"}, held : SUBSET Parts, data : Bytes,
                               ver : 0..versions]]
      /\ \A c \in Chunks : /\ cache[c].st = "none" <=> cache[c].held = {}
                           /\ cache[c].st = "clean" => Whole(c)
  <2>1. \A c \in Chunks : cache[c] \in Chunk /\ cache[c].ver \in 0..versions
    BY TypesParts DEF TyCache, Chunk
  <2>2. \A c \in Chunks : cache[c] \in [st : {"none", "clean", "dirty"}, held : SUBSET Parts, data : Bytes, ver : 0..versions]
    BY <2>1 DEF Chunk
  <2> QED BY <2>2, TypesParts DEF TyCache, Whole
<1>3. /\ loading \in [Chunks -> [there : BOOLEAN, data : Bytes]]
      /\ reading \in [Readers -> [chunk : Chunks \cup {0}, data : Bytes, had : SUBSET DOMAIN writes]]
      /\ client \in [Clients -> [st : {"idle", "logged"}, upto : Nat, w : 0..MaxWrites]]
  BY TypesParts DEF TyReads, TyClients
<1>4. \A f \in Flushers :
          /\ flush[f].st \in {"idle", "waiting", "resolving", "storing", "reset", "renamed", "flushed"}
          /\ flush[f].pend \subseteq Chunks /\ flush[f].todo \subseteq Copy
          /\ flush[f].done \subseteq Chunks \X Nat /\ flush[f].cur \in Copy \cup {NoChunk}
          /\ lock = f <=> IF f \in Background THEN flush[f].st = "storing"
                          ELSE flush[f].st # "idle"
  BY TypesParts DEF TyFlush, Flush, TyLock
<1>5. /\ rec \in [Chunks -> [id : 0..stripes, data : Bytes]]
      /\ \A m \in late : m.id \in 1..stripes /\ m.expected \in 0..stripes
      /\ {stops, faults} \subseteq 0..MaxFaults
  BY TypesParts, SizesAssumption DEF TyMeta, TyFaults
<1> QED BY <1>1, <1>2, <1>3, <1>4, <1>5 DEF TypeOK

\* Nothing yet, or no more.
LEMMA Nothings ==
    /\ Zeros \in Bytes /\ NotHeld \in Chunk /\ NotHeld.ver = 0 /\ NotHeld.st = "none" /\ NotHeld.held = {}
    /\ NoLoad \in [there : BOOLEAN, data : Bytes]
    /\ \A S : NoRead \in [chunk : Chunks \cup {0}, data : Bytes, had : SUBSET S]
    /\ Quiet \in [st : {"idle", "logged"}, upto : Nat, w : 0..MaxWrites] /\ Quiet.st = "idle"
    /\ NoFlush \in Flush /\ NoFlush.st = "idle" /\ NoFlush.expected = 0
    /\ NoFlush.todo = {} /\ NoFlush.done = {} /\ NoFlush.pend = {} /\ NoFlush.cur = NoChunk /\ NoFlush.had = {}
    /\ NoFile \in Journal /\ NoFile.entries = <<>> /\ NoFile.durable = 0 /\ ~NoFile.there
<1>1. Zeros \in Bytes
  BY SizesAssumption DEF Zeros, Bytes
<1>2. NoFile \in Journal
  <2>1. <<>> \in Seq(1..MaxWrites)
    OBVIOUS
  <2> QED BY <2>1 DEF NoFile, Journal
<1>3. NoFlush \in Flush
  BY DEF NoFlush, Flush
<1> QED BY <1>1, <1>2, <1>3, SizesAssumption DEF NotHeld, Chunk, NoLoad, NoRead, Quiet, NoFlush, NoFile

\* Each part of the types rests on a few variables.
LEMMA TyFrames ==
    ASSUME Types
    PROVE  /\ UNCHANGED <<writes, acked>> => TyWrites'
           /\ UNCHANGED <<file, old, sequence, synced, failed, refused, syncing>> => TyJournal'
           /\ UNCHANGED <<client, writes, sequence, syncing, synced>> => TyClients'
           /\ UNCHANGED <<cache, versions>> => TyCache'
           /\ UNCHANGED <<loading, reading, writes>> => TyReads'
           /\ UNCHANGED flush => TyFlush'
           /\ UNCHANGED <<lock, flush>> => TyLock'
           /\ UNCHANGED <<cache, flush>> => TyTaken'
           /\ UNCHANGED <<stripes, rec, late, flush>> => TyMeta'
           /\ UNCHANGED <<stops, faults>> => TyFaults'
<1>1. UNCHANGED <<writes, acked>> => TyWrites'
  BY TypesParts DEF TyWrites
<1>2. UNCHANGED <<file, old, sequence, synced, failed, refused, syncing>> => TyJournal'
  BY TypesParts DEF TyJournal
<1>3. UNCHANGED <<client, writes, sequence, syncing, synced>> => TyClients'
  BY TypesParts DEF TyClients, Logged
<1>4. UNCHANGED <<cache, versions>> => TyCache'
  BY TypesParts DEF TyCache
<1>5. UNCHANGED <<loading, reading, writes>> => TyReads'
  BY TypesParts DEF TyReads
<1>6. UNCHANGED flush => TyFlush'
  BY TypesParts DEF TyFlush
<1>7. UNCHANGED <<lock, flush>> => TyLock'
  BY TypesParts DEF TyLock
<1>8. UNCHANGED <<stripes, rec, late, flush>> => TyMeta'
  BY TypesParts DEF TyMeta
<1>9. UNCHANGED <<stops, faults>> => TyFaults'
  BY TypesParts DEF TyFaults
<1>10. UNCHANGED <<cache, flush>> => TyTaken'
  BY TypesParts DEF TyTaken, TakenBy
<1> QED BY <1>1, <1>2, <1>3, <1>4, <1>5, <1>6, <1>7, <1>8, <1>9, <1>10

\* Fault counts one up.
LEMMA FaultCounts == ASSUME Types, NEW kind, Fault(kind) PROVE faults' \in 0..MaxFaults /\ faults' = faults + 1 /\ kind \in Faults
  BY TypesParts, SizesAssumption DEF TyFaults, Fault

\* A write is numbered.
LEMMA Numbered ==
    ASSUME TyWrites, NEW c \in Chunks, NEW P \in SUBSET Parts, writes' = Append(writes, {c} \X P), Len(writes) + 1 <= MaxWrites,
           acked' = acked
    PROVE  /\ TyWrites' /\ Len(writes) \in Nat /\ Len(writes') = Len(writes) + 1
           /\ DOMAIN writes = 1..Len(writes) /\ DOMAIN writes' = 1..(Len(writes) + 1)
           /\ writes'[Len(writes) + 1] = {c} \X P
           /\ \A w \in DOMAIN writes : writes'[w] = writes[w]
<1>1. {c} \X P \in SUBSET Cells
  BY DEF Cells
<1>2. writes \in Seq(SUBSET Cells) /\ Len(writes) \in Nat /\ DOMAIN writes = 1..Len(writes)
  BY DEF TyWrites
<1>3. writes' \in Seq(SUBSET Cells) /\ Len(writes') = Len(writes) + 1
  BY <1>1, <1>2
<1>4. /\ DOMAIN writes' = 1..(Len(writes) + 1) /\ writes'[Len(writes) + 1] = {c} \X P
      /\ \A w \in DOMAIN writes : writes'[w] = writes[w]
  BY <1>1, <1>2
<1> QED BY <1>2, <1>3, <1>4 DEF TyWrites

\* Sequences, appended to and cut.
LEMMA SeqFacts ==
    ASSUME NEW S, NEW s \in Seq(S)
    PROVE  Len(s) \in Nat /\ DOMAIN s = 1..Len(s) /\ \A i \in 1..Len(s) : s[i] \in S
  OBVIOUS

LEMMA SeqAppend ==
    ASSUME NEW S, NEW s \in Seq(S), NEW e \in S
    PROVE  /\ Append(s, e) \in Seq(S) /\ Len(Append(s, e)) = Len(s) + 1 /\ Len(s) \in Nat
           /\ Append(s, e)[Len(s) + 1] = e /\ \A i \in 1..Len(s) : Append(s, e)[i] = s[i]
  OBVIOUS

LEMMA SeqPrefix ==
    ASSUME NEW S, NEW s \in Seq(S), NEW n \in 0..Len(s)
    PROVE  /\ SubSeq(s, 1, n) \in Seq(S) /\ Len(SubSeq(s, 1, n)) = n
           /\ \A i \in 1..n : SubSeq(s, 1, n)[i] = s[i]
  OBVIOUS

\* A journal, and what is done to it.
LEMMA JournalType ==
    ASSUME NEW j \in Journal
    PROVE  /\ j.base \in Nat /\ j.entries \in Seq(1..MaxWrites) /\ j.durable \in Nat /\ j.there \in BOOLEAN
           /\ Len(j.entries) \in Nat /\ DOMAIN j.entries = 1..Len(j.entries)
           /\ \A i \in 1..Len(j.entries) : j.entries[i] \in 1..MaxWrites
<1>1. j.base \in Nat /\ j.entries \in Seq(1..MaxWrites) /\ j.durable \in Nat /\ j.there \in BOOLEAN
  BY DEF Journal
<1> QED BY <1>1, SeqFacts

LEMMA JournalAppend ==
    ASSUME NEW j \in Journal, NEW w \in 1..MaxWrites, NEW h, h = [j EXCEPT !.entries = Append(@, w)]
    PROVE  /\ h \in Journal /\ h.base = j.base /\ h.durable = j.durable /\ h.there = j.there
           /\ Len(h.entries) = Len(j.entries) + 1 /\ h.entries[Len(j.entries) + 1] = w
           /\ \A i \in 1..Len(j.entries) : h.entries[i] = j.entries[i]
<1>1. /\ h.base = j.base /\ h.durable = j.durable /\ h.there = j.there /\ h.entries = Append(j.entries, w)
      /\ h = [base |-> h.base, entries |-> h.entries, durable |-> h.durable, there |-> h.there]
  BY DEF Journal
<1>2. /\ h.entries \in Seq(1..MaxWrites) /\ Len(h.entries) = Len(j.entries) + 1 /\ h.entries[Len(j.entries) + 1] = w
      /\ \A i \in 1..Len(j.entries) : h.entries[i] = j.entries[i]
  <2>1. j.entries \in Seq(1..MaxWrites)
    BY JournalType
  <2> QED BY <1>1, <2>1, SeqAppend
<1>3. h \in Journal
  BY <1>1, <1>2, JournalType DEF Journal
<1> QED BY <1>1, <1>2, <1>3

\* What a power cut leaves.
LEMMA JournalPrefix ==
    ASSUME NEW j \in Journal, NEW n \in 0..Len(j.entries), NEW h,
           h = [base |-> j.base, entries |-> SubSeq(j.entries, 1, n), durable |-> n, there |-> j.there]
    PROVE  /\ h \in Journal /\ h.base = j.base /\ h.durable = n /\ h.there = j.there
           /\ Len(h.entries) = n /\ \A i \in 1..n : h.entries[i] = j.entries[i]
<1>1. /\ h.base = j.base /\ h.durable = n /\ h.there = j.there /\ h.entries = SubSeq(j.entries, 1, n)
      /\ h = [base |-> h.base, entries |-> h.entries, durable |-> h.durable, there |-> h.there]
  OBVIOUS
<1>2. n \in Nat /\ n <= Len(j.entries) /\ j.entries \in Seq(1..MaxWrites)
  BY JournalType
<1>3. /\ SubSeq(j.entries, 1, n) \in Seq(1..MaxWrites) /\ Len(SubSeq(j.entries, 1, n)) = n
      /\ \A i \in 1..n : SubSeq(j.entries, 1, n)[i] = j.entries[i]
  BY <1>2, SeqPrefix
<1>4. h \in Journal
  BY <1>1, <1>2, <1>3, JournalType DEF Journal
<1> QED BY <1>1, <1>3, <1>4

LEMMA NewFileType ==
    ASSUME NEW n \in Nat
    PROVE  /\ NewFile(n) \in Journal /\ NewFile(n).entries = <<>> /\ NewFile(n).durable = 0
           /\ Len(NewFile(n).entries) = 0 /\ NewFile(n).there
<1>1. <<>> \in Seq(1..MaxWrites) /\ Len(<<>>) = 0
  OBVIOUS
<1> QED BY <1>1 DEF NewFile, Journal

LEMMA TypesInit == Init => Types
<1> SUFFICES ASSUME Init PROVE Types
  OBVIOUS
<1>1. TyWrites
  BY SizesAssumption DEF Init, TyWrites
<1>2. TyJournal
  <2>1. /\ file = NewFile(0) /\ old = NoFile /\ sequence = 0 /\ synced = 0 /\ failed = FALSE
        /\ refused = FALSE /\ syncing = NoSync
    BY DEF Init
  <2>2. Len(old.entries) = 0 /\ Len(file.entries) = 0 /\ old.durable = 0 /\ file.durable = 0
    BY <2>1, Nothings, NewFileType
  <2>3. syncing \in [by : Clients \cup {"none"}, target : 0..sequence, len : 0..Len(file.entries)]
    BY <2>1, <2>2 DEF NoSync
  <2>4. file \in Journal /\ old \in Journal
    BY <2>1, Nothings, NewFileType
  <2>5. synced \in 0..sequence /\ file.durable <= Len(file.entries) /\ old.durable <= Len(old.entries)
    BY <2>1, <2>2
  <2>6. failed \in BOOLEAN /\ refused \in BOOLEAN /\ sequence \in Nat
    BY <2>1
  <2> QED BY <2>3, <2>4, <2>5, <2>6 DEF TyJournal
<1>3. TyClients
  <2>1. client = [k \in Clients |-> Quiet] /\ syncing = NoSync
    BY DEF Init
  <2>2. Logged = {}
    BY <2>1, Nothings DEF Logged
  <2> QED BY <2>1, <2>2, Nothings DEF TyClients, NoSync
<1>4. TyCache
  BY Nothings DEF Init, TyCache
<1>5. TyReads
  BY Nothings DEF Init, TyReads
<1>6. TyFlush
  BY Nothings DEF Init, TyFlush
<1>7. TyLock
  <2>1. flush = [f \in Flushers |-> NoFlush] /\ lock = "none"
    BY DEF Init
  <2> QED BY <2>1, Nothings, FlushersAssumption DEF TyLock, Flushers
<1>8. TyMeta
  BY Nothings DEF Init, TyMeta
<1>9. TyFaults
  BY SizesAssumption DEF Init, TyFaults
<1>10. TyTaken
  <2>1. flush = [f \in Flushers |-> NoFlush]
    BY DEF Init
  <2> QED BY <2>1, Nothings DEF TyTaken, TakenBy
<1> QED BY <1>1, <1>2, <1>3, <1>4, <1>5, <1>6, <1>7, <1>8, <1>9, <1>10 DEF Types

-----------------------------------------------------------------------------
(* What each step does to a flush.                                         *)

\* Only flush f goes on.
Moves(f) == flush' \in [Flushers -> Flush] /\ \A g \in Flushers \ {f} : flush'[g] = flush[g]

LEMMA MoveIs ==
    ASSUME TyFlush, NEW f \in Flushers, NEW v \in Flush, flush' = [flush EXCEPT ![f] = v]
    PROVE  Moves(f) /\ flush'[f] = v
  BY DEF TyFlush, Moves

LEMMA FlushType ==
    ASSUME TyFlush, NEW f \in Flushers
    PROVE  /\ flush[f] \in Flush /\ flush[f].pend \in SUBSET Chunks /\ flush[f].todo \in SUBSET Copy
           /\ flush[f].done \in SUBSET (Chunks \X Nat) /\ flush[f].missed \in BOOLEAN
           /\ flush[f].cur \in Copy \cup {NoChunk} /\ flush[f].expected \in Nat /\ flush[f].had \in SUBSET Nat
           /\ flush[f].st \in {"idle", "waiting", "resolving", "storing", "reset", "renamed", "flushed"}
  BY DEF TyFlush, Flush

\* A flush with its fields.
FlushOf(st, pend, todo, done, missed, cur, expected, had) ==
    [st |-> st, pend |-> pend, todo |-> todo, done |-> done, missed |-> missed, cur |-> cur,
     expected |-> expected, had |-> had]

LEMMA CapturedType == ASSUME TyCache, NEW c \in Chunks PROVE Captured(c) \in Copy
  BY DEF TyCache, Chunk, Captured, Copy

LEMMA CaptureDueIs ==
    ASSUME Types, NEW f \in Flushers, NEW due \in SUBSET Chunks, CaptureDue(f, due)
    PROVE  /\ Moves(f) /\ f \in Background /\ flush[f].st = "idle" /\ due \subseteq Flushable
           /\ flush'[f].st = (IF due = {} THEN "reset" ELSE "waiting") /\ flush'[f].todo = {Captured(c) : c \in due}
           /\ flush'[f].done = {} /\ flush'[f].cur = NoChunk /\ flush'[f].expected = 0 /\ flush'[f].had = {}
<1>1. PICK T, st : T = {Captured(c) : c \in due} /\ st = IF due = {} THEN "reset" ELSE "waiting"
  OBVIOUS
<1>2. T \in SUBSET Copy
  BY <1>1, TypesParts, CapturedType
<1>3. PICK v : v = [NoFlush EXCEPT !.st = st, !.todo = T]
  OBVIOUS
<1>4. flush' = [flush EXCEPT ![f] = v] /\ f \in Background /\ flush[f].st = "idle" /\ due \subseteq Flushable
  BY <1>1, <1>3 DEF CaptureDue
<1>5. v = FlushOf(st, {}, T, {}, FALSE, NoChunk, 0, {})
  BY <1>3 DEF NoFlush, FlushOf
<1>6. /\ v \in Flush /\ v.st = st /\ v.todo = T /\ v.done = {} /\ v.cur = NoChunk /\ v.expected = 0 /\ v.had = {}
  BY <1>1, <1>2, <1>5 DEF FlushOf, Flush
<1>7. Moves(f) /\ flush'[f] = v
  BY <1>4, <1>6, TypesParts, MoveIs
<1> QED BY <1>1, <1>4, <1>6, <1>7

LEMMA TakeLockIs ==
    ASSUME Types, NEW f \in Flushers, TakeLock(f)
    PROVE  /\ Moves(f) /\ f \in Background /\ flush[f].st = "waiting" /\ lock = "none" /\ lock' = f
           /\ flush'[f].st = "storing" /\ flush'[f].todo = flush[f].todo /\ flush'[f].done = flush[f].done
           /\ flush'[f].cur = flush[f].cur /\ flush'[f].expected = flush[f].expected /\ flush'[f].had = flush[f].had
           /\ flush'[f].missed = flush[f].missed
<1>1. flush' = [flush EXCEPT ![f].st = "storing"] /\ f \in Background /\ flush[f].st = "waiting" /\ lock = "none" /\ lock' = f
  BY DEF TakeLock
<1>2. PICK v : v = [flush[f] EXCEPT !.st = "storing"]
  OBVIOUS
<1>3. flush' = [flush EXCEPT ![f] = v]
  BY <1>1, <1>2, TypesParts DEF TyFlush
<1>4. /\ v \in Flush /\ v.st = "storing" /\ v.todo = flush[f].todo /\ v.cur = flush[f].cur /\ v.expected = flush[f].expected
      /\ v.done = flush[f].done /\ v.had = flush[f].had /\ v.missed = flush[f].missed
  BY <1>2, TypesParts, FlushType DEF Flush
<1>5. Moves(f) /\ flush'[f] = v
  BY <1>3, <1>4, TypesParts, MoveIs
<1> QED BY <1>1, <1>4, <1>5

LEMMA FlushAllIs ==
    ASSUME Types, NEW f \in Flushers, FlushAll(f)
    PROVE  /\ Moves(f) /\ f \in Foreground /\ flush[f].st = "idle" /\ lock = "none" /\ lock' = f
           /\ flush'[f].st = "resolving" /\ flush'[f].had = acked /\ flush'[f].pend = {c \in Chunks : Pending(c)}
           /\ flush'[f].todo = {} /\ flush'[f].done = {} /\ flush'[f].cur = NoChunk /\ flush'[f].expected = 0
<1>1. PICK P : P = {c \in Chunks : Pending(c)}
  OBVIOUS
<1>2. acked \in SUBSET Nat /\ P \in SUBSET Chunks
  BY <1>1, TypesParts, SeqFacts DEF TyWrites
<1>3. PICK v : v = [NoFlush EXCEPT !.st = "resolving", !.had = acked, !.pend = P]
  OBVIOUS
<1>4. flush' = [flush EXCEPT ![f] = v] /\ f \in Foreground /\ flush[f].st = "idle" /\ lock = "none" /\ lock' = f
  BY <1>1, <1>3 DEF FlushAll
<1>5. v = FlushOf("resolving", P, {}, {}, FALSE, NoChunk, 0, acked)
  BY <1>3 DEF NoFlush, FlushOf
<1>6. /\ v \in Flush /\ v.st = "resolving" /\ v.todo = {} /\ v.done = {} /\ v.cur = NoChunk /\ v.expected = 0
      /\ v.had = acked /\ v.pend = P
  BY <1>2, <1>5 DEF FlushOf, Flush
<1>7. Moves(f) /\ flush'[f] = v
  BY <1>4, <1>6, TypesParts, MoveIs
<1> QED BY <1>1, <1>4, <1>6, <1>7

LEMMA CaptureAllIs ==
    ASSUME Types, NEW f \in Flushers, CaptureAll(f)
    PROVE  /\ Moves(f) /\ flush[f].st = "resolving"
           /\ flush'[f].st = "storing" /\ flush'[f].todo = {Captured(c) : c \in Flushable}
           /\ flush'[f].missed = (\E c \in flush[f].pend : Pending(c))
           /\ flush'[f].done = flush[f].done /\ flush'[f].cur = flush[f].cur
           /\ flush'[f].expected = flush[f].expected /\ flush'[f].had = flush[f].had
<1>1. PICK T, b : T = {Captured(c) : c \in Flushable} /\ b = (\E c \in flush[f].pend : Pending(c))
  OBVIOUS
<1>2. T \in SUBSET Copy /\ b \in BOOLEAN
  BY <1>1, TypesParts, CapturedType DEF Flushable
<1>3. flush' = [flush EXCEPT ![f].st = "storing", ![f].todo = T, ![f].missed = b] /\ flush[f].st = "resolving"
  BY <1>1 DEF CaptureAll
<1>4. PICK v : v = [flush[f] EXCEPT !.st = "storing", !.todo = T, !.missed = b]
  OBVIOUS
<1>5. flush' = [flush EXCEPT ![f] = v]
  BY <1>3, <1>4, TypesParts DEF TyFlush
<1>6. /\ v \in Flush /\ v.st = "storing" /\ v.todo = T /\ v.missed = b
      /\ v.done = flush[f].done /\ v.cur = flush[f].cur /\ v.expected = flush[f].expected /\ v.had = flush[f].had
  BY <1>2, <1>4, TypesParts, FlushType DEF Flush
<1>7. Moves(f) /\ flush'[f] = v
  BY <1>5, <1>6, TypesParts, MoveIs
<1> QED BY <1>1, <1>3, <1>6, <1>7

\* The copies are stored in the order of their chunks.
LEMMA NextChunkIs ==
    ASSUME Types, NEW f \in Flushers, flush[f].todo # {}
    PROVE  NextChunk(f) \in flush[f].todo
<1>1. flush[f].todo \subseteq Copy
  BY TypesParts, FlushType
<1> DEFINE T == {t.chunk : t \in flush[f].todo}
<1>2. T \subseteq Nat /\ T # {}
  BY <1>1, SizesAssumption DEF Copy, Chunks
<1>3. \E x \in T : \A y \in T : x <= y
  BY <1>2, LeastNatural
<1>4. \E t \in flush[f].todo : \A u \in flush[f].todo : t.chunk <= u.chunk
  BY <1>3
<1> QED BY <1>4 DEF NextChunk

LEMMA StoreBeginIs ==
    ASSUME Types, NEW f \in Flushers, StoreBegin(f)
    PROVE  /\ Moves(f) /\ flush[f].st = "storing" /\ flush'[f].st = "storing" /\ flush'[f].todo = flush[f].todo
           /\ flush'[f].cur \in flush[f].todo /\ flush'[f].expected = rec[flush'[f].cur.chunk].id
           /\ flush'[f].done = flush[f].done /\ flush'[f].had = flush[f].had /\ flush'[f].missed = flush[f].missed
           /\ flush'[f].expected \in 0..stripes
<1>1. PICK t, e : t = NextChunk(f) /\ e = rec[t.chunk].id
  OBVIOUS
<1>2. flush[f].todo # {} /\ flush[f].st = "storing" /\ flush' = [flush EXCEPT ![f].cur = t, ![f].expected = e]
  BY <1>1 DEF StoreBegin
<1>3. t \in flush[f].todo /\ t \in Copy
  BY <1>1, <1>2, NextChunkIs, TypesParts, FlushType
<1>4. e \in 0..stripes /\ e \in Nat
  BY <1>1, <1>3, TypesParts DEF TyMeta, Copy
<1>5. PICK v : v = [flush[f] EXCEPT !.cur = t, !.expected = e]
  OBVIOUS
<1>6. flush' = [flush EXCEPT ![f] = v]
  BY <1>2, <1>5, TypesParts DEF TyFlush
<1>7. /\ v \in Flush /\ v.st = "storing" /\ v.todo = flush[f].todo /\ v.cur = t /\ v.expected = e
      /\ v.done = flush[f].done /\ v.had = flush[f].had /\ v.missed = flush[f].missed
  BY <1>2, <1>3, <1>4, <1>5, TypesParts, FlushType DEF Flush
<1>8. Moves(f) /\ flush'[f] = v
  BY <1>6, <1>7, TypesParts, MoveIs
<1> QED BY <1>1, <1>2, <1>3, <1>4, <1>7, <1>8

LEMMA StoreFailsIs ==
    ASSUME Types, NEW f \in Flushers, StoreFails(f)
    PROVE  /\ Moves(f) /\ flush[f].st = "storing" /\ flush'[f].st = "storing" /\ flush'[f].todo \subseteq flush[f].todo
           /\ flush[f].cur = NoChunk /\ flush'[f].cur = NoChunk /\ flush'[f].missed /\ flush'[f].expected = flush[f].expected
           /\ flush'[f].done = flush[f].done /\ flush'[f].had = flush[f].had
<1>1. PICK T : T = flush[f].todo \ {NextChunk(f)}
  OBVIOUS
<1>2. flush[f].st = "storing" /\ flush[f].cur = NoChunk /\ flush' = [flush EXCEPT ![f].todo = T, ![f].missed = TRUE]
  BY <1>1 DEF StoreFails
<1>3. T \subseteq flush[f].todo /\ T \in SUBSET Copy
  BY <1>1, TypesParts, FlushType
<1>4. PICK v : v = [flush[f] EXCEPT !.todo = T, !.missed = TRUE]
  OBVIOUS
<1>5. flush' = [flush EXCEPT ![f] = v]
  BY <1>2, <1>4, TypesParts DEF TyFlush
<1>6. /\ v \in Flush /\ v.st = "storing" /\ v.todo = T /\ v.cur = NoChunk /\ v.expected = flush[f].expected
      /\ v.done = flush[f].done /\ v.had = flush[f].had /\ v.missed
  BY <1>2, <1>3, <1>4, TypesParts, FlushType DEF Flush
<1>7. Moves(f) /\ flush'[f] = v
  BY <1>5, <1>6, TypesParts, MoveIs
<1> QED BY <1>2, <1>3, <1>6, <1>7

LEMMA AnsweredIs ==
    ASSUME Types, NEW f \in Flushers, flush[f].cur # NoChunk, NEW ok \in BOOLEAN, Answered(f, ok)
    PROVE  /\ Moves(f) /\ flush'[f].st = flush[f].st /\ flush'[f].todo = flush[f].todo \ {flush[f].cur}
           /\ flush'[f].cur = NoChunk /\ flush'[f].expected = 0 /\ flush'[f].had = flush[f].had
           /\ flush'[f].done = (IF ok THEN flush[f].done \cup {<<flush[f].cur.chunk, flush[f].cur.ver>>} ELSE flush[f].done)
           /\ flush'[f].missed = (flush[f].missed \/ ~ok)
<1>1. PICK T, D, b : /\ T = flush[f].todo \ {flush[f].cur} /\ b = (flush[f].missed \/ ~ok)
                     /\ D = IF ok THEN flush[f].done \cup {<<flush[f].cur.chunk, flush[f].cur.ver>>} ELSE flush[f].done
  OBVIOUS
<1>2. T \in SUBSET Copy /\ b \in BOOLEAN /\ D \in SUBSET (Chunks \X Nat)
  <2>1. flush[f].cur \in Copy
    BY TypesParts, FlushType
  <2> QED BY <1>1, <2>1, TypesParts, FlushType DEF Copy
<1>3. flush' = [flush EXCEPT ![f].cur = NoChunk, ![f].expected = 0, ![f].todo = T, ![f].done = D, ![f].missed = b]
  BY <1>1 DEF Answered
<1>4. PICK v : v = [flush[f] EXCEPT !.cur = NoChunk, !.expected = 0, !.todo = T, !.done = D, !.missed = b]
  OBVIOUS
<1>5. flush' = [flush EXCEPT ![f] = v]
  BY <1>3, <1>4, TypesParts DEF TyFlush
<1>6. /\ v \in Flush /\ v.st = flush[f].st /\ v.todo = T /\ v.cur = NoChunk /\ v.expected = 0
      /\ v.done = D /\ v.had = flush[f].had /\ v.missed = b
  BY <1>2, <1>4, TypesParts, FlushType DEF Flush
<1>7. Moves(f) /\ flush'[f] = v
  BY <1>5, <1>6, TypesParts, MoveIs
<1> QED BY <1>1, <1>6, <1>7

LEMMA StoresEndIs ==
    ASSUME Types, NEW f \in Flushers, StoresEnd(f)
    PROVE  /\ Moves(f) /\ flush[f].st = "storing" /\ flush[f].todo = {} /\ flush'[f].st = "reset" /\ flush'[f].todo = {}
           /\ flush'[f].done = {} /\ flush'[f].cur = flush[f].cur /\ flush'[f].expected = flush[f].expected
           /\ flush'[f].had = flush[f].had /\ flush'[f].missed = flush[f].missed
<1>1. flush[f].st = "storing" /\ flush[f].todo = {} /\ flush' = [flush EXCEPT ![f].st = "reset", ![f].done = {}]
  BY DEF StoresEnd
<1>2. PICK v : v = [flush[f] EXCEPT !.st = "reset", !.done = {}]
  OBVIOUS
<1>3. flush' = [flush EXCEPT ![f] = v]
  BY <1>1, <1>2, TypesParts DEF TyFlush
<1>4. /\ v \in Flush /\ v.st = "reset" /\ v.todo = flush[f].todo /\ v.cur = flush[f].cur /\ v.expected = flush[f].expected
      /\ v.done = {} /\ v.had = flush[f].had /\ v.missed = flush[f].missed
  BY <1>2, TypesParts, FlushType DEF Flush
<1>5. Moves(f) /\ flush'[f] = v
  BY <1>3, <1>4, TypesParts, MoveIs
<1> QED BY <1>1, <1>4, <1>5

LEMMA RotateIs ==
    ASSUME Types, NEW f \in Flushers, Rotate(f)
    PROVE  /\ Moves(f) /\ flush[f].st = "reset" /\ flush'[f].st = "renamed" /\ flush'[f].todo = flush[f].todo
           /\ flush'[f].done = flush[f].done /\ flush'[f].cur = flush[f].cur /\ flush'[f].expected = flush[f].expected
           /\ flush'[f].had = flush[f].had /\ flush'[f].missed = flush[f].missed
<1>1. flush[f].st = "reset" /\ flush' = [flush EXCEPT ![f].st = "renamed"]
  BY DEF Rotate
<1>2. PICK v : v = [flush[f] EXCEPT !.st = "renamed"]
  OBVIOUS
<1>3. flush' = [flush EXCEPT ![f] = v]
  BY <1>1, <1>2, TypesParts DEF TyFlush
<1>4. /\ v \in Flush /\ v.st = "renamed" /\ v.todo = flush[f].todo /\ v.cur = flush[f].cur /\ v.expected = flush[f].expected
      /\ v.done = flush[f].done /\ v.had = flush[f].had /\ v.missed = flush[f].missed
  BY <1>2, TypesParts, FlushType DEF Flush
<1>5. Moves(f) /\ flush'[f] = v
  BY <1>3, <1>4, TypesParts, MoveIs
<1> QED BY <1>1, <1>4, <1>5

\* A flush is over, or a client's goes on to its answer.
Rests(f) == /\ Moves(f)
            /\ IF f \in Background THEN flush'[f] = NoFlush
               ELSE /\ flush'[f].st = "flushed" /\ flush'[f].todo = flush[f].todo
                    /\ flush'[f].done = flush[f].done /\ flush'[f].cur = flush[f].cur
                    /\ flush'[f].expected = flush[f].expected
                    /\ flush'[f].had = flush[f].had /\ flush'[f].missed = flush[f].missed

LEMMA RestsIs ==
    ASSUME Types, NEW f \in Flushers,
           flush' = [flush EXCEPT ![f] = IF f \in Background THEN NoFlush ELSE [@ EXCEPT !.st = "flushed"]]
    PROVE  Rests(f)
<1>1. CASE f \in Background
  <2>1. flush' = [flush EXCEPT ![f] = NoFlush]
    BY <1>1
  <2>2. TyFlush /\ NoFlush \in Flush
    BY Nothings, TypesParts
  <2>3. Moves(f) /\ flush'[f] = NoFlush
    BY <2>1, <2>2, MoveIs
  <2> QED BY <1>1, <2>3 DEF Rests
<1>2. CASE f \notin Background
  <2>1. PICK v : v = [flush[f] EXCEPT !.st = "flushed"]
    OBVIOUS
  <2>2. flush' = [flush EXCEPT ![f] = v]
    BY <1>2, <2>1
  <2>3. /\ v \in Flush /\ v.st = "flushed" /\ v.todo = flush[f].todo /\ v.done = flush[f].done /\ v.cur = flush[f].cur
        /\ v.expected = flush[f].expected /\ v.had = flush[f].had /\ v.missed = flush[f].missed
    BY <2>1, TypesParts, FlushType DEF Flush
  <2> QED BY <1>2, <2>2, <2>3, TypesParts, MoveIs DEF Rests
<1> QED BY <1>1, <1>2

LEMMA EndsIs ==
    ASSUME Types, NEW f \in Flushers, flush' = [flush EXCEPT ![f] = NoFlush]
    PROVE  Moves(f) /\ flush'[f] = NoFlush
  BY Nothings, TypesParts, MoveIs

-----------------------------------------------------------------------------
(* What each step does to the cache.                                       *)

\* Only chunk c changes in the cache.
Changes(c) == cache' \in [Chunks -> Chunk] /\ \A d \in Chunks \ {c} : cache'[d] = cache[d]

LEMMA ChunkType ==
    ASSUME TyCache, NEW c \in Chunks
    PROVE  /\ cache[c] \in Chunk /\ cache[c].st \in {"none", "clean", "dirty"} /\ cache[c].held \in SUBSET Parts
           /\ cache[c].data \in Bytes /\ cache[c].ver \in Nat /\ cache[c].ver <= versions /\ versions \in Nat
           /\ cache[c].st = "none" <=> cache[c].held = {}
           /\ cache[c].st = "clean" => cache[c].held = Parts
           /\ \A p \in Parts : cache[c].data[p] \in 0..MaxWrites
  BY DEF TyCache, Chunk, Bytes

LEMMA ChangeIs ==
    ASSUME TyCache, NEW c \in Chunks, NEW e \in Chunk, cache' = [cache EXCEPT ![c] = e]
    PROVE  Changes(c) /\ cache'[c] = e
  BY DEF TyCache, Changes

LEMMA MergedType ==
    ASSUME NEW e \in Chunk, NEW base \in Bytes, NEW v \in Nat
    PROVE  /\ merged(e, base, v) \in Chunk /\ merged(e, base, v).st = "dirty" /\ merged(e, base, v).ver = v
           /\ merged(e, base, v).held = Parts
           /\ \A p \in Parts : merged(e, base, v).data[p] = IF p \in e.held THEN e.data[p] ELSE base[p]
<1>1. PICK D : D = [p \in Parts |-> IF p \in e.held THEN e.data[p] ELSE base[p]]
  OBVIOUS
<1>2. D \in Bytes
  BY <1>1 DEF Bytes, Chunk
<1>3. merged(e, base, v) = [st |-> "dirty", held |-> Parts, ver |-> v, data |-> D]
  BY <1>1 DEF merged
<1> QED BY <1>1, <1>2, <1>3 DEF Chunk

LEMMA LogWriteIs ==
    ASSUME Types, NEW k \in Clients, NEW c \in Chunks, NEW P \in (SUBSET Parts) \ {{}}, LogWrite(k, c, P)
    PROVE  LET w == Len(writes) + 1 IN
           /\ Len(writes) \in Nat /\ w \in 1..MaxWrites /\ writes' = Append(writes, {c} \X P)
           /\ Changes(c) /\ cache'[c].st = "dirty" /\ cache'[c].ver = versions + 1
           /\ cache'[c].held = cache[c].held \cup P
           /\ \A p \in Parts : cache'[c].data[p] = IF p \in P THEN w ELSE cache[c].data[p]
<1>1. Len(writes) \in Nat /\ Len(writes) + 1 \in 1..MaxWrites
  BY TypesParts, SeqFacts DEF TyWrites, LogWrite
<1>2. PICK w : w = Len(writes) + 1
  OBVIOUS
<1>3. PICK v, h : v = versions + 1 /\ h = cache[c]
  OBVIOUS
<1>4. h \in Chunk /\ v \in Nat /\ w \in 0..MaxWrites /\ P \in SUBSET Parts
  BY <1>1, <1>2, <1>3, TypesParts, ChunkType
<1>8. PICK e : e = apply(h, P, w, v)
  OBVIOUS
<1>5. /\ e \in Chunk /\ e.st = "dirty" /\ e.ver = v /\ e.held = h.held \cup P
      /\ \A p \in Parts : e.data[p] = IF p \in P THEN w ELSE h.data[p]
  <2>1. PICK D : D = [p \in Parts |-> IF p \in P THEN w ELSE h.data[p]]
    OBVIOUS
  <2>2. D \in Bytes
    BY <1>4, <2>1 DEF Bytes, Chunk
  <2>3. e = [st |-> "dirty", held |-> h.held \cup P, ver |-> v, data |-> D] /\ h.held \cup P \in SUBSET Parts
    BY <1>4, <1>8, <2>1 DEF apply, Chunk
  <2> QED BY <1>4, <2>1, <2>2, <2>3 DEF Chunk
<1>6. cache' = [cache EXCEPT ![c] = e] /\ writes' = Append(writes, {c} \X P)
  BY <1>2, <1>3, <1>8 DEF LogWrite
<1>7. Changes(c) /\ cache'[c] = e
  BY <1>5, <1>6, TypesParts, ChangeIs
<1> QED BY <1>1, <1>2, <1>3, <1>5, <1>6, <1>7

LEMMA ResolveIs ==
    ASSUME Types, NEW c \in Chunks, resolve(c), Pending(c)
    PROVE  /\ Changes(c) /\ cache'[c].st = "dirty" /\ cache'[c].ver = versions + 1 /\ cache'[c].held = Parts
           /\ \A p \in Parts : cache'[c].data[p] = IF p \in cache[c].held THEN cache[c].data[p] ELSE loading[c].data[p]
<1>1. cache[c] \in Chunk /\ versions + 1 \in Nat /\ loading[c].data \in Bytes
  BY TypesParts, ChunkType DEF TyReads
<1>2. PICK e : e = merged(cache[c], loading[c].data, versions + 1)
  OBVIOUS
<1>3. /\ e \in Chunk /\ e.st = "dirty" /\ e.ver = versions + 1 /\ e.held = Parts
      /\ \A p \in Parts : e.data[p] = IF p \in cache[c].held THEN cache[c].data[p] ELSE loading[c].data[p]
  BY <1>1, <1>2, MergedType
<1>4. cache' = [cache EXCEPT ![c] = e]
  BY <1>2 DEF resolve
<1> QED BY <1>3, <1>4, TypesParts, ChangeIs

LEMMA ReadEndsIs ==
    ASSUME Types, NEW r \in Readers, ReadEnds(r), cache[reading[r].chunk].st = "none", reading[r].chunk \in Chunks
    PROVE  LET c == reading[r].chunk IN
           /\ Changes(c) /\ cache'[c].st = "clean" /\ cache'[c].ver = 0 /\ cache'[c].held = Parts
           /\ cache'[c].data = reading[r].data
<1>1. reading[r].data \in Bytes
  BY TypesParts DEF TyReads
<1>2. PICK c, e : c = reading[r].chunk /\ e = [NotHeld EXCEPT !.st = "clean", !.held = Parts, !.data = reading[r].data]
  OBVIOUS
<1>3. e \in Chunk /\ e.st = "clean" /\ e.ver = 0 /\ e.held = Parts /\ e.data = reading[r].data
  BY <1>1, <1>2 DEF NotHeld, Chunk
<1>4. cache' = [cache EXCEPT ![c] = e]
  BY <1>2 DEF ReadEnds, add_clean
<1>5. Changes(c) /\ cache'[c] = e
  <2>1. c \in Chunks /\ TyCache
    BY <1>2, TypesParts
  <2> QED BY <1>3, <1>4, <2>1, ChangeIs
<1> QED BY <1>2, <1>3, <1>5

\* What was stored and not written since is clean, the rest as it was.
LEMMA MarkFlushedIs ==
    ASSUME TyCache, NEW done, mark_flushed(done)
    PROVE  /\ cache' \in [Chunks -> Chunk]
           /\ \A c \in Chunks : /\ cache'[c].held = cache[c].held /\ cache'[c].data = cache[c].data
                                /\ \/ cache'[c] = cache[c]
                                   \/ /\ cache[c].st = "dirty" /\ <<c, cache[c].ver>> \in done
                                      /\ cache'[c].st = "clean" /\ cache'[c].ver = 0
<1>1. \A c \in Chunks : cache[c] \in Chunk
  BY ChunkType
<1>2. ASSUME NEW e \in Chunk
      PROVE  /\ [e EXCEPT !.st = "clean", !.ver = 0] \in Chunk
             /\ [e EXCEPT !.st = "clean", !.ver = 0].st = "clean" /\ [e EXCEPT !.st = "clean", !.ver = 0].ver = 0
             /\ [e EXCEPT !.st = "clean", !.ver = 0].held = e.held /\ [e EXCEPT !.st = "clean", !.ver = 0].data = e.data
  BY DEF Chunk
<1>3. cache' = [c \in Chunks |-> IF cache[c].st = "dirty" /\ <<c, cache[c].ver>> \in done
                                 THEN [cache[c] EXCEPT !.st = "clean", !.ver = 0] ELSE cache[c]]
  BY DEF mark_flushed
<1>4. cache' \in [Chunks -> Chunk]
  BY <1>1, <1>2, <1>3
<1>5. ASSUME NEW c \in Chunks
      PROVE  /\ cache'[c].held = cache[c].held /\ cache'[c].data = cache[c].data
             /\ \/ cache'[c] = cache[c]
                \/ /\ cache[c].st = "dirty" /\ <<c, cache[c].ver>> \in done
                   /\ cache'[c].st = "clean" /\ cache'[c].ver = 0
  <2>1. CASE cache[c].st = "dirty" /\ <<c, cache[c].ver>> \in done
    <3>1. PICK e : e = cache[c]
      OBVIOUS
    <3>2. cache'[c] = [e EXCEPT !.st = "clean", !.ver = 0] /\ e \in Chunk
      BY <1>1, <1>3, <2>1, <3>1
    <3>3. cache'[c].st = "clean" /\ cache'[c].ver = 0 /\ cache'[c].held = e.held /\ cache'[c].data = e.data
      BY <3>2 DEF Chunk
    <3> QED BY <2>1, <3>1, <3>3
  <2>2. CASE ~(cache[c].st = "dirty" /\ <<c, cache[c].ver>> \in done)
    BY <1>3, <2>2
  <2> QED BY <2>1, <2>2
<1> QED BY <1>4, <1>5

\* Replaying entries leaves, of each part, the last write to it.
LEMMA ReplayedIs ==
    ASSUME TyWrites, NEW s \in Seq(1..MaxWrites), NEW c \in Chunks
    PROVE  /\ Replayed(s)[c] \in Chunk /\ Replayed(s)[c].ver <= Len(s)
           /\ Replayed(s)[c].st = (IF Replayed(s)[c].held = {} THEN "none" ELSE "dirty")
           /\ \A p \in Parts : /\ p \in Replayed(s)[c].held <=> \E i \in 1..Len(s) : p \in PartsOf(s[i], c)
                               /\ p \notin Replayed(s)[c].held => Replayed(s)[c].data[p] = 0
                               /\ p \in Replayed(s)[c].held =>
                                    \E i \in 1..Len(s) : /\ p \in PartsOf(s[i], c) /\ Replayed(s)[c].data[p] = s[i]
                                                         /\ \A j \in 1..Len(s) : p \in PartsOf(s[j], c) => j <= i
<1> DEFINE on(p) == {i \in DOMAIN s : p \in PartsOf(s[i], c)}
           any == UNION {on(p) : p \in Parts}
           hold == {p \in Parts : on(p) # {}}
           D == [p \in Parts |-> IF p \in hold THEN s[Max(on(p))] ELSE 0]
<1>1. Len(s) \in Nat /\ DOMAIN s = 1..Len(s) /\ \A i \in 1..Len(s) : s[i] \in 1..MaxWrites
  BY SeqFacts
<1>2. Replayed(s)[c] = IF any = {} THEN NotHeld ELSE [st |-> "dirty", held |-> hold, ver |-> Max(any), data |-> D]
  BY DEF Replayed
<1>3. \A p \in Parts : on(p) \subseteq 0..Len(s)
  BY <1>1
<1>4. \A p \in hold : Max(on(p)) \in on(p) /\ \A y \in on(p) : Max(on(p)) >= y
  <2> SUFFICES ASSUME NEW p \in hold PROVE Max(on(p)) \in on(p) /\ \A y \in on(p) : Max(on(p)) >= y
    OBVIOUS
  <2>1. PICK S : S = on(p)
    OBVIOUS
  <2>2. S \subseteq 0..Len(s) /\ S # {}
    BY <1>3, <2>1
  <2>3. Max(S) \in S /\ \A y \in S : Max(S) >= y
    BY <1>1, <2>2, MaxOfSet
  <2> QED BY <2>1, <2>3
<1>5. any # {} => Max(any) \in 0..Len(s)
  <2> SUFFICES ASSUME any # {} PROVE Max(any) \in 0..Len(s)
    OBVIOUS
  <2>1. any \subseteq 0..Len(s)
    BY <1>3
  <2> HIDE DEF any
  <2>2. Max(any) \in any
    BY <1>1, <2>1, MaxOfSet
  <2> QED BY <2>1, <2>2
<1>6. any = {} <=> hold = {}
  OBVIOUS
<1>7. /\ \A p \in hold : p \in Parts /\ on(p) \subseteq DOMAIN s
      /\ \A p \in Parts : p \in hold <=> \E i \in 1..Len(s) : p \in PartsOf(s[i], c)
      /\ \A p \in Parts : \A i : i \in on(p) <=> i \in 1..Len(s) /\ p \in PartsOf(s[i], c)
  BY <1>1
<1> HIDE DEF on, any, hold
<1>8. /\ D \in Bytes /\ \A p \in Parts : D[p] = IF p \in hold THEN s[Max(on(p))] ELSE 0
  <2>1. \A p \in hold : s[Max(on(p))] \in 0..MaxWrites
    BY <1>1, <1>4, <1>7, SizesAssumption
  <2> QED BY <2>1, SizesAssumption DEF Bytes
<1> HIDE DEF D
<1>9. CASE any = {}
  <2>1. Replayed(s)[c] = NotHeld /\ \A p \in Parts : p \notin hold
    BY <1>2, <1>6, <1>9
  <2>2. \A p \in Parts : NotHeld.data[p] = 0
    BY DEF NotHeld, Zeros
  <2> QED BY <1>1, <1>7, <2>1, <2>2, Nothings
<1>10. CASE any # {}
  <2>1. /\ Replayed(s)[c].st = "dirty" /\ Replayed(s)[c].held = hold /\ Replayed(s)[c].ver = Max(any)
        /\ Replayed(s)[c].data = D /\ Replayed(s)[c] \in Chunk
    BY <1>1, <1>2, <1>5, <1>7, <1>8, <1>10 DEF Chunk
  <2>2. \A p \in hold : /\ Max(on(p)) \in 1..Len(s) /\ p \in PartsOf(s[Max(on(p))], c)
                        /\ \A j \in 1..Len(s) : p \in PartsOf(s[j], c) => j <= Max(on(p))
    BY <1>1, <1>4, <1>7
  <2> QED BY <1>1, <1>5, <1>6, <1>7, <1>8, <1>10, <2>1, <2>2
<1> QED BY <1>9, <1>10

-----------------------------------------------------------------------------
(* Types, step by step.                                                    *)

\* What was taken whole stays whole.
LEMMA TakenStays ==
    ASSUME Types, UNCHANGED flush, \A c \in Chunks : cache[c].held = Parts => cache'[c].held = Parts
    PROVE  TyTaken'
  BY TypesParts DEF TyTaken, TakenBy

LEMMA TakenMoves ==
    ASSUME Types, NEW f \in Flushers, Moves(f), \A c \in Chunks : cache[c].held = Parts => cache'[c].held = Parts,
           \A c \in Chunks : TakenBy(f, c)' => TakenBy(f, c) \/ cache'[c].held = Parts
    PROVE  TyTaken'
<1> SUFFICES ASSUME NEW g \in Flushers, NEW c \in Chunks, TakenBy(g, c)' PROVE cache'[c].held = Parts
  BY DEF TyTaken
<1>1. CASE g = f
  BY <1>1, TypesParts DEF TyTaken
<1>2. CASE g # f
  BY <1>2, TypesParts DEF TyTaken, TakenBy, Moves
<1> QED BY <1>1, <1>2

LEMMA LogWriteTypes ==
    ASSUME Types, NEW k \in Clients, NEW c \in Chunks, NEW P \in (SUBSET Parts) \ {{}}, LogWrite(k, c, P)
    PROVE  Types'
<1>1. PICK w : w = Len(writes) + 1
  OBVIOUS
<1>2. /\ Unlocked /\ ~failed /\ client[k].st = "idle" /\ w <= MaxWrites
      /\ writes' = Append(writes, {c} \X P) /\ file' = [file EXCEPT !.entries = Append(@, w)]
      /\ sequence' = sequence + 1 /\ versions' = versions + 1
      /\ client' = [client EXCEPT ![k] = [st |-> "logged", upto |-> sequence + 1, w |-> w]]
      /\ UNCHANGED <<acked, old, synced, failed, syncing, loading, reading, flush, lock, refused, stops, faults>>
      /\ UNCHANGED meta
  BY <1>1 DEF LogWrite
<1>3. /\ TyWrites' /\ Len(writes) \in Nat /\ Len(writes') = Len(writes) + 1
      /\ DOMAIN writes = 1..Len(writes) /\ DOMAIN writes' = 1..(Len(writes) + 1)
  BY <1>1, <1>2, TypesParts, Numbered
<1>4. w \in 1..MaxWrites /\ w \in DOMAIN writes' /\ DOMAIN writes \subseteq DOMAIN writes'
  BY <1>1, <1>2, <1>3
<1>5. TyJournal'
  <2>1. /\ file' \in Journal /\ file'.durable = file.durable /\ Len(file'.entries) = Len(file.entries) + 1
        /\ file.durable \in Nat /\ Len(file.entries) \in Nat
    <3>1. file \in Journal
      BY TypesParts DEF TyJournal
    <3>2. file' = [file EXCEPT !.entries = Append(@, w)]
      BY <1>2
    <3>3. file' \in Journal /\ file'.durable = file.durable /\ Len(file'.entries) = Len(file.entries) + 1
      BY <1>4, <3>1, <3>2, JournalAppend
    <3> QED BY <3>1, <3>3, JournalType
  <2>2. synced' \in 0..sequence' /\ file'.durable <= Len(file'.entries) /\ sequence' \in Nat
    BY <1>2, <2>1, TypesParts DEF TyJournal
  <2>3. syncing' \in [by : Clients \cup {"none"}, target : 0..sequence', len : 0..Len(file'.entries)]
    BY <1>2, <2>1, TypesParts DEF TyJournal
  <2> QED BY <1>2, <2>1, <2>2, <2>3, TypesParts DEF TyJournal
<1>6. TyClients'
  <2>1. sequence \in Nat /\ w \in 0..MaxWrites
    BY <1>4, TypesParts DEF TyJournal
  <2>2. client' \in [Clients -> [st : {"idle", "logged"}, upto : Nat, w : 0..MaxWrites]]
    BY <1>2, <2>1, TypesParts DEF TyClients
  <2>3. /\ client'[k].w = w /\ client'[k].upto = sequence + 1 /\ client'[k].st = "logged"
        /\ \A l \in Clients \ {k} : client'[l] = client[l]
    BY <1>2, TypesParts DEF TyClients
  <2>4. \A l \in Logged' : client'[l].w \in DOMAIN writes' /\ client'[l].upto <= sequence'
    BY <1>2, <1>4, <2>1, <2>3, TypesParts DEF TyClients, Logged
  <2>5. IF syncing'.by = "none" THEN syncing' = NoSync
        ELSE /\ syncing'.by \in Logged' /\ synced' < client'[syncing'.by].upto
             /\ client'[syncing'.by].upto <= syncing'.target
    BY <1>2, <2>3, TypesParts DEF TyClients, Logged
  <2> QED BY <2>2, <2>4, <2>5 DEF TyClients
<1>7. TyCache'
  <2>1. /\ Changes(c) /\ cache'[c].st = "dirty" /\ cache'[c].ver = versions + 1 /\ cache'[c].held = cache[c].held \cup P
    BY LogWriteIs
  <2>2. cache'[c].held # {}
    BY <2>1
  <2>3. versions' \in Nat /\ cache' \in [Chunks -> Chunk] /\ cache'[c].ver <= versions'
    BY <1>2, <2>1, TypesParts DEF TyCache, Changes
  <2>4. \A d \in Chunks \ {c} : /\ cache'[d].ver <= versions' /\ (cache'[d].st = "none" <=> cache'[d].held = {})
                                /\ cache'[d].st = "clean" => cache'[d].held = Parts
    <3> SUFFICES ASSUME NEW d \in Chunks \ {c}
                 PROVE  /\ cache'[d].ver <= versions' /\ (cache'[d].st = "none" <=> cache'[d].held = {})
                        /\ cache'[d].st = "clean" => cache'[d].held = Parts
      OBVIOUS
    <3>1. cache'[d] = cache[d] /\ d \in Chunks
      BY <2>1 DEF Changes
    <3>2. cache[d].ver <= versions + 1
      BY <3>1, TypesParts, ChunkType
    <3> QED BY <1>2, <3>1, <3>2, TypesParts, ChunkType
  <2> QED BY <2>1, <2>2, <2>3, <2>4 DEF TyCache
<1>8. TyReads'
  <2>1. \A r \in Readers : reading[r] \in [chunk : Chunks \cup {0}, data : Bytes, had : SUBSET DOMAIN writes']
    BY <1>4, TypesParts DEF TyReads
  <2> QED BY <1>2, <2>1, TypesParts DEF TyReads
<1>9. TyFlush' /\ TyLock' /\ TyMeta' /\ TyFaults'
  BY <1>2, TyFrames DEF meta
<1>10. TyTaken'
  <2>1. Changes(c) /\ cache'[c].held = cache[c].held \cup P
    BY LogWriteIs
  <2> QED BY <1>2, <2>1, TakenStays DEF Changes
<1> QED BY <1>3, <1>5, <1>6, <1>7, <1>8, <1>9, <1>10 DEF Types

LEMMA AppendFailsTypes ==
    ASSUME Types, NEW k \in Clients, NEW c \in Chunks, NEW P \in (SUBSET Parts) \ {{}}, NEW whole \in BOOLEAN,
           AppendFails(k, c, P, whole)
    PROVE  Types'
<1>1. PICK w : w = Len(writes) + 1
  OBVIOUS
<1>2. /\ Unlocked /\ ~failed /\ client[k].st = "idle" /\ w <= MaxWrites /\ Fault("write") /\ failed'
      /\ writes' = Append(writes, {c} \X P)
      /\ file' = IF whole THEN [file EXCEPT !.entries = Append(@, w)] ELSE file
      /\ UNCHANGED <<acked, old, sequence, synced, syncing, loading, reading, client, flush, lock, refused, stops>>
      /\ UNCHANGED memory /\ UNCHANGED meta
  BY <1>1 DEF AppendFails
<1>3. /\ TyWrites' /\ Len(writes) \in Nat /\ Len(writes') = Len(writes) + 1
      /\ DOMAIN writes = 1..Len(writes) /\ DOMAIN writes' = 1..(Len(writes) + 1)
  BY <1>1, <1>2, TypesParts, Numbered
<1>4. w \in 1..MaxWrites /\ DOMAIN writes \subseteq DOMAIN writes'
  BY <1>1, <1>2, <1>3
<1>5. TyJournal'
  <2>1. /\ file' \in Journal /\ file'.durable = file.durable /\ Len(file'.entries) >= Len(file.entries)
        /\ file.durable \in Nat /\ Len(file.entries) \in Nat /\ Len(file'.entries) \in Nat
    <3>1. file \in Journal /\ file.durable \in Nat /\ Len(file.entries) \in Nat
      BY TypesParts, JournalType DEF TyJournal
    <3>2. CASE whole
      <4>1. file' = [file EXCEPT !.entries = Append(@, w)]
        BY <1>2, <3>2
      <4> QED BY <1>4, <3>1, <4>1, JournalAppend
    <3>3. CASE ~whole
      BY <1>2, <3>1, <3>3
    <3> QED BY <3>2, <3>3
  <2>2. file'.durable <= Len(file'.entries)
    BY <2>1, TypesParts DEF TyJournal
  <2>3. syncing' \in [by : Clients \cup {"none"}, target : 0..sequence', len : 0..Len(file'.entries)]
    BY <1>2, <2>1, TypesParts DEF TyJournal
  <2> QED BY <1>2, <2>1, <2>2, <2>3, TypesParts DEF TyJournal
<1>6. TyClients'
  BY <1>2, <1>4, TypesParts DEF TyClients, Logged
<1>8. TyReads'
  <2>1. \A r \in Readers : reading[r] \in [chunk : Chunks \cup {0}, data : Bytes, had : SUBSET DOMAIN writes']
    BY <1>4, TypesParts DEF TyReads
  <2> QED BY <1>2, <2>1, TypesParts DEF TyReads
<1>9. TyFlush' /\ TyLock' /\ TyMeta' /\ TyTaken' /\ TyCache'
  BY <1>2, TyFrames DEF meta, memory
<1>10. TyFaults'
  BY <1>2, FaultCounts, TypesParts DEF TyFaults
<1> QED BY <1>3, <1>5, <1>6, <1>8, <1>9, <1>10 DEF Types

\* A client done.
LEMMA QuietIs ==
    ASSUME Types, NEW k \in Clients, client' = [client EXCEPT ![k] = Quiet]
    PROVE  /\ client' \in [Clients -> [st : {"idle", "logged"}, upto : Nat, w : 0..MaxWrites]]
           /\ client'[k] = Quiet /\ \A l \in Clients \ {k} : client'[l] = client[l]
           /\ Logged' = Logged \ {k}
<1>1. /\ client' \in [Clients -> [st : {"idle", "logged"}, upto : Nat, w : 0..MaxWrites]]
      /\ client'[k] = Quiet /\ \A l \in Clients \ {k} : client'[l] = client[l]
  BY Nothings, TypesParts DEF TyClients
<1> QED BY <1>1, Nothings DEF Logged

LEMMA ReturnTypes ==
    ASSUME Types, NEW k \in Clients, NEW ok \in BOOLEAN, Return(k, ok), client[k].st = "logged",
           (UNCHANGED syncing /\ syncing.by # k) \/ syncing' = NoSync, UNCHANGED synced, failed' \in BOOLEAN, TyFaults'
    PROVE  Types'
<1>1. /\ client' = [client EXCEPT ![k] = Quiet] /\ acked' = IF ok THEN acked \cup {client[k].w} ELSE acked
      /\ UNCHANGED <<writes, file, old, sequence, loading, reading, flush, lock, refused, stops>>
      /\ UNCHANGED memory /\ UNCHANGED meta
  BY DEF Return
<1>2. k \in Logged /\ client[k].w \in DOMAIN writes
  BY TypesParts DEF Logged, TyClients
<1>3. TyWrites'
  BY <1>1, <1>2, TypesParts DEF TyWrites
<1>4. TyJournal'
  <2>1. NoSync \in [by : Clients \cup {"none"}, target : 0..sequence, len : 0..Len(file.entries)]
    BY TypesParts, JournalType DEF NoSync, TyJournal
  <2> QED BY <1>1, <2>1, TypesParts DEF TyJournal
<1>5. TyClients'
  <2>1. /\ client' \in [Clients -> [st : {"idle", "logged"}, upto : Nat, w : 0..MaxWrites]]
        /\ \A l \in Clients \ {k} : client'[l] = client[l]
        /\ Logged' = Logged \ {k}
    BY <1>1, QuietIs
  <2>2. \A l \in Logged' : client'[l] = client[l] /\ l \in Logged
    BY <2>1 DEF Logged
  <2>3. \A l \in Logged' : client'[l].w \in DOMAIN writes' /\ client'[l].upto <= sequence'
    BY <1>1, <2>2, TypesParts DEF TyClients
  <2>4. IF syncing'.by = "none" THEN syncing' = NoSync
        ELSE /\ syncing'.by \in Logged' /\ synced' < client'[syncing'.by].upto
             /\ client'[syncing'.by].upto <= syncing'.target
    BY <1>1, <2>1, <2>2, TypesParts DEF TyClients, NoSync
  <2> QED BY <2>1, <2>3, <2>4 DEF TyClients
<1>6. TyFlush' /\ TyLock' /\ TyMeta' /\ TyTaken' /\ TyCache' /\ TyReads'
  BY <1>1, TyFrames DEF meta, memory
<1> QED BY <1>3, <1>4, <1>5, <1>6 DEF Types

LEMMA SyncBeginTypes ==
    ASSUME Types, NEW k \in Clients, SyncBegin(k)
    PROVE  Types'
<1>1. /\ client[k].st = "logged" /\ ~SyncCovered(k)
      /\ syncing' = [by |-> k, target |-> sequence, len |-> Len(file.entries)]
      /\ UNCHANGED <<writes, acked, file, old, sequence, synced, failed, loading, reading, client, flush, lock, refused, stops, faults>>
      /\ UNCHANGED memory /\ UNCHANGED meta
  BY DEF SyncBegin
<1>2. TyJournal'
  <2>1. sequence \in Nat /\ Len(file.entries) \in Nat
    BY TypesParts, JournalType DEF TyJournal
  <2>2. syncing' \in [by : Clients \cup {"none"}, target : 0..sequence', len : 0..Len(file'.entries)]
    BY <1>1, <2>1
  <2> QED BY <1>1, <2>2, TypesParts DEF TyJournal
<1>3. TyClients'
  <2>1. k \in Logged /\ synced < client[k].upto /\ client[k].upto <= sequence
    BY <1>1, TypesParts DEF Logged, TyClients, TyJournal, SyncCovered
  <2> QED BY <1>1, <2>1, TypesParts, FlushersAssumption DEF TyClients, Logged
<1>4. TyWrites' /\ TyFlush' /\ TyLock' /\ TyMeta' /\ TyTaken' /\ TyCache' /\ TyReads' /\ TyFaults'
  BY <1>1, TyFrames DEF meta, memory
<1> QED BY <1>2, <1>3, <1>4 DEF Types

LEMMA SyncEndTypes ==
    ASSUME Types, NEW k \in Clients, SyncEnd(k)
    PROVE  /\ Types' /\ file'.entries = file.entries /\ file'.durable = syncing.len /\ file' \in Journal
           /\ file'.there = file.there /\ file'.base = file.base
<1>1. /\ syncing.by = k /\ syncing' = NoSync /\ synced' = Max({synced, syncing.target})
      /\ file' = [file EXCEPT !.durable = syncing.len] /\ client' = [client EXCEPT ![k] = Quiet]
      /\ acked' = acked \cup {client[k].w}
      /\ UNCHANGED <<writes, old, sequence, failed, loading, reading, flush, lock, refused, stops, faults>>
      /\ UNCHANGED memory /\ UNCHANGED meta
  BY DEF SyncEnd
<1>2. k \in Logged /\ client[k].w \in DOMAIN writes
  BY <1>1, TypesParts, FlushersAssumption DEF TyClients
<1>3. TyWrites'
  BY <1>1, <1>2, TypesParts DEF TyWrites
<1>4. /\ file'.entries = file.entries /\ file'.durable = syncing.len /\ file' \in Journal
      /\ file'.there = file.there /\ file'.base = file.base /\ Len(file.entries) \in Nat /\ syncing.len \in 0..Len(file.entries)
  <2>1. PICK h : h = syncing.len
    OBVIOUS
  <2>2. file \in Journal /\ h \in 0..Len(file.entries) /\ Len(file.entries) \in Nat
    BY <2>1, TypesParts, JournalType DEF TyJournal
  <2>3. file' = [file EXCEPT !.durable = h] /\ h \in Nat
    BY <1>1, <2>1, <2>2
  <2> QED BY <2>1, <2>2, <2>3 DEF Journal
<1>5. TyJournal'
  <2>1. synced \in 0..sequence /\ syncing.target \in 0..sequence /\ sequence \in Nat
    BY TypesParts DEF TyJournal
  <2>2. synced' \in 0..sequence
    BY <1>1, <2>1, MaxOfTwo
  <2>3. NoSync \in [by : Clients \cup {"none"}, target : 0..sequence, len : 0..Len(file'.entries)]
    BY <1>4, <2>1 DEF NoSync
  <2>4. file'.durable <= Len(file'.entries)
    BY <1>4
  <2> QED BY <1>1, <1>4, <2>1, <2>2, <2>3, <2>4, TypesParts DEF TyJournal
<1>6. TyClients'
  <2>1. /\ client' \in [Clients -> [st : {"idle", "logged"}, upto : Nat, w : 0..MaxWrites]]
        /\ \A l \in Clients \ {k} : client'[l] = client[l]
        /\ Logged' = Logged \ {k}
    BY <1>1, QuietIs
  <2>2. \A l \in Logged' : client'[l] = client[l] /\ l \in Logged
    BY <2>1 DEF Logged
  <2>3. \A l \in Logged' : client'[l].w \in DOMAIN writes' /\ client'[l].upto <= sequence'
    BY <1>1, <2>2, TypesParts DEF TyClients
  <2>4. IF syncing'.by = "none" THEN syncing' = NoSync
        ELSE /\ syncing'.by \in Logged' /\ synced' < client'[syncing'.by].upto
             /\ client'[syncing'.by].upto <= syncing'.target
    BY <1>1, <2>1, <2>2, TypesParts DEF TyClients, NoSync
  <2> QED BY <2>1, <2>3, <2>4 DEF TyClients
<1>7. TyFlush' /\ TyLock' /\ TyMeta' /\ TyTaken' /\ TyCache' /\ TyReads' /\ TyFaults'
  BY <1>1, TyFrames DEF meta, memory
<1> QED BY <1>3, <1>4, <1>5, <1>6, <1>7 DEF Types

\* Every step of a client keeps the types.
LEMMA WritingTypes ==
    ASSUME Types, NEW k \in Clients, Writing(k)
    PROVE  Types'
<1>1. ASSUME NEW c \in Chunks, NEW P \in (SUBSET Parts) \ {{}}, LogWrite(k, c, P) PROVE Types'
  BY <1>1, LogWriteTypes
<1>2. ASSUME NEW c \in Chunks, NEW P \in (SUBSET Parts) \ {{}}, NEW whole \in BOOLEAN, AppendFails(k, c, P, whole) PROVE Types'
  BY <1>2, AppendFailsTypes
<1>3. CASE AlreadySynced(k)
  <2>1. SyncCovered(k) /\ Return(k, TRUE) /\ UNCHANGED <<synced, failed, syncing, faults>> /\ stops' = stops
    BY <1>3 DEF AlreadySynced, Return
  <2>2. client[k].st = "logged" /\ syncing.by # k
    BY <2>1, TypesParts, FlushersAssumption DEF SyncCovered, TyClients, TyJournal
  <2>3. failed' \in BOOLEAN /\ TyFaults'
    BY <2>1, TypesParts, TyFrames DEF TyJournal
  <2> QED BY <2>1, <2>2, <2>3, ReturnTypes
<1>4. CASE SyncRefused(k)
  <2>1. /\ client[k].st = "logged" /\ syncing = NoSync /\ Return(k, FALSE)
        /\ UNCHANGED <<synced, failed, syncing, faults>> /\ stops' = stops
    BY <1>4 DEF SyncRefused, Return
  <2>2. failed' \in BOOLEAN /\ TyFaults'
    BY <2>1, TypesParts, TyFrames DEF TyJournal
  <2> QED BY <2>1, <2>2, ReturnTypes
<1>5. CASE SyncBegin(k)
  BY <1>5, SyncBeginTypes
<1>6. CASE SyncEnd(k)
  BY <1>6, SyncEndTypes
<1>7. CASE SyncFails(k)
  <2>1. syncing.by = k /\ Fault("sync") /\ syncing' = NoSync /\ failed' /\ Return(k, FALSE) /\ UNCHANGED synced /\ stops' = stops
    BY <1>7 DEF SyncFails, Return
  <2>2. client[k].st = "logged" /\ TyFaults'
    BY <2>1, TypesParts, FaultCounts, FlushersAssumption DEF TyClients, Logged, TyFaults
  <2>3. failed' \in BOOLEAN
    BY <1>7 DEF SyncFails
  <2> QED BY <2>1, <2>2, <2>3, ReturnTypes
<1> QED BY <1>1, <1>2, <1>3, <1>4, <1>5, <1>6, <1>7 DEF Writing

\* A flush goes on, and what it expects in meta is a stripe given out.
LEMMA MovesTypes ==
    ASSUME Types, NEW f \in Flushers, Moves(f), flush'[f].expected \in 0..stripes, UNCHANGED <<stripes, rec, late>>
    PROVE  TyFlush' /\ TyMeta'
<1>1. TyFlush'
  BY DEF Moves, TyFlush
<1>2. \A g \in Flushers : flush'[g].expected <= stripes
  BY TypesParts DEF Moves, TyMeta
<1> QED BY <1>1, <1>2, TypesParts DEF TyMeta

LEMMA LockKept ==
    ASSUME Types, NEW f \in Flushers, Moves(f), UNCHANGED lock,
           f \in Background => /\ flush[f].st = "storing" <=> flush'[f].st = "storing"
                               /\ flush'[f].st \notin {"resolving", "flushed"},
           f \notin Background => (flush[f].st = "idle" <=> flush'[f].st = "idle")
    PROVE  TyLock'
<1> SUFFICES ASSUME NEW g \in Flushers
             PROVE  /\ lock' = g <=> IF g \in Background THEN flush'[g].st = "storing" ELSE flush'[g].st # "idle"
                    /\ g \in Background => flush'[g].st \notin {"resolving", "flushed"}
  BY DEF TyLock
<1>1. CASE g = f
  BY <1>1, TypesParts DEF TyLock
<1>2. CASE g # f
  BY <1>2, TypesParts DEF TyLock, Moves
<1> QED BY <1>1, <1>2

LEMMA LockTaken ==
    ASSUME Types, NEW f \in Flushers, Moves(f), lock = "none", lock' = f,
           IF f \in Background THEN flush'[f].st = "storing" ELSE flush'[f].st # "idle"
    PROVE  TyLock'
<1> SUFFICES ASSUME NEW g \in Flushers
             PROVE  /\ lock' = g <=> IF g \in Background THEN flush'[g].st = "storing" ELSE flush'[g].st # "idle"
                    /\ g \in Background => flush'[g].st \notin {"resolving", "flushed"}
  BY DEF TyLock
<1>1. CASE g = f
  BY <1>1
<1>2. CASE g # f
  <2>1. lock # g
    BY FlushersAssumption DEF Flushers
  <2> QED BY <1>2, <2>1, TypesParts DEF TyLock, Moves
<1> QED BY <1>1, <1>2

LEMMA LockFreed ==
    ASSUME Types, NEW f \in Flushers, Moves(f), lock = f, lock' = "none",
           IF f \in Background THEN flush'[f].st \notin {"storing", "resolving", "flushed"} ELSE flush'[f].st = "idle"
    PROVE  TyLock'
<1> SUFFICES ASSUME NEW g \in Flushers
             PROVE  /\ lock' = g <=> IF g \in Background THEN flush'[g].st = "storing" ELSE flush'[g].st # "idle"
                    /\ g \in Background => flush'[g].st \notin {"resolving", "flushed"}
  BY DEF TyLock
<1>0. lock' # g
  BY FlushersAssumption DEF Flushers
<1>1. CASE g = f
  BY <1>0, <1>1
<1>2. CASE g # f
  BY <1>0, <1>2, TypesParts DEF TyLock, Moves
<1> QED BY <1>1, <1>2

\* A flush that leaves the cache, the journal and meta alone.
LEMMA QuietMoveTypes ==
    ASSUME Types, NEW f \in Flushers, Moves(f), flush'[f].expected \in 0..stripes, TyLock', TyFaults',
           UNCHANGED <<writes, acked, journal, memory, loading, reading, client, meta, refused>>,
           \A c \in Chunks : TakenBy(f, c)' => TakenBy(f, c) \/ cache[c].held = Parts
    PROVE  Types'
<1>1. UNCHANGED <<stripes, rec, late>> /\ UNCHANGED <<cache, versions>>
      /\ UNCHANGED <<file, old, sequence, synced, failed, refused, syncing>>
      /\ UNCHANGED <<writes, acked, loading, reading, client>>
  BY DEF meta, memory, journal
<1>2. TyFlush' /\ TyMeta'
  BY <1>1, MovesTypes
<1>3. TyWrites' /\ TyJournal' /\ TyClients' /\ TyCache' /\ TyReads'
  BY <1>1, TyFrames
<1>4. TyTaken'
  BY <1>1, TakenMoves
<1> QED BY <1>2, <1>3, <1>4 DEF Types

LEMMA FlushedTypes ==
    ASSUME Types, NEW done, mark_flushed(done), versions' = versions, \A d \in done : cache[d[1]].held = Parts
    PROVE  TyCache' /\ \A c \in Chunks : cache'[c].held = cache[c].held
<1>1. TyCache
  BY TypesParts
<1>2. cache' \in [Chunks -> Chunk]
  BY <1>1, MarkFlushedIs
<1>3. ASSUME NEW c \in Chunks
      PROVE  /\ cache'[c].ver <= versions' /\ (cache'[c].st = "none" <=> cache'[c].held = {})
             /\ cache'[c].st = "clean" => cache'[c].held = Parts
  <2>1. /\ cache'[c].held = cache[c].held
        /\ \/ cache'[c] = cache[c]
           \/ /\ cache[c].st = "dirty" /\ <<c, cache[c].ver>> \in done
              /\ cache'[c].st = "clean" /\ cache'[c].ver = 0
    BY <1>1, MarkFlushedIs
  <2>2. CASE cache'[c] = cache[c]
    BY <1>1, <2>2, ChunkType
  <2>3. CASE cache'[c].st = "clean" /\ cache'[c].ver = 0 /\ cache[c].st = "dirty" /\ <<c, cache[c].ver>> \in done
    <3>1. cache[c].held = Parts /\ Parts # {}
      BY <2>3, SizesAssumption
    <3> QED BY <1>1, <2>1, <2>3, <3>1, ChunkType
  <2> QED BY <2>1, <2>2, <2>3
<1> QED BY <1>1, <1>2, <1>3, MarkFlushedIs DEF TyCache

LEMMA CommitType ==
    ASSUME Types, NEW f \in Flushers, flush[f].cur # NoChunk
    PROVE  /\ Commit(f) \in Message /\ Commit(f).id = stripes + 1 /\ Commit(f).expected = flush[f].expected
           /\ Commit(f).chunk = flush[f].cur.chunk /\ Commit(f).data = flush[f].cur.data
           /\ flush[f].cur \in Copy /\ flush[f].expected \in 0..stripes /\ stripes \in Nat
<1>1. flush[f].cur \in Copy /\ flush[f].expected \in 0..stripes /\ stripes \in Nat
  BY TypesParts, FlushType DEF TyMeta
<1> QED BY <1>1 DEF Commit, Message, Copy

\* Meta, before and after a message.
LEMMA SwappedIs ==
    ASSUME TyMeta, NEW m \in Message
    PROVE  /\ Swapped(m)[m.chunk].id = m.id /\ Swapped(m)[m.chunk].data = m.data
           /\ \A c \in Chunks \ {m.chunk} : Swapped(m)[c] = rec[c]
           /\ \A n \in Nat : (m.id <= n /\ stripes <= n) => Swapped(m) \in [Chunks -> [id : 0..n, data : Bytes]]
<1>1. PICK c, i, D : c = m.chunk /\ i = m.id /\ D = m.data
  OBVIOUS
<1>2. c \in Chunks /\ i \in Nat /\ D \in Bytes
  BY <1>1 DEF Message
<1>3. rec \in [Chunks -> [id : 0..stripes, data : Bytes]] /\ stripes \in Nat
  BY DEF TyMeta
<1>4. Swapped(m) = [rec EXCEPT ![c] = [id |-> i, data |-> D]]
  BY <1>1 DEF Swapped
<1>5. \A n \in Nat : (i <= n /\ stripes <= n) => Swapped(m) \in [Chunks -> [id : 0..n, data : Bytes]]
  BY <1>2, <1>3, <1>4
<1> QED BY <1>1, <1>2, <1>3, <1>4, <1>5

LEMMA CommitTypes ==
    ASSUME Types, NEW f \in Flushers, CommitAnswered(f) \/ CommitLost(f)
    PROVE  Types'
<1>1. /\ flush[f].cur # NoChunk /\ stripes' = stripes + 1
      /\ UNCHANGED <<writes, acked, loading, reading, client, lock, snap, refused, stops>>
      /\ UNCHANGED journal /\ UNCHANGED memory
      /\ \/ /\ Answered(f, Swaps(Commit(f))) /\ rec' = (IF Swaps(Commit(f)) THEN Swapped(Commit(f)) ELSE rec)
            /\ late' = late /\ faults' = faults
         \/ Answered(f, FALSE) /\ rec' = rec /\ late' = late \cup {Commit(f)} /\ Fault("lost")
  BY DEF CommitAnswered, CommitLost
<1>2. \E ok \in BOOLEAN : Answered(f, ok)
  BY <1>1 DEF Swaps
<1>3. Moves(f) /\ flush'[f].st = flush[f].st /\ flush'[f].expected = 0
  BY <1>1, <1>2, AnsweredIs
<1>4. TyLock'
  BY <1>1, <1>3, LockKept, TypesParts DEF TyLock
<1>5. TyFlush'
  BY <1>3 DEF Moves, TyFlush
<1>6. TyMeta'
  <2>1. PICK m : m = Commit(f)
    OBVIOUS
  <2>2. m \in Message /\ m.id = stripes + 1 /\ m.expected \in 0..stripes /\ stripes \in Nat
    BY <1>1, <2>1, CommitType
  <2>3. rec' \in [Chunks -> [id : 0..(stripes + 1), data : Bytes]]
    <3>1. rec \in [Chunks -> [id : 0..(stripes + 1), data : Bytes]]
      BY <2>2, TypesParts DEF TyMeta
    <3>2. Swapped(m) \in [Chunks -> [id : 0..(stripes + 1), data : Bytes]]
      BY <2>2, TypesParts, SwappedIs
    <3> QED BY <1>1, <2>1, <3>1, <3>2
  <2>4. late' \subseteq Message /\ \A n \in late' : n.id \in 1..(stripes + 1) /\ n.expected \in 0..(stripes + 1)
    <3>1. late' \subseteq late \cup {m}
      BY <1>1, <2>1
    <3> QED BY <2>2, <3>1, TypesParts DEF TyMeta
  <2>5. \A g \in Flushers : flush'[g].expected <= stripes + 1
    <3> SUFFICES ASSUME NEW g \in Flushers PROVE flush'[g].expected <= stripes + 1
      OBVIOUS
    <3>1. flush[g].expected \in Nat /\ flush[g].expected <= stripes
      BY TypesParts, FlushType DEF TyMeta
    <3> QED BY <1>3, <2>2, <3>1 DEF Moves
  <2> QED BY <1>1, <2>2, <2>3, <2>4, <2>5 DEF TyMeta
<1>7. TyFaults'
  <2>1. CASE faults' = faults
    BY <1>1, <2>1, TyFrames
  <2>2. CASE Fault("lost")
    BY <1>1, <2>2, FaultCounts, TypesParts DEF TyFaults
  <2> QED BY <1>1, <2>1, <2>2
<1>9. TyTaken'
  <2>1. \A c \in Chunks : TakenBy(f, c)' => TakenBy(f, c)
    <3>1. PICK ok \in BOOLEAN : Answered(f, ok)
      BY <1>2
    <3>2. /\ flush'[f].todo = flush[f].todo \ {flush[f].cur} /\ flush'[f].cur = NoChunk
          /\ flush'[f].done = (IF ok THEN flush[f].done \cup {<<flush[f].cur.chunk, flush[f].cur.ver>>} ELSE flush[f].done)
      BY <1>1, <3>1, AnsweredIs
    <3> QED BY <1>1, <3>2 DEF TakenBy
  <2> QED BY <1>1, <1>3, <2>1, TakenMoves DEF memory
<1>8. TyWrites' /\ TyJournal' /\ TyClients' /\ TyCache' /\ TyReads'
  BY <1>1, TyFrames DEF memory, journal
<1> QED BY <1>4, <1>5, <1>6, <1>7, <1>8, <1>9 DEF Types

LEMMA FlushingTypes ==
    ASSUME Types, NEW f \in Flushers, Flushing(f)
    PROVE  Types'
<1>0. /\ stripes \in Nat /\ flush[f].expected \in 0..stripes /\ 0 \in 0..stripes
      /\ (UNCHANGED <<stops, faults>> => TyFaults')
  BY TypesParts, TyFrames, FlushType DEF TyMeta
<1>1. ASSUME NEW due \in SUBSET Chunks, CaptureDue(f, due) PROVE Types'
  <2>1. UNCHANGED <<writes, acked, journal, memory, loading, reading, client, meta, refused>> /\ UNCHANGED lock
        /\ UNCHANGED <<stops, faults>>
    BY <1>1 DEF CaptureDue
  <2>2. /\ Moves(f) /\ f \in Background /\ flush[f].st = "idle" /\ flush'[f].st = (IF due = {} THEN "reset" ELSE "waiting")
        /\ flush'[f].expected = 0
    BY <1>1, CaptureDueIs
  <2>3. TyLock'
    BY <2>1, <2>2, LockKept
  <2>4. \A c \in Chunks : TakenBy(f, c)' => cache[c].held = Parts
    <3>1. flush'[f].todo = {Captured(c) : c \in due} /\ flush'[f].done = {} /\ flush'[f].cur = NoChunk /\ due \subseteq Flushable
      BY <1>1, CaptureDueIs
    <3> QED BY <3>1 DEF TakenBy, Captured, Flushable, Whole
  <2> QED BY <1>0, <2>1, <2>2, <2>3, <2>4, QuietMoveTypes
<1>2. CASE TakeLock(f)
  <2>1. UNCHANGED <<writes, acked, journal, memory, loading, reading, client, meta, refused>> /\ UNCHANGED <<stops, faults>>
    BY <1>2 DEF TakeLock
  <2>2. TyLock'
    BY <1>2, TakeLockIs, LockTaken
  <2>3. Moves(f) /\ flush'[f].expected = flush[f].expected /\ \A c \in Chunks : TakenBy(f, c)' => TakenBy(f, c)
    BY <1>2, TakeLockIs DEF TakenBy
  <2> QED BY <1>0, <2>1, <2>2, <2>3, QuietMoveTypes
<1>3. CASE FlushAll(f)
  <2>1. UNCHANGED <<writes, acked, journal, memory, loading, reading, client, meta, refused>> /\ UNCHANGED <<stops, faults>>
    BY <1>3 DEF FlushAll
  <2>2. TyLock'
    BY <1>3, FlushAllIs, LockTaken, FlushersAssumption
  <2>3. Moves(f) /\ flush'[f].expected = 0 /\ \A c \in Chunks : ~TakenBy(f, c)'
    BY <1>3, FlushAllIs DEF TakenBy
  <2> QED BY <1>0, <2>1, <2>2, <2>3, QuietMoveTypes
<1>4. CASE CaptureAll(f)
  <2>1. UNCHANGED <<writes, acked, journal, memory, loading, reading, client, meta, refused>> /\ UNCHANGED lock
        /\ UNCHANGED <<stops, faults>>
    BY <1>4 DEF CaptureAll
  <2>2. Moves(f) /\ flush[f].st = "resolving" /\ flush'[f].st = "storing" /\ flush'[f].expected = flush[f].expected
    BY <1>4, CaptureAllIs
  <2>3. f \notin Background
    BY <2>2, TypesParts DEF TyLock
  <2>4. TyLock'
    BY <2>1, <2>2, <2>3, LockKept
  <2>5. \A c \in Chunks : TakenBy(f, c)' => TakenBy(f, c) \/ cache[c].held = Parts
    <3>1. flush'[f].todo = {Captured(c) : c \in Flushable} /\ flush'[f].done = flush[f].done /\ flush'[f].cur = flush[f].cur
      BY <1>4, CaptureAllIs
    <3> QED BY <3>1 DEF TakenBy, Captured, Flushable, Whole
  <2> QED BY <1>0, <2>1, <2>2, <2>4, <2>5, QuietMoveTypes
<1>5. CASE StoreBegin(f)
  <2>1. UNCHANGED <<writes, acked, journal, memory, loading, reading, client, meta, refused>> /\ UNCHANGED lock
        /\ UNCHANGED <<stops, faults>>
    BY <1>5 DEF StoreBegin
  <2>2. Moves(f) /\ flush[f].st = "storing" /\ flush'[f].st = "storing" /\ flush'[f].expected \in 0..stripes
    BY <1>5, StoreBeginIs
  <2>3. TyLock'
    BY <2>1, <2>2, LockKept
  <2>4. \A c \in Chunks : TakenBy(f, c)' => TakenBy(f, c)
    BY <1>5, StoreBeginIs DEF TakenBy
  <2> QED BY <1>0, <2>1, <2>2, <2>3, <2>4, QuietMoveTypes
<1>6. CASE StoreFails(f)
  <2>1. UNCHANGED <<writes, acked, journal, memory, loading, reading, client, meta, refused>> /\ UNCHANGED lock
        /\ UNCHANGED stops /\ Fault("store")
    BY <1>6 DEF StoreFails
  <2>2. Moves(f) /\ flush[f].st = "storing" /\ flush'[f].st = "storing" /\ flush'[f].expected = flush[f].expected
    BY <1>6, StoreFailsIs
  <2>3. TyLock'
    BY <2>1, <2>2, LockKept
  <2>4. TyFaults'
    BY <2>1, FaultCounts, TypesParts DEF TyFaults
  <2>5. \A c \in Chunks : TakenBy(f, c)' => TakenBy(f, c)
    BY <1>6, StoreFailsIs DEF TakenBy
  <2> QED BY <1>0, <2>1, <2>2, <2>3, <2>4, <2>5, QuietMoveTypes
<1>7. CASE Rotate(f)
  <2>1. /\ UNCHANGED <<writes, acked, loading, reading, client, lock, refused, stops, faults>>
        /\ UNCHANGED <<sequence, synced, failed, syncing>> /\ UNCHANGED memory /\ UNCHANGED meta
        /\ syncing = NoSync /\ file' = NewFile(sequence) /\ old' = file
    BY <1>7 DEF Rotate
  <2>2. Moves(f) /\ flush[f].st = "reset" /\ flush'[f].st = "renamed" /\ flush'[f].expected = flush[f].expected
    BY <1>7, RotateIs
  <2>3. TyLock'
    BY <2>1, <2>2, LockKept
  <2>4. TyFlush' /\ TyMeta'
    BY <1>0, <2>1, <2>2, MovesTypes DEF meta
  <2>5. TyWrites' /\ TyCache' /\ TyReads' /\ TyFaults' /\ TyClients'
    BY <2>1, TyFrames DEF memory
  <2>6. TyJournal'
    <3>1. sequence \in Nat /\ file \in Journal /\ file.durable <= Len(file.entries) /\ synced \in 0..sequence
          /\ failed \in BOOLEAN /\ refused \in BOOLEAN
      BY TypesParts DEF TyJournal
    <3>2. file' \in Journal /\ file'.durable = 0 /\ Len(file'.entries) = 0
      BY <2>1, <3>1, NewFileType
    <3>3. syncing' \in [by : Clients \cup {"none"}, target : 0..sequence', len : 0..Len(file'.entries)]
      BY <2>1, <3>1, <3>2 DEF NoSync
    <3>4. file'.durable <= Len(file'.entries)
      BY <3>2
    <3> QED BY <2>1, <3>1, <3>2, <3>3, <3>4 DEF TyJournal
  <2>7. TyTaken'
    <3>1. \A c \in Chunks : TakenBy(f, c)' => TakenBy(f, c)
      BY <1>7, RotateIs DEF TakenBy
    <3> QED BY <2>1, <2>2, <3>1, TakenMoves DEF memory
  <2> QED BY <2>3, <2>4, <2>5, <2>6, <2>7 DEF Types
<1>8. ASSUME NEW ok \in BOOLEAN, RotateEnds(f, ok) PROVE Types'
  <2>1. /\ UNCHANGED <<writes, acked, loading, reading, client, lock, refused, stops>>
        /\ UNCHANGED <<file, sequence, synced, syncing>> /\ UNCHANGED memory /\ UNCHANGED meta
        /\ flush[f].st = "renamed"
        /\ \/ old' = NoFile /\ UNCHANGED <<failed, faults>>
           \/ failed' = TRUE /\ UNCHANGED old /\ Fault("sync")
    BY <1>8 DEF RotateEnds
  <2>2. Rests(f)
    BY <1>8, RestsIs DEF RotateEnds
  <2>3. /\ Moves(f) /\ flush'[f].expected \in 0..stripes
        /\ (f \in Background => flush'[f].st = "idle") /\ (f \notin Background => flush'[f].st = "flushed")
    BY <1>0, <2>2, Nothings DEF Rests
  <2>4. TyLock'
    BY <2>1, <2>3, LockKept
  <2>5. TyFlush' /\ TyMeta'
    BY <2>1, <2>3, MovesTypes DEF meta
  <2>6. TyWrites' /\ TyCache' /\ TyReads' /\ TyClients'
    BY <2>1, TyFrames DEF memory
  <2>7. TyFaults'
    BY <2>1, FaultCounts, TypesParts DEF TyFaults
  <2>8. TyJournal'
    <3>1. old' \in Journal /\ old'.durable <= Len(old'.entries) /\ failed' \in BOOLEAN
      <4>1. Len(NoFile.entries) = 0 /\ NoFile.durable = 0 /\ NoFile \in Journal
        BY Nothings
      <4>2. CASE old' = NoFile /\ UNCHANGED <<failed, faults>>
        BY <4>1, <4>2, TypesParts DEF TyJournal
      <4>3. CASE failed' = TRUE /\ UNCHANGED old
        BY <4>3, TypesParts DEF TyJournal
      <4> QED BY <2>1, <4>2, <4>3
    <3> QED BY <2>1, <3>1, TypesParts DEF TyJournal
  <2>9. TyTaken'
    <3>1. \A c \in Chunks : TakenBy(f, c)' => TakenBy(f, c)
      BY <2>2, Nothings DEF TakenBy, Rests
    <3> QED BY <2>1, <2>3, <3>1, TakenMoves DEF memory
  <2> QED BY <2>4, <2>5, <2>6, <2>7, <2>8, <2>9 DEF Types
<1>9. CASE KeepsJournal(f)
  <2>1. UNCHANGED <<writes, acked, journal, memory, loading, reading, client, meta, refused>> /\ UNCHANGED lock
        /\ UNCHANGED <<stops, faults>> /\ flush[f].st = "reset"
    BY <1>9 DEF KeepsJournal
  <2>2. Rests(f)
    BY <1>9, RestsIs DEF KeepsJournal
  <2>3. /\ Moves(f) /\ flush'[f].expected \in 0..stripes
        /\ (f \in Background => flush'[f].st = "idle") /\ (f \notin Background => flush'[f].st = "flushed")
    BY <1>0, <2>2, Nothings DEF Rests
  <2>4. TyLock'
    BY <2>1, <2>3, LockKept
  <2>5. \A c \in Chunks : TakenBy(f, c)' => TakenBy(f, c)
    BY <2>2, Nothings DEF TakenBy, Rests
  <2> QED BY <1>0, <2>1, <2>3, <2>4, <2>5, QuietMoveTypes
<1>10. CASE FlushEnds(f)
  <2>1. UNCHANGED <<writes, acked, journal, memory, loading, reading, client, meta, refused>>
        /\ UNCHANGED <<stops, faults>> /\ flush[f].st = "flushed" /\ lock' = "none"
    BY <1>10 DEF FlushEnds
  <2>2. Moves(f) /\ flush'[f] = NoFlush
    BY <1>10, EndsIs DEF FlushEnds
  <2>3. f \notin Background /\ lock = f
    BY <2>1, TypesParts DEF TyLock
  <2>4. TyLock'
    BY <2>1, <2>2, <2>3, Nothings, LockFreed
  <2>5. \A c \in Chunks : ~TakenBy(f, c)'
    BY <2>2, Nothings DEF TakenBy
  <2> QED BY <1>0, <2>1, <2>2, <2>4, <2>5, Nothings, QuietMoveTypes
<1>11. CASE CreateSnapshot(f)
  <2>1. UNCHANGED <<writes, acked, journal, memory, loading, reading, client, refused>> /\ UNCHANGED <<stripes, rec, late>>
        /\ UNCHANGED <<stops, faults>> /\ flush[f].st = "flushed" /\ lock' = "none"
    BY <1>11 DEF CreateSnapshot
  <2>2. Moves(f) /\ flush'[f] = NoFlush
    BY <1>11, EndsIs DEF CreateSnapshot
  <2>3. f \notin Background /\ lock = f
    BY <2>1, TypesParts DEF TyLock
  <2>4. TyLock'
    BY <2>1, <2>2, <2>3, Nothings, LockFreed
  <2>5. TyFlush' /\ TyMeta'
    BY <1>0, <2>1, <2>2, Nothings, MovesTypes
  <2>6. TyWrites' /\ TyJournal' /\ TyClients' /\ TyCache' /\ TyReads' /\ TyFaults'
    BY <2>1, TyFrames DEF memory, journal
  <2>7. TyTaken'
    <3>1. \A c \in Chunks : ~TakenBy(f, c)'
      BY <2>2, Nothings DEF TakenBy
    <3> QED BY <2>1, <2>2, <3>1, TakenMoves DEF memory
  <2> QED BY <2>4, <2>5, <2>6, <2>7 DEF Types
<1>12. CASE StoresEnd(f)
  <2>1. /\ UNCHANGED <<writes, acked, journal, loading, reading, client, meta, refused>>
        /\ UNCHANGED <<stops, faults>> /\ versions' = versions /\ mark_flushed(flush[f].done)
        /\ lock' = IF f \in Background THEN "none" ELSE lock
    BY <1>12 DEF StoresEnd
  <2>2. Moves(f) /\ flush[f].st = "storing" /\ flush'[f].st = "reset" /\ flush'[f].expected = flush[f].expected
    BY <1>12, StoresEndIs
  <2>3. TyLock'
    <3>1. CASE f \in Background
      <4>1. lock = f
        BY <2>2, <3>1, TypesParts DEF TyLock
      <4> QED BY <2>1, <2>2, <3>1, <4>1, LockFreed
    <3>2. CASE f \notin Background
      BY <2>1, <2>2, <3>2, LockKept
    <3> QED BY <3>1, <3>2
  <2>4. TyFlush' /\ TyMeta'
    BY <1>0, <2>1, <2>2, MovesTypes DEF meta
  <2>5. TyWrites' /\ TyJournal' /\ TyClients' /\ TyReads' /\ TyFaults'
    BY <2>1, TyFrames DEF journal
  <2>7. \A d \in flush[f].done : cache[d[1]].held = Parts
    BY TypesParts, FlushType DEF TyTaken, TakenBy
  <2>6. TyCache'
    BY <2>1, <2>7, FlushedTypes
  <2>8. TyTaken'
    <3>1. \A c \in Chunks : TakenBy(f, c)' => TakenBy(f, c)
      BY <1>12, StoresEndIs DEF TakenBy
    <3>2. \A c \in Chunks : cache'[c].held = cache[c].held
      BY <2>1, <2>7, FlushedTypes
    <3> QED BY <2>2, <3>1, <3>2, TakenMoves
  <2> QED BY <2>3, <2>4, <2>5, <2>6, <2>8 DEF Types
<1>13. CASE CommitAnswered(f) \/ CommitLost(f)
  BY <1>13, CommitTypes
<1> QED BY <1>1, <1>2, <1>3, <1>4, <1>5, <1>6, <1>7, <1>8, <1>9, <1>10, <1>11, <1>12, <1>13 DEF Flushing

LEMMA LoadingTypes ==
    ASSUME Types, Loading
    PROVE  Types'
<1>0. /\ UNCHANGED <<writes, acked, client, flush, lock, refused, stops, faults>> /\ UNCHANGED journal /\ UNCHANGED meta
  BY DEF Loading, LoadBegin, resolve, ReadMisses, ReadEnds
<1>1. TyWrites' /\ TyJournal' /\ TyClients' /\ TyFlush' /\ TyLock' /\ TyMeta' /\ TyFaults'
  BY <1>0, TyFrames DEF meta, journal
<1>2. ASSUME NEW c \in Chunks, LoadBegin(c) PROVE TyReads' /\ TyCache' /\ TyTaken'
  <2>1. UNCHANGED reading /\ UNCHANGED memory /\ loading' = [loading EXCEPT ![c] = [there |-> TRUE, data |-> rec[c].data]]
    BY <1>2 DEF LoadBegin
  <2>2. rec[c].data \in Bytes
    BY TypesParts DEF TyMeta
  <2>3. TyReads'
    BY <1>0, <2>1, <2>2, TypesParts DEF TyReads
  <2> QED BY <1>0, <2>1, <2>3, TyFrames DEF memory
<1>3. ASSUME NEW c \in Chunks, resolve(c) PROVE TyReads' /\ TyCache' /\ TyTaken'
  <2>1. UNCHANGED reading /\ loading' = [loading EXCEPT ![c] = NoLoad]
    BY <1>3 DEF resolve
  <2>2. TyReads'
    BY <1>0, <2>1, Nothings, TypesParts DEF TyReads
  <2>3. CASE Pending(c)
    <3>1. Changes(c) /\ cache'[c].st = "dirty" /\ cache'[c].ver = versions + 1 /\ cache'[c].held = Parts /\ versions' = versions + 1
      BY <1>3, <2>3, ResolveIs DEF resolve
    <3>2. TyCache'
      <4>1. versions' \in Nat /\ cache' \in [Chunks -> Chunk] /\ cache'[c].ver <= versions'
        BY <3>1, TypesParts DEF TyCache, Changes
      <4>2. cache'[c].st # "none" /\ cache'[c].held # {} /\ cache'[c].st # "clean"
        BY <3>1, SizesAssumption
      <4>3. ASSUME NEW d \in Chunks \ {c}
            PROVE  /\ cache'[d].ver <= versions' /\ (cache'[d].st = "none" <=> cache'[d].held = {})
                   /\ cache'[d].st = "clean" => cache'[d].held = Parts
        <5>1. cache'[d] = cache[d] /\ d \in Chunks
          BY <3>1 DEF Changes
        <5>2. cache[d].ver <= versions + 1
          BY <5>1, TypesParts, ChunkType
        <5> QED BY <3>1, <5>1, <5>2, TypesParts, ChunkType
      <4> QED BY <4>1, <4>2, <4>3 DEF TyCache
    <3> QED BY <1>0, <2>2, <3>1, <3>2, TakenStays DEF Changes
  <2>4. CASE ~Pending(c)
    BY <1>0, <1>3, <2>2, <2>4, TyFrames DEF resolve, memory
  <2> QED BY <2>3, <2>4
<1>4. ASSUME NEW r \in Readers, NEW c \in Chunks, ReadMisses(r, c) PROVE TyReads' /\ TyCache' /\ TyTaken'
  <2>1. /\ UNCHANGED loading /\ UNCHANGED memory
        /\ reading' = [reading EXCEPT ![r] = [chunk |-> c, data |-> rec[c].data, had |-> acked]]
    BY <1>4 DEF ReadMisses
  <2>2. rec[c].data \in Bytes /\ acked \in SUBSET DOMAIN writes
    BY TypesParts DEF TyMeta, TyWrites
  <2>3. TyReads'
    BY <1>0, <2>1, <2>2, TypesParts DEF TyReads
  <2> QED BY <1>0, <2>1, <2>3, TyFrames DEF memory
<1>5. ASSUME NEW r \in Readers, ReadEnds(r) PROVE TyReads' /\ TyCache' /\ TyTaken'
  <2>1. UNCHANGED loading /\ UNCHANGED versions /\ reading' = [reading EXCEPT ![r] = NoRead]
        /\ add_clean(reading[r].chunk, reading[r].data)
    BY <1>5 DEF ReadEnds
  <2>2. TyReads'
    BY <1>0, <2>1, Nothings, TypesParts DEF TyReads
  <2>3. CASE cache[reading[r].chunk].st # "none"
    BY <1>0, <2>1, <2>2, <2>3, TyFrames DEF add_clean
  <2>4. CASE cache[reading[r].chunk].st = "none" /\ reading[r].chunk \notin Chunks
    <3>1. cache' = cache
      BY <2>1, <2>4, TypesParts DEF add_clean, TyCache
    <3> QED BY <1>0, <2>1, <2>2, <3>1, TyFrames
  <2>5. CASE cache[reading[r].chunk].st = "none" /\ reading[r].chunk \in Chunks
    <3>1. PICK c \in Chunks : c = reading[r].chunk
      BY <2>5
    <3>2. Changes(c) /\ cache'[c].st = "clean" /\ cache'[c].ver = 0 /\ cache'[c].held = Parts
      BY <1>5, <2>5, <3>1, ReadEndsIs
    <3>3. TyCache'
      <4>1. versions \in Nat /\ cache' \in [Chunks -> Chunk] /\ cache'[c].ver <= versions
        BY <3>2, TypesParts DEF TyCache, Changes
      <4>2. cache'[c].st # "none" /\ cache'[c].held # {}
        BY <3>2, SizesAssumption
      <4> QED BY <2>1, <3>2, <4>1, <4>2, TypesParts DEF TyCache, Changes
    <3> QED BY <1>0, <2>2, <3>2, <3>3, TakenStays DEF Changes
  <2> QED BY <2>3, <2>4, <2>5
<1>6. TyReads' /\ TyCache' /\ TyTaken'
  BY <1>2, <1>3, <1>4, <1>5 DEF Loading
<1> QED BY <1>1, <1>6 DEF Types

LEMMA LateTypes ==
    ASSUME Types, NEW m \in late, LateCommit(m)
    PROVE  Types'
<1>1. /\ UNCHANGED <<writes, acked, loading, reading, client, flush, lock, stripes, snap, refused, stops, faults>>
      /\ UNCHANGED journal /\ UNCHANGED memory
      /\ late' = late \ {m} /\ rec' = IF Swaps(m) THEN Swapped(m) ELSE rec
  BY DEF LateCommit
<1>2. m \in Message /\ m.id \in 1..stripes /\ stripes \in Nat
  BY TypesParts DEF TyMeta
<1>3. Swapped(m) \in [Chunks -> [id : 0..stripes, data : Bytes]]
  BY <1>2, TypesParts, SwappedIs
<1>4. TyMeta'
  BY <1>1, <1>3, TypesParts DEF TyMeta
<1>5. TyWrites' /\ TyJournal' /\ TyClients' /\ TyCache' /\ TyReads' /\ TyFlush' /\ TyLock' /\ TyTaken' /\ TyFaults'
  BY <1>1, TyFrames DEF memory, journal
<1> QED BY <1>4, <1>5 DEF Types

-----------------------------------------------------------------------------
(* Stops.                                                                  *)

\* The gateway starts on journal j with nothing under way, its cache what
\* the entries of j left.
\* What is in flight is the commit of the flush that has the lock.
LEMMA InFlightIs ==
    ASSUME Types, NEW n \in InFlight
    PROVE  /\ \E f \in Flushers : /\ flush[f].cur # NoChunk /\ n.expected = flush[f].expected
                                   /\ n.chunk = flush[f].cur.chunk /\ n.data = flush[f].cur.data
           /\ n \in Message /\ n.id = stripes + 1 /\ n.expected \in 0..stripes
<1>1. PICK f \in Flushers : flush[f].cur # NoChunk /\ n = Commit(f)
  BY DEF InFlight
<1> QED BY <1>1, CommitType

LEMMA StartedIs ==
    ASSUME Types, NEW j \in Journal, Started(j)
    PROVE  /\ file' = j /\ sequence' = j.base /\ synced' = j.base /\ failed' = FALSE /\ syncing' = NoSync
           /\ cache' \in [Chunks -> Chunk] /\ versions' = Len(j.entries) /\ cache' = Replayed(j.entries)
           /\ loading' = [c \in Chunks |-> NoLoad] /\ reading' = [r \in Readers |-> NoRead]
           /\ client' = [k \in Clients |-> Quiet] /\ Logged' = {}
           /\ flush' = [f \in Flushers |-> NoFlush] /\ lock' = "none" /\ stops' = stops + 1
           /\ UNCHANGED <<writes, acked, rec, snap>> /\ late' \subseteq late \cup InFlight
           /\ stripes' = IF late' = late THEN stripes ELSE stripes + 1
<1>1. /\ file' = j /\ sequence' = j.base /\ synced' = j.base /\ failed' = FALSE /\ syncing' = NoSync
      /\ cache' = Replayed(j.entries) /\ versions' = Len(j.entries)
      /\ loading' = [c \in Chunks |-> NoLoad] /\ reading' = [r \in Readers |-> NoRead]
      /\ client' = [k \in Clients |-> Quiet]
      /\ flush' = [f \in Flushers |-> NoFlush] /\ lock' = "none" /\ stops' = stops + 1
      /\ UNCHANGED <<writes, acked, rec, snap>> /\ late' \subseteq late \cup InFlight
      /\ stripes' = IF late' = late THEN stripes ELSE stripes + 1
  BY DEF Started, Reopened
<1>2. Logged' = {}
  BY <1>1, Nothings DEF Logged
<1>3. cache' \in [Chunks -> Chunk]
  <2>1. PICK s : s = j.entries
    OBVIOUS
  <2>2. s \in Seq(1..MaxWrites)
    BY <2>1, JournalType
  <2>3. \A c \in Chunks : Replayed(s)[c] \in Chunk
    BY <2>2, TypesParts, ReplayedIs
  <2>4. Replayed(s) = [c \in Chunks |-> Replayed(s)[c]]
    BY DEF Replayed
  <2> QED BY <1>1, <2>1, <2>3, <2>4
<1> QED BY <1>1, <1>2, <1>3

LEMMA StartedTypes ==
    ASSUME Types, NEW j \in Journal, Started(j), j.durable <= Len(j.entries),
           old' \in Journal, old'.durable <= Len(old'.entries), refused' \in BOOLEAN, NEW kind, Fault(kind)
    PROVE  Types'
<1>1. /\ file' = j /\ sequence' = j.base /\ synced' = j.base /\ failed' = FALSE /\ syncing' = NoSync
      /\ cache' \in [Chunks -> Chunk] /\ versions' = Len(j.entries) /\ cache' = Replayed(j.entries)
      /\ loading' = [c \in Chunks |-> NoLoad] /\ reading' = [r \in Readers |-> NoRead]
      /\ client' = [k \in Clients |-> Quiet] /\ Logged' = {}
      /\ flush' = [f \in Flushers |-> NoFlush] /\ lock' = "none" /\ stops' = stops + 1
      /\ UNCHANGED <<writes, acked, rec, snap>> /\ late' \subseteq late \cup InFlight
      /\ stripes' = IF late' = late THEN stripes ELSE stripes + 1
  BY StartedIs
<1>2. TyWrites'
  BY <1>1, TyFrames
<1>3. TyJournal'
  <2>1. j.base \in Nat /\ Len(j.entries) \in Nat
    BY JournalType
  <2>2. NoSync \in [by : Clients \cup {"none"}, target : 0..j.base, len : 0..Len(j.entries)]
    BY <2>1 DEF NoSync
  <2>3. sequence' \in Nat /\ synced' \in 0..sequence'
    BY <1>1, <2>1
  <2>4. failed' \in BOOLEAN
    BY <1>1
  <2> QED BY <1>1, <2>2, <2>3, <2>4 DEF TyJournal
<1>4. TyClients'
  BY <1>1, Nothings DEF TyClients, NoSync
<1>5. TyCache'
  <2>1. PICK s : s = j.entries
    OBVIOUS
  <2>2. s \in Seq(1..MaxWrites) /\ Len(s) \in Nat
    BY <2>1, JournalType
  <2>3. ASSUME NEW c \in Chunks
        PROVE  /\ cache'[c].ver <= versions' /\ (cache'[c].st = "none" <=> cache'[c].held = {}) /\ cache'[c].st # "clean"
    <3>1. /\ Replayed(s)[c].ver <= Len(s)
          /\ Replayed(s)[c].st = (IF Replayed(s)[c].held = {} THEN "none" ELSE "dirty")
      BY <2>2, TypesParts, ReplayedIs
    <3> QED BY <1>1, <2>1, <3>1
  <2> QED BY <1>1, <2>1, <2>2, <2>3 DEF TyCache
<1>6. TyReads'
  BY <1>1, Nothings DEF TyReads
<1>7. TyFlush'
  BY <1>1, Nothings DEF TyFlush
<1>8. TyLock'
  BY <1>1, Nothings, FlushersAssumption DEF TyLock, Flushers
<1>9. TyTaken'
  BY <1>1, Nothings DEF TyTaken, TakenBy
<1>10. TyMeta'
  <2>1. stripes \in Nat /\ late \subseteq Message /\ \A m \in late : m.id \in 1..stripes /\ m.expected \in 0..stripes
    BY TypesParts DEF TyMeta
  <2>2. stripes' \in Nat /\ stripes <= stripes' /\ (late' # late => stripes' = stripes + 1)
    BY <1>1, <2>1
  <2>3. late' \subseteq Message /\ \A m \in late' : m.id \in 1..stripes' /\ m.expected \in 0..stripes'
    <3> SUFFICES ASSUME NEW m \in late' PROVE m \in Message /\ m.id \in 1..stripes' /\ m.expected \in 0..stripes'
      OBVIOUS
    <3>1. CASE m \in late
      BY <2>1, <2>2, <3>1
    <3>2. CASE m \notin late
      <4>1. m \in Message /\ m.id = stripes + 1 /\ m.expected \in 0..stripes
        BY <1>1, <3>2, InFlightIs
      <4> QED BY <2>1, <2>2, <3>2, <4>1
    <3> QED BY <3>1, <3>2
  <2>4. rec' \in [Chunks -> [id : 0..stripes', data : Bytes]]
    <3>1. 0..stripes \subseteq 0..stripes'
      BY <2>1, <2>2
    <3> QED BY <1>1, <3>1, TypesParts DEF TyMeta
  <2>5. \A f \in Flushers : flush'[f].expected <= stripes'
    BY <1>1, <2>2, Nothings
  <2> QED BY <2>2, <2>3, <2>4, <2>5 DEF TyMeta
<1>11. TyFaults'
  BY <1>1, FaultCounts, TypesParts DEF TyFaults
<1> QED BY <1>2, <1>3, <1>4, <1>5, <1>6, <1>7, <1>8, <1>9, <1>10, <1>11 DEF Types

\* What a power cut leaves of journal j: its durable entries, and of the rest
\* those before the first lost one.
LEMMA CutIs ==
    ASSUME Types, NEW j \in {file, old}, NEW kept \in SUBSET ((j.durable + 1)..Len(j.entries)), PowerCut(j, kept)
    PROVE  \E h \in Journal :
              /\ Started(h) /\ ~refused /\ Fault("power") /\ old' = NoFile /\ refused' \in BOOLEAN
              /\ h.there = j.there /\ h.base = j.base /\ h.durable = Len(h.entries)
              /\ j.durable <= Len(h.entries) /\ Len(h.entries) <= Len(j.entries)
              /\ \A i \in 1..Len(h.entries) : h.entries[i] = j.entries[i]
<1>1. /\ j \in Journal /\ j.durable <= Len(j.entries) /\ j.durable \in Nat /\ Len(j.entries) \in Nat
  BY TypesParts, JournalType DEF TyJournal
<1> DEFINE D == j.durable
           L == Len(j.entries)
<1>2. IsFiniteSet(kept) /\ Cardinality(kept) \in Nat /\ Cardinality(kept) <= L - D
  <2>1. PICK a, b : a = D /\ b = L
    OBVIOUS
  <2>2. a \in Nat /\ b \in Nat /\ a <= b /\ kept \subseteq (a + 1)..b
    BY <1>1, <2>1
  <2>3. IsFiniteSet((a + 1)..b) /\ Cardinality((a + 1)..b) = b - a
    <3>1. IsFiniteSet((a + 1)..b) /\ Cardinality((a + 1)..b) = IF a + 1 > b THEN 0 ELSE b - (a + 1) + 1
      BY <2>2, FS_Interval
    <3> QED BY <2>2, <3>1
  <2>5. PICK S : S = (a + 1)..b
    OBVIOUS
  <2>6. IsFiniteSet(S) /\ kept \in SUBSET S /\ Cardinality(S) = b - a
    BY <2>2, <2>3, <2>5
  <2>4. IsFiniteSet(kept) /\ Cardinality(kept) <= b - a
    BY <2>6, FS_Subset
  <2> QED BY <2>1, <2>4, FS_CardinalityType
<1>3. PICK n, torn : n = D + Cardinality(kept) /\ torn = (kept # (D + 1)..n)
  OBVIOUS
<1>4. PICK N : N = IF torn THEN D ELSE n
  OBVIOUS
<1>5. N \in 0..Len(j.entries) /\ D <= N /\ N \in Nat
  BY <1>1, <1>2, <1>3, <1>4
<1>6. PICK h : h = [j EXCEPT !.entries = SubSeq(@, 1, N), !.durable = N]
  OBVIOUS
<1>7. Started(h) /\ ~refused /\ Fault("power") /\ old' = NoFile /\ refused' = torn
  <2>1. /\ Started([j EXCEPT !.entries = SubSeq(@, 1, IF torn THEN D ELSE n), !.durable = IF torn THEN D ELSE n])
        /\ ~refused /\ Fault("power") /\ old' = NoFile /\ refused' = torn
    BY <1>3 DEF PowerCut
  <2> QED BY <1>4, <1>6, <2>1
<1>8. /\ h \in Journal /\ h.base = j.base /\ h.durable = N /\ h.there = j.there
      /\ Len(h.entries) = N /\ \A i \in 1..N : h.entries[i] = j.entries[i]
  <2>1. j \in Journal /\ N \in 0..Len(j.entries)
    BY <1>1, <1>5
  <2>2. h = [base |-> j.base, entries |-> SubSeq(j.entries, 1, N), durable |-> N, there |-> j.there]
    BY <1>6, <2>1 DEF Journal
  <2> QED BY <2>1, <2>2, JournalPrefix
<1>9. refused' \in BOOLEAN
  BY <1>3, <1>7
<1> QED BY <1>5, <1>7, <1>8, <1>9

LEMMA StopsTypes ==
    ASSUME Types, Stops
    PROVE  Types'
<1>1. CASE Kill
  <2>1. Started(file) /\ Fault("kill") /\ UNCHANGED <<old, refused>>
    BY <1>1 DEF Kill
  <2>2. file \in Journal /\ file.durable <= Len(file.entries) /\ old \in Journal /\ old.durable <= Len(old.entries) /\ refused \in BOOLEAN
    BY TypesParts DEF TyJournal
  <2> QED BY <2>1, <2>2, StartedTypes
<1>2. ASSUME NEW j \in {file, old}, NEW kept \in SUBSET ((j.durable + 1)..Len(j.entries)), PowerCut(j, kept)
      PROVE  Types'
  <2>1. PICK h \in Journal : Started(h) /\ Fault("power") /\ old' = NoFile /\ refused' \in BOOLEAN /\ h.durable = Len(h.entries)
    BY <1>2, CutIs
  <2>2. Len(NoFile.entries) = 0 /\ NoFile.durable = 0 /\ NoFile \in Journal
    BY Nothings
  <2>3. h.durable <= Len(h.entries) /\ old' \in Journal /\ old'.durable <= Len(old'.entries)
    BY <2>1, <2>2, JournalType
  <2> QED BY <2>1, <2>3, StartedTypes
<1> QED BY <1>1, <1>2 DEF Stops

LEMMA TypesStep == Types /\ [Next]_vars => Types'
<1> SUFFICES ASSUME Types, [Next]_vars PROVE Types'
  OBVIOUS
<1>1. CASE Next
  BY <1>1, WritingTypes, FlushingTypes, LoadingTypes, LateTypes, StopsTypes DEF Next
<1>2. CASE UNCHANGED vars
  <2>1. /\ UNCHANGED <<writes, acked, loading, reading, client, flush, lock, refused, stops, faults>>
        /\ UNCHANGED <<file, old, sequence, synced, failed, syncing>> /\ UNCHANGED <<cache, versions>>
        /\ UNCHANGED <<rec, stripes, late, snap>>
    BY <1>2 DEF vars, journal, memory, meta
  <2>2. /\ TyWrites' /\ TyJournal' /\ TyClients' /\ TyCache' /\ TyReads' /\ TyFlush' /\ TyLock' /\ TyTaken' /\ TyMeta'
        /\ TyFaults'
    BY <2>1, TyFrames
  <2> QED BY <2>2 DEF Types
<1> QED BY <1>1, <1>2

\* Every variable keeps its type, the sync under way is of a waiting client,
\* and the flush lock is held by exactly the flush that stores chunks or, for
\* a client's, is not over.
THEOREM TypeCorrect == Spec => []TypeOK
<1>1. Init => Types
  BY TypesInit
<1>2. Types /\ [Next]_vars => Types'
  BY TypesStep
<1> QED BY <1>1, <1>2, TypesGive, PTL DEF Spec

-----------------------------------------------------------------------------
(* The inductive invariant.                                                *)

\* The gateway is killed or the machine loses power, not both; one flush at a
\* time has copies of chunks.
OneFault == ~({"kill", "power"} \subseteq Faults)
Scope    == OneFault /\ OneTakes

\* The writes that may not be lost: acknowledged, or waiting for their sync.
Firm == acked \cup {client[k].w : k \in Logged}

\* Bytes of chunk c that show writes made to it; that have the writes H.
Genuine(data, c)   == \A p \in Parts : data[p] # 0 => data[p] \in DOMAIN writes /\ <<c, p>> \in writes[data[p]]
Covers(data, c, H) == \A w \in H : \A p \in PartsOf(w, c) : data[p] >= w
\* Bytes that have every firm write, or it is dirty in the cache.
Held(c, p)     == cache[c].st = "dirty" /\ p \in cache[c].held
Backs(data, c) == \A w \in Firm : \A p \in PartsOf(w, c) : data[p] >= w \/ Held(c, p)

AllGenuine ==
    /\ \A c \in Chunks : Genuine(cache[c].data, c) /\ Genuine(rec[c].data, c) /\ Genuine(loading[c].data, c)
    /\ \A r \in Readers : Genuine(reading[r].data, reading[r].chunk)
    /\ \A m \in late : Genuine(m.data, m.chunk)
    /\ \A f \in Flushers : \A t \in flush[f].todo : Genuine(t.data, t.chunk)

\* What the cache holds, the stripes, those a late commit may yet put in
\* their place, and those being loaded or read have the firm writes.
Seen   == \A c \in Chunks : \A w \in Firm : \A p \in PartsOf(w, c) : p \in cache[c].held => cache[c].data[p] >= w
Backed == \A c \in Chunks : Backs(rec[c].data, c)
Lates  == \A m \in late : Swaps(m) => Backs(m.data, m.chunk)
Loads  == \A c \in Chunks : loading[c].there =>
             cache[c].st # "none" /\ (Pending(c) => Backs(loading[c].data, c))
Reads  == \A r \in Readers : reading[r] # NoRead =>
             /\ reading[r].chunk \in Chunks /\ reading[r].had \subseteq acked
             /\ Covers(reading[r].data, reading[r].chunk, reading[r].had)
             /\ cache[reading[r].chunk].st = "none" => Covers(reading[r].data, reading[r].chunk, Firm)

\* Before a first stop only whole chunks were ever stored.
First == stops = 0 => \A c \in Chunks : cache[c].held # Parts =>
            /\ rec[c].data = Zeros /\ loading[c].data = Zeros
            /\ \A r \in Readers : reading[r].chunk = c => reading[r].data = Zeros
            /\ \A m \in late : m.chunk # c

\* The copies a flush has are of dirty chunks, one of each, as they were in
\* that version; what it stored of a chunk not written since is there.
Copies == \A f \in Flushers : \A t \in flush[f].todo :
             /\ cache[t.chunk].st = "dirty" /\ t.ver <= versions
             /\ t.ver = cache[t.chunk].ver => t.data = cache[t.chunk].data
             /\ \A u \in flush[f].todo : u.chunk = t.chunk => u = t
             /\ \A d \in flush[f].done : d[1] # t.chunk
Done   == \A f \in Flushers : \A d \in flush[f].done :
             /\ cache[d[1]].st = "dirty" /\ d[2] <= versions
             /\ d[2] = cache[d[1]].ver => rec[d[1]].data = cache[d[1]].data
             /\ \A m \in late : m.chunk = d[1] => ~Swaps(m)
Storing == \A f \in Flushers :
             /\ flush[f].todo # {} => flush[f].st \in {"waiting", "storing"}
             /\ flush[f].done # {} => flush[f].st = "storing"
             /\ flush[f].cur # NoChunk => flush[f].st = "storing" /\ flush[f].cur \in flush[f].todo
\* The stripe of a commit whose answer was lost has not been seen.
Ids == \A m \in late :
          /\ \A c \in Chunks : rec[c].id # m.id
          /\ \A n \in late : n.expected # m.id /\ (n.id = m.id => n = m)
          /\ \A f \in Flushers : flush[f].expected # m.id

\* Write w is in chunk c for good: in the stripe, and in whatever may replace it.
SettledAt(w, c) == \A p \in PartsOf(w, c) :
             /\ rec[c].data[p] >= w
             /\ \A m \in late : (m.chunk = c /\ Swaps(m)) => m.data[p] >= w
             /\ \A f \in Flushers : \A t \in flush[f].todo : t.chunk = c => t.data[p] >= w
Settled(w) == \A c \in Chunks : SettledAt(w, c)

\* A write is among the first n entries of journal j, or settled before them.
Ordered(j) == /\ \A i \in 1..Len(j.entries) : j.entries[i] \in DOMAIN writes
              /\ \A i, n \in 1..Len(j.entries) : i < n => j.entries[i] < j.entries[n]
Safe(j, n, w) == \/ \E i \in 1..n : j.entries[i] = w
                 \/ Settled(w) /\ \A i \in 1..Len(j.entries) : j.entries[i] > w
SafeTo(j, n, s) == \A k \in Logged : client[k].upto <= s => Safe(j, n, client[k].w)

Journaled == Ordered(file) /\ Ordered(old) /\ \A w \in Firm : Safe(file, Len(file.entries), w)
Durable   == (\A w \in acked : Safe(file, file.durable, w)) /\ SafeTo(file, file.durable, synced)
Syncing   == syncing.by # "none" => file.durable <= syncing.len /\ SafeTo(file, syncing.len, syncing.target)
\* The journal replaced, while its name may come back: what is acknowledged
\* is safe in it as well, for nothing is written until the directory is synced.
Older     == (old.there /\ "power" \in Faults) =>
                /\ failed \/ \E f \in Flushers : flush[f].st = "renamed"
                /\ syncing.by = "none"
                /\ \A w \in acked : Safe(old, old.durable, w)
                /\ SafeTo(old, old.durable, synced)

\* A client's flush: what was acknowledged when it began is settled, or in a
\* copy it has, unless it missed a chunk.
HadAt(f, c) == \A w \in flush[f].had : SettledAt(w, c)
TakenWith(f) ==
    /\ flush[f].had \subseteq acked
    /\ flush[f].st = "resolving" =>
         /\ \A c \in flush[f].pend : cache[c].st = "dirty"
         /\ \A c \in Chunks : c \in flush[f].pend \/ (cache[c].st = "dirty" /\ Whole(c)) \/ HadAt(f, c)
    /\ (flush[f].st \in {"storing", "reset", "renamed", "flushed"} /\ ~flush[f].missed) =>
         \A c \in Chunks : HadAt(f, c) \/ \E t \in flush[f].todo : t.chunk = c
    /\ \A t \in flush[f].todo : Covers(t.data, t.chunk, flush[f].had)
Taking  == \A f \in Foreground : TakenWith(f)
Snapped == snap.there => snap.had \subseteq acked /\ SnapshotHasAll

Stored  == AllGenuine /\ Seen /\ Backed /\ Lates /\ Loads /\ Reads /\ First
Flushed == Copies /\ Done /\ Storing /\ Ids
Logs    == Journaled /\ Durable /\ Syncing /\ Older
IInv    == Types /\ Stored /\ Flushed /\ Logs /\ Taking /\ Snapped

LEMMA IInvParts ==
    IInv => /\ Types /\ AllGenuine /\ Seen /\ Backed /\ Lates /\ Loads /\ Reads /\ First /\ Copies /\ Done /\ Storing /\ Ids
            /\ Journaled /\ Durable /\ Syncing /\ Older /\ Taking /\ Snapped
  BY DEF IInv, Stored, Flushed, Logs

\* While a flush stores its copies no other has any.
LEMMA Idle ==
    ASSUME OneTakes, Storing, NEW f \in Flushers, NEW g \in Flushers, flush[f].st = "storing", f # g
    PROVE  flush[g].todo = {} /\ flush[g].done = {} /\ flush[g].cur = NoChunk
<1>1. flush[g].st \notin {"waiting", "storing"}
  BY DEF OneTakes
<1> QED BY <1>1 DEF Storing

LEMMA FirmIs ==
    ASSUME Types
    PROVE  /\ acked \subseteq Firm /\ Firm \subseteq DOMAIN writes /\ DOMAIN writes = 1..Len(writes) /\ Len(writes) \in Nat
           /\ \A k \in Logged : client[k].w \in Firm
           /\ \A w \in Firm : w \in acked \/ \E k \in Logged : client[k].w = w
<1>1. DOMAIN writes = 1..Len(writes) /\ Len(writes) \in Nat
  BY TypesParts, SeqFacts DEF TyWrites
<1> QED BY <1>1, TypesParts DEF Firm, TyWrites, TyClients

\* Writes are only added.
Extends == DOMAIN writes \subseteq DOMAIN writes' /\ \A w \in DOMAIN writes : writes'[w] = writes[w]

LEMMA PartsStay == ASSUME Extends, NEW w \in DOMAIN writes, NEW c PROVE PartsOf(w, c)' = PartsOf(w, c)
  BY DEF Extends, PartsOf

LEMMA GenuineStays == ASSUME Extends, NEW data, NEW c, Genuine(data, c) PROVE Genuine(data, c)'
  BY DEF Extends, Genuine

\* Where stored bytes come from: the stripes there were, a commit still to be
\* done, the copies of a flush, and those from whole chunks of the cache.
Copied(data, c) == \E f \in Flushers : \E t \in flush[f].todo : t.chunk = c /\ t.data = data
Fetched(data, c) == \/ data = rec[c].data
                    \/ \E m \in late : m.chunk = c /\ Swaps(m) /\ data = m.data
                    \/ Copied(data, c)
Flows == /\ \A c \in Chunks : Fetched(rec'[c].data, c)
         /\ \A m \in late' : \/ m \in late /\ (Swaps(m)' => Swaps(m))
                             \/ Copied(m.data, m.chunk)
         /\ \A f \in Flushers : \A t \in flush'[f].todo :
               Copied(t.data, t.chunk) \/ (Whole(t.chunk) /\ t.data = cache[t.chunk].data)

\* A write that may not be lost, once settled, stays so.
LEMMA SettledStays ==
    ASSUME Types, Seen, Extends, Flows, NEW w \in Firm, NEW c \in Chunks, SettledAt(w, c)
    PROVE  SettledAt(w, c)'
<1>1. w \in DOMAIN writes /\ PartsOf(w, c)' = PartsOf(w, c)
  BY FirmIs, PartsStay
<1> SUFFICES ASSUME NEW p \in PartsOf(w, c)
             PROVE  /\ rec'[c].data[p] >= w
                    /\ \A m \in late' : (m.chunk = c /\ Swaps(m)') => m.data[p] >= w
                    /\ \A f \in Flushers : \A t \in flush'[f].todo : t.chunk = c => t.data[p] >= w
  BY <1>1 DEF SettledAt
<1>2. \A data : Copied(data, c) => data[p] >= w
  BY DEF Copied, SettledAt
<1>3. rec'[c].data[p] >= w
  <2>1. Fetched(rec'[c].data, c)
    BY DEF Flows
  <2> QED BY <1>2, <2>1 DEF Fetched, SettledAt
<1>4. \A m \in late' : (m.chunk = c /\ Swaps(m)') => m.data[p] >= w
  BY <1>2 DEF Flows, SettledAt
<1>5. \A f \in Flushers : \A t \in flush'[f].todo : t.chunk = c => t.data[p] >= w
  <2>1. Whole(c) => cache[c].data[p] >= w
    BY DEF Whole, Seen, PartsOf
  <2> QED BY <1>2, <2>1 DEF Flows
<1> QED BY <1>3, <1>4, <1>5

LEMMA SettledForGood ==
    ASSUME Types, Seen, Extends, Flows, NEW w \in Firm, Settled(w)
    PROVE  Settled(w)'
  BY SettledStays DEF Settled

\* Copies are of dirty chunks, so there is nothing that only the stripe has.
LEMMA CopiedBacks ==
    ASSUME Types, Copies, NEW c \in Chunks, NEW data, Copied(data, c)
    PROVE  Backs(data, c) /\ cache[c].held = Parts
<1>1. cache[c].st = "dirty" /\ cache[c].held = Parts
  BY TypesParts DEF Copied, Copies, TyTaken, TakenBy
<1> QED BY <1>1 DEF Backs, Held, PartsOf

LEMMA FetchedBacks ==
    ASSUME Types, Backed, Lates, Copies, NEW c \in Chunks, NEW data, Fetched(data, c)
    PROVE  Backs(data, c)
<1>1. CASE data = rec[c].data
  BY <1>1 DEF Backed
<1>2. CASE \E m \in late : m.chunk = c /\ Swaps(m) /\ data = m.data
  BY <1>2 DEF Lates
<1>3. CASE Copied(data, c)
  BY <1>3, CopiedBacks
<1> QED BY <1>1, <1>2, <1>3 DEF Fetched

\* Bytes stored are of writes that were made.
LEMMA FetchedGenuine ==
    ASSUME AllGenuine, NEW c \in Chunks, NEW data, Fetched(data, c)
    PROVE  Genuine(data, c)
<1>1. CASE data = rec[c].data
  BY <1>1 DEF AllGenuine
<1>2. CASE \E m \in late : m.chunk = c /\ Swaps(m) /\ data = m.data
  BY <1>2 DEF AllGenuine
<1>3. CASE Copied(data, c)
  BY <1>3 DEF AllGenuine, Copied
<1> QED BY <1>1, <1>2, <1>3 DEF Fetched

-----------------------------------------------------------------------------
(* Steps that leave the cache, the loads and the reads alone.              *)

Calm == /\ UNCHANGED <<writes, cache, versions, loading, reading, stops>>
        /\ Firm' \subseteq Firm /\ acked \subseteq acked'

LEMMA CalmExtends == Calm => Extends
  BY DEF Calm, Extends

LEMMA CalmBacks == ASSUME Calm, NEW data, NEW c, Backs(data, c) PROVE Backs(data, c)'
  BY DEF Calm, Backs, Held, PartsOf

LEMMA CalmGenuine ==
    ASSUME Types, AllGenuine, Calm, Flows, Types'
    PROVE  AllGenuine'
<1>2. \A c \in Chunks : Genuine(rec'[c].data, c)
  <2> SUFFICES ASSUME NEW c \in Chunks PROVE Genuine(rec'[c].data, c)
    OBVIOUS
  <2>1. PICK data : data = rec'[c].data
    OBVIOUS
  <2> QED BY <2>1, FetchedGenuine DEF Flows
<1>3. \A data, c : Copied(data, c) => Genuine(data, c)
  BY DEF AllGenuine, Copied
<1>4. \A m \in late' : Genuine(m.data, m.chunk)
  BY <1>3 DEF Flows, AllGenuine
<1>5. \A f \in Flushers : \A t \in flush'[f].todo : Genuine(t.data, t.chunk)
  <2> SUFFICES ASSUME NEW f \in Flushers, NEW t \in flush'[f].todo PROVE Genuine(t.data, t.chunk)
    OBVIOUS
  <2>1. t \in Copy
    <3>1. TyFlush'
      BY TypesParts DEF Types
    <3> QED BY <3>1 DEF TyFlush, Flush
  <2>2. t.chunk \in Chunks
    BY <2>1 DEF Copy
  <2> QED BY <1>3, <2>2 DEF Flows, AllGenuine
<1>6. writes' = writes /\ cache' = cache /\ loading' = loading /\ reading' = reading
  BY DEF Calm
<1> QED BY <1>2, <1>4, <1>5, <1>6 DEF AllGenuine, Genuine

LEMMA CalmStored ==
    ASSUME Types, Stored, Copies, Calm, Flows, Types'
    PROVE  Stored'
<1>0. /\ AllGenuine /\ Seen /\ Backed /\ Lates /\ Loads /\ Reads /\ First
      /\ UNCHANGED <<writes, cache, versions, loading, reading, stops>> /\ Firm' \subseteq Firm /\ acked \subseteq acked'
  BY DEF Stored, Calm
<1>1. AllGenuine'
  BY <1>0, CalmGenuine
<1>2. Seen'
  BY <1>0 DEF Seen, PartsOf
<1>3. Backed'
  <2> SUFFICES ASSUME NEW c \in Chunks PROVE Backs(rec[c].data, c)'
    BY DEF Backed
  <2>1. PICK data : data = rec'[c].data
    OBVIOUS
  <2>2. Backs(data, c)
    BY <1>0, <2>1, FetchedBacks DEF Flows
  <2>3. Backs(data, c)'
    BY <2>2, CalmBacks
  <2> QED BY <2>1, <2>3 DEF Backs
<1>4. Lates'
  <2> SUFFICES ASSUME NEW m \in late', Swaps(m)' PROVE Backs(m.data, m.chunk)'
    BY DEF Lates
  <2>1. m.chunk \in Chunks
    <3>1. TyMeta'
      BY TypesParts DEF Types
    <3> QED BY <3>1 DEF TyMeta, Message
  <2>2. Backs(m.data, m.chunk)
    <3>1. CASE m \in late /\ (Swaps(m)' => Swaps(m))
      BY <1>0, <3>1 DEF Lates
    <3>2. CASE Copied(m.data, m.chunk)
      BY <2>1, <3>2, CopiedBacks
    <3> QED BY <3>1, <3>2 DEF Flows
  <2> QED BY <2>2, CalmBacks
<1>5. Loads'
  <2> SUFFICES ASSUME NEW c \in Chunks, loading[c].there PROVE cache[c].st # "none" /\ (Pending(c) => Backs(loading[c].data, c)')
    BY <1>0 DEF Loads, Pending
  <2>1. cache[c].st # "none" /\ (Pending(c) => Backs(loading[c].data, c))
    BY <1>0 DEF Loads
  <2> QED BY <1>0, <2>1 DEF Backs, Held, PartsOf
<1>6. Reads'
  BY <1>0 DEF Reads, Covers, PartsOf
<1>7. First'
  <2> SUFFICES ASSUME stops = 0, NEW c \in Chunks, cache[c].held # Parts
               PROVE  rec'[c].data = Zeros /\ \A m \in late' : m.chunk # c
    BY <1>0 DEF First
  <2>1. \A data : ~Copied(data, c)
    BY CopiedBacks
  <2>2. rec[c].data = Zeros /\ \A m \in late : m.chunk # c
    BY <1>0 DEF First
  <2>3. Fetched(rec'[c].data, c)
    BY DEF Flows
  <2>4. \A m \in late' : m \in late \/ Copied(m.data, m.chunk)
    BY DEF Flows
  <2> QED BY <2>1, <2>2, <2>3, <2>4 DEF Fetched
<1> QED BY <1>1, <1>2, <1>3, <1>4, <1>5, <1>6, <1>7 DEF Stored

\* The steps of a client that only wait for, do, or learn of a sync.
Waits(k) == AlreadySynced(k) \/ SyncRefused(k) \/ SyncBegin(k) \/ SyncEnd(k) \/ SyncFails(k)

LEMMA WaitsIs ==
    ASSUME Types, NEW k \in Clients, Waits(k)
    PROVE  /\ UNCHANGED <<writes, old, cache, versions, loading, reading, flush, lock, rec, stripes, late, snap, refused, stops>>
           /\ sequence' = sequence
           /\ k \in Logged /\ (Logged' = Logged \/ Logged' = Logged \ {k})
           /\ \A l \in Logged' : client'[l] = client[l]
           /\ acked' = acked \/ acked' = acked \cup {client[k].w}
           /\ file'.entries = file.entries /\ file'.there = file.there
           /\ Firm' \subseteq Firm /\ acked \subseteq acked'
<1>1. /\ UNCHANGED <<writes, old, loading, reading, flush, lock, refused, stops, sequence>>
      /\ UNCHANGED memory /\ UNCHANGED meta
      /\ acked' = acked \/ acked' = acked \cup {client[k].w}
      /\ client' = client \/ client' = [client EXCEPT ![k] = Quiet]
      /\ client[k].st = "logged" \/ syncing.by = k
      /\ SyncEnd(k) \/ file' = file
  BY DEF Waits, AlreadySynced, SyncRefused, SyncBegin, SyncEnd, SyncFails, Return, SyncCovered
<1>2. k \in Logged
  BY <1>1, TypesParts, FlushersAssumption DEF TyClients, Logged
<1>3. /\ Logged' = Logged \/ Logged' = Logged \ {k}
      /\ \A l \in Logged' : client'[l] = client[l]
  <2>1. CASE client' = client
    BY <2>1 DEF Logged
  <2>2. CASE client' = [client EXCEPT ![k] = Quiet]
    BY <2>2, QuietIs DEF Logged
  <2> QED BY <1>1, <2>1, <2>2
<1>4. file'.entries = file.entries /\ file'.there = file.there
  BY <1>1, SyncEndTypes
<1>5. Firm' \subseteq Firm
  BY <1>1, <1>2, <1>3 DEF Firm
<1> QED BY <1>1, <1>2, <1>3, <1>4, <1>5 DEF memory, meta

\* A step that stores nothing new.
LEMMA StillFlows ==
    ASSUME rec' = rec, late' \subseteq late,
           \A f \in Flushers : \A t \in flush'[f].todo : t \in flush[f].todo \/ (Whole(t.chunk) /\ t.data = cache[t.chunk].data)
    PROVE  Flows
<1>1. \A c \in Chunks : Fetched(rec'[c].data, c)
  BY DEF Fetched
<1>2. \A m \in late' : m \in late /\ (Swaps(m)' => Swaps(m))
  BY DEF Swaps
<1>3. \A f \in Flushers : \A t \in flush[f].todo : Copied(t.data, t.chunk)
  BY DEF Copied
<1> QED BY <1>1, <1>2, <1>3 DEF Flows

\* The commit of flush f, answered: it swapped or changed nothing.
LEMMA CommitAnsweredIs ==
    ASSUME Types, NEW f \in Flushers, CommitAnswered(f)
    PROVE  /\ flush[f].cur # NoChunk /\ flush[f].cur \in Copy /\ flush[f].cur.chunk \in Chunks /\ stripes \in Nat
           /\ \A c \in Chunks \ {flush[f].cur.chunk} : rec'[c] = rec[c]
           /\ IF Swaps(Commit(f)) THEN /\ rec'[flush[f].cur.chunk].id = stripes + 1
                                       /\ rec'[flush[f].cur.chunk].data = flush[f].cur.data
                                  ELSE rec' = rec
           /\ late' = late /\ stripes' = stripes + 1 /\ Answered(f, Swaps(Commit(f)))
           /\ \A m \in late : (Swaps(Commit(f)) /\ m.chunk = flush[f].cur.chunk) => ~Swaps(m)'
           /\ \A m \in late : Swaps(m)' => Swaps(m)
<1>1. /\ flush[f].cur # NoChunk /\ rec' = (IF Swaps(Commit(f)) THEN Swapped(Commit(f)) ELSE rec)
      /\ Answered(f, Swaps(Commit(f))) /\ stripes' = stripes + 1 /\ late' = late
  BY DEF CommitAnswered
<1>2. /\ Commit(f) \in Message /\ Commit(f).id = stripes + 1
      /\ Commit(f).chunk = flush[f].cur.chunk /\ Commit(f).data = flush[f].cur.data
      /\ flush[f].cur \in Copy /\ stripes \in Nat
  BY <1>1, CommitType
<1>3. flush[f].cur.chunk \in Chunks
  BY <1>2 DEF Copy
<1>4. /\ \A c \in Chunks \ {flush[f].cur.chunk} : rec'[c] = rec[c]
      /\ IF Swaps(Commit(f)) THEN /\ rec'[flush[f].cur.chunk].id = stripes + 1
                                  /\ rec'[flush[f].cur.chunk].data = flush[f].cur.data
                             ELSE rec' = rec
  BY <1>1, <1>2, TypesParts, SwappedIs
<1>5. \A m \in late : m.chunk \in Chunks /\ m.expected \in 0..stripes
  BY TypesParts DEF TyMeta, Message
<1>6. \A m \in late : (Swaps(Commit(f)) /\ m.chunk = flush[f].cur.chunk) => ~Swaps(m)'
  BY <1>2, <1>4, <1>5 DEF Swaps
<1>7. \A m \in late : Swaps(m)' => Swaps(m)
  BY <1>4, <1>5, <1>6 DEF Swaps
<1> QED BY <1>1, <1>2, <1>3, <1>4, <1>6, <1>7

LEMMA LateCommitIs ==
    ASSUME Types, Ids, NEW m \in late, LateCommit(m)
    PROVE  /\ m.chunk \in Chunks /\ late' = late \ {m}
           /\ \A c \in Chunks \ {m.chunk} : rec'[c] = rec[c]
           /\ IF Swaps(m) THEN rec'[m.chunk].id = m.id /\ rec'[m.chunk].data = m.data ELSE rec' = rec
           /\ \A n \in late' : Swaps(n)' => Swaps(n)
           /\ Calm /\ UNCHANGED <<acked, client, flush, versions, stripes, snap, file, old, synced, failed, syncing, refused>>
<1>1. /\ late' = late \ {m} /\ rec' = (IF Swaps(m) THEN Swapped(m) ELSE rec)
      /\ UNCHANGED <<writes, acked, loading, reading, client, flush, lock, stripes, snap, refused, stops>>
      /\ UNCHANGED <<file, old, synced, failed, syncing, cache, versions>>
  BY DEF LateCommit, journal, memory
<1>2. \A n \in late : n.chunk \in Chunks /\ n \in Message
  BY TypesParts DEF TyMeta, Message
<1>3. /\ \A c \in Chunks \ {m.chunk} : rec'[c] = rec[c]
      /\ IF Swaps(m) THEN rec'[m.chunk].id = m.id /\ rec'[m.chunk].data = m.data ELSE rec' = rec
  BY <1>1, <1>2, TypesParts, SwappedIs
<1>4. \A n \in late' : Swaps(n)' => Swaps(n)
  <2> SUFFICES ASSUME NEW n \in late', Swaps(n)' PROVE Swaps(n)
    OBVIOUS
  <2>1. n \in late /\ n.expected # m.id /\ n.chunk \in Chunks
    BY <1>1, <1>2 DEF Ids
  <2> QED BY <1>3, <2>1 DEF Swaps
<1>5. Calm
  BY <1>1 DEF Calm, Firm, Logged
<1> QED BY <1>1, <1>2, <1>3, <1>4, <1>5

LEMMA LateFlows ==
    ASSUME Types, Ids, NEW m \in late, LateCommit(m)
    PROVE  Flows
<1>1. /\ m.chunk \in Chunks /\ late' = late \ {m} /\ flush' = flush
      /\ \A c \in Chunks \ {m.chunk} : rec'[c] = rec[c]
      /\ IF Swaps(m) THEN rec'[m.chunk].id = m.id /\ rec'[m.chunk].data = m.data ELSE rec' = rec
      /\ \A n \in late' : Swaps(n)' => Swaps(n)
  BY LateCommitIs
<1>2. \A c \in Chunks : Fetched(rec'[c].data, c)
  BY <1>1 DEF Fetched
<1>3. \A f \in Flushers : \A t \in flush[f].todo : Copied(t.data, t.chunk)
  BY DEF Copied
<1> QED BY <1>1, <1>2, <1>3 DEF Flows

\* A stop leaves the commits in flight.
LEMMA StoppedFlows ==
    ASSUME Types, Storing, rec' = rec, late' \subseteq late \cup InFlight, flush' = [f \in Flushers |-> NoFlush]
    PROVE  Flows
<1>1. \A c \in Chunks : Fetched(rec'[c].data, c)
  BY DEF Fetched
<1>2. ASSUME NEW m \in late', m \notin late PROVE Copied(m.data, m.chunk)
  <2>1. PICK f \in Flushers : flush[f].cur # NoChunk /\ m.chunk = flush[f].cur.chunk /\ m.data = flush[f].cur.data
    BY <1>2, InFlightIs
  <2>2. flush[f].cur \in flush[f].todo
    BY <2>1 DEF Storing
  <2> QED BY <2>1, <2>2 DEF Copied
<1>3. \A m \in late : Swaps(m)' => Swaps(m)
  BY DEF Swaps
<1>4. \A f \in Flushers : flush'[f].todo = {}
  BY Nothings
<1> QED BY <1>1, <1>2, <1>3, <1>4 DEF Flows

\* Commits of a flush.
LEMMA CommitFlows ==
    ASSUME Types, Storing, NEW f \in Flushers, CommitAnswered(f) \/ CommitLost(f)
    PROVE  Flows
<1>1. flush[f].cur # NoChunk /\ \E ok \in BOOLEAN : Answered(f, ok)
  BY DEF CommitAnswered, CommitLost, Swaps
<1>2. flush[f].cur \in flush[f].todo
  BY <1>1 DEF Storing
<1>3. \A g \in Flushers : \A t \in flush[g].todo : Copied(t.data, t.chunk)
  BY DEF Copied
<1>4. \A g \in Flushers : flush'[g].todo \subseteq flush[g].todo
  BY <1>1, AnsweredIs DEF Moves
<1>5. Copied(flush[f].cur.data, flush[f].cur.chunk)
  BY <1>2, <1>3
<1>6. CASE CommitAnswered(f)
  <2>1. /\ \A c \in Chunks \ {flush[f].cur.chunk} : rec'[c] = rec[c] /\ flush[f].cur.chunk \in Chunks
        /\ rec'[flush[f].cur.chunk].data = flush[f].cur.data \/ rec' = rec
        /\ late' = late /\ \A m \in late : Swaps(m)' => Swaps(m)
    BY <1>6, CommitAnsweredIs
  <2>2. \A c \in Chunks : Fetched(rec'[c].data, c)
    BY <1>5, <2>1 DEF Fetched
  <2> QED BY <1>3, <1>4, <2>1, <2>2 DEF Flows
<1>7. CASE CommitLost(f)
  <2>1. rec' = rec /\ late' = late \cup {Commit(f)}
    BY <1>7 DEF CommitLost
  <2>2. Copied(Commit(f).data, Commit(f).chunk)
    BY <1>1, <1>5, CommitType
  <2>3. \A c \in Chunks : Fetched(rec'[c].data, c)
    BY <2>1 DEF Fetched
  <2>4. \A m \in late : Swaps(m)' => Swaps(m)
    BY <2>1 DEF Swaps
  <2> QED BY <1>3, <1>4, <2>1, <2>2, <2>3, <2>4 DEF Flows
<1> QED BY <1>6, <1>7

\* The steps of a flush that mark nothing clean.
LEMMA FlushingIs ==
    ASSUME Types, Storing, NEW f \in Flushers, Flushing(f), ~StoresEnd(f)
    PROVE  /\ Calm /\ Flows
           /\ UNCHANGED <<acked, client, sequence, synced, syncing, refused>>
           /\ (flush[f].st \in {"idle", "waiting", "resolving", "storing", "flushed"} \/ KeepsJournal(f)
                 => UNCHANGED <<file, old, failed>>)
<1>1. ASSUME UNCHANGED <<writes, acked, loading, reading, client, stops>> /\ UNCHANGED memory PROVE Calm
  BY <1>1 DEF Calm, memory, Firm, Logged
<1>2. UNCHANGED <<writes, acked, loading, reading, client, stops>> /\ UNCHANGED memory
      /\ UNCHANGED <<sequence, synced, syncing, refused>>
  BY DEF Flushing, CaptureDue, TakeLock, FlushAll, CaptureAll, StoreBegin, StoreFails, CommitAnswered, CommitLost, Rotate,
         KeepsJournal, RotateEnds, FlushEnds, CreateSnapshot, journal
<1>3. Flows
  <2>1. ASSUME UNCHANGED <<rec, late>>, Moves(f),
               \A t \in flush'[f].todo : t \in flush[f].todo \/ (Whole(t.chunk) /\ t.data = cache[t.chunk].data)
        PROVE  Flows
    BY <2>1, StillFlows DEF Moves
  <2>2. ASSUME NEW due \in SUBSET Chunks, CaptureDue(f, due) PROVE Flows
    <3>1. Moves(f) /\ flush'[f].todo = {Captured(c) : c \in due} /\ due \subseteq Flushable /\ UNCHANGED <<rec, late>>
      BY <2>2, CaptureDueIs DEF CaptureDue, meta
    <3> QED BY <2>1, <3>1 DEF Captured, Flushable
  <2>3. CASE CaptureAll(f)
    <3>1. Moves(f) /\ flush'[f].todo = {Captured(c) : c \in Flushable} /\ UNCHANGED <<rec, late>>
      BY <2>3, CaptureAllIs DEF CaptureAll, meta
    <3> QED BY <2>1, <3>1 DEF Captured, Flushable
  <2>4. CASE TakeLock(f) \/ FlushAll(f) \/ StoreBegin(f) \/ StoreFails(f) \/ Rotate(f)
    <3>1. Moves(f) /\ flush'[f].todo \subseteq flush[f].todo
      BY <2>4, TakeLockIs, FlushAllIs, StoreBeginIs, StoreFailsIs, RotateIs
    <3>2. UNCHANGED <<rec, late>>
      BY <2>4 DEF TakeLock, FlushAll, StoreBegin, StoreFails, Rotate, meta
    <3> QED BY <2>1, <3>1, <3>2
  <2>5. CASE KeepsJournal(f) \/ (\E ok \in BOOLEAN : RotateEnds(f, ok)) \/ FlushEnds(f) \/ CreateSnapshot(f)
    <3>1. Rests(f) \/ (Moves(f) /\ flush'[f] = NoFlush)
      BY <2>5, RestsIs, EndsIs DEF KeepsJournal, RotateEnds, FlushEnds, CreateSnapshot
    <3>2. Moves(f) /\ flush'[f].todo \subseteq flush[f].todo
      BY <3>1, Nothings DEF Rests
    <3>3. UNCHANGED <<rec, late>>
      BY <2>5 DEF KeepsJournal, RotateEnds, FlushEnds, CreateSnapshot, meta
    <3> QED BY <2>1, <3>2, <3>3
  <2> QED BY <2>2, <2>3, <2>4, <2>5, CommitFlows DEF Flushing
<1>4. flush[f].st \in {"idle", "waiting", "resolving", "storing", "flushed"} \/ KeepsJournal(f) => UNCHANGED <<file, old, failed>>
  BY DEF Flushing, CaptureDue, TakeLock, FlushAll, CaptureAll, StoreBegin, StoreFails, CommitAnswered, CommitLost, Rotate,
         KeepsJournal, RotateEnds, FlushEnds, CreateSnapshot, journal
<1> QED BY <1>1, <1>2, <1>3, <1>4

-----------------------------------------------------------------------------
(* Writes.                                                                 *)

\* What is dirty stays so, and a new firm write is dirty.
Keeps == /\ Extends
         /\ \A w \in Firm' : w \in Firm \/ \A c \in Chunks : \A p \in PartsOf(w, c)' : Held(c, p)'
         /\ \A c \in Chunks, p \in Parts : Held(c, p) => Held(c, p)'

LEMMA KeepsBacks ==
    ASSUME Types, Keeps, NEW c \in Chunks, NEW data, Backs(data, c)
    PROVE  Backs(data, c)'
<1> SUFFICES ASSUME NEW w \in Firm', NEW p \in PartsOf(w, c)' PROVE data[p] >= w \/ Held(c, p)'
  BY DEF Backs
<1>1. CASE w \in Firm
  <2>1. p \in PartsOf(w, c) /\ p \in Parts
    BY <1>1, FirmIs, PartsStay DEF Keeps, PartsOf
  <2> QED BY <1>1, <2>1 DEF Backs, Keeps
<1>2. CASE w \notin Firm
  BY <1>2 DEF Keeps
<1> QED BY <1>1, <1>2

LEMMA KeepsBacked ==
    ASSUME Types, Keeps, UNCHANGED <<rec, late>>, Backed, Lates
    PROVE  Backed' /\ Lates'
<1>1. Backed'
  <2> SUFFICES ASSUME NEW c \in Chunks PROVE Backs(rec[c].data, c)'
    BY DEF Backed
  <2>1. PICK data : data = rec[c].data
    OBVIOUS
  <2>2. Backs(data, c)'
    BY <2>1, KeepsBacks DEF Backed
  <2> QED BY <2>1, <2>2 DEF Backs
<1>2. Lates'
  <2> SUFFICES ASSUME NEW m \in late, Swaps(m) PROVE Backs(m.data, m.chunk)'
    BY DEF Lates, Swaps
  <2>1. m.chunk \in Chunks
    BY TypesParts DEF TyMeta, Message
  <2> QED BY <2>1, KeepsBacks DEF Lates
<1> QED BY <1>1, <1>2

LEMMA KeepsLoads ==
    ASSUME Types, Keeps, Loads, NEW S \in SUBSET Chunks, \A c \in S : loading'[c] = loading[c],
           \A c \in S : cache[c].st # "none" => cache'[c].st # "none" /\ (Pending(c)' => Pending(c))
    PROVE  \A c \in S : loading'[c].there => cache'[c].st # "none" /\ (Pending(c)' => Backs(loading[c].data, c)')
<1> SUFFICES ASSUME NEW c \in S, loading'[c].there
             PROVE  cache'[c].st # "none" /\ (Pending(c)' => Backs(loading[c].data, c)')
  OBVIOUS
<1>1. PICK data : data = loading[c].data
  OBVIOUS
<1>2. cache[c].st # "none" /\ (Pending(c) => Backs(data, c))
  BY <1>1 DEF Loads
<1>3. Pending(c) => Backs(data, c)'
  BY <1>2, KeepsBacks
<1> QED BY <1>1, <1>2, <1>3 DEF Backs

\* A write of parts P of chunk c, numbered w.
LEMMA NewWrite ==
    ASSUME Types, NEW k \in Clients, NEW c \in Chunks, NEW P \in (SUBSET Parts) \ {{}},
           LogWrite(k, c, P) \/ \E whole \in BOOLEAN : AppendFails(k, c, P, whole)
    PROVE  \E w \in 1..MaxWrites :
           /\ w = Len(writes) + 1 /\ Extends /\ Len(writes) \in Nat /\ DOMAIN writes = 1..Len(writes) /\ DOMAIN writes' = 1..w
           /\ w \notin DOMAIN writes /\ (\A v \in DOMAIN writes : v < w)
           /\ writes'[w] = {c} \X P /\ PartsOf(w, c)' = P /\ (\A d \in Chunks \ {c} : PartsOf(w, d)' = {})
           /\ UNCHANGED <<acked, old, synced, syncing, loading, reading, flush, lock, rec, stripes, late, snap, refused, stops>>
<1>1. /\ writes' = Append(writes, {c} \X P) /\ Len(writes) + 1 <= MaxWrites
      /\ UNCHANGED <<acked, old, synced, syncing, loading, reading, flush, lock, rec, stripes, late, snap, refused, stops>>
  BY DEF LogWrite, AppendFails, meta
<1>2. /\ Len(writes) \in Nat /\ DOMAIN writes = 1..Len(writes) /\ DOMAIN writes' = 1..(Len(writes) + 1)
      /\ writes'[Len(writes) + 1] = {c} \X P /\ \A w \in DOMAIN writes : writes'[w] = writes[w]
  BY <1>1, TypesParts, Numbered
<1>3. PICK w : w = Len(writes) + 1
  OBVIOUS
<1>4. PartsOf(w, c)' = P /\ \A d \in Chunks \ {c} : PartsOf(w, d)' = {}
  BY <1>2, <1>3 DEF PartsOf
<1>5. Extends /\ w \in 1..MaxWrites
  BY <1>1, <1>2, <1>3 DEF Extends
<1> QED BY <1>1, <1>2, <1>3, <1>4, <1>5

\* A write in the journal is firm and dirty.
LEMMA LogWriteKeeps ==
    ASSUME Types, NEW k \in Clients, NEW c \in Chunks, NEW P \in (SUBSET Parts) \ {{}}, LogWrite(k, c, P),
           NEW w, w = Len(writes) + 1
    PROVE  /\ Keeps /\ Firm' = Firm \cup {w} /\ Logged' = Logged \cup {k} /\ k \notin Logged
           /\ client'[k].w = w /\ client'[k].upto = sequence + 1 /\ (\A l \in Logged : client'[l] = client[l])
<1>1. /\ client[k].st = "idle" /\ client' = [client EXCEPT ![k] = [st |-> "logged", upto |-> sequence + 1, w |-> w]]
      /\ acked' = acked
  BY DEF LogWrite
<1>2. /\ client'[k].w = w /\ client'[k].upto = sequence + 1 /\ client'[k].st = "logged"
      /\ \A l \in Clients \ {k} : client'[l] = client[l]
  BY <1>1, TypesParts DEF TyClients
<1>3. Logged' = Logged \cup {k} /\ k \notin Logged /\ \A l \in Logged : client'[l] = client[l]
  BY <1>1, <1>2 DEF Logged
<1>4. Firm' = Firm \cup {w}
  BY <1>1, <1>2, <1>3 DEF Firm
<1>5. Extends /\ PartsOf(w, c)' = P /\ (\A d \in Chunks \ {c} : PartsOf(w, d)' = {})
  BY NewWrite
<1>6. /\ Changes(c) /\ cache'[c].st = "dirty" /\ cache'[c].held = cache[c].held \cup P
  BY LogWriteIs
<1>7. \A d \in Chunks, p \in Parts : Held(d, p) => Held(d, p)'
  BY <1>6 DEF Held, Changes
<1>8. \A d \in Chunks : \A p \in PartsOf(w, d)' : Held(d, p)'
  <2> SUFFICES ASSUME NEW d \in Chunks, NEW p \in PartsOf(w, d)' PROVE Held(d, p)'
    OBVIOUS
  <2>1. d = c /\ p \in P
    BY <1>5
  <2> QED BY <1>6, <2>1 DEF Held
<1> QED BY <1>2, <1>3, <1>4, <1>5, <1>7, <1>8 DEF Keeps

LEMMA LogWriteStored ==
    ASSUME Types, Stored, NEW k \in Clients, NEW c \in Chunks, NEW P \in (SUBSET Parts) \ {{}}, LogWrite(k, c, P)
    PROVE  Stored'
<1>0. AllGenuine /\ Seen /\ Backed /\ Lates /\ Loads /\ Reads /\ First
  BY DEF Stored
<1>1. PICK w \in 1..MaxWrites :
           /\ w = Len(writes) + 1 /\ Extends /\ Len(writes) \in Nat /\ DOMAIN writes = 1..Len(writes) /\ DOMAIN writes' = 1..w
           /\ w \notin DOMAIN writes /\ (\A v \in DOMAIN writes : v < w)
           /\ writes'[w] = {c} \X P /\ PartsOf(w, c)' = P /\ (\A d \in Chunks \ {c} : PartsOf(w, d)' = {})
           /\ UNCHANGED <<acked, old, synced, syncing, loading, reading, flush, lock, rec, stripes, late, snap, refused, stops>>
  BY NewWrite
<1>2. Keeps /\ Firm' = Firm \cup {w}
  BY <1>1, LogWriteKeeps
<1>3. /\ Changes(c) /\ cache'[c].st = "dirty" /\ cache'[c].held = cache[c].held \cup P
      /\ \A p \in Parts : cache'[c].data[p] = IF p \in P THEN w ELSE cache[c].data[p]
  BY <1>1, LogWriteIs
<1>4. \A v \in Firm : v \in DOMAIN writes /\ v \in Nat /\ v < w /\ \A d : PartsOf(v, d)' = PartsOf(v, d)
  BY <1>1, FirmIs, PartsStay
<1>5. AllGenuine'
  <2>1. ASSUME NEW d \in Chunks PROVE Genuine(cache[d].data, d)'
    <3>1. CASE d # c
      <4>1. cache'[d] = cache[d]
        BY <1>3, <3>1 DEF Changes
      <4> QED BY <1>0, <1>1, <4>1 DEF AllGenuine, Genuine, Extends
    <3>2. CASE d = c
      <4> SUFFICES ASSUME NEW p \in Parts, cache'[c].data[p] # 0
                   PROVE  cache'[c].data[p] \in DOMAIN writes' /\ <<c, p>> \in writes'[cache'[c].data[p]]
        BY <3>2 DEF Genuine
      <4>1. CASE p \in P
        BY <1>1, <1>3, <4>1
      <4>2. CASE p \notin P
        BY <1>0, <1>1, <1>3, <4>2 DEF AllGenuine, Genuine, Extends
      <4> QED BY <4>1, <4>2
    <3> QED BY <3>1, <3>2
  <2> QED BY <1>0, <1>1, <2>1 DEF AllGenuine, Genuine, Extends
<1>6. Seen'
  <2> SUFFICES ASSUME NEW d \in Chunks, NEW v \in Firm', NEW p \in PartsOf(v, d)', p \in cache'[d].held
               PROVE  cache'[d].data[p] >= v
    BY DEF Seen
  <2>1. CASE v = w
    BY <1>1, <1>3, <2>1
  <2>2. CASE v \in Firm
    <3>1. p \in PartsOf(v, d) /\ p \in Parts /\ v < w
      BY <1>4, <2>2 DEF PartsOf
    <3>2. CASE d = c
      BY <1>0, <1>3, <1>4, <2>2, <3>1, <3>2 DEF Seen
    <3>3. CASE d # c
      BY <1>0, <1>3, <2>2, <3>1, <3>3 DEF Seen, Changes
    <3> QED BY <3>2, <3>3
  <2> QED BY <1>2, <2>1, <2>2
<1>7. Backed' /\ Lates'
  BY <1>0, <1>1, <1>2, KeepsBacked
<1>8. Loads'
  <2>1. \A d \in Chunks : cache[d].st # "none" => cache'[d].st # "none" /\ (Pending(d)' => Pending(d))
    <3> SUFFICES ASSUME NEW d \in Chunks, cache[d].st # "none" PROVE cache'[d].st # "none" /\ (Pending(d)' => Pending(d))
      OBVIOUS
    <3>1. CASE d = c
      BY <1>3, <3>1, TypesParts, ChunkType DEF Pending
    <3>2. CASE d # c
      BY <1>3, <3>2 DEF Pending, Changes
    <3> QED BY <3>1, <3>2
  <2> QED BY <1>0, <1>1, <1>2, <2>1, KeepsLoads DEF Loads
<1>9. Reads'
  <2> SUFFICES ASSUME NEW r \in Readers, reading[r] # NoRead
               PROVE  /\ reading[r].chunk \in Chunks /\ reading[r].had \subseteq acked
                      /\ \A v \in reading[r].had : \A p \in PartsOf(v, reading[r].chunk)' : reading[r].data[p] >= v
                      /\ cache'[reading[r].chunk].st = "none" =>
                            \A v \in Firm' : \A p \in PartsOf(v, reading[r].chunk)' : reading[r].data[p] >= v
    BY <1>1 DEF Reads, Covers, PartsOf
  <2>1. PICK d, H, data : d = reading[r].chunk /\ H = reading[r].had /\ data = reading[r].data
    OBVIOUS
  <2>2. d \in Chunks /\ H \subseteq acked /\ Covers(data, d, H) /\ (cache[d].st = "none" => Covers(data, d, Firm))
    BY <1>0, <2>1 DEF Reads
  <2>3. \A v \in H : \A p \in PartsOf(v, d)' : data[p] >= v
    BY <1>4, <2>2, FirmIs DEF Covers
  <2>4. cache'[d].st = "none" => d # c /\ cache[d].st = "none"
    BY <1>3, <2>2 DEF Changes
  <2>5. cache'[d].st = "none" => \A v \in Firm' : \A p \in PartsOf(v, d)' : data[p] >= v
    BY <1>1, <1>2, <1>4, <2>2, <2>4 DEF Covers
  <2> QED BY <1>1, <2>1, <2>2, <2>3, <2>5 DEF PartsOf
<1>10. First'
  <2>1. \A d \in Chunks : cache'[d].held # Parts => cache[d].held # Parts
    BY <1>3 DEF Changes
  <2> QED BY <1>0, <1>1, <2>1 DEF First
<1> QED BY <1>5, <1>6, <1>7, <1>8, <1>9, <1>10 DEF Stored

LEMMA AppendFailsStored ==
    ASSUME Types, Stored, NEW k \in Clients, NEW c \in Chunks, NEW P \in (SUBSET Parts) \ {{}},
           NEW whole \in BOOLEAN, AppendFails(k, c, P, whole)
    PROVE  Stored'
<1>0. AllGenuine /\ Seen /\ Backed /\ Lates /\ Loads /\ Reads /\ First
  BY DEF Stored
<1>1. /\ Extends
      /\ UNCHANGED <<acked, old, synced, syncing, loading, reading, flush, lock, rec, stripes, late, snap, refused, stops>>
  BY NewWrite
<1>2. UNCHANGED <<cache, versions>> /\ client' = client
  BY DEF AppendFails, memory
<1>3. Firm' = Firm /\ Keeps
  BY <1>1, <1>2 DEF Firm, Logged, Keeps, Held
<1>4. \A v \in Firm : \A d : PartsOf(v, d)' = PartsOf(v, d)
  BY <1>1, FirmIs, PartsStay
<1>5. AllGenuine'
  BY <1>0, <1>1, <1>2 DEF AllGenuine, Genuine, Extends
<1>6. Seen'
  BY <1>0, <1>2, <1>3, <1>4 DEF Seen
<1>7. Backed' /\ Lates'
  BY <1>0, <1>1, <1>3, KeepsBacked
<1>8. Loads'
  <2>1. \A d \in Chunks : cache[d].st # "none" => cache'[d].st # "none" /\ (Pending(d)' => Pending(d))
    BY <1>2 DEF Pending
  <2> QED BY <1>0, <1>1, <1>3, <2>1, KeepsLoads DEF Loads
<1>9. Reads'
  <2>1. \A r \in Readers : \A v \in reading[r].had : reading[r].had \subseteq acked => v \in Firm
    BY FirmIs
  <2> QED BY <1>0, <1>1, <1>2, <1>3, <1>4, <2>1 DEF Reads, Covers
<1>10. First'
  BY <1>0, <1>1, <1>2 DEF First
<1> QED BY <1>5, <1>6, <1>7, <1>8, <1>9, <1>10 DEF Stored

-----------------------------------------------------------------------------
(* Loads, reads, and chunks marked clean.                                  *)

\* The same writes, in the same chunks.
Same == UNCHANGED <<writes, acked, client, rec, stripes, late, flush, snap, stops, file, old, sequence, synced, failed, syncing, refused>>

LEMMA SameFirm == Same => Firm' = Firm /\ Extends /\ Logged' = Logged /\ \A w, c : PartsOf(w, c)' = PartsOf(w, c)
  BY DEF Same, Firm, Logged, Extends, PartsOf

LEMMA LoadingSame == Loading => Same
  BY DEF Loading, LoadBegin, resolve, ReadMisses, ReadEnds, Same, journal, meta

LEMMA LoadBeginStored ==
    ASSUME Types, Stored, NEW c \in Chunks, LoadBegin(c), Same
    PROVE  Stored'
<1>0. AllGenuine /\ Seen /\ Backed /\ Lates /\ Loads /\ Reads /\ First
  BY DEF Stored
<1>1. /\ Pending(c) /\ UNCHANGED <<cache, versions>> /\ reading' = reading
      /\ loading' = [loading EXCEPT ![c] = [there |-> TRUE, data |-> rec[c].data]]
  BY DEF LoadBegin, memory
<1>2. /\ loading'[c].data = rec[c].data /\ \A d \in Chunks \ {c} : loading'[d] = loading[d]
  BY <1>1, TypesParts DEF TyReads
<1>3. Firm' = Firm /\ Extends /\ \A w, d : PartsOf(w, d)' = PartsOf(w, d)
  BY SameFirm
<1>4. Keeps
  BY <1>1, <1>3 DEF Keeps, Held
<1>5. AllGenuine'
  <2>1. \A d \in Chunks : Genuine(loading'[d].data, d)
    BY <1>0, <1>2 DEF AllGenuine
  <2> QED BY <1>0, <1>1, <2>1 DEF AllGenuine, Genuine, Same
<1>6. Seen'
  BY <1>0, <1>1, <1>3 DEF Seen
<1>7. Backed' /\ Lates'
  BY <1>0, <1>4, KeepsBacked DEF Same
<1>8. Loads'
  <2> SUFFICES ASSUME NEW d \in Chunks, loading'[d].there
               PROVE  cache'[d].st # "none" /\ (Pending(d)' => Backs(loading[d].data, d)')
    BY DEF Loads
  <2>1. CASE d = c
    <3>1. Backs(rec[c].data, c)'
      BY <1>7 DEF Backed
    <3> QED BY <1>1, <1>2, <2>1, <3>1 DEF Pending, Backs, Same
  <2>2. CASE d # c
    <3>1. PICK S : S = Chunks \ {c}
      OBVIOUS
    <3>2. /\ S \in SUBSET Chunks /\ (\A e \in S : loading'[e] = loading[e])
          /\ \A e \in S : cache[e].st # "none" => cache'[e].st # "none" /\ (Pending(e)' => Pending(e))
      BY <1>1, <1>2, <3>1 DEF Pending
    <3>3. \A e \in S : loading'[e].there => cache'[e].st # "none" /\ (Pending(e)' => Backs(loading[e].data, e)')
      BY <1>0, <1>4, <3>2, KeepsLoads
    <3> QED BY <2>2, <3>1, <3>3
  <2> QED BY <2>1, <2>2
<1>9. Reads'
  BY <1>0, <1>1, <1>3 DEF Reads, Covers, Same
<1>10. First'
  BY <1>0, <1>1, <1>2 DEF First, Same
<1> QED BY <1>5, <1>6, <1>7, <1>8, <1>9, <1>10 DEF Stored

LEMMA ReadMissesStored ==
    ASSUME Types, Stored, NEW r \in Readers, NEW c \in Chunks, ReadMisses(r, c), Same
    PROVE  Stored'
<1>0. AllGenuine /\ Seen /\ Backed /\ Lates /\ Loads /\ Reads /\ First
  BY DEF Stored
<1>1. /\ cache[c].st = "none" /\ UNCHANGED <<cache, versions>> /\ loading' = loading
      /\ reading' = [reading EXCEPT ![r] = [chunk |-> c, data |-> rec[c].data, had |-> acked]]
  BY DEF ReadMisses, memory
<1>2. /\ reading'[r].chunk = c /\ reading'[r].data = rec[c].data /\ reading'[r].had = acked
      /\ \A q \in Readers \ {r} : reading'[q] = reading[q]
  BY <1>1, TypesParts DEF TyReads
<1>3. Firm' = Firm /\ Extends /\ \A w, d : PartsOf(w, d)' = PartsOf(w, d)
  BY SameFirm
<1>4. Keeps
  BY <1>1, <1>3 DEF Keeps, Held
<1>5. AllGenuine'
  <2>1. \A q \in Readers : Genuine(reading'[q].data, reading'[q].chunk)
    BY <1>0, <1>2 DEF AllGenuine
  <2> QED BY <1>0, <1>1, <2>1 DEF AllGenuine, Genuine, Same
<1>6. Seen'
  BY <1>0, <1>1, <1>3 DEF Seen
<1>7. Backed' /\ Lates'
  BY <1>0, <1>4, KeepsBacked DEF Same
<1>8. Loads'
  <2>1. \A d \in Chunks : cache[d].st # "none" => cache'[d].st # "none" /\ (Pending(d)' => Pending(d))
    BY <1>1 DEF Pending
  <2> QED BY <1>0, <1>1, <1>4, <2>1, KeepsLoads DEF Loads
<1>9. Reads'
  <2> SUFFICES ASSUME NEW q \in Readers, reading'[q] # NoRead
               PROVE  /\ reading'[q].chunk \in Chunks /\ reading'[q].had \subseteq acked
                      /\ Covers(reading'[q].data, reading'[q].chunk, reading'[q].had)
                      /\ cache[reading'[q].chunk].st = "none" => Covers(reading'[q].data, reading'[q].chunk, Firm)
    BY <1>1, <1>3 DEF Reads, Covers, Same
  <2>1. CASE q = r
    <3>1. \A p : ~Held(c, p)
      BY <1>1 DEF Held
    <3>2. Covers(rec[c].data, c, Firm)
      BY <1>0, <3>1 DEF Backed, Backs, Covers
    <3>3. Covers(rec[c].data, c, acked)
      BY <3>2, FirmIs DEF Covers
    <3> QED BY <1>2, <2>1, <3>2, <3>3
  <2>2. CASE q # r
    BY <1>0, <1>2, <2>2 DEF Reads
  <2> QED BY <2>1, <2>2
<1>10. First'
  BY <1>0, <1>1, <1>2 DEF First, Same
<1> QED BY <1>5, <1>6, <1>7, <1>8, <1>9, <1>10 DEF Stored

LEMMA ResolveStored ==
    ASSUME Types, Stored, NEW c \in Chunks, resolve(c), Same
    PROVE  Stored'
<1>0. AllGenuine /\ Seen /\ Backed /\ Lates /\ Loads /\ Reads /\ First
  BY DEF Stored
<1>1. loading[c].there /\ reading' = reading /\ loading' = [loading EXCEPT ![c] = NoLoad]
  BY DEF resolve
<1>2. /\ ~loading'[c].there /\ loading'[c].data = Zeros /\ \A d \in Chunks \ {c} : loading'[d] = loading[d]
  BY <1>1, TypesParts DEF TyReads, NoLoad
<1>3. Firm' = Firm /\ Extends /\ \A w, d : PartsOf(w, d)' = PartsOf(w, d)
  BY SameFirm
<1>4. \/ cache' = cache
      \/ /\ Pending(c) /\ Changes(c) /\ cache'[c].st = "dirty" /\ cache'[c].held = Parts
         /\ \A p \in Parts : cache'[c].data[p] = IF p \in cache[c].held THEN cache[c].data[p] ELSE loading[c].data[p]
  BY ResolveIs DEF resolve, memory
<1>5. Keeps
  BY <1>3, <1>4 DEF Keeps, Held, Changes
<1>6. AllGenuine'
  <2>1. \A d \in Chunks : Genuine(loading'[d].data, d)
    <3>1. \A p \in Parts : Zeros[p] = 0
      BY DEF Zeros
    <3> QED BY <1>0, <1>2, <3>1 DEF AllGenuine, Genuine
  <2>2. \A d \in Chunks : Genuine(cache'[d].data, d)
    BY <1>0, <1>4 DEF AllGenuine, Genuine, Changes
  <2> QED BY <1>0, <1>1, <2>1, <2>2 DEF AllGenuine, Genuine, Same
<1>7. Seen'
  <2>1. CASE cache' = cache
    BY <1>0, <1>3, <2>1 DEF Seen
  <2>2. CASE cache' # cache
    <3> SUFFICES ASSUME NEW d \in Chunks, NEW w \in Firm, NEW p \in PartsOf(w, d), p \in cache'[d].held
                 PROVE  cache'[d].data[p] >= w
      BY <1>3 DEF Seen
    <3>1. CASE d # c
      BY <1>0, <1>4, <2>2, <3>1 DEF Seen, Changes
    <3>2. CASE d = c
      <4>1. Backs(loading[c].data, c) /\ p \in Parts
        BY <1>0, <1>1, <1>4, <2>2 DEF Loads, PartsOf
      <4> QED BY <1>0, <1>4, <2>2, <3>2, <4>1 DEF Seen, Backs, Held
    <3> QED BY <3>1, <3>2
  <2> QED BY <2>1, <2>2
<1>8. Backed' /\ Lates'
  BY <1>0, <1>5, KeepsBacked DEF Same
<1>9. Loads'
  <2>1. PICK S : S = Chunks \ {c}
    OBVIOUS
  <2>2. /\ S \in SUBSET Chunks /\ (\A e \in S : loading'[e] = loading[e])
        /\ \A e \in S : cache[e].st # "none" => cache'[e].st # "none" /\ (Pending(e)' => Pending(e))
    BY <1>2, <1>4, <2>1 DEF Pending, Changes
  <2>3. \A e \in S : loading'[e].there => cache'[e].st # "none" /\ (Pending(e)' => Backs(loading[e].data, e)')
    BY <1>0, <1>5, <2>2, KeepsLoads
  <2> QED BY <1>2, <2>1, <2>3 DEF Loads
<1>10. Reads'
  <2>1. \A d \in Chunks : cache'[d].st = "none" => cache[d].st = "none"
    BY <1>4 DEF Changes
  <2> QED BY <1>0, <1>1, <1>3, <2>1 DEF Reads, Covers, Same
<1>11. First'
  <2>1. \A d \in Chunks : cache'[d].held # Parts => cache[d].held # Parts
    BY <1>4 DEF Changes
  <2>2. \A d \in Chunks : loading[d].data = Zeros => loading'[d].data = Zeros
    BY <1>2
  <2> QED BY <1>0, <1>1, <2>1, <2>2 DEF First, Same
<1> QED BY <1>6, <1>7, <1>8, <1>9, <1>10, <1>11 DEF Stored

LEMMA ReadEndsStored ==
    ASSUME Types, Stored, NEW r \in Readers, ReadEnds(r), Same
    PROVE  Stored'
<1>0. AllGenuine /\ Seen /\ Backed /\ Lates /\ Loads /\ Reads /\ First
  BY DEF Stored
<1>1. loading' = loading /\ reading[r] # NoRead /\ reading' = [reading EXCEPT ![r] = NoRead]
  BY DEF ReadEnds
<1>2. reading'[r] = NoRead /\ \A q \in Readers \ {r} : reading'[q] = reading[q]
  BY <1>1, TypesParts DEF TyReads
<1>3. Firm' = Firm /\ Extends /\ \A w, d : PartsOf(w, d)' = PartsOf(w, d)
  BY SameFirm
<1>4. PICK c \in Chunks : /\ c = reading[r].chunk /\ (cache[c].st = "none" => Covers(reading[r].data, c, Firm))
  BY <1>0, <1>1 DEF Reads
<1>5. \/ cache' = cache
      \/ /\ cache[c].st = "none" /\ Changes(c) /\ cache'[c].st = "clean" /\ cache'[c].held = Parts
         /\ cache'[c].data = reading[r].data
  BY <1>4, ReadEndsIs DEF ReadEnds, add_clean
<1>6. Keeps
  BY <1>3, <1>5 DEF Keeps, Held, Changes
<1>7. AllGenuine'
  <2>1. \A q \in Readers : Genuine(reading'[q].data, reading'[q].chunk)
    <3>1. \A p \in Parts : NoRead.data[p] = 0
      BY DEF NoRead, Zeros
    <3> QED BY <1>0, <1>2, <3>1 DEF AllGenuine, Genuine
  <2>2. \A d \in Chunks : Genuine(cache'[d].data, d)
    BY <1>0, <1>4, <1>5 DEF AllGenuine, Changes
  <2> QED BY <1>0, <1>1, <2>1, <2>2 DEF AllGenuine, Genuine, Same
<1>8. Seen'
  <2>1. CASE cache' = cache
    BY <1>0, <1>3, <2>1 DEF Seen
  <2>2. CASE cache' # cache
    BY <1>0, <1>3, <1>4, <1>5, <2>2 DEF Seen, Covers, Changes
  <2> QED BY <2>1, <2>2
<1>9. Backed' /\ Lates'
  BY <1>0, <1>6, KeepsBacked DEF Same
<1>10. Loads'
  <2>1. \A d \in Chunks : cache[d].st # "none" => cache'[d].st # "none" /\ (Pending(d)' => Pending(d))
    BY <1>5 DEF Pending, Changes
  <2> QED BY <1>0, <1>1, <1>6, <2>1, KeepsLoads DEF Loads
<1>11. Reads'
  <2>1. \A d \in Chunks : cache'[d].st = "none" => cache[d].st = "none"
    BY <1>5 DEF Changes
  <2>2. \A q \in Readers : reading'[q] # NoRead => reading'[q] = reading[q]
    BY <1>2
  <2> QED BY <1>0, <1>3, <2>1, <2>2 DEF Reads, Covers, Same
<1>12. First'
  <2>1. \A d \in Chunks : cache'[d].held # Parts => cache[d].held # Parts
    BY <1>5 DEF Changes
  <2>2. \A q \in Readers : reading'[q].data = Zeros \/ reading'[q] = reading[q]
    BY <1>2 DEF NoRead
  <2> QED BY <1>0, <1>1, <2>1, <2>2 DEF First, Same
<1> QED BY <1>7, <1>8, <1>9, <1>10, <1>11, <1>12 DEF Stored

\* A chunk marked clean is stored as it is, and no late commit replaces it.
LEMMA StoresEndStored ==
    ASSUME Types, Stored, Done, NEW f \in Flushers, StoresEnd(f)
    PROVE  Stored'
<1>0. AllGenuine /\ Seen /\ Backed /\ Lates /\ Loads /\ Reads /\ First
  BY DEF Stored
<1>1. /\ UNCHANGED <<writes, acked, client, loading, reading, rec, late, stops>> /\ mark_flushed(flush[f].done)
      /\ Moves(f) /\ flush'[f].todo = {}
  BY StoresEndIs DEF StoresEnd, meta
<1>2. Firm' = Firm /\ \A w, d : PartsOf(w, d)' = PartsOf(w, d)
  BY <1>1 DEF Firm, Logged, PartsOf
<1>3. ASSUME NEW c \in Chunks
      PROVE  /\ cache'[c].held = cache[c].held /\ cache'[c].data = cache[c].data
             /\ \/ cache'[c] = cache[c]
                \/ /\ cache[c].st = "dirty" /\ <<c, cache[c].ver>> \in flush[f].done
                   /\ cache'[c].st = "clean"
  BY <1>1, TypesParts, MarkFlushedIs
<1>4. ASSUME NEW c \in Chunks, <<c, cache[c].ver>> \in flush[f].done
      PROVE  /\ rec[c].data = cache[c].data /\ cache[c].held = Parts
             /\ \A m \in late : m.chunk = c => ~Swaps(m)
  BY <1>4, TypesParts DEF Done, TyTaken, TakenBy
<1>5. AllGenuine'
  <2>1. \A data, c : Genuine(data, c)' = Genuine(data, c)
    BY <1>1 DEF Genuine
  <2>2. \A g \in Flushers : flush'[g].todo \subseteq flush[g].todo
    BY <1>1 DEF Moves
  <2>3. \A c \in Chunks : cache'[c].data = cache[c].data
    BY <1>3
  <2> QED BY <1>0, <1>1, <2>1, <2>2, <2>3 DEF AllGenuine
<1>6. Seen'
  BY <1>0, <1>2, <1>3 DEF Seen
<1>7. Backed'
  <2> SUFFICES ASSUME NEW c \in Chunks, NEW w \in Firm, NEW p \in PartsOf(w, c) PROVE rec[c].data[p] >= w \/ Held(c, p)'
    BY <1>1, <1>2 DEF Backed, Backs
  <2>1. rec[c].data[p] >= w \/ Held(c, p)
    BY <1>0 DEF Backed, Backs
  <2>2. CASE cache'[c] = cache[c]
    BY <2>1, <2>2 DEF Held
  <2>3. CASE <<c, cache[c].ver>> \in flush[f].done
    BY <1>0, <1>4, <2>3 DEF Seen, PartsOf
  <2> QED BY <1>3, <2>2, <2>3
<1>8. Lates'
  <2> SUFFICES ASSUME NEW m \in late, Swaps(m), NEW w \in Firm, NEW p \in PartsOf(w, m.chunk)
               PROVE  m.data[p] >= w \/ Held(m.chunk, p)'
    BY <1>1, <1>2 DEF Lates, Backs, Swaps
  <2>1. m.chunk \in Chunks
    BY TypesParts DEF TyMeta, Message
  <2>2. cache'[m.chunk] = cache[m.chunk]
    BY <1>3, <1>4, <2>1
  <2> QED BY <1>0, <2>2 DEF Lates, Backs, Held
<1>9. Loads'
  <2> SUFFICES ASSUME NEW c \in Chunks, loading[c].there
               PROVE  cache'[c].st # "none" /\ (Pending(c)' => Backs(loading[c].data, c)')
    BY <1>1 DEF Loads
  <2>1. cache[c].st # "none" /\ (Pending(c) => Backs(loading[c].data, c))
    BY <1>0 DEF Loads
  <2>2. cache'[c].st # "none" /\ (Pending(c)' => cache'[c] = cache[c] /\ Pending(c))
    BY <1>3, <2>1 DEF Pending
  <2> QED BY <1>1, <1>2, <2>1, <2>2 DEF Backs, Held
<1>10. Reads'
  <2>1. \A d \in Chunks : cache'[d].st = "none" => cache[d].st = "none"
    BY <1>3
  <2> QED BY <1>0, <1>1, <1>2, <2>1 DEF Reads, Covers
<1>11. First'
  BY <1>0, <1>1, <1>3 DEF First
<1> QED BY <1>5, <1>6, <1>7, <1>8, <1>9, <1>10, <1>11 DEF Stored

-----------------------------------------------------------------------------
(* Stops.                                                                  *)

\* What is safe in the first n entries is safe in more.
LEMMA SafeMore ==
    ASSUME NEW j, NEW m \in Nat, NEW n \in Nat, m <= n, NEW w, Safe(j, m, w)
    PROVE  Safe(j, n, w)
  BY DEF Safe

LEMMA SafeInPrefix ==
    ASSUME NEW j \in Journal, NEW h \in Journal, NEW n \in Nat, n <= Len(h.entries), Len(h.entries) <= Len(j.entries),
           \A i \in 1..Len(h.entries) : h.entries[i] = j.entries[i], NEW w, Safe(j, n, w)
    PROVE  Safe(h, Len(h.entries), w)
<1>1. Len(h.entries) \in Nat /\ Len(j.entries) \in Nat
  BY JournalType
<1>2. \A i \in 1..Len(h.entries) : i \in 1..Len(j.entries)
  BY <1>1
<1>3. \A i \in 1..n : i \in 1..Len(h.entries)
  BY <1>1
<1>4. CASE \E i \in 1..n : j.entries[i] = w
  BY <1>3, <1>4 DEF Safe
<1>5. CASE Settled(w) /\ \A i \in 1..Len(j.entries) : j.entries[i] > w
  BY <1>2, <1>5 DEF Safe
<1> QED BY <1>4, <1>5 DEF Safe

LEMMA OrderedPrefix ==
    ASSUME NEW j \in Journal, NEW h \in Journal, Len(h.entries) <= Len(j.entries),
           \A i \in 1..Len(h.entries) : h.entries[i] = j.entries[i], Ordered(j)
    PROVE  Ordered(h)
<1>1. Len(h.entries) \in Nat /\ Len(j.entries) \in Nat
  BY JournalType
<1>2. \A i \in 1..Len(h.entries) : i \in 1..Len(j.entries)
  BY <1>1
<1>3. \A i \in 1..Len(h.entries) : h.entries[i] \in DOMAIN writes
  BY <1>2 DEF Ordered
<1>4. ASSUME NEW i \in 1..Len(h.entries), NEW n \in 1..Len(h.entries), i < n PROVE h.entries[i] < h.entries[n]
  <2>1. j.entries[i] < j.entries[n]
    BY <1>2, <1>4 DEF Ordered
  <2> QED BY <2>1
<1> QED BY <1>3, <1>4 DEF Ordered

\* The gateway starts on a journal in which what was acknowledged is safe.
LEMMA StopsIs ==
    ASSUME IInv, Scope, Stops
    PROVE  \E h \in Journal :
              /\ Started(h) /\ Ordered(h) /\ h.durable <= Len(h.entries) /\ h.durable \in Nat
              /\ \A w \in acked : Safe(h, h.durable, w)
              /\ old' = NoFile \/ (UNCHANGED old /\ "power" \notin Faults)
<1>0. Types /\ Journaled /\ Durable /\ Older
  BY IInvParts
<1>1. CASE Kill
  <2>1. Started(file) /\ old' = old /\ "kill" \in Faults
    BY <1>1 DEF Kill, Fault
  <2>2. file \in Journal /\ file.durable <= Len(file.entries) /\ file.durable \in Nat
    BY <1>0, TypesParts, JournalType DEF TyJournal
  <2> QED BY <1>0, <2>1, <2>2 DEF Journaled, Durable, Scope, OneFault
<1>2. ASSUME NEW j \in {file, old}, NEW kept \in SUBSET ((j.durable + 1)..Len(j.entries)), j.there, PowerCut(j, kept)
      PROVE  \E h \in Journal :
              /\ Started(h) /\ Ordered(h) /\ h.durable <= Len(h.entries) /\ h.durable \in Nat
              /\ \A w \in acked : Safe(h, h.durable, w)
              /\ old' = NoFile
  <2>1. PICK h \in Journal :
              /\ Started(h) /\ Fault("power") /\ old' = NoFile /\ h.durable = Len(h.entries)
              /\ j.durable <= Len(h.entries) /\ Len(h.entries) <= Len(j.entries)
              /\ \A i \in 1..Len(h.entries) : h.entries[i] = j.entries[i]
    BY <1>0, <1>2, CutIs
  <2>2. j \in Journal /\ j.durable \in Nat /\ Len(h.entries) \in Nat
    BY <1>0, TypesParts, JournalType DEF TyJournal
  <2>3. Ordered(j)
    BY <1>0 DEF Journaled
  <2>4. \A w \in acked : Safe(j, j.durable, w)
    <3>1. "power" \in Faults
      BY <2>1 DEF Fault
    <3>2. CASE j = file
      BY <1>0, <3>2 DEF Durable
    <3>3. CASE j = old
      BY <1>0, <1>2, <3>1, <3>3 DEF Older
    <3> QED BY <3>2, <3>3
  <2>5. Ordered(h)
    BY <2>1, <2>2, <2>3, OrderedPrefix
  <2>6. \A w \in acked : Safe(h, Len(h.entries), w)
    BY <2>1, <2>2, <2>4, SafeInPrefix
  <2> QED BY <2>1, <2>2, <2>5, <2>6
<1> QED BY <1>1, <1>2 DEF Stops

\* What was acknowledged is in the cache that replaying leaves, or settled.
LEMMA ReplayedHas ==
    ASSUME Types, NEW h \in Journal, Ordered(h), NEW w \in acked, Safe(h, Len(h.entries), w), NEW c \in Chunks, NEW p \in PartsOf(w, c)
    PROVE  LET e == Replayed(h.entries)[c] IN
           /\ p \in e.held => e.data[p] >= w
           /\ SettledAt(w, c) \/ p \in e.held
<1>1. PICK s : s = h.entries
  OBVIOUS
<1>2. s \in Seq(1..MaxWrites) /\ Len(s) \in Nat /\ w \in Nat /\ p \in Parts
  BY <1>1, JournalType, FirmIs DEF PartsOf
<1>3. /\ p \in Replayed(s)[c].held <=> \E i \in 1..Len(s) : p \in PartsOf(s[i], c)
      /\ p \in Replayed(s)[c].held =>
            \E i \in 1..Len(s) : /\ p \in PartsOf(s[i], c) /\ Replayed(s)[c].data[p] = s[i]
                                 /\ \A j \in 1..Len(s) : p \in PartsOf(s[j], c) => j <= i
  BY <1>2, TypesParts, ReplayedIs
<1>4. \A i \in 1..Len(s) : s[i] \in Nat
  BY <1>1, JournalType
<1>5. \A i, n \in 1..Len(s) : i < n => s[i] < s[n]
  BY <1>1 DEF Ordered
<1>6. CASE \E i \in 1..Len(s) : s[i] = w
  <2>1. PICK i \in 1..Len(s) : s[i] = w
    BY <1>6
  <2>2. p \in Replayed(s)[c].held
    BY <1>3, <2>1
  <2>3. PICK n \in 1..Len(s) : Replayed(s)[c].data[p] = s[n] /\ \A j \in 1..Len(s) : p \in PartsOf(s[j], c) => j <= n
    BY <1>3, <2>2
  <2>4. i <= n
    BY <2>1, <2>3
  <2>5. s[n] >= w
    BY <1>2, <1>4, <1>5, <2>1, <2>4
  <2> QED BY <1>1, <2>2, <2>3, <2>5
<1>7. CASE Settled(w) /\ \A i \in 1..Len(s) : s[i] > w
  <2>1. p \in Replayed(s)[c].held => Replayed(s)[c].data[p] >= w
    BY <1>2, <1>3, <1>4, <1>7
  <2> QED BY <1>1, <1>7, <2>1 DEF Settled
<1> QED BY <1>1, <1>6, <1>7 DEF Safe

LEMMA StartedStored ==
    ASSUME Types, Stored, Storing, NEW h \in Journal, Started(h), Ordered(h), \A w \in acked : Safe(h, Len(h.entries), w)
    PROVE  Stored'
<1>0. AllGenuine /\ Seen /\ Backed /\ Lates /\ Loads /\ Reads /\ First
  BY DEF Stored
<1>1. /\ cache' = Replayed(h.entries)
      /\ loading' = [c \in Chunks |-> NoLoad] /\ reading' = [r \in Readers |-> NoRead] /\ Logged' = {}
      /\ flush' = [f \in Flushers |-> NoFlush] /\ stops' = stops + 1 /\ UNCHANGED <<writes, acked, rec>>
      /\ late' \subseteq late \cup InFlight
  BY StartedIs
<1>2. Firm' = acked /\ \A w, d : PartsOf(w, d)' = PartsOf(w, d)
  BY <1>1 DEF Firm, PartsOf
<1>3. /\ \A c \in Chunks : ~loading'[c].there /\ loading'[c].data = Zeros
      /\ \A r \in Readers : reading'[r] = NoRead /\ reading'[r].data = Zeros
      /\ \A f \in Flushers : flush'[f].todo = {}
  BY <1>1, Nothings DEF NoLoad, NoRead
<1>4. \A p \in Parts : Zeros[p] = 0
  BY DEF Zeros
<1>5. PICK s : s = h.entries
  OBVIOUS
<1>6. s \in Seq(1..MaxWrites) /\ Len(s) \in Nat
  BY <1>5, JournalType
<1>7. ASSUME NEW c \in Chunks
      PROVE  /\ cache'[c].st = (IF cache'[c].held = {} THEN "none" ELSE "dirty")
             /\ \A p \in Parts : /\ p \notin cache'[c].held => cache'[c].data[p] = 0
                                 /\ p \in cache'[c].held =>
                                      \E i \in 1..Len(s) : p \in PartsOf(s[i], c) /\ cache'[c].data[p] = s[i]
  <2>1. /\ Replayed(s)[c].st = (IF Replayed(s)[c].held = {} THEN "none" ELSE "dirty")
        /\ \A p \in Parts : /\ p \notin Replayed(s)[c].held => Replayed(s)[c].data[p] = 0
                            /\ p \in Replayed(s)[c].held =>
                                 \E i \in 1..Len(s) : p \in PartsOf(s[i], c) /\ Replayed(s)[c].data[p] = s[i]
    BY <1>6, TypesParts, ReplayedIs
  <2> QED BY <1>1, <1>5, <2>1
<1>8. \A c \in Chunks : \A w \in acked : \A p \in PartsOf(w, c) :
         /\ p \in cache'[c].held => cache'[c].data[p] >= w
         /\ SettledAt(w, c) \/ p \in cache'[c].held
  BY <1>1, ReplayedHas
<1>8a. ASSUME NEW m \in late', m \notin late
       PROVE  \E f \in Flushers : \E t \in flush[f].todo : t.chunk = m.chunk /\ t.data = m.data
  <2>1. PICK f \in Flushers : flush[f].cur # NoChunk /\ m.chunk = flush[f].cur.chunk /\ m.data = flush[f].cur.data
    BY <1>1, <1>8a, InFlightIs
  <2>2. flush[f].cur \in flush[f].todo
    BY <2>1 DEF Storing
  <2> QED BY <2>1, <2>2
<1>8b. \A m \in late' : m.chunk \in Chunks
  BY <1>1, InFlightIs, TypesParts DEF TyMeta, Message
<1>9. AllGenuine'
  <2>1. \A c \in Chunks : Genuine(cache'[c].data, c)
    <3> SUFFICES ASSUME NEW c \in Chunks, NEW p \in Parts, cache'[c].data[p] # 0
                 PROVE  cache'[c].data[p] \in DOMAIN writes /\ <<c, p>> \in writes[cache'[c].data[p]]
      BY DEF Genuine
    <3>1. PICK i \in 1..Len(s) : p \in PartsOf(s[i], c) /\ cache'[c].data[p] = s[i]
      BY <1>7
    <3> QED BY <1>5, <3>1 DEF PartsOf, Ordered
  <2>2. \A m \in late' : Genuine(m.data, m.chunk)
    BY <1>0, <1>8a DEF AllGenuine
  <2> QED BY <1>0, <1>1, <1>3, <1>4, <2>1, <2>2 DEF AllGenuine, Genuine
<1>10. Seen'
  BY <1>2, <1>8 DEF Seen
<1>11. \A c \in Chunks : \A p \in cache'[c].held : Held(c, p)'
  BY <1>7 DEF Held
<1>12. Backed'
  <2> SUFFICES ASSUME NEW c \in Chunks, NEW w \in acked, NEW p \in PartsOf(w, c) PROVE rec[c].data[p] >= w \/ Held(c, p)'
    BY <1>1, <1>2 DEF Backed, Backs
  <2>1. SettledAt(w, c) \/ p \in cache'[c].held
    BY <1>8
  <2> QED BY <1>11, <2>1 DEF SettledAt
<1>13. Lates'
  <2> SUFFICES ASSUME NEW m \in late', rec[m.chunk].id = m.expected, NEW w \in acked, NEW p \in PartsOf(w, m.chunk)
               PROVE  m.data[p] >= w \/ Held(m.chunk, p)'
    BY <1>1, <1>2 DEF Lates, Backs, Swaps
  <2>1. m.chunk \in Chunks
    BY <1>8b
  <2>2. SettledAt(w, m.chunk) \/ p \in cache'[m.chunk].held
    BY <1>8, <2>1
  <2>3. CASE m \in late
    BY <1>11, <2>1, <2>2, <2>3 DEF SettledAt, Swaps
  <2>4. CASE m \notin late
    <3>1. PICK f \in Flushers : \E t \in flush[f].todo : t.chunk = m.chunk /\ t.data = m.data
      BY <1>8a, <2>4
    <3> QED BY <1>11, <2>1, <2>2, <3>1 DEF SettledAt
  <2> QED BY <2>3, <2>4
<1>14. Loads' /\ Reads'
  BY <1>3 DEF Loads, Reads
<1>15. First'
  BY <1>1, TypesParts DEF First, TyFaults
<1> QED BY <1>9, <1>10, <1>12, <1>13, <1>14, <1>15 DEF Stored

-----------------------------------------------------------------------------
(* Stored and Flows, through every step.                                   *)

\* A step of the volume is one of these.
LEMMA Steps ==
    ASSUME Next
    PROVE  \/ \E k \in Clients, c \in Chunks, P \in (SUBSET Parts) \ {{}} : LogWrite(k, c, P)
           \/ \E k \in Clients, c \in Chunks, P \in (SUBSET Parts) \ {{}}, whole \in BOOLEAN : AppendFails(k, c, P, whole)
           \/ \E k \in Clients : Waits(k)
           \/ \E f \in Flushers : Flushing(f) /\ ~StoresEnd(f)
           \/ \E f \in Flushers : StoresEnd(f)
           \/ \E m \in late : LateCommit(m)
           \/ Loading
           \/ Stops
  BY DEF Next, Writing, Flushing, Waits

LEMMA NextFlows ==
    ASSUME IInv, Scope, Next
    PROVE  Flows /\ Extends
<1>0. Types /\ Storing /\ Ids /\ Journaled
  BY IInvParts
<1>1. ASSUME NEW k \in Clients, NEW c \in Chunks, NEW P \in (SUBSET Parts) \ {{}},
             LogWrite(k, c, P) \/ \E whole \in BOOLEAN : AppendFails(k, c, P, whole)
      PROVE  Flows /\ Extends
  <2>1. Extends /\ rec' = rec /\ late' = late /\ flush' = flush
    BY <1>0, <1>1, NewWrite
  <2> QED BY <2>1, StillFlows
<1>2. ASSUME NEW k \in Clients, Waits(k) PROVE Flows /\ Extends
  <2>1. writes' = writes /\ rec' = rec /\ late' = late /\ flush' = flush
    BY <1>0, <1>2, WaitsIs
  <2> QED BY <2>1, StillFlows DEF Extends
<1>3. ASSUME NEW f \in Flushers, Flushing(f), ~StoresEnd(f) PROVE Flows /\ Extends
  BY <1>0, <1>3, FlushingIs, CalmExtends
<1>4. ASSUME NEW f \in Flushers, StoresEnd(f) PROVE Flows /\ Extends
  <2>1. writes' = writes /\ rec' = rec /\ late' = late /\ Moves(f) /\ flush'[f].todo = {}
    BY <1>0, <1>4, StoresEndIs DEF StoresEnd, meta
  <2> QED BY <2>1, StillFlows DEF Extends, Moves
<1>5. ASSUME NEW m \in late, LateCommit(m) PROVE Flows /\ Extends
  BY <1>0, <1>5, LateFlows, LateCommitIs, CalmExtends
<1>6. CASE Loading
  <2>1. rec' = rec /\ late' = late /\ flush' = flush
    BY <1>6, LoadingSame DEF Same
  <2> QED BY <1>6, <2>1, StillFlows, LoadingSame, SameFirm
<1>7. CASE Stops
  <2>1. PICK h \in Journal : Started(h)
    BY <1>7, StopsIs
  <2>2. /\ UNCHANGED <<writes, rec>> /\ flush' = [f \in Flushers |-> NoFlush] /\ late' \subseteq late \cup InFlight
    BY <1>0, <2>1, StartedIs
  <2> QED BY <1>0, <2>2, StoppedFlows DEF Extends
<1> QED BY <1>1, <1>2, <1>3, <1>4, <1>5, <1>6, <1>7, Steps

LEMMA NextStored ==
    ASSUME IInv, Scope, Next
    PROVE  Stored'
<1>0. Types /\ Stored /\ Storing /\ Ids /\ Copies /\ Done /\ Flows /\ Types'
  BY IInvParts, NextFlows, TypesStep DEF IInv
<1>1. ASSUME Calm PROVE Stored'
  BY <1>0, <1>1, CalmStored
<1>2. ASSUME NEW k \in Clients, Waits(k) PROVE Stored'
  BY <1>0, <1>1, <1>2, WaitsIs DEF Calm
<1>3. CASE Loading
  <2>1. Same
    BY <1>3, LoadingSame
  <2> QED BY <1>0, <1>3, <2>1, LoadBeginStored, ResolveStored, ReadMissesStored, ReadEndsStored DEF Loading
<1>4. CASE Stops
  <2>1. PICK h \in Journal : /\ Started(h) /\ Ordered(h) /\ h.durable <= Len(h.entries) /\ h.durable \in Nat
                             /\ \A w \in acked : Safe(h, h.durable, w)
    BY <1>4, StopsIs
  <2>2. \A w \in acked : Safe(h, Len(h.entries), w)
    BY <2>1, SafeMore, JournalType
  <2> QED BY <1>0, <2>1, <2>2, StartedStored
<1>5. ASSUME NEW f \in Flushers, Flushing(f), ~StoresEnd(f) PROVE Stored'
  BY <1>0, <1>1, <1>5, FlushingIs
<1>6. ASSUME NEW m \in late, LateCommit(m) PROVE Stored'
  BY <1>0, <1>1, <1>6, LateCommitIs
<1> QED BY <1>0, <1>2, <1>3, <1>4, <1>5, <1>6, LogWriteStored, AppendFailsStored, StoresEndStored, Steps

-----------------------------------------------------------------------------
(* The copies of the flushes, through every step.                          *)

LEMMA FlushedParts == Flushed <=> Copies /\ Done /\ Storing /\ Ids
  BY DEF Flushed

\* A dirty chunk stays dirty, as it is or in a later version.
Later == /\ versions \in Nat /\ versions' \in Nat /\ versions <= versions'
         /\ \A c \in Chunks : cache[c].st = "dirty" =>
               cache'[c].st = "dirty" /\ (cache'[c] = cache[c] \/ cache'[c].ver > versions)

LEMMA LaterFlushed ==
    ASSUME Types, Flushed, Later, UNCHANGED <<flush, rec, late>>
    PROVE  Flushed'
<1>0. Copies /\ Done /\ Storing /\ Ids
  BY FlushedParts
<1>1. Copies'
  <2> SUFFICES ASSUME NEW f \in Flushers, NEW t \in flush[f].todo
               PROVE  /\ cache'[t.chunk].st = "dirty" /\ t.ver <= versions'
                      /\ t.ver = cache'[t.chunk].ver => t.data = cache'[t.chunk].data
    BY <1>0 DEF Copies
  <2>1. /\ cache[t.chunk].st = "dirty" /\ t.ver <= versions /\ (t.ver = cache[t.chunk].ver => t.data = cache[t.chunk].data)
    BY <1>0 DEF Copies
  <2>2. t.chunk \in Chunks /\ t.ver \in Nat
    BY TypesParts, FlushType DEF Copy
  <2>3. cache'[t.chunk] = cache[t.chunk] \/ cache'[t.chunk].ver > versions
    BY <2>1, <2>2 DEF Later
  <2>4. cache'[t.chunk] # cache[t.chunk] => t.ver # cache'[t.chunk].ver
    BY <2>1, <2>2, <2>3 DEF Later
  <2> QED BY <2>1, <2>2, <2>4 DEF Later
<1>2. Done'
  <2> SUFFICES ASSUME NEW f \in Flushers, NEW d \in flush[f].done
               PROVE  /\ cache'[d[1]].st = "dirty" /\ d[2] <= versions'
                      /\ d[2] = cache'[d[1]].ver => rec[d[1]].data = cache'[d[1]].data
    BY <1>0 DEF Done, Swaps
  <2>1. /\ cache[d[1]].st = "dirty" /\ d[2] <= versions /\ (d[2] = cache[d[1]].ver => rec[d[1]].data = cache[d[1]].data)
    BY <1>0 DEF Done
  <2>2. d[1] \in Chunks /\ d[2] \in Nat
    <3>1. flush[f].done \in SUBSET (Chunks \X Nat)
      BY TypesParts, FlushType
    <3> QED BY <3>1
  <2>3. cache'[d[1]] = cache[d[1]] \/ cache'[d[1]].ver > versions
    BY <2>1, <2>2 DEF Later
  <2>4. cache'[d[1]] # cache[d[1]] => d[2] # cache'[d[1]].ver
    BY <2>1, <2>2, <2>3 DEF Later
  <2> QED BY <2>1, <2>2, <2>4 DEF Later
<1>3. Storing' /\ Ids'
  BY <1>0 DEF Storing, Ids
<1> QED BY <1>1, <1>2, <1>3 DEF Flushed

\* A flush goes on and leaves the cache and meta alone.
LEMMA MovesFlushed ==
    ASSUME Types, Flushed, NEW f \in Flushers, Moves(f), UNCHANGED <<cache, versions, rec, late>>,
           flush'[f].done \subseteq flush[f].done,
           \/ flush'[f].todo \subseteq flush[f].todo
           \/ flush'[f].done = {} /\ \A t \in flush'[f].todo : \E c \in Flushable : t = Captured(c),
           flush'[f].todo # {} => flush'[f].st \in {"waiting", "storing"},
           flush'[f].done # {} => flush'[f].st = "storing",
           flush'[f].cur # NoChunk => flush'[f].st = "storing" /\ flush'[f].cur \in flush'[f].todo,
           \A m \in late : flush'[f].expected # m.id
    PROVE  Flushed'
<1>0. Copies /\ Done /\ Storing /\ Ids
  BY FlushedParts
<1>1. ASSUME NEW t \in flush'[f].todo
      PROVE  /\ cache[t.chunk].st = "dirty" /\ t.ver <= versions
             /\ t.ver = cache[t.chunk].ver => t.data = cache[t.chunk].data
             /\ \A u \in flush'[f].todo : u.chunk = t.chunk => u = t
             /\ \A d \in flush'[f].done : d[1] # t.chunk
  <2>1. CASE flush'[f].todo \subseteq flush[f].todo
    BY <1>0, <2>1 DEF Copies
  <2>2. CASE flush'[f].done = {} /\ \A u \in flush'[f].todo : \E c \in Flushable : u = Captured(c)
    <3>1. PICK c \in Chunks : t = Captured(c) /\ cache[c].st = "dirty"
      BY <2>2 DEF Flushable
    <3>2. t.chunk = c /\ t.data = cache[c].data /\ t.ver = cache[c].ver /\ cache[c].ver <= versions
      BY <3>1, TypesParts, ChunkType DEF Captured
    <3>3. \A u \in flush'[f].todo : u = Captured(u.chunk)
      BY <2>2 DEF Captured
    <3> QED BY <2>2, <3>1, <3>2, <3>3
  <2> QED BY <2>1, <2>2
<1>2. Copies'
  <2> SUFFICES ASSUME NEW g \in Flushers, NEW t \in flush'[g].todo
               PROVE  /\ cache[t.chunk].st = "dirty" /\ t.ver <= versions
                      /\ t.ver = cache[t.chunk].ver => t.data = cache[t.chunk].data
                      /\ \A u \in flush'[g].todo : u.chunk = t.chunk => u = t
                      /\ \A d \in flush'[g].done : d[1] # t.chunk
    BY DEF Copies
  <2>1. CASE g = f
    BY <1>1, <2>1
  <2>2. CASE g # f
    BY <1>0, <2>2 DEF Copies, Moves
  <2> QED BY <2>1, <2>2
<1>3. \A g \in Flushers : flush'[g].done \subseteq flush[g].done
  BY DEF Moves
<1>4. Done'
  BY <1>0, <1>3 DEF Done, Swaps
<1>5. Storing'
  BY <1>0 DEF Storing, Moves
<1>6. Ids'
  BY <1>0 DEF Ids, Moves
<1> QED BY <1>2, <1>4, <1>5, <1>6 DEF Flushed

LEMMA FlushingFlushed ==
    ASSUME Types, Flushed, NEW f \in Flushers, Flushing(f), ~StoresEnd(f), ~CommitAnswered(f), ~CommitLost(f)
    PROVE  Flushed'
<1>0. Copies /\ Done /\ Storing /\ Ids
  BY FlushedParts
<1>1. UNCHANGED <<cache, versions, rec, late>>
  BY DEF Flushing, CaptureDue, TakeLock, FlushAll, CaptureAll, StoreBegin, StoreFails, Rotate,
         KeepsJournal, RotateEnds, FlushEnds, CreateSnapshot, memory, meta
<1>2. \A m \in late : m.id # 0 /\ m.id # flush[f].expected
  BY <1>0, TypesParts DEF TyMeta, Ids
<1>3. ASSUME NEW due \in SUBSET Chunks, CaptureDue(f, due) PROVE Flushed'
  <2>1. /\ Moves(f) /\ due \subseteq Flushable /\ flush'[f].st = (IF due = {} THEN "reset" ELSE "waiting")
        /\ flush'[f].todo = {Captured(c) : c \in due} /\ flush'[f].done = {} /\ flush'[f].cur = NoChunk /\ flush'[f].expected = 0
    BY <1>3, CaptureDueIs
  <2>2. /\ flush'[f].todo # {} => flush'[f].st \in {"waiting", "storing"}
        /\ \A t \in flush'[f].todo : \E c \in Flushable : t = Captured(c)
    BY <2>1
  <2> QED BY <1>1, <1>2, <2>1, <2>2, MovesFlushed
<1>4. CASE CaptureAll(f)
  <2>1. /\ Moves(f) /\ flush[f].st = "resolving" /\ flush'[f].st = "storing" /\ flush'[f].todo = {Captured(c) : c \in Flushable}
        /\ flush'[f].done = flush[f].done /\ flush'[f].cur = flush[f].cur /\ flush'[f].expected = flush[f].expected
    BY <1>4, CaptureAllIs
  <2>2. flush[f].done = {} /\ flush[f].cur = NoChunk
    BY <1>0, <2>1 DEF Storing
  <2>3. \A t \in flush'[f].todo : \E c \in Flushable : t = Captured(c)
    BY <2>1
  <2> QED BY <1>1, <1>2, <2>1, <2>2, <2>3, MovesFlushed
<1>5. CASE TakeLock(f)
  <2>1. /\ Moves(f) /\ flush[f].st = "waiting" /\ flush'[f].st = "storing" /\ flush'[f].todo = flush[f].todo
        /\ flush'[f].done = flush[f].done /\ flush'[f].cur = flush[f].cur /\ flush'[f].expected = flush[f].expected
    BY <1>5, TakeLockIs
  <2>2. flush[f].done = {} /\ flush[f].cur = NoChunk
    BY <1>0, <2>1 DEF Storing
  <2> QED BY <1>1, <1>2, <2>1, <2>2, MovesFlushed
<1>6. CASE FlushAll(f)
  <2>1. /\ Moves(f) /\ flush'[f].todo = {} /\ flush'[f].done = {} /\ flush'[f].cur = NoChunk /\ flush'[f].expected = 0
    BY <1>6, FlushAllIs
  <2> QED BY <1>1, <1>2, <2>1, MovesFlushed
<1>7. CASE StoreBegin(f)
  <2>1. /\ Moves(f) /\ flush'[f].st = "storing" /\ flush'[f].todo = flush[f].todo /\ flush'[f].done = flush[f].done
        /\ flush'[f].cur \in flush[f].todo /\ flush'[f].expected = rec[flush'[f].cur.chunk].id
    BY <1>7, StoreBeginIs
  <2>2. flush'[f].cur.chunk \in Chunks
    BY <2>1, TypesParts, FlushType DEF Copy
  <2>3. \A m \in late : flush'[f].expected # m.id
    BY <1>0, <2>1, <2>2 DEF Ids
  <2> QED BY <1>1, <2>1, <2>3, MovesFlushed
<1>8. CASE StoreFails(f)
  <2>1. /\ Moves(f) /\ flush'[f].st = "storing" /\ flush'[f].todo \subseteq flush[f].todo /\ flush'[f].done = flush[f].done
        /\ flush'[f].cur = NoChunk /\ flush'[f].expected = flush[f].expected
    BY <1>8, StoreFailsIs
  <2> QED BY <1>1, <1>2, <2>1, MovesFlushed
<1>9. CASE Rotate(f)
  <2>1. /\ Moves(f) /\ flush[f].st = "reset" /\ flush'[f].todo = flush[f].todo
        /\ flush'[f].done = flush[f].done /\ flush'[f].cur = flush[f].cur /\ flush'[f].expected = flush[f].expected
    BY <1>9, RotateIs
  <2>2. flush[f].todo = {} /\ flush[f].done = {} /\ flush[f].cur = NoChunk
    BY <1>0, <2>1 DEF Storing
  <2> QED BY <1>1, <1>2, <2>1, <2>2, MovesFlushed
<1>10. CASE KeepsJournal(f) \/ \E ok \in BOOLEAN : RotateEnds(f, ok)
  <2>1. Rests(f) /\ flush[f].st \in {"reset", "renamed"}
    BY <1>10, RestsIs DEF KeepsJournal, RotateEnds
  <2>2. flush[f].todo = {} /\ flush[f].done = {} /\ flush[f].cur = NoChunk
    BY <1>0, <2>1 DEF Storing
  <2>3. /\ Moves(f) /\ flush'[f].todo = {} /\ flush'[f].done = {} /\ flush'[f].cur = NoChunk
        /\ flush'[f].expected = 0 \/ flush'[f].expected = flush[f].expected
    BY <2>1, <2>2, Nothings DEF Rests
  <2> QED BY <1>1, <1>2, <2>3, MovesFlushed
<1>11. CASE FlushEnds(f) \/ CreateSnapshot(f)
  <2>1. Moves(f) /\ flush'[f] = NoFlush
    BY <1>11, EndsIs DEF FlushEnds, CreateSnapshot
  <2>2. /\ flush'[f].todo = {} /\ flush'[f].done = {} /\ flush'[f].cur = NoChunk /\ flush'[f].expected = 0
    BY <2>1, Nothings
  <2> QED BY <1>1, <1>2, <2>1, <2>2, MovesFlushed
<1> QED BY <1>3, <1>4, <1>5, <1>6, <1>7, <1>8, <1>9, <1>10, <1>11 DEF Flushing

LEMMA CommitFlushed ==
    ASSUME OneTakes, Types, Flushed, NEW f \in Flushers, CommitAnswered(f) \/ CommitLost(f)
    PROVE  Flushed'
<1>0. Copies /\ Done /\ Storing /\ Ids
  BY FlushedParts
<1>1. flush[f].cur # NoChunk /\ UNCHANGED <<cache, versions>>
  BY DEF CommitAnswered, CommitLost, memory
<1>2. PICK t \in flush[f].todo : t = flush[f].cur
  BY <1>0, <1>1 DEF Storing
<1>3. flush[f].st = "storing" /\ \A g \in Flushers \ {f} : flush[g].todo = {} /\ flush[g].done = {} /\ flush[g].cur = NoChunk
  BY <1>0, <1>1, Idle DEF Storing
<1>4. PICK ok \in BOOLEAN : /\ Answered(f, ok)
                            /\ IF ok THEN CommitAnswered(f) /\ Swaps(Commit(f)) ELSE rec' = rec
  BY DEF CommitAnswered, CommitLost, Swaps
<1>5. /\ Moves(f) /\ flush'[f].st = "storing" /\ flush'[f].todo = flush[f].todo \ {t}
      /\ flush'[f].cur = NoChunk /\ flush'[f].expected = 0
      /\ flush'[f].done = (IF ok THEN flush[f].done \cup {<<t.chunk, t.ver>>} ELSE flush[f].done)
  BY <1>1, <1>2, <1>3, <1>4, AnsweredIs
<1>6. /\ t.chunk \in Chunks /\ t.ver \in Nat /\ cache[t.chunk].st = "dirty" /\ t.ver <= versions
      /\ t.ver = cache[t.chunk].ver => t.data = cache[t.chunk].data
      /\ \A u \in flush[f].todo : u.chunk = t.chunk => u = t
      /\ \A d \in flush[f].done : d[1] # t.chunk
  BY <1>0, <1>2, TypesParts, FlushType DEF Copies, Copy
<1>7. Copies'
  <2> SUFFICES ASSUME NEW g \in Flushers, NEW s \in flush'[g].todo
               PROVE  /\ cache[s.chunk].st = "dirty" /\ s.ver <= versions
                      /\ s.ver = cache[s.chunk].ver => s.data = cache[s.chunk].data
                      /\ \A u \in flush'[g].todo : u.chunk = s.chunk => u = s
                      /\ \A d \in flush'[g].done : d[1] # s.chunk
    BY <1>1 DEF Copies
  <2>1. g = f
    BY <1>3, <1>5 DEF Moves
  <2>2. s \in flush[f].todo /\ s # t /\ s.chunk # t.chunk
    BY <1>5, <1>6, <2>1
  <2>3. \A d \in flush'[f].done : d[1] # s.chunk
    BY <1>0, <1>5, <2>2 DEF Copies
  <2> QED BY <1>0, <1>5, <2>1, <2>2, <2>3 DEF Copies
<1>8. /\ \A c \in Chunks \ {t.chunk} : rec'[c] = rec[c]
      /\ ok => rec'[t.chunk].id = stripes + 1 /\ rec'[t.chunk].data = t.data
      /\ ~ok => rec' = rec
      /\ late' \subseteq late \cup {Commit(f)}
      /\ ok => late' = late /\ \A m \in late : m.chunk = t.chunk => ~Swaps(m)'
      /\ \A m \in late : Swaps(m)' => Swaps(m)
  <2>1. CASE ok
    BY <1>2, <1>4, <2>1, CommitAnsweredIs
  <2>2. CASE ~ok
    <3>1. rec' = rec /\ late' \subseteq late \cup {Commit(f)}
      BY <1>4, <2>2 DEF CommitAnswered, CommitLost
    <3> QED BY <2>2, <3>1 DEF Swaps
  <2> QED BY <2>1, <2>2
<1>9. /\ Commit(f).chunk = t.chunk /\ Commit(f).id = stripes + 1 /\ Commit(f).expected = flush[f].expected
      /\ flush[f].expected \in 0..stripes /\ stripes \in Nat
  BY <1>1, <1>2, CommitType
<1>10. Done'
  <2> SUFFICES ASSUME NEW g \in Flushers, NEW d \in flush'[g].done
               PROVE  /\ cache[d[1]].st = "dirty" /\ d[2] <= versions
                      /\ d[2] = cache[d[1]].ver => rec'[d[1]].data = cache[d[1]].data
                      /\ \A m \in late' : m.chunk = d[1] => ~Swaps(m)'
    BY <1>1 DEF Done
  <2>1. g = f
    BY <1>3, <1>5 DEF Moves
  <2>2. CASE d \in flush[f].done
    <3>1. d[1] # t.chunk /\ d[1] \in Chunks
      <4>1. flush[f].done \in SUBSET (Chunks \X Nat)
        BY TypesParts, FlushType
      <4> QED BY <1>6, <2>2, <4>1
    <3>2. \A m \in late' : m.chunk = d[1] => m \in late
      BY <1>8, <1>9, <3>1
    <3> QED BY <1>0, <1>8, <2>2, <3>1, <3>2 DEF Done
  <2>3. CASE d \notin flush[f].done
    <3>1. ok /\ d = <<t.chunk, t.ver>>
      BY <1>5, <2>1, <2>3
    <3> QED BY <1>6, <1>8, <3>1
  <2> QED BY <2>2, <2>3
<1>11. Storing'
  <2> SUFFICES ASSUME NEW g \in Flushers
               PROVE  /\ flush'[g].todo # {} => flush'[g].st \in {"waiting", "storing"}
                      /\ flush'[g].done # {} => flush'[g].st = "storing"
                      /\ flush'[g].cur # NoChunk => flush'[g].st = "storing" /\ flush'[g].cur \in flush'[g].todo
    BY DEF Storing
  <2>1. CASE g = f
    BY <1>5, <2>1
  <2>2. CASE g # f
    BY <1>3, <1>5, <2>2 DEF Moves
  <2> QED BY <2>1, <2>2
<1>12. Ids'
  <2>1. \A m \in late : m.id \in 1..stripes /\ m.expected \in 0..stripes
    BY TypesParts DEF TyMeta
  <2>2. \A c \in Chunks : rec[c].id \in 0..stripes
    BY TypesParts DEF TyMeta
  <2>3. \A m \in late : \A c \in Chunks : rec'[c].id # m.id
    BY <1>0, <1>8, <1>9, <2>1 DEF Ids
  <2>4. \A g \in Flushers : flush'[g].expected = 0 \/ flush'[g].expected = flush[g].expected
    BY <1>5 DEF Moves
  <2>5. \A m \in late : \A g \in Flushers : flush'[g].expected # m.id
    BY <1>0, <2>1, <2>4 DEF Ids
  <2>6. CASE late' \subseteq late
    BY <1>0, <2>3, <2>5, <2>6 DEF Ids
  <2>7. CASE ~(late' \subseteq late)
    <3>1. ~ok /\ rec' = rec
      BY <1>8, <2>7
    <3>2. \A g \in Flushers : flush[g].expected \in 0..stripes
      BY TypesParts, FlushType DEF TyMeta
    <3>3. PICK n : n = Commit(f)
      OBVIOUS
    <3>4. /\ n.id = stripes + 1 /\ n.expected \in 0..stripes /\ \A m \in late : n.expected # m.id
      BY <1>0, <1>9, <3>3 DEF Ids
    <3>5. /\ \A c \in Chunks : rec'[c].id # n.id
          /\ \A m \in late : m.expected # n.id /\ n.expected # m.id /\ m.id # n.id
          /\ n.expected # n.id
          /\ \A g \in Flushers : flush'[g].expected # n.id
      BY <1>9, <2>1, <2>2, <2>4, <3>1, <3>2, <3>4
    <3>6. late' \subseteq late \cup {n}
      BY <1>8, <3>3
    <3> SUFFICES ASSUME NEW m \in late'
                 PROVE  /\ \A c \in Chunks : rec'[c].id # m.id
                        /\ \A o \in late' : o.expected # m.id /\ (o.id = m.id => o = m)
                        /\ \A g \in Flushers : flush'[g].expected # m.id
      BY DEF Ids
    <3>7. CASE m = n
      BY <3>5, <3>6, <3>7
    <3>8. CASE m \in late
      BY <1>0, <2>3, <2>5, <3>5, <3>6, <3>8 DEF Ids
    <3> QED BY <3>6, <3>7, <3>8
  <2> QED BY <2>6, <2>7
<1> QED BY <1>7, <1>10, <1>11, <1>12 DEF Flushed

LEMMA StoresEndFlushed ==
    ASSUME OneTakes, Types, Flushed, NEW f \in Flushers, StoresEnd(f)
    PROVE  Flushed'
<1>0. Copies /\ Done /\ Storing /\ Ids
  BY FlushedParts
<1>1. UNCHANGED <<rec, late>>
  BY DEF StoresEnd, meta
<1>2. /\ Moves(f) /\ flush[f].st = "storing" /\ flush[f].todo = {} /\ flush'[f].todo = {} /\ flush'[f].done = {}
      /\ flush'[f].cur = flush[f].cur /\ flush'[f].expected = flush[f].expected
  BY StoresEndIs
<1>3. \A g \in Flushers \ {f} : flush[g].todo = {} /\ flush[g].done = {} /\ flush[g].cur = NoChunk
  BY <1>0, <1>2, Idle
<1>4. \A g \in Flushers : /\ flush'[g].todo = {} /\ flush'[g].done = {} /\ flush'[g].cur = NoChunk
                          /\ flush'[g].expected = flush[g].expected
  BY <1>0, <1>2, <1>3 DEF Moves, Storing
<1>5. Copies' /\ Done' /\ Storing'
  BY <1>4 DEF Copies, Done, Storing
<1>6. Ids'
  BY <1>0, <1>1, <1>4 DEF Ids
<1> QED BY <1>5, <1>6 DEF Flushed

LEMMA LateFlushed ==
    ASSUME Types, Flushed, NEW m \in late, LateCommit(m)
    PROVE  Flushed'
<1>0. Copies /\ Done /\ Storing /\ Ids
  BY FlushedParts
<1>1. /\ m.chunk \in Chunks /\ late' = late \ {m} /\ flush' = flush /\ UNCHANGED <<cache, versions>>
      /\ \A c \in Chunks \ {m.chunk} : rec'[c] = rec[c]
      /\ IF Swaps(m) THEN rec'[m.chunk].id = m.id /\ rec'[m.chunk].data = m.data ELSE rec' = rec
      /\ \A n \in late' : Swaps(n)' => Swaps(n)
  BY <1>0, LateCommitIs DEF Calm
<1>2. Copies' /\ Storing'
  BY <1>0, <1>1 DEF Copies, Storing
<1>3. Done'
  <2> SUFFICES ASSUME NEW f \in Flushers, NEW d \in flush[f].done
               PROVE  /\ d[2] = cache[d[1]].ver => rec'[d[1]].data = cache[d[1]].data
                      /\ \A n \in late' : n.chunk = d[1] => ~Swaps(n)'
    BY <1>0, <1>1 DEF Done
  <2>1. d[1] \in Chunks
    <3>1. flush[f].done \in SUBSET (Chunks \X Nat)
      BY TypesParts, FlushType
    <3> QED BY <3>1
  <2>2. rec'[d[1]] = rec[d[1]]
    BY <1>0, <1>1, <2>1 DEF Done
  <2> QED BY <1>0, <1>1, <2>2 DEF Done
<1>4. Ids'
  <2>1. \A n \in late' : n \in late /\ n.id # m.id
    BY <1>0, <1>1 DEF Ids
  <2>2. \A n \in late' : \A c \in Chunks : rec'[c].id # n.id
    BY <1>0, <1>1, <2>1 DEF Ids
  <2> QED BY <1>0, <1>1, <2>1, <2>2 DEF Ids
<1> QED BY <1>2, <1>3, <1>4 DEF Flushed

LEMMA StoppedIds ==
    ASSUME Types, Storing, Ids, rec' = rec, late' \subseteq late \cup InFlight, \A f \in Flushers : flush'[f].expected = 0
    PROVE  Ids'
<1>1. /\ stripes \in Nat /\ \A c \in Chunks : rec[c].id \in 0..stripes
      /\ \A m \in late : m.id \in 1..stripes /\ m.expected \in 0..stripes
  BY TypesParts DEF TyMeta
<1>2. ASSUME NEW n \in InFlight
      PROVE  n.id = stripes + 1 /\ n.expected \in 0..stripes /\ \A m \in late : n.expected # m.id
  BY InFlightIs DEF Ids
<1>3. ASSUME NEW m \in InFlight, NEW n \in InFlight PROVE m = n
  <2>1. PICK f \in Flushers : flush[f].cur # NoChunk /\ m = Commit(f)
    BY DEF InFlight
  <2>2. PICK g \in Flushers : flush[g].cur # NoChunk /\ n = Commit(g)
    BY DEF InFlight
  <2>3. flush[f].st = "storing" /\ flush[g].st = "storing"
    BY <2>1, <2>2 DEF Storing
  <2>4. lock = f /\ lock = g
    BY <2>3, TypesParts DEF TyLock
  <2> QED BY <2>1, <2>2, <2>4
<1> SUFFICES ASSUME NEW m \in late'
             PROVE  /\ m.id # 0 /\ \A c \in Chunks : rec[c].id # m.id
                    /\ \A n \in late' : n.expected # m.id /\ (n.id = m.id => n = m)
  BY DEF Ids
<1>4. CASE m \in late
  <2>1. m.id # 0 /\ \A c \in Chunks : rec[c].id # m.id
    BY <1>1, <1>4 DEF Ids
  <2>2. ASSUME NEW n \in late' PROVE n.expected # m.id /\ (n.id = m.id => n = m)
    BY <1>1, <1>2, <1>4 DEF Ids
  <2> QED BY <2>1, <2>2
<1>5. CASE m \in InFlight
  <2>1. m.id # 0 /\ \A c \in Chunks : rec[c].id # m.id
    BY <1>1, <1>2, <1>5
  <2>2. ASSUME NEW n \in late' PROVE n.expected # m.id /\ (n.id = m.id => n = m)
    BY <1>1, <1>2, <1>3, <1>5
  <2> QED BY <2>1, <2>2
<1> QED BY <1>4, <1>5

LEMMA NextFlushed ==
    ASSUME IInv, Scope, Next
    PROVE  Flushed'
<1>0. Types /\ Flushed /\ OneTakes /\ TyCache /\ TyCache'
  BY TypesStep, TypesParts DEF IInv, Scope, Types
<1>1. ASSUME Later, UNCHANGED <<flush, rec, late>> PROVE Flushed'
  BY <1>0, <1>1, LaterFlushed
<1>2. ASSUME UNCHANGED <<cache, versions>> PROVE Later
  BY <1>0, <1>2 DEF Later, TyCache
<1>3. ASSUME NEW k \in Clients, NEW c \in Chunks, NEW P \in (SUBSET Parts) \ {{}}, LogWrite(k, c, P) PROVE Flushed'
  <2>1. Changes(c) /\ cache'[c].st = "dirty" /\ cache'[c].ver = versions + 1 /\ versions' = versions + 1
    BY <1>0, <1>3, LogWriteIs DEF LogWrite
  <2>2. Later
    BY <1>0, <2>1 DEF Later, Changes, TyCache
  <2> QED BY <1>0, <1>1, <1>3, <2>2, NewWrite
<1>4. ASSUME NEW k \in Clients, NEW c \in Chunks, NEW P \in (SUBSET Parts) \ {{}}, NEW whole \in BOOLEAN,
             AppendFails(k, c, P, whole)
      PROVE  Flushed'
  <2>1. Later
    BY <1>2, <1>4 DEF AppendFails, memory
  <2> QED BY <1>0, <1>1, <1>4, <2>1, NewWrite
<1>5. ASSUME NEW k \in Clients, Waits(k) PROVE Flushed'
  BY <1>0, <1>1, <1>2, <1>5, WaitsIs
<1>6. CASE Loading
  <2>1. UNCHANGED <<flush, rec, late>>
    BY <1>6, LoadingSame DEF Same
  <2>2. ASSUME NEW c \in Chunks, resolve(c), Pending(c) PROVE Later
    <3>1. Changes(c) /\ cache'[c].st = "dirty" /\ cache'[c].ver = versions + 1 /\ versions' = versions + 1
      BY <1>0, <2>2, ResolveIs DEF resolve
    <3> QED BY <1>0, <3>1 DEF Later, Changes, TyCache
  <2>3. ASSUME NEW r \in Readers, ReadEnds(r) PROVE Later
    <3>1. versions' = versions /\ reading[r] # NoRead /\ Reads
      BY <2>3, IInvParts DEF ReadEnds
    <3>2. PICK c \in Chunks : c = reading[r].chunk
      BY <3>1 DEF Reads
    <3>3. cache' = cache \/ (cache[c].st = "none" /\ Changes(c))
      BY <1>0, <2>3, <3>2, ReadEndsIs DEF ReadEnds, add_clean
    <3> QED BY <1>0, <3>1, <3>3 DEF Later, Changes, TyCache
  <2>4. ASSUME NEW c \in Chunks, LoadBegin(c) PROVE Later
    BY <1>2, <2>4 DEF LoadBegin, memory
  <2>5. ASSUME NEW c \in Chunks, resolve(c), ~Pending(c) PROVE Later
    BY <1>2, <2>5 DEF resolve, memory
  <2>6. ASSUME NEW r \in Readers, NEW c \in Chunks, ReadMisses(r, c) PROVE Later
    BY <1>2, <2>6 DEF ReadMisses, memory
  <2>7. Later
    BY <1>6, <2>2, <2>3, <2>4, <2>5, <2>6 DEF Loading
  <2> QED BY <1>1, <2>1, <2>7
<1>7. ASSUME NEW f \in Flushers, Flushing(f), ~StoresEnd(f) PROVE Flushed'
  BY <1>0, <1>7, FlushingFlushed, CommitFlushed
<1>8. ASSUME NEW f \in Flushers, StoresEnd(f) PROVE Flushed'
  BY <1>0, <1>8, StoresEndFlushed
<1>9. ASSUME NEW m \in late, LateCommit(m) PROVE Flushed'
  BY <1>0, <1>9, LateFlushed
<1>10. CASE Stops
  <2>1. PICK h \in Journal : Started(h)
    BY <1>10, StopsIs
  <2>2. /\ UNCHANGED rec /\ flush' = [f \in Flushers |-> NoFlush] /\ late' \subseteq late \cup InFlight
    BY <1>0, <2>1, StartedIs
  <2>3. \A f \in Flushers : flush'[f].todo = {} /\ flush'[f].done = {} /\ flush'[f].cur = NoChunk /\ flush'[f].expected = 0
    BY <2>2, Nothings
  <2>4. Copies' /\ Done' /\ Storing'
    BY <2>3 DEF Copies, Done, Storing
  <2>6. Ids'
    BY <1>0, <2>2, <2>3, StoppedIds, IInvParts
  <2> QED BY <2>4, <2>6 DEF Flushed
<1> QED BY <1>3, <1>4, <1>5, <1>6, <1>7, <1>8, <1>9, <1>10, Steps

-----------------------------------------------------------------------------
(* The journal, through every step.                                        *)

LEMMA SafeStays ==
    ASSUME Types, Seen, Extends, Flows, NEW w \in Firm, NEW j, NEW n, Safe(j, n, w)
    PROVE  Safe(j, n, w)'
  BY SettledForGood DEF Safe

LEMMA SafeToStays ==
    ASSUME Types, Seen, Extends, Flows, Logged' \subseteq Logged, \A k \in Logged' : client'[k] = client[k],
           NEW j, NEW n, NEW s, SafeTo(j, n, s)
    PROVE  SafeTo(j, n, s)'
<1> SUFFICES ASSUME NEW k \in Logged', client'[k].upto <= s PROVE Safe(j, n, client[k].w)'
  BY DEF SafeTo
<1>1. PICK w : w = client[k].w
  OBVIOUS
<1>2. w \in Firm /\ Safe(j, n, w) /\ client'[k].w = w
  BY <1>1, FirmIs DEF SafeTo
<1>3. Safe(j, n, w)'
  BY <1>2, SafeStays
<1> QED BY <1>2, <1>3 DEF Safe

LEMMA OrderedStays == ASSUME Extends, NEW j, Ordered(j) PROVE Ordered(j)'
  BY DEF Extends, Ordered

LEMMA NoFileOrdered == Ordered(NoFile)'
  BY DEF NoFile, Ordered

\* Nothing is appended, and only writes a sync has covered are acknowledged.
LEMMA LogsStay ==
    ASSUME Types, Seen, Extends, Flows, Logs, UNCHANGED <<file, synced>>, old' = old \/ old' = NoFile,
           Firm' \subseteq Firm, Logged' \subseteq Logged, \A k \in Logged' : client'[k] = client[k],
           \A w \in acked' : w \in acked \/ \E k \in Logged : client[k].w = w /\ client[k].upto <= synced
    PROVE  /\ Journaled' /\ Durable'
           /\ syncing' = syncing \/ syncing'.by = "none" => Syncing'
           /\ (/\ syncing' = syncing \/ syncing'.by = "none"
               /\ (old'.there /\ (failed \/ \E f \in Flushers : flush[f].st = "renamed"))
                     => (failed' \/ \E f \in Flushers : flush'[f].st = "renamed")) => Older'
<1>0. Journaled /\ Durable /\ Syncing /\ Older
  BY DEF Logs
<1>1. PICK j, n, s, m : j = file /\ n = file.durable /\ s = synced /\ m = Len(file.entries)
  OBVIOUS
<1>2. PICK o, on : o = old /\ on = old.durable
  OBVIOUS
<1>3. \A w \in Firm : Safe(j, m, w)'
  BY <1>0, <1>1, SafeStays DEF Journaled
<1>4. Ordered(j)' /\ Ordered(o)'
  BY <1>0, <1>1, <1>2, OrderedStays DEF Journaled
<1>5. Journaled'
  <2>1. Ordered(file)'
    BY <1>1, <1>4 DEF Ordered
  <2>2. Ordered(old)'
    BY <1>2, <1>4, NoFileOrdered DEF Ordered
  <2>3. \A w \in Firm' : Safe(file, Len(file.entries), w)'
    BY <1>1, <1>3 DEF Safe
  <2> QED BY <2>1, <2>2, <2>3 DEF Journaled
<1>6. \A w \in acked' : Safe(j, n, w) /\ w \in Firm
  BY <1>0, <1>1, FirmIs DEF Durable, SafeTo
<1>7. \A w \in acked' : Safe(j, n, w)'
  BY <1>6, SafeStays
<1>8. SafeTo(j, n, s)'
  BY <1>0, <1>1, SafeToStays DEF Durable
<1>9. Durable'
  <2>1. \A w \in acked' : Safe(file, file.durable, w)'
    BY <1>1, <1>7 DEF Safe
  <2>2. SafeTo(file, file.durable, synced)'
    BY <1>1, <1>8 DEF Safe, SafeTo
  <2> QED BY <2>1, <2>2 DEF Durable
<1>10. ASSUME syncing' = syncing \/ syncing'.by = "none" PROVE Syncing'
  <2> SUFFICES ASSUME syncing' = syncing, syncing.by # "none" PROVE Syncing'
    BY <1>10 DEF Syncing
  <2>1. PICK l, t : l = syncing.len /\ t = syncing.target
    OBVIOUS
  <2>2. SafeTo(j, l, t)'
    BY <1>0, <1>1, <2>1, SafeToStays DEF Syncing
  <2>3. SafeTo(file, syncing.len, syncing.target)'
    BY <1>1, <2>1, <2>2 DEF Safe, SafeTo
  <2> QED BY <1>0, <2>3 DEF Syncing
<1>11. ASSUME syncing' = syncing \/ syncing'.by = "none",
              (old'.there /\ (failed \/ \E f \in Flushers : flush[f].st = "renamed"))
                 => (failed' \/ \E f \in Flushers : flush'[f].st = "renamed")
       PROVE  Older'
  <2> SUFFICES ASSUME old'.there, "power" \in Faults
               PROVE  /\ failed' \/ \E f \in Flushers : flush'[f].st = "renamed"
                      /\ syncing'.by = "none"
                      /\ \A w \in acked' : Safe(old, old.durable, w)'
                      /\ SafeTo(old, old.durable, synced)'
    BY DEF Older
  <2>1. old' = old /\ old.there
    BY Nothings
  <2>2. /\ failed \/ \E f \in Flushers : flush[f].st = "renamed"
        /\ syncing.by = "none" /\ (\A w \in acked : Safe(o, on, w)) /\ SafeTo(o, on, s)
    BY <1>0, <1>1, <1>2, <2>1 DEF Older
  <2>3. \A w \in acked' : Safe(o, on, w)'
    <3>1. \A w \in acked' : Safe(o, on, w) /\ w \in Firm
      BY <1>1, <2>2, FirmIs DEF SafeTo
    <3> QED BY <3>1, SafeStays
  <2>4. SafeTo(o, on, s)'
    BY <2>2, SafeToStays
  <2>5. \A w \in acked' : Safe(old, old.durable, w)'
    BY <1>2, <2>1, <2>3 DEF Safe
  <2>6. SafeTo(old, old.durable, synced)'
    BY <1>1, <1>2, <2>1, <2>4 DEF Safe, SafeTo
  <2> QED BY <1>11, <2>1, <2>2, <2>5, <2>6
<1> QED BY <1>5, <1>9, <1>10, <1>11

\* Write w is appended, by an open journal.
LEMMA AppendLogs ==
    ASSUME Types, Types', Seen, Extends, Flows, Logs, NEW w \in 1..MaxWrites, w \in DOMAIN writes', \A v \in DOMAIN writes : v < w,
           file' = [file EXCEPT !.entries = Append(@, w)], UNCHANGED <<acked, old, synced, syncing>>,
           Unlocked, ~failed, Firm' \subseteq Firm \cup {w},
           \A k \in Logged' : \/ k \in Logged /\ client'[k] = client[k]
                              \/ client'[k].w = w /\ client'[k].upto > sequence
    PROVE  Logs'
<1>0. Journaled /\ Durable /\ Syncing /\ Older
  BY DEF Logs
<1>1. PICK j, h, l : j = file /\ h = file' /\ l = Len(file.entries)
  OBVIOUS
<1>2. /\ j \in Journal /\ h \in Journal /\ h.durable = j.durable /\ h.there = j.there
      /\ Len(h.entries) = l + 1 /\ h.entries[l + 1] = w /\ (\A i \in 1..l : h.entries[i] = j.entries[i])
      /\ l \in Nat /\ j.durable \in Nat /\ j.durable <= l
  <2>1. j \in Journal /\ h = [j EXCEPT !.entries = Append(@, w)] /\ j.durable <= l
    BY <1>1, TypesParts DEF TyJournal
  <2>2. j.durable \in Nat /\ l \in Nat /\ l = Len(j.entries)
    BY <1>1, <2>1, JournalType
  <2> QED BY <2>1, <2>2, JournalAppend
<1>3. \A i \in 1..l : j.entries[i] \in DOMAIN writes /\ j.entries[i] \in Nat /\ j.entries[i] < w
  BY <1>0, <1>1, FirmIs DEF Journaled, Ordered
<1>4. Ordered(h)'
  <2>1. \A i \in 1..(l + 1) : h.entries[i] \in DOMAIN writes'
    <3>1. \A i \in 1..l : h.entries[i] \in DOMAIN writes'
      BY <1>2, <1>3 DEF Extends
    <3>2. \A i \in 1..(l + 1) : i \in 1..l \/ i = l + 1
      BY <1>2
    <3> QED BY <1>2, <3>1, <3>2
  <2>2. ASSUME NEW i \in 1..(l + 1), NEW m \in 1..(l + 1), i < m PROVE h.entries[i] < h.entries[m]
    <3>1. i \in 1..l /\ (m \in 1..l \/ m = l + 1)
      BY <1>2, <2>2
    <3>2. CASE m \in 1..l
      <4>1. j.entries[i] < j.entries[m]
        BY <1>0, <1>1, <2>2, <3>1, <3>2 DEF Journaled, Ordered
      <4> QED BY <1>2, <3>1, <3>2, <4>1
    <3>3. CASE m = l + 1
      BY <1>2, <1>3, <3>1, <3>3
    <3> QED BY <3>1, <3>2, <3>3
  <2> QED BY <1>2, <2>1, <2>2 DEF Ordered
<1>5. ASSUME NEW v \in Firm, NEW n \in Nat, n <= l, Safe(j, n, v) PROVE Safe(h, n, v)'
  <2>1. v < w /\ v \in Nat /\ Safe(j, n, v)'
    BY <1>5, FirmIs, SafeStays
  <2>2. CASE \E i \in 1..n : j.entries[i] = v
    <3>1. PICK i \in 1..n : j.entries[i] = v
      BY <2>2
    <3>2. i \in 1..l
      BY <1>2, <1>5
    <3>3. h.entries[i] = v
      BY <1>2, <3>1, <3>2
    <3> QED BY <3>3 DEF Safe
  <2>3. CASE Settled(v)' /\ \A i \in 1..Len(j.entries) : j.entries[i] > v
    <3>1. \A i \in 1..(l + 1) : h.entries[i] > v
      BY <1>1, <1>2, <2>1, <2>3
    <3> QED BY <1>2, <2>3, <3>1 DEF Safe
  <2> QED BY <2>1, <2>2, <2>3 DEF Safe
<1>6. ASSUME NEW n \in Nat, n <= l, NEW s \in Nat, s <= sequence, SafeTo(j, n, s) PROVE SafeTo(h, n, s)'
  <2> SUFFICES ASSUME NEW k \in Logged', client'[k].upto <= s PROVE Safe(h, n, client[k].w)'
    BY DEF SafeTo
  <2>1. k \in Logged /\ client'[k] = client[k]
    <3>1. client'[k].upto \in Nat /\ sequence \in Nat
      <4>1. TyClients'
        BY DEF Types
      <4> QED BY <4>1, TypesParts DEF TyClients, TyJournal, Logged
    <3>2. ~(client'[k].upto > sequence)
      BY <1>6, <3>1
    <3> QED BY <3>2
  <2>2. PICK v : v = client[k].w
    OBVIOUS
  <2>3. Safe(j, n, v) /\ v \in Firm
    BY <1>6, <2>1, <2>2, FirmIs DEF SafeTo
  <2>4. Safe(h, n, v)'
    BY <1>6, <2>3, <1>5
  <2> QED BY <2>1, <2>2, <2>4 DEF Safe
<1>7. Journaled'
  <2>1. Ordered(file)'
    BY <1>1, <1>4 DEF Ordered
  <2>2. Ordered(old)'
    <3>1. PICK o : o = old
      OBVIOUS
    <3>2. Ordered(o)'
      BY <1>0, <3>1, OrderedStays DEF Journaled
    <3> QED BY <3>1, <3>2 DEF Ordered
  <2>3. \A v \in Firm' : Safe(h, l + 1, v)'
    <3>1. \A v \in Firm : Safe(h, l, v)'
      <4>1. l <= l /\ \A v \in Firm : Safe(j, l, v)
        BY <1>0, <1>1, <1>2 DEF Journaled
      <4> QED BY <1>2, <1>5, <4>1
    <3>2. Safe(h, l + 1, w)'
      BY <1>2 DEF Safe
    <3> QED BY <1>2, <3>1, <3>2 DEF Safe
  <2>4. \A v \in Firm' : Safe(file, Len(file.entries), v)'
    BY <1>1, <1>2, <2>3 DEF Safe
  <2> QED BY <2>1, <2>2, <2>4 DEF Journaled
<1>8. Durable'
  <2>1. \A v \in acked : Safe(h, j.durable, v)'
    BY <1>0, <1>1, <1>2, <1>5, FirmIs DEF Durable
  <2>2. SafeTo(h, j.durable, synced)'
    <3>1. PICK s : s = synced
      OBVIOUS
    <3>2. s \in Nat /\ s <= sequence
      BY <3>1, TypesParts DEF TyJournal
    <3>3. SafeTo(h, j.durable, s)'
      BY <1>0, <1>1, <1>2, <1>6, <3>1, <3>2 DEF Durable
    <3> QED BY <3>1, <3>3 DEF SafeTo
  <2>3. \A v \in acked' : Safe(file, file.durable, v)'
    BY <1>1, <1>2, <2>1 DEF Safe
  <2>4. SafeTo(file, file.durable, synced)'
    BY <1>1, <1>2, <2>2 DEF Safe, SafeTo
  <2> QED BY <2>3, <2>4 DEF Durable
<1>9. Syncing'
  <2> SUFFICES ASSUME syncing.by # "none" PROVE Syncing'
    BY DEF Syncing
  <2>1. PICK n, s : n = syncing.len /\ s = syncing.target
    OBVIOUS
  <2>2. n \in Nat /\ n <= l /\ s \in Nat /\ s <= sequence
    BY <1>1, <1>2, <2>1, TypesParts DEF TyJournal
  <2>3. j.durable <= n /\ SafeTo(j, n, s)
    BY <1>0, <1>1, <2>1 DEF Syncing
  <2>4. SafeTo(h, n, s)'
    BY <1>6, <2>2, <2>3
  <2>5. SafeTo(file, syncing.len, syncing.target)'
    BY <1>1, <2>1, <2>4 DEF Safe, SafeTo
  <2> QED BY <1>1, <1>2, <2>1, <2>3, <2>5 DEF Syncing
<1>10. Older'
  BY <1>0 DEF Older, Unlocked
<1> QED BY <1>7, <1>8, <1>9, <1>10 DEF Logs

LEMMA WritesLogs ==
    ASSUME IInv, Scope, Types', Seen, Extends, Flows, NEW k \in Clients, NEW c \in Chunks, NEW P \in (SUBSET Parts) \ {{}},
           LogWrite(k, c, P) \/ \E whole \in BOOLEAN : AppendFails(k, c, P, whole)
    PROVE  Logs'
<1>0. Types /\ Logs /\ Unlocked /\ ~failed
  BY DEF IInv, LogWrite, AppendFails
<1>1. PICK w \in 1..MaxWrites :
           /\ w = Len(writes) + 1 /\ DOMAIN writes' = 1..w /\ (\A v \in DOMAIN writes : v < w)
           /\ UNCHANGED <<acked, old, synced, syncing, flush>>
  BY <1>0, NewWrite
<1>2. w \in DOMAIN writes'
  BY <1>1
<1>3. CASE LogWrite(k, c, P)
  <2>1. /\ Firm' = Firm \cup {w} /\ Logged' = Logged \cup {k}
        /\ client'[k].w = w /\ client'[k].upto = sequence + 1 /\ (\A l \in Logged : client'[l] = client[l])
    BY <1>0, <1>1, <1>3, LogWriteKeeps
  <2>2. file' = [file EXCEPT !.entries = Append(@, w)]
    BY <1>1, <1>3 DEF LogWrite
  <2>3. client'[k].upto > sequence
    BY <1>0, <2>1, TypesParts DEF TyJournal
  <2>4. \A l \in Logged' : \/ l \in Logged /\ client'[l] = client[l]
                           \/ client'[l].w = w /\ client'[l].upto > sequence
    BY <2>1, <2>3
  <2> QED BY <1>0, <1>1, <1>2, <2>1, <2>2, <2>4, AppendLogs
<1>4. ASSUME NEW whole \in BOOLEAN, AppendFails(k, c, P, whole) PROVE Logs'
  <2>1. client' = client /\ failed' = TRUE
    BY <1>4 DEF AppendFails
  <2>2. Firm' = Firm /\ Logged' = Logged
    BY <1>1, <2>1 DEF Firm, Logged
  <2>3. CASE file' = [file EXCEPT !.entries = Append(@, w)]
    BY <1>0, <1>1, <1>2, <2>1, <2>2, <2>3, AppendLogs
  <2>4. CASE file' = file
    <3>1. Journaled' /\ Durable' /\ Syncing' /\ Older'
      BY <1>0, <1>1, <2>1, <2>2, <2>4, LogsStay
    <3> QED BY <3>1 DEF Logs
  <2> QED BY <1>1, <1>4, <2>3, <2>4 DEF AppendFails
<1> QED BY <1>3, <1>4

\* A sync covers the entries there were when it began.
LEMMA SyncEndLogs ==
    ASSUME IInv, Seen, Extends, Flows, NEW k \in Clients, SyncEnd(k)
    PROVE  Logs'
<1>0. Types /\ Journaled /\ Durable /\ Syncing /\ Older
  BY IInvParts
<1>1. /\ syncing.by = k /\ syncing' = NoSync /\ synced' = Max({synced, syncing.target}) /\ acked' = acked \cup {client[k].w}
      /\ client' = [client EXCEPT ![k] = Quiet] /\ UNCHANGED <<writes, old, failed, flush>>
  BY DEF SyncEnd
<1>2. PICK j, l, t, s : j = file /\ l = syncing.len /\ t = syncing.target /\ s = synced
  OBVIOUS
<1>3. /\ j \in Journal /\ j.durable \in Nat /\ j.durable <= l /\ l \in Nat /\ t \in Nat /\ s \in Nat /\ Len(j.entries) \in Nat
      /\ SafeTo(j, l, t) /\ SafeTo(j, j.durable, s) /\ k \in Logged /\ client[k].upto <= t
  <2>1. j \in Journal /\ l \in Nat /\ t \in Nat /\ s \in Nat
    BY <1>2, <1>0, TypesParts DEF TyJournal
  <2>2. k # "none" /\ k \in Logged /\ client[k].upto <= t
    BY <1>0, <1>1, <1>2, TypesParts, FlushersAssumption DEF TyClients
  <2> QED BY <1>0, <1>1, <1>2, <2>1, <2>2, JournalType DEF Syncing, Durable
<1>4. /\ Logged' = Logged \ {k} /\ \A m \in Logged' : client'[m] = client[m]
  BY <1>0, <1>1, QuietIs DEF Logged
<1>5. \A w \in acked' : w \in Firm /\ Safe(j, l, w)
  <2>1. \A w \in acked : w \in Firm /\ Safe(j, l, w)
    BY <1>0, <1>2, <1>3, FirmIs, SafeMore DEF Durable
  <2>2. client[k].w \in Firm /\ Safe(j, l, client[k].w)
    BY <1>0, <1>3, FirmIs DEF SafeTo
  <2> QED BY <1>1, <2>1, <2>2
<1>6. PICK n : n = synced'
  OBVIOUS
<1>7. n \in {s, t}
  BY <1>1, <1>2, <1>3, <1>6, MaxOfTwo
<1>8. SafeTo(j, l, n)
  <2> SUFFICES ASSUME NEW m \in Logged, client[m].upto <= n PROVE Safe(j, l, client[m].w)
    BY DEF SafeTo
  <2>1. CASE n = t
    BY <1>3, <2>1 DEF SafeTo
  <2>2. CASE n = s
    <3>1. Safe(j, j.durable, client[m].w)
      BY <1>3, <2>2 DEF SafeTo
    <3> QED BY <1>3, <3>1, SafeMore
  <2> QED BY <1>7, <2>1, <2>2
<1>9. (\A w \in acked' : Safe(j, l, w)') /\ SafeTo(j, l, n)'
  BY <1>0, <1>4, <1>5, <1>8, SafeStays, SafeToStays
<1>10. /\ file'.entries = file.entries /\ file'.durable = l
  BY <1>0, <1>2, SyncEndTypes
<1>11. Durable'
  <2>1. \A w \in acked' : Safe(file, file.durable, w)'
    BY <1>2, <1>9, <1>10 DEF Safe
  <2>2. SafeTo(file, file.durable, synced)'
    BY <1>2, <1>6, <1>9, <1>10 DEF Safe, SafeTo
  <2> QED BY <2>1, <2>2 DEF Durable
<1>12. Journaled'
  <2>1. Firm' \subseteq Firm
    BY <1>0, WaitsIs DEF Waits
  <2>2. PICK m : m = Len(j.entries)
    OBVIOUS
  <2>3. \A w \in Firm : Safe(j, m, w)'
    BY <1>0, <1>2, <2>2, SafeStays DEF Journaled
  <2>4. \A w \in Firm' : Safe(file, Len(file.entries), w)'
    BY <1>2, <1>10, <2>1, <2>2, <2>3 DEF Safe
  <2>5. Ordered(file)' /\ Ordered(old)'
    BY <1>0, <1>1, <1>10 DEF Journaled, Ordered
  <2> QED BY <2>4, <2>5 DEF Journaled
<1>13. Syncing' /\ Older'
  <2>1. ~(old.there /\ "power" \in Faults)
    BY <1>0, <1>1, FlushersAssumption DEF Older
  <2> QED BY <1>1, <2>1 DEF Syncing, Older, NoSync
<1> QED BY <1>11, <1>12, <1>13 DEF Logs

LEMMA WaitsLogs ==
    ASSUME IInv, Seen, Extends, Flows, NEW k \in Clients, Waits(k)
    PROVE  Logs'
<1>0. Types /\ Logs
  BY DEF IInv
<1>1. /\ UNCHANGED <<old, flush>> /\ k \in Logged /\ Logged' \subseteq Logged /\ Firm' \subseteq Firm
      /\ (\A l \in Logged' : client'[l] = client[l])
  BY <1>0, WaitsIs
<1>2. NoSync.by = "none"
  BY DEF NoSync
<1>3. CASE AlreadySynced(k)
  <2>1. /\ synced >= client[k].upto /\ acked' = acked \cup {client[k].w}
        /\ UNCHANGED <<file, synced, failed, syncing>>
    BY <1>3 DEF AlreadySynced, SyncCovered, Return
  <2>2. client[k].upto \in Nat /\ synced \in Nat
    BY <1>0, <1>1, TypesParts DEF TyClients, TyJournal, Logged
  <2>3. \A w \in acked' : w \in acked \/ \E l \in Logged : client[l].w = w /\ client[l].upto <= synced
    BY <1>1, <2>1, <2>2
  <2>4. Journaled' /\ Durable' /\ Syncing' /\ Older'
    BY <1>0, <1>1, <2>1, <2>3, LogsStay
  <2> QED BY <2>4 DEF Logs
<1>4. CASE SyncRefused(k) \/ SyncFails(k)
  <2>1. /\ acked' = acked /\ UNCHANGED <<file, synced>> /\ failed' = TRUE
        /\ syncing' = syncing \/ syncing'.by = "none"
    <3>1. CASE SyncRefused(k)
      <4>1. failed = TRUE
        BY <1>0, <3>1, TypesParts DEF SyncRefused, TyJournal
      <4> QED BY <3>1, <4>1 DEF SyncRefused, Return
    <3>2. CASE SyncFails(k)
      BY <1>2, <3>2 DEF SyncFails, Return
    <3> QED BY <1>4, <3>1, <3>2
  <2>2. Journaled' /\ Durable' /\ Syncing' /\ Older'
    BY <1>0, <1>1, <2>1, LogsStay
  <2> QED BY <2>2 DEF Logs
<1>5. CASE SyncBegin(k)
  <2>1. /\ syncing' = [by |-> k, target |-> sequence, len |-> Len(file.entries)] /\ Unlocked /\ ~failed
        /\ UNCHANGED <<acked, client, file, synced, failed>>
    BY <1>5 DEF SyncBegin
  <2>2. Journaled' /\ Durable'
    BY <1>0, <1>1, <2>1, LogsStay
  <2>3. Older'
    BY <1>1, <2>1, IInvParts DEF Older, Unlocked
  <2>4. syncing'.target = sequence /\ syncing'.len = Len(file.entries)
    BY <2>1
  <2>5. \A l \in Logged' : Safe(file, Len(file.entries), client[l].w)'
    <3>1. \A l \in Logged' : client'[l].w \in Firm'
      BY DEF Firm
    <3> QED BY <2>2, <3>1 DEF Journaled, Safe
  <2>6. file.durable <= Len(file.entries)
    BY <1>0, TypesParts DEF TyJournal
  <2>7. Syncing'
    BY <2>1, <2>4, <2>5, <2>6 DEF Syncing, SafeTo, Safe
  <2> QED BY <2>2, <2>3, <2>7 DEF Logs
<1> QED BY <1>3, <1>4, <1>5, SyncEndLogs DEF Waits

\* What is firm in a chunk that is not dirty is settled there.
LEMMA CleanSettled ==
    ASSUME Types, Backed, Lates, Copies, NEW c \in Chunks, cache[c].st # "dirty", NEW w \in Firm
    PROVE  SettledAt(w, c)
<1> SUFFICES ASSUME NEW p \in PartsOf(w, c)
             PROVE  /\ rec[c].data[p] >= w
                    /\ \A m \in late : (m.chunk = c /\ Swaps(m)) => m.data[p] >= w
                    /\ \A f \in Flushers : \A t \in flush[f].todo : t.chunk = c => t.data[p] >= w
  BY DEF SettledAt
<1>1. \A data : Backs(data, c) => data[p] >= w
  BY DEF Backs, Held
<1> QED BY <1>1 DEF Backed, Lates, Copies

LEMMA RotateLogs ==
    ASSUME IInv, Extends, Flows, NEW f \in Flushers, Rotate(f)
    PROVE  Logs'
<1>0. Types /\ Journaled /\ Durable /\ Backed /\ Lates /\ Copies /\ Storing /\ Seen
  BY IInvParts
<1>1. /\ NoneDirty /\ syncing = NoSync /\ syncing' = NoSync /\ file' = NewFile(sequence) /\ old' = file
      /\ UNCHANGED <<acked, client, synced, writes>>
  BY DEF Rotate
<1>2. flush'[f].st = "renamed"
  BY <1>0, RotateIs
<1>3. Firm' = Firm /\ Logged' = Logged
  BY <1>1 DEF Firm, Logged
<1>4. \A w \in Firm : Settled(w)'
  BY <1>0, <1>1, CleanSettled, SettledForGood DEF NoneDirty, Settled
<1>5. file'.durable = 0 /\ Len(file'.entries) = 0
  BY <1>0, <1>1, NewFileType, TypesParts DEF TyJournal
<1>6. \A n : \A w \in Firm : Safe(file, n, w)'
  BY <1>4, <1>5 DEF Safe
<1>7. Journaled'
  <2>1. Ordered(file)' /\ Ordered(old)'
    BY <1>0, <1>1, <1>5 DEF Journaled, Ordered
  <2> QED BY <1>3, <1>6, <2>1 DEF Journaled, Safe
<1>8. \A k \in Logged' : client'[k].w \in Firm
  BY <1>3 DEF Firm
<1>9. Durable'
  <2>1. acked' \subseteq Firm
    BY <1>0, <1>1, FirmIs
  <2> QED BY <1>6, <1>8, <2>1 DEF Durable, Safe, SafeTo
<1>10. PICK j, n, s : j = file /\ n = file.durable /\ s = synced
  OBVIOUS
<1>11. (\A w \in acked : Safe(j, n, w)') /\ SafeTo(j, n, s)'
  BY <1>0, <1>1, <1>3, <1>10, FirmIs, SafeStays, SafeToStays DEF Durable
<1>12. Older'
  <2>1. \A w \in acked' : Safe(old, old.durable, w)'
    BY <1>1, <1>10, <1>11 DEF Safe
  <2>2. SafeTo(old, old.durable, synced)'
    BY <1>1, <1>10, <1>11 DEF Safe, SafeTo
  <2> QED BY <1>1, <1>2, <2>1, <2>2 DEF Older, NoSync
<1>13. Syncing'
  BY <1>1 DEF Syncing, NoSync
<1> QED BY <1>7, <1>9, <1>12, <1>13 DEF Logs

LEMMA FlushingLogs ==
    ASSUME IInv, Scope, Extends, Flows, NEW f \in Flushers, Flushing(f)
    PROVE  Logs'
<1>0. Types /\ Logs /\ Storing /\ Seen
  BY IInvParts DEF IInv
<1>1. UNCHANGED <<acked, client, synced, syncing>>
  BY <1>0, FlushingIs DEF StoresEnd, journal
<1>2. Firm' = Firm /\ Logged' = Logged
  BY <1>1 DEF Firm, Logged
<1>3. CASE Rotate(f)
  BY <1>3, RotateLogs
<1>4. ASSUME NEW ok \in BOOLEAN, RotateEnds(f, ok) PROVE Logs'
  <2>1. file' = file /\ ((old' = NoFile) \/ (old' = old /\ failed' = TRUE))
    BY <1>4 DEF RotateEnds
  <2>2. (old'.there /\ (failed \/ \E g \in Flushers : flush[g].st = "renamed"))
           => (failed' \/ \E g \in Flushers : flush'[g].st = "renamed")
    BY <2>1, Nothings
  <2>3. Journaled' /\ Durable' /\ Syncing' /\ Older'
    BY <1>0, <1>1, <1>2, <2>1, <2>2, LogsStay
  <2> QED BY <2>3 DEF Logs
<1>5. CASE ~Rotate(f) /\ ~\E ok \in BOOLEAN : RotateEnds(f, ok)
  <2>1. UNCHANGED <<file, old, failed>> /\ flush[f].st # "renamed"
    <3>1. UNCHANGED <<file, old, failed>>
      BY <1>5 DEF Flushing, CaptureDue, TakeLock, FlushAll, CaptureAll, StoreBegin, StoreFails, CommitAnswered, CommitLost,
                  StoresEnd, KeepsJournal, FlushEnds, CreateSnapshot, journal
    <3>2. \/ flush[f].st \in {"idle", "waiting", "resolving", "storing", "reset", "flushed"}
          \/ flush[f].cur # NoChunk
      BY <1>5 DEF Flushing, CaptureDue, TakeLock, FlushAll, CaptureAll, StoreBegin, StoreFails, CommitAnswered, CommitLost,
                  StoresEnd, KeepsJournal, FlushEnds, CreateSnapshot
    <3> QED BY <1>0, <3>1, <3>2 DEF Storing
  <2>2. Moves(f)
    <3>1. ASSUME NEW due \in SUBSET Chunks, CaptureDue(f, due) PROVE Moves(f)
      BY <1>0, <3>1, CaptureDueIs
    <3>2. CASE TakeLock(f) \/ FlushAll(f) \/ CaptureAll(f) \/ StoreBegin(f) \/ StoreFails(f) \/ StoresEnd(f)
      BY <1>0, <3>2, TakeLockIs, FlushAllIs, CaptureAllIs, StoreBeginIs, StoreFailsIs, StoresEndIs
    <3>3. CASE CommitAnswered(f) \/ CommitLost(f)
      BY <1>0, <3>3, AnsweredIs DEF CommitAnswered, CommitLost, Swaps
    <3>4. CASE KeepsJournal(f) \/ FlushEnds(f) \/ CreateSnapshot(f)
      BY <1>0, <3>4, RestsIs, EndsIs DEF KeepsJournal, FlushEnds, CreateSnapshot, Rests
    <3> QED BY <1>5, <3>1, <3>2, <3>3, <3>4 DEF Flushing
  <2>3. \A g \in Flushers : flush[g].st = "renamed" => flush'[g].st = "renamed"
    BY <2>1, <2>2 DEF Moves
  <2>4. Journaled' /\ Durable' /\ Syncing' /\ Older'
    BY <1>0, <1>1, <1>2, <2>1, <2>3, LogsStay
  <2> QED BY <2>4 DEF Logs
<1> QED BY <1>3, <1>4, <1>5

LEMMA StopsLogs ==
    ASSUME IInv, Scope, Extends, Flows, Stops
    PROVE  Logs'
<1>0. Types /\ Seen /\ Journaled
  BY IInvParts
<1>1. PICK h \in Journal :
              /\ Started(h) /\ Ordered(h) /\ h.durable <= Len(h.entries) /\ h.durable \in Nat
              /\ \A w \in acked : Safe(h, h.durable, w)
              /\ old' = NoFile \/ (UNCHANGED old /\ "power" \notin Faults)
  BY StopsIs
<1>2. /\ file' = h /\ syncing' = NoSync /\ Logged' = {} /\ UNCHANGED <<writes, acked>>
  BY <1>0, <1>1, StartedIs
<1>3. Firm' = acked
  BY <1>2 DEF Firm
<1>4. Ordered(h)' /\ \A w \in acked : Safe(h, h.durable, w)'
  BY <1>0, <1>1, OrderedStays, FirmIs, SafeStays
<1>5. \A w \in acked : Safe(h, Len(h.entries), w)'
  <2>1. Len(h.entries) \in Nat
    BY JournalType
  <2> QED BY <1>1, <1>4, <2>1 DEF Safe
<1>6. Journaled'
  <2>1. Ordered(old)'
    <3>1. PICK o : o = old
      OBVIOUS
    <3>2. Ordered(o)'
      BY <1>0, <3>1, OrderedStays DEF Journaled
    <3> QED BY <1>1, <3>1, <3>2, NoFileOrdered DEF Ordered
  <2>2. Ordered(file)'
    BY <1>2, <1>4 DEF Ordered
  <2> QED BY <1>2, <1>3, <1>5, <2>1, <2>2 DEF Journaled, Safe
<1>7. Durable'
  BY <1>2, <1>4 DEF Durable, SafeTo, Safe
<1>8. Syncing' /\ Older'
  BY <1>1, <1>2, Nothings DEF Syncing, Older, NoSync
<1> QED BY <1>6, <1>7, <1>8 DEF Logs

LEMMA NextLogs ==
    ASSUME IInv, Scope, Next
    PROVE  Logs'
<1>0. Types /\ Types' /\ Seen /\ Extends /\ Flows /\ Logs /\ Ids
  BY IInvParts, NextFlows, TypesStep DEF IInv
<1>1. ASSUME UNCHANGED <<acked, client, file, old, synced, syncing, failed, flush>> PROVE Logs'
  <2>1. Firm' = Firm /\ Logged' = Logged
    BY <1>1 DEF Firm, Logged
  <2>2. Journaled' /\ Durable' /\ Syncing' /\ Older'
    BY <1>0, <1>1, <2>1, LogsStay
  <2> QED BY <2>2 DEF Logs
<1>2. CASE Loading
  BY <1>1, <1>2, LoadingSame DEF Same
<1>3. ASSUME NEW m \in late, LateCommit(m) PROVE Logs'
  BY <1>1, <1>3 DEF LateCommit, journal
<1>4. ASSUME NEW f \in Flushers, StoresEnd(f) PROVE Logs'
  BY <1>0, <1>4, FlushingLogs DEF Flushing
<1> QED BY <1>0, <1>2, <1>3, <1>4, WritesLogs, WaitsLogs, FlushingLogs, StopsLogs, Steps

-----------------------------------------------------------------------------
(* What a client's flush took, and the snapshot, through every step.       *)

LEMMA HadStays ==
    ASSUME Types, Seen, Extends, Flows, NEW f \in Foreground, flush[f].had \subseteq acked, flush'[f].had \subseteq flush[f].had
    PROVE  /\ \A c \in Chunks : HadAt(f, c) => HadAt(f, c)'
           /\ \A data : \A c \in Chunks : Covers(data, c, flush[f].had) => Covers(data, c, flush[f].had)'
<1>1. \A w \in flush'[f].had : w \in flush[f].had /\ w \in Firm /\ w \in DOMAIN writes
  BY FirmIs
<1>2. \A c \in Chunks : HadAt(f, c) => HadAt(f, c)'
  BY <1>1, SettledStays DEF HadAt
<1>3. \A data : \A c \in Chunks : Covers(data, c, flush[f].had) => Covers(data, c, flush[f].had)'
  BY <1>1, PartsStay DEF Covers
<1> QED BY <1>2, <1>3

\* Flush f has no copies but those it had, and misses none or says so.
LEMMA TakenOn ==
    ASSUME Types, Types', Seen, Extends, Flows, NEW f \in Foreground, TakenWith(f), acked \subseteq acked',
           flush'[f].had \subseteq flush[f].had, flush'[f].todo \subseteq flush[f].todo, flush'[f].st # "resolving",
           (flush'[f].st \in {"storing", "reset", "renamed", "flushed"} /\ ~flush'[f].missed) =>
              /\ flush[f].st \in {"storing", "reset", "renamed", "flushed"} /\ ~flush[f].missed
              /\ \A c \in Chunks : HadAt(f, c)' \/ (\E t \in flush'[f].todo : t.chunk = c)
                                   \/ ~\E t \in flush[f].todo : t.chunk = c
    PROVE  TakenWith(f)'
<1>1. /\ \A c \in Chunks : HadAt(f, c) => HadAt(f, c)'
      /\ \A data : \A c \in Chunks : Covers(data, c, flush[f].had) => Covers(data, c, flush[f].had)'
  BY HadStays DEF TakenWith
<1>2. flush'[f].had \subseteq acked'
  BY DEF TakenWith
<1>3. (flush'[f].st \in {"storing", "reset", "renamed", "flushed"} /\ ~flush'[f].missed) =>
         \A c \in Chunks : HadAt(f, c)' \/ \E t \in flush'[f].todo : t.chunk = c
  BY <1>1 DEF TakenWith
<1>4. \A t \in flush'[f].todo : Covers(t.data, t.chunk, flush[f].had)'
  <2> SUFFICES ASSUME NEW t \in flush'[f].todo PROVE Covers(t.data, t.chunk, flush[f].had)'
    OBVIOUS
  <2>1. t.chunk \in Chunks
    BY TypesParts, FlushType DEF Copy, Flushers
  <2> QED BY <1>1, <2>1 DEF TakenWith
<1> QED BY <1>2, <1>3, <1>4 DEF TakenWith

\* Flush f does nothing, and dirty chunks stay dirty.
LEMMA TakenSame ==
    ASSUME Types, Types', Seen, Extends, Flows, NEW f \in Foreground, TakenWith(f), acked \subseteq acked',
           flush'[f] = flush[f],
           \A c \in Chunks : (flush[f].st = "resolving" /\ cache[c].st = "dirty")
                                => cache'[c].st = "dirty" /\ (cache[c].held = Parts => cache'[c].held = Parts)
    PROVE  TakenWith(f)'
<1>1. \A c \in Chunks : HadAt(f, c) => HadAt(f, c)'
  BY HadStays DEF TakenWith
<1>2. CASE flush[f].st # "resolving"
  BY <1>2, TakenOn
<1>3. CASE flush[f].st = "resolving"
  <2>1. flush'[f].had \subseteq acked'
    BY DEF TakenWith
  <2>2. \A c \in flush[f].pend : cache'[c].st = "dirty"
    <3>1. flush[f].pend \subseteq Chunks
      BY TypesParts, FlushType DEF Flushers
    <3> QED BY <1>3, <3>1 DEF TakenWith
  <2>3. \A c \in Chunks : c \in flush[f].pend \/ (cache[c].st = "dirty" /\ Whole(c))' \/ HadAt(f, c)'
    BY <1>1, <1>3 DEF TakenWith, Whole
  <2>4. \A t \in flush'[f].todo : Covers(t.data, t.chunk, flush[f].had)'
    <3> SUFFICES ASSUME NEW t \in flush'[f].todo PROVE Covers(t.data, t.chunk, flush[f].had)'
      OBVIOUS
    <3>1. t.chunk \in Chunks
      BY TypesParts, FlushType DEF Copy, Flushers
    <3> QED BY <3>1, HadStays DEF TakenWith
  <2> QED BY <1>3, <2>1, <2>2, <2>3, <2>4 DEF TakenWith
<1> QED BY <1>2, <1>3

LEMMA FlushAllTaken ==
    ASSUME IInv, Extends, Flows, NEW f \in Foreground, FlushAll(f)
    PROVE  TakenWith(f)'
<1>0. Types /\ Seen /\ Backed /\ Lates /\ Copies /\ Storing
  BY IInvParts
<1>1. /\ flush'[f].st = "resolving" /\ flush'[f].had = acked /\ flush'[f].pend = {c \in Chunks : Pending(c)} /\ flush'[f].todo = {}
      /\ UNCHANGED <<acked, cache>>
  BY <1>0, FlushAllIs DEF Flushers, FlushAll, memory
<1>2. ASSUME NEW c \in Chunks, cache[c].st # "dirty" PROVE HadAt(f, c)'
  <2>1. \A w \in acked : w \in Firm /\ SettledAt(w, c)
    BY <1>0, <1>2, CleanSettled, FirmIs
  <2>2. \A w \in acked : SettledAt(w, c)'
    BY <1>0, <2>1, SettledStays
  <2> QED BY <1>1, <2>2 DEF HadAt
<1>3. \A c \in Chunks : Pending(c) \/ (cache[c].st = "dirty" /\ Whole(c)) \/ cache[c].st # "dirty"
  BY DEF Pending, Whole
<1>4. \A c \in Chunks : c \in flush'[f].pend \/ (cache[c].st = "dirty" /\ Whole(c))' \/ HadAt(f, c)'
  BY <1>1, <1>2, <1>3 DEF Whole
<1> QED BY <1>1, <1>4 DEF TakenWith, Pending

LEMMA CaptureAllTaken ==
    ASSUME IInv, Extends, Flows, NEW f \in Foreground, CaptureAll(f)
    PROVE  TakenWith(f)'
<1>0. Types /\ Seen /\ TakenWith(f)
  BY IInvParts DEF Taking
<1>1. /\ flush[f].st = "resolving" /\ flush'[f].st = "storing" /\ flush'[f].todo = {Captured(c) : c \in Flushable}
      /\ flush'[f].missed = (\E c \in flush[f].pend : Pending(c)) /\ flush'[f].had = flush[f].had
      /\ UNCHANGED <<acked, cache>>
  BY <1>0, CaptureAllIs DEF Flushers, CaptureAll, memory
<1>2. \A c \in Chunks : HadAt(f, c) => HadAt(f, c)'
  BY <1>0, <1>1, HadStays DEF TakenWith
<1>3. flush'[f].had \subseteq acked'
  BY <1>0, <1>1 DEF TakenWith
<1>4. ASSUME ~flush'[f].missed, NEW c \in Chunks
      PROVE  HadAt(f, c)' \/ \E t \in flush'[f].todo : t.chunk = c
  <2>1. CASE HadAt(f, c)
    BY <1>2, <2>1
  <2>2. CASE c \in Flushable
    <3>1. Captured(c) \in flush'[f].todo /\ Captured(c).chunk = c
      BY <1>1, <2>2 DEF Captured
    <3> QED BY <3>1
  <2>3. CASE c \in flush[f].pend
    <3>1. cache[c].st = "dirty" /\ ~Pending(c)
      BY <1>0, <1>1, <1>4, <2>3 DEF TakenWith
    <3>2. c \in Flushable
      BY <3>1 DEF Pending, Flushable, Whole
    <3> QED BY <2>2, <3>2
  <2> QED BY <1>0, <1>1, <2>1, <2>2, <2>3 DEF TakenWith, Flushable
<1>5. ASSUME NEW t \in flush'[f].todo PROVE Covers(t.data, t.chunk, flush[f].had)'
  <2>1. PICK c \in Chunks : c \in Flushable /\ t = Captured(c)
    BY <1>1 DEF Flushable
  <2>2. t.chunk = c /\ t.data = cache[c].data /\ cache[c].held = Parts
    BY <2>1 DEF Captured, Flushable, Whole
  <2>3. \A w \in flush[f].had : w \in Firm /\ w \in DOMAIN writes
    BY <1>0, FirmIs DEF TakenWith
  <2>4. \A w \in flush[f].had : \A p \in PartsOf(w, c) : t.data[p] >= w
    BY <1>0, <2>2, <2>3 DEF Seen, PartsOf
  <2>5. \A w \in flush[f].had : PartsOf(w, c)' = PartsOf(w, c)
    BY <2>3, PartsStay
  <2> QED BY <1>1, <2>2, <2>4, <2>5 DEF Covers
<1> QED BY <1>1, <1>3, <1>4, <1>5 DEF TakenWith

\* The chunk stored is settled, for the copy had it all.
LEMMA CommitTaken ==
    ASSUME IInv, OneTakes, Types', Extends, Flows, NEW f \in Foreground, CommitAnswered(f)
    PROVE  TakenWith(f)'
<1>0. Types /\ Seen /\ TakenWith(f) /\ Copies /\ Storing /\ f \in Flushers
  BY IInvParts DEF Taking, Flushers
<1>1. PICK ok \in BOOLEAN : ok = Swaps(Commit(f))
  BY DEF Swaps
<1>2. /\ flush[f].cur # NoChunk /\ flush[f].cur.chunk \in Chunks /\ Answered(f, ok) /\ late' = late
      /\ ok => rec'[flush[f].cur.chunk].data = flush[f].cur.data
      /\ \A m \in late : (ok /\ m.chunk = flush[f].cur.chunk) => ~Swaps(m)'
  BY <1>0, <1>1, CommitAnsweredIs
<1>3. /\ Moves(f) /\ flush'[f].st = flush[f].st /\ flush'[f].todo = flush[f].todo \ {flush[f].cur}
      /\ flush'[f].had = flush[f].had /\ flush'[f].missed = (flush[f].missed \/ ~ok)
  BY <1>0, <1>2, AnsweredIs
<1>4. flush[f].st = "storing" /\ flush[f].cur \in flush[f].todo
  BY <1>0, <1>2 DEF Storing
<1>5. PICK t \in flush[f].todo : t = flush[f].cur
  BY <1>4
<1>6. ASSUME ok PROVE HadAt(f, t.chunk)'
  <2> SUFFICES ASSUME NEW w \in flush[f].had, NEW p \in PartsOf(w, t.chunk)'
               PROVE  /\ rec'[t.chunk].data[p] >= w
                      /\ \A m \in late' : (m.chunk = t.chunk /\ Swaps(m)') => m.data[p] >= w
                      /\ \A g \in Flushers : \A u \in flush'[g].todo : u.chunk = t.chunk => u.data[p] >= w
    BY <1>3 DEF HadAt, SettledAt
  <2>1. w \in DOMAIN writes
    BY <1>0, FirmIs DEF TakenWith
  <2>2. p \in PartsOf(w, t.chunk)
    BY <2>1, PartsStay
  <2>3. t.data[p] >= w
    BY <1>0, <2>2 DEF TakenWith, Covers
  <2>4. \A u \in flush'[f].todo : u.chunk # t.chunk
    BY <1>0, <1>3, <1>5 DEF Copies
  <2>5. \A g \in Flushers \ {f} : flush'[g].todo = {}
    BY <1>0, <1>3, <1>4, Idle DEF Moves
  <2> QED BY <1>2, <1>5, <1>6, <2>3, <2>4, <2>5
<1>7. \A c \in Chunks : (\E u \in flush[f].todo : u.chunk = c) /\ c # t.chunk => \E u \in flush'[f].todo : u.chunk = c
  BY <1>3, <1>5
<1>8. acked' = acked
  BY DEF CommitAnswered
<1> QED BY <1>0, <1>3, <1>4, <1>6, <1>7, <1>8, TakenOn

LEMMA FlushingTaken ==
    ASSUME IInv, OneTakes, Types', Extends, Flows, NEW f \in Foreground, Flushing(f)
    PROVE  TakenWith(f)'
<1>0. Types /\ Seen /\ TakenWith(f) /\ Storing /\ f \in Flushers /\ f \notin Background
  BY IInvParts, FlushersAssumption DEF Taking, Flushers
<1>1. acked' = acked
  BY <1>0, FlushingIs DEF StoresEnd
<1>2. ASSUME flush'[f].had \subseteq flush[f].had, flush'[f].todo \subseteq flush[f].todo, flush'[f].st # "resolving",
             \/ flush'[f].st = "idle" \/ flush'[f].missed
             \/ /\ flush[f].st \in {"storing", "reset", "renamed", "flushed"} /\ flush'[f].todo = flush[f].todo
                /\ flush'[f].missed = flush[f].missed
      PROVE  TakenWith(f)'
  BY <1>0, <1>1, <1>2, TakenOn
<1>3. ASSUME NEW due \in SUBSET Chunks, CaptureDue(f, due) \/ TakeLock(f) PROVE FALSE
  BY <1>0, <1>3 DEF CaptureDue, TakeLock
<1>4. CASE StoreBegin(f)
  BY <1>0, <1>2, <1>4, StoreBeginIs
<1>5. CASE StoreFails(f)
  BY <1>0, <1>2, <1>5, StoreFailsIs
<1>6. CASE CommitLost(f)
  <2>1. flush[f].cur # NoChunk /\ Answered(f, FALSE)
    BY <1>6 DEF CommitLost
  <2>2. /\ flush'[f].st = flush[f].st /\ flush'[f].todo = flush[f].todo \ {flush[f].cur}
        /\ flush'[f].had = flush[f].had /\ flush'[f].missed = (flush[f].missed \/ ~FALSE)
    BY <1>0, <2>1, AnsweredIs
  <2>3. flush[f].st = "storing"
    BY <1>0, <2>1 DEF Storing
  <2> QED BY <1>2, <2>2, <2>3
<1>7. CASE StoresEnd(f)
  BY <1>0, <1>2, <1>7, StoresEndIs
<1>8. CASE Rotate(f)
  BY <1>0, <1>2, <1>8, RotateIs
<1>9. CASE KeepsJournal(f) \/ \E ok \in BOOLEAN : RotateEnds(f, ok)
  <2>1. Rests(f) /\ flush[f].st \in {"reset", "renamed"}
    BY <1>0, <1>9, RestsIs DEF KeepsJournal, RotateEnds
  <2> QED BY <1>0, <1>2, <2>1 DEF Rests
<1>10. CASE FlushEnds(f) \/ CreateSnapshot(f)
  <2>1. flush'[f] = NoFlush
    BY <1>0, <1>10, EndsIs DEF FlushEnds, CreateSnapshot
  <2> QED BY <1>2, <2>1, Nothings
<1> QED BY <1>3, <1>4, <1>5, <1>6, <1>7, <1>8, <1>9, <1>10, FlushAllTaken, CaptureAllTaken, CommitTaken DEF Flushing

\* A step by others.
LEMMA OthersTaken ==
    ASSUME IInv, OneTakes, Types', Extends, Flows, NEW f \in Foreground, NEW g \in Flushers, Flushing(g), g # f
    PROVE  TakenWith(f)'
<1>0. Types /\ Seen /\ TakenWith(f) /\ Storing /\ f \in Flushers
  BY IInvParts DEF Taking, Flushers
<1>1. acked' = acked
  BY <1>0, FlushingIs DEF StoresEnd
<1>2. Moves(g)
  <2>1. ASSUME NEW due \in SUBSET Chunks, CaptureDue(g, due) PROVE Moves(g)
    BY <1>0, <2>1, CaptureDueIs
  <2>2. CASE TakeLock(g) \/ FlushAll(g) \/ CaptureAll(g) \/ StoreBegin(g) \/ StoreFails(g) \/ StoresEnd(g) \/ Rotate(g)
    BY <1>0, <2>2, TakeLockIs, FlushAllIs, CaptureAllIs, StoreBeginIs, StoreFailsIs, StoresEndIs, RotateIs
  <2>3. CASE CommitAnswered(g) \/ CommitLost(g)
    BY <1>0, <2>3, AnsweredIs DEF CommitAnswered, CommitLost, Swaps
  <2>4. CASE KeepsJournal(g) \/ (\E ok \in BOOLEAN : RotateEnds(g, ok)) \/ FlushEnds(g) \/ CreateSnapshot(g)
    BY <1>0, <2>4, RestsIs, EndsIs DEF KeepsJournal, RotateEnds, FlushEnds, CreateSnapshot, Rests
  <2> QED BY <2>1, <2>2, <2>3, <2>4 DEF Flushing
<1>3. flush'[f] = flush[f]
  BY <1>0, <1>2 DEF Moves
<1>4. CASE StoresEnd(g)
  <2>1. flush[f].st # "resolving"
    <3>1. flush[g].st = "storing"
      BY <1>4 DEF StoresEnd
    <3>2. lock = g
      BY <1>0, <3>1, TypesParts DEF TyLock
    <3> QED BY <1>0, <3>2, TypesParts, FlushersAssumption DEF TyLock
  <2> QED BY <1>0, <1>1, <1>3, <2>1, TakenSame
<1>5. CASE ~StoresEnd(g)
  <2>1. cache' = cache
    BY <1>0, <1>5, FlushingIs DEF Calm
  <2> QED BY <1>0, <1>1, <1>3, <2>1, TakenSame
<1> QED BY <1>4, <1>5

LEMMA NextTaking ==
    ASSUME IInv, Scope, Next
    PROVE  Taking'
<1>0. Types /\ Types' /\ Seen /\ Extends /\ Flows /\ Storing /\ Taking /\ OneTakes
  BY IInvParts, NextFlows, TypesStep DEF Scope
<1> SUFFICES ASSUME NEW f \in Foreground PROVE TakenWith(f)'
  BY DEF Taking
<1>1. f \in Flushers /\ TakenWith(f)
  BY <1>0 DEF Flushers, Taking
<1>2. ASSUME acked \subseteq acked', flush' = flush,
             \A c \in Chunks : cache[c].st = "dirty" => cache'[c].st = "dirty" /\ (cache[c].held = Parts => cache'[c].held = Parts)
      PROVE  TakenWith(f)'
  BY <1>0, <1>1, <1>2, TakenSame
<1>3. ASSUME NEW k \in Clients, NEW c \in Chunks, NEW P \in (SUBSET Parts) \ {{}}, LogWrite(k, c, P) PROVE TakenWith(f)'
  <2>1. /\ Changes(c) /\ cache'[c].st = "dirty" /\ cache'[c].held = cache[c].held \cup P /\ acked' = acked /\ flush' = flush
    <3>1. acked' = acked /\ flush' = flush
      BY <1>3 DEF LogWrite
    <3> QED BY <1>0, <1>3, <3>1, LogWriteIs
  <2>2. \A d \in Chunks : cache[d].st = "dirty" => cache'[d].st = "dirty" /\ (cache[d].held = Parts => cache'[d].held = Parts)
    <3> SUFFICES ASSUME NEW d \in Chunks, cache[d].st = "dirty"
                 PROVE  cache'[d].st = "dirty" /\ (cache[d].held = Parts => cache'[d].held = Parts)
      OBVIOUS
    <3>1. CASE d = c
      BY <2>1, <3>1
    <3>2. CASE d # c
      BY <2>1, <3>2 DEF Changes
    <3> QED BY <3>1, <3>2
  <2> QED BY <1>2, <2>1, <2>2
<1>4. ASSUME NEW k \in Clients, NEW c \in Chunks, NEW P \in (SUBSET Parts) \ {{}}, NEW whole \in BOOLEAN, AppendFails(k, c, P, whole)
      PROVE  TakenWith(f)'
  BY <1>2, <1>4 DEF AppendFails, memory
<1>5. ASSUME NEW k \in Clients, Waits(k) PROVE TakenWith(f)'
  BY <1>0, <1>2, <1>5, WaitsIs
<1>6. CASE Loading
  <2>1. acked' = acked /\ flush' = flush
    BY <1>6, LoadingSame DEF Same
  <2>2. ASSUME NEW c \in Chunks, Changes(c), cache[c].st # "dirty" \/ (cache'[c].st = "dirty" /\ cache'[c].held = Parts)
        PROVE  TakenWith(f)'
    <3>1. \A d \in Chunks : cache[d].st = "dirty" => cache'[d].st = "dirty" /\ (cache[d].held = Parts => cache'[d].held = Parts)
      BY <2>2 DEF Changes
    <3> QED BY <1>2, <2>1, <3>1
  <2>3. ASSUME cache' = cache PROVE TakenWith(f)'
    BY <1>2, <2>1, <2>3
  <2>4. ASSUME NEW c \in Chunks, resolve(c), Pending(c) PROVE TakenWith(f)'
    BY <1>0, <2>2, <2>4, ResolveIs
  <2>5. ASSUME NEW r \in Readers, ReadEnds(r) PROVE TakenWith(f)'
    <3>1. reading[r] # NoRead /\ Reads
      BY <2>5, IInvParts DEF ReadEnds
    <3>2. PICK c \in Chunks : c = reading[r].chunk
      BY <3>1 DEF Reads
    <3>3. cache' = cache \/ (cache[c].st = "none" /\ Changes(c))
      BY <1>0, <2>5, <3>2, ReadEndsIs DEF ReadEnds, add_clean
    <3> QED BY <2>2, <2>3, <3>3
  <2>6. ASSUME NEW c \in Chunks, LoadBegin(c) \/ (resolve(c) /\ ~Pending(c)) \/ \E r \in Readers : ReadMisses(r, c) PROVE TakenWith(f)'
    BY <2>3, <2>6 DEF LoadBegin, resolve, ReadMisses, memory
  <2> QED BY <1>6, <2>4, <2>5, <2>6 DEF Loading
<1>7. ASSUME NEW g \in Flushers, Flushing(g) PROVE TakenWith(f)'
  BY <1>0, <1>1, <1>7, FlushingTaken, OthersTaken
<1>8. ASSUME NEW m \in late, LateCommit(m) PROVE TakenWith(f)'
  BY <1>2, <1>8 DEF LateCommit, memory
<1>9. CASE Stops
  <2>1. PICK h \in Journal : Started(h)
    BY <1>9, StopsIs
  <2>2. flush' = [g \in Flushers |-> NoFlush] /\ acked' = acked
    BY <1>0, <2>1, StartedIs
  <2>3. flush'[f] = NoFlush
    BY <1>1, <2>2
  <2> QED BY <1>0, <1>1, <2>2, <2>3, TakenOn, Nothings
<1>10. ASSUME NEW g \in Flushers, StoresEnd(g) PROVE TakenWith(f)'
  BY <1>7, <1>10 DEF Flushing
<1> QED BY <1>3, <1>4, <1>5, <1>6, <1>7, <1>8, <1>9, <1>10, Steps

LEMMA SnapStays ==
    ASSUME Types, Extends, Snapped, snap' = snap, acked \subseteq acked'
    PROVE  Snapped'
<1> SUFFICES ASSUME snap.there
             PROVE  /\ snap.had \subseteq acked'
                    /\ \A w \in snap.had : \A cell \in writes'[w] : snap.data[cell[1]][cell[2]] >= w
  BY DEF Snapped, SnapshotHasAll
<1>1. snap.had \subseteq acked /\ \A w \in snap.had : \A cell \in writes[w] : snap.data[cell[1]][cell[2]] >= w
  BY DEF Snapped, SnapshotHasAll
<1>2. \A w \in snap.had : writes'[w] = writes[w]
  BY <1>1, FirmIs DEF Extends
<1> QED BY <1>1, <1>2

LEMMA CreateSnapped ==
    ASSUME IInv, Extends, NEW f \in Flushers, CreateSnapshot(f)
    PROVE  Snapped'
<1>0. Types /\ Storing /\ Taking
  BY IInvParts
<1>1. /\ flush[f].st = "flushed" /\ ~flush[f].missed /\ UNCHANGED <<writes, acked>>
      /\ snap' = [there |-> TRUE, data |-> [c \in Chunks |-> rec[c].data], had |-> flush[f].had]
  BY DEF CreateSnapshot
<1>2. f \in Foreground
  BY <1>0, <1>1, TypesParts DEF TyLock, Flushers
<1>3. flush[f].todo = {}
  BY <1>0, <1>1 DEF Storing
<1>4. TakenWith(f)
  BY <1>0, <1>2 DEF Taking
<1>5. flush[f].had \subseteq acked /\ \A c \in Chunks : HadAt(f, c)
  BY <1>1, <1>3, <1>4 DEF TakenWith
<1>6. ASSUME NEW w \in flush[f].had, NEW cell \in writes[w] PROVE snap'.data[cell[1]][cell[2]] >= w
  <2>1. w \in DOMAIN writes
    BY <1>0, <1>5, FirmIs
  <2>2. writes[w] \in SUBSET Cells
    BY <1>0, <2>1, TypesParts, FirmIs DEF TyWrites
  <2>3. PICK c \in Chunks, p \in Parts : cell = <<c, p>>
    BY <2>2 DEF Cells
  <2>4. p \in PartsOf(w, c)
    BY <2>3 DEF PartsOf
  <2>5. rec[c].data[p] >= w
    BY <1>5, <2>4 DEF HadAt, SettledAt
  <2> QED BY <1>1, <2>3, <2>5
<1> QED BY <1>1, <1>5, <1>6 DEF Snapped, SnapshotHasAll

LEMMA NextSnapped ==
    ASSUME IInv, Scope, Next
    PROVE  Snapped'
<1>0. Types /\ Extends /\ Snapped /\ Storing
  BY IInvParts, NextFlows
<1>1. ASSUME snap' = snap, acked \subseteq acked' PROVE Snapped'
  BY <1>0, <1>1, SnapStays
<1>2. ASSUME NEW k \in Clients, NEW c \in Chunks, NEW P \in (SUBSET Parts) \ {{}},
             LogWrite(k, c, P) \/ \E whole \in BOOLEAN : AppendFails(k, c, P, whole) PROVE Snapped'
  BY <1>1, <1>2 DEF LogWrite, AppendFails, meta
<1>3. ASSUME NEW k \in Clients, Waits(k) PROVE Snapped'
  BY <1>0, <1>1, <1>3, WaitsIs
<1>4. ASSUME NEW f \in Flushers, Flushing(f) PROVE Snapped'
  <2>1. acked' = acked
    BY <1>0, <1>4, FlushingIs DEF StoresEnd
  <2>2. CASE ~CreateSnapshot(f)
    <3>1. snap' = snap
      BY <1>4, <2>2 DEF Flushing, CaptureDue, TakeLock, FlushAll, CaptureAll, StoreBegin, StoreFails, CommitAnswered, CommitLost,
                        StoresEnd, Rotate, RotateEnds, KeepsJournal, FlushEnds, meta
    <3> QED BY <1>1, <2>1, <3>1
  <2> QED BY <1>0, <2>2, CreateSnapped
<1>5. ASSUME NEW f \in Flushers, StoresEnd(f) PROVE Snapped'
  BY <1>4, <1>5 DEF Flushing
<1>6. ASSUME NEW m \in late, LateCommit(m) PROVE Snapped'
  BY <1>1, <1>6 DEF LateCommit
<1>7. CASE Loading
  BY <1>1, <1>7, LoadingSame DEF Same
<1>8. CASE Stops
  <2>1. PICK h \in Journal : Started(h)
    BY <1>8, StopsIs
  <2> QED BY <1>0, <1>1, <2>1, StartedIs
<1> QED BY <1>2, <1>3, <1>4, <1>5, <1>6, <1>7, <1>8, Steps

-----------------------------------------------------------------------------
(* The invariant.                                                          *)

LEMMA IInvInit == Init => IInv
<1> SUFFICES ASSUME Init PROVE IInv
  OBVIOUS
<1>1. /\ writes = <<>> /\ acked = {} /\ file = NewFile(0) /\ old = NoFile /\ syncing = NoSync
      /\ cache = [c \in Chunks |-> NotHeld] /\ loading = [c \in Chunks |-> NoLoad]
      /\ reading = [r \in Readers |-> NoRead] /\ client = [k \in Clients |-> Quiet]
      /\ flush = [f \in Flushers |-> NoFlush] /\ rec = [c \in Chunks |-> [id |-> 0, data |-> Zeros]]
      /\ late = {} /\ snap = NoSnap
  BY DEF Init
<1>2. Types
  BY TypesInit
<1>3. Logged = {} /\ Firm = {}
  <2>1. Logged = {}
    BY <1>1, Nothings DEF Logged
  <2> QED BY <1>1, <2>1 DEF Firm
<1>4. /\ \A c \in Chunks : /\ cache[c].data = Zeros /\ rec[c].data = Zeros /\ loading[c].data = Zeros /\ ~loading[c].there
                           /\ rec[c].id = 0
      /\ \A r \in Readers : reading[r] = NoRead /\ reading[r].data = Zeros
      /\ \A f \in Flushers : flush[f] = NoFlush
  BY <1>1 DEF NotHeld, NoLoad, NoRead
<1>5. \A c : Genuine(Zeros, c)
  BY DEF Genuine, Zeros
<1>6. \A f \in Flushers : flush[f].todo = {} /\ flush[f].done = {} /\ flush[f].cur = NoChunk /\ flush[f].had = {} /\ flush[f].st = "idle"
  BY <1>4, Nothings
<1>7. Stored
  <2>1. AllGenuine
    BY <1>1, <1>4, <1>5, <1>6 DEF AllGenuine
  <2>2. Seen /\ Backed /\ Lates
    BY <1>1, <1>3 DEF Seen, Backed, Backs, Lates
  <2>3. Loads /\ Reads
    BY <1>4 DEF Loads, Reads
  <2>4. First
    BY <1>1, <1>4 DEF First
  <2> QED BY <2>1, <2>2, <2>3, <2>4 DEF Stored
<1>8. Flushed
  BY <1>1, <1>6 DEF Flushed, Copies, Done, Storing, Ids
<1>9. Logs
  <2>1. Len(file.entries) = 0 /\ Len(old.entries) = 0
    BY <1>1, Nothings, NewFileType
  <2>2. Journaled
    BY <1>3, <2>1 DEF Journaled, Ordered
  <2>3. Durable /\ Syncing /\ Older
    BY <1>1, <1>3, Nothings DEF Durable, SafeTo, Syncing, Older, NoSync
  <2> QED BY <2>2, <2>3 DEF Logs
<1>10. Taking
  BY <1>6 DEF Taking, TakenWith, Flushers
<1>11. Snapped
  BY <1>1 DEF Snapped, NoSnap
<1> QED BY <1>2, <1>7, <1>8, <1>9, <1>10, <1>11 DEF IInv

LEMMA IInvStutters ==
    ASSUME IInv, UNCHANGED vars
    PROVE  IInv'
<1>0. Types /\ Stored /\ Flushed /\ Logs /\ Taking /\ Snapped /\ Types' /\ Copies /\ Seen
  BY IInvParts, TypesStep DEF IInv
<1>1. UNCHANGED <<writes, acked, file, old, synced, failed, syncing, cache, versions, loading, reading, client, flush,
                  rec, late, snap, stops>>
  BY DEF vars, journal, memory, meta
<1>2. Flows
  BY <1>1, StillFlows
<1>3. Firm' = Firm /\ Logged' = Logged /\ Calm /\ Extends
  BY <1>1 DEF Firm, Logged, Calm, Extends
<1>4. Stored'
  BY <1>0, <1>2, <1>3, CalmStored
<1>5. Flushed'
  <2>1. Later
    BY <1>0, <1>1, TypesParts DEF Later, TyCache
  <2> QED BY <1>0, <1>1, <2>1, LaterFlushed
<1>6. Logs'
  <2>1. Journaled' /\ Durable' /\ Syncing' /\ Older'
    BY <1>0, <1>1, <1>2, <1>3, LogsStay
  <2> QED BY <2>1 DEF Logs
<1>7. Taking'
  BY <1>0, <1>1, <1>2, <1>3, TakenSame DEF Taking
<1>8. Snapped'
  BY <1>0, <1>1, <1>3, SnapStays
<1> QED BY <1>0, <1>4, <1>5, <1>6, <1>7, <1>8 DEF IInv

LEMMA IInvStep ==
    ASSUME Scope
    PROVE  IInv /\ [Next]_vars => IInv'
<1>1. ASSUME IInv, Next PROVE IInv'
  <2>1. Types'
    BY <1>1, TypesStep DEF IInv
  <2> QED BY <1>1, <2>1, NextStored, NextFlushed, NextLogs, NextTaking, NextSnapped DEF IInv
<1> QED BY <1>1, IInvStutters

\* The inductive invariant, while flushes take their copies in turn: what is in
\* the cache, in meta and on its way between them has every write that may not
\* be lost, or the cache holds it dirty; a write no longer in the journal is
\* settled.
THEOREM Invariants ==
    ASSUME OneFault
    PROVE  InTurnSpec => [](IInv /\ OneTakes)
<1>1. Init => IInv /\ OneTakes
  <2>1. ASSUME Init PROVE OneTakes
    <3>1. \A f \in Flushers : flush[f].st = "idle"
      BY <2>1, Nothings DEF Init
    <3> QED BY <3>1 DEF OneTakes
  <2> QED BY <2>1, IInvInit
<1>2. IInv /\ OneTakes /\ [Next /\ OneTakes']_vars => (IInv /\ OneTakes)'
  <2> SUFFICES ASSUME IInv, OneTakes, [Next /\ OneTakes']_vars PROVE IInv' /\ OneTakes'
    OBVIOUS
  <2>1. IInv'
    BY IInvStep DEF Scope
  <2>2. CASE UNCHANGED vars
    <3>1. flush' = flush
      BY <2>2 DEF vars
    <3> QED BY <2>1, <3>1 DEF OneTakes
  <2> QED BY <2>1, <2>2
<1> QED BY <1>1, <1>2, PTL DEF InTurnSpec

\* A gateway on which no client asks for a flush, or has its loop idle: every
\* behaviour is one in which flushes take their copies in turn, the single loop
\* because it is alone and clients' flushes because they do so under the lock.
THEOREM OneKindTakesInTurn ==
    ASSUME Background = {} \/ (Foreground = {} /\ \A f, g \in Background : f = g)
    PROVE  Spec => InTurnSpec
<1>1. Types => OneTakes
  BY TypesParts, FlushersAssumption DEF OneTakes, TyLock, Flushers
<1>2. Init => Types
  BY TypesInit
<1>3. Types /\ [Next]_vars => Types'
  BY TypesStep
<1>4. Types' => OneTakes'
  BY <1>1, PTL
<1> QED BY <1>2, <1>3, <1>4, PTL DEF Spec, InTurnSpec

\* mark_flushed and reset_journal_if_clean: whatever was acknowledged of a chunk
\* the cache calls clean is in its stripe, however writes, resolves, reads, late
\* commits and restarts interleave with the flush, so that the journal may be
\* replaced when nothing is dirty.
THEOREM CleanChunksAreStored ==
    ASSUME OneFault
    PROVE  InTurnSpec => []CleanIsStored
<1>1. IInv => CleanIsStored
  <2> SUFFICES ASSUME IInv, NEW c \in Chunks, cache[c].st = "clean", NEW w \in acked, NEW p \in PartsOf(w, c)
               PROVE  rec[c].data[p] >= w
    BY DEF CleanIsStored
  <2>1. Types /\ Backed
    BY IInvParts
  <2>2. w \in Firm
    BY <2>1, FirmIs
  <2> QED BY <2>1, <2>2 DEF Backed, Backs, Held
<1> QED BY <1>1, Invariants, PTL

\* read_chunk: a read that loaded a chunk answers with every write acknowledged
\* before it began, whatever writes and flushes overtook it: its own bytes have
\* them, and so has the cache's copy, if there is one by then.
THEOREM ReadsAreFresh ==
    ASSUME OneFault
    PROVE  InTurnSpec => ReadsFresh
<1>1. IInv => [\A r \in Readers : (reading[r] # NoRead /\ reading'[r] = NoRead /\ stops' = stops) =>
                  \A w \in reading[r].had : \A p \in PartsOf(w, reading[r].chunk) : ReadAnswer(r)[p] >= w]_vars
  <2> SUFFICES ASSUME IInv, NEW r \in Readers, reading[r] # NoRead, NEW w \in reading[r].had,
                      NEW p \in PartsOf(w, reading[r].chunk)
               PROVE  ReadAnswer(r)[p] >= w
    OBVIOUS
  <2>1. Types /\ Seen /\ Reads
    BY IInvParts
  <2>2. /\ reading[r].chunk \in Chunks /\ reading[r].had \subseteq acked
        /\ Covers(reading[r].data, reading[r].chunk, reading[r].had)
    BY <2>1 DEF Reads
  <2>3. reading[r].data[p] >= w
    BY <2>2 DEF Covers
  <2>4. w \in Firm
    BY <2>1, <2>2, FirmIs
  <2>5. Whole(reading[r].chunk) => cache[reading[r].chunk].data[p] >= w
    BY <2>1, <2>2, <2>4 DEF Whole, Seen, PartsOf
  <2> QED BY <2>3, <2>5 DEF ReadAnswer
<1> QED BY <1>1, Invariants, PTL DEF ReadsFresh

\* create_snapshot: the stripes a snapshot records have every write that was
\* acknowledged before its flush began: dirty, pending or clean then, written
\* over while it was stored, or with the answer to its commit lost.
THEOREM SnapshotsHaveAll ==
    ASSUME OneFault
    PROVE  InTurnSpec => []SnapshotHasAll
<1>1. IInv => SnapshotHasAll
  BY IInvParts DEF Snapped, SnapshotHasAll
<1> QED BY <1>1, Invariants, PTL

-----------------------------------------------------------------------------
(* The durable disk.                                                       *)

\* What a read of part p of chunk c answers.
Shown(c, p) == IF p \in cache[c].held THEN cache[c].data[p] ELSE rec[c].data[p]

LEMMA VisibleIs ==
    /\ \A c \in Chunks, p \in Parts : <<c, p>> \in Cells /\ Visible(<<c, p>>) = Shown(c, p)
    /\ \A cell \in Cells : cell[1] \in Chunks /\ cell[2] \in Parts /\ cell = <<cell[1], cell[2]>>
  BY DEF Cells, Visible, Shown

\* It shows a write made there, and no firm one is newer.
ShowsAll == \A c \in Chunks, p \in Parts :
               /\ Shown(c, p) \in 0..Len(writes)
               /\ Shown(c, p) # 0 => <<c, p>> \in writes[Shown(c, p)]
               /\ \A w \in Firm : <<c, p>> \in writes[w] => Shown(c, p) >= w

LEMMA ShowsAllHolds == IInv => ShowsAll
<1> SUFFICES ASSUME IInv, NEW c \in Chunks, NEW p \in Parts
             PROVE  /\ Shown(c, p) \in 0..Len(writes)
                    /\ Shown(c, p) # 0 => <<c, p>> \in writes[Shown(c, p)]
                    /\ \A w \in Firm : <<c, p>> \in writes[w] => Shown(c, p) >= w
  BY DEF ShowsAll
<1>0. Types /\ AllGenuine /\ Seen /\ Backed
  BY IInvParts
<1>1. PICK v : v = Shown(c, p)
  OBVIOUS
<1>2. v # 0 => v \in DOMAIN writes /\ <<c, p>> \in writes[v]
  BY <1>0, <1>1 DEF AllGenuine, Genuine, Shown
<1>3. DOMAIN writes = 1..Len(writes) /\ Len(writes) \in Nat
  BY <1>0, FirmIs
<1>4. v \in 0..Len(writes)
  BY <1>2, <1>3
<1>5. ASSUME NEW w \in Firm, <<c, p>> \in writes[w] PROVE v >= w
  <2>1. p \in PartsOf(w, c)
    BY <1>5 DEF PartsOf
  <2>2. CASE p \in cache[c].held
    BY <1>0, <1>1, <2>1, <2>2 DEF Seen, Shown
  <2>3. CASE p \notin cache[c].held
    BY <1>0, <1>1, <2>1, <2>3 DEF Backed, Backs, Held, Shown
  <2> QED BY <2>2, <2>3
<1> QED BY <1>1, <1>2, <1>4, <1>5

\* Before a first stop a chunk not whole is zeros where the cache holds nothing.
LEMMA ShownSame ==
    ASSUME First, First', stops = 0, stops' = 0,
           \A c \in Chunks, p \in Parts : IF p \in cache[c].held THEN p \in cache'[c].held /\ cache'[c].data[p] = cache[c].data[p]
                                          ELSE p \in cache'[c].held => cache'[c].data[p] = 0
    PROVE  \A c \in Chunks, p \in Parts : Shown(c, p)' = Shown(c, p)
<1> SUFFICES ASSUME NEW c \in Chunks, NEW p \in Parts PROVE Shown(c, p)' = Shown(c, p)
  OBVIOUS
<1>1. CASE p \in cache[c].held
  BY <1>1 DEF Shown
<1>2. CASE p \notin cache[c].held
  <2>1. rec[c].data[p] = 0
    BY <1>2 DEF First, Zeros
  <2>2. p \notin cache'[c].held => rec'[c].data[p] = 0
    BY DEF First, Zeros
  <2> QED BY <1>2, <2>1, <2>2 DEF Shown
<1> QED BY <1>1, <1>2

\* A flush, a late commit, a load: nothing to see before a first stop.
LEMMA Unseen ==
    ASSUME IInv, IInv', Next, stops = 0, stops' = 0,
           (\E f \in Flushers : Flushing(f)) \/ Loading \/ \E m \in late : LateCommit(m)
    PROVE  \A c \in Chunks, p \in Parts : Shown(c, p)' = Shown(c, p)
<1>0. Types /\ First /\ Reads /\ Storing /\ First'
  BY IInvParts DEF IInv, Stored
<1>1. ASSUME \A c \in Chunks : cache'[c].held = cache[c].held /\ cache'[c].data = cache[c].data
      PROVE  \A c \in Chunks, p \in Parts : Shown(c, p)' = Shown(c, p)
  BY <1>0, <1>1, ShownSame
<1>2. ASSUME NEW f \in Flushers, Flushing(f) PROVE \A c \in Chunks, p \in Parts : Shown(c, p)' = Shown(c, p)
  <2>1. CASE StoresEnd(f)
    <3>1. \A c \in Chunks : cache'[c].held = cache[c].held /\ cache'[c].data = cache[c].data
      <4>1. mark_flushed(flush[f].done)
        BY <2>1 DEF StoresEnd
      <4> QED BY <1>0, <4>1, MarkFlushedIs, TypesParts
    <3> QED BY <1>1, <3>1
  <2>2. CASE ~StoresEnd(f)
    <3>1. cache' = cache
      BY <1>0, <1>2, <2>2, FlushingIs DEF Calm
    <3> QED BY <1>1, <3>1
  <2> QED BY <2>1, <2>2
<1>3. ASSUME NEW m \in late, LateCommit(m) PROVE \A c \in Chunks, p \in Parts : Shown(c, p)' = Shown(c, p)
  BY <1>1, <1>3 DEF LateCommit, memory
<1>4. ASSUME NEW c \in Chunks, Changes(c), cache[c].held # Parts,
             \A p \in Parts : cache'[c].data[p] = (IF p \in cache[c].held THEN cache[c].data[p] ELSE 0), cache'[c].held = Parts
      PROVE  \A d \in Chunks, p \in Parts : Shown(d, p)' = Shown(d, p)
  <2>1. ASSUME NEW d \in Chunks, NEW p \in Parts
        PROVE  IF p \in cache[d].held THEN p \in cache'[d].held /\ cache'[d].data[p] = cache[d].data[p]
               ELSE p \in cache'[d].held => cache'[d].data[p] = 0
    <3>1. CASE d = c
      BY <1>4, <3>1
    <3>2. CASE d # c
      BY <1>4, <3>2 DEF Changes
    <3> QED BY <3>1, <3>2
  <2> QED BY <1>0, <2>1, ShownSame
<1>5. ASSUME NEW c \in Chunks, resolve(c), Pending(c) PROVE \A d \in Chunks, p \in Parts : Shown(d, p)' = Shown(d, p)
  <2>1. /\ Changes(c) /\ cache'[c].held = Parts /\ cache[c].held # Parts
        /\ \A p \in Parts : cache'[c].data[p] = IF p \in cache[c].held THEN cache[c].data[p] ELSE loading[c].data[p]
    BY <1>0, <1>5, ResolveIs DEF Pending
  <2>2. \A p \in Parts : loading[c].data[p] = 0
    BY <1>0, <2>1 DEF First, Zeros
  <2> QED BY <1>4, <2>1, <2>2
<1>6. ASSUME NEW r \in Readers, ReadEnds(r) PROVE \A d \in Chunks, p \in Parts : Shown(d, p)' = Shown(d, p)
  <2>1. PICK c \in Chunks : c = reading[r].chunk
    BY <1>0, <1>6 DEF Reads, ReadEnds
  <2>2. CASE cache[c].st # "none"
    BY <1>1, <1>6, <2>1, <2>2 DEF ReadEnds, add_clean
  <2>3. CASE cache[c].st = "none"
    <3>1. Changes(c) /\ cache'[c].held = Parts /\ cache'[c].data = reading[r].data
      BY <1>0, <1>6, <2>1, <2>3, ReadEndsIs
    <3>2. cache[c].held = {} /\ cache[c].held # Parts
      BY <1>0, <2>3, TypesParts, ChunkType, SizesAssumption
    <3>3. \A p \in Parts : reading[r].data[p] = 0
      BY <1>0, <2>1, <3>2 DEF First, Zeros
    <3> QED BY <1>4, <3>1, <3>2, <3>3
  <2> QED BY <2>2, <2>3
<1>7. ASSUME NEW c \in Chunks, LoadBegin(c) \/ (resolve(c) /\ ~Pending(c)) \/ \E r \in Readers : ReadMisses(r, c)
      PROVE  \A d \in Chunks, p \in Parts : Shown(d, p)' = Shown(d, p)
  <2>1. cache' = cache
    BY <1>7 DEF LoadBegin, resolve, ReadMisses, memory
  <2> QED BY <1>1, <2>1
<1>8. CASE Loading
  BY <1>5, <1>6, <1>7, <1>8 DEF Loading
<1> QED BY <1>2, <1>3, <1>8

\* The disk's view.
LEMMA SeenSame ==
    ASSUME \A c \in Chunks, p \in Parts : Shown(c, p)' = Shown(c, p)
    PROVE  [cell \in Cells |-> Visible(cell)]' = [cell \in Cells |-> Visible(cell)]
<1> SUFFICES ASSUME NEW cell \in Cells PROVE Visible(cell)' = Visible(cell)
  OBVIOUS
<1>1. PICK c \in Chunks, p \in Parts : cell = <<c, p>>
  BY DEF Cells
<1>2. Shown(c, p)' = Shown(c, p)
  OBVIOUS
<1> QED BY <1>1, <1>2 DEF Visible, Shown

LEMMA DiskKept ==
    ASSUME IInv', UNCHANGED <<writes, acked>>
    PROVE  Disk!Kept
<1>1. ShowsAll'
  BY ShowsAllHolds, PTL
<1>2. PICK val : val = [cell \in Cells |-> Visible(cell)]'
  OBVIOUS
<1>3. \A c \in Chunks, p \in Parts : val[<<c, p>>] = Shown(c, p)'
  BY <1>2 DEF Cells, Visible, Shown
<1>4. acked \subseteq Firm'
  BY DEF Firm
<1>5. ASSUME NEW cell \in Cells
      PROVE  /\ val[cell] \in 0..Len(writes)
             /\ val[cell] # 0 => cell \in writes[val[cell]]
             /\ \A w \in acked : cell \in writes[w] => val[cell] >= w
  <2>1. PICK c \in Chunks, p \in Parts : cell = <<c, p>>
    BY DEF Cells
  <2>2. val[cell] = Shown(c, p)'
    BY <1>3, <2>1
  <2>3. /\ Shown(c, p)' \in 0..Len(writes)
        /\ Shown(c, p)' # 0 => <<c, p>> \in writes[Shown(c, p)']
        /\ \A w \in Firm' : <<c, p>> \in writes[w] => Shown(c, p)' >= w
    BY <1>1 DEF ShowsAll
  <2> QED BY <1>4, <2>1, <2>2, <2>3
<1>6. val \in [Cells -> 0..Len(writes)]
  BY <1>2, <1>5
<1> QED BY <1>2, <1>5, <1>6 DEF Disk!Kept

LEMMA WriteOnDisk ==
    ASSUME Types, NEW k \in Clients, NEW c \in Chunks, NEW P \in (SUBSET Parts) \ {{}}, LogWrite(k, c, P)
    PROVE  Disk!Write({c} \X P)
<1>1. PICK w : w = Len(writes) + 1
  OBVIOUS
<1>2. /\ writes' = Append(writes, {c} \X P) /\ UNCHANGED <<acked, rec, stops>>
  BY DEF LogWrite, meta
<1>3. /\ Changes(c) /\ cache'[c].held = cache[c].held \cup P
      /\ \A p \in Parts : cache'[c].data[p] = IF p \in P THEN w ELSE cache[c].data[p]
  BY <1>1, LogWriteIs
<1>4. ASSUME NEW cell \in Cells PROVE Visible(cell)' = IF cell \in {c} \X P THEN w ELSE Visible(cell)
  <2>1. PICK d \in Chunks, p \in Parts : cell = <<d, p>>
    BY DEF Cells
  <2>2. Visible(cell) = Shown(d, p) /\ Visible(cell)' = Shown(d, p)'
    BY <2>1 DEF Visible, Shown
  <2>3. cell \in {c} \X P <=> d = c /\ p \in P
    BY <2>1
  <2>4. CASE d # c
    <3>1. cache'[d] = cache[d]
      BY <1>3, <2>4 DEF Changes
    <3> QED BY <1>2, <2>2, <2>3, <2>4, <3>1 DEF Shown
  <2>5. CASE d = c
    BY <1>2, <1>3, <2>2, <2>3, <2>5 DEF Shown
  <2> QED BY <2>4, <2>5
<1>5. [cell \in Cells |-> Visible(cell)]' =
      [cell \in Cells |-> IF cell \in {c} \X P THEN Len(writes) + 1 ELSE [e \in Cells |-> Visible(e)][cell]]
  BY <1>1, <1>4
<1> QED BY <1>2, <1>5 DEF Disk!Write

\* Every step is one of the disk's, or leaves it alone.
LEMMA DiskStep ==
    ASSUME Scope, IInv, IInv', [Next]_vars
    PROVE  [Disk!Next]_(Disk!diskvars)
<1>0. Types /\ Storing
  BY IInvParts
<1>1. ASSUME UNCHANGED <<writes, acked, stops>>, \A c \in Chunks, p \in Parts : Shown(c, p)' = Shown(c, p)
      PROVE  UNCHANGED Disk!diskvars
  BY <1>1, SeenSame DEF Disk!diskvars
<1>2. ASSUME UNCHANGED <<cache, rec>> PROVE \A c \in Chunks, p \in Parts : Shown(c, p)' = Shown(c, p)
  BY <1>2 DEF Shown
<1>3. ASSUME UNCHANGED <<writes, acked, stops>>, stops # 0 PROVE Disk!Next
  <2>1. stops > 0
    BY <1>0, <1>3, TypesParts DEF TyFaults
  <2> QED BY <1>3, <2>1, DiskKept DEF Disk!Next, Disk!Surface
<1>4. ASSUME Next, (\E f \in Flushers : Flushing(f)) \/ Loading \/ \E m \in late : LateCommit(m)
      PROVE  [Disk!Next]_(Disk!diskvars)
  <2>1. UNCHANGED <<writes, acked, stops>>
    <3>1. ASSUME NEW f \in Flushers, Flushing(f) PROVE UNCHANGED <<writes, acked, stops>>
      BY <1>0, <3>1, FlushingIs DEF StoresEnd, Calm
    <3>2. CASE Loading
      BY <3>2, LoadingSame DEF Same
    <3>3. ASSUME NEW m \in late, LateCommit(m) PROVE UNCHANGED <<writes, acked, stops>>
      BY <3>3 DEF LateCommit
    <3> QED BY <1>4, <3>1, <3>2, <3>3
  <2>2. CASE stops = 0
    <3>1. \A c \in Chunks, p \in Parts : Shown(c, p)' = Shown(c, p)
      BY <1>4, <2>1, <2>2, Unseen
    <3> QED BY <1>1, <2>1, <3>1
  <2> QED BY <1>3, <2>1, <2>2
<1>5. ASSUME NEW k \in Clients, NEW c \in Chunks, NEW P \in (SUBSET Parts) \ {{}}, LogWrite(k, c, P) PROVE Disk!Next
  <2>1. {c} \X P \in SUBSET Cells
    BY DEF Cells
  <2> QED BY <1>0, <1>5, <2>1, WriteOnDisk DEF Disk!Next
<1>6. ASSUME NEW k \in Clients, NEW c \in Chunks, NEW P \in (SUBSET Parts) \ {{}}, NEW whole \in BOOLEAN, AppendFails(k, c, P, whole)
      PROVE  Disk!Next
  <2>1. {c} \X P \in SUBSET Cells
    BY DEF Cells
  <2>2. writes' = Append(writes, {c} \X P) /\ UNCHANGED <<acked, cache, rec, stops>>
    BY <1>6 DEF AppendFails, memory, meta
  <2>3. [cell \in Cells |-> Visible(cell)]' = [cell \in Cells |-> Visible(cell)]
    BY <1>2, <2>2, SeenSame
  <2>4. Disk!RefusedWrite({c} \X P)
    BY <2>2, <2>3 DEF Disk!RefusedWrite
  <2> QED BY <2>1, <2>4 DEF Disk!Next
<1>7. ASSUME NEW k \in Clients, Waits(k) PROVE [Disk!Next]_(Disk!diskvars)
  <2>1. /\ UNCHANGED <<writes, cache, rec, stops>> /\ k \in Logged
        /\ acked' = acked \/ acked' = acked \cup {client[k].w}
    BY <1>0, <1>7, WaitsIs
  <2>2. \A c \in Chunks, p \in Parts : Shown(c, p)' = Shown(c, p)
    BY <1>2, <2>1
  <2>3. CASE acked' = acked
    BY <1>1, <2>1, <2>2, <2>3
  <2>4. CASE acked' = acked \cup {client[k].w}
    <3>1. PICK w : w = client[k].w
      OBVIOUS
    <3>2. w \in Firm /\ w \in 1..Len(writes)
      BY <1>0, <2>1, <3>1, FirmIs
    <3>3. ASSUME NEW cell \in writes[w] PROVE [e \in Cells |-> Visible(e)][cell] >= w
      <4>1. writes[w] \in SUBSET Cells
        BY <1>0, <3>2, TypesParts DEF TyWrites
      <4>2. PICK c \in Chunks, p \in Parts : cell = <<c, p>>
        BY <3>3, <4>1 DEF Cells
      <4>3. Shown(c, p) >= w
        BY <3>2, <3>3, <4>2, ShowsAllHolds DEF ShowsAll
      <4> QED BY <4>1, <4>2, <4>3 DEF Visible, Shown
    <3>4. [cell \in Cells |-> Visible(cell)]' = [cell \in Cells |-> Visible(cell)]
      BY <2>2, SeenSame
    <3>5. Disk!Ack(w)
      BY <2>1, <2>4, <3>1, <3>3, <3>4 DEF Disk!Ack
    <3> QED BY <3>2, <3>5 DEF Disk!Next
  <2> QED BY <2>1, <2>3, <2>4
<1>8. CASE Stops
  <2>1. PICK h \in Journal : Started(h)
    BY <1>8, StopsIs
  <2>2. UNCHANGED <<writes, acked>> /\ stops' = stops + 1
    BY <1>0, <2>1, StartedIs
  <2> QED BY <2>2, DiskKept DEF Disk!Next, Disk!Crash
<1>9. CASE UNCHANGED vars
  <2>1. UNCHANGED <<writes, acked, stops>> /\ UNCHANGED <<cache, rec>>
    BY <1>9 DEF vars, memory, meta
  <2> QED BY <1>1, <1>2, <2>1
<1>10. ASSUME Next PROVE [Disk!Next]_(Disk!diskvars)
  <2>1. ASSUME NEW f \in Flushers, StoresEnd(f) PROVE [Disk!Next]_(Disk!diskvars)
    BY <1>4, <1>10, <2>1 DEF Flushing
  <2> QED BY <1>4, <1>5, <1>6, <1>7, <1>8, <1>10, <2>1, Steps
<1> QED BY <1>9, <1>10

LEMMA DiskInit == Init => Disk!Init
<1> SUFFICES ASSUME Init PROVE Disk!Init
  OBVIOUS
<1>1. /\ writes = <<>> /\ acked = {} /\ stops = 0 /\ cache = [c \in Chunks |-> NotHeld]
      /\ rec = [c \in Chunks |-> [id |-> 0, data |-> Zeros]]
  BY DEF Init
<1>2. ASSUME NEW cell \in Cells PROVE Visible(cell) = 0
  <2>1. PICK c \in Chunks, p \in Parts : cell = <<c, p>>
    BY DEF Cells
  <2> QED BY <1>1, <2>1, Nothings DEF Visible, Zeros
<1> QED BY <1>1, <1>2 DEF Disk!Init

\* The volume implements the disk of BlockDisk: through resolves, flushes,
\* commits that come late, rotations of the journal, kills or power cuts at any
\* point and failed appends and syncs, what reads answer changes only by
\* writes, and no stop takes back a write that was acknowledged.
THEOREM VolumeIsDurableDisk ==
    ASSUME OneFault
    PROVE  InTurnSpec => DurableDisk
<1>1. Init => Disk!Init
  BY DiskInit
<1>2. (IInv /\ OneTakes) /\ IInv' /\ [Next /\ OneTakes']_vars => [Disk!Next]_(Disk!diskvars)
  BY DiskStep DEF Scope
<1> QED BY <1>1, <1>2, Invariants, PTL DEF InTurnSpec, DurableDisk, Disk!Spec

=============================================================================
