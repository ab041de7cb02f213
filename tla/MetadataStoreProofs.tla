------------------------- MODULE MetadataStoreProofs -------------------------
(***************************************************************************)
(* Proofs about MetadataStore for any number of keys, writes, faults and   *)
(* checkpoints: its types, that the index file has every acknowledged      *)
(* write up to its label, that an open store has every acknowledged write, *)
(* and that only a power cut leaves a log the next open refuses.           *)
(***************************************************************************)
EXTENDS MetadataStore, NumberFacts, SequenceTheorems, FiniteSetTheorems, TLAPS

-----------------------------------------------------------------------------
(* Sequences.                                                              *)

\* A function on 1..n is a sequence of length n.
LEMMA FunctionIsSeq ==
    ASSUME NEW S, NEW n \in Nat, NEW f \in [1..n -> S]
    PROVE  f \in Seq(S) /\ Len(f) = n
<1>1. f \in Seq(S)
  BY SeqDef
<1>2. Len(f) \in Nat /\ DOMAIN f = 1..Len(f)
  BY <1>1, LenProperties
<1>3. 1..n = 1..Len(f)
  BY <1>2
<1>4. n = Len(f)
  <2>1. n \in 1..n \/ n = 0
    OBVIOUS
  <2>2. Len(f) \in 1..Len(f) \/ Len(f) = 0
    BY <1>2
  <2> QED BY <1>2, <1>3, <2>1, <2>2
<1> QED BY <1>1, <1>4

\* A record of a log has its type.
LEMMA SlotType ==
    ASSUME NEW s \in Seq(Slot)
    PROVE  /\ Len(s) \in Nat
           /\ \A i \in 1..Len(s) : /\ s[i] \in Slot /\ s[i].lsn \in Nat /\ s[i].w \in Writes
                                    /\ s[i].on \in {"cache", "disk", "hole", "torn"}
<1>1. Len(s) \in Nat
  BY LenProperties
<1>2. \A i \in 1..Len(s) : s[i] \in Slot
  BY ElementOfSeq
<1> QED BY <1>1, <1>2 DEF Slot

\* A log made durable.
LEMMA OnDiskType ==
    ASSUME NEW s \in Seq(Slot)
    PROVE  /\ OnDisk(s) \in Seq(Slot) /\ Len(OnDisk(s)) = Len(s)
           /\ \A i \in 1..Len(s) : /\ OnDisk(s)[i].lsn = s[i].lsn /\ OnDisk(s)[i].w = s[i].w
                                    /\ OnDisk(s)[i].on = "disk"
<1>1. Len(s) \in Nat /\ \A i \in 1..Len(s) : s[i] \in Slot
  BY SlotType
<1>2. \A i \in 1..Len(s) : /\ OnDisk(s)[i] \in Slot /\ OnDisk(s)[i].lsn = s[i].lsn
                            /\ OnDisk(s)[i].w = s[i].w /\ OnDisk(s)[i].on = "disk"
  BY <1>1 DEF OnDisk, Slot
<1>3. OnDisk(s) \in [1..Len(s) -> Slot]
  BY <1>2 DEF OnDisk
<1> QED BY <1>1, <1>2, <1>3, FunctionIsSeq

\* What follows the first c records of a log, made durable.
Rest(s, c) == OnDisk(SubSeq(s, c + 1, Len(s)))
LEMMA CopiedType ==
    ASSUME NEW s \in Seq(Slot), NEW c \in 0..Len(s), NEW t, t = Rest(s, c)
    PROVE  /\ t \in Seq(Slot) /\ Len(t) = Len(s) - c
           /\ \A i \in 1..Len(t) : /\ t[i].lsn = s[c + i].lsn /\ t[i].w = s[c + i].w
                                    /\ t[i].on = "disk"
<1> DEFINE u == SubSeq(s, c + 1, Len(s))
<1>1. Len(s) \in Nat /\ c \in Nat /\ c <= Len(s)
  BY SlotType
<1>2. \A i \in c + 1 .. Len(s) : s[i] \in Slot
  BY <1>1, SlotType
<1>3. c + 1 \in Int /\ Len(s) \in Int
  BY <1>1
<1>4. /\ u \in Seq(Slot) /\ Len(u) = IF c + 1 <= Len(s) THEN Len(s) - (c + 1) + 1 ELSE 0
      /\ \A i \in 1 .. Len(s) - (c + 1) + 1 : u[i] = s[(c + 1) + i - 1]
  BY <1>2, <1>3, SubSeqProperties
<1> HIDE DEF u
<1>5. Len(u) = Len(s) - c /\ \A i \in 1..Len(u) : u[i] = s[c + i]
  <2>1. Len(u) = Len(s) - c
    BY <1>1, <1>4
  <2>2. ASSUME NEW i \in 1..Len(u) PROVE u[i] = s[c + i]
    <3>1. i \in Nat /\ i >= 1 /\ i <= Len(s) - c
      BY <1>1, <2>1
    <3>2. i \in 1 .. Len(s) - (c + 1) + 1
      BY <1>1, <3>1
    <3>3. (c + 1) + i - 1 = c + i
      BY <1>1, <3>1
    <3> QED BY <1>4, <3>2, <3>3
  <2> QED BY <2>1, <2>2
<1>6. t = OnDisk(u)
  BY DEF u, Rest
<1>7. /\ OnDisk(u) \in Seq(Slot) /\ Len(OnDisk(u)) = Len(u)
      /\ \A i \in 1..Len(u) : /\ OnDisk(u)[i].lsn = u[i].lsn /\ OnDisk(u)[i].w = u[i].w
                               /\ OnDisk(u)[i].on = "disk"
  BY <1>4, OnDiskType
<1> QED BY <1>5, <1>6, <1>7

\* A log with a record appended.
LEMMA AppendedType ==
    ASSUME NEW s \in Seq(Slot), NEW e \in Slot, NEW t, t = Append(s, e)
    PROVE  /\ t \in Seq(Slot) /\ Len(t) = Len(s) + 1 /\ t[Len(s) + 1] = e
           /\ \A i \in 1..Len(s) : t[i] = s[i]
BY SlotType

\* Log t is part of log s, from record a + 1: the same records, those on disk
\* still on disk.
Part(s, t, a) == /\ t \in Seq(Slot) /\ a + Len(t) <= Len(s)
                 /\ \A i \in 1..Len(t) : /\ t[i].lsn = s[a + i].lsn /\ t[i].w = s[a + i].w
                                         /\ s[a + i].on = "disk" => t[i].on = "disk"

\* A log after a sync of what was numbered up to n.
Synced(s, n) == [i \in 1..Len(s) |-> IF s[i].on = "cache" /\ s[i].lsn <= n
                                     THEN [s[i] EXCEPT !.on = "disk"] ELSE s[i]]
LEMMA SyncedLog ==
    ASSUME NEW s \in Seq(Slot), NEW n \in Nat, NEW t, t = Synced(s, n)
    PROVE  /\ Part(s, t, 0) /\ Len(t) = Len(s)
           /\ \A i \in 1..Len(s) : /\ s[i].on \in {"cache", "disk"} => t[i].on \in {"cache", "disk"}
                                   /\ s[i].on \in {"cache", "disk"} /\ s[i].lsn <= n => t[i].on = "disk"
                                   /\ t[i].on = "torn" => s[i].on = "torn"
<1>1. Len(s) \in Nat /\ \A i \in 1..Len(s) : s[i] \in Slot
  BY SlotType
<1>2. \A i \in 1..Len(s) : /\ t[i] \in Slot /\ t[i].lsn = s[i].lsn /\ t[i].w = s[i].w
                           /\ s[i].on = "disk" => t[i].on = "disk"
                           /\ s[i].on \in {"cache", "disk"} => t[i].on \in {"cache", "disk"}
                           /\ s[i].on \in {"cache", "disk"} /\ s[i].lsn <= n => t[i].on = "disk"
                           /\ t[i].on = "torn" => s[i].on = "torn"
  BY <1>1 DEF Slot, Synced
<1>3. t \in [1..Len(s) -> Slot]
  BY <1>2 DEF Synced
<1>4. t \in Seq(Slot) /\ Len(t) = Len(s)
  BY <1>1, <1>3, FunctionIsSeq
<1> QED BY <1>1, <1>2, <1>4 DEF Part

\* A log after a failed sync.
Spoiled(s, S) == [i \in 1..Len(s) |->
                     IF s[i].on # "cache" THEN s[i]
                     ELSE [s[i] EXCEPT !.on = IF i \in S THEN "disk" ELSE "hole"]]
LEMMA SpoiledLog ==
    ASSUME NEW s \in Seq(Slot), NEW S, NEW t, t = Spoiled(s, S)
    PROVE  /\ Part(s, t, 0) /\ Len(t) = Len(s)
           /\ \A i \in 1..Len(s) : t[i].on = "torn" => s[i].on = "torn"
<1>1. Len(s) \in Nat /\ \A i \in 1..Len(s) : s[i] \in Slot
  BY SlotType
<1>2. \A i \in 1..Len(s) : /\ t[i] \in Slot /\ t[i].lsn = s[i].lsn /\ t[i].w = s[i].w
                           /\ s[i].on = "disk" => t[i].on = "disk"
                           /\ t[i].on = "torn" => s[i].on = "torn"
  BY <1>1 DEF Slot, Spoiled
<1>3. t \in [1..Len(s) -> Slot]
  BY <1>2 DEF Spoiled
<1>4. t \in Seq(Slot) /\ Len(t) = Len(s)
  BY <1>1, <1>3, FunctionIsSeq
<1> QED BY <1>1, <1>2, <1>4 DEF Part

\* A log after a power cut.
LEMMA LeftLog ==
    ASSUME NEW s \in Seq(Slot), NEW S
    PROVE  Part(s, Left(s, S), 0) /\ Len(Left(s, S)) = Len(s)
<1> DEFINE t == Left(s, S)
<1>1. Len(s) \in Nat /\ \A i \in 1..Len(s) : s[i] \in Slot
  BY SlotType
<1>2. \A i \in 1..Len(s) : /\ t[i] \in Slot /\ t[i].lsn = s[i].lsn /\ t[i].w = s[i].w
                           /\ s[i].on = "disk" => t[i].on = "disk"
  BY <1>1 DEF Slot, Left
<1>3. t \in [1..Len(s) -> Slot]
  BY <1>2 DEF Left
<1> HIDE DEF t
<1>4. t \in Seq(Slot) /\ Len(t) = Len(s)
  BY <1>1, <1>3, FunctionIsSeq
<1>5. Part(s, t, 0) /\ Len(t) = Len(s)
  BY <1>1, <1>2, <1>4 DEF Part
<1> QED BY <1>5 DEF t

\* The whole records end where the torn ones begin; a log with a whole one
\* after that is damaged.
LEMMA Whole ==
    ASSUME log \in Seq(Slot)
    PROVE  /\ WholeEnd \in 0..Len(log)
           /\ \A i \in 1..WholeEnd : log[i].on # "torn"
           /\ ~Damaged => \A i \in WholeEnd + 1 .. Len(log) : log[i].on = "torn"
           /\ WholeEnd < Len(log) => log[WholeEnd + 1].on = "torn"
<1> DEFINE T == {i \in 1..Len(log) : log[i].on = "torn"}
<1>1. Len(log) \in Nat
  BY SlotType
<1>2. WholeEnd = IF T = {} THEN Len(log) ELSE Min(T) - 1
  BY DEF WholeEnd
<1>3. CASE T = {}
  <2>1. WholeEnd = Len(log)
    BY <1>2, <1>3
  <2>2. \A i \in 1..Len(log) : log[i].on # "torn"
    BY <1>3
  <2> QED BY <1>1, <2>1, <2>2
<1>4. CASE T # {}
  <2>1. T \subseteq Nat
    BY <1>1
  <2>2. Min(T) \in T /\ \A i \in T : Min(T) <= i
    BY <1>4, <2>1, MinOfSet
  <2> DEFINE m == Min(T)
  <2>3. m \in 1..Len(log) /\ log[m].on = "torn" /\ \A i \in 1..Len(log) : log[i].on = "torn" => m <= i
    BY <2>2
  <2>4. WholeEnd = m - 1
    BY <1>2, <1>4
  <2> HIDE DEF m
  <2>5. WholeEnd \in 0..Len(log) /\ WholeEnd + 1 = m
    BY <1>1, <2>3, <2>4
  <2>6. \A i \in 1..WholeEnd : log[i].on # "torn"
    <3> SUFFICES ASSUME NEW i \in 1..WholeEnd PROVE log[i].on # "torn"
      OBVIOUS
    <3>1. i \in 1..Len(log) /\ ~(m <= i)
      BY <1>1, <2>3, <2>4
    <3> QED BY <2>3, <3>1
  <2> QED BY <2>3, <2>5, <2>6 DEF Damaged
<1> QED BY <1>3, <1>4

\* The log as it is opened: the whole records.
LEMMA OpenedLog ==
    ASSUME log \in Seq(Slot), Open
    PROVE  /\ Part(log, log', 0) /\ Len(log') = WholeEnd
           /\ \A i \in 1..Len(log') : log'[i].on # "torn"
<1>1. /\ Len(log) \in Nat /\ WholeEnd \in 0..Len(log) /\ \A i \in 1..WholeEnd : log[i].on # "torn"
      /\ \A i \in 1..Len(log) : log[i] \in Slot
  BY Whole, SlotType
<1>2. CASE WholeEnd = Len(log)
  <2>1. log' = log
    BY <1>2 DEF Open
  <2> QED BY <1>1, <1>2, <2>1 DEF Part
<1>3. CASE WholeEnd # Len(log)
  <2>1. log' = [i \in 1..WholeEnd |-> IF log[i].on = "cache"
                                      THEN [log[i] EXCEPT !.on = "disk"] ELSE log[i]]
    BY <1>3 DEF Open
  <2> DEFINE n == WholeEnd
  <2> HIDE DEF n
  <2>2. n \in Nat /\ n <= Len(log) /\ \A i \in 1..n : log[i] \in Slot /\ log[i].on # "torn"
    BY <1>1 DEF n
  <2>3. \A i \in 1..n : /\ log'[i] \in Slot /\ log'[i].lsn = log[i].lsn /\ log'[i].w = log[i].w
                        /\ log[i].on = "disk" => log'[i].on = "disk"
                        /\ log'[i].on # "torn"
    BY <2>1, <2>2 DEF Slot, n
  <2>4. log' \in [1..n -> Slot]
    BY <2>1, <2>3 DEF n
  <2>5. log' \in Seq(Slot) /\ Len(log') = n
    BY <2>2, <2>4, FunctionIsSeq
  <2>6. \A i \in Nat : 0 + i = i
    OBVIOUS
  <2> QED BY <1>1, <2>2, <2>3, <2>5, <2>6 DEF Part, n
<1> QED BY <1>2, <1>3

-----------------------------------------------------------------------------
(* Types.                                                                  *)

\* The initial state has its type.
LEMMA TypeInit == Init => TypeOK
<1> SUFFICES ASSUME Init PROVE TypeOK
  OBVIOUS
<1>1. <<>> \in Seq(Slot)
  BY EmptySeq
<1>2. Empty \in Table
  BY DEF Empty, Table
<1>3. wal \in Counters /\ wr \in [Writes -> Progress]
  BY DEF Init, Fresh, Counters, NotBegun, Progress
<1>4. ck \in Steps
  BY <1>1 DEF Init, NoCheckpoint, Steps
<1>5. faults \in [n : 0..MaxFaults, cut : BOOLEAN] /\ checkpoints \in 0..MaxCheckpoints
  BY LimitsAssumption DEF Init
<1> QED BY <1>1, <1>2, <1>3, <1>4, <1>5 DEF Init, TypeOK, NoOld, NoFrozen

\* A fault is counted.
LEMMA FaultType ==
    ASSUME TypeOK, NEW kind, Fault(kind)
    PROVE  faults' \in [n : 0..MaxFaults, cut : BOOLEAN]
<1>1. faults.n \in 0..MaxFaults /\ faults.cut \in BOOLEAN /\ MaxFaults \in Nat
  BY LimitsAssumption DEF TypeOK
<1>2. (faults.cut \/ kind = "power") \in BOOLEAN
  OBVIOUS
<1>3. faults.n + 1 \in 0..MaxFaults
  BY <1>1 DEF Fault
<1> QED BY <1>2, <1>3 DEF Fault

\* What an append does to the log and to the write's progress.
LEMMA AppendType ==
    ASSUME TypeOK, NEW w \in Writes, NEW on \in {"cache", "torn"},
           NEW st \in {"wrote", "failed"}, log' = Append(log, Record(w, on)),
           wr' = [wr EXCEPT ![w].st = st, ![w].lsn = wal.next, ![w].nth = NextNth]
    PROVE  /\ log' \in Seq(Slot) /\ Len(log') = Len(log) + 1
           /\ log'[Len(log) + 1] = Record(w, on) /\ \A i \in 1..Len(log) : log'[i] = log[i]
           /\ wr' \in [Writes -> Progress]
           /\ wr'[w].st = st /\ wr'[w].lsn = wal.next /\ wr'[w].nth = NextNth
           /\ \A v \in Writes : v # w => wr'[v] = wr[v]
<1>1. log \in Seq(Slot) /\ wal.next \in Nat /\ wr \in [Writes -> Progress]
  BY DEF TypeOK, Counters
<1>2. Record(w, on) \in Slot
  BY <1>1 DEF Record, Slot
<1>3. NextNth \in Nat
  <2>1. IsFiniteSet({v \in Writes : wr[v].nth # 0})
    BY WritesAssumption, FS_Subset
  <2> QED BY <2>1, FS_CardinalityType DEF NextNth
<1>4. /\ wr' \in [Writes -> Progress]
      /\ wr'[w].st = st /\ wr'[w].lsn = wal.next /\ wr'[w].nth = NextNth
      /\ \A v \in Writes : v # w => wr'[v] = wr[v]
  BY <1>1, <1>3 DEF Progress
<1> QED BY <1>1, <1>2, <1>4, AppendedType

\* A write's progress without an append: its number and place stay.
Moved(w, st) == /\ wr' \in [Writes -> Progress] /\ wr'[w].st = st
                /\ \A v \in Writes : /\ v # w => wr'[v] = wr[v]
                                     /\ wr'[v].lsn = wr[v].lsn /\ wr'[v].nth = wr[v].nth
LEMMA MovedType ==
    ASSUME TypeOK, NEW w \in Writes, NEW st \in {"failed", "sync", "apply", "acked"}
    PROVE  /\ wr' = [wr EXCEPT ![w].st = st] => Moved(w, st) /\ wr'[w].covers = wr[w].covers
           /\ \A c \in Nat : wr' = [wr EXCEPT ![w].st = st, ![w].covers = c]
                                => Moved(w, st) /\ wr'[w].covers = c
<1>1. wr \in [Writes -> Progress]
  BY DEF TypeOK
<1> QED BY <1>1 DEF Moved, Progress

\* A write's own steps.
LEMMA TypeWriter ==
    ASSUME TypeOK, NEW w \in Writes, Writer(w)
    PROVE  TypeOK'
<1>0. /\ log \in Seq(Slot) /\ wal \in Counters /\ wal.next \in Nat /\ wal.written \in Nat
      /\ wal.synced \in Nat /\ wr \in [Writes -> Progress] /\ wr[w].covers \in Nat
  BY DEF TypeOK, Counters, Progress
<1>1. CASE LogAppend(w)
  <2>1. log' \in Seq(Slot) /\ wr' \in [Writes -> Progress]
    BY <1>1, AppendType DEF LogAppend
  <2>2. wal' \in Counters
    <3>1. wal.next + 1 \in Nat \ {0} /\ wal.failed \in BOOLEAN
      BY <1>0 DEF Counters
    <3>2. wal' = [wal EXCEPT !.next = wal.next + 1, !.written = wal.next]
      BY <1>1 DEF LogAppend
    <3> QED BY <1>0, <3>1, <3>2 DEF Counters
  <2> QED BY <1>1, <2>1, <2>2 DEF LogAppend, TypeOK
<1>2. CASE Refuses(w)
  <2>1. wr' \in [Writes -> Progress]
    BY <1>2, MovedType DEF Refuses, Fails, Moved
  <2> QED BY <1>2, <2>1 DEF Refuses, TypeOK, durable, volatile
<1>3. CASE NoRoom(w)
  <2>1. wr' \in [Writes -> Progress]
    BY <1>3, MovedType DEF NoRoom, Fails, Moved
  <2>2. faults' \in [n : 0..MaxFaults, cut : BOOLEAN]
    BY <1>3, FaultType DEF NoRoom
  <2> QED BY <1>3, <2>1, <2>2 DEF NoRoom, TypeOK, durable, volatile
<1>4. CASE WriteFails(w)
  <2>1. PICK on \in {"torn", "cache"} : log' = Append(log, Record(w, on))
    BY <1>4 DEF WriteFails
  <2>2. log' \in Seq(Slot) /\ wr' \in [Writes -> Progress]
    BY <1>4, <2>1, AppendType DEF WriteFails
  <2>3. wal' \in Counters
    BY <1>0, <1>4 DEF WriteFails, Counters
  <2>4. faults' \in [n : 0..MaxFaults, cut : BOOLEAN]
    BY <1>4, FaultType DEF WriteFails
  <2> QED BY <1>4, <2>2, <2>3, <2>4 DEF WriteFails, TypeOK
<1>5. CASE Covered(w)
  <2>1. wr' \in [Writes -> Progress]
    BY <1>5, MovedType DEF Covered, Moved
  <2> QED BY <1>5, <2>1 DEF Covered, TypeOK, durable, volatile
<1>6. CASE TakeHandle(w)
  <2>1. wr' \in [Writes -> Progress]
    BY <1>0, <1>6, MovedType DEF TakeHandle, Moved
  <2> QED BY <1>6, <2>1 DEF TakeHandle, TypeOK, durable, volatile
<1>7. CASE SyncOk(w)
  <2>1. log' \in Seq(Slot)
    <3>1. log' = Synced(log, wr[w].covers)
      BY <1>7 DEF SyncOk, Synced
    <3> QED BY <1>0, <3>1, SyncedLog DEF Part
  <2>2. wr' \in [Writes -> Progress]
    BY <1>7, MovedType DEF SyncOk, Moved
  <2>3. wal' \in Counters
    BY <1>0, <1>7 DEF SyncOk, Counters, Larger
  <2>4. old' \in [there : BOOLEAN, log : Seq(Slot)]
    BY <1>7, EmptySeq DEF SyncOk, NoOld
  <2> QED BY <1>7, <2>1, <2>2, <2>3, <2>4 DEF SyncOk, TypeOK
<1>8. CASE SyncFails(w)
  <2>1. PICK S : log' = Spoiled(log, S)
    BY <1>8 DEF SyncFails, Spoiled
  <2>2. log' \in Seq(Slot)
    BY <1>0, <2>1, SpoiledLog DEF Part
  <2>3. wr' \in [Writes -> Progress]
    BY <1>8, MovedType DEF SyncFails, Fails, Moved
  <2>4. wal' \in Counters
    BY <1>0, <1>8 DEF SyncFails, Counters
  <2>5. faults' \in [n : 0..MaxFaults, cut : BOOLEAN]
    BY <1>8, FaultType DEF SyncFails
  <2> QED BY <1>8, <2>2, <2>3, <2>4, <2>5 DEF SyncFails, TypeOK
<1>9. CASE Apply(w)
  <2>1. wr' \in [Writes -> Progress]
    BY <1>9, MovedType DEF Apply, Moved
  <2>2. active' \in Table
    BY <1>9 DEF Apply, TypeOK, Table
  <2> QED BY <1>9, <2>1, <2>2 DEF Apply, TypeOK, durable
<1> QED BY <1>1, <1>2, <1>3, <1>4, <1>5, <1>6, <1>7, <1>8, <1>9 DEF Writer

\* What a checkpoint's last pass makes of the log: what followed the mark.
LEMMA RestType ==
    ASSUME NEW s \in Seq(Slot), NEW new \in Seq(Slot), NEW f \in 0..Len(s)
    PROVE  LET t == new \o Rest(s, f)
           IN  /\ t \in Seq(Slot) /\ Len(t) = Len(new) + (Len(s) - f)
               /\ \A i \in 1..Len(new) : t[i] = new[i]
               /\ \A i \in 1..(Len(s) - f) : /\ t[Len(new) + i].lsn = s[f + i].lsn
                                             /\ t[Len(new) + i].w = s[f + i].w
                                             /\ t[Len(new) + i].on = "disk"
<1> DEFINE u == Rest(s, f)
           t == new \o u
<1>0. u = Rest(s, f)
  OBVIOUS
<1> HIDE DEF u
<1>1. /\ u \in Seq(Slot) /\ Len(u) = Len(s) - f
      /\ \A i \in 1..Len(u) : /\ u[i].lsn = s[f + i].lsn /\ u[i].w = s[f + i].w
                              /\ u[i].on = "disk"
  BY <1>0, CopiedType
<1>2. Len(new) \in Nat /\ Len(u) \in Nat
  BY <1>1, SlotType
<1>3. /\ t \in Seq(Slot) /\ Len(t) = Len(new) + Len(u)
      /\ \A i \in 1 .. Len(new) + Len(u) : t[i] = IF i <= Len(new) THEN new[i] ELSE u[i - Len(new)]
  BY <1>1, ConcatProperties
<1> HIDE DEF t
<1>4. \A i \in 1..Len(new) : t[i] = new[i]
  BY <1>2, <1>3
<1>5. ASSUME NEW i \in 1..Len(u) PROVE t[Len(new) + i] = u[i]
  <2>1. /\ Len(new) + i \in 1 .. Len(new) + Len(u) /\ ~(Len(new) + i <= Len(new))
        /\ (Len(new) + i) - Len(new) = i
    BY <1>2
  <2> QED BY <1>3, <2>1
<1>6. \A i \in 1..(Len(s) - f) : /\ t[Len(new) + i].lsn = s[f + i].lsn
                                 /\ t[Len(new) + i].w = s[f + i].w
                                 /\ t[Len(new) + i].on = "disk"
  <2> SUFFICES ASSUME NEW i \in 1..(Len(s) - f)
               PROVE  /\ t[Len(new) + i].lsn = s[f + i].lsn /\ t[Len(new) + i].w = s[f + i].w
                      /\ t[Len(new) + i].on = "disk"
    OBVIOUS
  <2>1. i \in 1..Len(u)
    BY <1>1
  <2> QED BY <1>1, <1>5, <2>1
<1>7. Len(t) = Len(new) + (Len(s) - f)
  BY <1>1, <1>3
<1> QED BY <1>3, <1>4, <1>6, <1>7 DEF t, u

\* A checkpoint's copies start within the log.
CopyBounds == /\ ck.st = "flushed" => ck.len <= Len(log)
              /\ ck.st = "copied" => ck.first <= Len(log)

\* A checkpoint's steps.
LEMMA TypeCheckpoint ==
    ASSUME TypeOK, CopyBounds, Checkpoint
    PROVE  TypeOK'
<1>0. /\ log \in Seq(Slot) /\ wal \in Counters /\ wal.next \in Nat \ {0} /\ wal.written \in Nat
      /\ wal.synced \in Nat /\ ck \in Steps /\ frozen.tab \in Table /\ file \in Table /\ active \in Table
      /\ Len(log) \in Nat /\ ck.len \in Nat /\ ck.first \in Nat /\ ck.new \in Seq(Slot) /\ ck.lsn \in Nat
      /\ NoCheckpoint \in Steps /\ Empty \in Table
      /\ NoOld \in [there : BOOLEAN, log : Seq(Slot)]
      /\ NoFrozen \in [there : BOOLEAN, tab : Table]
      /\ Over(frozen.tab, file) \in Table
  <2>1. /\ log \in Seq(Slot) /\ wal \in Counters /\ wal.next \in Nat \ {0} /\ wal.written \in Nat
        /\ wal.synced \in Nat /\ ck \in Steps /\ frozen.tab \in Table /\ file \in Table /\ active \in Table
        /\ ck.len \in Nat /\ ck.first \in Nat /\ ck.new \in Seq(Slot) /\ ck.lsn \in Nat
    BY DEF TypeOK, Counters, Steps
  <2>2. Len(log) \in Nat
    BY <2>1, LenProperties
  <2>3. Empty \in Table /\ Over(frozen.tab, file) \in Table
    BY <2>1 DEF Empty, Table, Over
  <2> QED BY <2>1, <2>2, <2>3, EmptySeq DEF NoCheckpoint, Steps, NoOld, NoFrozen
<1>1. CASE FlushLeftover
  BY <1>0, <1>1 DEF FlushLeftover, TypeOK
<1>2. CASE Freeze
  <2>1. ck' \in Steps
    <3>1. wal.next - 1 \in Nat
      BY <1>0
    <3>2. ck' = [NoCheckpoint EXCEPT !.st = "flush", !.lsn = wal.next - 1, !.len = Len(log)]
      BY <1>2 DEF Freeze
    <3> QED BY <1>0, <3>1, <3>2 DEF Steps
  <2>2. checkpoints' \in 0..MaxCheckpoints
    BY <1>2, LimitsAssumption DEF Freeze, TypeOK
  <2>3. frozen' \in [there : BOOLEAN, tab : Table] /\ active' \in Table
    BY <1>0, <1>2 DEF Freeze
  <2> QED BY <1>2, <2>1, <2>2, <2>3 DEF Freeze, TypeOK, durable
<1>3. CASE Flush
  <2>1. ck' \in Steps
    BY <1>0, <1>3 DEF Flush, Steps
  <2> QED BY <1>0, <1>3, <2>1 DEF Flush, TypeOK
<1>4. CASE CopyFirst
  <2> DEFINE t == Rest(log, ck.len)
  <2>1. ck.len \in 0..Len(log)
    BY <1>0, <1>4 DEF CopyFirst, Checkpointing, CopyBounds
  <2>2. t \in Seq(Slot)
    BY <1>0, <2>1, CopiedType
  <2>3. ck' = [ck EXCEPT !.st = "copied", !.first = Len(log), !.new = t]
    BY <1>4 DEF CopyFirst, Rest
  <2> HIDE DEF t
  <2>4. ck' \in Steps
    BY <1>0, <2>2, <2>3 DEF Steps
  <2> QED BY <1>4, <2>4 DEF CopyFirst, TypeOK, durable, volatile
<1>5. CASE CopyRest
  <2>1. ck.first \in 0..Len(log)
    BY <1>0, <1>5 DEF CopyRest, Checkpointing, CopyBounds
  <2>2. log' \in Seq(Slot)
    <3>1. log' = ck.new \o Rest(log, ck.first)
      BY <1>5 DEF CopyRest, Rest
    <3> QED BY <1>0, <2>1, <3>1, RestType
  <2>3. old' \in [there : BOOLEAN, log : Seq(Slot)]
    BY <1>0, <1>5 DEF CopyRest
  <2>4. ck' \in Steps
    BY <1>0, <1>5 DEF CopyRest, Steps
  <2> QED BY <1>5, <2>2, <2>3, <2>4 DEF CopyRest, TypeOK, volatile
<1>6. CASE DirSynced
  <2>1. wal' \in Counters
    BY <1>0, <1>6 DEF DirSynced, Counters, Larger
  <2> QED BY <1>0, <1>6, <2>1 DEF DirSynced, TypeOK
<1>7. CASE DirSyncFails
  <2>1. wal' \in Counters
    BY <1>0, <1>7 DEF DirSyncFails, Counters
  <2>2. faults' \in [n : 0..MaxFaults, cut : BOOLEAN]
    BY <1>7, FaultType DEF DirSyncFails
  <2> QED BY <1>0, <1>7, <2>1, <2>2 DEF DirSyncFails, TypeOK, durable
<1>8. CASE GivesUp
  <2>1. faults' \in [n : 0..MaxFaults, cut : BOOLEAN]
    BY <1>8, FaultType DEF GivesUp, TypeOK
  <2> QED BY <1>0, <1>8, <2>1 DEF GivesUp, TypeOK, durable, volatile
<1> QED BY <1>1, <1>2, <1>3, <1>4, <1>5, <1>6, <1>7, <1>8 DEF Checkpoint

\* What stopping leaves: nothing in flight, every write's number and place.
LEMMA StopsType ==
    ASSUME TypeOK, Stops
    PROVE  /\ up' = "down" /\ ck' = NoCheckpoint /\ active' = Empty /\ frozen' = NoFrozen /\ wal' = Fresh
           /\ wr' \in [Writes -> Progress]
           /\ \A w \in Writes : /\ wr'[w].lsn = wr[w].lsn /\ wr'[w].nth = wr[w].nth
                                /\ wr'[w].st \notin {"wrote", "sync", "apply"}
                                /\ wr'[w].st = "acked" <=> wr[w].st = "acked"
                                /\ wr'[w].st = "idle" <=> wr[w].st = "idle"
           /\ ck' \in Steps /\ active' \in Table /\ wal' \in Counters
           /\ frozen' \in [there : BOOLEAN, tab : Table]
<1>1. wr \in [Writes -> Progress]
  BY DEF TypeOK
<1>2. \A w \in Writes : /\ wr'[w] \in Progress
                        /\ wr'[w].lsn = wr[w].lsn /\ wr'[w].nth = wr[w].nth
                        /\ wr'[w].st \notin {"wrote", "sync", "apply"}
                        /\ wr'[w].st = "acked" <=> wr[w].st = "acked"
                        /\ wr'[w].st = "idle" <=> wr[w].st = "idle"
  <2> SUFFICES ASSUME NEW w \in Writes
               PROVE  /\ wr'[w] \in Progress
                      /\ wr'[w].lsn = wr[w].lsn /\ wr'[w].nth = wr[w].nth
                      /\ wr'[w].st \notin {"wrote", "sync", "apply"}
                      /\ wr'[w].st = "acked" <=> wr[w].st = "acked"
                      /\ wr'[w].st = "idle" <=> wr[w].st = "idle"
    OBVIOUS
  <2>1. CASE w \in InFlight
    <3>1. wr'[w] = [wr[w] EXCEPT !.st = "lost"]
      BY <2>1 DEF Stops
    <3> QED BY <1>1, <2>1, <3>1 DEF Progress, InFlight
  <2>2. CASE w \notin InFlight
    <3>1. wr'[w] = wr[w]
      BY <2>2 DEF Stops
    <3> QED BY <1>1, <2>2, <3>1 DEF InFlight
  <2> QED BY <2>1, <2>2
<1>3. wr' \in [Writes -> Progress]
  BY <1>2 DEF Stops
<1>4. Empty \in Table
  BY DEF Empty, Table
<1>5. NoCheckpoint \in Steps
  BY EmptySeq DEF NoCheckpoint, Steps
<1>6. Fresh \in Counters /\ NoFrozen \in [there : BOOLEAN, tab : Table]
  BY <1>4 DEF Fresh, Counters, NoFrozen
<1> QED BY <1>2, <1>3, <1>4, <1>5, <1>6 DEF Stops

\* A power cut leaves one of the files, as far as it was durable.
LEMMA CutLog ==
    ASSUME TypeOK, PowerCut
    PROVE  \/ Part(log, log', 0) /\ Len(log') = Len(log)
           \/ old.there /\ Part(old.log, log', 0) /\ Len(log') = Len(old.log)
<1>1. log \in Seq(Slot) /\ old.log \in Seq(Slot)
  BY DEF TypeOK
<1>2. PICK s \in {log} \cup (IF old.there THEN {old.log} ELSE {}) : \E S : log' = Left(s, S)
  BY DEF PowerCut
<1>3. PICK S : log' = Left(s, S)
  BY <1>2
<1>4. s \in Seq(Slot) /\ (s = log \/ (old.there /\ s = old.log))
  BY <1>1, <1>2
<1> QED BY <1>3, <1>4, LeftLog

\* The machine's steps, and opening.
LEMMA TypeMachine ==
    ASSUME TypeOK, Machine
    PROVE  TypeOK'
<1>1. CASE Kill
  <2>1. faults' \in [n : 0..MaxFaults, cut : BOOLEAN]
    BY <1>1, FaultType DEF Kill
  <2> QED BY <1>1, <2>1, StopsType DEF Kill, TypeOK, durable
<1>2. CASE PowerCut
  <2>1. faults' \in [n : 0..MaxFaults, cut : BOOLEAN]
    BY <1>2, FaultType DEF PowerCut
  <2>2. log' \in Seq(Slot) /\ old' \in [there : BOOLEAN, log : Seq(Slot)]
    BY <1>2, CutLog, EmptySeq DEF PowerCut, Part, NoOld
  <2>3. CASE up = "up"
    <3>1. Stops
      BY <1>2, <2>3 DEF PowerCut
    <3> QED BY <1>2, <2>1, <2>2, <3>1, StopsType DEF PowerCut, TypeOK
  <2>4. CASE up # "up"
    BY <1>2, <2>1, <2>2, <2>4 DEF PowerCut, TypeOK, volatile
  <2> QED BY <2>3, <2>4
<1>3. CASE Open
  <2>0. log \in Seq(Slot) /\ label \in Nat
    BY DEF TypeOK
  <2>1. log' \in Seq(Slot)
    BY <1>3, <2>0, OpenedLog DEF Part
  <2>2. Last \in Nat
    <3>1. WholeEnd \in 0..Len(log) /\ Len(log) \in Nat
      BY <2>0, Whole, SlotType
    <3>2. WholeEnd # 0 => WholeEnd \in 1..Len(log)
      BY <3>1
    <3> QED BY <2>0, <3>2, SlotType DEF Last
  <2>3. wal' \in Counters
    <3>1. advance_past(Last) \in Nat
      BY <2>0, <2>2 DEF advance_past, Larger
    <3>2. wal' = [next |-> advance_past(Last) + 1, written |-> advance_past(Last),
                  synced |-> advance_past(Last), failed |-> FALSE]
      BY <1>3 DEF Open
    <3>3. advance_past(Last) + 1 \in Nat \ {0}
      BY <3>1
    <3> QED BY <3>1, <3>2, <3>3 DEF Counters
  <2>4. active' \in Table
    <3> SUFFICES ASSUME NEW k \in Keys PROVE Replayed[k] \in Writes \cup {0}
      BY <1>3 DEF Open, Replayed, Table
    <3> DEFINE I == {i \in 1..WholeEnd : log[i].lsn > label /\ k \in Keyset[log[i].w]}
    <3>1. Replayed[k] = IF I = {} THEN 0 ELSE log[Max(I)].w
      BY DEF Replayed
    <3>2. WholeEnd \in 0..Len(log) /\ Len(log) \in Nat
      BY <2>0, Whole, SlotType
    <3>3. I \subseteq 0..Len(log)
      BY <3>2
    <3>4. I # {} => Max(I) \in I
      BY <3>2, <3>3, MaxOfSet
    <3>5. I # {} => Max(I) \in 1..Len(log)
      <4>1. I \subseteq 1..Len(log)
        BY <3>2
      <4> QED BY <3>4, <4>1
    <3> HIDE DEF I
    <3> QED BY <2>0, <3>1, <3>5, SlotType
  <2>5. frozen' \in [there : BOOLEAN, tab : Table]
    BY <1>3 DEF Open, NoFrozen, Empty, Table
  <2> QED BY <1>3, <2>1, <2>3, <2>4, <2>5 DEF Open, TypeOK
<1>4. CASE OpenRefused
  BY <1>4 DEF OpenRefused, TypeOK, durable, volatile
<1> QED BY <1>1, <1>2, <1>3, <1>4 DEF Machine

-----------------------------------------------------------------------------
(* The inductive invariant.  A log s, writes' progress r and a label l are *)
(* parameters where a power cut or a step changes them.                    *)

\* A log has write w: at all, where a sync can still make it durable, on disk.
Has(s, w)     == \E i \in 1..Len(s) : s[i].w = w
HasGood(s, w) == \E i \in 1..Len(s) : s[i].w = w /\ s[i].on \in {"cache", "disk"}
Safe(s, w)    == \E i \in 1..Len(s) : s[i].w = w /\ s[i].on = "disk"

Acks(r) == {w \in Writes : r[w].st = "acked"}

\* Records are in the order they were appended, each under its write's number.
Ordered(s, r) == \A i \in 1..Len(s) :
                    /\ r[s[i].w].lsn = s[i].lsn /\ r[s[i].w].nth # 0
                    /\ \A j \in 1..Len(s) : i < j =>
                          s[i].lsn < s[j].lsn /\ r[s[i].w].nth < r[s[j].w].nth
\* A record with a larger number than an acknowledged write was appended later.
After(s, r) == \A w \in Acks(r) : \A i \in 1..Len(s) :
                  s[i].lsn > r[w].lsn => r[s[i].w].nth > r[w].nth
\* Every acknowledged write after the label is on disk.
Durable(s, r, l) == \A w \in Acks(r) : r[w].lsn > l => Safe(s, w)
LogInv(s, r, l)  == Ordered(s, r) /\ After(s, r) /\ Durable(s, r, l)
\* Both files a power cut may leave are such logs.
Logs == LogInv(log, wr, label) /\ (old.there => LogInv(old.log, wr, label))

\* The order of appends.
Appended(r) == {w \in Writes : r[w].nth # 0}
Counted == \A w \in Writes : /\ wr[w].nth <= Cardinality(Appended(wr))
                             /\ wr[w].st = "idle" => wr[w].nth = 0
\* Writes of one key follow one another.
Exclusive == /\ \A v, w \in InFlight : v # w => Keyset[v] \cap Keyset[w] = {}
             /\ \A v \in Acked, w \in InFlight :
                   Keyset[v] \cap Keyset[w] # {} => wr[v].nth < wr[w].nth

\* A store that is not open does nothing.
Closed == up # "up" => InFlight = {} /\ ck = NoCheckpoint /\ frozen = NoFrozen

\* The open log's counters.
Numbers == up = "up" => /\ wal.synced <= wal.written /\ wal.written < wal.next
                        /\ label < wal.next
                        /\ ~wal.failed => \A i \in 1..Len(log) : log[i].lsn < wal.next

Syncing == \E w \in Writes : wr[w].st = "sync"
\* A write in flight: after the label, and after the mark of a checkpoint
\* being flushed; in the log, on disk if a sync covered it.
Flying(w) == /\ label < wr[w].lsn /\ wr[w].lsn <= wal.written
             /\ ck.st = "flush" => ck.lsn < wr[w].lsn
             /\ Has(log, w) /\ (~wal.failed \/ Syncing => HasGood(log, w))
             /\ wr[w].lsn <= wal.synced => Safe(log, w) /\ (old.there => Safe(old.log, w))
             /\ wr[w].st = "apply" => wr[w].lsn <= wal.synced
             /\ wr[w].st = "sync" => wr[w].lsn <= wr[w].covers /\ wr[w].covers <= wal.written
Flight == \A w \in InFlight : Flying(w)
OneSync == /\ \A v, w \in Writes : wr[v].st = "sync" /\ wr[w].st = "sync" => v = w
           /\ Syncing => ck.st # "renamed"

\* A checkpoint: the log up to the mark, and what was copied of the rest.
Mark == /\ ck.len <= Len(log) /\ ck.lsn < wal.next
        /\ \A i \in 1..ck.len : log[i].lsn <= ck.lsn
Copied == /\ ck.len <= ck.first /\ ck.first <= Len(log) /\ Len(ck.new) = ck.first - ck.len
          /\ \A i \in 1..Len(ck.new) : /\ ck.new[i].w = log[ck.len + i].w
                                       /\ ck.new[i].lsn = log[ck.len + i].lsn
                                       /\ ck.new[i].on = "disk"
Checkpoints == /\ ck.st \in {"flush", "flushed", "copied"} => Mark
               /\ ck.st \in {"flushed", "copied"} => ck.lsn = label
               /\ ck.st = "copied" => Copied
               /\ ck.st = "renamed" => \A i \in 1..Len(log) : log[i].on = "disk"
               /\ ck.st = "flush" => label <= ck.lsn /\ frozen.there
               /\ ~frozen.there => frozen.tab = Empty

\* What the index file has once the frozen memtable is flushed.
Bound == IF ck.st = "flush" THEN ck.lsn ELSE label
Flushed == \A w \in Acked : wr[w].lsn <= Bound =>
               \A k \in Keyset[w] : Holds(Over(frozen.tab, file)[k], w)

DurableInv == /\ Logs /\ Counted /\ Exclusive /\ Closed /\ Numbers /\ Flight /\ OneSync
              /\ Checkpoints /\ LabelIsTrue /\ Flushed /\ AckedSurvive

-----------------------------------------------------------------------------
(* What a step does to a log.                                              *)

\* A write on disk stays so in a part of the log that leaves out only records
\* at or below the label, and records that are not on disk.
LEMMA PartSafe ==
    ASSUME NEW s \in Seq(Slot), NEW t, NEW a \in Nat, Part(s, t, a),
           NEW r \in [Writes -> Progress], Ordered(s, r), NEW l \in Nat,
           \A i \in 1..a : s[i].lsn <= l, \A i \in a + Len(t) + 1 .. Len(s) : s[i].on # "disk",
           NEW w \in Writes, r[w].lsn > l, Safe(s, w)
    PROVE  Safe(t, w)
<1>0. Len(s) \in Nat /\ t \in Seq(Slot) /\ Len(t) \in Nat /\ r[w].lsn \in Nat
  BY SlotType DEF Part, Progress
<1>1. PICK i \in 1..Len(s) : s[i].w = w /\ s[i].on = "disk"
  BY DEF Safe
<1>2. s[i].lsn = r[w].lsn
  BY <1>1 DEF Ordered
<1>3. i > a
  <2>1. ~(i \in 1..a)
    BY <1>0, <1>2
  <2> QED BY <1>0, <2>1
<1>4. i <= a + Len(t)
  <2>1. ~(i \in a + Len(t) + 1 .. Len(s))
    BY <1>1
  <2> QED BY <1>0, <2>1
<1>5. (i - a) \in 1..Len(t) /\ a + (i - a) = i
  BY <1>0, <1>3, <1>4
<1>6. t[i - a].w = w /\ t[i - a].on = "disk"
  BY <1>1, <1>5 DEF Part
<1> QED BY <1>5, <1>6 DEF Safe

\* Such a part of a log is as good as the log.
LEMMA PartInv ==
    ASSUME NEW s \in Seq(Slot), NEW t, NEW a \in Nat, Part(s, t, a),
           NEW r \in [Writes -> Progress], NEW l \in Nat, LogInv(s, r, l),
           \A i \in 1..a : s[i].lsn <= l, \A i \in a + Len(t) + 1 .. Len(s) : s[i].on # "disk"
    PROVE  LogInv(t, r, l)
<1>0. Len(s) \in Nat /\ t \in Seq(Slot) /\ Len(t) \in Nat /\ a + Len(t) <= Len(s)
  BY SlotType DEF Part
<1>1. \A i \in 1..Len(t) : a + i \in 1..Len(s) /\ t[i].lsn = s[a + i].lsn /\ t[i].w = s[a + i].w
  BY <1>0 DEF Part
<1>2. Ordered(t, r)
  <2>1. ASSUME NEW i \in 1..Len(t) PROVE r[t[i].w].lsn = t[i].lsn /\ r[t[i].w].nth # 0
    BY <1>1 DEF LogInv, Ordered
  <2>2. ASSUME NEW i \in 1..Len(t), NEW j \in 1..Len(t), i < j
        PROVE  t[i].lsn < t[j].lsn /\ r[t[i].w].nth < r[t[j].w].nth
    <3>1. a + i < a + j /\ a + i \in 1..Len(s) /\ a + j \in 1..Len(s)
      BY <1>1, <2>2
    <3>2. s[a + i].lsn < s[a + j].lsn /\ r[s[a + i].w].nth < r[s[a + j].w].nth
      BY <3>1 DEF LogInv, Ordered
    <3> QED BY <1>1, <3>2
  <2> QED BY <2>1, <2>2 DEF Ordered
<1>3. After(t, r)
  BY <1>1 DEF LogInv, After
<1>4. Durable(t, r, l)
  BY PartSafe DEF LogInv, Durable, Acks
<1> QED BY <1>2, <1>3, <1>4 DEF LogInv

\* A log stays good when writes move on without being acknowledged, and when
\* the label goes up.
LEMMA MoveInv ==
    ASSUME NEW s \in Seq(Slot), NEW r \in [Writes -> Progress], NEW q \in [Writes -> Progress],
           \A w \in Writes : q[w].lsn = r[w].lsn /\ q[w].nth = r[w].nth,
           Acks(q) \subseteq Acks(r), NEW l \in Nat, NEW m \in Nat, l <= m, LogInv(s, r, l)
    PROVE  LogInv(s, q, m)
<1>0. \A i \in 1..Len(s) : s[i].w \in Writes
  BY SlotType
<1>1. Ordered(s, q)
  BY <1>0 DEF LogInv, Ordered
<1>2. After(s, q)
  BY <1>0 DEF LogInv, After, Acks
<1>3. Durable(s, q, m)
  <2> SUFFICES ASSUME NEW w \in Acks(q), q[w].lsn > m PROVE Safe(s, w)
    BY DEF Durable
  <2>1. w \in Acks(r) /\ r[w].lsn \in Nat /\ r[w].lsn = q[w].lsn
    BY DEF Acks, Progress
  <2>2. r[w].lsn > l
    BY <2>1
  <2> QED BY <2>1, <2>2 DEF LogInv, Durable
<1> QED BY <1>1, <1>2, <1>3 DEF LogInv

\* A log stays good when a write it has on disk is acknowledged.
LEMMA AckInv ==
    ASSUME NEW s \in Seq(Slot), NEW r \in [Writes -> Progress], NEW q \in [Writes -> Progress],
           \A w \in Writes : q[w].lsn = r[w].lsn /\ q[w].nth = r[w].nth,
           NEW u \in Writes, Acks(q) \subseteq Acks(r) \cup {u}, Safe(s, u),
           NEW l \in Nat, LogInv(s, r, l)
    PROVE  LogInv(s, q, l)
<1>0. Len(s) \in Nat /\ \A i \in 1..Len(s) : s[i].w \in Writes /\ s[i].lsn \in Nat
  BY SlotType
<1>1. Ordered(s, q)
  BY <1>0 DEF LogInv, Ordered
<1>2. After(s, q)
  <2> SUFFICES ASSUME NEW w \in Acks(q), NEW i \in 1..Len(s), s[i].lsn > q[w].lsn
               PROVE  q[s[i].w].nth > q[w].nth
    BY DEF After
  <2>1. CASE w \in Acks(r)
    BY <1>0, <2>1 DEF LogInv, After, Acks
  <2>2. CASE w = u
    <3>1. PICK j \in 1..Len(s) : s[j].w = u
      BY DEF Safe
    <3>2. s[j].lsn = q[u].lsn
      BY <1>1, <3>1 DEF Ordered
    <3>3. s[j].lsn < s[i].lsn
      BY <1>0, <2>2, <3>2
    <3>4. j < i
      <4>1. ~(i < j) /\ i # j
        BY <1>0, <1>1, <3>3 DEF Ordered
      <4> QED BY <1>0, <4>1
    <3>5. q[s[j].w].nth < q[s[i].w].nth /\ q[s[i].w].nth \in Nat /\ q[s[j].w].nth \in Nat
      BY <1>0, <1>1, <3>4 DEF Ordered, Progress
    <3> QED BY <2>2, <3>1, <3>5
  <2> QED BY <2>1, <2>2
<1>3. Durable(s, q, l)
  BY DEF LogInv, Durable, Acks
<1> QED BY <1>1, <1>2, <1>3 DEF LogInv

\* A write begins: no log had it, and it is numbered and placed after all.
LEMMA BeginInv ==
    ASSUME NEW s \in Seq(Slot), NEW r \in [Writes -> Progress], NEW q \in [Writes -> Progress],
           NEW u \in Writes, \A w \in Writes : w # u => q[w] = r[w], r[u].nth = 0,
           q[u].st # "acked", NEW l \in Nat, LogInv(s, r, l)
    PROVE  LogInv(s, q, l)
<1>0. \A i \in 1..Len(s) : s[i].w \in Writes /\ s[i].w # u /\ q[s[i].w] = r[s[i].w]
  BY SlotType DEF LogInv, Ordered
<1>1. \A w \in Acks(q) : w \in Acks(r) /\ w # u /\ q[w] = r[w]
  BY DEF Acks
<1>2. Ordered(s, q)
  BY <1>0 DEF LogInv, Ordered
<1>3. After(s, q)
  BY <1>0, <1>1 DEF LogInv, After
<1>4. Durable(s, q, l)
  BY <1>1 DEF LogInv, Durable
<1> QED BY <1>2, <1>3, <1>4 DEF LogInv

\* Its record appended.
LEMMA AppendInv ==
    ASSUME NEW s \in Seq(Slot), NEW q \in [Writes -> Progress], NEW l \in Nat, LogInv(s, q, l),
           NEW t \in Seq(Slot), Len(t) = Len(s) + 1, \A i \in 1..Len(s) : t[i] = s[i],
           LET e == t[Len(s) + 1]
           IN  /\ q[e.w].lsn = e.lsn /\ q[e.w].nth # 0 /\ \A i \in 1..Len(s) : s[i].lsn < e.lsn
               /\ \A v \in Writes : v # e.w => q[v].nth < q[e.w].nth
               /\ e.w \notin Acks(q) /\ ~Has(s, e.w)
    PROVE  LogInv(t, q, l)
<1> DEFINE e == t[Len(s) + 1]
<1>0. /\ Len(s) \in Nat /\ Len(t) \in Nat /\ \A i \in 1..Len(s) : s[i].w \in Writes /\ s[i].lsn \in Nat
      /\ e.w \in Writes /\ e.lsn \in Nat
  <2>1. Len(s) \in Nat /\ Len(t) \in Nat /\ \A i \in 1..Len(s) : s[i].w \in Writes /\ s[i].lsn \in Nat
    BY SlotType
  <2>2. Len(s) + 1 \in 1..Len(t)
    BY <2>1
  <2> QED BY <2>1, <2>2, SlotType
<1>1. /\ q[e.w].lsn = e.lsn /\ q[e.w].nth # 0 /\ \A i \in 1..Len(s) : s[i].lsn < e.lsn
      /\ \A v \in Writes : v # e.w => q[v].nth < q[e.w].nth
      /\ e.w \notin Acks(q) /\ \A i \in 1..Len(s) : s[i].w # e.w
  BY DEF Has
<1>2. \A i \in 1..Len(t) : i \in 1..Len(s) \/ (i = Len(s) + 1 /\ t[i] = e)
  BY <1>0
<1> HIDE DEF e
<1>3. Ordered(t, q)
  <2>1. ASSUME NEW i \in 1..Len(t) PROVE q[t[i].w].lsn = t[i].lsn /\ q[t[i].w].nth # 0
    BY <1>1, <1>2 DEF LogInv, Ordered
  <2>2. ASSUME NEW i \in 1..Len(t), NEW j \in 1..Len(t), i < j
        PROVE  t[i].lsn < t[j].lsn /\ q[t[i].w].nth < q[t[j].w].nth
    <3>1. i \in 1..Len(s) /\ t[i] = s[i]
      BY <1>0, <1>2, <2>2
    <3>2. CASE j \in 1..Len(s)
      BY <2>2, <3>1, <3>2 DEF LogInv, Ordered
    <3>3. CASE t[j] = e
      BY <1>0, <1>1, <3>1, <3>3
    <3> QED BY <1>2, <3>2, <3>3
  <2> QED BY <2>1, <2>2 DEF Ordered
<1>4. After(t, q)
  <2> SUFFICES ASSUME NEW w \in Acks(q), NEW i \in 1..Len(t), t[i].lsn > q[w].lsn
               PROVE  q[t[i].w].nth > q[w].nth
    BY DEF After
  <2>1. CASE i \in 1..Len(s)
    BY <2>1 DEF LogInv, After
  <2>2. CASE t[i] = e
    <3>1. w \in Writes /\ w # e.w
      BY <1>1 DEF Acks
    <3>2. q[w].nth < q[e.w].nth /\ q[w].nth \in Nat /\ q[e.w].nth \in Nat
      BY <1>0, <1>1, <3>1 DEF Progress
    <3> QED BY <2>2, <3>2
  <2> QED BY <1>2, <2>1, <2>2
<1>5. Durable(t, q, l)
  <2> SUFFICES ASSUME NEW w \in Acks(q), q[w].lsn > l PROVE Safe(t, w)
    BY DEF Durable
  <2>1. PICK i \in 1..Len(s) : s[i].w = w /\ s[i].on = "disk"
    BY DEF LogInv, Durable, Safe
  <2>2. i \in 1..Len(t) /\ t[i] = s[i]
    BY <1>0, <2>1
  <2> QED BY <2>1, <2>2 DEF Safe
<1> QED BY <1>3, <1>4, <1>5 DEF LogInv

-----------------------------------------------------------------------------
(* Every step keeps the invariant.                                         *)

\* What the steps' proofs need of the types.
LEMMA Types ==
    ASSUME TypeOK
    PROVE  /\ log \in Seq(Slot) /\ old.log \in Seq(Slot) /\ Len(log) \in Nat /\ label \in Nat
           /\ \A i \in 1..Len(log) : log[i].lsn \in Nat /\ log[i].w \in Writes
           /\ wal.next \in Nat /\ wal.next >= 1 /\ wal.written \in Nat /\ wal.synced \in Nat
           /\ wal.failed \in BOOLEAN /\ old.there \in BOOLEAN /\ frozen.there \in BOOLEAN
           /\ wr \in [Writes -> Progress]
           /\ \A w \in Writes : /\ wr[w].lsn \in Nat /\ wr[w].nth \in Nat /\ wr[w].covers \in Nat
                                /\ wr[w].st \in {"idle", "wrote", "sync", "apply", "acked", "failed", "lost"}
           /\ ck.len \in Nat /\ ck.first \in Nat /\ ck.lsn \in Nat /\ ck.new \in Seq(Slot)
           /\ \A k \in Keys : /\ file[k] \in Writes \cup {0} /\ active[k] \in Writes \cup {0}
                              /\ frozen.tab[k] \in Writes \cup {0}
<1>1. log \in Seq(Slot) /\ old.log \in Seq(Slot) /\ wr \in [Writes -> Progress] /\ label \in Nat
  BY DEF TypeOK
<1>2. Len(log) \in Nat /\ \A i \in 1..Len(log) : log[i].lsn \in Nat /\ log[i].w \in Writes
  BY <1>1, SlotType
<1>3. /\ wal.next \in Nat /\ wal.next >= 1 /\ wal.written \in Nat /\ wal.synced \in Nat
      /\ wal.failed \in BOOLEAN /\ old.there \in BOOLEAN /\ frozen.there \in BOOLEAN
  BY DEF TypeOK, Counters
<1>4. \A w \in Writes : /\ wr[w].lsn \in Nat /\ wr[w].nth \in Nat /\ wr[w].covers \in Nat
                        /\ wr[w].st \in {"idle", "wrote", "sync", "apply", "acked", "failed", "lost"}
  BY <1>1 DEF Progress
<1>5. ck.len \in Nat /\ ck.first \in Nat /\ ck.lsn \in Nat /\ ck.new \in Seq(Slot)
  BY DEF TypeOK, Steps
<1>6. \A k \in Keys : /\ file[k] \in Writes \cup {0} /\ active[k] \in Writes \cup {0}
                      /\ frozen.tab[k] \in Writes \cup {0}
  BY DEF TypeOK, Table
<1> QED BY <1>1, <1>2, <1>3, <1>4, <1>5, <1>6

\* The tables hold what they held.
LEMMA TablesKeep ==
    ASSUME TypeOK, TypeOK', UNCHANGED <<up, file, label, active, frozen, ck>>,
           \A v \in Writes : wr'[v].nth >= wr[v].nth,
           \A v \in Writes : wr'[v].st = "acked" =>
               wr[v].st = "acked" /\ wr'[v].lsn = wr[v].lsn /\ wr'[v].nth = wr[v].nth,
           LabelIsTrue, Flushed, AckedSurvive
    PROVE  LabelIsTrue' /\ Flushed' /\ AckedSurvive'
<1>0. 0 \notin Writes
  BY WritesAssumption
<1>1. ASSUME NEW v \in Writes \cup {0}, NEW w \in Writes, wr'[w].st = "acked", Holds(v, w)
      PROVE  Holds(v, w)'
  <2>1. v \in Writes /\ wr[v].nth >= wr[w].nth /\ wr'[w].nth = wr[w].nth
    BY <1>1 DEF Holds
  <2>2. wr'[v].nth \in Nat /\ wr[v].nth \in Nat /\ wr[w].nth \in Nat /\ wr'[v].nth >= wr[v].nth
    <3>1. wr \in [Writes -> Progress] /\ wr' \in [Writes -> Progress]
      BY DEF TypeOK
    <3> QED BY <2>1, <3>1 DEF Progress
  <2> QED BY <1>0, <2>1, <2>2 DEF Holds
<1>2. \A w \in Acked' : w \in Writes /\ wr'[w].st = "acked" /\ w \in Acked /\ wr'[w].lsn = wr[w].lsn
  BY DEF Acked
<1>3. \A w \in Writes : \A k \in Keyset[w] : k \in Keys
  BY KeysetAssumption
<1>4. LabelIsTrue'
  <2> SUFFICES ASSUME NEW w \in Acked', wr'[w].lsn <= label, NEW k \in Keyset[w]
               PROVE  Holds(file[k], w)'
    BY DEF LabelIsTrue
  <2>1. w \in Acked /\ w \in Writes /\ wr'[w].st = "acked" /\ wr[w].lsn <= label /\ k \in Keys
    BY <1>2, <1>3
  <2>2. Holds(file[k], w) /\ file[k] \in Writes \cup {0}
    BY <2>1, Types DEF LabelIsTrue
  <2>3. file'[k] = file[k]
    OBVIOUS
  <2> QED BY <1>1, <2>1, <2>2, <2>3 DEF Holds
<1>5. Flushed'
  <2> SUFFICES ASSUME NEW w \in Acked', wr'[w].lsn <= Bound', NEW k \in Keyset[w]
               PROVE  Holds(Over(frozen.tab, file)[k], w)'
    BY DEF Flushed
  <2>1. w \in Acked /\ w \in Writes /\ wr'[w].st = "acked" /\ wr[w].lsn <= Bound /\ k \in Keys
    BY <1>2, <1>3 DEF Bound
  <2> DEFINE v == Over(frozen.tab, file)[k]
  <2>2. Holds(v, w)
    BY <2>1 DEF Flushed
  <2>3. v \in Writes \cup {0}
    BY <2>1, Types DEF Over
  <2>4. v' = v
    BY DEF Over
  <2> HIDE DEF v
  <2>5. Holds(v, w)'
    BY <1>1, <2>1, <2>2, <2>3, <2>4 DEF Holds
  <2> QED BY <2>5 DEF v
<1>6. AckedSurvive'
  <2> SUFFICES ASSUME up = "up", NEW w \in Acked', NEW k \in Keyset[w]
               PROVE  Holds(get(k), w)'
    BY DEF AckedSurvive
  <2>1. w \in Acked /\ w \in Writes /\ wr'[w].st = "acked" /\ k \in Keys
    BY <1>2, <1>3
  <2> DEFINE v == get(k)
  <2>2. Holds(v, w)
    BY <2>1 DEF AckedSurvive
  <2>3. v \in Writes \cup {0}
    BY <2>1, Types DEF get
  <2>4. v' = v
    BY DEF get
  <2> HIDE DEF v
  <2>5. Holds(v, w)'
    BY <1>1, <2>1, <2>2, <2>3, <2>4 DEF Holds
  <2> QED BY <2>5 DEF v
<1> QED BY <1>4, <1>5, <1>6

\* A write that moves on, is not acknowledged and does not begin.
LEMMA MovedKeeps ==
    ASSUME TypeOK, DurableInv, NEW w \in Writes, NEW st \in {"failed", "sync", "apply"},
           Moved(w, st), wr[w].st # "acked", st # "failed" => w \in InFlight
    PROVE  /\ Counted' /\ Exclusive' /\ InFlight' \subseteq InFlight
           /\ \A v \in Writes : wr'[v].st = "acked" <=> wr[v].st = "acked"
           /\ \A s \in Seq(Slot) : LogInv(s, wr, label) => LogInv(s, wr', label)
<1>0. /\ wr \in [Writes -> Progress] /\ label \in Nat /\ wr' \in [Writes -> Progress]
      /\ \A v \in Writes : wr[v].nth \in Nat /\ wr'[v].nth = wr[v].nth /\ wr'[v].lsn = wr[v].lsn
      /\ \A v \in Writes : v # w => wr'[v] = wr[v]
      /\ wr'[w].st = st
  BY Types DEF Moved
<1>1. \A v \in Writes : wr'[v].st = "acked" <=> wr[v].st = "acked"
  BY <1>0
<1>2. InFlight' \subseteq InFlight
  BY <1>0 DEF InFlight
<1>3. Counted'
  <2>1. Appended(wr') = Appended(wr)
    BY <1>0 DEF Appended
  <2>2. Appended(wr)' = Appended(wr')
    BY DEF Appended
  <2> QED BY <1>0, <2>1, <2>2 DEF DurableInv, Counted
<1>4. Exclusive'
  BY <1>0, <1>1, <1>2 DEF DurableInv, Exclusive, Acked, InFlight
<1>5. \A s \in Seq(Slot) : LogInv(s, wr, label) => LogInv(s, wr', label)
  <2>1. Acks(wr') \subseteq Acks(wr)
    BY <1>1 DEF Acks
  <2> QED BY <1>0, <2>1, MoveInv
<1> QED BY <1>1, <1>2, <1>3, <1>4, <1>5

\* A write that is refused, finds no room, is covered by another's sync or
\* takes the handle.
LEMMA MoveStep ==
    ASSUME TypeOK, TypeOK', DurableInv, NEW w \in Writes,
           Refuses(w) \/ NoRoom(w) \/ Covered(w) \/ TakeHandle(w)
    PROVE  DurableInv'
<1>0. UNCHANGED <<up, log, old, file, label, active, frozen, wal, ck>>
  BY DEF Refuses, NoRoom, Covered, TakeHandle, durable, volatile
<1>1. PICK st \in {"failed", "sync", "apply"} :
         /\ Moved(w, st)
         /\ st = "failed" => wr[w].st \in {"idle", "wrote"}
         /\ st = "apply" => wr[w].st = "wrote" /\ wal.synced >= wr[w].lsn
         /\ st = "sync" => /\ wr[w].st = "wrote" /\ ~wal.failed /\ ~HandleHeld
                           /\ wr'[w].covers = wal.written
  <2>1. CASE Refuses(w) \/ NoRoom(w)
    <3>1. wr' = [wr EXCEPT ![w].st = "failed"] /\ wr[w].st = "idle"
      BY <2>1 DEF Refuses, NoRoom, Fails, Begins
    <3> QED BY <3>1, MovedType
  <2>2. CASE Covered(w)
    BY <2>2, MovedType DEF Covered
  <2>3. CASE TakeHandle(w)
    <3>1. wal.written \in Nat
      BY Types
    <3>2. CASE wal.failed
      <4>1. wr' = [wr EXCEPT ![w].st = "failed"] /\ wr[w].st = "wrote"
        BY <2>3, <3>2 DEF TakeHandle
      <4> QED BY <4>1, MovedType
    <3>3. CASE ~wal.failed
      <4>1. /\ wr' = [wr EXCEPT ![w].st = "sync", ![w].covers = wal.written]
            /\ wr[w].st = "wrote" /\ ~HandleHeld
        BY <2>3, <3>3 DEF TakeHandle
      <4> QED BY <3>1, <3>3, <4>1, MovedType
    <3> QED BY <3>2, <3>3
  <2> QED BY <2>1, <2>2, <2>3
<1>2. /\ Counted' /\ Exclusive' /\ InFlight' \subseteq InFlight
      /\ \A v \in Writes : wr'[v].st = "acked" <=> wr[v].st = "acked"
      /\ \A s \in Seq(Slot) : LogInv(s, wr, label) => LogInv(s, wr', label)
  <2>1. wr[w].st # "acked" /\ (st # "failed" => w \in InFlight)
    BY <1>1 DEF InFlight
  <2> QED BY <1>1, <2>1, MovedKeeps
<1>3. /\ wr'[w].st = st /\ \A v \in Writes : v # w => wr'[v] = wr[v]
      /\ \A v \in Writes : wr'[v].lsn = wr[v].lsn /\ wr'[v].nth = wr[v].nth
  BY <1>1 DEF Moved
<1>4. Logs'
  BY <1>0, <1>2, Types DEF DurableInv, Logs
<1>5. Closed'
  BY <1>0, <1>2 DEF DurableInv, Closed
<1>6. Numbers'
  BY <1>0 DEF DurableInv, Numbers
<1>7. Flight'
  <2> SUFFICES ASSUME NEW v \in InFlight' PROVE Flying(v)'
    BY DEF Flight
  <2>1. v \in InFlight /\ v \in Writes /\ Flying(v)
    BY <1>2 DEF DurableInv, Flight, InFlight
  <2>2. Has(log, v)' <=> Has(log, v)
    BY <1>0 DEF Has
  <2>3. HasGood(log, v)' <=> HasGood(log, v)
    BY <1>0 DEF HasGood
  <2>4. /\ Safe(log, v)' <=> Safe(log, v)
        /\ Safe(old.log, v)' <=> Safe(old.log, v)
    BY <1>0 DEF Safe
  <2>5. ~wal.failed \/ Syncing' => HasGood(log, v)
    <3>1. st = "sync" => ~wal.failed
      BY <1>1
    <3>2. st # "sync" => (Syncing' => Syncing)
      BY <1>3 DEF Syncing
    <3> QED BY <2>1, <3>1, <3>2 DEF Flying
  <2>6. wr'[v].st = "apply" => wr'[v].lsn <= wal.synced
    <3>1. CASE v = w
      BY <1>1, <1>3, <3>1, Types
    <3>2. CASE v # w
      BY <1>3, <2>1, <3>2 DEF Flying
    <3> QED BY <3>1, <3>2
  <2>7. wr'[v].st = "sync" => wr'[v].lsn <= wr'[v].covers /\ wr'[v].covers <= wal.written
    <3>1. CASE v = w
      <4>1. wr'[w].lsn <= wal.written /\ wal.written \in Nat
        BY <1>3, <2>1, <3>1, Types DEF Flying
      <4> QED BY <1>1, <1>3, <3>1, <4>1
    <3>2. CASE v # w
      BY <1>3, <2>1, <3>2 DEF Flying
    <3> QED BY <3>1, <3>2
  <2>8. wr'[v].lsn = wr[v].lsn
    BY <1>3, <2>1
  <2> QED BY <1>0, <2>1, <2>2, <2>3, <2>4, <2>5, <2>6, <2>7, <2>8 DEF Flying
<1>8. OneSync'
  <2>1. CASE st = "sync"
    <3>1. ~Syncing /\ ck.st # "renamed"
      BY <1>1, <2>1 DEF HandleHeld, LogHeld, Syncing
    <3>2. \A v \in Writes : wr'[v].st = "sync" => v = w
      BY <1>3, <3>1 DEF Syncing
    <3> QED BY <1>0, <3>1, <3>2 DEF OneSync
  <2>2. CASE st # "sync"
    <3>1. \A v \in Writes : wr'[v].st = "sync" => wr[v].st = "sync"
      BY <1>3, <2>2
    <3> QED BY <1>0, <3>1 DEF DurableInv, OneSync, Syncing
  <2> QED BY <2>1, <2>2
<1>9. Checkpoints'
  BY <1>0 DEF DurableInv, Checkpoints, Mark, Copied
<1>10. LabelIsTrue' /\ Flushed' /\ AckedSurvive'
  <2>1. \A v \in Writes : wr'[v].nth >= wr[v].nth
    BY <1>3, Types
  <2> QED BY <1>0, <1>2, <1>3, <2>1, TablesKeep DEF DurableInv
<1> QED BY <1>2, <1>4, <1>5, <1>6, <1>7, <1>8, <1>9, <1>10 DEF DurableInv

\* The number of writes appended, and where a new one goes.
LEMMA NthGrows ==
    ASSUME TypeOK, Counted, NEW w \in Writes, wr[w].nth = 0, NEW q \in [Writes -> Progress],
           q[w].nth = NextNth, \A v \in Writes : v # w => q[v] = wr[v]
    PROVE  /\ NextNth \in Nat /\ NextNth # 0 /\ \A v \in Writes : wr[v].nth < NextNth
           /\ \A v \in Writes : q[v].nth <= Cardinality(Appended(q))
<1>1. IsFiniteSet(Appended(wr)) /\ Cardinality(Appended(wr)) \in Nat
  BY WritesAssumption, FS_Subset, FS_CardinalityType DEF Appended
<1>2. NextNth = Cardinality(Appended(wr)) + 1
  BY DEF NextNth, Appended
<1>3. \A v \in Writes : wr[v].nth \in Nat /\ wr[v].nth <= Cardinality(Appended(wr))
  BY Types DEF Counted
<1>4. NextNth # 0
  BY <1>1, <1>2
<1>5. Appended(q) = Appended(wr) \cup {w} /\ w \notin Appended(wr)
  BY <1>4 DEF Appended
<1>6. Cardinality(Appended(q)) = Cardinality(Appended(wr)) + 1
  BY <1>1, <1>5, FS_AddElement
<1>7. \A v \in Writes : q[v].nth = IF v = w THEN NextNth ELSE wr[v].nth
  OBVIOUS
<1> QED BY <1>1, <1>2, <1>3, <1>4, <1>6, <1>7

\* A write appended, whether it is all written or not.
LEMMA AppendStep ==
    ASSUME TypeOK, TypeOK', DurableInv, NEW w \in Writes, LogAppend(w) \/ WriteFails(w)
    PROVE  DurableInv'
<1>0. /\ UNCHANGED <<up, old, file, label, active, frozen, ck>> /\ up = "up" /\ ck.st # "renamed"
      /\ wr[w].st = "idle" /\ ~wal.failed /\ \A v \in InFlight : Keyset[v] \cap Keyset[w] = {}
  BY DEF LogAppend, WriteFails, Begins, LogHeld
<1>1. PICK on \in {"cache", "torn"}, st \in {"wrote", "failed"} :
         /\ log' = Append(log, Record(w, on))
         /\ wr' = [wr EXCEPT ![w].st = st, ![w].lsn = wal.next, ![w].nth = NextNth]
         /\ st = "wrote" => on = "cache" /\ wal'.written = wal.next
  BY Types DEF LogAppend, WriteFails, TypeOK, Counters
<1>2. /\ log' \in Seq(Slot) /\ Len(log') = Len(log) + 1
      /\ log'[Len(log) + 1] = Record(w, on) /\ \A i \in 1..Len(log) : log'[i] = log[i]
      /\ wr' \in [Writes -> Progress]
      /\ wr'[w].st = st /\ wr'[w].lsn = wal.next /\ wr'[w].nth = NextNth
      /\ \A v \in Writes : v # w => wr'[v] = wr[v]
  BY <1>1, AppendType
<1>3. /\ wr[w].nth = 0 /\ NextNth \in Nat /\ NextNth # 0 /\ \A v \in Writes : wr[v].nth < NextNth
      /\ \A v \in Writes : wr'[v].nth <= Cardinality(Appended(wr'))
  <2>1. Counted /\ wr[w].nth = 0
    BY <1>0 DEF DurableInv, Counted
  <2> QED BY <1>2, <2>1, NthGrows
<1>4. /\ wal.synced <= wal.written /\ wal.written < wal.next /\ label < wal.next
      /\ \A i \in 1..Len(log) : log[i].lsn < wal.next
  BY <1>0 DEF DurableInv, Numbers
<1>5. /\ wal'.synced = wal.synced /\ wal'.written \in Nat /\ wal'.next \in Nat
      /\ wal.written <= wal'.written /\ wal'.written < wal'.next /\ wal.next <= wal'.next
      /\ ~wal'.failed => wal'.next = wal.next + 1
  <2>1. CASE LogAppend(w)
    <3>1. wal'.next = wal.next + 1 /\ wal'.written = wal.next /\ wal'.synced = wal.synced
      BY <2>1 DEF LogAppend, TypeOK, Counters
    <3> QED BY <1>4, <3>1, Types
  <2>2. CASE WriteFails(w)
    <3>1. wal'.next = wal.next /\ wal'.written = wal.written /\ wal'.synced = wal.synced /\ wal'.failed
      BY <2>2 DEF WriteFails, TypeOK, Counters
    <3> QED BY <1>4, <3>1, Types
  <2> QED BY <2>1, <2>2
<1>6. /\ Len(log) \in Nat /\ Len(log) + 1 \in 1..Len(log') /\ 1..Len(log) \subseteq 1..Len(log')
      /\ \A i \in 1..Len(log') : i \in 1..Len(log) \/ i = Len(log) + 1
      /\ log'[Len(log) + 1].w = w /\ log'[Len(log) + 1].lsn = wal.next /\ log'[Len(log) + 1].on = on
  <2>1. Len(log) \in Nat
    BY Types
  <2>2. Record(w, on).w = w /\ Record(w, on).lsn = wal.next /\ Record(w, on).on = on
    BY DEF Record
  <2> QED BY <1>2, <2>1, <2>2
<1>7. Logs'
  <2>1. \A s \in Seq(Slot) : LogInv(s, wr, label) => LogInv(s, wr', label)
    <3>1. wr'[w].st # "acked" /\ wr \in [Writes -> Progress] /\ label \in Nat
      BY <1>2, Types
    <3> QED BY <1>2, <1>3, <3>1, BeginInv
  <2>2. LogInv(log, wr', label) /\ log \in Seq(Slot) /\ label \in Nat
    BY <2>1, Types DEF DurableInv, Logs
  <2>3. ~Has(log, w)
    BY <1>3 DEF DurableInv, Logs, LogInv, Ordered, Has
  <2>4. \A v \in Writes : v # w => wr'[v].nth < wr'[w].nth
    BY <1>2, <1>3
  <2>5. w \notin Acks(wr')
    BY <1>2 DEF Acks
  <2>6. LogInv(log', wr', label)
    BY <1>2, <1>3, <1>4, <1>6, <2>2, <2>3, <2>4, <2>5, AppendInv
  <2> QED BY <1>0, <2>1, <2>6, Types DEF DurableInv, Logs
<1>8. Counted'
  <2>1. \A v \in Writes : wr'[v].st = "idle" => wr'[v].nth = 0
    BY <1>2 DEF DurableInv, Counted
  <2> QED BY <1>3, <2>1 DEF Counted, Appended
<1>9. InFlight' \subseteq InFlight \cup {w} /\ (w \in InFlight' => st = "wrote") /\ w \notin InFlight
  BY <1>0, <1>2 DEF InFlight
<1>10. Exclusive'
  <2>1. ASSUME NEW u \in InFlight', NEW v \in InFlight', u # v PROVE Keyset[u] \cap Keyset[v] = {}
    BY <1>0, <1>9, <2>1 DEF DurableInv, Exclusive
  <2>2. ASSUME NEW u \in Acked', NEW v \in InFlight', Keyset[u] \cap Keyset[v] # {}
        PROVE  wr'[u].nth < wr'[v].nth
    <3>1. u \in Acked /\ u \in Writes /\ u # w /\ wr'[u] = wr[u]
      BY <1>2 DEF Acked
    <3>2. CASE v = w
      BY <1>2, <1>3, <3>1, <3>2
    <3>3. CASE v # w
      <4>1. v \in InFlight /\ wr'[v] = wr[v]
        BY <1>2, <1>9, <3>3 DEF InFlight
      <4> QED BY <2>2, <3>1, <4>1 DEF DurableInv, Exclusive
    <3> QED BY <3>2, <3>3
  <2> QED BY <2>1, <2>2 DEF Exclusive
<1>11. Closed'
  BY <1>0 DEF Closed
<1>12. Numbers'
  <2>1. wal'.synced <= wal'.written /\ label < wal'.next
    BY <1>4, <1>5, Types
  <2>2. ~wal'.failed => \A i \in 1..Len(log') : log'[i].lsn < wal'.next
    <3> SUFFICES ASSUME ~wal'.failed, NEW i \in 1..Len(log') PROVE log'[i].lsn < wal'.next
      OBVIOUS
    <3>1. wal'.next = wal.next + 1 /\ wal.next \in Nat
      BY <1>5, Types
    <3>2. CASE i \in 1..Len(log)
      <4>1. log'[i].lsn < wal.next /\ log'[i].lsn \in Nat
        BY <1>2, <1>4, <3>2, Types
      <4> QED BY <3>1, <4>1
    <3>3. CASE i = Len(log) + 1
      <4>1. log'[i].lsn = wal.next
        BY <1>6, <3>3
      <4> QED BY <3>1, <4>1
    <3> QED BY <1>6, <3>2, <3>3
  <2> QED BY <1>0, <1>5, <2>1, <2>2 DEF Numbers
<1>13. Syncing' <=> Syncing
  BY <1>0, <1>2 DEF Syncing
<1>14. Flight'
  <2> SUFFICES ASSUME NEW v \in InFlight' PROVE Flying(v)'
    BY DEF Flight
  <2>1. CASE v # w
    <3>1. v \in InFlight /\ v \in Writes /\ wr'[v] = wr[v] /\ Flying(v)
      BY <1>2, <1>9, <2>1 DEF InFlight, DurableInv, Flight
    <3>2. Has(log, v)'
      BY <1>2, <1>6, <3>1 DEF Flying, Has
    <3>3. HasGood(log, v) => HasGood(log, v)'
      BY <1>2, <1>6 DEF HasGood
    <3>4. Safe(log, v) => Safe(log, v)'
      BY <1>2, <1>6 DEF Safe
    <3>5. Safe(old.log, v)' <=> Safe(old.log, v)
      BY <1>0 DEF Safe
    <3>6. wr[v].lsn <= wal'.written
      BY <1>5, <3>1, Types DEF Flying
    <3>7. wr[v].st = "sync" => wr[v].lsn <= wr[v].covers /\ wr[v].covers <= wal'.written
      BY <1>5, <3>1, Types DEF Flying
    <3> QED BY <1>0, <1>5, <1>13, <3>1, <3>2, <3>3, <3>4, <3>5, <3>6, <3>7 DEF Flying
  <2>2. CASE v = w
    <3>1. st = "wrote" /\ on = "cache" /\ wal'.written = wal.next
      BY <1>1, <1>9, <2>2
    <3>2. Has(log, w)' /\ HasGood(log, w)'
      BY <1>6, <3>1 DEF Has, HasGood
    <3>3. ck.st = "flush" => ck.lsn < wal.next
      BY DEF DurableInv, Checkpoints, Mark
    <3>4. ~(wal.next <= wal.synced)
      BY <1>4, Types
    <3> QED BY <1>0, <1>2, <1>4, <1>5, <2>2, <3>1, <3>2, <3>3, <3>4, Types DEF Flying
  <2> QED BY <2>1, <2>2
<1>15. OneSync'
  <2>1. \A v \in Writes : wr'[v].st = "sync" => wr[v].st = "sync"
    BY <1>2
  <2> QED BY <1>0, <1>13, <2>1 DEF DurableInv, OneSync
<1>16. Checkpoints'
  <2>1. Mark => Mark'
    <3> SUFFICES ASSUME Mark PROVE Mark'
      OBVIOUS
    <3>1. ck.len <= Len(log') /\ ck.lsn < wal'.next
      BY <1>2, <1>5, Types DEF Mark
    <3>2. ASSUME NEW i \in 1..ck.len PROVE log'[i].lsn <= ck.lsn
      <4>1. i \in 1..Len(log)
        BY Types DEF Mark
      <4>2. log'[i] = log[i]
        BY <1>2, <4>1
      <4> QED BY <4>2 DEF Mark
    <3> QED BY <1>0, <3>1, <3>2 DEF Mark
  <2>2. Copied => Copied'
    <3> SUFFICES ASSUME Copied PROVE Copied'
      OBVIOUS
    <3>1. ck.first <= Len(log')
      <4>1. ck.first <= Len(log) /\ Len(log') = Len(log) + 1 /\ Len(log) \in Nat /\ ck.first \in Nat
        BY <1>2, Types DEF Copied
      <4> QED BY <4>1
    <3>2. ASSUME NEW i \in 1..Len(ck.new) PROVE ck.len + i \in 1..Len(log)
      <4>1. /\ ck.len \in Nat /\ ck.first \in Nat /\ Len(log) \in Nat /\ Len(ck.new) = ck.first - ck.len
            /\ ck.first <= Len(log)
        BY Types DEF Copied
      <4>2. i \in Nat /\ i >= 1 /\ i <= ck.first - ck.len
        BY <4>1
      <4> QED BY <4>1, <4>2
    <3>3. \A i \in 1..Len(ck.new) : log'[ck.len + i] = log[ck.len + i]
      BY <1>2, <3>2
    <3>4. UNCHANGED ck
      BY <1>0
    <3> QED BY <3>1, <3>3, <3>4 DEF Copied
  <2> QED BY <1>0, <2>1, <2>2 DEF DurableInv, Checkpoints
<1>17. LabelIsTrue' /\ Flushed' /\ AckedSurvive'
  <2>1. \A v \in Writes : wr'[v].nth >= wr[v].nth
    BY <1>2, <1>3, Types
  <2>2. \A v \in Writes : wr'[v].st = "acked" =>
            wr[v].st = "acked" /\ wr'[v].lsn = wr[v].lsn /\ wr'[v].nth = wr[v].nth
    BY <1>2
  <2> QED BY <1>0, <2>1, <2>2, TablesKeep DEF DurableInv
<1> QED BY <1>7, <1>8, <1>10, <1>11, <1>12, <1>14, <1>15, <1>16, <1>17 DEF DurableInv

\* A log whose records only change place keeps what was said of it.
LEMMA FirmLog ==
    ASSUME TypeOK, Part(log, log', 0), Len(log') = Len(log), UNCHANGED ck, wal'.next = wal.next
    PROVE  /\ Mark => Mark' /\ (Copied => Copied')
           /\ \A v \in Writes : (Has(log, v) => Has(log, v)') /\ (Safe(log, v) => Safe(log, v)')
           /\ \A i \in 1..Len(log) : log'[i].lsn = log[i].lsn
           /\ \A r \in [Writes -> Progress] : LogInv(log, r, label) => LogInv(log', r, label)
<1>0. Len(log) \in Nat /\ log \in Seq(Slot) /\ label \in Nat
  BY Types
<1>1. \A i \in 1..Len(log) : /\ log'[i].lsn = log[i].lsn /\ log'[i].w = log[i].w
                             /\ log[i].on = "disk" => log'[i].on = "disk"
  BY <1>0 DEF Part
<1>2. ASSUME Mark PROVE Mark'
  <2>1. ASSUME NEW i \in 1..ck.len PROVE log'[i].lsn <= ck.lsn
    <3>1. i \in 1..Len(log)
      BY <1>2, Types DEF Mark
    <3>2. log'[i].lsn = log[i].lsn
      BY <1>1, <3>1
    <3> QED BY <1>2, <3>2 DEF Mark
  <2> QED BY <1>2, <2>1 DEF Mark
<1>3. ASSUME Copied PROVE Copied'
  <2>1. ASSUME NEW i \in 1..Len(ck.new) PROVE ck.len + i \in 1..Len(log)
    <3>1. /\ ck.len \in Nat /\ ck.first \in Nat /\ Len(log) \in Nat /\ Len(ck.new) = ck.first - ck.len
          /\ ck.first <= Len(log)
      BY <1>3, Types DEF Copied
    <3>2. i \in Nat /\ i >= 1 /\ i <= ck.first - ck.len
      BY <3>1
    <3> QED BY <3>1, <3>2
  <2>2. \A i \in 1..Len(ck.new) : /\ log'[ck.len + i].lsn = log[ck.len + i].lsn
                                  /\ log'[ck.len + i].w = log[ck.len + i].w
    BY <1>1, <2>1
  <2> QED BY <1>3, <2>2 DEF Copied
<1>4. \A v \in Writes : (Has(log, v) => Has(log, v)') /\ (Safe(log, v) => Safe(log, v)')
  BY <1>1 DEF Has, Safe
<1>5. ASSUME NEW r \in [Writes -> Progress], LogInv(log, r, label) PROVE LogInv(log', r, label)
  <2>1. /\ 0 \in Nat /\ (\A i \in 1..0 : log[i].lsn <= label)
        /\ \A i \in 0 + Len(log') + 1 .. Len(log) : log[i].on # "disk"
    BY <1>0
  <2> QED BY <1>0, <1>5, <2>1, PartInv
<1> QED BY <1>1, <1>2, <1>3, <1>4, <1>5

\* A sync that succeeds.
LEMMA SyncOkStep ==
    ASSUME TypeOK, TypeOK', DurableInv, NEW w \in Writes, SyncOk(w)
    PROVE  DurableInv'
<1>0. /\ UNCHANGED <<up, file, label, active, frozen, ck>> /\ up = "up" /\ old' = NoOld
      /\ wr[w].st = "sync"
  BY DEF SyncOk
<1>1. /\ wal'.next = wal.next /\ wal'.written = wal.written /\ wal'.failed = wal.failed
      /\ wal'.synced = Larger(wal.synced, wr[w].covers)
  BY DEF SyncOk, TypeOK, Counters
<1>2. /\ Part(log, log', 0) /\ Len(log') = Len(log)
      /\ \A i \in 1..Len(log) :
            /\ log[i].on \in {"cache", "disk"} => log'[i].on \in {"cache", "disk"}
            /\ log[i].on \in {"cache", "disk"} /\ log[i].lsn <= wr[w].covers => log'[i].on = "disk"
  <2>1. log' = Synced(log, wr[w].covers)
    BY DEF SyncOk, Synced
  <2> QED BY <2>1, SyncedLog, Types
<1>3. Moved(w, "apply")
  BY MovedType DEF SyncOk
<1>4. /\ Counted' /\ Exclusive' /\ InFlight' \subseteq InFlight
      /\ \A v \in Writes : wr'[v].st = "acked" <=> wr[v].st = "acked"
      /\ \A s \in Seq(Slot) : LogInv(s, wr, label) => LogInv(s, wr', label)
  BY <1>0, <1>3, MovedKeeps DEF InFlight
<1>5. /\ wr'[w].st = "apply" /\ \A v \in Writes : v # w => wr'[v] = wr[v]
      /\ \A v \in Writes : wr'[v].lsn = wr[v].lsn /\ wr'[v].nth = wr[v].nth
  BY <1>3 DEF Moved
<1>6. /\ Mark => Mark' /\ (Copied => Copied')
      /\ \A v \in Writes : (Has(log, v) => Has(log, v)') /\ (Safe(log, v) => Safe(log, v)')
      /\ \A i \in 1..Len(log) : log'[i].lsn = log[i].lsn
      /\ \A r \in [Writes -> Progress] : LogInv(log, r, label) => LogInv(log', r, label)
  BY <1>0, <1>1, <1>2, FirmLog
<1>7. \A v \in Writes : wr[v].st = "sync" => v = w
  BY <1>0 DEF DurableInv, OneSync
<1>8. Syncing /\ ck.st # "renamed" /\ ~Syncing'
  BY <1>0, <1>5, <1>7 DEF Syncing, DurableInv, OneSync
<1>9. Flying(w)
  BY <1>0 DEF DurableInv, Flight, InFlight
<1>10. /\ wal.synced <= wal'.synced /\ wr[w].covers <= wal'.synced /\ wal'.synced <= wal.written
       /\ wal'.synced \in {wal.synced, wr[w].covers}
  <2>1. wal.synced <= wal.written /\ wr[w].covers <= wal.written
    BY <1>0, <1>9 DEF DurableInv, Numbers, Flying
  <2> QED BY <1>1, <2>1, Types DEF Larger
<1>11. Logs'
  <2>1. LogInv(log, wr', label) /\ wr' \in [Writes -> Progress]
    BY <1>3, <1>4, Types DEF DurableInv, Logs, Moved
  <2>2. LogInv(log', wr', label)
    BY <1>6, <2>1
  <2> QED BY <1>0, <2>2 DEF Logs, NoOld
<1>12. Closed'
  BY <1>0 DEF Closed
<1>13. Numbers'
  BY <1>0, <1>1, <1>2, <1>6, <1>10 DEF DurableInv, Numbers
<1>14. Flight'
  <2> SUFFICES ASSUME NEW v \in InFlight' PROVE Flying(v)'
    BY DEF Flight
  <2>1. v \in InFlight /\ v \in Writes /\ Flying(v)
    BY <1>4 DEF DurableInv, Flight, InFlight
  <2>2. PICK i \in 1..Len(log) : log[i].w = v /\ log[i].on \in {"cache", "disk"}
    BY <1>8, <2>1 DEF Flying, HasGood
  <2>3. log[i].lsn = wr[v].lsn
    BY <2>2 DEF DurableInv, Logs, LogInv, Ordered
  <2>4. i \in 1..Len(log') /\ log'[i].w = v
    BY <1>2, <2>2, Types DEF Part
  <2>5. HasGood(log, v)' /\ Has(log, v)'
    BY <1>2, <2>2, <2>4 DEF HasGood, Has
  <2>6. wr[v].lsn <= wal'.synced => Safe(log, v)'
    <3>1. CASE wr[v].lsn <= wal.synced
      BY <1>6, <2>1, <3>1 DEF Flying
    <3>2. CASE wr[v].lsn <= wr[w].covers
      BY <1>2, <2>2, <2>3, <2>4, <3>2 DEF Safe
    <3> QED BY <1>10, <3>1, <3>2
  <2>7. wr'[v].st = "apply" => wr[v].lsn <= wal'.synced
    <3>1. CASE v = w
      <4>1. wr[w].lsn <= wr[w].covers
        BY <1>0, <1>9 DEF Flying
      <4>2. wr[w].lsn \in Nat /\ wr[w].covers \in Nat /\ wal'.synced \in Nat
        BY <1>10, Types
      <4> QED BY <1>10, <3>1, <4>1, <4>2
    <3>2. CASE v # w
      <4>1. wr'[v].st = "apply" => wr[v].lsn <= wal.synced
        BY <1>5, <2>1, <3>2 DEF Flying
      <4>2. /\ wal.synced <= wal'.synced /\ wr[v].lsn \in Nat /\ wal.synced \in Nat
            /\ wal'.synced \in Nat
        BY <1>10, <2>1, Types
      <4> QED BY <4>1, <4>2
    <3> QED BY <3>1, <3>2
  <2>8. wr'[v].st # "sync"
    BY <1>8, <2>1 DEF Syncing
  <2>9. ~old'.there /\ wr'[v].lsn = wr[v].lsn /\ label' = label /\ ck' = ck
        /\ wal'.written = wal.written
    BY <1>0, <1>1, <1>5, <2>1 DEF NoOld
  <2>10. label < wr[v].lsn /\ wr[v].lsn <= wal.written /\ (ck.st = "flush" => ck.lsn < wr[v].lsn)
    BY <2>1 DEF Flying
  <2> QED BY <2>5, <2>6, <2>7, <2>8, <2>9, <2>10 DEF Flying
<1>15. OneSync'
  BY <1>8 DEF OneSync, Syncing
<1>16. Checkpoints'
  BY <1>0, <1>6, <1>8 DEF DurableInv, Checkpoints
<1>17. LabelIsTrue' /\ Flushed' /\ AckedSurvive'
  <2>1. \A v \in Writes : wr'[v].nth >= wr[v].nth
    BY <1>5, Types
  <2> QED BY <1>0, <1>4, <1>5, <2>1, TablesKeep DEF DurableInv
<1> QED BY <1>4, <1>11, <1>12, <1>13, <1>14, <1>15, <1>16, <1>17 DEF DurableInv

\* A sync that fails.
LEMMA SyncFailsStep ==
    ASSUME TypeOK, TypeOK', DurableInv, NEW w \in Writes, SyncFails(w)
    PROVE  DurableInv'
<1>0. /\ UNCHANGED <<up, old, file, label, active, frozen, ck>> /\ up = "up" /\ wr[w].st = "sync"
  BY DEF SyncFails
<1>1. /\ wal'.next = wal.next /\ wal'.written = wal.written /\ wal'.failed
      /\ wal'.synced = wal.synced
  BY DEF SyncFails, TypeOK, Counters
<1>2. Part(log, log', 0) /\ Len(log') = Len(log)
  <2>1. PICK S : log' = Spoiled(log, S)
    BY DEF SyncFails, Spoiled
  <2> QED BY <2>1, SpoiledLog, Types
<1>3. Moved(w, "failed")
  BY MovedType DEF SyncFails, Fails
<1>4. /\ Counted' /\ Exclusive' /\ InFlight' \subseteq InFlight
      /\ \A v \in Writes : wr'[v].st = "acked" <=> wr[v].st = "acked"
      /\ \A s \in Seq(Slot) : LogInv(s, wr, label) => LogInv(s, wr', label)
  BY <1>0, <1>3, MovedKeeps DEF InFlight
<1>5. /\ wr'[w].st = "failed" /\ \A v \in Writes : v # w => wr'[v] = wr[v]
      /\ \A v \in Writes : wr'[v].lsn = wr[v].lsn /\ wr'[v].nth = wr[v].nth
  BY <1>3 DEF Moved
<1>6. /\ Mark => Mark' /\ (Copied => Copied')
      /\ \A v \in Writes : (Has(log, v) => Has(log, v)') /\ (Safe(log, v) => Safe(log, v)')
      /\ \A i \in 1..Len(log) : log'[i].lsn = log[i].lsn
      /\ \A r \in [Writes -> Progress] : LogInv(log, r, label) => LogInv(log', r, label)
  BY <1>0, <1>1, <1>2, FirmLog
<1>7. \A v \in Writes : wr[v].st = "sync" => v = w
  BY <1>0 DEF DurableInv, OneSync
<1>8. ck.st # "renamed" /\ ~Syncing'
  BY <1>0, <1>5, <1>7 DEF Syncing, DurableInv, OneSync
<1>11. Logs'
  <2>1. LogInv(log, wr', label) /\ wr' \in [Writes -> Progress]
    BY <1>3, <1>4, Types DEF DurableInv, Logs, Moved
  <2>2. LogInv(log', wr', label)
    BY <1>6, <2>1
  <2>3. old.there => LogInv(old.log, wr', label)
    BY <1>4, Types DEF DurableInv, Logs
  <2> QED BY <1>0, <2>2, <2>3 DEF Logs
<1>12. Closed'
  BY <1>0 DEF Closed
<1>13. Numbers'
  BY <1>0, <1>1, <1>2, <1>6 DEF DurableInv, Numbers
<1>14. Flight'
  <2> SUFFICES ASSUME NEW v \in InFlight' PROVE Flying(v)'
    BY DEF Flight
  <2>1. v \in InFlight /\ v \in Writes /\ Flying(v)
    BY <1>4 DEF DurableInv, Flight, InFlight
  <2>2. v # w /\ wr'[v] = wr[v]
    <3>1. wr'[v].st \in {"wrote", "sync", "apply"}
      BY DEF InFlight
    <3> QED BY <1>5, <2>1, <3>1
  <2>3. Safe(old.log, v)' <=> Safe(old.log, v)
    BY <1>0 DEF Safe
  <2> QED BY <1>0, <1>1, <1>6, <1>8, <2>1, <2>2, <2>3 DEF Flying
<1>15. OneSync'
  BY <1>8 DEF OneSync, Syncing
<1>16. Checkpoints'
  BY <1>0, <1>6, <1>8 DEF DurableInv, Checkpoints
<1>17. LabelIsTrue' /\ Flushed' /\ AckedSurvive'
  <2>1. \A v \in Writes : wr'[v].nth >= wr[v].nth
    BY <1>5, Types
  <2> QED BY <1>0, <1>4, <1>5, <2>1, TablesKeep DEF DurableInv
<1> QED BY <1>4, <1>11, <1>12, <1>13, <1>14, <1>15, <1>16, <1>17 DEF DurableInv

\* A write applied and acknowledged.
LEMMA ApplyStep ==
    ASSUME TypeOK, TypeOK', DurableInv, NEW w \in Writes, Apply(w)
    PROVE  DurableInv'
<1>0. /\ UNCHANGED <<up, log, old, file, label, frozen, wal, ck>> /\ up = "up" /\ wr[w].st = "apply"
      /\ active' = [k \in Keys |-> IF k \in Keyset[w] THEN w ELSE active[k]]
  BY DEF Apply, durable
<1>1. /\ wr'[w].st = "acked" /\ \A v \in Writes : v # w => wr'[v] = wr[v]
      /\ \A v \in Writes : wr'[v].lsn = wr[v].lsn /\ wr'[v].nth = wr[v].nth
      /\ wr' \in [Writes -> Progress]
  BY MovedType DEF Apply, Moved
<1>2. w \in InFlight /\ Flying(w)
  BY <1>0 DEF InFlight, DurableInv, Flight
<1>3. InFlight' \subseteq InFlight \ {w} /\ Acked' \subseteq Acked \cup {w}
  BY <1>1 DEF InFlight, Acked
<1>4. Logs'
  <2>1. Safe(log, w) /\ (old.there => Safe(old.log, w))
    BY <1>0, <1>2 DEF Flying
  <2>2. Acks(wr') \subseteq Acks(wr) \cup {w}
    BY <1>1 DEF Acks
  <2>3. ASSUME NEW s \in Seq(Slot), Safe(s, w), LogInv(s, wr, label) PROVE LogInv(s, wr', label)
    BY <1>1, <2>2, <2>3, AckInv, Types
  <2> QED BY <1>0, <2>1, <2>3, Types DEF DurableInv, Logs
<1>5. Counted'
  <2>1. Appended(wr') = Appended(wr)
    BY <1>1 DEF Appended
  <2>2. Appended(wr)' = Appended(wr')
    BY DEF Appended
  <2> QED BY <1>1, <2>1, <2>2 DEF DurableInv, Counted
<1>6. Exclusive'
  <2>1. ASSUME NEW u \in InFlight', NEW v \in InFlight', u # v PROVE Keyset[u] \cap Keyset[v] = {}
    BY <1>3, <2>1 DEF DurableInv, Exclusive
  <2>2. ASSUME NEW u \in Acked', NEW v \in InFlight', Keyset[u] \cap Keyset[v] # {}
        PROVE  wr'[u].nth < wr'[v].nth
    <3>1. v \in InFlight /\ v # w /\ v \in Writes /\ u \in Writes
      BY <1>3 DEF InFlight, Acked
    <3>2. u # w
      BY <1>2, <2>2, <3>1 DEF DurableInv, Exclusive
    <3>3. wr[u].nth < wr[v].nth
      BY <1>3, <2>2, <3>1, <3>2 DEF DurableInv, Exclusive
    <3> QED BY <1>1, <3>1, <3>3
  <2> QED BY <2>1, <2>2 DEF Exclusive
<1>7. Closed' /\ Numbers'
  BY <1>0 DEF Closed, DurableInv, Numbers
<1>8. Syncing' <=> Syncing
  BY <1>0, <1>1 DEF Syncing
<1>9. Flight'
  <2> SUFFICES ASSUME NEW v \in InFlight' PROVE Flying(v)'
    BY DEF Flight
  <2>1. v \in InFlight /\ v \in Writes /\ Flying(v) /\ wr'[v] = wr[v]
    BY <1>1, <1>3 DEF DurableInv, Flight, InFlight
  <2>2. /\ Has(log, v)' <=> Has(log, v)
        /\ HasGood(log, v)' <=> HasGood(log, v)
        /\ Safe(log, v)' <=> Safe(log, v)
        /\ Safe(old.log, v)' <=> Safe(old.log, v)
    BY <1>0 DEF Has, HasGood, Safe
  <2> QED BY <1>0, <1>8, <2>1, <2>2 DEF Flying
<1>10. OneSync'
  BY <1>0, <1>1, <1>8 DEF DurableInv, OneSync
<1>11. Checkpoints'
  BY <1>0 DEF DurableInv, Checkpoints, Mark, Copied
<1>12. \A v : \A u \in Writes : v \in Writes \cup {0} => (Holds(v, u)' <=> Holds(v, u))
  <2>1. 0 \notin Writes
    BY WritesAssumption
  <2> QED BY <1>1, <2>1 DEF Holds
<1>13. wr[w].lsn > label /\ wr[w].lsn > Bound /\ Bound \in Nat
  BY <1>2, Types DEF Flying, Bound
<1>14. \A u \in Writes : Keyset[u] \subseteq Keys
  BY KeysetAssumption
<1>15. ASSUME NEW u \in Acked', wr'[u].lsn <= label \/ wr'[u].lsn <= Bound
       PROVE  u \in Acked /\ u \in Writes /\ wr'[u].lsn = wr[u].lsn
  <2>1. u \in Writes /\ wr'[u].lsn = wr[u].lsn /\ wr[u].lsn \in Nat
    BY <1>1, Types DEF Acked
  <2>2. u # w
    BY <1>13, <1>15, <2>1, Types
  <2> QED BY <1>3, <2>1, <2>2
<1>16. LabelIsTrue'
  <2> SUFFICES ASSUME NEW u \in Acked', wr'[u].lsn <= label, NEW k \in Keyset[u]
               PROVE  Holds(file[k], u)'
    BY <1>0 DEF LabelIsTrue
  <2>1. u \in Acked /\ u \in Writes /\ wr[u].lsn <= label /\ k \in Keys
    BY <1>14, <1>15
  <2>2. Holds(file[k], u) /\ file[k] \in Writes \cup {0}
    BY <2>1, Types DEF DurableInv, LabelIsTrue
  <2> QED BY <1>0, <1>12, <2>1, <2>2 DEF Holds
<1>17. Flushed'
  <2> SUFFICES ASSUME NEW u \in Acked', wr'[u].lsn <= Bound, NEW k \in Keyset[u]
               PROVE  Holds(Over(frozen.tab, file)[k], u)'
    BY <1>0 DEF Flushed, Bound
  <2>1. u \in Acked /\ u \in Writes /\ wr[u].lsn <= Bound /\ k \in Keys
    BY <1>14, <1>15
  <2> DEFINE v == Over(frozen.tab, file)[k]
  <2>2. Holds(v, u)
    BY <2>1 DEF DurableInv, Flushed
  <2>3. v \in Writes \cup {0}
    BY <2>1, Types DEF Over
  <2>4. v' = v
    BY <1>0 DEF Over
  <2> HIDE DEF v
  <2>5. Holds(v, u)'
    BY <1>12, <2>1, <2>2, <2>3, <2>4 DEF Holds
  <2> QED BY <2>5 DEF v
<1>18. AckedSurvive'
  <2> SUFFICES ASSUME NEW u \in Acked', NEW k \in Keyset[u] PROVE Holds(get(k), u)'
    BY <1>0 DEF AckedSurvive
  <2>0. u \in Writes /\ k \in Keys
    BY <1>14 DEF Acked
  <2>1. CASE k \in Keyset[w]
    <3>1. get(k)' = w /\ w # 0
      BY <1>0, <2>0, <2>1, WritesAssumption DEF get
    <3>2. wr'[w].nth >= wr'[u].nth
      <4>1. CASE u = w
        BY <1>1, <4>1, Types
      <4>2. CASE u # w
        <5>1. u \in Acked /\ Keyset[u] \cap Keyset[w] # {}
          BY <1>3, <2>1, <4>2
        <5>2. wr[u].nth < wr[w].nth
          BY <1>2, <5>1 DEF DurableInv, Exclusive
        <5> QED BY <1>1, <2>0, <5>2, Types
      <4> QED BY <4>1, <4>2
    <3> QED BY <3>1, <3>2 DEF Holds
  <2>2. CASE k \notin Keyset[w]
    <3>1. u \in Acked
      BY <1>3, <2>2
    <3> DEFINE v == get(k)
    <3>2. Holds(v, u)
      BY <1>0, <3>1 DEF DurableInv, AckedSurvive
    <3>3. v \in Writes \cup {0}
      BY <2>0, Types DEF get
    <3>4. v' = v
      BY <1>0, <2>0, <2>2 DEF get
    <3> HIDE DEF v
    <3>5. Holds(v, u)'
      BY <1>12, <2>0, <3>2, <3>3, <3>4 DEF Holds
    <3> QED BY <3>5 DEF v
  <2> QED BY <2>1, <2>2
<1> QED BY <1>4, <1>5, <1>6, <1>7, <1>9, <1>10, <1>11, <1>16, <1>17, <1>18 DEF DurableInv

\* What a checkpoint's step leaves of the writes.
LEMMA WritesStay ==
    ASSUME DurableInv, UNCHANGED wr
    PROVE  Counted' /\ Exclusive' /\ InFlight' = InFlight /\ Acked' = Acked /\ (Syncing' <=> Syncing)
<1>1. InFlight' = InFlight /\ Acked' = Acked /\ (Syncing' <=> Syncing)
  BY DEF InFlight, Acked, Syncing
<1>2. Counted'
  BY DEF DurableInv, Counted, Appended
<1>3. Exclusive'
  BY <1>1 DEF DurableInv, Exclusive
<1> QED BY <1>1, <1>2, <1>3

\* The tables, where the step leaves them alone and ends no flush.
LEMMA TablesStay ==
    ASSUME TypeOK, DurableInv, UNCHANGED <<up, file, label, active, frozen, wr>>, ck'.st # "flush"
    PROVE  LabelIsTrue' /\ Flushed' /\ AckedSurvive'
<1>1. Acked' = Acked
  BY DEF Acked
<1>2. LabelIsTrue'
  BY <1>1 DEF DurableInv, LabelIsTrue, Holds
<1>3. AckedSurvive'
  BY <1>1 DEF DurableInv, AckedSurvive, Holds, get
<1>4. \A w \in Acked : wr[w].lsn <= label => wr[w].lsn <= Bound
  <2>1. ck.st = "flush" => label <= ck.lsn
    BY DEF DurableInv, Checkpoints
  <2> QED BY <2>1, Types DEF Bound, Acked
<1>5. Flushed'
  BY <1>1, <1>4 DEF DurableInv, Flushed, Holds, Over, Bound
<1> QED BY <1>2, <1>3, <1>5

\* A write in flight, where the step leaves the log and its counters alone.
LEMMA FlightStays ==
    ASSUME DurableInv, UNCHANGED <<log, old, wal, wr>>, label' \in {label, ck.lsn},
           label' = ck.lsn => ck.st = "flush" \/ label' = label, ck'.st # "flush"
    PROVE  Flight'
<1>1. InFlight' = InFlight /\ (Syncing' <=> Syncing)
  BY DEF InFlight, Syncing
<1> SUFFICES ASSUME NEW v \in InFlight PROVE Flying(v)'
  BY <1>1 DEF Flight
<1>2. Flying(v)
  BY DEF DurableInv, Flight
<1>3. /\ Has(log, v)' <=> Has(log, v)
      /\ HasGood(log, v)' <=> HasGood(log, v)
      /\ Safe(log, v)' <=> Safe(log, v)
      /\ Safe(old.log, v)' <=> Safe(old.log, v)
  BY DEF Has, HasGood, Safe
<1>4. label' < wr[v].lsn
  BY <1>2 DEF Flying
<1> QED BY <1>1, <1>2, <1>3, <1>4 DEF Flying

\* A leftover memtable flushed, the memtable frozen, and flushed.
LEMMA FlushSteps ==
    ASSUME TypeOK, TypeOK', DurableInv, FlushLeftover \/ Freeze \/ Flush
    PROVE  DurableInv'
<1>0. UNCHANGED <<up, log, old, wal, wr>> /\ up = "up"
  BY DEF FlushLeftover, Freeze, Flush, Checkpointing, durable
<1>1. Counted' /\ Exclusive' /\ InFlight' = InFlight /\ Acked' = Acked /\ (Syncing' <=> Syncing)
  BY <1>0, WritesStay
<1>2. Closed'
  BY <1>0 DEF Closed
<1>3. \A w \in Acked : w \in Writes /\ Keyset[w] \subseteq Keys
  BY KeysetAssumption DEF Acked
<1>4. \A k \in Keys : Empty[k] = 0
  BY DEF Empty
<1>5. CASE FlushLeftover
  <2>0. /\ UNCHANGED <<label, active, ck>> /\ frozen' = NoFrozen /\ frozen.there /\ ck.st = "idle"
        /\ file' = Over(frozen.tab, file)
    BY <1>5 DEF FlushLeftover, Checkpointing
  <2>1. Logs' /\ Numbers' /\ OneSync'
    BY <1>0, <1>1, <2>0 DEF DurableInv, Logs, Numbers, OneSync
  <2>2. Flight'
    BY <1>0, <2>0, FlightStays
  <2>3. Checkpoints'
    BY <1>0, <2>0 DEF DurableInv, Checkpoints, NoFrozen
  <2>4. LabelIsTrue'
    BY <1>0, <1>1, <2>0 DEF DurableInv, LabelIsTrue, Flushed, Bound, Holds
  <2>5. \A k \in Keys : Over(frozen.tab, file)'[k] = file'[k]
    BY <1>4, <2>0 DEF Over, NoFrozen
  <2>6. Flushed'
    <3> SUFFICES ASSUME NEW w \in Acked, wr[w].lsn <= label, NEW k \in Keyset[w]
                 PROVE  Holds(Over(frozen.tab, file)[k], w)'
      BY <1>0, <1>1, <2>0 DEF Flushed, Bound
    <3>1. Holds(file[k], w)'
      BY <1>0, <1>1, <2>0, <2>4 DEF LabelIsTrue
    <3> QED BY <1>3, <2>5, <3>1 DEF Holds
  <2>7. \A k \in Keys : get(k)' = get(k)
    BY <2>0 DEF get, NoFrozen, Over
  <2>8. AckedSurvive'
    <3> SUFFICES ASSUME NEW w \in Acked, NEW k \in Keyset[w] PROVE Holds(get(k), w)'
      BY <1>0, <1>1 DEF AckedSurvive
    <3>1. Holds(get(k), w)
      BY <1>0 DEF DurableInv, AckedSurvive
    <3> QED BY <1>0, <1>3, <2>7, <3>1 DEF Holds
  <2> QED BY <1>1, <1>2, <2>1, <2>2, <2>3, <2>4, <2>6, <2>8 DEF DurableInv
<1>6. CASE Freeze
  <2>0. /\ UNCHANGED <<label, file>> /\ ~frozen.there /\ InFlight = {} /\ ~wal.failed
        /\ frozen' = [there |-> TRUE, tab |-> active] /\ active' = Empty
        /\ ck'.st = "flush" /\ ck'.lsn = wal.next - 1 /\ ck'.len = Len(log)
    BY <1>6 DEF Freeze, durable, NoCheckpoint
  <2>1. Logs' /\ Numbers'
    BY <1>0, <2>0 DEF DurableInv, Logs, Numbers
  <2>2. Flight'
    BY <1>1, <2>0 DEF Flight
  <2>3. OneSync'
    BY <1>0, <2>0 DEF DurableInv, OneSync, Syncing
  <2>4. label < wal.next /\ \A i \in 1..Len(log) : log[i].lsn < wal.next
    BY <1>0, <2>0 DEF DurableInv, Numbers
  <2>5. Checkpoints'
    <3>1. Mark'
      <4>1. \A i \in 1..Len(log) : log[i].lsn <= wal.next - 1
        BY <2>4, Types
      <4>2. wal.next - 1 < wal.next /\ Len(log) <= Len(log)
        BY Types
      <4> QED BY <1>0, <2>0, <4>1, <4>2 DEF Mark
    <3>2. label <= wal.next - 1
      BY <2>4, Types
    <3> QED BY <2>0, <3>1, <3>2 DEF Checkpoints
  <2>6. \A k \in Keys : get(k)' = get(k) /\ Over(frozen.tab, file)'[k] = get(k)
    BY <1>4, <2>0 DEF get, Over
  <2>7. \A w \in Acked : \A k \in Keyset[w] : Holds(get(k), w)
    BY <1>0 DEF DurableInv, AckedSurvive
  <2>8. AckedSurvive' /\ Flushed'
    BY <1>0, <1>1, <1>3, <2>6, <2>7 DEF AckedSurvive, Flushed, Holds
  <2>9. LabelIsTrue'
    BY <1>0, <1>1, <2>0 DEF DurableInv, LabelIsTrue, Holds
  <2> QED BY <1>1, <1>2, <2>1, <2>2, <2>3, <2>5, <2>8, <2>9 DEF DurableInv
<1>7. CASE Flush
  <2>0. /\ UNCHANGED active /\ frozen' = NoFrozen /\ ck.st = "flush" /\ file' = Over(frozen.tab, file)
        /\ label' = ck.lsn /\ ck' = [ck EXCEPT !.st = "flushed"]
    BY <1>7 DEF Flush, Checkpointing
  <2>1. /\ ck'.st = "flushed" /\ ck'.lsn = ck.lsn /\ ck'.len = ck.len /\ Mark
        /\ label <= ck.lsn /\ frozen.there
    BY <2>0 DEF DurableInv, Checkpoints, TypeOK, Steps
  <2>2. Logs'
    <3>1. ASSUME NEW s \in Seq(Slot), LogInv(s, wr, label) PROVE LogInv(s, wr, ck.lsn)
      BY <2>1, <3>1, MoveInv, Types
    <3> QED BY <1>0, <2>0, <3>1, Types DEF DurableInv, Logs
  <2>3. Numbers'
    BY <1>0, <2>0, <2>1 DEF DurableInv, Numbers, Mark
  <2>4. Flight'
    BY <1>0, <2>0, <2>1, FlightStays
  <2>5. OneSync'
    BY <1>0, <1>1, <2>1 DEF DurableInv, OneSync
  <2>6. Checkpoints'
    <3>1. Mark'
      BY <1>0, <2>1 DEF Mark
    <3> QED BY <2>0, <2>1, <3>1 DEF Checkpoints, NoFrozen
  <2>7. LabelIsTrue'
    BY <1>0, <1>1, <2>0 DEF DurableInv, LabelIsTrue, Flushed, Bound, Holds
  <2>8. \A k \in Keys : Over(frozen.tab, file)'[k] = file'[k]
    BY <1>4, <2>0 DEF Over, NoFrozen
  <2>9. Flushed'
    <3> SUFFICES ASSUME NEW w \in Acked, wr[w].lsn <= label', NEW k \in Keyset[w]
                 PROVE  Holds(Over(frozen.tab, file)[k], w)'
      BY <1>0, <1>1, <2>1 DEF Flushed, Bound
    <3>1. Holds(file[k], w)'
      BY <1>0, <1>1, <2>7 DEF LabelIsTrue
    <3> QED BY <1>3, <2>8, <3>1 DEF Holds
  <2>10. \A k \in Keys : get(k)' = get(k)
    BY <2>0, <2>1 DEF get, NoFrozen, Over
  <2>11. AckedSurvive'
    <3> SUFFICES ASSUME NEW w \in Acked, NEW k \in Keyset[w] PROVE Holds(get(k), w)'
      BY <1>0, <1>1 DEF AckedSurvive
    <3>1. Holds(get(k), w)
      BY <1>0 DEF DurableInv, AckedSurvive
    <3> QED BY <1>0, <1>3, <2>10, <3>1 DEF Holds
  <2> QED BY <1>1, <1>2, <2>2, <2>3, <2>4, <2>5, <2>6, <2>7, <2>9, <2>11 DEF DurableInv
<1> QED BY <1>5, <1>6, <1>7

\* What a checkpoint's last pass leaves of the log: what followed the mark, on
\* disk.
LEMMA CopiedLog ==
    ASSUME TypeOK, DurableInv, CopyRest
    PROVE  /\ Part(log, log', ck.len) /\ ck.len + Len(log') = Len(log)
           /\ \A i \in 1..Len(log') : log'[i].on = "disk"
<1>0. /\ log \in Seq(Slot) /\ Len(log) \in Nat /\ ck.len \in Nat /\ ck.first \in Nat
      /\ ck.new \in Seq(Slot) /\ Copied
  BY Types DEF CopyRest, Checkpointing, DurableInv, Checkpoints
<1>1. /\ ck.len <= ck.first /\ ck.first <= Len(log) /\ Len(ck.new) = ck.first - ck.len
      /\ \A i \in 1..Len(ck.new) : /\ ck.new[i].w = log[ck.len + i].w
                                   /\ ck.new[i].lsn = log[ck.len + i].lsn
                                   /\ ck.new[i].on = "disk"
  BY <1>0 DEF Copied
<1>2. ck.first \in 0..Len(log)
  BY <1>0, <1>1
<1>3. log' = ck.new \o Rest(log, ck.first)
  BY DEF CopyRest, Rest
<1>4. /\ log' \in Seq(Slot) /\ Len(log') = Len(ck.new) + (Len(log) - ck.first)
      /\ \A i \in 1..Len(ck.new) : log'[i] = ck.new[i]
      /\ \A i \in 1..(Len(log) - ck.first) :
            /\ log'[Len(ck.new) + i].lsn = log[ck.first + i].lsn
            /\ log'[Len(ck.new) + i].w = log[ck.first + i].w
            /\ log'[Len(ck.new) + i].on = "disk"
  BY <1>0, <1>2, <1>3, RestType
<1>5. ck.len + Len(log') = Len(log) /\ Len(log') \in Nat
  BY <1>0, <1>1, <1>4
<1>6. \A i \in 1..Len(log') : /\ log'[i].lsn = log[ck.len + i].lsn /\ log'[i].w = log[ck.len + i].w
                              /\ log'[i].on = "disk"
  <2>1. Len(ck.new) \in Nat
    BY <1>0, SlotType
  <2>2. PICK n \in Nat, f \in Nat, a \in Nat, len \in Nat :
           n = Len(ck.new) /\ f = ck.first /\ a = ck.len /\ len = Len(log)
    BY <1>0, <2>1
  <2>3. n = f - a /\ f <= len
    BY <1>1, <2>2
  <2>4. \A i \in 1..n : log'[i].lsn = log[a + i].lsn /\ log'[i].w = log[a + i].w /\ log'[i].on = "disk"
    BY <1>1, <1>4, <2>2
  <2>5. \A i \in 1..(len - f) : /\ log'[n + i].lsn = log[f + i].lsn /\ log'[n + i].w = log[f + i].w
                                /\ log'[n + i].on = "disk"
    BY <1>4, <2>2
  <2>6. ASSUME NEW i \in 1..(n + (len - f))
        PROVE  log'[i].lsn = log[a + i].lsn /\ log'[i].w = log[a + i].w /\ log'[i].on = "disk"
    <3>1. CASE i <= n
      <4>1. i \in 1..n
        BY <2>3, <3>1
      <4> QED BY <2>4, <4>1
    <3>2. CASE i > n
      <4>1. (i - n) \in 1..(len - f) /\ n + (i - n) = i /\ f + (i - n) = a + i
        BY <2>3, <3>2
      <4>2. /\ log'[n + (i - n)].lsn = log[f + (i - n)].lsn
            /\ log'[n + (i - n)].w = log[f + (i - n)].w /\ log'[n + (i - n)].on = "disk"
        BY <2>5, <4>1
      <4> QED BY <4>1, <4>2
    <3> QED BY <2>3, <3>1, <3>2
  <2> QED BY <1>4, <2>2, <2>6
<1>7. Part(log, log', ck.len)
  <2>1. ck.len + Len(log') <= Len(log)
    BY <1>0, <1>5
  <2> QED BY <1>4, <1>6, <2>1 DEF Part
<1> QED BY <1>5, <1>6, <1>7

\* A checkpoint's second pass.
LEMMA CopyRestStep ==
    ASSUME TypeOK, TypeOK', DurableInv, CopyRest
    PROVE  DurableInv'
<1>0. /\ UNCHANGED <<up, file, label, active, frozen, wal, wr>> /\ up = "up" /\ ck.st = "copied"
      /\ ~HandleHeld /\ ~wal.failed /\ old'.there /\ old'.log = log /\ ck'.st = "renamed"
  BY DEF CopyRest, Checkpointing, volatile, TypeOK, Steps
<1>1. Counted' /\ Exclusive' /\ InFlight' = InFlight /\ Acked' = Acked /\ (Syncing' <=> Syncing)
  BY <1>0, WritesStay
<1>2. ~Syncing
  BY <1>0 DEF HandleHeld, Syncing
<1>3. /\ log \in Seq(Slot) /\ Len(log) \in Nat /\ label \in Nat /\ ck.len \in Nat
      /\ wr \in [Writes -> Progress] /\ Part(log, log', ck.len) /\ ck.len + Len(log') = Len(log)
      /\ \A i \in 1..Len(log') : log'[i].on = "disk"
  BY Types, CopiedLog
<1>4. /\ ck.len <= Len(log) /\ \A i \in 1..ck.len : log[i].lsn <= label
  BY <1>0 DEF DurableInv, Checkpoints, Mark
<1>5. log' \in Seq(Slot) /\ Len(log') \in Nat
  BY <1>3, SlotType DEF Part
<1>6. Logs'
  <2>1. \A i \in ck.len + Len(log') + 1 .. Len(log) : log[i].on # "disk"
    BY <1>3
  <2>2. LogInv(log', wr, label)
    BY <1>3, <1>4, <2>1, PartInv DEF DurableInv, Logs
  <2> QED BY <1>0, <2>2 DEF DurableInv, Logs
<1>7. Closed'
  BY <1>0 DEF Closed
<1>8. Numbers'
  <2>1. ASSUME NEW i \in 1..Len(log') PROVE log'[i].lsn < wal.next
    <3>1. ck.len + i \in 1..Len(log) /\ log'[i].lsn = log[ck.len + i].lsn
      BY <1>3, <1>5 DEF Part
    <3> QED BY <1>0, <3>1 DEF DurableInv, Numbers
  <2> QED BY <1>0, <2>1 DEF DurableInv, Numbers
<1>9. Flight'
  <2> SUFFICES ASSUME NEW v \in InFlight PROVE Flying(v)'
    BY <1>1 DEF Flight
  <2>1. v \in Writes /\ Flying(v)
    BY DEF InFlight, DurableInv, Flight
  <2>2. PICK i \in 1..Len(log) : log[i].w = v
    BY <2>1 DEF Flying, Has
  <2>3. log[i].lsn = wr[v].lsn /\ log[i].lsn \in Nat
    BY <2>2, Types DEF DurableInv, Logs, LogInv, Ordered
  <2>4. ~(i \in 1..ck.len)
    BY <1>3, <1>4, <2>1, <2>3 DEF Flying
  <2> DEFINE j == i - ck.len
  <2>5. j \in 1..Len(log') /\ ck.len + j = i
    BY <1>3, <1>5, <2>4
  <2> HIDE DEF j
  <2>6. log'[j].w = v /\ log'[j].on = "disk"
    BY <1>3, <2>2, <2>5 DEF Part
  <2>7. Has(log, v)' /\ HasGood(log, v)' /\ Safe(log, v)'
    BY <2>5, <2>6 DEF Has, HasGood, Safe
  <2>8. Safe(old.log, v)' <=> Safe(log, v)
    BY <1>0 DEF Safe
  <2> QED BY <1>0, <2>1, <2>7, <2>8 DEF Flying
<1>10. OneSync'
  BY <1>0, <1>1, <1>2 DEF DurableInv, OneSync
<1>11. Checkpoints'
  BY <1>0, <1>3 DEF DurableInv, Checkpoints
<1>12. LabelIsTrue' /\ Flushed' /\ AckedSurvive'
  BY <1>0, TablesStay
<1> QED BY <1>1, <1>6, <1>7, <1>8, <1>9, <1>10, <1>11, <1>12 DEF DurableInv

\* A checkpoint's other steps on the log.
LEMMA CopySteps ==
    ASSUME TypeOK, TypeOK', DurableInv, CopyFirst \/ DirSynced \/ DirSyncFails \/ GivesUp
    PROVE  DurableInv'
<1>0. UNCHANGED <<up, log, file, label, active, frozen, wr>> /\ up = "up" /\ ck'.st # "flush"
  <2>1. CASE CopyFirst
    BY <2>1 DEF CopyFirst, Checkpointing, durable, volatile, TypeOK, Steps
  <2>2. CASE DirSynced
    BY <2>2 DEF DirSynced, Checkpointing, NoCheckpoint
  <2>3. CASE DirSyncFails
    BY <2>3 DEF DirSyncFails, Checkpointing, durable, NoCheckpoint
  <2>4. CASE GivesUp
    BY <2>4 DEF GivesUp, durable, volatile, NoCheckpoint
  <2> QED BY <2>1, <2>2, <2>3, <2>4
<1>1. Counted' /\ Exclusive' /\ InFlight' = InFlight /\ Acked' = Acked /\ (Syncing' <=> Syncing)
  BY <1>0, WritesStay
<1>2. Closed'
  BY <1>0 DEF Closed
<1>3. LabelIsTrue' /\ Flushed' /\ AckedSurvive'
  BY <1>0, TablesStay
<1>4. CASE CopyFirst
  <2>0. /\ UNCHANGED <<old, wal>> /\ ck.st = "flushed" /\ Mark /\ ck.lsn = label
        /\ ck' = [ck EXCEPT !.st = "copied", !.first = Len(log), !.new = Rest(log, ck.len)]
    BY <1>4 DEF CopyFirst, Checkpointing, durable, volatile, DurableInv, Checkpoints, Rest
  <2>1. /\ ck'.st = "copied" /\ ck'.first = Len(log) /\ ck'.new = Rest(log, ck.len)
        /\ ck'.len = ck.len /\ ck'.lsn = ck.lsn
    BY <2>0 DEF TypeOK, Steps
  <2>2. Logs' /\ Numbers' /\ OneSync'
    BY <1>0, <1>1, <2>0, <2>1 DEF DurableInv, Logs, Numbers, OneSync
  <2>3. Flight'
    BY <1>0, <2>0, FlightStays
  <2>4. ck.len \in 0..Len(log) /\ log \in Seq(Slot) /\ Len(log) \in Nat /\ ck.len <= Len(log)
    BY <2>0, Types DEF Mark
  <2>5. /\ Len(ck'.new) = Len(log) - ck.len
        /\ \A i \in 1..Len(ck'.new) : /\ ck'.new[i].lsn = log[ck.len + i].lsn
                                      /\ ck'.new[i].w = log[ck.len + i].w
                                      /\ ck'.new[i].on = "disk"
    BY <2>1, <2>4, CopiedType
  <2>6. Copied'
    <3>1. Len(log) <= Len(log)
      BY <2>4
    <3> QED BY <1>0, <2>1, <2>4, <2>5, <3>1 DEF Copied
  <2>7. Mark'
    BY <1>0, <2>0, <2>1 DEF Mark
  <2>8. Checkpoints'
    BY <1>0, <2>0, <2>1, <2>6, <2>7 DEF DurableInv, Checkpoints
  <2> QED BY <1>1, <1>2, <1>3, <2>2, <2>3, <2>8 DEF DurableInv
<1>5. CASE DirSynced
  <2>0. /\ ck.st = "renamed" /\ old' = NoOld /\ ck'.st = "idle" /\ wal'.next = wal.next
        /\ wal'.written = wal.written /\ wal'.failed = wal.failed
        /\ wal'.synced = Larger(wal.synced, wal.written)
    BY <1>5 DEF DirSynced, Checkpointing, NoCheckpoint, TypeOK, Counters
  <2>1. wal.synced <= wal'.synced /\ wal'.synced = wal.written
    BY <1>0, <2>0, Types DEF DurableInv, Numbers, Larger
  <2>2. Logs'
    BY <1>0, <2>0 DEF DurableInv, Logs, NoOld
  <2>3. Numbers'
    <3>1. wal.written <= wal.written
      BY Types
    <3> QED BY <1>0, <2>0, <2>1, <3>1 DEF DurableInv, Numbers
  <2>4. OneSync'
    BY <1>0, <1>1, <2>0 DEF DurableInv, OneSync
  <2>5. Flight'
    <3> SUFFICES ASSUME NEW v \in InFlight PROVE Flying(v)'
      BY <1>1 DEF Flight
    <3>1. v \in Writes /\ Flying(v)
      BY DEF InFlight, DurableInv, Flight
    <3>2. \A i \in 1..Len(log) : log[i].on = "disk"
      BY <2>0 DEF DurableInv, Checkpoints
    <3>3. Has(log, v)' /\ HasGood(log, v)' /\ Safe(log, v)'
      BY <1>0, <3>1, <3>2 DEF Flying, Has, HasGood, Safe
    <3>4. ~old'.there
      BY <2>0 DEF NoOld
    <3>5. wr[v].lsn <= wal'.synced
      BY <2>1, <3>1 DEF Flying
    <3> QED BY <1>0, <2>0, <3>1, <3>3, <3>4, <3>5 DEF Flying
  <2>6. Checkpoints'
    BY <1>0, <2>0 DEF DurableInv, Checkpoints
  <2> QED BY <1>1, <1>2, <1>3, <2>2, <2>3, <2>4, <2>5, <2>6 DEF DurableInv
<1>6. CASE DirSyncFails
  <2>0. /\ UNCHANGED old /\ ck.st = "renamed" /\ ck'.st = "idle" /\ wal'.next = wal.next
        /\ wal'.written = wal.written /\ wal'.failed /\ wal'.synced = wal.synced
    BY <1>6 DEF DirSyncFails, Checkpointing, NoCheckpoint, durable, TypeOK, Counters
  <2>1. Logs'
    BY <1>0, <2>0 DEF DurableInv, Logs
  <2>2. Numbers'
    BY <1>0, <2>0 DEF DurableInv, Numbers
  <2>3. OneSync' /\ ~Syncing
    BY <1>0, <1>1, <2>0 DEF DurableInv, OneSync
  <2>4. Flight'
    <3> SUFFICES ASSUME NEW v \in InFlight PROVE Flying(v)'
      BY <1>1 DEF Flight
    <3>1. v \in Writes /\ Flying(v)
      BY DEF InFlight, DurableInv, Flight
    <3>2. /\ Has(log, v)' <=> Has(log, v)
          /\ Safe(log, v)' <=> Safe(log, v)
          /\ Safe(old.log, v)' <=> Safe(old.log, v)
      BY <1>0, <2>0 DEF Has, Safe
    <3> QED BY <1>0, <1>1, <2>0, <2>3, <3>1, <3>2 DEF Flying
  <2>5. Checkpoints'
    BY <1>0, <2>0 DEF DurableInv, Checkpoints
  <2> QED BY <1>1, <1>2, <1>3, <2>1, <2>2, <2>3, <2>4, <2>5 DEF DurableInv
<1>7. CASE GivesUp
  <2>0. UNCHANGED <<old, wal>> /\ ck'.st = "idle"
    BY <1>7 DEF GivesUp, NoCheckpoint, durable, volatile
  <2>1. Logs' /\ Numbers' /\ OneSync'
    BY <1>0, <1>1, <2>0 DEF DurableInv, Logs, Numbers, OneSync
  <2>2. Flight'
    BY <1>0, <2>0, FlightStays
  <2>3. Checkpoints'
    BY <1>0, <2>0 DEF DurableInv, Checkpoints
  <2> QED BY <1>1, <1>2, <1>3, <2>1, <2>2, <2>3 DEF DurableInv
<1> QED BY <1>4, <1>5, <1>6, <1>7

\* A store that is down, or was refused: what is left to show is of its logs.
LEMMA DownInv ==
    ASSUME TypeOK, TypeOK', DurableInv, Logs', UNCHANGED <<file, label>>, up' # "up",
           ck' = NoCheckpoint, frozen' = NoFrozen,
           \A w \in Writes : /\ wr'[w].lsn = wr[w].lsn /\ wr'[w].nth = wr[w].nth
                             /\ wr'[w].st \notin {"wrote", "sync", "apply"}
                             /\ wr'[w].st = "acked" <=> wr[w].st = "acked"
                             /\ wr'[w].st = "idle" <=> wr[w].st = "idle"
    PROVE  DurableInv'
<1>1. InFlight' = {} /\ ~Syncing' /\ Acked' = Acked
  BY DEF InFlight, Syncing, Acked
<1>2. Counted'
  <2>1. Appended(wr)' = Appended(wr)
    BY DEF Appended
  <2> QED BY <2>1 DEF DurableInv, Counted
<1>3. Exclusive' /\ Flight' /\ Closed' /\ Numbers' /\ AckedSurvive'
  BY <1>1 DEF Exclusive, Flight, Closed, Numbers, AckedSurvive
<1>4. OneSync'
  BY <1>1 DEF OneSync, Syncing
<1>5. Checkpoints'
  BY DEF Checkpoints, NoCheckpoint, NoFrozen
<1>6. \A w \in Acked : w \in Writes /\ Keyset[w] \subseteq Keys
  BY KeysetAssumption DEF Acked
<1>7. 0 \notin Writes
  BY WritesAssumption
<1>8. LabelIsTrue'
  <2> SUFFICES ASSUME NEW w \in Acked, wr[w].lsn <= label, NEW k \in Keyset[w]
               PROVE  Holds(file[k], w)'
    BY <1>1, <1>6 DEF LabelIsTrue
  <2>1. Holds(file[k], w)
    BY DEF DurableInv, LabelIsTrue
  <2>2. file[k] \in Writes \cup {0}
    BY <1>6, Types
  <2> QED BY <1>6, <1>7, <2>1, <2>2 DEF Holds
<1>9. Flushed'
  <2> SUFFICES ASSUME NEW w \in Acked', wr'[w].lsn <= label', NEW k \in Keyset[w]
               PROVE  Holds(Over(frozen.tab, file)[k], w)'
    BY DEF Flushed, Bound, NoCheckpoint
  <2>1. Holds(file[k], w)'
    BY <1>8 DEF LabelIsTrue
  <2>2. Over(frozen.tab, file)'[k] = file'[k]
    BY <1>1, <1>6 DEF Over, NoFrozen, Empty
  <2> QED BY <2>1, <2>2 DEF Holds
<1> QED BY <1>2, <1>3, <1>4, <1>5, <1>8, <1>9 DEF DurableInv

\* A process killed, a power cut, a log refused.
LEMMA StopSteps ==
    ASSUME TypeOK, TypeOK', DurableInv, Kill \/ PowerCut \/ OpenRefused
    PROVE  DurableInv'
<1>1. /\ UNCHANGED <<file, label>> /\ up' # "up" /\ ck' = NoCheckpoint /\ frozen' = NoFrozen
      /\ \A w \in Writes : /\ wr'[w].lsn = wr[w].lsn /\ wr'[w].nth = wr[w].nth
                           /\ wr'[w].st \notin {"wrote", "sync", "apply"}
                           /\ wr'[w].st = "acked" <=> wr[w].st = "acked"
                           /\ wr'[w].st = "idle" <=> wr[w].st = "idle"
  <2>1. CASE up = "up"
    <3>1. Stops /\ UNCHANGED <<file, label>>
      BY <2>1 DEF Kill, PowerCut, OpenRefused, durable
    <3> QED BY <3>1, StopsType
  <2>2. CASE up # "up"
    <3>1. UNCHANGED <<file, label, ck, frozen, wr>> /\ up' # "up"
      BY <2>2 DEF Kill, PowerCut, OpenRefused, durable, volatile
    <3>2. InFlight = {} /\ ck = NoCheckpoint /\ frozen = NoFrozen
      BY <2>2 DEF DurableInv, Closed
    <3> QED BY <3>1, <3>2 DEF InFlight
  <2> QED BY <2>1, <2>2
<1>2. /\ log \in Seq(Slot) /\ old.log \in Seq(Slot) /\ Len(log) \in Nat /\ label \in Nat
      /\ wr \in [Writes -> Progress] /\ wr' \in [Writes -> Progress] /\ Len(old.log) \in Nat
  BY Types, SlotType DEF TypeOK
<1>3. ASSUME NEW s \in Seq(Slot), LogInv(s, wr, label) PROVE LogInv(s, wr', label)
  <2>1. Acks(wr') \subseteq Acks(wr) /\ label <= label
    BY <1>1, <1>2 DEF Acks
  <2> QED BY <1>1, <1>2, <1>3, <2>1, MoveInv
<1>4. Logs'
  <2>1. CASE PowerCut
    <3>1. ASSUME NEW s \in Seq(Slot), LogInv(s, wr, label), Part(s, log', 0), Len(log') = Len(s)
          PROVE  LogInv(log', wr, label)
      <4>1. /\ 0 \in Nat /\ Len(s) \in Nat /\ (\A i \in 1..0 : s[i].lsn <= label)
            /\ \A i \in 0 + Len(log') + 1 .. Len(s) : s[i].on # "disk"
        BY <3>1, SlotType
      <4> QED BY <1>2, <3>1, <4>1, PartInv
    <3>2. LogInv(log', wr, label)
      BY <1>2, <2>1, <3>1, CutLog DEF DurableInv, Logs
    <3>3. log' \in Seq(Slot) /\ ~old'.there
      BY <2>1 DEF TypeOK, PowerCut, NoOld
    <3> QED BY <1>1, <1>3, <3>2, <3>3 DEF Logs
  <2>2. CASE Kill \/ OpenRefused
    <3>1. UNCHANGED <<log, old>>
      BY <2>2 DEF Kill, OpenRefused, durable
    <3> QED BY <1>1, <1>2, <1>3, <3>1 DEF DurableInv, Logs
  <2> QED BY <2>1, <2>2
<1> QED BY <1>1, <1>4, DownInv

\* Replaying the log over the index file.
LEMMA ReplayHolds ==
    ASSUME TypeOK, DurableInv, ~Damaged, NEW w \in Acked, NEW k \in Keyset[w]
    PROVE  IF Replayed[k] # 0 THEN Holds(Replayed[k], w) ELSE Holds(file[k], w)
<1> DEFINE I == {i \in 1..WholeEnd : log[i].lsn > label /\ k \in Keyset[log[i].w]}
<1>0. w \in Writes /\ k \in Keys /\ 0 \notin Writes
  BY KeysetAssumption, WritesAssumption DEF Acked
<1>1. /\ log \in Seq(Slot) /\ Len(log) \in Nat /\ WholeEnd \in 0..Len(log) /\ label \in Nat
      /\ \A i \in WholeEnd + 1 .. Len(log) : log[i].on = "torn"
  BY Types, Whole
<1>2. Replayed[k] = IF I = {} THEN 0 ELSE log[Max(I)].w
  BY <1>0 DEF Replayed
<1>3. LogInv(log, wr, label) /\ w \in Acks(wr)
  BY DEF DurableInv, Logs, Acked, Acks
<1>4. I \subseteq 0..Len(log)
  BY <1>1
<1>5. I # {} => Max(I) \in I /\ \A i \in I : i <= Max(I)
  BY <1>1, <1>4, MaxOfSet
<1>6. I # {} => /\ Max(I) \in 1..Len(log) /\ log[Max(I)].lsn > label
                /\ log[Max(I)].w \in Writes /\ log[Max(I)].w # 0
  <2> SUFFICES ASSUME I # {} PROVE /\ Max(I) \in 1..Len(log) /\ log[Max(I)].lsn > label
                                   /\ log[Max(I)].w \in Writes /\ log[Max(I)].w # 0
    OBVIOUS
  <2>1. Max(I) \in I /\ I \subseteq 1..Len(log)
    BY <1>1, <1>5
  <2>2. Max(I) \in 1..Len(log) /\ log[Max(I)].lsn > label
    BY <2>1
  <2> QED BY <1>0, <2>2, Types
<1>7. CASE wr[w].lsn <= label
  <2>1. CASE I = {}
    <3>1. Holds(file[k], w)
      BY <1>7 DEF DurableInv, LabelIsTrue
    <3> QED BY <1>2, <2>1, <3>1
  <2>2. CASE I # {}
    <3> DEFINE m == Max(I)
    <3>1. m \in 1..Len(log) /\ log[m].lsn > label /\ log[m].w \in Writes /\ log[m].w # 0
      BY <1>6, <2>2
    <3>2. Replayed[k] = log[m].w
      BY <1>2, <2>2
    <3> HIDE DEF m
    <3>3. log[m].lsn > wr[w].lsn
      BY <1>0, <1>1, <1>7, <3>1, Types
    <3>4. wr[log[m].w].nth > wr[w].nth
      BY <1>3, <3>1, <3>3 DEF LogInv, After
    <3>5. wr[log[m].w].nth >= wr[w].nth
      BY <1>0, <3>1, <3>4, Types
    <3> QED BY <3>1, <3>2, <3>5 DEF Holds
  <2> QED BY <2>1, <2>2
<1>8. CASE wr[w].lsn > label
  <2>1. PICK i \in 1..Len(log) : log[i].w = w /\ log[i].on = "disk"
    BY <1>3, <1>8 DEF LogInv, Durable, Safe
  <2>2. log[i].lsn = wr[w].lsn
    BY <1>3, <2>1 DEF LogInv, Ordered
  <2>3. i \in 1..WholeEnd
    <3>1. ~(i \in WholeEnd + 1 .. Len(log))
      BY <1>1, <2>1
    <3> QED BY <1>1, <3>1
  <2>4. i \in I
    BY <1>8, <2>1, <2>2, <2>3
  <2> DEFINE m == Max(I)
  <2>5. m \in 1..Len(log) /\ i <= m /\ log[m].w \in Writes /\ log[m].w # 0
    BY <1>5, <1>6, <2>4
  <2>6. Replayed[k] = log[m].w
    BY <1>2, <2>4
  <2> HIDE DEF m, I
  <2>7. wr[log[m].w].nth >= wr[w].nth
    <3>1. CASE i = m
      BY <1>0, <2>1, <3>1, Types
    <3>2. CASE i # m
      <4>1. i < m
        BY <1>1, <2>5, <3>2
      <4>2. wr[log[i].w].nth < wr[log[m].w].nth
        BY <1>3, <2>5, <4>1 DEF LogInv, Ordered
      <4> QED BY <1>0, <2>1, <2>5, <4>2, Types
    <3> QED BY <3>1, <3>2
  <2> QED BY <2>5, <2>6, <2>7 DEF Holds
<1> QED BY <1>0, <1>1, <1>7, <1>8, Types

\* The store opened.
LEMMA OpenStep ==
    ASSUME TypeOK, TypeOK', DurableInv, Open
    PROVE  DurableInv'
<1>0. /\ UNCHANGED <<old, file, label, wr, ck>> /\ up = "down" /\ up' = "up" /\ ~Damaged
      /\ active' = Replayed /\ frozen' = NoFrozen
  BY DEF Open
<1>1. Counted' /\ Exclusive' /\ InFlight' = InFlight /\ Acked' = Acked /\ (Syncing' <=> Syncing)
  BY <1>0, WritesStay
<1>2. InFlight = {} /\ ck = NoCheckpoint
  BY <1>0 DEF DurableInv, Closed
<1>3. /\ log \in Seq(Slot) /\ Len(log) \in Nat /\ WholeEnd \in 0..Len(log) /\ label \in Nat
      /\ \A i \in WholeEnd + 1 .. Len(log) : log[i].on = "torn"
      /\ Part(log, log', 0) /\ Len(log') = WholeEnd /\ wr \in [Writes -> Progress]
  BY <1>0, Types, Whole, OpenedLog
<1>4. Logs'
  <2>1. /\ 0 \in Nat /\ (\A i \in 1..0 : log[i].lsn <= label)
        /\ \A i \in 0 + Len(log') + 1 .. Len(log) : log[i].on # "disk"
    <3>1. 0 + Len(log') + 1 = WholeEnd + 1
      BY <1>3
    <3> QED BY <1>3, <3>1
  <2>2. LogInv(log', wr, label)
    BY <1>3, <2>1, PartInv DEF DurableInv, Logs
  <2> QED BY <1>0, <2>2 DEF DurableInv, Logs
<1>5. Closed' /\ Flight'
  BY <1>0, <1>1, <1>2 DEF Closed, Flight
<1>6. OneSync'
  BY <1>0, <1>1 DEF DurableInv, OneSync
<1>7. Numbers'
  <2> DEFINE last == advance_past(Last)
  <2>1. wal'.next = last + 1 /\ wal'.written = last /\ wal'.synced = last
    BY DEF Open
  <2>2. ASSUME NEW i \in 1..WholeEnd PROVE log[i].lsn <= Last
    <3>1. WholeEnd # 0 /\ WholeEnd \in 1..Len(log) /\ i \in 1..Len(log) /\ Last = log[WholeEnd].lsn
      BY <1>3 DEF Last
    <3>2. CASE i = WholeEnd
      BY <3>1, <3>2, Types
    <3>3. CASE i # WholeEnd
      <4>1. i < WholeEnd
        BY <1>3, <3>3
      <4>2. log[i].lsn < log[WholeEnd].lsn
        BY <3>1, <4>1 DEF DurableInv, Logs, LogInv, Ordered
      <4> QED BY <3>1, <4>2, Types
    <3> QED BY <3>2, <3>3
  <2>3. Last \in Nat
    <3>1. WholeEnd # 0 => WholeEnd \in 1..Len(log)
      BY <1>3
    <3> QED BY <3>1, Types DEF Last
  <2>4. last \in Nat /\ Last <= last /\ label <= last
    BY <1>3, <2>3 DEF advance_past, Larger
  <2> HIDE DEF last
  <2>5. ASSUME NEW i \in 1..Len(log') PROVE log'[i].lsn < wal'.next
    <3>1. i \in 1..WholeEnd /\ i \in 1..Len(log) /\ log'[i].lsn = log[i].lsn
      <4>1. i \in 1..WholeEnd /\ i \in 1..Len(log) /\ 0 + i = i
        BY <1>3
      <4> QED BY <1>3, <4>1 DEF Part
    <3>2. log[i].lsn <= Last /\ log[i].lsn \in Nat
      BY <2>2, <3>1, Types
    <3> QED BY <2>1, <2>3, <2>4, <3>1, <3>2
  <2>6. last <= last /\ last < last + 1 /\ label < last + 1
    BY <1>3, <2>4
  <2> QED BY <1>0, <2>1, <2>5, <2>6 DEF Numbers
<1>8. Checkpoints'
  BY <1>0, <1>2 DEF Checkpoints, NoCheckpoint, NoFrozen
<1>9. \A w \in Acked : w \in Writes /\ Keyset[w] \subseteq Keys
  BY KeysetAssumption DEF Acked
<1>10. LabelIsTrue'
  BY <1>0, <1>1 DEF DurableInv, LabelIsTrue, Holds
<1>11. Flushed'
  <2> SUFFICES ASSUME NEW w \in Acked, wr[w].lsn <= label, NEW k \in Keyset[w]
               PROVE  Holds(Over(frozen.tab, file)[k], w)'
    BY <1>0, <1>1, <1>2 DEF Flushed, Bound, NoCheckpoint
  <2>1. Holds(file[k], w)
    BY DEF DurableInv, LabelIsTrue
  <2>2. Over(frozen.tab, file)'[k] = file[k]
    BY <1>0, <1>9 DEF Over, NoFrozen, Empty
  <2> QED BY <1>0, <2>1, <2>2 DEF Holds
<1>12. AckedSurvive'
  <2> SUFFICES ASSUME NEW w \in Acked, NEW k \in Keyset[w] PROVE Holds(get(k), w)'
    BY <1>1 DEF AckedSurvive
  <2>1. get(k)' = IF Replayed[k] # 0 THEN Replayed[k] ELSE file[k]
    BY <1>0 DEF get, NoFrozen
  <2>2. IF Replayed[k] # 0 THEN Holds(Replayed[k], w) ELSE Holds(file[k], w)
    BY <1>0, ReplayHolds
  <2> QED BY <1>0, <2>1, <2>2 DEF Holds
<1> QED BY <1>1, <1>4, <1>5, <1>6, <1>7, <1>8, <1>10, <1>11, <1>12 DEF DurableInv

-----------------------------------------------------------------------------
(* The theorems.                                                           *)

\* The initial state.
LEMMA DurableInit == Init => DurableInv
<1> SUFFICES ASSUME Init PROVE DurableInv
  OBVIOUS
<1>0. /\ up = "up" /\ log = <<>> /\ Len(log) = 0 /\ ~old.there /\ label = 0 /\ active = Empty
      /\ frozen = NoFrozen /\ wal = Fresh /\ ck = NoCheckpoint
      /\ \A w \in Writes : wr[w].st = "idle" /\ wr[w].nth = 0
  BY EmptySeq DEF Init, NoOld, NotBegun
<1>1. InFlight = {} /\ Acked = {} /\ Acks(wr) = {} /\ ~Syncing
  BY <1>0 DEF InFlight, Acked, Acks, Syncing
<1>2. 1..Len(log) = {}
  BY <1>0
<1>3. Logs
  BY <1>0, <1>1, <1>2 DEF Logs, LogInv, Ordered, After, Durable
<1>4. Counted
  <2>1. IsFiniteSet(Appended(wr))
    BY WritesAssumption, FS_Subset DEF Appended
  <2>2. Cardinality(Appended(wr)) \in Nat
    BY <2>1, FS_CardinalityType
  <2> QED BY <1>0, <2>2 DEF Counted
<1>5. Exclusive /\ Closed /\ Flight /\ LabelIsTrue /\ Flushed /\ AckedSurvive
  BY <1>0, <1>1 DEF Exclusive, Closed, Flight, LabelIsTrue, Flushed, AckedSurvive
<1>6. Numbers
  BY <1>0, <1>2 DEF Numbers, Fresh
<1>7. OneSync
  BY <1>1 DEF OneSync, Syncing
<1>8. Checkpoints
  BY <1>0 DEF Checkpoints, NoCheckpoint, NoFrozen
<1> QED BY <1>3, <1>4, <1>5, <1>6, <1>7, <1>8 DEF DurableInv

\* Nothing happens.
LEMMA DurableStutter ==
    ASSUME DurableInv, UNCHANGED vars
    PROVE  DurableInv'
<1>1. UNCHANGED <<up, log, old, file, label, active, frozen, wal, wr, ck>>
  BY DEF vars
<1>2. Counted' /\ Exclusive' /\ InFlight' = InFlight /\ Acked' = Acked /\ (Syncing' <=> Syncing)
  BY <1>1, WritesStay
<1>3. Logs' /\ Closed' /\ Numbers' /\ OneSync'
  BY <1>1, <1>2 DEF DurableInv, Logs, Closed, Numbers, OneSync
<1>4. Flight'
  <2> SUFFICES ASSUME NEW v \in InFlight PROVE Flying(v)'
    BY <1>2 DEF Flight
  <2>1. Flying(v)
    BY DEF DurableInv, Flight
  <2>2. /\ Has(log, v)' <=> Has(log, v)
        /\ HasGood(log, v)' <=> HasGood(log, v)
        /\ Safe(log, v)' <=> Safe(log, v)
        /\ Safe(old.log, v)' <=> Safe(old.log, v)
    BY <1>1 DEF Has, HasGood, Safe
  <2> QED BY <1>1, <1>2, <2>1, <2>2 DEF Flying
<1>5. Checkpoints'
  BY <1>1 DEF DurableInv, Checkpoints, Mark, Copied
<1>6. LabelIsTrue' /\ Flushed' /\ AckedSurvive'
  BY <1>1, <1>2 DEF DurableInv, LabelIsTrue, Flushed, AckedSurvive, Holds, Over, Bound, get
<1> QED BY <1>2, <1>3, <1>4, <1>5, <1>6 DEF DurableInv

\* Every step.
LEMMA DurableNext ==
    ASSUME TypeOK, DurableInv, [Next]_vars
    PROVE  TypeOK' /\ DurableInv'
<1>1. ASSUME NEW w \in Writes, Writer(w) PROVE TypeOK' /\ DurableInv'
  <2>1. TypeOK'
    BY <1>1, TypeWriter
  <2> QED BY <1>1, <2>1, AppendStep, MoveStep, SyncOkStep, SyncFailsStep, ApplyStep DEF Writer
<1>2. CASE Checkpoint
  <2>1. CopyBounds
    BY DEF CopyBounds, DurableInv, Checkpoints, Mark, Copied
  <2>2. TypeOK'
    BY <1>2, <2>1, TypeCheckpoint
  <2> QED BY <1>2, <2>2, FlushSteps, CopyRestStep, CopySteps DEF Checkpoint
<1>3. CASE Machine
  <2>1. TypeOK'
    BY <1>3, TypeMachine
  <2> QED BY <1>3, <2>1, StopSteps, OpenStep DEF Machine
<1>4. CASE UNCHANGED vars
  <2>1. TypeOK'
    BY <1>4 DEF TypeOK, vars
  <2> QED BY <1>4, <2>1, DurableStutter
<1> QED BY <1>1, <1>2, <1>3, <1>4 DEF Next

\* The store's types and the invariant.
LEMMA Invariants == Spec => [](TypeOK /\ DurableInv)
<1>1. Init => TypeOK /\ DurableInv
  BY TypeInit, DurableInit
<1>2. TypeOK /\ DurableInv /\ [Next]_vars => (TypeOK /\ DurableInv)'
  BY DurableNext
<1> QED BY <1>1, <1>2, PTL DEF Spec

\* Every variable has its type, whatever is written, fails or is cut off.
THEOREM TypeCorrect == Spec => []TypeOK
<1> QED BY Invariants, PTL

\* checkpoint's label: no write is acknowledged under it and missing from the
\* index file, whatever fails between the freeze, the flush and the truncation.
THEOREM LabelTrue == Spec => []LabelIsTrue
<1>1. DurableInv => LabelIsTrue
  BY DEF DurableInv
<1> QED BY <1>1, Invariants, PTL

\* Durability: a store that is open has every acknowledged write, or a later
\* one, on each of its keys, after any sequence of kills, power cuts, failed
\* appends, syncs and checkpoints.
THEOREM AcksSurvive == Spec => []AckedSurvive
<1>1. DurableInv => AckedSurvive
  BY DEF DurableInv
<1> QED BY <1>1, Invariants, PTL

-----------------------------------------------------------------------------
(* A log that only a power cut can break.                                  *)

\* The last number of the first n records of the log, the label when there
\* are none.
EndOf(n) == IF n = 0 THEN label ELSE log[n].lsn

\* Numbers follow one another, from the label on, and only the last record
\* can be torn: by the append that failed, after which the log took no more.
Follows  == \A i \in 2..Len(log) : log[i].lsn = log[i - 1].lsn + 1
Reaches  == Len(log) > 0 => log[1].lsn <= label + 1 /\ label <= log[Len(log)].lsn
TornLast == \A i \in 1..Len(log) : log[i].on = "torn" =>
                /\ i = Len(log) /\ label < log[i].lsn /\ (up = "up" => wal.failed)
                /\ ck.st = "flush" => ck.lsn < log[i].lsn
NextIs   == up = "up" /\ ~wal.failed => wal.next = EndOf(Len(log)) + 1
MarkIs   == ck.st \in {"flush", "flushed", "copied"} => ck.lsn = EndOf(ck.len)
Unbroken == Follows /\ Reaches /\ TornLast /\ NextIs /\ MarkIs
OpensInv == ~faults.cut => Unbroken /\ up # "refused"

\* Such a log is not refused.
LEMMA UnbrokenOpens ==
    ASSUME TypeOK, Unbroken
    PROVE  /\ ~Damaged /\ WholeEnd \in 0..Len(log) /\ WholeEnd >= Len(log) - 1
           /\ WholeEnd < Len(log) => log[Len(log)].on = "torn"
<1>1. /\ Len(log) \in Nat /\ WholeEnd \in 0..Len(log) /\ \A i \in 1..WholeEnd : log[i].on # "torn"
      /\ WholeEnd < Len(log) => log[WholeEnd + 1].on = "torn"
  BY Types, Whole
<1>2. WholeEnd < Len(log) => WholeEnd + 1 = Len(log)
  <2> SUFFICES ASSUME WholeEnd < Len(log) PROVE WholeEnd + 1 = Len(log)
    OBVIOUS
  <2>1. WholeEnd + 1 \in 1..Len(log) /\ log[WholeEnd + 1].on = "torn"
    BY <1>1
  <2> QED BY <2>1 DEF Unbroken, TornLast
<1>3. ~\E i \in WholeEnd + 1 .. Len(log) : log[i].on # "torn"
  <2> SUFFICES ASSUME NEW i \in WholeEnd + 1 .. Len(log) PROVE log[i].on = "torn"
    OBVIOUS
  <2>1. WholeEnd < Len(log)
    BY <1>1
  <2>2. i = WholeEnd + 1
    BY <1>1, <1>2, <2>1
  <2> QED BY <1>1, <2>1, <2>2
<1>4. ~(WholeEnd > 0 /\ log[1].lsn > label + 1)
  <2> SUFFICES ASSUME WholeEnd > 0 PROVE ~(log[1].lsn > label + 1)
    OBVIOUS
  <2>1. Len(log) > 0 /\ 1 \in 1..Len(log)
    BY <1>1
  <2>2. log[1].lsn <= label + 1
    BY <2>1 DEF Unbroken, Reaches
  <2> QED BY <2>1, <2>2, Types
<1>5. ~\E i \in 2..WholeEnd : log[i].lsn # log[i - 1].lsn + 1
  <2>1. \A i \in 2..WholeEnd : i \in 2..Len(log)
    BY <1>1
  <2> QED BY <2>1 DEF Unbroken, Follows
<1>6. WholeEnd >= Len(log) - 1
  BY <1>1, <1>2
<1> QED BY <1>1, <1>2, <1>3, <1>4, <1>5, <1>6 DEF Damaged

\* A step that leaves the records their numbers, and tears none.
LEMMA ShapeStays ==
    ASSUME TypeOK, TypeOK', Unbroken, UNCHANGED label, Len(log') = Len(log),
           \A i \in 1..Len(log) : log'[i].lsn = log[i].lsn /\ (log'[i].on = "torn" => log[i].on = "torn"),
           up' = "up" => up = "up" /\ wal'.next = wal.next /\ (wal.failed => wal'.failed),
           \/ ck'.st \notin {"flush", "flushed", "copied"}
           \/ /\ ck.st \in {"flush", "flushed", "copied"} /\ ck'.lsn = ck.lsn /\ ck'.len = ck.len
              /\ ck.len <= Len(log) /\ (ck'.st = "flush" => ck.st = "flush")
           \/ up = "up" /\ ~wal.failed /\ ck'.lsn = wal.next - 1 /\ ck'.len = Len(log)
    PROVE  Unbroken'
<1>0. Len(log) \in Nat /\ label \in Nat /\ ck.len \in Nat /\ wal.next \in Nat
  BY Types
<1>1. Follows'
  <2> SUFFICES ASSUME NEW i \in 2..Len(log) PROVE log'[i].lsn = log'[i - 1].lsn + 1
    BY DEF Follows
  <2>1. i \in 1..Len(log) /\ i - 1 \in 1..Len(log)
    BY <1>0
  <2> QED BY <2>1 DEF Unbroken, Follows
<1>2. Reaches'
  <2> SUFFICES ASSUME Len(log) > 0
               PROVE  log'[1].lsn <= label + 1 /\ label <= log'[Len(log)].lsn
    BY DEF Reaches
  <2>1. 1 \in 1..Len(log) /\ Len(log) \in 1..Len(log)
    BY <1>0
  <2> QED BY <2>1 DEF Unbroken, Reaches
<1>3. \A n \in 0..Len(log) : EndOf(n)' = EndOf(n)
  <2> SUFFICES ASSUME NEW n \in 0..Len(log) PROVE EndOf(n)' = EndOf(n)
    OBVIOUS
  <2>1. n = 0 \/ n \in 1..Len(log)
    BY <1>0
  <2> QED BY <2>1 DEF EndOf
<1>4. Len(log) \in 0..Len(log)
  BY <1>0
<1>5. NextIs'
  BY <1>3, <1>4 DEF Unbroken, NextIs
<1>6. MarkIs'
  <2>1. CASE ck'.st \notin {"flush", "flushed", "copied"}
    BY <2>1 DEF MarkIs
  <2>2. CASE /\ ck.st \in {"flush", "flushed", "copied"} /\ ck'.lsn = ck.lsn /\ ck'.len = ck.len
             /\ ck.len <= Len(log)
    <3>1. ck.len \in 0..Len(log) /\ ck.lsn = EndOf(ck.len)
      BY <1>0, <2>2 DEF Unbroken, MarkIs
    <3>2. EndOf(ck.len)' = EndOf(ck.len)
      BY <1>3, <2>2, <3>1 DEF EndOf
    <3> QED BY <2>2, <3>1, <3>2 DEF MarkIs
  <2>3. CASE up = "up" /\ ~wal.failed /\ ck'.lsn = wal.next - 1 /\ ck'.len = Len(log)
    <3>1. wal.next = EndOf(Len(log)) + 1
      BY <2>3 DEF Unbroken, NextIs
    <3>2. EndOf(Len(log)) \in Nat
      <4>1. Len(log) = 0 \/ Len(log) \in 1..Len(log)
        BY <1>0
      <4> QED BY <4>1, Types DEF EndOf
    <3>3. ck'.lsn = EndOf(Len(log))
      BY <2>3, <3>1, <3>2
    <3>4. EndOf(ck.len)' = EndOf(Len(log))
      BY <1>3, <1>4, <2>3 DEF EndOf
    <3> QED BY <3>3, <3>4 DEF MarkIs
  <2> QED BY <2>1, <2>2, <2>3
<1>7. TornLast'
  <2> SUFFICES ASSUME NEW i \in 1..Len(log), log'[i].on = "torn"
               PROVE  /\ i = Len(log) /\ label < log'[i].lsn /\ (up' = "up" => wal'.failed)
                      /\ ck'.st = "flush" => ck'.lsn < log'[i].lsn
    BY DEF TornLast
  <2>1. /\ log[i].on = "torn" /\ i = Len(log) /\ label < log[i].lsn /\ (up = "up" => wal.failed)
        /\ ck.st = "flush" => ck.lsn < log[i].lsn
    BY DEF Unbroken, TornLast
  <2> QED BY <2>1
<1> QED BY <1>1, <1>2, <1>5, <1>6, <1>7 DEF Unbroken

\* A record appended, all of it or part.
LEMMA ShapeAppend ==
    ASSUME TypeOK, TypeOK', DurableInv, Unbroken, NEW w \in Writes, LogAppend(w) \/ WriteFails(w)
    PROVE  Unbroken'
<1>0. /\ UNCHANGED <<up, label, ck>> /\ up = "up" /\ ~wal.failed
      /\ Len(log) \in Nat /\ label \in Nat /\ ck.len \in Nat /\ wal.next \in Nat
  BY Types DEF LogAppend, WriteFails, Begins
<1>1. PICK on \in {"cache", "torn"}, st \in {"wrote", "failed"} :
         /\ log' = Append(log, Record(w, on))
         /\ wr' = [wr EXCEPT ![w].st = st, ![w].lsn = wal.next, ![w].nth = NextNth]
         /\ on = "torn" => wal'.failed
         /\ ~wal'.failed => wal'.next = wal.next + 1
  <2>1. CASE LogAppend(w)
    BY <2>1, Types DEF LogAppend, TypeOK, Counters
  <2>2. CASE WriteFails(w)
    <3>1. wal'.failed
      BY <2>2 DEF WriteFails, TypeOK, Counters
    <3> QED BY <2>2, <3>1 DEF WriteFails
  <2> QED BY <2>1, <2>2
<1>2. /\ Len(log') = Len(log) + 1 /\ log'[Len(log) + 1].lsn = wal.next /\ log'[Len(log) + 1].on = on
      /\ \A i \in 1..Len(log) : log'[i] = log[i]
  <2>1. /\ Len(log') = Len(log) + 1 /\ log'[Len(log) + 1] = Record(w, on)
        /\ \A i \in 1..Len(log) : log'[i] = log[i]
    BY <1>1, AppendType
  <2> QED BY <2>1 DEF Record
<1>3. /\ wal.next = EndOf(Len(log)) + 1 /\ label < wal.next
      /\ \A i \in 1..Len(log) : log[i].on # "torn"
  BY <1>0 DEF Unbroken, NextIs, TornLast, DurableInv, Numbers
<1>4. ck.st \in {"flush", "flushed", "copied"} => ck.len <= Len(log) /\ ck.lsn < wal.next
  BY DEF DurableInv, Checkpoints, Mark
<1>5. \A n \in 0..Len(log) : EndOf(n)' = EndOf(n)
  <2> SUFFICES ASSUME NEW n \in 0..Len(log) PROVE EndOf(n)' = EndOf(n)
    OBVIOUS
  <2>1. n = 0 \/ n \in 1..Len(log)
    BY <1>0
  <2> QED BY <1>0, <1>2, <2>1 DEF EndOf
<1>6. Follows'
  <2> SUFFICES ASSUME NEW i \in 2..Len(log') PROVE log'[i].lsn = log'[i - 1].lsn + 1
    BY DEF Follows
  <2>1. CASE i = Len(log) + 1
    <3>1. Len(log) # 0 /\ Len(log) \in 1..Len(log) /\ i - 1 = Len(log)
      BY <1>0, <2>1
    <3> QED BY <1>2, <1>3, <2>1, <3>1 DEF EndOf
  <2>2. CASE i # Len(log) + 1
    <3>1. i \in 2..Len(log) /\ i \in 1..Len(log) /\ i - 1 \in 1..Len(log)
      BY <1>0, <1>2, <2>2
    <3> QED BY <1>2, <3>1 DEF Unbroken, Follows
  <2> QED BY <2>1, <2>2
<1>7. Reaches'
  <2>1. log'[1].lsn <= label + 1
    <3>1. CASE Len(log) = 0
      BY <1>0, <1>2, <1>3, <3>1 DEF EndOf
    <3>2. CASE Len(log) # 0
      <4>1. Len(log) > 0 /\ 1 \in 1..Len(log)
        BY <1>0, <3>2
      <4> QED BY <1>2, <4>1 DEF Unbroken, Reaches
    <3> QED BY <3>1, <3>2
  <2>2. label <= log'[Len(log')].lsn
    BY <1>0, <1>2, <1>3
  <2> QED BY <1>0, <2>1, <2>2 DEF Reaches
<1>8. TornLast'
  <2> SUFFICES ASSUME NEW i \in 1..Len(log'), log'[i].on = "torn"
               PROVE  /\ i = Len(log') /\ label < log'[i].lsn /\ wal'.failed
                      /\ ck.st = "flush" => ck.lsn < log'[i].lsn
    BY <1>0 DEF TornLast
  <2>1. i = Len(log) + 1
    <3>1. ~(i \in 1..Len(log))
      BY <1>2, <1>3
    <3> QED BY <1>0, <1>2, <3>1
  <2> QED BY <1>1, <1>2, <1>3, <1>4, <2>1
<1>9. NextIs'
  <2>1. EndOf(Len(log))' = wal.next
    BY <1>0, <1>2 DEF EndOf
  <2> QED BY <1>1, <2>1 DEF NextIs
<1>10. MarkIs'
  <2> SUFFICES ASSUME ck.st \in {"flush", "flushed", "copied"} PROVE ck.lsn = EndOf(ck.len)'
    BY <1>0 DEF MarkIs
  <2>1. ck.len \in 0..Len(log) /\ ck.lsn = EndOf(ck.len)
    BY <1>0, <1>4 DEF Unbroken, MarkIs
  <2>2. EndOf(ck.len)' = EndOf(ck.len)
    BY <1>0, <1>5, <2>1 DEF EndOf
  <2> QED BY <2>1, <2>2
<1> QED BY <1>6, <1>7, <1>8, <1>9, <1>10 DEF Unbroken

\* The label moved up to the mark.
LEMMA ShapeFlush ==
    ASSUME TypeOK, TypeOK', DurableInv, Unbroken, Flush
    PROVE  Unbroken'
<1>0. /\ UNCHANGED <<up, log, wal>> /\ ck.st = "flush" /\ label' = ck.lsn
      /\ ck'.st = "flushed" /\ ck'.lsn = ck.lsn /\ ck'.len = ck.len
      /\ Len(log) \in Nat /\ label \in Nat /\ ck.len \in Nat /\ ck.lsn \in Nat
  BY Types DEF Flush, Checkpointing, TypeOK, Steps
<1>1. ck.len <= Len(log) /\ label <= ck.lsn /\ ck.lsn = EndOf(ck.len)
  BY <1>0 DEF DurableInv, Checkpoints, Mark, Unbroken, MarkIs
<1>2. Follows'
  BY <1>0 DEF Unbroken, Follows
<1>3. ck.len # 0 => ck.len \in 1..Len(log) /\ ck.lsn = log[ck.len].lsn
  BY <1>0, <1>1 DEF EndOf
<1>4. Len(log) > 0 => ck.lsn <= log[Len(log)].lsn
  <2> SUFFICES ASSUME Len(log) > 0 PROVE ck.lsn <= log[Len(log)].lsn
    OBVIOUS
  <2>1. CASE ck.len = 0
    BY <1>1, <2>1 DEF EndOf, Unbroken, Reaches
  <2>2. CASE ck.len = Len(log)
    <3>1. Len(log) \in 1..Len(log)
      BY <1>0
    <3> QED BY <1>0, <1>3, <2>2, <3>1, Types
  <2>3. CASE ck.len # 0 /\ ck.len # Len(log)
    <3>1. ck.len < Len(log) /\ Len(log) \in 1..Len(log) /\ ck.len \in 1..Len(log)
      BY <1>0, <1>1, <1>3, <2>3
    <3>2. log[ck.len].lsn < log[Len(log)].lsn
      BY <3>1 DEF DurableInv, Logs, LogInv, Ordered
    <3> QED BY <1>3, <2>3, <3>1, <3>2, Types
  <2> QED BY <2>1, <2>2, <2>3
<1>5. Reaches'
  <2> SUFFICES ASSUME Len(log) > 0 PROVE log[1].lsn <= ck.lsn + 1 /\ ck.lsn <= log[Len(log)].lsn
    BY <1>0 DEF Reaches
  <2>1. log[1].lsn <= label + 1 /\ 1 \in 1..Len(log)
    BY <1>0 DEF Unbroken, Reaches
  <2>2. log[1].lsn \in Nat
    BY <2>1, Types
  <2> QED BY <1>0, <1>1, <1>4, <2>1, <2>2
<1>6. TornLast'
  BY <1>0 DEF Unbroken, TornLast
<1>7. NextIs'
  <2>1. EndOf(Len(log))' = EndOf(Len(log))
    <3>1. CASE Len(log) = 0
      <4>1. ck.len = 0
        BY <1>0, <1>1, <3>1
      <4> QED BY <1>0, <1>1, <3>1, <4>1 DEF EndOf
    <3>2. CASE Len(log) # 0
      BY <1>0, <3>2 DEF EndOf
    <3> QED BY <3>1, <3>2
  <2> QED BY <1>0, <2>1 DEF Unbroken, NextIs
<1>8. MarkIs'
  BY <1>0, <1>1 DEF MarkIs, EndOf
<1> QED BY <1>2, <1>5, <1>6, <1>7, <1>8 DEF Unbroken

\* The log cut up to the mark.
LEMMA ShapeCopy ==
    ASSUME TypeOK, TypeOK', DurableInv, Unbroken, CopyRest
    PROVE  Unbroken'
<1>0. /\ UNCHANGED <<up, label, wal>> /\ up = "up" /\ ~wal.failed /\ ck.st = "copied"
      /\ ck'.st = "renamed" /\ Len(log) \in Nat /\ label \in Nat /\ ck.len \in Nat
      /\ ck.lsn = EndOf(ck.len) /\ ck.lsn = label
  BY Types DEF CopyRest, Checkpointing, volatile, TypeOK, Steps, Unbroken, MarkIs, DurableInv, Checkpoints
<1>1. /\ Part(log, log', ck.len) /\ ck.len + Len(log') = Len(log)
      /\ \A i \in 1..Len(log') : log'[i].on = "disk"
  BY CopiedLog
<1>2. Len(log') \in Nat /\ \A i \in 1..Len(log') : /\ ck.len + i \in 1..Len(log)
                                                  /\ log'[i].lsn = log[ck.len + i].lsn
  <2>1. Len(log') \in Nat
    BY <1>1, SlotType DEF Part
  <2> QED BY <1>0, <1>1, <2>1 DEF Part
<1>3. Follows'
  <2> SUFFICES ASSUME NEW i \in 2..Len(log') PROVE log'[i].lsn = log'[i - 1].lsn + 1
    BY DEF Follows
  <2>1. i \in 1..Len(log') /\ i - 1 \in 1..Len(log') /\ ck.len + (i - 1) = (ck.len + i) - 1
    BY <1>0, <1>2
  <2>2. ck.len + i \in 2..Len(log)
    BY <1>0, <1>2, <2>1
  <2>3. log[ck.len + i].lsn = log[(ck.len + i) - 1].lsn + 1
    BY <2>2 DEF Unbroken, Follows
  <2> QED BY <1>2, <2>1, <2>3
<1>4. Reaches'
  <2> SUFFICES ASSUME Len(log') > 0
               PROVE  log'[1].lsn <= label + 1 /\ label <= log'[Len(log')].lsn
    BY <1>0 DEF Reaches
  <2>1. 1 \in 1..Len(log') /\ Len(log') \in 1..Len(log') /\ Len(log) > 0
    BY <1>0, <1>1, <1>2
  <2>2. log'[1].lsn = log[ck.len + 1].lsn /\ log'[Len(log')].lsn = log[Len(log)].lsn
    BY <1>1, <1>2, <2>1
  <2>3. log[1].lsn <= label + 1 /\ label <= log[Len(log)].lsn
    BY <2>1 DEF Unbroken, Reaches
  <2>4. log[ck.len + 1].lsn <= label + 1
    <3>1. CASE ck.len = 0
      BY <2>3, <3>1
    <3>2. CASE ck.len # 0
      <4>1. ck.len + 1 \in 2..Len(log) /\ (ck.len + 1) - 1 = ck.len
        BY <1>0, <1>1, <1>2, <2>1, <3>2
      <4>2. log[ck.len + 1].lsn = log[ck.len].lsn + 1
        BY <4>1 DEF Unbroken, Follows
      <4>3. log[ck.len].lsn = label
        BY <1>0, <3>2 DEF EndOf
      <4> QED BY <1>0, <4>2, <4>3
    <3> QED BY <3>1, <3>2
  <2> QED BY <2>2, <2>3, <2>4
<1>5. TornLast'
  BY <1>1 DEF TornLast
<1>6. NextIs'
  <2>1. wal.next = EndOf(Len(log)) + 1
    BY <1>0 DEF Unbroken, NextIs
  <2>2. EndOf(Len(log))' = EndOf(Len(log))
    <3>1. CASE Len(log') = 0
      <4>1. Len(log) = ck.len
        BY <1>0, <1>1, <3>1
      <4> QED BY <1>0, <3>1, <4>1 DEF EndOf
    <3>2. CASE Len(log') # 0
      <4>1. Len(log') \in 1..Len(log') /\ Len(log) # 0
        BY <1>0, <1>1, <1>2, <3>2
      <4>2. log'[Len(log')].lsn = log[Len(log)].lsn
        BY <1>1, <1>2, <4>1
      <4> QED BY <3>2, <4>1, <4>2 DEF EndOf
    <3> QED BY <3>1, <3>2
  <2> QED BY <1>0, <2>1, <2>2 DEF NextIs
<1>7. MarkIs'
  BY <1>0 DEF MarkIs
<1> QED BY <1>3, <1>4, <1>5, <1>6, <1>7 DEF Unbroken

\* A log opened.
LEMMA ShapeOpen ==
    ASSUME TypeOK, TypeOK', DurableInv, Unbroken, Open
    PROVE  Unbroken'
<1>0. /\ UNCHANGED <<label, ck>> /\ ck.st = "idle" /\ Len(log) \in Nat /\ label \in Nat
      /\ log \in Seq(Slot)
  BY Types DEF Open, DurableInv, Closed, NoCheckpoint
<1>1. /\ WholeEnd \in 0..Len(log) /\ WholeEnd >= Len(log) - 1
      /\ WholeEnd < Len(log) => log[Len(log)].on = "torn"
  BY UnbrokenOpens
<1>2. /\ Len(log') = WholeEnd
      /\ \A i \in 1..Len(log') : log'[i].on # "torn" /\ log'[i].lsn = log[i].lsn
  <2>1. /\ Part(log, log', 0) /\ Len(log') = WholeEnd /\ \A i \in 1..Len(log') : log'[i].on # "torn"
    BY <1>0, OpenedLog
  <2>2. \A i \in 1..Len(log') : 0 + i = i
    BY <1>1, <2>1
  <2> QED BY <2>1, <2>2 DEF Part
<1>3. Follows'
  <2> SUFFICES ASSUME NEW i \in 2..Len(log') PROVE log'[i].lsn = log'[i - 1].lsn + 1
    BY DEF Follows
  <2>1. i \in 1..Len(log') /\ i - 1 \in 1..Len(log') /\ i \in 2..Len(log)
    BY <1>0, <1>1, <1>2
  <2> QED BY <1>2, <2>1 DEF Unbroken, Follows
<1>4. Len(log') > 0 => /\ log[1].lsn <= label + 1 /\ label <= log[WholeEnd].lsn
                       /\ WholeEnd \in 1..Len(log)
  <2> SUFFICES ASSUME Len(log') > 0
               PROVE  /\ log[1].lsn <= label + 1 /\ label <= log[WholeEnd].lsn
                      /\ WholeEnd \in 1..Len(log)
    OBVIOUS
  <2>1. WholeEnd \in 1..Len(log) /\ Len(log) > 0 /\ 1 \in 1..Len(log) /\ Len(log) \in 1..Len(log)
    BY <1>0, <1>1, <1>2
  <2>2. log[1].lsn <= label + 1 /\ label <= log[Len(log)].lsn
    BY <2>1 DEF Unbroken, Reaches
  <2>3. CASE WholeEnd = Len(log)
    BY <2>1, <2>2, <2>3
  <2>4. CASE WholeEnd < Len(log)
    <3>1. Len(log) \in 2..Len(log) /\ Len(log) - 1 = WholeEnd
      BY <1>0, <1>1, <2>1, <2>4
    <3>2. log[Len(log)].lsn = log[WholeEnd].lsn + 1
      BY <3>1 DEF Unbroken, Follows
    <3>3. label < log[Len(log)].lsn
      BY <1>1, <2>1, <2>4 DEF Unbroken, TornLast
    <3>4. log[WholeEnd].lsn \in Nat
      BY <2>1, Types
    <3> QED BY <1>0, <2>1, <2>2, <3>2, <3>3, <3>4
  <2> QED BY <1>0, <1>1, <2>3, <2>4
<1>5. Reaches'
  <2> SUFFICES ASSUME Len(log') > 0
               PROVE  log'[1].lsn <= label + 1 /\ label <= log'[Len(log')].lsn
    BY <1>0 DEF Reaches
  <2>1. 1 \in 1..Len(log') /\ Len(log') \in 1..Len(log')
    BY <1>1, <1>2
  <2> QED BY <1>2, <1>4, <2>1
<1>6. TornLast' /\ MarkIs'
  BY <1>0, <1>2 DEF TornLast, MarkIs
<1>7. NextIs'
  <2>1. wal'.next = Larger(Last, label) + 1
    BY DEF Open, advance_past
  <2>2. Larger(Last, label) = EndOf(Len(log))'
    <3>1. CASE Len(log') = 0
      <4>1. Last = 0 /\ EndOf(Len(log))' = label
        BY <1>0, <1>2, <3>1 DEF Last, EndOf
      <4> QED BY <1>0, <4>1 DEF Larger
    <3>2. CASE Len(log') # 0
      <4>1. Len(log') > 0 /\ WholeEnd # 0 /\ WholeEnd \in 1..Len(log')
        BY <1>0, <1>1, <1>2, <3>2
      <4>2. Last = log[WholeEnd].lsn /\ EndOf(Len(log))' = log[WholeEnd].lsn /\ label <= Last
        BY <1>2, <1>4, <3>2, <4>1 DEF Last, EndOf
      <4>3. Last \in Nat
        BY <1>4, <4>1, <4>2, Types
      <4> QED BY <1>0, <4>2, <4>3 DEF Larger
    <3> QED BY <3>1, <3>2
  <2> QED BY <2>1, <2>2 DEF NextIs
<1> QED BY <1>3, <1>5, <1>6, <1>7 DEF Unbroken

\* A write's steps, without a power cut.
LEMMA OpensWriter ==
    ASSUME TypeOK, TypeOK', DurableInv, Unbroken, up # "refused", NEW w \in Writes, Writer(w)
    PROVE  Unbroken' /\ up' # "refused"
<1>0. UNCHANGED <<up, label, ck>>
  BY DEF Writer, LogAppend, Refuses, NoRoom, WriteFails, Covered, TakeHandle, SyncOk, SyncFails, Apply,
         durable
<1>1. ck.st \in {"flush", "flushed", "copied"} => ck.len <= Len(log)
  BY DEF DurableInv, Checkpoints, Mark
<1>2. CASE LogAppend(w) \/ WriteFails(w)
  BY <1>0, <1>2, ShapeAppend
<1>3. ASSUME Len(log') = Len(log), wal'.next = wal.next, wal.failed => wal'.failed,
             \A i \in 1..Len(log) : /\ log'[i].lsn = log[i].lsn
                                    /\ log'[i].on = "torn" => log[i].on = "torn"
      PROVE  Unbroken'
  BY <1>0, <1>1, <1>3, ShapeStays
<1>4. CASE Refuses(w) \/ NoRoom(w) \/ Covered(w) \/ TakeHandle(w) \/ Apply(w)
  <2>1. UNCHANGED <<log, wal>>
    BY <1>4 DEF Refuses, NoRoom, Covered, TakeHandle, Apply, durable, volatile
  <2> QED BY <1>0, <1>3, <2>1
<1>5. CASE SyncOk(w)
  <2>1. wal'.next = wal.next /\ wal'.failed = wal.failed
    BY <1>5 DEF SyncOk, TypeOK, Counters
  <2>2. log' = Synced(log, wr[w].covers)
    BY <1>5 DEF SyncOk, Synced
  <2>3. /\ Part(log, log', 0) /\ Len(log') = Len(log)
        /\ \A i \in 1..Len(log) : log'[i].on = "torn" => log[i].on = "torn"
    BY <2>2, SyncedLog, Types
  <2>4. \A i \in 1..Len(log) : log'[i].lsn = log[i].lsn
    BY <2>3, Types DEF Part
  <2> QED BY <1>0, <1>3, <2>1, <2>3, <2>4
<1>6. CASE SyncFails(w)
  <2>1. wal'.next = wal.next /\ wal'.failed
    BY <1>6 DEF SyncFails, TypeOK, Counters
  <2>2. PICK S : log' = Spoiled(log, S)
    BY <1>6 DEF SyncFails, Spoiled
  <2>3. /\ Part(log, log', 0) /\ Len(log') = Len(log)
        /\ \A i \in 1..Len(log) : log'[i].on = "torn" => log[i].on = "torn"
    BY <2>2, SpoiledLog, Types
  <2>4. \A i \in 1..Len(log) : log'[i].lsn = log[i].lsn
    BY <2>3, Types DEF Part
  <2> QED BY <1>0, <1>3, <2>1, <2>3, <2>4
<1> QED BY <1>0, <1>2, <1>4, <1>5, <1>6 DEF Writer

\* A checkpoint's steps.
LEMMA OpensCheckpoint ==
    ASSUME TypeOK, TypeOK', DurableInv, Unbroken, up # "refused", Checkpoint
    PROVE  Unbroken' /\ up' # "refused"
<1>0. UNCHANGED up
  BY DEF Checkpoint, FlushLeftover, Freeze, Flush, CopyFirst, CopyRest, DirSynced, DirSyncFails, GivesUp
<1>1. ck.st \in {"flush", "flushed", "copied"} => ck.len <= Len(log)
  BY DEF DurableInv, Checkpoints, Mark
<1>2. ASSUME UNCHANGED <<log, label>>, wal'.next = wal.next, wal.failed => wal'.failed,
             \/ ck'.st \notin {"flush", "flushed", "copied"}
             \/ /\ ck.st \in {"flush", "flushed", "copied"} /\ ck'.lsn = ck.lsn /\ ck'.len = ck.len
                /\ ck'.st = "flush" => ck.st = "flush"
             \/ up = "up" /\ ~wal.failed /\ ck'.lsn = wal.next - 1 /\ ck'.len = Len(log)
      PROVE  Unbroken'
  BY <1>0, <1>1, <1>2, ShapeStays
<1>3. CASE Flush
  BY <1>0, <1>3, ShapeFlush
<1>4. CASE CopyRest
  BY <1>0, <1>4, ShapeCopy
<1>5. CASE FlushLeftover
  <2>1. UNCHANGED <<log, label, wal, ck>> /\ ck.st = "idle"
    BY <1>5 DEF FlushLeftover, Checkpointing
  <2> QED BY <1>0, <1>2, <2>1
<1>6. CASE Freeze
  <2>1. UNCHANGED <<log, label, wal>> /\ up = "up" /\ ~wal.failed
    BY <1>6 DEF Freeze, Checkpointing, durable
  <2>2. ck'.lsn = wal.next - 1 /\ ck'.len = Len(log)
    BY <1>6 DEF Freeze, NoCheckpoint
  <2> QED BY <1>0, <1>2, <2>1, <2>2
<1>7. CASE CopyFirst
  <2>1. UNCHANGED <<log, label, wal>> /\ ck.st = "flushed"
    BY <1>7 DEF CopyFirst, Checkpointing, durable, volatile
  <2>2. ck'.st = "copied" /\ ck'.lsn = ck.lsn /\ ck'.len = ck.len
    BY <1>7 DEF CopyFirst, TypeOK, Steps
  <2> QED BY <1>0, <1>2, <2>1, <2>2
<1>8. CASE DirSynced \/ DirSyncFails
  <2>1. UNCHANGED <<log, label>> /\ ck'.st = "idle"
    BY <1>8 DEF DirSynced, DirSyncFails, durable, NoCheckpoint
  <2>2. wal'.next = wal.next /\ (wal.failed => wal'.failed)
    <3>1. CASE DirSynced
      BY <3>1 DEF DirSynced, TypeOK, Counters
    <3>2. CASE DirSyncFails
      BY <3>2 DEF DirSyncFails, TypeOK, Counters
    <3> QED BY <1>8, <3>1, <3>2
  <2> QED BY <1>0, <1>2, <2>1, <2>2
<1>9. CASE GivesUp
  <2>1. UNCHANGED <<log, label, wal>> /\ ck'.st = "idle"
    BY <1>9 DEF GivesUp, durable, volatile, NoCheckpoint
  <2> QED BY <1>0, <1>2, <2>1
<1> QED BY <1>3, <1>4, <1>5, <1>6, <1>7, <1>8, <1>9 DEF Checkpoint

\* A fault recorded stays so, and a power cut is recorded.
LEMMA CutStays ==
    ASSUME TypeOK, [Next]_vars
    PROVE  /\ faults.cut => faults'.cut
           /\ PowerCut => faults'.cut
<1>1. ASSUME NEW kind, Fault(kind)
      PROVE  (faults.cut => faults'.cut) /\ (kind = "power" => faults'.cut)
  BY <1>1 DEF Fault
<1>2. PowerCut => (faults.cut => faults'.cut) /\ faults'.cut
  BY <1>1 DEF PowerCut
<1> SUFFICES faults.cut => faults'.cut
  BY <1>2
<1>3. ASSUME NEW w \in Writes, Writer(w) PROVE faults.cut => faults'.cut
  BY <1>1, <1>3 DEF Writer, LogAppend, Refuses, NoRoom, WriteFails, Covered, TakeHandle, SyncOk, SyncFails,
                    Apply
<1>4. CASE Checkpoint
  <2>1. CASE DirSyncFails \/ GivesUp
    BY <1>1, <2>1 DEF DirSyncFails, GivesUp
  <2>2. CASE FlushLeftover \/ Freeze \/ Flush
    BY <2>2 DEF FlushLeftover, Freeze, Flush
  <2>3. CASE CopyFirst \/ CopyRest \/ DirSynced
    BY <2>3 DEF CopyFirst, CopyRest, DirSynced
  <2> QED BY <1>4, <2>1, <2>2, <2>3 DEF Checkpoint
<1>5. CASE Machine
  <2>1. CASE Kill
    BY <1>1, <2>1 DEF Kill
  <2>2. CASE Open \/ OpenRefused
    BY <2>2 DEF Open, OpenRefused
  <2> QED BY <1>2, <1>5, <2>1, <2>2 DEF Machine
<1>6. CASE UNCHANGED vars
  BY <1>6 DEF vars
<1> QED BY <1>2, <1>3, <1>4, <1>5, <1>6 DEF Next

\* Every step.
LEMMA OpensNext ==
    ASSUME TypeOK, TypeOK', DurableInv, OpensInv, [Next]_vars
    PROVE  OpensInv'
<1> SUFFICES ASSUME ~faults'.cut PROVE Unbroken' /\ up' # "refused"
  BY DEF OpensInv
<1>1. Unbroken /\ up # "refused" /\ ~PowerCut
  BY CutStays DEF OpensInv
<1>2. ASSUME NEW w \in Writes, Writer(w) PROVE Unbroken' /\ up' # "refused"
  BY <1>1, <1>2, OpensWriter
<1>3. CASE Checkpoint
  BY <1>1, <1>3, OpensCheckpoint
<1>4. CASE Kill
  <2>1. UNCHANGED <<log, label>> /\ up' = "down" /\ ck' = NoCheckpoint
    BY <1>4 DEF Kill, Stops, durable
  <2>2. ck'.st = "idle"
    BY <2>1 DEF NoCheckpoint
  <2> QED BY <1>1, <2>1, <2>2, ShapeStays
<1>5. CASE Open
  <2>1. up' = "up"
    BY <1>5 DEF Open
  <2> QED BY <1>1, <1>5, <2>1, ShapeOpen
<1>6. CASE OpenRefused
  BY <1>1, <1>6, UnbrokenOpens DEF OpenRefused
<1>7. CASE UNCHANGED vars
  BY <1>1, <1>7 DEF vars, Unbroken, Follows, Reaches, TornLast, NextIs, MarkIs, EndOf
<1> QED BY <1>1, <1>2, <1>3, <1>4, <1>5, <1>6, <1>7 DEF Next, Machine

\* open_replaying: failed appends and syncs, checkpoints given up at any step
\* and killed processes, without a power cut, never leave a log that the next
\* open refuses.
THEOREM OnlyPowerCutsRefuse == Spec => []RefusedOnlyAfterPowerCut
<1>1. Init => OpensInv
  <2> SUFFICES ASSUME Init PROVE Unbroken /\ up # "refused"
    BY DEF OpensInv
  <2>1. /\ Len(log) = 0 /\ 1..Len(log) = {} /\ 2..Len(log) = {} /\ label = 0 /\ wal.next = 1
        /\ ck.st = "idle" /\ up = "up"
    BY EmptySeq DEF Init, Fresh, NoCheckpoint
  <2>2. EndOf(Len(log)) = 0
    BY <2>1 DEF EndOf
  <2> QED BY <2>1, <2>2 DEF Unbroken, Follows, Reaches, TornLast, NextIs, MarkIs
<1>2. TypeOK /\ TypeOK' /\ DurableInv /\ OpensInv /\ [Next]_vars => OpensInv'
  BY OpensNext
<1>3. OpensInv => RefusedOnlyAfterPowerCut
  BY DEF OpensInv, RefusedOnlyAfterPowerCut
<1> QED BY <1>1, <1>2, <1>3, Invariants, PTL DEF Spec

=============================================================================
