-------------------------- MODULE PageCacheProofs ---------------------------
(***************************************************************************)
(* Theorems about PageCache and its history, for every set of files, every *)
(* set of writes and truncations and every capacity.                       *)
(***************************************************************************)
EXTENDS PageCacheHistory, SequenceTheorems, FiniteSetTheorems, WellFoundedInduction, TLAPS

(* The edits of a buffer of bytes are buffers of bytes. *)
LEMMA ResizeType ==
  ASSUME NEW s \in Seq(Byte), NEW n \in Nat
  PROVE  Resize(s, n) \in Seq(Byte) /\ Len(Resize(s, n)) = n
BY ByteAssumption DEF Resize

LEMMA OverlayType ==
  ASSUME NEW s \in Seq(Byte), NEW off \in Nat, NEW d \in Seq(Byte)
  PROVE  /\ Overlay(s, off, d) \in Seq(Byte)
         /\ Len(Overlay(s, off, d)) = Larger(Len(s), off + Len(d))
<1> DEFINE n == Larger(Len(s), off + Len(d))
<1>1. n \in Nat /\ n >= off + Len(d)
  BY DEF Larger
<1>2. \A k \in 1..n : (off < k /\ k <= off + Len(d)) => d[k - off] \in Byte
  OBVIOUS
<1>3. \A k \in 1..n : k <= Len(s) => s[k] \in Byte
  OBVIOUS
<1>4. Overlay(s, off, d) \in [1..n -> Byte]
  BY <1>2, <1>3, ByteAssumption DEF Overlay
<1> QED BY <1>1, <1>4

(* Removing an id from the queue, or moving it to the back, leaves a queue. *)
LEMMA QueueType ==
  ASSUME NEW l \in Seq(File), NEW f \in File
  PROVE  Without(l, f) \in Seq(File) /\ Touch(l, f) \in Seq(File)
<1>1. Without(l, f) \in Seq(File)
  <2>1. CASE \E k \in 1..Len(l) : l[k] = f
    <3> DEFINE p == CHOOSE k \in 1..Len(l) : l[k] = f
    <3>1. p \in 1..Len(l)
      BY <2>1
    <3> HIDE DEF p
    <3>2. SubSeq(l, 1, p - 1) \in Seq(File)
      BY <3>1, SubSeqProperties
    <3>3. SubSeq(l, p + 1, Len(l)) \in Seq(File)
      BY <3>1, SubSeqProperties
    <3> QED BY <2>1, <3>2, <3>3 DEF Without, p
  <2>2. CASE ~ \E k \in 1..Len(l) : l[k] = f
    BY <2>2 DEF Without
  <2> QED BY <2>1, <2>2
<1> QED BY <1>1 DEF Touch

(* What is popped from the queue leaves a queue. *)
LEMMA PoppedType ==
  ASSUME lru \in Seq(File), NEW k \in 1..Len(lru)
  PROVE  Popped(k) \in Seq(File) /\ lru[k] \in File
BY DEF Popped

(* The bytes a file has, and those a failed load leaves an edit with. *)
LEMMA CurrentType ==
  ASSUME TypeOK, NEW f \in File
  PROVE  Current(f) \in Seq(Byte) /\ Durable(f) \in Seq(Byte)
BY DEF TypeOK, Current, Durable, IsMap, Entry

(* Errors are counted. *)
LEMMA FaultType ==
  ASSUME faults \in Nat
  PROVE  Fault => faults' \in Nat /\ faults' > 0
BY DEF Fault

(* A flush of a registered file's buffer saves bytes and a size. *)
LEMMA FlushType ==
  ASSUME TypeOK, NEW f \in DOMAIN cache, FlushSaves(f) \/ FlushErrs(f)
  PROVE  /\ IsMap(saved', File, Seq(Byte))
         /\ IsMap(meta', File, Nat)
         /\ DOMAIN meta \subseteq DOMAIN meta'
         /\ DOMAIN saved' \subseteq DOMAIN meta'
         /\ faults' \in Nat
<1>1. f \in File /\ cache[f] \in Entry /\ f \in DOMAIN size
  BY DEF TypeOK, IsMap
<1>2. cache[f].data \in Seq(Byte) /\ size[f] \in Nat
  BY <1>1 DEF TypeOK, IsMap, Entry
<1>3. /\ IsMap(Put(saved, f, cache[f].data), File, Seq(Byte))
      /\ DOMAIN Put(saved, f, cache[f].data) \subseteq DOMAIN meta
  BY <1>1, <1>2 DEF TypeOK, IsMap, Put
<1>4. /\ IsMap(Put(meta, f, size[f]), File, Nat)
      /\ DOMAIN meta \subseteq DOMAIN Put(meta, f, size[f])
  BY <1>1, <1>2 DEF TypeOK, IsMap, Put
<1>5. CASE FlushSaves(f)
  BY <1>3, <1>4, <1>5 DEF FlushSaves, TypeOK
<1>6. CASE FlushErrs(f)
  BY <1>3, <1>4, <1>6, FaultType DEF FlushErrs, TypeOK
<1> QED BY <1>5, <1>6

(* Marking a flushed buffer clean keeps the cache a cache. *)
LEMMA CleanedType ==
  ASSUME TypeOK, NEW f \in DOMAIN cache
  PROVE  LET c == Put(cache, f, Clean(cache[f].data))
         IN IsMap(c, File, Entry) /\ DOMAIN c = DOMAIN cache
<1>1. f \in File /\ cache[f] \in Entry
  BY DEF TypeOK, IsMap
<1>2. Clean(cache[f].data) \in Entry
  BY <1>1 DEF Entry, Clean
<1> QED BY <1>1, <1>2 DEF TypeOK, IsMap, Put

-----------------------------------------------------------------------------
(* Type correctness, action by action.                                     *)

LEMMA CreateTypes ==
  ASSUME TypeOK, NEW f \in File, Create(f)
  PROVE  TypeOK'
<1>1. /\ IsMap(Put(meta, f, 0), File, Nat)
      /\ IsMap(Put(size, f, 0), File, Nat)
      /\ DOMAIN Put(meta, f, 0) = DOMAIN meta \cup {f}
      /\ DOMAIN Put(size, f, 0) = DOMAIN size \cup {f}
  BY DEF TypeOK, IsMap, Put
<1>2. /\ IsMap(Put(saved, f, <<>>), File, Seq(Byte))
      /\ DOMAIN Put(saved, f, <<>>) = DOMAIN saved \cup {f}
  BY DEF TypeOK, IsMap, Put
<1>3. faults' \in Nat
  BY FaultType DEF Create, TypeOK
<1>4. IsMap(meta', File, Nat) /\ IsMap(size', File, Nat) /\ IsMap(saved', File, Seq(Byte))
  BY <1>1, <1>2 DEF Create, TypeOK
<1>5. /\ live' \subseteq DOMAIN meta' /\ DOMAIN size' \subseteq DOMAIN meta'
      /\ DOMAIN size \subseteq DOMAIN size' /\ DOMAIN saved' \subseteq DOMAIN meta'
  BY <1>1, <1>2 DEF Create, TypeOK
<1> QED BY <1>3, <1>4, <1>5 DEF Create, TypeOK

(* An answer is a buffer of bytes, or none. *)
LEMMA AnswerType ==
  ASSUME TypeOK, NEW f \in File, Answer(f, cache)
  PROVE  reply' \in DataReply
<1>1. <<>> \in Seq(Byte)
  OBVIOUS
<1>2. f \in DOMAIN cache => cache[f].data \in Seq(Byte)
  BY DEF TypeOK, IsMap, Entry
<1> QED BY <1>1, <1>2 DEF Answer, Reply, DataReply

LEMMA ReadTypes ==
  ASSUME TypeOK, NEW f \in File, ReadHit(f) \/ ReadMiss(f) \/ ReadFails(f)
  PROVE  TypeOK'
<1>1. CASE ReadHit(f)
  <2>1. lru' \in Seq(File)
    BY <1>1, QueueType DEF ReadHit, TypeOK
  <2>2. cache[f].data \in Seq(Byte)
    BY <1>1 DEF ReadHit, TypeOK, IsMap, Entry
  <2>3. reply' \in DataReply
    BY <1>1, <2>2 DEF ReadHit, Answer, Reply, DataReply
  <2> QED BY <1>1, <2>1, <2>3 DEF ReadHit, TypeOK
<1>2. CASE ReadMiss(f)
  <2>1. Clean(saved[f]) \in Entry
    BY <1>2 DEF ReadMiss, TypeOK, IsMap, Entry, Clean
  <2>2. IsMap(cache', File, Entry) /\ DOMAIN cache' = DOMAIN cache \cup {f}
    BY <1>2, <2>1 DEF ReadMiss, TypeOK, IsMap, Put
  <2>3. job' \in EvictJob
    BY <1>2 DEF ReadMiss, Evicting, EvictJob
  <2> QED BY <1>2, <2>2, <2>3 DEF ReadMiss, TypeOK
<1>3. CASE ReadFails(f)
  <2>1. reply' \in DataReply
    BY <1>3 DEF ReadFails, Reply, DataReply
  <2>2. faults' \in Nat
    BY <1>3, FaultType DEF ReadFails, TypeOK
  <2> QED BY <1>3, <2>1, <2>2 DEF ReadFails, TypeOK
<1> QED BY <1>1, <1>2, <1>3

(* What an edit starts from is a buffer of bytes. *)
LEMMA LoadedType ==
  ASSUME TypeOK, NEW f \in File, NEW base, Loaded(f, base)
  PROVE  base \in Seq(Byte) /\ faults' \in Nat
<1>1. <<>> \in Seq(Byte) /\ Current(f) \in Seq(Byte) /\ faults \in Nat
  BY CurrentType DEF TypeOK
<1> QED BY <1>1, FaultType DEF Loaded

LEMMA EditTypes ==
  ASSUME TypeOK, NEW f \in File, f \in DOMAIN size, NEW d \in Seq(Byte),
         cache' = Put(cache, f, Dirty(d)),
         lru' = Touch(lru, f),
         NEW op \in {"write", "truncate"}, NEW end \in Nat,
         job' = Evicting(op, f, end),
         reply' = NoReply, faults' \in Nat,
         UNCHANGED <<size, saved, meta, live>>
  PROVE  TypeOK'
<1>1. Dirty(d) \in Entry
  BY DEF Dirty, Entry
<1>2. IsMap(cache', File, Entry) /\ DOMAIN cache' = DOMAIN cache \cup {f}
  BY <1>1 DEF TypeOK, IsMap, Put
<1>3. lru' \in Seq(File)
  BY QueueType DEF TypeOK
<1>4. job' \in EvictJob
  BY DEF Evicting, EvictJob
<1> QED BY <1>2, <1>3, <1>4 DEF TypeOK

LEMMA WriteTypes ==
  ASSUME TypeOK, NEW f \in File, NEW off \in 0..MaxLen, NEW d \in Writes, Write(f, off, d)
  PROVE  TypeOK'
<1>1. d \in Seq(Byte) /\ off \in Nat /\ off + Len(d) \in Nat
  BY WritesAssumption, BoundAssumption
<1>2. PICK base : Loaded(f, base) /\ cache' = Put(cache, f, Dirty(Overlay(base, off, d)))
  BY DEF Write
<1>3. Overlay(base, off, d) \in Seq(Byte) /\ faults' \in Nat
  BY <1>1, <1>2, LoadedType, OverlayType
<1> QED BY <1>1, <1>2, <1>3, EditTypes DEF Write

LEMMA TruncateTypes ==
  ASSUME TypeOK, NEW f \in File, NEW n \in Lengths, Truncate(f, n)
  PROVE  TypeOK'
<1>1. n \in Nat
  BY LengthsAssumption
<1>2. PICK base : Loaded(f, base) /\ cache' = Put(cache, f, Dirty(Resize(base, n)))
  BY DEF Truncate
<1>3. Resize(base, n) \in Seq(Byte) /\ faults' \in Nat
  BY <1>1, <1>2, LoadedType, ResizeType
<1> QED BY <1>1, <1>2, <1>3, EditTypes DEF Truncate

LEMMA FlushTypes ==
  ASSUME TypeOK, JobReady, NEW f \in File, Flush(f) \/ FlushNext(f)
  PROVE  TypeOK'
<1>1. f \in DOMAIN cache
  BY DEF Flush, FlushNext, JobReady, IsDirty
<1>2. FlushSaves(f) \/ FlushErrs(f)
  BY DEF Flush, FlushNext
<1>3. /\ IsMap(saved', File, Seq(Byte))
      /\ IsMap(meta', File, Nat)
      /\ DOMAIN meta \subseteq DOMAIN meta'
      /\ DOMAIN saved' \subseteq DOMAIN meta'
      /\ faults' \in Nat
  BY <1>1, <1>2, FlushType
<1>4. IsMap(cache', File, Entry) /\ DOMAIN cache' = DOMAIN cache
  BY <1>1, CleanedType DEF Flush, FlushNext, TypeOK
<1>5. lru' \in Seq(File)
  BY QueueType DEF Flush, FlushNext, TypeOK
<1>6. job' \in {Idle} \cup FlushJob
  <2>1. CASE Flush(f)
    BY <2>1 DEF Flush
  <2>2. CASE FlushNext(f)
    BY <2>2 DEF FlushNext, FlushingAll, FlushJob, TypeOK, Idle, EvictJob
  <2> QED BY <2>1, <2>2
<1>7. size' = size /\ live' = live
  BY DEF Flush, FlushNext
<1>8. reply' \in {NoReply} \cup DataReply
  BY DEF Flush, FlushNext, TypeOK
<1> QED BY <1>3, <1>4, <1>5, <1>6, <1>7, <1>8 DEF TypeOK

LEMMA FlushAllTypes ==
  ASSUME TypeOK, FlushAll \/ FlushedAll
  PROVE  TypeOK'
<1>1. job' \in {Idle} \cup FlushJob
  BY DEF FlushAll, FlushedAll, FlushingAll, FlushJob, TypeOK, IsMap
<1> QED BY <1>1 DEF FlushAll, FlushedAll, TypeOK

LEMMA EvictTypes ==
  ASSUME TypeOK, JobReady, NEW k \in 1..Len(lru),
         EvictClean(k) \/ EvictDirty(k) \/ EvictFails(k)
  PROVE  TypeOK'
<1>1. /\ lru \in Seq(File) /\ Popped(k) \in Seq(File)
      /\ lru[k] \in File /\ lru[k] \in DOMAIN cache
  BY PoppedType DEF TypeOK, EvictClean, EvictDirty, EvictFails, Victim
<1>2. IsMap(Drop(cache, lru[k]), File, Entry) /\ DOMAIN Drop(cache, lru[k]) \subseteq DOMAIN cache
  BY <1>1 DEF TypeOK, IsMap, Drop
<1>3. CASE EvictClean(k)
  BY <1>1, <1>2, <1>3 DEF EvictClean, TypeOK
<1>4. CASE EvictDirty(k)
  <2>1. /\ IsMap(saved', File, Seq(Byte))
        /\ IsMap(meta', File, Nat)
        /\ DOMAIN meta \subseteq DOMAIN meta'
        /\ DOMAIN saved' \subseteq DOMAIN meta'
        /\ faults' \in Nat
    BY <1>1, <1>4, FlushType DEF EvictDirty
  <2>2. lru' \in Seq(File)
    BY <1>1, <1>4, QueueType DEF EvictDirty
  <2> QED BY <1>2, <1>4, <2>1, <2>2 DEF EvictDirty, TypeOK
<1>5. CASE EvictFails(k)
  <2>1. /\ IsMap(saved', File, Seq(Byte))
        /\ IsMap(meta', File, Nat)
        /\ DOMAIN meta \subseteq DOMAIN meta'
        /\ DOMAIN saved' \subseteq DOMAIN meta'
        /\ faults' \in Nat
    BY <1>1, <1>5, FlushType DEF EvictFails
  <2>2. job.file \in File /\ job.file \in DOMAIN size
    BY <1>5 DEF EvictFails, Pressure, JobReady, TypeOK, IsMap
  <2>3. lru' \in Seq(File)
    BY <1>1, <1>5, <2>2, QueueType DEF EvictFails
  <2>4. reply' \in {NoReply} \cup DataReply
    <3>1. CASE job.op = "read"
      BY <1>5, <2>2, <3>1, AnswerType DEF EvictFails
    <3>2. CASE job.op # "read"
      BY <1>5, <3>2 DEF EvictFails, TypeOK
    <3> QED BY <3>1, <3>2
  <2> QED BY <1>5, <2>1, <2>3, <2>4 DEF EvictFails, TypeOK
<1> QED BY <1>3, <1>4, <1>5

(* The size an edit records is one. *)
LEMMA NewSizeType ==
  ASSUME TypeOK, JobReady, job.kind = "evict"
  PROVE  /\ job.file \in File /\ job.file \in DOMAIN size
         /\ job.end \in Nat
         /\ NewSize \in Nat
<1>1. job \in EvictJob
  BY DEF TypeOK, Idle, FlushJob
<1>2. job.file \in DOMAIN size /\ size[job.file] \in Nat
  BY DEF JobReady, TypeOK, IsMap
<1> QED BY <1>1, <1>2 DEF EvictJob, NewSize, Larger

LEMMA EvictDoneTypes ==
  ASSUME TypeOK, JobReady, EvictDone
  PROVE  TypeOK'
<1>1. /\ job.file \in File /\ job.file \in DOMAIN size
      /\ NewSize \in Nat
  BY NewSizeType DEF EvictDone
<1>2. lru' \in Seq(File)
  <2>1. <<>> \in Seq(File) /\ lru \in Seq(File)
    BY DEF TypeOK
  <2>2. Touch(lru, job.file) \in Seq(File) /\ Touch(<<>>, job.file) \in Seq(File)
    BY <1>1, <2>1, QueueType
  <2>3. CASE Pressure
    BY <2>1, <2>2, <2>3 DEF EvictDone
  <2>4. CASE ~Pressure
    BY <2>1, <2>2, <2>4 DEF EvictDone
  <2> QED BY <2>3, <2>4
<1>3. IsMap(size', File, Nat) /\ DOMAIN size' = DOMAIN size
  BY <1>1 DEF EvictDone, TypeOK, IsMap, Put
<1>4. reply' \in {NoReply} \cup DataReply
  <2>1. CASE job.op = "read"
    BY <1>1, <2>1, AnswerType DEF EvictDone
  <2>2. CASE job.op # "read"
    BY <2>2 DEF EvictDone, TypeOK
  <2> QED BY <2>1, <2>2
<1> QED BY <1>2, <1>3, <1>4 DEF EvictDone, TypeOK

LEMMA UnlinkTypes ==
  ASSUME TypeOK, NEW f \in File, Unlink(f)
  PROVE  TypeOK'
<1>1. IsMap(cache', File, Entry) /\ DOMAIN cache' \subseteq DOMAIN cache
  BY DEF Unlink, TypeOK, IsMap, Drop
<1>2. lru' \in Seq(File)
  BY QueueType DEF Unlink, TypeOK
<1>3. faults' \in Nat
  BY FaultType DEF Unlink, TypeOK
<1>4. live' \subseteq live
  BY DEF Unlink
<1> QED BY <1>1, <1>2, <1>3, <1>4 DEF Unlink, TypeOK

LEMMA RenameTypes ==
  ASSUME TypeOK, NEW f \in File, NEW over, Rename(f, over)
  PROVE  TypeOK'
<1>1. IsMap(cache', File, Entry) /\ DOMAIN cache' \subseteq DOMAIN cache
  BY DEF Rename, TypeOK, IsMap
<1>2. f \in DOMAIN size /\ f \in DOMAIN meta /\ size[f] \in Nat
  BY DEF Rename, TypeOK, IsMap
<1>3. IsMap(Put(meta, f, size[f]), File, Nat) /\ DOMAIN Put(meta, f, size[f]) = DOMAIN meta
  BY <1>2 DEF TypeOK, IsMap, Put
<1>4. IsMap(meta', File, Nat) /\ DOMAIN meta' = DOMAIN meta
  BY <1>3 DEF Rename, TypeOK
<1>5. lru' \in Seq(File)
  <2>1. CASE over = {}
    BY <2>1 DEF Rename, TypeOK
  <2>2. CASE over # {}
    <3>1. (CHOOSE x \in over : TRUE) \in File
      BY <2>2 DEF Rename, TypeOK, IsMap
    <3> QED BY <2>2, <3>1, QueueType DEF Rename, TypeOK
  <2> QED BY <2>1, <2>2
<1>6. faults' \in Nat
  BY FaultType DEF Rename, TypeOK
<1>7. live' \subseteq live /\ size' = size /\ saved' = saved /\ job' = job /\ reply' = NoReply
  BY DEF Rename
<1> QED BY <1>1, <1>4, <1>5, <1>6, <1>7 DEF TypeOK

LEMMA CrashTypes ==
  ASSUME TypeOK, Crash
  PROVE  TypeOK'
<1>1. IsMap(size', File, Nat) /\ DOMAIN size' = live
  BY DEF Crash, TypeOK, IsMap
<1>2. IsMap(cache', File, Entry) /\ DOMAIN cache' = {}
  BY DEF Crash, IsMap
<1>3. faults' \in Nat
  BY DEF Crash, TypeOK
<1> QED BY <1>1, <1>2, <1>3 DEF Crash, TypeOK

LEMMA TypeStep ==
  ASSUME TypeOK, JobReady, [Next]_vars
  PROVE  TypeOK'
<1>1. CASE UNCHANGED vars
  BY <1>1 DEF vars, TypeOK
<1>2. ASSUME NEW f \in File, Create(f) PROVE TypeOK'
  BY <1>2, CreateTypes
<1>3. ASSUME NEW f \in File, ReadHit(f) \/ ReadMiss(f) \/ ReadFails(f) PROVE TypeOK'
  BY <1>3, ReadTypes
<1>4. ASSUME NEW f \in File, NEW off \in 0..MaxLen, NEW d \in Writes, Write(f, off, d)
      PROVE TypeOK'
  BY <1>4, WriteTypes
<1>5. ASSUME NEW f \in File, NEW n \in Lengths, Truncate(f, n) PROVE TypeOK'
  BY <1>5, TruncateTypes
<1>6. ASSUME NEW f \in File, Flush(f) \/ FlushNext(f) PROVE TypeOK'
  BY <1>6, FlushTypes
<1>7. ASSUME NEW f \in File, Unlink(f) PROVE TypeOK'
  BY <1>7, UnlinkTypes
<1>8. ASSUME NEW f \in File, NEW over, Rename(f, over) PROVE TypeOK'
  BY <1>8, RenameTypes
<1>9. CASE FlushAll \/ FlushedAll
  BY <1>9, FlushAllTypes
<1>10. ASSUME NEW k \in 1..Len(lru), EvictClean(k) \/ EvictDirty(k) \/ EvictFails(k)
       PROVE TypeOK'
  BY <1>10, EvictTypes
<1>11. CASE EvictDone
  BY <1>11, EvictDoneTypes
<1>12. CASE Crash
  BY <1>12, CrashTypes
<1> QED
  BY <1>1, <1>2, <1>3, <1>4, <1>5, <1>6, <1>7, <1>8, <1>9, <1>10, <1>11, <1>12
  DEF Next, EvictStep, FlushStep

-----------------------------------------------------------------------------
(* Requests in progress and clean buffers.                                 *)

Coherent == JobReady /\ CleanIsSaved

LEMMA CreateCoherent ==
  ASSUME TypeOK, Coherent, NEW f \in File, Create(f)
  PROVE  Coherent'
<1>1. f \notin DOMAIN cache
  BY DEF Create, TypeOK
<1>2. CleanIsSaved'
  BY <1>1 DEF Create, Coherent, CleanIsSaved, Put
<1> QED BY <1>2 DEF Create, Coherent, JobReady, Idle, IsDirty

LEMMA ReadCoherent ==
  ASSUME TypeOK, Coherent, NEW f \in File, ReadHit(f) \/ ReadMiss(f) \/ ReadFails(f)
  PROVE  Coherent'
<1>1. CASE ReadHit(f)
  BY <1>1 DEF ReadHit, Coherent, JobReady, CleanIsSaved, Idle, IsDirty
<1>2. CASE ReadMiss(f)
  <2>1. CleanIsSaved'
    BY <1>2 DEF ReadMiss, Coherent, CleanIsSaved, Put, Clean
  <2> QED BY <1>2, <2>1 DEF ReadMiss, Coherent, JobReady, Evicting
<1>3. CASE ReadFails(f)
  BY <1>3 DEF ReadFails, Coherent, JobReady, CleanIsSaved, Idle, IsDirty, Reply
<1> QED BY <1>1, <1>2, <1>3

LEMMA EditCoherent ==
  ASSUME TypeOK, Coherent, NEW f \in File, f \in DOMAIN size, NEW d,
         cache' = Put(cache, f, Dirty(d)),
         NEW op \in {"write", "truncate"}, NEW end,
         job' = Evicting(op, f, end),
         reply' = NoReply,
         UNCHANGED <<size, saved, meta, live>>
  PROVE  Coherent'
<1>1. CleanIsSaved'
  BY DEF Coherent, CleanIsSaved, Put, Dirty
<1> QED BY <1>1 DEF Coherent, JobReady, Evicting

(* A flush of a dirty buffer leaves the recipes of clean ones alone. *)
LEMMA FlushCoherent ==
  ASSUME TypeOK, Coherent, NEW f \in File, Flush(f) \/ FlushNext(f)
  PROVE  Coherent'
<1>1. f \in DOMAIN cache /\ cache[f].dirty
  BY DEF Flush, FlushNext, Coherent, JobReady, IsDirty
<1>2. CleanIsSaved'
  <2>1. CASE FlushSaves(f) /\ cache' = Put(cache, f, Clean(cache[f].data))
    BY <1>1, <2>1 DEF FlushSaves, Coherent, CleanIsSaved, Put, Clean
  <2>2. CASE FlushErrs(f) /\ cache' = cache
    BY <1>1, <2>2 DEF FlushErrs, Coherent, CleanIsSaved, Put
  <2> QED BY <2>1, <2>2 DEF Flush, FlushNext
<1>3. reply' = NoReply
  BY DEF Flush, FlushNext, Coherent, JobReady, Idle
<1>4. JobReady'
  <2>1. CASE job' = Idle
    BY <1>3, <2>1 DEF JobReady, Idle
  <2>2. CASE job.kind = "flush" /\ job' = FlushingAll(job.todo \ {f})
             /\ cache' = Put(cache, f, Clean(cache[f].data))
    BY <1>3, <2>2 DEF Coherent, JobReady, FlushingAll, IsDirty, Put
  <2> QED BY <2>1, <2>2 DEF Flush, FlushNext
<1> QED BY <1>2, <1>4 DEF Coherent

LEMMA FlushAllCoherent ==
  ASSUME TypeOK, Coherent, FlushAll \/ FlushedAll
  PROVE  Coherent'
BY DEF FlushAll, FlushedAll, Coherent, JobReady, CleanIsSaved,
       FlushingAll, IsDirty, Idle, Current, Durable

LEMMA EvictCoherent ==
  ASSUME TypeOK, Coherent, NEW k \in 1..Len(lru),
         EvictClean(k) \/ EvictDirty(k) \/ EvictFails(k)
  PROVE  Coherent'
<1>1. job.kind = "evict" /\ reply = NoReply /\ job.file \in DOMAIN size
  BY DEF EvictClean, EvictDirty, EvictFails, Pressure, Coherent, JobReady, Idle
<1>2. CASE EvictClean(k)
  <2>1. CleanIsSaved'
    BY <1>2 DEF EvictClean, Coherent, CleanIsSaved, Drop
  <2> QED BY <1>1, <1>2, <2>1 DEF EvictClean, Coherent, JobReady
<1>3. CASE EvictDirty(k)
  <2>1. CleanIsSaved'
    BY <1>3 DEF EvictDirty, FlushSaves, Coherent, CleanIsSaved, Drop, Put
  <2> QED BY <1>1, <1>3, <2>1 DEF EvictDirty, Coherent, JobReady
<1>4. CASE EvictFails(k)
  <2>1. CleanIsSaved'
    BY <1>4 DEF EvictFails, FlushErrs, IsDirty, Coherent, CleanIsSaved, Put
  <2> QED BY <1>4, <2>1 DEF EvictFails, Coherent, JobReady, Idle
<1> QED BY <1>2, <1>3, <1>4

LEMMA EvictDoneCoherent ==
  ASSUME TypeOK, Coherent, EvictDone
  PROVE  Coherent'
<1>1. /\ job.file \in File /\ cache' = cache /\ saved' = saved
      /\ job' = Idle /\ reply = NoReply
  BY NewSizeType DEF EvictDone, Coherent, JobReady, Idle
<1> QED BY <1>1 DEF Coherent, JobReady, CleanIsSaved, Idle

LEMMA NamespaceCoherent ==
  ASSUME TypeOK, Coherent,
         \/ \E f \in File : Unlink(f)
         \/ \E f \in File : \E over : Rename(f, over)
         \/ Crash
  PROVE  Coherent'
<1>1. reply' = NoReply /\ job' = Idle
  BY DEF Unlink, Rename, Crash
<1>2. saved' = saved
  BY DEF Unlink, Rename, Crash
<1>3. DOMAIN cache' \subseteq DOMAIN cache /\ \A x \in DOMAIN cache' : cache'[x] = cache[x]
  <2>1. CASE \E f \in File : Unlink(f)
    BY <2>1 DEF Unlink, Drop
  <2>2. CASE \E f \in File : \E over : Rename(f, over)
    BY <2>2 DEF Rename
  <2>3. CASE Crash
    BY <2>3 DEF Crash
  <2> QED BY <2>1, <2>2, <2>3
<1> QED BY <1>1, <1>2, <1>3 DEF Coherent, JobReady, CleanIsSaved, Idle

LEMMA CoherentStep ==
  ASSUME TypeOK, Coherent, [Next]_vars
  PROVE  Coherent'
<1>1. CASE UNCHANGED vars
  BY <1>1 DEF vars, Coherent, JobReady, CleanIsSaved, IsDirty, Current, Durable
<1>2. ASSUME NEW f \in File, Create(f) PROVE Coherent'
  BY <1>2, CreateCoherent
<1>3. ASSUME NEW f \in File, ReadHit(f) \/ ReadMiss(f) \/ ReadFails(f) PROVE Coherent'
  BY <1>3, ReadCoherent
<1>4. ASSUME NEW f \in File, NEW off \in 0..MaxLen, NEW d \in Writes, Write(f, off, d)
      PROVE Coherent'
  BY <1>4, EditCoherent DEF Write
<1>5. ASSUME NEW f \in File, NEW n \in Lengths, Truncate(f, n) PROVE Coherent'
  BY <1>5, EditCoherent DEF Truncate
<1>6. ASSUME NEW f \in File, Flush(f) \/ FlushNext(f) PROVE Coherent'
  BY <1>6, FlushCoherent
<1>7. CASE FlushAll \/ FlushedAll
  BY <1>7, FlushAllCoherent
<1>8. ASSUME NEW k \in 1..Len(lru), EvictClean(k) \/ EvictDirty(k) \/ EvictFails(k)
      PROVE Coherent'
  BY <1>8, EvictCoherent
<1>9. CASE EvictDone
  BY <1>9, EvictDoneCoherent
<1>10. ASSUME \/ \E f \in File : Unlink(f)
              \/ \E f \in File : \E over : Rename(f, over)
              \/ Crash
       PROVE Coherent'
  BY <1>10, NamespaceCoherent
<1> QED
  BY <1>1, <1>2, <1>3, <1>4, <1>5, <1>6, <1>7, <1>8, <1>9, <1>10
  DEF Next, EvictStep, FlushStep

-----------------------------------------------------------------------------
(* Sizes before the first failure.                                         *)

(* Steps that leave what clients see, and the edit in progress, alone. *)
LEMMA SizeKept ==
  ASSUME TypeOK, SizeInFlight, size' = size, live' \subseteq live,
         faults' = 0 => faults = 0,
         \A f \in live' : Current(f)' = Current(f),
         \/ job' = job
         \/ /\ ~(job.kind = "evict" /\ job.op # "read")
            /\ ~(job.kind = "evict" /\ job.op # "read")'
  PROVE  SizeInFlight'
BY DEF SizeInFlight, NewSize

(* One more failure leaves nothing to show. *)
LEMMA SizeAfterFault ==
  ASSUME TypeOK, Fault
  PROVE  SizeInFlight'
BY FaultType DEF TypeOK, SizeInFlight

LEMMA CreateSize ==
  ASSUME TypeOK, SizeInFlight, NEW f \in File, Create(f)
  PROVE  SizeInFlight'
<1>1. CASE Fault
  BY <1>1, SizeAfterFault
<1>2. CASE faults' = faults /\ ~Fault
  <2>1. f \notin DOMAIN cache /\ f \notin live
    BY DEF Create, TypeOK
  <2>2. /\ live' = live \cup {f} /\ saved' = Put(saved, f, <<>>)
        /\ size' = Put(size, f, 0) /\ cache' = cache /\ job' = Idle /\ job = Idle
    BY <1>2 DEF Create
  <2>3. Current(f)' = <<>> /\ \A g \in live : Current(g)' = Current(g)
    BY <2>1, <2>2 DEF Current, Durable, Put
  <2> QED BY <1>2, <2>2, <2>3 DEF SizeInFlight, Put, Idle
<1> QED BY <1>1, <1>2 DEF Create

LEMMA EditSize ==
  ASSUME TypeOK, SizeInFlight, job = Idle, NEW f \in File, f \in DOMAIN size,
         NEW d \in Seq(Byte), cache' = Put(cache, f, Dirty(d)),
         NEW op \in {"write", "truncate"}, NEW end \in Nat,
         job' = Evicting(op, f, end),
         faults' = 0 =>
           faults = 0 /\ Len(d) = IF op = "write" THEN Larger(Len(Current(f)), end) ELSE end,
         UNCHANGED <<size, saved, meta, live>>
  PROVE  SizeInFlight'
<1>1. Current(f)' = d /\ \A g \in File : g # f => Current(g)' = Current(g)
  BY DEF Current, Durable, Put, Dirty
<1>2. live \subseteq File
  BY DEF TypeOK, IsMap
<1>3. SUFFICES ASSUME faults' = 0 PROVE SizeInFlight'
  BY DEF SizeInFlight
<1>4. live' \subseteq DOMAIN size' /\ \A g \in live : Len(Current(g)) = size[g]
  BY <1>3 DEF SizeInFlight, Idle
<1>5. \A g \in live : g # f => Len(Current(g)') = size'[g]
  BY <1>1, <1>2, <1>4
<1>6. f \in live => Len(Current(f)') = NewSize'
  BY <1>1, <1>3, <1>4 DEF NewSize, Evicting
<1> QED BY <1>4, <1>5, <1>6 DEF SizeInFlight, Evicting

LEMMA WriteSize ==
  ASSUME TypeOK, SizeInFlight, NEW f \in File, NEW off \in 0..MaxLen, NEW d \in Writes,
         Write(f, off, d)
  PROVE  SizeInFlight'
<1>1. d \in Seq(Byte) /\ off \in Nat /\ off + Len(d) \in Nat
  BY WritesAssumption, BoundAssumption
<1>2. PICK base : Loaded(f, base) /\ cache' = Put(cache, f, Dirty(Overlay(base, off, d)))
  BY DEF Write
<1>3. /\ Overlay(base, off, d) \in Seq(Byte)
      /\ Len(Overlay(base, off, d)) = Larger(Len(base), off + Len(d))
  BY <1>1, <1>2, LoadedType, OverlayType
<1>4. faults' = 0 => faults = 0 /\ base = Current(f)
  BY <1>2, FaultType DEF Loaded, TypeOK
<1> QED BY <1>1, <1>2, <1>3, <1>4, EditSize DEF Write

LEMMA TruncateSize ==
  ASSUME TypeOK, SizeInFlight, NEW f \in File, NEW n \in Lengths, Truncate(f, n)
  PROVE  SizeInFlight'
<1>1. n \in Nat
  BY LengthsAssumption
<1>2. PICK base : Loaded(f, base) /\ cache' = Put(cache, f, Dirty(Resize(base, n)))
  BY DEF Truncate
<1>3. Resize(base, n) \in Seq(Byte) /\ Len(Resize(base, n)) = n
  BY <1>1, <1>2, LoadedType, ResizeType
<1>4. faults' = 0 => faults = 0
  BY <1>2, FaultType DEF Loaded, TypeOK
<1> QED BY <1>1, <1>2, <1>3, <1>4, EditSize DEF Truncate

-----------------------------------------------------------------------------
(* What a step does to the bytes clients see and to the durable ones.      *)

SeenKept == \A f \in File : Current(f)' = Current(f)
DurableKept == \A f \in File : Durable(f)' = Durable(f)
WrittenBack(v) ==
  /\ Durable(v)' = Current(v)
  /\ \A f \in File : f # v => Durable(f)' = Durable(f)

(* A flush, complete or not, shows clients what they saw, and leaves the   *)
(* durable bytes or makes them what clients see.                           *)
LEMMA FlushSeen ==
  ASSUME TypeOK, NEW v \in DOMAIN cache,
         \/ FlushSaves(v) /\ cache' = Put(cache, v, Clean(cache[v].data))
         \/ FlushSaves(v) /\ cache' = Drop(cache, v)
         \/ FlushErrs(v) /\ cache' = cache
  PROVE  SeenKept /\ (DurableKept \/ WrittenBack(v))
<1>1. CASE saved' = Put(saved, v, cache[v].data)
  <2>1. WrittenBack(v)
    BY <1>1 DEF WrittenBack, Durable, Current, Put
  <2> USE <2>1 DEF WrittenBack
  <2>2. CASE cache' = Put(cache, v, Clean(cache[v].data))
    <3>1. Current(v)' = Current(v)
      BY <2>2 DEF Current, Put, Clean
    <3>2. \A f \in File : f # v => Current(f)' = Current(f)
      BY <2>2 DEF Current, Put
    <3> QED BY <3>1, <3>2 DEF SeenKept
  <2>3. CASE cache' = Drop(cache, v)
    <3>1. Current(v)' = Current(v)
      BY <2>3 DEF Current, Drop
    <3>2. \A f \in File : f # v => Current(f)' = Current(f)
      BY <2>3 DEF Current, Drop
    <3> QED BY <3>1, <3>2 DEF SeenKept
  <2>4. CASE cache' = cache
    <3>1. Current(v)' = Current(v)
      BY <2>4 DEF Current
    <3>2. \A f \in File : f # v => Current(f)' = Current(f)
      BY <2>4 DEF Current
    <3> QED BY <3>1, <3>2 DEF SeenKept
  <2> QED BY <2>1, <2>2, <2>3, <2>4
<1>2. CASE saved' = saved /\ cache' = cache
  BY <1>2 DEF SeenKept, DurableKept, Current, Durable
<1> QED BY <1>1, <1>2 DEF FlushSaves, FlushErrs

LEMMA FlushStepSeen ==
  ASSUME TypeOK, JobReady, NEW f \in File, Flush(f) \/ FlushNext(f)
  PROVE  SeenKept /\ (DurableKept \/ WrittenBack(f))
<1>1. f \in DOMAIN cache
  BY DEF Flush, FlushNext, JobReady, IsDirty
<1> QED BY <1>1, FlushSeen DEF Flush, FlushNext

LEMMA EvictSeen ==
  ASSUME TypeOK, CleanIsSaved, NEW k \in 1..Len(lru),
         EvictClean(k) \/ EvictDirty(k) \/ EvictFails(k)
  PROVE  /\ lru[k] \in File
         /\ SeenKept /\ (DurableKept \/ WrittenBack(lru[k]))
<1>1. lru[k] \in DOMAIN cache /\ lru[k] \in File
  BY DEF EvictClean, EvictDirty, EvictFails, Victim, TypeOK, IsMap
<1>2. CASE EvictClean(k)
  <2>1. lru[k] \in DOMAIN saved /\ saved[lru[k]] = cache[lru[k]].data
    BY <1>1, <1>2 DEF EvictClean, IsDirty, CleanIsSaved
  <2> QED BY <1>1, <1>2, <2>1 DEF EvictClean, SeenKept, DurableKept, Current, Durable, Drop
<1>3. CASE EvictDirty(k)
  BY <1>1, <1>3, FlushSeen DEF EvictDirty
<1>4. CASE EvictFails(k)
  BY <1>1, <1>4, FlushSeen DEF EvictFails
<1> QED BY <1>1, <1>2, <1>3, <1>4

(* Reading changes neither, nor does what only moves the queue or the job. *)
LEMMA QuietSeen ==
  ASSUME \/ \E f \in File : ReadHit(f) \/ ReadMiss(f) \/ ReadFails(f)
         \/ FlushAll \/ FlushedAll \/ EvictDone
         \/ UNCHANGED vars
  PROVE  SeenKept /\ DurableKept
<1>1. saved' = saved
  BY DEF ReadHit, ReadMiss, ReadFails, FlushAll, FlushedAll, EvictDone, vars
<1>2. CASE \E f \in File : ReadMiss(f)
  BY <1>1, <1>2 DEF ReadMiss, SeenKept, DurableKept, Current, Durable, Put, Clean
<1>3. CASE cache' = cache
  BY <1>1, <1>3 DEF SeenKept, DurableKept, Current, Durable
<1> QED BY <1>2, <1>3 DEF ReadHit, ReadFails, FlushAll, FlushedAll, EvictDone, vars

LEMMA EvictDoneSize ==
  ASSUME TypeOK, JobReady, SizeInFlight, EvictDone
  PROVE  SizeInFlight'
<1>1. SUFFICES ASSUME faults = 0 PROVE SizeInFlight'
  BY DEF EvictDone, SizeInFlight
<1>2. /\ job' = Idle /\ live' = live /\ job.kind = "evict"
      /\ \A f \in File : Current(f)' = Current(f)
  BY QuietSeen DEF EvictDone, SeenKept
<1>3. live \subseteq File
  BY DEF TypeOK, IsMap
<1>4. CASE job.op = "read"
  BY <1>1, <1>2, <1>3, <1>4 DEF EvictDone, SizeInFlight, Idle
<1>5. CASE job.op # "read"
  <2>1. size' = Put(size, job.file, NewSize)
    BY <1>5 DEF EvictDone
  <2> QED BY <1>1, <1>2, <1>3, <1>5, <2>1 DEF SizeInFlight, Idle, Put
<1> QED BY <1>4, <1>5

LEMMA SizeStep ==
  ASSUME TypeOK, Coherent, SizeInFlight, [Next]_vars
  PROVE  SizeInFlight'
<1> USE DEF Coherent
<1>1. CASE UNCHANGED vars
  BY <1>1, QuietSeen, SizeKept DEF vars, SeenKept, TypeOK, IsMap
<1>2. ASSUME NEW f \in File, Create(f) PROVE SizeInFlight'
  BY <1>2, CreateSize
<1>3. ASSUME NEW f \in File, ReadHit(f) \/ ReadMiss(f) \/ ReadFails(f) PROVE SizeInFlight'
  <2>1. size' = size /\ live' = live /\ live \subseteq File /\ (faults' = 0 => faults = 0)
    BY <1>3, FaultType DEF ReadHit, ReadMiss, ReadFails, TypeOK, IsMap
  <2>2. job = Idle /\ (job' = Idle \/ job' = Evicting("read", f, 0))
    BY <1>3 DEF ReadHit, ReadMiss, ReadFails
  <2>3. \A g \in live' : Current(g)' = Current(g)
    BY <1>3, <2>1, QuietSeen DEF SeenKept
  <2> QED BY <2>1, <2>2, <2>3, SizeKept DEF Idle, Evicting
<1>4. ASSUME NEW f \in File, NEW off \in 0..MaxLen, NEW d \in Writes, Write(f, off, d)
      PROVE SizeInFlight'
  BY <1>4, WriteSize
<1>5. ASSUME NEW f \in File, NEW n \in Lengths, Truncate(f, n) PROVE SizeInFlight'
  BY <1>5, TruncateSize
<1>6. ASSUME NEW f \in File, Flush(f) \/ FlushNext(f) PROVE SizeInFlight'
  <2>1. size' = size /\ live' = live /\ live \subseteq File
    BY <1>6 DEF Flush, FlushNext, TypeOK, IsMap
  <2>2. \A g \in live' : Current(g)' = Current(g)
    BY <1>6, <2>1, FlushStepSeen DEF SeenKept
  <2>3. faults' = 0 => faults = 0
    BY <1>6, FaultType DEF Flush, FlushNext, FlushSaves, FlushErrs, TypeOK
  <2>4. job.kind # "evict" /\ job'.kind # "evict"
    BY <1>6 DEF Flush, FlushNext, Idle, FlushingAll
  <2> QED BY <2>1, <2>2, <2>3, <2>4, SizeKept
<1>7. CASE FlushAll \/ FlushedAll
  <2>1. size' = size /\ live' = live /\ live \subseteq File /\ faults' = faults
    BY <1>7 DEF FlushAll, FlushedAll, TypeOK, IsMap
  <2>2. \A g \in live' : Current(g)' = Current(g)
    BY <1>7, <2>1, QuietSeen DEF SeenKept
  <2>3. job.kind # "evict" /\ job'.kind # "evict"
    BY <1>7 DEF FlushAll, FlushedAll, Idle, FlushingAll
  <2> QED BY <2>1, <2>2, <2>3, SizeKept
<1>8. ASSUME NEW k \in 1..Len(lru), EvictClean(k) \/ EvictDirty(k) \/ EvictFails(k)
      PROVE SizeInFlight'
  <2>1. CASE EvictFails(k)
    BY <2>1, SizeAfterFault DEF EvictFails, FlushErrs
  <2>2. CASE EvictClean(k) \/ EvictDirty(k)
    <3>1. size' = size /\ live' = live /\ live \subseteq File /\ faults' = faults /\ job' = job
      BY <2>2 DEF EvictClean, EvictDirty, FlushSaves, TypeOK, IsMap
    <3>2. \A g \in live' : Current(g)' = Current(g)
      BY <1>8, <3>1, EvictSeen DEF SeenKept
    <3> QED BY <3>1, <3>2, SizeKept
  <2> QED BY <1>8, <2>1, <2>2
<1>9. CASE EvictDone
  BY <1>9, EvictDoneSize
<1>10. ASSUME NEW f \in File, Unlink(f) PROVE SizeInFlight'
  <2>1. CASE Fault
    BY <2>1, SizeAfterFault
  <2>2. CASE live' = live \ {f} /\ faults' = faults
    <3>1. size' = size /\ job = Idle /\ job' = Idle
      BY <1>10 DEF Unlink
    <3>2. \A g \in live' : Current(g)' = Current(g)
      BY <1>10, <2>2 DEF Unlink, Current, Durable, Drop
    <3> QED BY <2>2, <3>1, <3>2, SizeKept
  <2> QED BY <1>10, <2>1, <2>2 DEF Unlink
<1>11. ASSUME NEW f \in File, NEW over, Rename(f, over) PROVE SizeInFlight'
  <2>1. CASE Fault
    BY <2>1, SizeAfterFault
  <2>2. CASE live' = live \ over /\ faults' = faults
    <3>1. size' = size /\ job = Idle /\ job' = Idle
      BY <1>11 DEF Rename
    <3>2. \A g \in live' : Current(g)' = Current(g)
      BY <1>11, <2>2 DEF Rename, Current, Durable
    <3> QED BY <2>2, <3>1, <3>2, SizeKept
  <2> QED BY <1>11, <2>1, <2>2 DEF Rename
<1>12. CASE Crash
  BY <1>12, BoundAssumption DEF Crash, TypeOK, SizeInFlight
<1> QED
  BY <1>1, <1>2, <1>3, <1>4, <1>5, <1>6, <1>7, <1>8, <1>9, <1>10, <1>11, <1>12
  DEF Next, EvictStep, FlushStep

-----------------------------------------------------------------------------
(* The room in the cache before the first failure.                         *)

(* The ids of a queue, and those left when one is removed, moved to the    *)
(* back or popped.                                                         *)
Ids(l) == {l[k] : k \in 1..Len(l)}

LEMMA WithoutIds ==
  ASSUME NEW l \in Seq(File), NEW f \in File
  PROVE  Ids(l) \ {f} \subseteq Ids(Without(l, f))
<1>1. CASE \E k \in 1..Len(l) : l[k] = f
  <2> DEFINE p == CHOOSE k \in 1..Len(l) : l[k] = f
             a == SubSeq(l, 1, p - 1)
             b == SubSeq(l, p + 1, Len(l))
  <2>1. p \in 1..Len(l) /\ l[p] = f
    BY <1>1
  <2>2. Without(l, f) = a \o b
    BY <1>1 DEF Without
  <2> HIDE DEF p
  <2>3. /\ a \in Seq(File) /\ Len(a) = p - 1 /\ \A k \in 1..(p - 1) : a[k] = l[k]
    BY <2>1, SubSeqProperties
  <2>4. /\ b \in Seq(File) /\ Len(b) = Len(l) - p
        /\ \A k \in 1..(Len(l) - p) : b[k] = l[p + k]
    BY <2>1, SubSeqProperties
  <2> HIDE DEF a, b
  <2>5. SUFFICES ASSUME NEW k \in 1..Len(l), l[k] # f
                 PROVE  \E j \in 1..Len(a \o b) : (a \o b)[j] = l[k]
    BY <2>2 DEF Ids
  <2>6. Len(a \o b) = Len(l) - 1
    <3>1. Len(a \o b) = Len(a) + Len(b)
      BY <2>3, <2>4, ConcatProperties
    <3> QED BY <3>1, <2>1, <2>3, <2>4
  <2>7. CASE k < p
    <3>1. k \in 1..(p - 1) /\ k \in 1..Len(a \o b)
      BY <2>1, <2>6, <2>7
    <3>2. (a \o b)[k] = a[k]
      BY <3>1, <2>3, <2>4
    <3> QED BY <3>1, <3>2, <2>3
  <2>8. CASE k > p
    <3>1. k - 1 \in 1..Len(a \o b) /\ k - p \in 1..(Len(l) - p)
      BY <2>1, <2>6, <2>8
    <3>2. (a \o b)[k - 1] = b[k - p]
      <4>1. k - 1 > Len(a) /\ (k - 1) - Len(a) = k - p
        BY <2>1, <2>3, <2>8
      <4> QED BY <4>1, <3>1, <2>3, <2>4
    <3>3. p + (k - p) = k
      BY <2>1
    <3> QED BY <3>1, <3>2, <3>3, <2>4
  <2>9. k # p
    BY <2>1, <2>5
  <2> QED BY <2>1, <2>7, <2>8, <2>9
<1>2. CASE ~ \E k \in 1..Len(l) : l[k] = f
  BY <1>2 DEF Without, Ids
<1> QED BY <1>1, <1>2

LEMMA TouchIds ==
  ASSUME NEW l \in Seq(File), NEW f \in File
  PROVE  Ids(l) \cup {f} \subseteq Ids(Touch(l, f))
<1> DEFINE w == Without(l, f)
<1>1. w \in Seq(File) /\ Ids(l) \ {f} \subseteq Ids(w)
  BY QueueType, WithoutIds
<1> HIDE DEF w
<1>2. /\ Len(Append(w, f)) = Len(w) + 1
      /\ Append(w, f)[Len(w) + 1] = f
      /\ \A k \in 1..Len(w) : Append(w, f)[k] = w[k]
  BY <1>1, AppendProperties
<1>3. Ids(w) \cup {f} \subseteq Ids(Append(w, f))
  <2>1. f \in Ids(Append(w, f))
    BY <1>1, <1>2 DEF Ids
  <2>2. ASSUME NEW k \in 1..Len(w) PROVE w[k] \in Ids(Append(w, f))
    <3>1. k \in 1..Len(Append(w, f))
      BY <1>1, <1>2
    <3> QED BY <3>1, <1>2 DEF Ids
  <2> QED BY <2>1, <2>2 DEF Ids
<1>4. Touch(l, f) = Append(w, f)
  BY DEF Touch, w
<1> QED BY <1>1, <1>3, <1>4

(* Popping the victim takes no other cached file off the queue. *)
LEMMA PoppedIds ==
  ASSUME lru \in Seq(File), NEW k \in 1..Len(lru), Victim(k)
  PROVE  \A f \in DOMAIN cache \ {lru[k]} : f \in Ids(lru) => f \in Ids(Popped(k))
<1>1. SUFFICES ASSUME NEW j \in 1..Len(lru), lru[j] \in DOMAIN cache, lru[j] # lru[k]
               PROVE  lru[j] \in Ids(Popped(k))
  BY DEF Ids
<1>2. j > k
  BY <1>1 DEF Victim
<1>3. /\ Len(Popped(k)) = Len(lru) - k
      /\ \A i \in 1..(Len(lru) - k) : Popped(k)[i] = lru[k + i]
  BY SubSeqProperties DEF Popped
<1>4. j - k \in 1..(Len(lru) - k) /\ k + (j - k) = j
  BY <1>2
<1> QED BY <1>3, <1>4 DEF Ids

(* A queue that holds a cached id has a victim: the first such id. *)
LEMMA VictimExists ==
  ASSUME lru \in Seq(File), NEW f \in DOMAIN cache, f \in Ids(lru)
  PROVE  \E k \in 1..Len(lru) : Victim(k)
<1> DEFINE S == {k \in 1..Len(lru) : lru[k] \in DOMAIN cache}
<1>1. S \in SUBSET Nat /\ S # {}
  BY DEF Ids
<1>2. PICK k \in S : \A j \in S : k <= j
  <2>1. PICK k \in S : \A j \in S : ~ (<<j, k>> \in OpToRel(<, Nat))
    BY <1>1, NatLessThanWellFounded, WFMin
  <2>2. \A j \in S : ~ (j < k)
    BY <1>1, <2>1 DEF OpToRel
  <2> QED BY <1>1, <2>2
<1>3. Victim(k)
  BY <1>2 DEF Victim
<1> QED BY <1>2, <1>3

(* RoomInFlight, in terms of the ids on the queue. *)
Room(c) == IsFiniteSet(DOMAIN cache) /\ Cardinality(DOMAIN cache) <= c
AllQueued(S) == S \subseteq Ids(lru)
ReadIn == job.kind = "evict" /\ job.op = "read"

LEMMA RoomSaid ==
  RoomInFlight <=>
    (faults = 0 =>
       /\ Room(IF job.kind = "evict" THEN Capacity + 1 ELSE Capacity)
       /\ AllQueued(DOMAIN cache \ (IF ReadIn THEN {job.file} ELSE {})))
BY DEF RoomInFlight, Room, AllQueued, ReadIn, OnQueue, Ids

(* One more failure leaves nothing to show. *)
LEMMA RoomAfterFault ==
  ASSUME TypeOK, Fault
  PROVE  RoomInFlight'
BY FaultType DEF TypeOK, RoomInFlight

(* A step that brings no new buffer in and takes no id of a buffer off the *)
(* queue, and neither begins nor ends an eviction.                         *)
LEMMA RoomKept ==
  ASSUME TypeOK, RoomInFlight, faults' = 0 => faults = 0,
         DOMAIN cache' \subseteq DOMAIN cache,
         \A f \in DOMAIN cache' : f \in Ids(lru) => f \in Ids(lru'),
         job' = job \/ (job.kind # "evict" /\ job'.kind # "evict")
  PROVE  RoomInFlight'
<1> SUFFICES ASSUME faults' = 0 PROVE RoomInFlight'
  BY DEF RoomInFlight
<1> DEFINE c == IF job.kind = "evict" THEN Capacity + 1 ELSE Capacity
<1>1. Room(c) /\ AllQueued(DOMAIN cache \ (IF ReadIn THEN {job.file} ELSE {}))
  BY RoomSaid
<1>2. IsFiniteSet(DOMAIN cache') /\ Cardinality(DOMAIN cache') <= Cardinality(DOMAIN cache)
  BY <1>1, FS_Subset DEF Room
<1>3. Cardinality(DOMAIN cache) \in Nat /\ Cardinality(DOMAIN cache') \in Nat /\ c \in Nat
  BY <1>1, <1>2, FS_CardinalityType, BoundAssumption DEF Room
<1>4. Cardinality(DOMAIN cache) <= c
  BY <1>1 DEF Room
<1> HIDE DEF c
<1>5. Cardinality(DOMAIN cache') <= c
  BY <1>2, <1>3, <1>4
<1>6. Room(c)'
  <2>1. c' = c
    BY DEF c
  <2> QED BY <2>1, <1>2, <1>5 DEF Room
<1>7. AllQueued(DOMAIN cache \ (IF ReadIn THEN {job.file} ELSE {}))'
  BY <1>1 DEF AllQueued, ReadIn
<1> QED BY <1>6, <1>7 DEF c, RoomInFlight, Room, AllQueued, ReadIn, OnQueue, Ids

(* A request that brings one buffer in, queued or about to be, has it to   *)
(* make room for.                                                          *)
LEMMA RoomTaken ==
  ASSUME TypeOK, RoomInFlight, job = Idle, faults' = 0 => faults = 0,
         NEW f \in File, DOMAIN cache' = DOMAIN cache \cup {f},
         NEW op \in {"read", "write", "truncate"}, NEW end \in Nat,
         job' = Evicting(op, f, end),
         \A g \in DOMAIN cache : g \in Ids(lru) => g \in Ids(lru'),
         op # "read" => f \in Ids(lru')
  PROVE  RoomInFlight'
<1> SUFFICES ASSUME faults' = 0 PROVE RoomInFlight'
  BY DEF RoomInFlight
<1>1. Room(Capacity) /\ AllQueued(DOMAIN cache)
  BY RoomSaid DEF Idle, ReadIn
<1>2. /\ IsFiniteSet(DOMAIN cache')
      /\ Cardinality(DOMAIN cache') <= Capacity + 1
  <2>1. /\ IsFiniteSet(DOMAIN cache')
        /\ Cardinality(DOMAIN cache') =
             IF f \in DOMAIN cache THEN Cardinality(DOMAIN cache)
             ELSE Cardinality(DOMAIN cache) + 1
    BY <1>1, FS_AddElement DEF Room
  <2>2. Cardinality(DOMAIN cache) \in Nat /\ Cardinality(DOMAIN cache) <= Capacity
    BY <1>1, FS_CardinalityType DEF Room
  <2> QED BY <2>1, <2>2, BoundAssumption
<1>3. job'.kind = "evict" /\ job'.op = op /\ job'.file = f
  BY DEF Evicting
<1>4. \A g \in DOMAIN cache' : g # f => g \in Ids(lru')
  BY <1>1 DEF AllQueued
<1> QED BY <1>2, <1>3, <1>4 DEF RoomInFlight, OnQueue, Ids

LEMMA ReadRoom ==
  ASSUME TypeOK, RoomInFlight, NEW f \in File, ReadHit(f) \/ ReadMiss(f) \/ ReadFails(f)
  PROVE  RoomInFlight'
<1>1. CASE ReadHit(f)
  <2>1. Ids(lru) \subseteq Ids(lru')
    BY <1>1, TouchIds DEF ReadHit, TypeOK
  <2> QED BY <1>1, <2>1, RoomKept DEF ReadHit
<1>2. CASE ReadMiss(f)
  <2>1. DOMAIN cache' = DOMAIN cache \cup {f}
    BY <1>2 DEF ReadMiss, Put
  <2> QED BY <1>2, <2>1, RoomTaken DEF ReadMiss
<1>3. CASE ReadFails(f)
  <2>1. CASE Fault
    BY <2>1, RoomAfterFault
  <2>2. CASE faults' = faults
    BY <1>3, <2>2, RoomKept DEF ReadFails
  <2> QED BY <1>3, <2>1, <2>2 DEF ReadFails
<1> QED BY <1>1, <1>2, <1>3

LEMMA EditRoom ==
  ASSUME TypeOK, RoomInFlight, job = Idle, NEW f \in File, NEW base, Loaded(f, base),
         NEW e, cache' = Put(cache, f, e), lru' = Touch(lru, f),
         NEW op \in {"write", "truncate"}, NEW end \in Nat, job' = Evicting(op, f, end)
  PROVE  RoomInFlight'
<1>1. Ids(lru) \cup {f} \subseteq Ids(lru')
  BY TouchIds DEF TypeOK
<1>2. DOMAIN cache' = DOMAIN cache \cup {f}
  BY DEF Put
<1>3. faults' = 0 => faults = 0
  BY FaultType DEF Loaded, TypeOK
<1> QED BY <1>1, <1>2, <1>3, RoomTaken

LEMMA WriteRoom ==
  ASSUME TypeOK, RoomInFlight, NEW f \in File, NEW off \in 0..MaxLen, NEW d \in Writes,
         Write(f, off, d)
  PROVE  RoomInFlight'
<1>1. off + Len(d) \in Nat
  BY WritesAssumption, BoundAssumption
<1>2. PICK base : Loaded(f, base) /\ cache' = Put(cache, f, Dirty(Overlay(base, off, d)))
  BY DEF Write
<1> QED BY <1>1, <1>2, EditRoom DEF Write

LEMMA TruncateRoom ==
  ASSUME TypeOK, RoomInFlight, NEW f \in File, NEW n \in Lengths, Truncate(f, n)
  PROVE  RoomInFlight'
<1>1. n \in Nat
  BY LengthsAssumption
<1>2. PICK base : Loaded(f, base) /\ cache' = Put(cache, f, Dirty(Resize(base, n)))
  BY DEF Truncate
<1> QED BY <1>1, <1>2, EditRoom DEF Truncate

LEMMA FlushRoom ==
  ASSUME TypeOK, RoomInFlight, JobReady, NEW f \in File, Flush(f) \/ FlushNext(f)
  PROVE  RoomInFlight'
<1>1. CASE Fault
  BY <1>1, RoomAfterFault
<1>2. CASE FlushSaves(f) /\ ~Fault
  <2>1. f \in DOMAIN cache
    BY DEF Flush, FlushNext, JobReady, IsDirty
  <2>2. DOMAIN cache' = DOMAIN cache /\ lru' = Touch(lru, f)
    BY <1>2, <2>1 DEF Flush, FlushNext, FlushErrs, Put
  <2>3. Ids(lru) \subseteq Ids(lru')
    BY <2>2, TouchIds DEF TypeOK
  <2>4. faults' = faults
    BY <1>2 DEF FlushSaves
  <2>5. job' = job \/ (job.kind # "evict" /\ job'.kind # "evict")
    BY <1>2 DEF Flush, FlushNext, FlushErrs, FlushingAll
  <2> QED BY <2>2, <2>3, <2>4, <2>5, RoomKept
<1> QED BY <1>1, <1>2 DEF Flush, FlushNext, FlushErrs

LEMMA EvictRoom ==
  ASSUME TypeOK, RoomInFlight, NEW k \in 1..Len(lru),
         EvictClean(k) \/ EvictDirty(k) \/ EvictFails(k)
  PROVE  RoomInFlight'
<1>1. CASE EvictFails(k)
  BY <1>1, RoomAfterFault DEF EvictFails, FlushErrs
<1>2. CASE EvictClean(k) \/ EvictDirty(k)
  <2>1. lru \in Seq(File) /\ Victim(k) /\ lru[k] \in File
    BY <1>2, PoppedType DEF EvictClean, EvictDirty, TypeOK
  <2>2. DOMAIN cache' = DOMAIN cache \ {lru[k]}
    BY <1>2 DEF EvictClean, EvictDirty, Drop
  <2>3. \A f \in DOMAIN cache' : f \in Ids(lru) => f \in Ids(Popped(k))
    BY <2>1, <2>2, PoppedIds
  <2>4. Ids(Popped(k)) \subseteq Ids(lru')
    BY <1>2, <2>1, PoppedType, TouchIds DEF EvictClean, EvictDirty
  <2>5. job' = job /\ faults' = faults
    BY <1>2 DEF EvictClean, EvictDirty, FlushSaves
  <2> QED BY <2>2, <2>3, <2>4, <2>5, RoomKept
<1> QED BY <1>1, <1>2

(* The eviction ends with room for everything: under pressure there are    *)
(* two buffers at least, and one of them is on the queue.                  *)
LEMMA EvictDoneRoom ==
  ASSUME TypeOK, RoomInFlight, JobReady, EvictDone
  PROVE  RoomInFlight'
<1> SUFFICES ASSUME faults' = 0 PROVE RoomInFlight'
  BY DEF RoomInFlight
<1>1. faults = 0 /\ job.kind = "evict" /\ cache' = cache
  BY DEF EvictDone
<1>2. Room(Capacity + 1) /\ AllQueued(DOMAIN cache \ (IF ReadIn THEN {job.file} ELSE {}))
  BY <1>1, RoomSaid
<1>3. job.file \in File /\ lru \in Seq(File)
  BY <1>1 DEF TypeOK, JobReady, IsMap
<1>4. ~Pressure
  <2> SUFFICES ASSUME Pressure PROVE FALSE
    OBVIOUS
  <2>1. /\ IsFiniteSet(DOMAIN cache \ {job.file})
        /\ Cardinality(DOMAIN cache \ {job.file}) >= Cardinality(DOMAIN cache) - 1
        /\ Cardinality(DOMAIN cache) \in Nat
    <3>1. IsFiniteSet(DOMAIN cache)
      BY <1>2 DEF Room
    <3>2. /\ IsFiniteSet(DOMAIN cache \ {job.file})
          /\ Cardinality(DOMAIN cache \ {job.file}) =
               IF job.file \in DOMAIN cache THEN Cardinality(DOMAIN cache) - 1
               ELSE Cardinality(DOMAIN cache)
      BY <3>1, FS_RemoveElement
    <3>3. Cardinality(DOMAIN cache) \in Nat
      BY <3>1, FS_CardinalityType
    <3> QED BY <3>2, <3>3
  <2>2. Cardinality(DOMAIN cache) > 1
    BY <2>1, BoundAssumption DEF Pressure
  <2>3. DOMAIN cache \ {job.file} # {}
    <3>1. Cardinality(DOMAIN cache \ {job.file}) # 0
      BY <2>1, <2>2, FS_CardinalityType
    <3> QED BY <3>1, FS_EmptySet
  <2>4. PICK f \in DOMAIN cache \ {job.file} : TRUE
    BY <2>3
  <2>5. f \in Ids(lru)
    BY <1>2, <2>4 DEF AllQueued
  <2>6. \E k \in 1..Len(lru) : Victim(k)
    BY <1>3, <2>4, <2>5, VictimExists
  <2> QED BY <2>6 DEF EvictDone
<1>5. IsFiniteSet(DOMAIN cache) /\ Cardinality(DOMAIN cache) <= Capacity
  <2>1. IsFiniteSet(DOMAIN cache) /\ Cardinality(DOMAIN cache) \in Nat
    BY <1>2, FS_CardinalityType DEF Room
  <2> QED BY <1>1, <1>4, <2>1, BoundAssumption DEF Pressure
<1>6. AllQueued(DOMAIN cache)'
  <2>1. CASE ReadIn
    <3>1. lru' = Touch(lru, job.file)
      BY <1>4, <2>1 DEF EvictDone, ReadIn
    <3>2. Ids(lru) \cup {job.file} \subseteq Ids(lru')
      BY <1>3, <3>1, TouchIds
    <3> QED BY <1>1, <1>2, <2>1, <3>2 DEF AllQueued
  <2>2. CASE ~ReadIn
    BY <1>1, <1>2, <1>4, <2>2 DEF EvictDone, ReadIn, AllQueued
  <2> QED BY <2>1, <2>2
<1>7. job'.kind # "evict"
  BY DEF EvictDone, Idle
<1> QED BY <1>1, <1>5, <1>6, <1>7 DEF RoomInFlight, AllQueued, OnQueue, Ids

LEMMA NamespaceRoom ==
  ASSUME TypeOK, RoomInFlight,
         \/ \E f \in File : Unlink(f)
         \/ \E f \in File : \E over : Rename(f, over)
         \/ Crash
  PROVE  RoomInFlight'
<1>1. ASSUME NEW f \in File, Unlink(f) PROVE RoomInFlight'
  <2>1. CASE Fault
    BY <2>1, RoomAfterFault
  <2>2. CASE faults' = faults
    <3>1. DOMAIN cache' = DOMAIN cache \ {f} /\ lru' = Without(lru, f) /\ job' = job
      BY <1>1 DEF Unlink, Drop
    <3>2. Ids(lru) \ {f} \subseteq Ids(lru')
      BY <3>1, WithoutIds DEF TypeOK
    <3> QED BY <2>2, <3>1, <3>2, RoomKept
  <2> QED BY <1>1, <2>1, <2>2 DEF Unlink
<1>2. ASSUME NEW f \in File, NEW over, Rename(f, over) PROVE RoomInFlight'
  <2>1. CASE Fault
    BY <2>1, RoomAfterFault
  <2>2. CASE faults' = faults
    <3>1. DOMAIN cache' = DOMAIN cache \ over /\ job' = job
      BY <1>2 DEF Rename
    <3>2. CASE over = {}
      <4>1. lru' = lru
        BY <1>2, <3>2 DEF Rename
      <4> QED BY <2>2, <3>1, <4>1, RoomKept
    <3>3. ASSUME NEW g \in File, over = {g} PROVE RoomInFlight'
      <4>1. lru' = Without(lru, g)
        BY <1>2, <3>3 DEF Rename
      <4>2. Ids(lru) \ {g} \subseteq Ids(lru')
        BY <4>1, WithoutIds DEF TypeOK
      <4> QED BY <2>2, <3>1, <3>3, <4>2, RoomKept
    <3>4. over = {} \/ \E g \in File : over = {g}
      BY <1>2 DEF Rename, TypeOK, IsMap
    <3> QED BY <3>2, <3>3, <3>4
  <2> QED BY <1>2, <2>1, <2>2 DEF Rename
<1>3. CASE Crash
  BY <1>3, BoundAssumption DEF Crash, TypeOK, RoomInFlight
<1> QED BY <1>1, <1>2, <1>3

LEMMA RoomStep ==
  ASSUME IInv, [Next]_vars
  PROVE  RoomInFlight'
<1> USE DEF IInv
<1>1. CASE UNCHANGED vars
  BY <1>1, RoomKept DEF vars
<1>2. ASSUME NEW f \in File, Create(f) PROVE RoomInFlight'
  <2>1. CASE Fault
    BY <2>1, RoomAfterFault
  <2> QED BY <1>2, <2>1, RoomKept DEF Create
<1>3. ASSUME NEW f \in File, ReadHit(f) \/ ReadMiss(f) \/ ReadFails(f) PROVE RoomInFlight'
  BY <1>3, ReadRoom
<1>4. ASSUME NEW f \in File, NEW off \in 0..MaxLen, NEW d \in Writes, Write(f, off, d)
      PROVE RoomInFlight'
  BY <1>4, WriteRoom
<1>5. ASSUME NEW f \in File, NEW n \in Lengths, Truncate(f, n) PROVE RoomInFlight'
  BY <1>5, TruncateRoom
<1>6. ASSUME NEW f \in File, Flush(f) \/ FlushNext(f) PROVE RoomInFlight'
  BY <1>6, FlushRoom
<1>7. CASE FlushAll \/ FlushedAll
  BY <1>7, RoomKept DEF FlushAll, FlushedAll, FlushingAll, Idle
<1>8. ASSUME NEW k \in 1..Len(lru), EvictClean(k) \/ EvictDirty(k) \/ EvictFails(k)
      PROVE RoomInFlight'
  BY <1>8, EvictRoom
<1>9. CASE EvictDone
  BY <1>9, EvictDoneRoom
<1>10. ASSUME \/ \E f \in File : Unlink(f)
              \/ \E f \in File : \E over : Rename(f, over)
              \/ Crash
       PROVE RoomInFlight'
  BY <1>10, NamespaceRoom
<1> QED
  BY <1>1, <1>2, <1>3, <1>4, <1>5, <1>6, <1>7, <1>8, <1>9, <1>10
  DEF Next, EvictStep, FlushStep

-----------------------------------------------------------------------------
(* The invariant and the properties that follow from it.                   *)

LEMMA InitInvariant == Init => IInv
<1> SUFFICES ASSUME Init PROVE IInv
  OBVIOUS
<1>1. TypeOK
  BY DEF Init, TypeOK, IsMap, Idle
<1>2. CleanIsSaved /\ JobReady
  BY DEF Init, CleanIsSaved, JobReady, Idle
<1>3. SizeInFlight
  BY DEF Init, SizeInFlight
<1>4. RoomInFlight
  BY FS_EmptySet, BoundAssumption DEF Init, RoomInFlight, Idle
<1> QED BY <1>1, <1>2, <1>3, <1>4 DEF IInv

LEMMA NextInvariant == IInv /\ [Next]_vars => IInv'
<1> SUFFICES ASSUME IInv, [Next]_vars PROVE IInv'
  OBVIOUS
<1>1. TypeOK' /\ Coherent' /\ SizeInFlight' /\ RoomInFlight'
  BY TypeStep, CoherentStep, SizeStep, RoomStep DEF IInv, Coherent
<1> QED BY <1>1 DEF IInv, Coherent

(* The inductive invariant holds in every reachable state of the cache. *)
THEOREM CacheInvariance == Spec => []IInv
BY InitInvariant, NextInvariant, PTL DEF Spec

(* The cache, the registry, the rows and the request in progress keep      *)
(* their types; every named or registered file has its metadata.           *)
THEOREM CacheTypes == Spec => []TypeOK
<1>1. IInv => TypeOK
  BY DEF IInv
<1> QED BY <1>1, CacheInvariance, PTL

(* A clean buffer is what the recipe holds, so that dropping it, as        *)
(* eviction does without a flush, loses nothing.                           *)
THEOREM CleanBuffersAreSaved == Spec => []CleanIsSaved
<1>1. IInv => CleanIsSaved
  BY DEF IInv
<1> QED BY <1>1, CacheInvariance, PTL

(* Until something fails, every file's recorded size is the number of its  *)
(* bytes, between any two requests.                                        *)
THEOREM SizesExact == Spec => []SizeExact
<1>1. IInv => SizeExact
  BY DEF IInv, SizeInFlight, SizeExact, Idle
<1> QED BY <1>1, CacheInvariance, PTL

(* Until something fails, the cache is within its capacity between any two *)
(* requests, and every buffer is on the queue that eviction takes from.    *)
THEOREM CacheStaysBounded == Spec => []CacheBounded
<1>1. IInv => CacheBounded
  BY DEF IInv, RoomInFlight, CacheBounded, OnQueue, Idle
<1> QED BY <1>1, CacheInvariance, PTL

-----------------------------------------------------------------------------
(* PageCache implements WriteBackFile.                                     *)

(* Failures are never forgotten. *)
LEMMA FailuresStay ==
  ASSUME TypeOK, [Next]_vars
  PROVE  faults > 0 => faults' > 0
<1>1. Fault => faults' > 0
  BY FaultType DEF TypeOK
<1>2. ASSUME NEW f, Create(f) \/ ReadHit(f) \/ ReadMiss(f) \/ ReadFails(f) \/ Flush(f)
                    \/ FlushNext(f) \/ Unlink(f)
      PROVE  Fault \/ faults' = faults
  BY <1>2 DEF Create, ReadHit, ReadMiss, ReadFails, Flush, FlushNext, Unlink, FlushSaves, FlushErrs
<1>3. ASSUME NEW f, NEW off, NEW d, Write(f, off, d) PROVE Fault \/ faults' = faults
  BY <1>3 DEF Write, Loaded
<1>4. ASSUME NEW f, NEW n, Truncate(f, n) PROVE Fault \/ faults' = faults
  BY <1>4 DEF Truncate, Loaded
<1>5. ASSUME NEW f, NEW over, Rename(f, over) PROVE Fault \/ faults' = faults
  BY <1>5 DEF Rename
<1>6. ASSUME NEW k, EvictClean(k) \/ EvictDirty(k) \/ EvictFails(k)
      PROVE  Fault \/ faults' = faults
  BY <1>6 DEF EvictClean, EvictDirty, EvictFails, FlushSaves, FlushErrs
<1>7. FlushAll \/ FlushedAll \/ EvictDone \/ UNCHANGED vars => faults' = faults
  BY DEF FlushAll, FlushedAll, EvictDone, vars
<1>8. Crash => faults' \in Nat /\ faults' >= faults
  BY DEF Crash, TypeOK
<1>9. Fault \/ faults' = faults \/ Crash
  BY <1>2, <1>3, <1>4, <1>5, <1>6, <1>7 DEF Next, EvictStep, FlushStep
<1> QED BY <1>1, <1>8, <1>9 DEF TypeOK

LEMMA AbstractInit == Init => Abstract!Init
BY DEF Init, Abstract!Init, Current, Durable

(* Steps that show the same bytes and write at most one file back. *)
LEMMA MapsToWriteBack ==
  ASSUME NEW v \in File, SeenKept, DurableKept \/ WrittenBack(v), live' = live,
         faults > 0 => faults' > 0
  PROVE  Abstract!Next
<1>1. [f \in File |-> Current(f)]' = [f \in File |-> Current(f)]
  BY DEF SeenKept
<1>2. CASE DurableKept
  <2>1. [f \in File |-> Durable(f)]' = [f \in File |-> Durable(f)]
    BY <1>2 DEF DurableKept
  <2> QED BY <1>1, <2>1 DEF Abstract!Next
<1>3. CASE WrittenBack(v)
  <2>1. [f \in File |-> Durable(f)]' =
          [[f \in File |-> Durable(f)] EXCEPT ![v] = [f \in File |-> Current(f)][v]]
    BY <1>3 DEF WrittenBack
  <2>2. Abstract!WriteBack(v)
    BY <1>1, <2>1 DEF Abstract!WriteBack
  <2> QED BY <2>2 DEF Abstract!Next
<1> QED BY <1>2, <1>3

(* An edit of a buffer is an edit of what clients see. *)
LEMMA MapsToEdit ==
  ASSUME TypeOK, NEW f \in File, NEW base, Loaded(f, base),
         NEW d, cache' = Put(cache, f, Dirty(d)), saved' = saved, live' = live,
         \/ \E off \in 0..MaxLen, w \in Writes : d = Overlay(base, off, w)
         \/ \E n \in Lengths : d = Resize(base, n),
         faults > 0 => faults' > 0
  PROVE  Abstract!Next
<1> DEFINE seen == [g \in File |-> Current(g)]
<1>1. seen' = [seen EXCEPT ![f] = d]
  <2>1. Current(f)' = d
    BY DEF Current, Put, Dirty
  <2>2. \A g \in File : g # f => Current(g)' = Current(g)
    BY DEF Current, Durable, Put
  <2> QED BY <2>1, <2>2
<1>2. [g \in File |-> Durable(g)]' = [g \in File |-> Durable(g)]
  BY DEF Durable
<1>3. base = seen[f] \/ (base = <<>> /\ faults' > 0)
  BY FaultType DEF Loaded, TypeOK
<1>4. Abstract!Edit(f)
  <2> HIDE DEF seen
  <2>1. base \in {seen[f], <<>>} /\ (base = seen[f] \/ faults' > 0)
    BY <1>3
  <2>2. \/ \E off \in 0..MaxLen, w \in Writes : seen' = [seen EXCEPT ![f] = Overlay(base, off, w)]
        \/ \E n \in Lengths : seen' = [seen EXCEPT ![f] = Resize(base, n)]
    BY <1>1
  <2> QED BY <1>2, <2>1, <2>2 DEF Abstract!Edit, Abstract!Overlay, Abstract!Resize,
             Overlay, Resize, Abstract!Larger, Larger, seen
<1> QED BY <1>4 DEF Abstract!Next

(* Unlinking a file, or renaming another over it, drops its buffer. *)
LEMMA MapsToUnlink ==
  ASSUME TypeOK, NEW f \in live, saved' = saved,
         DOMAIN cache' = DOMAIN cache \ {f},
         \A g \in DOMAIN cache' : cache'[g] = cache[g],
         live' \subseteq live, f \notin live' \/ faults' > 0,
         faults > 0 => faults' > 0
  PROVE  Abstract!Next
<1>1. f \in File
  BY DEF TypeOK, IsMap
<1>2. [g \in File |-> Durable(g)]' = [g \in File |-> Durable(g)]
  BY DEF Durable
<1>3. [g \in File |-> Current(g)]' =
        [[g \in File |-> Current(g)] EXCEPT ![f] = [g \in File |-> Durable(g)][f]]
  <2>1. Current(f)' = Durable(f)
    BY DEF Current, Durable
  <2>2. \A g \in File : g # f => Current(g)' = Current(g)
    BY DEF Current, Durable
  <2> QED BY <1>1, <2>1, <2>2
<1>4. Abstract!Unlink(f)
  BY <1>2, <1>3 DEF Abstract!Unlink
<1> QED BY <1>1, <1>4 DEF Abstract!Next

(* A file whose rename failed half-way loses its name, and no bytes. *)
LEMMA MapsToLoseName ==
  ASSUME saved' = saved, cache' = cache, live' \subseteq live, faults' > 0 \/ live' = live,
         faults > 0 => faults' > 0
  PROVE  Abstract!Next
<1>1. /\ [g \in File |-> Durable(g)]' = [g \in File |-> Durable(g)]
      /\ [g \in File |-> Current(g)]' = [g \in File |-> Current(g)]
  BY DEF Durable, Current
<1> QED BY <1>1 DEF Abstract!Next, Abstract!LoseName

LEMMA CreateMaps ==
  ASSUME TypeOK, NEW f \in File, Create(f), faults > 0 => faults' > 0
  PROVE  Abstract!Next
<1>1. /\ cache' = cache
      /\ saved' = saved \/ saved' = Put(saved, f, <<>>)
      /\ live' = live \/ live' = live \cup {f}
  BY DEF Create
<1>2. f \notin DOMAIN saved
  BY DEF Create, TypeOK
<1>3. [g \in File |-> Durable(g)]' = [g \in File |-> Durable(g)]
  BY <1>1, <1>2 DEF Durable, Put
<1>4. [g \in File |-> Current(g)]' = [g \in File |-> Current(g)]
  BY <1>1, <1>2 DEF Current, Durable, Put
<1>5. CASE live' = live
  BY <1>3, <1>4, <1>5 DEF Abstract!Next
<1>6. CASE live' = live \cup {f}
  BY <1>3, <1>4, <1>6 DEF Abstract!Next, Abstract!Link
<1> QED BY <1>1, <1>5, <1>6

LEMMA RenameMaps ==
  ASSUME TypeOK, NEW f \in File, NEW over, Rename(f, over), faults > 0 => faults' > 0
  PROVE  Abstract!Next
<1>1. /\ live' \subseteq live /\ saved' = saved
      /\ over \subseteq live
      /\ cache' = [x \in DOMAIN cache \ over |-> cache[x]]
      /\ \/ live' = live \ over
         \/ live' = live \ (over \cup {f}) /\ Fault
  BY DEF Rename
<1>2. Fault => faults' > 0
  BY FaultType DEF TypeOK
<1>3. CASE over = {}
  <2>1. cache' = cache
    BY <1>1, <1>3 DEF TypeOK, IsMap
  <2> QED BY <1>1, <1>2, <1>3, <2>1, MapsToLoseName
<1>4. CASE over # {}
  <2>1. PICK g \in over : over = {g}
    BY <1>4 DEF Rename
  <2>2. g \in live /\ g \notin live'
    BY <1>1, <2>1
  <2> QED BY <1>1, <2>1, <2>2, MapsToUnlink
<1> QED BY <1>3, <1>4

LEMMA CrashMaps ==
  ASSUME TypeOK, Crash
  PROVE  Abstract!Next
<1>1. faults' > 0
  BY BoundAssumption DEF Crash, TypeOK
<1>2. [g \in File |-> Durable(g)]' = [g \in File |-> Durable(g)]
  BY DEF Crash, Durable
<1>3. [g \in File |-> Current(g)]' = [g \in File |-> Durable(g)]
  BY DEF Crash, Current, Durable
<1>4. Abstract!Crash
  BY <1>1, <1>2, <1>3 DEF Abstract!Crash, Crash
<1> QED BY <1>1, <1>4 DEF Abstract!Next

LEMMA AbstractStep == IInv /\ [Next]_vars => [Abstract!Next]_(Abstract!vars)
<1> SUFFICES ASSUME IInv, [Next]_vars PROVE [Abstract!Next]_(Abstract!vars)
  OBVIOUS
<1> USE DEF IInv
<1>0. faults > 0 => faults' > 0
  BY FailuresStay
<1>1. CASE UNCHANGED vars
  BY <1>1 DEF vars, Abstract!vars, Current, Durable
<1>2. ASSUME NEW f \in File, Create(f) PROVE Abstract!Next
  BY <1>0, <1>2, CreateMaps
<1>3. ASSUME NEW f \in File, ReadHit(f) \/ ReadMiss(f) \/ ReadFails(f) PROVE Abstract!Next
  <2>1. live' = live
    BY <1>3 DEF ReadHit, ReadMiss, ReadFails
  <2> QED BY <1>0, <1>3, <2>1, QuietSeen, MapsToWriteBack
<1>4. ASSUME NEW f \in File, NEW off \in 0..MaxLen, NEW d \in Writes, Write(f, off, d)
      PROVE Abstract!Next
  BY <1>0, <1>4, MapsToEdit DEF Write
<1>5. ASSUME NEW f \in File, NEW n \in Lengths, Truncate(f, n) PROVE Abstract!Next
  BY <1>0, <1>5, MapsToEdit DEF Truncate
<1>6. ASSUME NEW f \in File, Flush(f) \/ FlushNext(f) PROVE Abstract!Next
  <2>1. live' = live
    BY <1>6 DEF Flush, FlushNext
  <2> QED BY <1>0, <1>6, <2>1, FlushStepSeen, MapsToWriteBack
<1>7. CASE FlushAll \/ FlushedAll \/ EvictDone
  <2>1. live' = live /\ saved' = saved /\ cache' = cache
    BY <1>7 DEF FlushAll, FlushedAll, EvictDone
  <2> QED BY <1>0, <2>1, MapsToLoseName
<1>8. ASSUME NEW k \in 1..Len(lru), EvictClean(k) \/ EvictDirty(k) \/ EvictFails(k)
      PROVE Abstract!Next
  <2>1. live' = live
    BY <1>8 DEF EvictClean, EvictDirty, EvictFails
  <2> QED BY <1>0, <1>8, <2>1, EvictSeen, MapsToWriteBack
<1>9. ASSUME NEW f \in File, Unlink(f) PROVE Abstract!Next
  <2>1. /\ f \in live /\ saved' = saved /\ live' \subseteq live
        /\ DOMAIN cache' = DOMAIN cache \ {f}
        /\ \A g \in DOMAIN cache' : cache'[g] = cache[g]
    BY <1>9 DEF Unlink, Drop
  <2>2. f \notin live' \/ faults' > 0
    BY <1>9, FaultType DEF Unlink, TypeOK
  <2> QED BY <1>0, <2>1, <2>2, MapsToUnlink
<1>10. ASSUME NEW f \in File, NEW over, Rename(f, over) PROVE Abstract!Next
  BY <1>0, <1>10, RenameMaps
<1>11. CASE Crash
  BY <1>11, CrashMaps
<1> QED
  BY <1>1, <1>2, <1>3, <1>4, <1>5, <1>6, <1>7, <1>8, <1>9, <1>10, <1>11
  DEF Next, EvictStep, FlushStep

(* The write-back cache implements its abstract specification: caching,    *)
(* flushing and evicting are invisible to clients, and only an edit, an    *)
(* unlink or a crash changes what they see.                                *)
THEOREM CacheIsInvisible == Spec => WritesBack
<1>1. Spec => []IInv
  BY CacheInvariance
<1>2. Spec => Abstract!Init /\ [][Abstract!Next]_(Abstract!vars)
  BY <1>1, AbstractInit, AbstractStep, PTL DEF Spec
<1> QED BY <1>2 DEF WritesBack, Abstract!Spec

-----------------------------------------------------------------------------
(* The history of the clients' requests and the cache.                     *)

(* Every step of the history is one of the cache. *)
LEMMA HistoryStep == [HNext]_hvars => [Next]_vars
<1>1. ASSUME NEW f \in File, NEW off \in 0..MaxLen, NEW d \in Writes, HWrite(f, off, d)
      PROVE  Next
  BY <1>1 DEF HWrite, Next
<1>2. ASSUME NEW f \in File, NEW n \in Lengths, HTruncate(f, n) PROVE Next
  BY <1>2 DEF HTruncate, Next
<1>3. ASSUME NEW f \in File, HFlush(f) PROVE [Next]_vars
  BY <1>3 DEF HFlush, Next
<1>4. ASSUME NEW f \in File, HUnlink(f) PROVE Next
  BY <1>4 DEF HUnlink, Next
<1>5. ASSUME NEW f \in File, NEW over \in {{}} \cup {{g} : g \in File}, HRename(f, over)
      PROVE  Next
  BY <1>5 DEF HRename, Next
<1>6. HFlushedAll \/ HCrash \/ HOther => Next
  BY DEF HFlushedAll, HCrash, HOther, Next, FlushStep
<1>7. UNCHANGED hvars => UNCHANGED vars
  BY DEF hvars
<1> QED BY <1>1, <1>2, <1>3, <1>4, <1>5, <1>6, <1>7 DEF HNext

(* The parts of the history's invariant that a step has to keep. *)
Told == Agreed /\ SyncedClean /\ AllListed /\ ReadsNeverStale
ToldType == shown \in [File -> Seq(Byte)] /\ synced \subseteq File

(* What a step of each kind does to the dirty buffers of synced files and  *)
(* to the list of a flush of everything.                                   *)
NoNewDirty == \A f \in DOMAIN cache' : cache'[f].dirty => f \in DOMAIN cache /\ cache[f].dirty

(* An edit makes of the file's bytes what the history makes of them. *)
LEMMA EditTold ==
  ASSUME TypeOK, ToldType, Told, NEW f \in File, NEW base, Loaded(f, base),
         NEW d \in Seq(Byte), cache' = Put(cache, f, Dirty(d)), saved' = saved,
         job'.kind # "flush", reply' = NoReply, Edited(f, d)
  PROVE  ToldType' /\ Told'
<1>1. Current(f)' = d /\ \A g \in File : g # f => Current(g)' = Current(g)
  BY DEF Current, Durable, Put, Dirty
<1>2. Agreed' /\ ToldType'
  BY <1>1 DEF Told, Agreed, Edited, ToldType
<1>3. SyncedClean'
  BY DEF Told, SyncedClean, Edited, Put
<1> QED BY <1>2, <1>3 DEF Told, AllListed, ReadsNeverStale

(* The bytes the history applies an edit to are those the step does. *)
LEMMA BeforeLoaded ==
  ASSUME TypeOK, Agreed, NEW f \in File, NEW base, Loaded(f, base)
  PROVE  Before(f) = base
<1>1. Fault => faults' # faults
  BY DEF Fault, TypeOK
<1> QED BY <1>1 DEF Loaded, Before, Agreed

LEMMA WriteTold ==
  ASSUME TypeOK, ToldType, Told, NEW f \in File, NEW off \in 0..MaxLen, NEW d \in Writes,
         HWrite(f, off, d)
  PROVE  ToldType' /\ Told'
<1>1. d \in Seq(Byte) /\ off \in Nat
  BY WritesAssumption, BoundAssumption
<1>2. PICK base : Loaded(f, base) /\ cache' = Put(cache, f, Dirty(Overlay(base, off, d)))
  BY DEF HWrite, Write
<1>3. Before(f) = base /\ Overlay(base, off, d) \in Seq(Byte)
  BY <1>1, <1>2, BeforeLoaded, LoadedType, OverlayType DEF Told
<1>4. saved' = saved /\ job'.kind # "flush" /\ reply' = NoReply
  BY DEF HWrite, Write, Evicting
<1>5. Edited(f, Overlay(base, off, d))
  BY <1>3 DEF HWrite
<1> QED BY <1>2, <1>3, <1>4, <1>5, EditTold

LEMMA TruncateTold ==
  ASSUME TypeOK, ToldType, Told, NEW f \in File, NEW n \in Lengths, HTruncate(f, n)
  PROVE  ToldType' /\ Told'
<1>1. n \in Nat
  BY LengthsAssumption
<1>2. PICK base : Loaded(f, base) /\ cache' = Put(cache, f, Dirty(Resize(base, n)))
  BY DEF HTruncate, Truncate
<1>3. Before(f) = base /\ Resize(base, n) \in Seq(Byte)
  BY <1>1, <1>2, BeforeLoaded, LoadedType, ResizeType DEF Told
<1>4. saved' = saved /\ job'.kind # "flush" /\ reply' = NoReply
  BY DEF HTruncate, Truncate, Evicting
<1>5. Edited(f, Resize(base, n))
  BY <1>3 DEF HTruncate
<1> QED BY <1>2, <1>3, <1>4, <1>5, EditTold

(* Steps that show what was shown, dirty no buffer and answer nothing.     *)
LEMMA QuietTold ==
  ASSUME TypeOK, ToldType, Told, SeenKept, NoNewDirty,
         shown' = shown, synced' = synced, reply' = NoReply, AllListed'
  PROVE  ToldType' /\ Told'
BY DEF ToldType, Told, Agreed, SeenKept, SyncedClean, NoNewDirty, ReadsNeverStale

(* A reply from the buffer shows what the history says, or nothing. *)
LEMMA AnswerTold ==
  ASSUME TypeOK, Agreed, NEW f \in File, Answer(f, cache), shown' = shown
  PROVE  ReadsNeverStale'
BY DEF Answer, Reply, Agreed, ReadsNeverStale, Current

LEMMA CreateTold ==
  ASSUME TypeOK, ToldType, Told, NEW f \in File, Create(f), UNCHANGED <<shown, synced>>
  PROVE  ToldType' /\ Told'
<1>1. /\ f \notin DOMAIN saved /\ cache' = cache
      /\ saved' = saved \/ saved' = Put(saved, f, <<>>)
  BY DEF Create, TypeOK
<1>2. SeenKept
  BY <1>1 DEF SeenKept, Current, Durable, Put
<1>3. AllListed' /\ NoNewDirty /\ reply' = NoReply
  BY <1>1 DEF Create, AllListed, NoNewDirty, Idle
<1> QED BY <1>2, <1>3, QuietTold

LEMMA ReadTold ==
  ASSUME TypeOK, ToldType, Told, NEW f \in File, ReadHit(f) \/ ReadMiss(f) \/ ReadFails(f),
         UNCHANGED <<shown, synced>>
  PROVE  ToldType' /\ Told'
<1>1. SeenKept
  BY QuietSeen
<1>2. NoNewDirty
  BY DEF ReadHit, ReadMiss, ReadFails, NoNewDirty, Put, Clean
<1>3. AllListed'
  BY DEF ReadHit, ReadMiss, ReadFails, AllListed, Idle, Evicting
<1>4. ReadsNeverStale'
  <2>1. CASE ReadHit(f)
    BY <2>1, AnswerTold DEF ReadHit, Told
  <2>2. CASE ReadMiss(f) \/ ReadFails(f)
    BY <2>2 DEF ReadMiss, ReadFails, ReadsNeverStale, Reply
  <2> QED BY <2>1, <2>2
<1> QED BY <1>1, <1>2, <1>3, <1>4 DEF ToldType, Told, Agreed, SeenKept, SyncedClean, NoNewDirty

(* A flush that is done, or fails, leaves on its list what is still dirty. *)
LEMMA FlushListed ==
  ASSUME TypeOK, AllListed, NEW f \in DOMAIN cache, Flush(f) \/ FlushNext(f)
  PROVE  AllListed' /\ NoNewDirty
<1>1. cache' = cache \/ cache' = Put(cache, f, Clean(cache[f].data))
  BY DEF Flush, FlushNext
<1>2. NoNewDirty
  BY <1>1 DEF NoNewDirty, Put, Clean
<1>3. CASE job' = Idle
  BY <1>2, <1>3 DEF AllListed, Idle
<1>4. CASE job.kind = "flush" /\ job' = FlushingAll(job.todo \ {f})
           /\ cache' = Put(cache, f, Clean(cache[f].data))
  BY <1>2, <1>4 DEF AllListed, FlushingAll, Put, Clean
<1> QED BY <1>2, <1>3, <1>4 DEF Flush, FlushNext

LEMMA FlushNextTold ==
  ASSUME IInv, ToldType, Told, NEW f \in File, FlushNext(f), UNCHANGED <<shown, synced>>
  PROVE  ToldType' /\ Told'
<1> USE DEF IInv
<1>1. f \in DOMAIN cache /\ reply' = NoReply
  BY DEF FlushNext, JobReady, IsDirty, Idle
<1>2. SeenKept
  BY FlushStepSeen
<1>3. AllListed' /\ NoNewDirty
  BY <1>1, FlushListed DEF Told
<1> QED BY <1>1, <1>2, <1>3, QuietTold

(* A flush that is acknowledged leaves the file's buffer clean. *)
LEMMA FlushTold ==
  ASSUME IInv, ToldType, Told, NEW f \in File, HFlush(f)
  PROVE  ToldType' /\ Told'
<1> USE DEF IInv
<1>1. CASE Flush(f)
  <2>1. f \in DOMAIN cache /\ reply' = NoReply
    BY <1>1 DEF Flush, IsDirty
  <2>2. SeenKept
    BY <1>1, FlushStepSeen
  <2>3. AllListed' /\ NoNewDirty
    BY <1>1, <2>1, FlushListed DEF Told
  <2>4. faults' = faults => f \in DOMAIN cache' /\ ~cache'[f].dirty
    <3>1. ASSUME faults' = faults PROVE cache' = Put(cache, f, Clean(cache[f].data))
      BY <1>1, <3>1 DEF Flush, FlushErrs, Fault, TypeOK
    <3> QED BY <3>1 DEF Put, Clean
  <2>5. SyncedClean'
    BY <2>3, <2>4 DEF HFlush, Told, SyncedClean, NoNewDirty
  <2>6. ToldType' /\ Agreed' /\ ReadsNeverStale'
    BY <2>1, <2>2 DEF HFlush, ToldType, Told, Agreed, SeenKept, ReadsNeverStale
  <2> QED BY <2>3, <2>5, <2>6 DEF Told
<1>2. CASE ~IsDirty(f) /\ UNCHANGED vars
  <2>1. SeenKept
    BY <1>2, QuietSeen
  <2>2. SyncedClean'
    BY <1>2 DEF HFlush, Told, SyncedClean, IsDirty, vars
  <2> QED BY <1>2, <2>1, <2>2
         DEF HFlush, ToldType, Told, Agreed, SeenKept, AllListed, ReadsNeverStale, vars
<1> QED BY <1>1, <1>2 DEF HFlush

(* When the flush of everything ends no buffer is dirty. *)
LEMMA FlushedAllTold ==
  ASSUME IInv, ToldType, Told, HFlushedAll
  PROVE  ToldType' /\ Told'
<1>1. SeenKept
  BY QuietSeen DEF HFlushedAll
<1>2. SyncedClean'
  BY DEF HFlushedAll, FlushedAll, Told, AllListed, SyncedClean
<1>3. reply' = NoReply
  BY DEF HFlushedAll, FlushedAll, IInv, JobReady, Idle
<1> QED BY <1>1, <1>2, <1>3
       DEF HFlushedAll, FlushedAll, ToldType, Told, Agreed, SeenKept, AllListed, ReadsNeverStale, Idle

LEMMA FlushAllTold ==
  ASSUME TypeOK, ToldType, Told, FlushAll, UNCHANGED <<shown, synced>>
  PROVE  ToldType' /\ Told'
<1>1. SeenKept
  BY QuietSeen
<1>2. AllListed' /\ NoNewDirty /\ reply' = NoReply
  BY DEF FlushAll, FlushingAll, AllListed, NoNewDirty
<1> QED BY <1>1, <1>2, QuietTold

LEMMA EvictTold ==
  ASSUME IInv, ToldType, Told, NEW k \in 1..Len(lru),
         EvictClean(k) \/ EvictDirty(k) \/ EvictFails(k), UNCHANGED <<shown, synced>>
  PROVE  ToldType' /\ Told'
<1> USE DEF IInv
<1>1. SeenKept
  BY EvictSeen
<1>2. job.kind = "evict" /\ reply = NoReply /\ job.file \in File
  BY DEF EvictClean, EvictDirty, EvictFails, Pressure, JobReady, Idle, TypeOK, IsMap
<1>3. NoNewDirty /\ job'.kind # "flush"
  BY <1>2 DEF EvictClean, EvictDirty, EvictFails, NoNewDirty, Drop, Idle
<1>4. ReadsNeverStale'
  <2>1. CASE EvictFails(k) /\ job.op = "read"
    <3>1. Answer(job.file, cache)
      BY <2>1 DEF EvictFails
    <3> QED BY <1>2, <3>1, AnswerTold DEF Told
  <2>2. CASE reply' = reply
    BY <1>2, <2>2 DEF ReadsNeverStale
  <2> QED BY <2>1, <2>2 DEF EvictClean, EvictDirty, EvictFails
<1> QED BY <1>1, <1>3, <1>4 DEF ToldType, Told, Agreed, SeenKept, SyncedClean, NoNewDirty, AllListed

LEMMA EvictDoneTold ==
  ASSUME IInv, ToldType, Told, EvictDone, UNCHANGED <<shown, synced>>
  PROVE  ToldType' /\ Told'
<1> USE DEF IInv
<1>1. SeenKept
  BY QuietSeen
<1>2. job.file \in File /\ cache' = cache /\ job' = Idle /\ reply = NoReply
  BY NewSizeType DEF EvictDone, JobReady, Idle
<1>3. ReadsNeverStale'
  <2>1. CASE job.op = "read"
    BY <1>2, <2>1, AnswerTold DEF EvictDone, Told
  <2>2. CASE job.op # "read"
    BY <1>2, <2>2 DEF EvictDone, ReadsNeverStale
  <2> QED BY <2>1, <2>2
<1> QED BY <1>1, <1>2, <1>3 DEF ToldType, Told, Agreed, SeenKept, SyncedClean, AllListed, Idle

(* Files go back to what was written back of them when they lose their     *)
(* buffers, and the rest keep theirs.                                      *)
LEMMA BackToTold ==
  ASSUME TypeOK, ToldType, Told, NEW S, saved' = saved, job'.kind # "flush", reply' = NoReply,
         DOMAIN cache' = DOMAIN cache \ S, \A f \in DOMAIN cache' : cache'[f] = cache[f],
         BackTo(S), synced' = synced \/ (synced' = File /\ DOMAIN cache' = {})
  PROVE  ToldType' /\ Told'
<1>1. \A f \in File : Durable(f)' = Durable(f) /\ Durable(f) \in Seq(Byte)
  BY CurrentType DEF Durable
<1>2. \A f \in File : Current(f)' = IF f \in S THEN Durable(f) ELSE Current(f)
  BY <1>1 DEF Current
<1>3. Agreed'
  BY <1>2 DEF Told, Agreed, BackTo
<1>4. ToldType'
  BY <1>1 DEF ToldType, BackTo
<1>5. SyncedClean'
  BY DEF Told, SyncedClean
<1> QED BY <1>3, <1>4, <1>5 DEF Told, AllListed, ReadsNeverStale

LEMMA NamespaceTold ==
  ASSUME TypeOK, ToldType, Told,
         \/ \E f \in File : HUnlink(f)
         \/ \E f \in File : \E over : HRename(f, over)
         \/ HCrash
  PROVE  ToldType' /\ Told'
<1>1. ASSUME NEW f \in File, HUnlink(f) PROVE ToldType' /\ Told'
  <2>1. /\ saved' = saved /\ job'.kind # "flush" /\ reply' = NoReply
        /\ DOMAIN cache' = DOMAIN cache \ {f}
        /\ \A x \in DOMAIN cache' : cache'[x] = cache[x]
        /\ BackTo({f}) /\ synced' = synced
    BY <1>1 DEF HUnlink, Unlink, Drop, Idle
  <2> QED BY <2>1, BackToTold
<1>2. ASSUME NEW f \in File, NEW over, HRename(f, over) PROVE ToldType' /\ Told'
  <2>1. /\ saved' = saved /\ job'.kind # "flush" /\ reply' = NoReply
        /\ DOMAIN cache' = DOMAIN cache \ over
        /\ \A x \in DOMAIN cache' : cache'[x] = cache[x]
        /\ BackTo(over) /\ synced' = synced
    BY <1>2 DEF HRename, Rename, Idle
  <2> QED BY <2>1, BackToTold
<1>3. CASE HCrash
  <2>1. /\ saved' = saved /\ job'.kind # "flush" /\ reply' = NoReply
        /\ DOMAIN cache' = DOMAIN cache \ File
        /\ \A x \in DOMAIN cache' : cache'[x] = cache[x]
        /\ BackTo(File) /\ synced' = File /\ DOMAIN cache' = {}
    BY <1>3 DEF HCrash, Crash, Idle, TypeOK, IsMap
  <2> QED BY <2>1, BackToTold
<1> QED BY <1>1, <1>2, <1>3

LEMMA ToldStep ==
  ASSUME IInv, ToldType, Told, [HNext]_hvars
  PROVE  ToldType' /\ Told'
<1> USE DEF IInv
<1>1. CASE UNCHANGED hvars
  BY <1>1 DEF hvars, vars, ToldType, Told, Agreed, SyncedClean, AllListed, ReadsNeverStale,
              Current, Durable
<1>2. ASSUME NEW f \in File, NEW off \in 0..MaxLen, NEW d \in Writes, HWrite(f, off, d)
      PROVE  ToldType' /\ Told'
  BY <1>2, WriteTold
<1>3. ASSUME NEW f \in File, NEW n \in Lengths, HTruncate(f, n) PROVE ToldType' /\ Told'
  BY <1>3, TruncateTold
<1>4. ASSUME NEW f \in File, HFlush(f) PROVE ToldType' /\ Told'
  BY <1>4, FlushTold
<1>5. CASE HFlushedAll
  BY <1>5, FlushedAllTold
<1>6. ASSUME \/ \E f \in File : HUnlink(f)
             \/ \E f \in File : \E over : HRename(f, over)
             \/ HCrash
      PROVE  ToldType' /\ Told'
  BY <1>6, NamespaceTold
<1>7. CASE HOther
  <2>0. UNCHANGED <<shown, synced>>
    BY <1>7 DEF HOther
  <2>1. ASSUME NEW f \in File, Create(f) PROVE ToldType' /\ Told'
    BY <2>0, <2>1, CreateTold
  <2>2. ASSUME NEW f \in File, ReadHit(f) \/ ReadMiss(f) \/ ReadFails(f) PROVE ToldType' /\ Told'
    BY <2>0, <2>2, ReadTold
  <2>3. ASSUME NEW f \in File, FlushNext(f) PROVE ToldType' /\ Told'
    BY <2>0, <2>3, FlushNextTold
  <2>4. CASE FlushAll
    BY <2>0, <2>4, FlushAllTold
  <2>5. CASE EvictDone
    BY <2>0, <2>5, EvictDoneTold
  <2>6. ASSUME NEW k \in 1..Len(lru), EvictClean(k) \/ EvictDirty(k) \/ EvictFails(k)
        PROVE  ToldType' /\ Told'
    BY <2>0, <2>6, EvictTold
  <2> QED BY <1>7, <2>1, <2>2, <2>3, <2>4, <2>5, <2>6 DEF HOther, EvictStep
<1> QED BY <1>1, <1>2, <1>3, <1>4, <1>5, <1>6, <1>7 DEF HNext

(* What is synced is durable: a buffer that is clean is saved, and a file  *)
(* without a buffer has what is durable.                                   *)
LEMMA ToldSynced == IInv /\ ToldType /\ Told => HInv
<1> SUFFICES ASSUME IInv, ToldType, Told PROVE HInv
  OBVIOUS
<1>1. ASSUME NEW f \in synced PROVE Durable(f) = shown[f]
  <2>1. f \in File /\ shown[f] = Current(f)
    BY DEF ToldType, Told, Agreed
  <2>2. CASE f \in DOMAIN cache
    BY <2>1, <2>2 DEF Told, SyncedClean, IInv, CleanIsSaved, Current, Durable
  <2>3. CASE f \notin DOMAIN cache
    BY <2>1, <2>3 DEF Current
  <2> QED BY <2>2, <2>3
<1> QED BY <1>1 DEF HInv, ToldType, Told, SyncedStays

LEMMA HistoryInit == HInit => HInv
<1> SUFFICES ASSUME HInit PROVE HInv
  OBVIOUS
<1>1. IInv
  BY InitInvariant DEF HInit
<1>2. ToldType /\ Told
  BY DEF HInit, Init, ToldType, Told, Agreed, SyncedClean, AllListed, ReadsNeverStale,
         Current, Durable, Idle
<1> QED BY <1>1, <1>2, ToldSynced

LEMMA HistoryNext == HInv /\ [HNext]_hvars => HInv'
<1> SUFFICES ASSUME HInv, [HNext]_hvars PROVE HInv'
  OBVIOUS
<1>1. IInv'
  BY HistoryStep, NextInvariant DEF HInv
<1>2. ToldType' /\ Told'
  BY ToldStep DEF HInv, ToldType, Told
<1>3. (IInv /\ ToldType /\ Told => HInv)'
  BY ToldSynced, PTL
<1> QED BY <1>1, <1>2, <1>3

(* The history's inductive invariant, which links it to the cache. *)
THEOREM HistoryInvariance == HistorySpec => []HInv
BY HistoryInit, HistoryNext, PTL DEF HistorySpec

(* No read ever answers with bytes other than those the edits sent before  *)
(* it have made of the file, or none.                                      *)
THEOREM NoStaleRead == HistorySpec => []ReadsNeverStale
<1>1. HInv => ReadsNeverStale
  BY DEF HInv
<1> QED BY <1>1, HistoryInvariance, PTL

(* What was acknowledged as durable, and not edited since, is what a crash *)
(* would leave.                                                            *)
THEOREM SyncedBytesStay == HistorySpec => []SyncedStays
<1>1. HInv => SyncedStays
  BY DEF HInv
<1> QED BY <1>1, HistoryInvariance, PTL

(* The history only watches: with it the cache does nothing it could not   *)
(* do without, so that the theorems about the cache hold of it too.        *)
THEOREM HistoryWatches == HistorySpec => Spec
<1>1. HInit => Init
  BY DEF HInit
<1> QED BY <1>1, HistoryStep, PTL DEF HistorySpec, Spec
=============================================================================
