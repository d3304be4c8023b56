--------------------------- MODULE ChunkerProofs ----------------------------
(***************************************************************************)
(* Proofs about Chunker, for all files, every gear table, word and mask,   *)
(* and all limits 1 <= Min <= Max.  First what one run of the storing loop *)
(* makes; then Scan, the two loops as a function of the bytes, which says  *)
(* that they agree with each other and with themselves on other files; and *)
(* last the arithmetic of the hash, which says that the mask sees the last *)
(* bytes alone.                                                            *)
(***************************************************************************)
EXTENDS Chunker, FiniteSetTheorems, SequenceTheorems, WellFoundedInduction, TLAPS

(* The loop that stores has made chunks of the bytes up to some place, and *)
(* its buffer holds those from there to where it reads.                    *)
Made(j) ==
  LET from == After(j.ends, Len(j.ends) + 1)
  IN /\ Cover(j.chunks, j.ends, data[j.file], from)
     /\ from <= j.read /\ j.total = from
     /\ j.buffer = SubSeq(data[j.file], from + 1, j.read)
     /\ \A k \in 1..Len(j.chunks) : Len(j.chunks[k]) \in Min..Max

IInv ==
  /\ TypeOK
  /\ ChunksCover
  /\ SizesBounded
  /\ job.op = "store" => Made(job)

-----------------------------------------------------------------------------
(* The hash stays a word. *)
LEMMA FeedByteType ==
  ASSUME NEW h \in 0..Words - 1, NEW b \in Byte
  PROVE  FeedByte(h, b) \in 0..Words - 1 /\ Reset \in 0..Words - 1
  <1>1. 2 * h + Gear[b] \in Nat /\ Words \in Nat \ {0}
    BY GearAssumption
  <1> DEFINE x == 2 * h + Gear[b]
  <1> HIDE DEF x
  <1>2. x % Words \in 0..Words - 1
    BY <1>1 DEF x
  <1> QED BY <1>2, GearAssumption DEF FeedByte, Reset, x

(* What runs is typed by its kind. *)
LEMMA JobTypes ==
  ASSUME TypeOK
  PROVE  /\ job.op = "store" => job \in StoreJob /\ job # Idle
         /\ job.op = "count" => job \in CountJob /\ job # Idle
         /\ job.op \in {"idle", "store", "count"}
         /\ job.op = "idle" => job = Idle
  BY DEF TypeOK, Idle, StoreJob, CountJob

(* The next byte of a running loop is one, and extends what is read. *)
LEMMA NextByteType ==
  ASSUME TypeOK, NEW op \in {"store", "count"}, Reading(op)
  PROVE  /\ NextByte \in Byte
         /\ Fed \in 0..Words - 1 /\ Reset \in 0..Words - 1
         /\ job.file \in File /\ job.read \in Nat
         /\ job.read + 1 <= Len(data[job.file])
  <1>1. job.file \in File /\ job.read \in Nat /\ job.hash \in 0..Words - 1
    BY JobTypes DEF Reading, StoreJob, CountJob
  <1>2. data[job.file] \in Seq(Byte)
    BY <1>1 DEF TypeOK
  <1>3. Len(data[job.file]) \in Nat /\ job.read + 1 \in 1..Len(data[job.file])
    BY <1>1, <1>2 DEF Reading
  <1>4. NextByte \in Byte
    BY <1>2, <1>3 DEF NextByte
  <1> QED BY <1>1, <1>3, <1>4, FeedByteType DEF Fed

(* A chunk that begins where the last one ends covers that much more. *)
LEMMA CoverAppend ==
  ASSUME NEW c \in Seq(Chunk), NEW e \in Seq(Nat), NEW d, NEW n \in Nat, NEW m \in Nat,
         Cover(c, e, d, n), SubSeq(d, n + 1, m) \in Chunk
  PROVE  Cover(Append(c, SubSeq(d, n + 1, m)), Append(e, m), d, m)
  <1> DEFINE x == SubSeq(d, n + 1, m)
             c2 == Append(c, x)
             e2 == Append(e, m)
  <1>1. /\ Len(c2) = Len(c) + 1 /\ Len(e2) = Len(e) + 1 /\ Len(c) = Len(e) /\ Len(c) \in Nat
        /\ \A k \in 1..Len(c) : c2[k] = c[k] /\ e2[k] = e[k]
        /\ c2[Len(c) + 1] = x /\ e2[Len(c) + 1] = m
    <2>1. Len(c) = Len(e) /\ Len(c) \in Nat
      BY DEF Cover
    <2>2. Len(c2) = Len(c) + 1 /\ c2[Len(c) + 1] = x /\ \A k \in 1..Len(c) : c2[k] = c[k]
      BY AppendProperties
    <2>3. Len(e2) = Len(e) + 1 /\ e2[Len(e) + 1] = m /\ \A k \in 1..Len(e) : e2[k] = e[k]
      BY AppendProperties
    <2> HIDE DEF c2, e2, x
    <2> QED BY <2>1, <2>2, <2>3
  <1>2. \A k \in 1..Len(c) + 1 : After(e2, k) = After(e, k)
    BY <1>1 DEF After
  <1>3. After(e, Len(c) + 1) = n /\ After(e2, Len(c) + 2) = m
    BY <1>1 DEF After, Cover
  <1>4. ASSUME NEW k \in 1..Len(c) + 1
        PROVE  c2[k] = SubSeq(d, After(e2, k) + 1, e2[k])
    <2>1. CASE k \in 1..Len(c)
      BY <2>1, <1>1, <1>2 DEF Cover
    <2>2. CASE k = Len(c) + 1
      <3> HIDE DEF c2, e2
      <3>1. After(e2, k) = n /\ e2[k] = m /\ c2[k] = x
        BY <2>2, <1>1, <1>2, <1>3
      <3> QED BY <3>1
    <2> HIDE DEF c2, e2, x
    <2> QED BY <2>1, <2>2, <1>1
  <1> HIDE DEF x, c2, e2
  <1>5. After(e2, Len(e2) + 1) = m
    BY <1>1, <1>3
  <1>6. Cover(c2, e2, d, m)
    BY <1>1, <1>4, <1>5 DEF Cover
  <1> QED BY <1>6 DEF c2, e2, x

(* The buffer with the next byte. *)
LEMMA FilledBuffer ==
  ASSUME TypeOK, Made(job), Reading("store")
  PROVE  LET from == After(job.ends, Len(job.ends) + 1)
         IN /\ from \in Nat
            /\ Filled = SubSeq(data[job.file], from + 1, job.read + 1)
            /\ Filled \in Chunk
            /\ Len(Filled) = job.read + 1 - from
            /\ Len(Filled) = Len(job.buffer) + 1 /\ Len(job.buffer) < Max
  <1> DEFINE from == After(job.ends, Len(job.ends) + 1)
             d == data[job.file]
             r == job.read + 1
  <1>1. job \in StoreJob /\ NextByte \in Byte /\ Len(job.buffer) < Max
    BY JobTypes, NextByteType DEF Reading, TypeOK
  <1>2. from \in Nat
    <2>1. job.ends \in Seq(Nat)
      BY <1>1 DEF StoreJob
    <2> QED BY <2>1 DEF After
  <1>3. d \in Seq(Byte) /\ r \in 1..Len(d) /\ from + 1 \in 1..Len(d) /\ from + 1 <= r
    BY <1>1, <1>2, NextByteType DEF Made, TypeOK, StoreJob, Reading
  <1>4. SubSeq(d, from + 1, r) = SubSeq(d, from + 1, r - 1) \o <<d[r]>>
    <2> HIDE DEF from, d, r
    <2>1. r \in from + 1 .. Len(d)
      BY <1>2, <1>3
    <2> QED BY <1>3, <2>1, SubSeqRecursiveSecond
  <1>5. job.buffer = SubSeq(d, from + 1, r - 1)
    BY <1>1 DEF Made, StoreJob
  <1>6. job.buffer \in Seq(Byte)
    BY <1>1 DEF StoreJob
  <1>7. Filled = job.buffer \o <<d[r]>>
    BY <1>1, <1>6 DEF Filled, NextByte
  <1>8. Filled \in Chunk /\ Len(Filled) = Len(job.buffer) + 1
    <2>1. Filled \in Seq(Byte) /\ Len(Filled) = Len(job.buffer) + 1
      BY <1>1, <1>6, AppendProperties DEF Filled
    <2> QED BY <1>6, <2>1 DEF Chunk
  <1>9. \A i \in from + 1 .. r : d[i] \in Byte
    BY <1>2, <1>3
  <1>10. Len(SubSeq(d, from + 1, r)) = r - (from + 1) + 1
    <2> HIDE DEF from, d, r
    <2>1. from + 1 \in Int /\ r \in Int
      BY <1>2, <1>3
    <2>2. Len(SubSeq(d, from + 1, r)) = IF from + 1 <= r THEN r - (from + 1) + 1 ELSE 0
      BY <2>1, <1>9, SubSeqProperties
    <2> QED BY <1>3, <2>2
  <1>11. r - 1 = job.read /\ r - (from + 1) + 1 = job.read + 1 - from
    BY <1>1, <1>2 DEF StoreJob
  <1>12. Filled = SubSeq(d, from + 1, r)
    BY <1>4, <1>5, <1>7
  <1> QED BY <1>1, <1>2, <1>8, <1>10, <1>11, <1>12

-----------------------------------------------------------------------------
LEMMA IInvInit == Init => IInv
  BY DEF Init, Start, IInv, TypeOK, ChunksCover, SizesBounded, Idle, IsMap

(* A step of a loop that returns nothing keeps what is stored; its own     *)
(* types are what is left to show.                                         *)
LEMMA StepKeeps ==
  ASSUME IInv, NEW j, Step(j),
         j \in {Idle} \cup StoreJob \cup CountJob,
         j # Idle => j.read <= Len(data[j.file]),
         j.op = "store" => Len(j.buffer) < Max /\ Made(j)
  PROVE  IInv'
  BY DEF IInv, TypeOK, ChunksCover, SizesBounded, Step, Made

LEMMA BeginKeeps ==
  ASSUME IInv, NEW f \in File, BeginStore(f) \/ BeginCount(f)
  PROVE  IInv'
  <1>0. data[f] \in Seq(Byte) /\ Len(data[f]) \in Nat /\ Reset \in 0..Words - 1 /\ Max \in Nat \ {0}
    BY SizesAssumption, GearAssumption DEF IInv, TypeOK, Reset
  <1>1. CASE BeginStore(f)
    <2> DEFINE j == Storing(f)
    <2>1. j \in StoreJob
      BY <1>0 DEF Storing, StoreJob
    <2>2. j # Idle /\ j.read <= Len(data[j.file]) /\ Len(j.buffer) < Max
      BY <1>0 DEF Storing, Idle
    <2>3. After(<<>>, 1) = 0 /\ SubSeq(data[f], 1, 0) = <<>>
      BY SubSeqEmpty DEF After
    <2>4. Made(j)
      BY <2>3 DEF Made, Storing, Cover
    <2>5. Step(j)
      BY <1>1 DEF BeginStore
    <2> QED BY <2>1, <2>2, <2>4, <2>5, StepKeeps
  <1>2. CASE BeginCount(f)
    <2> DEFINE j == Counting(f)
    <2>1. j \in CountJob
      BY <1>0 DEF Counting, CountJob
    <2>2. j # Idle /\ j.read <= Len(data[j.file]) /\ j.op # "store"
      BY <1>0 DEF Counting, Idle
    <2>3. Step(j)
      BY <1>2 DEF BeginCount
    <2> QED BY <2>1, <2>2, <2>3, StepKeeps
  <1> QED BY <1>1, <1>2

(* A byte that ends no chunk goes into the buffer. *)
LEMMA StoreByteKeeps ==
  ASSUME IInv, StoreByte
  PROVE  IInv'
  <1> DEFINE j == [job EXCEPT !.read = @ + 1, !.hash = Fed, !.buffer = Filled]
             from == After(job.ends, Len(job.ends) + 1)
  <1>1. TypeOK /\ Reading("store") /\ Made(job) /\ ~ChunkEnds
    BY DEF IInv, StoreByte, Reading
  <1>2. Step(j)
    BY DEF StoreByte
  <1>3. job \in StoreJob
    BY <1>1, JobTypes DEF Reading
  <1>4. /\ from \in Nat /\ Filled \in Chunk
        /\ Filled = SubSeq(data[job.file], from + 1, job.read + 1)
        /\ Len(Filled) = Len(job.buffer) + 1 /\ Len(job.buffer) < Max
    BY <1>1, FilledBuffer
  <1>5. Fed \in 0..Words - 1 /\ job.read \in Nat /\ job.read + 1 <= Len(data[job.file])
    BY <1>1, NextByteType
  <1>6. Filled \in Seq(Byte) /\ job.read + 1 \in Nat
        /\ job.chunks \in Seq(Chunk) /\ job.total \in Nat /\ job.ends \in Seq(Nat)
    <2>1. Filled \in Seq(Byte)
      BY <1>4 DEF Chunk
    <2>2. job.chunks \in Seq(Chunk) /\ job.total \in Nat /\ job.ends \in Seq(Nat)
      BY <1>3 DEF StoreJob
    <2>3. job.read + 1 \in Nat
      BY <1>5
    <2> QED BY <2>1, <2>2, <2>3
  <1>7. /\ j \in StoreJob
        /\ j.file = job.file /\ j.read = job.read + 1 /\ j.buffer = Filled
        /\ j.chunks = job.chunks /\ j.total = job.total /\ j.ends = job.ends
    BY <1>3, <1>5, <1>6 DEF StoreJob
  <1> HIDE DEF j
  <1>8. j # Idle
    BY <1>7 DEF Idle, StoreJob
  <1>9. Len(Filled) < Max
    <2>1. Len(Filled) \in Nat
      BY <1>6
    <2> QED BY <1>1, <2>1, SizesAssumption DEF ChunkEnds, ShouldCut
  <1>10. Made(j)
    <2>1. from <= job.read /\ from <= job.read + 1
      BY <1>1, <1>4, <1>5 DEF Made
    <2> QED BY <1>1, <1>4, <1>7, <2>1 DEF Made
  <1>11. j.read <= Len(data[j.file]) /\ Len(j.buffer) < Max
    BY <1>5, <1>7, <1>9
  <1> QED BY <1>2, <1>7, <1>8, <1>10, <1>11, StepKeeps

(* A byte that ends one: the chunk begins where the last one ended. *)
LEMMA StoreChunkKeeps ==
  ASSUME IInv, StoreChunk
  PROVE  IInv'
  <1> DEFINE from == After(job.ends, Len(job.ends) + 1)
             r == job.read + 1
             d == data[job.file]
             c == Append(job.chunks, Filled)
             e == Append(job.ends, r)
             s == job.total + Len(Filled)
             j == [job EXCEPT !.read = r, !.hash = Reset, !.buffer = <<>>,
                              !.chunks = c, !.total = s, !.ends = e]
  <1>1. TypeOK /\ Reading("store") /\ Made(job) /\ ChunkEnds
    BY DEF IInv, StoreChunk, Reading
  <1>2. Step(j)
    BY DEF StoreChunk
  <1>3. job \in StoreJob
    BY <1>1, JobTypes DEF Reading
  <1>4. /\ from \in Nat /\ Filled \in Chunk
        /\ Filled = SubSeq(d, from + 1, r) /\ Len(Filled) = r - from
    <2>1. /\ Filled = SubSeq(data[job.file], from + 1, job.read + 1)
          /\ Len(Filled) = job.read + 1 - from
          /\ from \in Nat /\ Filled \in Chunk
      <3> HIDE DEF r, d, c, e, s, j
      <3> QED BY <1>1, FilledBuffer
    <2>2. job.read \in Nat
      BY <1>3 DEF StoreJob
    <2> HIDE DEF from
    <2> QED BY <2>1, <2>2
  <1>5. Reset \in 0..Words - 1 /\ job.read \in Nat /\ r \in Nat /\ r <= Len(d)
    BY <1>1, NextByteType
  <1>6. /\ job.chunks \in Seq(Chunk) /\ job.ends \in Seq(Nat) /\ Len(job.chunks) \in Nat
        /\ job.total = from /\ Cover(job.chunks, job.ends, d, from)
        /\ \A k \in 1..Len(job.chunks) : Len(job.chunks[k]) \in Min..Max
    BY <1>1, <1>3 DEF StoreJob, Made
  <1>7. Len(Filled) \in Min..Max
    <2>1. Len(Filled) = Len(job.buffer) + 1 /\ Len(job.buffer) < Max
      BY <1>1, FilledBuffer
    <2>2. Len(job.buffer) \in Nat
      BY <1>3 DEF StoreJob
    <2>3. Len(Filled) >= Min
      BY <1>1 DEF ChunkEnds, ShouldCut
    <2> HIDE DEF from, r, d, c, e, s, j
    <2> QED BY <2>1, <2>2, <2>3, SizesAssumption
  <1>8. /\ c \in Seq(Chunk) /\ Len(c) = Len(job.chunks) + 1 /\ c[Len(job.chunks) + 1] = Filled
        /\ \A k \in 1..Len(job.chunks) : c[k] = job.chunks[k]
    <2>1. Filled \in Chunk /\ job.chunks \in Seq(Chunk)
      BY <1>4, <1>6
    <2> QED BY <2>1, AppendProperties
  <1>9. e \in Seq(Nat)
    BY <1>5, <1>6, AppendProperties
  <1>10. s = r
    BY <1>4, <1>5, <1>6
  <1>11. Cover(c, e, d, r)
    <2>1. SubSeq(d, from + 1, r) \in Chunk
      BY <1>4
    <2>2. Cover(Append(job.chunks, SubSeq(d, from + 1, r)), Append(job.ends, r), d, r)
      <3> HIDE DEF from, r, d
      <3> QED BY <2>1, <1>4, <1>5, <1>6, CoverAppend
    <2> QED BY <2>2, <1>4
  <1>12. /\ j \in StoreJob
         /\ j.file = job.file /\ j.read = r /\ j.buffer = <<>>
         /\ j.chunks = c /\ j.total = s /\ j.ends = e
    <2>1. <<>> \in Seq(Byte) /\ s \in Nat
      BY <1>5, <1>10
    <2> HIDE DEF r, c, e, s
    <2> QED BY <2>1, <1>3, <1>5, <1>8, <1>9 DEF StoreJob
  <1> HIDE DEF from, r, d, c, e, s, j
  <1>13. \A k \in 1..Len(c) : Len(c[k]) \in Min..Max
    BY <1>6, <1>7, <1>8
  <1>14. Made(j)
    <2>1. After(e, Len(e) + 1) = r
      BY <1>11 DEF Cover
    <2>2. SubSeq(d, r + 1, r) = <<>>
      BY <1>5, SubSeqEmpty
    <2> QED BY <1>5, <1>10, <1>11, <1>12, <1>13, <2>1, <2>2 DEF Made, d
  <1>15. j # Idle /\ j.read <= Len(data[j.file]) /\ Len(j.buffer) < Max
    BY <1>5, <1>12, SizesAssumption DEF Idle, StoreJob, d
  <1> QED BY <1>2, <1>12, <1>14, <1>15, StepKeeps

(* The end of a file: what was stored, and the tail if there is one, is    *)
(* the file.                                                               *)
LEMMA FinishStoreKeeps ==
  ASSUME IInv, FinishStore
  PROVE  IInv'
  <1> DEFINE f == job.file
             d == data[f]
             n == Len(d)
             from == After(job.ends, Len(job.ends) + 1)
             tail == job.buffer # <<>>
             c == IF tail THEN Append(job.chunks, job.buffer) ELSE job.chunks
             e == IF tail THEN Append(job.ends, job.read) ELSE job.ends
             s == job.total + Len(job.buffer)
  <1>1. /\ TypeOK /\ Made(job) /\ job.op = "store" /\ job.read = n
        /\ recipe' = Put(recipe, f, [file_size |-> s, chunks |-> c])
        /\ ends' = Put(ends, f, e)
        /\ job' = Idle /\ UNCHANGED <<data, sizes>>
    BY DEF IInv, FinishStore, AllRead
  <1>2. job \in StoreJob /\ Len(job.buffer) < Max
    BY <1>1, JobTypes DEF TypeOK
  <1>3. /\ f \in File /\ d \in Seq(Byte) /\ n \in Nat
        /\ job.buffer \in Seq(Byte) /\ Len(job.buffer) \in Nat
        /\ job.chunks \in Seq(Chunk) /\ Len(job.chunks) \in Nat
        /\ job.ends \in Seq(Nat)
    BY <1>1, <1>2 DEF TypeOK, StoreJob
  <1>4. from \in Nat
    BY <1>3 DEF After
  <1>5. /\ Cover(job.chunks, job.ends, d, from) /\ from <= n /\ job.total = from
        /\ job.buffer = SubSeq(d, from + 1, n)
        /\ \A k \in 1..Len(job.chunks) : Len(job.chunks[k]) \in Min..Max
    BY <1>1 DEF Made
  <1>6. Len(job.buffer) = n - from
    <2> HIDE DEF from, d
    <2>1. \A i \in from + 1 .. n : d[i] \in Byte
      BY <1>3, <1>4
    <2>2. Len(SubSeq(d, from + 1, n)) = IF from + 1 <= n THEN n - (from + 1) + 1 ELSE 0
      <3> HIDE DEF n
      <3> QED BY <1>3, <1>4, <2>1, SubSeqProperties
    <2> QED BY <1>3, <1>4, <1>5, <2>2
  <1>7. s = n
    BY <1>3, <1>4, <1>5, <1>6
  <1>8. c \in Seq(Chunk) /\ e \in Seq(Nat) /\ Cover(c, e, d, n)
    <2>1. CASE tail
      <3>1. job.buffer \in Chunk
        BY <2>1, <1>3 DEF Chunk
      <3>2. Cover(Append(job.chunks, SubSeq(d, from + 1, n)), Append(job.ends, n), d, n)
        <4> HIDE DEF from, d, n
        <4> QED BY <3>1, <1>3, <1>4, <1>5, CoverAppend
      <3>3. c = Append(job.chunks, job.buffer) /\ e = Append(job.ends, n)
        BY <2>1, <1>1
      <3> QED BY <3>1, <3>2, <3>3, <1>3, <1>5, AppendProperties
    <2>2. CASE ~tail
      <3>1. from = n
        BY <2>2, <1>3, <1>4, <1>6
      <3> QED BY <2>2, <3>1, <1>3, <1>5
    <2> QED BY <2>1, <2>2
  <1>9. \A k \in 1..Len(c) : Len(c[k]) \in (IF k < Len(c) THEN Min ELSE 1)..Max
    <2>1. CASE tail
      <3>1. Len(job.buffer) \in 1..Max
        BY <2>1, <1>2, <1>3, SizesAssumption
      <3>2. /\ Len(c) = Len(job.chunks) + 1 /\ c[Len(job.chunks) + 1] = job.buffer
            /\ \A k \in 1..Len(job.chunks) : c[k] = job.chunks[k]
        <4>1. job.buffer \in Chunk
          BY <2>1, <1>3 DEF Chunk
        <4> QED BY <2>1, <4>1, <1>3, AppendProperties
      <3>3. ASSUME NEW k \in 1..Len(c)
            PROVE  Len(c[k]) \in (IF k < Len(c) THEN Min ELSE 1)..Max
        <4> HIDE DEF c
        <4>1. CASE k = Len(c)
          BY <4>1, <3>1, <3>2, <1>3
        <4>2. CASE k # Len(c)
          <5>1. k \in 1..Len(job.chunks) /\ k < Len(c)
            BY <4>2, <3>2, <1>3
          <5> QED BY <5>1, <3>2, <1>5
        <4> QED BY <4>1, <4>2
      <3> QED BY <3>3
    <2>2. CASE ~tail
      BY <2>2, <1>5, SizesAssumption
    <2> QED BY <2>1, <2>2
  <1> HIDE DEF f, d, n, from, c, e, s, tail
  <1>10. /\ DOMAIN recipe' = DOMAIN recipe \cup {f} /\ DOMAIN ends' = DOMAIN recipe'
         /\ recipe'[f] = [file_size |-> s, chunks |-> c] /\ ends'[f] = e
         /\ \A g \in DOMAIN recipe \ {f} : recipe'[g] = recipe[g] /\ ends'[g] = ends[g]
    BY <1>1 DEF Put, TypeOK
  <1>11. TypeOK'
    <2>1. IsMap(recipe, File, [file_size : Nat, chunks : Seq(Chunk)]) /\ IsMap(ends, File, Seq(Nat))
      BY <1>1 DEF TypeOK
    <2>2. [file_size |-> s, chunks |-> c] \in [file_size : Nat, chunks : Seq(Chunk)]
      BY <1>3, <1>7, <1>8
    <2>3. IsMap(recipe', File, [file_size : Nat, chunks : Seq(Chunk)])
      BY <1>1, <1>3, <2>1, <2>2 DEF IsMap, Put
    <2>4. IsMap(ends', File, Seq(Nat))
      BY <1>1, <1>3, <1>8, <2>1 DEF IsMap, Put
    <2> QED BY <1>1, <1>10, <2>3, <2>4 DEF TypeOK, Idle
  <1>12. ChunksCover'
    <2>1. ASSUME NEW g \in DOMAIN recipe'
          PROVE  /\ Cover(recipe'[g].chunks, ends'[g], data'[g], Len(data'[g]))
                 /\ recipe'[g].file_size = Len(data'[g])
      <3>1. CASE g = f
        BY <3>1, <1>1, <1>7, <1>8, <1>10 DEF d, n
      <3>2. CASE g # f
        BY <3>2, <1>1, <1>10 DEF IInv, ChunksCover
      <3> QED BY <3>1, <3>2
    <2> QED BY <2>1 DEF ChunksCover, Cover, After
  <1>13. SizesBounded'
    <2>1. ASSUME NEW g \in DOMAIN recipe'
          PROVE  LET b == recipe'[g].chunks
                 IN \A k \in 1..Len(b) : Len(b[k]) \in (IF k < Len(b) THEN Min ELSE 1)..Max
      <3>1. CASE g = f
        BY <3>1, <1>9, <1>10
      <3>2. CASE g # f
        BY <3>2, <1>10 DEF IInv, SizesBounded
      <3> QED BY <3>1, <3>2
    <2> QED BY <2>1 DEF SizesBounded
  <1>14. job'.op # "store"
    BY <1>1 DEF Idle
  <1> QED BY <1>11, <1>12, <1>13, <1>14 DEF IInv

(* The loop that counts stores nothing. *)
LEMMA CountKeeps ==
  ASSUME IInv, CountByte \/ CountChunk \/ FinishCount
  PROVE  IInv'
  <1>1. TypeOK /\ Min \in Nat \ {0} /\ Max \in Nat /\ Min <= Max
    BY SizesAssumption DEF IInv
  <1> DEFINE Z == Seq(1..Max)
             N == 0..Max - 1
             H == 0..Words - 1
  <1>0. CountJob = [op : {"count"}, file : File, read : Nat, hash : H, size : N, sizes : Z]
    BY DEF CountJob
  <1>2. job \in CountJob
    BY <1>1, JobTypes DEF CountByte, CountChunk, FinishCount, Reading, AllRead
  <1>3. job.size \in 0..Max - 1 /\ job.size + 1 \in 1..Max /\ job.sizes \in Seq(1..Max)
    BY <1>1, <1>2 DEF CountJob
  <1>4. CASE CountByte
    <2> DEFINE j == [job EXCEPT !.read = @ + 1, !.hash = Fed, !.size = @ + 1]
    <2>1. Step(j) /\ Reading("count") /\ ~ShouldCut(job.size + 1, Fed)
      BY <1>4 DEF CountByte, Reading
    <2>2. Fed \in 0..Words - 1 /\ job.read \in Nat /\ job.read + 1 <= Len(data[job.file])
      BY <1>1, <2>1, NextByteType
    <2>3. job.size + 1 \in 0..Max - 1
      BY <1>1, <1>3, <2>1 DEF ShouldCut
    <2>4. j \in CountJob /\ j.file = job.file /\ j.read = job.read + 1
      <3>1. job.sizes \in Z /\ Fed \in H /\ job.size + 1 \in N /\ job.read + 1 \in Nat
        BY <1>3, <2>2, <2>3
      <3> HIDE DEF Z, N, H
      <3> QED BY <1>0, <1>2, <3>1
    <2> HIDE DEF j
    <2> QED BY <2>1, <2>2, <2>4, StepKeeps DEF CountJob, Idle
  <1>5. CASE CountChunk
    <2> DEFINE j == [job EXCEPT !.read = @ + 1, !.hash = Reset, !.size = 0,
                                !.sizes = Append(@, job.size + 1)]
    <2>1. Step(j) /\ Reading("count")
      BY <1>5 DEF CountChunk, Reading
    <2>2. Reset \in 0..Words - 1 /\ job.read \in Nat /\ job.read + 1 <= Len(data[job.file])
      BY <1>1, <2>1, NextByteType
    <2>3. 0 \in 0..Max - 1 /\ Append(job.sizes, job.size + 1) \in Seq(1..Max)
      BY <1>1, <1>3, AppendProperties
    <2>4. j \in CountJob /\ j.file = job.file /\ j.read = job.read + 1
      <3>1. Append(job.sizes, job.size + 1) \in Z /\ Reset \in H /\ 0 \in N /\ job.read + 1 \in Nat
        BY <1>3, <2>2, <2>3
      <3> HIDE DEF Z, N, H
      <3> QED BY <1>0, <1>2, <3>1
    <2> HIDE DEF j
    <2> QED BY <2>1, <2>2, <2>4, StepKeeps DEF CountJob, Idle
  <1>6. CASE FinishCount
    <2> DEFINE z == IF job.size > 0 THEN Append(job.sizes, job.size) ELSE job.sizes
    <2>1. z \in Seq(1..Max)
      <3>1. CASE job.size > 0
        <4>1. job.size \in 1..Max
          BY <1>1, <1>3, <3>1
        <4> QED BY <4>1, <3>1, <1>3, AppendProperties
      <3>2. CASE ~(job.size > 0)
        BY <3>2, <1>3
      <3> QED BY <3>1, <3>2
    <2>2. sizes' = Put(sizes, job.file, z) /\ job' = Idle /\ UNCHANGED <<data, recipe, ends>>
      BY <1>6 DEF FinishCount
    <2> HIDE DEF z
    <2>3. IsMap(sizes', File, Seq(1..Max))
      BY <1>1, <1>2, <2>1, <2>2 DEF TypeOK, IsMap, Put, CountJob
    <2>4. TypeOK'
      BY <1>1, <2>2, <2>3 DEF TypeOK, Idle
    <2>5. ChunksCover' /\ SizesBounded'
      BY <2>2 DEF IInv, ChunksCover, SizesBounded, Cover, After
    <2> QED BY <2>2, <2>4, <2>5 DEF IInv, Idle
  <1> QED BY <1>4, <1>5, <1>6

LEMMA IInvNext == IInv /\ [Next]_vars => IInv'
  <1> SUFFICES ASSUME IInv, [Next]_vars PROVE IInv'
    OBVIOUS
  <1>1. CASE \E f \in File : BeginStore(f) \/ BeginCount(f)
    BY <1>1, BeginKeeps
  <1>2. CASE StoreByte
    BY <1>2, StoreByteKeeps
  <1>3. CASE StoreChunk
    BY <1>3, StoreChunkKeeps
  <1>4. CASE FinishStore
    BY <1>4, FinishStoreKeeps
  <1>5. CASE StoreFails
    BY <1>5, StepKeeps DEF StoreFails, Idle
  <1>6. CASE CountByte \/ CountChunk \/ FinishCount
    BY <1>6, CountKeeps
  <1>7. CASE UNCHANGED vars
    BY <1>7 DEF vars, IInv, TypeOK, ChunksCover, SizesBounded, Made, Cover, After
  <1> QED BY <1>1, <1>2, <1>3, <1>4, <1>5, <1>6, <1>7 DEF Next

LEMMA Inductive == Spec => []IInv
  BY IInvInit, IInvNext, PTL DEF Spec

-----------------------------------------------------------------------------
(* The two loops keep their types: the hash is a word, and a buffer is     *)
(* always shorter than Max, so no chunk can become longer.                 *)
THEOREM TypeCorrect == Spec => []TypeOK
  <1>1. IInv => TypeOK
    BY DEF IInv
  <1> QED BY <1>1, Inductive, PTL

(* Whatever the bytes, the gear table and the limits, the chunks of a      *)
(* recipe are the file, in order, with nothing left out or doubled, and    *)
(* file_size is its length: what create_recipe_from_data cuts,             *)
(* read_file_by_id puts together.                                          *)
THEOREM CoverCorrect == Spec => []ChunksCover
  <1>1. IInv => ChunksCover
    BY DEF IInv
  <1> QED BY <1>1, Inductive, PTL

(* Every chunk but the last has Min to Max bytes, and the last is not      *)
(* empty and no longer than Max.                                           *)
THEOREM SizesCorrect == Spec => []SizesBounded
  <1>1. IInv => SizesBounded
    BY DEF IInv
  <1> QED BY <1>1, Inductive, PTL

-----------------------------------------------------------------------------
(* Both loops as one function of the bytes.                                *)

(* What holds of a number whenever it holds of all smaller ones holds of   *)
(* every number: the set of exceptions has no least element.               *)
LEMMA NoLeastException ==
  ASSUME NEW S, \A n \in Nat : (\A m \in Nat : m < n => m \in S) => n \in S
  PROVE  Nat \subseteq S
  <1> SUFFICES ASSUME Nat \ S # {} PROVE FALSE
    OBVIOUS
  <1>1. PICK n \in Nat \ S : \A m \in Nat \ S : ~ (<<m, n>> \in OpToRel(<, Nat))
    BY NatLessThanWellFounded, WFMin
  <1>2. \A m \in Nat \ S : ~ (m < n)
    BY <1>1 DEF OpToRel
  <1>3. \A m \in Nat : m < n => m \in S
    BY <1>2
  <1> QED BY <1>1, <1>3

(* The hash, and where the chunks so far end.                              *)
At(hash, e) == [hash |-> hash, ends |-> e]

(* Where the chunk that is being read begins. *)
From(e) == After(e, Len(e) + 1)

LEMMA FromType == ASSUME NEW e \in Seq(Nat) PROVE From(e) \in Nat
  BY DEF From, After

(* The p-th byte is b. *)
Advance(s, p, b) ==
  LET x == FeedByte(s.hash, b)
  IN IF ShouldCut(p - From(s.ends), x) THEN At(Reset, Append(s.ends, p)) ELSE At(x, s.ends)

IsScan(s, d, n) ==
  s = [p \in 0..n |-> IF p = 0 THEN At(Reset, <<>>) ELSE Advance(s[p - 1], p, d[p])]
Scan(d) == CHOOSE s : IsScan(s, d, Len(d))

LEMMA ScanExists ==
  ASSUME NEW d, NEW N \in Nat
  PROVE  \E s : IsScan(s, d, N)
  <1> DEFINE Up(w, p) == Advance(w, p, d[p])
             z == At(Reset, <<>>)
             Is(f, n) == f = [k \in 0..n |-> IF k = 0 THEN z ELSE Up(f[k - 1], k)]
             M == {n \in Nat : \E f : Is(f, n)}
  <1>0. \A f, n : Is(f, n) <=> IsScan(f, d, n)
    BY DEF IsScan
  <1> HIDE DEF Up, M, z
  <1>1. ASSUME NEW n \in Nat, \A m \in Nat : m < n => m \in M
        PROVE  n \in M
    <2>1. CASE n = 0
      <3> DEFINE f == [k \in 0..0 |-> z]
      <3>1. Is(f, 0)
        OBVIOUS
      <3> QED BY <2>1, <3>1 DEF M
    <2>2. CASE n > 0
      <3>1. n - 1 \in Nat /\ n - 1 \in M
        BY <1>1, <2>2
      <3>2. PICK g : Is(g, n - 1)
        BY <3>1 DEF M
      <3> DEFINE f == [k \in 0..n |-> IF k = n THEN Up(g[n - 1], n) ELSE g[k]]
      <3>3. \A k \in 0..(n - 1) : f[k] = g[k]
        OBVIOUS
      <3>4. \A k \in 0..(n - 1) : g[k] = IF k = 0 THEN z ELSE Up(g[k - 1], k)
        BY <3>2
      <3>5. f[n] = Up(g[n - 1], n)
        OBVIOUS
      <3>6. f = [k \in 0..n |-> f[k]]
        OBVIOUS
      <3> HIDE DEF f
      <3>7. ASSUME NEW k \in 0..n
            PROVE  f[k] = IF k = 0 THEN z ELSE Up(f[k - 1], k)
        <4>1. CASE k = n
          BY <2>2, <3>3, <3>5, <4>1
        <4>2. CASE k < n
          <5>1. k \in 0..(n - 1) /\ (k > 0 => k - 1 \in 0..(n - 1))
            BY <4>2
          <5> QED BY <3>3, <3>4, <5>1
        <4> QED BY <4>1, <4>2
      <3>8. Is(f, n)
        BY <3>6, <3>7
      <3> QED BY <3>8 DEF M
    <2> QED BY <2>1, <2>2
  <1>2. Nat \subseteq M
    BY <1>1, NoLeastException
  <1> QED BY <1>0, <1>2 DEF M

LEMMA Scanning ==
  ASSUME NEW d \in Seq(Byte)
  PROVE  /\ Scan(d)[0] = At(Reset, <<>>)
         /\ \A p \in 1..Len(d) : Scan(d)[p] = Advance(Scan(d)[p - 1], p, d[p])
  <1>1. Len(d) \in Nat
    OBVIOUS
  <1>2. IsScan(Scan(d), d, Len(d))
    BY <1>1, ScanExists DEF Scan
  <1>3. \A p \in 0..Len(d) :
          Scan(d)[p] = IF p = 0 THEN At(Reset, <<>>) ELSE Advance(Scan(d)[p - 1], p, d[p])
    BY <1>2 DEF IsScan
  <1> QED BY <1>1, <1>3

(* Where the chunks end, the tail's included, and how long they are.       *)
Closed(e, n) == IF From(e) < n THEN Append(e, n) ELSE e
AllEnds(d) == Closed(Scan(d)[Len(d)].ends, Len(d))
Lengths(e) == [k \in 1..Len(e) |-> e[k] - After(e, k)]

LEMMA LengthsAppend ==
  ASSUME NEW e \in Seq(Nat), NEW n \in Nat
  PROVE  Lengths(Append(e, n)) = Append(Lengths(e), n - From(e))
  <1> DEFINE a == Append(e, n)
             b == Append(Lengths(e), n - From(e))
             m == Len(e)
  <1>1. m \in Nat /\ Len(a) = m + 1 /\ a[m + 1] = n /\ \A k \in 1..m : a[k] = e[k]
    BY AppendProperties
  <1>2. From(e) \in Nat /\ \A k \in 1..m + 1 : After(e, k) \in Nat /\ After(a, k) = After(e, k)
    <2> HIDE DEF a
    <2> QED BY <1>1 DEF After, From
  <1>3. /\ Lengths(e) \in Seq(Int) /\ Len(Lengths(e)) = m
        /\ \A k \in 1..m : Lengths(e)[k] = e[k] - After(e, k)
    <2>1. \A k \in 1..m : e[k] - After(e, k) \in Int
      BY <1>2
    <2> QED BY <1>1, <2>1 DEF Lengths
  <1>4. /\ b \in Seq(Int) /\ Len(b) = m + 1 /\ b[m + 1] = n - From(e)
        /\ \A k \in 1..m : b[k] = Lengths(e)[k]
    <2>1. n - From(e) \in Int
      BY <1>2
    <2> QED BY <1>3, <2>1, AppendProperties
  <1>5. Lengths(a) = [k \in 1..m + 1 |-> a[k] - After(a, k)]
    BY <1>1 DEF Lengths
  <1>6. b = [k \in 1..m + 1 |-> b[k]]
    BY <1>4
  <1> HIDE DEF a, b, m
  <1>7. \A k \in 1..m + 1 : a[k] - After(a, k) = b[k]
    <2> TAKE k \in 1..m + 1
    <2>1. CASE k \in 1..m
      BY <1>1, <1>2, <1>3, <1>4, <2>1
    <2>2. CASE k = m + 1
      BY <1>1, <1>2, <1>4, <2>2 DEF From, m
    <2> QED BY <1>1, <2>1, <2>2
  <1>8. Lengths(a) = b
    BY <1>5, <1>6, <1>7
  <1> QED BY <1>8 DEF a, b

-----------------------------------------------------------------------------
(* Both loops follow that function.                                        *)

Follows(j, s) ==
  /\ j.op = "store" => j.hash = s.hash /\ j.ends = s.ends
  /\ j.op = "count" =>
       /\ j.hash = s.hash /\ j.size = j.read - From(s.ends) /\ j.sizes = Lengths(s.ends)
ScanIInv ==
  /\ IInv
  /\ \A f \in DOMAIN ends : ends[f] = AllEnds(data[f])
  /\ \A f \in DOMAIN sizes : sizes[f] = Lengths(AllEnds(data[f]))
  /\ job # Idle => /\ Follows(job, Scan(data[job.file])[job.read])
                   /\ Scan(data[job.file])[job.read].ends \in Seq(Nat)

(* A step of a loop keeps it when its job follows. *)
LEMMA FollowKeeps ==
  ASSUME ScanIInv, IInv', NEW j, Step(j),
         j # Idle => /\ Follows(j, Scan(data[j.file])[j.read])
                     /\ Scan(data[j.file])[j.read].ends \in Seq(Nat)
  PROVE  ScanIInv'
  BY DEF ScanIInv, Step

LEMMA BeginFollows ==
  ASSUME ScanIInv, IInv', NEW f \in File, BeginStore(f) \/ BeginCount(f)
  PROVE  ScanIInv'
  <1>1. data[f] \in Seq(Byte)
    BY DEF ScanIInv, IInv, TypeOK
  <1>2. Scan(data[f])[0] = At(Reset, <<>>)
    BY <1>1, Scanning
  <1>3. /\ Scan(data[f])[0].hash = Reset /\ Scan(data[f])[0].ends = <<>>
        /\ From(<<>>) = 0 /\ Lengths(<<>>) = <<>> /\ <<>> \in Seq(Nat)
    BY <1>2 DEF At, From, After, Lengths
  <1>4. CASE BeginStore(f)
    <2> DEFINE j == Storing(f)
    <2>1. j.file = f /\ j.read = 0 /\ Follows(j, Scan(data[f])[0])
      BY <1>3 DEF Storing, Follows
    <2>2. Step(j)
      BY <1>4 DEF BeginStore
    <2> HIDE DEF j
    <2> QED BY <1>3, <2>1, <2>2, FollowKeeps
  <1>5. CASE BeginCount(f)
    <2> DEFINE j == Counting(f)
    <2>1. j.file = f /\ j.read = 0 /\ Follows(j, Scan(data[f])[0])
      BY <1>3 DEF Counting, Follows
    <2>2. Step(j)
      BY <1>5 DEF BeginCount
    <2> HIDE DEF j
    <2> QED BY <1>3, <2>1, <2>2, FollowKeeps
  <1> QED BY <1>4, <1>5

(* What the next byte does to what is followed. *)
LEMMA NextScan ==
  ASSUME ScanIInv, NEW op \in {"store", "count"}, Reading(op)
  PROVE  LET s == Scan(data[job.file])[job.read]
             t == Scan(data[job.file])[job.read + 1]
             n == job.read + 1
         IN /\ Follows(job, s) /\ s.ends \in Seq(Nat) /\ n \in Nat
            /\ t = IF ShouldCut(n - From(s.ends), Fed)
                   THEN At(Reset, Append(s.ends, n)) ELSE At(Fed, s.ends)
            /\ Append(s.ends, n) \in Seq(Nat)
  <1> DEFINE d == data[job.file]
             s == Scan(d)[job.read]
             n == job.read + 1
  <1>1. /\ TypeOK /\ job # Idle /\ job.op = op /\ job.read < Len(d)
        /\ Follows(job, s) /\ s.ends \in Seq(Nat)
    BY JobTypes DEF ScanIInv, IInv, Reading
  <1>2. job.file \in File /\ job.read \in Nat /\ n <= Len(d)
    BY <1>1, NextByteType
  <1>3. d \in Seq(Byte) /\ n \in 1..Len(d) /\ n - 1 = job.read
    BY <1>1, <1>2 DEF TypeOK
  <1>4. Scan(d)[n] = Advance(s, n, d[n])
    BY <1>3, Scanning
  <1>5. s.hash = job.hash
    BY <1>1 DEF Follows
  <1>6. Fed = FeedByte(s.hash, d[n])
    BY <1>5 DEF Fed, NextByte
  <1>7. Append(s.ends, n) \in Seq(Nat)
    BY <1>1, <1>2, AppendProperties
  <1> QED BY <1>1, <1>2, <1>4, <1>6, <1>7 DEF Advance

LEMMA StoreFollows ==
  ASSUME ScanIInv, IInv', StoreByte \/ StoreChunk
  PROVE  ScanIInv'
  <1> DEFINE s == Scan(data[job.file])[job.read]
             t == Scan(data[job.file])[job.read + 1]
             n == job.read + 1
  <1>1. TypeOK /\ Reading("store") /\ Made(job)
    BY DEF ScanIInv, IInv, StoreByte, StoreChunk, Reading
  <1>2. /\ Follows(job, s) /\ s.ends \in Seq(Nat) /\ n \in Nat
        /\ t = IF ShouldCut(n - From(s.ends), Fed)
               THEN At(Reset, Append(s.ends, n)) ELSE At(Fed, s.ends)
        /\ Append(s.ends, n) \in Seq(Nat)
    BY <1>1, NextScan DEF ScanIInv
  <1>3. job \in StoreJob /\ job.ends = s.ends
    BY <1>1, <1>2, JobTypes DEF Reading, Follows
  <1>4. ChunkEnds <=> ShouldCut(n - From(s.ends), Fed)
    <2> HIDE DEF s, t
    <2>1. Len(Filled) = job.read + 1 - After(job.ends, Len(job.ends) + 1)
      BY <1>1, FilledBuffer
    <2>2. Len(Filled) = n - From(job.ends)
      <3>1. job.read \in Nat /\ job.ends \in Seq(Nat)
        BY <1>3 DEF StoreJob
      <3>2. From(job.ends) \in Nat
        BY <3>1 DEF From, After
      <3>3. Len(Filled) = job.read + 1 - From(job.ends)
        BY <2>1, Zenon DEF From
      <3> QED BY <3>1, <3>2, <3>3
    <2>3. From(job.ends) = From(s.ends)
      BY <1>3
    <2>4. Len(Filled) = n - From(s.ends)
      BY <2>2, <2>3, Zenon
    <2> HIDE DEF n
    <2> QED BY <2>4 DEF ChunkEnds
  <1> HIDE DEF s, t, n
  <1>5. CASE StoreByte
    <2> DEFINE j == [job EXCEPT !.read = @ + 1, !.hash = Fed, !.buffer = Filled]
    <2>1. Step(j) /\ ~ChunkEnds
      BY <1>5 DEF StoreByte
    <2>2. /\ j.op = "store" /\ j.file = job.file /\ j.read = n
          /\ j.hash = Fed /\ j.ends = job.ends
      BY <1>3 DEF StoreJob, n
    <2> HIDE DEF j
    <2>3. t = At(Fed, s.ends)
      BY <1>2, <1>4, <2>1
    <2>4. Follows(j, t) /\ t.ends \in Seq(Nat)
      BY <1>2, <1>3, <2>2, <2>3 DEF Follows, At
    <2> QED BY <2>1, <2>2, <2>4, FollowKeeps DEF t, n
  <1>6. CASE StoreChunk
    <2> DEFINE j == [job EXCEPT !.read = @ + 1, !.hash = Reset, !.buffer = <<>>,
                                !.chunks = Append(@, Filled), !.total = @ + Len(Filled),
                                !.ends = Append(@, job.read + 1)]
    <2>1. Step(j) /\ ChunkEnds
      BY <1>6 DEF StoreChunk
    <2>2. /\ j.op = "store" /\ j.file = job.file /\ j.read = n
          /\ j.hash = Reset /\ j.ends = Append(job.ends, n)
      BY <1>3 DEF StoreJob, n
    <2> HIDE DEF j
    <2>3. t = At(Reset, Append(s.ends, n))
      BY <1>2, <1>4, <2>1
    <2>4. Follows(j, t) /\ t.ends \in Seq(Nat)
      BY <1>2, <1>3, <2>2, <2>3 DEF Follows, At
    <2> QED BY <2>1, <2>2, <2>4, FollowKeeps DEF t, n
  <1> QED BY <1>5, <1>6

LEMMA CountFollows ==
  ASSUME ScanIInv, IInv', CountByte \/ CountChunk
  PROVE  ScanIInv'
  <1> DEFINE s == Scan(data[job.file])[job.read]
             t == Scan(data[job.file])[job.read + 1]
             n == job.read + 1
  <1>1. TypeOK /\ Reading("count")
    BY DEF ScanIInv, IInv, CountByte, CountChunk, Reading
  <1>2. /\ Follows(job, s) /\ s.ends \in Seq(Nat) /\ n \in Nat
        /\ t = IF ShouldCut(n - From(s.ends), Fed)
               THEN At(Reset, Append(s.ends, n)) ELSE At(Fed, s.ends)
        /\ Append(s.ends, n) \in Seq(Nat)
    BY <1>1, NextScan DEF ScanIInv
  <1>3. job \in CountJob /\ job.size = job.read - From(s.ends) /\ job.sizes = Lengths(s.ends)
    BY <1>1, <1>2, JobTypes DEF Reading, Follows
  <1>4. From(s.ends) \in Nat /\ job.read \in Nat
    BY <1>2, <1>3 DEF From, After, CountJob
  <1>5. job.size + 1 = n - From(s.ends)
    BY <1>3, <1>4 DEF n
  <1> HIDE DEF s, t, n
  <1>6. CASE CountByte
    <2> DEFINE j == [job EXCEPT !.read = @ + 1, !.hash = Fed, !.size = @ + 1]
    <2>1. Step(j) /\ ~ShouldCut(job.size + 1, Fed)
      BY <1>6 DEF CountByte
    <2>2. /\ j.op = "count" /\ j.file = job.file /\ j.read = n
          /\ j.hash = Fed /\ j.size = job.size + 1 /\ j.sizes = job.sizes
      BY <1>3 DEF CountJob, n
    <2> HIDE DEF j
    <2>3. t = At(Fed, s.ends)
      BY <1>2, <1>5, <2>1
    <2>4. Follows(j, t) /\ t.ends \in Seq(Nat)
      BY <1>2, <1>3, <1>5, <2>2, <2>3 DEF Follows, At
    <2> QED BY <2>1, <2>2, <2>4, FollowKeeps DEF t, n
  <1>7. CASE CountChunk
    <2> DEFINE j == [job EXCEPT !.read = @ + 1, !.hash = Reset, !.size = 0,
                                !.sizes = Append(@, job.size + 1)]
    <2>1. Step(j) /\ ShouldCut(job.size + 1, Fed)
      BY <1>7 DEF CountChunk
    <2>2. /\ j.op = "count" /\ j.file = job.file /\ j.read = n
          /\ j.hash = Reset /\ j.size = 0 /\ j.sizes = Append(job.sizes, job.size + 1)
      BY <1>3 DEF CountJob, n
    <2> HIDE DEF j
    <2>3. t.hash = Reset /\ t.ends = Append(s.ends, n)
      BY <1>2, <1>5, <2>1 DEF At
    <2>4. From(t.ends) = n
      <3>1. Len(Append(s.ends, n)) = Len(s.ends) + 1 /\ Append(s.ends, n)[Len(s.ends) + 1] = n
            /\ Len(s.ends) \in Nat
        BY <1>2, AppendProperties
      <3> QED BY <2>3, <3>1 DEF From, After
    <2>5. Lengths(t.ends) = Append(job.sizes, job.size + 1)
      BY <1>2, <1>3, <1>5, <2>3, LengthsAppend
    <2>7. j.size = j.read - From(t.ends)
      BY <1>2, <2>2, <2>4
    <2>6. Follows(j, t) /\ t.ends \in Seq(Nat)
      BY <1>2, <2>7, <2>2, <2>3, <2>4, <2>5 DEF Follows
    <2> QED BY <2>1, <2>2, <2>6, FollowKeeps DEF t, n
  <1> QED BY <1>6, <1>7

(* The buffer holds what follows the last chunk. *)
LEMMA BufferLength ==
  ASSUME IInv, AllRead("store")
  PROVE  Len(job.buffer) = Len(data[job.file]) - From(job.ends) /\ From(job.ends) \in Nat
  <1> DEFINE d == data[job.file]
             from == From(job.ends)
             n == Len(d)
  <1>1. TypeOK /\ Made(job) /\ job \in StoreJob /\ job.read = n
    BY JobTypes DEF IInv, AllRead
  <1>2. d \in Seq(Byte) /\ n \in Nat /\ from \in Nat
    BY <1>1 DEF TypeOK, StoreJob, From, After
  <1>3. from <= n /\ job.buffer = SubSeq(d, from + 1, n)
    BY <1>1 DEF Made, From
  <1> HIDE DEF from
  <1>4. \A i \in from + 1 .. n : d[i] \in Byte
    BY <1>2
  <1>5. Len(SubSeq(d, from + 1, n)) = IF from + 1 <= n THEN n - (from + 1) + 1 ELSE 0
    <2> HIDE DEF n
    <2> QED BY <1>2, <1>4, SubSeqProperties
  <1> HIDE DEF d
  <1> QED BY <1>2, <1>3, <1>5 DEF from, d

LEMMA FinishStoreFollows ==
  ASSUME ScanIInv, IInv', FinishStore
  PROVE  ScanIInv'
  <1> DEFINE f == job.file
             d == data[f]
             e == Scan(d)[Len(d)].ends
  <1>1. TypeOK /\ job \in StoreJob /\ job # Idle /\ job.op = "store" /\ job.read = Len(d)
    BY JobTypes DEF ScanIInv, IInv, FinishStore, AllRead
  <1>2. job.ends = e
    BY <1>1 DEF ScanIInv, Follows
  <1>3. Len(job.buffer) = Len(d) - From(e) /\ From(e) \in Nat /\ Len(d) \in Nat
    <2>1. Len(job.buffer) = Len(d) - From(job.ends) /\ From(job.ends) \in Nat
      BY BufferLength DEF ScanIInv, FinishStore
    <2>2. Len(d) \in Nat
      BY <1>1 DEF TypeOK, StoreJob
    <2> HIDE DEF e
    <2> QED BY <1>2, <2>1, <2>2
  <1>4. job.buffer # <<>> <=> From(e) < Len(d)
    <2>1. job.buffer # <<>> <=> Len(job.buffer) > 0
      <3>1. job.buffer \in Seq(Byte)
        BY <1>1 DEF StoreJob
      <3> QED BY <3>1
    <2> HIDE DEF e, d
    <2> QED BY <1>3, <2>1
  <1>5. ends' = Put(ends, f, Closed(e, Len(d))) /\ UNCHANGED <<data, sizes>> /\ job' = Idle
    <2>1. ends' = Put(ends, f, IF job.buffer # <<>> THEN Append(job.ends, job.read) ELSE job.ends)
      BY DEF FinishStore
    <2> HIDE DEF e
    <2> QED BY <1>1, <1>2, <1>4, <2>1 DEF FinishStore, Closed
  <1>6. ends' = Put(ends, f, AllEnds(d))
    BY <1>5 DEF AllEnds
  <1> HIDE DEF d, e
  <1>7. \A g \in DOMAIN ends' : ends'[g] = AllEnds(data'[g])
    BY <1>5, <1>6 DEF Put, ScanIInv, d
  <1> QED BY <1>5, <1>7 DEF ScanIInv

LEMMA FinishCountFollows ==
  ASSUME ScanIInv, IInv', FinishCount
  PROVE  ScanIInv'
  <1> DEFINE f == job.file
             d == data[f]
             n == Len(d)
             e == Scan(d)[n].ends
  <1>1. TypeOK /\ job \in CountJob /\ job # Idle /\ job.op = "count" /\ job.read = n
    BY JobTypes DEF ScanIInv, IInv, FinishCount, AllRead
  <1>2. job.size = n - From(e) /\ job.sizes = Lengths(e) /\ e \in Seq(Nat)
    BY <1>1 DEF ScanIInv, Follows
  <1>3. n \in Nat /\ From(e) \in Nat
    <2>1. n \in Nat
      BY <1>1 DEF TypeOK, CountJob
    <2> HIDE DEF e
    <2> QED BY <1>2, <2>1 DEF From, After
  <1>4. /\ sizes' = Put(sizes, f, IF job.size > 0 THEN Append(job.sizes, job.size) ELSE job.sizes)
        /\ UNCHANGED <<data, recipe, ends>> /\ job' = Idle
    BY DEF FinishCount
  <1>5. (IF job.size > 0 THEN Append(job.sizes, job.size) ELSE job.sizes) = Lengths(Closed(e, n))
    <2> HIDE DEF n, e
    <2>1. CASE From(e) < n
      <3>1. job.size > 0 /\ Closed(e, n) = Append(e, n)
        BY <1>2, <1>3, <2>1 DEF Closed
      <3> QED BY <1>2, <1>3, <3>1, LengthsAppend
    <2>2. CASE ~(From(e) < n)
      <3>1. ~(job.size > 0) /\ Closed(e, n) = e
        BY <1>2, <1>3, <2>2 DEF Closed
      <3> QED BY <1>2, <3>1
    <2> QED BY <2>1, <2>2
  <1>6. sizes' = Put(sizes, f, Lengths(AllEnds(d)))
    BY <1>4, <1>5 DEF AllEnds
  <1> HIDE DEF d, n, e
  <1>7. \A g \in DOMAIN sizes' : sizes'[g] = Lengths(AllEnds(data'[g]))
    BY <1>4, <1>6 DEF Put, ScanIInv, d
  <1> QED BY <1>4, <1>7 DEF ScanIInv

LEMMA ScanIInvNext == ScanIInv /\ [Next]_vars => ScanIInv'
  <1> SUFFICES ASSUME ScanIInv, [Next]_vars PROVE ScanIInv'
    OBVIOUS
  <1>0. IInv'
    BY IInvNext DEF ScanIInv
  <1>1. CASE \E f \in File : BeginStore(f) \/ BeginCount(f)
    BY <1>0, <1>1, BeginFollows
  <1>2. CASE StoreByte \/ StoreChunk
    BY <1>0, <1>2, StoreFollows
  <1>3. CASE FinishStore
    BY <1>0, <1>3, FinishStoreFollows
  <1>4. CASE StoreFails
    BY <1>0, <1>4, FollowKeeps DEF StoreFails
  <1>5. CASE CountByte \/ CountChunk
    BY <1>0, <1>5, CountFollows
  <1>6. CASE FinishCount
    BY <1>0, <1>6, FinishCountFollows
  <1>7. CASE UNCHANGED vars
    BY <1>0, <1>7 DEF vars, ScanIInv
  <1> QED BY <1>1, <1>2, <1>3, <1>4, <1>5, <1>6, <1>7 DEF Next

LEMMA ScanIInvInit == Init => ScanIInv
  <1> SUFFICES ASSUME Init PROVE ScanIInv
    OBVIOUS
  <1>1. IInv
    BY IInvInit
  <1>2. ends = <<>> /\ sizes = <<>> /\ job = Idle
    BY DEF Init, Start
  <1>3. DOMAIN ends = {}
    BY <1>2
  <1>4. DOMAIN sizes = {}
    BY <1>2
  <1> QED BY <1>1, <1>2, <1>3, <1>4 DEF ScanIInv

LEMMA ScanInductive == Spec => []ScanIInv
  BY ScanIInvInit, ScanIInvNext, PTL DEF Spec

(* Where each number is above the one before, all are in order. *)
LEMMA Increasing ==
  ASSUME NEW e \in Seq(Nat), \A k \in 1..Len(e) : k > 1 => e[k - 1] < e[k]
  PROVE  \A i, j \in 1..Len(e) : i <= j => e[i] <= e[j]
  <1> DEFINE S == {n \in Nat : \A i \in 1..Len(e) : i + n <= Len(e) => e[i] <= e[i + n]}
  <1>1. ASSUME NEW n \in Nat, \A m \in Nat : m < n => m \in S
        PROVE  n \in S
    <2> SUFFICES ASSUME NEW i \in 1..Len(e), i + n <= Len(e) PROVE e[i] <= e[i + n]
      OBVIOUS
    <2>0. Len(e) \in Nat /\ e[i] \in Nat /\ e[i + n] \in Nat
      OBVIOUS
    <2>1. CASE n = 0
      BY <2>0, <2>1
    <2>2. CASE n > 0
      <3>0. n - 1 \in Nat /\ n - 1 < n
        BY <2>2
      <3>1. n - 1 \in S /\ i + (n - 1) <= Len(e) /\ i + (n - 1) = (i + n) - 1
        <4>1. n - 1 \in S
          BY <1>1, <3>0
        <4> HIDE DEF S
        <4> QED BY <4>1, <2>0, <3>0
      <3>2. e[i] <= e[i + (n - 1)] /\ e[i + (n - 1)] \in Nat
        BY <2>0, <2>2, <3>1
      <3>3. e[(i + n) - 1] < e[i + n]
        BY <2>0, <2>2
      <3> QED BY <2>0, <3>1, <3>2, <3>3
    <2> QED BY <2>1, <2>2
  <1>2. Nat \subseteq S
    <2> HIDE DEF S
    <2> QED BY <1>1, NoLeastException
  <1>3. ASSUME NEW i \in 1..Len(e), NEW j \in 1..Len(e), i <= j
        PROVE  e[i] <= e[j]
    <2>1. j - i \in Nat /\ i + (j - i) = j /\ i + (j - i) <= Len(e)
      BY <1>3
    <2>2. j - i \in S
      BY <1>2, <2>1
    <2> QED BY <2>1, <2>2
  <1> QED BY <1>3

(* The chunks of a recipe: none is empty, they end within the data, and    *)
(* their lengths are those between their ends.                             *)
LEMMA ChunksEnd ==
  ASSUME IInv, NEW f \in DOMAIN recipe
  PROVE  LET c == recipe[f].chunks
             e == ends[f]
             d == data[f]
         IN /\ c \in Seq(Chunk) /\ e \in Seq(Nat) /\ d \in Seq(Byte) /\ Len(c) = Len(e)
            /\ \A k \in 1..Len(c) : /\ After(e, k) \in Nat /\ After(e, k) < e[k]
                                    /\ e[k] <= Len(d)
                                    /\ c[k] = SubSeq(d, After(e, k) + 1, e[k])
            /\ From(e) = Len(d)
            /\ \A i, j \in 1..Len(e) : i <= j => e[i] <= e[j]
  <1> DEFINE c == recipe[f].chunks
             e == ends[f]
             d == data[f]
  <1>1. /\ c \in Seq(Chunk) /\ e \in Seq(Nat) /\ d \in Seq(Byte)
    BY DEF IInv, TypeOK, IsMap
  <1>2. /\ Len(c) = Len(e) /\ From(e) = Len(d)
        /\ \A k \in 1..Len(c) : c[k] = SubSeq(d, After(e, k) + 1, e[k])
    BY DEF IInv, ChunksCover, Cover, From
  <1> HIDE DEF c, e, d
  <1>3. ASSUME NEW k \in 1..Len(c)
        PROVE  After(e, k) \in Nat /\ After(e, k) < e[k]
    <2>1. e[k] \in Nat /\ After(e, k) \in Nat
      BY <1>1, <1>2 DEF After
    <2>2. c[k] # <<>>
      BY <1>1 DEF Chunk
    <2>3. ~(After(e, k) < e[k]) => SubSeq(d, After(e, k) + 1, e[k]) = <<>>
      BY <2>1, SubSeqEmpty
    <2> QED BY <1>2, <2>1, <2>2, <2>3
  <1>4. \A i, j \in 1..Len(e) : i <= j => e[i] <= e[j]
    <2>1. \A k \in 1..Len(e) : k > 1 => e[k - 1] < e[k]
      BY <1>1, <1>2, <1>3 DEF After
    <2> QED BY <1>1, <2>1, Increasing
  <1>5. \A k \in 1..Len(c) : e[k] <= Len(d)
    <2>2. Len(e) > 0 => e[Len(e)] = Len(d)
      BY <1>1, <1>2 DEF From, After
    <2>4. ASSUME NEW k \in 1..Len(c)
          PROVE  e[k] <= Len(d)
      <3>1. k \in 1..Len(e) /\ Len(e) \in Nat
        BY <1>1, <1>2
      <3>2. Len(e) > 0
        BY <3>1
      <3>3. k <= Len(e) /\ Len(e) \in 1..Len(e)
        BY <3>1, <3>2
      <3> QED BY <1>4, <2>2, <3>1, <3>2, <3>3
    <2> QED BY <2>4
  <1> QED BY <1>1, <1>2, <1>3, <1>4, <1>5 DEF c, e, d

(* cdc-stats tells the truth: the lengths that chunk_lengths gives for a   *)
(* file are those of the chunks that storing it makes, whatever the order  *)
(* and the number of the two loops' runs and of the failed ones between.   *)
THEOREM PredictionCorrect == Spec => []SizesPredicted
  <1>1. ASSUME ScanIInv
        PROVE  SizesPredicted
    <2> SUFFICES ASSUME NEW f \in DOMAIN recipe \cap DOMAIN sizes
                 PROVE  sizes[f] = [k \in 1..Len(recipe[f].chunks) |-> Len(recipe[f].chunks[k])]
      BY DEF SizesPredicted
    <2> DEFINE c == recipe[f].chunks
               e == ends[f]
               d == data[f]
    <2>1. f \in DOMAIN ends
      BY <1>1 DEF ScanIInv, IInv, TypeOK
    <2>2. sizes[f] = Lengths(e)
      BY <1>1, <2>1 DEF ScanIInv
    <2>3. /\ c \in Seq(Chunk) /\ e \in Seq(Nat) /\ d \in Seq(Byte) /\ Len(c) = Len(e)
          /\ \A k \in 1..Len(c) : /\ After(e, k) \in Nat /\ After(e, k) < e[k]
                                  /\ e[k] <= Len(d)
                                  /\ c[k] = SubSeq(d, After(e, k) + 1, e[k])
      BY <1>1, ChunksEnd DEF ScanIInv
    <2> HIDE DEF c, e, d
    <2>4. ASSUME NEW k \in 1..Len(c)
          PROVE  Len(c[k]) = e[k] - After(e, k)
      <3>1. /\ After(e, k) \in Nat /\ e[k] \in Nat /\ After(e, k) < e[k] /\ e[k] <= Len(d)
            /\ Len(d) \in Nat /\ c[k] = SubSeq(d, After(e, k) + 1, e[k])
        BY <2>3
      <3>2. \A i \in After(e, k) + 1 .. e[k] : d[i] \in Byte
        BY <2>3, <3>1
      <3> DEFINE m == After(e, k) + 1
                 n == e[k]
      <3>3. m \in Int /\ n \in Int /\ m <= n /\ n - m + 1 = n - After(e, k)
        BY <3>1
      <3>4. \A i \in m .. n : d[i] \in Byte
        BY <3>2
      <3>5. c[k] = SubSeq(d, m, n)
        BY <3>1
      <3> HIDE DEF m
      <3>6. Len(SubSeq(d, m, n)) = n - m + 1
        <4> HIDE DEF n
        <4> QED BY <3>3, <3>4, SubSeqProperties
      <3> QED BY <3>3, <3>5, <3>6
    <2>5. [k \in 1..Len(c) |-> Len(c[k])] = Lengths(e)
      BY <2>3, <2>4 DEF Lengths
    <2> QED BY <2>2, <2>5 DEF c
  <1> QED BY <1>1, ScanInductive, PTL

-----------------------------------------------------------------------------
(* Where chunks end alike, the chunks that follow are alike.               *)

(* What a scan has done when it is at p: where its ends are, a chunk had   *)
(* just ended.                                                             *)
Cut(s, q, j) == s.hash = Reset /\ s.ends \in Seq(Nat) /\ Len(s.ends) = j /\ From(s.ends) = q
Settled(d, p) ==
  LET e == Scan(d)[p].ends
  IN /\ e \in Seq(Nat)
     /\ \A j \in 1..Len(e) : e[j] \in 1..p /\ Cut(Scan(d)[e[j]], e[j], j)

LEMMA ScanSettled ==
  ASSUME NEW d \in Seq(Byte), NEW p \in 0..Len(d)
  PROVE  Settled(d, p)
  <1> DEFINE S == {n \in Nat : n <= Len(d) => Settled(d, n)}
  <1>1. ASSUME NEW n \in Nat, \A m \in Nat : m < n => m \in S
        PROVE  n \in S
    <2> SUFFICES ASSUME n <= Len(d) PROVE Settled(d, n)
      OBVIOUS
    <2>1. CASE n = 0
      <3>1. Scan(d)[n].ends = <<>>
        BY <2>1, Scanning DEF At
      <3> QED BY <3>1 DEF Settled
    <2>2. CASE n > 0
      <3> DEFINE s == Scan(d)[n - 1]
                 t == Scan(d)[n]
      <3>1. n \in 1..Len(d) /\ n - 1 \in Nat /\ n - 1 < n /\ n - 1 <= Len(d)
        BY <2>2
      <3>2. Settled(d, n - 1)
        BY <1>1, <3>1
      <3>3. s.ends \in Seq(Nat) /\ Len(s.ends) \in Nat
        BY <3>2 DEF Settled
      <3>4. t = Advance(s, n, d[n])
        BY <3>1, Scanning
      <3>5. CASE t.ends = s.ends
        BY <3>1, <3>2, <3>5 DEF Settled
      <3>6. CASE t.hash = Reset /\ t.ends = Append(s.ends, n)
        <4> DEFINE e == Append(s.ends, n)
                   L == Len(s.ends)
        <4>1. /\ e \in Seq(Nat) /\ Len(e) = L + 1 /\ e[L + 1] = n
              /\ \A j \in 1..L : e[j] = s.ends[j]
          BY <3>3, AppendProperties
        <4>2. Cut(t, n, L + 1)
          <5>1. From(e) = n
            BY <3>3, <4>1 DEF From, After
          <5> QED BY <3>6, <4>1, <5>1 DEF Cut
        <4>3. t.ends = e
          BY <3>6
        <4> HIDE DEF e
        <4>4. ASSUME NEW j \in 1..Len(e)
              PROVE  e[j] \in 1..n /\ Cut(Scan(d)[e[j]], e[j], j)
          <5>1. CASE j = L + 1
            BY <3>1, <4>1, <4>2, <5>1
          <5>2. CASE j \in 1..L
            <6>1. s.ends[j] \in 1..n - 1 /\ Cut(Scan(d)[s.ends[j]], s.ends[j], j)
              BY <3>2, <5>2 DEF Settled
            <6>2. e[j] = s.ends[j]
              BY <4>1, <5>2
            <6>3. s.ends[j] \in 1..n
              BY <3>1, <6>1
            <6> QED BY <6>1, <6>2, <6>3, Zenon
          <5>3. j \in 1..L \/ j = L + 1
            <6>1. Len(e) = L + 1 /\ L \in Nat
              BY <3>3, <4>1
            <6> HIDE DEF L
            <6> QED BY <6>1
          <5> HIDE DEF L
          <5> QED BY <5>1, <5>2, <5>3
        <4> QED BY <4>1, <4>3, <4>4 DEF Settled
      <3> QED BY <3>4, <3>5, <3>6 DEF Advance, At
    <2> QED BY <2>1, <2>2
  <1>2. Nat \subseteq S
    <2> HIDE DEF S
    <2> QED BY <1>1, NoLeastException
  <1> QED BY <1>2

(* After x ends of e and y of g, which were at a and at b, they go on      *)
(* alike.                                                                  *)
Aligned(e, g, x, y, a, b) ==
  /\ e \in Seq(Nat) /\ g \in Seq(Nat)
  /\ Len(e) >= x /\ Len(g) >= y /\ Len(e) - x = Len(g) - y
  /\ From(e) - a = From(g) - b
  /\ \A m \in 1..Len(e) - x : e[x + m] - a = g[y + m] - b

LEMMA AlignedAppend ==
  ASSUME NEW e, NEW g, NEW x \in Nat, NEW y \in Nat, NEW a \in Nat, NEW b \in Nat,
         Aligned(e, g, x, y, a, b), NEW i \in Nat
  PROVE  Aligned(Append(e, a + i), Append(g, b + i), x, y, a, b)
  <1> DEFINE e2 == Append(e, a + i)
             g2 == Append(g, b + i)
             L == Len(e)
             M == Len(g)
  <1>1. e \in Seq(Nat) /\ g \in Seq(Nat) /\ L \in Nat /\ M \in Nat
    BY DEF Aligned
  <1>2. L >= x /\ M >= y /\ L - x = M - y /\ \A m \in 1..L - x : e[x + m] - a = g[y + m] - b
    BY DEF Aligned
  <1>3. /\ e2 \in Seq(Nat) /\ Len(e2) = L + 1 /\ e2[L + 1] = a + i
        /\ \A j \in 1..L : e2[j] = e[j]
    BY <1>1, AppendProperties
  <1>4. /\ g2 \in Seq(Nat) /\ Len(g2) = M + 1 /\ g2[M + 1] = b + i
        /\ \A j \in 1..M : g2[j] = g[j]
    BY <1>1, AppendProperties
  <1> HIDE DEF e2, g2, L, M
  <1>5. From(e2) = a + i /\ From(g2) = b + i
    BY <1>1, <1>3, <1>4 DEF From, After
  <1>6. ASSUME NEW m \in 1..Len(e2) - x
        PROVE  e2[x + m] - a = g2[y + m] - b
    <2>1. CASE m = L + 1 - x
      <3>1. x + m = L + 1 /\ y + m = M + 1
        BY <1>1, <1>2, <2>1
      <3> QED BY <1>3, <1>4, <3>1
    <2>2. CASE m \in 1..L - x
      <3>1. x + m \in 1..L /\ y + m \in 1..M
        BY <1>1, <1>2, <2>2
      <3> QED BY <1>2, <1>3, <1>4, <2>2, <3>1
    <2> QED BY <1>1, <1>2, <1>3, <2>1, <2>2
  <1>7. Len(e2) >= x /\ Len(g2) >= y /\ Len(e2) - x = Len(g2) - y /\ From(e2) - a = From(g2) - b
    BY <1>1, <1>2, <1>3, <1>4, <1>5
  <1>8. Aligned(e2, g2, x, y, a, b)
    BY <1>3, <1>4, <1>6, <1>7 DEF Aligned
  <1> QED BY <1>8 DEF e2, g2

(* The same bytes after two cuts bring the same cuts. *)
LEMMA ScansAlign ==
  ASSUME NEW c \in Seq(Byte), NEW d \in Seq(Byte),
         NEW a \in 0..Len(c), NEW b \in 0..Len(d), NEW x \in Nat, NEW y \in Nat,
         Cut(Scan(c)[a], a, x), Cut(Scan(d)[b], b, y),
         Len(c) - a = Len(d) - b, \A i \in 1..Len(c) - a : c[a + i] = d[b + i],
         NEW r \in 0..Len(c) - a
  PROVE  /\ Scan(c)[a + r].hash = Scan(d)[b + r].hash
         /\ Aligned(Scan(c)[a + r].ends, Scan(d)[b + r].ends, x, y, a, b)
  <1> DEFINE Alike(i) == /\ Scan(c)[a + i].hash = Scan(d)[b + i].hash
                         /\ Aligned(Scan(c)[a + i].ends, Scan(d)[b + i].ends, x, y, a, b)
             S == {i \in Nat : i <= Len(c) - a => Alike(i)}
  <1>0. Len(c) \in Nat /\ Len(d) \in Nat /\ a \in Nat /\ b \in Nat
    OBVIOUS
  <1>1. ASSUME NEW i \in Nat, \A m \in Nat : m < i => m \in S
        PROVE  i \in S
    <2> SUFFICES ASSUME i <= Len(c) - a PROVE Alike(i)
      OBVIOUS
    <2>1. CASE i = 0
      <3>1. a + i = a /\ b + i = b
        BY <1>0, <2>1
      <3> DEFINE e == Scan(c)[a].ends
                 g == Scan(d)[b].ends
      <3>2. e \in Seq(Nat) /\ Len(e) = x /\ From(e) = a
        BY DEF Cut
      <3>3. g \in Seq(Nat) /\ Len(g) = y /\ From(g) = b
        BY DEF Cut
      <3>4. Scan(c)[a].hash = Scan(d)[b].hash
        BY DEF Cut
      <3> HIDE DEF e, g
      <3>5. Aligned(e, g, x, y, a, b)
        BY <1>0, <3>2, <3>3 DEF Aligned
      <3> QED BY <3>1, <3>4, <3>5 DEF e, g
    <2>2. CASE i > 0
      <3> DEFINE s == Scan(c)[a + (i - 1)]
                 t == Scan(d)[b + (i - 1)]
      <3>1. i - 1 \in Nat /\ i - 1 < i /\ i - 1 <= Len(c) - a
        BY <1>0, <2>2
      <3>2. Alike(i - 1)
        BY <1>1, <3>1
      <3>3. s.hash = t.hash /\ Aligned(s.ends, t.ends, x, y, a, b)
        BY <3>2
      <3>4. /\ a + i \in 1..Len(c) /\ (a + i) - 1 = a + (i - 1)
            /\ b + i \in 1..Len(d) /\ (b + i) - 1 = b + (i - 1) /\ c[a + i] = d[b + i]
        BY <1>0, <2>2
      <3>5. /\ Scan(c)[a + i] = Advance(s, a + i, c[a + i])
            /\ Scan(d)[b + i] = Advance(t, b + i, c[a + i])
        <4>1. Scan(c)[a + i] = Advance(Scan(c)[(a + i) - 1], a + i, c[a + i])
          BY <3>4, Scanning
        <4>2. Scan(d)[b + i] = Advance(Scan(d)[(b + i) - 1], b + i, d[b + i])
          BY <3>4, Scanning
        <4> QED BY <3>4, <4>1, <4>2
      <3> HIDE DEF s, t
      <3>6. (a + i) - From(s.ends) = (b + i) - From(t.ends)
        <4> DEFINE e == s.ends
                   g == t.ends
                   F == From(e)
                   G == From(g)
        <4>1. e \in Seq(Nat) /\ g \in Seq(Nat) /\ F - a = G - b
          BY <3>3 DEF Aligned
        <4> HIDE DEF e, g
        <4>2. F \in Nat /\ G \in Nat
          BY <4>1, FromType
        <4> HIDE DEF F, G
        <4>3. (a + i) - F = (b + i) - G
          BY <1>0, <4>1, <4>2
        <4> QED BY <4>3 DEF F, G, e, g
      <3> DEFINE h == FeedByte(s.hash, c[a + i])
                 u == Scan(c)[a + i]
                 v == Scan(d)[b + i]
      <3>7. /\ u = IF ShouldCut((a + i) - From(s.ends), h)
                   THEN At(Reset, Append(s.ends, a + i)) ELSE At(h, s.ends)
            /\ v = IF ShouldCut((a + i) - From(s.ends), h)
                   THEN At(Reset, Append(t.ends, b + i)) ELSE At(h, t.ends)
        BY <3>3, <3>5, <3>6, Zenon DEF Advance
      <3>8. Aligned(Append(s.ends, a + i), Append(t.ends, b + i), x, y, a, b)
        BY <1>0, <3>3, AlignedAppend
      <3> HIDE DEF h, u, v
      <3>9. u.hash = v.hash /\ Aligned(u.ends, v.ends, x, y, a, b)
        <4>1. CASE ShouldCut((a + i) - From(s.ends), h)
          BY <3>7, <3>8, <4>1 DEF At
        <4>2. CASE ~ShouldCut((a + i) - From(s.ends), h)
          BY <3>3, <3>7, <4>2 DEF At
        <4> QED BY <4>1, <4>2
      <3> QED BY <3>9 DEF u, v
    <2> QED BY <2>1, <2>2
  <1>2. Nat \subseteq S
    <2> HIDE DEF S
    <2> QED BY <1>1, NoLeastException
  <1>3. r \in Nat /\ r <= Len(c) - a
    BY <1>0
  <1> QED BY <1>2, <1>3

(* Where a chunk of a recipe begins, a chunk had ended or nothing was read *)
(* yet.                                                                    *)
LEMMA CutAtStart ==
  ASSUME ScanIInv, NEW f \in DOMAIN recipe, NEW k \in 1..Len(ends[f]) + 1,
         After(ends[f], k) < Len(data[f])
  PROVE  /\ data[f] \in Seq(Byte) /\ After(ends[f], k) \in 0..Len(data[f])
         /\ Cut(Scan(data[f])[After(ends[f], k)], After(ends[f], k), k - 1)
  <1> DEFINE d == data[f]
             e == ends[f]
             n == Len(d)
             x == Scan(d)[n].ends
             a == After(e, k)
  <1>1. e \in Seq(Nat) /\ d \in Seq(Byte) /\ n \in Nat /\ From(e) = n
    BY ChunksEnd DEF ScanIInv
  <1>2. e = Closed(x, n)
    BY DEF ScanIInv, IInv, TypeOK, AllEnds
  <1>3. Settled(d, n)
    BY <1>1, ScanSettled
  <1>4. x \in Seq(Nat) /\ \A j \in 1..Len(x) : x[j] \in 1..n /\ Cut(Scan(d)[x[j]], x[j], j)
    BY <1>3 DEF Settled
  <1> HIDE DEF e, x, n
  <1>5. a \in Nat /\ a < n
    <2>1. k \in 1..Len(e) + 1
      BY DEF e
    <2>2. a \in Nat
      BY <1>1, <2>1 DEF After
    <2> QED BY <2>2 DEF e, n
  <1>6. CASE k = 1
    <2>1. a = 0
      BY <1>6 DEF After
    <2>2. Scan(d)[0].hash = Reset /\ Scan(d)[0].ends = <<>>
      BY <1>1, Scanning DEF At
    <2>3. From(<<>>) = 0 /\ Len(<<>>) = 0 /\ <<>> \in Seq(Nat)
      BY DEF From, After
    <2>4. Cut(Scan(d)[a], a, k - 1)
      <3>1. Cut(Scan(d)[0], 0, 0)
        BY <2>2, <2>3 DEF Cut
      <3>2. k - 1 = 0
        BY <1>6
      <3> HIDE DEF a
      <3> QED BY <2>1, <3>1, <3>2
    <2> QED BY <1>1, <1>5, <2>4 DEF e, n
  <1>7. CASE k # 1
    <2>1. k \in Int /\ k > 1 /\ k <= Len(e) + 1 /\ Len(e) \in Nat /\ Len(x) \in Nat
      BY <1>1, <1>4, <1>7 DEF e
    <2>2. a = e[k - 1]
      BY <1>7 DEF After
    <2>3. k - 1 \in 1..Len(e) /\ k - 1 # Len(e)
      <3>1. CASE k - 1 = Len(e)
        <4>1. From(e) = a
          BY <2>1, <2>2, <3>1 DEF From, After
        <4> QED BY <1>1, <1>5, <4>1
      <3> QED BY <2>1, <3>1
    <2>4. k - 1 \in 1..Len(x) /\ e[k - 1] = x[k - 1]
      <3>1. CASE From(x) < n
        <4>1. e = Append(x, n)
          BY <1>2, <3>1 DEF Closed
        <4>2. Len(e) = Len(x) + 1 /\ \A j \in 1..Len(x) : e[j] = x[j]
          BY <1>1, <1>4, <4>1, AppendProperties
        <4> QED BY <2>1, <2>3, <4>2
      <3>2. CASE ~(From(x) < n)
        BY <1>2, <2>3, <3>2 DEF Closed
      <3> QED BY <3>1, <3>2
    <2>5. Cut(Scan(d)[a], a, k - 1)
      BY <1>4, <2>2, <2>4
    <2> QED BY <1>1, <1>5, <2>5 DEF e, n
  <1> QED BY <1>6, <1>7

LEMMA SameOrder ==
  ASSUME NEW p \in Nat, NEW q \in Nat, NEW a \in Nat, NEW b \in Nat, NEW r \in Nat,
         p - a = q - b
  PROVE  p < a + r <=> q < b + r
  OBVIOUS

(* So do the ends of recipes. *)
LEMMA RecipesAlign ==
  ASSUME ScanIInv, NEW f \in DOMAIN recipe, NEW g \in DOMAIN recipe,
         NEW k \in 1..Len(ends[f]) + 1, NEW l \in 1..Len(ends[g]) + 1,
         NEW a, NEW b, a = After(ends[f], k), b = After(ends[g], l),
         a < Len(data[f]), b < Len(data[g]),
         Len(data[f]) - a = Len(data[g]) - b,
         \A i \in 1..Len(data[f]) - a : data[f][a + i] = data[g][b + i]
  PROVE  Aligned(ends[f], ends[g], k - 1, l - 1, a, b)
  <1> DEFINE c == data[f]
             d == data[g]
             m == Len(c)
             n == Len(d)
             r == m - a
             x == Scan(c)[m].ends
             y == Scan(d)[n].ends
  <1>1. c \in Seq(Byte) /\ a \in 0..m /\ Cut(Scan(c)[a], a, k - 1)
    BY CutAtStart
  <1>2. d \in Seq(Byte) /\ b \in 0..n /\ Cut(Scan(d)[b], b, l - 1)
    BY CutAtStart
  <1>3. m \in Nat /\ n \in Nat /\ a \in Nat /\ b \in Nat /\ k - 1 \in Nat /\ l - 1 \in Nat
    <2>1. ends[f] \in Seq(Nat) /\ ends[g] \in Seq(Nat)
      BY ChunksEnd DEF ScanIInv
    <2>2. k - 1 \in Nat /\ l - 1 \in Nat
      BY <2>1
    <2> QED BY <1>1, <1>2, <2>2
  <1>4. r \in 0..m - a /\ r \in Nat /\ a + r = m /\ b + r = n
    <2>1. m - a = n - b /\ a <= m
      BY <1>1, <1>3
    <2> HIDE DEF m, n
    <2> QED BY <1>3, <2>1
  <1>5. Aligned(Scan(c)[a + r].ends, Scan(d)[b + r].ends, k - 1, l - 1, a, b)
    <2>1. Len(c) - a = Len(d) - b /\ \A i \in 1..Len(c) - a : c[a + i] = d[b + i]
      OBVIOUS
    <2>2. /\ c \in Seq(Byte) /\ a \in 0..Len(c) /\ Cut(Scan(c)[a], a, k - 1)
          /\ d \in Seq(Byte) /\ b \in 0..Len(d) /\ Cut(Scan(d)[b], b, l - 1)
          /\ k - 1 \in Nat /\ l - 1 \in Nat /\ r \in 0..Len(c) - a
      BY <1>1, <1>2, <1>3, <1>4
    <2> HIDE DEF c, d, r
    <2> QED BY <2>1, <2>2, ScansAlign
  <1>6. Aligned(x, y, k - 1, l - 1, a, b)
    BY <1>4, <1>5
  <1>7. ends[f] = Closed(x, m) /\ ends[g] = Closed(y, n)
    BY DEF ScanIInv, IInv, TypeOK, AllEnds
  <1> HIDE DEF c, d, m, n, r, x, y
  <1>8. From(x) < m <=> From(y) < n
    <2> DEFINE p == From(x)
               q == From(y)
    <2>1. p \in Nat /\ q \in Nat /\ p - a = q - b
      <3>1. x \in Seq(Nat) /\ y \in Seq(Nat) /\ From(x) - a = From(y) - b
        BY <1>6 DEF Aligned
      <3> QED BY <3>1, FromType
    <2> HIDE DEF p, q
    <2>3. r \in Nat /\ a \in Nat /\ b \in Nat
      BY <1>3, <1>4
    <2>4. p < a + r <=> q < b + r
      BY <2>1, <2>3, SameOrder
    <2>5. a + r = m /\ b + r = n
      BY <1>4
    <2>2. p < m <=> q < n
      BY <2>4, <2>5, Zenon
    <2> QED BY <2>2 DEF p, q
  <1>9. Aligned(Append(x, m), Append(y, n), k - 1, l - 1, a, b)
    <2>1. Aligned(Append(x, a + r), Append(y, b + r), k - 1, l - 1, a, b)
      BY <1>3, <1>4, <1>6, AlignedAppend
    <2> QED BY <1>4, <2>1
  <1> QED BY <1>6, <1>7, <1>8, <1>9 DEF Closed

-----------------------------------------------------------------------------
(* What is left of a sequence. *)
LEMMA RestProperties ==
  ASSUME NEW S, NEW s \in Seq(S), NEW k \in 1..Len(s) + 1
  PROVE  /\ Rest(s, k) \in Seq(S) /\ Len(Rest(s, k)) = Len(s) + 1 - k
         /\ \A i \in 1..Len(s) + 1 - k : Rest(s, k)[i] = s[k - 1 + i]
  <1>1. Len(s) \in Nat /\ k \in Int /\ Len(s) \in Int /\ k >= 1 /\ k <= Len(s) + 1
    OBVIOUS
  <1>2. \A i \in k..Len(s) : s[i] \in S
    BY <1>1
  <1>3. /\ SubSeq(s, k, Len(s)) \in Seq(S)
        /\ Len(SubSeq(s, k, Len(s))) = IF k <= Len(s) THEN Len(s) - k + 1 ELSE 0
        /\ \A i \in 1..Len(s) - k + 1 : SubSeq(s, k, Len(s))[i] = s[k + i - 1]
    BY <1>1, <1>2, SubSeqProperties
  <1>4. \A i \in 1..Len(s) + 1 - k : k + i - 1 = k - 1 + i /\ i \in 1..Len(s) - k + 1
    BY <1>1
  <1> QED BY <1>1, <1>3, <1>4 DEF Rest

(* Rests that agree place by place are equal. *)
SameFrom(s, t, k, l) ==
  /\ s \in Seq(Chunk) /\ t \in Seq(Chunk) /\ k \in 1..Len(s) + 1 /\ l \in 1..Len(t) + 1
  /\ Len(s) - (k - 1) = Len(t) - (l - 1)
  /\ \A m \in 1..Len(s) - (k - 1) : s[(k - 1) + m] = t[(l - 1) + m]
LEMMA RestsEqual ==
  ASSUME NEW s, NEW t, NEW k, NEW l, SameFrom(s, t, k, l)
  PROVE  Rest(s, k) = Rest(t, l)
  <1>0. /\ s \in Seq(Chunk) /\ t \in Seq(Chunk) /\ k \in 1..Len(s) + 1 /\ l \in 1..Len(t) + 1
        /\ Len(s) - (k - 1) = Len(t) - (l - 1)
        /\ \A m \in 1..Len(s) - (k - 1) : s[(k - 1) + m] = t[(l - 1) + m]
    BY DEF SameFrom
  <1> DEFINE u == Rest(s, k)
             v == Rest(t, l)
             n == Len(s) - (k - 1)
  <1>1. /\ u \in Seq(Chunk) /\ Len(u) = Len(s) + 1 - k
        /\ \A i \in 1..Len(s) + 1 - k : u[i] = s[k - 1 + i]
    BY <1>0, RestProperties
  <1>2. /\ v \in Seq(Chunk) /\ Len(v) = Len(t) + 1 - l
        /\ \A i \in 1..Len(t) + 1 - l : v[i] = t[l - 1 + i]
    BY <1>0, RestProperties
  <1>3. /\ Len(s) \in Nat /\ Len(t) \in Nat /\ k \in Int /\ l \in Int
        /\ k <= Len(s) + 1 /\ l <= Len(t) + 1
    BY <1>0
  <1>4. n = Len(s) + 1 - k /\ n = Len(t) + 1 - l /\ n \in Nat
    BY <1>0, <1>3
  <1> HIDE DEF u, v, n
  <1>5. Len(u) = n /\ Len(v) = n
    BY <1>1, <1>2, <1>4
  <1>6. \A i \in 1..n : u[i] = v[i]
    <2> TAKE i \in 1..n
    <2>1. u[i] = s[(k - 1) + i] /\ v[i] = t[(l - 1) + i]
      <3>1. k - 1 + i = (k - 1) + i /\ l - 1 + i = (l - 1) + i
        BY <1>3, <1>4
      <3> QED BY <1>1, <1>2, <1>4, <3>1
    <2>2. s[(k - 1) + i] = t[(l - 1) + i]
      BY <1>0 DEF n
    <2> QED BY <2>1, <2>2
  <1>7. u = v
    BY <1>1, <1>2, <1>5, <1>6, SeqEqual
  <1> QED BY <1>7 DEF u, v

(* And what equal rests say of the sequences. *)
SameRest(s, t, a, b) ==
  /\ s \in Seq(Byte) /\ t \in Seq(Byte) /\ a \in 0..Len(s) /\ b \in 0..Len(t)
  /\ Rest(s, a + 1) = Rest(t, b + 1)
SameBytes(s, t, a, b) ==
  /\ Len(s) - a = Len(t) - b
  /\ \A i \in 1..Len(s) - a : s[a + i] = t[b + i]
LEMMA RestsAgree ==
  ASSUME NEW s, NEW t, NEW a, NEW b, SameRest(s, t, a, b)
  PROVE  SameBytes(s, t, a, b)
  <1>0. /\ s \in Seq(Byte) /\ t \in Seq(Byte) /\ a \in 0..Len(s) /\ b \in 0..Len(t)
        /\ Rest(s, a + 1) = Rest(t, b + 1)
    BY DEF SameRest
  <1>1. /\ Len(s) \in Nat /\ Len(t) \in Nat /\ a \in Nat /\ b \in Nat
        /\ a + 1 \in 1..Len(s) + 1 /\ b + 1 \in 1..Len(t) + 1
    BY <1>0
  <1> DEFINE k == a + 1
             l == b + 1
  <1>2. k \in 1..Len(s) + 1 /\ l \in 1..Len(t) + 1 /\ k - 1 = a /\ l - 1 = b
    BY <1>1
  <1>3. Rest(s, k) = Rest(t, l)
    BY <1>0
  <1> HIDE DEF k, l
  <1>4. Len(Rest(s, k)) = Len(s) + 1 - k /\ Len(Rest(t, l)) = Len(t) + 1 - l
    BY <1>0, <1>2, RestProperties
  <1>5. /\ \A i \in 1..Len(s) + 1 - k : Rest(s, k)[i] = s[k - 1 + i]
        /\ \A i \in 1..Len(t) + 1 - l : Rest(t, l)[i] = t[l - 1 + i]
    BY <1>0, <1>2, RestProperties
  <1>6. Len(s) + 1 - k = Len(s) - a /\ Len(t) + 1 - l = Len(t) - b
    BY <1>1, <1>2
  <1>7. Len(s) - a = Len(t) - b
    BY <1>3, <1>4, <1>6
  <1>8. ASSUME NEW i \in 1..Len(s) - a
        PROVE  s[a + i] = t[b + i]
    <2>1. k - 1 + i = a + i /\ l - 1 + i = b + i
      BY <1>1, <1>2
    <2>2. i \in 1..Len(s) + 1 - k /\ i \in 1..Len(t) + 1 - l
      BY <1>6, <1>7
    <2> QED BY <1>3, <1>5, <2>1, <2>2
  <1> QED BY <1>7, <1>8 DEF SameBytes

(* The bytes of a chunk, when what was before it is taken away. *)
Within(c, a, p, u) ==
  /\ c \in Seq(Byte) /\ a \in Nat /\ p \in Nat /\ u \in Nat
  /\ a <= p /\ p < u /\ u <= Len(c)
Part(c, p, u) == SubSeq(c, p + 1, u)
SamePart(c, d, a, b, p, q, u, v) ==
  /\ SameBytes(c, d, a, b) /\ Within(c, a, p, u) /\ Within(d, b, q, v)
  /\ p - a = q - b /\ u - a = v - b
LEMMA SameChunk ==
  ASSUME NEW c, NEW d, NEW a, NEW b, NEW p, NEW q, NEW u, NEW v,
         SamePart(c, d, a, b, p, q, u, v)
  PROVE  Part(c, p, u) = Part(d, q, v)
  <1>1. /\ c \in Seq(Byte) /\ a \in Nat /\ p \in Nat /\ u \in Nat
        /\ a <= p /\ p < u /\ u <= Len(c)
    BY DEF Within, SamePart
  <1>2. /\ d \in Seq(Byte) /\ b \in Nat /\ q \in Nat /\ v \in Nat
        /\ b <= q /\ q < v /\ v <= Len(d)
    BY DEF Within, SamePart
  <1>3. \A i \in 1..Len(c) - a : c[a + i] = d[b + i]
    BY DEF SameBytes, SamePart
  <1>4. p - a = q - b /\ u - a = v - b
    BY DEF SamePart
  <1> DEFINE x == SubSeq(c, p + 1, u)
             y == SubSeq(d, q + 1, v)
             n == u - p
  <1>5. Len(c) \in Nat /\ Len(d) \in Nat /\ n \in Nat /\ n = v - q /\ p + 1 \in Int /\ q + 1 \in Int
        /\ p + 1 <= u /\ q + 1 <= v /\ u - (p + 1) + 1 = n /\ v - (q + 1) + 1 = n
    BY <1>1, <1>2, <1>4
  <1>6. x \in Seq(Byte) /\ Len(x) = n /\ \A i \in 1..n : x[i] = c[p + i]
    <2>1. \A i \in p + 1 .. u : c[i] \in Byte
      BY <1>5, <1>1
    <2>2. /\ x \in Seq(Byte) /\ Len(x) = IF p + 1 <= u THEN u - (p + 1) + 1 ELSE 0
          /\ \A i \in 1..u - (p + 1) + 1 : x[i] = c[(p + 1) + i - 1]
      BY <1>5, <1>1, <2>1, SubSeqProperties
    <2>3. \A i \in 1..n : (p + 1) + i - 1 = p + i
      BY <1>5, <1>1
    <2> HIDE DEF x, n
    <2> QED BY <1>5, <2>2, <2>3
  <1>7. y \in Seq(Byte) /\ Len(y) = n /\ \A i \in 1..n : y[i] = d[q + i]
    <2>1. \A i \in q + 1 .. v : d[i] \in Byte
      BY <1>5, <1>2
    <2>2. /\ y \in Seq(Byte) /\ Len(y) = IF q + 1 <= v THEN v - (q + 1) + 1 ELSE 0
          /\ \A i \in 1..v - (q + 1) + 1 : y[i] = d[(q + 1) + i - 1]
      BY <1>5, <1>2, <2>1, SubSeqProperties
    <2>3. \A i \in 1..n : (q + 1) + i - 1 = q + i
      BY <1>5, <1>2
    <2> HIDE DEF y, n
    <2> QED BY <1>5, <2>2, <2>3
  <1>8. ASSUME NEW i \in 1..n
        PROVE  c[p + i] = d[q + i]
    <2> DEFINE j == (p - a) + i
    <2>1. j \in 1..Len(c) - a /\ a + j = p + i /\ b + j = q + i
      <3>1. i \in Nat /\ i >= 1 /\ i <= u - p /\ Len(c) \in Nat
        BY <1>5, <1>1
      <3>2. b + j = q + i
        BY <1>1, <1>2, <1>4, <3>1
      <3> QED BY <1>1, <3>1, <3>2
    <2> HIDE DEF j
    <2>2. c[a + j] = d[b + j]
      BY <1>3, <2>1
    <2> QED BY <2>1, <2>2
  <1> HIDE DEF x, y, n
  <1>9. x = y
    BY <1>6, <1>7, <1>8, SeqEqual
  <1> QED BY <1>9 DEF x, y, Part

(* Where the chunks of a recipe begin. *)
LEMMA ChunkStarts ==
  ASSUME IInv, NEW f \in DOMAIN recipe, NEW k \in 1..Len(ends[f]) + 1
  PROVE  /\ After(ends[f], k) \in 0..Len(data[f])
         /\ After(ends[f], k) = Len(data[f]) <=> k = Len(ends[f]) + 1
         /\ \A j \in k..Len(ends[f]) : After(ends[f], k) <= After(ends[f], j)
  <1> DEFINE c == recipe[f].chunks
             e == ends[f]
             d == data[f]
  <1>1. /\ e \in Seq(Nat) /\ d \in Seq(Byte) /\ Len(c) = Len(e)
        /\ \A i \in 1..Len(c) : After(e, i) \in Nat /\ After(e, i) < e[i] /\ e[i] <= Len(d)
        /\ From(e) = Len(d)
        /\ \A i, j \in 1..Len(e) : i <= j => e[i] <= e[j]
    BY ChunksEnd
  <1> HIDE DEF c, e, d
  <1>2. k \in 1..Len(e) + 1 /\ Len(e) \in Nat /\ Len(d) \in Nat /\ k \in Nat
    BY <1>1 DEF e
  <1>3. After(e, k) \in 0..Len(d) /\ (After(e, k) = Len(d) <=> k = Len(e) + 1)
    <2>1. CASE k = Len(e) + 1
      <3>1. After(e, k) = Len(d)
        BY <1>1, <2>1 DEF From
      <3> QED BY <1>2, <2>1, <3>1
    <2>2. CASE k \in 1..Len(e)
      <3>1. After(e, k) \in Nat /\ After(e, k) < e[k] /\ e[k] <= Len(d) /\ e[k] \in Nat
        BY <1>1, <2>2
      <3>2. After(e, k) < Len(d)
        BY <1>2, <3>1
      <3> QED BY <1>2, <2>2, <3>1, <3>2
    <2> QED BY <1>2, <2>1, <2>2
  <1>4. ASSUME NEW j \in k..Len(e)
        PROVE  After(e, k) <= After(e, j)
    <2>1. j \in 1..Len(e) /\ k <= j /\ j \in Nat
      BY <1>2
    <2>2. CASE k = 1
      <3>1. After(e, j) \in Nat /\ After(e, k) = 0
        BY <1>1, <2>1, <2>2 DEF After
      <3> QED BY <3>1
    <2>3. CASE k > 1
      <3>1. After(e, k) = e[k - 1] /\ After(e, j) = e[j - 1]
        BY <1>2, <2>1, <2>3 DEF After
      <3>2. k - 1 \in 1..Len(e) /\ j - 1 \in 1..Len(e) /\ k - 1 <= j - 1
        BY <1>2, <2>1, <2>3
      <3> QED BY <1>1, <3>1, <3>2
    <2> QED BY <1>2, <2>2, <2>3
  <1> QED BY <1>3, <1>4 DEF e, d

(* What Aligned says of one chunk. *)
LEMMA AlignedChunk ==
  ASSUME NEW e, NEW g, NEW k \in Nat \ {0}, NEW l \in Nat \ {0}, NEW a \in Nat, NEW b \in Nat,
         Aligned(e, g, k - 1, l - 1, a, b), a = After(e, k), b = After(g, l),
         NEW m \in 1..Len(e) - (k - 1)
  PROVE  LET i == (k - 1) + m
             j == (l - 1) + m
         IN /\ i \in k..Len(e) /\ j \in l..Len(g) /\ e[i] - a = g[j] - b
            /\ After(e, i) - a = After(g, j) - b
  <1> DEFINE i == (k - 1) + m
             j == (l - 1) + m
  <1>1. /\ e \in Seq(Nat) /\ g \in Seq(Nat) /\ Len(e) \in Nat /\ Len(g) \in Nat
        /\ Len(e) - (k - 1) = Len(g) - (l - 1)
        /\ \A n \in 1..Len(e) - (k - 1) : e[(k - 1) + n] - a = g[(l - 1) + n] - b
    <2> DEFINE x == k - 1
               y == l - 1
    <2> HIDE DEF x, y
    <2>1. Aligned(e, g, x, y, a, b)
      BY DEF x, y
    <2>2. e \in Seq(Nat) /\ g \in Seq(Nat) /\ Len(e) - x = Len(g) - y
      BY <2>1 DEF Aligned
    <2>3. \A n \in 1..Len(e) - x : e[x + n] - a = g[y + n] - b
      BY <2>1, Zenon DEF Aligned
    <2> QED BY <2>2, <2>3 DEF x, y
  <1>2. i \in k..Len(e) /\ j \in l..Len(g)
    BY <1>1
  <1>3. e[i] - a = g[j] - b
    BY <1>1
  <1>4. After(e, i) - a = After(g, j) - b
    <2>1. CASE m = 1
      <3>1. i = k /\ j = l
        BY <2>1
      <3> QED BY <3>1
    <2>2. CASE m > 1
      <3>1. m - 1 \in 1..Len(e) - (k - 1) /\ i # 1 /\ j # 1
        BY <1>1, <2>2
      <3>2. i - 1 = (k - 1) + (m - 1) /\ j - 1 = (l - 1) + (m - 1)
        OBVIOUS
      <3>3. e[(k - 1) + (m - 1)] - a = g[(l - 1) + (m - 1)] - b
        BY <1>1, <3>1
      <3> HIDE DEF i, j
      <3>4. After(e, i) = e[(k - 1) + (m - 1)] /\ After(g, j) = g[(l - 1) + (m - 1)]
        BY <3>1, <3>2 DEF After
      <3> QED BY <3>3, <3>4
    <2> QED BY <1>1, <2>1, <2>2
  <1> QED BY <1>2, <1>3, <1>4

(* Deduplication, whatever the gear table, the mask and the limits: where  *)
(* a chunk ends in two files, or at their beginnings, and the rest of the  *)
(* bytes is the same, the rest of the chunks is.  A Chunker carries        *)
(* nothing from one chunk into the next.                                   *)
THEOREM SyncCorrect == Spec => []SameAfterSync
  <1>1. ASSUME ScanIInv
        PROVE  SameAfterSync
    <2>1. ASSUME NEW f \in DOMAIN recipe, NEW g \in DOMAIN recipe,
                 NEW k \in 1..Len(ends[f]) + 1, NEW l \in 1..Len(ends[g]) + 1,
                 Rest(data[f], After(ends[f], k) + 1) = Rest(data[g], After(ends[g], l) + 1)
          PROVE  Rest(recipe[f].chunks, k) = Rest(recipe[g].chunks, l)
      <3> DEFINE c == recipe[f].chunks
                 d == recipe[g].chunks
                 e == ends[f]
                 h == ends[g]
                 u == data[f]
                 v == data[g]
                 a == After(e, k)
                 b == After(h, l)
      <3>0. IInv
        BY <1>1 DEF ScanIInv
      <3>1. /\ c \in Seq(Chunk) /\ e \in Seq(Nat) /\ u \in Seq(Byte) /\ Len(c) = Len(e)
            /\ \A i \in 1..Len(c) : /\ After(e, i) \in Nat /\ After(e, i) < e[i]
                                    /\ e[i] <= Len(u)
                                    /\ c[i] = SubSeq(u, After(e, i) + 1, e[i])
        BY <3>0, ChunksEnd
      <3>2. /\ d \in Seq(Chunk) /\ h \in Seq(Nat) /\ v \in Seq(Byte) /\ Len(d) = Len(h)
            /\ \A i \in 1..Len(d) : /\ After(h, i) \in Nat /\ After(h, i) < h[i]
                                    /\ h[i] <= Len(v)
                                    /\ d[i] = SubSeq(v, After(h, i) + 1, h[i])
        BY <3>0, ChunksEnd
      <3>3. /\ a \in 0..Len(u) /\ (a = Len(u) <=> k = Len(e) + 1)
            /\ \A i \in k..Len(e) : a <= After(e, i)
        BY <3>0, ChunkStarts
      <3>4. /\ b \in 0..Len(v) /\ (b = Len(v) <=> l = Len(h) + 1)
            /\ \A i \in l..Len(h) : b <= After(h, i)
        BY <3>0, ChunkStarts
      <3>5. SameBytes(u, v, a, b)
        <4>1. Rest(u, a + 1) = Rest(v, b + 1)
          BY <2>1
        <4>2. u \in Seq(Byte) /\ v \in Seq(Byte) /\ a \in 0..Len(u) /\ b \in 0..Len(v)
          BY <3>1, <3>2, <3>3, <3>4
        <4> HIDE DEF u, v, a, b
        <4>3. SameRest(u, v, a, b)
          BY <4>1, <4>2 DEF SameRest
        <4> QED BY <4>3, RestsAgree
      <3>6. /\ Len(u) \in Nat /\ Len(v) \in Nat /\ a \in Nat /\ b \in Nat
            /\ Len(c) \in Nat /\ Len(d) \in Nat /\ Len(e) \in Nat /\ Len(h) \in Nat
            /\ k \in 1..Len(e) + 1 /\ l \in 1..Len(h) + 1
            /\ k \in Nat \ {0} /\ l \in Nat \ {0}
        <4>1. k \in 1..Len(e) + 1 /\ l \in 1..Len(h) + 1
          OBVIOUS
        <4> HIDE DEF c, d, e, h, u, v, a, b
        <4> QED BY <3>1, <3>2, <3>3, <3>4, <4>1
      <3>7. Len(c) - (k - 1) = Len(d) - (l - 1)
            /\ \A m \in 1..Len(c) - (k - 1) : c[(k - 1) + m] = d[(l - 1) + m]
        <4>1. CASE a = Len(u)
          <5> HIDE DEF c, d, e, h, u, v, a, b
          <5>1. b = Len(v)
            BY <3>5, <3>6, <4>1 DEF SameBytes
          <5>2. k = Len(c) + 1 /\ l = Len(d) + 1
            BY <3>1, <3>2, <3>3, <3>4, <4>1, <5>1
          <5> QED BY <3>6, <5>2
        <4>2. CASE a # Len(u)
          <5>1. a < Len(u) /\ b < Len(v)
            <6> HIDE DEF u, v, a, b
            <6> QED BY <3>3, <3>4, <3>5, <3>6, <4>2 DEF SameBytes
          <5>2. Aligned(e, h, k - 1, l - 1, a, b)
            <6> HIDE DEF a, b
            <6>1. a = After(ends[f], k) /\ b = After(ends[g], l)
              BY DEF a, b
            <6> QED BY <1>1, <3>5, <5>1, <6>1, RecipesAlign DEF SameBytes
          <5>3. a = After(e, k) /\ b = After(h, l)
            OBVIOUS
          <5> HIDE DEF c, d, e, h, u, v, a, b
          <5>4. Len(c) - (k - 1) = Len(d) - (l - 1)
            BY <3>1, <3>2, <5>2 DEF Aligned
          <5>5. ASSUME NEW m \in 1..Len(c) - (k - 1)
                PROVE  c[(k - 1) + m] = d[(l - 1) + m]
            <6> DEFINE i == (k - 1) + m
                       j == (l - 1) + m
                       p == After(e, i)
                       q == After(h, j)
            <6>1. /\ i \in k..Len(e) /\ j \in l..Len(h) /\ e[i] - a = h[j] - b
                  /\ p - a = q - b
              <7>1. m \in 1..Len(e) - (k - 1)
                BY <3>1
              <7> QED BY <3>6, <5>2, <5>3, <7>1, AlignedChunk
            <6>2. i \in 1..Len(c) /\ j \in 1..Len(d) /\ e[i] \in Nat /\ h[j] \in Nat
              <7> HIDE DEF i, j, p, q
              <7>1. i \in 1..Len(e) /\ j \in 1..Len(h)
                BY <3>6, <6>1
              <7>2. Len(c) = Len(e) /\ Len(d) = Len(h) /\ e \in Seq(Nat) /\ h \in Seq(Nat)
                BY <3>1, <3>2
              <7> QED BY <7>1, <7>2
            <6> HIDE DEF i, j
            <6>3. /\ p \in Nat /\ p < e[i] /\ e[i] <= Len(u) /\ c[i] = SubSeq(u, p + 1, e[i])
                  /\ a <= p
              BY <3>1, <3>3, <6>1, <6>2
            <6>4. /\ q \in Nat /\ q < h[j] /\ h[j] <= Len(v) /\ d[j] = SubSeq(v, q + 1, h[j])
                  /\ b <= q
              BY <3>2, <3>4, <6>1, <6>2
            <6> DEFINE x == e[i]
                       y == h[j]
            <6>5. /\ x \in Nat /\ y \in Nat /\ p < x /\ q < y /\ x - a = y - b
                  /\ x <= Len(u) /\ y <= Len(v)
              BY <6>1, <6>2, <6>3, <6>4
            <6>6. c[i] = SubSeq(u, p + 1, x) /\ d[j] = SubSeq(v, q + 1, y)
              BY <6>3, <6>4
            <6> HIDE DEF p, q, x, y
            <6>7. Part(u, p, x) = Part(v, q, y)
              <7>1. Within(u, a, p, x)
                BY <3>1, <3>6, <6>3, <6>5 DEF Within
              <7>2. Within(v, b, q, y)
                BY <3>2, <3>6, <6>4, <6>5 DEF Within
              <7>3. p - a = q - b /\ x - a = y - b
                BY <6>1, <6>5
              <7>4. SamePart(u, v, a, b, p, q, x, y)
                BY <3>5, <7>1, <7>2, <7>3 DEF SamePart
              <7> QED BY <7>4, SameChunk
            <6> QED BY <6>6, <6>7 DEF Part, i, j
          <5> QED BY <5>4, <5>5
        <4> QED BY <4>1, <4>2
      <3> HIDE DEF c, d, e, h
      <3>8. k \in 1..Len(c) + 1 /\ l \in 1..Len(d) + 1
        BY <3>1, <3>2, <3>6
      <3>9. Rest(c, k) = Rest(d, l)
        <4>1. c \in Seq(Chunk) /\ d \in Seq(Chunk)
          BY <3>1, <3>2
        <4>2. SameFrom(c, d, k, l)
          BY <4>1, <3>7, <3>8 DEF SameFrom
        <4> QED BY <4>2, RestsEqual
      <3> QED BY <3>9 DEF c, d
    <2> QED BY <2>1 DEF SameAfterSync
  <1> QED BY <1>1, ScanInductive, PTL

-----------------------------------------------------------------------------
(* What the mask sees of the hash.                                         *)

(* The powers of two double, as the subsets of a set do when an element is *)
(* added to it: those without it, and those with it.                       *)
LEMMA PowerDoubles ==
  ASSUME NEW n \in Nat
  PROVE  2^n \in Nat \ {0} /\ 2^(n + 1) = 2 * 2^n
  <1> DEFINE S == 1..n
             x == n + 1
             Out == SUBSET S
             In == {A \cup {x} : A \in SUBSET S}
             F == [A \in Out |-> A \cup {x}]
  <1>1. IsFiniteSet(S) /\ Cardinality(S) = n
    BY FS_Interval
  <1>2. S \cup {x} = 1..(n + 1) /\ ~(x \in S)
    OBVIOUS
  <1>3. IsFiniteSet(1..(n + 1)) /\ Cardinality(1..(n + 1)) = n + 1
    BY FS_Interval
  <1> HIDE DEF S, x
  <1>4. IsFiniteSet(Out) /\ Cardinality(Out) = 2^n /\ Cardinality(Out) \in Nat
    BY <1>1, FS_SUBSET, FS_CardinalityType
  <1>5. Cardinality(SUBSET (S \cup {x})) = 2^(n + 1)
    BY <1>2, <1>3, FS_SUBSET
  <1>6. SUBSET (S \cup {x}) = Out \cup In
    <2>1. ASSUME NEW A \in SUBSET (S \cup {x}) PROVE A \in Out \cup In
      <3>1. CASE x \in A
        <4>1. A \ {x} \in SUBSET S /\ A = (A \ {x}) \cup {x}
          BY <3>1
        <4> QED BY <4>1
      <3>2. CASE ~(x \in A)
        BY <3>2
      <3> QED BY <3>1, <3>2
    <2> QED BY <2>1
  <1>7. Out \cap In = {}
    BY <1>2
  <1>8. ExistsBijection(Out, In)
    <2>1. F \in [Out -> In]
      OBVIOUS
    <2>2. \A A, B \in Out : F[A] = F[B] => A = B
      <3>1. ASSUME NEW A \in Out, NEW B \in Out, F[A] = F[B]
            PROVE  A = B
        <4>1. A \cup {x} = B \cup {x} /\ ~(x \in A) /\ ~(x \in B)
          BY <1>2, <3>1
        <4> QED BY <4>1
      <3> QED BY <3>1
    <2>3. \A B \in In : \E A \in Out : F[A] = B
      OBVIOUS
    <2> HIDE DEF F, Out, In
    <2>4. F \in Injection(Out, In)
      BY <2>1, <2>2 DEF Injection, IsInjective
    <2>5. F \in Surjection(Out, In)
      BY <2>1, <2>3 DEF Surjection
    <2> QED BY <2>4, <2>5 DEF ExistsBijection, Bijection
  <1>9. IsFiniteSet(In) /\ Cardinality(In) = Cardinality(Out)
    BY <1>4, <1>8, FS_Bijection
  <1>10. Cardinality(Out \cap In) = 0
    <2>1. Cardinality({}) = 0
      BY FS_EmptySet
    <2> QED BY <1>7, <2>1
  <1> HIDE DEF Out, In
  <1>11. Cardinality(Out \cup In) = Cardinality(Out) + Cardinality(In) - Cardinality(Out \cap In)
    BY <1>4, <1>9, FS_Union
  <1>12. 2^(n + 1) = Cardinality(Out \cup In)
    BY <1>5, <1>6
  <1>13. Cardinality(Out) # 0
    BY <1>4, FS_EmptySet DEF Out
  <1> QED BY <1>4, <1>9, <1>10, <1>11, <1>12, <1>13

(* Numbers that differ by a multiple of Target. *)
Congruent(x, y) == \E k \in Int : x = y + (k * Target)

LEMMA TargetType == Target \in Nat \ {0} /\ MaskBits \in Nat
  <1>1. MaskBits \in Nat
    BY MaskAssumption, SizesAssumption
  <1> QED BY <1>1, MaskAssumption, PowerDoubles

LEMMA CongruentTrans ==
  ASSUME NEW x \in Int, NEW y \in Int, NEW z \in Int, Congruent(x, y), Congruent(y, z)
  PROVE  Congruent(x, z)
  <1>1. PICK k \in Int : x = y + (k * Target)
    BY DEF Congruent
  <1>2. PICK l \in Int : y = z + (l * Target)
    BY DEF Congruent
  <1>3. x = z + ((k + l) * Target)
    BY <1>1, <1>2, TargetType
  <1> QED BY <1>3 DEF Congruent

LEMMA CongruentSym ==
  ASSUME NEW x \in Int, NEW y \in Int, Congruent(x, y)
  PROVE  Congruent(y, x)
  <1>1. PICK k \in Int : x = y + (k * Target)
    BY DEF Congruent
  <1>2. y = x + ((-k) * Target) /\ -k \in Int
    BY <1>1, TargetType
  <1> QED BY <1>2 DEF Congruent

LEMMA CongruentScaled ==
  ASSUME NEW x \in Int, NEW y \in Int, NEW c \in Int, NEW g \in Int, Congruent(x, y)
  PROVE  Congruent(g + (c * x), g + (c * y))
  <1>1. PICK k \in Int : x = y + (k * Target)
    BY DEF Congruent
  <1>2. c * (k * Target) = (c * k) * Target
    BY TargetType
  <1>3. c * x = (c * y) + (c * (k * Target))
    BY <1>1, TargetType
  <1>4. g + (c * x) = (g + (c * y)) + ((c * k) * Target)
    BY <1>2, <1>3, TargetType
  <1>5. c * k \in Int
    OBVIOUS
  <1> QED BY <1>4, <1>5 DEF Congruent

(* What the word drops is a multiple of it. *)
LEMMA CongruentWord ==
  ASSUME NEW x \in Nat
  PROVE  Congruent(x % Words, x) /\ x % Words \in Nat
  <1> DEFINE a == x \div Words
             b == Words \div Target
             r == x % Words
  <1>1. a \in Int /\ r \in Nat /\ x = (Words * a) + r
    BY GearAssumption
  <1>2. b \in Int /\ Words = Target * b
    <2>1. Words = (Target * b) + (Words % Target) /\ b \in Int
      BY GearAssumption, TargetType
    <2> HIDE DEF b
    <2>2. Words = (Target * b) + 0
      BY <2>1, MaskAssumption
    <2> QED BY <2>1, <2>2, TargetType
  <1> HIDE DEF a, b, r
  <1>3. Words * a = (b * a) * Target
    BY <1>1, <1>2, TargetType
  <1>4. -(b * a) \in Int /\ b * a \in Int
    BY <1>1, <1>2
  <1> DEFINE m == b * a
  <1>5. x = (m * Target) + r
    BY <1>1, <1>3
  <1> HIDE DEF m
  <1>6. r = x + ((-m) * Target)
    BY <1>1, <1>4, <1>5, TargetType DEF m
  <1> QED BY <1>1, <1>4, <1>6 DEF Congruent, r, m

(* Congruent numbers have the same bits in the mask. *)
LEMMA CongruentZero ==
  ASSUME NEW x \in Nat, NEW y \in Nat, Congruent(x, y), y % Target = 0
  PROVE  x % Target = 0
  <1> DEFINE a == x \div Target
             b == y \div Target
             r == x % Target
  <1>1. a \in Int /\ r \in 0..Target - 1 /\ x = (Target * a) + r
    BY TargetType
  <1>2. b \in Int /\ y = Target * b
    <2>1. b \in Int /\ y = (Target * b) + (y % Target)
      BY TargetType
    <2> HIDE DEF b
    <2>2. y = (Target * b) + 0
      BY <2>1
    <2> QED BY <2>1, <2>2, TargetType
  <1>3. PICK k \in Int : x = y + (k * Target)
    BY DEF Congruent
  <1> HIDE DEF a, b, r
  <1> DEFINE m == (b + k) - a
  <1>4. m \in Int /\ r = Target * m
    <2>1. (Target * a) + r = (Target * b) + (k * Target)
      BY <1>1, <1>2, <1>3
    <2> QED BY <1>1, <1>2, <1>3, <2>1, TargetType
  <1> HIDE DEF m
  <1>5. m = 0
    <2>1. CASE m >= 1
      <3>1. Target * m >= Target
        BY <1>4, <2>1, TargetType
      <3> QED BY <1>1, <1>4, <3>1, TargetType
    <2>2. CASE m <= -1
      <3>1. Target * m < 0
        BY <1>4, <2>2, TargetType
      <3> QED BY <1>1, <1>4, <3>1, TargetType
    <2> QED BY <1>4, <2>1, <2>2
  <1>6. r = 0
    BY <1>4, <1>5, TargetType
  <1> QED BY <1>6 DEF r
(* The sum of Marked exists: what its equation says of its values. *)
IsSum(s, d, p) ==
  s = [j \in 0..MaskBits |->
         IF j = 0 THEN 0 ELSE s[j - 1] + Gear[d[p - j + 1]] * 2^(j - 1)]
Sum(d, p) == CHOOSE s : IsSum(s, d, p)

LEMMA MarkedSum ==
  ASSUME NEW d, NEW p
  PROVE  Marked(d, p) <=> Sum(d, p)[MaskBits] % Target = 0
  BY DEF Marked, Sum, IsSum

LEMMA SumExists ==
  ASSUME NEW d, NEW p
  PROVE  IsSum(Sum(d, p), d, p)
  <1> DEFINE Up(v, j) == v + Gear[d[p - j + 1]] * 2^(j - 1)
             Is(f, n) == f = [j \in 0..n |-> IF j = 0 THEN 0 ELSE Up(f[j - 1], j)]
             M == {n \in Nat : \E f : Is(f, n)}
  <1>0. \A f : Is(f, MaskBits) <=> IsSum(f, d, p)
    BY DEF IsSum
  <1> HIDE DEF Up, M
  <1>1. ASSUME NEW n \in Nat, \A m \in Nat : m < n => m \in M
        PROVE  n \in M
    <2>1. CASE n = 0
      <3> DEFINE f == [j \in 0..0 |-> 0]
      <3>1. Is(f, 0)
        OBVIOUS
      <3> QED BY <2>1, <3>1 DEF M
    <2>2. CASE n > 0
      <3>1. n - 1 \in Nat /\ n - 1 \in M
        BY <1>1, <2>2
      <3>2. PICK g : Is(g, n - 1)
        BY <3>1 DEF M
      <3> DEFINE f == [j \in 0..n |-> IF j = n THEN Up(g[n - 1], n) ELSE g[j]]
      <3>3. \A j \in 0..(n - 1) : f[j] = g[j]
        OBVIOUS
      <3>4. \A j \in 0..(n - 1) : g[j] = IF j = 0 THEN 0 ELSE Up(g[j - 1], j)
        BY <3>2
      <3>5. f[n] = Up(g[n - 1], n)
        OBVIOUS
      <3>6. f = [j \in 0..n |-> f[j]]
        OBVIOUS
      <3> HIDE DEF f
      <3>7. ASSUME NEW j \in 0..n
            PROVE  f[j] = IF j = 0 THEN 0 ELSE Up(f[j - 1], j)
        <4>1. CASE j = n
          BY <2>2, <3>3, <3>5, <4>1
        <4>2. CASE j < n
          <5>1. j \in 0..(n - 1) /\ (j > 0 => j - 1 \in 0..(n - 1))
            BY <4>2
          <5> QED BY <3>3, <3>4, <5>1
        <4> QED BY <4>1, <4>2
      <3>8. Is(f, n)
        BY <3>6, <3>7
      <3> QED BY <3>8 DEF M
    <2> QED BY <2>1, <2>2
  <1>2. MaskBits \in M
    BY <1>1, NoLeastException, TargetType
  <1> QED BY <1>0, <1>2 DEF M, Sum

(* A hash that was fed MaskBits bytes and more: u[j] is the hash without   *)
(* the last j of them.  The mask looks at these bytes alone.               *)
LEMMA LastBytesDecide ==
  ASSUME NEW d, NEW p \in Nat, NEW u \in [0..MaskBits -> Nat],
         \A j \in 1..MaskBits : d[p - j + 1] \in Byte,
         \A j \in 1..MaskBits : u[j - 1] = FeedByte(u[j], d[p - j + 1])
  PROVE  u[0] % Target = 0 <=> Marked(d, p)
  <1> DEFINE s == Sum(d, p)
             Left(j) == s[j] + (2^j * u[j])
             Holds(j) == s[j] \in Nat /\ Congruent(u[0], Left(j))
             S == {j \in Nat : j <= MaskBits => Holds(j)}
  <1>1. /\ s[0] = 0
        /\ \A j \in 1..MaskBits : s[j] = s[j - 1] + Gear[d[p - j + 1]] * 2^(j - 1)
    <2>1. IsSum(s, d, p)
      BY SumExists
    <2> HIDE DEF s
    <2>2. \A j \in 0..MaskBits : s[j] =
            IF j = 0 THEN 0 ELSE s[j - 1] + Gear[d[p - j + 1]] * 2^(j - 1)
      BY <2>1 DEF IsSum
    <2> QED BY <2>2, TargetType
  <1> HIDE DEF s
  <1>2. ASSUME NEW n \in Nat, \A m \in Nat : m < n => m \in S
        PROVE  n \in S
    <2> SUFFICES ASSUME n <= MaskBits PROVE Holds(n)
      OBVIOUS
    <2>1. CASE n = 0
      <3>1. u[0] \in Nat /\ 2^0 = 1
        BY TargetType
      <3>2. Left(0) = u[0]
        BY <1>1, <3>1
      <3> HIDE DEF Left
      <3>3. Left(0) = Left(0) + (0 * Target)
        BY <3>1, <3>2, TargetType
      <3> QED BY <1>1, <2>1, <3>2, <3>3 DEF Congruent
    <2>2. CASE n > 0
      <3> DEFINE m == n - 1
                 g == Gear[d[p - n + 1]]
                 w == 2^m
                 h == u[n]
      <3>1. m \in Nat /\ m < n /\ n \in 1..MaskBits /\ m \in 0..MaskBits /\ n = m + 1
        BY <2>2, TargetType
      <3>2. Holds(m)
        <4>1. m \in S /\ m <= MaskBits
          BY <1>2, <3>1
        <4> HIDE DEF Holds, m
        <4> QED BY <4>1
      <3>3. g \in Nat
        BY <3>1, GearAssumption
      <3>4. w \in Nat /\ 2^n = 2 * w
        BY <3>1, PowerDoubles
      <3>5. s[n] = s[m] + (g * w)
        BY <1>1, <3>1
      <3>6. u[m] = ((2 * h) + g) % Words /\ h \in Nat
        BY <3>1 DEF FeedByte
      <3>7. u[0] \in Nat /\ u[m] \in Nat
        BY <3>1, TargetType
      <3>8. s[m] \in Nat /\ Congruent(u[0], s[m] + (w * u[m]))
        BY <3>2
      <3>9. Left(n) = s[n] + ((2 * w) * h)
        BY <3>4
      <3> HIDE DEF m, g, w, h, Left
      <3>10. Congruent(u[m], (2 * h) + g)
        BY <3>3, <3>6, CongruentWord
      <3>11. Congruent(s[m] + (w * u[m]), s[m] + (w * ((2 * h) + g)))
        <4> DEFINE x == u[m]
                   y == (2 * h) + g
                   z == s[m]
        <4>1. x \in Int /\ y \in Int /\ z \in Int /\ w \in Int /\ Congruent(x, y)
          BY <3>3, <3>4, <3>6, <3>7, <3>8, <3>10
        <4> HIDE DEF x, y, z
        <4>2. Congruent(z + (w * x), z + (w * y))
          BY <4>1, CongruentScaled
        <4> QED BY <4>2 DEF x, y, z
      <3>12. s[m] + (w * ((2 * h) + g)) = Left(n)
        <4>1. w * ((2 * h) + g) = (g * w) + ((2 * w) * h)
          BY <3>3, <3>4, <3>6
        <4> QED BY <3>3, <3>4, <3>5, <3>6, <3>8, <3>9, <4>1
      <3>13. s[n] \in Nat /\ Left(n) \in Nat
        BY <3>3, <3>4, <3>5, <3>6, <3>8, <3>9
      <3>14. s[m] + (w * u[m]) \in Int
        BY <3>4, <3>7, <3>8
      <3>15. Congruent(u[0], Left(n))
        BY <3>7, <3>8, <3>11, <3>12, <3>13, <3>14, CongruentTrans
      <3> QED BY <3>13, <3>15 DEF Left
    <2> QED BY <2>1, <2>2
  <1>3. Holds(MaskBits)
    <2>1. MaskBits \in S
      <3> HIDE DEF S
      <3> QED BY <1>2, NoLeastException, TargetType
    <2> HIDE DEF Holds
    <2> QED BY <2>1, TargetType
  <1> DEFINE v == s[MaskBits]
             h == u[MaskBits]
  <1>4. v \in Nat /\ h \in Nat /\ u[0] \in Nat /\ Congruent(u[0], v + (Target * h))
    BY <1>3, MaskAssumption, TargetType
  <1>5. Marked(d, p) <=> v % Target = 0
    BY MarkedSum DEF s
  <1> HIDE DEF v, h
  <1>6. Congruent(v + (Target * h), v) /\ v + (Target * h) \in Int
    <2>1. v + (Target * h) = v + (h * Target) /\ h \in Int /\ v + (Target * h) \in Int
      BY <1>4, TargetType
    <2> QED BY <2>1 DEF Congruent
  <1>7. Congruent(u[0], v) /\ Congruent(v, u[0])
    BY <1>4, <1>6, CongruentTrans, CongruentSym
  <1> QED BY <1>4, <1>5, <1>7, CongruentZero

-----------------------------------------------------------------------------
(* A scan that goes on keeps its ends and adds later ones.                 *)

(* x are those of the ends e that are not after q. *)
UpTo(x, e, q) ==
  /\ x \in Seq(Nat) /\ e \in Seq(Nat) /\ Len(x) <= Len(e)
  /\ \A j \in 1..Len(x) : e[j] = x[j] /\ x[j] <= q
  /\ \A j \in Len(x) + 1..Len(e) : e[j] > q

LEMMA UpToAppend ==
  ASSUME NEW q \in Nat, NEW n \in Nat, q < n, NEW x, NEW e, UpTo(x, e, q)
  PROVE  UpTo(x, Append(e, n), q)
  <1> DEFINE g == Append(e, n)
             L == Len(e)
             M == Len(x)
  <1>1. /\ x \in Seq(Nat) /\ e \in Seq(Nat) /\ M <= L /\ M \in Nat /\ L \in Nat
        /\ \A j \in 1..M : e[j] = x[j] /\ x[j] <= q
        /\ \A j \in M + 1..L : e[j] > q
    BY DEF UpTo
  <1>2. g \in Seq(Nat) /\ Len(g) = L + 1 /\ g[L + 1] = n /\ \A j \in 1..L : g[j] = e[j]
    BY <1>1, AppendProperties
  <1> HIDE DEF g, L, M
  <1>3. \A j \in 1..M : g[j] = x[j] /\ x[j] <= q
    BY <1>1, <1>2
  <1>4. ASSUME NEW j \in M + 1..L + 1 PROVE g[j] > q
    <2>1. CASE j = L + 1
      BY <1>2, <2>1
    <2>2. CASE j \in M + 1..L
      BY <1>1, <1>2, <2>2
    <2> QED BY <1>1, <2>1, <2>2
  <1>5. M <= L + 1
    BY <1>1
  <1> QED BY <1>1, <1>2, <1>3, <1>4, <1>5 DEF UpTo, g, M

LEMMA EndsGrow ==
  ASSUME NEW d \in Seq(Byte), NEW q \in 0..Len(d), NEW r \in 0..Len(d) - q
  PROVE  UpTo(Scan(d)[q].ends, Scan(d)[q + r].ends, q)
  <1> DEFINE x == Scan(d)[q].ends
             S == {i \in Nat : q + i <= Len(d) => UpTo(x, Scan(d)[q + i].ends, q)}
  <1>0. Len(d) \in Nat /\ q \in Nat
    OBVIOUS
  <1>1. ASSUME NEW n \in Nat, \A m \in Nat : m < n => m \in S
        PROVE  n \in S
    <2> SUFFICES ASSUME q + n <= Len(d) PROVE UpTo(x, Scan(d)[q + n].ends, q)
      OBVIOUS
    <2>1. CASE n = 0
      <3>1. Settled(d, q) /\ q + n = q
        BY <1>0, <2>1, ScanSettled
      <3>2. x \in Seq(Nat) /\ \A j \in 1..Len(x) : x[j] \in 1..q
        BY <3>1 DEF Settled
      <3> HIDE DEF x
      <3>3. UpTo(x, x, q)
        <4>1. Len(x) \in Nat
          BY <3>2
        <4>2. Len(x) + 1..Len(x) = {}
          BY <4>1
        <4> QED BY <1>0, <3>2, <4>1, <4>2 DEF UpTo
      <3> QED BY <3>1, <3>3 DEF x
    <2>2. CASE n > 0
      <3> DEFINE m == n - 1
                 p == q + n
                 y == Scan(d)[q + m].ends
      <3>1. m \in Nat /\ m < n /\ q + m <= Len(d) /\ p \in 1..Len(d) /\ p - 1 = q + m /\ q < p
        BY <1>0, <2>2
      <3>2. UpTo(x, y, q)
        <4>1. m \in S
          BY <1>1, <3>1
        <4> HIDE DEF x, m
        <4> QED BY <3>1, <4>1
      <3>3. Scan(d)[p] = Advance(Scan(d)[p - 1], p, d[p])
        BY <3>1, Scanning
      <3>4. Scan(d)[p].ends \in {y, Append(y, p)}
        BY <3>1, <3>3 DEF Advance, At
      <3> HIDE DEF x, y, p
      <3>5. UpTo(x, Append(y, p), q)
        BY <1>0, <3>1, <3>2, UpToAppend
      <3>6. UpTo(x, Scan(d)[p].ends, q)
        BY <3>2, <3>4, <3>5
      <3> QED BY <3>6 DEF p
    <2> QED BY <2>1, <2>2
  <1> HIDE DEF x
  <1>2. r \in S
    <2> HIDE DEF S
    <2> QED BY <1>0, <1>1, NoLeastException
  <1>3. q + r <= Len(d)
    BY <1>0
  <1> QED BY <1>2, <1>3 DEF x

LEMMA EndsUpTo ==
  ASSUME NEW d \in Seq(Byte), NEW q \in 0..Len(d), q < Len(d)
  PROVE  UpTo(Scan(d)[q].ends, AllEnds(d), q)
  <1> DEFINE n == Len(d)
             x == Scan(d)[q].ends
             y == Scan(d)[n].ends
  <1>1. n \in Nat /\ q \in Nat /\ n - q \in 0..n - q /\ q + (n - q) = n
    OBVIOUS
  <1>2. UpTo(x, y, q)
    BY <1>1, EndsGrow
  <1>3. UpTo(x, Append(y, n), q)
    <2> HIDE DEF n, x, y
    <2> QED BY <1>1, <1>2, UpToAppend DEF n
  <1>4. AllEnds(d) \in {y, Append(y, n)}
    BY DEF AllEnds, Closed
  <1> HIDE DEF n, x, y
  <1>5. UpTo(x, AllEnds(d), q)
    BY <1>2, <1>3, <1>4
  <1> QED BY <1>5 DEF x

(* The hash of a scan is a word. *)
LEMMA ScanHash ==
  ASSUME NEW d \in Seq(Byte), NEW q \in 0..Len(d)
  PROVE  Scan(d)[q].hash \in 0..Words - 1
  <1> DEFINE S == {n \in Nat : n <= Len(d) => Scan(d)[n].hash \in 0..Words - 1}
  <1>1. ASSUME NEW n \in Nat, \A m \in Nat : m < n => m \in S
        PROVE  n \in S
    <2> SUFFICES ASSUME n <= Len(d) PROVE Scan(d)[n].hash \in 0..Words - 1
      OBVIOUS
    <2>1. CASE n = 0
      BY <2>1, Scanning, GearAssumption DEF At, Reset
    <2>2. CASE n > 0
      <3>1. n \in 1..Len(d) /\ n - 1 \in Nat /\ n - 1 < n /\ n - 1 <= Len(d) /\ d[n] \in Byte
        BY <2>2
      <3>2. Scan(d)[n - 1].hash \in 0..Words - 1
        BY <1>1, <3>1
      <3>3. Scan(d)[n] = Advance(Scan(d)[n - 1], n, d[n])
        BY <3>1, Scanning
      <3>4. /\ FeedByte(Scan(d)[n - 1].hash, d[n]) \in 0..Words - 1
            /\ Reset \in 0..Words - 1
        BY <3>1, <3>2, FeedByteType
      <3>5. Scan(d)[n].hash \in {Reset, FeedByte(Scan(d)[n - 1].hash, d[n])}
        BY <3>3 DEF Advance, At
      <3> QED BY <3>4, <3>5
    <2> QED BY <2>1, <2>2
  <1>2. q \in S
    <2> HIDE DEF S
    <2> QED BY <1>1, NoLeastException
  <1> QED BY <1>2

(* What the hash is at q, before it may be reset. *)
Hashed(d, q) == FeedByte(Scan(d)[q - 1].hash, d[q])

(* Within a chunk the scan does not cut, and at its end it does.           *)
LEMMA CutAtEnd ==
  ASSUME NEW d \in Seq(Byte), NEW e, e = AllEnds(d), NEW k \in 1..Len(e),
         After(e, k) \in Nat, NEW q \in After(e, k) + 1..e[k], q < Len(d)
  PROVE  /\ q = e[k] <=> ShouldCut(q - After(e, k), Hashed(d, q))
         /\ q # e[k] => Scan(d)[q].hash = Hashed(d, q)
  <1> DEFINE a == After(e, k)
             n == q - 1
             x == Scan(d)[n].ends
             L == Len(x)
             y == Scan(d)[q].ends
  <1>0. e \in Seq(Nat)
    <2>1. 0 \in 0..Len(d) /\ 0 < Len(d)
      <3>1. Len(d) \in Nat /\ q \in Nat
        BY DEF After
      <3>2. q >= 1
        OBVIOUS
      <3> QED BY <3>1, <3>2
    <2> QED BY <2>1, EndsUpTo DEF UpTo
  <1>1. /\ q \in 1..Len(d) /\ q \in 0..Len(d) /\ n \in 0..Len(d) /\ n < Len(d) /\ n \in Nat
        /\ Len(e) \in Nat /\ e[k] \in Nat /\ a < q /\ q <= e[k]
    BY <1>0
  <1>2. UpTo(x, e, n) /\ UpTo(y, e, q)
    BY <1>1, EndsUpTo
  <1>3. /\ x \in Seq(Nat) /\ L \in Nat /\ L <= Len(e)
        /\ \A j \in 1..L : e[j] = x[j] /\ x[j] <= n
        /\ \A j \in L + 1..Len(e) : e[j] > n
    BY <1>2 DEF UpTo
  <1>4. /\ \A j \in 1..Len(y) : e[j] = y[j] /\ y[j] <= q
        /\ \A j \in Len(y) + 1..Len(e) : e[j] > q
    BY <1>2 DEF UpTo
  <1>5. Scan(d)[q] = Advance(Scan(d)[n], q, d[q])
    BY <1>1, Scanning
  <1> HIDE DEF a, n, x, y, L
  <1>6. L = k - 1
    <2>1. L < k
      <3>1. CASE k \in 1..L
        <4>1. e[k] <= n
          BY <1>3, <3>1
        <4> QED BY <1>1, <4>1 DEF n
      <3> QED BY <1>3, <3>1
    <2>2. L >= k - 1
      <3>1. CASE k - 1 \in L + 1..Len(e)
        <4>1. e[k - 1] > n /\ k # 1
          BY <1>3, <3>1
        <4>2. a = e[k - 1]
          BY <4>1 DEF a, After
        <4>3. e[k - 1] \in Nat
          BY <1>0, <1>3, <3>1
        <4> QED BY <1>1, <4>1, <4>2, <4>3 DEF n
      <3> QED BY <1>1, <1>3, <3>1
    <2> QED BY <1>3, <2>1, <2>2
  <1>7. From(x) = a
    <2>1. CASE k = 1
      BY <1>6, <2>1 DEF From, After, a, L
    <2>2. CASE k > 1
      <3>1. L \in 1..L /\ L # 0
        BY <1>3, <1>6, <2>2
      <3>2. e[L] = x[L]
        BY <1>3, <3>1
      <3>3. L + 1 # 1 /\ (L + 1) - 1 = L /\ k # 1
        BY <1>3, <3>1, <2>2
      <3> QED BY <1>6, <3>2, <3>3 DEF From, After, a, L
    <2> QED BY <2>1, <2>2
  <1> DEFINE c == ShouldCut(q - a, Hashed(d, q))
  <1>8. /\ c => y = Append(x, q)
        /\ ~c => y = x /\ Scan(d)[q].hash = Hashed(d, q)
    <2>1. Scan(d)[q] = IF c THEN At(Reset, Append(x, q)) ELSE At(Hashed(d, q), x)
      BY <1>5, <1>7 DEF Advance, Hashed, x, n
    <2> HIDE DEF c
    <2> QED BY <2>1 DEF At, y
  <1> HIDE DEF c
  <1>9. c => q = e[k]
    <2> SUFFICES ASSUME c PROVE q = e[k]
      OBVIOUS
    <2>1. y = Append(x, q) /\ k = L + 1
      BY <1>3, <1>6, <1>8
    <2>2. Len(y) = L + 1 /\ y[L + 1] = q
      BY <1>1, <1>3, <2>1, AppendProperties DEF L
    <2>3. k \in 1..Len(y)
      BY <1>3, <2>1, <2>2
    <2> QED BY <1>4, <2>1, <2>2, <2>3
  <1>10. ~c => q # e[k] /\ Scan(d)[q].hash = Hashed(d, q)
    <2> SUFFICES ASSUME ~c PROVE q # e[k] /\ Scan(d)[q].hash = Hashed(d, q)
      OBVIOUS
    <2>1. Len(y) = k - 1 /\ Scan(d)[q].hash = Hashed(d, q)
      BY <1>6, <1>8 DEF L
    <2>2. k \in Len(y) + 1..Len(e)
      BY <1>1, <2>1
    <2>3. e[k] > q
      BY <1>4, <2>2
    <2> QED BY <1>1, <2>1, <2>3
  <1> QED BY <1>9, <1>10 DEF c, a

(* A chunk has at most Max bytes from where it begins to where it ends. *)
LEMMA ChunkLength ==
  ASSUME IInv, NEW f \in DOMAIN recipe, NEW k \in 1..Len(ends[f])
  PROVE  ends[f][k] - After(ends[f], k) <= Max
  <1> DEFINE c == recipe[f].chunks
             e == ends[f]
             d == data[f]
             m == After(e, k) + 1
             n == e[k]
  <1>1. /\ c \in Seq(Chunk) /\ e \in Seq(Nat) /\ d \in Seq(Byte) /\ Len(c) = Len(e)
        /\ After(e, k) \in Nat /\ After(e, k) < e[k] /\ e[k] <= Len(d)
        /\ c[k] = SubSeq(d, After(e, k) + 1, e[k])
    BY ChunksEnd
  <1>2. Len(c[k]) <= Max
    <2>1. k \in 1..Len(c)
      BY <1>1
    <2>2. Len(c[k]) \in (IF k < Len(c) THEN Min ELSE 1)..Max
      BY <2>1 DEF IInv, SizesBounded
    <2> HIDE DEF c
    <2> QED BY <2>2, SizesAssumption
  <1> HIDE DEF c, d, e
  <1>3. /\ m \in Int /\ n \in Int /\ m <= n /\ n - m + 1 = n - After(e, k)
        /\ \A i \in m..n : d[i] \in Byte
    <2>1. k \in 1..Len(e)
      BY DEF e
    <2>2. e[k] \in Nat /\ Len(d) \in Nat
      BY <1>1, <2>1
    <2> QED BY <1>1, <2>2
  <1>4. Len(SubSeq(d, m, n)) = n - m + 1
    <2> HIDE DEF m, n
    <2> QED BY <1>3, SubSeqProperties
  <1>5. n - After(e, k) <= Max
    <2> HIDE DEF n
    <2>1. c[k] = SubSeq(d, m, n)
      BY <1>1 DEF n
    <2> QED BY <1>2, <1>3, <1>4, <2>1
  <1> QED BY <1>5 DEF e

(* A hash at q, Min bytes or more into a chunk, was fed the last MaskBits  *)
(* bytes without a cut between them.                                       *)
LEMMA HashMarked ==
  ASSUME NEW d \in Seq(Byte), NEW e, e = AllEnds(d), NEW k \in 1..Len(e),
         After(e, k) \in Nat, e[k] \in Nat,
         NEW p \in After(e, k) + Min..e[k], p < Len(d)
  PROVE  Hashed(d, p) % Target = 0 <=> Marked(d, p)
  <1> DEFINE a == After(e, k)
             u == [j \in 0..MaskBits |-> IF j = 0 THEN Hashed(d, p) ELSE Scan(d)[p - j].hash]
  <1>0. /\ MaskBits \in Nat \ {0} /\ MaskBits <= Min /\ Min \in Nat
    BY MaskAssumption, SizesAssumption
  <1>1. p \in Nat /\ Len(d) \in Nat /\ a + MaskBits <= p /\ p <= e[k] /\ a \in Nat
    BY <1>0
  <1> HIDE DEF a
  <1>2. ASSUME NEW j \in 1..MaskBits
        PROVE  /\ p - j \in Nat /\ p - j \in 0..Len(d) /\ p - j >= a
               /\ p - j + 1 \in 1..Len(d) /\ d[p - j + 1] \in Byte
               /\ Scan(d)[p - j].hash \in 0..Words - 1
    <2>1. p - j \in 0..Len(d) /\ p - j >= a /\ p - j + 1 \in 1..Len(d)
      BY <1>0, <1>1
    <2>2. d[p - j + 1] \in Byte
      BY <2>1
    <2>3. Scan(d)[p - j].hash \in 0..Words - 1
      BY <2>1, ScanHash
    <2> QED BY <2>1, <2>2, <2>3
  <1>3. \A j \in 1..MaskBits : u[j - 1] = FeedByte(u[j], d[p - j + 1])
    <2> SUFFICES ASSUME NEW j \in 1..MaskBits
                 PROVE  u[j - 1] = FeedByte(u[j], d[p - j + 1])
      OBVIOUS
    <2>1. u[j] = Scan(d)[p - j].hash
      BY <1>0
    <2>2. FeedByte(u[j], d[p - j + 1]) = Hashed(d, p - j + 1)
      <3> DEFINE q == p - j + 1
      <3>1. q - 1 = p - j
        BY <1>1
      <3> HIDE DEF q, u
      <3> QED BY <2>1, <3>1 DEF Hashed, q
    <2>3. CASE j = 1
      <3>1. u[j - 1] = Hashed(d, p) /\ p - j + 1 = p
        BY <1>0, <1>1, <2>3
      <3> HIDE DEF u
      <3> QED BY <2>2, <3>1
    <2>4. CASE j > 1
      <3> DEFINE q == p - j + 1
      <3>1. u[j - 1] = Scan(d)[p - (j - 1)].hash /\ p - (j - 1) = q
        BY <1>0, <1>1, <2>4
      <3>2. q \in a + 1..e[k] /\ q < Len(d) /\ q # e[k]
        BY <1>0, <1>1, <1>2, <2>4
      <3> HIDE DEF q, u
      <3>3. Scan(d)[q].hash = Hashed(d, q)
        BY <1>1, <3>2, CutAtEnd DEF a
      <3> QED BY <2>2, <3>1, <3>3 DEF q
    <2> QED BY <1>0, <2>3, <2>4
  <1>4. u \in [0..MaskBits -> Nat]
    <2>1. d[p] \in Byte /\ Scan(d)[p - 1].hash \in 0..Words - 1
      <3>1. p \in 1..Len(d) /\ p - 1 \in 0..Len(d)
        BY <1>0, <1>1
      <3> QED BY <3>1, ScanHash
    <2>2. Hashed(d, p) \in Nat
      <3>1. Hashed(d, p) \in 0..Words - 1
        BY <2>1, FeedByteType DEF Hashed
      <3> QED BY <3>1, GearAssumption
    <2>3. \A j \in 1..MaskBits : Scan(d)[p - j].hash \in Nat
      BY <1>2
    <2> QED BY <1>0, <2>2, <2>3
  <1>5. u[0] = Hashed(d, p)
    BY <1>0
  <1> HIDE DEF u
  <1> QED BY <1>1, <1>2, <1>3, <1>4, <1>5, LastBytesDecide

(* Where a chunk ends is decided by its length and by the last MaskBits    *)
(* bytes alone, for every gear table and every width of the word that the  *)
(* mask divides: the hash is reset at a cut and MASK has no more bits than *)
(* a chunk has bytes, so an edit can move the cuts of its own chunk and of *)
(* those whose last bytes it touches, and no others.                       *)
THEOREM CutsCorrect == Spec => []CutsAreLocal
  <1>1. ASSUME ScanIInv
        PROVE  CutsAreLocal
    <2> SUFFICES ASSUME NEW f \in DOMAIN recipe, NEW k \in 1..Len(ends[f]),
                        NEW p \in After(ends[f], k) + Min..ends[f][k], p < Len(data[f])
                 PROVE  p = ends[f][k] <=>
                          p - After(ends[f], k) = Max \/ Marked(data[f], p)
      BY DEF CutsAreLocal
    <2> DEFINE e == ends[f]
               d == data[f]
               a == After(e, k)
    <2>1. /\ e \in Seq(Nat) /\ d \in Seq(Byte) /\ a \in Nat /\ a < e[k] /\ e[k] <= Len(d)
      BY <1>1, ChunksEnd DEF ScanIInv
    <2>2. e = AllEnds(d)
      BY <1>1 DEF ScanIInv, IInv, TypeOK
    <2>3. e[k] - a <= Max
      BY <1>1, ChunkLength DEF ScanIInv
    <2> HIDE DEF e, d, a
    <2>4. k \in 1..Len(e) /\ p \in a + Min..e[k] /\ p < Len(d)
      BY DEF a, d, e
    <2>5. /\ e[k] \in Nat /\ p \in Nat /\ p \in a + 1..e[k] /\ p - a >= Min
          /\ p - a <= Max
      BY <2>1, <2>3, <2>4, SizesAssumption
    <2>6. p = e[k] <=> ShouldCut(p - a, Hashed(d, p))
      BY <2>1, <2>2, <2>4, <2>5, CutAtEnd DEF a
    <2>7. Hashed(d, p) % Target = 0 <=> Marked(d, p)
      BY <2>1, <2>2, <2>4, <2>5, HashMarked DEF a
    <2>8. p = e[k] <=> p - a = Max \/ Marked(d, p)
      <3> DEFINE z == Hashed(d, p) % Target = 0
      <3>1. ShouldCut(p - a, Hashed(d, p)) <=> p - a = Max \/ z
        <4>1. ShouldCut(p - a, Hashed(d, p)) <=> p - a >= Min /\ (p - a >= Max \/ z)
          BY DEF ShouldCut
        <4>2. p - a >= Max <=> p - a = Max
          BY <2>1, <2>5, SizesAssumption
        <4> HIDE DEF z
        <4> QED BY <2>5, <4>1, <4>2, Zenon
      <3> HIDE DEF z
      <3>2. z <=> Marked(d, p)
        BY <2>7 DEF z
      <3> QED BY <2>6, <3>1, <3>2, Zenon
    <2> QED BY <2>8 DEF a, d, e
  <1> QED BY <1>1, ScanInductive, PTL
=============================================================================
