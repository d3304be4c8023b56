------------------------------ MODULE Chunker -------------------------------
(***************************************************************************)
(* How a file is cut into chunks (chunker.rs): the loop that stores a      *)
(* file's content (create_recipe_from_data in file_manager.rs) and the one *)
(* that only counts (chunk_lengths, behind the command cdc-stats).  Both   *)
(* read a byte at a time with a Chunker of their own.  A chunk is its      *)
(* bytes, which its SHA-256 name stands for; what write_chunk does with    *)
(* them is ContentStore's.                                                 *)
(***************************************************************************)
EXTENDS SledMap, Integers, Sequences

CONSTANTS
  File, Byte,
  Gear,        \* GEAR_MATRIX: a word for each byte
  Words,       \* number of values of the hash, 2^64
  Target,      \* TARGET_CHUNK_SIZE, MASK + 1
  MaskBits,    \* the bits of MASK
  Min, Max     \* MIN_CHUNK_SIZE, MAX_CHUNK_SIZE

ASSUME SizesAssumption == Min \in Nat \ {0} /\ Max \in Nat /\ Min <= Max
ASSUME GearAssumption == Words \in Nat \ {0} /\ Gear \in [Byte -> 0..Words - 1]
ASSUME MaskAssumption ==
  MaskBits \in 1..Min /\ Target = 2^MaskBits /\ Words % Target = 0

VARIABLES
  data,     \* the contents of the files
  recipe,   \* the recipes stored, a map: file_size and chunks
  sizes,    \* what chunk_lengths returned, a map
  ends,     \* where the chunks of a recipe end (history, no code)
  job       \* the loop that is running: its local variables

vars == <<data, recipe, sizes, ends, job>>

-----------------------------------------------------------------------------
(* The Chunker.                                                            *)

(* Mutant of FeedByte: the shift is forgotten. *)
FeedUnshifted(h, b) == (h + Gear[b]) % Words

(* Mutant of ShouldCut: the maximum is passed. *)
ShouldCutLate(n, h) == n >= Min /\ (n > Max \/ h % Target = 0)

FeedByte(h, b) == (2 * h + Gear[b]) % Words
ShouldCut(n, h) == n >= Min /\ (n >= Max \/ h % Target = 0)
Reset == 0

-----------------------------------------------------------------------------
Idle == [op |-> "idle"]
Storing(f) ==
  [op |-> "store", file |-> f, read |-> 0, hash |-> Reset,
   buffer |-> <<>>, chunks |-> <<>>, total |-> 0, ends |-> <<>>]
Counting(f) ==
  [op |-> "count", file |-> f, read |-> 0, hash |-> Reset, size |-> 0, sizes |-> <<>>]

Start == recipe = <<>> /\ sizes = <<>> /\ ends = <<>> /\ job = Idle
Init == data \in [File -> Seq(Byte)] /\ Start

(* The running loop has a byte to read; the byte and the hash with it. *)
Reading(op) == job.op = op /\ job.read < Len(data[job.file])
AllRead(op) == job.op = op /\ job.read = Len(data[job.file])
NextByte == data[job.file][job.read + 1]
Fed == FeedByte(job.hash, NextByte)
Filled == Append(job.buffer, NextByte)

(* Mutant of ChunkEnds: the size is the position in the file. *)
ChunkEndsByPosition == ShouldCut(job.read + 1, Fed)

ChunkEnds == ShouldCut(Len(Filled), Fed)

Step(j) == job' = j /\ UNCHANGED <<data, recipe, sizes, ends>>

(***************************************************************************)
(* create_recipe_from_data.                                                *)
(***************************************************************************)
BeginStore(f) == job = Idle /\ Step(Storing(f))

StoreByte ==
  /\ Reading("store") /\ ~ChunkEnds
  /\ Step([job EXCEPT !.read = @ + 1, !.hash = Fed, !.buffer = Filled])

(* Mutant of StoreChunk: the buffer is not cleared. *)
StoreChunkKept ==
  /\ Reading("store") /\ ChunkEnds
  /\ Step([job EXCEPT !.read = @ + 1, !.hash = Reset, !.buffer = Filled,
                      !.chunks = Append(@, Filled), !.total = @ + Len(Filled),
                      !.ends = Append(@, job.read + 1)])

StoreChunk ==
  /\ Reading("store") /\ ChunkEnds
  /\ Step([job EXCEPT !.read = @ + 1, !.hash = Reset, !.buffer = <<>>,
                      !.chunks = Append(@, Filled), !.total = @ + Len(Filled),
                      !.ends = Append(@, job.read + 1)])

(* Mutant of FinishStore: the tail counts even when there is none. *)
FinishStoreAlways ==
  /\ AllRead("store")
  /\ recipe' = Put(recipe, job.file, [file_size |-> job.total + Len(job.buffer),
                                      chunks |-> Append(job.chunks, job.buffer)])
  /\ ends' = Put(ends, job.file, Append(job.ends, job.read))
  /\ job' = Idle /\ UNCHANGED <<data, sizes>>

(* The tail, when there is one, and the recipe saved (write_file_by_id). *)
FinishStore ==
  LET tail == job.buffer # <<>>
  IN /\ AllRead("store")
     /\ recipe' = Put(recipe, job.file,
          [file_size |-> job.total + Len(job.buffer),
           chunks |-> IF tail THEN Append(job.chunks, job.buffer) ELSE job.chunks])
     /\ ends' = Put(ends, job.file,
                    IF tail THEN Append(job.ends, job.read) ELSE job.ends)
     /\ job' = Idle /\ UNCHANGED <<data, sizes>>

(* An error of write_chunk, or of saving the recipe: the old one stays. *)
StoreFails ==
  /\ job.op = "store" /\ (Reading("store") => ChunkEnds)
  /\ Step(Idle)

(***************************************************************************)
(* chunk_lengths.                                                          *)
(***************************************************************************)
BeginCount(f) == job = Idle /\ Step(Counting(f))

CountByte ==
  /\ Reading("count") /\ ~ShouldCut(job.size + 1, Fed)
  /\ Step([job EXCEPT !.read = @ + 1, !.hash = Fed, !.size = @ + 1])

CountChunk ==
  /\ Reading("count") /\ ShouldCut(job.size + 1, Fed)
  /\ Step([job EXCEPT !.read = @ + 1, !.hash = Reset, !.size = 0,
                      !.sizes = Append(@, job.size + 1)])

(* Mutant of FinishCount: the tail is not counted. *)
FinishCountNoTail ==
  /\ AllRead("count")
  /\ sizes' = Put(sizes, job.file, job.sizes)
  /\ job' = Idle /\ UNCHANGED <<data, recipe, ends>>

FinishCount ==
  /\ AllRead("count")
  /\ sizes' = Put(sizes, job.file,
                  IF job.size > 0 THEN Append(job.sizes, job.size) ELSE job.sizes)
  /\ job' = Idle /\ UNCHANGED <<data, recipe, ends>>

Next ==
  \/ \E f \in File : BeginStore(f) \/ BeginCount(f)
  \/ StoreByte \/ StoreChunk \/ FinishStore \/ StoreFails
  \/ CountByte \/ CountChunk \/ FinishCount

Spec == Init /\ [][Next]_vars

-----------------------------------------------------------------------------
Chunk == Seq(Byte) \ {<<>>}

(* Types.  Between two bytes the buffer is shorter than Max, the bound of  *)
(* a chunk, and the size counted likewise.                                 *)
StoreJob ==
  [op : {"store"}, file : File, read : Nat, hash : 0..Words - 1,
   buffer : Seq(Byte), chunks : Seq(Chunk), total : Nat, ends : Seq(Nat)]
CountJob ==
  [op : {"count"}, file : File, read : Nat, hash : 0..Words - 1,
   size : 0..Max - 1, sizes : Seq(1..Max)]
TypeOK ==
  /\ data \in [File -> Seq(Byte)]
  /\ IsMap(recipe, File, [file_size : Nat, chunks : Seq(Chunk)])
  /\ IsMap(sizes, File, Seq(1..Max))
  /\ IsMap(ends, File, Seq(Nat)) /\ DOMAIN ends = DOMAIN recipe
  /\ job \in {Idle} \cup StoreJob \cup CountJob
  /\ job # Idle => job.read <= Len(data[job.file])
  /\ job.op = "store" => Len(job.buffer) < Max

(* The chunks c, which end at e, are the first n bytes of d, none left out *)
(* and none twice.                                                         *)
After(e, k) == IF k = 1 THEN 0 ELSE e[k - 1]
Cover(c, e, d, n) ==
  /\ Len(c) = Len(e)
  /\ \A k \in 1..Len(c) : c[k] = SubSeq(d, After(e, k) + 1, e[k])
  /\ n = After(e, Len(e) + 1)

(* Storing loses nothing: read_file_by_id, which joins the chunks, gives   *)
(* the content back, and file_size is its length, also when the file is    *)
(* empty or ends where a chunk does.                                       *)
ChunksCover ==
  \A f \in DOMAIN recipe :
    /\ Cover(recipe[f].chunks, ends[f], data[f], Len(data[f]))
    /\ recipe[f].file_size = Len(data[f])

(* Every chunk is from Min to Max bytes long, but the last, which may be   *)
(* shorter and is never empty.                                             *)
SizesBounded ==
  \A f \in DOMAIN recipe :
    LET c == recipe[f].chunks
    IN \A k \in 1..Len(c) : Len(c[k]) \in (IF k < Len(c) THEN Min ELSE 1)..Max

(* The last MaskBits bytes up to p, weighed as the shifts weigh them. *)
Marked(d, p) ==
  LET sum[j \in 0..MaskBits] ==
        IF j = 0 THEN 0 ELSE sum[j - 1] + Gear[d[p - j + 1]] * 2^(j - 1)
  IN sum[MaskBits] % Target = 0

(* Where a chunk ends is decided by its length and by the last MaskBits    *)
(* bytes alone: what is shifted out of the mask or out of the word, and    *)
(* what was in the chunk before, has no part in it.                        *)
CutsAreLocal ==
  \A f \in DOMAIN recipe : \A k \in 1..Len(ends[f]) :
    LET from == After(ends[f], k)
    IN \A p \in from + Min..ends[f][k] :
         p < Len(data[f]) =>
           (p = ends[f][k] <=> p - from = Max \/ Marked(data[f], p))

(* cdc-stats tells the truth: chunk_lengths gives the lengths of the       *)
(* chunks that storing the same bytes makes.                               *)
SizesPredicted ==
  \A f \in DOMAIN recipe \cap DOMAIN sizes :
    sizes[f] = [k \in 1..Len(recipe[f].chunks) |-> Len(recipe[f].chunks[k])]

(* Deduplication: when a chunk ends in two files and the rest of their     *)
(* bytes is the same, the rest of their chunks is the same, wherever in    *)
(* the two files it is and whatever was before it.                         *)
Rest(s, k) == SubSeq(s, k, Len(s))
SameAfterSync ==
  \A f, g \in DOMAIN recipe :
    \A k \in 1..Len(ends[f]) + 1, l \in 1..Len(ends[g]) + 1 :
      Rest(data[f], After(ends[f], k) + 1) = Rest(data[g], After(ends[g], l) + 1)
        => Rest(recipe[f].chunks, k) = Rest(recipe[g].chunks, l)
=============================================================================
