----------------------------- MODULE PageCache ------------------------------
(***************************************************************************)
(* The write-back page cache of fuse_handler.rs: whole-file buffers with a *)
(* dirty bit (page_cache), an LRU queue of inode ids (cache_lru), the file *)
(* sizes of the inode registry, and what a flush makes durable: the recipe *)
(* (here the bytes it stands for, ContentStore being the model of how they *)
(* are stored) and the size in the inode's ino_meta row.                   *)
(*                                                                         *)
(* FUSE requests are dispatched one at a time.  A request that makes room  *)
(* in the cache, and a flush of everything, take one step per buffer, so   *)
(* that errors and crashes come between them.                              *)
(***************************************************************************)
EXTENDS FileBytes, FiniteSets, SledMap

CONSTANTS
  File,       \* inodes of regular files; an id is used once
  Byte,       \* byte values
  Writes,     \* what a write request carries
  Lengths,    \* what a truncation asks for
  MaxLen,     \* bound on where a write ends
  Capacity,   \* PAGE_CACHE_CAPACITY
  MaxFaults   \* bound on errors; crashes are counted up to it

ASSUME ByteAssumption == Byte \subseteq Nat /\ 0 \in Byte
ASSUME WritesAssumption == Writes \subseteq Seq(Byte) \ {<<>>}
ASSUME LengthsAssumption == Lengths \subseteq Nat
ASSUME BoundAssumption ==
  MaxLen \in Nat /\ Capacity \in Nat \ {0} /\ MaxFaults \in Nat \ {0}

VARIABLES
  cache,   \* page_cache: buffer and dirty bit of the cached files
  lru,     \* cache_lru, front first
  size,    \* attr.size of the files in inode_registry
  saved,   \* the bytes each file's ino_recipe stands for
  meta,    \* the size in each file's ino_meta
  live,    \* files a dirent names: the ones a mount registers
  job,     \* the request in progress
  reply,   \* what the last step answered to a read, if it did
  faults   \* errors and crashes so far (see MaxFaults)

vars == <<cache, lru, size, saved, meta, live, job, reply, faults>>

-----------------------------------------------------------------------------
Idle == [kind |-> "idle"]

(* evict_under_pressure, called by a request on `file`; `end` is the size  *)
(* the request goes on to record.                                          *)
Evicting(op, f, end) == [kind |-> "evict", op |-> op, file |-> f, end |-> end]
EvictJob == [kind : {"evict"}, op : {"read", "write", "truncate"}, file : File, end : Nat]

(* flush_all_dirty_cache: the keys still to be flushed. *)
FlushingAll(todo) == [kind |-> "flush", todo |-> todo]
FlushJob == [kind : {"flush"}, todo : SUBSET File]

Entry == [data : Seq(Byte), dirty : BOOLEAN]
Dirty(d) == [data |-> d, dirty |-> TRUE]
Clean(d) == [data |-> d, dirty |-> FALSE]

NoReply == [kind |-> "none"]
Reply(f, d) == [kind |-> "data", file |-> f, data |-> d]
DataReply == [kind : {"data"}, file : File, data : Seq(Byte)]

(* The bytes a flush left behind, none for a file without a recipe. *)
Durable(f) == IF f \in DOMAIN saved THEN saved[f] ELSE <<>>

(* The bytes of a file: its buffer, or what a load would give. *)
Current(f) == IF f \in DOMAIN cache THEN cache[f].data ELSE Durable(f)

Fault == faults < MaxFaults /\ faults' = faults + 1

(* The reply of read's last lines, from the cache c. *)
Answer(f, c) == reply' = Reply(f, IF f \in DOMAIN c THEN c[f].data ELSE <<>>)

(* The queue without the first occurrence of f (an id is in it once). *)
Without(l, f) ==
  IF \E k \in 1..Len(l) : l[k] = f
  THEN LET p == CHOOSE k \in 1..Len(l) : l[k] = f
       IN SubSeq(l, 1, p - 1) \o SubSeq(l, p + 1, Len(l))
  ELSE l

(* touch_cache_entry *)
Touch(l, f) == Append(Without(l, f), f)

-----------------------------------------------------------------------------
Init ==
  /\ cache = <<>>
  /\ lru = <<>>
  /\ size = <<>>
  /\ saved = <<>>
  /\ meta = <<>>
  /\ live = {}
  /\ job = Idle
  /\ reply = NoReply
  /\ faults = 0

(* Mutant of Create: the dirent is saved before the metadata. *)
CreateDirentFirst(f) ==
  /\ job = Idle
  /\ f \notin DOMAIN meta
  /\ live' = live \cup {f}
  /\ \/ /\ meta' = Put(meta, f, 0)
        /\ saved' = Put(saved, f, <<>>)
        /\ size' = Put(size, f, 0)
        /\ UNCHANGED faults
     \/ /\ Fault
        /\ UNCHANGED <<meta, saved, size>>
  /\ reply' = NoReply
  /\ UNCHANGED <<cache, lru, job>>

(* create_live_file_under_parent.  Metadata, dirent and recipe are flushed *)
(* one after the other; the file enters the registry after all three.      *)
Create(f) ==
  /\ job = Idle
  /\ f \notin DOMAIN meta
  /\ meta' = Put(meta, f, 0)
  /\ \/ /\ live' = live \cup {f}
        /\ saved' = Put(saved, f, <<>>)
        /\ size' = Put(size, f, 0)
        /\ UNCHANGED faults
     \/ /\ Fault
        /\ live' \in {live, live \cup {f}}
        /\ UNCHANGED <<saved, size>>
  /\ reply' = NoReply
  /\ UNCHANGED <<cache, lru, job>>

-----------------------------------------------------------------------------
(* Reading.                                                                *)

ReadHit(f) ==
  /\ job = Idle
  /\ f \in DOMAIN size /\ f \in DOMAIN cache
  /\ lru' = Touch(lru, f)
  /\ Answer(f, cache)
  /\ UNCHANGED <<cache, size, saved, meta, live, job, faults>>

(* Not cached: the file is loaded, and room is made before it is touched. *)
ReadMiss(f) ==
  /\ job = Idle
  /\ f \in DOMAIN size /\ f \notin DOMAIN cache
  /\ f \in DOMAIN saved
  /\ cache' = Put(cache, f, Clean(saved[f]))
  /\ job' = Evicting("read", f, 0)
  /\ reply' = NoReply
  /\ UNCHANGED <<lru, size, saved, meta, live, faults>>

(* read_file_by_id fails: no recipe, or an error. *)
ReadFails(f) ==
  /\ job = Idle
  /\ f \in DOMAIN size /\ f \notin DOMAIN cache
  /\ \/ f \notin DOMAIN saved /\ UNCHANGED faults
     \/ Fault
  /\ reply' = Reply(f, <<>>)
  /\ UNCHANGED <<cache, lru, size, saved, meta, live, job>>

-----------------------------------------------------------------------------
(* Editing.                                                                *)

(* The buffer an edit starts from: or_insert_with(.. unwrap_or_default()). *)
Loaded(f, base) ==
  \/ base = Current(f) /\ UNCHANGED faults
  \/ f \notin DOMAIN cache /\ base = <<>> /\ Fault

(* Mutant of Write: the size forgets the offset. *)
WriteNoOffset(f, off, d) ==
  /\ job = Idle
  /\ f \in DOMAIN size
  /\ off + Len(d) <= MaxLen
  /\ \E base \in {Current(f), <<>>} :
       Loaded(f, base) /\ cache' = Put(cache, f, Dirty(Overlay(base, off, d)))
  /\ lru' = Touch(lru, f)
  /\ job' = Evicting("write", f, Len(d))
  /\ reply' = NoReply
  /\ UNCHANGED <<size, saved, meta, live>>

Write(f, off, d) ==
  /\ job = Idle
  /\ f \in DOMAIN size
  /\ off + Len(d) <= MaxLen
  /\ \E base \in {Current(f), <<>>} :
       Loaded(f, base) /\ cache' = Put(cache, f, Dirty(Overlay(base, off, d)))
  /\ lru' = Touch(lru, f)
  /\ job' = Evicting("write", f, off + Len(d))
  /\ reply' = NoReply
  /\ UNCHANGED <<size, saved, meta, live>>

(* setattr with a size. *)
Truncate(f, n) ==
  /\ job = Idle
  /\ f \in DOMAIN size
  /\ \E base \in {Current(f), <<>>} :
       Loaded(f, base) /\ cache' = Put(cache, f, Dirty(Resize(base, n)))
  /\ lru' = Touch(lru, f)
  /\ job' = Evicting("truncate", f, n)
  /\ reply' = NoReply
  /\ UNCHANGED <<size, saved, meta, live>>

-----------------------------------------------------------------------------
(* Flushing one buffer: write_file_by_id, then save_inode with the size    *)
(* the registry holds at that moment.                                      *)
FlushSaves(f) ==
  /\ saved' = Put(saved, f, cache[f].data)
  /\ meta' = Put(meta, f, size[f])
  /\ UNCHANGED faults

(* It fails before the recipe is saved, or after, or when the size too is  *)
(* saved and the database's own flush fails.                               *)
FlushErrs(f) ==
  /\ Fault
  /\ \/ UNCHANGED <<saved, meta>>
     \/ /\ saved' = Put(saved, f, cache[f].data)
        /\ meta' \in {meta, Put(meta, f, size[f])}

IsDirty(f) == f \in DOMAIN cache /\ cache[f].dirty

(* Mutant of Flush: the buffer counts as clean although the flush failed. *)
FlushCleansAnyway(f) ==
  /\ job = Idle
  /\ IsDirty(f)
  /\ FlushSaves(f) \/ FlushErrs(f)
  /\ cache' = Put(cache, f, Clean(cache[f].data))
  /\ lru' = Touch(lru, f)
  /\ reply' = NoReply
  /\ UNCHANGED <<size, live, job>>

(* fsync, release and flush: flush_inode_cache. *)
Flush(f) ==
  /\ job = Idle
  /\ IsDirty(f)
  /\ \/ /\ FlushSaves(f)
        /\ cache' = Put(cache, f, Clean(cache[f].data))
        /\ lru' = Touch(lru, f)
     \/ /\ FlushErrs(f)
        /\ UNCHANGED <<cache, lru>>
  /\ reply' = NoReply
  /\ UNCHANGED <<size, live, job>>


(* flush_all_dirty_cache, before a snapshot: the keys in no known order,   *)
(* stopping at the first error.                                            *)
FlushAll ==
  /\ job = Idle
  /\ job' = FlushingAll({f \in DOMAIN cache : cache[f].dirty})
  /\ reply' = NoReply
  /\ UNCHANGED <<cache, lru, size, saved, meta, live, faults>>

FlushNext(f) ==
  /\ job.kind = "flush" /\ f \in job.todo
  /\ \/ /\ FlushSaves(f)
        /\ cache' = Put(cache, f, Clean(cache[f].data))
        /\ lru' = Touch(lru, f)
        /\ job' = FlushingAll(job.todo \ {f})
     \/ /\ FlushErrs(f)
        /\ job' = Idle
        /\ UNCHANGED <<cache, lru>>
  /\ UNCHANGED <<size, live, reply>>

FlushedAll ==
  /\ job.kind = "flush" /\ job.todo = {}
  /\ job' = Idle
  /\ UNCHANGED <<cache, lru, size, saved, meta, live, reply, faults>>

-----------------------------------------------------------------------------
(* evict_under_pressure, one turn of its loop per step.                    *)

Pressure == job.kind = "evict" /\ Cardinality(DOMAIN cache) > Capacity

(* pop_front until an id that is still cached: the k-th of the queue. *)
Victim(k) ==
  /\ k \in 1..Len(lru)
  /\ lru[k] \in DOMAIN cache
  /\ \A j \in 1..(k - 1) : lru[j] \notin DOMAIN cache

(* Mutant of Popped: one id too many leaves the queue. *)
PoppedTwo(k) == SubSeq(lru, k + 2, Len(lru))

Popped(k) == SubSeq(lru, k + 1, Len(lru))

(* Mutant of EvictClean: a clean victim gets a second chance. *)
EvictRotates(k) ==
  /\ Pressure /\ Victim(k) /\ ~IsDirty(lru[k])
  /\ lru' = Touch(Popped(k), lru[k])
  /\ UNCHANGED <<cache, size, saved, meta, live, job, reply, faults>>

EvictClean(k) ==
  /\ Pressure /\ Victim(k) /\ ~IsDirty(lru[k])
  /\ cache' = Drop(cache, lru[k])
  /\ lru' = Popped(k)
  /\ UNCHANGED <<size, saved, meta, live, job, reply, faults>>

(* Mutant of EvictDirty: the victim leaves the cache without a flush. *)
EvictUnflushed(k) ==
  /\ Pressure /\ Victim(k) /\ IsDirty(lru[k])
  /\ cache' = Drop(cache, lru[k])
  /\ lru' = Touch(Popped(k), lru[k])
  /\ UNCHANGED <<size, saved, meta, live, job, reply, faults>>

(* The flush touches the victim, which then leaves the cache: its id stays *)
(* in the queue.                                                           *)
EvictDirty(k) ==
  /\ Pressure /\ Victim(k) /\ IsDirty(lru[k])
  /\ FlushSaves(lru[k])
  /\ cache' = Drop(cache, lru[k])
  /\ lru' = Touch(Popped(k), lru[k])
  /\ UNCHANGED <<size, live, job, reply>>

(* The flush of the victim fails.  It stays cached and dirty, and off the  *)
(* queue.  An edit answers EIO without recording its size; a read does not *)
(* look at the error.                                                      *)
EvictFails(k) ==
  /\ Pressure /\ Victim(k) /\ IsDirty(lru[k])
  /\ FlushErrs(lru[k])
  /\ IF job.op = "read"
     THEN lru' = Touch(Popped(k), job.file) /\ Answer(job.file, cache)
     ELSE lru' = Popped(k) /\ UNCHANGED reply
  /\ job' = Idle
  /\ UNCHANGED <<cache, size, live>>

(* The size an edit records: a write only ever raises it. *)
NewSize == IF job.op = "write" THEN Larger(size[job.file], job.end) ELSE job.end

(* Enough room, or nothing left to pop.  The request goes on to its end. *)
EvictDone ==
  LET f == job.file
      l == IF Pressure THEN <<>> ELSE lru
  IN /\ job.kind = "evict"
     /\ Pressure => \A k \in 1..Len(lru) : ~Victim(k)
     /\ \/ /\ job.op = "read"
           /\ lru' = Touch(l, f)
           /\ Answer(f, cache)
           /\ UNCHANGED size
        \/ /\ job.op # "read"
           /\ lru' = l
           /\ size' = Put(size, f, NewSize)
           /\ UNCHANGED reply
     /\ job' = Idle
     /\ UNCHANGED <<cache, saved, meta, live, faults>>

-----------------------------------------------------------------------------
(* The namespace operations that reach into the cache.                     *)

(* unlink: the buffer goes, dirty or not; the errors of delete_dirent are  *)
(* not looked at.  The inode stays registered (an open handle reaches it). *)
Unlink(f) ==
  /\ job = Idle
  /\ f \in live \cap DOMAIN size
  /\ \/ live' = live \ {f} /\ UNCHANGED faults
     \/ UNCHANGED live /\ Fault
  /\ cache' = Drop(cache, f)
  /\ lru' = Without(lru, f)
  /\ reply' = NoReply
  /\ UNCHANGED <<size, saved, meta, job>>

(* Mutant of Rename: the buffer dropped is the one of the file that moves. *)
RenameDropsMoved(f, over) ==
  /\ job = Idle
  /\ f \in live \cap DOMAIN size
  /\ over \in {{}} \cup {{g} : g \in (live \cap DOMAIN size) \ {f}}
  /\ \/ /\ meta' = Put(meta, f, size[f])
        /\ live' = live \ over
        /\ UNCHANGED faults
     \/ /\ Fault
        /\ \/ live' = live \ over /\ meta' \in {meta, Put(meta, f, size[f])}
           \/ live' = live \ (over \cup {f}) /\ meta' = Put(meta, f, size[f])
  /\ cache' = IF over = {} THEN cache ELSE Drop(cache, f)
  /\ lru' = IF over = {} THEN lru ELSE Without(lru, CHOOSE x \in over : TRUE)
  /\ reply' = NoReply
  /\ UNCHANGED <<size, saved, job>>

(* rename, possibly over another file, which loses its buffer: save_inode  *)
(* writes the size in the registry, whatever is flushed of the content.    *)
(* The old dirent is deleted before the new one is saved, and each of the  *)
(* three writes may be the one that fails.                                 *)
Rename(f, over) ==
  /\ job = Idle
  /\ f \in live \cap DOMAIN size
  /\ over \in {{}} \cup {{g} : g \in (live \cap DOMAIN size) \ {f}}
  /\ \/ /\ meta' = Put(meta, f, size[f])
        /\ live' = live \ over
        /\ UNCHANGED faults
     \/ /\ Fault
        /\ \/ live' = live \ over /\ meta' \in {meta, Put(meta, f, size[f])}
           \/ live' = live \ (over \cup {f}) /\ meta' = Put(meta, f, size[f])
  /\ cache' = [x \in DOMAIN cache \ over |-> cache[x]]
  /\ lru' = IF over = {} THEN lru ELSE Without(lru, CHOOSE x \in over : TRUE)
  /\ reply' = NoReply
  /\ UNCHANGED <<size, saved, job>>

(* The process dies and the store is mounted again: hydrate_live_children  *)
(* registers the files dirents name, with the sizes of their metadata.     *)
(* An unmount does the same: there is no destroy handler.                  *)
Crash ==
  /\ faults' = IF faults < MaxFaults THEN faults + 1 ELSE faults
  /\ cache' = <<>>
  /\ lru' = <<>>
  /\ size' = [f \in live |-> meta[f]]
  /\ job' = Idle
  /\ reply' = NoReply
  /\ UNCHANGED <<saved, meta, live>>

-----------------------------------------------------------------------------
EvictStep == EvictDone \/ \E k \in 1..Len(lru) : EvictClean(k) \/ EvictDirty(k) \/ EvictFails(k)

FlushStep == FlushedAll \/ \E f \in File : FlushNext(f)

Next ==
  \/ \E f \in File :
       \/ Create(f)
       \/ ReadHit(f) \/ ReadMiss(f) \/ ReadFails(f)
       \/ \E off \in 0..MaxLen, d \in Writes : Write(f, off, d)
       \/ \E n \in Lengths : Truncate(f, n)
       \/ Flush(f)
       \/ Unlink(f)
       \/ \E over \in {{}} \cup {{g} : g \in File} : Rename(f, over)
  \/ FlushAll
  \/ EvictStep
  \/ FlushStep
  \/ Crash

Spec == Init /\ [][Next]_vars

(* A request, once begun, runs to its end on the session's only thread. *)
FairSpec == Spec /\ WF_vars(EvictStep \/ FlushStep)

-----------------------------------------------------------------------------
(* Types of the state: in particular every named or registered file has    *)
(* its metadata, which is saved first, and every buffer a registered file. *)
TypeOK ==
  /\ IsMap(cache, File, Entry)
  /\ lru \in Seq(File)
  /\ IsMap(size, File, Nat)
  /\ IsMap(saved, File, Seq(Byte))
  /\ IsMap(meta, File, Nat)
  /\ live \subseteq DOMAIN meta
  /\ DOMAIN cache \subseteq DOMAIN size /\ DOMAIN size \subseteq DOMAIN meta
  /\ DOMAIN saved \subseteq DOMAIN meta
  /\ job \in {Idle} \cup EvictJob \cup FlushJob
  /\ reply \in {NoReply} \cup DataReply
  /\ faults \in Nat

(* A clean buffer holds exactly what the recipe holds, whatever has failed *)
(* before: evicting it without a flush loses nothing.                      *)
CleanIsSaved ==
  \A f \in DOMAIN cache :
    ~cache[f].dirty => f \in DOMAIN saved /\ saved[f] = cache[f].data

(* As long as nothing has failed, between requests the cache keeps its     *)
(* bound and each buffer is on the queue, so that it can be evicted.       *)
CacheBounded ==
  faults = 0 /\ job = Idle =>
    /\ Cardinality(DOMAIN cache) <= Capacity
    /\ \A f \in DOMAIN cache : \E k \in 1..Len(lru) : lru[k] = f

(* As long as nothing has failed, between requests the size the registry   *)
(* gives for a file that is named is the number of its bytes.              *)
SizeExact ==
  faults = 0 /\ job = Idle => \A f \in live : size[f] = Len(Current(f))

(* Every request ends: the eviction loop of a read or an edit and the      *)
(* flush of everything terminate, also when a victim that was flushed goes *)
(* back to the end of the queue, and when errors leave buffers off it.     *)
RequestsEnd == (job # Idle) ~> (job = Idle)

(* The cache is invisible to its clients: what they see changes only by    *)
(* their edits (of the file's own bytes, unless something failed), what is *)
(* durable only by writing back what is seen; a crash or an unlink goes    *)
(* back to what is durable.                                                *)
Abstract ==
  INSTANCE WriteBackFile WITH
    cur <- [f \in File |-> Current(f)],
    durable <- [f \in File |-> Durable(f)],
    named <- live,
    failed <- faults > 0
WritesBack == Abstract!Spec

-----------------------------------------------------------------------------
(* The parts of the inductive invariant the properties rest on.            *)

(* A request in progress is on a registered file, what is still to be      *)
(* flushed is dirty, and nothing has been answered yet.                    *)
JobReady ==
  /\ job.kind = "evict" => job.file \in DOMAIN size
  /\ job.kind = "flush" => \A f \in job.todo : IsDirty(f)
  /\ job # Idle => reply = NoReply

(* Before the first failure the registry's size is exact, but for the file *)
(* being edited, whose size will be when the edit ends.                    *)
SizeInFlight ==
  faults = 0 =>
    /\ live \subseteq DOMAIN size
    /\ \A f \in live :
         Len(Current(f)) = IF job.kind = "evict" /\ job.op # "read" /\ job.file = f
                           THEN NewSize ELSE size[f]

(* Before the first failure the cache keeps its bound, but for the one     *)
(* buffer a request has just added and is making room for; and each buffer *)
(* is on the queue, but for the one a read has loaded and not yet touched. *)
OnQueue(f) == \E k \in 1..Len(lru) : lru[k] = f

RoomInFlight ==
  faults = 0 =>
    /\ IsFiniteSet(DOMAIN cache)
    /\ Cardinality(DOMAIN cache) <= IF job.kind = "evict" THEN Capacity + 1 ELSE Capacity
    /\ \A f \in DOMAIN cache :
         OnQueue(f) \/ (job.kind = "evict" /\ job.op = "read" /\ job.file = f)

IInv ==
  /\ TypeOK
  /\ CleanIsSaved
  /\ JobReady
  /\ SizeInFlight
  /\ RoomInFlight
=============================================================================
