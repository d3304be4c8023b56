---------------------------- MODULE ContentStore ----------------------------
(***************************************************************************)
(* The content side of ArcFS: the chunk files of storage.rs (one file per  *)
(* SHA-256 hash under <store>/cas) and the metadata of file_manager.rs     *)
(* that names them (ino_recipe:<id>, legacy_name:<name>, legacy:next_ino), *)
(* with the operations that write both in several steps and the garbage    *)
(* collector that deletes chunk files no recipe names.                     *)
(*                                                                         *)
(* A chunk stands for its bytes and for their hash (hashing is taken to be *)
(* injective).  A content is the sequence of its chunks: Chunker cuts the  *)
(* same bytes the same way every time.                                     *)
(*                                                                         *)
(* One operation runs at a time: the FUSE session dispatches on one        *)
(* thread, and sled's file lock keeps a command-line process and a mount   *)
(* (or two commands) apart.  What interleaves with an operation is failure:*)
(* an I/O error, the death of the process, the loss of power.              *)
(***************************************************************************)
EXTENDS Naturals, Sequences, FiniteSets, SledMap

CONSTANTS
  Chunk,        \* chunk contents (and hashes)
  Contents,     \* the contents a client writes: sequences of chunks
  FuseIno,      \* inode numbers handed out by fuse_handler.rs
  LegacyIno,    \* inode numbers 1_000_000.. handed out by get_next_legacy_ino
  Name,         \* file names of the command-line API
  MaxFaults     \* bound on errors and power losses; crashes are counted up to it

ASSUME ContentsAssumption == Contents \subseteq Seq(Chunk)
ASSUME InoAssumption == LegacyIno \subseteq Nat /\ FuseIno \cap LegacyIno = {}
ASSUME FaultAssumption == MaxFaults \in Nat \ {0}

Ino == FuseIno \cup LegacyIno

(* Where get_next_legacy_ino starts counting. *)
LegacyBase == 1000000

VARIABLES
  disk,       \* what is at each chunk's path
  unsynced,   \* chunk files the kernel has not written back yet
  lost,       \* chunks whose file a power loss took away
  db,         \* the sled tree: recipe, names, next
  past,       \* values of db since the last flush: what a crash can bring back
  job,        \* the operation in progress
  linked,     \* FUSE inodes that some directory, live or snapshot, names
  faults      \* errors, power losses and crashes so far (see MaxFaults)

vars == <<disk, unsynced, lost, db, past, job, linked, faults>>

-----------------------------------------------------------------------------
Idle == [kind |-> "idle"]

(* write_file_by_id: `stored` chunks of `data` are in the store; `open` is *)
(* true between File::create and the end of write_all.                     *)
StoreJob == [kind : {"store"}, ino : Ino, data : Seq(Chunk),
             stored : Nat, open : BOOLEAN]

(* run_gc: the active set of the mark phase, and the listed hashes that    *)
(* the sweep has still to look at.                                         *)
GcJob == [kind : {"gc"}, active : SUBSET Chunk, todo : SUBSET Chunk]

(* d is a state of the tree. *)
IsDb(d) ==
  /\ d = [recipe |-> d.recipe, names |-> d.names, next |-> d.next]
  /\ IsMap(d.recipe, Ino, Seq(Chunk))
  /\ IsMap(d.names, Name, Ino)
  /\ d.next \in Nat

OnDisk(c) == disk[c] # "absent"

ChunksOf(r) == {r[k] : k \in 1..Len(r)}

(* The active set of run_gc: the chunks of every ino_recipe: key. *)
Referenced(d) == UNION {ChunksOf(d.recipe[i]) : i \in DOMAIN d.recipe}

(* read_file_by_id succeeds with the content of the recipe: every chunk    *)
(* file is there and decodes.  A torn frame fails to decode, or decodes to *)
(* something else.                                                         *)
Readable(i) == \A c \in ChunksOf(db.recipe[i]) : disk[c] = "whole"

-----------------------------------------------------------------------------
Init ==
  /\ disk = [c \in Chunk |-> "absent"]
  /\ unsynced = {}
  /\ lost = {}
  /\ db = [recipe |-> <<>>, names |-> <<>>, next |-> LegacyBase]
  /\ past = {}
  /\ job = Idle
  /\ linked = {}
  /\ faults = 0

Fault == faults < MaxFaults /\ faults' = faults + 1

(* A run of metadata writes that ends in a flush; `trees` holds the tree   *)
(* after each of them.  Either all succeed and are durable, or one of the  *)
(* calls fails, the handler returns Err and what was written stays in the  *)
(* running process, unflushed.                                             *)
Write(trees) ==
  \/ /\ db' = trees[Len(trees)]
     /\ past' = {}
     /\ UNCHANGED faults
  \/ /\ Fault
     /\ \E k \in 1..Len(trees) :
          /\ db' = trees[k]
          /\ past' = past \cup {db} \cup {trees[j] : j \in 1..(k - 1)}

(* The tree after one more write to each kind of key. *)
WithRecipe(d, i, r) ==
  [recipe |-> Put(d.recipe, i, r), names |-> d.names, next |-> d.next]
WithoutRecipe(d, i) ==
  [recipe |-> Drop(d.recipe, i), names |-> d.names, next |-> d.next]
WithNames(d, names) == [recipe |-> d.recipe, names |-> names, next |-> d.next]
WithNext(d, next) == [recipe |-> d.recipe, names |-> d.names, next |-> next]

-----------------------------------------------------------------------------
(* Storing content: create_recipe_from_data and write_chunk.               *)

Store(i, d, k, o) == [kind |-> "store", ino |-> i, data |-> d, stored |-> k, open |-> o]

(* write_file_by_id for an inode of the mounted filesystem (a cache flush). *)
SaveFile(i, d) ==
  /\ job = Idle
  /\ i \in DOMAIN db.recipe
  /\ job' = Store(i, d, 0, FALSE)
  /\ UNCHANGED <<disk, unsynced, lost, db, past, linked, faults>>

(* write_file on a known name: its inode is reused. *)
OverwriteFile(n, d) ==
  /\ job = Idle
  /\ n \in DOMAIN db.names
  /\ job' = Store(db.names[n], d, 0, FALSE)
  /\ UNCHANGED <<disk, unsynced, lost, db, past, linked, faults>>

(* Mutant of CreateNamed: the counter is read and not written back. *)
CreateUncounted(n, d) ==
  /\ job = Idle
  /\ n \notin DOMAIN db.names
  /\ db.next \in LegacyIno
  /\ db' = WithNames(db, Put(db.names, n, db.next))
  /\ past' = past \cup {db}
  /\ job' = Store(db.next, d, 0, FALSE)
  /\ UNCHANGED <<disk, unsynced, lost, linked, faults>>

(* write_file on a new name: the counter, then the name, neither flushed   *)
(* before the recipe is.                                                   *)
CreateNamed(n, d) ==
  LET i == db.next
      counted == WithNext(db, i + 1)
      named == WithNames(counted, Put(db.names, n, i))
  IN /\ job = Idle
     /\ n \notin DOMAIN db.names
     /\ i \in LegacyIno
     /\ db' = named
     /\ past' = past \cup {db, counted}
     /\ job' = Store(i, d, 0, FALSE)
     /\ UNCHANGED <<disk, unsynced, lost, linked, faults>>

Storing == job.kind = "store" /\ job.stored < Len(job.data)
Next1 == job.data[job.stored + 1]

(* Mutant of CreateChunk: the file is created without looking for one. *)
CreateUnchecked ==
  /\ Storing /\ ~job.open
  /\ disk' = [disk EXCEPT ![Next1] = "partial"]
  /\ unsynced' = unsynced \cup {Next1}
  /\ lost' = lost \ {Next1}
  /\ job' = Store(job.ino, job.data, job.stored, TRUE)
  /\ UNCHANGED <<db, past, linked, faults>>

(* The path exists: deduplicated, whatever the file holds. *)
DedupChunk ==
  /\ Storing /\ ~job.open /\ OnDisk(Next1)
  /\ job' = Store(job.ino, job.data, job.stored + 1, FALSE)
  /\ UNCHANGED <<disk, unsynced, lost, db, past, linked, faults>>

(* File::create: an empty file is at the chunk's path from here on. *)
CreateChunk ==
  /\ Storing /\ ~job.open /\ ~OnDisk(Next1)
  /\ disk' = [disk EXCEPT ![Next1] = "partial"]
  /\ unsynced' = unsynced \cup {Next1}
  /\ lost' = lost \ {Next1}
  /\ job' = Store(job.ino, job.data, job.stored, TRUE)
  /\ UNCHANGED <<db, past, linked, faults>>

(* write_all returned: the frame is complete, in the kernel's cache. *)
FinishChunk ==
  /\ Storing /\ job.open
  /\ disk' = [disk EXCEPT ![Next1] = "whole"]
  /\ unsynced' = unsynced \cup {Next1}
  /\ job' = Store(job.ino, job.data, job.stored + 1, FALSE)
  /\ UNCHANGED <<lost, db, past, linked, faults>>

(* An error in write_chunk ends the operation; nothing removes the file    *)
(* that write_all left short.                                              *)
StoreFails ==
  /\ Storing
  /\ Fault
  /\ job' = Idle
  /\ UNCHANGED <<disk, unsynced, lost, db, past, linked>>

(* Mutant of CommitRecipe: the recipe is saved before the tail chunk. *)
CommitEarly ==
  /\ job.kind = "store" /\ job.stored >= Len(job.data) - 1
  /\ Write(<<WithRecipe(db, job.ino, job.data)>>)
  /\ job' = Idle
  /\ UNCHANGED <<disk, unsynced, lost, linked>>

(* save_recipe after the last chunk. *)
CommitRecipe ==
  /\ job.kind = "store" /\ job.stored = Len(job.data)
  /\ Write(<<WithRecipe(db, job.ino, job.data)>>)
  /\ job' = Idle
  /\ UNCHANGED <<disk, unsynced, lost, linked>>

-----------------------------------------------------------------------------
(* Metadata-only operations.                                               *)

(* create_live_file_under_parent: an empty recipe for a fresh inode. *)
CreateFile(i) ==
  /\ job = Idle
  /\ i \in FuseIno \ DOMAIN db.recipe
  /\ Write(<<WithRecipe(db, i, <<>>)>>)
  /\ linked' = linked \cup {i}
  /\ UNCHANGED <<disk, unsynced, lost, job>>

(* clone_subtree_from_metadata: a snapshot (or restored) inode gets a copy *)
(* of the source's recipe; no chunk is read or written.                    *)
CloneRecipe(i, j) ==
  /\ job = Idle
  /\ i \in linked \cap DOMAIN db.recipe
  /\ j \in FuseIno \ DOMAIN db.recipe
  /\ Write(<<WithRecipe(db, j, db.recipe[i])>>)
  /\ linked' = linked \cup {j}
  /\ UNCHANGED <<disk, unsynced, lost, job>>

(* unlink, or the removal of a snapshot: the edge that names the inode     *)
(* goes, its recipe stays.                                                 *)
Unlink(i) ==
  /\ job = Idle
  /\ i \in linked
  /\ linked' = linked \ {i}
  /\ UNCHANGED <<disk, unsynced, lost, db, past, job, faults>>

(* delete_file: the name, then the recipe it pointed at, then a flush. *)
DeleteFile(n) ==
  LET unnamed == WithNames(db, Drop(db.names, n))
      gone == WithoutRecipe(unnamed, db.names[n])
  IN /\ job = Idle
     /\ n \in DOMAIN db.names
     /\ Write(<<unnamed, gone>>)
     /\ UNCHANGED <<disk, unsynced, lost, job, linked>>

(* Mutant of RenameFile: the new key gets the old name for its value. *)
RenameToName(o, n) ==
  LET both == WithNames(db, Put(db.names, n, o))
  IN /\ job = Idle
     /\ o \in DOMAIN db.names
     /\ Write(<<both, WithNames(both, Drop(both.names, o))>>)
     /\ UNCHANGED <<disk, unsynced, lost, job, linked>>

(* rename_file: the new name is inserted before the old one is removed.    *)
(* The id the new name pointed at before is forgotten, not deleted.        *)
RenameFile(o, n) ==
  LET both == WithNames(db, Put(db.names, n, db.names[o]))
      moved == WithNames(both, Drop(both.names, o))
  IN /\ job = Idle
     /\ o \in DOMAIN db.names
     /\ Write(<<both, moved>>)
     /\ UNCHANGED <<disk, unsynced, lost, job, linked>>

-----------------------------------------------------------------------------
(* run_gc, a process of its own: it opens the tree as the disk has it.     *)

Gc(active, todo) == [kind |-> "gc", active |-> active, todo |-> todo]

(* Mutants of GcMark: only the recipes of live inodes are marked; only     *)
(* chunk files that decode are listed.                                     *)
MarkLinked ==
  /\ job = Idle
  /\ past = {}
  /\ job' = Gc(UNION {ChunksOf(db.recipe[i]) : i \in DOMAIN db.recipe \cap linked},
               {c \in Chunk : OnDisk(c)})
  /\ UNCHANGED <<disk, unsynced, lost, db, past, linked, faults>>
ListDecodable ==
  /\ job = Idle
  /\ past = {}
  /\ job' = Gc(Referenced(db), {c \in Chunk : disk[c] = "whole"})
  /\ UNCHANGED <<disk, unsynced, lost, db, past, linked, faults>>

(* Mark, and list the files under cas/. *)
GcMark ==
  /\ job = Idle
  /\ past = {}
  /\ job' = Gc(Referenced(db), {c \in Chunk : OnDisk(c)})
  /\ UNCHANGED <<disk, unsynced, lost, db, past, linked, faults>>

(* Sweep one listed hash, in the order read_dir gave. *)
GcSweep(c) ==
  /\ job.kind = "gc" /\ c \in job.todo
  /\ disk' = IF c \in job.active THEN disk ELSE [disk EXCEPT ![c] = "absent"]
  /\ unsynced' = IF c \in job.active THEN unsynced ELSE unsynced \ {c}
  /\ job' = Gc(job.active, job.todo \ {c})
  /\ UNCHANGED <<lost, db, past, linked, faults>>

GcDone ==
  /\ job.kind = "gc" /\ job.todo = {}
  /\ job' = Idle
  /\ UNCHANGED <<disk, unsynced, lost, db, past, linked, faults>>

(* delete_chunk failed: the collector stops where it is. *)
GcFails ==
  /\ job.kind = "gc" /\ job.todo # {}
  /\ Fault
  /\ job' = Idle
  /\ UNCHANGED <<disk, unsynced, lost, db, past, linked>>

-----------------------------------------------------------------------------
(* The environment.                                                        *)

(* The kernel writes dirty pages back when it likes; nothing here fsyncs. *)
Writeback(c) ==
  /\ c \in unsynced
  /\ unsynced' = unsynced \ {c}
  /\ UNCHANGED <<disk, lost, db, past, job, linked, faults>>

(* The process dies: the tree falls back to some value since the flush,    *)
(* chunk files stay as they are.                                           *)
Crash ==
  /\ job # Idle \/ past # {}
  /\ faults' = IF faults < MaxFaults THEN faults + 1 ELSE faults
  /\ db' \in past \cup {db}
  /\ past' = {}
  /\ job' = Idle
  /\ UNCHANGED <<disk, unsynced, lost, linked>>

(* Power goes: as a crash, and each chunk file not written back may also   *)
(* be short or missing.                                                    *)
PowerLoss(L, gone) ==
  /\ L \subseteq unsynced /\ gone \subseteq L
  /\ Fault
  /\ disk' = [c \in Chunk |-> IF c \in gone THEN "absent"
                              ELSE IF c \in L THEN "partial" ELSE disk[c]]
  /\ lost' = lost \cup gone
  /\ unsynced' = {}
  /\ db' \in past \cup {db}
  /\ past' = {}
  /\ job' = Idle
  /\ UNCHANGED linked

-----------------------------------------------------------------------------
StoreStep == DedupChunk \/ CreateChunk \/ FinishChunk \/ StoreFails \/ CommitRecipe

GcStep == GcMark \/ (\E c \in Chunk : GcSweep(c)) \/ GcDone \/ GcFails

PowerCut == \E L \in SUBSET Chunk : \E gone \in SUBSET L : PowerLoss(L, gone)

Next ==
  \/ \E d \in Contents :
       \/ \E i \in FuseIno : SaveFile(i, d)
       \/ \E n \in Name : OverwriteFile(n, d) \/ CreateNamed(n, d)
  \/ StoreStep
  \/ \E i \in FuseIno : CreateFile(i) \/ Unlink(i)
  \/ \E i, j \in FuseIno : CloneRecipe(i, j)
  \/ \E n \in Name : DeleteFile(n)
  \/ \E o, n \in Name : RenameFile(o, n)
  \/ GcStep
  \/ \E c \in Chunk : Writeback(c)
  \/ Crash
  \/ PowerCut

Spec == Init /\ [][Next]_vars

-----------------------------------------------------------------------------
(* Types of the state. *)
TypeOK ==
  /\ disk \in [Chunk -> {"absent", "partial", "whole"}]
  /\ unsynced \subseteq Chunk
  /\ lost \subseteq Chunk
  /\ \A d \in past \cup {db} : IsDb(d)
  /\ job \in {Idle} \cup StoreJob \cup GcJob
  /\ linked \subseteq FuseIno
  /\ faults \in Nat

(* Every chunk a recipe names has a file, in the tree of the running       *)
(* process and in every tree a crash could bring back, unless a power loss *)
(* took the file: chunks are written before the recipe that names them     *)
(* (write_file_by_id), deduplicated chunks are never deleted under a       *)
(* writer, and run_gc keeps what any recipe names.                         *)
RecipesBacked ==
  \A d \in past \cup {db} : \A c \in Referenced(d) : OnDisk(c) \/ c \in lost

(* A readable file stays readable, with the content of its recipe, across  *)
(* every step that does not replace its recipe, whatever fails in between: *)
(* writes of other contents, deduplication, crashes, errors and the        *)
(* garbage collector.  Only a power loss can undo it.                      *)
ReadableStays ==
  [][ \/ PowerCut
      \/ \A i \in DOMAIN db.recipe \cap DOMAIN db'.recipe :
           Readable(i) /\ db'.recipe[i] = db.recipe[i] => Readable(i)' ]_vars

(* When the collector finishes, the files left under cas/ are exactly      *)
(* chunks that some recipe names: it reclaims every orphan a failed or     *)
(* crashed write left, whole or torn.                                      *)
GcReclaims ==
  [][ (job.kind = "gc" /\ job.todo = {} /\ job' = Idle)
        => \A c \in Chunk : OnDisk(c) => c \in Referenced(db) ]_vars

(* As long as nothing has failed, every recipe can be read back: a chunk   *)
(* found on disk by the deduplication check is complete.                   *)
RoundTrip == faults = 0 => \A i \in DOMAIN db.recipe : Readable(i)

(* As long as nothing has failed, every listed name has a recipe of its    *)
(* own (but for the file being created), below the counter: no two names   *)
(* share an inode, so deleting one file never takes another's content.     *)
NamesOwnFiles ==
  faults = 0 =>
    /\ \A n, m \in DOMAIN db.names : db.names[n] = db.names[m] => n = m
    /\ \A n \in DOMAIN db.names :
         \/ db.names[n] \in DOMAIN db.recipe
         \/ job.kind = "store" /\ job.ino = db.names[n]
-----------------------------------------------------------------------------
(* The parts of the inductive invariant the properties rest on.            *)

(* The chunks a store job has passed are on disk, and the one it has open  *)
(* is the torn file it created.                                            *)
JobBacked ==
  job.kind = "store" =>
    /\ job.stored <= Len(job.data)
    /\ \A k \in 1..job.stored : OnDisk(job.data[k])
    /\ job.open => job.stored < Len(job.data) /\ disk[Next1] = "partial"

(* The collector's active set is the referenced set for as long as it      *)
(* runs, and it still has every other file on its list.                    *)
GcExact ==
  job.kind = "gc" =>
    /\ past = {}
    /\ job.active = Referenced(db)
    /\ \A c \in Chunk : OnDisk(c) => c \in job.active \cup job.todo

(* Before the first failure the only torn file is the one being written,   *)
(* and no recipe names it yet.                                             *)
OnlyOpenTorn ==
  faults = 0 =>
    /\ lost = {}
    /\ \A c \in Chunk : disk[c] = "partial" =>
         job.kind = "store" /\ job.open /\ c = Next1 /\ c \notin Referenced(db)

(* Before the first failure, names stay below the counter. *)
NamesCounted ==
  faults = 0 => \A n \in DOMAIN db.names : db.names[n] \in LegacyIno /\ db.names[n] < db.next

IInv ==
  /\ TypeOK
  /\ RecipesBacked
  /\ JobBacked
  /\ GcExact
  /\ OnlyOpenTorn
  /\ NamesCounted
  /\ NamesOwnFiles
=============================================================================
