-------------------------- MODULE ContentStoreDocs --------------------------
(***************************************************************************)
(* What the repository's documents say of the content store where its code *)
(* does otherwise: each definition is checked, and violated, in a run of   *)
(* its own on the instance of MCContentStore.                              *)
(***************************************************************************)
EXTENDS MCContentStore

(* The system when power is never lost: errors and crashes only. *)
CrashSpec == Init /\ [][Next /\ ~PowerCut]_vars

(* .github/copilot-instructions.md, section 6: chunks a crashed write left *)
(* behind are "ignored until the offline Garbage Collector runs", so every *)
(* committed recipe can be read.  write_chunk does not ignore them: a      *)
(* truncated file at the chunk's path passes for the chunk.                *)
OrphansIgnored == \A i \in DOMAIN db.recipe : Readable(i)

(* .github/copilot-instructions.md, section 6: when power is lost during a *)
(* later write "the underlying metadata and previous disk state remain     *)
(* perfectly consistent".  write_chunk never fsyncs a chunk file, while    *)
(* the recipe that names it is flushed.                                    *)
PreviousStateSurvives ==
  [][ \A i \in DOMAIN db.recipe \cap DOMAIN db'.recipe :
        job.kind = "store" /\ Readable(i) /\ db'.recipe[i] = db.recipe[i] => Readable(i)' ]_vars

(* The chunks of every recipe but those of unlinked inodes. *)
LinkedChunks ==
  UNION {ChunksOf(db.recipe[i]) : i \in DOMAIN db.recipe \ (FuseIno \ linked)}

(* .planning/codebase/CONCERNS.md: unlink leaves rows in sled, but "GC     *)
(* recovers the CAS chunks".  run_gc marks from the rows unlink left, so a *)
(* completed collection keeps the chunks of files nothing names any more.  *)
UnlinkedReclaimed ==
  [][ faults = 0 /\ job.kind = "gc" /\ job.todo = {} /\ job' = Idle
        => \A c \in Chunk : OnDisk(c) => c \in LinkedChunks ]_vars
=============================================================================
