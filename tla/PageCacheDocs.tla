--------------------------- MODULE PageCacheDocs ----------------------------
(***************************************************************************)
(* What the repository's documents say of the page cache where its code    *)
(* does otherwise, each checked, and violated, on MCPageCache's instance.  *)
(***************************************************************************)
EXTENDS MCPageCache

(* The system when no call fails: it only crashes or is unmounted. *)
NoErrorSpec == HInit /\ [][HNext /\ (faults' # faults => Crash)]_hvars

(* .github/copilot-instructions.md, section 3.1: on a miss a read loads    *)
(* the file, populates the cache and returns its bytes.  When the queue    *)
(* holds the id of a file that was flushed and evicted, that file's next   *)
(* read loads it, evicts it again as the oldest and returns nothing.       *)
ReadsReturnBytes ==
  faults = 0 /\ reply # NoReply => reply.data = shown[reply.file]

(* .github/copilot-instructions.md, section 6: when the cache is lost "the *)
(* underlying metadata and previous disk state remain perfectly            *)
(* consistent".  rename saves the size of bytes that are still only in the *)
(* cache, so after a crash a file has a size its content does not have.    *)
MetadataConsistent ==
  cache = <<>> /\ job = Idle => \A f \in live : size[f] = Len(Durable(f))
=============================================================================
