-------------------------- MODULE PageCacheHistory --------------------------
(***************************************************************************)
(* PageCache with a history of what its clients have done: the requests    *)
(* they sent and the answers they got, and never what is in the cache or   *)
(* how it got there.  Replies and what a crash leaves are compared with    *)
(* this history.                                                           *)
(***************************************************************************)
EXTENDS PageCache

VARIABLES
  shown,  \* the bytes the edits sent so far have made of each file
  synced  \* the files not edited since they were last acknowledged as durable

hvars == <<vars, shown, synced>>

HInit ==
  /\ Init
  /\ shown = [f \in File |-> <<>>]
  /\ synced = File

(* The bytes an edit is applied to: those the file was given before, none  *)
(* when the step fails to load it.                                         *)
Before(f) == IF faults' = faults THEN shown[f] ELSE <<>>

Edited(f, d) ==
  /\ shown' = [shown EXCEPT ![f] = d]
  /\ synced' = synced \ {f}

HWrite(f, off, d) == Write(f, off, d) /\ Edited(f, Overlay(Before(f), off, d))

HTruncate(f, n) == Truncate(f, n) /\ Edited(f, Resize(Before(f), n))

(* fsync or close: acknowledged when nothing fails, with nothing to do for *)
(* a file that has no dirty buffer.                                        *)
HFlush(f) ==
  /\ \/ Flush(f)
     \/ job = Idle /\ f \in DOMAIN size /\ ~IsDirty(f) /\ UNCHANGED vars
  /\ synced' = IF faults' = faults THEN synced \cup {f} ELSE synced
  /\ UNCHANGED shown

(* The flush before a snapshot has got to its end. *)
HFlushedAll ==
  /\ FlushedAll
  /\ synced' = File
  /\ UNCHANGED shown

(* The files of S go back to what was written back of them. *)
BackTo(S) == shown' = [f \in File |-> IF f \in S THEN Durable(f) ELSE shown[f]]

HUnlink(f) == Unlink(f) /\ BackTo({f}) /\ UNCHANGED synced

HRename(f, over) == Rename(f, over) /\ BackTo(over) /\ UNCHANGED synced

HCrash ==
  /\ Crash
  /\ BackTo(File)
  /\ synced' = File

(* Steps that are no edit, and acknowledge nothing as durable. *)
HOther ==
  /\ \/ \E f \in File : Create(f) \/ ReadHit(f) \/ ReadMiss(f) \/ ReadFails(f) \/ FlushNext(f)
     \/ FlushAll
     \/ EvictStep
  /\ UNCHANGED <<shown, synced>>

HNext ==
  \/ \E f \in File :
       \/ \E off \in 0..MaxLen, d \in Writes : HWrite(f, off, d)
       \/ \E n \in Lengths : HTruncate(f, n)
       \/ HFlush(f)
       \/ HUnlink(f)
       \/ \E over \in {{}} \cup {{g} : g \in File} : HRename(f, over)
  \/ HFlushedAll
  \/ HCrash
  \/ HOther

HistorySpec == HInit /\ [][HNext]_hvars

FairHistorySpec == HistorySpec /\ WF_vars(EvictStep \/ FlushStep)

-----------------------------------------------------------------------------
(* A read answers with the bytes the edits sent so far have made of the    *)
(* file, whatever was loaded, evicted, flushed or failed since they were   *)
(* sent, or, when its buffer could not be had, with none: never with older *)
(* bytes, another file's, or bytes of an edit a crash took back.           *)
ReadsNeverStale ==
  reply # NoReply => reply.data \in {shown[reply.file], <<>>}

(* What an fsync, a close or the flush before a snapshot acknowledged is   *)
(* what a crash leaves of a file not edited since, whatever failed before  *)
(* it and was evicted, unlinked or renamed after.                          *)
SyncedStays == \A f \in synced : Durable(f) = shown[f]

-----------------------------------------------------------------------------
(* The inductive invariant: the history agrees with the cache, the buffers *)
(* of synced files are clean, and a flush of everything has every dirty    *)
(* buffer on its list.                                                     *)
Agreed == \A f \in File : shown[f] = Current(f)

SyncedClean == \A f \in synced \cap DOMAIN cache : ~cache[f].dirty

AllListed == job.kind = "flush" => \A f \in DOMAIN cache : cache[f].dirty => f \in job.todo

HInv ==
  /\ IInv
  /\ shown \in [File -> Seq(Byte)]
  /\ synced \subseteq File
  /\ Agreed
  /\ SyncedClean
  /\ AllListed
  /\ ReadsNeverStale
  /\ SyncedStays
=============================================================================
