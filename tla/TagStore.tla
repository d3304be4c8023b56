------------------------------ MODULE TagStore ------------------------------
(***************************************************************************)
(* The tags of files: a row ino_tags per inode and an inverted index       *)
(* tag_index per tag (file_manager.rs), written one key at a time with one *)
(* flush at the end, and the requests of fuse_handler.rs that write them.  *)
(*                                                                         *)
(* A tag stands for its normalized form (trimmed, lower case); tags are    *)
(* sets of them.  The tags a directory gives to its files are the names on *)
(* its path (derive_tags_from_parent_ancestry), which do not change here.  *)
(***************************************************************************)
EXTENDS Naturals, FiniteSets, SledMap

CONSTANTS
  Ino,       \* inodes of regular files
  Tag,       \* normalized tags
  Dir,       \* directories
  AutoTags,  \* the tags each directory gives
  MaxPast    \* bound: values a crash can bring back when a call is cut short

ASSUME InoAssumption == Ino \subseteq Nat
ASSUME AutoTagsAssumption == AutoTags \in [Dir -> SUBSET Tag]
ASSUME PastAssumption == MaxPast \in Nat

VARIABLES
  db,      \* the rows: tags of inodes, inodes of tags
  past,    \* values of db since the last flush: what a crash can bring back
  home,    \* the parent of the files in the registry, unlinked ones too
  live,    \* files a dirent names
  calls    \* how the tag calls on each inode ended (history, no code)

vars == <<db, past, home, live, calls>>

(* "done": all of them returned; "cut": an error or a crash ended the last *)
(* one; "redone": the last one returned, an earlier one was cut.           *)
Ending == {"done", "cut", "redone"}

-----------------------------------------------------------------------------
Rows(tags, index) == [tags |-> tags, index |-> index]

(* get_file_tags: nothing for an absent key.  An index key is absent when  *)
(* its set is empty (save_tag_index_set), so the index is total here.      *)
TagsOf(d, i) == IF i \in DOMAIN d.tags THEN d.tags[i] ELSE {}

(* get_files_by_tags *)
Query(d, T) == {i \in Ino : T # {} /\ \A t \in T : i \in d.index[t]}

(* Mutant of Reindexed: only what is new, as if the row told the index. *)
ReindexedNew(i, R, A) ==
  [t \in Tag |-> ((db.index[t] \ (IF t \in R THEN {i} ELSE {}))
                    \cup (IF t \in A \ TagsOf(db, i) THEN {i} ELSE {}))]

(* The index with i taken from the tags in R and then put into those in A. *)
Reindexed(i, R, A) ==
  [t \in Tag |-> ((db.index[t] \ (IF t \in R THEN {i} ELSE {}))
                    \cup (IF t \in A THEN {i} ELSE {}))]

Init ==
  /\ db = Rows(<<>>, [t \in Tag |-> {}])
  /\ past = {}
  /\ home = <<>>
  /\ live = {}
  /\ calls = [i \in Ino |-> "done"]

(* A call on i that got to its flush, and one that did not. *)
Returned(i) ==
  /\ past' = {}
  /\ calls' = [calls EXCEPT ![i] = IF @ = "done" THEN "done" ELSE "redone"]
Cut(i) == Cardinality(past) <= MaxPast /\ calls' = [calls EXCEPT ![i] = "cut"]

-----------------------------------------------------------------------------
(* The two writers.  `since` is what a crash could bring back before the   *)
(* call: its writes reach the disk with its flush.                         *)

(* Mutant of Removed: the old tags keep the inode. *)
RemovedNone(i, T) == {}

(* The tags set_file_tags takes the inode out of. *)
Removed(i, T) == TagsOf(db, i) \ T

(* How far set_file_tags may get: the row is written, then the inode       *)
(* leaves the index sets in s.out, then it enters those in s.in, each in   *)
(* the order of a hash set.                                                *)
Stages(i, T) ==
  {s \in [out : SUBSET Removed(i, T), in : SUBSET T] :
     s.in # {} => s.out = Removed(i, T)}
After(i, T, s) == Rows(Put(db.tags, i, T), Reindexed(i, s.out, s.in))
UpTo(i, T, s) ==
  {After(i, T, r) : r \in {q \in Stages(i, T) : q.out \subseteq s.out /\ q.in \subseteq s.in}}

(* delete_file_tags: the inode leaves the sets of its tags, then the row   *)
(* goes.                                                                   *)
Undone(i, R) == Rows(db.tags, Reindexed(i, R, {}))
Deleted(i) == Rows(Drop(db.tags, i), Reindexed(i, TagsOf(db, i), {}))

DeleteTags(i, since) ==
  \/ db' = Deleted(i) /\ Returned(i)
  \/ /\ Cut(i)
     /\ \E R \in SUBSET TagsOf(db, i) :
          /\ db' \in {Undone(i, R)} \cup (IF R = TagsOf(db, i) THEN {Deleted(i)} ELSE {})
          /\ past' = since \cup {Undone(i, Q) : Q \in SUBSET R}

(* set_file_tags.  What was written when an error ended it stays in the    *)
(* running process.                                                        *)
SetTags(i, T, since) ==
  IF T = {} THEN DeleteTags(i, since)
  ELSE \/ db' = After(i, T, [out |-> Removed(i, T), in |-> T]) /\ Returned(i)
       \/ Cut(i) /\ db' = db /\ past' = since
       \/ /\ Cut(i)
          /\ \E s \in Stages(i, T) :
               /\ db' = After(i, T, s)
               /\ past' = since \cup {db} \cup UpTo(i, T, s)

NoTags == past' = {} /\ UNCHANGED <<db, calls>>

-----------------------------------------------------------------------------
(* Requests.  The ones that save an inode or a dirent flush before they    *)
(* come to the tags, so nothing older can come back.                       *)

(* Mutant of Create: the registry is told only of files with tags. *)
CreateUnregistered(i, p, over, named) ==
  /\ \A j \in DOMAIN home : j < i
  /\ over \subseteq live
  /\ IF AutoTags[p] = {} THEN NoTags ELSE SetTags(i, AutoTags[p], {})
  /\ home' = IF AutoTags[p] = {} THEN home ELSE Put(home, i, p)
  /\ live' = (live \ over) \cup named

(* create_live_file_under_parent; ids grow while mounted.  It does not     *)
(* look for what has the name already: the file of that name, or those in  *)
(* the directory of that name, lose theirs and keep their tags (`over`).   *)
(* In a directory no client can walk to, the file has no name itself.      *)
Create(i, p, over, named) ==
  /\ \A j \in DOMAIN home : j < i
  /\ over \subseteq live
  /\ IF AutoTags[p] = {} THEN NoTags ELSE SetTags(i, AutoTags[p], {})
  /\ home' = Put(home, i, p)
  /\ live' = (live \ over) \cup named

(* write gives an untagged file the tags of its directory, also after an   *)
(* unlink.                                                                 *)
Write(i) ==
  /\ i \in DOMAIN home
  /\ TagsOf(db, i) = {} /\ AutoTags[home[i]] # {}
  /\ SetTags(i, AutoTags[home[i]], past)
  /\ UNCHANGED <<home, live>>

(* Mutant of Unlink: the tags stay. *)
UnlinkKeepsTags(i, gone) ==
  /\ i \in DOMAIN home /\ gone \subseteq live
  /\ NoTags
  /\ live' = live \ gone
  /\ UNCHANGED home

(* unlink, by name (gone = {i}) or in a tag directory: there i is the file *)
(* shown, which loses its tags, and `gone` the one that has its name now,  *)
(* or those in the directory that has it.                                  *)
Unlink(i, gone) ==
  /\ i \in DOMAIN home /\ gone \subseteq live
  /\ DeleteTags(i, {})
  /\ live' = live \ gone
  /\ UNCHANGED home

(* rename to the directory p, possibly over another file, whose tags stay. *)
(* A file with tags gets the tags of p, if there are any.                  *)
Rename(i, p, over) ==
  /\ i \in live
  /\ over \subseteq live \ {i}
  /\ IF TagsOf(db, i) = {} \/ AutoTags[p] = {} THEN NoTags ELSE SetTags(i, AutoTags[p], {})
  /\ home' = Put(home, i, p)
  /\ live' = live \ over

(* "set" and "del" on the control file, for a live file, and the commands *)
(* tag-set and tag-delete, for any id, between mounts; T = {} deletes.     *)
SetByCommand(i, T) ==
  /\ SetTags(i, T, past)
  /\ UNCHANGED <<home, live>>

(* rmdir in @tags: the first of the files with the tag loses all of its    *)
(* tags; the request goes on with the next.                                *)
RemoveTagDir(t, i) ==
  /\ i \in Query(db, {t})
  /\ DeleteTags(i, past)
  /\ UNCHANGED <<home, live>>

(* The process dies, or unmounts: only live files are registered again. *)
Crash ==
  /\ db' \in past \cup {db}
  /\ past' = {}
  /\ home' = [i \in live |-> home[i]]
  /\ UNCHANGED <<live, calls>>

(* The file whose name a rename takes, if any. *)
AtMostOne == {{}} \cup {{j} : j \in Ino}

Next ==
  \/ \E i \in Ino :
       \/ \E p \in Dir, over \in SUBSET live, named \in {{}, {i}} : Create(i, p, over, named)
       \/ \E p \in Dir, over \in AtMostOne : Rename(i, p, over)
       \/ Write(i)
       \/ \E gone \in SUBSET live : Unlink(i, gone)
       \/ \E T \in SUBSET Tag : SetByCommand(i, T)
       \/ \E t \in Tag : RemoveTagDir(t, i)
  \/ Crash

Spec == Init /\ [][Next]_vars

-----------------------------------------------------------------------------
(* The rows and the registry hold inodes, tags and directories, and every  *)
(* file with a name is in the registry (create registers what it names,    *)
(* and a mount registers every name it finds).                             *)
IsRows(d) ==
  /\ d = Rows(d.tags, d.index)
  /\ IsMap(d.tags, Ino, SUBSET Tag)
  /\ d.index \in [Tag -> SUBSET Ino]

TypeOK ==
  /\ IsRows(db)
  /\ \A d \in past : IsRows(d)
  /\ IsMap(home, Ino, Dir)
  /\ live \subseteq DOMAIN home
  /\ calls \in [Ino -> Ending]

Found(d, i) == \A t \in TagsOf(d, i) : i \in d.index[t]
Exact(d, i) == \A t \in Tag : i \in d.index[t] <=> t \in TagsOf(d, i)

(* The two tables agree on every file none of whose tag calls was cut      *)
(* short, whatever happened to the calls on the other files, to the        *)
(* process, or to an earlier file with the same id (set_file_tags takes    *)
(* the inode out of the tags it leaves, delete_file_tags out of all).      *)
IndexExact == \A i \in Ino : calls[i] = "done" => Exact(db, i)

(* A call that returns makes up for those that were cut: once the last     *)
(* call on a file returned, the file is found under each of its tags (but  *)
(* it may also stay under a tag it no longer has, which no later call      *)
(* knows of).                                                              *)
TaggedFound == \A i \in Ino : calls[i] # "cut" => Found(db, i)
=============================================================================
