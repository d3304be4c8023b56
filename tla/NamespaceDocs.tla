--------------------------- MODULE NamespaceDocs ----------------------------
(***************************************************************************)
(* What the repository's documents and tests say of the namespace where    *)
(* its code does otherwise, each checked, and violated, on an instance of  *)
(* its own.                                                                *)
(***************************************************************************)
EXTENDS Namespace

(* tests/regression_e2e.sh: "snapshot content persisted after remount".    *)
(* The mount moves next_inode past the ids of the live tree only, so the   *)
(* files created after it take over the ids, and the rows, of a snapshot's *)
(* inodes.                                                                 *)
SnapshotsSurvive == [][ \A s \in DOMAIN db.snap : SnapshotKept(s) ]_vars

(* research_paper/paper_journal.tex: metadata mutations flush the database,*)
(* "ensuring namespace consistency after crashes".  get_mutable_inode      *)
(* replaces a directory by a clone under a new id; when that directory is  *)
(* renamed, the new id is what the dirent gets, and the entries saved      *)
(* under the old one are gone from the tree at the next mount.             *)
LiveTreeDurable ==
  job = Idle /\ dirty = <<>> /\ reuses = 0 => LiveTree = Tree(db, Root)
=============================================================================
