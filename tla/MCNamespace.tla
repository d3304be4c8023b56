---------------------------- MODULE MCNamespace -----------------------------
(***************************************************************************)
(* Namespace on small instances, told apart by `pick`, which never changes *)
(* and bounds what happens.  "live" is the live tree with two names of     *)
(* directories, empty files and an id that may be used again; with a name  *)
(* of a directory as the pick, this is the only one, and there are a file  *)
(* with content, a snapshot and a backup.  In "requests" calls fail on     *)
(* such a live tree with an id less, in "clones" on files in the root,     *)
(* snapshots of them and a restore, so that what an error left apart is    *)
(* cloned.  In "shadows" directories are replaced by clones and renamed    *)
(* before a backup is taken.                                               *)
(*                                                                         *)
(* The names of directories are symmetric: no directory has two in         *)
(* self.root, so that the choice of a path in Mutable is no choice.        *)
(***************************************************************************)
EXTENDS NamespaceFaults, TLC

VARIABLE pick

DirNames == Permutations(DirName)

MCInit == FaultInit /\ pick \in {"live", "requests", "clones", "shadows"} \cup DirName

(* The names of directories used, and how many of the last ids are not. *)
DirsMade == CASE pick = "clones" -> {} [] pick \in DirName -> {pick} [] OTHER -> DirName
Spare == CASE pick = "live" -> 2 [] pick = "requests" -> 3 [] pick = "shadows" -> 0 [] OTHER -> 1

(* "shadows": a restore of the empty tree, which loses a live tree of two  *)
(* ids and the clones that its renames make.                               *)
ShadowsStep ==
  \/ next = FirstIno /\ \E s \in SnapName : TakeSnapshot(s)
  \/ FirstIno < next /\ next + 3 <= LastIno /\ MakeStep(DirName)
  \/ MoveStep(DirName)
  \/ \E s \in SnapName \cap DOMAIN frozen, b \in BackupName : Restore(s, b)
  \/ job # Idle /\ CloneStep
  \/ Crash

LiveTreeStep ==
  \/ next + Spare <= LastIno /\ MakeStep(DirsMade)
  \/ MoveStep(DirsMade)
  \/ Crash

(* One file gets content: in the root in "clones", and else below it.      *)
Below(i) == \A n \in Names(Root) : Child(Root, n) # i
OneFile ==
  \A i \in DOMAIN dirty' \ DOMAIN dirty :
    /\ \A j \in DOMAIN db.recipe : db.recipe[j] = NoContent
    /\ dirty = <<>>
    /\ pick # "clones" => Below(i)
ContentStep == (WriteStep /\ OneFile) \/ SnapshotStep \/ (job # Idle /\ CloneStep)

MCNext ==
  /\ \/ pick # "shadows" /\ NoError(LiveTreeStep)
     \/ pick \in {"clones"} \cup DirName /\ NoError(ContentStep)
     \/ pick = "shadows" /\ NoError(ShadowsStep)
     \/ pick \in {"requests", "clones"} /\ RequestFails
     \/ pick = "clones" /\ SnapshotFails
  /\ \A i \in DOMAIN db'.meta : i + Spare <= LastIno
  /\ next' + Spare <= LastIno + 1
  /\ pick # "live" => reuses' = 0
  /\ UNCHANGED pick

MCSpec == MCInit /\ [][MCNext]_<<faultVars, pick>>
=============================================================================
