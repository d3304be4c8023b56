-------------------------- MODULE NamespaceFaults ---------------------------
(***************************************************************************)
(* Namespace with calls of FileManager that return an error in the middle  *)
(* of a request: the request answers EIO, or does not notice (`let _ =`),  *)
(* and the process goes on with what is in memory and on disk.  The write  *)
(* of a call that failed is there or it is not.  Errors of flush_inode_-   *)
(* cache are in PageCache.                                                 *)
(***************************************************************************)
EXTENDS Namespace

CONSTANT MaxFaults   \* bound on the errors

ASSUME FaultAssumption == MaxFaults \in Nat

VARIABLES
  faults,   \* how many there were (bound, no code)
  torn      \* entries of failed requests that still differ (history, no code)

faultVars == <<vars, faults, torn>>

(* Entries <<directory, name>> for which rows and memory differ. *)
Differing ==
  {e \in Dirs \X Name :
     LET rows == Listed(db, e[1])
     IN \/ (e[2] \in DOMAIN rows) # (e[2] \in Names(e[1]))
        \/ /\ e[2] \in Names(e[1])
           /\ rows[e[2]] \notin {Child(e[1], e[2]), node[e[1]].kids[e[2]]}}

FaultInit == Init /\ faults = 0 /\ torn = {}

NoError(A) ==
  /\ A
  /\ torn' = torn \cap Differing'
  /\ UNCHANGED faults

(* A call fails in a request about the entries E. *)
Fails(E) ==
  /\ faults < MaxFaults
  /\ faults' = faults + 1
  /\ torn' = (torn \cup E) \cap Differing'

RootEntries == {Root} \X Name

-----------------------------------------------------------------------------
(* Requests about the live tree.                                           *)

(* create gives up at the first error, after it took an id. *)
CreateFails(p, n) ==
  /\ job = Idle
  /\ p \notin FrozenIds /\ n \notin Names(p)
  /\ Taken(1)
  /\ db' \in {db, Created(p, n)[1], Created(p, n)[2], Created(p, n)[3]}
  /\ next' = next + 1
  /\ UNCHANGED <<node, top, frozen, dirty, job>>
  /\ Fails({<<p, n>>})

MkdirFails(n) ==
  LET own == Mutable(node, top, Root, next)
  IN /\ job = Idle
     /\ n \notin Names(Root)
     /\ Taken(1)
     /\ db' \in {db, Made(n)[1], Made(n)[2]}
     /\ node' = own.node /\ top' = own.top
     /\ next' = next + 1
     /\ UNCHANGED <<frozen, dirty, job>>
     /\ Fails({<<Root, n>>})

(* unlink and rmdir take no notice of an error of delete_dirent. *)
UnlinkFails(p, n) ==
  /\ job = Idle
  /\ p \notin FrozenIds /\ n \in Names(p)
  /\ node' = Detach(node, p, n)
  /\ dirty' = Drop(dirty, node[p].kids[n])
  /\ UNCHANGED <<db, top, frozen, next, job, reuses>>
  /\ Fails({<<p, n>>})

(* rename is out of the old directory, and what it replaces is gone, when  *)
(* save_inode fails (the second write); it is in the new directory when    *)
(* the entries are written (the third and the fourth).  An error of the    *)
(* first goes unnoticed, and the fourth writes the same entry.             *)
RenameFails(p, n, q, m) ==
  /\ job = Idle
  /\ p \notin FrozenIds /\ q \notin FrozenIds
  /\ Renamable(p, n, q, m)
  /\ LET w == Moved(p, n, q, m)
         out == Detach(w.node, p, n)
     IN /\ Taken(w.used)
        /\ \E k \in 2..4 :
             /\ db' \in {w.trees[k - 1], w.trees[k]}
             /\ node' = IF k = 2 THEN Detach(out, q, m) ELSE Attach(out, q, m, w.child)
        /\ top' = w.top
        /\ dirty' = IF w.over THEN Drop(dirty, w.node[q].kids[m]) ELSE dirty
        /\ next' = next + w.used
        /\ UNCHANGED <<frozen, job>>
  /\ Fails({<<p, n>>, <<q, m>>})

-----------------------------------------------------------------------------
(* Snapshots.                                                              *)

(* A clone that fails ends the request.  In a restore the trees below the  *)
(* root are attached to it when they are complete.                         *)
CloneFails(t) ==
  LET parents == {u.parent : u \in job.todo}
      whole == {n \in Names(Root) : node[Root].kids[n] \notin parents}
  IN /\ job.kind \in {"snapshot", "restore"} /\ t \in job.todo
     /\ Taken(1)
     /\ db' = db \/ \E k \in 1..Len(Copied(t)) : db' = Copied(t)[k]
     /\ node' = IF job.kind = "restore"
                THEN WithKids(node, Root, [n \in whole |-> node[Root].kids[n]])
                ELSE node
     /\ job' = Idle
     /\ next' = next + 1
     /\ UNCHANGED <<top, frozen, dirty>>
     /\ Fails(IF job.kind = "restore" THEN RootEntries ELSE {})

(* The row of a snapshot cannot be saved: it stays in memory. *)
FinishFails ==
  /\ job.kind = "snapshot" /\ job.todo = {}
  /\ frozen' = Put(frozen, job.name, Frozen(job.root, job.ids))
  /\ db' \in {db, SaveSnapshot(db, job.name, job.root)}
  /\ job' = Idle
  /\ UNCHANGED <<node, top, dirty, next, reuses>>
  /\ Fails({})

(* A restore does not notice that an old entry stays; it ends when the     *)
(* empty root cannot be saved.                                             *)
ClearFails ==
  LET old == DOMAIN Listed(db, Root)
  IN /\ job.kind = "clear"
     /\ \/ \E n \in old : /\ db' = SaveInode(Cleared(old \ {n}), Root, TRUE)
                          /\ job' = CloneBack(db')
        \/ db' = Cleared(old) /\ job' = Idle
     /\ Emptied
     /\ UNCHANGED reuses
     /\ Fails(RootEntries)

(* rmdir in .snapshots prints a warning. *)
RemoveFails(s) ==
  /\ job = Idle
  /\ s \in DOMAIN frozen
  /\ frozen' = Drop(frozen, s)
  /\ UNCHANGED <<db, node, top, dirty, next, job, reuses>>
  /\ Fails({})

-----------------------------------------------------------------------------
RequestFails ==
  \/ \E p \in Dirs, n \in FileName : CreateFails(p, n)
  \/ \E n \in DirName : MkdirFails(n)
  \/ \E p \in Dirs, n \in Name : UnlinkFails(p, n)
  \/ \E p, q \in Dirs, n, m \in Name : RenameFails(p, n, q, m)

SnapshotFails ==
  \/ \E s \in DOMAIN frozen : RemoveFails(s)
  \/ job # Idle /\ \E t \in job.todo : CloneFails(t)
  \/ FinishFails \/ ClearFails

FaultNext == NoError(Next) \/ RequestFails \/ SnapshotFails

FaultSpec == FaultInit /\ [][FaultNext]_faultVars

-----------------------------------------------------------------------------
(* Between requests the rows of each directory are the entries clients see *)
(* in it, but for the entries a failed request was about: every request    *)
(* writes its entries through before it answers, a request cut short is    *)
(* not half seen after the next mount, and an error does not spread to     *)
(* entries of other requests.                                              *)
EntriesDurable == job = Idle /\ reuses = 0 => Differing \subseteq torn

(* What an error left in disagreement is repaired by the next request that *)
(* gives the name to something or takes it away.                           *)
NextRequestRepairs ==
  [][ faults' = faults /\ reuses' = 0 =>
        \A e \in torn \cap torn' :
          (e[2] \in Names(e[1])) = (e[2] \in Names(e[1]))' ]_faultVars

(* A restore that completes leaves the live tree showing the snapshot, to  *)
(* clients and, unless an old entry could not be deleted, on disk.         *)
RestoreFaithful ==
  [][ reuses = 0 /\ FinishRestore =>
        LET shown == Tree(db, frozen[job.name].root)
        IN LiveTree' = shown /\ (torn' = {} => Tree(db', Root) = shown) ]_faultVars

-----------------------------------------------------------------------------
(* What snapshots and backups miss.  They are cloned from the rows, and    *)
(* clients see the memory.                                                 *)

(* Entries whose row leads to the id of a clone: clients work in the       *)
(* original, and what is in it has no rows under that id.                  *)
Shadowed ==
  {e \in Dirs \X Name :
     LET rows == Listed(db, e[1])
     IN e[2] \in Names(e[1]) /\ e[2] \in DOMAIN rows /\ rows[e[2]] # Child(e[1], e[2])}

(* The entries of t are those of l, the directory p as clients see it, but *)
(* for those of failed requests; their kinds are the same, and, but for    *)
(* shadowed ones, their contents.                                          *)
EntriesShown(t, l, p) ==
  \A n \in Name : <<p, n>> \notin torn =>
    /\ n \in DOMAIN t.kids <=> n \in DOMAIN l.kids
    /\ n \in DOMAIN t.kids =>
         /\ t.kids[n].dir = l.kids[n].dir
         /\ <<p, n>> \notin Shadowed => t.kids[n].data = l.kids[n].data

(* The tree t shows what clients see, but for what an error left apart and *)
(* for what is in shadowed directories.                                    *)
ShowsLive(t) ==
  /\ t.dir = LiveTree.dir /\ t.data = LiveTree.data
  /\ EntriesShown(t, LiveTree, Root)
  /\ \A n \in Names(Root) :
       <<Root, n>> \notin torn \cup Shadowed /\ LiveTree.kids[n].dir =>
         EntriesShown(t.kids[n], LiveTree.kids[n], Child(Root, n))

(* When a restore begins to take the live tree apart, a snapshot with a    *)
(* row shows what clients saw, to that extent, and all of the rows.  What  *)
(* is beyond that extent is lost when the restore empties the registry.    *)
BackupTaken ==
  job.kind = "clear" /\ reuses = 0 =>
    \E b \in DOMAIN db.snap \cap BackupName :
      Tree(db, db.snap[b]) = Tree(db, Root) /\ ShowsLive(Tree(db, db.snap[b]))

(* A snapshot that appears shows what clients see, dirty buffers included, *)
(* to that extent, and all of the rows.                                    *)
SnapshotFaithful ==
  [][ reuses' = 0 =>
        \A s \in DOMAIN db'.snap \ DOMAIN db.snap :
          LET shown == Tree(db', db'.snap[s])
          IN dirty = <<>> /\ shown = Tree(db, Root) /\ ShowsLive(shown) ]_faultVars

-----------------------------------------------------------------------------
(* The trees that roots lead to. *)
Trees(root) == [s \in DOMAIN root |-> Tree(db, root[s])]

Store ==
  INSTANCE SnapshotStore WITH
    live <- Tree(db, Root),
    listed <- Trees([s \in DOMAIN frozen |-> frozen[s].root]),
    stored <- Trees(db.snap),
    restoring <- IF job.kind \in {"clear", "restore"} THEN {job.name} ELSE {},
    errors <- faults

(* Namespace implements SnapshotStore until an id is handed out twice:     *)
(* under any writes, renames, snapshots, restores, errors and crashes,     *)
(* what is listed and what is stored stay what they were when taken.       *)
ImplementsStore == Store!Init /\ [][reuses' = 0 => [Store!Next]_Store!vars]_faultVars
=============================================================================
