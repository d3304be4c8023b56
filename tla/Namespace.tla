----------------------------- MODULE Namespace ------------------------------
(***************************************************************************)
(* The directory tree of ArcFS, live and in snapshots: the rows ino_meta,  *)
(* dirent, ino_recipe and snapshot of file_manager.rs, the tree that       *)
(* fuse_handler.rs keeps in memory next to them, and the operations that   *)
(* change both.                                                            *)
(*                                                                         *)
(* Every save_* and delete_* of file_manager.rs is one write and one       *)
(* flush, so each is durable when it returns, and a request that makes     *)
(* several can be cut short between any two of them.  Requests are         *)
(* dispatched one at a time; the clone of a tree takes one step per node.  *)
(*                                                                         *)
(* Bounds on the tree: directories are made in the root only, and requests *)
(* are about the root and the directories in it.                           *)
(***************************************************************************)
EXTENDS Naturals, Sequences, FiniteSets, SledMap

CONSTANTS
  FileName,   \* names of regular files
  DirName,    \* names of directories
  Content,    \* what a file holds
  NoContent,  \* what a new file holds, and a file without a recipe
  SnapName,   \* names clients give to snapshots
  BackupName, \* names before_restore_<seconds>, one per second
  LastIno,    \* bound on the ids handed out
  MaxReuse    \* bound on the ids handed out that already have rows

Root == 1          \* FUSE_ROOT_ID
SnapshotDir == 2   \* SNAPSHOT_DIR_ID
FirstIno == 100    \* where next_inode starts

ASSUME NoContentAssumption == NoContent \in Content
ASSUME NameAssumption == FileName \cap DirName = {}
ASSUME SnapNameAssumption == SnapName \cap BackupName = {}
ASSUME BoundAssumption == LastIno \in Nat /\ FirstIno <= LastIno /\ MaxReuse \in Nat

Ino == {Root} \cup FirstIno..LastIno
Name == FileName \cup DirName

VARIABLES
  db,      \* the rows: meta (is_dir), dirent, recipe, snap (root id)
  node,    \* inode_registry: id -> attr.ino, kind and children (ids)
  top,     \* self.root: shared with the registry, or a copy's children
  frozen,  \* snapshots: name -> root id and ids of the tree in memory
  dirty,   \* buffers of the page cache that are not flushed
  next,    \* next_inode
  job,     \* the clone in progress
  reuses   \* ids handed out although they had rows (see MaxReuse)

vars == <<db, node, top, frozen, dirty, next, job, reuses>>

-----------------------------------------------------------------------------
(* The rows, one write at a time.                                          *)

Rows(meta, dirent, recipe, snap) ==
  [meta |-> meta, dirent |-> dirent, recipe |-> recipe, snap |-> snap]
SaveInode(d, i, dir) == Rows(Put(d.meta, i, dir), d.dirent, d.recipe, d.snap)
SaveDirent(d, p, n, i) == Rows(d.meta, Put(d.dirent, <<p, n>>, i), d.recipe, d.snap)
DeleteDirent(d, p, n) == Rows(d.meta, Drop(d.dirent, <<p, n>>), d.recipe, d.snap)
SaveRecipe(d, i, c) == Rows(d.meta, d.dirent, Put(d.recipe, i, c), d.snap)
SaveSnapshot(d, s, i) == Rows(d.meta, d.dirent, d.recipe, Put(d.snap, s, i))
DeleteSnapshot(d, s) == Rows(d.meta, d.dirent, d.recipe, Drop(d.snap, s))

(* list_dirents, as a map from names to ids. *)
Listed(d, p) ==
  [n \in {m \in Name : <<p, m>> \in DOMAIN d.dirent} |-> d.dirent[<<p, n>>]]

(* What read_file_by_id gives. *)
Stored(d, i) == IF i \in DOMAIN d.recipe THEN d.recipe[i] ELSE NoContent

(* The ids reached from r in d, through the entries of those in `dirs`. *)
Reached(d, r, dirs) ==
  LET kids(I) == {d.dirent[e] : e \in {x \in DOMAIN d.dirent : x[1] \in I}}
      level[k \in 0..Cardinality(DOMAIN d.dirent)] ==
        IF k = 0 THEN {r} ELSE LET above == level[k - 1] IN above \cup kids(above \cap dirs)
  IN level[Cardinality(DOMAIN d.dirent)]

(* restore_snapshot_subtree succeeds: every id has its metadata and is     *)
(* reached once.                                                           *)
Whole(d, r) ==
  LET ids == Reached(d, r, DOMAIN d.meta)
      into(j) == {e \in DOMAIN d.dirent : e[1] \in ids /\ d.dirent[e] = j}
  IN /\ ids \subseteq DOMAIN d.meta
     /\ \A j \in ids : Cardinality(into(j)) = IF j = r THEN 0 ELSE 1

-----------------------------------------------------------------------------
(* The tree in memory.                                                     *)

Node(ino, dir, kids) == [ino |-> ino, dir |-> dir, kids |-> kids]

Shared == [shared |-> TRUE, kids |-> <<>>]
Copy(kids) == [shared |-> FALSE, kids |-> kids]

(* The children of self.root, in the memory <<nd, tp>>. *)
TopKids(nd, tp) == IF tp.shared THEN nd[Root].kids ELSE tp.kids

Frozen(root, ids) == [root |-> root, ids |-> ids]
FrozenIds == UNION {frozen[s].ids : s \in DOMAIN frozen}

(* The kernel's id of the n-th child of i. *)
Child(i, n) == node[node[i].kids[n]].ino
Names(i) == DOMAIN node[i].kids

(* The directories clients work in. *)
Dirs == {Root} \cup {i \in {Child(Root, n) : n \in Names(Root)} : node[i].dir}

(* Regular files that some name in those directories leads to. *)
Files ==
  {i \in UNION {{Child(p, n) : n \in Names(p)} : p \in Dirs} : ~node[i].dir}

WithKids(nd, i, kids) == Put(nd, i, Node(nd[i].ino, nd[i].dir, kids))
Attach(nd, p, n, i) == WithKids(nd, p, Put(nd[p].kids, n, i))
Detach(nd, p, n) == WithKids(nd, p, Drop(nd[p].kids, n))

(* get_mutable_inode(get_path_from_inode(p)) in the memory <<nd, tp>>.     *)
(* The root is copied when it is shared with the registry, which keeps the *)
(* original.  A directory found in self.root's tree is replaced there by a *)
(* clone under the id i; the registry keeps both.                          *)
Paths(nd, tp, p) == {n \in DOMAIN TopKids(nd, tp) : TopKids(nd, tp)[n] = p}
Shadows(nd, tp, p) == p # Root /\ Paths(nd, tp, p) # {}
Mutable(nd, tp, p, i) ==
  CASE p = Root -> [node |-> nd, top |-> Copy(TopKids(nd, tp)), used |-> 0]
    [] Shadows(nd, tp, p) ->
         LET n == CHOOSE m \in Paths(nd, tp, p) : TRUE
             cloned == Put(nd, i, Node(nd[p].ino, nd[p].dir, nd[p].kids))
         IN [node |-> IF tp.shared THEN Attach(cloned, Root, n, i) ELSE cloned,
             top |-> IF tp.shared THEN tp ELSE Copy(Put(tp.kids, n, i)),
             used |-> 1]
    [] OTHER -> [node |-> nd, top |-> tp, used |-> 0]

-----------------------------------------------------------------------------
Idle == [kind |-> "idle"]

(* clone_subtree_from_metadata: what is left to clone, the ids made, the   *)
(* root of the clone and, for the backup of a restore, what to restore.    *)
Task(src, p, n) == [src |-> src, parent |-> p, name |-> n]
Cloning(kind, s, then, todo, ids, root) ==
  [kind |-> kind, name |-> s, then |-> then, todo |-> todo, ids |-> ids, root |-> root]

(* Ids next, next + 1, .. k of them are taken. *)
Taken(k) ==
  /\ next + k <= LastIno + 1
  /\ reuses' = reuses + Cardinality({i \in DOMAIN db.meta : next <= i /\ i < next + k})
  /\ reuses' <= MaxReuse

LargestOf(S) == CHOOSE m \in S : \A x \in S : x <= m

(* ArcFS::new on the rows d: the root is saved, hydrate_live_children      *)
(* registers what the dirents reach and moves next_inode past the live     *)
(* ids, and restore_snapshots loads each snapshot or prunes its row.       *)
Mount(d) ==
  LET e == SaveInode(d, Root, TRUE)
      dirs == {i \in DOMAIN e.meta : e.meta[i]}
      live == Reached(e, Root, dirs) \cap DOMAIN e.meta
      entries(i) == {n \in DOMAIN Listed(e, i) : i \in dirs /\ Listed(e, i)[n] \in live}
      kept == {s \in DOMAIN e.snap : Whole(e, e.snap[s])}
  IN /\ db' = Rows(e.meta, e.dirent, e.recipe, [s \in kept |-> e.snap[s]])
     /\ node' = [i \in live |-> Node(i, e.meta[i], [n \in entries(i) |-> Listed(e, i)[n]])]
     /\ top' = Shared
     /\ frozen' = [s \in kept |-> Frozen(e.snap[s], Reached(e, e.snap[s], DOMAIN e.meta))]
     /\ next' = LargestOf({FirstIno} \cup {i + 1 : i \in live \ {Root}})
     /\ dirty' = <<>>
     /\ job' = Idle

(* The process dies after some of the writes of a request, not all, and    *)
(* the store is mounted again; `trees` holds the rows after each write.    *)
CutShort(trees) == \E k \in 1..(Len(trees) - 1) : Mount(trees[k])

Empty == Rows(<<>>, <<>>, <<>>, <<>>)

Init ==
  /\ db = SaveInode(Empty, Root, TRUE)
  /\ node = Put(<<>>, Root, Node(Root, TRUE, <<>>))
  /\ top = Shared
  /\ frozen = <<>>
  /\ dirty = <<>>
  /\ next = FirstIno
  /\ job = Idle
  /\ reuses = 0

-----------------------------------------------------------------------------
(* Operations on the live tree.                                            *)

Last(trees) == trees[Len(trees)]

(* Mutant of Created: an entry that is on disk already is not written. *)
CreatedOnce(p, n) ==
  LET made == SaveInode(db, next, FALSE)
      named == IF n \in DOMAIN Listed(db, p) THEN made ELSE SaveDirent(made, p, n, next)
  IN <<made, named, SaveRecipe(named, next, NoContent)>>

(* The rows after each write of create, and of mkdir in the root. *)
Created(p, n) ==
  LET made == SaveInode(db, next, FALSE)
      named == SaveDirent(made, p, n, next)
  IN <<made, named, SaveRecipe(named, next, NoContent)>>
Made(n) ==
  LET made == SaveInode(db, next, TRUE)
  IN <<made, SaveDirent(made, Root, n, next)>>

(* create_live_file_under_parent *)
Create(p, n) ==
  /\ job = Idle
  /\ p \notin FrozenIds
  /\ n \notin Names(p)
  /\ Taken(1)
  /\ \/ /\ db' = Last(Created(p, n))
        /\ node' = Attach(Put(node, next, Node(next, FALSE, <<>>)), p, n, next)
        /\ next' = next + 1
        /\ UNCHANGED <<top, frozen, dirty, job>>
     \/ CutShort(Created(p, n))

(* mkdir in the root, which is made mutable first. *)
Mkdir(n) ==
  LET own == Mutable(node, top, Root, next)
  IN /\ job = Idle
     /\ n \notin Names(Root)
     /\ Taken(1)
     /\ \/ /\ db' = Last(Made(n))
           /\ node' = Attach(Put(own.node, next, Node(next, TRUE, <<>>)), Root, n, next)
           /\ top' = own.top
           /\ next' = next + 1
           /\ UNCHANGED <<frozen, dirty, job>>
        \/ CutShort(Made(n))

(* Mutant of Write: inode_in_snapshot is not asked. *)
WriteUnguarded(i, c) ==
  /\ job = Idle
  /\ dirty' = Put(dirty, i, c)
  /\ UNCHANGED <<db, node, top, frozen, next, job, reuses>>

(* write and setattr leave a dirty buffer. *)
Write(i, c) ==
  /\ job = Idle
  /\ i \notin FrozenIds
  /\ dirty' = Put(dirty, i, c)
  /\ UNCHANGED <<db, node, top, frozen, next, job, reuses>>

(* flush_inode_cache: the recipe, then the metadata of a registered file.  *)
Flush(i) ==
  LET filled == SaveRecipe(db, i, dirty[i])
      sized == IF i \in DOMAIN node THEN SaveInode(filled, i, node[i].dir) ELSE filled
  IN /\ job = Idle
     /\ i \in DOMAIN dirty
     /\ \/ /\ db' = sized
           /\ dirty' = Drop(dirty, i)
           /\ UNCHANGED <<node, top, frozen, next, job>>
        \/ CutShort(<<filled, sized>>)
     /\ UNCHANGED reuses

(* Mutant of Unlink: the inode leaves the registry, its buffer stays. *)
UnlinkForgets(p, n) ==
  /\ job = Idle
  /\ p \notin FrozenIds
  /\ n \in Names(p)
  /\ db' = DeleteDirent(db, p, n)
  /\ node' = Drop(Detach(node, p, n), node[p].kids[n])
  /\ UNCHANGED <<top, frozen, dirty, next, job, reuses>>

(* unlink, and rmdir, which does not look whether the directory is empty:  *)
(* only the entry goes.                                                    *)
Unlink(p, n) ==
  /\ job = Idle
  /\ p \notin FrozenIds
  /\ n \in Names(p)
  /\ db' = DeleteDirent(db, p, n)
  /\ node' = Detach(node, p, n)
  /\ dirty' = Drop(dirty, node[p].kids[n])
  /\ UNCHANGED <<top, frozen, next, job, reuses>>

(* The kernel asks for a rename to another name, over nothing or over      *)
(* something of the same kind (names tell the kinds apart here);           *)
(* directories stay in the root.                                           *)
Renamable(p, n, q, m) ==
  /\ <<p, n>> # <<q, m>>
  /\ n \in Names(p)
  /\ IF n \in DirName THEN m \in DirName /\ p = Root /\ q = Root ELSE m \in FileName

(* What a rename works with: the memory in which both parents are mutable, *)
(* the object moved, whether there is one to replace, and the rows after   *)
(* each write.  The dirent gets the id of the object in the tree, which    *)
(* for a directory may be a clone's.                                       *)
Moved(p, n, q, m) ==
  LET own == Mutable(node, top, p, next)
      both == IF q = p THEN [node |-> own.node, top |-> own.top, used |-> 0]
              ELSE Mutable(own.node, own.top, q, next + own.used)
      o == both.node[p].kids[n]
      over == m \in DOMAIN both.node[q].kids
      cleared == IF over THEN DeleteDirent(db, q, m) ELSE db
      saved == SaveInode(cleared, o, both.node[o].dir)
      unnamed == DeleteDirent(saved, p, n)
  IN [node |-> both.node, top |-> both.top, used |-> own.used + both.used,
      child |-> o, over |-> over,
      trees |-> <<cleared, saved, unnamed, SaveDirent(unnamed, q, m, o)>>]

(* Mutant of Rename: the old entry is not deleted. *)
RenameKeepsOld(p, n, q, m) ==
  /\ job = Idle
  /\ p \notin FrozenIds /\ q \notin FrozenIds
  /\ Renamable(p, n, q, m)
  /\ LET w == Moved(p, n, q, m)
     IN /\ Taken(w.used)
        /\ db' = SaveDirent(w.trees[2], q, m, w.child)
        /\ node' = Attach(Detach(w.node, p, n), q, m, w.child)
        /\ top' = w.top
        /\ next' = next + w.used
        /\ UNCHANGED <<frozen, dirty, job>>

Rename(p, n, q, m) ==
  /\ job = Idle
  /\ p \notin FrozenIds /\ q \notin FrozenIds
  /\ Renamable(p, n, q, m)
  /\ LET w == Moved(p, n, q, m)
     IN /\ Taken(w.used)
        /\ \/ /\ db' = Last(w.trees)
              /\ node' = Attach(Detach(w.node, p, n), q, m, w.child)
              /\ top' = w.top
              /\ dirty' = IF w.over THEN Drop(dirty, w.node[q].kids[m]) ELSE dirty
              /\ next' = next + w.used
              /\ UNCHANGED <<frozen, job>>
           \/ CutShort(w.trees)

-----------------------------------------------------------------------------
(* Snapshots.                                                              *)

(* The rows after the buffers of the files in S are flushed. *)
Flushed(S) ==
  Rows(db.meta, db.dirent,
       [i \in DOMAIN db.recipe \cup S |-> IF i \in S THEN dirty[i] ELSE db.recipe[i]],
       db.snap)

(* Ids for the clone of what r leads to. *)
Needed(r) == Cardinality(Reached(db, r, DOMAIN db.meta))

(* Mutant of BeginSnapshot: nothing is flushed. *)
BeginUnflushed(s, then) ==
  /\ job = Idle
  /\ s \notin DOMAIN frozen
  /\ job' = Cloning("snapshot", s, then, {Task(Root, SnapshotDir, s)}, {}, Root)
  /\ UNCHANGED <<db, node, top, frozen, dirty, next, reuses>>

(* create_snapshot_named up to the clone: everything dirty is flushed.     *)
BeginSnapshot(s, then) ==
  /\ job = Idle
  /\ s \notin DOMAIN frozen
  /\ \/ /\ db' = Flushed(DOMAIN dirty)
        /\ dirty' = <<>>
        /\ job' = Cloning("snapshot", s, then, {Task(Root, SnapshotDir, s)}, {}, Root)
        /\ UNCHANGED <<node, top, frozen, next>>
     \/ \E S \in (SUBSET DOMAIN dirty) \ {{}, DOMAIN dirty} : Mount(Flushed(S))
  /\ UNCHANGED reuses

TakeSnapshot(s) ==
  /\ next + Needed(Root) <= LastIno + 1
  /\ BeginSnapshot(s, {})

(* mkdir .restore_<s>: the live tree is saved as the snapshot b first.     *)
Restore(s, b) ==
  /\ s \in DOMAIN frozen
  /\ next + Needed(Root) + Needed(frozen[s].root) <= LastIno + 2
  /\ BeginSnapshot(b, {s})

(* The rows after each write of the clone of one node. *)
Copied(t) ==
  LET made == SaveInode(db, next, db.meta[t.src])
      named == SaveDirent(made, t.parent, t.name, next)
  IN IF db.meta[t.src] THEN <<made, named>>
     ELSE <<made, named, SaveRecipe(named, next, Stored(named, t.src))>>

(* One node of clone_subtree_from_metadata; the clones of a restore go     *)
(* into the registry.                                                      *)
CloneNode(t) ==
  LET kids == Listed(Last(Copied(t)), t.src)
      clone == Node(next, db.meta[t.src], <<>>)
  IN /\ job.kind \in {"snapshot", "restore"} /\ t \in job.todo
     /\ Taken(1)
     /\ \/ /\ db' = Last(Copied(t))
           /\ job' = Cloning(job.kind, job.name, job.then,
                             (job.todo \ {t}) \cup {Task(kids[n], next, n) : n \in DOMAIN kids},
                             job.ids \cup {next},
                             IF t.parent = SnapshotDir THEN next ELSE job.root)
           /\ node' = IF job.kind = "restore"
                      THEN Attach(Put(node, next, clone), t.parent, t.name, next)
                      ELSE node
           /\ next' = next + 1
           /\ UNCHANGED <<top, frozen, dirty>>
        \/ CutShort(Copied(t))

(* Mutant of FinishSnapshot: the snapshot is kept in memory only. *)
FinishUnsaved ==
  /\ job.kind = "snapshot" /\ job.todo = {}
  /\ frozen' = Put(frozen, job.name, Frozen(job.root, job.ids))
  /\ job' = IF job.then = {} THEN Idle
            ELSE Cloning("clear", CHOOSE s \in job.then : TRUE, {}, {}, {}, Root)
  /\ UNCHANGED <<db, node, top, dirty, next, reuses>>

(* The rest of create_snapshot_named: the tree in memory, then the row.    *)
FinishSnapshot ==
  /\ job.kind = "snapshot" /\ job.todo = {}
  /\ frozen' = Put(frozen, job.name, Frozen(job.root, job.ids))
  /\ db' = SaveSnapshot(db, job.name, job.root)
  /\ job' = IF job.then = {} THEN Idle
            ELSE Cloning("clear", CHOOSE s \in job.then : TRUE, {}, {}, {}, Root)
  /\ UNCHANGED <<node, top, dirty, next, reuses>>

(* The rows after the root's entries in N are deleted. *)
Cleared(N) ==
  Rows(db.meta, [e \in DOMAIN db.dirent \ {<<Root, n>> : n \in N} |-> db.dirent[e]],
       db.recipe, db.snap)

(* restore_live_from_snapshot empties the memory, and goes on with what    *)
(* the snapshot's root lists.                                              *)
Emptied ==
  /\ node' = Put(<<>>, Root, Node(Root, TRUE, <<>>))
  /\ top' = Shared
  /\ dirty' = <<>>
  /\ UNCHANGED <<frozen, next>>
CloneBack(d) ==
  LET kids == Listed(d, frozen[job.name].root)
  IN Cloning("restore", job.name, {}, {Task(kids[n], Root, n) : n \in DOMAIN kids}, {}, Root)

(* Mutant of ClearLive: the tree in memory goes, its entries stay. *)
ClearMemory ==
  /\ job.kind = "clear"
  /\ job' = CloneBack(db)
  /\ Emptied
  /\ UNCHANGED <<db, reuses>>

(* restore_live_from_snapshot up to the clones: the root's entries go one  *)
(* by one, then the registry and the page cache.                           *)
ClearLive ==
  LET old == DOMAIN Listed(db, Root)
  IN /\ job.kind = "clear"
     /\ \/ /\ db' = SaveInode(Cleared(old), Root, TRUE)
           /\ job' = CloneBack(Cleared(old))
           /\ Emptied
        \/ \E N \in (SUBSET old) \ {{}} : Mount(Cleared(N))
     /\ UNCHANGED reuses

FinishRestore ==
  /\ job.kind = "restore" /\ job.todo = {}
  /\ job' = Idle
  /\ UNCHANGED <<db, node, top, frozen, dirty, next, reuses>>

(* rmdir in .snapshots: the row goes, the cloned rows stay. *)
RemoveSnapshot(s) ==
  /\ job = Idle
  /\ s \in DOMAIN frozen
  /\ frozen' = Drop(frozen, s)
  /\ db' = DeleteSnapshot(db, s)
  /\ UNCHANGED <<node, top, dirty, next, job, reuses>>

(* Between two writes: the process dies, or the filesystem is unmounted.   *)
Crash == Mount(db) /\ UNCHANGED reuses

-----------------------------------------------------------------------------
(* Requests about the live tree, with directories named by D. *)
MakeStep(D) ==
  \/ \E p \in Dirs \cup FrozenIds, n \in FileName : Create(p, n)
  \/ \E n \in D : Mkdir(n)

MoveStep(D) ==
  \/ \E p \in Dirs \cup FrozenIds, n \in FileName \cup D : Unlink(p, n)
  \/ \E p, q \in Dirs \cup FrozenIds, n, m \in FileName \cup D : Rename(p, n, q, m)

WriteStep ==
  \/ \E i \in Files \cup {j \in FrozenIds : ~db.meta[j]}, c \in Content \ {NoContent} : Write(i, c)
  \/ \E i \in DOMAIN dirty : Flush(i)

CloneStep ==
  \/ \E t \in job.todo : CloneNode(t)
  \/ FinishSnapshot \/ ClearLive \/ FinishRestore

SnapshotStep ==
  \/ \E s \in SnapName : TakeSnapshot(s)
  \/ \E s \in DOMAIN frozen : RemoveSnapshot(s) \/ \E b \in BackupName : Restore(s, b)

Next ==
  \/ MakeStep(DirName) \/ MoveStep(DirName) \/ WriteStep
  \/ SnapshotStep
  \/ job # Idle /\ CloneStep
  \/ Crash

Spec == Init /\ [][Next]_vars

-----------------------------------------------------------------------------
(* What a tree of rows shows: kinds, contents and names, without the ids.  *)
Depth == 3
Tree(d, r) ==
  LET seen[k \in 0..Depth] ==
        [i \in DOMAIN d.meta |->
           LET kids == Listed(d, i)
           IN [dir |-> d.meta[i], data |-> Stored(d, i),
               kids |-> IF k = 0 THEN <<>> ELSE [n \in DOMAIN kids |-> seen[k - 1][kids[n]]]]]
  IN seen[Depth][r]

(* The same of the live tree, as clients see it. *)
LiveTree ==
  LET seen[k \in 0..Depth] ==
        [i \in DOMAIN node |->
           [dir |-> node[i].dir, data |-> IF i \in DOMAIN dirty THEN dirty[i] ELSE Stored(db, i),
            kids |-> IF k = 0 THEN <<>> ELSE [n \in Names(i) |-> seen[k - 1][Child(i, n)]]]]
  IN seen[Depth][Root]

(* Types of the state: in particular every child in memory is registered,  *)
(* and what is registered has its rows or an id that was just handed out.  *)
TypeOK ==
  /\ IsMap(db.meta, Ino, BOOLEAN)
  /\ IsMap(db.dirent, (Ino \cup {SnapshotDir}) \X (Name \cup SnapName \cup BackupName), Ino)
  /\ IsMap(db.recipe, Ino, Content)
  /\ IsMap(db.snap, SnapName \cup BackupName, Ino)
  /\ DOMAIN node \subseteq DOMAIN db.meta \cup FirstIno..(next - 1)
  /\ \A i \in DOMAIN node :
       /\ node[i].ino \in DOMAIN node /\ node[i].dir \in BOOLEAN
       /\ IsMap(node[i].kids, Name, DOMAIN node)
  /\ top.shared \in BOOLEAN /\ IsMap(top.kids, Name, DOMAIN node)
  /\ IsMap(frozen, SnapName \cup BackupName, [root : Ino, ids : SUBSET Ino])
  /\ IsMap(dirty, DOMAIN node, Content)
  /\ next \in FirstIno..(LastIno + 1)
  /\ job.kind \in {"idle", "snapshot", "clear", "restore"}
  /\ reuses \in 0..MaxReuse

(* Nothing changes what a snapshot shows, or removes it, but its removal.  *)
SnapshotKept(s) ==
  \/ RemoveSnapshot(s)
  \/ s \in DOMAIN db'.snap /\ Tree(db', db'.snap[s]) = Tree(db, db.snap[s])

(* As long as no id is handed out twice, snapshots are immutable: no write,*)
(* rename, restore, crash, error or other snapshot changes what one shows. *)
(* (A row that a removal could not delete is no snapshot any more.)        *)
SnapshotFrozen ==
  [][ reuses' = 0 => \A s \in DOMAIN db.snap \cap DOMAIN frozen : SnapshotKept(s) ]_vars
=============================================================================
