------------------------------ MODULE TagTree -------------------------------
(***************************************************************************)
(* The tree under @tags (fuse_handler.rs) and the real tree it leads to.   *)
(* A directory of @tags stands for a set of tags and shows the files that  *)
(* have all of them; its ids and those of the files it shows are virtual,  *)
(* made when first asked for and kept until the unmount.  A create in it   *)
(* goes to the real directory whose path is its tags in order.  What the   *)
(* requests do to the tag rows is TagStore, whose variables come first.    *)
(*                                                                         *)
(* A real directory is an id that stands at a path, a sequence of names;   *)
(* directories are not renamed here.  A rename or mkdir copies the way to  *)
(* its directory (get_mutable_inode): clients go on in the old nodes, whose*)
(* ids they have, while a request in @tags walks into the new ones.  The   *)
(* key of a set of tags is the set: no tag holds a "/".  Ids of clones     *)
(* handed out again, and snapshots, are in Namespace.                      *)
(***************************************************************************)
EXTENDS TagStore, Sequences

CONSTANTS
  FileName,    \* names of regular files
  Spelling,    \* names for directories, each a spelling of a tag
  Norm,        \* the tag a spelling normalizes to
  TagOrder,    \* the tags in the order sort() gives them
  Root,        \* FUSE_ROOT_ID
  PathOf,      \* the names and parents in the node of each directory
  FirstVnode,  \* VIRTUAL_INODE_START
  LastVnode    \* bound on the virtual ids

ASSUME SpellingAssumption ==
  /\ Tag \subseteq Spelling /\ Norm \in [Spelling -> Tag]
  /\ \A t \in Tag : Norm[t] = t
ASSUME TagOrderAssumption ==
  /\ TagOrder \in Seq(Tag) /\ {TagOrder[k] : k \in 1..Len(TagOrder)} = Tag
  /\ Len(TagOrder) = Cardinality(Tag)

(* The real directory of a set of tags: the tags in order.                 *)
Path(T) ==
  LET path[k \in 0..Len(TagOrder)] ==
        IF k = 0 THEN <<>>
        ELSE IF TagOrder[k] \in T THEN Append(path[k - 1], TagOrder[k])
        ELSE path[k - 1]
  IN path[Len(TagOrder)]
Prefix(p, k) == SubSeq(p, 1, k)

ASSUME DirAssumption ==
  /\ PathOf \in [Dir -> Seq(Spelling)]
  /\ Root \in Dir /\ PathOf[Root] = <<>>
  /\ \A d \in Dir : AutoTags[d] = {Norm[PathOf[d][k]] : k \in 1..Len(PathOf[d])}
ASSUME VnodeAssumption == FirstVnode \in Nat /\ LastVnode \in Nat /\ FirstVnode <= LastVnode

VARIABLES
  dirs,      \* the directories in the registry
  kids,      \* the directories in their children: <<directory, name>> -> id
  entry,     \* and the files: <<directory, name>> -> inode
  made,      \* directories that a client, or the next mount, can walk to
  shared,    \* self.root is still the registry's node
  fname,     \* the name in the registry's node of each file in `home`
  virt,      \* tag_virtual_dirs and _files, the two maps back, next_vnode
  removing,  \* the rmdir in @tags in progress: its name and the files left
  ghosts     \* files that lost their name and kept tags (history, no code)

nodes == <<dirs, kids, made, shared>>
tree == <<entry, fname, nodes, virt, removing, ghosts>>
treeVars == <<db, past, home, live, calls, tree>>

-----------------------------------------------------------------------------
(* The virtual ids.                                                        *)

TagsDir == 4   \* TAGS_DIR_ID, the directory of no tags
Unused ==
  [dirs |-> <<>>, files |-> <<>>, dirIds |-> <<>>, fileIds |-> <<>>, next |-> FirstVnode]

(* The directories a client can be in, and their tags. *)
TagDirs == {TagsDir} \cup DOMAIN virt.dirs
TagsAt(v) == IF v = TagsDir THEN {} ELSE virt.dirs[v]

(* Mutant of GetFile: one id for the file, whatever the directory. *)
GetFileAnew(v, T, i) ==
  [v EXCEPT !.files = Put(@, v.next, i), !.fileIds = Put(@, <<T, i>>, v.next),
            !.next = @ + 1]

(* Mutant of GetDir: the id is the number of ids in use. *)
GetDirCounted(v, T) ==
  LET id == FirstVnode + Cardinality(DOMAIN v.dirs) + Cardinality(DOMAIN v.files)
  IN IF T \in DOMAIN v.dirIds THEN v
     ELSE [v EXCEPT !.dirs = Put(@, id, T), !.dirIds = Put(@, T, id), !.next = id + 1]

(* get_or_create_tag_virtual_dir and _file, on the ids v. *)
GetDir(v, T) ==
  IF T \in DOMAIN v.dirIds THEN v
  ELSE [v EXCEPT !.dirs = Put(@, v.next, T), !.dirIds = Put(@, T, v.next), !.next = @ + 1]
GetFile(v, T, i) ==
  IF <<T, i>> \in DOMAIN v.fileIds THEN v
  ELSE [v EXCEPT !.files = Put(@, v.next, i), !.fileIds = Put(@, <<T, i>>, v.next),
                 !.next = @ + 1]

(* One id after the other: for the directories T \cup {t}, then the files. *)
GetDirs(v, T, S) ==
  LET got[k \in 0..Len(TagOrder)] ==
        IF k = 0 THEN v
        ELSE IF TagOrder[k] \in S THEN GetDir(got[k - 1], T \cup {TagOrder[k]})
        ELSE got[k - 1]
  IN got[Len(TagOrder)]
GetFiles(v, T, I) ==
  LET rank(i) == Cardinality({j \in I : j <= i})
      got[k \in 0..Cardinality(I)] ==
        IF k = 0 THEN v
        ELSE GetFile(got[k - 1], T, CHOOSE i \in I : rank(i) = k)
  IN got[Cardinality(I)]

-----------------------------------------------------------------------------
(* What the directory of the tags T shows under the name n: a directory,   *)
(* when a file has the further tag or somebody made it, and else a file.   *)
Entered(T, n) == T \cup {Norm[n]}
LeadsOn(T, n) ==
  n \in Spelling /\ (Query(db, Entered(T, n)) # {} \/ Entered(T, n) \in DOMAIN virt.dirIds)
Named(T, n) == {i \in Query(db, T) \cap DOMAIN home : fname[i] = n}
Shown(T, n) == IF LeadsOn(T, n) THEN {} ELSE Named(T, n)
Vacant(T, n) == ~LeadsOn(T, n) /\ Named(T, n) = {}

(* get_next_level_tags and the directories somebody made. *)
NextTags(T) ==
  {t \in Tag : IF T = {} THEN db.index[t] # {}
               ELSE \E i \in Query(db, T) : t \in TagsOf(db, i)} \ T
Listing(T) ==
  NextTags(T) \cup {t \in Tag \ T : \E v \in DOMAIN virt.dirs : virt.dirs[v] = T \cup {t}}

-----------------------------------------------------------------------------
(* Walks from the root: the node a walk is at, the nodes it leaves behind, *)
(* and how it ends: "ok", at a "file" in its way, or "full", when there is *)
(* no id left in Dir, a bound.                                             *)
Start ==
  [at |-> Root, dirs |-> dirs, kids |-> kids, entry |-> entry, made |-> made,
   shared |-> shared, end |-> "ok"]
Along(Op(_, _), w, p) ==
  LET walk[k \in 0..Len(p)] == IF k = 0 THEN w ELSE Op(walk[k - 1], p[k])
  IN walk[Len(p)]

(* An id never handed out before, for the directory n in the one w is at. *)
Fresh(w, n) == {d \in Dir \ w.dirs : PathOf[d] = Append(PathOf[w.at], n)}
NextId(w, n) == CHOOSE d \in Fresh(w, n) : TRUE

(* ensure_real_path_for_tags: into the directory n, up to the file n, or   *)
(* into a directory made in the node the walk is at.                       *)
Make(w, n) ==
  LET d == NextId(w, n)
  IN [w EXCEPT !.at = d, !.dirs = @ \cup {d}, !.kids = Put(@, <<w.at, n>>, d),
               !.made = IF w.at \in @ THEN @ \cup {d} ELSE @]
Ensure(w, n) ==
  IF w.end # "ok" THEN w
  ELSE IF <<w.at, n>> \in DOMAIN w.kids THEN [w EXCEPT !.at = w.kids[<<w.at, n>>]]
  ELSE IF <<w.at, n>> \in DOMAIN w.entry THEN [w EXCEPT !.end = "file"]
  ELSE IF Fresh(w, n) = {} THEN [w EXCEPT !.end = "full"]
  ELSE Make(w, n)
WalkTo(T) == Along(Ensure, Start, Path(T))

(* get_mutable_inode, when self.root is the registry's node: the node of a *)
(* directory is replaced in its parent by a clone under a new id, with the *)
(* same children, and so on down the path of d, if d is found there.  With *)
(* a root of its own it copies what no request of this module sees.        *)
Copied(f, old, new) ==
  [e \in DOMAIN f \cup {<<new, x[2]>> : x \in {y \in DOMAIN f : y[1] = old}} |->
     IF e[1] = new THEN f[<<old, e[2]>>] ELSE f[e]]
Clone(w, n) ==
  LET d == NextId(w, n)
      old == w.kids[<<w.at, n>>]
  IN [w EXCEPT !.at = d, !.dirs = @ \cup {d}, !.entry = Copied(@, old, d),
               !.kids = Put(Copied(@, old, d), <<w.at, n>>, d)]
CloneChild(w, n) ==
  IF <<w.at, n>> \notin DOMAIN w.kids THEN w
  ELSE IF Fresh(w, n) = {} THEN [w EXCEPT !.end = "full"]
  ELSE Clone(w, n)
Find(w, n) ==
  IF <<w.at, n>> \in DOMAIN w.kids THEN [w EXCEPT !.at = w.kids[<<w.at, n>>]] ELSE w
Mutable(v, d) ==
  LET w == [v EXCEPT !.at = Root]
  IN IF d = Root THEN [w EXCEPT !.shared = FALSE]
     ELSE IF w.shared /\ Along(Find, w, PathOf[d]).at = d THEN Along(CloneChild, w, PathOf[d])
     ELSE w

(* The child e[2] leaves the node e[1]: a file, or a directory, which no   *)
(* client can walk to any more, and none of those below it.                *)
LeadsThrough(p, q) == Len(q) <= Len(p) /\ Prefix(p, Len(q)) = q
CutOff(w, e) ==
  {d \in w.made : /\ e \in DOMAIN w.kids /\ e[1] \in w.made
                  /\ LeadsThrough(PathOf[d], Append(PathOf[e[1]], e[2]))}
Without(w, e) ==
  [w EXCEPT !.made = @ \ CutOff(w, e), !.kids = Drop(@, e), !.entry = Drop(@, e)]

(* The files that have a name, and those that lose it with e. *)
Names(w) == {e \in DOMAIN w.entry : e[1] \in w.made}
Lost(w, e) == {w.entry[x] : x \in Names(w) \ Names(Without(w, e))}

(* The nodes after a request, but for the file it puts in. *)
Leaves(w) ==
  /\ w.end # "full"
  /\ dirs' = w.dirs /\ kids' = w.kids /\ made' = w.made /\ shared' = w.shared

TreeInit ==
  /\ Init
  /\ entry = <<>> /\ fname = <<>> /\ ghosts = {}
  /\ dirs = {Root} /\ made = {Root} /\ kids = <<>> /\ shared = TRUE
  /\ virt = Unused
  /\ removing = [name |-> {}, files |-> {}]

(* Requests are served one at a time, and there are ids left. *)
Serve == removing.name = {}
WithinBound == virt'.next <= LastVnode + 1

-----------------------------------------------------------------------------
(* Requests in @tags that only make ids.                                   *)

Lookup(v, n) ==
  LET T == TagsAt(v)
  IN /\ Serve
     /\ \/ LeadsOn(T, n) /\ virt' = GetDir(virt, Entered(T, n))
        \/ \E i \in Shown(T, n) : virt' = GetFile(virt, T, i)
     /\ WithinBound
     /\ UNCHANGED <<vars, entry, fname, nodes, removing, ghosts>>

Readdir(v) ==
  LET T == TagsAt(v)
  IN /\ Serve
     /\ virt' = GetFiles(GetDirs(virt, T, Listing(T)), T, Query(db, T) \cap DOMAIN home)
     /\ WithinBound
     /\ UNCHANGED <<vars, entry, fname, nodes, removing, ghosts>>

(* mkdir in @tags: the id is there also when the real path is not.         *)
MkdirIn(v, n) ==
  LET T == Entered(TagsAt(v), n)
  IN /\ Serve
     /\ n \in Spelling /\ Vacant(TagsAt(v), n)
     /\ virt' = GetDir(virt, T)
     /\ Leaves(WalkTo(T))
     /\ WithinBound
     /\ UNCHANGED <<vars, entry, fname, removing, ghosts>>

-----------------------------------------------------------------------------
(* Files.  The kernel creates only what a lookup did not find.             *)

(* The file i becomes the child n of d in the nodes w, in place of what    *)
(* has the name.                                                           *)
Enter(w, i, d, n) ==
  LET lost == Lost(w, <<d, n>>)
      named == IF d \in w.made THEN {i} ELSE {}
  IN /\ Create(i, d, lost, named)
     /\ Leaves(Without(w, <<d, n>>))
     /\ entry' = Put(w.entry, <<d, n>>, i)
     /\ fname' = Put(fname, i, n)
     /\ ghosts' = (ghosts \cup lost \cup {i}) \ named

Free(d, n) == <<d, n>> \notin DOMAIN kids \cup DOMAIN entry
CreateReal(i, d, n) ==
  /\ Serve
  /\ d \in made /\ Free(d, n)
  /\ Enter(Start, i, d, n)
  /\ UNCHANGED <<virt, removing>>

(* Mutant of CreateIn: the real directory is that of one of the tags. *)
CreateInOneTag(v, i, n) ==
  LET T == TagsAt(v)
      w == Along(Ensure, Start, Prefix(Path(T), 1))
  IN /\ Serve
     /\ v # TagsDir /\ Vacant(T, n)
     /\ w.end = "ok"
     /\ Enter(w, i, w.at, n)
     /\ virt' = GetFile(virt, T, i)
     /\ WithinBound
     /\ UNCHANGED removing

(* create in a directory of @tags.  Nobody looks for the name in the real  *)
(* directory, which may be a clone that clients do not see.                *)
CreateIn(v, i, n) ==
  LET T == TagsAt(v)
      w == WalkTo(T)
  IN /\ Serve
     /\ v # TagsDir /\ Vacant(T, n)
     /\ w.end = "ok"
     /\ Enter(w, i, w.at, n)
     /\ virt' = GetFile(virt, T, i)
     /\ WithinBound
     /\ UNCHANGED removing

(* The same with a file in the way of the real directory. *)
CreateInBlocked(v, n) ==
  /\ Serve
  /\ v # TagsDir /\ Vacant(TagsAt(v), n)
  /\ WalkTo(TagsAt(v)).end = "file"
  /\ Leaves(WalkTo(TagsAt(v)))
  /\ UNCHANGED <<vars, entry, fname, virt, removing, ghosts>>

(* mkdir in the real tree: the clone is of the parent, the new directory   *)
(* is in the node that clients know.                                       *)
MkdirReal(d, n) ==
  LET w == [Mutable(Start, d) EXCEPT !.at = d]
  IN /\ Serve
     /\ d \in made /\ Free(d, n)
     /\ Fresh(w, n) # {}
     /\ Leaves(Make(w, n))
     /\ entry' = w.entry
     /\ UNCHANGED <<vars, fname, virt, removing, ghosts>>

UnlinkReal(d, n) ==
  /\ Serve
  /\ d \in made /\ <<d, n>> \in DOMAIN entry
  /\ Unlink(entry[<<d, n>>], {entry[<<d, n>>]})
  /\ entry' = Drop(entry, <<d, n>>)
  /\ UNCHANGED <<fname, nodes, virt, removing, ghosts>>

(* unlink in a directory of @tags, where one file has the name: its name   *)
(* and parent in the registry say which child goes, a file or a directory. *)
UnlinkIn(v, n) ==
  LET files == Shown(TagsAt(v), n)
  IN /\ Serve
     /\ Cardinality(files) = 1
     /\ \E i \in files :
          LET e == <<home[i], fname[i]>>
          IN /\ ~Free(home[i], fname[i])
             /\ Unlink(i, Lost(Start, e))
             /\ Leaves(Without(Start, e))
             /\ entry' = Drop(entry, e)
             /\ ghosts' = (ghosts \cup Lost(Start, e)) \ {i}
     /\ UNCHANGED <<fname, virt, removing>>

(* The nodes once the parents of a rename are mutable. *)
BothMutable(c, d) == IF c = d THEN Mutable(Start, c) ELSE Mutable(Mutable(Start, c), d)

(* Mutant of RenameReal: the registry's node keeps its name. *)
RenameKeepsName(c, n, d, m) ==
  LET w == BothMutable(c, d)
      over == {entry[e] : e \in {<<d, m>>} \cap DOMAIN entry}
  IN /\ Serve
     /\ <<c, n>> # <<d, m>> /\ c \in made /\ d \in made
     /\ <<c, n>> \in DOMAIN entry /\ <<d, m>> \notin DOMAIN kids
     /\ Rename(entry[<<c, n>>], d, over)
     /\ Leaves(w)
     /\ entry' = Put(Drop(w.entry, <<c, n>>), <<d, m>>, entry[<<c, n>>])
     /\ ghosts' = ghosts \cup over
     /\ UNCHANGED <<fname, virt, removing>>

(* rename of a file in the real tree; the file it replaces keeps its tags, *)
(* and clones of the directories keep the old names.                       *)
RenameReal(c, n, d, m) ==
  LET w == BothMutable(c, d)
      over == {entry[e] : e \in {<<d, m>>} \cap DOMAIN entry}
  IN /\ Serve
     /\ <<c, n>> # <<d, m>> /\ c \in made /\ d \in made
     /\ <<c, n>> \in DOMAIN entry /\ <<d, m>> \notin DOMAIN kids
     /\ Rename(entry[<<c, n>>], d, over)
     /\ Leaves(w)
     /\ entry' = Put(Drop(w.entry, <<c, n>>), <<d, m>>, entry[<<c, n>>])
     /\ fname' = Put(fname, entry[<<c, n>>], m)
     /\ ghosts' = ghosts \cup over
     /\ UNCHANGED <<virt, removing>>

(* write, through the file or a virtual id, also of an unlinked file. *)
WriteFile(i) ==
  /\ Serve
  /\ Write(i)
  /\ ghosts' = ghosts \cup ({i} \ live)
  /\ UNCHANGED <<entry, fname, nodes, virt, removing>>

(* The control file's path is resolved through the dirents; the commands   *)
(* take any id, while nothing is mounted.                                  *)
SetTagsOf(i, T) ==
  /\ Serve
  /\ i \in live \/ (DOMAIN home = live /\ virt = Unused)
  /\ SetByCommand(i, T)
  /\ UNCHANGED tree

-----------------------------------------------------------------------------
(* rmdir in @tags takes all tags from each of the files it lists first, an *)
(* error in one of them does not stop it, and then it forgets the          *)
(* directory of that name, if the name is a normalized tag.                *)
BeginRmdir(n) ==
  /\ Serve
  /\ n \in Spelling /\ {Norm[n]} \in DOMAIN virt.dirIds
  /\ removing' = [name |-> {n}, files |-> Query(db, {Norm[n]})]
  /\ UNCHANGED <<vars, entry, fname, nodes, virt, ghosts>>

TakeTags(n, i) ==
  /\ n \in removing.name /\ i \in removing.files
  /\ RemoveTagDir(Norm[n], i)
  /\ removing' = [removing EXCEPT !.files = @ \ {i}]
  /\ UNCHANGED <<entry, fname, nodes, virt, ghosts>>

(* Mutant of EndRmdir: the directory is not forgotten. *)
EndRmdirKept(n) ==
  /\ n \in removing.name /\ removing.files = {}
  /\ removing' = [name |-> {}, files |-> {}]
  /\ UNCHANGED <<vars, entry, fname, nodes, virt, ghosts>>

EndRmdir(n) ==
  /\ n \in removing.name /\ removing.files = {}
  /\ virt' = IF {n} \in DOMAIN virt.dirIds
             THEN [virt EXCEPT !.dirs = Drop(@, virt.dirIds[{n}]), !.dirIds = Drop(@, {n})]
             ELSE virt
  /\ removing' = [name |-> {}, files |-> {}]
  /\ UNCHANGED <<vars, entry, fname, nodes, ghosts>>

(* The process dies, or unmounts, and mounts again: of the nodes those     *)
(* come back that the saved names lead to, with the ids in them.           *)
At(p) == {d \in made : PathOf[d] = p}
Remount ==
  /\ Crash
  /\ fname' = [i \in live |-> fname[i]]
  /\ dirs' = made /\ shared' = TRUE
  /\ kids' = [e \in {x \in made \X Spelling : At(Append(PathOf[x[1]], x[2])) # {}} |->
                CHOOSE d \in At(Append(PathOf[e[1]], e[2])) : TRUE]
  /\ entry' = [e \in Names(Start) |-> entry[e]]
  /\ virt' = Unused
  /\ removing' = [name |-> {}, files |-> {}]
  /\ ghosts' = ghosts \cap live
  /\ UNCHANGED made

-----------------------------------------------------------------------------
InTagDir(v) ==
  \/ Readdir(v)
  \/ \E n \in FileName \cup Spelling : Lookup(v, n)
  \/ \E n \in Spelling : MkdirIn(v, n)
  \/ \E n \in FileName :
       CreateInBlocked(v, n) \/ UnlinkIn(v, n) \/ \E i \in Ino : CreateIn(v, i, n)

InRealDir(d) ==
  \/ \E n \in FileName, i \in Ino : CreateReal(i, d, n)
  \/ \E n \in Spelling : MkdirReal(d, n)
  \/ \E n \in FileName : UnlinkReal(d, n) \/ \E c \in made, m \in FileName : RenameReal(d, n, c, m)

TreeNext ==
  \/ \E v \in TagDirs : InTagDir(v)
  \/ \E d \in made : InRealDir(d)
  \/ \E i \in Ino : WriteFile(i) \/ \E T \in SUBSET Tag : SetTagsOf(i, T)
  \/ \E n \in Spelling : BeginRmdir(n) \/ EndRmdir(n) \/ \E i \in Ino : TakeTags(n, i)
  \/ Remount

TreeSpec == TreeInit /\ [][TreeNext]_treeVars

-----------------------------------------------------------------------------
(* Types; each live file has one name, the one its node in the registry    *)
(* has; the directories hang together, no two at one path; a child stands  *)
(* where its node says, and is a file or a directory.                      *)
TreeTypeOK ==
  /\ made \subseteq dirs /\ dirs \subseteq Dir /\ Root \in made
  /\ IsMap(kids, dirs \X Spelling, dirs) /\ IsMap(entry, dirs \X FileName, Ino)
  /\ DOMAIN kids \cap DOMAIN entry = {}
  /\ \A e \in DOMAIN kids : PathOf[kids[e]] = Append(PathOf[e[1]], e[2])
  /\ \A d \in made \ {Root} : \E c \in made, n \in Spelling : PathOf[d] = Append(PathOf[c], n)
  /\ \A c, d \in made : PathOf[c] = PathOf[d] => c = d
  /\ \A c \in made, n \in Spelling :
       <<c, n>> \in DOMAIN kids <=> \E d \in made : PathOf[d] = Append(PathOf[c], n)
  /\ fname \in [DOMAIN home -> FileName]
  /\ live = {entry[e] : e \in Names(Start)}
  /\ \A e \in Names(Start) : e = <<home[entry[e]], fname[entry[e]]>>
  /\ IsMap(virt.dirs, FirstVnode..LastVnode, SUBSET Tag)
  /\ IsMap(virt.files, FirstVnode..LastVnode, Ino)
  /\ virt.next \in FirstVnode..(LastVnode + 1)
  /\ removing.name \subseteq Spelling /\ removing.files \subseteq Ino
  /\ ghosts \subseteq Ino /\ shared \in BOOLEAN

(* The maps from virtual ids and those to them agree: a directory has one  *)
(* id and an id one directory, a file shown in a directory has one id that *)
(* leads to it, and no id is both, whatever was looked up, listed, made,   *)
(* created or removed in between (get_or_create_tag_virtual_dir and _file, *)
(* rmdir).                                                                 *)
VirtualIdsAgree ==
  LET used == DOMAIN virt.dirs \cup DOMAIN virt.files
  IN /\ \A T \in DOMAIN virt.dirIds :
          virt.dirIds[T] \in DOMAIN virt.dirs /\ virt.dirs[virt.dirIds[T]] = T
     /\ \A v \in DOMAIN virt.dirs :
          virt.dirs[v] \in DOMAIN virt.dirIds /\ virt.dirIds[virt.dirs[v]] = v
     /\ \A k \in DOMAIN virt.fileIds :
          virt.fileIds[k] \in DOMAIN virt.files /\ virt.files[virt.fileIds[k]] = k[2]
     /\ \A f \in DOMAIN virt.files :
          Cardinality({k \in DOMAIN virt.fileIds : virt.fileIds[k] = f}) = 1
     /\ DOMAIN virt.dirs \cap DOMAIN virt.files = {}
     /\ \A x \in used : x < virt.next

(* The file a virtual id leads to, and the tags of a virtual directory, do *)
(* not change while mounted, and an id is not given again: the kernel may  *)
(* hold it.                                                                *)
VirtualIdsKept ==
  [][ ~Remount =>
        /\ \A f \in DOMAIN virt.files :
             f \in DOMAIN virt'.files /\ virt'.files[f] = virt.files[f]
        /\ \A v \in DOMAIN virt.dirs \cap DOMAIN virt'.dirs : virt'.dirs[v] = virt.dirs[v]
        /\ \A x \in DOMAIN virt'.dirs \ DOMAIN virt.dirs : x >= virt.next ]_treeVars

(* A named file that has tags is shown, under its name, in the directory   *)
(* of any of them, unless a directory there has the name: the rows, the    *)
(* index and the registry, which are written by different requests, agree. *)
(* A file that has no name, ghost or not, may be shown too: OnlyGhosts.    *)
TaggedShown ==
  \A e \in Names(Start) : calls[entry[e]] = "done" =>
    \A T \in (SUBSET TagsOf(db, entry[e])) \ {{}} :
      entry[e] \in Shown(T, e[2]) \/ LeadsOn(T, e[2])

(* What a directory of @tags shows is a file that has its name, but for    *)
(* four kinds of ghosts: a file another was renamed over; one whose name,  *)
(* or a directory it was in, was taken by a create or an unlink in @tags;  *)
(* one written after its unlink; and one created through @tags in a clone  *)
(* that a rename or mkdir left behind, or below it.                        *)
OnlyGhosts ==
  \A v \in TagDirs, n \in FileName : \A i \in Shown(TagsAt(v), n) \ ghosts :
    calls[i] = "done" => i \in live

(* A request in @tags takes a name only from a file it is about: an unlink *)
(* from the file shown, or if that is a ghost from the one that has its    *)
(* name now; a create from a file without the tags of the directory, which *)
(* it could not see.  Where a directory has got the name, the files in it  *)
(* lose theirs.                                                            *)
NamesKept ==
  [][ \A j \in live \ live', v \in TagDirs, n \in FileName, i \in Ino :
        (\A k \in Ino : calls[k] = "done") =>
          /\ UnlinkIn(v, n) =>
               \/ Shown(TagsAt(v), n) = {j}
               \/ \E g \in Shown(TagsAt(v), n) \cap ghosts :
                    home[j] \in made \ made' \/ <<home[j], fname[j]>> = <<home[g], fname[g]>>
          /\ CreateIn(v, i, n) =>
               home[j] \in made \ made' \/ ~(TagsAt(v) \subseteq TagsOf(db, j)) ]_treeVars

(* A file created in a directory of @tags is there afterwards, alone under *)
(* its name, with a virtual id: the real path made for the tags gives the  *)
(* file all of them.                                                       *)
CreatedIsShown ==
  [][ \A i \in DOMAIN home' \ DOMAIN home, v \in TagDirs, n \in FileName :
        CreateIn(v, i, n) /\ calls' = calls /\ calls[i] = "done" =>
          /\ Named(TagsAt(v), n)' = {i}
          /\ virt'.files[virt'.fileIds[<<TagsAt(v), i>>]] = i ]_treeVars

(* A tag directory removed by its normalized name is not listed any more,  *)
(* and no file has the tag.                                                *)
RemovedTagGone ==
  [][ \A t \in Tag :
        EndRmdir(t) /\ (\A i \in Ino : calls[i] = "done") =>
          t \notin Listing({})' /\ \A i \in Ino : t \notin TagsOf(db, i)' ]_treeVars
=============================================================================
