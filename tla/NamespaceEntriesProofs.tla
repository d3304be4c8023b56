----------------------- MODULE NamespaceEntriesProofs -----------------------
(***************************************************************************)
(* Proof that the rows of a directory are the entries clients see in it,   *)
(* but for the entries of requests that failed (EntriesDurable), for every *)
(* set of names and contents and every bound.                              *)
(***************************************************************************)
EXTENDS NamespaceProofs

-----------------------------------------------------------------------------
(* What the rows of a directory list.                                      *)

LEMMA ListedSame ==
  ASSUME NEW d, NEW e, e.dirent = d.dirent, NEW r
  PROVE  Listed(e, r) = Listed(d, r)
BY DEF Listed

LEMMA ListedAt ==
  ASSUME NEW d, NEW r, NEW x
  PROVE  /\ x \in DOMAIN Listed(d, r) <=> x \in Name /\ <<r, x>> \in DOMAIN d.dirent
         /\ x \in DOMAIN Listed(d, r) => Listed(d, r)[x] = d.dirent[<<r, x>>]
BY DEF Listed

(* The row x of L is the row x of M. *)
SameRow(L, M, x) ==
  (x \in DOMAIN M <=> x \in DOMAIN L) /\ (x \in DOMAIN L => M[x] = L[x])

(* Only the row n of p differs between d and e. *)
RowsBut(d, e, p, n) ==
  \A r : \A x \in Name : (r = p /\ x = n) \/ SameRow(Listed(d, r), Listed(e, r), x)

LEMMA RowsButSame ==
  ASSUME NEW d, NEW e, e.dirent = d.dirent, NEW p, NEW n
  PROVE  RowsBut(d, e, p, n)
BY ListedSame DEF RowsBut, SameRow

LEMMA RowSaved ==
  ASSUME NEW d, NEW p, NEW n, NEW i, NEW e, e = SaveDirent(d, p, n, i)
  PROVE  RowsBut(d, e, p, n) /\ (n \in Name => n \in DOMAIN Listed(e, p) /\ Listed(e, p)[n] = i)
<1>1. e.dirent = Put(d.dirent, <<p, n>>, i)
  BY DEF SaveDirent, Rows
<1>2. ASSUME NEW r, NEW x \in Name, ~ (r = p /\ x = n)
      PROVE  SameRow(Listed(d, r), Listed(e, r), x)
  <2>1. <<r, x>> # <<p, n>>
    BY <1>2
  <2>2. /\ <<r, x>> \in DOMAIN e.dirent <=> <<r, x>> \in DOMAIN d.dirent
        /\ <<r, x>> \in DOMAIN d.dirent => e.dirent[<<r, x>>] = d.dirent[<<r, x>>]
    BY <1>1, <2>1 DEF Put
  <2> QED BY <2>2, ListedAt DEF SameRow
<1>3. n \in Name => n \in DOMAIN Listed(e, p) /\ Listed(e, p)[n] = i
  <2>1. <<p, n>> \in DOMAIN e.dirent /\ e.dirent[<<p, n>>] = i
    BY <1>1 DEF Put
  <2> QED BY <2>1, ListedAt
<1> QED BY <1>2, <1>3 DEF RowsBut

LEMMA RowDeleted ==
  ASSUME NEW d, NEW p, NEW n \in Name, NEW e, e = DeleteDirent(d, p, n)
  PROVE  RowsBut(d, e, p, n) /\ n \notin DOMAIN Listed(e, p)
<1>1. e.dirent = Drop(d.dirent, <<p, n>>)
  BY DEF DeleteDirent, Rows
<1>2. ASSUME NEW r, NEW x \in Name, ~ (r = p /\ x = n)
      PROVE  SameRow(Listed(d, r), Listed(e, r), x)
  <2>1. <<r, x>> # <<p, n>>
    BY <1>2
  <2>2. /\ <<r, x>> \in DOMAIN e.dirent <=> <<r, x>> \in DOMAIN d.dirent
        /\ <<r, x>> \in DOMAIN d.dirent => e.dirent[<<r, x>>] = d.dirent[<<r, x>>]
    BY <1>1, <2>1 DEF Drop
  <2> QED BY <2>2, ListedAt DEF SameRow
<1>3. n \notin DOMAIN Listed(e, p)
  <2>1. <<p, n>> \notin DOMAIN e.dirent
    BY <1>1 DEF Drop
  <2> QED BY <2>1, ListedAt
<1> QED BY <1>2, <1>3 DEF RowsBut

(* An id without metadata has no rows of its own. *)
LEMMA NothingListed ==
  ASSUME NEW d, RowsHold(d), NEW i, i \notin DOMAIN d.meta, i # SnapshotDir
  PROVE  DOMAIN Listed(d, i) = {}
<1>1. ASSUME NEW x \in DOMAIN Listed(d, i) PROVE FALSE
  <2>1. <<i, x>> \in DOMAIN d.dirent
    BY ListedAt
  <2>2. <<i, x>> \in (DOMAIN d.meta \cup {SnapshotDir}) \X Label
    BY <2>1 DEF RowsHold, IsMap
  <2> QED BY <2>2
<1> QED BY <1>1

-----------------------------------------------------------------------------
(* Names tell the kinds apart, in the rows and in memory.                  *)

RowKinds(d) ==
  \A p \in DOMAIN d.meta : \A n \in DOMAIN Listed(d, p) :
    d.meta[Listed(d, p)[n]] => n \in DirName
MemoryKinds(d, nd) ==
  /\ \A i \in DOMAIN nd : i \in DOMAIN d.meta => d.meta[i] = nd[i].dir
  /\ \A i \in DOMAIN nd : \A n \in DOMAIN nd[i].kids : nd[nd[i].kids[n]].dir => n \in DirName

(* No metadata of d changes in e. *)
KeepsMeta(d, e) == \A j \in DOMAIN d.meta : j \in DOMAIN e.meta /\ e.meta[j] = d.meta[j]

(* Each row of e was in d or tells its kind. *)
LEMMA RowKindsKept ==
  ASSUME NEW d, NEW e, RowsHold(d), RowsHold(e), RowKinds(d), KeepsMeta(d, e), NEW p, NEW n,
         RowsBut(d, e, p, n),
         p \in DOMAIN e.meta /\ n \in DOMAIN Listed(e, p) /\ e.meta[Listed(e, p)[n]] => n \in DirName
  PROVE  RowKinds(e)
<1>1. SUFFICES ASSUME NEW r \in DOMAIN e.meta, NEW x \in DOMAIN Listed(e, r),
                      e.meta[Listed(e, r)[x]], ~ (r = p /\ x = n)
               PROVE  x \in DirName
  BY DEF RowKinds
<1>2. x \in Name
  BY ListedAt
<1>3. SameRow(Listed(d, r), Listed(e, r), x)
  BY <1>1, <1>2 DEF RowsBut
<1>4. x \in DOMAIN Listed(d, r) /\ Listed(e, r)[x] = Listed(d, r)[x]
  BY <1>3 DEF SameRow
<1>5. r \in DOMAIN d.meta
  <2>1. r \in Ino
    BY DEF RowsHold, IsMap
  <2>2. r # SnapshotDir
    BY <2>1, BoundAssumption DEF Ino, SnapshotDir, Root, FirstIno
  <2> QED BY <1>4, <2>2, NothingListed
<1>6. Listed(d, r)[x] \in DOMAIN d.meta
  BY <1>4, ListedMap DEF IsMap
<1>7. d.meta[Listed(d, r)[x]]
  BY <1>1, <1>4, <1>6 DEF KeepsMeta
<1> QED BY <1>4, <1>5, <1>7 DEF RowKinds

(* Rows that keep their entries. *)
LEMMA RowKindsSame ==
  ASSUME NEW d, NEW e, RowsHold(d), RowsHold(e), RowKinds(d), KeepsMeta(d, e), e.dirent = d.dirent
  PROVE  RowKinds(e)
<1>1. RowsBut(d, e, SnapshotDir, SnapshotDir)
  BY RowsButSame
<1>2. SnapshotDir \notin DOMAIN e.meta
  <2>1. DOMAIN e.meta \subseteq Ino
    BY DEF RowsHold, IsMap
  <2> QED BY <2>1, BoundAssumption DEF Ino, SnapshotDir, Root, FirstIno
<1> QED BY <1>1, <1>2, RowKindsKept

-----------------------------------------------------------------------------
(* Where the rows and the memory agree.                                    *)

Agree(L, nd, r, x) ==
  /\ x \in DOMAIN L <=> x \in DOMAIN nd[r].kids
  /\ x \in DOMAIN L => L[x] \in {nd[nd[r].kids[x]].ino, nd[r].kids[x]}

(* Clients see the same under x in r; what they see is what they saw, or   *)
(* has taken the place of what had the id they saw.                        *)
SameEntry(nd, ne, r, x) ==
  /\ x \in DOMAIN ne[r].kids <=> x \in DOMAIN nd[r].kids
  /\ x \in DOMAIN nd[r].kids =>
       /\ ne[ne[r].kids[x]].ino = nd[nd[r].kids[x]].ino
       /\ ne[r].kids[x] = nd[r].kids[x] \/ nd[nd[r].kids[x]].ino = nd[r].kids[x]

LEMMA StillAgrees ==
  ASSUME NEW L, NEW M, NEW nd, NEW ne, NEW r, NEW x,
         Agree(L, nd, r, x), SameRow(L, M, x), SameEntry(nd, ne, r, x)
  PROVE  Agree(M, ne, r, x)
BY DEF Agree, SameRow, SameEntry

LEMMA SameEntryOn ==
  ASSUME NEW nd, NEW ne, NEW nf, NEW r, NEW x,
         SameEntry(nd, ne, r, x), SameEntry(ne, nf, r, x), Keeps(nd, ne),
         x \in DOMAIN nd[r].kids => nd[r].kids[x] \in DOMAIN nd
  PROVE  SameEntry(nd, nf, r, x)
BY DEF SameEntry, Keeps

(* Only the entry n of p differs between nd and ne. *)
MemoryBut(nd, ne, p, n) ==
  \A r \in DOMAIN nd : \A x \in Name : (r = p /\ x = n) \/ SameEntry(nd, ne, r, x)

LEMMA AttachedBut ==
  ASSUME NEW d, NEW nd, NEW tp, NEW nx, MemoryHolds(d, nd, tp, nx),
         NEW p \in DOMAIN nd, NEW n \in Name, NEW c \in DOMAIN nd,
         NEW ne, ne = Attach(nd, p, n, c)
  PROVE  /\ MemoryBut(nd, ne, p, n) /\ n \in DOMAIN ne[p].kids /\ ne[p].kids[n] = c
<1>1. /\ MemoryHolds(d, ne, tp, nx) /\ Keeps(nd, ne)
      /\ DOMAIN ne = DOMAIN nd /\ ne[p].kids = Put(nd[p].kids, n, c)
      /\ \A i \in DOMAIN nd \ {p} : ne[i] = nd[i]
  BY Attaches
<1>2. n \in DOMAIN ne[p].kids /\ ne[p].kids[n] = c
  BY <1>1 DEF Put
<1>3. ASSUME NEW r \in DOMAIN nd, NEW x \in Name, ~ (r = p /\ x = n)
      PROVE  SameEntry(nd, ne, r, x)
  <2>1. /\ x \in DOMAIN ne[r].kids <=> x \in DOMAIN nd[r].kids
        /\ x \in DOMAIN nd[r].kids => ne[r].kids[x] = nd[r].kids[x]
    BY <1>1, <1>3 DEF Put
  <2>2. x \in DOMAIN nd[r].kids => nd[r].kids[x] \in DOMAIN nd
    BY DEF MemoryHolds, NodeHolds, IsMap
  <2> QED BY <1>1, <2>1, <2>2 DEF SameEntry, Keeps
<1> QED BY <1>2, <1>3 DEF MemoryBut

LEMMA DetachedBut ==
  ASSUME NEW d, NEW nd, NEW tp, NEW nx, MemoryHolds(d, nd, tp, nx),
         NEW p \in DOMAIN nd, NEW n,
         NEW ne, ne = Detach(nd, p, n)
  PROVE  /\ MemoryBut(nd, ne, p, n) /\ n \notin DOMAIN ne[p].kids
<1>1. /\ MemoryHolds(d, ne, tp, nx) /\ Keeps(nd, ne)
      /\ DOMAIN ne = DOMAIN nd /\ ne[p].kids = Drop(nd[p].kids, n)
      /\ \A i \in DOMAIN nd \ {p} : ne[i] = nd[i]
  BY Detaches
<1>2. n \notin DOMAIN ne[p].kids
  BY <1>1 DEF Drop
<1>3. ASSUME NEW r \in DOMAIN nd, NEW x \in Name, ~ (r = p /\ x = n)
      PROVE  SameEntry(nd, ne, r, x)
  <2>1. /\ x \in DOMAIN ne[r].kids <=> x \in DOMAIN nd[r].kids
        /\ x \in DOMAIN nd[r].kids => ne[r].kids[x] = nd[r].kids[x]
    BY <1>1, <1>3 DEF Drop
  <2>2. x \in DOMAIN nd[r].kids => nd[r].kids[x] \in DOMAIN nd
    BY DEF MemoryHolds, NodeHolds, IsMap
  <2> QED BY <1>1, <2>1, <2>2 DEF SameEntry, Keeps
<1> QED BY <1>2, <1>3 DEF MemoryBut

-----------------------------------------------------------------------------
(* The directories clients work in.                                        *)

DirsIn(nd) ==
  {Root} \cup {i \in {nd[nd[Root].kids[n]].ino : n \in DOMAIN nd[Root].kids} : nd[i].dir}

LEMMA DirsAre == Dirs = DirsIn(node) /\ Dirs' = DirsIn(node')
BY DEF Dirs, DirsIn, Child, Names

(* Each directory was there before, but for what the root now calls n.     *)
LEMMA DirsStay ==
  ASSUME NEW d, NEW nd, NEW ne, NEW tp, NEW nx, MemoryHolds(d, nd, tp, nx), Keeps(nd, ne),
         NEW p, NEW n, MemoryBut(nd, ne, p, n), DOMAIN ne[Root].kids \subseteq Name,
         NEW r \in DirsIn(ne)
  PROVE  \/ r \in DirsIn(nd)
         \/ /\ p = Root /\ n \in DOMAIN ne[Root].kids /\ ne[r].dir
            /\ r = ne[ne[Root].kids[n]].ino
<1>1. CASE r = Root
  BY <1>1 DEF DirsIn
<1>2. CASE r # Root
  <2>1. PICK x \in DOMAIN ne[Root].kids : r = ne[ne[Root].kids[x]].ino /\ ne[r].dir
    BY <1>2 DEF DirsIn
  <2>2. CASE p = Root /\ x = n
    BY <2>1, <2>2
  <2>3. CASE ~ (p = Root /\ x = n)
    <3>1. Root \in DOMAIN nd /\ x \in Name
      BY <2>1 DEF MemoryHolds
    <3>2. SameEntry(nd, ne, Root, x)
      BY <2>3, <3>1 DEF MemoryBut
    <3>3. x \in DOMAIN nd[Root].kids /\ r = nd[nd[Root].kids[x]].ino
      BY <2>1, <3>2 DEF SameEntry
    <3>4. nd[Root].kids[x] \in DOMAIN nd
      BY <3>1, <3>3 DEF MemoryHolds, NodeHolds, IsMap
    <3>5. r \in DOMAIN nd
      BY <3>3, <3>4 DEF MemoryHolds, NodeHolds, KernelKnows
    <3>6. nd[r].dir
      BY <2>1, <3>5 DEF Keeps
    <3>7. r \in DirsIn(nd)
      BY <3>3, <3>6 DEF DirsIn
    <3> QED BY <3>7
  <2> QED BY <2>2, <2>3
<1> QED BY <1>1, <1>2

LEMMA DirsRegistered ==
  ASSUME NEW d, NEW nd, NEW tp, NEW nx, MemoryHolds(d, nd, tp, nx), NEW r \in DirsIn(nd)
  PROVE  r \in DOMAIN nd /\ nd[r].ino = r
<1>1. Root \in DOMAIN nd /\ nd[Root].ino = Root
  BY DEF MemoryHolds
<1>2. CASE r = Root
  BY <1>1, <1>2
<1>3. CASE r # Root
  <2>1. PICK x \in DOMAIN nd[Root].kids : r = nd[nd[Root].kids[x]].ino
    BY <1>3 DEF DirsIn
  <2>2. nd[Root].kids[x] \in DOMAIN nd
    BY <1>1 DEF MemoryHolds, NodeHolds, IsMap
  <2> QED BY <2>1, <2>2 DEF MemoryHolds, NodeHolds, KernelKnows
<1> QED BY <1>2, <1>3

-----------------------------------------------------------------------------
(* What a step may do to the entries.                                      *)

(* x in r is one of the entries E. *)
In(E, r, x) == <<r, x>> \in E

LEMMA InAre ==
  ASSUME NEW r, NEW x
  PROVE  /\ ~In({}, r, x)
         /\ \A p, n : In({<<p, n>>}, r, x) <=> r = p /\ x = n
         /\ \A p, n, q, m : In({<<p, n>>, <<q, m>>}, r, x) <=> (r = p /\ x = n) \/ (r = q /\ x = m)
         /\ x \in Name => (In(RootEntries, r, x) <=> r = Root)
BY DEF In, RootEntries

(* From d and nd to e and ne the directories get no entry in which rows    *)
(* and memory differ, if they did not, but those in E; where they still    *)
(* differ the name is not given or taken away.                             *)
Only(d, nd, e, ne, E) ==
  \A r \in DirsIn(ne) : \A x \in Name :
    \/ In(E, r, x)
    \/ Agree(Listed(e, r), ne, r, x)
    \/ /\ r \in DirsIn(nd) /\ ~Agree(Listed(d, r), nd, r, x)
       /\ x \in DOMAIN ne[r].kids <=> x \in DOMAIN nd[r].kids

LEMMA OnlyThese ==
  ASSUME NEW d, NEW nd, NEW e, NEW ne, NEW E,
         \A r \in DirsIn(ne) : \A x \in Name :
           \/ In(E, r, x)
           \/ Agree(Listed(e, r), ne, r, x)
           \/ /\ r \in DirsIn(nd) /\ SameRow(Listed(d, r), Listed(e, r), x)
              /\ SameEntry(nd, ne, r, x)
  PROVE  Only(d, nd, e, ne, E)
BY StillAgrees DEF Only, SameEntry

(* The entries that differ are those in which rows and memory disagree. *)
LEMMA DifferingAre ==
  /\ Differing = {e \in Dirs \X Name : ~Agree(Listed(db, e[1]), node, e[1], e[2])}
  /\ Differing' = {e \in Dirs' \X Name : ~Agree(Listed(db', e[1]), node', e[1], e[2])}
BY DEF Differing, Agree, Child, Names

LEMMA EntriesKept ==
  ASSUME Differing \subseteq torn, NEW E, Only(db, node, db', node', E),
         torn' = (torn \cup E) \cap Differing'
  PROVE  Differing' \subseteq torn'
<1> SUFFICES ASSUME NEW z \in Differing', z \notin torn PROVE z \in E
  OBVIOUS
<1>1. PICK r \in DirsIn(node'), x \in Name :
        z = <<r, x>> /\ ~Agree(Listed(db', r), node', r, x)
  BY DifferingAre, DirsAre
<1>2. In(E, r, x) \/ (r \in DirsIn(node) /\ ~Agree(Listed(db, r), node, r, x))
  BY <1>1 DEF Only
<1>3. CASE r \in DirsIn(node) /\ ~Agree(Listed(db, r), node, r, x)
  <2>1. <<r, x>> \in Differing
    BY <1>3, DifferingAre, DirsAre
  <2> QED BY <1>1, <2>1
<1> QED BY <1>1, <1>2, <1>3 DEF In

-----------------------------------------------------------------------------
(* The invariant, as long as no id was handed out twice.                   *)

(* What a task clones keeps its kind; a snapshot's clones are not          *)
(* registered, and in a restore nothing has the id of something else.      *)
JobKinds(d, nd, j) ==
  j # Idle =>
    /\ \A t \in j.todo :
         /\ t.parent # SnapshotDir /\ d.meta[t.src] => t.name \in DirName
         /\ j.kind = "snapshot" => t.parent \notin DOMAIN nd
    /\ j.kind = "restore" => \A i \in DOMAIN nd : nd[i].ino = i

(* What is restored is there. *)
JobNames ==
  job # Idle => /\ job.then \subseteq DOMAIN frozen
                /\ job.kind = "clear" => job.name \in DOMAIN frozen

Kinds == IInv /\ RowKinds(db) /\ MemoryKinds(db, node) /\ JobKinds(db, node, job) /\ JobNames

(* What every step that is about the entries E leaves. *)
After(E) ==
  /\ RowKinds(db') /\ MemoryKinds(db', node') /\ JobKinds(db', node', job')
  /\ Only(db, node, db', node', E)

LEMMA MountAfter ==
  ASSUME NEW d, RowsHold(d), RowKinds(d), Mount(d), IInv'
  PROVE  After({})
<1> DEFINE e == SaveInode(d, Root, TRUE)
           dirs == {i \in DOMAIN e.meta : e.meta[i]}
           reached == Reached(e, Root, dirs)
           live == reached \cap DOMAIN e.meta
           entries(i) == {n \in DOMAIN Listed(e, i) : i \in dirs /\ Listed(e, i)[n] \in live}
           kids(i) == [n \in entries(i) |-> Listed(e, i)[n]]
           kept == {s \in DOMAIN e.snap : Whole(e, e.snap[s])}
<1>1. /\ db' = Rows(e.meta, e.dirent, e.recipe, [s \in kept |-> e.snap[s]])
      /\ node' = [i \in live |-> Node(i, e.meta[i], kids(i))]
      /\ job' = Idle
  BY DEF Mount
<1>2. RowsHold(e) /\ Knows(d, e, Root) /\ e.meta[Root] = TRUE /\ e.dirent = d.dirent
  <2>1. Root \in Ino /\ e = SaveInode(d, Root, TRUE)
    BY DEF Ino
  <2> HIDE DEF e
  <2>2. RowsHold(e) /\ Knows(d, e, Root) /\ e.meta[Root] = TRUE
    BY <2>1, InodeSaved
  <2>3. e.dirent = d.dirent
    BY <2>1 DEF SaveInode, Rows
  <2> QED BY <2>2, <2>3
<1> HIDE DEF e
<1>3. db'.meta = e.meta /\ db'.dirent = e.dirent
  BY <1>1 DEF Rows
<1>4. RowKinds(e)
  <2>1. KeepsMeta(d, e)
    BY <1>2 DEF KeepsMeta, Knows, RowsHold, IsMap
  <2> QED BY <1>2, <2>1, RowKindsSame
<1>5. RowKinds(db')
  BY <1>3, <1>4, ListedSame DEF RowKinds
<1>6. IsFiniteSet(DOMAIN e.dirent)
  BY <1>2 DEF RowsHold
<1>7. Entered(e, reached \cap dirs) \subseteq reached
  BY <1>6, ReachedClosed
<1> HIDE DEF reached
<1>8. DOMAIN node' = live
  BY <1>1
<1>9. ASSUME NEW i \in live
      PROVE  node'[i].ino = i /\ node'[i].dir = e.meta[i] /\ node'[i].kids = kids(i)
  BY <1>1 DEF Node
<1>10. ASSUME NEW i \in live, i \in dirs
       PROVE  entries(i) = DOMAIN Listed(e, i)
  <2>1. ASSUME NEW n \in DOMAIN Listed(e, i) PROVE Listed(e, i)[n] \in live
    <3>1. <<i, n>> \in DOMAIN e.dirent /\ Listed(e, i)[n] = e.dirent[<<i, n>>]
      BY ListedAt
    <3>2. e.dirent[<<i, n>>] \in Entered(e, reached \cap dirs)
      BY <1>10, <3>1 DEF Entered
    <3>3. e.dirent[<<i, n>>] \in DOMAIN e.meta
      BY <1>2, <3>1 DEF RowsHold, IsMap
    <3> QED BY <1>7, <3>1, <3>2, <3>3
  <2> QED BY <1>10, <2>1
<1>11. MemoryKinds(db', node')
  <2>1. ASSUME NEW i \in live, NEW n \in DOMAIN node'[i].kids, node'[node'[i].kids[n]].dir
        PROVE  n \in DirName
    <3>1. n \in entries(i) /\ node'[i].kids[n] = Listed(e, i)[n]
      <4>1. node'[i].kids = kids(i)
        BY <1>9
      <4>2. DOMAIN kids(i) = entries(i)
        OBVIOUS
      <4> QED BY <4>1, <4>2
    <3>2. Listed(e, i)[n] \in live /\ i \in DOMAIN e.meta /\ n \in DOMAIN Listed(e, i)
      BY <3>1
    <3>3. e.meta[Listed(e, i)[n]]
      BY <1>9, <2>1, <3>1, <3>2
    <3> QED BY <1>4, <3>2, <3>3 DEF RowKinds
  <2>2. \A i \in DOMAIN node' : i \in DOMAIN db'.meta => db'.meta[i] = node'[i].dir
    BY <1>3, <1>8, <1>9
  <2> QED BY <1>8, <2>1, <2>2 DEF MemoryKinds
<1>12. ASSUME NEW r \in DirsIn(node'), NEW x \in Name
       PROVE  Agree(Listed(db', r), node', r, x)
  <2>1. MemoryHolds(db', node', top', next')
    BY DEF IInv
  <2>2. r \in live
    BY <1>8, <2>1, DirsRegistered
  <2>3. r \in dirs
    <3>1. CASE r = Root
      BY <1>2, <2>2, <3>1
    <3>2. CASE r # Root
      BY <1>9, <2>2, <3>2 DEF DirsIn
    <3> QED BY <3>1, <3>2
  <2>4. node'[r].kids = kids(r) /\ entries(r) = DOMAIN Listed(e, r)
    BY <1>9, <1>10, <2>2, <2>3
  <2>5. Listed(db', r) = Listed(e, r)
    BY <1>3, ListedSame
  <2> QED BY <2>4, <2>5 DEF Agree
<1> QED BY <1>1, <1>5, <1>11, <1>12 DEF After, JobKinds, Only

LEMMA CutShortAfter ==
  ASSUME NEW trees, CutShort(trees),
         \A k \in 1..(Len(trees) - 1) : RowsHold(trees[k]) /\ RowKinds(trees[k]), IInv'
  PROVE  After({})
<1>1. PICK k \in 1..(Len(trees) - 1) : Mount(trees[k])
  BY DEF CutShort
<1>2. RowsHold(trees[k]) /\ RowKinds(trees[k])
  OBVIOUS
<1> QED BY <1>1, <1>2, MountAfter
-----------------------------------------------------------------------------
(* Rows and memory to which i, which had no metadata, is added.            *)

(* The rows d and more metadata, and another row n of p. *)
Grown(d, e, p, n, i) ==
  /\ RowKinds(e) /\ KeepsMeta(d, e) /\ DOMAIN e.meta \subseteq DOMAIN d.meta \cup {i}
  /\ RowsBut(d, e, p, n) /\ DOMAIN Listed(e, i) = {}
Named(e, p, n, i) == n \in DOMAIN Listed(e, p) /\ Listed(e, p)[n] = i

LEMMA MadeAdds ==
  ASSUME NEW d, NEW p, NEW n, NEW i, NEW dir, NEW data, NEW a, NEW b, NEW c,
         Making(d, p, n, i, dir, data, a, b, c), RowKinds(d), i \notin DOMAIN d.meta,
         p # SnapshotDir /\ dir => n \in DirName
  PROVE  /\ Grown(d, a, p, n, i) /\ Grown(d, b, p, n, i) /\ Grown(d, c, p, n, i)
         /\ n \in Name => Named(b, p, n, i) /\ Named(c, p, n, i)
<1>1. Knowing(d, i, dir, a) /\ Knowing(d, i, dir, b) /\ Knowing(d, i, dir, c)
  BY RowsMade
<1>2. /\ RowsHold(d) /\ RowsHold(a) /\ RowsHold(b) /\ RowsHold(c)
      /\ i \in DOMAIN a.meta /\ i \in DOMAIN b.meta /\ b.meta[i] = dir
  BY <1>1 DEF Knowing, Making
<1>3. KeepsMeta(d, a) /\ KeepsMeta(d, b) /\ KeepsMeta(d, c)
  BY <1>1 DEF Knowing, Knows, KeepsMeta
<1>4. /\ a.meta = Put(d.meta, i, dir) /\ a.dirent = d.dirent
      /\ b.meta = a.meta /\ c.meta = a.meta /\ c.dirent = b.dirent
      /\ b = SaveDirent(a, p, n, i)
  BY DEF Making, SaveInode, SaveDirent, SaveRecipe, Rows
<1>5. DOMAIN a.meta = DOMAIN d.meta \cup {i}
  BY <1>4 DEF Put
<1>6. i # SnapshotDir /\ i # p
  BY BoundAssumption DEF Making, Ino, SnapshotDir, FirstIno, Root
<1>7. RowsBut(d, a, p, n)
  BY <1>4, RowsButSame
<1>8. RowsBut(a, b, p, n) /\ (n \in Name => Named(b, p, n, i))
  BY <1>4, RowSaved DEF Named
<1>9. \A r : Listed(a, r) = Listed(d, r) /\ Listed(c, r) = Listed(b, r)
  BY <1>4, ListedSame
<1>10. RowsBut(d, b, p, n) /\ RowsBut(d, c, p, n)
  BY <1>8, <1>9 DEF RowsBut
<1>11. DOMAIN Listed(d, i) = {}
  BY <1>2, <1>6, NothingListed
<1>12. DOMAIN Listed(b, i) = {}
  <2>1. ASSUME NEW x \in DOMAIN Listed(b, i) PROVE FALSE
    <3>1. x \in Name
      BY ListedAt
    <3>2. SameRow(Listed(d, i), Listed(b, i), x)
      BY <1>6, <1>10, <3>1 DEF RowsBut
    <3> QED BY <1>11, <3>2 DEF SameRow
  <2> QED BY <2>1
<1>13. RowKinds(a)
  BY <1>2, <1>3, <1>4, RowKindsSame
<1>14. RowKinds(b)
  <2>1. KeepsMeta(a, b)
    BY <1>4 DEF KeepsMeta
  <2>2. p \in DOMAIN b.meta => p # SnapshotDir
    BY <1>2, BoundAssumption DEF RowsHold, IsMap, Ino, SnapshotDir, FirstIno, Root
  <2>3. n \in DOMAIN Listed(b, p) => n \in Name
    BY ListedAt
  <2>4. p \in DOMAIN b.meta /\ n \in DOMAIN Listed(b, p) /\ b.meta[Listed(b, p)[n]] => n \in DirName
    BY <1>2, <1>8, <2>2, <2>3 DEF Named
  <2> QED BY <1>2, <1>8, <1>13, <2>1, <2>4, RowKindsKept
<1>15. RowKinds(c)
  BY <1>4, <1>9, <1>14 DEF RowKinds
<1>16. n \in Name => Named(c, p, n, i)
  BY <1>8, <1>9 DEF Named
<1> QED BY <1>3, <1>4, <1>5, <1>7, <1>8, <1>9, <1>10, <1>11, <1>12, <1>13, <1>14, <1>15, <1>16
        DEF Grown

LEMMA KindsGrown ==
  ASSUME NEW d, NEW e, NEW nd, NEW p, NEW n, NEW i, MemoryKinds(d, nd), Grown(d, e, p, n, i),
         i \notin DOMAIN nd
  PROVE  MemoryKinds(e, nd)
BY DEF MemoryKinds, Grown, KeepsMeta

(* An entry whose rows alone may have changed. *)
LEMMA RowsOnly ==
  ASSUME NEW d, NEW e, NEW nd, NEW p, NEW n, RowsBut(d, e, p, n)
  PROVE  Only(d, nd, e, nd, {<<p, n>>})
<1>1. ASSUME NEW r \in DirsIn(nd), NEW x \in Name
      PROVE  \/ In({<<p, n>>}, r, x)
             \/ r \in DirsIn(nd) /\ SameRow(Listed(d, r), Listed(e, r), x) /\ SameEntry(nd, nd, r, x)
  <2>1. SameEntry(nd, nd, r, x)
    BY DEF SameEntry
  <2>2. (r = p /\ x = n) \/ SameRow(Listed(d, r), Listed(e, r), x)
    BY DEF RowsBut
  <2> QED BY <2>1, <2>2, InAre
<1> QED BY <1>1, OnlyThese

LEMMA BorneAfter ==
  ASSUME NEW d, NEW e, NEW nd, NEW tp, NEW tq, NEW p, NEW n, NEW i, NEW dir, NEW ne,
         MemoryHolds(d, nd, tp, i), MemoryKinds(d, nd),
         Bearing(e, nd, tq, p, n, i, dir, ne), Borne(e, nd, tq, p, n, i, dir, ne),
         Grown(d, e, p, n, i), Named(e, p, n, i), dir => n \in DirName
  PROVE  MemoryKinds(e, ne) /\ Only(d, nd, e, ne, {})
<1>1. /\ i \notin DOMAIN nd /\ p \in DOMAIN nd /\ n \in Name /\ Root \in DOMAIN nd
      /\ i \in DOMAIN e.meta /\ e.meta[i] = dir
  BY NewIsFree DEF Bearing, MemoryHolds
<1>2. /\ MemoryHolds(e, ne, tq, i + 1) /\ Keeps(nd, ne) /\ DOMAIN ne = DOMAIN nd \cup {i}
      /\ ne[i].ino = i /\ ne[i].dir = dir /\ ne[i].kids = <<>>
      /\ ne[p].kids = Put(nd[p].kids, n, i)
      /\ \A q \in DOMAIN nd \ {p} : ne[q] = nd[q]
  BY DEF Borne, Node
<1>3. n \in DOMAIN ne[p].kids /\ ne[p].kids[n] = i
  BY <1>2 DEF Put
<1>4. \A q \in DOMAIN nd : \A x \in DOMAIN nd[q].kids : nd[q].kids[x] \in DOMAIN nd /\ nd[q].kids[x] # i
  BY <1>1 DEF MemoryHolds, NodeHolds, IsMap
<1>5. ASSUME NEW q \in DOMAIN nd, NEW x, ~ (q = p /\ x = n)
      PROVE  /\ x \in DOMAIN ne[q].kids <=> x \in DOMAIN nd[q].kids
             /\ x \in DOMAIN nd[q].kids => ne[q].kids[x] = nd[q].kids[x]
  BY <1>2, <1>5 DEF Put
<1>6. MemoryBut(nd, ne, p, n)
  BY <1>2, <1>4, <1>5 DEF MemoryBut, SameEntry, Keeps
<1>7. \A j \in DOMAIN ne : j \in DOMAIN e.meta => e.meta[j] = ne[j].dir
  BY <1>1, <1>2 DEF MemoryKinds, Grown, KeepsMeta, Keeps
<1>8. ASSUME NEW j \in DOMAIN ne, NEW x \in DOMAIN ne[j].kids, ne[ne[j].kids[x]].dir
      PROVE  x \in DirName
  <2>1. CASE j = i
    BY <1>2, <2>1
  <2>2. CASE j = p /\ x = n
    BY <1>2, <1>3, <1>8, <2>2
  <2>3. CASE j \in DOMAIN nd /\ ~ (j = p /\ x = n)
    <3>1. x \in DOMAIN nd[j].kids /\ ne[j].kids[x] = nd[j].kids[x]
      BY <1>5, <2>3
    <3>2. nd[nd[j].kids[x]].dir
      BY <1>2, <1>4, <1>8, <2>3, <3>1 DEF Keeps
    <3> QED BY <2>3, <3>1, <3>2 DEF MemoryKinds
  <2> QED BY <1>2, <2>1, <2>2, <2>3
<1>9. MemoryKinds(e, ne)
  BY <1>7, <1>8 DEF MemoryKinds
<1>10. DOMAIN ne[Root].kids \subseteq Name
  BY <1>2 DEF MemoryHolds, NodeHolds, IsMap
<1>11. ASSUME NEW r \in DirsIn(ne), NEW x \in Name
       PROVE  \/ Agree(Listed(e, r), ne, r, x)
              \/ /\ r \in DirsIn(nd) /\ SameRow(Listed(d, r), Listed(e, r), x)
                 /\ SameEntry(nd, ne, r, x)
  <2>1. CASE r = i
    <3>1. DOMAIN Listed(e, i) = {} /\ DOMAIN ne[i].kids = {}
      BY <1>2 DEF Grown
    <3> QED BY <2>1, <3>1 DEF Agree
  <2>2. CASE r = p /\ x = n
    BY <1>3, <2>2 DEF Agree, Named
  <2>3. CASE r # i /\ ~ (r = p /\ x = n)
    <3>1. r \in DirsIn(nd)
      BY <1>2, <1>3, <1>6, <1>10, <2>3, DirsStay
    <3>2. r \in DOMAIN nd
      BY <3>1, DirsRegistered
    <3>3. SameEntry(nd, ne, r, x)
      BY <1>6, <2>3, <3>2 DEF MemoryBut
    <3>4. SameRow(Listed(d, r), Listed(e, r), x)
      BY <2>3 DEF Grown, RowsBut
    <3> QED BY <3>1, <3>3, <3>4
  <2> QED BY <2>1, <2>2, <2>3
<1>12. Only(d, nd, e, ne, {})
  BY <1>11, OnlyThese
<1> QED BY <1>9, <1>12

-----------------------------------------------------------------------------
(* create and mkdir, in full or in part.                                   *)

LEMMA CreateAfter ==
  ASSUME Kinds, NEW p \in Dirs, NEW n \in FileName, Create(p, n), reuses' = reuses, IInv'
  PROVE  After({})
<1> DEFINE a == SaveInode(db, next, FALSE)
           b == SaveDirent(a, p, n, next)
           c == SaveRecipe(b, next, NoContent)
           t == Created(p, n)
<1>0. IInv /\ RowKinds(db) /\ MemoryKinds(db, node)
  BY DEF Kinds
<1>1. t = <<a, b, c>>
  BY DEF Created
<1>2. /\ next \in Nat /\ FirstIno <= next /\ next \in Ino \ {Root} /\ next \notin DOMAIN node
      /\ next \notin DOMAIN db.meta
  BY <1>0, OneTaken DEF Create
<1>3. KernelKnows(db, node, p, TRUE)
  BY <1>0, DirsKnown
<1>4. Making(db, p, n, next, FALSE, NoContent, a, b, c)
  BY <1>0, <1>2, <1>3, NoContentAssumption DEF Making, IInv, Label, Name, KernelKnows
<1>5. \/ /\ db' = Last(t)
         /\ node' = Attach(Put(node, next, Node(next, FALSE, <<>>)), p, n, next)
         /\ UNCHANGED <<top, job>>
      \/ CutShort(t)
  BY DEF Create
<1>6. job = Idle /\ n \in Name
  BY DEF Create, Name
<1> HIDE DEF a, b, c, t
<1>7. Knowing(db, next, FALSE, a) /\ Knowing(db, next, FALSE, b) /\ Knowing(db, next, FALSE, c)
  BY <1>4, RowsMade
<1>8. /\ Grown(db, a, p, n, next) /\ Grown(db, b, p, n, next) /\ Grown(db, c, p, n, next)
      /\ Named(c, p, n, next)
  BY <1>0, <1>2, <1>4, <1>6, MadeAdds
<1>9. CASE CutShort(t)
  <2>1. \A k \in 1..(Len(t) - 1) : RowsHold(t[k]) /\ RowKinds(t[k])
    BY <1>1, <1>7, <1>8 DEF Knowing, Grown
  <2> QED BY <1>9, <2>1, CutShortAfter
<1>10. CASE ~CutShort(t)
  <2>1. /\ db' = c /\ node' = Attach(Put(node, next, Node(next, FALSE, <<>>)), p, n, next)
        /\ UNCHANGED <<top, job>>
    BY <1>1, <1>5, <1>10 DEF Last
  <2>2. MemoryHolds(db, node, top, next) /\ Agrees(db, c, node, next)
    BY <1>0, <1>2, <1>7 DEF Agrees, Knowing, IInv
  <2>3. MemoryHolds(c, node, top, next)
    BY <2>2, MemoryKnows
  <2>4. Bearing(c, node, top, p, n, next, FALSE, node')
    BY <1>2, <1>3, <1>6, <1>7, <2>1, <2>3 DEF Bearing, Knowing, KernelKnows
  <2>5. Borne(c, node, top, p, n, next, FALSE, node')
    BY <2>4, ChildBorne
  <2>6. MemoryKinds(c, node') /\ Only(db, node, c, node', {})
    BY <1>0, <1>8, <2>2, <2>4, <2>5, BorneAfter
  <2> QED BY <1>6, <1>8, <2>1, <2>6 DEF After, Grown, JobKinds
<1> QED BY <1>9, <1>10

LEMMA CreateFailsAfter ==
  ASSUME Kinds, NEW p \in Dirs, NEW n \in FileName, CreateFails(p, n), reuses' = reuses
  PROVE  After({<<p, n>>})
<1> DEFINE a == SaveInode(db, next, FALSE)
           b == SaveDirent(a, p, n, next)
           c == SaveRecipe(b, next, NoContent)
<1>0. IInv /\ RowKinds(db) /\ MemoryKinds(db, node)
  BY DEF Kinds
<1>1. Created(p, n)[1] = a /\ Created(p, n)[2] = b /\ Created(p, n)[3] = c
  BY DEF Created
<1>2. /\ next \in Ino \ {Root} /\ next \notin DOMAIN node /\ next \notin DOMAIN db.meta
  BY <1>0, OneTaken DEF CreateFails
<1>3. KernelKnows(db, node, p, TRUE)
  BY <1>0, DirsKnown
<1>4. Making(db, p, n, next, FALSE, NoContent, a, b, c)
  BY <1>0, <1>2, <1>3, NoContentAssumption DEF Making, IInv, Label, Name, KernelKnows
<1>5. db' \in {db, a, b, c} /\ UNCHANGED <<node, job>> /\ job = Idle
  BY <1>1 DEF CreateFails
<1> HIDE DEF a, b, c
<1>6. Grown(db, a, p, n, next) /\ Grown(db, b, p, n, next) /\ Grown(db, c, p, n, next)
  BY <1>0, <1>2, <1>4, MadeAdds
<1>7. CASE db' = db
  <2>1. RowsBut(db, db', p, n)
    BY <1>7, RowsButSame
  <2>2. Only(db, node, db', node', {<<p, n>>})
    BY <1>5, <2>1, RowsOnly
  <2> QED BY <1>0, <1>5, <1>7, <2>2 DEF After, JobKinds
<1>8. CASE db' \in {a, b, c}
  <2>1. Grown(db, db', p, n, next)
    BY <1>6, <1>8
  <2>2. Only(db, node, db', node', {<<p, n>>})
    BY <1>5, <2>1, RowsOnly DEF Grown
  <2>3. MemoryKinds(db', node)
    BY <1>0, <1>2, <2>1, KindsGrown
  <2> QED BY <1>5, <2>1, <2>2, <2>3 DEF After, JobKinds, Grown
<1> QED BY <1>5, <1>7, <1>8

LEMMA MkdirAfter ==
  ASSUME Kinds, NEW n \in DirName, Mkdir(n), reuses' = reuses, IInv'
  PROVE  After({})
<1> DEFINE own == Mutable(node, top, Root, next)
           a == SaveInode(db, next, TRUE)
           b == SaveDirent(a, Root, n, next)
           c == SaveRecipe(b, next, NoContent)
           t == Made(n)
<1>0. IInv /\ RowKinds(db) /\ MemoryKinds(db, node)
  BY DEF Kinds
<1>1. t = <<a, b>>
  BY DEF Made
<1>2. /\ next \in Nat /\ FirstIno <= next /\ next \in Ino \ {Root} /\ next \notin DOMAIN node
      /\ next \notin DOMAIN db.meta
  BY <1>0, OneTaken DEF Mkdir
<1>3. Root \in DOMAIN db.meta /\ Root \in DOMAIN node
  BY <1>0 DEF IInv, RowsHold, MemoryHolds
<1>4. Making(db, Root, n, next, TRUE, NoContent, a, b, c)
  BY <1>0, <1>2, <1>3, NoContentAssumption DEF Making, IInv, Label, Name
<1>5. \/ /\ db' = Last(t)
         /\ node' = Attach(Put(own.node, next, Node(next, TRUE, <<>>)), Root, n, next)
         /\ UNCHANGED job
      \/ CutShort(t)
  BY DEF Mkdir
<1>6. own.node = node /\ MemoryHolds(db, node, own.top, next) /\ job = Idle /\ n \in Name
  BY <1>0, RootMutable DEF Mkdir, Name
<1> HIDE DEF a, b, c, t, own
<1>7. Knowing(db, next, TRUE, a) /\ Knowing(db, next, TRUE, b)
  BY <1>4, RowsMade
<1>8. /\ Grown(db, a, Root, n, next) /\ Grown(db, b, Root, n, next)
      /\ Named(b, Root, n, next)
  BY <1>0, <1>2, <1>4, <1>6, MadeAdds
<1>9. CASE CutShort(t)
  <2>1. \A k \in 1..(Len(t) - 1) : RowsHold(t[k]) /\ RowKinds(t[k])
    BY <1>1, <1>7, <1>8 DEF Knowing, Grown
  <2> QED BY <1>9, <2>1, CutShortAfter
<1>10. CASE ~CutShort(t)
  <2>1. /\ db' = b /\ node' = Attach(Put(node, next, Node(next, TRUE, <<>>)), Root, n, next)
        /\ UNCHANGED job
    BY <1>1, <1>5, <1>6, <1>10 DEF Last
  <2>2. Agrees(db, b, node, next)
    BY <1>2, <1>7 DEF Agrees, Knowing
  <2>3. MemoryHolds(b, node, own.top, next)
    BY <1>6, <2>2, MemoryKnows
  <2>4. Bearing(b, node, own.top, Root, n, next, TRUE, node')
    BY <1>2, <1>3, <1>6, <1>7, <2>1, <2>3 DEF Bearing, Knowing
  <2>5. Borne(b, node, own.top, Root, n, next, TRUE, node')
    BY <2>4, ChildBorne
  <2>6. MemoryKinds(b, node') /\ Only(db, node, b, node', {})
    BY <1>0, <1>6, <1>8, <2>4, <2>5, BorneAfter
  <2> QED BY <1>6, <1>8, <2>1, <2>6 DEF After, Grown, JobKinds
<1> QED BY <1>9, <1>10

LEMMA MkdirFailsAfter ==
  ASSUME Kinds, NEW n \in DirName, MkdirFails(n), reuses' = reuses
  PROVE  After({<<Root, n>>})
<1> DEFINE a == SaveInode(db, next, TRUE)
           b == SaveDirent(a, Root, n, next)
           c == SaveRecipe(b, next, NoContent)
<1>0. IInv /\ RowKinds(db) /\ MemoryKinds(db, node)
  BY DEF Kinds
<1>1. Made(n)[1] = a /\ Made(n)[2] = b
  BY DEF Made
<1>2. /\ next \in Ino \ {Root} /\ next \notin DOMAIN node /\ next \notin DOMAIN db.meta
  BY <1>0, OneTaken DEF MkdirFails
<1>3. Root \in DOMAIN db.meta
  BY <1>0 DEF IInv, RowsHold
<1>4. Making(db, Root, n, next, TRUE, NoContent, a, b, c)
  BY <1>0, <1>2, <1>3, NoContentAssumption DEF Making, IInv, Label, Name
<1>5. db' \in {db, a, b} /\ node' = node /\ UNCHANGED job /\ job = Idle
  BY <1>0, <1>1, RootMutable DEF MkdirFails
<1> HIDE DEF a, b, c
<1>6. Grown(db, a, Root, n, next) /\ Grown(db, b, Root, n, next)
  BY <1>0, <1>2, <1>4, MadeAdds
<1>7. CASE db' = db
  <2>1. RowsBut(db, db', Root, n)
    BY <1>7, RowsButSame
  <2>2. Only(db, node, db', node', {<<Root, n>>})
    BY <1>5, <2>1, RowsOnly
  <2> QED BY <1>0, <1>5, <1>7, <2>2 DEF After, JobKinds
<1>8. CASE db' \in {a, b}
  <2>1. Grown(db, db', Root, n, next)
    BY <1>6, <1>8
  <2>2. Only(db, node, db', node', {<<Root, n>>})
    BY <1>5, <2>1, RowsOnly DEF Grown
  <2>3. MemoryKinds(db', node)
    BY <1>0, <1>2, <2>1, KindsGrown
  <2> QED BY <1>5, <2>1, <2>2, <2>3 DEF After, JobKinds, Grown
<1> QED BY <1>5, <1>7, <1>8

-----------------------------------------------------------------------------
(* Steps that leave the entries alone.                                     *)

LEMMA QuietAfter ==
  ASSUME Kinds, IInv', KeepsMeta(db, db'), MemoryKinds(db', node'), db'.dirent = db.dirent,
         UNCHANGED node, JobKinds(db', node', job'), NEW E
  PROVE  After(E)
<1>1. RowsHold(db) /\ RowKinds(db) /\ RowsHold(db')
  BY DEF Kinds, IInv
<1>2. RowKinds(db')
  BY <1>1, RowKindsSame
<1>3. ASSUME NEW r \in DirsIn(node), NEW x \in Name
      PROVE  SameRow(Listed(db, r), Listed(db', r), x) /\ SameEntry(node, node, r, x)
  BY ListedSame DEF SameRow, SameEntry
<1>4. Only(db, node, db', node', E)
  BY <1>3, OnlyThese
<1> QED BY <1>2, <1>4 DEF After

LEMMA SameMetaAfter ==
  ASSUME Kinds, IInv', db'.meta = db.meta, db'.dirent = db.dirent, UNCHANGED node,
         JobKinds(db', node', job'), NEW E
  PROVE  After(E)
<1>1. KeepsMeta(db, db') /\ MemoryKinds(db', node')
  BY DEF KeepsMeta, Kinds, MemoryKinds
<1> QED BY <1>1, QuietAfter

LEMMA WriteAfter ==
  ASSUME Kinds, IInv', NEW i, NEW c, Write(i, c)
  PROVE  After({})
<1>1. UNCHANGED <<db, node, job>> /\ job = Idle
  BY DEF Write
<1>2. JobKinds(db', node', job')
  BY <1>1 DEF JobKinds
<1> QED BY <1>1, <1>2, SameMetaAfter

LEMMA FlushAfter ==
  ASSUME Kinds, IInv', NEW i \in DOMAIN dirty, Flush(i)
  PROVE  After({})
<1> DEFINE filled == SaveRecipe(db, i, dirty[i])
           sized == SaveInode(filled, i, node[i].dir)
           t == <<filled, sized>>
<1>0. IInv /\ RowKinds(db) /\ MemoryKinds(db, node)
  BY DEF Kinds
<1>1. i \in DOMAIN node /\ dirty[i] \in Content
  BY <1>0 DEF IInv, IsMap
<1>2. next \in Nat /\ next <= LastIno + 1
  BY <1>0, BoundAssumption DEF IInv, FirstIno
<1>3. i \in Ino
  BY <1>0, <1>1, <1>2, RegisteredKind DEF IInv
<1>4. job = Idle /\ ((db' = sized /\ UNCHANGED <<node, job>>) \/ CutShort(t))
  BY <1>1 DEF Flush
<1>5. RowsHold(filled) /\ filled.meta = db.meta /\ filled.dirent = db.dirent
  BY <1>0, <1>1, <1>3, RecipeSaved DEF IInv
<1>6. sized.meta = Put(filled.meta, i, node[i].dir) /\ sized.dirent = filled.dirent
  BY DEF SaveInode, Rows
<1> HIDE DEF filled, sized, t
<1>7. CASE CutShort(t)
  <2>1. RowsHold(db) /\ KeepsMeta(db, filled)
    BY <1>0, <1>5 DEF IInv, KeepsMeta
  <2>2. RowKinds(filled)
    BY <1>0, <1>5, <2>1, RowKindsSame
  <2>3. \A k \in 1..(Len(t) - 1) : RowsHold(t[k]) /\ RowKinds(t[k])
    BY <1>5, <2>2 DEF t
  <2> QED BY <1>7, <2>3, CutShortAfter
<1>8. CASE ~CutShort(t)
  <2>1. db' = sized /\ node' = node /\ job' = Idle
    BY <1>4, <1>8
  <2>2. KeepsMeta(db, sized) /\ MemoryKinds(sized, node)
    BY <1>0, <1>1, <1>5, <1>6 DEF KeepsMeta, MemoryKinds, Put
  <2>3. JobKinds(db', node', job')
    BY <2>1 DEF JobKinds
  <2> QED BY <1>5, <1>6, <2>1, <2>2, <2>3, QuietAfter
<1> QED BY <1>7, <1>8

LEMMA BeginAfter ==
  ASSUME Kinds, IInv', NEW s, NEW then, BeginSnapshot(s, then)
  PROVE  After({})
<1> DEFINE j == Cloning("snapshot", s, then, {Task(Root, SnapshotDir, s)}, {}, Root)
           e == Flushed(DOMAIN dirty)
<1>0. IInv /\ RowKinds(db)
  BY DEF Kinds
<1>1. \/ db' = e /\ job' = j /\ UNCHANGED node
      \/ \E S \in (SUBSET DOMAIN dirty) \ {{}, DOMAIN dirty} : Mount(Flushed(S))
  BY DEF BeginSnapshot
<1>2. CASE \E S \in (SUBSET DOMAIN dirty) \ {{}, DOMAIN dirty} : Mount(Flushed(S))
  <2>1. PICK S \in SUBSET DOMAIN dirty : Mount(Flushed(S))
    BY <1>2
  <2> DEFINE f == Flushed(S)
  <2>2. RowsHold(f) /\ f.meta = db.meta
    BY <1>0, FlushedHolds
  <2>3. f.dirent = db.dirent
    BY DEF Flushed, Rows
  <2>4. Mount(f)
    BY <2>1
  <2> HIDE DEF f
  <2>5. RowsHold(db) /\ KeepsMeta(db, f)
    BY <1>0, <2>2 DEF IInv, KeepsMeta
  <2>6. RowKinds(f)
    BY <1>0, <2>2, <2>3, <2>5, RowKindsSame
  <2> QED BY <2>2, <2>4, <2>6, MountAfter
<1>3. CASE db' = e /\ job' = j /\ UNCHANGED node
  <2>1. db'.meta = db.meta /\ db'.dirent = db.dirent
    BY <1>3 DEF Flushed, Rows
  <2>2. SnapshotDir \notin DOMAIN node
    BY <1>0, BoundAssumption DEF IInv, MemoryHolds, SnapshotDir, FirstIno, Root
  <2>3. Task(Root, SnapshotDir, s).parent = SnapshotDir
    BY DEF Task
  <2>4. j.kind = "snapshot" /\ j.todo = {Task(Root, SnapshotDir, s)}
    BY DEF Cloning
  <2> HIDE DEF j
  <2>5. JobKinds(db', node', job')
    BY <1>3, <2>2, <2>3, <2>4 DEF JobKinds
  <2> QED BY <1>3, <2>1, <2>5, SameMetaAfter
<1> QED BY <1>1, <1>2, <1>3

LEMMA FinishAfter ==
  ASSUME Kinds, IInv', FinishSnapshot \/ FinishFails \/ FinishRestore
  PROVE  After({})
<1> DEFINE e == SaveSnapshot(db, job.name, job.root)
           j == Cloning("clear", CHOOSE x \in job.then : TRUE, {}, {}, {}, Root)
<1>1. db' \in {db, e} /\ (job' = Idle \/ job' = j) /\ UNCHANGED node
  BY DEF FinishSnapshot, FinishFails, FinishRestore
<1>2. db'.meta = db.meta /\ db'.dirent = db.dirent
  BY <1>1 DEF SaveSnapshot, Rows
<1>3. j.kind = "clear" /\ j.todo = {}
  BY DEF Cloning
<1> HIDE DEF j
<1>4. JobKinds(db', node', job')
  BY <1>1, <1>3 DEF JobKinds
<1> QED BY <1>1, <1>2, <1>4, SameMetaAfter

LEMMA RemoveAfter ==
  ASSUME Kinds, IInv', NEW s, RemoveSnapshot(s) \/ RemoveFails(s)
  PROVE  After({})
<1>1. /\ db' = db \/ db' = DeleteSnapshot(db, s)
      /\ UNCHANGED <<node, job>> /\ job = Idle
  BY DEF RemoveSnapshot, RemoveFails
<1>2. db'.meta = db.meta /\ db'.dirent = db.dirent
  BY <1>1 DEF DeleteSnapshot, Rows
<1>3. JobKinds(db', node', job')
  BY <1>1 DEF JobKinds
<1> QED BY <1>1, <1>2, <1>3, SameMetaAfter

LEMMA CrashAfter ==
  ASSUME Kinds, IInv', Crash
  PROVE  After({})
<1>1. RowsHold(db) /\ RowKinds(db) /\ Mount(db)
  BY DEF Kinds, IInv, Crash
<1> QED BY <1>1, MountAfter

-----------------------------------------------------------------------------
(* unlink and rmdir.                                                       *)

LEMMA DetachedKinds ==
  ASSUME NEW d, NEW nd, NEW tp, NEW nx, MemoryHolds(d, nd, tp, nx), MemoryKinds(d, nd),
         NEW p \in DOMAIN nd, NEW n, NEW ne, ne = Detach(nd, p, n)
  PROVE  MemoryKinds(d, ne)
<1>1. /\ Keeps(nd, ne) /\ DOMAIN ne = DOMAIN nd /\ ne[p].kids = Drop(nd[p].kids, n)
      /\ \A i \in DOMAIN nd \ {p} : ne[i] = nd[i]
  BY Detaches
<1>2. \A i \in DOMAIN nd : \A x \in DOMAIN nd[i].kids : nd[i].kids[x] \in DOMAIN nd
  BY DEF MemoryHolds, NodeHolds, IsMap
<1>3. \A i \in DOMAIN nd : \A x \in DOMAIN ne[i].kids :
        x \in DOMAIN nd[i].kids /\ ne[i].kids[x] = nd[i].kids[x]
  BY <1>1 DEF Drop
<1> QED BY <1>1, <1>2, <1>3 DEF MemoryKinds, Keeps

LEMMA AttachedKinds ==
  ASSUME NEW d, NEW nd, NEW tp, NEW nx, MemoryHolds(d, nd, tp, nx), MemoryKinds(d, nd),
         NEW p \in DOMAIN nd, NEW n \in Name, NEW c \in DOMAIN nd, nd[c].dir => n \in DirName,
         NEW ne, ne = Attach(nd, p, n, c)
  PROVE  MemoryKinds(d, ne)
<1>1. /\ Keeps(nd, ne) /\ DOMAIN ne = DOMAIN nd /\ ne[p].kids = Put(nd[p].kids, n, c)
      /\ \A i \in DOMAIN nd \ {p} : ne[i] = nd[i]
  BY Attaches
<1>2. \A i \in DOMAIN nd : \A x \in DOMAIN nd[i].kids : nd[i].kids[x] \in DOMAIN nd
  BY DEF MemoryHolds, NodeHolds, IsMap
<1>3. \A i \in DOMAIN nd : \A x \in DOMAIN ne[i].kids :
        \/ x = n /\ ne[i].kids[x] = c
        \/ x \in DOMAIN nd[i].kids /\ ne[i].kids[x] = nd[i].kids[x]
  BY <1>1 DEF Put
<1> QED BY <1>1, <1>2, <1>3 DEF MemoryKinds, Keeps

LEMMA UnlinkAfter ==
  ASSUME Kinds, IInv', NEW p \in Dirs, NEW n \in Name
  PROVE  /\ Unlink(p, n) => After({})
         /\ UnlinkFails(p, n) => After({<<p, n>>})
<1> SUFFICES ASSUME Unlink(p, n) \/ UnlinkFails(p, n)
             PROVE  /\ Unlink(p, n) => After({})
                    /\ UnlinkFails(p, n) => After({<<p, n>>})
  OBVIOUS
<1> DEFINE e == DeleteDirent(db, p, n)
<1>0. /\ IInv /\ RowKinds(db) /\ MemoryKinds(db, node) /\ RowsHold(db) /\ RowsHold(db')
      /\ MemoryHolds(db, node, top, next) /\ MemoryHolds(db', node', top', next')
  BY DEF Kinds, IInv
<1>1. /\ node' = Detach(node, p, n) /\ UNCHANGED job /\ job = Idle
      /\ Unlink(p, n) => db' = e
      /\ UnlinkFails(p, n) => db' = db
  BY DEF Unlink, UnlinkFails
<1>2. RowsBut(db, e, p, n) /\ n \notin DOMAIN Listed(e, p) /\ e.meta = db.meta
  BY <1>0, RowDeleted, DirentDeleted
<1> HIDE DEF e
<1>3. RowsBut(db, db', p, n) /\ db'.meta = db.meta /\ (Unlink(p, n) => n \notin DOMAIN Listed(db', p))
  BY <1>1, <1>2, RowsButSame
<1>4. p \in DOMAIN node
  BY <1>0, DirsKnown DEF KernelKnows
<1>5. MemoryBut(node, node', p, n) /\ n \notin DOMAIN node'[p].kids /\ Keeps(node, node')
  BY <1>0, <1>1, <1>4, DetachedBut, Detaches
<1>6. RowKinds(db')
  <2>1. CASE db' = db
    BY <1>0, <2>1
  <2>2. CASE db' = e
    <3>1. KeepsMeta(db, e)
      BY <1>2 DEF KeepsMeta
    <3> QED BY <1>0, <1>2, <2>2, <3>1, RowKindsKept
  <2> QED BY <1>1, <2>1, <2>2
<1>7. MemoryKinds(db', node')
  <2>1. MemoryKinds(db, node')
    BY <1>0, <1>1, <1>4, DetachedKinds
  <2> QED BY <1>3, <2>1 DEF MemoryKinds
<1>8. DOMAIN node'[Root].kids \subseteq Name
  BY <1>0 DEF MemoryHolds, NodeHolds, IsMap
<1>9. ASSUME NEW r \in DirsIn(node'), NEW x \in Name, ~ (r = p /\ x = n)
      PROVE  /\ r \in DirsIn(node) /\ SameRow(Listed(db, r), Listed(db', r), x)
             /\ SameEntry(node, node', r, x)
  <2>1. r \in DirsIn(node)
    BY <1>0, <1>5, <1>8, DirsStay
  <2>2. r \in DOMAIN node
    BY <1>0, <2>1, DirsRegistered
  <2> QED BY <1>3, <1>5, <1>9, <2>1, <2>2 DEF RowsBut, MemoryBut
<1>10. ASSUME Unlink(p, n) PROVE Only(db, node, db', node', {})
  <2>1. Agree(Listed(db', p), node', p, n)
    BY <1>3, <1>5, <1>10 DEF Agree
  <2> QED BY <1>9, <2>1, OnlyThese
<1>11. Only(db, node, db', node', {<<p, n>>})
  <2>1. In({<<p, n>>}, p, n)
    BY InAre
  <2> QED BY <1>9, <2>1, OnlyThese
<1>12. JobKinds(db', node', job')
  BY <1>1 DEF JobKinds
<1> QED BY <1>6, <1>7, <1>10, <1>11, <1>12 DEF After

-----------------------------------------------------------------------------
(* rename.                                                                 *)

SameEntries(nd, ne) == \A r \in DOMAIN nd : \A x \in Name : SameEntry(nd, ne, r, x)

LEMMA SameEntriesOn ==
  ASSUME NEW d, NEW nd, NEW tp, NEW nx, MemoryHolds(d, nd, tp, nx), NEW ne, NEW nf, Keeps(nd, ne),
         SameEntries(nd, ne), SameEntries(ne, nf)
  PROVE  SameEntries(nd, nf)
<1> SUFFICES ASSUME NEW r \in DOMAIN nd, NEW x \in Name PROVE SameEntry(nd, nf, r, x)
  BY DEF SameEntries
<1>1. r \in DOMAIN ne
  BY DEF Keeps
<1>2. SameEntry(nd, ne, r, x) /\ SameEntry(ne, nf, r, x)
  BY <1>1 DEF SameEntries
<1>3. x \in DOMAIN nd[r].kids => nd[r].kids[x] \in DOMAIN nd
  BY DEF MemoryHolds, NodeHolds, IsMap
<1> QED BY <1>2, <1>3, SameEntryOn

(* The copy on write keeps the entries clients see, and their kinds, when  *)
(* the id it takes has no metadata.                                        *)
LEMMA MutableAfter ==
  ASSUME NEW d, NEW nd, NEW tp, NEW i \in Nat, FirstIno <= i, MemoryHolds(d, nd, tp, i),
         NEW p \in DOMAIN nd, nd[p].ino = p, NEW own, own = Mutable(nd, tp, p, i),
         MemoryKinds(d, nd), own.used = 1 => i \notin DOMAIN d.meta
  PROVE  MemoryKinds(d, own.node) /\ SameEntries(nd, own.node)
<1>1. CASE own.node = nd
  BY <1>1 DEF SameEntries, SameEntry
<1>2. CASE own.node # nd
  <2> DEFINE n == CHOOSE m \in Paths(nd, tp, p) : TRUE
             clone == Node(nd[p].ino, nd[p].dir, nd[p].kids)
             cloned == Put(nd, i, clone)
  <2>1. p # Root /\ Shadows(nd, tp, p)
    BY <1>2 DEF Mutable, Shadows
  <2>2. /\ own.node = IF tp.shared THEN Attach(cloned, Root, n, i) ELSE cloned
        /\ own.used = 1
    BY <2>1 DEF Mutable
  <2>3. n \in DOMAIN TopKids(nd, tp) /\ TopKids(nd, tp)[n] = p
    BY <2>1 DEF Shadows, Paths
  <2>4. IsMap(nd[p].kids, Name, DOMAIN nd) /\ KernelKnows(d, nd, nd[p].ino, nd[p].dir)
    BY DEF MemoryHolds, NodeHolds
  <2>5. clone.ino = nd[p].ino /\ clone.dir = nd[p].dir /\ clone.kids = nd[p].kids
    BY DEF Node
  <2> HIDE DEF n, clone, cloned
  <2>6. Registering(d, nd, tp, i, nd[p].ino, nd[p].dir, nd[p].kids, cloned)
    BY <2>4 DEF Registering, cloned, clone
  <2>7. Registered(d, nd, tp, i, clone, cloned)
    BY <2>6, Registers DEF clone
  <2>8. /\ MemoryHolds(d, cloned, tp, i + 1) /\ Keeps(nd, cloned)
        /\ DOMAIN cloned = DOMAIN nd \cup {i} /\ cloned[i] = clone
        /\ \A q \in DOMAIN nd : cloned[q] = nd[q]
    BY <2>7 DEF Registered
  <2>9. i \notin DOMAIN nd /\ i # Root /\ i \notin DOMAIN d.meta
    BY <2>2, NewIsFree
  <2>10. /\ Root \in DOMAIN nd
         /\ \A q \in DOMAIN nd : \A x \in DOMAIN nd[q].kids : nd[q].kids[x] \in DOMAIN nd
    BY DEF MemoryHolds, NodeHolds, IsMap
  <2>11. SameEntries(nd, cloned)
    BY <2>8, <2>10 DEF SameEntries, SameEntry
  <2>12. MemoryKinds(d, cloned)
    <3>1. \A j \in DOMAIN cloned : j \in DOMAIN d.meta => d.meta[j] = cloned[j].dir
      BY <2>8, <2>9 DEF MemoryKinds
    <3>2. ASSUME NEW j \in DOMAIN cloned, NEW x \in DOMAIN cloned[j].kids, cloned[cloned[j].kids[x]].dir
          PROVE  x \in DirName
      <4>1. PICK q \in DOMAIN nd : cloned[j].kids = nd[q].kids
        BY <2>5, <2>8
      <4>2. nd[nd[q].kids[x]].dir /\ x \in DOMAIN nd[q].kids
        BY <2>8, <2>10, <3>2, <4>1
      <4> QED BY <4>1, <4>2 DEF MemoryKinds
    <3> QED BY <3>1, <3>2 DEF MemoryKinds
  <2>13. CASE ~tp.shared
    BY <2>2, <2>11, <2>12, <2>13
  <2>14. CASE tp.shared
    <3> DEFINE ne == Attach(cloned, Root, n, i)
    <3>1. n \in DOMAIN nd[Root].kids /\ nd[Root].kids[n] = p
      BY <2>3, <2>14 DEF TopKids
    <3>2. n \in Name
      BY <2>10, <3>1 DEF MemoryHolds, NodeHolds, IsMap
    <3>3. Root \in DOMAIN cloned /\ i \in DOMAIN cloned /\ n \in DOMAIN cloned[Root].kids
          /\ cloned[Root].kids[n] = p
      BY <2>8, <2>10, <3>1
    <3>4. cloned[p].ino = p /\ cloned[i].ino = p /\ cloned[i].dir = cloned[p].dir
      BY <2>5, <2>8
    <3>5. ne = Attach(cloned, Root, n, i)
      OBVIOUS
    <3> HIDE DEF ne
    <3>6. MemoryBut(cloned, ne, Root, n) /\ n \in DOMAIN ne[Root].kids /\ ne[Root].kids[n] = i
          /\ Keeps(cloned, ne)
      <4>1. MemoryHolds(d, cloned, tp, i + 1)
        BY <2>8
      <4>2. MemoryBut(cloned, ne, Root, n) /\ n \in DOMAIN ne[Root].kids /\ ne[Root].kids[n] = i
        BY <3>2, <3>3, <3>5, <4>1, AttachedBut
      <4>3. Keeps(cloned, ne)
        BY <3>2, <3>3, <3>5, <4>1, Attaches
      <4> QED BY <4>2, <4>3
    <3>7. cloned[i].dir => n \in DirName
      BY <2>12, <3>3, <3>4 DEF MemoryKinds
    <3>8. MemoryKinds(d, ne)
      BY <2>8, <2>12, <3>2, <3>3, <3>5, <3>7, AttachedKinds
    <3>9. SameEntry(cloned, ne, Root, n)
      BY <3>3, <3>4, <3>6 DEF SameEntry, Keeps
    <3>10. SameEntries(cloned, ne)
      BY <3>6, <3>9 DEF SameEntries, MemoryBut
    <3>11. SameEntries(nd, ne)
      BY <2>8, <2>11, <3>10, SameEntriesOn
    <3> QED BY <2>2, <2>14, <3>5, <3>8, <3>11
  <2> QED BY <2>13, <2>14
<1> QED BY <1>1, <1>2

(* Only the rows n of p and m of q differ between d and e. *)
RowsTwo(d, e, p, n, q, m) ==
  \A r : \A x \in Name :
    (r = p /\ x = n) \/ (r = q /\ x = m) \/ SameRow(Listed(d, r), Listed(e, r), x)

LEMMA RowsButTwo ==
  ASSUME NEW d, NEW e, NEW f, NEW p, NEW n, NEW q, NEW m, RowsTwo(d, e, p, n, q, m),
         RowsBut(e, f, p, n) \/ RowsBut(e, f, q, m)
  PROVE  RowsTwo(d, f, p, n, q, m)
BY DEF RowsTwo, RowsBut, SameRow

(* The memory and the rows of a rename: clients see what they saw, but for *)
(* the rows of both names, and after the last write the new one is there   *)
(* and the old one gone.                                                   *)
MoveKinds(w, p, n, q, m) ==
  /\ SameEntries(node, w.node)
  /\ \A k \in 1..4 : /\ RowKinds(w.trees[k]) /\ MemoryKinds(w.trees[k], w.node)
                     /\ RowsTwo(db, w.trees[k], p, n, q, m)
  /\ Named(w.trees[4], q, m, w.child) /\ n \notin DOMAIN Listed(w.trees[4], p)
  /\ n \in DOMAIN w.node[p].kids /\ w.child = w.node[p].kids[n]
  /\ w.node[w.child].dir => n \in DirName /\ m \in DirName

LEMMA MovedAfter ==
  ASSUME Kinds, NEW p \in Dirs, NEW n, NEW q \in Dirs, NEW m, Renamable(p, n, q, m),
         NEW w, w = Moved(p, n, q, m), Taken(w.used), reuses' = reuses
  PROVE  MoveKinds(w, p, n, q, m)
<1> DEFINE own == Mutable(node, top, p, next)
           other == Mutable(own.node, own.top, q, next + own.used)
           both == IF q = p THEN [node |-> own.node, top |-> own.top, used |-> 0] ELSE other
           o == both.node[p].kids[n]
           cleared == IF m \in DOMAIN both.node[q].kids THEN DeleteDirent(db, q, m) ELSE db
           saved == SaveInode(cleared, o, both.node[o].dir)
           unnamed == DeleteDirent(saved, p, n)
           named == SaveDirent(unnamed, q, m, o)
           used == own.used + both.used
<1>0. IInv /\ RowKinds(db) /\ MemoryKinds(db, node) /\ RowsHold(db)
  BY DEF Kinds, IInv
<1>1. /\ w.node = both.node /\ w.top = both.top /\ w.used = used /\ w.child = o
      /\ w.trees = <<cleared, saved, unnamed, named>>
  BY DEF Moved
<1>2. /\ next \in Nat /\ FirstIno <= next /\ MemoryHolds(db, node, top, next)
  BY <1>0, BoundAssumption DEF IInv, FirstIno
<1>3. /\ p \in DOMAIN node /\ q \in DOMAIN node /\ node[p].ino = p /\ node[q].ino = q
      /\ n \in DOMAIN node[p].kids
  BY <1>0, DirsKnown DEF KernelKnows, Renamable, Names
<1>4. n \in Name /\ m \in Name /\ ~ (p = q /\ n = m) /\ (n \in DirName => m \in DirName)
  BY <1>2, <1>3 DEF MemoryHolds, NodeHolds, IsMap, Renamable, Name
<1>5. MoveHolds(w, next)
  BY <1>0, MovedHolds
<1>6. \A i \in DOMAIN db.meta : ~ (next <= i /\ i < next + w.used)
  <2>1. w.used \in Nat
    BY <1>5 DEF MoveHolds
  <2> QED BY <1>0, <2>1, TakenCounts
<1>7. /\ own.used \in {0, 1} /\ MemoryHolds(db, own.node, own.top, next + own.used)
      /\ Keeps(node, own.node)
  BY <1>2, <1>3, MutableHolds
<1> HIDE DEF own
<1>8. q # p => other.used \in {0, 1}
  <2>1. next + own.used \in Nat /\ FirstIno <= next + own.used
    BY <1>2, <1>7 DEF FirstIno
  <2>2. q \in DOMAIN own.node
    BY <1>3, <1>7 DEF Keeps
  <2> QED BY <1>7, <2>1, <2>2, MutableHolds
<1>9. own.used = 1 => next \notin DOMAIN db.meta
  <2>1. own.used = 1 => next < next + w.used /\ next <= next
    <3>1. both.used \in {0, 1}
      BY <1>8
    <3> HIDE DEF both
    <3> QED BY <1>1, <1>2, <1>7, <3>1
  <2> QED BY <1>6, <2>1
<1>10. MemoryKinds(db, own.node) /\ SameEntries(node, own.node)
  BY <1>0, <1>2, <1>3, <1>9, MutableAfter DEF own
<1>11. MemoryKinds(db, both.node) /\ SameEntries(node, both.node)
  <2>1. CASE q = p
    BY <1>10, <2>1
  <2>2. CASE q # p
    <3>1. next + own.used \in Nat /\ FirstIno <= next + own.used
      BY <1>2, <1>7 DEF FirstIno
    <3>2. q \in DOMAIN own.node /\ own.node[q].ino = q
      BY <1>3, <1>7 DEF Keeps
    <3>3. both = other
      BY <2>2
    <3>4. other = Mutable(own.node, own.top, q, next + own.used)
      OBVIOUS
    <3>5. w.used = own.used + other.used
      BY <1>1, <3>3
    <3> HIDE DEF other, both
    <3>6. other.used = 1 => next + own.used \notin DOMAIN db.meta
      <4>1. other.used = 1 => next <= next + own.used /\ next + own.used < next + w.used
        BY <1>2, <1>7, <3>5
      <4> QED BY <1>6, <4>1
    <3>7. MemoryKinds(db, other.node) /\ SameEntries(own.node, other.node)
      BY <1>7, <1>10, <3>1, <3>2, <3>4, <3>6, MutableAfter
    <3>8. SameEntries(node, other.node)
      BY <1>2, <1>7, <1>10, <3>7, SameEntriesOn
    <3> QED BY <3>3, <3>7, <3>8
  <2> QED BY <2>1, <2>2
<1> HIDE DEF both, other, used
<1>12. n \in DOMAIN both.node[p].kids
  BY <1>3, <1>4, <1>11 DEF SameEntries, SameEntry
<1>13. p \in DOMAIN both.node /\ o \in DOMAIN both.node
  BY <1>1, <1>3, <1>5 DEF MoveHolds, Keeps
<1>14. both.node[o].dir => n \in DirName /\ m \in DirName
  BY <1>4, <1>11, <1>12, <1>13 DEF MemoryKinds
<1>15. /\ RowsHold(cleared) /\ RowsHold(saved) /\ RowsHold(unnamed) /\ RowsHold(named)
  <2>1. \A k \in 1..4 : RowsHold(w.trees[k])
    BY <1>5 DEF MoveHolds
  <2> HIDE DEF cleared, saved, unnamed, named
  <2> QED BY <1>1, <2>1
<1> HIDE DEF o
<1>16. cleared.meta = db.meta /\ RowsBut(db, cleared, q, m) /\ RowKinds(cleared)
  <2>1. CASE cleared = db
    BY <1>0, <2>1, RowsButSame
  <2>2. CASE cleared = DeleteDirent(db, q, m)
    <3> HIDE DEF cleared
    <3>1. RowsBut(db, cleared, q, m) /\ m \notin DOMAIN Listed(cleared, q) /\ cleared.meta = db.meta
      BY <1>0, <1>4, <2>2, RowDeleted, DirentDeleted
    <3>2. KeepsMeta(db, cleared)
      BY <3>1 DEF KeepsMeta
    <3>3. RowKinds(cleared)
      BY <1>0, <1>15, <3>1, <3>2, RowKindsKept
    <3> QED BY <3>1, <3>3
  <2> QED BY <2>1, <2>2
<1> HIDE DEF cleared
<1>17. saved.meta = Put(cleared.meta, o, both.node[o].dir) /\ saved.dirent = cleared.dirent
  BY DEF SaveInode, Rows
<1>18. unnamed.meta = saved.meta /\ RowsBut(saved, unnamed, p, n) /\ n \notin DOMAIN Listed(unnamed, p)
  <2>1. unnamed = DeleteDirent(saved, p, n)
    OBVIOUS
  <2> HIDE DEF unnamed, saved
  <2> QED BY <1>4, <1>15, <2>1, RowDeleted, DirentDeleted
<1> HIDE DEF saved
<1>19. named.meta = saved.meta /\ RowsBut(unnamed, named, q, m) /\ Named(named, q, m, o)
  <2>1. named = SaveDirent(unnamed, q, m, o)
    OBVIOUS
  <2>2. named.meta = unnamed.meta
    BY DEF SaveDirent, Rows
  <2> HIDE DEF named
  <2>3. RowsBut(unnamed, named, q, m) /\ Named(named, q, m, o)
    BY <1>4, <2>1, RowSaved DEF Named
  <2> QED BY <1>18, <2>2, <2>3
<1> HIDE DEF unnamed, named
<1>20. KeepsMeta(cleared, saved) /\ MemoryKinds(saved, both.node) /\ saved.meta[o] = both.node[o].dir
  BY <1>11, <1>13, <1>16, <1>17 DEF KeepsMeta, MemoryKinds, Put
<1>21. /\ MemoryKinds(cleared, both.node) /\ MemoryKinds(unnamed, both.node)
       /\ MemoryKinds(named, both.node)
  BY <1>11, <1>16, <1>18, <1>19, <1>20 DEF MemoryKinds
<1>22. RowKinds(saved)
  BY <1>15, <1>16, <1>17, <1>20, RowKindsSame
<1>23. RowKinds(unnamed)
  <2>1. KeepsMeta(saved, unnamed)
    BY <1>18 DEF KeepsMeta
  <2> QED BY <1>15, <1>18, <1>22, <2>1, RowKindsKept
<1>24. RowKinds(named)
  <2>1. KeepsMeta(unnamed, named)
    BY <1>18, <1>19 DEF KeepsMeta
  <2>2. named.meta[Listed(named, q)[m]] => m \in DirName
    BY <1>14, <1>19, <1>20 DEF Named
  <2> QED BY <1>15, <1>19, <1>23, <2>1, <2>2, RowKindsKept
<1>25. RowsTwo(db, cleared, p, n, q, m)
  BY <1>16 DEF RowsBut, RowsTwo
<1>26. RowsTwo(db, saved, p, n, q, m)
  <2>1. RowsBut(cleared, saved, q, m)
    BY <1>17, RowsButSame
  <2> QED BY <1>25, <2>1, RowsButTwo
<1>27. RowsTwo(db, unnamed, p, n, q, m)
  BY <1>18, <1>26, RowsButTwo
<1>28. RowsTwo(db, named, p, n, q, m)
  BY <1>19, <1>27, RowsButTwo
<1>29. n \notin DOMAIN Listed(named, p)
  <2>1. SameRow(Listed(unnamed, p), Listed(named, p), n)
    BY <1>4, <1>19 DEF RowsBut
  <2> QED BY <1>18, <2>1 DEF SameRow
<1>30. /\ \A k \in 1..4 : w.trees[k] \in {cleared, saved, unnamed, named}
       /\ w.trees[4] = named
  BY <1>1
<1>31. ASSUME NEW e \in {cleared, saved, unnamed, named}
       PROVE  RowKinds(e) /\ MemoryKinds(e, both.node) /\ RowsTwo(db, e, p, n, q, m)
  BY <1>16, <1>20, <1>21, <1>22, <1>23, <1>24, <1>25, <1>26, <1>27, <1>28
<1>32. \A k \in 1..4 : /\ RowKinds(w.trees[k]) /\ MemoryKinds(w.trees[k], w.node)
                       /\ RowsTwo(db, w.trees[k], p, n, q, m)
  BY <1>1, <1>30, <1>31
<1>33. w.child = w.node[p].kids[n]
  BY <1>1 DEF o
<1> QED BY <1>1, <1>11, <1>12, <1>14, <1>19, <1>29, <1>30, <1>32, <1>33 DEF MoveKinds

(* The directories are those there were: one can only have a new name.     *)
Moving(w, p, n, q, m, out, ne) ==
  /\ out = Detach(w.node, p, n)
  /\ ne = Detach(out, q, m) \/ ne = Attach(out, q, m, w.child)
MovedTo(w, p, n, q, m, out, ne) ==
  /\ DirsIn(ne) \subseteq DirsIn(node)
  /\ MemoryKinds(w.trees[1], ne) /\ Keeps(node, ne) /\ Keeps(w.node, ne)
  /\ MemoryBut(w.node, out, p, n) /\ MemoryBut(out, ne, q, m)
  /\ n \notin DOMAIN out[p].kids
  /\ ne = Attach(out, q, m, w.child) => m \in DOMAIN ne[q].kids /\ ne[q].kids[m] = w.child

LEMMA MovedDirs ==
  ASSUME Kinds, NEW p \in Dirs, NEW n, NEW q \in Dirs, NEW m, Renamable(p, n, q, m),
         NEW w, w = Moved(p, n, q, m), Taken(w.used), MoveKinds(w, p, n, q, m), MoveHolds(w, next),
         NEW out, NEW ne, Moving(w, p, n, q, m, out, ne)
  PROVE  MovedTo(w, p, n, q, m, out, ne)
<1> USE DEF Moving
<1> DEFINE nd == w.node
           d == w.trees[1]
           nx == next + w.used
<1>1. /\ MemoryHolds(d, nd, w.top, nx) /\ w.child \in DOMAIN nd
      /\ Keeps(node, nd) /\ SameEntries(node, nd) /\ MemoryKinds(d, nd)
  BY DEF MoveHolds, MoveKinds
<1>2. /\ IInv /\ MemoryHolds(db, node, top, next)
      /\ p \in DOMAIN node /\ q \in DOMAIN node /\ m \in Name
  BY DirsKnown DEF Kinds, IInv, KernelKnows, Renamable, Name
<1>3. p \in DOMAIN nd /\ q \in DOMAIN nd
  BY <1>1, <1>2 DEF Keeps
<1>4. /\ n \in DOMAIN nd[p].kids /\ w.child = nd[p].kids[n]
      /\ nd[w.child].dir => n \in DirName /\ m \in DirName
  BY DEF MoveKinds
<1> HIDE DEF nd, d, nx
<1>5. out = Detach(nd, p, n)
  BY DEF nd
<1>6. MemoryHolds(d, out, w.top, nx) /\ Keeps(nd, out) /\ DOMAIN out = DOMAIN nd
  BY <1>1, <1>3, <1>5, Detaches
<1>7. MemoryBut(nd, out, p, n) /\ n \notin DOMAIN out[p].kids
  BY <1>1, <1>3, <1>5, DetachedBut
<1>8. MemoryKinds(d, out)
  BY <1>1, <1>3, <1>5, DetachedKinds
<1>9. w.child \in DOMAIN out /\ q \in DOMAIN out /\ (out[w.child].dir => m \in DirName)
  BY <1>1, <1>3, <1>4, <1>6 DEF Keeps
<1>10. /\ MemoryHolds(d, ne, w.top, nx) /\ Keeps(out, ne) /\ MemoryKinds(d, ne)
       /\ MemoryBut(out, ne, q, m)
       /\ ne = Attach(out, q, m, w.child) => m \in DOMAIN ne[q].kids /\ ne[q].kids[m] = w.child
       /\ m \in DOMAIN ne[q].kids => ne[q].kids[m] = w.child
  <2>1. CASE ne = Attach(out, q, m, w.child)
    <3>1. MemoryHolds(d, ne, w.top, nx) /\ Keeps(out, ne)
      BY <1>2, <1>6, <1>9, <2>1, Attaches
    <3>2. MemoryBut(out, ne, q, m) /\ m \in DOMAIN ne[q].kids /\ ne[q].kids[m] = w.child
      BY <1>2, <1>6, <1>9, <2>1, AttachedBut
    <3>3. MemoryKinds(d, ne)
      BY <1>2, <1>6, <1>8, <1>9, <2>1, AttachedKinds
    <3> QED BY <3>1, <3>2, <3>3
  <2>2. CASE ne = Detach(out, q, m) /\ ne # Attach(out, q, m, w.child)
    <3>1. MemoryHolds(d, ne, w.top, nx) /\ Keeps(out, ne)
      BY <1>6, <1>9, <2>2, Detaches
    <3>2. MemoryBut(out, ne, q, m) /\ m \notin DOMAIN ne[q].kids
      BY <1>6, <1>9, <2>2, DetachedBut
    <3>3. MemoryKinds(d, ne)
      BY <1>6, <1>8, <1>9, <2>2, DetachedKinds
    <3> QED BY <2>2, <3>1, <3>2, <3>3
  <2> QED BY <2>1, <2>2
<1>11. /\ DOMAIN nd[Root].kids \subseteq Name /\ DOMAIN out[Root].kids \subseteq Name
       /\ DOMAIN ne[Root].kids \subseteq Name
  BY <1>1, <1>6, <1>10 DEF MemoryHolds, NodeHolds, IsMap
<1>12. DirsIn(nd) \subseteq DirsIn(node)
  <2>1. MemoryBut(node, nd, SnapshotDir, n)
    BY <1>1 DEF MemoryBut, SameEntries
  <2>2. SnapshotDir # Root
    BY DEF SnapshotDir, Root
  <2> QED BY <1>1, <1>2, <1>11, <2>1, <2>2, DirsStay
<1>13. DirsIn(out) \subseteq DirsIn(nd)
  BY <1>1, <1>6, <1>7, <1>11, DirsStay
<1>14. ASSUME NEW r \in DirsIn(ne) PROVE r \in DirsIn(nd)
  <2>1. \/ r \in DirsIn(out)
        \/ q = Root /\ m \in DOMAIN ne[Root].kids /\ ne[r].dir /\ r = ne[ne[Root].kids[m]].ino
    BY <1>6, <1>10, <1>11, DirsStay
  <2>2. CASE q = Root /\ m \in DOMAIN ne[Root].kids /\ ne[r].dir /\ r = ne[ne[Root].kids[m]].ino
    <3>1. r = nd[w.child].ino
      BY <1>1, <1>6, <1>10, <2>2 DEF Keeps
    <3>2. KernelKnows(d, nd, r, nd[w.child].dir)
      BY <1>1, <3>1 DEF MemoryHolds, NodeHolds
    <3>3. nd[r].dir /\ nd[w.child].dir
      BY <1>6, <1>10, <2>2, <3>2 DEF Keeps, KernelKnows
    <3>4. n \in DirName /\ p = Root
      BY <1>4, <3>3 DEF Renamable
    <3>5. r \in {nd[nd[Root].kids[x]].ino : x \in DOMAIN nd[Root].kids}
      BY <1>4, <3>1, <3>4
    <3> QED BY <3>3, <3>5 DEF DirsIn
  <2> QED BY <1>13, <2>1, <2>2
<1>15. DirsIn(ne) \subseteq DirsIn(node)
  BY <1>12, <1>14
<1>16. Keeps(nd, ne) /\ Keeps(node, ne)
  BY <1>1, <1>6, <1>10 DEF Keeps
<1> QED BY <1>7, <1>10, <1>15, <1>16 DEF nd, d, MovedTo

LEMMA RenamedAfter ==
  ASSUME Kinds, IInv', NEW p \in Dirs, NEW n, NEW q \in Dirs, NEW m, Renamable(p, n, q, m),
         NEW w, w = Moved(p, n, q, m), Taken(w.used), reuses' = reuses,
         NEW k \in 1..4, db' = w.trees[k], job' = Idle,
         \/ node' = Detach(Detach(w.node, p, n), q, m)
         \/ node' = Attach(Detach(w.node, p, n), q, m, w.child)
  PROVE  /\ After({<<p, n>>, <<q, m>>})
         /\ k = 4 /\ node' = Attach(Detach(w.node, p, n), q, m, w.child) => After({})
<1> DEFINE out == Detach(w.node, p, n)
           E == {<<p, n>>, <<q, m>>}
<1>1. MoveKinds(w, p, n, q, m) /\ MoveHolds(w, next)
  BY MovedAfter, MovedHolds DEF Kinds
<1>2. /\ DirsIn(node') \subseteq DirsIn(node)
      /\ MemoryKinds(w.trees[1], node') /\ Keeps(node, node') /\ Keeps(w.node, node')
      /\ MemoryBut(w.node, out, p, n) /\ MemoryBut(out, node', q, m)
      /\ n \notin DOMAIN out[p].kids
      /\ node' = Attach(out, q, m, w.child) => m \in DOMAIN node'[q].kids /\ node'[q].kids[m] = w.child
  <2>1. Moving(w, p, n, q, m, out, node')
    BY DEF Moving
  <2> HIDE DEF out
  <2>2. MovedTo(w, p, n, q, m, out, node')
    BY <1>1, <2>1, MovedDirs
  <2> QED BY <2>2 DEF MovedTo
<1> HIDE DEF out
<1>3. /\ RowKinds(db') /\ MemoryKinds(db', w.node) /\ RowsTwo(db, db', p, n, q, m)
      /\ SameEntries(node, w.node)
  BY <1>1 DEF MoveKinds
<1>4. MemoryHolds(db, node, top, next) /\ MemoryHolds(db', w.node, w.top, next + w.used)
  BY <1>1 DEF Kinds, IInv, MoveHolds
<1>5. /\ p \in DOMAIN w.node /\ q \in DOMAIN w.node /\ n \in Name /\ m \in Name
      /\ ~ (p = q /\ n = m)
  <2>1. p \in DOMAIN node /\ q \in DOMAIN node
    BY DirsKnown DEF Kinds, KernelKnows
  <2>2. n \in DOMAIN node[p].kids
    BY DEF Renamable, Names
  <2>3. n \in Name
    BY <1>4, <2>1, <2>2 DEF MemoryHolds, NodeHolds, IsMap
  <2>4. m \in Name /\ ~ (p = q /\ n = m)
    BY DEF Renamable, Name
  <2> QED BY <1>1, <2>1, <2>3, <2>4 DEF MoveHolds, Keeps
<1>6. MemoryHolds(db', out, w.top, next + w.used) /\ Keeps(w.node, out) /\ DOMAIN out = DOMAIN w.node
  BY <1>4, <1>5, Detaches DEF out
<1>7. MemoryKinds(db', node')
  <2>1. MemoryKinds(db', out)
    BY <1>3, <1>4, <1>5, DetachedKinds DEF out
  <2>2. CASE node' = Attach(out, q, m, w.child)
    <3>1. w.child \in DOMAIN out /\ q \in DOMAIN out /\ (out[w.child].dir => m \in DirName)
      BY <1>1, <1>5, <1>6 DEF MoveHolds, MoveKinds, Keeps
    <3> QED BY <1>5, <1>6, <2>1, <2>2, <3>1, AttachedKinds
  <2>3. CASE node' = Detach(out, q, m)
    <3>1. q \in DOMAIN out
      BY <1>5, <1>6
    <3> QED BY <1>6, <2>1, <2>3, <3>1, DetachedKinds
  <2> QED BY <2>2, <2>3 DEF out
<1>8. ASSUME NEW r \in DirsIn(node'), NEW x \in Name, ~ (r = p /\ x = n), ~ (r = q /\ x = m)
      PROVE  /\ r \in DirsIn(node) /\ SameRow(Listed(db, r), Listed(db', r), x)
             /\ SameEntry(node, node', r, x)
  <2>1. r \in DirsIn(node) /\ r \in DOMAIN node
    BY <1>2, <1>4, DirsRegistered
  <2>2. r \in DOMAIN w.node /\ r \in DOMAIN out /\ Keeps(node, w.node)
    BY <1>1, <1>6, <2>1 DEF MoveHolds, Keeps
  <2>3. SameEntry(node, w.node, r, x)
    BY <1>3, <2>1 DEF SameEntries
  <2>4. SameEntry(w.node, out, r, x) /\ SameEntry(out, node', r, x)
    BY <1>2, <1>8, <2>2 DEF MemoryBut
  <2>5. /\ x \in DOMAIN node[r].kids => node[r].kids[x] \in DOMAIN node
        /\ x \in DOMAIN w.node[r].kids => w.node[r].kids[x] \in DOMAIN w.node
    BY <1>4, <2>1, <2>2 DEF MemoryHolds, NodeHolds, IsMap
  <2>6. SameEntry(w.node, node', r, x)
    BY <1>6, <2>4, <2>5, SameEntryOn
  <2>7. SameEntry(node, node', r, x)
    BY <2>2, <2>3, <2>5, <2>6, SameEntryOn
  <2>8. SameRow(Listed(db, r), Listed(db', r), x)
    BY <1>3, <1>8 DEF RowsTwo
  <2> QED BY <2>1, <2>7, <2>8
<1>9. Only(db, node, db', node', E)
  <2>1. In(E, p, n) /\ In(E, q, m)
    BY DEF In
  <2> HIDE DEF E
  <2> QED BY <1>8, <2>1, OnlyThese
<1>10. JobKinds(db', node', job')
  BY DEF JobKinds
<1>11. After(E)
  BY <1>3, <1>7, <1>9, <1>10 DEF After
<1>12. ASSUME k = 4, node' = Attach(out, q, m, w.child) PROVE After({})
  <2>1. Named(db', q, m, w.child) /\ n \notin DOMAIN Listed(db', p)
    BY <1>1, <1>12 DEF MoveKinds
  <2>2. Agree(Listed(db', q), node', q, m)
    BY <1>2, <1>12, <2>1 DEF Agree, Named
  <2>3. n \notin DOMAIN node'[p].kids
    <3>1. SameEntry(out, node', p, n)
      BY <1>2, <1>5, <1>6 DEF MemoryBut
    <3> QED BY <1>2, <3>1 DEF SameEntry
  <2>4. Agree(Listed(db', p), node', p, n)
    BY <2>1, <2>3 DEF Agree
  <2>5. Only(db, node, db', node', {})
    BY <1>8, <2>2, <2>4, OnlyThese
  <2> QED BY <1>3, <1>7, <1>10, <2>5 DEF After
<1> QED BY <1>11, <1>12 DEF out

LEMMA RenameAfter ==
  ASSUME Kinds, IInv', NEW p \in Dirs, NEW n, NEW q \in Dirs, NEW m, reuses' = reuses
  PROVE  /\ Rename(p, n, q, m) => After({})
         /\ RenameFails(p, n, q, m) => After({<<p, n>>, <<q, m>>})
<1> DEFINE w == Moved(p, n, q, m)
<1>0. w = Moved(p, n, q, m)
  OBVIOUS
<1>1. ASSUME Rename(p, n, q, m) PROVE After({})
  <2>1. /\ Renamable(p, n, q, m) /\ Taken(w.used) /\ job = Idle
        /\ \/ /\ db' = Last(w.trees)
              /\ node' = Attach(Detach(w.node, p, n), q, m, w.child)
              /\ job' = job
           \/ CutShort(w.trees)
    BY <1>1 DEF Rename
  <2> HIDE DEF w
  <2>2. MoveHolds(w, next) /\ MoveKinds(w, p, n, q, m)
    BY <1>0, <2>1, MovedHolds, MovedAfter DEF Kinds
  <2>3. Len(w.trees) = 4
    BY <2>2 DEF MoveHolds
  <2>4. CASE CutShort(w.trees)
    <3>1. \A k \in 1..(Len(w.trees) - 1) : RowsHold(w.trees[k]) /\ RowKinds(w.trees[k])
      BY <2>2, <2>3 DEF MoveHolds, MoveKinds
    <3> QED BY <2>4, <3>1, CutShortAfter
  <2>5. CASE ~CutShort(w.trees)
    <3>1. db' = w.trees[4] /\ job' = Idle /\ 4 \in 1..4
      BY <2>1, <2>3, <2>5 DEF Last
    <3> QED BY <1>0, <2>1, <2>5, <3>1, RenamedAfter
  <2> QED BY <2>4, <2>5
<1>2. ASSUME RenameFails(p, n, q, m) PROVE After({<<p, n>>, <<q, m>>})
  <2> DEFINE out == Detach(w.node, p, n)
  <2>1. Renamable(p, n, q, m) /\ Taken(w.used) /\ job = Idle /\ job' = job
    BY <1>2 DEF RenameFails
  <2>2. PICK k \in 2..4 :
          /\ db' \in {w.trees[k - 1], w.trees[k]}
          /\ node' = IF k = 2 THEN Detach(out, q, m) ELSE Attach(out, q, m, w.child)
    BY <1>2 DEF RenameFails
  <2> HIDE DEF w
  <2>3. PICK l \in 1..4 : db' = w.trees[l]
    BY <2>2
  <2> QED BY <1>0, <2>1, <2>2, <2>3, RenamedAfter
<1> QED BY <1>1, <1>2

-----------------------------------------------------------------------------
(* The clone of a tree, node by node.                                      *)

(* What the rows are after each write of the clone of a node. *)
Cloned(e, t) == RowsHold(e) /\ Grown(db, e, t.parent, t.name, next)

LEMMA CopiedAfter ==
  ASSUME Kinds, job # Idle, NEW t \in job.todo, job.kind \in {"snapshot", "restore"}, Taken(1),
         reuses' = reuses
  PROVE  /\ \A k \in 1..Len(Copied(t)) : Cloned(Copied(t)[k], t)
         /\ t.name \in Name => Named(Last(Copied(t)), t.parent, t.name, next)
         /\ Len(Copied(t)) \in 2..3
         /\ next \notin DOMAIN node /\ next \notin DOMAIN db.meta
<1> DEFINE a == SaveInode(db, next, db.meta[t.src])
           b == SaveDirent(a, t.parent, t.name, next)
           c == SaveRecipe(b, next, Stored(b, t.src))
<1>0. IInv /\ RowKinds(db) /\ JobKinds(db, node, job)
  BY DEF Kinds
<1>1. TaskHolds(db, node, job.kind, t)
  BY <1>0 DEF IInv, JobHolds
<1>2. next \in Ino \ {Root} /\ next \notin DOMAIN node /\ next \notin DOMAIN db.meta
  BY <1>0, OneTaken
<1>3. db.meta[t.src] \in BOOLEAN /\ RowsHold(db)
  BY <1>0, <1>1 DEF TaskHolds, IInv, RowsHold, IsMap
<1>4. Copied(t) = IF db.meta[t.src] THEN <<a, b>> ELSE <<a, b, c>>
  BY DEF Copied
<1>5. b.recipe = db.recipe
  BY DEF SaveDirent, SaveInode, Rows
<1>6. Stored(b, t.src) \in Content
  BY <1>3, <1>5, NoContentAssumption DEF Stored, RowsHold, IsMap
<1>7. Making(db, t.parent, t.name, next, db.meta[t.src], Stored(b, t.src), a, b, c)
  BY <1>1, <1>2, <1>3, <1>6 DEF Making, TaskHolds
<1> HIDE DEF a, b, c
<1>8. RowsHold(a) /\ RowsHold(b) /\ RowsHold(c)
  BY <1>7, RowsMade DEF Knowing
<1>9. t.parent # SnapshotDir /\ db.meta[t.src] => t.name \in DirName
  BY <1>0 DEF JobKinds
<1>10. /\ Grown(db, a, t.parent, t.name, next) /\ Grown(db, b, t.parent, t.name, next)
       /\ Grown(db, c, t.parent, t.name, next)
       /\ t.name \in Name => Named(b, t.parent, t.name, next) /\ Named(c, t.parent, t.name, next)
  BY <1>0, <1>2, <1>7, <1>9, MadeAdds
<1>11. Cloned(a, t) /\ Cloned(b, t) /\ Cloned(c, t)
  BY <1>8, <1>10 DEF Cloned
<1>12. \A k \in 1..Len(Copied(t)) : Cloned(Copied(t)[k], t)
  BY <1>4, <1>11
<1>13. Len(Copied(t)) \in 2..3 /\ Last(Copied(t)) \in {b, c}
  BY <1>3, <1>4 DEF Last
<1> QED BY <1>2, <1>10, <1>12, <1>13

(* A snapshot's clone is out of the way of what clients see. *)
LEMMA CloneUnseen ==
  ASSUME Kinds, job # Idle, NEW t \in job.todo, job.kind = "snapshot", NEW e, RowsBut(db, e, t.parent, t.name)
  PROVE  Only(db, node, e, node, {})
<1>1. t.parent \notin DOMAIN node
  BY DEF Kinds, JobKinds
<1>2. ASSUME NEW r \in DirsIn(node), NEW x \in Name
      PROVE  SameRow(Listed(db, r), Listed(e, r), x) /\ SameEntry(node, node, r, x)
  <2>1. r # t.parent
    BY <1>1, DirsRegistered DEF Kinds, IInv
  <2> QED BY <2>1 DEF RowsBut, SameEntry
<1> QED BY <1>2, OnlyThese

LEMMA CloneAfter ==
  ASSUME Kinds, IInv', job # Idle, NEW t \in job.todo, CloneNode(t), reuses' = reuses
  PROVE  After({})
<1> DEFINE cp == Copied(t)
           e == Last(cp)
           kids == Listed(e, t.src)
           dir == db.meta[t.src]
           new == {Task(kids[n], next, n) : n \in DOMAIN kids}
           todo == (job.todo \ {t}) \cup new
           root == IF t.parent = SnapshotDir THEN next ELSE job.root
           ids == job.ids \cup {next}
           j == Cloning(job.kind, job.name, job.then, todo, ids, root)
           attached == Attach(Put(node, next, Node(next, dir, <<>>)), t.parent, t.name, next)
<1>0. /\ IInv /\ RowKinds(db) /\ MemoryKinds(db, node) /\ JobKinds(db, node, job)
      /\ MemoryHolds(db, node, top, next)
  BY DEF Kinds, IInv
<1>1. /\ job.kind \in {"snapshot", "restore"} /\ Taken(1)
      /\ \/ /\ db' = e /\ job' = j
            /\ node' = IF job.kind = "restore" THEN attached ELSE node
         \/ CutShort(cp)
  BY DEF CloneNode
<1>2. /\ \A k \in 1..Len(cp) : Cloned(cp[k], t)
      /\ t.name \in Name => Named(e, t.parent, t.name, next)
      /\ Len(cp) \in 2..3 /\ next \notin DOMAIN node /\ next \notin DOMAIN db.meta
  BY <1>1, CopiedAfter
<1>3. next \in Nat /\ FirstIno <= next
  BY <1>0, <1>1, OneTaken
<1>4. CASE CutShort(cp)
  <2>1. \A k \in 1..(Len(cp) - 1) : RowsHold(cp[k]) /\ RowKinds(cp[k])
    BY <1>2 DEF Cloned, Grown
  <2> HIDE DEF cp
  <2> QED BY <1>4, <2>1, CutShortAfter
<1>5. CASE ~CutShort(cp)
  <2>1. Cloned(e, t)
    BY <1>2 DEF Last
  <2>2. /\ next \in DOMAIN e.meta /\ e.meta[next] = dir
    <3>1. \A k \in 1..Len(cp) : Knowing(db, next, dir, cp[k])
      BY <1>0, <1>1, CopiedHolds
    <3>2. Knowing(db, next, dir, e)
      BY <1>2, <3>1 DEF Last
    <3> QED BY <3>2 DEF Knowing
  <2> HIDE DEF cp, e, dir
  <2>3. /\ Grown(db, e, t.parent, t.name, next) /\ RowKinds(e) /\ KeepsMeta(db, e)
        /\ RowsBut(db, e, t.parent, t.name) /\ RowsHold(e)
    BY <2>1 DEF Cloned, Grown
  <2>4. \A u \in job.todo : TaskHolds(db, node, job.kind, u)
    BY <1>0 DEF IInv, JobHolds
  <2>5. t.src \in DOMAIN e.meta
    BY <2>3, <2>4 DEF TaskHolds, KeepsMeta
  <2>6. t.parent # SnapshotDir /\ dir => t.name \in DirName
    BY <1>0 DEF JobKinds, dir
  <2>7. MemoryKinds(e, node') /\ Only(db, node, e, node', {})
    <3>1. CASE job.kind = "snapshot"
      <4>1. node' = node
        BY <1>1, <1>5, <3>1
      <4>2. MemoryKinds(e, node)
        BY <1>0, <1>2, <2>3, KindsGrown
      <4> QED BY <2>3, <3>1, <4>1, <4>2, CloneUnseen
    <3>2. CASE job.kind = "restore"
      <4>1. t.parent \in DOMAIN node /\ t.name \in Name
        BY <2>4, <3>2 DEF TaskHolds
      <4>2. t.parent # SnapshotDir
        BY <1>0, <4>1, BoundAssumption DEF MemoryHolds, SnapshotDir, FirstIno, Root
      <4>3. Agrees(db, e, node, next)
        BY <1>2, <2>3 DEF Agrees, Knows, KeepsMeta
      <4>4. MemoryHolds(e, node, top, next)
        BY <1>0, <4>3, MemoryKnows
      <4>5. node' = Attach(Put(node, next, Node(next, dir, <<>>)), t.parent, t.name, next)
        BY <1>1, <1>5, <3>2
      <4>6. Bearing(e, node, top, t.parent, t.name, next, dir, node')
        BY <1>3, <2>2, <4>1, <4>4, <4>5 DEF Bearing
      <4>7. Borne(e, node, top, t.parent, t.name, next, dir, node')
        BY <4>6, ChildBorne
      <4> QED BY <1>0, <1>2, <2>3, <2>6, <4>1, <4>2, <4>6, <4>7, BorneAfter
    <3> QED BY <1>1, <3>1, <3>2
  <2>8. /\ job.kind = "snapshot" => node' = node
        /\ job.kind = "restore" => \A i \in DOMAIN node' : node'[i].ino = i
    <3>1. CASE job.kind = "restore"
      <4>1. t.parent \in DOMAIN node
        BY <2>4, <3>1 DEF TaskHolds
      <4>2. \A i \in DOMAIN node : node[i].ino = i
        BY <1>0, <3>1 DEF JobKinds
      <4> DEFINE nf == Put(node, next, Node(next, dir, <<>>))
      <4>3. node' = Attach(nf, t.parent, t.name, next)
        BY <1>1, <1>5, <3>1
      <4>4. \A i \in DOMAIN nf : nf[i].ino = i
        BY <4>2 DEF Put, Node
      <4>5. t.parent \in DOMAIN nf
        BY <4>1 DEF Put
      <4> HIDE DEF nf
      <4> DEFINE full == Node(nf[t.parent].ino, nf[t.parent].dir, Put(nf[t.parent].kids, t.name, next))
      <4>6. node' = Put(nf, t.parent, full)
        BY <4>3 DEF Attach, WithKids
      <4>7. full.ino = t.parent
        BY <4>4, <4>5 DEF Node
      <4> HIDE DEF full
      <4>8. \A i \in DOMAIN node' : node'[i].ino = i
        BY <4>4, <4>5, <4>6, <4>7 DEF Put
      <4> QED BY <3>1, <4>8
    <3>2. CASE job.kind = "snapshot"
      BY <1>1, <1>5, <3>2
    <3> QED BY <1>1, <3>1, <3>2
  <2>9. j.kind = job.kind /\ j.todo = todo
    BY DEF Cloning
  <2>10. db' = e /\ job' = j
    BY <1>1, <1>5
  <2> HIDE DEF j, todo
  <2>11. ASSUME NEW u \in todo
         PROVE  /\ u.parent # SnapshotDir /\ e.meta[u.src] => u.name \in DirName
                /\ job.kind = "snapshot" => u.parent \notin DOMAIN node'
    <3>1. CASE u \in job.todo
      <4>1. u.src \in DOMAIN db.meta
        BY <2>4, <3>1 DEF TaskHolds
      <4>2. e.meta[u.src] = db.meta[u.src]
        BY <2>3, <4>1 DEF KeepsMeta
      <4> QED BY <1>0, <2>8, <3>1, <4>2 DEF JobKinds
    <3>2. CASE u \in new
      <4>1. PICK n \in DOMAIN kids : u = Task(kids[n], next, n)
        BY <3>2
      <4>2. u.src = kids[n] /\ u.parent = next /\ u.name = n
        BY <4>1 DEF Task
      <4>3. e.meta[kids[n]] => n \in DirName
        BY <2>3, <2>5 DEF RowKinds
      <4> QED BY <1>2, <2>8, <4>2, <4>3
    <3> QED BY <3>1, <3>2 DEF todo
  <2>12. JobKinds(e, node', j)
    BY <2>8, <2>9, <2>11 DEF JobKinds
  <2> QED BY <2>3, <2>7, <2>10, <2>12 DEF After
<1> QED BY <1>4, <1>5

LEMMA CloneFailsAfter ==
  ASSUME Kinds, IInv', job # Idle, NEW t \in job.todo, CloneFails(t), reuses' = reuses
  PROVE  After(IF job.kind = "restore" THEN RootEntries ELSE {})
<1> DEFINE parents == {u.parent : u \in job.todo}
           whole == {n \in Names(Root) : node[Root].kids[n] \notin parents}
           kids == [n \in whole |-> node[Root].kids[n]]
<1>0. /\ IInv /\ RowKinds(db) /\ MemoryKinds(db, node) /\ JobKinds(db, node, job)
      /\ MemoryHolds(db, node, top, next)
  BY DEF Kinds, IInv
<1>1. /\ job.kind \in {"snapshot", "restore"} /\ Taken(1)
      /\ db' = db \/ \E k \in 1..Len(Copied(t)) : db' = Copied(t)[k]
      /\ node' = IF job.kind = "restore" THEN WithKids(node, Root, kids) ELSE node
      /\ job' = Idle
  BY DEF CloneFails
<1>2. db' = db \/ Cloned(db', t)
  BY <1>1, CopiedAfter
<1>3. next \notin DOMAIN node
  BY <1>1, CopiedAfter
<1>4. RowKinds(db') /\ MemoryKinds(db', node) /\ RowsBut(db, db', t.parent, t.name)
  <2>1. CASE db' = db
    BY <1>0, <2>1, RowsButSame
  <2>2. CASE Cloned(db', t)
    BY <1>0, <1>3, <2>2, KindsGrown DEF Cloned, Grown
  <2> QED BY <1>2, <2>1, <2>2
<1>5. JobKinds(db', node', job')
  BY <1>1 DEF JobKinds
<1>6. CASE job.kind = "snapshot"
  <2>1. node' = node
    BY <1>1, <1>6
  <2>2. Only(db, node, db', node', {})
    BY <1>4, <1>6, <2>1, CloneUnseen
  <2> QED BY <1>4, <1>5, <1>6, <2>1, <2>2 DEF After
<1>7. CASE job.kind = "restore"
  <2>1. Root \in DOMAIN node /\ IsMap(node[Root].kids, Name, DOMAIN node)
    BY <1>0 DEF MemoryHolds, NodeHolds
  <2>2. IsMap(kids, Name, DOMAIN node)
    BY <2>1 DEF IsMap, Names
  <2>3. \A i \in DOMAIN node : node[i].ino = i
    BY <1>0, <1>7 DEF JobKinds
  <2>4. ASSUME NEW x \in DOMAIN kids
        PROVE  x \in DOMAIN node[Root].kids /\ kids[x] = node[Root].kids[x] /\ kids[x] # t.parent
    BY DEF Names
  <2>5. node' = WithKids(node, Root, kids)
    BY <1>1, <1>7
  <2> HIDE DEF kids
  <2>6. /\ Keeps(node, node') /\ DOMAIN node' = DOMAIN node /\ node'[Root].kids = kids
        /\ \A i \in DOMAIN node \ {Root} : node'[i] = node[i]
    BY <1>0, <2>1, <2>2, <2>5, WithKidsHolds
  <2>7. \A i \in DOMAIN node : \A x \in DOMAIN node[i].kids : node[i].kids[x] \in DOMAIN node
    BY <1>0 DEF MemoryHolds, NodeHolds, IsMap
  <2>8. MemoryKinds(db', node')
    BY <1>4, <2>4, <2>6, <2>7 DEF MemoryKinds, Keeps
  <2>9. ASSUME NEW r \in DirsIn(node'), r # Root, NEW x \in Name
        PROVE  /\ r \in DirsIn(node) /\ SameRow(Listed(db, r), Listed(db', r), x)
               /\ SameEntry(node, node', r, x)
    <3>1. PICK y \in DOMAIN kids : r = node'[kids[y]].ino /\ node'[r].dir
      BY <2>6, <2>9 DEF DirsIn
    <3>2. kids[y] \in DOMAIN node /\ y \in DOMAIN node[Root].kids /\ kids[y] = node[Root].kids[y]
      BY <2>1, <2>4, <2>7
    <3>3. r = kids[y] /\ r = node[node[Root].kids[y]].ino
      BY <2>3, <2>6, <3>1, <3>2 DEF Keeps
    <3>4. r # t.parent /\ r \in DOMAIN node
      BY <2>4, <3>2, <3>3
    <3>5. node[r].dir
      BY <2>6, <3>1, <3>4 DEF Keeps
    <3>6. r \in DirsIn(node)
      BY <3>2, <3>3, <3>5 DEF DirsIn
    <3>7. SameRow(Listed(db, r), Listed(db', r), x)
      BY <1>4, <3>4 DEF RowsBut
    <3>8. SameEntry(node, node', r, x)
      BY <2>6, <2>7, <2>9, <3>4 DEF SameEntry, Keeps
    <3> QED BY <3>6, <3>7, <3>8
  <2>10. \A x \in Name : In(RootEntries, Root, x)
    BY InAre
  <2>11. Only(db, node, db', node', RootEntries)
    BY <2>9, <2>10, OnlyThese
  <2> QED BY <1>4, <1>5, <1>7, <2>8, <2>11 DEF After
<1> QED BY <1>1, <1>6, <1>7

-----------------------------------------------------------------------------
(* The live tree is taken apart.                                           *)

LEMMA ClearedKinds ==
  ASSUME Kinds, NEW N, NEW e, e = Cleared(N)
  PROVE  /\ RowsHold(e) /\ RowKinds(e) /\ e.meta = db.meta
         /\ \A x \in N : x \notin DOMAIN Listed(e, Root)
         /\ DOMAIN Listed(e, Root) \subseteq DOMAIN Listed(db, Root)
<1> DEFINE gone == {<<Root, n>> : n \in N}
<1>1. e.dirent = [z \in DOMAIN db.dirent \ gone |-> db.dirent[z]]
  BY DEF Cleared, Rows
<1>2. \A x \in N : <<Root, x>> \in gone
  OBVIOUS
<1> HIDE DEF gone
<1>3. ASSUME NEW r, NEW x \in DOMAIN Listed(e, r)
      PROVE  x \in DOMAIN Listed(db, r) /\ Listed(e, r)[x] = Listed(db, r)[x] /\ <<r, x>> \notin gone
  <2>1. <<r, x>> \in DOMAIN e.dirent /\ x \in Name /\ Listed(e, r)[x] = e.dirent[<<r, x>>]
    BY ListedAt
  <2>2. <<r, x>> \in DOMAIN db.dirent /\ <<r, x>> \notin gone /\ e.dirent[<<r, x>>] = db.dirent[<<r, x>>]
    BY <1>1, <2>1
  <2> QED BY <2>1, <2>2, ListedAt
<1>4. RowsHold(e) /\ e.meta = db.meta
  BY ClearedHolds DEF Kinds
<1>5. RowKinds(e)
  <2>1. RowKinds(db)
    BY DEF Kinds
  <2> QED BY <1>3, <1>4, <2>1 DEF RowKinds
<1>6. \A x \in N : x \notin DOMAIN Listed(e, Root)
  BY <1>2, <1>3
<1> QED BY <1>3, <1>4, <1>5, <1>6

LEMMA EmptiedAfter ==
  ASSUME Kinds, IInv', Emptied, job.kind = "clear", job # Idle, RowKinds(db'),
         NEW d, RowsHold(d), RowKinds(d), KeepsMeta(d, db'), job' = Idle \/ job' = CloneBack(d),
         NEW E, \A x \in Name : In(E, Root, x) \/ x \notin DOMAIN Listed(db', Root)
  PROVE  After(E)
<1> DEFINE r == frozen[job.name].root
           kids == Listed(d, r)
           todo == {Task(kids[n], Root, n) : n \in DOMAIN kids}
           j == Cloning("restore", job.name, {}, todo, {}, Root)
<1>1. DOMAIN node' = {Root} /\ node'[Root] = Node(Root, TRUE, <<>>)
  BY DEF Emptied, Put
<1>2. node'[Root].ino = Root /\ node'[Root].dir = TRUE /\ node'[Root].kids = <<>>
  BY <1>1 DEF Node
<1>3. db'.meta[Root] = TRUE
  BY DEF IInv, RowsHold, IsMap
<1>4. MemoryKinds(db', node')
  <2>1. DOMAIN node'[Root].kids = {}
    BY <1>2
  <2>2. db'.meta[Root] = node'[Root].dir
    BY <1>2, <1>3
  <2> QED BY <1>1, <2>1, <2>2 DEF MemoryKinds
<1>5. DirsIn(node') = {Root}
  BY <1>2 DEF DirsIn
<1>6. ASSUME NEW x \in Name, x \notin DOMAIN Listed(db', Root)
      PROVE  Agree(Listed(db', Root), node', Root, x)
  BY <1>2, <1>6 DEF Agree
<1>7. Only(db, node, db', node', E)
  BY <1>5, <1>6, OnlyThese
<1>8. JobKinds(db', node', job')
  <2>1. CASE job' = Idle
    BY <2>1 DEF JobKinds
  <2>2. CASE job' = j
    <3>1. r \in Ino
      BY DEF Kinds, JobNames, IInv, IsMap, FrozenType
    <3>2. r # SnapshotDir
      BY <3>1, BoundAssumption DEF Ino, SnapshotDir, FirstIno, Root
    <3> HIDE DEF r
    <3>3. ASSUME NEW n \in DOMAIN kids PROVE db'.meta[kids[n]] => n \in DirName
      <4>1. r \in DOMAIN d.meta
        BY <3>2, NothingListed
      <4>2. kids[n] \in DOMAIN d.meta
        BY ListedMap DEF IsMap
      <4>3. d.meta[kids[n]] => n \in DirName
        BY <4>1 DEF RowKinds
      <4> QED BY <4>2, <4>3 DEF KeepsMeta
    <3> HIDE DEF kids
    <3>4. ASSUME NEW u \in todo PROVE db'.meta[u.src] => u.name \in DirName
      <4>1. PICK n \in DOMAIN kids : u = Task(kids[n], Root, n)
        OBVIOUS
      <4>2. u.src = kids[n] /\ u.name = n
        BY <4>1 DEF Task
      <4> QED BY <3>3, <4>2
    <3> HIDE DEF todo
    <3>5. j.kind = "restore" /\ j.todo = todo
      BY DEF Cloning
    <3> HIDE DEF j
    <3> QED BY <1>1, <1>2, <2>2, <3>4, <3>5 DEF JobKinds
  <2> QED BY <2>1, <2>2 DEF CloneBack
<1> QED BY <1>4, <1>7, <1>8 DEF After

LEMMA ClearAfter ==
  ASSUME Kinds, IInv', job # Idle
  PROVE  /\ ClearLive => After({})
         /\ ClearFails => After(RootEntries)
<1> DEFINE old == DOMAIN Listed(db, Root)
<1>1. ASSUME NEW N
      PROVE  LET e == Cleared(N)
                 f == SaveInode(e, Root, TRUE)
             IN /\ RowsHold(e) /\ RowKinds(e) /\ RowsHold(f) /\ RowKinds(f) /\ KeepsMeta(e, f)
                /\ (N = old => \A x \in Name : x \notin DOMAIN Listed(f, Root))
  <2> DEFINE e == Cleared(N)
             f == SaveInode(e, Root, TRUE)
  <2>1. /\ RowsHold(e) /\ RowKinds(e) /\ \A x \in N : x \notin DOMAIN Listed(e, Root)
        /\ DOMAIN Listed(e, Root) \subseteq DOMAIN Listed(db, Root)
    BY ClearedKinds
  <2> HIDE DEF e
  <2>2. f.dirent = e.dirent
    BY DEF SaveInode, Rows
  <2>3. Root \in Ino /\ f = SaveInode(e, Root, TRUE)
    BY DEF Ino
  <2> HIDE DEF f
  <2>4. RowsHold(f) /\ Knows(e, f, Root) /\ f.meta[Root] = TRUE
    BY <2>1, <2>3, InodeSaved
  <2>5. KeepsMeta(e, f)
    BY <2>1, <2>4 DEF KeepsMeta, Knows, RowsHold, IsMap
  <2>6. RowKinds(f)
    BY <2>1, <2>2, <2>4, <2>5, RowKindsSame
  <2>7. Listed(f, Root) = Listed(e, Root)
    BY <2>2, ListedSame
  <2>8. N = old => \A x \in Name : x \notin DOMAIN Listed(f, Root)
    BY <2>1, <2>7
  <2> QED BY <2>1, <2>4, <2>5, <2>6, <2>8 DEF e, f
<1>2. \A x \in Name : In(RootEntries, Root, x)
  BY InAre
<1>3. ASSUME ClearLive PROVE After({})
  <2>1. CASE \E N \in (SUBSET old) \ {{}} : Mount(Cleared(N))
    <3>1. PICK N : Mount(Cleared(N))
      BY <2>1
    <3>2. RowsHold(Cleared(N)) /\ RowKinds(Cleared(N))
      BY <1>1
    <3> QED BY <3>1, <3>2, MountAfter
  <2>2. CASE ~ \E N \in (SUBSET old) \ {{}} : Mount(Cleared(N))
    <3> DEFINE d == Cleared(old)
    <3>1. db' = SaveInode(d, Root, TRUE) /\ job' = CloneBack(d) /\ Emptied /\ job.kind = "clear"
      BY <1>3, <2>2 DEF ClearLive
    <3>2. /\ RowsHold(d) /\ RowKinds(d) /\ RowKinds(db') /\ KeepsMeta(d, db')
          /\ \A x \in Name : x \notin DOMAIN Listed(db', Root)
      BY <1>1, <3>1
    <3> HIDE DEF d
    <3> QED BY <3>1, <3>2, EmptiedAfter
  <2> QED BY <2>1, <2>2
<1>4. ASSUME ClearFails PROVE After(RootEntries)
  <2>1. job.kind = "clear" /\ Emptied
    BY <1>4 DEF ClearFails
  <2>2. CASE db' = Cleared(old) /\ job' = Idle
    <3>1. RowsHold(db') /\ RowKinds(db')
      BY <1>1, <2>2
    <3>2. KeepsMeta(db', db')
      BY DEF KeepsMeta
    <3> QED BY <1>2, <2>1, <2>2, <3>1, <3>2, EmptiedAfter
  <2>3. ASSUME NEW n \in old, db' = SaveInode(Cleared(old \ {n}), Root, TRUE), job' = CloneBack(db')
        PROVE  After(RootEntries)
    <3>1. RowsHold(db') /\ RowKinds(db')
      BY <1>1, <2>3
    <3>2. KeepsMeta(db', db')
      BY DEF KeepsMeta
    <3> QED BY <1>2, <2>1, <2>3, <3>1, <3>2, EmptiedAfter
  <2> QED BY <1>4, <2>2, <2>3 DEF ClearFails
<1> QED BY <1>3, <1>4

-----------------------------------------------------------------------------
(* Every step.                                                             *)

LEMMA NoneReused ==
  ASSUME IInv, NEW k \in Nat, Taken(k), reuses' = 0
  PROVE  reuses = 0
<1>1. reuses <= reuses'
  BY TakenCounts
<1>2. reuses \in 0..MaxReuse
  BY DEF IInv
<1> QED BY <1>1, <1>2, BoundAssumption

LEMMA NoneReusedMoving ==
  ASSUME IInv, NEW p \in Dirs, NEW n, NEW q \in Dirs, NEW m,
         Rename(p, n, q, m) \/ RenameFails(p, n, q, m), reuses' = 0
  PROVE  reuses = 0
<1> DEFINE w == Moved(p, n, q, m)
<1>1. Renamable(p, n, q, m) /\ Taken(w.used) /\ w = Moved(p, n, q, m)
  BY DEF Rename, RenameFails
<1> HIDE DEF w
<1>2. w.used \in Nat
  BY <1>1, MovedHolds DEF MoveHolds
<1> QED BY <1>1, <1>2, NoneReused

LEMMA NoneReusedOnce ==
  ASSUME IInv, Taken(1), reuses' = 0
  PROVE  reuses = 0
BY NoneReused

(* Before a step after which nothing was handed out twice, nothing was. *)
Before == IInv /\ IInv' /\ JobNames /\ (reuses = 0 => Kinds) /\ reuses' = 0

LEMMA NextAfter ==
  ASSUME Before, Next
  PROVE  reuses = 0 /\ After({})
<1>0. IInv /\ IInv' /\ (reuses = 0 => Kinds) /\ reuses' = 0
  BY DEF Before
<1>1. ASSUME NEW p \in Dirs \cup FrozenIds, NEW n \in FileName, Create(p, n)
      PROVE  reuses = 0 /\ After({})
  <2>1. p \in Dirs /\ Taken(1)
    BY <1>1 DEF Create
  <2>2. reuses = 0
    BY <1>0, <2>1, NoneReusedOnce
  <2> QED BY <1>0, <1>1, <2>1, <2>2, CreateAfter
<1>2. ASSUME NEW n \in DirName, Mkdir(n)
      PROVE  reuses = 0 /\ After({})
  <2>1. Taken(1)
    BY <1>2 DEF Mkdir
  <2>2. reuses = 0
    BY <1>0, <2>1, NoneReusedOnce
  <2> QED BY <1>0, <1>2, <2>2, MkdirAfter
<1>3. ASSUME NEW p \in Dirs \cup FrozenIds, NEW n \in FileName \cup DirName, Unlink(p, n)
      PROVE  reuses = 0 /\ After({})
  <2>1. p \in Dirs /\ reuses' = reuses /\ n \in Name
    BY <1>3 DEF Unlink, Name
  <2> QED BY <1>0, <1>3, <2>1, UnlinkAfter
<1>4. ASSUME NEW p \in Dirs \cup FrozenIds, NEW q \in Dirs \cup FrozenIds,
             NEW n \in FileName \cup DirName, NEW m \in FileName \cup DirName, Rename(p, n, q, m)
      PROVE  reuses = 0 /\ After({})
  <2>1. p \in Dirs /\ q \in Dirs
    BY <1>4 DEF Rename
  <2>2. reuses = 0
    BY <1>0, <1>4, <2>1, NoneReusedMoving
  <2> QED BY <1>0, <1>4, <2>1, <2>2, RenameAfter
<1>5. ASSUME NEW i, NEW c, Write(i, c)
      PROVE  reuses = 0 /\ After({})
  <2>1. reuses' = reuses
    BY <1>5 DEF Write
  <2> QED BY <1>0, <1>5, <2>1, WriteAfter
<1>6. ASSUME NEW i \in DOMAIN dirty, Flush(i)
      PROVE  reuses = 0 /\ After({})
  <2>1. reuses' = reuses
    BY <1>6 DEF Flush
  <2> QED BY <1>0, <1>6, <2>1, FlushAfter
<1>7. ASSUME NEW s, NEW then, BeginSnapshot(s, then)
      PROVE  reuses = 0 /\ After({})
  <2>1. reuses' = reuses
    BY <1>7 DEF BeginSnapshot
  <2> QED BY <1>0, <1>7, <2>1, BeginAfter
<1>8. ASSUME NEW s, RemoveSnapshot(s)
      PROVE  reuses = 0 /\ After({})
  <2>1. reuses' = reuses
    BY <1>8 DEF RemoveSnapshot
  <2> QED BY <1>0, <1>8, <2>1, RemoveAfter
<1>9. ASSUME job # Idle, NEW t \in job.todo, CloneNode(t)
      PROVE  reuses = 0 /\ After({})
  <2>1. Taken(1)
    BY <1>9 DEF CloneNode
  <2>2. reuses = 0
    BY <1>0, <2>1, NoneReusedOnce
  <2> QED BY <1>0, <1>9, <2>2, CloneAfter
<1>10. ASSUME FinishSnapshot \/ FinishRestore
       PROVE  reuses = 0 /\ After({})
  <2>1. reuses' = reuses
    BY <1>10 DEF FinishSnapshot, FinishRestore
  <2> QED BY <1>0, <1>10, <2>1, FinishAfter
<1>11. ASSUME job # Idle, ClearLive
       PROVE  reuses = 0 /\ After({})
  <2>1. reuses' = reuses
    BY <1>11 DEF ClearLive
  <2> QED BY <1>0, <1>11, <2>1, ClearAfter
<1>12. ASSUME Crash
       PROVE  reuses = 0 /\ After({})
  <2>1. reuses' = reuses
    BY <1>12 DEF Crash
  <2> QED BY <1>0, <1>12, <2>1, CrashAfter
<1>13. ASSUME MakeStep(DirName) PROVE reuses = 0 /\ After({})
  BY <1>1, <1>2, <1>13 DEF MakeStep
<1>14. ASSUME MoveStep(DirName) PROVE reuses = 0 /\ After({})
  BY <1>3, <1>4, <1>14 DEF MoveStep
<1>15. ASSUME WriteStep PROVE reuses = 0 /\ After({})
  BY <1>5, <1>6, <1>15 DEF WriteStep
<1>16. ASSUME SnapshotStep PROVE reuses = 0 /\ After({})
  BY <1>7, <1>8, <1>16 DEF SnapshotStep, TakeSnapshot, Restore
<1>17. ASSUME job # Idle, CloneStep PROVE reuses = 0 /\ After({})
  BY <1>9, <1>10, <1>11, <1>17 DEF CloneStep
<1> QED BY <1>12, <1>13, <1>14, <1>15, <1>16, <1>17 DEF Next

LEMMA FailsAfter ==
  ASSUME Before, RequestFails \/ SnapshotFails
  PROVE  reuses = 0 /\ \E E : After(E) /\ torn' = (torn \cup E) \cap Differing'
<1> DEFINE Torn(E) == torn' = (torn \cup E) \cap Differing'
<1>0. IInv /\ IInv' /\ (reuses = 0 => Kinds) /\ reuses' = 0
  BY DEF Before
<1>1. ASSUME NEW p \in Dirs, NEW n \in FileName, CreateFails(p, n)
      PROVE  reuses = 0 /\ \E E : After(E) /\ Torn(E)
  <2>1. Taken(1) /\ Torn({<<p, n>>})
    BY <1>1 DEF CreateFails, Fails
  <2>2. reuses = 0
    BY <1>0, <2>1, NoneReusedOnce
  <2>3. After({<<p, n>>})
    BY <1>0, <1>1, <2>2, CreateFailsAfter
  <2> HIDE DEF Torn
  <2> QED BY <2>1, <2>2, <2>3
<1>2. ASSUME NEW n \in DirName, MkdirFails(n)
      PROVE  reuses = 0 /\ \E E : After(E) /\ Torn(E)
  <2>1. Taken(1) /\ Torn({<<Root, n>>})
    BY <1>2 DEF MkdirFails, Fails
  <2>2. reuses = 0
    BY <1>0, <2>1, NoneReusedOnce
  <2>3. After({<<Root, n>>})
    BY <1>0, <1>2, <2>2, MkdirFailsAfter
  <2> HIDE DEF Torn
  <2> QED BY <2>1, <2>2, <2>3
<1>3. ASSUME NEW p \in Dirs, NEW n \in Name, UnlinkFails(p, n)
      PROVE  reuses = 0 /\ \E E : After(E) /\ Torn(E)
  <2>1. reuses' = reuses /\ Torn({<<p, n>>})
    BY <1>3 DEF UnlinkFails, Fails
  <2>2. After({<<p, n>>})
    BY <1>0, <1>3, <2>1, UnlinkAfter
  <2> HIDE DEF Torn
  <2> QED BY <1>0, <2>1, <2>2
<1>4. ASSUME NEW p \in Dirs, NEW q \in Dirs, NEW n \in Name, NEW m \in Name, RenameFails(p, n, q, m)
      PROVE  reuses = 0 /\ \E E : After(E) /\ Torn(E)
  <2>1. Torn({<<p, n>>, <<q, m>>})
    BY <1>4 DEF RenameFails, Fails
  <2>2. reuses = 0
    BY <1>0, <1>4, NoneReusedMoving
  <2>3. After({<<p, n>>, <<q, m>>})
    BY <1>0, <1>4, <2>2, RenameAfter
  <2> HIDE DEF Torn
  <2> QED BY <2>1, <2>2, <2>3
<1>5. ASSUME NEW s, RemoveFails(s)
      PROVE  reuses = 0 /\ \E E : After(E) /\ Torn(E)
  <2>1. reuses' = reuses /\ Torn({})
    BY <1>5 DEF RemoveFails, Fails
  <2>2. After({})
    BY <1>0, <1>5, <2>1, RemoveAfter
  <2> HIDE DEF Torn
  <2> QED BY <1>0, <2>1, <2>2
<1>6. ASSUME job # Idle, NEW t \in job.todo, CloneFails(t)
      PROVE  reuses = 0 /\ \E E : After(E) /\ Torn(E)
  <2> DEFINE E == IF job.kind = "restore" THEN RootEntries ELSE {}
  <2>1. Taken(1) /\ Torn(E)
    BY <1>6 DEF CloneFails, Fails
  <2>2. reuses = 0
    BY <1>0, <2>1, NoneReusedOnce
  <2>3. After(E)
    BY <1>0, <1>6, <2>2, CloneFailsAfter
  <2> HIDE DEF Torn, E
  <2> QED BY <2>1, <2>2, <2>3
<1>7. ASSUME FinishFails
      PROVE  reuses = 0 /\ \E E : After(E) /\ Torn(E)
  <2>1. reuses' = reuses /\ Torn({})
    BY <1>7 DEF FinishFails, Fails
  <2>2. After({})
    BY <1>0, <1>7, <2>1, FinishAfter
  <2> HIDE DEF Torn
  <2> QED BY <1>0, <2>1, <2>2
<1>8. ASSUME ClearFails
      PROVE  reuses = 0 /\ \E E : After(E) /\ Torn(E)
  <2>1. reuses' = reuses /\ Torn(RootEntries) /\ job # Idle
    BY <1>8 DEF ClearFails, Fails, Idle
  <2>2. After(RootEntries)
    BY <1>0, <1>8, <2>1, ClearAfter
  <2> HIDE DEF Torn
  <2> QED BY <1>0, <2>1, <2>2
<1> HIDE DEF Torn
<1>9. ASSUME RequestFails PROVE reuses = 0 /\ \E E : After(E) /\ Torn(E)
  BY <1>1, <1>2, <1>3, <1>4, <1>9 DEF RequestFails
<1>10. ASSUME SnapshotFails PROVE reuses = 0 /\ \E E : After(E) /\ Torn(E)
  BY <1>5, <1>6, <1>7, <1>8, <1>10 DEF SnapshotFails
<1> QED BY <1>9, <1>10 DEF Torn

LEMMA NamesKept ==
  ASSUME JobNames, FaultNext
  PROVE  JobNames'
<1>1. ASSUME job' = Idle PROVE JobNames'
  BY <1>1 DEF JobNames
<1>2. ASSUME NEW trees, CutShort(trees) PROVE JobNames'
  BY <1>1, <1>2 DEF CutShort, Mount
<1>3. ASSUME NEW s, NEW then, then \subseteq DOMAIN frozen, BeginSnapshot(s, then)
      PROVE  JobNames'
  <2> DEFINE j == Cloning("snapshot", s, then, {Task(Root, SnapshotDir, s)}, {}, Root)
  <2>1. job' = Idle \/ (job' = j /\ frozen' = frozen)
    BY <1>3 DEF BeginSnapshot, Mount
  <2>2. j.then = then /\ j.kind = "snapshot"
    BY DEF Cloning
  <2> HIDE DEF j
  <2> QED BY <1>1, <1>3, <2>1, <2>2 DEF JobNames
<1>4. ASSUME job # Idle, NEW t \in job.todo, CloneNode(t) PROVE JobNames'
  <2>1. CASE CutShort(Copied(t))
    BY <1>2, <2>1
  <2>2. CASE ~CutShort(Copied(t))
    <3>1. /\ job'.then = job.then /\ job'.kind = job.kind /\ frozen' = frozen
          /\ job.kind \in {"snapshot", "restore"}
      BY <1>4, <2>2 DEF CloneNode, Cloning
    <3> QED BY <1>4, <3>1 DEF JobNames
  <2> QED BY <2>1, <2>2
<1>5. ASSUME FinishSnapshot \/ FinishFails PROVE JobNames'
  <2> DEFINE s == CHOOSE x \in job.then : TRUE
             j == Cloning("clear", s, {}, {}, {}, Root)
             f == Frozen(job.root, job.ids)
  <2>1. /\ job' = Idle \/ (job.then # {} /\ job' = j)
        /\ frozen' = Put(frozen, job.name, f) /\ job # Idle
    BY <1>5 DEF FinishSnapshot, FinishFails, Idle
  <2>2. j.then = {} /\ j.name = s
    BY DEF Cloning
  <2> HIDE DEF f
  <2>3. DOMAIN frozen \subseteq DOMAIN frozen'
    BY <2>1 DEF Put
  <2>4. job.then # {} => s \in DOMAIN frozen
    BY <2>1 DEF JobNames
  <2> HIDE DEF j, s
  <2> QED BY <1>1, <2>1, <2>2, <2>3, <2>4 DEF JobNames
<1>6. ASSUME ClearLive \/ ClearFails PROVE JobNames'
  <2>1. \A d : CloneBack(d).then = {} /\ CloneBack(d).kind = "restore"
    BY DEF CloneBack, Cloning
  <2>2. job' = Idle \/ \E d : job' = CloneBack(d)
    BY <1>6 DEF ClearLive, ClearFails, Mount
  <2> QED BY <1>1, <2>1, <2>2 DEF JobNames
<1>7. ASSUME MakeStep(DirName) \/ MoveStep(DirName) \/ WriteStep PROVE JobNames'
  <2>1. ASSUME NEW p, NEW n, Create(p, n) PROVE JobNames'
    BY <1>1, <1>2, <2>1 DEF Create
  <2>2. ASSUME NEW n, Mkdir(n) PROVE JobNames'
    BY <1>1, <1>2, <2>2 DEF Mkdir
  <2>3. ASSUME NEW p, NEW n, Unlink(p, n) PROVE JobNames'
    BY <1>1, <2>3 DEF Unlink
  <2>4. ASSUME NEW p, NEW n, NEW q, NEW m, Rename(p, n, q, m) PROVE JobNames'
    BY <1>1, <1>2, <2>4 DEF Rename
  <2>5. ASSUME NEW i, NEW c, Write(i, c) PROVE JobNames'
    BY <1>1, <2>5 DEF Write
  <2>6. ASSUME NEW i, Flush(i) PROVE JobNames'
    <3>1. job' = Idle \/ \E trees : CutShort(trees)
      BY <2>6 DEF Flush
    <3> QED BY <1>1, <1>2, <3>1
  <2> QED BY <1>7, <2>1, <2>2, <2>3, <2>4, <2>5, <2>6 DEF MakeStep, MoveStep, WriteStep
<1>8. ASSUME SnapshotStep PROVE JobNames'
  <2>1. ASSUME NEW s, RemoveSnapshot(s) PROVE JobNames'
    BY <1>1, <2>1 DEF RemoveSnapshot
  <2> QED BY <1>3, <1>8, <2>1 DEF SnapshotStep, TakeSnapshot, Restore
<1>9. ASSUME Next PROVE JobNames'
  <2>1. ASSUME Crash PROVE JobNames'
    BY <1>1, <2>1 DEF Crash, Mount
  <2>2. ASSUME job # Idle, CloneStep PROVE JobNames'
    <3>1. ASSUME FinishRestore PROVE JobNames'
      BY <1>1, <3>1 DEF FinishRestore
    <3> QED BY <1>4, <1>5, <1>6, <2>2, <3>1 DEF CloneStep
  <2> QED BY <1>7, <1>8, <1>9, <2>1, <2>2 DEF Next
<1>10. ASSUME RequestFails \/ SnapshotFails PROVE JobNames'
  <2>1. ASSUME NEW s, RemoveFails(s) PROVE JobNames'
    BY <1>1, <2>1 DEF RemoveFails
  <2>2. ASSUME NEW t, CloneFails(t) PROVE JobNames'
    BY <1>1, <2>2 DEF CloneFails
  <2>3. ASSUME NEW p, NEW n, CreateFails(p, n) PROVE JobNames'
    BY <1>1, <2>3 DEF CreateFails
  <2>4. ASSUME NEW n, MkdirFails(n) PROVE JobNames'
    BY <1>1, <2>4 DEF MkdirFails
  <2>5. ASSUME NEW p, NEW n, UnlinkFails(p, n) PROVE JobNames'
    BY <1>1, <2>5 DEF UnlinkFails
  <2>6. ASSUME NEW p, NEW n, NEW q, NEW m, RenameFails(p, n, q, m) PROVE JobNames'
    BY <1>1, <2>6 DEF RenameFails
  <2>7. ASSUME RequestFails PROVE JobNames'
    BY <2>3, <2>4, <2>5, <2>6, <2>7 DEF RequestFails
  <2>8. ASSUME SnapshotFails PROVE JobNames'
    BY <1>5, <1>6, <2>1, <2>2, <2>8 DEF SnapshotFails
  <2> QED BY <1>10, <2>7, <2>8
<1> QED BY <1>9, <1>10 DEF FaultNext, NoError

-----------------------------------------------------------------------------
(* What holds at every step.                                               *)

KInv ==
  /\ IInv /\ JobNames /\ faults \in Nat
  /\ reuses = 0 => Kinds /\ Differing \subseteq torn

LEMMA EntriesInit == FaultInit => KInv
<1> SUFFICES ASSUME FaultInit PROVE KInv
  OBVIOUS
<1> DEFINE d == Rows(<<>>, <<>>, <<>>, <<>>)
<1>1. /\ db = SaveInode(d, Root, TRUE) /\ job = Idle
      /\ node = Put(<<>>, Root, Node(Root, TRUE, <<>>))
  BY DEF FaultInit, Init, Empty
<1>2. d.dirent = <<>> /\ d.meta = <<>>
  BY DEF Rows
<1> HIDE DEF d
<1>3. db.dirent = <<>> /\ db.meta = Put(<<>>, Root, TRUE)
  BY <1>1, <1>2 DEF SaveInode, Rows
<1>4. DOMAIN <<>> = {}
  OBVIOUS
<1>5. DOMAIN db.meta = {Root} /\ db.meta[Root] = TRUE
  BY <1>3, <1>4 DEF Put
<1>6. DOMAIN db.dirent = {}
  BY <1>3
<1>7. ASSUME NEW p PROVE DOMAIN Listed(db, p) = {}
  BY <1>6, ListedAt
<1>8. DOMAIN node = {Root} /\ node[Root] = Node(Root, TRUE, <<>>)
  BY <1>1, <1>4 DEF Put
<1>9. node[Root].dir = TRUE /\ node[Root].kids = <<>>
  BY <1>8 DEF Node
<1>10. DOMAIN node[Root].kids = {}
  BY <1>9
<1>11. RowKinds(db)
  BY <1>7 DEF RowKinds
<1>12. MemoryKinds(db, node)
  BY <1>5, <1>8, <1>9, <1>10 DEF MemoryKinds
<1>13. JobNames /\ JobKinds(db, node, job)
  BY <1>1 DEF JobNames, JobKinds
<1>14. IInv
  BY InitHolds DEF FaultInit
<1>15. DirsIn(node) = {Root}
  BY <1>10 DEF DirsIn
<1>16. ASSUME NEW e \in Differing PROVE FALSE
  <2>1. e[1] = Root /\ ~Agree(Listed(db, e[1]), node, e[1], e[2])
    BY <1>15, DifferingAre, DirsAre
  <2>2. DOMAIN Listed(db, Root) = {}
    BY <1>7
  <2> QED BY <1>10, <2>1, <2>2 DEF Agree
<1>17. faults \in Nat
  BY DEF FaultInit
<1> QED BY <1>11, <1>12, <1>13, <1>14, <1>16, <1>17 DEF KInv, Kinds

LEMMA FailsCounted == ASSUME RequestFails \/ SnapshotFails PROVE faults' = faults + 1
<1>1. ASSUME RequestFails PROVE faults' = faults + 1
  BY <1>1 DEF RequestFails, CreateFails, MkdirFails, UnlinkFails, RenameFails, Fails
<1>2. ASSUME SnapshotFails PROVE faults' = faults + 1
  BY <1>2 DEF SnapshotFails, RemoveFails, CloneFails, FinishFails, ClearFails, Fails
<1> QED BY <1>1, <1>2

LEMMA EntriesStep == ASSUME KInv, FaultNext PROVE KInv'
<1>1. IInv' /\ JobNames'
  BY FaultHolds, NamesKept DEF KInv
<1>2. ASSUME reuses' = 0
      PROVE  reuses = 0 /\ \E E : After(E) /\ torn' = (torn \cup E) \cap Differing'
  <2>1. Before
    BY <1>1, <1>2 DEF Before, KInv
  <2>2. CASE NoError(Next)
    <3>1. reuses = 0 /\ After({})
      BY <2>1, <2>2, NextAfter DEF NoError
    <3>2. torn' = (torn \cup {}) \cap Differing'
      BY <2>2 DEF NoError
    <3> QED BY <3>1, <3>2
  <2>3. CASE RequestFails \/ SnapshotFails
    BY <2>1, <2>3, FailsAfter
  <2> QED BY <2>2, <2>3 DEF FaultNext
<1>3. ASSUME reuses' = 0 PROVE Kinds' /\ Differing' \subseteq torn'
  <2>1. PICK E : After(E) /\ torn' = (torn \cup E) \cap Differing'
    BY <1>2, <1>3
  <2>2. Kinds'
    BY <1>1, <2>1 DEF Kinds, After
  <2>3. Differing \subseteq torn
    BY <1>2, <1>3 DEF KInv
  <2>4. Only(db, node, db', node', E)
    BY <2>1 DEF After
  <2> QED BY <2>1, <2>2, <2>3, <2>4, EntriesKept
<1>4. faults' \in Nat
  BY FailsCounted DEF KInv, FaultNext, NoError
<1> QED BY <1>1, <1>3, <1>4 DEF KInv

LEMMA EntriesStutter == ASSUME KInv, UNCHANGED faultVars PROVE KInv'
<1>1. /\ IInv' /\ db' = db /\ node' = node /\ job' = job /\ frozen' = frozen /\ reuses' = reuses
      /\ torn' = torn /\ faults' = faults
  BY StutterHolds DEF KInv, faultVars, vars
<1>2. Differing' = Differing
  BY <1>1, DifferingAre, DirsAre
<1>3. JobNames' = JobNames
  BY <1>1 DEF JobNames
<1>4. Kinds => Kinds'
  BY <1>1, <1>3 DEF Kinds
<1>5. faults' \in Nat
  BY <1>1 DEF KInv
<1> QED BY <1>1, <1>2, <1>3, <1>4, <1>5 DEF KInv

(* Names given or taken away by a request without errors agree after it. *)
Repairs ==
  faults' = faults /\ reuses' = 0 =>
    \A e \in torn \cap torn' : (e[2] \in Names(e[1])) = (e[2] \in Names(e[1]))'

LEMMA StepRepairs == ASSUME KInv, FaultNext PROVE Repairs
<1> SUFFICES ASSUME faults' = faults, reuses' = 0, NEW e \in torn'
             PROVE  e[2] \in Names(e[1]) <=> (e[2] \in Names(e[1]))'
  BY DEF Repairs
<1>1. NoError(Next)
  <2>1. faults \in Nat
    BY DEF KInv
  <2>2. faults' # faults + 1
    BY <2>1
  <2> QED BY <2>2, FailsCounted DEF FaultNext
<1>2. Before
  BY FaultHolds DEF Before, KInv
<1>3. Only(db, node, db', node', {})
  BY <1>1, <1>2, NextAfter DEF NoError, After
<1>4. e \in Differing'
  BY <1>1 DEF NoError
<1>5. PICK r \in DirsIn(node'), x \in Name :
        e = <<r, x>> /\ ~Agree(Listed(db', r), node', r, x)
  BY <1>4, DifferingAre, DirsAre
<1>6. ~In({}, r, x)
  BY InAre
<1>7. x \in DOMAIN node'[r].kids <=> x \in DOMAIN node[r].kids
  BY <1>3, <1>5, <1>6 DEF Only
<1> QED BY <1>5, <1>7 DEF Names

(* Between requests, as long as no id was handed out twice, disk and       *)
(* memory agree about every entry but those a failed request was about:    *)
(* whatever errors occur and wherever the process dies.                    *)
THEOREM EntriesAreDurable == FaultSpec => []EntriesDurable
<1>1. FaultInit => KInv
  BY EntriesInit
<1>2. KInv /\ [FaultNext]_faultVars => KInv'
  BY EntriesStep, EntriesStutter
<1>3. KInv => EntriesDurable
  BY DEF KInv, EntriesDurable
<1> QED BY <1>1, <1>2, <1>3, PTL DEF FaultSpec

(* An entry in which disk and memory differ after an error stays so only   *)
(* as long as no request without errors gives its name to something or     *)
(* takes it away.                                                          *)
THEOREM RequestsRepair == FaultSpec => NextRequestRepairs
<1>1. FaultInit => KInv
  BY EntriesInit
<1>2. KInv /\ [FaultNext]_faultVars => KInv'
  BY EntriesStep, EntriesStutter
<1>3. KInv /\ [FaultNext]_faultVars =>
        [ faults' = faults /\ reuses' = 0 =>
            \A e \in torn \cap torn' :
              (e[2] \in Names(e[1])) = (e[2] \in Names(e[1]))' ]_faultVars
  BY StepRepairs DEF Repairs
<1> QED BY <1>1, <1>2, <1>3, PTL DEF FaultSpec, NextRequestRepairs
=============================================================================
