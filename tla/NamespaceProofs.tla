-------------------------- MODULE NamespaceProofs ---------------------------
(***************************************************************************)
(* Proofs about Namespace and NamespaceFaults, for every set of names and  *)
(* contents and every bound.                                               *)
(***************************************************************************)
EXTENDS NamespaceFaults, FiniteSetTheorems, WellFoundedInduction, TLAPS

(* A set of natural numbers that is not empty has a least element.         *)
LEMMA LeastNatural ==
  ASSUME NEW S \in SUBSET Nat, S # {}
  PROVE  \E n \in S : \A m \in S : n <= m
<1>1. PICK n \in S : \A m \in S : ~ (<<m, n>> \in OpToRel(<, Nat))
  BY NatLessThanWellFounded, WFMin
<1>2. \A m \in S : ~ (m < n)
  BY <1>1 DEF OpToRel
<1> QED BY <1>2

(* What holds of a number whenever it holds of all smaller ones holds of   *)
(* every number: the set of exceptions has no least element.               *)
LEMMA NoLeastException ==
  ASSUME NEW S, \A n \in Nat : (\A m \in Nat : m < n => m \in S) => n \in S
  PROVE  Nat \subseteq S
<1> SUFFICES ASSUME Nat \ S # {} PROVE FALSE
  OBVIOUS
<1>1. PICK n \in Nat \ S : \A m \in Nat \ S : n <= m
  BY LeastNatural
<1>2. \A m \in Nat : m < n => m \in S
  BY <1>1
<1> QED BY <1>1, <1>2

-----------------------------------------------------------------------------
(* What a mount reaches.                                                   *)

(* One level more of the tree: the entries of the directories in I. *)
Entered(d, I) == {d.dirent[e] : e \in {x \in DOMAIN d.dirent : x[1] \in I}}
Level(d, dirs, w) == w \cup Entered(d, w \cap dirs)

IsLevels(f, n, d, r, dirs) ==
  f = [k \in 0..n |-> IF k = 0 THEN {r} ELSE Level(d, dirs, f[k - 1])]

LEMMA LevelsExist ==
  ASSUME NEW d, NEW r, NEW dirs, NEW N \in Nat
  PROVE  \E f : IsLevels(f, N, d, r, dirs)
<1> DEFINE Up(w) == Level(d, dirs, w)
           Is(f, n) == f = [k \in 0..n |-> IF k = 0 THEN {r} ELSE Up(f[k - 1])]
           M == {n \in Nat : \E f : Is(f, n)}
<1> HIDE DEF Up, M
<1>1. ASSUME NEW n \in Nat, \A m \in Nat : m < n => m \in M
      PROVE  n \in M
  <2>1. CASE n = 0
    <3> DEFINE f == [k \in 0..0 |-> {r}]
    <3>1. Is(f, 0)
      OBVIOUS
    <3> QED BY <2>1, <3>1 DEF M
  <2>2. CASE n > 0
    <3>1. n - 1 \in Nat /\ n - 1 \in M
      BY <1>1, <2>2
    <3>2. PICK g : Is(g, n - 1)
      BY <3>1 DEF M
    <3> DEFINE f == [k \in 0..n |-> IF k = n THEN Up(g[n - 1]) ELSE g[k]]
    <3>3. \A k \in 0..(n - 1) : f[k] = g[k]
      OBVIOUS
    <3>4. \A k \in 0..(n - 1) : g[k] = IF k = 0 THEN {r} ELSE Up(g[k - 1])
      BY <3>2
    <3>5. f[n] = Up(g[n - 1])
      OBVIOUS
    <3>6. f = [k \in 0..n |-> f[k]]
      OBVIOUS
    <3> HIDE DEF f
    <3>7. ASSUME NEW k \in 0..n
          PROVE  f[k] = IF k = 0 THEN {r} ELSE Up(f[k - 1])
      <4>1. CASE k = n
        BY <2>2, <3>3, <3>5, <4>1
      <4>2. CASE k < n
        <5>1. k \in 0..(n - 1) /\ (k > 0 => k - 1 \in 0..(n - 1))
          BY <4>2
        <5> QED BY <3>3, <3>4, <5>1
      <4> QED BY <4>1, <4>2
    <3>8. Is(f, n)
      BY <3>6, <3>7
    <3> QED BY <3>8 DEF M
  <2> QED BY <2>1, <2>2
<1>2. N \in M
  BY <1>1, NoLeastException
<1> QED BY <1>2 DEF M, Up, IsLevels

LEMMA ReachedRun ==
  ASSUME NEW d, NEW r, NEW dirs, IsFiniteSet(DOMAIN d.dirent)
  PROVE  \E f : LET n == Cardinality(DOMAIN d.dirent)
                IN /\ n \in Nat /\ Reached(d, r, dirs) = f[n] /\ f[0] = {r}
                   /\ \A k \in 1..n : f[k] = Level(d, dirs, f[k - 1])
<1> DEFINE n == Cardinality(DOMAIN d.dirent)
           kids(I) == {d.dirent[e] : e \in {x \in DOMAIN d.dirent : x[1] \in I}}
           Is(f) == f = [k \in 0..n |->
                           IF k = 0 THEN {r}
                           ELSE LET above == f[k - 1] IN above \cup kids(above \cap dirs)]
           g == CHOOSE f : Is(f)
<1>1. n \in Nat
  BY FS_CardinalityType
<1>2. Reached(d, r, dirs) = g[n]
  BY DEF Reached
<1>3. \A f : Is(f) <=> IsLevels(f, n, d, r, dirs)
  BY DEF IsLevels, Level, Entered
<1>4. \E f : IsLevels(f, n, d, r, dirs)
  BY <1>1, LevelsExist
<1>5. Is(g)
  BY <1>3, <1>4
<1> HIDE DEF g, Is
<1>6. IsLevels(g, n, d, r, dirs)
  BY <1>3, <1>5
<1>7. \A k \in 0..n : g[k] = IF k = 0 THEN {r} ELSE Level(d, dirs, g[k - 1])
  BY <1>6 DEF IsLevels
<1>8. g[0] = {r} /\ \A k \in 1..n : g[k] = Level(d, dirs, g[k - 1])
  BY <1>1, <1>7
<1> QED BY <1>1, <1>2, <1>8

(* What is reached is the id one starts from and ids some entry leads to.  *)
LEMMA ReachedWithin ==
  ASSUME NEW d, NEW r, NEW dirs, IsFiniteSet(DOMAIN d.dirent)
  PROVE  /\ r \in Reached(d, r, dirs)
         /\ Reached(d, r, dirs) \subseteq {r} \cup {d.dirent[e] : e \in DOMAIN d.dirent}
<1> DEFINE n == Cardinality(DOMAIN d.dirent)
           X == {r} \cup {d.dirent[e] : e \in DOMAIN d.dirent}
<1>1. PICK f : /\ n \in Nat /\ Reached(d, r, dirs) = f[n] /\ f[0] = {r}
               /\ \A k \in 1..n : f[k] = Level(d, dirs, f[k - 1])
  BY ReachedRun
<1> DEFINE M == {k \in Nat : k <= n => r \in f[k] /\ f[k] \subseteq X}
<1> HIDE DEF n, M
<1>2. ASSUME NEW k \in Nat, \A j \in Nat : j < k => j \in M
      PROVE  k \in M
  <2>1. CASE k = 0
    BY <1>1, <2>1 DEF M
  <2>2. CASE 0 < k /\ k <= n
    <3>1. k - 1 \in M /\ k \in 1..n /\ k - 1 <= n
      BY <1>1, <1>2, <2>2
    <3>2. f[k] = Level(d, dirs, f[k - 1]) /\ r \in f[k - 1] /\ f[k - 1] \subseteq X
      BY <1>1, <3>1 DEF M
    <3> QED BY <3>2 DEF M, Level, Entered
  <2>3. CASE k > n
    BY <1>1, <2>3 DEF M
  <2> QED BY <1>1, <2>1, <2>2, <2>3
<1>3. n \in M
  BY <1>1, <1>2, NoLeastException
<1> QED BY <1>1, <1>3 DEF M

(* A mount stops looking when it has been through as many levels as there  *)
(* are entries: every level but the last adds an id, and each id but the   *)
(* first has an entry.  So what is reached has all its entries reached.    *)
LEMMA ReachedClosed ==
  ASSUME NEW d, NEW r, NEW dirs, IsFiniteSet(DOMAIN d.dirent)
  PROVE  Entered(d, Reached(d, r, dirs) \cap dirs) \subseteq Reached(d, r, dirs)
<1> DEFINE n == Cardinality(DOMAIN d.dirent)
           E == {d.dirent[e] : e \in DOMAIN d.dirent}
           X == E \cup {r}
           Closed(w) == Entered(d, w \cap dirs) \subseteq w
<1>1. PICK f : /\ n \in Nat /\ Reached(d, r, dirs) = f[n] /\ f[0] = {r}
               /\ \A k \in 1..n : f[k] = Level(d, dirs, f[k - 1])
  BY ReachedRun
<1>2. IsFiniteSet(X) /\ Cardinality(X) <= n + 1
  <2> DEFINE g == [e \in DOMAIN d.dirent |-> d.dirent[e]]
  <2>1. g \in Surjection(DOMAIN d.dirent, E)
    BY DEF Surjection
  <2>2. IsFiniteSet(E) /\ Cardinality(E) <= n
    BY <2>1, FS_Surjection
  <2>3. Cardinality(E) \in Nat
    BY <2>2, FS_CardinalityType
  <2>4. IsFiniteSet(X) /\ Cardinality(X) = IF r \in E THEN Cardinality(E) ELSE Cardinality(E) + 1
    BY <2>2, FS_AddElement
  <2> HIDE DEF E, X, n
  <2> QED BY <1>1, <2>2, <2>3, <2>4
<1> DEFINE Good(k) == f[k] \subseteq X /\ (Closed(f[k]) \/ Cardinality(f[k]) >= k + 1)
           M == {k \in Nat : k <= n => Good(k)}
<1>3. \A w : Entered(d, w \cap dirs) \subseteq X
  BY DEF Entered
<1> HIDE DEF n, M, E, X, Closed, Good
<1>4. ASSUME NEW k \in Nat, \A j \in Nat : j < k => j \in M
      PROVE  k \in M
  <2>1. CASE k = 0
    <3>1. Cardinality({r}) = 1 /\ {r} \subseteq X
      BY FS_Singleton DEF X
    <3> QED BY <1>1, <2>1, <3>1 DEF M, Good
  <2>2. CASE 0 < k /\ k <= n
    <3> DEFINE a == f[k - 1]
               b == f[k]
    <3>1. k - 1 \in M /\ k \in 1..n /\ k - 1 <= n
      BY <1>1, <1>4, <2>2
    <3>2. b = a \cup Entered(d, a \cap dirs)
      BY <1>1, <3>1 DEF Level
    <3>3. Good(k - 1)
      BY <3>1 DEF M
    <3> HIDE DEF b
    <3>4. CASE Closed(a)
      <4>1. b = a
        BY <3>2, <3>4 DEF Closed
      <4> QED BY <3>3, <3>4, <4>1 DEF M, Good, b
    <3>5. CASE ~Closed(a)
      <4>1. a \subseteq X /\ Cardinality(a) >= k
        BY <3>3, <3>5 DEF Good
      <4> HIDE DEF a
      <4>2. PICK x \in b : x \notin a
        BY <3>2, <3>5 DEF Closed
      <4>3. b \subseteq X
        BY <1>3, <3>2, <4>1
      <4>4. IsFiniteSet(b) /\ IsFiniteSet(a)
        BY <1>2, <4>1, <4>3, FS_Subset
      <4>5. Cardinality(a \cup {x}) = Cardinality(a) + 1 /\ IsFiniteSet(a \cup {x})
        BY <4>2, <4>4, FS_AddElement
      <4>6. a \cup {x} \in SUBSET b
        BY <3>2, <4>2
      <4>7. Cardinality(a \cup {x}) <= Cardinality(b)
        BY <4>4, <4>6, FS_Subset
      <4>8. Cardinality(a) \in Nat /\ Cardinality(b) \in Nat
        BY <4>4, FS_CardinalityType
      <4>9. Cardinality(b) >= k + 1
        BY <4>1, <4>5, <4>7, <4>8
      <4> QED BY <4>3, <4>9 DEF M, Good, b
    <3> QED BY <3>4, <3>5
  <2>3. CASE k > n
    BY <1>1, <2>3 DEF M
  <2> QED BY <1>1, <2>1, <2>2, <2>3
<1>5. n \in M
  BY <1>1, <1>4, NoLeastException
<1>6. Good(n)
  BY <1>1, <1>5 DEF M
<1>7. CASE Cardinality(f[n]) >= n + 1
  <2>1. f[n] \in SUBSET X
    BY <1>6 DEF Good
  <2>2. IsFiniteSet(f[n]) /\ Cardinality(f[n]) <= Cardinality(X)
        /\ (Cardinality(X) = Cardinality(f[n]) => X = f[n])
    BY <1>2, <2>1, FS_Subset
  <2>3. Cardinality(f[n]) \in Nat /\ Cardinality(X) \in Nat
    BY <1>2, <2>2, FS_CardinalityType
  <2>4. X = f[n]
    BY <1>1, <1>2, <1>7, <2>2, <2>3
  <2> QED BY <1>1, <1>3, <2>4
<1> QED BY <1>1, <1>6, <1>7 DEF Good, Closed

-----------------------------------------------------------------------------
(* The inductive invariant of the types.                                   *)

SnapLabel == SnapName \cup BackupName
Label == Name \cup SnapLabel

(* The root is a directory, every entry is in something that has metadata, *)
(* or in .snapshots, and leads to something that has.                      *)
RowsHold(d) ==
  /\ d = Rows(d.meta, d.dirent, d.recipe, d.snap)
  /\ IsMap(d.meta, Ino, BOOLEAN) /\ Root \in DOMAIN d.meta /\ d.meta[Root]
  /\ IsMap(d.dirent, (DOMAIN d.meta \cup {SnapshotDir}) \X Label, DOMAIN d.meta)
  /\ IsFiniteSet(DOMAIN d.dirent)
  /\ IsMap(d.recipe, Ino, Content)
  /\ IsMap(d.snap, SnapLabel, Ino)

(* What the kernel calls j is registered under j, of the kind its row has. *)
KernelKnows(d, nd, j, dir) ==
  /\ j \in DOMAIN nd /\ nd[j].ino = j /\ nd[j].dir = dir
  /\ j \in DOMAIN d.meta /\ d.meta[j] = dir
NodeHolds(d, nd, i) ==
  /\ nd[i] = Node(nd[i].ino, nd[i].dir, nd[i].kids)
  /\ KernelKnows(d, nd, nd[i].ino, nd[i].dir)
  /\ IsMap(nd[i].kids, Name, DOMAIN nd)
MemoryHolds(d, nd, tp, nx) ==
  /\ Root \in DOMAIN nd /\ nd[Root].ino = Root
  /\ DOMAIN nd \subseteq {Root} \cup FirstIno..(nx - 1)
  /\ \A i \in DOMAIN nd : NodeHolds(d, nd, i)
  /\ tp.shared \in BOOLEAN /\ IsMap(tp.kids, Name, DOMAIN nd)

(* A task of a clone is about something that has metadata, and in a        *)
(* restore it goes into the registry.                                      *)
TaskHolds(d, nd, kind, t) ==
  /\ t = Task(t.src, t.parent, t.name)
  /\ t.src \in DOMAIN d.meta
  /\ t.parent \in DOMAIN d.meta \cup {SnapshotDir} /\ t.name \in Label
  /\ kind = "restore" => /\ t.parent \in DOMAIN nd /\ t.name \in Name
                         /\ nd[t.parent].ino = t.parent
JobHolds(d, nd, j) ==
  \/ j = Idle
  \/ /\ j = Cloning(j.kind, j.name, j.then, j.todo, j.ids, j.root)
     /\ j.kind \in {"snapshot", "clear", "restore"}
     /\ j.name \in SnapLabel /\ j.then \subseteq SnapLabel
     /\ j.ids \subseteq Ino /\ j.root \in Ino
     /\ \A t \in j.todo : TaskHolds(d, nd, j.kind, t)

FrozenType == [root : Ino, ids : SUBSET Ino]
IInv ==
  /\ RowsHold(db)
  /\ MemoryHolds(db, node, top, next)
  /\ IsMap(frozen, SnapLabel, FrozenType)
  /\ IsMap(dirty, DOMAIN node, Content)
  /\ next \in FirstIno..(LastIno + 1)
  /\ JobHolds(db, node, job)
  /\ reuses \in 0..MaxReuse

LEMMA TypesFollow == IInv => TypeOK
<1> SUFFICES ASSUME IInv PROVE TypeOK
  OBVIOUS
<1> USE DEF IInv
<1>1. /\ IsMap(db.meta, Ino, BOOLEAN) /\ IsMap(db.recipe, Ino, Content)
      /\ IsMap(db.snap, SnapLabel, Ino)
  BY DEF RowsHold
<1>2. IsMap(db.dirent, (Ino \cup {SnapshotDir}) \X Label, Ino)
  BY DEF RowsHold, IsMap
<1>3. DOMAIN node \subseteq DOMAIN db.meta \cup FirstIno..(next - 1)
  BY DEF MemoryHolds, RowsHold
<1>4. \A i \in DOMAIN node :
        /\ node[i].ino \in DOMAIN node /\ node[i].dir \in BOOLEAN
        /\ IsMap(node[i].kids, Name, DOMAIN node)
  BY DEF MemoryHolds, NodeHolds, KernelKnows, RowsHold, IsMap
<1>5. top.shared \in BOOLEAN /\ IsMap(top.kids, Name, DOMAIN node)
  BY DEF MemoryHolds
<1>6. job.kind \in {"idle", "snapshot", "clear", "restore"}
  BY DEF JobHolds, Idle
<1> QED BY <1>1, <1>2, <1>3, <1>4, <1>5, <1>6 DEF TypeOK, SnapLabel, Label, FrozenType

-----------------------------------------------------------------------------
(* The rows after each write.                                              *)

(* The rows e know what d knew, of the same kind, but for the kind of x. *)
Knows(d, e, x) ==
  DOMAIN d.meta \subseteq DOMAIN e.meta /\ \A j \in DOMAIN d.meta \ {x} : e.meta[j] = d.meta[j]

LEMMA InodeSaved ==
  ASSUME NEW d, RowsHold(d), NEW i \in Ino, NEW dir \in BOOLEAN, i = Root => dir,
         NEW e, e = SaveInode(d, i, dir)
  PROVE  /\ RowsHold(e) /\ Knows(d, e, i)
         /\ i \in DOMAIN e.meta /\ e.meta[i] = dir
         /\ e.dirent = d.dirent /\ e.recipe = d.recipe /\ e.snap = d.snap
<1>1. /\ e.meta = Put(d.meta, i, dir)
      /\ e.dirent = d.dirent /\ e.recipe = d.recipe /\ e.snap = d.snap
      /\ e = Rows(e.meta, e.dirent, e.recipe, e.snap)
  BY DEF SaveInode, Rows
<1>2. DOMAIN e.meta = DOMAIN d.meta \cup {i} /\ \A j \in DOMAIN e.meta : e.meta[j] = IF j = i THEN dir ELSE d.meta[j]
  BY <1>1 DEF Put
<1>3. IsMap(e.meta, Ino, BOOLEAN)
  BY <1>1, <1>2 DEF RowsHold, IsMap, Put
<1>4. IsMap(e.dirent, (DOMAIN e.meta \cup {SnapshotDir}) \X Label, DOMAIN e.meta)
  BY <1>1, <1>2 DEF RowsHold, IsMap
<1> QED BY <1>1, <1>2, <1>3, <1>4 DEF RowsHold, Knows

LEMMA DirentSaved ==
  ASSUME NEW d, RowsHold(d), NEW p \in DOMAIN d.meta \cup {SnapshotDir}, NEW n \in Label,
         NEW i \in DOMAIN d.meta, NEW e, e = SaveDirent(d, p, n, i)
  PROVE  RowsHold(e) /\ e.meta = d.meta /\ e.recipe = d.recipe /\ e.snap = d.snap
<1> DEFINE k == <<p, n>>
<1>1. /\ e.meta = d.meta /\ e.recipe = d.recipe /\ e.snap = d.snap
      /\ e.dirent = Put(d.dirent, k, i)
      /\ e = Rows(e.meta, e.dirent, e.recipe, e.snap)
  BY DEF SaveDirent, Rows
<1>2. k \in (DOMAIN d.meta \cup {SnapshotDir}) \X Label
  OBVIOUS
<1> HIDE DEF k
<1>3. DOMAIN e.dirent = DOMAIN d.dirent \cup {k}
  BY <1>1 DEF Put
<1>4. IsFiniteSet(DOMAIN d.dirent)
  BY DEF RowsHold
<1>5. IsFiniteSet(DOMAIN e.dirent)
  BY <1>3, <1>4, FS_AddElement
<1>6. IsMap(e.dirent, (DOMAIN d.meta \cup {SnapshotDir}) \X Label, DOMAIN d.meta)
  BY <1>1, <1>2 DEF RowsHold, IsMap, Put
<1> QED BY <1>1, <1>5, <1>6 DEF RowsHold, k

LEMMA DirentsGone ==
  ASSUME NEW d, RowsHold(d),
         NEW m, DOMAIN m \subseteq DOMAIN d.dirent, m = [x \in DOMAIN m |-> d.dirent[x]],
         NEW e, e = Rows(d.meta, m, d.recipe, d.snap)
  PROVE  /\ RowsHold(e)
         /\ e.meta = d.meta /\ e.recipe = d.recipe /\ e.snap = d.snap /\ e.dirent = m
<1>1. IsFiniteSet(DOMAIN d.dirent)
  BY DEF RowsHold
<1>2. IsFiniteSet(DOMAIN m)
  BY <1>1, FS_Subset
<1>3. IsMap(m, (DOMAIN d.meta \cup {SnapshotDir}) \X Label, DOMAIN d.meta)
  BY DEF RowsHold, IsMap
<1>4. /\ e.meta = d.meta /\ e.dirent = m /\ e.recipe = d.recipe /\ e.snap = d.snap
      /\ e = Rows(e.meta, e.dirent, e.recipe, e.snap)
  BY DEF Rows
<1> QED BY <1>2, <1>3, <1>4 DEF RowsHold

LEMMA DirentDeleted ==
  ASSUME NEW d, RowsHold(d), NEW p, NEW n, NEW e, e = DeleteDirent(d, p, n)
  PROVE  RowsHold(e) /\ e.meta = d.meta /\ e.recipe = d.recipe /\ e.snap = d.snap
<1> DEFINE m == Drop(d.dirent, <<p, n>>)
<1>1. DOMAIN m \subseteq DOMAIN d.dirent /\ m = [x \in DOMAIN m |-> d.dirent[x]]
  BY DEF Drop
<1>2. e = Rows(d.meta, m, d.recipe, d.snap)
  BY DEF DeleteDirent
<1> HIDE DEF m
<1> QED BY <1>1, <1>2, DirentsGone

LEMMA RecipeSaved ==
  ASSUME NEW d, RowsHold(d), NEW i \in Ino, NEW c \in Content,
         NEW e, e = SaveRecipe(d, i, c)
  PROVE  /\ RowsHold(e) /\ e.meta = d.meta /\ e.dirent = d.dirent /\ e.snap = d.snap
         /\ e.recipe = Put(d.recipe, i, c)
<1>1. /\ e.meta = d.meta /\ e.dirent = d.dirent /\ e.snap = d.snap
      /\ e.recipe = Put(d.recipe, i, c)
      /\ e = Rows(e.meta, e.dirent, e.recipe, e.snap)
  BY DEF SaveRecipe, Rows
<1>2. IsMap(e.recipe, Ino, Content)
  BY <1>1 DEF RowsHold, IsMap, Put
<1> QED BY <1>1, <1>2 DEF RowsHold

LEMMA SnapSaved ==
  ASSUME NEW d, RowsHold(d), NEW s \in SnapLabel, NEW i \in Ino,
         NEW e, e = SaveSnapshot(d, s, i) \/ e = DeleteSnapshot(d, s)
  PROVE  /\ RowsHold(e)
         /\ e.meta = d.meta /\ e.dirent = d.dirent /\ e.recipe = d.recipe
<1>1. /\ e.meta = d.meta /\ e.dirent = d.dirent /\ e.recipe = d.recipe
      /\ e.snap = Put(d.snap, s, i) \/ e.snap = Drop(d.snap, s)
      /\ e = Rows(e.meta, e.dirent, e.recipe, e.snap)
  BY DEF SaveSnapshot, DeleteSnapshot, Rows
<1>2. IsMap(e.snap, SnapLabel, Ino)
  BY <1>1 DEF RowsHold, IsMap, Put, Drop
<1> QED BY <1>1, <1>2 DEF RowsHold

-----------------------------------------------------------------------------
(* The memory after each change.                                           *)

LEMMA MemoryKept ==
  ASSUME NEW d, NEW e, NEW nd, NEW tp, NEW nx, MemoryHolds(d, nd, tp, nx),
         \A j \in DOMAIN nd : nd[j].ino = j => j \in DOMAIN e.meta /\ e.meta[j] = d.meta[j]
  PROVE  MemoryHolds(e, nd, tp, nx)
BY DEF MemoryHolds, NodeHolds, KernelKnows

(* The new rows know what the old ones knew, and what they changed is not  *)
(* an id of the kernel, or is of the kind it was.                          *)
Agrees(d, e, nd, x) ==
  Knows(d, e, x) /\ (x \in DOMAIN nd => x \in DOMAIN e.meta /\ e.meta[x] = nd[x].dir)

LEMMA MemoryKnows ==
  ASSUME NEW d, NEW e, NEW nd, NEW tp, NEW nx, NEW x,
         MemoryHolds(d, nd, tp, nx), Agrees(d, e, nd, x)
  PROVE  MemoryHolds(e, nd, tp, nx)
<1>1. ASSUME NEW j \in DOMAIN nd, nd[j].ino = j PROVE j \in DOMAIN e.meta /\ e.meta[j] = d.meta[j]
  <2>1. j \in DOMAIN d.meta /\ d.meta[j] = nd[j].dir
    BY <1>1 DEF MemoryHolds, NodeHolds, KernelKnows
  <2> QED BY <1>1, <2>1 DEF Knows, Agrees
<1> QED BY <1>1, MemoryKept

LEMMA NewIsFree ==
  ASSUME NEW d, NEW nd, NEW tp, NEW nx \in Nat, FirstIno <= nx, MemoryHolds(d, nd, tp, nx)
  PROVE  nx \notin DOMAIN nd /\ nx # Root
BY DEF MemoryHolds, FirstIno, Root

(* Nothing registered changes what the kernel calls it, or its kind. *)
Keeps(nd, ne) ==
  DOMAIN nd \subseteq DOMAIN ne /\ \A i \in DOMAIN nd : ne[i].ino = nd[i].ino /\ ne[i].dir = nd[i].dir

(* A new id: the kernel's, or a clone of what the kernel calls x. *)
Registering(d, nd, tp, nx, x, dir, kids, ne) ==
  /\ nx \in Nat /\ FirstIno <= nx /\ MemoryHolds(d, nd, tp, nx) /\ IsMap(kids, Name, DOMAIN nd)
  /\ \/ x = nx /\ nx \in DOMAIN d.meta /\ d.meta[nx] = dir
     \/ KernelKnows(d, nd, x, dir)
  /\ ne = Put(nd, nx, Node(x, dir, kids))
Registered(d, nd, tp, nx, new, ne) ==
  /\ MemoryHolds(d, ne, tp, nx + 1) /\ Keeps(nd, ne)
  /\ DOMAIN ne = DOMAIN nd \cup {nx} /\ ne[nx] = new
  /\ \A i \in DOMAIN nd : ne[i] = nd[i]

LEMMA Registers ==
  ASSUME NEW d, NEW nd, NEW tp, NEW nx, NEW x, NEW dir, NEW kids, NEW ne,
         Registering(d, nd, tp, nx, x, dir, kids, ne)
  PROVE  Registered(d, nd, tp, nx, Node(x, dir, kids), ne)
<1> USE DEF Registering
<1> DEFINE new == Node(x, dir, kids)
<1>1. /\ new.ino = x /\ new.dir = dir /\ new.kids = kids
      /\ new = Node(new.ino, new.dir, new.kids) /\ ne = Put(nd, nx, new)
  BY DEF Node
<1> HIDE DEF new
<1>2. nx \notin DOMAIN nd /\ nx # Root
  BY NewIsFree
<1>3. /\ DOMAIN ne = DOMAIN nd \cup {nx} /\ ne[nx] = new
      /\ \A i \in DOMAIN nd : ne[i] = nd[i]
  BY <1>1, <1>2 DEF Put
<1>4. ASSUME NEW i \in DOMAIN nd PROVE NodeHolds(d, ne, i)
  <2>1. NodeHolds(d, nd, i)
    BY DEF MemoryHolds
  <2> QED BY <1>3, <2>1 DEF NodeHolds, KernelKnows, IsMap
<1>5. NodeHolds(d, ne, nx)
  <2>1. KernelKnows(d, ne, x, dir)
    BY <1>1, <1>3 DEF KernelKnows
  <2>2. IsMap(kids, Name, DOMAIN ne)
    BY <1>3 DEF IsMap
  <2> QED BY <1>1, <1>3, <2>1, <2>2 DEF NodeHolds
<1>6. DOMAIN ne \subseteq {Root} \cup FirstIno..(nx + 1 - 1)
  <2>1. DOMAIN nd \subseteq {Root} \cup FirstIno..(nx - 1)
    BY DEF MemoryHolds
  <2>2. nx + 1 - 1 = nx /\ nx \in FirstIno..nx /\ FirstIno..(nx - 1) \subseteq FirstIno..nx
    BY DEF FirstIno
  <2> QED BY <1>3, <2>1, <2>2
<1>7. tp.shared \in BOOLEAN /\ IsMap(tp.kids, Name, DOMAIN ne)
  BY <1>3 DEF MemoryHolds, IsMap
<1>8. Root \in DOMAIN ne /\ ne[Root].ino = Root
  BY <1>3 DEF MemoryHolds
<1>9. MemoryHolds(d, ne, tp, nx + 1)
  BY <1>3, <1>4, <1>5, <1>6, <1>7, <1>8 DEF MemoryHolds
<1> QED BY <1>3, <1>9 DEF Keeps, new, Registered

LEMMA WithKidsHolds ==
  ASSUME NEW d, NEW nd, NEW tp, NEW nx, MemoryHolds(d, nd, tp, nx),
         NEW p \in DOMAIN nd, NEW kids, IsMap(kids, Name, DOMAIN nd),
         NEW ne, ne = WithKids(nd, p, kids)
  PROVE  /\ MemoryHolds(d, ne, tp, nx) /\ Keeps(nd, ne)
         /\ DOMAIN ne = DOMAIN nd /\ ne[p].kids = kids
         /\ \A i \in DOMAIN nd \ {p} : ne[i] = nd[i]
<1> DEFINE new == Node(nd[p].ino, nd[p].dir, kids)
<1>1. new.ino = nd[p].ino /\ new.dir = nd[p].dir /\ new.kids = kids
      /\ new = Node(new.ino, new.dir, new.kids)
  BY DEF Node
<1>2. ne = Put(nd, p, new)
  BY DEF WithKids
<1> HIDE DEF new
<1>3. /\ DOMAIN ne = DOMAIN nd /\ ne[p] = new
      /\ \A i \in DOMAIN nd \ {p} : ne[i] = nd[i]
  BY <1>2 DEF Put
<1>4. Keeps(nd, ne)
  BY <1>1, <1>3 DEF Keeps
<1>5. ASSUME NEW i \in DOMAIN nd PROVE NodeHolds(d, ne, i)
  <2>1. NodeHolds(d, nd, i)
    BY DEF MemoryHolds
  <2>2. KernelKnows(d, ne, ne[i].ino, ne[i].dir)
    BY <1>3, <1>4, <2>1 DEF NodeHolds, KernelKnows, Keeps
  <2> QED BY <1>1, <1>3, <2>1, <2>2 DEF NodeHolds, IsMap
<1>6. MemoryHolds(d, ne, tp, nx)
  BY <1>3, <1>4, <1>5 DEF MemoryHolds, Keeps
<1> QED BY <1>1, <1>3, <1>4, <1>6

LEMMA Attaches ==
  ASSUME NEW d, NEW nd, NEW tp, NEW nx, MemoryHolds(d, nd, tp, nx),
         NEW p \in DOMAIN nd, NEW n \in Name, NEW c \in DOMAIN nd,
         NEW ne, ne = Attach(nd, p, n, c)
  PROVE  /\ MemoryHolds(d, ne, tp, nx) /\ Keeps(nd, ne)
         /\ DOMAIN ne = DOMAIN nd /\ ne[p].kids = Put(nd[p].kids, n, c)
         /\ \A i \in DOMAIN nd \ {p} : ne[i] = nd[i]
<1>1. IsMap(nd[p].kids, Name, DOMAIN nd)
  BY DEF MemoryHolds, NodeHolds
<1>2. IsMap(Put(nd[p].kids, n, c), Name, DOMAIN nd)
  BY <1>1 DEF IsMap, Put
<1> QED BY <1>2, WithKidsHolds DEF Attach

LEMMA Detaches ==
  ASSUME NEW d, NEW nd, NEW tp, NEW nx, MemoryHolds(d, nd, tp, nx),
         NEW p \in DOMAIN nd, NEW n,
         NEW ne, ne = Detach(nd, p, n)
  PROVE  /\ MemoryHolds(d, ne, tp, nx) /\ Keeps(nd, ne)
         /\ DOMAIN ne = DOMAIN nd /\ ne[p].kids = Drop(nd[p].kids, n)
         /\ \A i \in DOMAIN nd \ {p} : ne[i] = nd[i]
<1>1. IsMap(nd[p].kids, Name, DOMAIN nd)
  BY DEF MemoryHolds, NodeHolds
<1>2. IsMap(Drop(nd[p].kids, n), Name, DOMAIN nd)
  BY <1>1 DEF IsMap, Drop
<1> QED BY <1>2, WithKidsHolds DEF Detach

(* The copy on write registers at most one clone, for which the kernel     *)
(* keeps the id it had, and puts it in the place of the original.          *)
SameNames(nd, ne) ==
  /\ \A q \in DOMAIN nd : DOMAIN ne[q].kids = DOMAIN nd[q].kids
  /\ \A q \in DOMAIN nd \ {Root} : ne[q] = nd[q]
  /\ \A n \in DOMAIN nd[Root].kids :
       /\ ne[ne[Root].kids[n]].ino = nd[nd[Root].kids[n]].ino
       /\ ne[ne[Root].kids[n]].dir = nd[nd[Root].kids[n]].dir

LEMMA MutableHolds ==
  ASSUME NEW d, NEW nd, NEW tp, NEW i \in Nat, FirstIno <= i, MemoryHolds(d, nd, tp, i),
         NEW p \in DOMAIN nd, NEW own, own = Mutable(nd, tp, p, i)
  PROVE  /\ own.used \in {0, 1} /\ MemoryHolds(d, own.node, own.top, i + own.used)
         /\ Keeps(nd, own.node) /\ SameNames(nd, own.node)
<1>0. /\ i + 0 = i /\ Keeps(nd, nd) /\ SameNames(nd, nd)
  BY DEF Keeps, SameNames
<1>1. CASE p = Root
  <2>1. own.node = nd /\ own.top = Copy(TopKids(nd, tp)) /\ own.used = 0
    <3>1. own = [node |-> nd, top |-> Copy(TopKids(nd, tp)), used |-> 0]
      BY <1>1 DEF Mutable, Shadows
    <3> QED BY <3>1
  <2>2. IsMap(TopKids(nd, tp), Name, DOMAIN nd)
    <3>1. IsMap(nd[Root].kids, Name, DOMAIN nd) /\ IsMap(tp.kids, Name, DOMAIN nd)
      BY DEF MemoryHolds, NodeHolds
    <3> QED BY <3>1 DEF TopKids
  <2>3. MemoryHolds(d, nd, Copy(TopKids(nd, tp)), i)
    BY <2>2 DEF MemoryHolds, Copy
  <2> QED BY <1>0, <2>1, <2>3
<1>2. CASE p # Root /\ ~Shadows(nd, tp, p)
  <2>1. own.node = nd /\ own.top = tp /\ own.used = 0
    BY <1>2 DEF Mutable
  <2> QED BY <1>0, <2>1
<1>3. CASE p # Root /\ Shadows(nd, tp, p)
  <2> DEFINE n == CHOOSE m \in Paths(nd, tp, p) : TRUE
             clone == Node(nd[p].ino, nd[p].dir, nd[p].kids)
             cloned == Put(nd, i, clone)
  <2>1. /\ own.node = IF tp.shared THEN Attach(cloned, Root, n, i) ELSE cloned
        /\ own.top = IF tp.shared THEN tp ELSE Copy(Put(tp.kids, n, i))
        /\ own.used = 1
    BY <1>3 DEF Mutable
  <2>2. n \in DOMAIN TopKids(nd, tp) /\ TopKids(nd, tp)[n] = p
    BY <1>3 DEF Shadows, Paths
  <2>3. IsMap(nd[p].kids, Name, DOMAIN nd) /\ KernelKnows(d, nd, nd[p].ino, nd[p].dir)
    BY DEF MemoryHolds, NodeHolds
  <2>6. /\ clone.ino = nd[p].ino /\ clone.dir = nd[p].dir /\ clone.kids = nd[p].kids
        /\ clone = Node(clone.ino, clone.dir, clone.kids)
    BY DEF Node
  <2> HIDE DEF n, clone, cloned
  <2>4. /\ MemoryHolds(d, cloned, tp, i + 1) /\ Keeps(nd, cloned)
        /\ DOMAIN cloned = DOMAIN nd \cup {i} /\ cloned[i] = clone
        /\ \A q \in DOMAIN nd : cloned[q] = nd[q]
    <3>1. cloned = Put(nd, i, Node(nd[p].ino, nd[p].dir, nd[p].kids))
      BY DEF cloned, clone
    <3>2. Registering(d, nd, tp, i, nd[p].ino, nd[p].dir, nd[p].kids, cloned)
      BY <2>3, <3>1 DEF Registering
    <3>3. Registered(d, nd, tp, i, clone, cloned)
      BY <3>2, Registers DEF clone
    <3> QED BY <3>3 DEF Registered
  <2>5. i \notin DOMAIN nd /\ i # Root
    BY NewIsFree
  <2>7. Root \in DOMAIN nd /\ IsMap(nd[Root].kids, Name, DOMAIN nd)
    BY DEF MemoryHolds, NodeHolds
  <2>8. CASE tp.shared
    <3> DEFINE ne == Attach(cloned, Root, n, i)
    <3>1. n \in DOMAIN nd[Root].kids /\ nd[Root].kids[n] = p /\ n \in Name
      BY <2>2, <2>7, <2>8 DEF TopKids, IsMap
    <3>2. /\ MemoryHolds(d, ne, tp, i + 1) /\ Keeps(cloned, ne)
          /\ DOMAIN ne = DOMAIN cloned /\ ne[Root].kids = Put(cloned[Root].kids, n, i)
          /\ \A q \in DOMAIN cloned \ {Root} : ne[q] = cloned[q]
      <4>1. Root \in DOMAIN cloned /\ i \in DOMAIN cloned
        BY <2>4, <2>7
      <4>2. MemoryHolds(d, cloned, tp, i + 1)
        BY <2>4
      <4>3. ne = Attach(cloned, Root, n, i)
        OBVIOUS
      <4> HIDE DEF ne
      <4> QED BY <3>1, <4>1, <4>2, <4>3, Attaches
    <3> HIDE DEF ne
    <3>3. Keeps(nd, ne)
      BY <2>4, <3>2 DEF Keeps
    <3>4. ne[Root].kids = Put(nd[Root].kids, n, i)
      BY <2>4, <2>7, <3>2
    <3>5. \A m \in DOMAIN nd[Root].kids : nd[Root].kids[m] \in DOMAIN nd
      BY <2>7 DEF IsMap
    <3>6. ne[i] = clone
      BY <2>4, <2>5, <3>2
    <3>7. \A m \in DOMAIN nd[Root].kids :
            ne[Root].kids[m] = IF m = n THEN i ELSE nd[Root].kids[m]
      BY <3>4 DEF Put
    <3>8. DOMAIN ne[Root].kids = DOMAIN nd[Root].kids
      BY <3>1, <3>4 DEF Put
    <3>9. ASSUME NEW m \in DOMAIN nd[Root].kids
          PROVE  /\ ne[ne[Root].kids[m]].ino = nd[nd[Root].kids[m]].ino
                 /\ ne[ne[Root].kids[m]].dir = nd[nd[Root].kids[m]].dir
      <4>1. CASE m = n
        BY <2>6, <3>1, <3>6, <3>7, <4>1
      <4>2. CASE m # n
        BY <3>3, <3>5, <3>7, <4>2 DEF Keeps
      <4> QED BY <4>1, <4>2
    <3>10. SameNames(nd, ne)
      BY <2>4, <2>5, <3>2, <3>8, <3>9 DEF SameNames
    <3> QED BY <2>1, <2>8, <3>2, <3>3, <3>10 DEF ne
  <2>9. CASE ~tp.shared
    <3>1. n \in DOMAIN tp.kids /\ IsMap(tp.kids, Name, DOMAIN nd)
      BY <2>2, <2>9 DEF TopKids, MemoryHolds
    <3>2. IsMap(Put(tp.kids, n, i), Name, DOMAIN cloned)
      BY <2>4, <3>1 DEF IsMap, Put
    <3>3. MemoryHolds(d, cloned, Copy(Put(tp.kids, n, i)), i + 1)
      BY <2>4, <3>2 DEF MemoryHolds, Copy
    <3>4. SameNames(nd, cloned)
      BY <2>4, <2>7 DEF SameNames, IsMap
    <3> QED BY <2>1, <2>4, <2>9, <3>3, <3>4
  <2> QED BY <2>8, <2>9
<1> QED BY <1>1, <1>2, <1>3

-----------------------------------------------------------------------------
(* A mount, after any write of any request.                                *)

LEMMA EmptyMap == ASSUME NEW K, NEW V PROVE IsMap(<<>>, K, V)
BY DEF IsMap

LEMMA LargestOfMany ==
  ASSUME NEW b \in Nat, NEW S, S \subseteq 0..b, S # {}
  PROVE  LargestOf(S) \in S /\ \A x \in S : x <= LargestOf(S)
<1> DEFINE M == {k \in Nat : k <= b /\ b - k \in S}
<1>1. PICK x \in S : TRUE
  OBVIOUS
<1>2. b - x \in M
  <2>1. b - (b - x) = x /\ b - x \in Nat /\ b - x <= b
    BY <1>1
  <2> QED BY <1>1, <2>1
<1>3. M \subseteq Nat /\ M # {}
  BY <1>2
<1>4. PICK k \in M : \A j \in M : k <= j
  BY <1>3, LeastNatural
<1>5. b - k \in S /\ k \in Nat /\ k <= b
  BY <1>4
<1>6. ASSUME NEW y \in S PROVE y <= b - k
  <2>1. b - y \in Nat /\ b - y <= b /\ b - (b - y) = y
    OBVIOUS
  <2>2. b - y \in M
    BY <2>1
  <2>3. k <= b - y
    BY <1>4, <2>2
  <2> QED BY <1>5, <2>1, <2>3
<1>7. \E m \in S : \A y \in S : y <= m
  BY <1>5, <1>6
<1> QED BY <1>7 DEF LargestOf

LEMMA MountHolds ==
  ASSUME NEW d, RowsHold(d), Mount(d), reuses' \in 0..MaxReuse
  PROVE  IInv'
<1> DEFINE e == SaveInode(d, Root, TRUE)
           dirs == {i \in DOMAIN e.meta : e.meta[i]}
           live == Reached(e, Root, dirs) \cap DOMAIN e.meta
           entries(i) == {n \in DOMAIN Listed(e, i) : i \in dirs /\ Listed(e, i)[n] \in live}
           kept == {s \in DOMAIN e.snap : Whole(e, e.snap[s])}
           ends == {FirstIno} \cup {i + 1 : i \in live \ {Root}}
<1>1. /\ db' = Rows(e.meta, e.dirent, e.recipe, [s \in kept |-> e.snap[s]])
      /\ node' = [i \in live |-> Node(i, e.meta[i], [n \in entries(i) |-> Listed(e, i)[n]])]
      /\ top' = Shared
      /\ frozen' = [s \in kept |-> Frozen(e.snap[s], Reached(e, e.snap[s], DOMAIN e.meta))]
      /\ next' = LargestOf(ends)
      /\ dirty' = <<>>
      /\ job' = Idle
  BY DEF Mount
<1>2. RowsHold(e)
  BY InodeSaved DEF Ino
<1> HIDE DEF e
<1>3. IsFiniteSet(DOMAIN e.dirent)
  BY <1>2 DEF RowsHold
<1>4. live \subseteq Ino /\ Root \in live /\ Root \in dirs
  <2>1. Root \in Reached(e, Root, dirs)
    BY <1>3, ReachedWithin
  <2> QED BY <1>2, <2>1 DEF RowsHold, IsMap
<1>5. ASSUME NEW s \in kept PROVE Frozen(e.snap[s], Reached(e, e.snap[s], DOMAIN e.meta)) \in FrozenType
  <2>1. s \in DOMAIN e.snap /\ e.snap[s] \in Ino
    BY <1>2 DEF RowsHold, IsMap
  <2>2. Reached(e, e.snap[s], DOMAIN e.meta) \subseteq
          {e.snap[s]} \cup {e.dirent[x] : x \in DOMAIN e.dirent}
    BY <1>3, ReachedWithin
  <2>3. Reached(e, e.snap[s], DOMAIN e.meta) \subseteq Ino
    BY <1>2, <2>1, <2>2 DEF RowsHold, IsMap
  <2> QED BY <2>1, <2>3 DEF FrozenType, Frozen
<1>6. kept \subseteq SnapLabel
  BY <1>2 DEF RowsHold, IsMap
<1>7. next' \in FirstIno..(LastIno + 1) /\ \A i \in live \ {Root} : i \in FirstIno..(next' - 1)
  <2>1. ends \subseteq 0..(LastIno + 1) /\ ends # {} /\ LastIno + 1 \in Nat /\ FirstIno \in ends
        /\ \A x \in ends : x \in FirstIno..(LastIno + 1)
    BY <1>4, BoundAssumption DEF Ino, FirstIno, Root
  <2>2. \A i \in live \ {Root} : i + 1 \in ends /\ i \in FirstIno..LastIno
    BY <1>4 DEF Ino
  <2> HIDE DEF ends
  <2>3. LargestOf(ends) \in ends /\ \A x \in ends : x <= LargestOf(ends)
    BY <2>1, LargestOfMany
  <2>4. next' \in FirstIno..(LastIno + 1) /\ \A x \in ends : x <= next'
    BY <1>1, <2>1, <2>3
  <2>5. ASSUME NEW i \in live \ {Root} PROVE i \in FirstIno..(next' - 1)
    <3>1. i + 1 <= next' /\ i \in FirstIno..LastIno
      BY <2>2, <2>4
    <3>2. i \in Nat /\ FirstIno <= i /\ next' \in Nat
      BY <2>4, <3>1, BoundAssumption DEF FirstIno
    <3>3. \A a, b \in Nat : FirstIno <= a /\ a + 1 <= b => a \in FirstIno..(b - 1)
      BY DEF FirstIno
    <3> QED BY <3>1, <3>2, <3>3
  <2> QED BY <2>4, <2>5
<1> HIDE DEF live, ends, dirs
<1>8. RowsHold(db')
  <2>1. db'.meta = e.meta /\ db'.dirent = e.dirent /\ db'.recipe = e.recipe
        /\ db'.snap = [s \in kept |-> e.snap[s]] /\ db' = Rows(db'.meta, db'.dirent, db'.recipe, db'.snap)
    BY <1>1 DEF Rows
  <2>2. IsMap(db'.snap, SnapLabel, Ino)
    BY <1>2, <1>6, <2>1 DEF IsMap, RowsHold
  <2> HIDE DEF kept
  <2> QED BY <1>2, <2>1, <2>2 DEF RowsHold
<1>9. db'.meta = e.meta
  BY <1>1 DEF Rows
<1>10. ASSUME NEW i \in live PROVE NodeHolds(db', node', i)
  <2> DEFINE kids == [n \in entries(i) |-> Listed(e, i)[n]]
  <2>1. IsMap(kids, Name, live)
    BY DEF IsMap, Listed
  <2>2. i \in DOMAIN e.meta /\ DOMAIN node' = live
    BY <1>1 DEF live
  <2>3. node'[i] = Node(i, e.meta[i], kids)
    BY <1>1
  <2> HIDE DEF kids, entries
  <2>4. node'[i].ino = i /\ node'[i].dir = e.meta[i] /\ node'[i].kids = kids
    BY <2>3 DEF Node
  <2> QED BY <1>9, <2>1, <2>2, <2>3, <2>4 DEF NodeHolds, KernelKnows
<1>11. MemoryHolds(db', node', top', next')
  <2>1. DOMAIN node' = live
    BY <1>1
  <2>2. top'.shared \in BOOLEAN /\ IsMap(top'.kids, Name, DOMAIN node')
    BY <1>1, EmptyMap DEF Shared
  <2>3. node'[Root].ino = Root
    BY <1>1, <1>4 DEF Node
  <2> QED BY <1>4, <1>7, <1>10, <2>1, <2>2, <2>3 DEF MemoryHolds
<1>12. IsMap(frozen', SnapLabel, FrozenType)
  BY <1>1, <1>5, <1>6 DEF IsMap
<1>13. IsMap(dirty', DOMAIN node', Content)
  BY <1>1, EmptyMap
<1>14. JobHolds(db', node', job')
  BY <1>1 DEF JobHolds
<1> QED BY <1>7, <1>8, <1>11, <1>12, <1>13, <1>14 DEF IInv

(* A request that is cut short. *)
LEMMA CutShortHolds ==
  ASSUME NEW trees, CutShort(trees), \A k \in 1..(Len(trees) - 1) : RowsHold(trees[k]),
         reuses' \in 0..MaxReuse
  PROVE  IInv'
<1>1. PICK k \in 1..(Len(trees) - 1) : Mount(trees[k])
  BY DEF CutShort
<1>2. RowsHold(trees[k])
  OBVIOUS
<1> QED BY <1>1, <1>2, MountHolds

-----------------------------------------------------------------------------
(* Ids and names.                                                          *)

(* What is handed out is within the bounds, and counted when it has rows.  *)
LEMMA TakenCounts ==
  ASSUME IInv, NEW k \in Nat, Taken(k)
  PROVE  /\ next \in Nat /\ FirstIno <= next /\ next + k <= LastIno + 1
         /\ next + k \in FirstIno..(LastIno + 1)
         /\ reuses' \in 0..MaxReuse /\ reuses <= reuses'
         /\ reuses' = reuses => \A i \in DOMAIN db.meta : ~(next <= i /\ i < next + k)
<1> DEFINE T == {i \in DOMAIN db.meta : next <= i /\ i < next + k}
<1>1. next \in Nat /\ FirstIno <= next /\ reuses \in Nat
  BY BoundAssumption DEF IInv, FirstIno
<1>2. IsFiniteSet(T) /\ Cardinality(T) \in Nat
  <2>1. DOMAIN db.meta \subseteq {Root} \cup FirstIno..LastIno
    BY DEF IInv, RowsHold, IsMap, Ino
  <2>2. IsFiniteSet(FirstIno..LastIno)
    BY BoundAssumption, FS_Interval DEF FirstIno
  <2>3. IsFiniteSet(FirstIno..LastIno \cup {Root})
    BY <2>2, FS_AddElement
  <2>4. T \subseteq FirstIno..LastIno \cup {Root}
    BY <2>1
  <2>5. IsFiniteSet(T)
    BY <2>3, <2>4, FS_Subset
  <2> QED BY <2>5, FS_CardinalityType
<1>3. next + k <= LastIno + 1 /\ reuses' = reuses + Cardinality(T) /\ reuses' <= MaxReuse
  BY DEF Taken
<1>4. Cardinality(T) = 0 => T = {}
  BY <1>2, FS_EmptySet
<1>5. next + k \in FirstIno..(LastIno + 1)
  BY <1>1, <1>3, BoundAssumption DEF FirstIno
<1>6. reuses' = reuses => T = {}
  BY <1>1, <1>2, <1>3, <1>4
<1>7. \A i \in DOMAIN db.meta : next <= i /\ i < next + k => i \in T
  OBVIOUS
<1> HIDE DEF T
<1>8. reuses' \in 0..MaxReuse /\ reuses <= reuses'
  BY <1>1, <1>2, <1>3, BoundAssumption
<1> QED BY <1>1, <1>3, <1>5, <1>6, <1>7, <1>8

LEMMA OneTaken ==
  ASSUME IInv, Taken(1)
  PROVE  /\ next \in Nat /\ FirstIno <= next /\ next \in Ino \ {Root}
         /\ next + 1 \in FirstIno..(LastIno + 1) /\ reuses' \in 0..MaxReuse
         /\ next \notin DOMAIN node /\ reuses <= reuses'
         /\ reuses' = reuses => next \notin DOMAIN db.meta
<1>1. /\ next \in Nat /\ FirstIno <= next /\ next + 1 <= LastIno + 1
      /\ next + 1 \in FirstIno..(LastIno + 1)
      /\ reuses' \in 0..MaxReuse /\ reuses <= reuses'
      /\ reuses' = reuses => \A i \in DOMAIN db.meta : ~(next <= i /\ i < next + 1)
  BY TakenCounts
<1>2. next \in Ino \ {Root}
  BY <1>1, BoundAssumption DEF Ino, Root, FirstIno
<1>3. next \notin DOMAIN node
  BY <1>1, NewIsFree DEF IInv
<1> QED BY <1>1, <1>2, <1>3

(* The directories clients work in are what the kernel calls them. *)
LEMMA DirsKnown ==
  ASSUME IInv, NEW p \in Dirs
  PROVE  KernelKnows(db, node, p, TRUE)
<1>1. \A i \in DOMAIN node : NodeHolds(db, node, i)
  BY DEF IInv, MemoryHolds
<1>2. Root \in DOMAIN node /\ node[Root].ino = Root /\ db.meta[Root] = TRUE
  BY DEF IInv, MemoryHolds, RowsHold
<1>3. CASE p = Root
  BY <1>1, <1>2, <1>3 DEF NodeHolds, KernelKnows
<1>4. CASE p # Root
  <2>1. PICK n \in Names(Root) : p = Child(Root, n) /\ node[p].dir
    BY <1>4 DEF Dirs
  <2>2. node[Root].kids[n] \in DOMAIN node
    BY <1>1, <1>2, <2>1 DEF NodeHolds, IsMap, Names, Child
  <2>3. KernelKnows(db, node, p, node[node[Root].kids[n]].dir)
    BY <1>1, <2>1, <2>2 DEF NodeHolds, Child
  <2> QED BY <2>1, <2>3 DEF KernelKnows, RowsHold, IInv, IsMap
<1> QED BY <1>3, <1>4

-----------------------------------------------------------------------------
(* create and mkdir.                                                       *)

(* a, b and c are the rows d after the metadata of i, its entry n in p and *)
(* its recipe are saved.                                                   *)
Making(d, p, n, i, dir, data, a, b, c) ==
  /\ RowsHold(d) /\ i \in Ino \ {Root} /\ dir \in BOOLEAN /\ data \in Content
  /\ p \in DOMAIN d.meta \cup {SnapshotDir} /\ n \in Label
  /\ a = SaveInode(d, i, dir) /\ b = SaveDirent(a, p, n, i) /\ c = SaveRecipe(b, i, data)
Knowing(d, i, dir, e) ==
  RowsHold(e) /\ Knows(d, e, i) /\ i \in DOMAIN e.meta /\ e.meta[i] = dir

LEMMA RowsMade ==
  ASSUME NEW d, NEW p, NEW n, NEW i, NEW dir, NEW data, NEW a, NEW b, NEW c,
         Making(d, p, n, i, dir, data, a, b, c)
  PROVE  Knowing(d, i, dir, a) /\ Knowing(d, i, dir, b) /\ Knowing(d, i, dir, c)
<1> USE DEF Making, Knowing
<1>1. Knowing(d, i, dir, a)
  BY InodeSaved
<1>2. /\ RowsHold(a) /\ p \in DOMAIN a.meta \cup {SnapshotDir} /\ n \in Label
      /\ i \in DOMAIN a.meta
  BY <1>1 DEF Knows
<1>3. RowsHold(b) /\ b.meta = a.meta
  <2>1. b = SaveDirent(a, p, n, i)
    OBVIOUS
  <2> HIDE DEF Making, Knowing
  <2> QED BY <1>2, <2>1, DirentSaved
<1>4. RowsHold(c) /\ c.meta = b.meta
  BY <1>3, RecipeSaved
<1> QED BY <1>1, <1>3, <1>4 DEF Knows

(* ne is the memory nd after i, which has rows in d, is put in p under n.  *)
Bearing(d, nd, tp, p, n, i, dir, ne) ==
  /\ i \in Nat /\ FirstIno <= i /\ MemoryHolds(d, nd, tp, i)
  /\ i \in DOMAIN d.meta /\ d.meta[i] = dir
  /\ p \in DOMAIN nd /\ n \in Name
  /\ ne = Attach(Put(nd, i, Node(i, dir, <<>>)), p, n, i)
Borne(d, nd, tp, p, n, i, dir, ne) ==
  /\ MemoryHolds(d, ne, tp, i + 1) /\ Keeps(nd, ne)
  /\ DOMAIN ne = DOMAIN nd \cup {i} /\ ne[i] = Node(i, dir, <<>>)
  /\ ne[p].kids = Put(nd[p].kids, n, i)
  /\ \A q \in DOMAIN nd \ {p} : ne[q] = nd[q]

LEMMA ChildBorne ==
  ASSUME NEW d, NEW nd, NEW tp, NEW p, NEW n, NEW i, NEW dir, NEW ne,
         Bearing(d, nd, tp, p, n, i, dir, ne)
  PROVE  Borne(d, nd, tp, p, n, i, dir, ne)
<1> DEFINE nf == Put(nd, i, Node(i, dir, <<>>))
<1>1. Registering(d, nd, tp, i, i, dir, <<>>, nf)
  BY EmptyMap DEF Bearing, Registering
<1>2. i \notin DOMAIN nd /\ p \in DOMAIN nd /\ n \in Name
  BY NewIsFree DEF Bearing
<1>3. ne = Attach(nf, p, n, i)
  BY DEF Bearing
<1> HIDE DEF nf
<1>4. Registered(d, nd, tp, i, Node(i, dir, <<>>), nf)
  BY <1>1, Registers
<1>5. /\ MemoryHolds(d, nf, tp, i + 1) /\ Keeps(nd, nf)
      /\ DOMAIN nf = DOMAIN nd \cup {i} /\ nf[i] = Node(i, dir, <<>>)
      /\ \A q \in DOMAIN nd : nf[q] = nd[q]
  BY <1>4 DEF Registered
<1>6. /\ MemoryHolds(d, ne, tp, i + 1) /\ Keeps(nf, ne)
      /\ DOMAIN ne = DOMAIN nf /\ ne[p].kids = Put(nf[p].kids, n, i)
      /\ \A q \in DOMAIN nf \ {p} : ne[q] = nf[q]
  BY <1>2, <1>3, <1>5, Attaches
<1> QED BY <1>2, <1>5, <1>6 DEF Borne, Keeps

(* What is registered stays so, and the dirty buffers with it. *)
LEMMA DirtyKept ==
  ASSUME NEW di, NEW nd, NEW ne, IsMap(di, DOMAIN nd, Content), Keeps(nd, ne)
  PROVE  IsMap(di, DOMAIN ne, Content)
BY DEF IsMap, Keeps

LEMMA CreateHolds ==
  ASSUME IInv, NEW p \in Dirs, NEW n \in FileName, Create(p, n)
  PROVE  IInv'
<1> DEFINE a == SaveInode(db, next, FALSE)
           b == SaveDirent(a, p, n, next)
           c == SaveRecipe(b, next, NoContent)
           t == Created(p, n)
<1>1. t = <<a, b, c>>
  BY DEF Created
<1>2. /\ next \in Nat /\ FirstIno <= next /\ next \in Ino \ {Root} /\ next \notin DOMAIN node
      /\ next + 1 \in FirstIno..(LastIno + 1) /\ reuses' \in 0..MaxReuse
  BY OneTaken DEF Create
<1>3. KernelKnows(db, node, p, TRUE)
  BY DirsKnown
<1>4. Making(db, p, n, next, FALSE, NoContent, a, b, c)
  BY <1>2, <1>3, NoContentAssumption DEF Making, IInv, Label, Name, KernelKnows
<1>5. \/ /\ db' = Last(t)
         /\ node' = Attach(Put(node, next, Node(next, FALSE, <<>>)), p, n, next)
         /\ next' = next + 1
         /\ UNCHANGED <<top, frozen, dirty, job>>
      \/ CutShort(t)
  BY DEF Create
<1> HIDE DEF a, b, c, t
<1>6. Knowing(db, next, FALSE, a) /\ Knowing(db, next, FALSE, b) /\ Knowing(db, next, FALSE, c)
  BY <1>4, RowsMade
<1>7. CASE CutShort(t)
  <2>1. \A k \in 1..(Len(t) - 1) : RowsHold(t[k])
    BY <1>1, <1>6 DEF Knowing
  <2> QED BY <1>2, <1>7, <2>1, CutShortHolds
<1>8. CASE ~CutShort(t)
  <2>1. /\ db' = c /\ node' = Attach(Put(node, next, Node(next, FALSE, <<>>)), p, n, next)
        /\ next' = next + 1 /\ UNCHANGED <<top, frozen, dirty, job>>
    BY <1>1, <1>5, <1>8 DEF Last
  <2>2. MemoryHolds(c, node, top, next)
    <3>1. Agrees(db, c, node, next) /\ MemoryHolds(db, node, top, next)
      BY <1>2, <1>6 DEF Agrees, Knowing, IInv
    <3> QED BY <3>1, MemoryKnows
  <2>3. Bearing(c, node, top, p, n, next, FALSE, node')
    BY <1>2, <1>3, <1>6, <2>1, <2>2 DEF Bearing, Knowing, KernelKnows, Name
  <2>4. Borne(c, node, top, p, n, next, FALSE, node')
    BY <2>3, ChildBorne
  <2>5. IsMap(dirty', DOMAIN node', Content)
    BY <2>1, <2>4, DirtyKept DEF IInv, Borne
  <2>6. JobHolds(db', node', job')
    BY <2>1 DEF JobHolds, Create
  <2> QED BY <1>2, <1>6, <2>1, <2>4, <2>5, <2>6 DEF IInv, Borne, Knowing
<1> QED BY <1>7, <1>8

LEMMA MemoryLater ==
  ASSUME NEW d, NEW nd, NEW tp, NEW nx \in Nat, MemoryHolds(d, nd, tp, nx)
  PROVE  MemoryHolds(d, nd, tp, nx + 1)
<1>1. FirstIno..(nx - 1) \subseteq FirstIno..(nx + 1 - 1)
  BY DEF FirstIno
<1> QED BY <1>1 DEF MemoryHolds

LEMMA CreateFailsHolds ==
  ASSUME IInv, NEW p \in Dirs, NEW n \in FileName, CreateFails(p, n)
  PROVE  IInv'
<1> DEFINE a == SaveInode(db, next, FALSE)
           b == SaveDirent(a, p, n, next)
           c == SaveRecipe(b, next, NoContent)
<1>1. Created(p, n)[1] = a /\ Created(p, n)[2] = b /\ Created(p, n)[3] = c
  BY DEF Created
<1>2. /\ next \in Nat /\ FirstIno <= next /\ next \in Ino \ {Root} /\ next \notin DOMAIN node
      /\ next + 1 \in FirstIno..(LastIno + 1) /\ reuses' \in 0..MaxReuse
  BY OneTaken DEF CreateFails
<1>3. KernelKnows(db, node, p, TRUE)
  BY DirsKnown
<1>4. Making(db, p, n, next, FALSE, NoContent, a, b, c)
  BY <1>2, <1>3, NoContentAssumption DEF Making, IInv, Label, Name, KernelKnows
<1>5. db' \in {db, a, b, c} /\ next' = next + 1 /\ UNCHANGED <<node, top, frozen, dirty, job>>
  BY <1>1 DEF CreateFails
<1> HIDE DEF a, b, c
<1>6. Knowing(db, next, FALSE, a) /\ Knowing(db, next, FALSE, b) /\ Knowing(db, next, FALSE, c)
  BY <1>4, RowsMade
<1>7. ASSUME NEW e \in {db, a, b, c} PROVE RowsHold(e) /\ MemoryHolds(e, node, top, next)
  <2>1. RowsHold(e) /\ Agrees(db, e, node, next) /\ MemoryHolds(db, node, top, next)
    BY <1>2, <1>6 DEF Agrees, Knowing, Knows, IInv
  <2> QED BY <2>1, MemoryKnows
<1>8. MemoryHolds(db', node, top, next + 1)
  BY <1>2, <1>5, <1>7, MemoryLater
<1>9. JobHolds(db', node', job')
  BY <1>5 DEF JobHolds, CreateFails
<1> QED BY <1>2, <1>5, <1>7, <1>8, <1>9 DEF IInv

(* The root, made mutable, takes no id. *)
LEMMA RootMutable ==
  ASSUME IInv, NEW own, own = Mutable(node, top, Root, next)
  PROVE  own.used = 0 /\ own.node = node /\ MemoryHolds(db, node, own.top, next)
<1>1. own.used = 0 /\ own.node = node
  BY DEF Mutable, Shadows
<1>2. next \in Nat /\ FirstIno <= next /\ MemoryHolds(db, node, top, next) /\ Root \in DOMAIN node
  BY BoundAssumption DEF IInv, FirstIno, MemoryHolds
<1>3. MemoryHolds(db, own.node, own.top, next + own.used)
  BY <1>2, MutableHolds
<1>4. next + own.used = next
  BY <1>1, <1>2
<1> QED BY <1>1, <1>3, <1>4

LEMMA MkdirHolds ==
  ASSUME IInv, NEW n \in DirName, Mkdir(n)
  PROVE  IInv'
<1> DEFINE own == Mutable(node, top, Root, next)
           a == SaveInode(db, next, TRUE)
           b == SaveDirent(a, Root, n, next)
           c == SaveRecipe(b, next, NoContent)
           t == Made(n)
<1>1. t = <<a, b>>
  BY DEF Made
<1>2. /\ next \in Nat /\ FirstIno <= next /\ next \in Ino \ {Root} /\ next \notin DOMAIN node
      /\ next + 1 \in FirstIno..(LastIno + 1) /\ reuses' \in 0..MaxReuse
  BY OneTaken DEF Mkdir
<1>3. Root \in DOMAIN db.meta /\ Root \in DOMAIN node
  BY DEF IInv, RowsHold, MemoryHolds
<1>4. Making(db, Root, n, next, TRUE, NoContent, a, b, c)
  BY <1>2, <1>3, NoContentAssumption DEF Making, IInv, Label, Name
<1>5. \/ /\ db' = Last(t)
         /\ node' = Attach(Put(own.node, next, Node(next, TRUE, <<>>)), Root, n, next)
         /\ top' = own.top
         /\ next' = next + 1
         /\ UNCHANGED <<frozen, dirty, job>>
      \/ CutShort(t)
  BY DEF Mkdir
<1>6. own.node = node /\ MemoryHolds(db, node, own.top, next)
  BY RootMutable
<1> HIDE DEF a, b, c, t, own
<1>7. Knowing(db, next, TRUE, a) /\ Knowing(db, next, TRUE, b)
  BY <1>4, RowsMade
<1>8. CASE CutShort(t)
  <2>1. \A k \in 1..(Len(t) - 1) : RowsHold(t[k])
    BY <1>1, <1>7 DEF Knowing
  <2> QED BY <1>2, <1>8, <2>1, CutShortHolds
<1>9. CASE ~CutShort(t)
  <2>1. /\ db' = b /\ node' = Attach(Put(node, next, Node(next, TRUE, <<>>)), Root, n, next)
        /\ top' = own.top /\ next' = next + 1 /\ UNCHANGED <<frozen, dirty, job>>
    BY <1>1, <1>5, <1>6, <1>9 DEF Last
  <2>2. MemoryHolds(b, node, own.top, next)
    <3>1. Agrees(db, b, node, next)
      BY <1>2, <1>7 DEF Agrees, Knowing
    <3> QED BY <1>6, <3>1, MemoryKnows
  <2>3. Bearing(b, node, own.top, Root, n, next, TRUE, node')
    BY <1>2, <1>3, <1>7, <2>1, <2>2 DEF Bearing, Knowing, Name
  <2>4. Borne(b, node, own.top, Root, n, next, TRUE, node')
    BY <2>3, ChildBorne
  <2>5. IsMap(dirty', DOMAIN node', Content)
    BY <2>1, <2>4, DirtyKept DEF IInv, Borne
  <2>6. JobHolds(db', node', job')
    BY <2>1 DEF JobHolds, Mkdir
  <2> QED BY <1>2, <1>7, <2>1, <2>4, <2>5, <2>6 DEF IInv, Borne, Knowing
<1> QED BY <1>8, <1>9

LEMMA MkdirFailsHolds ==
  ASSUME IInv, NEW n \in DirName, MkdirFails(n)
  PROVE  IInv'
<1> DEFINE own == Mutable(node, top, Root, next)
           a == SaveInode(db, next, TRUE)
           b == SaveDirent(a, Root, n, next)
           c == SaveRecipe(b, next, NoContent)
<1>1. Made(n)[1] = a /\ Made(n)[2] = b
  BY DEF Made
<1>2. /\ next \in Nat /\ FirstIno <= next /\ next \in Ino \ {Root} /\ next \notin DOMAIN node
      /\ next + 1 \in FirstIno..(LastIno + 1) /\ reuses' \in 0..MaxReuse
  BY OneTaken DEF MkdirFails
<1>3. Root \in DOMAIN db.meta
  BY DEF IInv, RowsHold
<1>4. Making(db, Root, n, next, TRUE, NoContent, a, b, c)
  BY <1>2, <1>3, NoContentAssumption DEF Making, IInv, Label, Name
<1>5. /\ db' \in {db, a, b} /\ node' = own.node /\ top' = own.top /\ next' = next + 1
      /\ UNCHANGED <<frozen, dirty, job>>
  BY <1>1 DEF MkdirFails
<1>6. own.node = node /\ MemoryHolds(db, node, own.top, next)
  BY RootMutable
<1> HIDE DEF a, b, c, own
<1>7. Knowing(db, next, TRUE, a) /\ Knowing(db, next, TRUE, b)
  BY <1>4, RowsMade
<1>8. ASSUME NEW e \in {db, a, b} PROVE RowsHold(e) /\ MemoryHolds(e, node, own.top, next)
  <2>1. RowsHold(e) /\ Agrees(db, e, node, next)
    BY <1>2, <1>7 DEF Agrees, Knowing, Knows, IInv
  <2> QED BY <1>6, <2>1, MemoryKnows
<1>9. MemoryHolds(db', node, own.top, next + 1)
  BY <1>2, <1>5, <1>8, MemoryLater
<1>10. JobHolds(db', node', job')
  BY <1>5 DEF JobHolds, MkdirFails
<1> QED BY <1>2, <1>5, <1>6, <1>8, <1>9, <1>10 DEF IInv

-----------------------------------------------------------------------------
(* write, flush, unlink and rmdir.                                         *)

LEMMA WriteHolds ==
  ASSUME IInv, NEW i \in DOMAIN node, NEW c \in Content, Write(i, c)
  PROVE  IInv'
<1>1. dirty' = Put(dirty, i, c) /\ UNCHANGED <<db, node, top, frozen, next, job, reuses>>
  BY DEF Write
<1>2. IsMap(dirty', DOMAIN node, Content)
  BY <1>1 DEF IInv, IsMap, Put
<1> QED BY <1>1, <1>2 DEF IInv

(* What is registered has an id, and the root is a directory. *)
LEMMA RegisteredKind ==
  ASSUME NEW d, NEW nd, NEW tp, NEW nx \in Nat, nx <= LastIno + 1, RowsHold(d),
         MemoryHolds(d, nd, tp, nx), NEW i \in DOMAIN nd
  PROVE  i \in Ino /\ nd[i].dir \in BOOLEAN /\ (i = Root => nd[i].dir)
<1>1. i \in {Root} \cup FirstIno..(nx - 1)
  BY DEF MemoryHolds
<1>2. FirstIno..(nx - 1) \subseteq FirstIno..LastIno
  BY BoundAssumption DEF FirstIno
<1>3. KernelKnows(d, nd, nd[i].ino, nd[i].dir)
  BY DEF MemoryHolds, NodeHolds
<1>4. d.meta[nd[i].ino] \in BOOLEAN /\ d.meta[Root]
  BY <1>3 DEF RowsHold, KernelKnows, IsMap
<1>5. nd[Root].ino = Root
  BY DEF MemoryHolds
<1> QED BY <1>1, <1>2, <1>3, <1>4, <1>5 DEF Ino, KernelKnows

LEMMA FlushHolds ==
  ASSUME IInv, NEW i \in DOMAIN dirty, Flush(i)
  PROVE  IInv'
<1> DEFINE filled == SaveRecipe(db, i, dirty[i])
           sized == SaveInode(filled, i, node[i].dir)
           t == <<filled, sized>>
<1>1. i \in DOMAIN node /\ dirty[i] \in Content
  BY DEF IInv, IsMap
<1>2. next \in Nat /\ next <= LastIno + 1 /\ reuses' \in 0..MaxReuse
  BY BoundAssumption DEF IInv, Flush, FirstIno
<1>3. i \in Ino /\ node[i].dir \in BOOLEAN /\ (i = Root => node[i].dir)
  BY <1>1, <1>2, RegisteredKind DEF IInv
<1>4. \/ /\ db' = sized /\ dirty' = Drop(dirty, i)
         /\ UNCHANGED <<node, top, frozen, next, job>>
      \/ CutShort(t)
  BY <1>1 DEF Flush
<1>5. RowsHold(filled) /\ filled.meta = db.meta
  BY <1>1, <1>3, RecipeSaved DEF IInv
<1> HIDE DEF filled, t
<1>6. /\ RowsHold(sized) /\ Knows(filled, sized, i)
      /\ i \in DOMAIN sized.meta /\ sized.meta[i] = node[i].dir
  BY <1>3, <1>5, InodeSaved
<1> HIDE DEF sized
<1>7. CASE CutShort(t)
  <2>1. \A k \in 1..(Len(t) - 1) : RowsHold(t[k])
    BY <1>5, <1>6 DEF t
  <2> QED BY <1>2, <1>7, <2>1, CutShortHolds
<1>8. CASE ~CutShort(t)
  <2>1. Agrees(db, sized, node, i) /\ MemoryHolds(db, node, top, next)
    BY <1>5, <1>6 DEF Knows, Agrees, IInv
  <2>2. MemoryHolds(sized, node, top, next)
    BY <2>1, MemoryKnows
  <2>3. IsMap(dirty', DOMAIN node, Content)
    BY <1>4, <1>8 DEF IsMap, Drop, IInv
  <2>4. JobHolds(db', node', job')
    BY <1>4, <1>8 DEF JobHolds, Flush
  <2> QED BY <1>2, <1>4, <1>6, <1>8, <2>2, <2>3, <2>4 DEF IInv
<1> QED BY <1>7, <1>8

(* Unlink, with the entry deleted or not. *)
LEMMA UnlinkHolds ==
  ASSUME IInv, NEW p \in Dirs, NEW n, Unlink(p, n) \/ UnlinkFails(p, n)
  PROVE  IInv'
<1>1. /\ node' = Detach(node, p, n) /\ dirty' = Drop(dirty, node[p].kids[n])
      /\ db' = DeleteDirent(db, p, n) \/ db' = db
      /\ UNCHANGED <<top, frozen, next, job, reuses>> /\ job = Idle
  BY DEF Unlink, UnlinkFails
<1>2. RowsHold(db') /\ db'.meta = db.meta
  <2> DEFINE e == DeleteDirent(db, p, n)
  <2>1. RowsHold(db)
    BY DEF IInv
  <2>2. RowsHold(e) /\ e.meta = db.meta
    BY <2>1, DirentDeleted
  <2> QED BY <1>1, <2>1, <2>2
<1>3. p \in DOMAIN node /\ MemoryHolds(db, node, top, next)
  BY DirsKnown DEF KernelKnows, IInv
<1>4. MemoryHolds(db, node', top, next) /\ DOMAIN node' = DOMAIN node
  BY <1>1, <1>3, Detaches
<1>5. MemoryHolds(db', node', top, next)
  BY <1>2, <1>4 DEF MemoryHolds, NodeHolds, KernelKnows
<1>6. IsMap(dirty', DOMAIN node', Content)
  BY <1>1, <1>4 DEF IsMap, Drop, IInv
<1>7. JobHolds(db', node', job')
  BY <1>1 DEF JobHolds
<1> QED BY <1>1, <1>2, <1>5, <1>6, <1>7 DEF IInv

-----------------------------------------------------------------------------
(* rename.                                                                 *)

LEMMA KeepsOn ==
  ASSUME NEW nd, NEW ne, NEW nf, Keeps(nd, ne), Keeps(ne, nf)
  PROVE  Keeps(nd, nf) /\ (SameNames(nd, ne) /\ SameNames(ne, nf) /\ Root \in DOMAIN nd => SameNames(nd, nf))
BY DEF Keeps, SameNames

(* The memory and the rows of a rename, after each write. *)
MoveHolds(w, nx) ==
  /\ w.used \in 0..2 /\ Len(w.trees) = 4
  /\ \A k \in 1..4 : RowsHold(w.trees[k]) /\ MemoryHolds(w.trees[k], w.node, w.top, nx + w.used)
  /\ w.child \in DOMAIN w.node
  /\ Keeps(node, w.node) /\ SameNames(node, w.node)

LEMMA MovedHolds ==
  ASSUME IInv, NEW p \in Dirs, NEW n, NEW q \in Dirs, NEW m, Renamable(p, n, q, m),
         NEW w, w = Moved(p, n, q, m), Taken(w.used)
  PROVE  MoveHolds(w, next)
<1> DEFINE own == Mutable(node, top, p, next)
           other == Mutable(own.node, own.top, q, next + own.used)
           both == IF q = p THEN [node |-> own.node, top |-> own.top, used |-> 0] ELSE other
           o == both.node[p].kids[n]
           cleared == IF m \in DOMAIN both.node[q].kids THEN DeleteDirent(db, q, m) ELSE db
           saved == SaveInode(cleared, o, both.node[o].dir)
           unnamed == DeleteDirent(saved, p, n)
           named == SaveDirent(unnamed, q, m, o)
           used == own.used + both.used
<1>1. /\ w.node = both.node /\ w.top = both.top /\ w.used = used /\ w.child = o
      /\ w.trees = <<cleared, saved, unnamed, named>>
  BY DEF Moved
<1>2. /\ next \in Nat /\ FirstIno <= next /\ MemoryHolds(db, node, top, next) /\ RowsHold(db)
  BY BoundAssumption DEF IInv, FirstIno
<1>3. /\ p \in DOMAIN node /\ q \in DOMAIN node /\ p \in DOMAIN db.meta /\ q \in DOMAIN db.meta
      /\ n \in DOMAIN node[p].kids /\ m \in Label /\ Root \in DOMAIN node
  BY DirsKnown DEF KernelKnows, Renamable, Label, Name, Names, MemoryHolds, IInv
<1>4. /\ own.used \in {0, 1} /\ MemoryHolds(db, own.node, own.top, next + own.used)
      /\ Keeps(node, own.node) /\ SameNames(node, own.node)
  BY <1>2, <1>3, MutableHolds
<1> HIDE DEF own
<1>5. /\ used \in 0..2 /\ MemoryHolds(db, both.node, both.top, next + used)
      /\ Keeps(node, both.node) /\ SameNames(node, both.node)
  <2>1. CASE q = p
    <3>1. both.node = own.node /\ both.top = own.top /\ both.used = 0
      BY <2>1
    <3>2. used = own.used
      BY <1>4, <3>1
    <3> HIDE DEF both, used
    <3> QED BY <1>4, <3>1, <3>2
  <2>2. CASE q # p
    <3>1. next + own.used \in Nat /\ FirstIno <= next + own.used
      BY <1>2, <1>4 DEF FirstIno
    <3>2. q \in DOMAIN own.node
      BY <1>3, <1>4 DEF Keeps
    <3>3. /\ other.used \in {0, 1}
          /\ MemoryHolds(db, other.node, other.top, next + own.used + other.used)
          /\ Keeps(own.node, other.node) /\ SameNames(own.node, other.node)
      BY <1>4, <3>1, <3>2, MutableHolds
    <3>4. both = other
      BY <2>2
    <3> HIDE DEF other, both
    <3>5. Keeps(node, other.node) /\ SameNames(node, other.node)
      BY <1>3, <1>4, <3>3, KeepsOn
    <3>6. next + own.used + other.used = next + (own.used + other.used)
      BY <1>2, <1>4, <3>3
    <3>7. own.used + other.used \in 0..2
      BY <1>4, <3>3
    <3> QED BY <3>3, <3>4, <3>5, <3>6, <3>7
  <2> QED BY <2>1, <2>2
<1> HIDE DEF other, both
<1>6. o \in DOMAIN both.node
  <2>1. p \in DOMAIN both.node /\ n \in DOMAIN both.node[p].kids
    BY <1>3, <1>5 DEF Keeps, SameNames
  <2>2. NodeHolds(db, both.node, p)
    BY <1>5, <2>1 DEF MemoryHolds
  <2> QED BY <2>1, <2>2 DEF NodeHolds, IsMap
<1> HIDE DEF o, used
<1>7. next + used \in Nat /\ next + used <= LastIno + 1
  <2>1. next + used <= LastIno + 1
    BY <1>1 DEF Taken
  <2> QED BY <1>2, <1>5, <2>1
<1>8. o \in Ino /\ both.node[o].dir \in BOOLEAN /\ (o = Root => both.node[o].dir)
  BY <1>2, <1>5, <1>6, <1>7, RegisteredKind
<1>9. RowsHold(cleared) /\ cleared.meta = db.meta
  BY <1>2, DirentDeleted
<1> HIDE DEF cleared
<1>10. /\ RowsHold(saved) /\ Knows(cleared, saved, o)
       /\ o \in DOMAIN saved.meta /\ saved.meta[o] = both.node[o].dir
  BY <1>8, <1>9, InodeSaved
<1> HIDE DEF saved
<1>11. RowsHold(unnamed) /\ unnamed.meta = saved.meta
  BY <1>10, DirentDeleted
<1> HIDE DEF unnamed
<1>12. RowsHold(named) /\ named.meta = saved.meta
  <2>1. q \in DOMAIN unnamed.meta \cup {SnapshotDir} /\ m \in Label /\ o \in DOMAIN unnamed.meta
    BY <1>3, <1>9, <1>10, <1>11 DEF Knows
  <2>2. RowsHold(named) /\ named.meta = unnamed.meta
    BY <1>11, <2>1, DirentSaved
  <2> QED BY <1>11, <2>2
<1> HIDE DEF named
<1>13. ASSUME NEW e \in {cleared, saved, unnamed, named}
       PROVE  RowsHold(e) /\ MemoryHolds(e, both.node, both.top, next + used)
  <2>1. CASE e = cleared
    <3>1. Agrees(db, cleared, both.node, SnapshotDir)
      BY <1>5, <1>9, BoundAssumption DEF Agrees, Knows, MemoryHolds, SnapshotDir, Root, FirstIno
    <3> QED BY <1>5, <1>9, <2>1, <3>1, MemoryKnows
  <2>2. CASE e \in {saved, unnamed, named}
    <3>1. Agrees(db, e, both.node, o)
      BY <1>9, <1>10, <1>11, <1>12, <2>2 DEF Agrees, Knows
    <3>2. MemoryHolds(e, both.node, both.top, next + used)
      BY <1>5, <3>1, MemoryKnows
    <3> QED BY <1>10, <1>11, <1>12, <2>2, <3>2
  <2> QED BY <2>1, <2>2
<1>14. Len(w.trees) = 4 /\ \A k \in 1..4 : w.trees[k] \in {cleared, saved, unnamed, named}
  BY <1>1
<1>15. \A k \in 1..4 : RowsHold(w.trees[k]) /\ MemoryHolds(w.trees[k], w.node, w.top, next + w.used)
  BY <1>1, <1>13, <1>14
<1> QED BY <1>1, <1>5, <1>6, <1>14, <1>15 DEF MoveHolds

(* What a rename leaves, whichever of its writes was the last. *)
LEMMA RenamedHolds ==
  ASSUME IInv, NEW p \in Dirs, NEW n, NEW q \in Dirs, NEW m, Renamable(p, n, q, m),
         NEW w, w = Moved(p, n, q, m), Taken(w.used), NEW k \in 1..4, db' = w.trees[k],
         \/ node' = Detach(Detach(w.node, p, n), q, m)
         \/ node' = Attach(Detach(w.node, p, n), q, m, w.child),
         top' = w.top, dirty' = IF w.over THEN Drop(dirty, w.node[q].kids[m]) ELSE dirty,
         next' = next + w.used, UNCHANGED frozen, job' = Idle
  PROVE  IInv'
<1> DEFINE out == Detach(w.node, p, n)
<1>1. MoveHolds(w, next)
  BY MovedHolds
<1>2. w.used \in Nat /\ RowsHold(db') /\ MemoryHolds(db', w.node, top', next')
  BY <1>1 DEF MoveHolds
<1>3. w.child \in DOMAIN w.node /\ Keeps(node, w.node)
  BY <1>1 DEF MoveHolds
<1>4. p \in DOMAIN w.node /\ q \in DOMAIN w.node /\ m \in Name
  BY <1>3, DirsKnown DEF KernelKnows, Keeps, Renamable, Name
<1>5. MemoryHolds(db', out, top', next') /\ Keeps(w.node, out) /\ DOMAIN out = DOMAIN w.node
  BY <1>2, <1>4, Detaches
<1> HIDE DEF out
<1>6. MemoryHolds(db', node', top', next') /\ Keeps(out, node')
  <2>1. CASE node' = Detach(out, q, m)
    BY <1>4, <1>5, <2>1, Detaches
  <2>2. CASE node' = Attach(out, q, m, w.child)
    BY <1>3, <1>4, <1>5, <2>2, Attaches
  <2> QED BY <2>1, <2>2 DEF out
<1>7. Keeps(node, node')
  BY <1>3, <1>5, <1>6 DEF Keeps
<1>8. IsMap(dirty', DOMAIN node', Content)
  <2>1. IsMap(dirty', DOMAIN node, Content)
    BY DEF IInv, IsMap, Drop
  <2> QED BY <1>7, <2>1, DirtyKept
<1>9. /\ next + w.used \in FirstIno..(LastIno + 1) /\ reuses' \in 0..MaxReuse
  BY <1>2, TakenCounts
<1>10. JobHolds(db', node', job')
  BY DEF JobHolds
<1> QED BY <1>2, <1>6, <1>8, <1>9, <1>10 DEF IInv

LEMMA RenameHolds ==
  ASSUME IInv, NEW p \in Dirs, NEW n, NEW q \in Dirs, NEW m, Rename(p, n, q, m)
  PROVE  IInv'
<1> DEFINE w == Moved(p, n, q, m)
<1>1. /\ Renamable(p, n, q, m) /\ Taken(w.used) /\ job = Idle
      /\ \/ /\ db' = Last(w.trees)
            /\ node' = Attach(Detach(w.node, p, n), q, m, w.child)
            /\ top' = w.top
            /\ dirty' = IF w.over THEN Drop(dirty, w.node[q].kids[m]) ELSE dirty
            /\ next' = next + w.used
            /\ UNCHANGED <<frozen, job>>
         \/ CutShort(w.trees)
  BY DEF Rename
<1>2. w = Moved(p, n, q, m)
  OBVIOUS
<1> HIDE DEF w
<1>3. MoveHolds(w, next)
  BY <1>1, <1>2, MovedHolds
<1>4. Len(w.trees) = 4 /\ w.used \in Nat /\ \A k \in 1..4 : RowsHold(w.trees[k])
  BY <1>3 DEF MoveHolds
<1>5. CASE CutShort(w.trees)
  <2>1. reuses' \in 0..MaxReuse
    BY <1>1, <1>4, TakenCounts
  <2>2. \A k \in 1..(Len(w.trees) - 1) : RowsHold(w.trees[k])
    BY <1>4
  <2> QED BY <1>5, <2>1, <2>2, CutShortHolds
<1>6. CASE ~CutShort(w.trees)
  <2>1. db' = w.trees[4] /\ UNCHANGED frozen /\ job' = Idle
    BY <1>1, <1>4, <1>6 DEF Last
  <2> QED BY <1>1, <1>2, <1>6, <2>1, RenamedHolds
<1> QED BY <1>5, <1>6

LEMMA RenameFailsHolds ==
  ASSUME IInv, NEW p \in Dirs, NEW n, NEW q \in Dirs, NEW m, RenameFails(p, n, q, m)
  PROVE  IInv'
<1> DEFINE w == Moved(p, n, q, m)
           out == Detach(w.node, p, n)
<1>1. /\ Renamable(p, n, q, m) /\ Taken(w.used) /\ job = Idle
      /\ top' = w.top
      /\ dirty' = IF w.over THEN Drop(dirty, w.node[q].kids[m]) ELSE dirty
      /\ next' = next + w.used
      /\ UNCHANGED <<frozen, job>>
  BY DEF RenameFails
<1>2. PICK k \in 2..4 :
        /\ db' \in {w.trees[k - 1], w.trees[k]}
        /\ node' = IF k = 2 THEN Detach(out, q, m) ELSE Attach(out, q, m, w.child)
  BY DEF RenameFails
<1>3. w = Moved(p, n, q, m)
  OBVIOUS
<1> HIDE DEF w
<1>4. PICK l \in 1..4 : db' = w.trees[l]
  BY <1>2
<1> QED BY <1>1, <1>2, <1>3, <1>4, RenamedHolds

-----------------------------------------------------------------------------
(* Snapshots.                                                              *)

LEMMA ListedMap ==
  ASSUME NEW d, RowsHold(d), NEW p
  PROVE  IsMap(Listed(d, p), Name, DOMAIN d.meta)
BY DEF RowsHold, IsMap, Listed

LEMMA FlushedHolds ==
  ASSUME IInv, NEW S, S \subseteq DOMAIN dirty, NEW e, e = Flushed(S)
  PROVE  RowsHold(e) /\ e.meta = db.meta
<1>1. /\ e.meta = db.meta /\ e.dirent = db.dirent /\ e.snap = db.snap
      /\ e.recipe = [i \in DOMAIN db.recipe \cup S |-> IF i \in S THEN dirty[i] ELSE db.recipe[i]]
      /\ e = Rows(e.meta, e.dirent, e.recipe, e.snap)
  BY DEF Flushed, Rows
<1>2. next \in Nat /\ next <= LastIno + 1 /\ RowsHold(db) /\ MemoryHolds(db, node, top, next)
  BY BoundAssumption DEF IInv, FirstIno
<1>3. \A i \in S : i \in Ino /\ dirty[i] \in Content
  <2>1. \A i \in DOMAIN node : i \in Ino
    BY <1>2, RegisteredKind
  <2> QED BY <2>1 DEF IInv, IsMap
<1>4. IsMap(e.recipe, Ino, Content)
  BY <1>1, <1>2, <1>3 DEF RowsHold, IsMap
<1> QED BY <1>1, <1>2, <1>4 DEF RowsHold

LEMMA TypeStays ==
  ASSUME IInv, UNCHANGED reuses
  PROVE  reuses' \in 0..MaxReuse
BY DEF IInv

LEMMA BeginHolds ==
  ASSUME IInv, NEW s \in SnapLabel, NEW then, then \subseteq SnapLabel, BeginSnapshot(s, then)
  PROVE  IInv'
<1> DEFINE j == Cloning("snapshot", s, then, {Task(Root, SnapshotDir, s)}, {}, Root)
           e == Flushed(DOMAIN dirty)
<1>1. /\ \/ db' = e /\ dirty' = <<>> /\ job' = j /\ UNCHANGED <<node, top, frozen, next>>
         \/ \E S \in (SUBSET DOMAIN dirty) \ {{}, DOMAIN dirty} : Mount(Flushed(S))
      /\ UNCHANGED reuses
  BY DEF BeginSnapshot
<1>2. reuses' \in 0..MaxReuse
  BY <1>1, TypeStays
<1>3. CASE \E S \in (SUBSET DOMAIN dirty) \ {{}, DOMAIN dirty} : Mount(Flushed(S))
  <2>1. PICK S \in SUBSET DOMAIN dirty : Mount(Flushed(S))
    BY <1>3
  <2>2. RowsHold(Flushed(S))
    BY FlushedHolds
  <2> QED BY <1>2, <2>1, <2>2, MountHolds
<1>4. CASE db' = e /\ dirty' = <<>> /\ job' = j /\ UNCHANGED <<node, top, frozen, next>>
  <2>1. RowsHold(e) /\ e.meta = db.meta
    BY FlushedHolds
  <2> HIDE DEF e
  <2>2. MemoryHolds(e, node, top, next)
    BY <2>1 DEF IInv, MemoryHolds, NodeHolds, KernelKnows
  <2>3. TaskHolds(e, node, "snapshot", Task(Root, SnapshotDir, s))
    BY <2>1 DEF TaskHolds, Task, RowsHold, Label
  <2>4. /\ j.kind = "snapshot" /\ j.name = s /\ j.then = then /\ j.ids = {} /\ j.root = Root
        /\ j.todo = {Task(Root, SnapshotDir, s)}
        /\ j = Cloning(j.kind, j.name, j.then, j.todo, j.ids, j.root)
    BY DEF Cloning
  <2> HIDE DEF j
  <2>5. JobHolds(e, node, j)
    BY <2>3, <2>4 DEF JobHolds, Ino
  <2>6. IsMap(dirty', DOMAIN node', Content)
    BY <1>4, EmptyMap
  <2> QED BY <1>2, <1>4, <2>1, <2>2, <2>5, <2>6 DEF IInv
<1> QED BY <1>1, <1>3, <1>4

LEMMA SnapshotStepHolds ==
  ASSUME IInv, SnapshotStep
  PROVE  IInv'
<1>1. ASSUME NEW s \in SnapName, TakeSnapshot(s) PROVE IInv'
  <2>1. BeginSnapshot(s, {}) /\ s \in SnapLabel
    BY <1>1 DEF TakeSnapshot, SnapLabel
  <2> QED BY <2>1, BeginHolds
<1>2. ASSUME NEW s \in DOMAIN frozen, NEW b \in BackupName, Restore(s, b) PROVE IInv'
  <2>1. BeginSnapshot(b, {s}) /\ b \in SnapLabel /\ {s} \subseteq SnapLabel
    BY <1>2 DEF Restore, SnapLabel, IInv, IsMap
  <2> QED BY <2>1, BeginHolds
<1>3. ASSUME NEW s \in DOMAIN frozen, RemoveSnapshot(s) PROVE IInv'
  <2> DEFINE e == DeleteSnapshot(db, s)
  <2>1. /\ frozen' = Drop(frozen, s) /\ db' = e
        /\ UNCHANGED <<node, top, dirty, next, job, reuses>> /\ job = Idle
    BY <1>3 DEF RemoveSnapshot
  <2>2. s \in SnapLabel /\ Root \in Ino /\ RowsHold(db)
    BY DEF IInv, IsMap, Ino
  <2>3. RowsHold(e) /\ e.meta = db.meta
    BY <2>2, SnapSaved
  <2> HIDE DEF e
  <2>4. MemoryHolds(e, node, top, next)
    BY <2>3 DEF IInv, MemoryHolds, NodeHolds, KernelKnows
  <2>5. IsMap(frozen', SnapLabel, FrozenType)
    BY <2>1 DEF IInv, IsMap, Drop
  <2>6. JobHolds(db', node', job')
    BY <2>1 DEF JobHolds
  <2> QED BY <2>1, <2>3, <2>4, <2>5, <2>6 DEF IInv
<1> QED BY <1>1, <1>2, <1>3 DEF SnapshotStep

LEMMA RemoveFailsHolds ==
  ASSUME IInv, NEW s \in DOMAIN frozen, RemoveFails(s)
  PROVE  IInv'
<1>1. frozen' = Drop(frozen, s) /\ UNCHANGED <<db, node, top, dirty, next, job, reuses>>
  BY DEF RemoveFails
<1>2. IsMap(frozen', SnapLabel, FrozenType)
  BY <1>1 DEF IInv, IsMap, Drop
<1> QED BY <1>1, <1>2 DEF IInv

(* Tasks stay what they are while rows and nodes are added. *)
LEMMA TaskKept ==
  ASSUME NEW d, NEW e, NEW nd, NEW ne, NEW kind, NEW t, TaskHolds(d, nd, kind, t),
         DOMAIN d.meta \subseteq DOMAIN e.meta, Keeps(nd, ne)
  PROVE  TaskHolds(e, ne, kind, t)
BY DEF TaskHolds, Keeps

LEMMA CopiedHolds ==
  ASSUME IInv, NEW t \in job.todo, job.kind \in {"snapshot", "restore"}, Taken(1)
  PROVE  /\ \A k \in 1..Len(Copied(t)) : Knowing(db, next, db.meta[t.src], Copied(t)[k])
         /\ Len(Copied(t)) \in 2..3 /\ db.meta[t.src] \in BOOLEAN
<1> DEFINE a == SaveInode(db, next, db.meta[t.src])
           b == SaveDirent(a, t.parent, t.name, next)
           c == SaveRecipe(b, next, Stored(b, t.src))
<1>1. TaskHolds(db, node, job.kind, t)
  BY DEF IInv, JobHolds, Idle
<1>2. /\ next \in Nat /\ FirstIno <= next /\ next \in Ino \ {Root} /\ next \notin DOMAIN node
  BY OneTaken
<1>3. db.meta[t.src] \in BOOLEAN /\ RowsHold(db)
  BY <1>1 DEF TaskHolds, IInv, RowsHold, IsMap
<1>4. Copied(t) = IF db.meta[t.src] THEN <<a, b>> ELSE <<a, b, c>>
  BY DEF Copied
<1>5. b.recipe = db.recipe
  BY DEF SaveDirent, SaveInode, Rows
<1>6. Stored(b, t.src) \in Content
  BY <1>3, <1>5, NoContentAssumption DEF Stored, RowsHold, IsMap
<1>7. Making(db, t.parent, t.name, next, db.meta[t.src], Stored(b, t.src), a, b, c)
  BY <1>1, <1>2, <1>3, <1>6 DEF Making, TaskHolds
<1> HIDE DEF a, b, c
<1>8. /\ Knowing(db, next, db.meta[t.src], a) /\ Knowing(db, next, db.meta[t.src], b)
      /\ Knowing(db, next, db.meta[t.src], c)
  BY <1>7, RowsMade
<1> QED BY <1>3, <1>4, <1>8

LEMMA CloneHolds ==
  ASSUME IInv, job # Idle, NEW t \in job.todo, CloneNode(t)
  PROVE  IInv'
<1> DEFINE cp == Copied(t)
           e == Last(cp)
           kids == Listed(e, t.src)
           clone == Node(next, db.meta[t.src], <<>>)
           new == {Task(kids[n], next, n) : n \in DOMAIN kids}
           todo == (job.todo \ {t}) \cup new
           root == IF t.parent = SnapshotDir THEN next ELSE job.root
           ids == job.ids \cup {next}
           j == Cloning(job.kind, job.name, job.then, todo, ids, root)
           attached == Attach(Put(node, next, clone), t.parent, t.name, next)
<1>1. /\ job.kind \in {"snapshot", "restore"} /\ Taken(1)
      /\ \/ /\ db' = e /\ job' = j
            /\ node' = IF job.kind = "restore" THEN attached ELSE node
            /\ next' = next + 1
            /\ UNCHANGED <<top, frozen, dirty>>
         \/ CutShort(cp)
  BY DEF CloneNode
<1>2. /\ next \in Nat /\ FirstIno <= next /\ next \in Ino \ {Root} /\ next \notin DOMAIN node
      /\ next + 1 \in FirstIno..(LastIno + 1) /\ reuses' \in 0..MaxReuse
  BY <1>1, OneTaken
<1>3. /\ \A k \in 1..Len(cp) : Knowing(db, next, db.meta[t.src], cp[k])
      /\ Len(cp) \in 2..3 /\ db.meta[t.src] \in BOOLEAN
  BY <1>1, CopiedHolds
<1>4. /\ job.name \in SnapLabel /\ job.then \subseteq SnapLabel
      /\ job.ids \subseteq Ino /\ job.root \in Ino
      /\ \A u \in job.todo : TaskHolds(db, node, job.kind, u)
  BY DEF IInv, JobHolds
<1>5. CASE CutShort(cp)
  <2>1. \A k \in 1..(Len(cp) - 1) : RowsHold(cp[k])
    BY <1>3 DEF Knowing
  <2> HIDE DEF cp
  <2> QED BY <1>2, <1>5, <2>1, CutShortHolds
<1>6. CASE ~CutShort(cp)
  <2>1. Knowing(db, next, db.meta[t.src], e)
    BY <1>3 DEF Last
  <2> HIDE DEF cp, e
  <2>2. RowsHold(e) /\ Agrees(db, e, node, next) /\ next \in DOMAIN e.meta /\ e.meta[next] = db.meta[t.src]
    BY <1>2, <2>1 DEF Agrees, Knowing
  <2>3. MemoryHolds(db, node, top, next)
    BY DEF IInv
  <2>4. MemoryHolds(e, node, top, next)
    BY <2>2, <2>3, MemoryKnows
  <2>5. MemoryHolds(e, node', top, next + 1) /\ Keeps(node, node')
        /\ (job.kind = "restore" => next \in DOMAIN node' /\ node'[next].ino = next)
    <3>1. CASE job.kind = "restore"
      <4>1. t.parent \in DOMAIN node /\ t.name \in Name
        BY <1>4, <3>1 DEF TaskHolds
      <4>2. Bearing(e, node, top, t.parent, t.name, next, db.meta[t.src], node')
        BY <1>1, <1>2, <1>6, <2>2, <2>4, <3>1, <4>1 DEF Bearing
      <4>3. Borne(e, node, top, t.parent, t.name, next, db.meta[t.src], node')
        BY <4>2, ChildBorne
      <4>4. node'[next].ino = next
        BY <4>3 DEF Borne, Node
      <4> QED BY <4>3, <4>4 DEF Borne
    <3>2. CASE job.kind # "restore"
      <4>1. node' = node
        BY <1>1, <1>6, <3>2
      <4> QED BY <1>2, <2>4, <3>2, <4>1, MemoryLater DEF Keeps
    <3> QED BY <3>1, <3>2
  <2>6. IsMap(kids, Name, DOMAIN e.meta)
    BY <2>2, ListedMap
  <2> HIDE DEF kids
  <2>7. ASSUME NEW u \in todo PROVE TaskHolds(e, node', job.kind, u)
    <3>1. CASE u \in job.todo
      BY <1>4, <2>2, <2>5, <3>1, TaskKept DEF Agrees, Knows
    <3>2. CASE u \in new
      <4>1. PICK n \in DOMAIN kids : u = Task(kids[n], next, n)
        BY <3>2
      <4>2. u.src = kids[n] /\ u.parent = next /\ u.name = n /\ u = Task(u.src, u.parent, u.name)
        BY <4>1 DEF Task
      <4>3. kids[n] \in DOMAIN e.meta /\ n \in Name /\ n \in Label
        BY <2>6 DEF IsMap, Label
      <4> QED BY <2>2, <2>5, <4>2, <4>3 DEF TaskHolds
    <3> QED BY <3>1, <3>2
  <2>8. ids \subseteq Ino /\ root \in Ino
    BY <1>2, <1>4
  <2> HIDE DEF todo, ids, root
  <2>9. /\ j.kind = job.kind /\ j.name = job.name /\ j.then = job.then /\ j.ids = ids
        /\ j.root = root /\ j.todo = todo
        /\ j = Cloning(j.kind, j.name, j.then, j.todo, j.ids, j.root)
    BY DEF Cloning
  <2> HIDE DEF j
  <2>10. JobHolds(e, node', j)
    BY <1>1, <1>4, <2>7, <2>8, <2>9 DEF JobHolds
  <2>11. db' = e /\ job' = j /\ next' = next + 1 /\ UNCHANGED <<top, frozen, dirty>>
    BY <1>1, <1>6
  <2>12. IsMap(dirty', DOMAIN node', Content)
    BY <2>5, <2>11, DirtyKept DEF IInv
  <2> QED BY <1>2, <2>2, <2>5, <2>10, <2>11, <2>12 DEF IInv
<1> QED BY <1>5, <1>6

LEMMA CloneFailsHolds ==
  ASSUME IInv, job # Idle, NEW t \in job.todo, CloneFails(t)
  PROVE  IInv'
<1> DEFINE parents == {u.parent : u \in job.todo}
           whole == {n \in Names(Root) : node[Root].kids[n] \notin parents}
           kids == [n \in whole |-> node[Root].kids[n]]
<1>1. /\ job.kind \in {"snapshot", "restore"} /\ Taken(1)
      /\ db' = db \/ \E k \in 1..Len(Copied(t)) : db' = Copied(t)[k]
      /\ node' = IF job.kind = "restore" THEN WithKids(node, Root, kids) ELSE node
      /\ job' = Idle /\ next' = next + 1 /\ UNCHANGED <<top, frozen, dirty>>
  BY DEF CloneFails
<1>2. /\ next \in Nat /\ next \notin DOMAIN node
      /\ next + 1 \in FirstIno..(LastIno + 1) /\ reuses' \in 0..MaxReuse
  BY <1>1, OneTaken
<1>3. \A k \in 1..Len(Copied(t)) : Knowing(db, next, db.meta[t.src], Copied(t)[k])
  BY <1>1, CopiedHolds
<1>4. RowsHold(db) /\ MemoryHolds(db, node, top, next)
  BY DEF IInv
<1>5. RowsHold(db') /\ Agrees(db, db', node, next)
  BY <1>1, <1>2, <1>3, <1>4 DEF Agrees, Knowing, Knows
<1>6. MemoryHolds(db', node, top, next)
  BY <1>4, <1>5, MemoryKnows
<1>7. MemoryHolds(db', node, top, next + 1)
  BY <1>2, <1>6, MemoryLater
<1>8. Root \in DOMAIN node /\ IsMap(node[Root].kids, Name, DOMAIN node)
  BY <1>4 DEF MemoryHolds, NodeHolds
<1>9. IsMap(kids, Name, DOMAIN node)
  BY <1>8 DEF IsMap, Names
<1> HIDE DEF kids
<1>10. MemoryHolds(db', node', top', next') /\ DOMAIN node' = DOMAIN node
  <2>1. CASE node' = WithKids(node, Root, kids)
    BY <1>1, <1>7, <1>8, <1>9, <2>1, WithKidsHolds
  <2>2. CASE node' = node
    BY <1>1, <1>7, <2>2
  <2> QED BY <1>1, <2>1, <2>2
<1>11. JobHolds(db', node', job')
  BY <1>1 DEF JobHolds
<1> QED BY <1>1, <1>2, <1>5, <1>10, <1>11 DEF IInv

(* The end of a snapshot, with its row saved or not. *)
LEMMA FinishedHolds ==
  ASSUME IInv, FinishSnapshot \/ FinishFails
  PROVE  IInv'
<1> DEFINE e == SaveSnapshot(db, job.name, job.root)
           f == Frozen(job.root, job.ids)
           s == CHOOSE x \in job.then : TRUE
           j == Cloning("clear", s, {}, {}, {}, Root)
<1>1. /\ job.kind = "snapshot" /\ frozen' = Put(frozen, job.name, f)
      /\ db' \in {db, e} /\ (job' = Idle \/ (job.then # {} /\ job' = j))
      /\ UNCHANGED <<node, top, dirty, next, reuses>>
  BY DEF FinishSnapshot, FinishFails
<1>2. /\ job.name \in SnapLabel /\ job.then \subseteq SnapLabel
      /\ job.ids \subseteq Ino /\ job.root \in Ino
  BY <1>1 DEF IInv, JobHolds, Idle
<1>3. RowsHold(db)
  BY DEF IInv
<1>4. RowsHold(e) /\ e.meta = db.meta
  BY <1>2, <1>3, SnapSaved
<1> HIDE DEF e
<1>5. RowsHold(db') /\ db'.meta = db.meta
  <2>1. db' = db \/ db' = e
    BY <1>1
  <2> QED BY <1>3, <1>4, <2>1
<1>6. MemoryHolds(db', node, top, next)
  BY <1>5 DEF IInv, MemoryHolds, NodeHolds, KernelKnows
<1>7. f \in FrozenType
  BY <1>2 DEF FrozenType, Frozen
<1> HIDE DEF f
<1>8. IsMap(frozen', SnapLabel, FrozenType)
  BY <1>1, <1>2, <1>7 DEF IInv, IsMap, Put
<1>9. JobHolds(db', node', job')
  <2>1. CASE job' = Idle
    BY <2>1 DEF JobHolds
  <2>2. CASE job.then # {} /\ job' = j
    <3>1. s \in SnapLabel
      BY <1>2, <2>2
    <3> HIDE DEF s
    <3>2. /\ j.kind = "clear" /\ j.name = s /\ j.then = {} /\ j.ids = {} /\ j.root = Root
          /\ j.todo = {} /\ j = Cloning(j.kind, j.name, j.then, j.todo, j.ids, j.root)
      BY DEF Cloning
    <3> HIDE DEF j
    <3> QED BY <2>2, <3>1, <3>2 DEF JobHolds, Ino
  <2> QED BY <1>1, <2>1, <2>2
<1> QED BY <1>1, <1>5, <1>6, <1>8, <1>9 DEF IInv

LEMMA ClearedHolds ==
  ASSUME IInv, NEW N, NEW e, e = Cleared(N)
  PROVE  RowsHold(e) /\ e.meta = db.meta
<1> DEFINE gone == {<<Root, n>> : n \in N}
           m == [x \in DOMAIN db.dirent \ gone |-> db.dirent[x]]
<1>1. e = Rows(db.meta, m, db.recipe, db.snap)
  BY DEF Cleared
<1> HIDE DEF gone
<1>2. DOMAIN m \subseteq DOMAIN db.dirent /\ m = [x \in DOMAIN m |-> db.dirent[x]]
  OBVIOUS
<1> HIDE DEF m
<1>3. RowsHold(db)
  BY DEF IInv
<1> QED BY <1>1, <1>2, <1>3, DirentsGone

(* The empty memory, and what a restore has to clone back. *)
LEMMA EmptiedHolds ==
  ASSUME IInv, Emptied, RowsHold(db'), db'.meta[Root] = TRUE, UNCHANGED reuses,
         NEW d, RowsHold(d), DOMAIN d.meta \subseteq DOMAIN db'.meta,
         job.kind = "clear", job' = Idle \/ job' = CloneBack(d)
  PROVE  IInv'
<1> DEFINE kids == Listed(d, frozen[job.name].root)
           todo == {Task(kids[n], Root, n) : n \in DOMAIN kids}
           j == Cloning("restore", job.name, {}, todo, {}, Root)
<1>1. node' = Put(<<>>, Root, Node(Root, TRUE, <<>>)) /\ top' = Shared /\ dirty' = <<>>
      /\ UNCHANGED <<frozen, next>>
  BY DEF Emptied
<1>2. DOMAIN node' = {Root} /\ node'[Root] = Node(Root, TRUE, <<>>)
  BY <1>1 DEF Put
<1>3. node'[Root].ino = Root /\ node'[Root].dir = TRUE /\ node'[Root].kids = <<>>
  BY <1>2 DEF Node
<1>4. Root \in DOMAIN db'.meta
  BY DEF RowsHold
<1>5. NodeHolds(db', node', Root)
  BY <1>2, <1>3, <1>4, EmptyMap DEF NodeHolds, KernelKnows
<1>6. top'.shared \in BOOLEAN /\ IsMap(top'.kids, Name, DOMAIN node')
  BY <1>1, EmptyMap DEF Shared
<1>7. MemoryHolds(db', node', top', next')
  BY <1>2, <1>3, <1>5, <1>6 DEF MemoryHolds
<1>8. IsMap(dirty', DOMAIN node', Content)
  BY <1>1, EmptyMap
<1>9. JobHolds(db', node', job')
  <2>1. IsMap(kids, Name, DOMAIN d.meta)
    BY ListedMap
  <2>2. job' = Idle \/ job' = j
    BY DEF CloneBack
  <2>3. job.name \in SnapLabel
    BY DEF IInv, JobHolds, Idle
  <2> HIDE DEF kids
  <2>4. ASSUME NEW u \in todo PROVE TaskHolds(db', node', "restore", u)
    <3>1. PICK n \in DOMAIN kids : u = Task(kids[n], Root, n)
      OBVIOUS
    <3>2. u.src = kids[n] /\ u.parent = Root /\ u.name = n /\ u = Task(u.src, u.parent, u.name)
      BY <3>1 DEF Task
    <3>3. kids[n] \in DOMAIN db'.meta /\ n \in Name /\ n \in Label
      BY <2>1 DEF IsMap, Label
    <3> QED BY <1>2, <1>3, <1>4, <3>2, <3>3 DEF TaskHolds
  <2> HIDE DEF todo
  <2>5. /\ j.kind = "restore" /\ j.name = job.name /\ j.then = {} /\ j.ids = {}
        /\ j.root = Root /\ j.todo = todo
        /\ j = Cloning(j.kind, j.name, j.then, j.todo, j.ids, j.root)
    BY DEF Cloning
  <2> HIDE DEF j
  <2> QED BY <2>2, <2>3, <2>4, <2>5 DEF JobHolds, Ino
<1> QED BY <1>1, <1>7, <1>8, <1>9 DEF IInv

LEMMA ClearHolds ==
  ASSUME IInv, ClearLive \/ ClearFails
  PROVE  IInv'
<1> DEFINE old == DOMAIN Listed(db, Root)
<1>1. \A N : RowsHold(Cleared(N)) /\ Cleared(N).meta = db.meta
  BY ClearedHolds
<1>2. ASSUME NEW N
      PROVE  LET e == SaveInode(Cleared(N), Root, TRUE)
             IN RowsHold(e) /\ e.meta[Root] = TRUE /\ DOMAIN Cleared(N).meta \subseteq DOMAIN e.meta
  <2> DEFINE e == SaveInode(Cleared(N), Root, TRUE)
  <2>1. RowsHold(e) /\ Knows(Cleared(N), e, Root) /\ e.meta[Root] = TRUE
    BY <1>1, InodeSaved DEF Ino
  <2> QED BY <2>1 DEF Knows
<1>3. job.kind = "clear" /\ UNCHANGED reuses /\ reuses' \in 0..MaxReuse
  BY TypeStays DEF ClearLive, ClearFails
<1>4. CASE \E N \in (SUBSET old) \ {{}} : Mount(Cleared(N))
  <2>1. PICK N : Mount(Cleared(N))
    BY <1>4
  <2> QED BY <1>1, <1>3, <2>1, MountHolds
<1>5. CASE /\ db' = SaveInode(Cleared(old), Root, TRUE) /\ job' = CloneBack(Cleared(old)) /\ Emptied
  BY <1>1, <1>2, <1>3, <1>5, EmptiedHolds
<1>6. ASSUME NEW n \in old, db' = SaveInode(Cleared(old \ {n}), Root, TRUE), job' = CloneBack(db'),
             Emptied
      PROVE  IInv'
  BY <1>2, <1>3, <1>6, EmptiedHolds
<1>7. CASE db' = Cleared(old) /\ job' = Idle /\ Emptied
  <2>1. RowsHold(db') /\ db'.meta[Root] = TRUE
    BY <1>1, <1>7 DEF RowsHold
  <2> QED BY <1>3, <1>7, <2>1, EmptiedHolds
<1> QED BY <1>4, <1>5, <1>6, <1>7 DEF ClearLive, ClearFails

LEMMA CrashHolds == ASSUME IInv, Crash PROVE IInv'
<1>1. RowsHold(db) /\ reuses' \in 0..MaxReuse
  BY TypeStays DEF Crash, IInv
<1> QED BY <1>1, MountHolds DEF Crash

-----------------------------------------------------------------------------
(* Every step.                                                             *)

LEMMA InitHolds == Init => IInv
<1> SUFFICES ASSUME Init PROVE IInv
  OBVIOUS
<1> DEFINE d == Rows(<<>>, <<>>, <<>>, <<>>)
           nd == Put(<<>>, Root, Node(Root, TRUE, <<>>))
<1>1. /\ db = SaveInode(d, Root, TRUE) /\ node = nd /\ top = Shared /\ frozen = <<>>
      /\ dirty = <<>> /\ next = FirstIno /\ job = Idle /\ reuses = 0
  BY DEF Init, Empty
<1>2. /\ d.meta = <<>> /\ d.dirent = <<>> /\ d.recipe = <<>> /\ d.snap = <<>>
      /\ d = Rows(d.meta, d.dirent, d.recipe, d.snap)
  BY DEF Rows
<1> HIDE DEF d
<1>3. /\ db.meta = Put(<<>>, Root, TRUE) /\ db.dirent = <<>> /\ db.recipe = <<>> /\ db.snap = <<>>
      /\ db = Rows(db.meta, db.dirent, db.recipe, db.snap)
  BY <1>1, <1>2 DEF SaveInode, Rows
<1>4. DOMAIN db.meta = {Root} /\ db.meta[Root] = TRUE /\ IsMap(db.meta, Ino, BOOLEAN)
  BY <1>3 DEF Put, IsMap, Ino
<1>5. DOMAIN db.dirent = {}
  BY <1>3
<1>6. IsFiniteSet(DOMAIN db.dirent)
  BY <1>5, FS_EmptySet
<1>7. RowsHold(db)
  BY <1>3, <1>4, <1>6, EmptyMap DEF RowsHold
<1>8. DOMAIN node = {Root} /\ node[Root] = Node(Root, TRUE, <<>>)
  BY <1>1 DEF Put
<1>9. node[Root].ino = Root /\ node[Root].dir = TRUE /\ node[Root].kids = <<>>
  BY <1>8 DEF Node
<1>10. NodeHolds(db, node, Root)
  BY <1>4, <1>8, <1>9, EmptyMap DEF NodeHolds, KernelKnows
<1>11. top.shared \in BOOLEAN /\ IsMap(top.kids, Name, DOMAIN node)
  BY <1>1, EmptyMap DEF Shared
<1>12. MemoryHolds(db, node, top, next)
  BY <1>8, <1>9, <1>10, <1>11 DEF MemoryHolds
<1>13. IsMap(frozen, SnapLabel, FrozenType) /\ IsMap(dirty, DOMAIN node, Content)
  BY <1>1, EmptyMap
<1>14. next \in FirstIno..(LastIno + 1) /\ reuses \in 0..MaxReuse
  BY <1>1, BoundAssumption DEF FirstIno
<1>15. JobHolds(db, node, job)
  BY <1>1 DEF JobHolds
<1> QED BY <1>7, <1>12, <1>13, <1>14, <1>15 DEF IInv

LEMMA NextHolds == ASSUME IInv, Next PROVE IInv'
<1>1. ASSUME NEW p \in Dirs \cup FrozenIds, NEW n \in FileName, Create(p, n) PROVE IInv'
  <2>1. p \in Dirs
    BY <1>1 DEF Create
  <2> QED BY <1>1, <2>1, CreateHolds
<1>2. ASSUME NEW n \in DirName, Mkdir(n) PROVE IInv'
  BY <1>2, MkdirHolds
<1>3. ASSUME NEW p \in Dirs \cup FrozenIds, NEW n \in FileName \cup DirName, Unlink(p, n) PROVE IInv'
  <2>1. p \in Dirs
    BY <1>3 DEF Unlink
  <2> QED BY <1>3, <2>1, UnlinkHolds
<1>4. ASSUME NEW p \in Dirs \cup FrozenIds, NEW q \in Dirs \cup FrozenIds,
             NEW n \in FileName \cup DirName, NEW m \in FileName \cup DirName, Rename(p, n, q, m)
      PROVE  IInv'
  <2>1. p \in Dirs /\ q \in Dirs
    BY <1>4 DEF Rename
  <2> QED BY <1>4, <2>1, RenameHolds
<1>5. ASSUME NEW i \in Files \cup {j \in FrozenIds : ~db.meta[j]}, NEW c \in Content \ {NoContent},
             Write(i, c)
      PROVE  IInv'
  <2>1. i \in Files
    BY <1>5 DEF Write
  <2>2. PICK p \in Dirs : i \in {Child(p, n) : n \in Names(p)}
    BY <2>1 DEF Files
  <2>3. PICK n \in Names(p) : i = Child(p, n)
    BY <2>2
  <2>4. \A j \in DOMAIN node : NodeHolds(db, node, j)
    BY DEF IInv, MemoryHolds
  <2>5. p \in DOMAIN node
    BY DirsKnown DEF KernelKnows
  <2>6. node[p].kids[n] \in DOMAIN node
    BY <2>3, <2>4, <2>5 DEF NodeHolds, IsMap, Names
  <2>7. i \in DOMAIN node
    BY <2>3, <2>4, <2>6 DEF NodeHolds, KernelKnows, Child
  <2> QED BY <1>5, <2>7, WriteHolds
<1>6. ASSUME NEW i \in DOMAIN dirty, Flush(i) PROVE IInv'
  BY <1>6, FlushHolds
<1>7. ASSUME SnapshotStep PROVE IInv'
  BY <1>7, SnapshotStepHolds
<1>8. ASSUME job # Idle, CloneStep PROVE IInv'
  <2>1. ASSUME NEW t \in job.todo, CloneNode(t) PROVE IInv'
    BY <1>8, <2>1, CloneHolds
  <2>2. ASSUME FinishRestore PROVE IInv'
    <3>1. job' = Idle /\ UNCHANGED <<db, node, top, frozen, dirty, next, reuses>>
      BY <2>2 DEF FinishRestore
    <3>2. JobHolds(db', node', job')
      BY <3>1 DEF JobHolds
    <3> QED BY <3>1, <3>2 DEF IInv
  <2> QED BY <1>8, <2>1, <2>2, FinishedHolds, ClearHolds DEF CloneStep
<1>9. ASSUME Crash PROVE IInv'
  BY <1>9, CrashHolds
<1>10. ASSUME MakeStep(DirName) PROVE IInv'
  BY <1>1, <1>2, <1>10 DEF MakeStep
<1>11. ASSUME MoveStep(DirName) PROVE IInv'
  BY <1>3, <1>4, <1>11 DEF MoveStep
<1>12. ASSUME WriteStep PROVE IInv'
  BY <1>5, <1>6, <1>12 DEF WriteStep
<1> QED BY <1>7, <1>8, <1>9, <1>10, <1>11, <1>12 DEF Next

LEMMA StutterHolds == ASSUME IInv, UNCHANGED vars PROVE IInv'
BY DEF IInv, vars

LEMMA FaultHolds == ASSUME IInv, FaultNext PROVE IInv'
<1>1. ASSUME NEW p \in Dirs, NEW n \in FileName, CreateFails(p, n) PROVE IInv'
  BY <1>1, CreateFailsHolds
<1>2. ASSUME NEW n \in DirName, MkdirFails(n) PROVE IInv'
  BY <1>2, MkdirFailsHolds
<1>3. ASSUME NEW p \in Dirs, NEW n \in Name, UnlinkFails(p, n) PROVE IInv'
  BY <1>3, UnlinkHolds
<1>4. ASSUME NEW p \in Dirs, NEW q \in Dirs, NEW n \in Name, NEW m \in Name, RenameFails(p, n, q, m)
      PROVE  IInv'
  BY <1>4, RenameFailsHolds
<1>5. ASSUME NEW s \in DOMAIN frozen, RemoveFails(s) PROVE IInv'
  BY <1>5, RemoveFailsHolds
<1>6. ASSUME job # Idle, NEW t \in job.todo, CloneFails(t) PROVE IInv'
  BY <1>6, CloneFailsHolds
<1>7. ASSUME NoError(Next) PROVE IInv'
  BY <1>7, NextHolds DEF NoError
<1>8. ASSUME RequestFails PROVE IInv'
  BY <1>1, <1>2, <1>3, <1>4, <1>8 DEF RequestFails
<1>9. ASSUME SnapshotFails PROVE IInv'
  BY <1>5, <1>6, <1>9, FinishedHolds, ClearHolds DEF SnapshotFails
<1> QED BY <1>7, <1>8, <1>9 DEF FaultNext

(* Whatever errors occur and wherever the process dies: every entry, on    *)
(* disk and in memory, leads to something that is there, what the kernel   *)
(* knows is registered under the id it knows, and of the kind the rows     *)
(* say.                                                                    *)
THEOREM FaultInvariance == FaultSpec => []IInv
<1>1. FaultInit => IInv
  BY InitHolds DEF FaultInit
<1>2. IInv /\ [FaultNext]_faultVars => IInv'
  BY FaultHolds, StutterHolds DEF faultVars
<1> QED BY <1>1, <1>2, PTL DEF FaultSpec

(* The same without errors of calls. *)
THEOREM NamespaceInvariance == Spec => []IInv
<1>1. Init => IInv
  BY InitHolds
<1>2. IInv /\ [Next]_vars => IInv'
  BY NextHolds, StutterHolds
<1> QED BY <1>1, <1>2, PTL DEF Spec

(* The types of the rows and of the memory, with errors of any call.       *)
THEOREM FaultTypes == FaultSpec => []TypeOK
BY FaultInvariance, TypesFollow, PTL

(* The types of the rows and of the memory, whatever requests arrive and   *)
(* wherever the process dies.                                              *)
THEOREM NamespaceTypes == Spec => []TypeOK
BY NamespaceInvariance, TypesFollow, PTL
=============================================================================
