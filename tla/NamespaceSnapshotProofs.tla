----------------------- MODULE NamespaceSnapshotProofs ----------------------
(***************************************************************************)
(* Proofs about snapshots, for every set of names and contents and every   *)
(* bound: nothing changes what a snapshot shows but its removal; one that  *)
(* appears shows the live tree; a restore has a backup before it touches   *)
(* the live tree, and leaves it showing the snapshot when it completes.    *)
(*                                                                         *)
(* The first half sets ids apart: a set U that no entry leads into or out  *)
(* of, with the trees of all snapshots in it, grows by the clones of each  *)
(* new one, and every write of every request is outside of it.  The second *)
(* half follows a clone: a map m from the clones to what they were made    *)
(* from, which agrees with the entries as far as nothing is left to do.    *)
(* The last part puts both together: Namespace implements SnapshotStore.   *)
(***************************************************************************)
EXTENDS NamespaceEntriesProofs

-----------------------------------------------------------------------------
(* Ids set apart from the others.                                          *)

(* No entry leads into U or out of it, and none of U has two in it.        *)
Apart(d, U) ==
  /\ U \subseteq DOMAIN d.meta \ {Root}
  /\ \A x \in DOMAIN d.dirent : x[1] # SnapshotDir => (x[1] \in U <=> d.dirent[x] \in U)
  /\ \A x, y \in DOMAIN d.dirent : x[1] \in U /\ y[1] \in U /\ d.dirent[x] = d.dirent[y] => x = y
(* r is a directory of U, to which nothing in U leads. *)
RootOf(d, U, r) ==
  r \in U /\ d.meta[r] = TRUE /\ \A x \in DOMAIN d.dirent : x[1] \in U => d.dirent[x] # r

(* The rows e are d, but for what is not about U. *)
Outside(d, e, U) ==
  /\ \A u \in U : /\ u \in DOMAIN d.meta => u \in DOMAIN e.meta /\ e.meta[u] = d.meta[u]
                  /\ Stored(e, u) = Stored(d, u)
  /\ \A x \in DOMAIN e.dirent : \/ x \in DOMAIN d.dirent /\ e.dirent[x] = d.dirent[x]
                                \/ x[1] \notin U /\ e.dirent[x] \notin U
  /\ \A x \in DOMAIN d.dirent : x[1] \in U => x \in DOMAIN e.dirent /\ e.dirent[x] = d.dirent[x]

LEMMA OutsideSame ==
  ASSUME NEW d, NEW e, NEW U, e.meta = d.meta, e.dirent = d.dirent, e.recipe = d.recipe
  PROVE  Outside(d, e, U)
BY DEF Outside, Stored

LEMMA OutsideOn ==
  ASSUME NEW d, NEW e, NEW f, NEW U, Outside(d, e, U), Outside(e, f, U)
  PROVE  Outside(d, f, U)
BY DEF Outside

LEMMA ApartOn ==
  ASSUME NEW d, NEW e, NEW U, Apart(d, U), Outside(d, e, U)
  PROVE  Apart(e, U) /\ \A r : RootOf(d, U, r) => RootOf(e, U, r)
<1>1. U \subseteq DOMAIN e.meta \ {Root}
  BY DEF Apart, Outside
<1>2. ASSUME NEW x \in DOMAIN e.dirent, x[1] # SnapshotDir
      PROVE  x[1] \in U <=> e.dirent[x] \in U
  BY <1>2 DEF Apart, Outside
<1>3. ASSUME NEW x \in DOMAIN e.dirent, x[1] \in U
      PROVE  x \in DOMAIN d.dirent /\ e.dirent[x] = d.dirent[x]
  BY <1>3 DEF Outside
<1>4. ASSUME NEW x \in DOMAIN e.dirent, NEW y \in DOMAIN e.dirent, x[1] \in U, y[1] \in U,
             e.dirent[x] = e.dirent[y]
      PROVE  x = y
  BY <1>3, <1>4 DEF Apart
<1>5. Apart(e, U)
  BY <1>1, <1>2, <1>4 DEF Apart
<1>6. ASSUME NEW r, RootOf(d, U, r) PROVE RootOf(e, U, r)
  <2>1. r \in U /\ d.meta[r] = TRUE /\ r \in DOMAIN d.meta
    BY <1>6 DEF RootOf, Apart
  <2>2. e.meta[r] = TRUE
    BY <2>1 DEF Outside
  <2> QED BY <1>3, <1>6, <2>1, <2>2 DEF RootOf
<1> QED BY <1>5, <1>6

-----------------------------------------------------------------------------
(* Writes outside of U.                                                    *)

LEMMA OutsideInode ==
  ASSUME NEW d, NEW i, NEW dir, NEW U, i \notin U
  PROVE  Outside(d, SaveInode(d, i, dir), U)
BY DEF Outside, SaveInode, Rows, Put, Stored

LEMMA OutsideDirent ==
  ASSUME NEW d, NEW p, NEW n, NEW i, NEW U, p \notin U, i \notin U
  PROVE  Outside(d, SaveDirent(d, p, n, i), U)
<1> DEFINE e == SaveDirent(d, p, n, i)
           k == <<p, n>>
<1>1. e.meta = d.meta /\ e.recipe = d.recipe /\ e.dirent = Put(d.dirent, k, i)
  BY DEF SaveDirent, Rows
<1>2. k[1] = p
  OBVIOUS
<1> HIDE DEF e, k
<1>3. Outside(d, e, U)
  BY <1>1, <1>2 DEF Outside, Put, Stored
<1> QED BY <1>3 DEF e

LEMMA OutsideGone ==
  ASSUME NEW d, NEW e, NEW U, e.meta = d.meta, e.recipe = d.recipe,
         DOMAIN e.dirent \subseteq DOMAIN d.dirent,
         \A x \in DOMAIN e.dirent : e.dirent[x] = d.dirent[x],
         \A x \in DOMAIN d.dirent : x[1] \in U => x \in DOMAIN e.dirent
  PROVE  Outside(d, e, U)
BY DEF Outside, Stored

LEMMA OutsideUnnamed ==
  ASSUME NEW d, NEW p, NEW n, NEW U, p \notin U
  PROVE  Outside(d, DeleteDirent(d, p, n), U)
<1> DEFINE e == DeleteDirent(d, p, n)
           k == <<p, n>>
<1>1. e.meta = d.meta /\ e.recipe = d.recipe /\ e.dirent = Drop(d.dirent, k)
  BY DEF DeleteDirent, Rows
<1>2. k[1] = p
  OBVIOUS
<1> HIDE DEF e, k
<1>3. Outside(d, e, U)
  BY <1>1, <1>2, OutsideGone DEF Drop
<1> QED BY <1>3 DEF e

LEMMA OutsideRecipe ==
  ASSUME NEW d, NEW i, NEW c, NEW U, i \notin U
  PROVE  Outside(d, SaveRecipe(d, i, c), U)
BY DEF Outside, SaveRecipe, Rows, Put, Stored

-----------------------------------------------------------------------------
(* What a mount finds.                                                     *)

(* U is set apart and has the roots of all snapshots. *)
Held(d, U) ==
  RowsHold(d) /\ Apart(d, U) /\ \A s \in DOMAIN d.snap : RootOf(d, U, d.snap[s])

LEMMA HeldOn ==
  ASSUME NEW d, NEW e, NEW U, Held(d, U), RowsHold(e), Outside(d, e, U), e.snap = d.snap
  PROVE  Held(e, U)
<1>1. Apart(e, U) /\ \A r : RootOf(d, U, r) => RootOf(e, U, r)
  BY ApartOn DEF Held
<1> QED BY <1>1 DEF Held

RunOf(f, d, r, dirs) ==
  LET n == Cardinality(DOMAIN d.dirent)
  IN /\ n \in Nat /\ Reached(d, r, dirs) = f[n] /\ f[0] = {r}
     /\ \A k \in 1..n : f[k] = Level(d, dirs, f[k - 1])
LEMMA RunExists ==
  ASSUME NEW d, NEW r, NEW dirs, IsFiniteSet(DOMAIN d.dirent)
  PROVE  \E f : RunOf(f, d, r, dirs)
<1> DEFINE n == Cardinality(DOMAIN d.dirent)
<1>1. PICK f : /\ n \in Nat /\ Reached(d, r, dirs) = f[n] /\ f[0] = {r}
               /\ \A k \in 1..n : f[k] = Level(d, dirs, f[k - 1])
  BY ReachedRun
<1> QED BY <1>1 DEF RunOf

(* A set that has r and what the ids in it list has all that is reached.   *)
LEMMA ReachedStays ==
  ASSUME NEW d, NEW r, NEW dirs, IsFiniteSet(DOMAIN d.dirent),
         NEW C, r \in C, Entered(d, C \cap dirs) \subseteq C
  PROVE  Reached(d, r, dirs) \subseteq C
<1> DEFINE n == Cardinality(DOMAIN d.dirent)
<1>0. PICK f : RunOf(f, d, r, dirs)
  BY RunExists
<1>1. /\ n \in Nat /\ Reached(d, r, dirs) = f[n] /\ f[0] = {r}
      /\ \A k \in 1..n : f[k] = Level(d, dirs, f[k - 1])
  BY <1>0 DEF RunOf
<1> DEFINE M == {k \in Nat : k <= n => f[k] \subseteq C}
<1> HIDE DEF n, M
<1>2. ASSUME NEW k \in Nat, \A j \in Nat : j < k => j \in M
      PROVE  k \in M
  <2>1. CASE k = 0
    BY <1>1, <2>1 DEF M
  <2>2. CASE 0 < k /\ k <= n
    <3>1. k - 1 \in M /\ k \in 1..n /\ k - 1 <= n
      BY <1>1, <1>2, <2>2
    <3>2. f[k] = Level(d, dirs, f[k - 1]) /\ f[k - 1] \subseteq C
      BY <1>1, <3>1 DEF M
    <3>3. Entered(d, f[k - 1] \cap dirs) \subseteq Entered(d, C \cap dirs)
      BY <3>2 DEF Entered
    <3> QED BY <3>2, <3>3 DEF M, Level
  <2>3. CASE k > n
    BY <1>1, <2>3 DEF M
  <2> QED BY <1>1, <2>1, <2>2, <2>3
<1>3. n \in M
  BY <1>1, <1>2, NoLeastException
<1> QED BY <1>1, <1>3 DEF M

LEMMA IdsAreNot2 == \A i \in Ino : i # SnapshotDir
BY BoundAssumption DEF Ino, SnapshotDir, Root, FirstIno

(* The live tree does not lead into U. *)
LEMMA LiveStaysOut ==
  ASSUME NEW d, NEW U, Held(d, U), NEW dirs, dirs \subseteq DOMAIN d.meta
  PROVE  Reached(d, Root, dirs) \cap U = {}
<1> DEFINE C == {i \in Reached(d, Root, dirs) : i \notin U}
<1>1. IsFiniteSet(DOMAIN d.dirent)
  BY DEF Held, RowsHold
<1>2. Root \in C
  BY <1>1, ReachedWithin DEF Held, Apart
<1>3. ASSUME NEW x \in DOMAIN d.dirent, x[1] \in C \cap dirs PROVE d.dirent[x] \notin U
  <2>1. x[1] # SnapshotDir
    BY <1>3, IdsAreNot2 DEF Held, RowsHold, IsMap
  <2> QED BY <1>3, <2>1 DEF Held, Apart
<1>4. Entered(d, C \cap dirs) \subseteq Reached(d, Root, dirs)
  <2>1. Entered(d, Reached(d, Root, dirs) \cap dirs) \subseteq Reached(d, Root, dirs)
    BY <1>1, ReachedClosed
  <2> QED BY <2>1 DEF Entered
<1>5. Entered(d, C \cap dirs) \subseteq C
  BY <1>3, <1>4 DEF Entered
<1> HIDE DEF C
<1>6. Reached(d, Root, dirs) \subseteq C
  BY <1>1, <1>2, <1>5, ReachedStays
<1> QED BY <1>6 DEF C

(* The tree below a root in U can be restored. *)
LEMMA SnapsAreWhole ==
  ASSUME NEW d, NEW U, Held(d, U), NEW r, RootOf(d, U, r)
  PROVE  Whole(d, r)
<1> DEFINE ids == Reached(d, r, DOMAIN d.meta)
           into(j) == {x \in DOMAIN d.dirent : x[1] \in ids /\ d.dirent[x] = j}
           C == {r} \cup Entered(d, ids \cap DOMAIN d.meta)
<1>1. IsFiniteSet(DOMAIN d.dirent)
  BY DEF Held, RowsHold
<1>2. ids \subseteq U
  <2>1. \A x \in DOMAIN d.dirent : x[1] \in U => d.dirent[x] \in U
    <3>1. U \subseteq Ino
      BY DEF Held, Apart, RowsHold, IsMap
    <3> QED BY <3>1, IdsAreNot2 DEF Held, Apart
  <2>2. Entered(d, U \cap DOMAIN d.meta) \subseteq U
    BY <2>1 DEF Entered
  <2>3. r \in U
    BY DEF RootOf
  <2> QED BY <1>1, <2>2, <2>3, ReachedStays
<1>3. ids \subseteq DOMAIN d.meta
  BY <1>2 DEF Held, Apart
<1>4. ids \subseteq C
  <2>1. r \in ids /\ Entered(d, ids \cap DOMAIN d.meta) \subseteq ids
    BY <1>1, ReachedWithin, ReachedClosed
  <2>2. Entered(d, C \cap DOMAIN d.meta) \subseteq C
    BY <2>1 DEF Entered
  <2> HIDE DEF C
  <2>3. r \in C
    BY DEF C
  <2> QED BY <1>1, <2>2, <2>3, ReachedStays
<1> HIDE DEF ids
<1>5. ASSUME NEW j \in ids PROVE Cardinality(into(j)) = IF j = r THEN 0 ELSE 1
  <2>1. CASE j = r
    <3>1. into(j) = {}
      BY <1>2, <2>1 DEF RootOf
    <3> QED BY <2>1, <3>1, FS_EmptySet
  <2>2. CASE j # r
    <3>1. PICK x \in DOMAIN d.dirent : x[1] \in ids /\ d.dirent[x] = j
      BY <1>4, <2>2 DEF Entered
    <3>2. \A y \in into(j) : y = x
      BY <1>2, <3>1 DEF Held, Apart
    <3>3. into(j) = {x}
      BY <3>1, <3>2
    <3> HIDE DEF into
    <3> QED BY <2>2, <3>3, FS_Singleton
  <2> QED BY <2>1, <2>2
<1> QED BY <1>3, <1>5 DEF Whole, ids

(* A mount changes none of the rows of U, prunes no snapshot and registers *)
(* nothing in U.                                                           *)
LEMMA MountOutside ==
  ASSUME NEW d, NEW U, Held(d, U), Mount(d), IInv'
  PROVE  /\ Held(db', U) /\ Outside(d, db', U) /\ db'.snap = d.snap
         /\ U \cap DOMAIN node' = {} /\ job' = Idle
         /\ \A s \in DOMAIN frozen' : s \in DOMAIN d.snap /\ frozen'[s].root = d.snap[s]
<1> DEFINE e == SaveInode(d, Root, TRUE)
           dirs == {i \in DOMAIN e.meta : e.meta[i]}
           live == Reached(e, Root, dirs) \cap DOMAIN e.meta
           kept == {s \in DOMAIN e.snap : Whole(e, e.snap[s])}
<1>1. /\ db' = Rows(e.meta, e.dirent, e.recipe, [s \in kept |-> e.snap[s]])
      /\ DOMAIN node' = live /\ job' = Idle
      /\ frozen' = [s \in kept |-> Frozen(e.snap[s], Reached(e, e.snap[s], DOMAIN e.meta))]
  BY DEF Mount
<1>2. Root \notin U
  BY DEF Held, Apart
<1>3. Outside(d, e, U)
  BY <1>2, OutsideInode
<1>4. RowsHold(e) /\ e.snap = d.snap
  <2>1. RowsHold(d)
    BY DEF Held
  <2>2. RowsHold(e)
    BY <2>1, InodeSaved DEF Ino
  <2>3. e.snap = d.snap
    BY DEF SaveInode, Rows
  <2> QED BY <2>2, <2>3
<1> HIDE DEF e
<1>5. Held(e, U)
  BY <1>3, <1>4, HeldOn
<1>6. live \cap U = {}
  BY <1>5, LiveStaysOut
<1>7. kept = DOMAIN d.snap
  BY <1>4, <1>5, SnapsAreWhole DEF Held
<1>8. db'.meta = e.meta /\ db'.dirent = e.dirent /\ db'.recipe = e.recipe
      /\ db'.snap = [s \in DOMAIN d.snap |-> d.snap[s]]
  BY <1>1, <1>4, <1>7 DEF Rows
<1>9. db'.snap = d.snap
  BY <1>8 DEF Held, RowsHold, IsMap
<1>10. Outside(e, db', U)
  BY <1>8, OutsideSame
<1>11. Outside(d, db', U)
  BY <1>3, <1>10, OutsideOn
<1>12. Held(db', U)
  BY <1>9, <1>11, HeldOn DEF IInv
<1>13. \A s \in DOMAIN frozen' : s \in DOMAIN d.snap /\ frozen'[s].root = d.snap[s]
  BY <1>1, <1>4 DEF Frozen
<1> QED BY <1>1, <1>6, <1>9, <1>11, <1>12, <1>13

-----------------------------------------------------------------------------
(* Writes that leave the snapshots' rows alone, and nothing of U.          *)

Beside(d, e, U) == Outside(d, e, U) /\ e.snap = d.snap

LEMMA BesideOn ==
  ASSUME NEW d, NEW e, NEW f, NEW U, Beside(d, e, U), Beside(e, f, U)
  PROVE  Beside(d, f, U)
BY OutsideOn DEF Beside

LEMMA BesideSame == ASSUME NEW d, NEW U PROVE Beside(d, d, U)
BY OutsideSame DEF Beside

LEMMA BesideInode ==
  ASSUME NEW d, NEW i, NEW dir, NEW U, i \notin U
  PROVE  Beside(d, SaveInode(d, i, dir), U)
<1>1. SaveInode(d, i, dir).snap = d.snap
  BY DEF SaveInode, Rows
<1> QED BY <1>1, OutsideInode DEF Beside

LEMMA BesideDirent ==
  ASSUME NEW d, NEW p, NEW n, NEW i, NEW U, p \notin U, i \notin U
  PROVE  Beside(d, SaveDirent(d, p, n, i), U)
<1>1. SaveDirent(d, p, n, i).snap = d.snap
  BY DEF SaveDirent, Rows
<1> QED BY <1>1, OutsideDirent DEF Beside

LEMMA BesideUnnamed ==
  ASSUME NEW d, NEW p, NEW n, NEW U, p \notin U
  PROVE  Beside(d, DeleteDirent(d, p, n), U)
<1>1. DeleteDirent(d, p, n).snap = d.snap
  BY DEF DeleteDirent, Rows
<1> QED BY <1>1, OutsideUnnamed DEF Beside

LEMMA BesideRecipe ==
  ASSUME NEW d, NEW i, NEW c, NEW U, i \notin U
  PROVE  Beside(d, SaveRecipe(d, i, c), U)
<1>1. SaveRecipe(d, i, c).snap = d.snap
  BY DEF SaveRecipe, Rows
<1> QED BY <1>1, OutsideRecipe DEF Beside

-----------------------------------------------------------------------------
(* What holds as long as no id was handed out twice: the ids of the        *)
(* snapshots are set apart, nothing of them is registered, and a clone is  *)
(* attached to none of them.  The ids of a snapshot that is being made are *)
(* set apart as well, and from those.                                      *)

JobApart(d, nd, j, fr, U) ==
  j # Idle =>
    /\ \A t \in j.todo : t.parent \notin U
    /\ j.kind = "snapshot" =>
         /\ Apart(d, j.ids) /\ j.ids \cap U = {} /\ j.ids \cap DOMAIN nd = {}
         /\ j.name \notin DOMAIN fr
         /\ \A t \in j.todo : t.parent \in j.ids \/ (t.parent = SnapshotDir /\ t.src = Root)
         /\ RootOf(d, j.ids, j.root) \/ \E t \in j.todo : t.parent = SnapshotDir
(* The roots of the snapshots in memory; one may have lost its row.        *)
FrozenIn(d, fr, U) == \A s \in DOMAIN fr : RootOf(d, U, fr[s].root)
SealedIn(d, nd, j, fr, U) ==
  Held(d, U) /\ U \cap DOMAIN nd = {} /\ JobApart(d, nd, j, fr, U) /\ FrozenIn(d, fr, U)

(* What every step does with ids that are set apart. *)
SnapsStay ==
  /\ \A s \in DOMAIN db.snap \cap DOMAIN frozen :
       RemoveSnapshot(s) \/ (s \in DOMAIN db'.snap /\ db'.snap[s] = db.snap[s])
  /\ \A s \in DOMAIN db'.snap \ DOMAIN db.snap : FinishSnapshot \/ FinishFails
(* What it does to their names. *)
Relisted ==
  DOMAIN frozen' = DOMAIN db'.snap /\ \A s \in DOMAIN frozen' : frozen'[s].root = db'.snap[s]
NamesStep ==
  \/ db'.snap = db.snap /\ (frozen' = frozen \/ Relisted)
  \/ FinishSnapshot \/ FinishFails
  \/ \E s : RemoveSnapshot(s) \/ RemoveFails(s)
Seals(U) ==
  /\ Outside(db, db', U) /\ SnapsStay /\ NamesStep
  /\ \E V : U \subseteq V /\ SealedIn(db', node', job', frozen', V)

Sealed(U) == SealedIn(db, node, job, frozen, U)

LEMMA SameSnapsStay == ASSUME db'.snap = db.snap PROVE SnapsStay
BY DEF SnapsStay

LEMMA BesideSeals ==
  ASSUME NEW U, Sealed(U), IInv', Beside(db, db', U), U \cap DOMAIN node' = {},
         JobApart(db', node', job', frozen', U), frozen' = frozen
  PROVE  Seals(U)
<1>1. Held(db', U)
  BY HeldOn DEF Beside, IInv, Sealed, SealedIn
<1>2. FrozenIn(db', frozen', U)
  BY ApartOn DEF Beside, Sealed, SealedIn, Held, FrozenIn
<1>3. SealedIn(db', node', job', frozen', U)
  BY <1>1, <1>2 DEF SealedIn
<1> QED BY <1>3, SameSnapsStay DEF Seals, Beside, NamesStep

(* A request that answers, with or without an error. *)
LEMMA AnswerSeals ==
  ASSUME NEW U, Sealed(U), IInv', Beside(db, db', U), U \cap DOMAIN node' = {}, job' = Idle,
         frozen' = frozen
  PROVE  Seals(U)
BY BesideSeals DEF JobApart

LEMMA MountRelists == ASSUME NEW d, Mount(d) PROVE Relisted
<1> DEFINE e == SaveInode(d, Root, TRUE)
           kept == {s \in DOMAIN e.snap : Whole(e, e.snap[s])}
<1>1. /\ db' = Rows(e.meta, e.dirent, e.recipe, [s \in kept |-> e.snap[s]])
      /\ frozen' = [s \in kept |-> Frozen(e.snap[s], Reached(e, e.snap[s], DOMAIN e.meta))]
  BY DEF Mount
<1>2. db'.snap = [s \in kept |-> e.snap[s]]
  BY <1>1 DEF Rows
<1> HIDE DEF e, kept
<1> QED BY <1>1, <1>2 DEF Relisted, Frozen

LEMMA MountSeals ==
  ASSUME NEW U, Sealed(U), IInv', NEW d, RowsHold(d), Beside(db, d, U), Mount(d)
  PROVE  Seals(U)
<1>1. Held(d, U)
  BY HeldOn DEF Beside, Sealed, SealedIn
<1>2. /\ Held(db', U) /\ Outside(d, db', U) /\ db'.snap = d.snap
      /\ U \cap DOMAIN node' = {} /\ job' = Idle
      /\ \A s \in DOMAIN frozen' : s \in DOMAIN d.snap /\ frozen'[s].root = d.snap[s]
  BY <1>1, MountOutside
<1>3. Beside(db, db', U)
  BY <1>2, BesideOn DEF Beside
<1>4. FrozenIn(db', frozen', U)
  BY <1>2 DEF FrozenIn, Held
<1>5. SealedIn(db', node', job', frozen', U)
  BY <1>2, <1>4 DEF SealedIn, JobApart
<1>6. Relisted
  BY MountRelists
<1> QED BY <1>3, <1>5, <1>6, SameSnapsStay DEF Seals, Beside, NamesStep

LEMMA CutShortSeals ==
  ASSUME NEW U, Sealed(U), IInv', NEW trees, CutShort(trees),
         \A k \in 1..(Len(trees) - 1) : RowsHold(trees[k]) /\ Beside(db, trees[k], U)
  PROVE  Seals(U)
<1>1. PICK k \in 1..(Len(trees) - 1) : Mount(trees[k])
  BY DEF CutShort
<1> QED BY <1>1, MountSeals

(* What requests are about is registered, or an id without rows: not in U. *)
LEMMA LiveOutside ==
  ASSUME NEW U, Sealed(U), IInv
  PROVE  /\ \A p \in Dirs : p \in DOMAIN node /\ p \notin U
         /\ \A i \in DOMAIN node : i \notin U
         /\ U \subseteq DOMAIN db.meta /\ Root \notin U /\ SnapshotDir \notin U
<1>1. U \cap DOMAIN node = {} /\ Apart(db, U)
  BY DEF Sealed, SealedIn, Held
<1>2. \A p \in Dirs : p \in DOMAIN node
  BY DirsKnown DEF KernelKnows
<1>3. U \subseteq DOMAIN db.meta \ {Root}
  BY <1>1 DEF Apart
<1>4. DOMAIN db.meta \subseteq Ino
  BY DEF IInv, RowsHold, IsMap
<1>5. SnapshotDir \notin U
  BY <1>3, <1>4, IdsAreNot2
<1> QED BY <1>1, <1>2, <1>3, <1>5

LEMMA NewOutside ==
  ASSUME NEW U, Sealed(U), IInv, Taken(1), reuses' = reuses
  PROVE  next \notin U /\ next \notin DOMAIN db.meta /\ next \notin DOMAIN node
BY OneTaken, LiveOutside

-----------------------------------------------------------------------------
(* Requests about the live tree.                                           *)

(* a, b and c are the rows d after the metadata of i, its entry n in p and *)
(* its recipe are saved.                                                   *)
Adding(d, p, n, i, dir, data, a, b, c) ==
  a = SaveInode(d, i, dir) /\ b = SaveDirent(a, p, n, i) /\ c = SaveRecipe(b, i, data)

LEMMA AddedBeside ==
  ASSUME NEW d, NEW p, NEW n, NEW i, NEW dir, NEW data, NEW a, NEW b, NEW c,
         Adding(d, p, n, i, dir, data, a, b, c), NEW U, p \notin U, i \notin U
  PROVE  Beside(d, a, U) /\ Beside(d, b, U) /\ Beside(d, c, U)
<1>1. Beside(d, a, U) /\ Beside(a, b, U) /\ Beside(b, c, U)
  BY BesideInode, BesideDirent, BesideRecipe DEF Adding
<1>2. Beside(d, b, U)
  BY <1>1, BesideOn
<1>3. Beside(d, c, U)
  BY <1>1, <1>2, BesideOn
<1> QED BY <1>1, <1>2, <1>3

LEMMA CreateSeals ==
  ASSUME NEW U, Sealed(U), IInv, IInv', reuses' = reuses,
         NEW p \in Dirs, NEW n \in FileName, Create(p, n) \/ CreateFails(p, n)
  PROVE  Seals(U)
<1> DEFINE a == SaveInode(db, next, FALSE)
           b == SaveDirent(a, p, n, next)
           c == SaveRecipe(b, next, NoContent)
           t == Created(p, n)
           ne == Attach(Put(node, next, Node(next, FALSE, <<>>)), p, n, next)
<1>1. t = <<a, b, c>>
  BY DEF Created
<1>2. Taken(1) /\ job = Idle
  BY DEF Create, CreateFails
<1>3. /\ next \notin U /\ p \notin U /\ \A i \in DOMAIN node : i \notin U
      /\ p \in DOMAIN node
  BY <1>2, NewOutside, LiveOutside
<1>4. Adding(db, p, n, next, FALSE, NoContent, a, b, c)
  BY DEF Adding
<1>5. Making(db, p, n, next, FALSE, NoContent, a, b, c)
  <2>1. KernelKnows(db, node, p, TRUE)
    BY DirsKnown
  <2>2. next \in Ino \ {Root}
    BY <1>2, OneTaken
  <2> QED BY <2>1, <2>2, NoContentAssumption DEF Making, IInv, Label, Name, KernelKnows
<1>6. \/ db' = Last(t) /\ node' = ne /\ job' = Idle /\ frozen' = frozen
      \/ db' \in {db, t[1], t[2], t[3]} /\ node' = node /\ job' = Idle /\ frozen' = frozen
      \/ CutShort(t)
  BY <1>2 DEF Create, CreateFails
<1>7. DOMAIN ne = DOMAIN node \cup {next, p}
  BY DEF Attach, WithKids, Put
<1> HIDE DEF a, b, c, t, ne
<1>8. Beside(db, a, U) /\ Beside(db, b, U) /\ Beside(db, c, U) /\ Beside(db, db, U)
  BY <1>3, <1>4, AddedBeside, BesideSame
<1>9. RowsHold(a) /\ RowsHold(b)
  BY <1>5, RowsMade DEF Knowing
<1>10. CASE CutShort(t)
  <2>1. \A k \in 1..(Len(t) - 1) : RowsHold(t[k]) /\ Beside(db, t[k], U)
    BY <1>1, <1>8, <1>9
  <2> QED BY <1>10, <2>1, CutShortSeals
<1>11. CASE /\ db' \in {db, a, b, c} /\ DOMAIN node' \subseteq DOMAIN node \cup {next, p}
            /\ job' = Idle /\ frozen' = frozen
  <2>1. Beside(db, db', U)
    BY <1>8, <1>11
  <2>2. U \cap DOMAIN node' = {}
    BY <1>3, <1>11
  <2> QED BY <1>11, <2>1, <2>2, AnswerSeals
<1>12. Last(t) = c /\ t[1] = a /\ t[2] = b /\ t[3] = c
  BY <1>1 DEF Last
<1> QED BY <1>6, <1>7, <1>10, <1>11, <1>12

LEMMA MkdirSeals ==
  ASSUME NEW U, Sealed(U), IInv, IInv', reuses' = reuses,
         NEW n \in DirName, Mkdir(n) \/ MkdirFails(n)
  PROVE  Seals(U)
<1> DEFINE a == SaveInode(db, next, TRUE)
           b == SaveDirent(a, Root, n, next)
           c == SaveRecipe(b, next, NoContent)
           t == Made(n)
           own == Mutable(node, top, Root, next)
           ne == Attach(Put(node, next, Node(next, TRUE, <<>>)), Root, n, next)
<1>1. t = <<a, b>>
  BY DEF Made
<1>2. Taken(1) /\ job = Idle
  BY DEF Mkdir, MkdirFails
<1>3. /\ next \notin U /\ Root \notin U /\ \A i \in DOMAIN node : i \notin U
  BY <1>2, NewOutside, LiveOutside
<1>4. Adding(db, Root, n, next, TRUE, NoContent, a, b, c)
  BY DEF Adding
<1>5. Making(db, Root, n, next, TRUE, NoContent, a, b, c)
  <2>1. Root \in DOMAIN db.meta
    BY DEF IInv, RowsHold
  <2>2. next \in Ino \ {Root}
    BY <1>2, OneTaken
  <2> QED BY <2>1, <2>2, NoContentAssumption DEF Making, IInv, Label, Name
<1>6. own.node = node
  BY RootMutable
<1>7. \/ /\ db' = Last(t) /\ node' = Attach(Put(own.node, next, Node(next, TRUE, <<>>)), Root, n, next)
         /\ job' = Idle /\ frozen' = frozen
      \/ db' \in {db, t[1], t[2]} /\ node' = own.node /\ job' = Idle /\ frozen' = frozen
      \/ CutShort(t)
  BY <1>2 DEF Mkdir, MkdirFails
<1>8. DOMAIN ne = DOMAIN node \cup {next, Root}
  BY DEF Attach, WithKids, Put
<1> HIDE DEF own
<1>9. \/ db' = Last(t) /\ node' = ne /\ job' = Idle /\ frozen' = frozen
      \/ db' \in {db, t[1], t[2]} /\ node' = node /\ job' = Idle /\ frozen' = frozen
      \/ CutShort(t)
  BY <1>6, <1>7
<1> HIDE DEF a, b, c, t, ne
<1>10. Beside(db, a, U) /\ Beside(db, b, U) /\ Beside(db, db, U)
  BY <1>3, <1>4, AddedBeside, BesideSame
<1>11. RowsHold(a)
  BY <1>5, RowsMade DEF Knowing
<1>12. CASE CutShort(t)
  <2>1. \A k \in 1..(Len(t) - 1) : RowsHold(t[k]) /\ Beside(db, t[k], U)
    BY <1>1, <1>10, <1>11
  <2> QED BY <1>12, <2>1, CutShortSeals
<1>13. CASE /\ db' \in {db, a, b} /\ DOMAIN node' \subseteq DOMAIN node \cup {next, Root}
            /\ job' = Idle /\ frozen' = frozen
  <2>1. Beside(db, db', U)
    BY <1>10, <1>13
  <2>2. U \cap DOMAIN node' = {}
    BY <1>3, <1>13
  <2> QED BY <1>13, <2>1, <2>2, AnswerSeals
<1>14. Last(t) = b /\ t[1] = a /\ t[2] = b
  BY <1>1 DEF Last
<1> QED BY <1>8, <1>9, <1>12, <1>13, <1>14

LEMMA WriteSeals ==
  ASSUME NEW U, Sealed(U), IInv', NEW i, NEW c, Write(i, c)
  PROVE  Seals(U)
<1>1. db' = db /\ node' = node /\ job' = Idle /\ frozen' = frozen
  BY DEF Write
<1>2. Beside(db, db', U)
  BY <1>1, BesideSame
<1> QED BY <1>1, <1>2, AnswerSeals DEF Sealed, SealedIn

LEMMA FlushSeals ==
  ASSUME NEW U, Sealed(U), IInv, IInv', NEW i \in DOMAIN dirty, Flush(i)
  PROVE  Seals(U)
<1> DEFINE a == SaveRecipe(db, i, dirty[i])
           b == IF i \in DOMAIN node THEN SaveInode(a, i, node[i].dir) ELSE a
<1>1. /\ job = Idle
      /\ \/ db' = b /\ node' = node /\ job' = job /\ frozen' = frozen
         \/ CutShort(<<a, b>>)
  BY DEF Flush
<1>2. i \in DOMAIN node /\ dirty[i] \in Content
  BY DEF IInv, IsMap
<1>3. i \notin U
  BY <1>2, LiveOutside
<1>4. Beside(db, a, U)
  BY <1>3, BesideRecipe
<1>5. RowsHold(a)
  <2>1. next \in Nat /\ next <= LastIno + 1 /\ RowsHold(db) /\ MemoryHolds(db, node, top, next)
    BY BoundAssumption DEF IInv, FirstIno
  <2>2. i \in Ino
    BY <1>2, <2>1, RegisteredKind
  <2> QED BY <1>2, <2>1, <2>2, RecipeSaved
<1> HIDE DEF a
<1>6. Beside(db, b, U)
  <2>1. Beside(a, SaveInode(a, i, node[i].dir), U)
    BY <1>3, BesideInode
  <2> QED BY <1>2, <1>4, <2>1, BesideOn
<1> HIDE DEF b
<1>7. CASE CutShort(<<a, b>>)
  <2> DEFINE t == <<a, b>>
  <2>1. \A k \in 1..(Len(t) - 1) : RowsHold(t[k]) /\ Beside(db, t[k], U)
    BY <1>4, <1>5
  <2>2. CutShort(t)
    BY <1>7
  <2> HIDE DEF t
  <2> QED BY <2>1, <2>2, CutShortSeals
<1>8. CASE db' = b /\ node' = node /\ job' = job /\ frozen' = frozen
  BY <1>1, <1>6, <1>8, AnswerSeals DEF Sealed, SealedIn
<1> QED BY <1>1, <1>7, <1>8

LEMMA UnlinkSeals ==
  ASSUME NEW U, Sealed(U), IInv, IInv',
         NEW p \in Dirs, NEW n, Unlink(p, n) \/ UnlinkFails(p, n)
  PROVE  Seals(U)
<1>1. /\ db' = DeleteDirent(db, p, n) \/ db' = db
      /\ node' = Detach(node, p, n) /\ job' = Idle /\ frozen' = frozen
  BY DEF Unlink, UnlinkFails
<1>2. p \in DOMAIN node /\ p \notin U
  BY LiveOutside
<1>3. Beside(db, db', U)
  BY <1>1, <1>2, BesideUnnamed, BesideSame
<1>4. DOMAIN node' = DOMAIN node
  BY <1>1, <1>2 DEF Detach, WithKids, Put
<1> QED BY <1>1, <1>3, <1>4, AnswerSeals DEF Sealed, SealedIn

(* A copy on write registers the id it took, and nothing else. *)
Registers1(nd, ne, used, i) ==
  \/ used = 0 /\ ne = nd
  \/ used = 1 /\ DOMAIN ne \subseteq DOMAIN nd \cup {i}

LEMMA MutableAdds ==
  ASSUME NEW nd, NEW tp, NEW p, NEW i, Root \in DOMAIN nd,
         NEW own, own = Mutable(nd, tp, p, i)
  PROVE  Registers1(nd, own.node, own.used, i)
<1>1. CASE p # Root /\ Shadows(nd, tp, p)
  <2> DEFINE n == CHOOSE m \in Paths(nd, tp, p) : TRUE
             cloned == Put(nd, i, Node(nd[p].ino, nd[p].dir, nd[p].kids))
  <2>1. /\ own.node = IF tp.shared THEN Attach(cloned, Root, n, i) ELSE cloned
        /\ own.used = 1
    BY <1>1 DEF Mutable
  <2>2. DOMAIN cloned = DOMAIN nd \cup {i}
    BY DEF Put
  <2> HIDE DEF cloned, n
  <2>3. DOMAIN Attach(cloned, Root, n, i) = DOMAIN cloned \cup {Root}
    BY DEF Attach, WithKids, Put
  <2> QED BY <2>1, <2>2, <2>3 DEF Registers1
<1>2. CASE ~(p # Root /\ Shadows(nd, tp, p))
  BY <1>2 DEF Mutable, Shadows, Registers1
<1> QED BY <1>1, <1>2

(* The memory and the rows of a rename, after each write. *)
MoveOutside(w, U) ==
  /\ \A i \in DOMAIN w.node : i \notin U
  /\ \A k \in 1..4 : Beside(db, w.trees[k], U)

LEMMA MovedOutside ==
  ASSUME NEW U, Sealed(U), IInv, reuses' = reuses,
         NEW p \in Dirs, NEW n, NEW q \in Dirs, NEW m, Renamable(p, n, q, m),
         NEW w, w = Moved(p, n, q, m), Taken(w.used)
  PROVE  MoveOutside(w, U)
<1> DEFINE own == Mutable(node, top, p, next)
           other == Mutable(own.node, own.top, q, next + own.used)
           both == IF q = p THEN [node |-> own.node, top |-> own.top, used |-> 0] ELSE other
           o == both.node[p].kids[n]
           cleared == IF m \in DOMAIN both.node[q].kids THEN DeleteDirent(db, q, m) ELSE db
           saved == SaveInode(cleared, o, both.node[o].dir)
           unnamed == DeleteDirent(saved, p, n)
           named == SaveDirent(unnamed, q, m, o)
<1>1. /\ w.node = both.node /\ w.used = own.used + both.used /\ w.child = o
      /\ w.trees = <<cleared, saved, unnamed, named>>
  BY DEF Moved
<1>2. /\ p \notin U /\ q \notin U /\ \A i \in DOMAIN node : i \notin U
      /\ U \subseteq DOMAIN db.meta
  BY LiveOutside
<1>3. w.used \in Nat /\ w.child \in DOMAIN w.node
  BY MovedHolds DEF MoveHolds
<1>4. next \in Nat /\ \A i \in U : ~(next <= i /\ i < next + w.used)
  BY <1>2, <1>3, TakenCounts
<1>5. Root \in DOMAIN node
  BY DEF IInv, MemoryHolds
<1>6. Registers1(node, own.node, own.used, next)
  BY <1>5, MutableAdds
<1>7. Root \in DOMAIN own.node => Registers1(own.node, other.node, other.used, next + own.used)
  BY MutableAdds
<1>8. Root \in DOMAIN own.node
  <2>1. p \in DOMAIN node
    BY LiveOutside
  <2>2. next \in Nat /\ FirstIno <= next /\ MemoryHolds(db, node, top, next)
    BY BoundAssumption DEF IInv, FirstIno
  <2>3. Keeps(node, own.node)
    BY <2>1, <2>2, MutableHolds
  <2> QED BY <1>5, <2>3 DEF Keeps
<1> HIDE DEF own, other
<1>9. \/ both.node = own.node /\ both.used = 0
      \/ both.node = other.node /\ both.used = other.used
  <2>1. CASE q = p
    BY <2>1
  <2>2. CASE q # p
    BY <2>2
  <2> QED BY <2>1, <2>2
<1> HIDE DEF both
<1>10. ASSUME NEW i \in DOMAIN w.node PROVE i \notin U
  <2>1. CASE i \in DOMAIN node
    BY <1>2, <2>1
  <2>2. CASE i \notin DOMAIN node
    <3>1. CASE i \in DOMAIN own.node
      <4>1. own.used = 1 /\ i = next
        BY <1>6, <2>2, <3>1 DEF Registers1
      <4>2. both.used \in {0, 1}
        BY <1>7, <1>8, <1>9 DEF Registers1
      <4>3. next <= i /\ i < next + w.used
        BY <1>1, <1>4, <4>1, <4>2
      <4> QED BY <1>4, <4>3
    <3>2. CASE i \notin DOMAIN own.node
      <4>1. both.used = 1 /\ i = next + own.used
        BY <1>1, <1>7, <1>8, <1>9, <3>2 DEF Registers1
      <4>2. own.used \in {0, 1}
        BY <1>6 DEF Registers1
      <4>3. next <= i /\ i < next + w.used
        BY <1>1, <1>4, <4>1, <4>2
      <4> QED BY <1>4, <4>3
    <3> QED BY <3>1, <3>2
  <2> QED BY <2>1, <2>2
<1>11. o \notin U
  BY <1>1, <1>3, <1>10
<1>12. Beside(db, cleared, U)
  BY <1>2, BesideUnnamed, BesideSame
<1> HIDE DEF o, cleared
<1>13. Beside(cleared, saved, U)
  BY <1>11, BesideInode
<1> HIDE DEF saved
<1>14. Beside(saved, unnamed, U)
  BY <1>2, BesideUnnamed
<1> HIDE DEF unnamed
<1>15. Beside(unnamed, named, U)
  BY <1>2, <1>11, BesideDirent
<1> HIDE DEF named
<1>16. Beside(db, saved, U)
  BY <1>12, <1>13, BesideOn
<1>17. Beside(db, unnamed, U)
  BY <1>14, <1>16, BesideOn
<1>18. Beside(db, named, U)
  BY <1>15, <1>17, BesideOn
<1>19. \A k \in 1..4 : Beside(db, w.trees[k], U)
  BY <1>1, <1>12, <1>16, <1>17, <1>18
<1> QED BY <1>10, <1>19 DEF MoveOutside

LEMMA RenameSeals ==
  ASSUME NEW U, Sealed(U), IInv, IInv', reuses' = reuses,
         NEW p \in Dirs, NEW n, NEW q \in Dirs, NEW m,
         Rename(p, n, q, m) \/ RenameFails(p, n, q, m)
  PROVE  Seals(U)
<1> DEFINE w == Moved(p, n, q, m)
           out == Detach(w.node, p, n)
<1>0. w = Moved(p, n, q, m)
  OBVIOUS
<1>1. Renamable(p, n, q, m) /\ Taken(w.used) /\ job = Idle
  BY DEF Rename, RenameFails
<1>2. \/ /\ db' = Last(w.trees) /\ node' = Attach(out, q, m, w.child)
         /\ job' = Idle /\ frozen' = frozen
      \/ CutShort(w.trees)
      \/ \E k \in 2..4 :
           /\ db' \in {w.trees[k - 1], w.trees[k]} /\ job' = Idle /\ frozen' = frozen
           /\ node' = IF k = 2 THEN Detach(out, q, m) ELSE Attach(out, q, m, w.child)
  BY <1>1 DEF Rename, RenameFails
<1> HIDE DEF w
<1>3. MoveHolds(w, next) /\ MoveOutside(w, U)
  BY <1>0, <1>1, MovedHolds, MovedOutside
<1>4. CASE CutShort(w.trees)
  <2>1. \A k \in 1..(Len(w.trees) - 1) : RowsHold(w.trees[k]) /\ Beside(db, w.trees[k], U)
    BY <1>3 DEF MoveHolds, MoveOutside
  <2> QED BY <1>4, <2>1, CutShortSeals
<1>5. CASE ~CutShort(w.trees)
  <2>1. Len(w.trees) = 4 /\ \A k \in 1..4 : Beside(db, w.trees[k], U)
    BY <1>3 DEF MoveHolds, MoveOutside
  <2>2. \E k \in 1..4 : db' = w.trees[k]
    <3>1. Last(w.trees) = w.trees[4]
      BY <2>1 DEF Last
    <3>2. CASE db' = Last(w.trees)
      BY <3>1, <3>2
    <3>3. CASE \E k \in 2..4 : db' \in {w.trees[k - 1], w.trees[k]}
      <4>1. PICK k \in 2..4 : db' \in {w.trees[k - 1], w.trees[k]}
        BY <3>3
      <4>2. k - 1 \in 1..4 /\ k \in 1..4
        OBVIOUS
      <4> QED BY <4>1, <4>2
    <3> QED BY <1>2, <1>5, <3>2, <3>3
  <2>3. /\ job' = Idle /\ frozen' = frozen
        /\ node' = Detach(out, q, m) \/ node' = Attach(out, q, m, w.child)
    BY <1>2, <1>5
  <2>4. DOMAIN node' \subseteq DOMAIN w.node \cup {p, q}
    <3>1. DOMAIN out = DOMAIN w.node \cup {p}
      BY DEF Detach, WithKids, Put
    <3> HIDE DEF out
    <3>2. DOMAIN Detach(out, q, m) = DOMAIN out \cup {q}
      BY DEF Detach, WithKids, Put
    <3>3. DOMAIN Attach(out, q, m, w.child) = DOMAIN out \cup {q}
      BY DEF Attach, WithKids, Put
    <3> QED BY <2>3, <3>1, <3>2, <3>3
  <2>5. p \notin U /\ q \notin U /\ \A i \in DOMAIN w.node : i \notin U
    BY <1>3, LiveOutside DEF MoveOutside
  <2>6. Beside(db, db', U)
    BY <2>1, <2>2
  <2>7. U \cap DOMAIN node' = {}
    BY <2>4, <2>5
  <2> QED BY <2>3, <2>6, <2>7, AnswerSeals
<1> QED BY <1>4, <1>5

-----------------------------------------------------------------------------
(* Snapshots.                                                              *)

LEMMA BeginSeals ==
  ASSUME NEW U, Sealed(U), IInv, IInv', NEW s, NEW then, BeginSnapshot(s, then)
  PROVE  Seals(U)
<1> DEFINE j == Cloning("snapshot", s, then, {Task(Root, SnapshotDir, s)}, {}, Root)
<1>1. /\ s \notin DOMAIN frozen
      /\ \/ db' = Flushed(DOMAIN dirty) /\ job' = j /\ node' = node /\ frozen' = frozen
         \/ \E S \in SUBSET DOMAIN dirty : Mount(Flushed(S))
  BY DEF BeginSnapshot
<1>2. ASSUME NEW S \in SUBSET DOMAIN dirty
      PROVE  RowsHold(Flushed(S)) /\ Beside(db, Flushed(S), U)
  <2> DEFINE e == Flushed(S)
  <2>1. RowsHold(e)
    BY FlushedHolds
  <2>2. /\ e.meta = db.meta /\ e.dirent = db.dirent /\ e.snap = db.snap
        /\ e.recipe = [i \in DOMAIN db.recipe \cup S |-> IF i \in S THEN dirty[i] ELSE db.recipe[i]]
    BY DEF Flushed, Rows
  <2> HIDE DEF e
  <2>3. \A i \in S : i \notin U
    BY LiveOutside DEF IInv, IsMap
  <2>4. \A u \in U : Stored(e, u) = Stored(db, u)
    BY <2>2, <2>3 DEF Stored
  <2>5. Outside(db, e, U)
    BY <2>2, <2>4 DEF Outside
  <2> QED BY <2>1, <2>2, <2>5 DEF Beside, e
<1>3. CASE \E S \in SUBSET DOMAIN dirty : Mount(Flushed(S))
  <2>1. PICK S \in SUBSET DOMAIN dirty : Mount(Flushed(S))
    BY <1>3
  <2> QED BY <1>2, <2>1, MountSeals
<1>4. CASE db' = Flushed(DOMAIN dirty) /\ job' = j /\ node' = node /\ frozen' = frozen
  <2>1. Beside(db, db', U)
    BY <1>2, <1>4
  <2>2. /\ j.todo = {Task(Root, SnapshotDir, s)} /\ j.ids = {} /\ j.name = s
        /\ Task(Root, SnapshotDir, s).parent = SnapshotDir /\ Task(Root, SnapshotDir, s).src = Root
    BY DEF Cloning, Task
  <2> HIDE DEF j
  <2>3. Apart(db', {})
    BY DEF Apart
  <2>4. JobApart(db', node', job', frozen', U)
    BY <1>1, <1>4, <2>2, <2>3, LiveOutside DEF JobApart
  <2> QED BY <1>4, <2>1, <2>4, BesideSeals DEF Sealed, SealedIn
<1> QED BY <1>1, <1>3, <1>4

(* A node is added to what is set apart. *)
LEMMA ApartGrows ==
  ASSUME NEW d, RowsHold(d), NEW U, Apart(d, U), NEW p \in U \cup {SnapshotDir}, NEW n,
         NEW i \in Ino \ {Root}, i \notin DOMAIN d.meta, NEW dir,
         NEW e, e.meta = Put(d.meta, i, dir), e.dirent = Put(d.dirent, <<p, n>>, i)
  PROVE  /\ Apart(e, U \cup {i})
         /\ \A r : RootOf(d, U, r) => RootOf(e, U \cup {i}, r)
         /\ p = SnapshotDir /\ dir = TRUE => RootOf(e, U \cup {i}, i)
<1> DEFINE k == <<p, n>>
           V == U \cup {i}
<1>1. k[1] = p
  OBVIOUS
<1>2. e.dirent = Put(d.dirent, k, i)
  OBVIOUS
<1> HIDE DEF k
<1>3. /\ DOMAIN e.dirent = DOMAIN d.dirent \cup {k} /\ e.dirent[k] = i
      /\ \A x \in DOMAIN d.dirent \ {k} : e.dirent[x] = d.dirent[x]
  BY <1>2 DEF Put
<1>4. \A x \in DOMAIN d.dirent : /\ x[1] \in DOMAIN d.meta \cup {SnapshotDir}
                                 /\ d.dirent[x] \in DOMAIN d.meta
  BY DEF RowsHold, IsMap
<1>5. i # SnapshotDir
  BY IdsAreNot2
<1>6. SnapshotDir \notin V
  BY <1>5, IdsAreNot2 DEF Apart, RowsHold, IsMap
<1>7. \A x \in DOMAIN e.dirent : x # k => /\ x \in DOMAIN d.dirent /\ e.dirent[x] = d.dirent[x]
                                          /\ x[1] # i /\ e.dirent[x] # i
  BY <1>3, <1>4, <1>5
<1> HIDE DEF k
<1>8. V \subseteq DOMAIN e.meta \ {Root}
  <2>1. DOMAIN e.meta = DOMAIN d.meta \cup {i}
    BY DEF Put
  <2> QED BY <2>1 DEF Apart
<1>9. ASSUME NEW x \in DOMAIN e.dirent, x[1] # SnapshotDir
      PROVE  x[1] \in V <=> e.dirent[x] \in V
  <2>1. CASE x = k
    BY <1>1, <1>3, <1>9, <2>1
  <2>2. CASE x # k
    BY <1>7, <1>9, <2>2 DEF Apart
  <2> QED BY <2>1, <2>2
<1>10. ASSUME NEW x \in DOMAIN e.dirent, NEW y \in DOMAIN e.dirent, x[1] \in V, y[1] \in V,
              e.dirent[x] = e.dirent[y]
       PROVE  x = y
  <2>1. CASE x = k \/ y = k
    BY <1>3, <1>7, <1>10, <2>1
  <2>2. CASE x # k /\ y # k
    BY <1>7, <1>10, <2>2 DEF Apart
  <2> QED BY <2>1, <2>2
<1>11. ASSUME NEW r, RootOf(d, U, r) PROVE RootOf(e, V, r)
  <2>1. r \in U /\ r # i
    BY <1>11 DEF RootOf, Apart
  <2>2. ASSUME NEW x \in DOMAIN e.dirent, x[1] \in V PROVE e.dirent[x] # r
    <3>1. CASE x = k
      BY <1>3, <2>1, <3>1
    <3>2. CASE x # k
      BY <1>7, <1>11, <2>2, <3>2 DEF RootOf
    <3> QED BY <3>1, <3>2
  <2>3. e.meta[r] = TRUE
    <3>1. d.meta[r] = TRUE /\ r \in DOMAIN d.meta
      BY <1>11 DEF RootOf, Apart
    <3> QED BY <2>1, <3>1 DEF Put
  <2> QED BY <2>1, <2>2, <2>3 DEF RootOf
<1>12. ASSUME p = SnapshotDir, dir = TRUE PROVE RootOf(e, V, i)
  <2>1. \A x \in DOMAIN e.dirent : x[1] \in V => e.dirent[x] # i
    BY <1>1, <1>6, <1>7, <1>12
  <2>2. e.meta[i] = TRUE
    BY <1>12 DEF Put
  <2> QED BY <2>1, <2>2 DEF RootOf
<1>13. Apart(e, V)
  BY <1>8, <1>9, <1>10 DEF Apart
<1> QED BY <1>11, <1>12, <1>13

(* The clone of one node. *)
LEMMA CopiedOutside ==
  ASSUME NEW U, Sealed(U), IInv, job # Idle, NEW t \in job.todo,
         job.kind \in {"snapshot", "restore"}, Taken(1), reuses' = reuses
  PROVE  /\ \A k \in 1..Len(Copied(t)) : RowsHold(Copied(t)[k]) /\ Beside(db, Copied(t)[k], U)
         /\ Last(Copied(t)).meta = Put(db.meta, next, db.meta[t.src])
         /\ Last(Copied(t)).dirent = Put(db.dirent, <<t.parent, t.name>>, next)
         /\ Len(Copied(t)) \in 2..3
<1> DEFINE dir == db.meta[t.src]
           a == SaveInode(db, next, dir)
           b == SaveDirent(a, t.parent, t.name, next)
           data == Stored(b, t.src)
           c == SaveRecipe(b, next, data)
<1>1. Copied(t) = IF dir THEN <<a, b>> ELSE <<a, b, c>>
  BY DEF Copied
<1>2. t.parent \notin U /\ next \notin U
  BY NewOutside DEF Sealed, SealedIn, JobApart
<1>3. Adding(db, t.parent, t.name, next, dir, data, a, b, c)
  BY DEF Adding
<1>4. /\ \A k \in 1..Len(Copied(t)) : Knowing(db, next, dir, Copied(t)[k])
      /\ Len(Copied(t)) \in 2..3 /\ dir \in BOOLEAN
  BY CopiedHolds
<1>5. /\ b.meta = Put(db.meta, next, dir) /\ b.dirent = Put(db.dirent, <<t.parent, t.name>>, next)
      /\ c.meta = b.meta /\ c.dirent = b.dirent
  BY DEF SaveInode, SaveDirent, SaveRecipe, Rows
<1> HIDE DEF dir, a, b, c, data
<1>6. Beside(db, a, U) /\ Beside(db, b, U) /\ Beside(db, c, U)
  BY <1>2, <1>3, AddedBeside
<1>7. \A k \in 1..Len(Copied(t)) : Beside(db, Copied(t)[k], U)
  BY <1>1, <1>6
<1>8. Last(Copied(t)) \in {b, c}
  BY <1>1 DEF Last
<1> QED BY <1>4, <1>5, <1>7, <1>8 DEF Knowing, dir

LEMMA CloneSeals ==
  ASSUME NEW U, Sealed(U), IInv, IInv', job # Idle, NEW t \in job.todo, CloneNode(t), reuses' = reuses
  PROVE  Seals(U)
<1> DEFINE cp == Copied(t)
           e == Last(cp)
           kids == Listed(e, t.src)
           new == {Task(kids[n], next, n) : n \in DOMAIN kids}
           todo == (job.todo \ {t}) \cup new
           root == IF t.parent = SnapshotDir THEN next ELSE job.root
           ids == job.ids \cup {next}
           j == Cloning(job.kind, job.name, job.then, todo, ids, root)
           attached == Attach(Put(node, next, Node(next, db.meta[t.src], <<>>)), t.parent, t.name, next)
<1>1. /\ job.kind \in {"snapshot", "restore"} /\ Taken(1)
      /\ \/ /\ db' = e /\ job' = j /\ frozen' = frozen
            /\ node' = IF job.kind = "restore" THEN attached ELSE node
         \/ CutShort(cp)
  BY DEF CloneNode
<1>2. next \notin U /\ next \notin DOMAIN db.meta /\ next \notin DOMAIN node
  BY <1>1, NewOutside
<1>3. /\ \A k \in 1..Len(cp) : RowsHold(cp[k]) /\ Beside(db, cp[k], U)
      /\ e.meta = Put(db.meta, next, db.meta[t.src])
      /\ e.dirent = Put(db.dirent, <<t.parent, t.name>>, next)
      /\ Len(cp) \in 2..3
  BY <1>1, CopiedOutside
<1>4. JobApart(db, node, job, frozen, U) /\ t.parent \notin U
  BY DEF Sealed, SealedIn, JobApart
<1>5. CASE CutShort(cp)
  <2>1. \A k \in 1..(Len(cp) - 1) : RowsHold(cp[k]) /\ Beside(db, cp[k], U)
    BY <1>3
  <2> HIDE DEF cp
  <2> QED BY <1>5, <2>1, CutShortSeals
<1>6. CASE ~CutShort(cp)
  <2>1. Beside(db, e, U)
    BY <1>3 DEF Last
  <2>2. \A u \in new : u.parent = next
    BY DEF Task
  <2>3. DOMAIN attached = DOMAIN node \cup {next, t.parent}
    BY DEF Attach, WithKids, Put
  <2>4. next \in Ino \ {Root} /\ RowsHold(db)
    BY <1>1, OneTaken DEF IInv
  <2>5. /\ j.kind = job.kind /\ j.name = job.name /\ j.todo = todo /\ j.ids = ids /\ j.root = root
    BY DEF Cloning
  <2> HIDE DEF cp, e, kids, j, new, attached
  <2>6. U \cap DOMAIN node' = {}
    BY <1>1, <1>2, <1>4, <1>6, <2>3, LiveOutside
  <2>7. \A u \in todo : u.parent \notin U
    BY <1>2, <1>4, <2>2 DEF JobApart
  <2>8. ASSUME job.kind = "snapshot"
        PROVE  /\ Apart(e, ids) /\ ids \cap U = {} /\ ids \cap DOMAIN node = {}
               /\ job.name \notin DOMAIN frozen
               /\ \A u \in todo : u.parent \in ids \/ (u.parent = SnapshotDir /\ u.src = Root)
               /\ RootOf(e, ids, root) \/ \E u \in todo : u.parent = SnapshotDir
    <3>1. /\ Apart(db, job.ids) /\ job.ids \cap U = {} /\ job.ids \cap DOMAIN node = {}
          /\ job.name \notin DOMAIN frozen
          /\ \A u \in job.todo : u.parent \in job.ids \/ (u.parent = SnapshotDir /\ u.src = Root)
          /\ RootOf(db, job.ids, job.root) \/ \E u \in job.todo : u.parent = SnapshotDir
      BY <1>4, <2>8 DEF JobApart
    <3>2. t.parent \in job.ids \cup {SnapshotDir}
      BY <3>1
    <3>3. /\ Apart(e, ids)
          /\ \A r : RootOf(db, job.ids, r) => RootOf(e, ids, r)
          /\ t.parent = SnapshotDir /\ db.meta[t.src] = TRUE => RootOf(e, ids, next)
      BY <1>2, <1>3, <2>4, <3>1, <3>2, ApartGrows
    <3>4. \A u \in todo : u.parent \in ids \/ (u.parent = SnapshotDir /\ u.src = Root)
      BY <2>2, <3>1
    <3>6. t.parent = SnapshotDir /\ t.parent \notin job.ids => db.meta[t.src] = TRUE
      BY <2>4, <3>1 DEF RowsHold
    <3>7. SnapshotDir \notin job.ids
      <4>1. job.ids \subseteq Ino
        BY <2>4, <3>1 DEF Apart, RowsHold, IsMap
      <4> QED BY <4>1, IdsAreNot2
    <3>5. RootOf(e, ids, root) \/ \E u \in todo : u.parent = SnapshotDir
      BY <3>1, <3>3, <3>6, <3>7
    <3> QED BY <1>2, <3>1, <3>3, <3>4, <3>5
  <2>9. db' = e /\ job' = j /\ frozen' = frozen /\ (job.kind = "snapshot" => node' = node)
    BY <1>1, <1>6
  <2> HIDE DEF todo, ids, root
  <2>10. JobApart(db', node', job', frozen', U)
    BY <2>5, <2>7, <2>8, <2>9 DEF JobApart
  <2> QED BY <2>1, <2>6, <2>9, <2>10, BesideSeals
<1> QED BY <1>5, <1>6

LEMMA CloneFailsSeals ==
  ASSUME NEW U, Sealed(U), IInv, IInv', job # Idle, NEW t \in job.todo, CloneFails(t), reuses' = reuses
  PROVE  Seals(U)
<1> DEFINE parents == {u.parent : u \in job.todo}
           whole == {n \in Names(Root) : node[Root].kids[n] \notin parents}
           left == WithKids(node, Root, [n \in whole |-> node[Root].kids[n]])
<1>1. /\ job.kind \in {"snapshot", "restore"} /\ Taken(1) /\ job' = Idle /\ frozen' = frozen
      /\ db' = db \/ \E k \in 1..Len(Copied(t)) : db' = Copied(t)[k]
      /\ node' = left \/ node' = node
  BY DEF CloneFails
<1>2. Beside(db, db', U)
  <2>1. \A k \in 1..Len(Copied(t)) : Beside(db, Copied(t)[k], U)
    BY <1>1, CopiedOutside
  <2> QED BY <1>1, <2>1, BesideSame
<1>3. DOMAIN left = DOMAIN node \cup {Root}
  BY DEF WithKids, Put
<1> HIDE DEF left
<1>4. U \cap DOMAIN node' = {}
  BY <1>1, <1>3, LiveOutside
<1> QED BY <1>1, <1>2, <1>4, AnswerSeals

(* What is cloned is set apart for good. *)
LEMMA ApartTogether ==
  ASSUME NEW d, RowsHold(d), NEW U, NEW W, Apart(d, U), Apart(d, W), U \cap W = {}
  PROVE  /\ Apart(d, U \cup W)
         /\ \A r : RootOf(d, U, r) \/ RootOf(d, W, r) => RootOf(d, U \cup W, r)
<1>1. U \subseteq Ino /\ W \subseteq Ino
  BY DEF Apart, RowsHold, IsMap
<1>2. SnapshotDir \notin U \cup W
  BY <1>1, IdsAreNot2
<1>3. \A x \in DOMAIN d.dirent : /\ x[1] \in U => d.dirent[x] \in U
                                 /\ x[1] \in W => d.dirent[x] \in W
  BY <1>2 DEF Apart
<1>4. U \cup W \subseteq DOMAIN d.meta \ {Root}
  BY DEF Apart
<1>5. \A x \in DOMAIN d.dirent : x[1] # SnapshotDir => (x[1] \in U \cup W <=> d.dirent[x] \in U \cup W)
  BY DEF Apart
<1>6. ASSUME NEW x \in DOMAIN d.dirent, NEW y \in DOMAIN d.dirent, x[1] \in U \cup W, y[1] \in U \cup W,
             d.dirent[x] = d.dirent[y]
      PROVE  x = y
  BY <1>3, <1>6 DEF Apart
<1>7. Apart(d, U \cup W)
  BY <1>4, <1>5, <1>6 DEF Apart
<1>8. ASSUME NEW r, RootOf(d, U, r) \/ RootOf(d, W, r) PROVE RootOf(d, U \cup W, r)
  BY <1>3, <1>8 DEF RootOf
<1> QED BY <1>7, <1>8

LEMMA FinishSeals ==
  ASSUME NEW U, Sealed(U), IInv, IInv', FinishSnapshot \/ FinishFails
  PROVE  Seals(U)
<1> DEFINE V == U \cup job.ids
           e == SaveSnapshot(db, job.name, job.root)
<1>1. /\ job.kind = "snapshot" /\ job.todo = {} /\ db' \in {db, e} /\ node' = node
      /\ frozen' = Put(frozen, job.name, Frozen(job.root, job.ids))
      /\ job' = Idle \/ \E s : job' = Cloning("clear", s, {}, {}, {}, Root)
  BY DEF FinishSnapshot, FinishFails
<1>2. job # Idle
  BY <1>1 DEF Idle
<1>3. /\ Apart(db, job.ids) /\ job.ids \cap U = {} /\ job.ids \cap DOMAIN node = {}
      /\ job.name \notin DOMAIN frozen /\ RootOf(db, job.ids, job.root)
  BY <1>1, <1>2 DEF Sealed, SealedIn, JobApart
<1>4. /\ e.meta = db.meta /\ e.dirent = db.dirent /\ e.recipe = db.recipe
      /\ e.snap = Put(db.snap, job.name, job.root)
  BY DEF SaveSnapshot, Rows
<1> HIDE DEF e
<1>5. Held(db, U)
  BY DEF Sealed, SealedIn
<1>6. /\ Apart(db, V) /\ RootOf(db, V, job.root)
      /\ \A s \in DOMAIN db.snap : RootOf(db, V, db.snap[s])
      /\ \A s \in DOMAIN frozen : RootOf(db, V, frozen[s].root)
  <2>1. /\ Apart(db, V)
        /\ \A r : RootOf(db, U, r) \/ RootOf(db, job.ids, r) => RootOf(db, V, r)
    BY <1>3, <1>5, ApartTogether DEF Held
  <2>2. \A s \in DOMAIN frozen : RootOf(db, U, frozen[s].root)
    BY DEF Sealed, SealedIn, FrozenIn
  <2> QED BY <1>3, <1>5, <2>1, <2>2 DEF Held
<1> HIDE DEF V
<1>7. Outside(db, db', V) /\ Outside(db, db', U)
  <2>1. db'.meta = db.meta /\ db'.dirent = db.dirent /\ db'.recipe = db.recipe
    BY <1>1, <1>4
  <2> QED BY <2>1, OutsideSame
<1>8. Apart(db', V) /\ \A r : RootOf(db, V, r) => RootOf(db', V, r)
  BY <1>6, <1>7, ApartOn
<1>9. db'.snap \in {db.snap, Put(db.snap, job.name, job.root)}
  BY <1>1, <1>4
<1>10. Held(db', V)
  <2>1. \A s \in DOMAIN db'.snap : RootOf(db', V, db'.snap[s])
    BY <1>6, <1>8, <1>9 DEF Put
  <2> QED BY <1>8, <2>1 DEF Held, IInv
<1>11. V \cap DOMAIN node' = {} /\ U \subseteq V
  BY <1>1, <1>3 DEF Sealed, SealedIn, V
<1>12. JobApart(db', node', job', frozen', V)
  <2>1. CASE job' = Idle
    BY <2>1 DEF JobApart
  <2>2. CASE \E s : job' = Cloning("clear", s, {}, {}, {}, Root)
    <3>1. job'.todo = {} /\ job'.kind = "clear"
      BY <2>2 DEF Cloning
    <3> QED BY <3>1 DEF JobApart
  <2> QED BY <1>1, <2>1, <2>2
<1>13. SnapsStay
  <2>1. ASSUME NEW s \in DOMAIN db.snap \cap DOMAIN frozen
        PROVE  s \in DOMAIN db'.snap /\ db'.snap[s] = db.snap[s]
    BY <1>3, <1>9 DEF Put
  <2> QED BY <2>1 DEF SnapsStay
<1>14. FrozenIn(db', frozen', V)
  <2>1. Frozen(job.root, job.ids).root = job.root
    BY DEF Frozen
  <2> QED BY <1>1, <1>6, <1>8, <2>1 DEF FrozenIn, Put
<1>15. SealedIn(db', node', job', frozen', V)
  BY <1>10, <1>11, <1>12, <1>14 DEF SealedIn
<1> QED BY <1>7, <1>11, <1>13, <1>15 DEF Seals, NamesStep

LEMMA ClearedBeside ==
  ASSUME NEW U, Root \notin U, NEW N
  PROVE  Beside(db, Cleared(N), U) /\ Beside(db, SaveInode(Cleared(N), Root, TRUE), U)
<1> DEFINE e == Cleared(N)
           gone == {<<Root, n>> : n \in N}
<1>1. /\ e.meta = db.meta /\ e.recipe = db.recipe /\ e.snap = db.snap
      /\ e.dirent = [x \in DOMAIN db.dirent \ gone |-> db.dirent[x]]
  BY DEF Cleared, Rows
<1>2. \A x \in gone : x[1] = Root
  OBVIOUS
<1> HIDE DEF e, gone
<1>3. Outside(db, e, U)
  BY <1>1, <1>2, OutsideGone
<1>4. Beside(db, e, U)
  BY <1>1, <1>3 DEF Beside
<1>5. Beside(e, SaveInode(e, Root, TRUE), U)
  BY BesideInode
<1>6. Beside(db, SaveInode(e, Root, TRUE), U)
  BY <1>4, <1>5, BesideOn
<1> QED BY <1>4, <1>6 DEF e

LEMMA EmptiedSeals ==
  ASSUME NEW U, Sealed(U), IInv, IInv', Beside(db, db', U), Emptied,
         job' = Idle \/ \E d : job' = CloneBack(d)
  PROVE  Seals(U)
<1>1. Root \notin U
  BY LiveOutside
<1>2. DOMAIN node' = {Root}
  BY DEF Emptied, Put
<1>3. ASSUME NEW d, job' = CloneBack(d)
      PROVE  job'.kind = "restore" /\ \A u \in job'.todo : u.parent = Root
  BY <1>3 DEF CloneBack, Cloning, Task
<1>4. JobApart(db', node', job', frozen', U)
  BY <1>1, <1>3 DEF JobApart
<1>5. U \cap DOMAIN node' = {}
  BY <1>1, <1>2
<1>6. frozen' = frozen
  BY DEF Emptied
<1> QED BY <1>4, <1>5, <1>6, BesideSeals

LEMMA ClearSeals ==
  ASSUME NEW U, Sealed(U), IInv, IInv', ClearLive \/ ClearFails
  PROVE  Seals(U)
<1>1. \/ \E N : Mount(Cleared(N))
      \/ /\ \E N : db' \in {Cleared(N), SaveInode(Cleared(N), Root, TRUE)}
         /\ Emptied /\ (job' = Idle \/ \E d : job' = CloneBack(d))
  <2>1. CASE ClearLive
    BY <2>1 DEF ClearLive
  <2>2. CASE ClearFails
    BY <2>2 DEF ClearFails
  <2> QED BY <2>1, <2>2
<1>2. Root \notin U
  BY LiveOutside
<1>3. CASE \E N : Mount(Cleared(N))
  <2>1. PICK N : Mount(Cleared(N))
    BY <1>3
  <2>2. RowsHold(Cleared(N))
    BY ClearedHolds
  <2>3. Beside(db, Cleared(N), U)
    BY <1>2, ClearedBeside
  <2> QED BY <2>1, <2>2, <2>3, MountSeals
<1>4. CASE /\ \E N : db' \in {Cleared(N), SaveInode(Cleared(N), Root, TRUE)}
           /\ Emptied /\ (job' = Idle \/ \E d : job' = CloneBack(d))
  <2>1. PICK N : db' \in {Cleared(N), SaveInode(Cleared(N), Root, TRUE)}
    BY <1>4
  <2>2. Beside(db, db', U)
    BY <1>2, <2>1, ClearedBeside
  <2> QED BY <1>4, <2>2, EmptiedSeals
<1> QED BY <1>1, <1>3, <1>4

LEMMA RemoveSeals ==
  ASSUME NEW U, Sealed(U), IInv', NEW s, RemoveSnapshot(s) \/ RemoveFails(s)
  PROVE  Seals(U)
<1> DEFINE e == DeleteSnapshot(db, s)
<1>1. /\ (RemoveSnapshot(s) /\ db' = e) \/ db' = db
      /\ node' = node /\ job' = Idle /\ frozen' = Drop(frozen, s)
  BY DEF RemoveSnapshot, RemoveFails
<1>2. /\ e.meta = db.meta /\ e.dirent = db.dirent /\ e.recipe = db.recipe
      /\ e.snap = Drop(db.snap, s)
  BY DEF DeleteSnapshot, Rows
<1> HIDE DEF e
<1>3. Outside(db, db', U)
  <2>1. db'.meta = db.meta /\ db'.dirent = db.dirent /\ db'.recipe = db.recipe
    BY <1>1, <1>2
  <2> QED BY <2>1, OutsideSame
<1>4. Held(db, U)
  BY DEF Sealed, SealedIn
<1>5. Apart(db', U) /\ \A r : RootOf(db, U, r) => RootOf(db', U, r)
  BY <1>3, <1>4, ApartOn DEF Held
<1>6. db' = db \/ (RemoveSnapshot(s) /\ db'.snap = Drop(db.snap, s))
  BY <1>1, <1>2
<1>7. Held(db', U)
  <2>1. \A x \in DOMAIN db'.snap : RootOf(db', U, db'.snap[x])
    BY <1>4, <1>5, <1>6 DEF Held, Drop
  <2> QED BY <1>5, <2>1 DEF Held, IInv
<1>8. SnapsStay
  <2>0. \A x \in DOMAIN db'.snap : x \in DOMAIN db.snap
    BY <1>6 DEF Drop
  <2> SUFFICES ASSUME NEW x \in DOMAIN db.snap \cap DOMAIN frozen
               PROVE  RemoveSnapshot(x) \/ (x \in DOMAIN db'.snap /\ db'.snap[x] = db.snap[x])
    BY <2>0 DEF SnapsStay
  <2>1. CASE RemoveSnapshot(s) /\ x = s
    BY <2>1
  <2>2. CASE ~ (RemoveSnapshot(s) /\ x = s)
    BY <1>6, <2>2 DEF Drop
  <2> QED BY <2>1, <2>2
<1>9. FrozenIn(db', frozen', U)
  BY <1>1, <1>5 DEF Sealed, SealedIn, FrozenIn, Drop
<1>10. SealedIn(db', node', job', frozen', U)
  BY <1>1, <1>7, <1>9 DEF SealedIn, Sealed, JobApart
<1> QED BY <1>3, <1>8, <1>10 DEF Seals, NamesStep

LEMMA RestSeals ==
  ASSUME NEW U, Sealed(U), IInv, IInv', Crash \/ FinishRestore
  PROVE  Seals(U)
<1>1. CASE Crash
  <2>1. Beside(db, db, U) /\ RowsHold(db) /\ Mount(db)
    BY <1>1, BesideSame DEF Crash, IInv
  <2> QED BY <2>1, MountSeals
<1>2. CASE FinishRestore
  <2>1. db' = db /\ node' = node /\ job' = Idle /\ frozen' = frozen
    BY <1>2 DEF FinishRestore
  <2>2. Beside(db, db', U)
    BY <2>1, BesideSame
  <2> QED BY <2>1, <2>2, AnswerSeals DEF Sealed, SealedIn
<1> QED BY <1>1, <1>2

-----------------------------------------------------------------------------
(* Every step.                                                             *)

LEMMA NextSeals ==
  ASSUME NEW U, Sealed(U), IInv, IInv', reuses' = reuses, Next
  PROVE  Seals(U)
<1>1. ASSUME MakeStep(DirName) PROVE Seals(U)
  <2>1. ASSUME NEW p \in Dirs \cup FrozenIds, NEW n \in FileName, Create(p, n) PROVE Seals(U)
    <3>1. p \in Dirs
      BY <2>1 DEF Create
    <3> QED BY <2>1, <3>1, CreateSeals
  <2>2. ASSUME NEW n \in DirName, Mkdir(n) PROVE Seals(U)
    BY <2>2, MkdirSeals
  <2> QED BY <1>1, <2>1, <2>2 DEF MakeStep
<1>2. ASSUME MoveStep(DirName) PROVE Seals(U)
  <2>1. ASSUME NEW p \in Dirs \cup FrozenIds, NEW n, Unlink(p, n) PROVE Seals(U)
    <3>1. p \in Dirs
      BY <2>1 DEF Unlink
    <3> QED BY <2>1, <3>1, UnlinkSeals
  <2>2. ASSUME NEW p \in Dirs \cup FrozenIds, NEW q \in Dirs \cup FrozenIds, NEW n, NEW m,
               Rename(p, n, q, m)
        PROVE  Seals(U)
    <3>1. p \in Dirs /\ q \in Dirs
      BY <2>2 DEF Rename
    <3> QED BY <2>2, <3>1, RenameSeals
  <2> QED BY <1>2, <2>1, <2>2 DEF MoveStep
<1>3. ASSUME WriteStep PROVE Seals(U)
  <2>1. ASSUME NEW i, NEW c, Write(i, c) PROVE Seals(U)
    BY <2>1, WriteSeals
  <2>2. ASSUME NEW i \in DOMAIN dirty, Flush(i) PROVE Seals(U)
    BY <2>2, FlushSeals
  <2> QED BY <1>3, <2>1, <2>2 DEF WriteStep
<1>4. ASSUME SnapshotStep PROVE Seals(U)
  <2>1. ASSUME NEW s, NEW then, BeginSnapshot(s, then) PROVE Seals(U)
    BY <2>1, BeginSeals
  <2>2. ASSUME NEW s, RemoveSnapshot(s) PROVE Seals(U)
    BY <2>2, RemoveSeals
  <2> QED BY <1>4, <2>1, <2>2 DEF SnapshotStep, TakeSnapshot, Restore
<1>5. ASSUME job # Idle, CloneStep PROVE Seals(U)
  <2>1. ASSUME NEW t \in job.todo, CloneNode(t) PROVE Seals(U)
    BY <1>5, <2>1, CloneSeals
  <2> QED BY <1>5, <2>1, FinishSeals, ClearSeals, RestSeals DEF CloneStep
<1> QED BY <1>1, <1>2, <1>3, <1>4, <1>5, RestSeals DEF Next

LEMMA FailsSeal ==
  ASSUME NEW U, Sealed(U), IInv, IInv', reuses' = reuses, RequestFails \/ SnapshotFails
  PROVE  Seals(U)
<1>1. ASSUME RequestFails PROVE Seals(U)
  <2>1. ASSUME NEW p \in Dirs, NEW n \in FileName, CreateFails(p, n) PROVE Seals(U)
    BY <2>1, CreateSeals
  <2>2. ASSUME NEW n \in DirName, MkdirFails(n) PROVE Seals(U)
    BY <2>2, MkdirSeals
  <2>3. ASSUME NEW p \in Dirs, NEW n, UnlinkFails(p, n) PROVE Seals(U)
    BY <2>3, UnlinkSeals
  <2>4. ASSUME NEW p \in Dirs, NEW q \in Dirs, NEW n, NEW m, RenameFails(p, n, q, m) PROVE Seals(U)
    BY <2>4, RenameSeals
  <2> QED BY <1>1, <2>1, <2>2, <2>3, <2>4 DEF RequestFails
<1>2. ASSUME SnapshotFails PROVE Seals(U)
  <2>1. ASSUME NEW s, RemoveFails(s) PROVE Seals(U)
    BY <2>1, RemoveSeals
  <2>2. ASSUME job # Idle, NEW t \in job.todo, CloneFails(t) PROVE Seals(U)
    BY <2>2, CloneFailsSeals
  <2> QED BY <1>2, <2>1, <2>2, FinishSeals, ClearSeals DEF SnapshotFails
<1> QED BY <1>1, <1>2

-----------------------------------------------------------------------------
(* What a snapshot shows.                                                  *)

(* A view gives ids a kind, contents and children.  What its nodes show    *)
(* without their children, and with what f shows of those.                 *)
Bare(v) == [i \in DOMAIN v |-> [dir |-> v[i].dir, data |-> v[i].data, kids |-> <<>>]]
Over(v, f) ==
  [i \in DOMAIN v |->
     [dir |-> v[i].dir, data |-> v[i].data,
      kids |-> [n \in DOMAIN v[i].kids |-> f[v[i].kids[n]]]]]
Shown(v, r) == Over(v, Over(v, Over(v, Bare(v))))[r]

IsSeen(v, f) == f = [k \in 0..Depth |-> IF k = 0 THEN Bare(v) ELSE Over(v, f[k - 1])]

LEMMA SeenIsShown ==
  ASSUME NEW v
  PROVE  /\ \E f : IsSeen(v, f)
         /\ \A f : IsSeen(v, f) => f[Depth] = Over(v, Over(v, Over(v, Bare(v))))
<1> DEFINE A == Bare(v)
           B == Over(v, A)
           C == Over(v, B)
           D == Over(v, C)
           g == [k \in 0..Depth |-> CASE k = 0 -> A [] k = 1 -> B [] k = 2 -> C [] OTHER -> D]
<1>1. IsSeen(v, g)
  <2>1. g[0] = A /\ g[1] = B /\ g[2] = C /\ g[3] = D
    BY DEF Depth
  <2>2. \A k \in 0..Depth : g[k] = IF k = 0 THEN A ELSE Over(v, g[k - 1])
    <3>1. B = Over(v, A) /\ C = Over(v, B) /\ D = Over(v, C)
      OBVIOUS
    <3> HIDE DEF A, B, C, D, g
    <3> QED BY <2>1, <3>1 DEF Depth
  <2>3. g = [k \in 0..Depth |-> g[k]]
    OBVIOUS
  <2> HIDE DEF g
  <2> QED BY <2>2, <2>3 DEF IsSeen
<1>2. ASSUME NEW f, IsSeen(v, f) PROVE f[Depth] = D
  <2>1. \A k \in 0..3 : f[k] = IF k = 0 THEN A ELSE Over(v, f[k - 1])
    BY <1>2 DEF IsSeen, Depth
  <2>2. f[0] = A /\ f[1] = Over(v, f[0]) /\ f[2] = Over(v, f[1]) /\ f[3] = Over(v, f[2])
    BY <2>1
  <2> QED BY <2>2 DEF Depth
<1> QED BY <1>1, <1>2

RowsView(d) == [i \in DOMAIN d.meta |-> [dir |-> d.meta[i], data |-> Stored(d, i), kids |-> Listed(d, i)]]

LEMMA TreeShown == ASSUME NEW d, NEW r PROVE Tree(d, r) = Shown(RowsView(d), r)
<1> DEFINE v == RowsView(d)
           Is(f) == f = [k \in 0..Depth |->
                           [i \in DOMAIN d.meta |->
                              LET kids == Listed(d, i)
                              IN [dir |-> d.meta[i], data |-> Stored(d, i),
                                  kids |-> IF k = 0 THEN <<>>
                                           ELSE [n \in DOMAIN kids |-> f[k - 1][kids[n]]]]]]
           seen == CHOOSE f : Is(f)
<1>1. Tree(d, r) = seen[Depth][r]
  BY DEF Tree
<1>2. \A f : Is(f) <=> IsSeen(v, f)
  <2> SUFFICES ASSUME NEW f PROVE Is(f) <=> IsSeen(v, f)
    OBVIOUS
  <2> DEFINE L(k) == [i \in DOMAIN d.meta |->
                        LET kids == Listed(d, i)
                        IN [dir |-> d.meta[i], data |-> Stored(d, i),
                            kids |-> IF k = 0 THEN <<>>
                                     ELSE [n \in DOMAIN kids |-> f[k - 1][kids[n]]]]]
             M(k) == IF k = 0 THEN Bare(v) ELSE Over(v, f[k - 1])
  <2>0. DOMAIN v = DOMAIN d.meta /\ \A i \in DOMAIN v :
          v[i].dir = d.meta[i] /\ v[i].data = Stored(d, i) /\ v[i].kids = Listed(d, i)
    BY DEF RowsView
  <2>1. ASSUME NEW k \in 0..Depth PROVE L(k) = M(k)
    <3> HIDE DEF v
    <3>1. CASE k = 0
      BY <2>0, <3>1 DEF Bare
    <3>2. CASE k # 0
      BY <2>0, <3>2 DEF Over
    <3> QED BY <3>1, <3>2
  <2>2. Is(f) <=> f = [k \in 0..Depth |-> L(k)]
    OBVIOUS
  <2>3. IsSeen(v, f) <=> f = [k \in 0..Depth |-> M(k)]
    BY DEF IsSeen
  <2> HIDE DEF L, M, Is, v
  <2>4. [k \in 0..Depth |-> L(k)] = [k \in 0..Depth |-> M(k)]
    BY <2>1
  <2> QED BY <2>2, <2>3, <2>4
<1> HIDE DEF Is, v
<1>3. IsSeen(v, seen)
  BY <1>2, SeenIsShown
<1> HIDE DEF seen
<1>4. seen[Depth] = Over(v, Over(v, Over(v, Bare(v))))
  BY <1>3, SeenIsShown
<1> QED BY <1>1, <1>4 DEF Shown, v

(* m takes what v has of the ids in W to what w has.                       *)
Maps(v, w, m, W) ==
  \A x \in W : /\ x \in DOMAIN v /\ m[x] \in DOMAIN w
               /\ v[x].dir = w[m[x]].dir /\ v[x].data = w[m[x]].data
               /\ DOMAIN v[x].kids = DOMAIN w[m[x]].kids
               /\ \A n \in DOMAIN v[x].kids : v[x].kids[n] \in W /\ m[v[x].kids[n]] = w[m[x]].kids[n]
SameUnder(f, g, m, W) == \A x \in W : f[x] = g[m[x]]

LEMMA MapsShown ==
  ASSUME NEW v, NEW w, NEW m, NEW W, Maps(v, w, m, W)
  PROVE  \A x \in W : Shown(v, x) = Shown(w, m[x])
<1>1. SameUnder(Bare(v), Bare(w), m, W)
  BY DEF Maps, Bare, SameUnder
<1>2. ASSUME NEW f, NEW g, SameUnder(f, g, m, W)
      PROVE  SameUnder(Over(v, f), Over(w, g), m, W)
  <2> SUFFICES ASSUME NEW x \in W PROVE Over(v, f)[x] = Over(w, g)[m[x]]
    BY DEF SameUnder
  <2> DEFINE K == v[x].kids
             L == w[m[x]].kids
  <2>1. /\ x \in DOMAIN v /\ m[x] \in DOMAIN w /\ v[x].dir = w[m[x]].dir /\ v[x].data = w[m[x]].data
        /\ DOMAIN K = DOMAIN L
        /\ \A n \in DOMAIN K : K[n] \in W /\ m[K[n]] = L[n]
    BY DEF Maps
  <2>2. Over(v, f)[x] = [dir |-> v[x].dir, data |-> v[x].data, kids |-> [n \in DOMAIN K |-> f[K[n]]]]
    BY <2>1 DEF Over
  <2>3. Over(w, g)[m[x]] = [dir |-> w[m[x]].dir, data |-> w[m[x]].data,
                            kids |-> [n \in DOMAIN L |-> g[L[n]]]]
    BY <2>1 DEF Over
  <2> HIDE DEF K, L
  <2>4. [n \in DOMAIN K |-> f[K[n]]] = [n \in DOMAIN L |-> g[L[n]]]
    BY <1>2, <2>1 DEF SameUnder
  <2> QED BY <2>1, <2>2, <2>3, <2>4
<1>3. SameUnder(Over(v, Bare(v)), Over(w, Bare(w)), m, W)
  BY <1>1, <1>2
<1>4. SameUnder(Over(v, Over(v, Bare(v))), Over(w, Over(w, Bare(w))), m, W)
  BY <1>2, <1>3
<1>5. SameUnder(Over(v, Over(v, Over(v, Bare(v)))), Over(w, Over(w, Over(w, Bare(w)))), m, W)
  BY <1>2, <1>4
<1> QED BY <1>5 DEF SameUnder, Shown

(* What U lists is in U, and a step outside of U leaves it as it was.      *)
LEMMA ListedStays ==
  ASSUME NEW d, NEW e, NEW U, Apart(d, U), Outside(d, e, U), SnapshotDir \notin U, NEW u \in U
  PROVE  /\ Listed(e, u) = Listed(d, u)
         /\ \A n \in DOMAIN Listed(d, u) : Listed(d, u)[n] \in U
<1>1. ASSUME NEW n \in Name
      PROVE  /\ <<u, n>> \in DOMAIN e.dirent <=> <<u, n>> \in DOMAIN d.dirent
             /\ <<u, n>> \in DOMAIN d.dirent => /\ e.dirent[<<u, n>>] = d.dirent[<<u, n>>]
                                                /\ d.dirent[<<u, n>>] \in U
  <2> DEFINE k == <<u, n>>
  <2>1. k[1] = u
    OBVIOUS
  <2> HIDE DEF k
  <2>2. /\ k \in DOMAIN e.dirent <=> k \in DOMAIN d.dirent
        /\ k \in DOMAIN d.dirent => e.dirent[k] = d.dirent[k] /\ d.dirent[k] \in U
    BY <2>1 DEF Outside, Apart
  <2> QED BY <2>2 DEF k
<1>2. Listed(e, u) = Listed(d, u)
  BY <1>1 DEF Listed
<1>3. \A n \in DOMAIN Listed(d, u) : Listed(d, u)[n] \in U
  BY <1>1 DEF Listed
<1> QED BY <1>2, <1>3

(* What is below a root in U is in U, and stays as it is. *)
LEMMA TreeStays ==
  ASSUME NEW d, NEW e, NEW U, Apart(d, U), Outside(d, e, U), SnapshotDir \notin U
  PROVE  \A r \in U : Tree(e, r) = Tree(d, r)
<1> DEFINE m == [u \in U |-> u]
<1>1. \A u \in U : /\ u \in DOMAIN d.meta /\ u \in DOMAIN e.meta
                   /\ e.meta[u] = d.meta[u] /\ Stored(e, u) = Stored(d, u)
  BY DEF Outside, Apart
<1>2. Maps(RowsView(e), RowsView(d), m, U)
  <2> SUFFICES ASSUME NEW x \in U
               PROVE  /\ x \in DOMAIN e.meta /\ x \in DOMAIN d.meta
                      /\ RowsView(e)[x] = RowsView(d)[x]
                      /\ \A n \in DOMAIN RowsView(e)[x].kids : RowsView(e)[x].kids[n] \in U
    BY DEF Maps, RowsView
  <2>1. Listed(e, x) = Listed(d, x) /\ \A n \in DOMAIN Listed(d, x) : Listed(d, x)[n] \in U
    BY ListedStays
  <2> QED BY <1>1, <2>1 DEF RowsView
<1>3. \A x \in U : Shown(RowsView(e), x) = Shown(RowsView(d), m[x])
  BY <1>2, MapsShown
<1> QED BY <1>3, TreeShown

-----------------------------------------------------------------------------
(* The invariant, and what a step does to a snapshot.                      *)

SInv == KInv /\ (reuses = 0 => \E U : Sealed(U))

LEMMA ReusesGrow == ASSUME KInv, FaultNext, reuses' = 0 PROVE reuses = 0
<1>1. Before
  BY FaultHolds, NamesKept DEF Before, KInv
<1>2. CASE NoError(Next)
  BY <1>1, <1>2, NextAfter DEF NoError
<1>3. CASE RequestFails \/ SnapshotFails
  BY <1>1, <1>3, FailsAfter
<1> QED BY <1>2, <1>3 DEF FaultNext

LEMMA StepSeals ==
  ASSUME SInv, FaultNext, reuses' = 0
  PROVE  \E U : Sealed(U) /\ Seals(U)
<1>1. KInv /\ reuses = 0 /\ reuses' = reuses
  BY ReusesGrow DEF SInv
<1>2. PICK U : Sealed(U)
  BY <1>1 DEF SInv
<1>3. IInv /\ IInv'
  BY <1>1, FaultHolds DEF KInv
<1>4. Seals(U)
  BY <1>1, <1>2, <1>3, NextSeals, FailsSeal DEF FaultNext, NoError
<1> QED BY <1>2, <1>4

LEMMA SealedInit == FaultInit => SInv
<1> SUFFICES ASSUME FaultInit PROVE SInv
  OBVIOUS
<1>1. KInv /\ job = Idle
  BY EntriesInit DEF FaultInit, Init
<1>2. db.snap = <<>> /\ frozen = <<>>
  BY DEF FaultInit, Init, SaveInode, Empty, Rows
<1>3. DOMAIN db.snap = {} /\ DOMAIN frozen = {}
  BY <1>2
<1>4. Held(db, {})
  BY <1>1, <1>3 DEF Held, Apart, KInv, IInv
<1>5. Sealed({})
  BY <1>1, <1>3, <1>4 DEF Sealed, SealedIn, JobApart, FrozenIn
<1> QED BY <1>1, <1>5 DEF SInv

LEMMA SealedStep == ASSUME SInv, FaultNext PROVE SInv'
<1>1. KInv'
  BY EntriesStep DEF SInv
<1>2. ASSUME reuses' = 0 PROVE \E V : Sealed(V)'
  <2>1. PICK U : Seals(U)
    BY <1>2, StepSeals
  <2>2. PICK V : SealedIn(db', node', job', frozen', V)
    BY <2>1 DEF Seals
  <2> QED BY <2>2 DEF Sealed
<1> QED BY <1>1, <1>2 DEF SInv

LEMMA SealedStutter == ASSUME SInv, UNCHANGED faultVars PROVE SInv'
<1>1. KInv'
  BY EntriesStutter DEF SInv
<1>2. /\ db' = db /\ node' = node /\ job' = job /\ frozen' = frozen /\ reuses' = reuses
  BY DEF faultVars, vars
<1>3. \A U : Sealed(U) => Sealed(U)'
  BY <1>2 DEF Sealed
<1> QED BY <1>1, <1>2, <1>3 DEF SInv

SnapshotsKept == reuses' = 0 => \A s \in DOMAIN db.snap \cap DOMAIN frozen : SnapshotKept(s)

LEMMA StepKeeps == ASSUME SInv, FaultNext PROVE SnapshotsKept
<1> SUFFICES ASSUME reuses' = 0, NEW s \in DOMAIN db.snap \cap DOMAIN frozen PROVE SnapshotKept(s)
  BY DEF SnapshotsKept
<1>1. PICK U : Sealed(U) /\ Seals(U)
  BY StepSeals
<1>2. Held(db, U)
  BY <1>1 DEF Sealed, SealedIn
<1>3. SnapshotDir \notin U
  BY <1>1, LiveOutside DEF SInv, KInv
<1>4. \A r \in U : Tree(db', r) = Tree(db, r)
  BY <1>1, <1>2, <1>3, TreeStays DEF Seals, Held
<1>5. db.snap[s] \in U
  BY <1>2 DEF Held, RootOf
<1>6. RemoveSnapshot(s) \/ (s \in DOMAIN db'.snap /\ db'.snap[s] = db.snap[s])
  BY <1>1 DEF Seals, SnapsStay
<1> QED BY <1>4, <1>5, <1>6 DEF SnapshotKept

(* As long as no id is handed out twice, nothing but its removal changes   *)
(* what a snapshot shows or takes it away: no request on the live tree, no *)
(* other snapshot, restore or removal, no error and no crash.              *)
THEOREM SnapshotsAreFrozen == FaultSpec => SnapshotFrozen
<1>1. FaultInit => SInv
  BY SealedInit
<1>2. SInv /\ [FaultNext]_faultVars => SInv'
  BY SealedStep, SealedStutter
<1>3. SInv /\ [FaultNext]_faultVars =>
        [ reuses' = 0 => \A s \in DOMAIN db.snap \cap DOMAIN frozen : SnapshotKept(s) ]_vars
  BY StepKeeps DEF SnapshotsKept, faultVars
<1> QED BY <1>1, <1>2, <1>3, PTL DEF FaultSpec, SnapshotFrozen

-----------------------------------------------------------------------------
(* Recipes and buffers are those of files.                                 *)

Filed(d) == \A i \in DOMAIN d.recipe : i \in DOMAIN d.meta /\ d.meta[i] = FALSE
FilesDirty(d, di) == \A i \in DOMAIN di : i \in DOMAIN d.meta /\ d.meta[i] = FALSE

(* The rows e keep the kinds of d, and give no recipe to a directory.      *)
Keeping(d, e) == KeepsMeta(d, e) /\ (Filed(d) => Filed(e))

LEMMA KeepingOn ==
  ASSUME NEW d, NEW e, NEW f, Keeping(d, e), Keeping(e, f)
  PROVE  Keeping(d, f)
BY DEF Keeping, KeepsMeta

LEMMA KeepingSame ==
  ASSUME NEW d, NEW e, e.meta = d.meta, e.recipe = d.recipe
  PROVE  Keeping(d, e)
BY DEF Keeping, KeepsMeta, Filed

LEMMA KeepingInode ==
  ASSUME NEW d, NEW i, NEW dir, i \in DOMAIN d.meta => d.meta[i] = dir
  PROVE  Keeping(d, SaveInode(d, i, dir))
<1> DEFINE e == SaveInode(d, i, dir)
<1>1. e.meta = Put(d.meta, i, dir) /\ e.recipe = d.recipe
  BY DEF SaveInode, Rows
<1> HIDE DEF e
<1>2. KeepsMeta(d, e)
  BY <1>1 DEF KeepsMeta, Put
<1>3. Filed(d) => Filed(e)
  BY <1>1, <1>2 DEF Filed, KeepsMeta
<1> QED BY <1>2, <1>3 DEF Keeping, e

LEMMA KeepingDirent ==
  ASSUME NEW d, NEW p, NEW n, NEW i
  PROVE  Keeping(d, SaveDirent(d, p, n, i)) /\ Keeping(d, DeleteDirent(d, p, n))
<1>1. SaveDirent(d, p, n, i).meta = d.meta /\ SaveDirent(d, p, n, i).recipe = d.recipe
  BY DEF SaveDirent, Rows
<1>2. DeleteDirent(d, p, n).meta = d.meta /\ DeleteDirent(d, p, n).recipe = d.recipe
  BY DEF DeleteDirent, Rows
<1> QED BY <1>1, <1>2, KeepingSame

LEMMA KeepingRecipe ==
  ASSUME NEW d, NEW i \in DOMAIN d.meta, d.meta[i] = FALSE, NEW c
  PROVE  Keeping(d, SaveRecipe(d, i, c))
<1> DEFINE e == SaveRecipe(d, i, c)
<1>1. e.meta = d.meta /\ e.recipe = Put(d.recipe, i, c)
  BY DEF SaveRecipe, Rows
<1> HIDE DEF e
<1>2. Keeping(d, e)
  BY <1>1 DEF Keeping, KeepsMeta, Filed, Put
<1> QED BY <1>2 DEF e

LEMMA KeepingAdded ==
  ASSUME NEW d, NEW p, NEW n, NEW i, NEW dir, NEW data, NEW a, NEW b, NEW c,
         Adding(d, p, n, i, dir, data, a, b, c), i \notin DOMAIN d.meta
  PROVE  Keeping(d, a) /\ Keeping(d, b) /\ (dir = FALSE => Keeping(d, c))
<1>1. Keeping(d, a)
  BY KeepingInode DEF Adding
<1>2. Keeping(a, b)
  BY KeepingDirent DEF Adding
<1>3. Keeping(d, b)
  BY <1>1, <1>2, KeepingOn
<1>4. b.meta = Put(d.meta, i, dir)
  BY DEF Adding, SaveInode, SaveDirent, Rows
<1>5. dir = FALSE => Keeping(b, c)
  BY <1>4, KeepingRecipe DEF Adding, Put
<1> QED BY <1>1, <1>3, <1>5, KeepingOn

(* What every step does with recipes and buffers. *)
FilesHold == Filed(db) /\ FilesDirty(db, dirty)
Tends == KeepsMeta(db, db') /\ Filed(db') /\ FilesDirty(db', dirty')

LEMMA KeepingTends ==
  ASSUME FilesHold, Keeping(db, db'), DOMAIN dirty' \subseteq DOMAIN dirty
  PROVE  Tends
BY DEF FilesHold, Keeping, KeepsMeta, FilesDirty, Tends

LEMMA MountTends ==
  ASSUME FilesHold, NEW d, RowsHold(d), Keeping(db, d), Mount(d)
  PROVE  Tends
<1>1. db'.meta = SaveInode(d, Root, TRUE).meta /\ db'.recipe = SaveInode(d, Root, TRUE).recipe /\ dirty' = <<>>
  BY DEF Mount, Rows
<1>2. Keeping(d, SaveInode(d, Root, TRUE))
  BY KeepingInode DEF RowsHold
<1>3. Keeping(SaveInode(d, Root, TRUE), db')
  BY <1>1, KeepingSame
<1>4. Keeping(db, db')
  BY <1>2, <1>3, KeepingOn
<1>5. DOMAIN dirty' = {}
  BY <1>1
<1> QED BY <1>4, <1>5, KeepingTends

LEMMA CutShortTends ==
  ASSUME FilesHold, NEW trees, CutShort(trees),
         \A k \in 1..(Len(trees) - 1) : RowsHold(trees[k]) /\ Keeping(db, trees[k])
  PROVE  Tends
<1>1. PICK k \in 1..(Len(trees) - 1) : Mount(trees[k])
  BY DEF CutShort
<1> QED BY <1>1, MountTends

LEMMA DropKeepsLess == ASSUME NEW f, NEW k PROVE DOMAIN Drop(f, k) \subseteq DOMAIN f
BY DEF Drop

LEMMA CreateTends ==
  ASSUME Kinds, FilesHold, NEW p \in Dirs, NEW n \in FileName, reuses' = reuses,
         Create(p, n) \/ CreateFails(p, n)
  PROVE  Tends
<1> DEFINE a == SaveInode(db, next, FALSE)
           b == SaveDirent(a, p, n, next)
           c == SaveRecipe(b, next, NoContent)
           t == Created(p, n)
<1>1. t = <<a, b, c>>
  BY DEF Created
<1>2. Taken(1) /\ job = Idle
  BY DEF Create, CreateFails
<1>3. IInv /\ next \notin DOMAIN db.meta
  BY <1>2, OneTaken DEF Kinds
<1>4. Adding(db, p, n, next, FALSE, NoContent, a, b, c)
  BY DEF Adding
<1>5. Making(db, p, n, next, FALSE, NoContent, a, b, c)
  <2>1. KernelKnows(db, node, p, TRUE)
    BY <1>3, DirsKnown
  <2>2. next \in Ino \ {Root}
    BY <1>2, <1>3, OneTaken
  <2> QED BY <1>3, <2>1, <2>2, NoContentAssumption DEF Making, IInv, Label, Name, KernelKnows
<1>6. \/ db' \in {db, t[1], t[2], t[3], Last(t)} /\ dirty' = dirty
      \/ CutShort(t)
  BY DEF Create, CreateFails
<1> HIDE DEF a, b, c, t
<1>7. Keeping(db, a) /\ Keeping(db, b) /\ Keeping(db, c) /\ Keeping(db, db)
  BY <1>3, <1>4, KeepingAdded, KeepingSame
<1>8. RowsHold(a) /\ RowsHold(b)
  BY <1>5, RowsMade DEF Knowing
<1>9. CASE CutShort(t)
  <2>1. \A k \in 1..(Len(t) - 1) : RowsHold(t[k]) /\ Keeping(db, t[k])
    BY <1>1, <1>7, <1>8
  <2> QED BY <1>9, <2>1, CutShortTends
<1>10. CASE db' \in {db, a, b, c} /\ dirty' = dirty
  BY <1>7, <1>10, KeepingTends
<1>11. Last(t) = c /\ t[1] = a /\ t[2] = b /\ t[3] = c
  BY <1>1 DEF Last
<1> QED BY <1>6, <1>9, <1>10, <1>11

LEMMA MkdirTends ==
  ASSUME Kinds, FilesHold, NEW n \in DirName, reuses' = reuses, Mkdir(n) \/ MkdirFails(n)
  PROVE  Tends
<1> DEFINE a == SaveInode(db, next, TRUE)
           b == SaveDirent(a, Root, n, next)
           c == SaveRecipe(b, next, NoContent)
           t == Made(n)
<1>1. t = <<a, b>>
  BY DEF Made
<1>2. Taken(1) /\ job = Idle
  BY DEF Mkdir, MkdirFails
<1>3. IInv /\ next \notin DOMAIN db.meta
  BY <1>2, OneTaken DEF Kinds
<1>4. Adding(db, Root, n, next, TRUE, NoContent, a, b, c)
  BY DEF Adding
<1>5. Making(db, Root, n, next, TRUE, NoContent, a, b, c)
  <2>1. Root \in DOMAIN db.meta
    BY <1>3 DEF IInv, RowsHold
  <2>2. next \in Ino \ {Root}
    BY <1>2, <1>3, OneTaken
  <2> QED BY <1>3, <2>1, <2>2, NoContentAssumption DEF Making, IInv, Label, Name
<1>6. \/ db' \in {db, t[1], t[2], Last(t)} /\ dirty' = dirty
      \/ CutShort(t)
  BY DEF Mkdir, MkdirFails
<1> HIDE DEF a, b, c, t
<1>7. Keeping(db, a) /\ Keeping(db, b) /\ Keeping(db, db)
  BY <1>3, <1>4, KeepingAdded, KeepingSame
<1>8. RowsHold(a)
  BY <1>5, RowsMade DEF Knowing
<1>9. CASE CutShort(t)
  <2>1. \A k \in 1..(Len(t) - 1) : RowsHold(t[k]) /\ Keeping(db, t[k])
    BY <1>1, <1>7, <1>8
  <2> QED BY <1>9, <2>1, CutShortTends
<1>10. CASE db' \in {db, a, b} /\ dirty' = dirty
  BY <1>7, <1>10, KeepingTends
<1>11. Last(t) = b /\ t[1] = a /\ t[2] = b
  BY <1>1 DEF Last
<1> QED BY <1>6, <1>9, <1>10, <1>11

LEMMA FilesKnown ==
  ASSUME IInv, NEW i \in Files
  PROVE  KernelKnows(db, node, i, FALSE)
<1>1. \A j \in DOMAIN node : NodeHolds(db, node, j)
  BY DEF IInv, MemoryHolds
<1>2. PICK p \in Dirs : i \in {Child(p, n) : n \in Names(p)} /\ ~node[i].dir
  BY DEF Files
<1>3. PICK n \in Names(p) : i = Child(p, n)
  BY <1>2
<1>4. p \in DOMAIN node
  BY DirsKnown DEF KernelKnows
<1>5. node[p].kids[n] \in DOMAIN node
  BY <1>1, <1>3, <1>4 DEF NodeHolds, IsMap, Names
<1>6. KernelKnows(db, node, i, node[node[p].kids[n]].dir)
  BY <1>1, <1>3, <1>5 DEF NodeHolds, Child
<1> QED BY <1>2, <1>6 DEF KernelKnows, RowsHold, IInv, IsMap

LEMMA WriteTends ==
  ASSUME Kinds, FilesHold, NEW i \in Files, NEW c, Write(i, c)
  PROVE  Tends
<1>1. db' = db /\ dirty' = Put(dirty, i, c)
  BY DEF Write
<1>2. KernelKnows(db, node, i, FALSE)
  BY FilesKnown DEF Kinds
<1> QED BY <1>1, <1>2 DEF Tends, FilesHold, FilesDirty, KernelKnows, KeepsMeta, Put

LEMMA FlushTends ==
  ASSUME Kinds, FilesHold, NEW i \in DOMAIN dirty, Flush(i)
  PROVE  Tends
<1> DEFINE a == SaveRecipe(db, i, dirty[i])
           b == IF i \in DOMAIN node THEN SaveInode(a, i, node[i].dir) ELSE a
           t == <<a, b>>
<1>1. \/ db' = b /\ dirty' = Drop(dirty, i)
      \/ CutShort(t)
  BY DEF Flush
<1>2. /\ i \in DOMAIN node /\ dirty[i] \in Content /\ i \in DOMAIN db.meta /\ db.meta[i] = FALSE
      /\ i \in Ino /\ RowsHold(db) /\ db.meta[i] = node[i].dir
  BY DEF Kinds, IInv, IsMap, FilesHold, FilesDirty, MemoryKinds, RowsHold
<1>3. Keeping(db, a) /\ a.meta = db.meta
  BY <1>2, KeepingRecipe DEF SaveRecipe, Rows
<1>4. RowsHold(a)
  BY <1>2, RecipeSaved
<1> HIDE DEF a
<1>5. Keeping(db, b)
  <2>1. Keeping(a, SaveInode(a, i, node[i].dir))
    BY <1>2, <1>3, KeepingInode
  <2> QED BY <1>2, <1>3, <2>1, KeepingOn
<1> HIDE DEF b
<1>6. CASE CutShort(t)
  <2>1. \A k \in 1..(Len(t) - 1) : RowsHold(t[k]) /\ Keeping(db, t[k])
    BY <1>3, <1>4
  <2> HIDE DEF t
  <2> QED BY <1>6, <2>1, CutShortTends
<1>7. CASE db' = b /\ dirty' = Drop(dirty, i)
  BY <1>5, <1>7, KeepingTends, DropKeepsLess
<1> QED BY <1>1, <1>6, <1>7

LEMMA UnlinkTends ==
  ASSUME Kinds, FilesHold, NEW p \in Dirs, NEW n, Unlink(p, n) \/ UnlinkFails(p, n)
  PROVE  Tends
<1>1. /\ db' = DeleteDirent(db, p, n) \/ db' = db
      /\ dirty' = Drop(dirty, node[p].kids[n])
  BY DEF Unlink, UnlinkFails
<1>2. Keeping(db, db')
  BY <1>1, KeepingDirent, KeepingSame
<1> QED BY <1>1, <1>2, KeepingTends, DropKeepsLess

(* The steps of a rename. *)
MoveKeeps(w) == \A k \in 1..4 : Keeping(db, w.trees[k])

LEMMA MovedKeeps ==
  ASSUME Kinds, NEW p \in Dirs, NEW n, NEW q \in Dirs, NEW m, Renamable(p, n, q, m),
         NEW w, w = Moved(p, n, q, m), Taken(w.used), reuses' = reuses
  PROVE  MoveKeeps(w)
<1> DEFINE own == Mutable(node, top, p, next)
           both == IF q = p THEN [node |-> own.node, top |-> own.top, used |-> 0]
                   ELSE Mutable(own.node, own.top, q, next + own.used)
           o == both.node[p].kids[n]
           cleared == IF m \in DOMAIN both.node[q].kids THEN DeleteDirent(db, q, m) ELSE db
           saved == SaveInode(cleared, o, both.node[o].dir)
           unnamed == DeleteDirent(saved, p, n)
           named == SaveDirent(unnamed, q, m, o)
<1>1. /\ w.node = both.node /\ w.child = o
      /\ w.trees = <<cleared, saved, unnamed, named>>
  BY DEF Moved
<1>2. MoveKinds(w, p, n, q, m) /\ MoveHolds(w, next)
  BY MovedAfter, MovedHolds DEF Kinds
<1>3. MemoryKinds(w.trees[1], w.node) /\ w.child \in DOMAIN w.node
  BY <1>2 DEF MoveKinds, MoveHolds
<1>4. Keeping(db, cleared)
  BY KeepingDirent, KeepingSame
<1> HIDE DEF both, cleared
<1>5. o \in DOMAIN cleared.meta => cleared.meta[o] = both.node[o].dir
  <2>1. w.trees[1] = cleared
    BY <1>1
  <2> QED BY <1>1, <1>3, <2>1 DEF MemoryKinds
<1> HIDE DEF o
<1>6. Keeping(cleared, saved)
  BY <1>5, KeepingInode
<1> HIDE DEF saved
<1>7. Keeping(saved, unnamed)
  BY KeepingDirent
<1> HIDE DEF unnamed
<1>8. Keeping(unnamed, named)
  BY KeepingDirent
<1> HIDE DEF named
<1>9. Keeping(db, saved)
  BY <1>4, <1>6, KeepingOn
<1>10. Keeping(db, unnamed)
  BY <1>7, <1>9, KeepingOn
<1>11. Keeping(db, named)
  BY <1>8, <1>10, KeepingOn
<1> QED BY <1>1, <1>4, <1>9, <1>10, <1>11 DEF MoveKeeps

LEMMA RenameTends ==
  ASSUME Kinds, FilesHold, NEW p \in Dirs, NEW n, NEW q \in Dirs, NEW m, reuses' = reuses,
         Rename(p, n, q, m) \/ RenameFails(p, n, q, m)
  PROVE  Tends
<1> DEFINE w == Moved(p, n, q, m)
<1>0. w = Moved(p, n, q, m)
  OBVIOUS
<1>1. Renamable(p, n, q, m) /\ Taken(w.used)
  BY DEF Rename, RenameFails
<1>2. \/ CutShort(w.trees)
      \/ /\ db' = Last(w.trees) \/ \E k \in 2..4 : db' \in {w.trees[k - 1], w.trees[k]}
         /\ dirty' = IF w.over THEN Drop(dirty, w.node[q].kids[m]) ELSE dirty
  BY DEF Rename, RenameFails
<1> HIDE DEF w
<1>3. MoveHolds(w, next) /\ MoveKeeps(w)
  BY <1>0, <1>1, MovedHolds, MovedKeeps DEF Kinds
<1>4. Len(w.trees) = 4 /\ \A k \in 1..4 : RowsHold(w.trees[k]) /\ Keeping(db, w.trees[k])
  BY <1>3 DEF MoveHolds, MoveKeeps
<1>5. CASE CutShort(w.trees)
  <2>1. \A k \in 1..(Len(w.trees) - 1) : RowsHold(w.trees[k]) /\ Keeping(db, w.trees[k])
    BY <1>4
  <2> QED BY <1>5, <2>1, CutShortTends
<1>6. CASE ~CutShort(w.trees)
  <2>1. Last(w.trees) = w.trees[4]
    BY <1>4 DEF Last
  <2>2. ASSUME NEW k \in 2..4, db' \in {w.trees[k - 1], w.trees[k]} PROVE Keeping(db, db')
    <3>1. k - 1 \in 1..4 /\ k \in 1..4
      OBVIOUS
    <3> QED BY <1>4, <2>2, <3>1
  <2>3. Keeping(db, db')
    BY <1>2, <1>4, <1>6, <2>1, <2>2
  <2>4. DOMAIN dirty' \subseteq DOMAIN dirty
    BY <1>2, <1>6, DropKeepsLess
  <2> QED BY <2>3, <2>4, KeepingTends
<1> QED BY <1>5, <1>6

LEMMA BeginTends ==
  ASSUME Kinds, FilesHold, NEW s, NEW then, BeginSnapshot(s, then)
  PROVE  Tends
<1>1. \/ db' = Flushed(DOMAIN dirty) /\ dirty' = <<>>
      \/ \E S \in SUBSET DOMAIN dirty : Mount(Flushed(S))
  BY DEF BeginSnapshot
<1>2. ASSUME NEW S \in SUBSET DOMAIN dirty
      PROVE  RowsHold(Flushed(S)) /\ Keeping(db, Flushed(S))
  <2> DEFINE e == Flushed(S)
  <2>1. RowsHold(e)
    BY FlushedHolds DEF Kinds
  <2>2. e.meta = db.meta /\ DOMAIN e.recipe = DOMAIN db.recipe \cup S
    BY DEF Flushed, Rows
  <2> HIDE DEF e
  <2>3. Keeping(db, e)
    BY <2>2 DEF Keeping, KeepsMeta, Filed, FilesHold, FilesDirty
  <2> QED BY <2>1, <2>3 DEF e
<1>3. CASE \E S \in SUBSET DOMAIN dirty : Mount(Flushed(S))
  <2>1. PICK S \in SUBSET DOMAIN dirty : Mount(Flushed(S))
    BY <1>3
  <2> QED BY <1>2, <2>1, MountTends
<1>4. CASE db' = Flushed(DOMAIN dirty) /\ dirty' = <<>>
  <2>1. Keeping(db, db')
    BY <1>2, <1>4
  <2>2. DOMAIN dirty' = {}
    BY <1>4
  <2> QED BY <2>1, <2>2, KeepingTends
<1> QED BY <1>1, <1>3, <1>4

LEMMA CopiedKeeps ==
  ASSUME Kinds, job # Idle, NEW t \in job.todo, job.kind \in {"snapshot", "restore"}, Taken(1),
         reuses' = reuses
  PROVE  \A k \in 1..Len(Copied(t)) : RowsHold(Copied(t)[k]) /\ Keeping(db, Copied(t)[k])
<1> DEFINE dir == db.meta[t.src]
           a == SaveInode(db, next, dir)
           b == SaveDirent(a, t.parent, t.name, next)
           data == Stored(b, t.src)
           c == SaveRecipe(b, next, data)
<1>1. Copied(t) = IF dir THEN <<a, b>> ELSE <<a, b, c>>
  BY DEF Copied
<1>2. IInv /\ next \notin DOMAIN db.meta
  BY OneTaken DEF Kinds
<1>3. Adding(db, t.parent, t.name, next, dir, data, a, b, c)
  BY DEF Adding
<1>4. /\ \A k \in 1..Len(Copied(t)) : Knowing(db, next, dir, Copied(t)[k])
      /\ Len(Copied(t)) \in 2..3 /\ dir \in BOOLEAN
  BY <1>2, CopiedHolds
<1> HIDE DEF dir, a, b, c, data
<1>5. Keeping(db, a) /\ Keeping(db, b) /\ (dir = FALSE => Keeping(db, c))
  BY <1>2, <1>3, KeepingAdded
<1>6. \A k \in 1..Len(Copied(t)) : Keeping(db, Copied(t)[k])
  BY <1>1, <1>4, <1>5
<1> QED BY <1>4, <1>6 DEF Knowing

LEMMA CloneTends ==
  ASSUME Kinds, FilesHold, job # Idle, NEW t \in job.todo, CloneNode(t) \/ CloneFails(t),
         reuses' = reuses
  PROVE  Tends
<1> DEFINE cp == Copied(t)
<1>1. job.kind \in {"snapshot", "restore"} /\ Taken(1)
  BY DEF CloneNode, CloneFails
<1>2. \/ CutShort(cp)
      \/ dirty' = dirty /\ (db' = db \/ db' = Last(cp) \/ \E k \in 1..Len(cp) : db' = cp[k])
  BY DEF CloneNode, CloneFails
<1>3. /\ \A k \in 1..Len(cp) : RowsHold(cp[k]) /\ Keeping(db, cp[k])
      /\ Len(cp) \in 2..3
  BY <1>1, CopiedKeeps, CopiedHolds DEF Kinds
<1> HIDE DEF cp
<1>4. CASE CutShort(cp)
  <2>1. \A k \in 1..(Len(cp) - 1) : RowsHold(cp[k]) /\ Keeping(db, cp[k])
    BY <1>3
  <2> QED BY <1>4, <2>1, CutShortTends
<1>5. CASE ~CutShort(cp)
  <2>1. Last(cp) = cp[Len(cp)] /\ Len(cp) \in 1..Len(cp)
    BY <1>3 DEF Last
  <2>2. Keeping(db, db')
    BY <1>2, <1>3, <1>5, <2>1, KeepingSame
  <2> QED BY <1>2, <1>5, <2>2, KeepingTends
<1> QED BY <1>4, <1>5

LEMMA FinishTends ==
  ASSUME FilesHold, FinishSnapshot \/ FinishFails \/ FinishRestore
  PROVE  Tends
<1>1. db' \in {db, SaveSnapshot(db, job.name, job.root)} /\ dirty' = dirty
  BY DEF FinishSnapshot, FinishFails, FinishRestore
<1>2. Keeping(db, db')
  BY <1>1, KeepingSame DEF SaveSnapshot, Rows
<1> QED BY <1>1, <1>2, KeepingTends

LEMMA RemoveTends ==
  ASSUME FilesHold, NEW s, RemoveSnapshot(s) \/ RemoveFails(s)
  PROVE  Tends
<1>1. db' \in {db, DeleteSnapshot(db, s)} /\ dirty' = dirty
  BY DEF RemoveSnapshot, RemoveFails
<1>2. Keeping(db, db')
  BY <1>1, KeepingSame DEF DeleteSnapshot, Rows
<1> QED BY <1>1, <1>2, KeepingTends

LEMMA ClearTends ==
  ASSUME Kinds, FilesHold, ClearLive \/ ClearFails
  PROVE  Tends
<1>1. \/ \E N : Mount(Cleared(N))
      \/ (\E N : db' \in {Cleared(N), SaveInode(Cleared(N), Root, TRUE)}) /\ dirty' = <<>>
  <2>1. CASE ClearLive
    BY <2>1 DEF ClearLive, Emptied
  <2>2. CASE ClearFails
    BY <2>2 DEF ClearFails, Emptied
  <2> QED BY <2>1, <2>2
<1>2. ASSUME NEW N
      PROVE  /\ RowsHold(Cleared(N)) /\ Keeping(db, Cleared(N))
             /\ Keeping(db, SaveInode(Cleared(N), Root, TRUE))
  <2>1. RowsHold(Cleared(N))
    BY ClearedHolds DEF Kinds
  <2>2. Keeping(db, Cleared(N))
    BY KeepingSame DEF Cleared, Rows
  <2>3. Keeping(Cleared(N), SaveInode(Cleared(N), Root, TRUE))
    BY <2>1, KeepingInode DEF RowsHold
  <2> QED BY <2>1, <2>2, <2>3, KeepingOn
<1>3. CASE \E N : Mount(Cleared(N))
  BY <1>2, <1>3, MountTends
<1>4. CASE (\E N : db' \in {Cleared(N), SaveInode(Cleared(N), Root, TRUE)}) /\ dirty' = <<>>
  <2>1. DOMAIN dirty' = {}
    BY <1>4
  <2> QED BY <1>2, <1>4, <2>1, KeepingTends
<1> QED BY <1>1, <1>3, <1>4

LEMMA CrashTends == ASSUME Kinds, FilesHold, Crash PROVE Tends
<1>1. Keeping(db, db) /\ RowsHold(db) /\ Mount(db)
  BY KeepingSame DEF Crash, Kinds, IInv
<1> QED BY <1>1, MountTends

LEMMA NextTends ==
  ASSUME Kinds, FilesHold, reuses' = reuses, Next
  PROVE  Tends
<1>1. ASSUME MakeStep(DirName) PROVE Tends
  <2>1. ASSUME NEW p \in Dirs \cup FrozenIds, NEW n \in FileName, Create(p, n) PROVE Tends
    <3>1. p \in Dirs
      BY <2>1 DEF Create
    <3> QED BY <2>1, <3>1, CreateTends
  <2>2. ASSUME NEW n \in DirName, Mkdir(n) PROVE Tends
    BY <2>2, MkdirTends
  <2> QED BY <1>1, <2>1, <2>2 DEF MakeStep
<1>2. ASSUME MoveStep(DirName) PROVE Tends
  <2>1. ASSUME NEW p \in Dirs \cup FrozenIds, NEW n, Unlink(p, n) PROVE Tends
    <3>1. p \in Dirs
      BY <2>1 DEF Unlink
    <3> QED BY <2>1, <3>1, UnlinkTends
  <2>2. ASSUME NEW p \in Dirs \cup FrozenIds, NEW q \in Dirs \cup FrozenIds, NEW n, NEW m,
               Rename(p, n, q, m)
        PROVE  Tends
    <3>1. p \in Dirs /\ q \in Dirs
      BY <2>2 DEF Rename
    <3> QED BY <2>2, <3>1, RenameTends
  <2> QED BY <1>2, <2>1, <2>2 DEF MoveStep
<1>3. ASSUME WriteStep PROVE Tends
  <2>1. ASSUME NEW i \in Files \cup {j \in FrozenIds : ~db.meta[j]}, NEW c, Write(i, c) PROVE Tends
    <3>1. i \in Files
      BY <2>1 DEF Write
    <3> QED BY <2>1, <3>1, WriteTends
  <2>2. ASSUME NEW i \in DOMAIN dirty, Flush(i) PROVE Tends
    BY <2>2, FlushTends
  <2> QED BY <1>3, <2>1, <2>2 DEF WriteStep
<1>4. ASSUME SnapshotStep PROVE Tends
  <2>1. ASSUME NEW s, NEW then, BeginSnapshot(s, then) PROVE Tends
    BY <2>1, BeginTends
  <2>2. ASSUME NEW s, RemoveSnapshot(s) PROVE Tends
    BY <2>2, RemoveTends
  <2> QED BY <1>4, <2>1, <2>2 DEF SnapshotStep, TakeSnapshot, Restore
<1>5. ASSUME job # Idle, CloneStep PROVE Tends
  <2>1. ASSUME NEW t \in job.todo, CloneNode(t) PROVE Tends
    BY <1>5, <2>1, CloneTends
  <2> QED BY <1>5, <2>1, FinishTends, ClearTends DEF CloneStep
<1> QED BY <1>1, <1>2, <1>3, <1>4, <1>5, CrashTends DEF Next

LEMMA FailsTend ==
  ASSUME Kinds, FilesHold, reuses' = reuses, RequestFails \/ SnapshotFails
  PROVE  Tends
<1>1. ASSUME RequestFails PROVE Tends
  <2>1. ASSUME NEW p \in Dirs, NEW n \in FileName, CreateFails(p, n) PROVE Tends
    BY <2>1, CreateTends
  <2>2. ASSUME NEW n \in DirName, MkdirFails(n) PROVE Tends
    BY <2>2, MkdirTends
  <2>3. ASSUME NEW p \in Dirs, NEW n, UnlinkFails(p, n) PROVE Tends
    BY <2>3, UnlinkTends
  <2>4. ASSUME NEW p \in Dirs, NEW q \in Dirs, NEW n, NEW m, RenameFails(p, n, q, m) PROVE Tends
    BY <2>4, RenameTends
  <2> QED BY <1>1, <2>1, <2>2, <2>3, <2>4 DEF RequestFails
<1>2. ASSUME SnapshotFails PROVE Tends
  <2>1. ASSUME NEW s, RemoveFails(s) PROVE Tends
    BY <2>1, RemoveTends
  <2>2. ASSUME job # Idle, NEW t \in job.todo, CloneFails(t) PROVE Tends
    BY <2>2, CloneTends
  <2> QED BY <1>2, <2>1, <2>2, FinishTends, ClearTends DEF SnapshotFails
<1> QED BY <1>1, <1>2

(* A step after which a request is in progress. *)
Goes ==
  \/ \E s, then : BeginSnapshot(s, then) /\ (then # {} => s \in BackupName)
  \/ job # Idle /\ \E t \in job.todo : CloneNode(t)
  \/ FinishSnapshot \/ ClearLive \/ ClearFails

LEMMA Answered ==
  ASSUME job' # Idle, FaultNext
  PROVE  Goes
<1>1. /\ \A d : ~Mount(d)
      /\ \A trees : ~CutShort(trees)
  BY DEF Mount, CutShort
<1>2. ASSUME MakeStep(DirName) \/ MoveStep(DirName) \/ WriteStep PROVE FALSE
  <2>1. \A p, n : ~Create(p, n) /\ ~Unlink(p, n)
    BY <1>1 DEF Create, Unlink
  <2>2. \A n : ~Mkdir(n)
    BY <1>1 DEF Mkdir
  <2>3. \A p, n, q, m : ~Rename(p, n, q, m)
    BY <1>1 DEF Rename
  <2>4. \A i, c : ~Write(i, c) /\ ~Flush(i)
    BY <1>1 DEF Write, Flush
  <2> QED BY <1>2, <2>1, <2>2, <2>3, <2>4 DEF MakeStep, MoveStep, WriteStep
<1>3. ASSUME SnapshotStep PROVE Goes
  <2>1. \A s : ~RemoveSnapshot(s)
    BY DEF RemoveSnapshot
  <2>2. \/ \E s : BeginSnapshot(s, {})
        \/ \E s : \E b \in BackupName : BeginSnapshot(b, {s})
    BY <1>3, <2>1 DEF SnapshotStep, TakeSnapshot, Restore
  <2> QED BY <2>2 DEF Goes
<1>4. ASSUME job # Idle, CloneStep PROVE Goes
  <2>1. ~FinishRestore
    BY DEF FinishRestore
  <2> QED BY <1>4, <2>1 DEF CloneStep, Goes
<1>5. ~Crash
  BY <1>1 DEF Crash
<1>6. ASSUME RequestFails PROVE FALSE
  <2>1. \A p, n : ~CreateFails(p, n) /\ ~UnlinkFails(p, n)
    BY DEF CreateFails, UnlinkFails
  <2>2. \A n : ~MkdirFails(n)
    BY DEF MkdirFails
  <2>3. \A p, n, q, m : ~RenameFails(p, n, q, m)
    BY DEF RenameFails
  <2> QED BY <1>6, <2>1, <2>2, <2>3 DEF RequestFails
<1>7. ASSUME SnapshotFails PROVE Goes
  <2>1. \A s : ~RemoveFails(s)
    BY DEF RemoveFails
  <2>2. \A t : ~CloneFails(t)
    BY DEF CloneFails
  <2>3. ~FinishFails
    BY DEF FinishFails
  <2> QED BY <1>7, <2>1, <2>2, <2>3 DEF SnapshotFails, Goes
<1> QED BY <1>2, <1>3, <1>4, <1>5, <1>6, <1>7 DEF FaultNext, NoError, Next

-----------------------------------------------------------------------------
(* The live tree as a view.                                                *)

MemoryView(d, nd, di) ==
  [i \in DOMAIN nd |->
     [dir |-> nd[i].dir, data |-> IF i \in DOMAIN di THEN di[i] ELSE Stored(d, i),
      kids |-> [n \in DOMAIN nd[i].kids |-> nd[nd[i].kids[n]].ino]]]

LiveOf(d, nd, di) ==
  LET seen[k \in 0..Depth] ==
        [i \in DOMAIN nd |->
           [dir |-> nd[i].dir, data |-> IF i \in DOMAIN di THEN di[i] ELSE Stored(d, i),
            kids |-> IF k = 0 THEN <<>>
                     ELSE [n \in DOMAIN nd[i].kids |-> seen[k - 1][nd[nd[i].kids[n]].ino]]]]
  IN seen[Depth][Root]

LEMMA LiveShown ==
  ASSUME NEW d, NEW nd, NEW di
  PROVE  LiveOf(d, nd, di) = Shown(MemoryView(d, nd, di), Root)
<1> DEFINE v == MemoryView(d, nd, di)
           Is(f) == f = [k \in 0..Depth |->
                           [i \in DOMAIN nd |->
                              [dir |-> nd[i].dir,
                               data |-> IF i \in DOMAIN di THEN di[i] ELSE Stored(d, i),
                               kids |-> IF k = 0 THEN <<>>
                                        ELSE [n \in DOMAIN nd[i].kids |->
                                                f[k - 1][nd[nd[i].kids[n]].ino]]]]]
           seen == CHOOSE f : Is(f)
<1>1. LiveOf(d, nd, di) = seen[Depth][Root]
  BY DEF LiveOf
<1>2. \A f : Is(f) <=> IsSeen(v, f)
  <2> SUFFICES ASSUME NEW f PROVE Is(f) <=> IsSeen(v, f)
    OBVIOUS
  <2> DEFINE L(k) == [i \in DOMAIN nd |->
                        [dir |-> nd[i].dir,
                         data |-> IF i \in DOMAIN di THEN di[i] ELSE Stored(d, i),
                         kids |-> IF k = 0 THEN <<>>
                                  ELSE [n \in DOMAIN nd[i].kids |-> f[k - 1][nd[nd[i].kids[n]].ino]]]]
             M(k) == IF k = 0 THEN Bare(v) ELSE Over(v, f[k - 1])
  <2>0. /\ DOMAIN v = DOMAIN nd
        /\ \A i \in DOMAIN v :
             /\ v[i].dir = nd[i].dir
             /\ v[i].data = IF i \in DOMAIN di THEN di[i] ELSE Stored(d, i)
             /\ DOMAIN v[i].kids = DOMAIN nd[i].kids
             /\ \A n \in DOMAIN nd[i].kids : v[i].kids[n] = nd[nd[i].kids[n]].ino
    BY DEF MemoryView
  <2>1. ASSUME NEW k \in 0..Depth PROVE L(k) = M(k)
    <3> HIDE DEF v
    <3>1. CASE k = 0
      BY <2>0, <3>1 DEF Bare
    <3>2. CASE k # 0
      <4>1. \A i \in DOMAIN v : [n \in DOMAIN nd[i].kids |-> f[k - 1][nd[nd[i].kids[n]].ino]]
                                = [n \in DOMAIN v[i].kids |-> f[k - 1][v[i].kids[n]]]
        BY <2>0
      <4> QED BY <2>0, <3>2, <4>1 DEF Over
    <3> QED BY <3>1, <3>2
  <2>2. Is(f) <=> f = [k \in 0..Depth |-> L(k)]
    OBVIOUS
  <2>3. IsSeen(v, f) <=> f = [k \in 0..Depth |-> M(k)]
    BY DEF IsSeen
  <2> HIDE DEF L, M, Is, v
  <2>4. [k \in 0..Depth |-> L(k)] = [k \in 0..Depth |-> M(k)]
    BY <2>1
  <2> QED BY <2>2, <2>3, <2>4
<1> HIDE DEF Is, v
<1>3. IsSeen(v, seen)
  BY <1>2, SeenIsShown
<1> HIDE DEF seen
<1>4. seen[Depth] = Over(v, Over(v, Over(v, Bare(v))))
  BY <1>3, SeenIsShown
<1> QED BY <1>1, <1>4 DEF Shown, v

LEMMA LiveIs == LiveTree = LiveOf(db, node, dirty) /\ LiveTree' = LiveOf(db', node', dirty')
BY DEF LiveTree, LiveOf, Names, Child

-----------------------------------------------------------------------------
(* What the rows show of what clients see.                                 *)

(* f gives what v has of kinds and contents. *)
Gives(v, f) == \A i \in DOMAIN v : f[i].dir = v[i].dir /\ f[i].data = v[i].data

LEMMA ViewsGive == ASSUME NEW v PROVE Gives(v, Bare(v)) /\ \A f : Gives(v, Over(v, f))
BY DEF Gives, Bare, Over

LEMMA OverAt ==
  ASSUME NEW v, NEW f, NEW i \in DOMAIN v
  PROVE  /\ Over(v, f)[i].dir = v[i].dir /\ Over(v, f)[i].data = v[i].data
         /\ DOMAIN Over(v, f)[i].kids = DOMAIN v[i].kids
         /\ \A n \in DOMAIN v[i].kids : Over(v, f)[i].kids[n] = f[v[i].kids[n]]
BY DEF Over

(* One entry n of the directory p: what its row leads to, L[n], and what   *)
(* clients see under it.                                                   *)
LEMMA EntryAlike ==
  ASSUME Kinds, Differing \subseteq torn, NEW p \in Dirs, NEW n \in Name, <<p, n>> \notin torn
  PROVE  /\ n \in DOMAIN Listed(db, p) <=> n \in Names(p)
         /\ n \in Names(p) =>
              /\ Listed(db, p)[n] \in DOMAIN db.meta /\ Child(p, n) \in DOMAIN node
              /\ db.meta[Listed(db, p)[n]] = node[Child(p, n)].dir
              /\ <<p, n>> \notin Shadowed => Listed(db, p)[n] = Child(p, n)
<1> DEFINE L == Listed(db, p)
           y == <<p, n>>
<1>1. y \in Dirs \X Name /\ y[1] = p /\ y[2] = n
  OBVIOUS
<1>2. Agree(L, node, p, n)
  <2>1. y \notin Differing
    OBVIOUS
  <2>2. y \notin {e \in Dirs \X Name : ~Agree(Listed(db, e[1]), node, e[1], e[2])}
    BY <2>1, DifferingAre
  <2> HIDE DEF y
  <2> QED BY <1>1, <2>2
<1>3. n \in DOMAIN L <=> n \in Names(p)
  BY <1>2 DEF Agree, Names
<1>4. ASSUME n \in Names(p)
      PROVE  /\ L[n] \in DOMAIN db.meta /\ Child(p, n) \in DOMAIN node
             /\ db.meta[L[n]] = node[Child(p, n)].dir
             /\ y \notin Shadowed => L[n] = Child(p, n)
  <2> DEFINE k == node[p].kids[n]
  <2>1. p \in DOMAIN node /\ k \in DOMAIN node
    <3>1. p \in DOMAIN node
      BY DirsKnown DEF KernelKnows, Kinds
    <3>2. IsMap(node[p].kids, Name, DOMAIN node)
      BY <3>1 DEF Kinds, IInv, MemoryHolds, NodeHolds
    <3> QED BY <1>4, <3>1, <3>2 DEF IsMap, Names
  <2>2. KernelKnows(db, node, Child(p, n), node[k].dir)
    BY <2>1 DEF Kinds, IInv, MemoryHolds, NodeHolds, Child
  <2>3. L[n] \in {Child(p, n), k} /\ n \in DOMAIN L
    BY <1>2, <1>3, <1>4 DEF Agree, Child
  <2>4. L[n] \in DOMAIN db.meta
    <3>1. <<p, n>> \in DOMAIN db.dirent /\ L[n] = db.dirent[<<p, n>>]
      BY <2>3 DEF Listed
    <3>2. \A z \in DOMAIN db.dirent : db.dirent[z] \in DOMAIN db.meta
      BY DEF Kinds, IInv, RowsHold, IsMap
    <3> QED BY <3>1, <3>2
  <2>5. db.meta[L[n]] = node[Child(p, n)].dir
    <3>1. CASE L[n] = Child(p, n)
      BY <2>2, <3>1 DEF KernelKnows
    <3>2. CASE L[n] = k
      <4>1. db.meta[k] = node[k].dir
        BY <2>1, <2>4, <3>2 DEF Kinds, MemoryKinds
      <4> QED BY <2>2, <3>2, <4>1 DEF KernelKnows
    <3> QED BY <2>3, <3>1, <3>2
  <2>6. ASSUME y \notin Shadowed PROVE L[n] = Child(p, n)
    <3>1. ~ (y[2] \in Names(y[1]) /\ y[2] \in DOMAIN Listed(db, y[1])
             /\ Listed(db, y[1])[y[2]] # Child(y[1], y[2]))
      <4> HIDE DEF y
      <4> QED BY <1>1, <2>6 DEF Shadowed
    <3> QED BY <1>4, <2>3, <3>1
  <2> QED BY <2>2, <2>4, <2>5, <2>6 DEF KernelKnows
<1> QED BY <1>3, <1>4

LEMMA EntriesAlike ==
  ASSUME Kinds, Differing \subseteq torn, dirty = <<>>, NEW p \in Dirs, NEW f, NEW g,
         Gives(RowsView(db), f), Gives(MemoryView(db, node, dirty), g)
  PROVE  LET s == Over(RowsView(db), f)[p]
             l == Over(MemoryView(db, node, dirty), g)[p]
         IN /\ s.dir = l.dir /\ s.data = l.data
            /\ EntriesShown(s, l, p)
            /\ \A n \in DOMAIN s.kids : s.kids[n] = f[Listed(db, p)[n]]
            /\ DOMAIN l.kids = Names(p)
            /\ \A n \in Names(p) : l.kids[n] = g[Child(p, n)]
<1> DEFINE v == RowsView(db)
           w == MemoryView(db, node, dirty)
           s == Over(v, f)[p]
           l == Over(w, g)[p]
           L == Listed(db, p)
<1>1. DOMAIN v = DOMAIN db.meta /\ \A i \in DOMAIN v :
        v[i].dir = db.meta[i] /\ v[i].data = Stored(db, i) /\ v[i].kids = Listed(db, i)
  BY DEF RowsView
<1>2. DOMAIN w = DOMAIN node /\ \A i \in DOMAIN w :
        /\ w[i].dir = node[i].dir /\ w[i].data = Stored(db, i)
        /\ DOMAIN w[i].kids = Names(i) /\ \A n \in Names(i) : w[i].kids[n] = Child(i, n)
  <2>1. DOMAIN dirty = {}
    OBVIOUS
  <2> QED BY <2>1 DEF MemoryView, Names, Child
<1>3. KernelKnows(db, node, p, TRUE)
  BY DirsKnown DEF Kinds
<1>4. p \in DOMAIN v /\ p \in DOMAIN w /\ v[p].dir = w[p].dir /\ v[p].data = w[p].data
  BY <1>1, <1>2, <1>3 DEF KernelKnows
<1>5. Gives(v, f) /\ Gives(w, g)
  OBVIOUS
<1> HIDE DEF v, w
<1>6. /\ s.dir = l.dir /\ s.data = l.data
      /\ DOMAIN s.kids = DOMAIN L /\ \A n \in DOMAIN L : s.kids[n] = f[L[n]]
      /\ DOMAIN l.kids = Names(p) /\ \A n \in Names(p) : l.kids[n] = g[Child(p, n)]
  <2>1. /\ s.dir = v[p].dir /\ s.data = v[p].data /\ DOMAIN s.kids = DOMAIN v[p].kids
        /\ \A n \in DOMAIN v[p].kids : s.kids[n] = f[v[p].kids[n]]
    BY <1>4, OverAt
  <2>2. /\ l.dir = w[p].dir /\ l.data = w[p].data /\ DOMAIN l.kids = DOMAIN w[p].kids
        /\ \A n \in DOMAIN w[p].kids : l.kids[n] = g[w[p].kids[n]]
    BY <1>4, OverAt
  <2>3. v[p].kids = L /\ DOMAIN w[p].kids = Names(p) /\ \A n \in Names(p) : w[p].kids[n] = Child(p, n)
    BY <1>1, <1>2, <1>4
  <2> HIDE DEF s, l, L
  <2> QED BY <1>4, <2>1, <2>2, <2>3
<1> HIDE DEF s, l, L
<1>7. EntriesShown(s, l, p)
  <2> SUFFICES ASSUME NEW n \in Name, <<p, n>> \notin torn
               PROVE  /\ n \in DOMAIN s.kids <=> n \in DOMAIN l.kids
                      /\ n \in DOMAIN s.kids =>
                           /\ s.kids[n].dir = l.kids[n].dir
                           /\ <<p, n>> \notin Shadowed => s.kids[n].data = l.kids[n].data
    BY DEF EntriesShown
  <2>1. /\ n \in DOMAIN L <=> n \in Names(p)
        /\ n \in Names(p) =>
             /\ L[n] \in DOMAIN db.meta /\ Child(p, n) \in DOMAIN node
             /\ db.meta[L[n]] = node[Child(p, n)].dir
             /\ <<p, n>> \notin Shadowed => L[n] = Child(p, n)
    BY EntryAlike DEF L
  <2>2. ASSUME n \in DOMAIN L
        PROVE  /\ s.kids[n].dir = l.kids[n].dir
               /\ <<p, n>> \notin Shadowed => s.kids[n].data = l.kids[n].data
    <3>1. s.kids[n] = f[L[n]] /\ l.kids[n] = g[Child(p, n)]
      BY <1>6, <2>1, <2>2
    <3>2. f[L[n]].dir = db.meta[L[n]] /\ f[L[n]].data = Stored(db, L[n])
      BY <1>1, <1>5, <2>1, <2>2 DEF Gives
    <3>3. g[Child(p, n)].dir = node[Child(p, n)].dir /\ g[Child(p, n)].data = Stored(db, Child(p, n))
      BY <1>2, <1>5, <2>1, <2>2 DEF Gives
    <3> QED BY <2>1, <2>2, <3>1, <3>2, <3>3
  <2> QED BY <1>6, <2>1, <2>2
<1> QED BY <1>6, <1>7 DEF s, l, L, v, w

(* Between requests whose buffers are flushed, the rows show what clients  *)
(* see, but for what an error left apart and for shadowed directories.     *)
LEMMA RowsShowLive ==
  ASSUME Kinds, Differing \subseteq torn, dirty = <<>>
  PROVE  ShowsLive(Tree(db, Root))
<1> DEFINE v == RowsView(db)
           w == MemoryView(db, node, dirty)
           A == Over(v, Bare(v))
           B == Over(w, Bare(w))
           t == Over(v, Over(v, A))[Root]
           l == Over(w, Over(w, B))[Root]
<1>1. Tree(db, Root) = t /\ LiveTree = l
  BY TreeShown, LiveIs, LiveShown DEF Shown
<1>2. Root \in Dirs
  BY DEF Dirs
<1>3. Gives(v, A) /\ Gives(w, B) /\ Gives(v, Over(v, A)) /\ Gives(w, Over(w, B))
  BY ViewsGive
<1> HIDE DEF A, B
<1>4. /\ t.dir = l.dir /\ t.data = l.data /\ EntriesShown(t, l, Root)
      /\ \A n \in DOMAIN t.kids : t.kids[n] = Over(v, A)[Listed(db, Root)[n]]
      /\ DOMAIN l.kids = Names(Root)
      /\ \A n \in Names(Root) : l.kids[n] = Over(w, B)[Child(Root, n)]
  BY <1>2, <1>3, EntriesAlike
<1> HIDE DEF t, l
<1>5. ASSUME NEW n \in Names(Root), <<Root, n>> \notin torn \cup Shadowed, l.kids[n].dir
      PROVE  EntriesShown(t.kids[n], l.kids[n], Child(Root, n))
  <2> DEFINE p == Child(Root, n)
  <2>1. n \in Name
    <3>1. Root \in DOMAIN node
      BY DEF Kinds, IInv, MemoryHolds
    <3> QED BY <3>1 DEF Kinds, IInv, MemoryHolds, NodeHolds, IsMap, Names
  <2>2. Listed(db, Root)[n] = p /\ p \in DOMAIN node
    BY <1>2, <1>5, <2>1, EntryAlike
  <2>3. n \in DOMAIN t.kids
    BY <1>4, <1>5, <2>1 DEF EntriesShown
  <2>4. t.kids[n] = Over(v, A)[p] /\ l.kids[n] = Over(w, B)[p]
    BY <1>4, <2>2, <2>3
  <2>5. node[p].dir
    <3>1. p \in DOMAIN w /\ w[p].dir = node[p].dir
      BY <2>2 DEF MemoryView
    <3> HIDE DEF w, p
    <3>2. Over(w, B)[p].dir = w[p].dir
      BY <3>1, OverAt
    <3> QED BY <1>5, <2>4, <3>1, <3>2
  <2>6. p \in Dirs
    BY <2>5 DEF Dirs
  <2> HIDE DEF p
  <2>7. EntriesShown(Over(v, A)[p], Over(w, B)[p], p)
    BY <1>3, <2>6, EntriesAlike
  <2> QED BY <2>4, <2>7 DEF p
<1> HIDE DEF v, w
<1> QED BY <1>1, <1>4, <1>5 DEF ShowsLive

-----------------------------------------------------------------------------
(* A copy in the making.                                                   *)

(* W holds the ids of the clones so far, K what the clones list, todo what *)
(* is left, and S the ids of what is copied; m takes a clone to what it is *)
(* a clone of.                                                             *)
DrawnFrom(d, W, kids, todo, m, S, w) ==
  /\ m[w] \in S /\ d.meta[w] = d.meta[m[w]] /\ Stored(d, w) = Stored(d, m[w])
  /\ \A n \in DOMAIN kids : /\ n \in DOMAIN Listed(d, m[w])
                            /\ kids[n] \in W /\ m[kids[n]] = Listed(d, m[w])[n]
  /\ \A n \in DOMAIN Listed(d, m[w]) : n \in DOMAIN kids \/ Task(Listed(d, m[w])[n], w, n) \in todo

Copying(d, W, K, todo, m, S) ==
  /\ S \subseteq DOMAIN d.meta /\ W \subseteq DOMAIN d.meta /\ S \cap W = {}
  /\ \A s \in S : \A n \in DOMAIN Listed(d, s) : Listed(d, s)[n] \in S
  /\ \A w \in W : DrawnFrom(d, W, K[w], todo, m, S, w)
  /\ \A t \in todo : /\ t.src \in S
                     /\ t.parent \in W => /\ t.name \in DOMAIN Listed(d, m[t.parent])
                                          /\ t.src = Listed(d, m[t.parent])[t.name]

(* The clone i of t.src is made in the rows d, which then are e. *)
Draws(d, e, t, i) ==
  /\ t = Task(t.src, t.parent, t.name)
  /\ i \notin DOMAIN d.meta /\ t.parent # i
  /\ e.meta = Put(d.meta, i, d.meta[t.src])
  /\ e.dirent = Put(d.dirent, <<t.parent, t.name>>, i)
  /\ \A j \in DOMAIN d.meta : Stored(e, j) = Stored(d, j)
  /\ Stored(e, i) = Stored(d, t.src)

(* What the clones list grows by the new one. *)
Extends(K, J, W, t, i) ==
  /\ DOMAIN J[i] = {}
  /\ \A w \in W \ {t.parent} : J[w] = K[w]
  /\ t.parent \in W => J[t.parent] = Put(K[t.parent], t.name, i)

LeftOf(todo, t, kids, i) == (todo \ {t}) \cup {Task(kids[n], i, n) : n \in DOMAIN kids}

LEMMA DrawnListed ==
  ASSUME NEW d, NEW e, NEW t, NEW i, Draws(d, e, t, i), NEW s, s # t.parent
  PROVE  Listed(e, s) = Listed(d, s)
<1>1. ASSUME NEW n
      PROVE  /\ <<s, n>> \in DOMAIN e.dirent <=> <<s, n>> \in DOMAIN d.dirent
             /\ <<s, n>> \in DOMAIN d.dirent => e.dirent[<<s, n>>] = d.dirent[<<s, n>>]
  <2>1. <<s, n>> # <<t.parent, t.name>>
    OBVIOUS
  <2> QED BY <2>1 DEF Draws, Put
<1> QED BY <1>1 DEF Listed

Growing(d, e, W, K, J, todo, m, S, t, i) ==
  /\ Copying(d, W, K, todo, m, S) /\ Draws(d, e, t, i)
  /\ t \in todo /\ t.parent \notin S /\ \A u \in todo : u.parent # i
  /\ Extends(K, J, W, t, i)
Grew(e, W, J, todo, m, S, t, i, k) ==
  /\ Copying(e, W \cup {i}, J, LeftOf(todo, t, Listed(e, t.src), i), k, S)
  /\ k[i] = t.src /\ \A w \in W : k[w] = m[w]

LEMMA CopyGrows ==
  ASSUME NEW d, NEW e, NEW W, NEW K, NEW J, NEW todo, NEW m, NEW S, NEW t, NEW i,
         Growing(d, e, W, K, J, todo, m, S, t, i)
  PROVE  \E k : Grew(e, W, J, todo, m, S, t, i, k)
<1> DEFINE k == [w \in W \cup {i} |-> IF w = i THEN t.src ELSE m[w]]
           V == W \cup {i}
           left == LeftOf(todo, t, Listed(e, t.src), i)
<1>0. /\ Copying(d, W, K, todo, m, S) /\ Draws(d, e, t, i)
      /\ t \in todo /\ t.parent \notin S /\ \A u \in todo : u.parent # i
      /\ Extends(K, J, W, t, i)
  BY DEF Growing
<1>1. /\ t.src \in S /\ S \subseteq DOMAIN d.meta /\ W \subseteq DOMAIN d.meta
      /\ S \cap W = {} /\ i \notin DOMAIN d.meta /\ i \notin W /\ i \notin S
  BY <1>0 DEF Copying, Draws
<1>2. k[i] = t.src /\ \A w \in W : k[w] = m[w]
  BY <1>1
<1>3. \A s \in S : Listed(e, s) = Listed(d, s)
  BY <1>0, DrawnListed
<1>4. /\ DOMAIN e.meta = DOMAIN d.meta \cup {i} /\ e.meta[i] = d.meta[t.src]
      /\ \A j \in DOMAIN d.meta : e.meta[j] = d.meta[j]
  BY <1>0, <1>1 DEF Draws, Put
<1>5. \A u : u \in left <=> \/ u \in todo /\ u # t
                            \/ \E n \in DOMAIN Listed(d, t.src) : u = Task(Listed(d, t.src)[n], i, n)
  BY <1>0, <1>1, <1>3 DEF LeftOf
<1>6. \A s \in S : \A n \in DOMAIN Listed(d, s) : Listed(d, s)[n] \in S
  BY <1>0 DEF Copying
<1> HIDE DEF k, left
<1>7. ASSUME NEW w \in V PROVE DrawnFrom(e, V, J[w], left, k, S, w)
  <2>1. CASE w = i
    <3>1. /\ k[w] = t.src /\ k[w] \in S /\ e.meta[w] = e.meta[k[w]] /\ Stored(e, w) = Stored(e, k[w])
      BY <1>0, <1>1, <1>2, <1>4, <2>1 DEF Draws
    <3>2. DOMAIN J[w] = {}
      BY <1>0, <2>1 DEF Extends
    <3>3. \A n \in DOMAIN Listed(e, k[w]) : Task(Listed(e, k[w])[n], w, n) \in left
      BY <1>1, <1>3, <1>5, <2>1, <3>1
    <3> QED BY <3>1, <3>2, <3>3 DEF DrawnFrom
  <2>2. CASE w \in W
    <3>1. DrawnFrom(d, W, K[w], todo, m, S, w)
      BY <1>0, <2>2 DEF Copying
    <3>2. /\ m[w] \in S /\ d.meta[w] = d.meta[m[w]] /\ Stored(d, w) = Stored(d, m[w])
          /\ k[w] = m[w] /\ w \in DOMAIN d.meta /\ m[w] \in DOMAIN d.meta
      BY <1>1, <1>2, <2>2, <3>1 DEF DrawnFrom
    <3>3. k[w] \in S /\ e.meta[w] = e.meta[k[w]] /\ Stored(e, w) = Stored(e, k[w])
      BY <1>0, <1>4, <3>2 DEF Draws
    <3> DEFINE L == Listed(d, m[w])
    <3>4. Listed(e, k[w]) = L
      BY <1>3, <3>2
    <3>5. /\ \A n \in DOMAIN K[w] : n \in DOMAIN L /\ K[w][n] \in W /\ m[K[w][n]] = L[n]
          /\ \A n \in DOMAIN L : n \in DOMAIN K[w] \/ Task(L[n], w, n) \in todo
      BY <3>1 DEF DrawnFrom
    <3> HIDE DEF L
    <3>6. CASE w # t.parent
      <4>1. J[w] = K[w]
        BY <1>0, <2>2, <3>6 DEF Extends
      <4>2. \A n \in DOMAIN J[w] : n \in DOMAIN L /\ J[w][n] \in V /\ k[J[w][n]] = L[n]
        BY <1>2, <3>5, <4>1
      <4>3. \A n \in DOMAIN L : Task(L[n], w, n) # t
        BY <3>6 DEF Task
      <4>4. \A n \in DOMAIN L : n \in DOMAIN J[w] \/ Task(L[n], w, n) \in left
        BY <1>5, <3>5, <4>1, <4>3
      <4> QED BY <3>3, <3>4, <4>2, <4>4 DEF DrawnFrom
    <3>7. CASE w = t.parent
      <4>1. J[w] = Put(K[w], t.name, i)
        BY <1>0, <2>2, <3>7 DEF Extends
      <4>2. t.name \in DOMAIN L /\ t.src = L[t.name]
        BY <1>0, <2>2, <3>7 DEF Copying, L
      <4>3. /\ DOMAIN J[w] = DOMAIN K[w] \cup {t.name} /\ J[w][t.name] = i
            /\ \A n \in DOMAIN K[w] \ {t.name} : J[w][n] = K[w][n]
        BY <4>1 DEF Put
      <4>4. \A n \in DOMAIN J[w] : n \in DOMAIN L /\ J[w][n] \in V /\ k[J[w][n]] = L[n]
        BY <1>2, <3>5, <4>2, <4>3
      <4>5. \A n \in DOMAIN L : n # t.name => Task(L[n], w, n) # t
        BY DEF Task
      <4>6. \A n \in DOMAIN L : n \in DOMAIN J[w] \/ Task(L[n], w, n) \in left
        BY <1>5, <3>5, <4>3, <4>5
      <4> QED BY <3>3, <3>4, <4>4, <4>6 DEF DrawnFrom
    <3> QED BY <3>6, <3>7
  <2> QED BY <2>1, <2>2
<1>8. ASSUME NEW u \in left
      PROVE  /\ u.src \in S
             /\ u.parent \in V => /\ u.name \in DOMAIN Listed(e, k[u.parent])
                                  /\ u.src = Listed(e, k[u.parent])[u.name]
  <2>1. CASE u \in todo
    <3>1. /\ u.src \in S
          /\ u.parent \in W => /\ u.name \in DOMAIN Listed(d, m[u.parent])
                               /\ u.src = Listed(d, m[u.parent])[u.name]
      BY <1>0, <2>1 DEF Copying
    <3>2. u.parent \in V => u.parent \in W
      BY <1>0, <2>1
    <3>3. u.parent \in W => k[u.parent] = m[u.parent] /\ m[u.parent] \in S
      BY <1>0, <1>2 DEF Copying, DrawnFrom
    <3> QED BY <1>3, <3>1, <3>2, <3>3
  <2>2. CASE u \notin todo
    <3>1. PICK n \in DOMAIN Listed(d, t.src) : u = Task(Listed(d, t.src)[n], i, n)
      BY <1>5, <2>2
    <3>2. u.src = Listed(d, t.src)[n] /\ u.parent = i /\ u.name = n
      BY <3>1 DEF Task
    <3> QED BY <1>1, <1>2, <1>3, <1>6, <3>2
  <2> QED BY <2>1, <2>2
<1>9. S \subseteq DOMAIN e.meta /\ V \subseteq DOMAIN e.meta /\ S \cap V = {}
  BY <1>1, <1>4
<1>10. Copying(e, V, J, left, k, S)
  BY <1>0, <1>3, <1>6, <1>7, <1>8, <1>9 DEF Copying
<1> QED BY <1>2, <1>10 DEF left, Grew

(* A complete copy shows what it is a copy of, in a view that lists what   *)
(* the clones list.                                                        *)
Viewing(v, d, W, K) ==
  \A w \in W : /\ w \in DOMAIN v /\ v[w].dir = d.meta[w] /\ v[w].data = Stored(d, w)
               /\ DOMAIN v[w].kids = DOMAIN K[w]
               /\ \A n \in DOMAIN K[w] : v[w].kids[n] = K[w][n]

LEMMA CopyShown ==
  ASSUME NEW d, NEW W, NEW K, NEW m, NEW S, Copying(d, W, K, {}, m, S), NEW v, Viewing(v, d, W, K)
  PROVE  \A w \in W : Shown(v, w) = Tree(d, m[w])
<1>1. Maps(v, RowsView(d), m, W)
  <2> SUFFICES ASSUME NEW w \in W
               PROVE  /\ w \in DOMAIN v /\ m[w] \in DOMAIN d.meta
                      /\ v[w].dir = d.meta[m[w]] /\ v[w].data = Stored(d, m[w])
                      /\ DOMAIN v[w].kids = DOMAIN Listed(d, m[w])
                      /\ \A n \in DOMAIN v[w].kids :
                           v[w].kids[n] \in W /\ m[v[w].kids[n]] = Listed(d, m[w])[n]
    BY DEF Maps, RowsView
  <2>1. DrawnFrom(d, W, K[w], {}, m, S, w) /\ S \subseteq DOMAIN d.meta
    BY DEF Copying
  <2> DEFINE L == Listed(d, m[w])
  <2>2. /\ m[w] \in S /\ d.meta[w] = d.meta[m[w]] /\ Stored(d, w) = Stored(d, m[w])
        /\ \A n \in DOMAIN K[w] : n \in DOMAIN L /\ K[w][n] \in W /\ m[K[w][n]] = L[n]
        /\ DOMAIN L \subseteq DOMAIN K[w]
    BY <2>1 DEF DrawnFrom
  <2> HIDE DEF L
  <2>3. /\ w \in DOMAIN v /\ v[w].dir = d.meta[w] /\ v[w].data = Stored(d, w)
        /\ DOMAIN v[w].kids = DOMAIN K[w]
        /\ \A n \in DOMAIN K[w] : v[w].kids[n] = K[w][n]
    BY DEF Viewing
  <2>4. DOMAIN v[w].kids = DOMAIN L
    BY <2>2, <2>3
  <2> QED BY <2>1, <2>2, <2>3, <2>4 DEF L
<1> QED BY <1>1, MapsShown, TreeShown

LEMMA DrawnPut ==
  ASSUME NEW d, NEW e, NEW t, NEW i, Draws(d, e, t, i), t.name \in Name
  PROVE  Listed(e, t.parent) = Put(Listed(d, t.parent), t.name, i)
<1> DEFINE p == t.parent
           L == Listed(d, p)
           M == Listed(e, p)
<1>1. ASSUME NEW n \in Name
      PROVE  /\ n \in DOMAIN M <=> n \in DOMAIN L \/ n = t.name
             /\ n \in DOMAIN M => M[n] = IF n = t.name THEN i ELSE L[n]
  <2> DEFINE x == <<p, n>>
             y == <<p, t.name>>
  <2>1. x = y <=> n = t.name
    OBVIOUS
  <2>2. e.dirent = Put(d.dirent, y, i)
    BY DEF Draws
  <2>3. /\ n \in DOMAIN M <=> x \in DOMAIN e.dirent
        /\ n \in DOMAIN M => M[n] = e.dirent[x]
        /\ n \in DOMAIN L <=> x \in DOMAIN d.dirent
        /\ n \in DOMAIN L => L[n] = d.dirent[x]
    BY ListedAt
  <2> HIDE DEF x, y, L, M, p
  <2> QED BY <2>1, <2>2, <2>3 DEF Put
<1>2. DOMAIN L \subseteq Name /\ DOMAIN M \subseteq Name
  BY DEF Listed
<1>3. M = [n \in DOMAIN M |-> M[n]]
  BY DEF Listed
<1> HIDE DEF L, M, p
<1>4. DOMAIN M = DOMAIN L \cup {t.name}
  BY <1>1, <1>2
<1>5. \A n \in DOMAIN M : M[n] = IF n = t.name THEN i ELSE L[n]
  BY <1>1, <1>2
<1> QED BY <1>3, <1>4, <1>5 DEF Put, L, M, p

LEMMA CloneDraws ==
  ASSUME Kinds, FilesHold, NEW U, Sealed(U), job # Idle, NEW t \in job.todo,
         job.kind \in {"snapshot", "restore"}, Taken(1), reuses' = reuses
  PROVE  /\ Draws(db, Last(Copied(t)), t, next)
         /\ \A u \in job.todo : u.parent # next
         /\ next \notin DOMAIN node /\ next \notin DOMAIN db.meta
         /\ Listed(Last(Copied(t)), next) = <<>>
<1> DEFINE e == Last(Copied(t))
<1>1. IInv /\ next \notin DOMAIN node /\ next \notin DOMAIN db.meta /\ next \in Ino
  BY CopiedAfter, OneTaken DEF Kinds
<1>2. e.meta = Put(db.meta, next, db.meta[t.src]) /\ e.dirent = Put(db.dirent, <<t.parent, t.name>>, next)
  BY <1>1, CopiedOutside
<1>3. \A u \in job.todo : /\ u = Task(u.src, u.parent, u.name) /\ u.src \in DOMAIN db.meta
                          /\ u.parent \in DOMAIN db.meta \cup {SnapshotDir}
  BY <1>1 DEF IInv, JobHolds, TaskHolds
<1>4. \A u \in job.todo : u.parent # next
  BY <1>1, <1>3, IdsAreNot2
<1>5. next \notin DOMAIN db.recipe
  BY <1>1 DEF FilesHold, Filed
<1>6. /\ \A j \in DOMAIN db.meta : Stored(e, j) = Stored(db, j)
      /\ Stored(e, next) = Stored(db, t.src)
  <2>1. CASE db.meta[t.src]
    <3>1. e.recipe = db.recipe
      BY <2>1 DEF Copied, Last, SaveInode, SaveDirent, Rows
    <3>2. t.src \notin DOMAIN db.recipe
      BY <2>1 DEF FilesHold, Filed
    <3> HIDE DEF e
    <3> QED BY <1>5, <3>1, <3>2 DEF Stored
  <2>2. CASE ~db.meta[t.src]
    <3>1. e.recipe = Put(db.recipe, next, Stored(db, t.src))
      BY <2>2 DEF Copied, Last, SaveInode, SaveDirent, SaveRecipe, Rows, Stored
    <3> HIDE DEF e
    <3> QED BY <1>1, <3>1 DEF Stored, Put
  <2> QED BY <2>1, <2>2
<1>7. Listed(e, next) = <<>>
  <2>1. DOMAIN Listed(e, next) = {}
    <3>1. Len(Copied(t)) \in 1..Len(Copied(t)) /\ e = Copied(t)[Len(Copied(t))]
      BY CopiedAfter DEF Last
    <3> QED BY <3>1, CopiedAfter DEF Cloned, Grown
  <2>2. Listed(e, next) = [n \in DOMAIN Listed(e, next) |-> Listed(e, next)[n]]
    BY DEF Listed
  <2> HIDE DEF e
  <2>3. Listed(e, next) = [n \in {} |-> Listed(e, next)[n]]
    BY <2>1, <2>2
  <2> QED BY <2>3
<1> HIDE DEF e
<1>8. Draws(db, e, t, next)
  BY <1>1, <1>2, <1>3, <1>4, <1>6 DEF Draws
<1> QED BY <1>1, <1>4, <1>7, <1>8 DEF e

-----------------------------------------------------------------------------
(* The clones of a snapshot.                                               *)

ListedIn(d, W) == [w \in W |-> Listed(d, w)]
SnapshotCopies(d, j, m, S) ==
  /\ Copying(d, j.ids, ListedIn(d, j.ids), j.todo, m, S) /\ Root \in S
  /\ j.root = Root \/ (j.root \in j.ids /\ m[j.root] = Root)
SnapshotCopied(d, j) == \E m, S : SnapshotCopies(d, j, m, S)

LEMMA CopiedSame ==
  ASSUME NEW d, NEW e, e.meta = d.meta, e.dirent = d.dirent, e.recipe = d.recipe
  PROVE  \A r : Tree(e, r) = Tree(d, r)
<1>1. \A i : Listed(e, i) = Listed(d, i) /\ Stored(e, i) = Stored(d, i)
  BY ListedSame DEF Stored
<1>2. RowsView(e) = RowsView(d)
  BY <1>1 DEF RowsView
<1> QED BY <1>2, TreeShown

LEMMA BeginCopies ==
  ASSUME IInv', job' # Idle, NEW s, NEW then, BeginSnapshot(s, then)
  PROVE  dirty' = <<>> /\ job'.kind = "snapshot" /\ job'.then = then /\ job'.name = s
         /\ SnapshotCopied(db', job')
<1>1. /\ job' = Cloning("snapshot", s, then, {Task(Root, SnapshotDir, s)}, {}, Root)
      /\ dirty' = <<>>
  BY DEF BeginSnapshot, Mount
<1>2. /\ job'.kind = "snapshot" /\ job'.then = then /\ job'.name = s /\ job'.ids = {}
      /\ job'.root = Root /\ job'.todo = {Task(Root, SnapshotDir, s)}
  BY <1>1 DEF Cloning
<1> DEFINE S == DOMAIN db'.meta
<1>3. RowsHold(db') /\ Root \in S
  BY DEF IInv, RowsHold
<1>4. \A i \in S : \A n \in DOMAIN Listed(db', i) : Listed(db', i)[n] \in S
  BY <1>3, ListedMap DEF IsMap
<1>5. \A t \in job'.todo : t.src \in S
  BY <1>2, <1>3 DEF Task
<1> HIDE DEF S
<1>6. Copying(db', {}, ListedIn(db', {}), job'.todo, <<>>, S)
  BY <1>4, <1>5 DEF Copying, S
<1> QED BY <1>1, <1>2, <1>3, <1>6 DEF SnapshotCopied, SnapshotCopies

LEMMA SnapshotGrows ==
  ASSUME Kinds, FilesHold, NEW U, Sealed(U), job # Idle, job.kind = "snapshot",
         SnapshotCopied(db, job), job' # Idle, NEW t \in job.todo, CloneNode(t), reuses' = reuses
  PROVE  /\ job'.kind = "snapshot" /\ job'.then = job.then /\ job'.name = job.name
         /\ SnapshotCopied(db', job')
<1> DEFINE e == Last(Copied(t))
           W == job.ids
           K == ListedIn(db, W)
           J == ListedIn(e, W \cup {next})
           left == LeftOf(job.todo, t, Listed(e, t.src), next)
           root == IF t.parent = SnapshotDir THEN next ELSE job.root
<1>1. /\ Taken(1) /\ db' = e
      /\ job' = Cloning("snapshot", job.name, job.then, left, W \cup {next}, root)
  BY DEF CloneNode, CutShort, Mount, LeftOf
<1>2. /\ job'.kind = "snapshot" /\ job'.then = job.then /\ job'.name = job.name
      /\ job'.todo = left /\ job'.ids = W \cup {next} /\ job'.root = root
  BY <1>1 DEF Cloning
<1>3. /\ Draws(db, e, t, next) /\ \A u \in job.todo : u.parent # next
      /\ next \notin DOMAIN db.meta /\ Listed(e, next) = <<>>
  BY <1>1, CloneDraws
<1>4. PICK m, S : SnapshotCopies(db, job, m, S)
  BY DEF SnapshotCopied
<1>5. Copying(db, W, K, job.todo, m, S) /\ Root \in S
  BY <1>4 DEF SnapshotCopies
<1>6. /\ W \subseteq DOMAIN db.meta /\ S \subseteq DOMAIN db.meta /\ S \cap W = {}
      /\ SnapshotDir \notin DOMAIN db.meta
  BY <1>5, IdsAreNot2 DEF Copying, Kinds, IInv, RowsHold, IsMap
<1>7. t.parent \in W \/ (t.parent = SnapshotDir /\ t.src = Root)
  BY DEF Sealed, SealedIn, JobApart
<1>8. t.parent \notin S
  BY <1>6, <1>7
<1>9. Extends(K, J, W, t, next)
  <2>1. J[next] = <<>> /\ DOMAIN J[next] = {}
    BY <1>3 DEF ListedIn
  <2>2. \A w \in W \ {t.parent} : J[w] = K[w]
    BY <1>3, DrawnListed DEF ListedIn
  <2>3. ASSUME t.parent \in W PROVE J[t.parent] = Put(K[t.parent], t.name, next)
    <3>1. t.name \in Name
      BY <1>5, <2>3 DEF Copying, Listed
    <3> QED BY <1>3, <2>3, <3>1, DrawnPut DEF ListedIn
  <2> HIDE DEF J, K, W, e
  <2> QED BY <2>1, <2>2, <2>3 DEF Extends
<1> HIDE DEF e, W, K, J, left, root
<1>10. Growing(db, e, W, K, J, job.todo, m, S, t, next)
  BY <1>3, <1>5, <1>8, <1>9 DEF Growing
<1>11. PICK k : Grew(e, W, J, job.todo, m, S, t, next, k)
  BY <1>10, CopyGrows
<1>12. /\ Copying(e, W \cup {next}, J, left, k, S)
       /\ k[next] = t.src /\ \A w \in W : k[w] = m[w]
  BY <1>11 DEF Grew, left
<1>13. root = Root \/ (root \in W \cup {next} /\ k[root] = Root)
  BY <1>4, <1>6, <1>7, <1>12 DEF SnapshotCopies, root, W
<1>14. SnapshotCopies(db', job', k, S)
  BY <1>1, <1>2, <1>5, <1>12, <1>13 DEF SnapshotCopies, J
<1> QED BY <1>2, <1>14 DEF SnapshotCopied

(* When nothing is left to clone, the clones show what the live rows show. *)
LEMMA SnapshotComplete ==
  ASSUME Kinds, NEW U, Sealed(U), job # Idle, job.kind = "snapshot", job.todo = {},
         SnapshotCopied(db, job)
  PROVE  Tree(db, job.root) = Tree(db, Root)
<1>1. PICK m, S : SnapshotCopies(db, job, m, S)
  BY DEF SnapshotCopied
<1>2. RootOf(db, job.ids, job.root) /\ Apart(db, job.ids)
  BY DEF Sealed, SealedIn, JobApart
<1>3. job.root \in job.ids /\ m[job.root] = Root
  BY <1>1, <1>2 DEF SnapshotCopies, RootOf, Apart
<1> DEFINE W == job.ids
           K == ListedIn(db, W)
           v == RowsView(db)
<1>4. Copying(db, W, K, {}, m, S)
  BY <1>1 DEF SnapshotCopies
<1>5. Viewing(v, db, W, K)
  <2>1. W \subseteq DOMAIN db.meta
    BY <1>4 DEF Copying
  <2> QED BY <2>1 DEF Viewing, RowsView, ListedIn
<1> HIDE DEF W, K, v
<1>6. \A w \in W : Shown(v, w) = Tree(db, m[w])
  BY <1>4, <1>5, CopyShown
<1>7. Shown(v, job.root) = Tree(db, Root)
  BY <1>3, <1>6 DEF W
<1> QED BY <1>7, TreeShown DEF v

-----------------------------------------------------------------------------
(* The clones of a restore, which are the tree in memory.                  *)

KidsOf(nd) == [w \in DOMAIN nd |-> nd[w].kids]
RestoreCopies(d, nd, j, fr, m, S) ==
  Copying(d, DOMAIN nd, KidsOf(nd), j.todo, m, S) /\ m[Root] = fr[j.name].root
RestoreCopied(d, nd, j, fr) == \E m, S : RestoreCopies(d, nd, j, fr, m, S)

(* Below the root, the rows list what the memory lists.                    *)
Mirrored(d, nd) == \A w \in DOMAIN nd \ {Root} : Listed(d, w) = nd[w].kids

LEMMA ClearCopies ==
  ASSUME Kinds, IInv', Filed(db'), NEW V, SealedIn(db', node', job', frozen', V),
         job' # Idle, job.kind = "clear", job # Idle, ClearLive \/ ClearFails
  PROVE  /\ dirty' = <<>> /\ job'.kind = "restore" /\ job'.name \in DOMAIN frozen'
         /\ RestoreCopied(db', node', job', frozen') /\ Mirrored(db', node')
<1>1. /\ Emptied
      /\ \E d : job' = CloneBack(d) /\ (db' = SaveInode(d, Root, TRUE) \/ db' = d)
  <2>1. CASE ClearLive
    BY <2>1 DEF ClearLive, Mount
  <2>2. CASE ClearFails
    BY <2>2 DEF ClearFails
  <2> QED BY <2>1, <2>2
<1>2. PICK d : job' = CloneBack(d) /\ db'.dirent = d.dirent
  <2>1. \A d : SaveInode(d, Root, TRUE).dirent = d.dirent
    BY DEF SaveInode, Rows
  <2>2. PICK d : job' = CloneBack(d) /\ (db' = SaveInode(d, Root, TRUE) \/ db' = d)
    BY <1>1
  <2>3. db'.dirent = d.dirent
    BY <2>1, <2>2
  <2> QED BY <2>2, <2>3
<1>3. /\ dirty' = <<>> /\ frozen' = frozen /\ node' = Put(<<>>, Root, Node(Root, TRUE, <<>>))
  BY <1>1 DEF Emptied
<1>4. DOMAIN node' = {Root} /\ node'[Root].kids = <<>> /\ DOMAIN node'[Root].kids = {}
  <2>1. DOMAIN node' = {Root} /\ node'[Root] = Node(Root, TRUE, <<>>)
    BY <1>3 DEF Put
  <2> QED BY <2>1 DEF Node
<1> DEFINE r == frozen[job.name].root
           L == Listed(db', r)
           m == [w \in {Root} |-> r]
<1>5. /\ job'.kind = "restore" /\ job'.name = job.name
      /\ job'.todo = {Task(L[n], Root, n) : n \in DOMAIN L}
  <2>1. Listed(d, r) = L
    BY <1>2, ListedSame
  <2>2. job'.kind = "restore" /\ job'.name = job.name
        /\ job'.todo = {Task(Listed(d, r)[n], Root, n) : n \in DOMAIN Listed(d, r)}
    BY <1>2 DEF CloneBack, Cloning
  <2> QED BY <2>1, <2>2
<1>6. job.name \in DOMAIN frozen
  BY DEF Kinds, JobNames
<1>7. Apart(db', V) /\ RootOf(db', V, r) /\ RowsHold(db')
  BY <1>3, <1>6 DEF SealedIn, Held, FrozenIn
<1>8. /\ V \subseteq DOMAIN db'.meta /\ Root \notin V /\ SnapshotDir \notin V
      /\ r \in V /\ db'.meta[r] = TRUE /\ Root \in DOMAIN db'.meta /\ db'.meta[Root] = TRUE
  BY <1>7, IdsAreNot2 DEF Apart, RootOf, RowsHold, IsMap
<1>9. \A s \in V : \A n \in DOMAIN Listed(db', s) : Listed(db', s)[n] \in V
  BY <1>7, <1>8, OutsideSame, ListedStays
<1>10. Stored(db', r) = NoContent /\ Stored(db', Root) = NoContent
  BY <1>8 DEF Filed, Stored
<1>11. Copying(db', {Root}, KidsOf(node'), job'.todo, m, V)
  <2>1. m[Root] = r /\ KidsOf(node')[Root] = <<>> /\ DOMAIN KidsOf(node')[Root] = {}
    BY <1>4 DEF KidsOf
  <2> HIDE DEF m, r
  <2>2. DrawnFrom(db', {Root}, KidsOf(node')[Root], job'.todo, m, V, Root)
    BY <1>5, <1>8, <1>10, <2>1 DEF DrawnFrom
  <2>3. ASSUME NEW t \in job'.todo
        PROVE  t.src \in V /\ t.name \in DOMAIN L /\ t.src = L[t.name]
    <3>1. PICK n \in DOMAIN L : t = Task(L[n], Root, n)
      BY <1>5
    <3> QED BY <1>8, <1>9, <3>1 DEF Task
  <2> HIDE DEF L
  <2> QED BY <1>8, <1>9, <2>1, <2>2, <2>3 DEF Copying, L
<1>12. RestoreCopied(db', node', job', frozen')
  <2>1. m[Root] = r /\ r = frozen'[job'.name].root
    BY <1>3, <1>5
  <2>2. \E k : Copying(db', {Root}, KidsOf(node'), job'.todo, k, V) /\ k[Root] = frozen'[job'.name].root
    <3> HIDE DEF m, r
    <3> QED BY <1>11, <2>1
  <2> QED BY <1>4, <2>2 DEF RestoreCopied, RestoreCopies
<1>13. Mirrored(db', node')
  BY <1>4 DEF Mirrored
<1> QED BY <1>3, <1>5, <1>6, <1>12, <1>13

LEMMA RestoreGrows ==
  ASSUME Kinds, FilesHold, NEW U, Sealed(U), job # Idle, job.kind = "restore",
         RestoreCopied(db, node, job, frozen), Mirrored(db, node),
         job' # Idle, NEW t \in job.todo, CloneNode(t), reuses' = reuses
  PROVE  /\ job'.kind = "restore" /\ job'.name = job.name
         /\ RestoreCopied(db', node', job', frozen') /\ Mirrored(db', node')
<1> DEFINE e == Last(Copied(t))
           W == DOMAIN node
           left == LeftOf(job.todo, t, Listed(e, t.src), next)
           clone == Node(next, db.meta[t.src], <<>>)
           p == t.parent
<1>1. /\ Taken(1) /\ db' = e /\ frozen' = frozen
      /\ job'.kind = "restore" /\ job'.name = job.name /\ job'.todo = left
      /\ node' = Attach(Put(node, next, clone), p, t.name, next)
  <2>1. /\ Taken(1) /\ db' = e /\ frozen' = frozen
        /\ job' = Cloning("restore", job.name, job.then, left, job.ids \cup {next},
                          IF t.parent = SnapshotDir THEN next ELSE job.root)
        /\ node' = Attach(Put(node, next, clone), p, t.name, next)
    BY DEF CloneNode, CutShort, Mount, LeftOf
  <2> QED BY <2>1 DEF Cloning
<1>2. /\ Draws(db, e, t, next) /\ \A u \in job.todo : u.parent # next
      /\ next \notin DOMAIN node /\ next \notin DOMAIN db.meta /\ Listed(e, next) = <<>>
  BY <1>1, CloneDraws
<1>3. /\ IInv /\ p \in W /\ t.name \in Name /\ Root \in W
  BY DEF Kinds, IInv, JobHolds, TaskHolds, MemoryHolds
<1>4. /\ DOMAIN node' = W \cup {next} /\ node'[next].kids = <<>>
      /\ node'[p].kids = Put(node[p].kids, t.name, next)
      /\ \A w \in W \ {p} : node'[w] = node[w]
  <2> DEFINE nd == Put(node, next, clone)
  <2>1. /\ DOMAIN nd = W \cup {next} /\ nd[next] = clone /\ p # next
        /\ \A w \in W : nd[w] = node[w]
    BY <1>2, <1>3 DEF Put
  <2>2. node' = Put(nd, p, Node(nd[p].ino, nd[p].dir, Put(nd[p].kids, t.name, next)))
    BY <1>1 DEF Attach, WithKids
  <2> HIDE DEF nd
  <2>3. /\ DOMAIN node' = W \cup {next} /\ node'[next] = clone
        /\ node'[p] = Node(nd[p].ino, nd[p].dir, Put(nd[p].kids, t.name, next))
        /\ \A w \in W \ {p} : node'[w] = node[w]
    BY <1>2, <1>3, <2>1, <2>2 DEF Put
  <2>4. clone.kids = <<>> /\ node'[p].kids = Put(nd[p].kids, t.name, next)
    BY <2>3 DEF Node
  <2> HIDE DEF clone
  <2> QED BY <1>3, <2>1, <2>3, <2>4
<1>5. PICK m, S : RestoreCopies(db, node, job, frozen, m, S)
  BY DEF RestoreCopied
<1>6. /\ Copying(db, W, KidsOf(node), job.todo, m, S) /\ m[Root] = frozen[job.name].root
      /\ p \notin S
  <2>1. Copying(db, W, KidsOf(node), job.todo, m, S) /\ m[Root] = frozen[job.name].root
    BY <1>5 DEF RestoreCopies
  <2> QED BY <1>3, <2>1 DEF Copying
<1>7. Extends(KidsOf(node), KidsOf(node'), W, t, next)
  <2>1. DOMAIN node'[next].kids = {}
    BY <1>4
  <2> QED BY <1>3, <1>4, <2>1 DEF Extends, KidsOf
<1> HIDE DEF e, W, left, clone
<1>8. Growing(db, e, W, KidsOf(node), KidsOf(node'), job.todo, m, S, t, next)
  BY <1>2, <1>6, <1>7 DEF Growing
<1>9. PICK k : Grew(e, W, KidsOf(node'), job.todo, m, S, t, next, k)
  BY <1>8, CopyGrows
<1>10. RestoreCopies(db', node', job', frozen', k, S)
  BY <1>1, <1>3, <1>4, <1>6, <1>9 DEF Grew, RestoreCopies, left
<1>11. Mirrored(db', node')
  <2> SUFFICES ASSUME NEW w \in DOMAIN node' \ {Root} PROVE Listed(e, w) = node'[w].kids
    BY <1>1 DEF Mirrored
  <2>1. CASE w = next
    BY <1>2, <1>4, <2>1
  <2>2. CASE w = p
    <3>1. Listed(e, p) = Put(Listed(db, p), t.name, next)
      BY <1>2, <1>3, DrawnPut
    <3>2. Listed(db, p) = node[p].kids
      BY <1>3, <2>2 DEF Mirrored, W
    <3> QED BY <1>4, <2>2, <3>1, <3>2
  <2>3. CASE w \in W \ {p}
    <3>1. Listed(e, w) = Listed(db, w)
      BY <1>2, <2>3, DrawnListed
    <3> QED BY <1>4, <2>3, <3>1 DEF Mirrored, W
  <2> QED BY <1>4, <2>1, <2>2, <2>3
<1> QED BY <1>1, <1>10, <1>11 DEF RestoreCopied

LEMMA RestoreShown ==
  ASSUME Kinds, dirty = <<>>, job # Idle, job.kind = "restore", job.todo = {},
         RestoreCopied(db, node, job, frozen)
  PROVE  LiveTree = Tree(db, frozen[job.name].root)
<1>1. PICK m, S : RestoreCopies(db, node, job, frozen, m, S)
  BY DEF RestoreCopied
<1> DEFINE v == MemoryView(db, node, dirty)
<1>2. Copying(db, DOMAIN node, KidsOf(node), {}, m, S) /\ m[Root] = frozen[job.name].root
  BY <1>1 DEF RestoreCopies
<1>3. /\ DOMAIN node \subseteq DOMAIN db.meta /\ Root \in DOMAIN node
      /\ \A i \in DOMAIN node : /\ node[i].ino = i /\ node[i].dir = db.meta[i]
                                /\ \A n \in DOMAIN node[i].kids : node[i].kids[n] \in DOMAIN node
  <2>1. DOMAIN node \subseteq DOMAIN db.meta
    BY <1>2 DEF Copying
  <2>2. \A i \in DOMAIN node : node[i].ino = i /\ node[i].dir = db.meta[i]
    BY <2>1 DEF Kinds, JobKinds, MemoryKinds
  <2>3. MemoryHolds(db, node, top, next)
    BY DEF Kinds, IInv
  <2> QED BY <2>1, <2>2, <2>3 DEF MemoryHolds, NodeHolds, IsMap
<1>4. Viewing(v, db, DOMAIN node, KidsOf(node))
  <2> SUFFICES ASSUME NEW w \in DOMAIN node
               PROVE  /\ w \in DOMAIN v /\ v[w].dir = db.meta[w] /\ v[w].data = Stored(db, w)
                      /\ DOMAIN v[w].kids = DOMAIN node[w].kids
                      /\ \A n \in DOMAIN node[w].kids : v[w].kids[n] = node[w].kids[n]
    BY DEF Viewing, KidsOf
  <2>1. DOMAIN dirty = {}
    OBVIOUS
  <2>2. /\ w \in DOMAIN v /\ v[w].dir = node[w].dir
        /\ v[w].data = IF w \in DOMAIN dirty THEN dirty[w] ELSE Stored(db, w)
        /\ v[w].kids = [n \in DOMAIN node[w].kids |-> node[node[w].kids[n]].ino]
    BY DEF MemoryView
  <2> HIDE DEF v
  <2> QED BY <1>3, <2>1, <2>2
<1> HIDE DEF v
<1>5. Shown(v, Root) = Tree(db, frozen[job.name].root)
  BY <1>2, <1>3, <1>4, CopyShown
<1> QED BY <1>5, LiveIs, LiveShown DEF v

LEMMA RestoreStored ==
  ASSUME Kinds, job # Idle, job.kind = "restore", job.todo = {},
         RestoreCopied(db, node, job, frozen), Mirrored(db, node), Differing = {}
  PROVE  Tree(db, Root) = Tree(db, frozen[job.name].root)
<1>1. PICK m, S : RestoreCopies(db, node, job, frozen, m, S)
  BY DEF RestoreCopied
<1> DEFINE v == RowsView(db)
<1>2. Copying(db, DOMAIN node, KidsOf(node), {}, m, S) /\ m[Root] = frozen[job.name].root
  BY <1>1 DEF RestoreCopies
<1>3. /\ DOMAIN node \subseteq DOMAIN db.meta /\ Root \in DOMAIN node
      /\ DOMAIN node[Root].kids \subseteq Name
      /\ \A n \in DOMAIN node[Root].kids : node[node[Root].kids[n]].ino = node[Root].kids[n]
  <2>1. DOMAIN node \subseteq DOMAIN db.meta
    BY <1>2 DEF Copying
  <2>2. \A i \in DOMAIN node : node[i].ino = i
    BY DEF Kinds, JobKinds
  <2>3. MemoryHolds(db, node, top, next)
    BY DEF Kinds, IInv
  <2> QED BY <2>1, <2>2, <2>3 DEF MemoryHolds, NodeHolds, IsMap
<1> DEFINE L == Listed(db, Root)
           K == node[Root].kids
<1>4. \A x \in Name : Agree(L, node, Root, x)
  <2> SUFFICES ASSUME NEW x \in Name PROVE Agree(L, node, Root, x)
    OBVIOUS
  <2> DEFINE y == <<Root, x>>
  <2>1. y \in Dirs \X Name /\ y[1] = Root /\ y[2] = x
    BY DEF Dirs
  <2>2. y \notin {e \in Dirs \X Name : ~Agree(Listed(db, e[1]), node, e[1], e[2])}
    BY DifferingAre
  <2> HIDE DEF y
  <2> QED BY <2>1, <2>2
<1>5. DOMAIN L = DOMAIN K /\ \A n \in DOMAIN K : L[n] = K[n]
  <2>1. DOMAIN L \subseteq Name
    BY DEF Listed
  <2> HIDE DEF L
  <2>2. \A x \in Name : /\ x \in DOMAIN L <=> x \in DOMAIN K
                        /\ x \in DOMAIN L => L[x] \in {node[K[x]].ino, K[x]}
    BY <1>4 DEF Agree
  <2> HIDE DEF K
  <2> QED BY <1>3, <2>1, <2>2 DEF K
<1>6. Viewing(v, db, DOMAIN node, KidsOf(node))
  <2> SUFFICES ASSUME NEW w \in DOMAIN node
               PROVE  /\ w \in DOMAIN v /\ v[w].dir = db.meta[w] /\ v[w].data = Stored(db, w)
                      /\ DOMAIN v[w].kids = DOMAIN node[w].kids
                      /\ \A n \in DOMAIN node[w].kids : v[w].kids[n] = node[w].kids[n]
    BY DEF Viewing, KidsOf
  <2>1. /\ w \in DOMAIN v /\ v[w].dir = db.meta[w] /\ v[w].data = Stored(db, w)
        /\ v[w].kids = Listed(db, w)
    BY <1>3 DEF RowsView
  <2> HIDE DEF v
  <2>2. CASE w = Root
    BY <1>5, <2>1, <2>2
  <2>3. CASE w # Root
    BY <2>1, <2>3 DEF Mirrored
  <2> QED BY <2>2, <2>3
<1> HIDE DEF v
<1>7. Shown(v, Root) = Tree(db, frozen[job.name].root)
  BY <1>2, <1>3, <1>6, CopyShown
<1> QED BY <1>7, TreeShown DEF v

-----------------------------------------------------------------------------
(* Copies as an invariant.                                                 *)

BackedUp(d) == \E b \in DOMAIN d.snap \cap BackupName : Tree(d, d.snap[b]) = Tree(d, Root)

CopiesIn(d, nd, j, fr, di) ==
  j # Idle =>
    /\ di = <<>>
    /\ j.kind = "snapshot" => SnapshotCopied(d, j) /\ (j.then # {} => j.name \in BackupName)
    /\ j.kind = "clear" => BackedUp(d)
    /\ j.kind = "restore" => j.name \in DOMAIN fr /\ RestoreCopied(d, nd, j, fr) /\ Mirrored(d, nd)

FInv ==
  SInv /\ (reuses = 0 => FilesHold /\ CopiesIn(db, node, job, frozen, dirty))

LEMMA FinishCopies ==
  ASSUME Kinds, NEW U, Sealed(U), CopiesIn(db, node, job, frozen, dirty),
         FinishSnapshot \/ FinishFails
  PROVE  /\ dirty = <<>> /\ Tree(db', job.root) = Tree(db, Root)
         /\ \A r : Tree(db', r) = Tree(db, r)
<1>1. job.kind = "snapshot" /\ job.todo = {} /\ job # Idle
  BY DEF FinishSnapshot, FinishFails, Idle
<1>2. dirty = <<>> /\ SnapshotCopied(db, job)
  BY <1>1 DEF CopiesIn
<1>3. db' = db \/ db' = SaveSnapshot(db, job.name, job.root)
  BY DEF FinishSnapshot, FinishFails
<1>4. db'.meta = db.meta /\ db'.dirent = db.dirent /\ db'.recipe = db.recipe
  <2>1. LET e == SaveSnapshot(db, job.name, job.root)
        IN e.meta = db.meta /\ e.dirent = db.dirent /\ e.recipe = db.recipe
    BY DEF SaveSnapshot, Rows
  <2> QED BY <1>3, <2>1
<1>5. \A r : Tree(db', r) = Tree(db, r)
  BY <1>4, CopiedSame
<1> QED BY <1>1, <1>2, <1>5, SnapshotComplete

LEMMA CopiesStep ==
  ASSUME FInv, FaultNext, reuses' = 0
  PROVE  FilesHold' /\ CopiesIn(db', node', job', frozen', dirty')
<1>1. PICK U : Sealed(U)
  BY StepSeals DEF FInv
<1>2. KInv /\ reuses = 0 /\ reuses' = reuses /\ Kinds /\ FilesHold /\ IInv'
  BY ReusesGrow, FaultHolds DEF FInv, SInv, KInv
<1>3. Tends
  BY <1>2, NextTends, FailsTend DEF FaultNext, NoError
<1>4. FilesHold' /\ Filed(db')
  BY <1>3 DEF Tends, FilesHold
<1>5. CopiesIn(db, node, job, frozen, dirty)
  BY <1>2 DEF FInv
<1> DEFINE Done == CopiesIn(db', node', job', frozen', dirty')
<1>6. ASSUME job' # Idle PROVE Done
  <2>1. Goes
    BY <1>6, Answered
  <2>2. ASSUME NEW s, NEW then, BeginSnapshot(s, then), then # {} => s \in BackupName PROVE Done
    <3>1. /\ dirty' = <<>> /\ job'.kind = "snapshot" /\ SnapshotCopied(db', job')
          /\ job'.then = then /\ job'.name = s
      BY <1>2, <1>6, <2>2, BeginCopies
    <3> QED BY <2>2, <3>1 DEF CopiesIn
  <2>3. ASSUME job # Idle, NEW t \in job.todo, CloneNode(t) PROVE Done
    <3>1. dirty' = <<>> /\ frozen' = frozen /\ job.kind \in {"snapshot", "restore"}
      BY <1>5, <1>6, <2>3 DEF CopiesIn, CloneNode, CutShort, Mount
    <3>2. CASE job.kind = "snapshot"
      <4>1. SnapshotCopied(db, job) /\ (job.then # {} => job.name \in BackupName)
        BY <1>5, <2>3, <3>2 DEF CopiesIn
      <4>2. /\ job'.kind = "snapshot" /\ job'.then = job.then /\ job'.name = job.name
            /\ SnapshotCopied(db', job')
        BY <1>1, <1>2, <1>6, <2>3, <3>2, <4>1, SnapshotGrows
      <4> QED BY <3>1, <4>1, <4>2 DEF CopiesIn
    <3>3. CASE job.kind = "restore"
      <4>1. /\ RestoreCopied(db, node, job, frozen) /\ Mirrored(db, node)
            /\ job.name \in DOMAIN frozen
        BY <1>5, <2>3, <3>3 DEF CopiesIn
      <4>2. /\ job'.kind = "restore" /\ job'.name = job.name
            /\ RestoreCopied(db', node', job', frozen') /\ Mirrored(db', node')
        BY <1>1, <1>2, <1>6, <2>3, <3>3, <4>1, RestoreGrows
      <4> QED BY <3>1, <4>1, <4>2 DEF CopiesIn
    <3> QED BY <3>1, <3>2, <3>3
  <2>4. ASSUME FinishSnapshot PROVE Done
    <3>1. /\ dirty = <<>> /\ Tree(db', job.root) = Tree(db, Root)
          /\ \A r : Tree(db', r) = Tree(db, r)
      BY <1>1, <1>2, <1>5, <2>4, FinishCopies
    <3>2. /\ job.kind = "snapshot" /\ job # Idle /\ job.then # {} /\ job'.kind = "clear"
          /\ db'.snap = Put(db.snap, job.name, job.root) /\ dirty' = dirty
      <4>1. /\ job.kind = "snapshot" /\ job.then # {} /\ dirty' = dirty
            /\ db' = SaveSnapshot(db, job.name, job.root)
            /\ job' = Cloning("clear", CHOOSE s \in job.then : TRUE, {}, {}, {}, Root)
        BY <1>6, <2>4 DEF FinishSnapshot
      <4> QED BY <4>1 DEF SaveSnapshot, Rows, Cloning, Idle
    <3>3. job.name \in BackupName
      BY <1>5, <3>2 DEF CopiesIn
    <3>4. job.name \in DOMAIN db'.snap /\ db'.snap[job.name] = job.root
      BY <3>2 DEF Put
    <3>5. BackedUp(db')
      BY <3>1, <3>3, <3>4 DEF BackedUp
    <3> QED BY <3>1, <3>2, <3>5 DEF CopiesIn
  <2>5. ASSUME ClearLive \/ ClearFails PROVE Done
    <3>1. job.kind = "clear"
      BY <2>5 DEF ClearLive, ClearFails
    <3>0. job # Idle
      BY <3>1 DEF Idle
    <3>2. PICK V : SealedIn(db', node', job', frozen', V)
      BY StepSeals DEF FInv, Seals
    <3>3. /\ dirty' = <<>> /\ job'.kind = "restore" /\ job'.name \in DOMAIN frozen'
          /\ RestoreCopied(db', node', job', frozen') /\ Mirrored(db', node')
      BY <1>2, <1>4, <1>6, <2>5, <3>0, <3>1, <3>2, ClearCopies
    <3> QED BY <3>3 DEF CopiesIn
  <2> QED BY <2>1, <2>2, <2>3, <2>4, <2>5 DEF Goes
<1>7. job' = Idle => Done
  BY DEF CopiesIn
<1> QED BY <1>4, <1>6, <1>7

LEMMA CopiesInit == FaultInit => FInv
<1> SUFFICES ASSUME FaultInit PROVE FInv
  OBVIOUS
<1>1. SInv
  BY SealedInit
<1>2. job = Idle /\ dirty = <<>> /\ db = SaveInode(Empty, Root, TRUE)
  BY DEF FaultInit, Init
<1>3. db.recipe = <<>>
  BY <1>2 DEF SaveInode, Empty, Rows
<1>4. DOMAIN db.recipe = {} /\ DOMAIN dirty = {}
  <2>1. DOMAIN db.recipe = {}
    BY <1>3
  <2>2. DOMAIN dirty = {}
    BY <1>2
  <2> QED BY <2>1, <2>2
<1>5. FilesHold
  BY <1>4 DEF FilesHold, Filed, FilesDirty
<1> QED BY <1>1, <1>2, <1>5 DEF FInv, CopiesIn

LEMMA FaithStep == ASSUME FInv, FaultNext PROVE FInv'
<1>1. SInv'
  BY SealedStep DEF FInv
<1>2. ASSUME reuses' = 0 PROVE FilesHold' /\ CopiesIn(db', node', job', frozen', dirty')
  BY <1>2, CopiesStep
<1> QED BY <1>1, <1>2 DEF FInv

LEMMA FaithStutter == ASSUME FInv, UNCHANGED faultVars PROVE FInv'
<1>1. SInv'
  BY SealedStutter DEF FInv
<1>2. /\ db' = db /\ node' = node /\ job' = job /\ frozen' = frozen /\ dirty' = dirty
      /\ reuses' = reuses
  BY DEF faultVars, vars
<1>3. ASSUME FilesHold PROVE FilesHold'
  BY <1>2, <1>3 DEF FilesHold
<1> QED BY <1>1, <1>2, <1>3 DEF FInv

(* What a step does to the snapshots that appear, and at the end of a restore. *)
NewShowLive ==
  reuses' = 0 =>
    \A s \in DOMAIN db'.snap \ DOMAIN db.snap :
      LET shown == Tree(db', db'.snap[s])
      IN dirty = <<>> /\ shown = Tree(db, Root) /\ ShowsLive(shown)

LEMMA StepShows == ASSUME FInv, FaultNext PROVE NewShowLive
<1> SUFFICES ASSUME reuses' = 0, NEW s \in DOMAIN db'.snap \ DOMAIN db.snap
             PROVE  /\ dirty = <<>> /\ Tree(db', db'.snap[s]) = Tree(db, Root)
                    /\ ShowsLive(Tree(db, Root))
  BY DEF NewShowLive
<1>1. PICK U : Sealed(U) /\ Seals(U)
  BY StepSeals DEF FInv
<1>2. KInv /\ reuses = 0 /\ Kinds
  BY ReusesGrow DEF FInv, SInv, KInv
<1>3. FinishSnapshot \/ FinishFails
  BY <1>1 DEF Seals, SnapsStay
<1>4. CopiesIn(db, node, job, frozen, dirty)
  BY <1>2 DEF FInv
<1>5. dirty = <<>> /\ Tree(db', job.root) = Tree(db, Root)
  BY <1>1, <1>2, <1>3, <1>4, FinishCopies
<1>6. db' = SaveSnapshot(db, job.name, job.root)
  BY <1>3 DEF FinishSnapshot, FinishFails
<1>7. db'.snap = Put(db.snap, job.name, job.root)
  BY <1>6 DEF SaveSnapshot, Rows
<1>8. s = job.name /\ db'.snap[s] = job.root
  BY <1>7 DEF Put
<1>9. ShowsLive(Tree(db, Root))
  BY <1>2, <1>5, RowsShowLive DEF KInv
<1> QED BY <1>5, <1>8, <1>9

EndShowsSnapshot ==
  reuses = 0 /\ FinishRestore =>
    LET shown == Tree(db, frozen[job.name].root)
    IN LiveTree' = shown /\ (torn' = {} => Tree(db', Root) = shown)

LEMMA StepEnds == ASSUME FInv, FaultNext PROVE EndShowsSnapshot
<1> SUFFICES ASSUME reuses = 0, FinishRestore
             PROVE  /\ LiveTree' = Tree(db, frozen[job.name].root)
                    /\ torn' = {} => Tree(db', Root) = Tree(db, frozen[job.name].root)
  BY DEF EndShowsSnapshot
<1>1. KInv /\ Kinds /\ CopiesIn(db, node, job, frozen, dirty) /\ KInv'
  BY EntriesStep DEF FInv, SInv, KInv
<1>2. job.kind = "restore" /\ job.todo = {} /\ UNCHANGED <<db, node, dirty, reuses>>
  BY DEF FinishRestore
<1>3. job # Idle
  BY <1>2 DEF Idle
<1>4. /\ dirty = <<>> /\ RestoreCopied(db, node, job, frozen) /\ Mirrored(db, node)
  BY <1>1, <1>2, <1>3 DEF CopiesIn
<1>5. LiveTree = Tree(db, frozen[job.name].root)
  BY <1>1, <1>2, <1>3, <1>4, RestoreShown
<1>6. LiveTree' = LiveTree
  BY <1>2, LiveIs
<1>7. ASSUME torn' = {} PROVE Tree(db', Root) = Tree(db, frozen[job.name].root)
  <2>1. Differing' = {}
    BY <1>1, <1>2, <1>7 DEF KInv
  <2>2. Differing' = Differing
    BY <1>2 DEF Differing, Dirs, Names, Child
  <2>3. Tree(db, Root) = Tree(db, frozen[job.name].root)
    BY <1>1, <1>2, <1>3, <1>4, <2>1, <2>2, RestoreStored
  <2> QED BY <1>2, <2>3
<1> QED BY <1>5, <1>6, <1>7

(* A snapshot that appears shows what clients see at that moment, but for  *)
(* entries an error left apart and what is in shadowed directories, and no *)
(* buffer holds anything it misses: every flush before the clone was       *)
(* complete, the clone copied every node once with its kind, contents and  *)
(* names, nothing wrote to the live rows meanwhile, and where no request   *)
(* failed the rows are what clients see.                                   *)
THEOREM SnapshotsAreFaithful == FaultSpec => SnapshotFaithful
<1>1. FaultInit => FInv
  BY CopiesInit
<1>2. FInv /\ [FaultNext]_faultVars => FInv'
  BY FaithStep, FaithStutter
<1>3. FInv /\ [FaultNext]_faultVars =>
        [ reuses' = 0 =>
            \A s \in DOMAIN db'.snap \ DOMAIN db.snap :
              LET shown == Tree(db', db'.snap[s])
              IN dirty = <<>> /\ shown = Tree(db, Root) /\ ShowsLive(shown) ]_faultVars
  BY StepShows DEF NewShowLive
<1> QED BY <1>1, <1>2, <1>3, PTL DEF FaultSpec, SnapshotFaithful

(* Whenever a restore is about to take the live tree apart, a backup with  *)
(* a row shows what clients see of it, with the same exceptions.           *)
THEOREM BackupIsTaken == FaultSpec => []BackupTaken
<1>1. FaultInit => FInv
  BY CopiesInit
<1>2. FInv /\ [FaultNext]_faultVars => FInv'
  BY FaithStep, FaithStutter
<1>3. FInv => BackupTaken
  <2> SUFFICES ASSUME FInv, job.kind = "clear", reuses = 0
               PROVE  \E b \in DOMAIN db.snap \cap BackupName :
                        Tree(db, db.snap[b]) = Tree(db, Root) /\ ShowsLive(Tree(db, db.snap[b]))
    BY DEF BackupTaken
  <2>1. job # Idle
    BY DEF Idle
  <2>2. dirty = <<>> /\ BackedUp(db)
    BY <2>1 DEF FInv, CopiesIn
  <2>3. ShowsLive(Tree(db, Root))
    BY <2>2, RowsShowLive DEF FInv, SInv, KInv
  <2> QED BY <2>2, <2>3 DEF BackedUp
<1> QED BY <1>1, <1>2, <1>3, PTL DEF FaultSpec

(* A restore that completes leaves the live tree showing the snapshot, to  *)
(* clients and, where no failed request left an entry behind, on disk.     *)
THEOREM RestoresAreFaithful == FaultSpec => RestoreFaithful
<1>1. FaultInit => FInv
  BY CopiesInit
<1>2. FInv /\ [FaultNext]_faultVars => FInv'
  BY FaithStep, FaithStutter
<1>3. FInv /\ [FaultNext]_faultVars =>
        [ reuses = 0 /\ FinishRestore =>
            LET shown == Tree(db, frozen[job.name].root)
            IN LiveTree' = shown /\ (torn' = {} => Tree(db', Root) = shown) ]_faultVars
  BY StepEnds DEF EndShowsSnapshot
<1> QED BY <1>1, <1>2, <1>3, PTL DEF FaultSpec, RestoreFaithful
-----------------------------------------------------------------------------
(* SnapshotStore.  What is listed, what is stored and what is restored, of *)
(* the rows d, the snapshots fr in memory and the request j.               *)

Listing(d, fr) == [s \in DOMAIN fr |-> Tree(d, fr[s].root)]
Storing(d) == [s \in DOMAIN d.snap |-> Tree(d, d.snap[s])]
Restoring(j) == IF j.kind \in {"clear", "restore"} THEN {j.name} ELSE {}

WInv == FInv /\ (faults = 0 => torn = {})

(* A step that neither takes nor removes a snapshot nor ends a restore,    *)
(* and one after which the store is mounted.                               *)
Quiet == frozen' = frozen /\ Restoring(job') = Restoring(job)
Remounted == \E d : Mount(d)

LEMMA NextSorts ==
  ASSUME Next
  PROVE  \/ Quiet \/ Remounted \/ FinishSnapshot \/ FinishRestore
         \/ \E s : RemoveSnapshot(s)
<1> DEFINE Sorted == Quiet \/ Remounted
<1>1. ASSUME NEW trees, CutShort(trees) PROVE Sorted
  BY <1>1 DEF CutShort, Remounted
<1>2. ASSUME job' = job, frozen' = frozen PROVE Sorted
  BY <1>2 DEF Quiet
<1> HIDE DEF Sorted
<1>3. ASSUME MakeStep(DirName) PROVE Sorted
  <2>1. ASSUME NEW p, NEW n, Create(p, n) PROVE Sorted
    BY <1>1, <1>2, <2>1 DEF Create
  <2>2. ASSUME NEW n, Mkdir(n) PROVE Sorted
    BY <1>1, <1>2, <2>2 DEF Mkdir
  <2> QED BY <1>3, <2>1, <2>2 DEF MakeStep
<1>4. ASSUME MoveStep(DirName) PROVE Sorted
  <2>1. ASSUME NEW p, NEW n, Unlink(p, n) PROVE Sorted
    BY <1>2, <2>1 DEF Unlink
  <2>2. ASSUME NEW p, NEW n, NEW q, NEW m, Rename(p, n, q, m) PROVE Sorted
    BY <1>1, <1>2, <2>2 DEF Rename
  <2> QED BY <1>4, <2>1, <2>2 DEF MoveStep
<1>5. ASSUME WriteStep PROVE Sorted
  <2>1. ASSUME NEW i, NEW c, Write(i, c) PROVE Sorted
    BY <1>2, <2>1 DEF Write
  <2>2. ASSUME NEW i, Flush(i) PROVE Sorted
    BY <1>1, <1>2, <2>2 DEF Flush
  <2> QED BY <1>5, <2>1, <2>2 DEF WriteStep
<1>6. ASSUME NEW s, NEW then, BeginSnapshot(s, then) PROVE Sorted
  <2>1. CASE Remounted
    BY <2>1 DEF Sorted
  <2>2. CASE ~Remounted
    <3>1. /\ job = Idle /\ frozen' = frozen
          /\ job' = Cloning("snapshot", s, then, {Task(Root, SnapshotDir, s)}, {}, Root)
      BY <1>6, <2>2 DEF BeginSnapshot, Remounted
    <3>2. job.kind = "idle" /\ job'.kind = "snapshot"
      BY <3>1 DEF Idle, Cloning
    <3> QED BY <3>1, <3>2 DEF Sorted, Quiet, Restoring
  <2> QED BY <2>1, <2>2
<1>7. ASSUME SnapshotStep PROVE Sorted \/ \E s : RemoveSnapshot(s)
  BY <1>6, <1>7 DEF SnapshotStep, TakeSnapshot, Restore
<1>8. ASSUME NEW t, CloneNode(t) PROVE Sorted
  <2>1. CASE CutShort(Copied(t))
    BY <1>1, <2>1
  <2>2. CASE ~CutShort(Copied(t))
    <3>1. frozen' = frozen /\ job'.kind = job.kind /\ job'.name = job.name
      BY <1>8, <2>2 DEF CloneNode, Cloning
    <3> QED BY <3>1 DEF Sorted, Quiet, Restoring
  <2> QED BY <2>1, <2>2
<1>9. ASSUME ClearLive PROVE Sorted
  <2>1. CASE Remounted
    BY <2>1 DEF Sorted
  <2>2. CASE ~Remounted
    <3>1. /\ job.kind = "clear" /\ frozen' = frozen
          /\ job' = CloneBack(Cleared(DOMAIN Listed(db, Root)))
      BY <1>9, <2>2 DEF ClearLive, Remounted, Emptied
    <3>2. job'.kind = "restore" /\ job'.name = job.name
      BY <3>1 DEF CloneBack, Cloning
    <3> QED BY <3>1, <3>2 DEF Sorted, Quiet, Restoring
  <2> QED BY <2>1, <2>2
<1>10. ASSUME Crash PROVE Sorted
  BY <1>10 DEF Crash, Sorted, Remounted
<1>11. Sorted \/ FinishSnapshot \/ FinishRestore \/ \E s : RemoveSnapshot(s)
  BY <1>3, <1>4, <1>5, <1>7, <1>8, <1>9, <1>10 DEF Next, CloneStep
<1> QED BY <1>11 DEF Sorted

LEMMA FailsSort ==
  ASSUME RequestFails \/ SnapshotFails
  PROVE  /\ faults' = faults + 1
         /\ \/ FinishFails \/ \E s : RemoveFails(s)
            \/ frozen' = frozen /\ Restoring(job') \in {Restoring(job), {}}
<1> DEFINE Sorted == frozen' = frozen /\ Restoring(job') \in {Restoring(job), {}}
<1>1. ASSUME job' = job \/ job' = Idle, frozen' = frozen PROVE Sorted
  <2>1. Restoring(Idle) = {}
    BY DEF Restoring, Idle
  <2> QED BY <1>1, <2>1
<1> HIDE DEF Sorted
<1>2. ASSUME RequestFails PROVE Sorted /\ faults' = faults + 1
  <2>1. ASSUME NEW p, NEW n, CreateFails(p, n) \/ UnlinkFails(p, n)
        PROVE  Sorted /\ faults' = faults + 1
    BY <1>1, <2>1 DEF CreateFails, UnlinkFails, Fails
  <2>2. ASSUME NEW n, MkdirFails(n) PROVE Sorted /\ faults' = faults + 1
    BY <1>1, <2>2 DEF MkdirFails, Fails
  <2>3. ASSUME NEW p, NEW n, NEW q, NEW m, RenameFails(p, n, q, m)
        PROVE  Sorted /\ faults' = faults + 1
    BY <1>1, <2>3 DEF RenameFails, Fails
  <2> QED BY <1>2, <2>1, <2>2, <2>3 DEF RequestFails
<1>3. ASSUME NEW t, CloneFails(t) PROVE Sorted /\ faults' = faults + 1
  BY <1>1, <1>3 DEF CloneFails, Fails
<1>4. ASSUME ClearFails PROVE Sorted /\ faults' = faults + 1
  <2>1. /\ job.kind = "clear" /\ frozen' = frozen /\ faults' = faults + 1
        /\ job' = Idle \/ \E d : job' = CloneBack(d)
    BY <1>4 DEF ClearFails, Emptied, Fails
  <2>2. ASSUME NEW d, job' = CloneBack(d) PROVE Sorted
    <3>1. job'.kind = "restore" /\ job'.name = job.name
      BY <2>2 DEF CloneBack, Cloning
    <3> QED BY <2>1, <3>1 DEF Sorted, Restoring
  <2> QED BY <1>1, <2>1, <2>2
<1>5. ASSUME FinishFails \/ \E s : RemoveFails(s) PROVE faults' = faults + 1
  BY <1>5 DEF FinishFails, RemoveFails, Fails
<1> QED BY <1>2, <1>3, <1>4, <1>5 DEF SnapshotFails, Sorted

(* What snapshots in memory and in the rows show is kept by every step. *)
TreesKept ==
  /\ frozen' = frozen => Listing(db', frozen') = Listing(db, frozen)
  /\ db'.snap = db.snap => Storing(db') = Storing(db)
  /\ \A s \in DOMAIN frozen : Tree(db', frozen[s].root) = Tree(db, frozen[s].root)
  /\ \A s \in DOMAIN db.snap : Tree(db', db.snap[s]) = Tree(db, db.snap[s])

LEMMA StepKeepsAll == ASSUME NEW U, Sealed(U), Seals(U), IInv PROVE TreesKept
<1>1. Held(db, U) /\ FrozenIn(db, frozen, U)
  BY DEF Sealed, SealedIn
<1>2. SnapshotDir \notin U
  BY LiveOutside
<1>3. \A r \in U : Tree(db', r) = Tree(db, r)
  BY <1>1, <1>2, TreeStays DEF Seals, Held
<1>4. \A s \in DOMAIN frozen : Tree(db', frozen[s].root) = Tree(db, frozen[s].root)
  BY <1>1, <1>3 DEF FrozenIn, RootOf
<1>5. \A s \in DOMAIN db.snap : Tree(db', db.snap[s]) = Tree(db, db.snap[s])
  BY <1>1, <1>3 DEF Held, RootOf
<1>6. ASSUME frozen' = frozen PROVE Listing(db', frozen') = Listing(db, frozen)
  BY <1>4, <1>6 DEF Listing
<1>7. ASSUME db'.snap = db.snap PROVE Storing(db') = Storing(db)
  BY <1>5, <1>7 DEF Storing
<1> QED BY <1>4, <1>5, <1>6, <1>7 DEF TreesKept

(* The steps of SnapshotStore, in those words. *)
LEMMA StoreIs ==
  /\ Trees([s \in DOMAIN frozen |-> frozen[s].root]) = Listing(db, frozen)
  /\ Trees(db.snap) = Storing(db)
  /\ Trees([s \in DOMAIN frozen |-> frozen[s].root])' = Listing(db', frozen')
  /\ Trees(db.snap)' = Storing(db')
  /\ (IF job.kind \in {"clear", "restore"} THEN {job.name} ELSE {}) = Restoring(job)
  /\ (IF job.kind \in {"clear", "restore"} THEN {job.name} ELSE {})' = Restoring(job')
  /\ \A m, k, v : Store!Put(m, k, v) = Put(m, k, v) /\ Store!Drop(m, k) = Drop(m, k)
<1>1. /\ Trees([s \in DOMAIN frozen |-> frozen[s].root]) = Listing(db, frozen)
      /\ Trees(db.snap) = Storing(db)
  BY DEF Trees, Listing, Storing
<1>2. /\ Trees([s \in DOMAIN frozen |-> frozen[s].root])' = Listing(db', frozen')
      /\ Trees(db.snap)' = Storing(db')
  BY DEF Trees, Listing, Storing
<1>3. \A m, k, v : Store!Put(m, k, v) = Put(m, k, v) /\ Store!Drop(m, k) = Drop(m, k)
  BY DEF Store!Put, Store!Drop, Put, Drop
<1> QED BY <1>1, <1>2, <1>3 DEF Restoring

LEMMA StoreEdits ==
  ASSUME Listing(db', frozen') = Listing(db, frozen), Storing(db') = Storing(db),
         \/ Restoring(job') = Restoring(job) /\ faults' = faults
         \/ Restoring(job') \in {Restoring(job), {}} /\ faults' = faults + 1
  PROVE  Store!Next
<1>1. CASE Restoring(job') = Restoring(job) /\ faults' = faults
  BY <1>1, StoreIs DEF Store!Next, Store!Edit
<1>2. CASE Restoring(job') \in {Restoring(job), {}} /\ faults' = faults + 1
  BY <1>2, StoreIs DEF Store!Next, Store!Fail
<1> QED BY <1>1, <1>2

LEMMA StoreMounts ==
  ASSUME Listing(db', frozen') = Storing(db), Storing(db') = Storing(db),
         Restoring(job') = {}, faults' = faults
  PROVE  Store!Next
BY StoreIs DEF Store!Next, Store!Mount

LEMMA StoreTakes ==
  ASSUME NEW s \in DOMAIN frozen', s \notin DOMAIN frozen, Restoring(job) = {},
         Listing(db', frozen') = Put(Listing(db, frozen), s, Tree(db, Root)),
         Tree(db', Root) = Tree(db, Root),
         \/ /\ Storing(db') = Put(Storing(db), s, Tree(db, Root)) /\ faults' = faults
            /\ Restoring(job') = {} \/ \E r \in DOMAIN frozen : Restoring(job') = {r}
         \/ /\ Storing(db') \in {Storing(db), Put(Storing(db), s, Tree(db, Root))}
            /\ Restoring(job') = {} /\ faults' = faults + 1
  PROVE  Store!Next
<1>1. s \in DOMAIN Listing(db', frozen') /\ DOMAIN Listing(db, frozen) = DOMAIN frozen
  BY DEF Listing
<1>2. Store!Take(s)
  BY <1>1, StoreIs DEF Store!Take
<1> QED BY <1>1, <1>2, StoreIs DEF Store!Next

LEMMA StoreRemoves ==
  ASSUME NEW s \in DOMAIN frozen, Restoring(job) = {}, Restoring(job') = {},
         Listing(db', frozen') = Drop(Listing(db, frozen), s),
         \/ Storing(db') = Drop(Storing(db), s) /\ faults' = faults
         \/ Storing(db') = Storing(db) /\ faults' = faults + 1,
         Tree(db', Root) = Tree(db, Root)
  PROVE  Store!Next
<1>1. s \in DOMAIN Listing(db, frozen)
  BY DEF Listing
<1>2. Store!Remove(s)
  BY <1>1, StoreIs DEF Store!Remove
<1> QED BY <1>1, <1>2, StoreIs DEF Store!Next

LEMMA StoreEnds ==
  ASSUME NEW s \in DOMAIN frozen, Restoring(job) = {s}, Restoring(job') = {},
         faults = 0 => Tree(db, Root) = Tree(db, frozen[s].root),
         Tree(db', Root) = Tree(db, Root), Storing(db') = Storing(db),
         Listing(db', frozen') = Listing(db, frozen), faults' = faults
  PROVE  Store!Next
<1>1. s \in DOMAIN Listing(db, frozen) /\ Listing(db, frozen)[s] = Tree(db, frozen[s].root)
  BY DEF Listing
<1>2. Store!EndRestore(s)
  BY <1>1, StoreIs DEF Store!EndRestore
<1> QED BY <1>1, <1>2, StoreIs DEF Store!Next

SameTrees(d, e) == \A r : Tree(e, r) = Tree(d, r)

LEMMA ListingPut ==
  ASSUME NEW d, NEW e, NEW fr, NEW s, NEW root, NEW ids, SameTrees(d, e)
  PROVE  Listing(e, Put(fr, s, Frozen(root, ids))) = Put(Listing(d, fr), s, Tree(d, root))
<1>1. Frozen(root, ids).root = root
  BY DEF Frozen
<1> QED BY <1>1 DEF Listing, Put, SameTrees

LEMMA ListingDrop ==
  ASSUME NEW d, NEW e, NEW fr, NEW s, SameTrees(d, e)
  PROVE  Listing(e, Drop(fr, s)) = Drop(Listing(d, fr), s)
BY DEF Listing, Drop, SameTrees

LEMMA StoringPut ==
  ASSUME NEW d, NEW e, NEW s, NEW root, SameTrees(d, e), e.snap = Put(d.snap, s, root)
  PROVE  Storing(e) = Put(Storing(d), s, Tree(d, root))
BY DEF Storing, Put, SameTrees

LEMMA StoringDrop ==
  ASSUME NEW d, NEW e, NEW s, SameTrees(d, e), e.snap = Drop(d.snap, s)
  PROVE  Storing(e) = Drop(Storing(d), s)
BY DEF Storing, Drop, SameTrees

LEMMA FinishStores ==
  ASSUME Kinds, NEW U, Sealed(U), CopiesIn(db, node, job, frozen, dirty),
         (FinishSnapshot /\ faults' = faults) \/ FinishFails
  PROVE  Store!Next
<1> DEFINE s == job.name
<1>1. /\ job.kind = "snapshot" /\ job.todo = {} /\ job # Idle
      /\ frozen' = Put(frozen, s, Frozen(job.root, job.ids))
  BY DEF FinishSnapshot, FinishFails, Idle
<1>2. Tree(db', job.root) = Tree(db, Root) /\ SameTrees(db, db')
  BY FinishCopies DEF SameTrees
<1>3. Tree(db, job.root) = Tree(db, Root) /\ Tree(db', Root) = Tree(db, Root)
  BY <1>2 DEF SameTrees
<1>4. s \notin DOMAIN frozen
  BY <1>1 DEF Sealed, SealedIn, JobApart
<1>5. s \in DOMAIN frozen'
  BY <1>1 DEF Put
<1>6. Listing(db', frozen') = Put(Listing(db, frozen), s, Tree(db, Root))
  BY <1>1, <1>2, <1>3, ListingPut
<1>7. SaveSnapshot(db, s, job.root).snap = Put(db.snap, s, job.root)
  BY DEF SaveSnapshot, Rows
<1>8. db' = SaveSnapshot(db, s, job.root) =>
        Storing(db') = Put(Storing(db), s, Tree(db, Root))
  BY <1>2, <1>3, <1>7, StoringPut
<1>9. Restoring(job) = {} /\ Restoring(Idle) = {}
  BY <1>1 DEF Restoring, Idle
<1>10. CASE FinishSnapshot /\ faults' = faults
  <2>1. Storing(db') = Put(Storing(db), s, Tree(db, Root))
    BY <1>8, <1>10 DEF FinishSnapshot
  <2>2. Restoring(job') = {} \/ \E r \in DOMAIN frozen : Restoring(job') = {r}
    <3>1. CASE job.then = {}
      BY <1>9, <1>10, <3>1 DEF FinishSnapshot
    <3>2. CASE job.then # {}
      <4>1. PICK r \in job.then : job' = Cloning("clear", r, {}, {}, {}, Root)
        BY <1>10, <3>2 DEF FinishSnapshot
      <4>2. Restoring(job') = {r}
        BY <4>1 DEF Restoring, Cloning
      <4>3. r \in DOMAIN frozen
        BY <1>1, <4>1 DEF Kinds, JobNames
      <4> QED BY <4>2, <4>3
    <3> QED BY <3>1, <3>2
  <2> HIDE DEF s
  <2> QED BY <1>3, <1>4, <1>5, <1>6, <1>9, <1>10, <2>1, <2>2, StoreTakes
<1>11. CASE FinishFails
  <2>1. /\ faults' = faults + 1 /\ job' = Idle
        /\ db' = db \/ db' = SaveSnapshot(db, s, job.root)
    BY <1>11 DEF FinishFails, Fails
  <2>2. Storing(db') \in {Storing(db), Put(Storing(db), s, Tree(db, Root))}
    BY <1>8, <2>1
  <2>3. Restoring(job') = {}
    BY <1>9, <2>1
  <2> HIDE DEF s
  <2> QED BY <1>3, <1>4, <1>5, <1>6, <1>9, <2>1, <2>2, <2>3, StoreTakes
<1> QED BY <1>10, <1>11

LEMMA RemoveStores ==
  ASSUME NEW s, (RemoveSnapshot(s) /\ faults' = faults) \/ RemoveFails(s)
  PROVE  Store!Next
<1>1. /\ job = Idle /\ job' = job /\ s \in DOMAIN frozen /\ frozen' = Drop(frozen, s)
      /\ \/ db' = DeleteSnapshot(db, s) /\ faults' = faults
         \/ db' = db /\ faults' = faults + 1
  BY DEF RemoveSnapshot, RemoveFails, Fails
<1>2. LET e == DeleteSnapshot(db, s)
      IN e.meta = db.meta /\ e.dirent = db.dirent /\ e.recipe = db.recipe
         /\ e.snap = Drop(db.snap, s)
  BY DEF DeleteSnapshot, Rows
<1>3. db'.meta = db.meta /\ db'.dirent = db.dirent /\ db'.recipe = db.recipe
  BY <1>1, <1>2
<1>4. SameTrees(db, db')
  BY <1>3, CopiedSame DEF SameTrees
<1>5. Listing(db', frozen') = Drop(Listing(db, frozen), s)
  BY <1>1, <1>4, ListingDrop
<1>6. \/ Storing(db') = Drop(Storing(db), s) /\ faults' = faults
      \/ Storing(db') = Storing(db) /\ faults' = faults + 1
  BY <1>1, <1>2, <1>4, StoringDrop
<1>7. Restoring(job) = {} /\ Restoring(job') = {}
  BY <1>1 DEF Restoring, Idle
<1>8. Tree(db', Root) = Tree(db, Root)
  BY <1>4 DEF SameTrees
<1> QED BY <1>1, <1>5, <1>6, <1>7, <1>8, StoreRemoves

(* A restore that no error disturbed ends with the tree it restored. *)
LEMMA EndStores ==
  ASSUME WInv, NoError(Next), TreesKept, FinishRestore, reuses = 0
  PROVE  Store!Next
<1>1. /\ job.kind = "restore" /\ job # Idle /\ job' = Idle /\ db' = db /\ frozen' = frozen
      /\ faults' = faults /\ torn' = torn \cap Differing'
  BY DEF FinishRestore, NoError, Idle
<1>2. FInv /\ FaultNext
  BY DEF WInv, FaultNext
<1>3. job.name \in DOMAIN frozen
  BY <1>1 DEF WInv, FInv, CopiesIn
<1>4. ASSUME faults = 0 PROVE Tree(db, Root) = Tree(db, frozen[job.name].root)
  <2>1. torn' = {}
    BY <1>1, <1>4 DEF WInv
  <2>2. torn' = {} => Tree(db', Root) = Tree(db, frozen[job.name].root)
    BY <1>2, StepEnds DEF EndShowsSnapshot
  <2> QED BY <1>1, <2>1, <2>2
<1>5. Restoring(job) = {job.name} /\ Restoring(job') = {}
  BY <1>1 DEF Restoring, Idle
<1>6. Listing(db', frozen') = Listing(db, frozen) /\ Storing(db') = Storing(db)
  BY <1>1 DEF TreesKept
<1> QED BY <1>1, <1>3, <1>4, <1>5, <1>6, StoreEnds

(* After a mount what is listed is what is stored. *)
LEMMA MountStores ==
  ASSUME TreesKept, Remounted, db'.snap = db.snap, faults' = faults
  PROVE  Store!Next
<1>1. PICK d : Mount(d)
  BY DEF Remounted
<1>2. Relisted /\ job' = Idle
  BY <1>1, MountRelists DEF Mount
<1>3. Listing(db', frozen') = Storing(db')
  BY <1>2 DEF Relisted, Listing, Storing
<1>4. Storing(db') = Storing(db)
  BY DEF TreesKept
<1>5. Restoring(job') = {}
  BY <1>2 DEF Restoring, Idle
<1> QED BY <1>3, <1>4, <1>5, StoreMounts

LEMMA StoreStep ==
  ASSUME WInv, FaultNext, reuses' = 0
  PROVE  Store!Next
<1>1. PICK U : Sealed(U) /\ Seals(U)
  BY StepSeals DEF WInv, FInv
<1>2. KInv /\ reuses = 0 /\ Kinds /\ faults \in Nat
  BY ReusesGrow DEF WInv, FInv, SInv, KInv
<1>3. CopiesIn(db, node, job, frozen, dirty)
  BY <1>2 DEF WInv, FInv
<1>4. TreesKept
  BY <1>1, <1>2, StepKeepsAll DEF KInv
<1>5. \/ db'.snap = db.snap \/ FinishSnapshot \/ FinishFails
      \/ \E s : RemoveSnapshot(s) \/ RemoveFails(s)
  BY <1>1 DEF Seals, NamesStep
<1>6. CASE NoError(Next)
  <2>1. Next /\ faults' = faults
    BY <1>6 DEF NoError
  <2>2. CASE FinishSnapshot
    BY <1>1, <1>2, <1>3, <2>1, <2>2, FinishStores
  <2>3. CASE \E s : RemoveSnapshot(s)
    BY <2>1, <2>3, RemoveStores
  <2>4. CASE ~FinishSnapshot /\ ~ \E s : RemoveSnapshot(s)
    <3>1. ~FinishFails /\ \A s : ~RemoveFails(s)
      <4>1. faults' # faults + 1
        BY <1>2, <2>1
      <4> QED BY <4>1 DEF FinishFails, RemoveFails, Fails
    <3>2. db'.snap = db.snap
      BY <1>5, <2>4, <3>1
    <3>3. CASE Quiet
      <4>1. Listing(db', frozen') = Listing(db, frozen) /\ Storing(db') = Storing(db)
        BY <1>4, <3>2, <3>3 DEF TreesKept, Quiet
      <4> QED BY <2>1, <3>3, <4>1, StoreEdits DEF Quiet
    <3>4. CASE Remounted
      BY <1>4, <2>1, <3>2, <3>4, MountStores
    <3>5. CASE FinishRestore
      BY <1>2, <1>4, <1>6, <3>5, EndStores
    <3> QED BY <2>1, <2>4, <3>3, <3>4, <3>5, NextSorts
  <2> QED BY <2>2, <2>3, <2>4
<1>7. CASE RequestFails \/ SnapshotFails
  <2>1. CASE FinishFails
    BY <1>1, <1>2, <1>3, <2>1, FinishStores
  <2>2. CASE \E s : RemoveFails(s)
    BY <2>2, RemoveStores
  <2>3. CASE ~FinishFails /\ ~ \E s : RemoveFails(s)
    <3>1. /\ frozen' = frozen /\ faults' = faults + 1
          /\ Restoring(job') \in {Restoring(job), {}}
      BY <1>7, <2>3, FailsSort
    <3>2. ~FinishSnapshot
      <4>1. ASSUME FinishSnapshot PROVE FALSE
        <5>1. job.kind = "snapshot" /\ job # Idle /\ job.name \in DOMAIN frozen'
          BY <4>1 DEF FinishSnapshot, Idle, Put
        <5>2. job.name \notin DOMAIN frozen
          BY <1>1, <5>1 DEF Sealed, SealedIn, JobApart
        <5> QED BY <3>1, <5>1, <5>2
      <4> QED BY <4>1
    <3>3. \A s : ~RemoveSnapshot(s)
      <4>1. ASSUME NEW s, RemoveSnapshot(s) PROVE FALSE
        <5>1. s \in DOMAIN frozen /\ s \notin DOMAIN frozen'
          BY <4>1 DEF RemoveSnapshot, Drop
        <5> QED BY <3>1, <5>1
      <4> QED BY <4>1
    <3>4. db'.snap = db.snap
      BY <1>5, <2>3, <3>2, <3>3
    <3>5. Listing(db', frozen') = Listing(db, frozen) /\ Storing(db') = Storing(db)
      BY <1>4, <3>1, <3>4 DEF TreesKept
    <3> QED BY <3>1, <3>5, StoreEdits
  <2> QED BY <2>1, <2>2, <2>3
<1> QED BY <1>6, <1>7 DEF FaultNext

LEMMA StoreStutter == ASSUME UNCHANGED faultVars PROVE UNCHANGED Store!vars
<1>1. db' = db /\ frozen' = frozen /\ job' = job /\ faults' = faults
  BY DEF faultVars, vars
<1>2. /\ Listing(db', frozen') = Listing(db, frozen) /\ Storing(db') = Storing(db)
      /\ Restoring(job') = Restoring(job) /\ Tree(db', Root) = Tree(db, Root)
  BY <1>1
<1> QED BY <1>1, <1>2, StoreIs DEF Store!vars

LEMMA StoreInit == FaultInit => WInv /\ Store!Init
<1> SUFFICES ASSUME FaultInit PROVE WInv /\ Store!Init
  OBVIOUS
<1>1. WInv
  BY CopiesInit DEF WInv, FaultInit
<1>2. frozen = <<>> /\ db.snap = <<>> /\ job = Idle /\ faults = 0
  BY DEF FaultInit, Init, SaveInode, Empty, Rows
<1>3. DOMAIN frozen = {} /\ DOMAIN db.snap = {}
  BY <1>2
<1>4. Listing(db, frozen) = <<>> /\ Storing(db) = <<>>
  BY <1>3 DEF Listing, Storing
<1>5. Restoring(job) = {}
  BY <1>2 DEF Restoring, Idle
<1>6. Store!Init
  BY <1>2, <1>4, <1>5, StoreIs DEF Store!Init
<1> QED BY <1>1, <1>6

LEMMA StoreInvStep == ASSUME WInv, FaultNext PROVE WInv'
<1>1. FInv'
  BY FaithStep DEF WInv
<1>2. ASSUME faults' = 0 PROVE torn' = {}
  <2>1. faults \in Nat
    BY DEF WInv, FInv, SInv, KInv
  <2>2. CASE NoError(Next)
    BY <1>2, <2>2 DEF NoError, WInv
  <2>3. CASE RequestFails \/ SnapshotFails
    <3>1. faults' = faults + 1
      BY <2>3, FailsSort
    <3> QED BY <1>2, <2>1, <3>1
  <2> QED BY <2>2, <2>3 DEF FaultNext
<1> QED BY <1>1, <1>2 DEF WInv

LEMMA StoreInvStutter == ASSUME WInv, UNCHANGED faultVars PROVE WInv'
<1>1. FInv'
  BY FaithStutter DEF WInv
<1> QED BY <1>1 DEF WInv, faultVars

(* Rows, ids, clones, caches and mounts implement SnapshotStore until an   *)
(* id is handed out twice.  Whatever requests, errors and crashes do, a    *)
(* snapshot is taken in one moment, with the live tree it then shows, is   *)
(* left as it is until it is removed, and is there while it is restored;   *)
(* what memory lists and what the rows store differ only by an error, and  *)
(* only until the next mount.                                              *)
THEOREM SnapshotsAreAbstract == FaultSpec => ImplementsStore
<1>1. FaultInit => WInv /\ Store!Init
  BY StoreInit
<1>2. WInv /\ [FaultNext]_faultVars => WInv'
  BY StoreInvStep, StoreInvStutter
<1>3. WInv /\ [FaultNext]_faultVars => [reuses' = 0 => [Store!Next]_Store!vars]_faultVars
  BY StoreStep
<1> QED BY <1>1, <1>2, <1>3, PTL DEF FaultSpec, ImplementsStore

(* An execution in which no id is handed out twice is one of SnapshotStore. *)
THEOREM SnapshotsRefine == FaultSpec /\ [](reuses = 0) => Store!Spec
<1>1. FaultSpec => Store!Init /\ [][reuses' = 0 => [Store!Next]_Store!vars]_faultVars
  BY SnapshotsAreAbstract DEF ImplementsStore
<1>2. /\ (reuses = 0)'
      /\ [reuses' = 0 => [Store!Next]_Store!vars]_faultVars
      => [Store!Next]_Store!vars
  BY StoreStutter
<1> QED BY <1>1, <1>2, PTL DEF Store!Spec
=============================================================================
