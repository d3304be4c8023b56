--------------------------- MODULE TagTreeProofs ----------------------------
(***************************************************************************)
(* Proofs about TagTree, for every set of inodes, names, tags and          *)
(* directories and every range of virtual ids.                             *)
(***************************************************************************)
EXTENDS TagTree, TagStoreProofs, SequenceTheorems, FiniteSetTheorems, WellFoundedInduction, TLAPS

(* What holds of a number whenever it holds of all smaller ones holds of   *)
(* every number: the set of exceptions has no least element.               *)
LEMMA NoLeastException ==
  ASSUME NEW S, \A n \in Nat : (\A m \in Nat : m < n => m \in S) => n \in S
  PROVE  Nat \subseteq S
<1> SUFFICES ASSUME Nat \ S # {} PROVE FALSE
  OBVIOUS
<1>1. PICK n \in Nat \ S : \A m \in Nat \ S : ~ (<<m, n>> \in OpToRel(<, Nat))
  BY NatLessThanWellFounded, WFMin
<1>2. \A m \in Nat : m < n => m \in S
  BY <1>1 DEF OpToRel
<1> QED BY <1>1, <1>2

-----------------------------------------------------------------------------
(* The recursive definitions: the path of a set of tags, the ids of the    *)
(* directories listed and those of the files, and the walks.  Each is the  *)
(* last value of a function whose k-th value comes from the one before by  *)
(* a step; such a function exists whatever the step is.                    *)

(* The k-th of the ids in I. *)
Ranked(I, k) == CHOOSE i \in I : Cardinality({j \in I : j <= i}) = k

Step(which, T, S, k, w) ==
  IF which = "path" THEN IF TagOrder[k] \in T THEN Append(w, TagOrder[k]) ELSE w
  ELSE IF which = "dirs" THEN IF TagOrder[k] \in S THEN GetDir(w, T \cup {TagOrder[k]}) ELSE w
  ELSE IF which = "ensure" THEN Ensure(w, T[k])
  ELSE IF which = "clone" THEN CloneChild(w, T[k])
  ELSE GetFile(w, T, Ranked(S, k))

IsSteps(f, n, which, T, S, v) ==
  f = [k \in 0..n |-> IF k = 0 THEN v ELSE Step(which, T, S, k, f[k - 1])]

LEMMA StepsExist ==
  ASSUME NEW which, NEW T, NEW S, NEW v, NEW N \in Nat
  PROVE  \E f : IsSteps(f, N, which, T, S, v)
<1> DEFINE Turn(k, w) == Step(which, T, S, k, w)
           Is(f, n) == f = [k \in 0..n |-> IF k = 0 THEN v ELSE Turn(k, f[k - 1])]
           M == {n \in Nat : \E f : Is(f, n)}
<1> HIDE DEF Turn, M
<1>1. ASSUME NEW n \in Nat, \A m \in Nat : m < n => m \in M
      PROVE  n \in M
  <2>1. CASE n = 0
    <3> DEFINE f == [k \in 0..0 |-> v]
    <3>1. Is(f, 0)
      OBVIOUS
    <3> QED BY <2>1, <3>1 DEF M
  <2>2. CASE n > 0
    <3>1. n - 1 \in Nat /\ n - 1 \in M
      BY <1>1, <2>2
    <3>2. PICK g : Is(g, n - 1)
      BY <3>1 DEF M
    <3> DEFINE f == [k \in 0..n |-> IF k = n THEN Turn(n, g[n - 1]) ELSE g[k]]
    <3>3. \A k \in 0..(n - 1) : f[k] = g[k]
      OBVIOUS
    <3>4. \A k \in 0..(n - 1) : g[k] = IF k = 0 THEN v ELSE Turn(k, g[k - 1])
      BY <3>2
    <3>5. ASSUME NEW k \in 0..n
          PROVE  f[k] = IF k = 0 THEN v ELSE Turn(k, f[k - 1])
      <4>1. CASE k = n
        <5>1. f[n - 1] = g[n - 1]
          BY <2>2, <3>3
        <5>2. f[n] = Turn(n, g[n - 1])
          OBVIOUS
        <5> HIDE DEF f
        <5> QED BY <2>2, <4>1, <5>1, <5>2
      <4>2. CASE k < n
        <5>1. k \in 0..(n - 1)
          BY <4>2
        <5>2. k > 0 => f[k - 1] = g[k - 1]
          BY <3>3, <5>1
        <5>3. f[k] = g[k]
          BY <3>3, <5>1
        <5> HIDE DEF f
        <5> QED BY <3>4, <5>1, <5>2, <5>3
      <4> QED BY <4>1, <4>2
    <3>6. f = [k \in 0..n |-> f[k]]
      OBVIOUS
    <3> HIDE DEF f
    <3>7. Is(f, n)
      BY <3>5, <3>6
    <3> QED BY <3>7 DEF M
  <2> QED BY <2>1, <2>2
<1>2. N \in M
  BY <1>1, NoLeastException
<1> QED BY <1>2 DEF M, Turn, IsSteps

(* The values of such a function. *)
IsRun(f, n, which, T, S, v) ==
  /\ f[0] = v
  /\ \A k \in 1..n : f[k] = Step(which, T, S, k, f[k - 1])

LEMMA StepsRun ==
  ASSUME NEW f, NEW n \in Nat, NEW which, NEW T, NEW S, NEW v, IsSteps(f, n, which, T, S, v)
  PROVE  IsRun(f, n, which, T, S, v)
<1>1. \A k \in 0..n : f[k] = IF k = 0 THEN v ELSE Step(which, T, S, k, f[k - 1])
  BY DEF IsSteps
<1>2. f[0] = v
  BY <1>1
<1>3. \A k \in 1..n : f[k] = Step(which, T, S, k, f[k - 1])
  BY <1>1
<1> QED BY <1>2, <1>3 DEF IsRun

LEMMA PathRun ==
  ASSUME NEW T, Len(TagOrder) \in Nat
  PROVE  \E f : Path(T) = f[Len(TagOrder)] /\ IsRun(f, Len(TagOrder), "path", T, {}, <<>>)
<1> DEFINE n == Len(TagOrder)
           Is(f) == f = [k \in 0..n |->
                           IF k = 0 THEN <<>>
                           ELSE IF TagOrder[k] \in T THEN Append(f[k - 1], TagOrder[k])
                           ELSE f[k - 1]]
           g == CHOOSE f : Is(f)
<1>1. Path(T) = g[n]
  BY DEF Path
<1>2. \A f : Is(f) <=> IsSteps(f, n, "path", T, {}, <<>>)
  BY DEF IsSteps, Step
<1>3. \E f : IsSteps(f, n, "path", T, {}, <<>>)
  BY StepsExist
<1>4. Is(g)
  BY <1>2, <1>3
<1> HIDE DEF g, Is
<1>5. IsSteps(g, n, "path", T, {}, <<>>)
  BY <1>2, <1>4
<1> QED BY <1>1, <1>5, StepsRun

LEMMA GetDirsRun ==
  ASSUME NEW v, NEW T, NEW S, Len(TagOrder) \in Nat
  PROVE  \E f : /\ GetDirs(v, T, S) = f[Len(TagOrder)]
                /\ IsRun(f, Len(TagOrder), "dirs", T, S, v)
<1> DEFINE n == Len(TagOrder)
           Is(f) == f = [k \in 0..n |->
                           IF k = 0 THEN v
                           ELSE IF TagOrder[k] \in S THEN GetDir(f[k - 1], T \cup {TagOrder[k]})
                           ELSE f[k - 1]]
           g == CHOOSE f : Is(f)
<1>1. GetDirs(v, T, S) = g[n]
  BY DEF GetDirs
<1>2. \A f : Is(f) <=> IsSteps(f, n, "dirs", T, S, v)
  BY DEF IsSteps, Step
<1>3. \E f : IsSteps(f, n, "dirs", T, S, v)
  BY StepsExist
<1>4. Is(g)
  BY <1>2, <1>3
<1> HIDE DEF g, Is
<1>5. IsSteps(g, n, "dirs", T, S, v)
  BY <1>2, <1>4
<1> QED BY <1>1, <1>5, StepsRun

LEMMA GetFilesRun ==
  ASSUME NEW v, NEW T, NEW I, Cardinality(I) \in Nat
  PROVE  \E f : /\ GetFiles(v, T, I) = f[Cardinality(I)]
                /\ IsRun(f, Cardinality(I), "files", T, I, v)
<1> DEFINE n == Cardinality(I)
           Is(f) == f = [k \in 0..n |->
                           IF k = 0 THEN v
                           ELSE GetFile(f[k - 1], T,
                                        CHOOSE i \in I : Cardinality({j \in I : j <= i}) = k)]
           g == CHOOSE f : Is(f)
<1>1. GetFiles(v, T, I) = g[n]
  BY DEF GetFiles
<1>2. \A f : Is(f) <=> IsSteps(f, n, "files", T, I, v)
  BY DEF IsSteps, Step, Ranked
<1>3. \E f : IsSteps(f, n, "files", T, I, v)
  BY StepsExist
<1>4. Is(g)
  BY <1>2, <1>3
<1> HIDE DEF g, Is
<1>5. IsSteps(g, n, "files", T, I, v)
  BY <1>2, <1>4
<1> QED BY <1>1, <1>5, StepsRun

LEMMA EnsureRun ==
  ASSUME NEW w, NEW p, Len(p) \in Nat
  PROVE  \E f : Along(Ensure, w, p) = f[Len(p)] /\ IsRun(f, Len(p), "ensure", p, {}, w)
<1> DEFINE n == Len(p)
           Is(f) == f = [k \in 0..n |-> IF k = 0 THEN w ELSE Ensure(f[k - 1], p[k])]
           g == CHOOSE f : Is(f)
<1>1. Along(Ensure, w, p) = g[n]
  BY DEF Along
<1>2. \A f : Is(f) <=> IsSteps(f, n, "ensure", p, {}, w)
  BY DEF IsSteps, Step
<1>3. \E f : IsSteps(f, n, "ensure", p, {}, w)
  BY StepsExist
<1>4. Is(g)
  BY <1>2, <1>3
<1> HIDE DEF g, Is
<1>5. IsSteps(g, n, "ensure", p, {}, w)
  BY <1>2, <1>4
<1> QED BY <1>1, <1>5, StepsRun

LEMMA CloneRun ==
  ASSUME NEW w, NEW p, Len(p) \in Nat
  PROVE  \E f : Along(CloneChild, w, p) = f[Len(p)] /\ IsRun(f, Len(p), "clone", p, {}, w)
<1> DEFINE n == Len(p)
           Is(f) == f = [k \in 0..n |-> IF k = 0 THEN w ELSE CloneChild(f[k - 1], p[k])]
           g == CHOOSE f : Is(f)
<1>1. Along(CloneChild, w, p) = g[n]
  BY DEF Along
<1>2. \A f : Is(f) <=> IsSteps(f, n, "clone", p, {}, w)
  BY DEF IsSteps, Step
<1>3. \E f : IsSteps(f, n, "clone", p, {}, w)
  BY StepsExist
<1>4. Is(g)
  BY <1>2, <1>3
<1> HIDE DEF g, Is
<1>5. IsSteps(g, n, "clone", p, {}, w)
  BY <1>2, <1>4
<1> QED BY <1>1, <1>5, StepsRun

-----------------------------------------------------------------------------
(* The virtual ids.                                                        *)

IsVirt(v) ==
  v = [dirs |-> v.dirs, files |-> v.files, dirIds |-> v.dirIds, fileIds |-> v.fileIds,
       next |-> v.next]

(* The maps from ids and those to them agree, and the ids in use are those *)
(* below the next one; no directory stands for no tags.                    *)
IdsBelow(v) ==
  /\ v.next \in Nat /\ FirstVnode <= v.next
  /\ IsMap(v.dirs, FirstVnode..(v.next - 1), (SUBSET Tag) \ {{}})
  /\ IsMap(v.files, FirstVnode..(v.next - 1), Ino)
  /\ DOMAIN v.dirs \cap DOMAIN v.files = {}
DirsAgree(v) ==
  /\ \A T \in DOMAIN v.dirIds : v.dirIds[T] \in DOMAIN v.dirs /\ v.dirs[v.dirIds[T]] = T
  /\ \A x \in DOMAIN v.dirs : v.dirs[x] \in DOMAIN v.dirIds /\ v.dirIds[v.dirs[x]] = x
FilesAgree(v) ==
  /\ \A k \in DOMAIN v.fileIds :
       v.fileIds[k] \in DOMAIN v.files /\ v.files[v.fileIds[k]] = k[2]
  /\ \A x \in DOMAIN v.files : \E k \in DOMAIN v.fileIds : v.fileIds[k] = x
  /\ \A k, l \in DOMAIN v.fileIds : v.fileIds[k] = v.fileIds[l] => k = l
Agree(v) == IsVirt(v) /\ IdsBelow(v) /\ DirsAgree(v) /\ FilesAgree(v)

(* No id of v leads elsewhere in w, and the ids w adds are new. *)
Extends(v, w) ==
  /\ v.next <= w.next
  /\ \A x \in DOMAIN v.files : x \in DOMAIN w.files /\ w.files[x] = v.files[x]
  /\ \A x \in DOMAIN v.dirs : x \in DOMAIN w.dirs /\ w.dirs[x] = v.dirs[x]
  /\ \A x \in DOMAIN w.dirs \ DOMAIN v.dirs : x >= v.next

LEMMA NextIsNew ==
  ASSUME NEW v, Agree(v)
  PROVE  v.next \notin DOMAIN v.dirs /\ v.next \notin DOMAIN v.files
BY VnodeAssumption DEF Agree, IdsBelow, IsMap

(* Asking for the id of a directory, or of a file in one, keeps the maps   *)
(* in agreement.                                                           *)
LEMMA GetDirAgrees ==
  ASSUME NEW v, Agree(v), NEW T \in (SUBSET Tag) \ {{}}
  PROVE  Agree(GetDir(v, T)) /\ Extends(v, GetDir(v, T))
<1>1. CASE T \in DOMAIN v.dirIds
  <2>1. GetDir(v, T) = v
    BY <1>1 DEF GetDir
  <2> QED BY <2>1, VnodeAssumption DEF Extends, Agree, IdsBelow
<1>2. CASE T \notin DOMAIN v.dirIds
  <2> DEFINE w == GetDir(v, T)
  <2>1. w = [v EXCEPT !.dirs = Put(@, v.next, T), !.dirIds = Put(@, T, v.next), !.next = @ + 1]
    BY <1>2 DEF GetDir
  <2>2. IsVirt(v)
    BY DEF Agree
  <2>3. /\ IsVirt(w)
        /\ w.dirs = Put(v.dirs, v.next, T) /\ w.dirIds = Put(v.dirIds, T, v.next)
        /\ w.files = v.files /\ w.fileIds = v.fileIds
        /\ w.next = v.next + 1
    BY <2>1, <2>2 DEF IsVirt
  <2> HIDE DEF w
  <2>4. v.next \notin DOMAIN v.dirs /\ v.next \notin DOMAIN v.files
    BY NextIsNew
  <2>5. v.next \in FirstVnode..v.next
    BY VnodeAssumption DEF Agree, IdsBelow
  <2>6. IdsBelow(w)
    BY <2>3, <2>4, <2>5, VnodeAssumption DEF Agree, IdsBelow, IsMap, Put
  <2>7. DirsAgree(w)
    BY <1>2, <2>3, <2>4 DEF Agree, DirsAgree, Put
  <2>8. FilesAgree(w)
    BY <2>3 DEF Agree, FilesAgree
  <2>9. Extends(v, w)
    BY <2>3, <2>4, VnodeAssumption DEF Agree, IdsBelow, Extends, Put
  <2> QED BY <2>3, <2>6, <2>7, <2>8, <2>9 DEF Agree, w
<1> QED BY <1>1, <1>2

LEMMA GetFileAgrees ==
  ASSUME NEW v, Agree(v), NEW T, NEW i \in Ino
  PROVE  /\ Agree(GetFile(v, T, i)) /\ Extends(v, GetFile(v, T, i))
         /\ GetFile(v, T, i).dirs = v.dirs
         /\ <<T, i>> \in DOMAIN GetFile(v, T, i).fileIds
<1>1. CASE <<T, i>> \in DOMAIN v.fileIds
  <2>1. GetFile(v, T, i) = v
    BY <1>1 DEF GetFile
  <2> QED BY <1>1, <2>1, VnodeAssumption DEF Extends, Agree, IdsBelow
<1>2. CASE <<T, i>> \notin DOMAIN v.fileIds
  <2> DEFINE w == GetFile(v, T, i)
             key == <<T, i>>
  <2>1. w = [v EXCEPT !.files = Put(@, v.next, i), !.fileIds = Put(@, key, v.next), !.next = @ + 1]
    BY <1>2 DEF GetFile
  <2>0. key[2] = i /\ key \notin DOMAIN v.fileIds
    BY <1>2
  <2>2. IsVirt(v)
    BY DEF Agree
  <2>3. /\ IsVirt(w)
        /\ w.dirs = v.dirs /\ w.dirIds = v.dirIds
        /\ w.files = Put(v.files, v.next, i) /\ w.fileIds = Put(v.fileIds, key, v.next)
        /\ w.next = v.next + 1
    BY <2>1, <2>2 DEF IsVirt
  <2> HIDE DEF w, key
  <2>4. v.next \notin DOMAIN v.dirs /\ v.next \notin DOMAIN v.files
    BY NextIsNew
  <2>5. v.next \in FirstVnode..v.next
    BY VnodeAssumption DEF Agree, IdsBelow
  <2>6. IdsBelow(w)
    BY <2>3, <2>4, <2>5, VnodeAssumption DEF Agree, IdsBelow, IsMap, Put
  <2>7. DirsAgree(w)
    BY <2>3 DEF Agree, DirsAgree
  <2>8. FilesAgree(w)
    BY <2>0, <2>3, <2>4 DEF Agree, FilesAgree, Put
  <2>9. Extends(v, w)
    BY <2>3, <2>4, VnodeAssumption DEF Agree, IdsBelow, Extends, Put
  <2>10. key \in DOMAIN w.fileIds
    BY <2>3 DEF Put
  <2> QED BY <2>3, <2>6, <2>7, <2>8, <2>9, <2>10 DEF Agree, w, key
<1> QED BY <1>1, <1>2

LEMMA ExtendsChain ==
  ASSUME NEW u, NEW v, NEW w, Agree(u), Agree(v), Agree(w), Extends(u, v), Extends(v, w)
  PROVE  Extends(u, w)
<1>1. u.next \in Nat /\ v.next \in Nat /\ w.next \in Nat
  BY DEF Agree, IdsBelow
<1>2. DOMAIN w.dirs \subseteq Nat
  BY VnodeAssumption DEF Agree, IdsBelow, IsMap
<1> QED BY <1>1, <1>2 DEF Extends

(* Every rank up to the size of a finite set of ids is some id's rank: two *)
(* ids differ in rank, so there are as many ranks as ids.                  *)
LEMMA RankedIn ==
  ASSUME NEW I \in SUBSET Nat, IsFiniteSet(I), NEW k \in 1..Cardinality(I)
  PROVE  Ranked(I, k) \in I
<1> DEFINE Below(i) == {j \in I : j <= i}
           N == Cardinality(I)
           rank == [i \in I |-> Cardinality(Below(i))]
<1>1. N \in Nat
  BY FS_CardinalityType
<1>2. ASSUME NEW i \in I PROVE rank[i] \in 1..N /\ IsFiniteSet(Below(i))
  <2>1. Below(i) \in SUBSET I /\ i \in Below(i)
    OBVIOUS
  <2> HIDE DEF Below
  <2>2. IsFiniteSet(Below(i)) /\ Cardinality(Below(i)) <= N
    BY <2>1, FS_Subset
  <2>3. Cardinality(Below(i)) \in Nat /\ Cardinality(Below(i)) # 0
    BY <2>1, <2>2, FS_CardinalityType, FS_EmptySet
  <2> QED BY <1>1, <2>2, <2>3
<1>3. ASSUME NEW i \in I, NEW j \in I, i < j PROVE rank[i] # rank[j]
  <2>1. Below(i) \in SUBSET Below(j) /\ j \in Below(j) /\ j \notin Below(i)
    <3>1. i \in Nat /\ j \in Nat /\ i < j /\ \A x \in I : x \in Nat
      BY <1>3
    <3>2. \A x \in I : x <= i => x <= j
      BY <3>1
    <3>3. ~(j <= i) /\ j <= j
      BY <3>1
    <3> QED BY <3>2, <3>3
  <2>2. IsFiniteSet(Below(j))
    BY <1>2
  <2> HIDE DEF Below
  <2>3. Cardinality(Below(i)) # Cardinality(Below(j))
    BY <2>1, <2>2, FS_Subset
  <2> QED BY <2>3
<1> HIDE DEF rank
<1>4. rank \in Injection(I, 1..N)
  <2>1. rank \in [I -> 1..N]
    <3>1. rank = [i \in I |-> rank[i]]
      BY DEF rank
    <3> QED BY <1>2, <3>1
  <2>2. \A i, j \in I : rank[i] = rank[j] => i = j
    BY <1>3
  <2> QED BY <2>1, <2>2 DEF Injection, IsInjective
<1>5. rank \in Surjection(I, 1..N)
  <2>1. IsFiniteSet(1..N) /\ Cardinality(1..N) = N
    BY <1>1, FS_Interval
  <2> QED BY <1>4, <2>1, FS_Injection
<1>6. PICK i \in I : rank[i] = k
  BY <1>5 DEF Surjection
<1>7. Cardinality({j \in I : j <= i}) = k
  BY <1>6 DEF rank
<1> QED BY <1>7 DEF Ranked

(* Listing a directory keeps the maps in agreement.                        *)
LEMMA GetDirsAgrees ==
  ASSUME NEW v, Agree(v), NEW T \in SUBSET Tag, NEW S \in SUBSET Tag
  PROVE  Agree(GetDirs(v, T, S)) /\ Extends(v, GetDirs(v, T, S))
<1>1. Len(TagOrder) \in Nat /\ \A k \in 1..Len(TagOrder) : TagOrder[k] \in Tag
  BY TagOrderAssumption
<1>2. PICK f : /\ GetDirs(v, T, S) = f[Len(TagOrder)]
               /\ IsRun(f, Len(TagOrder), "dirs", T, S, v)
  BY <1>1, GetDirsRun
<1> DEFINE Good(w) == Agree(w) /\ Extends(v, w)
           M == {n \in Nat : n <= Len(TagOrder) => Good(f[n])}
<1>3. ASSUME NEW n \in Nat, \A m \in Nat : m < n => m \in M, n <= Len(TagOrder)
      PROVE  Good(f[n])
  <2>1. CASE n = 0
    <3>1. f[n] = v
      BY <1>2, <2>1 DEF IsRun
    <3> QED BY <3>1 DEF Extends, Agree, IdsBelow
  <2>2. CASE n > 0
    <3>1. n - 1 \in Nat /\ n - 1 < n /\ n - 1 <= Len(TagOrder) /\ n \in 1..Len(TagOrder)
      BY <1>1, <1>3, <2>2
    <3>2. Good(f[n - 1])
      BY <1>3, <3>1
    <3>3. f[n] = IF TagOrder[n] \in S THEN GetDir(f[n - 1], T \cup {TagOrder[n]}) ELSE f[n - 1]
      BY <1>2, <3>1 DEF IsRun, Step
    <3>4. T \cup {TagOrder[n]} \in (SUBSET Tag) \ {{}}
      <4>1. TagOrder[n] \in Tag
        BY <1>1, <3>1
      <4> QED BY <4>1
    <3>5. /\ Agree(GetDir(f[n - 1], T \cup {TagOrder[n]}))
          /\ Extends(f[n - 1], GetDir(f[n - 1], T \cup {TagOrder[n]}))
      BY <3>2, <3>4, GetDirAgrees
    <3> QED BY <3>2, <3>3, <3>5, ExtendsChain
  <2> QED BY <2>1, <2>2
<1> HIDE DEF Good
<1>4. Len(TagOrder) \in M
  <2>1. \A n \in Nat : (\A m \in Nat : m < n => m \in M) => n \in M
    BY <1>3
  <2> HIDE DEF M
  <2> QED BY <1>1, <2>1, NoLeastException
<1>5. Good(f[Len(TagOrder)])
  BY <1>1, <1>4
<1> QED BY <1>2, <1>5 DEF Good

LEMMA GetFilesAgrees ==
  ASSUME NEW v, Agree(v), NEW T \in SUBSET Tag, NEW I \in SUBSET Ino, IsFiniteSet(I)
  PROVE  Agree(GetFiles(v, T, I)) /\ Extends(v, GetFiles(v, T, I))
<1>1. Cardinality(I) \in Nat
  BY FS_CardinalityType
<1>2. PICK f : /\ GetFiles(v, T, I) = f[Cardinality(I)]
               /\ IsRun(f, Cardinality(I), "files", T, I, v)
  BY <1>1, GetFilesRun
<1> DEFINE N == Cardinality(I)
           Good(w) == Agree(w) /\ Extends(v, w)
           M == {n \in Nat : n <= N => Good(f[n])}
<1>3. ASSUME NEW n \in Nat, \A m \in Nat : m < n => m \in M, n <= N
      PROVE  Good(f[n])
  <2>1. CASE n = 0
    <3>1. f[n] = v
      BY <1>2, <2>1 DEF IsRun
    <3> QED BY <3>1 DEF Extends, Agree, IdsBelow
  <2>2. CASE n > 0
    <3>1. n - 1 \in Nat /\ n - 1 < n /\ n - 1 <= N /\ n \in 1..N
      BY <1>1, <1>3, <2>2
    <3>2. Good(f[n - 1])
      BY <1>3, <3>1
    <3>3. f[n] = GetFile(f[n - 1], T, Ranked(I, n))
      BY <1>2, <3>1 DEF IsRun, Step
    <3>4. Ranked(I, n) \in Ino
      BY <3>1, RankedIn, InoAssumption
    <3>5. /\ Agree(GetFile(f[n - 1], T, Ranked(I, n)))
          /\ Extends(f[n - 1], GetFile(f[n - 1], T, Ranked(I, n)))
      BY <3>2, <3>4, GetFileAgrees
    <3> QED BY <3>2, <3>3, <3>5, ExtendsChain
  <2> QED BY <2>1, <2>2
<1> HIDE DEF Good
<1>4. N \in M
  <2>1. \A n \in Nat : (\A m \in Nat : m < n => m \in M) => n \in M
    BY <1>3
  <2> HIDE DEF M
  <2> QED BY <1>1, <2>1, NoLeastException
<1>5. Good(f[N])
  BY <1>1, <1>4
<1> QED BY <1>2, <1>5 DEF Good

-----------------------------------------------------------------------------
(* Paths.                                                                  *)

(* The path of a set of tags has each of them on it, and nothing else.     *)
LEMMA PathHasTags ==
  ASSUME NEW T \in SUBSET Tag
  PROVE  /\ Path(T) \in Seq(Tag)
         /\ {Path(T)[j] : j \in 1..Len(Path(T))} = T
<1> DEFINE N == Len(TagOrder)
           Has(p, n) == /\ p \in Seq(Tag)
                        /\ \A t \in Tag :
                             (\E j \in 1..Len(p) : p[j] = t)
                               <=> t \in T /\ \E j \in 1..n : TagOrder[j] = t
<1>1. N \in Nat /\ \A k \in 1..N : TagOrder[k] \in Tag
  BY TagOrderAssumption
<1>2. PICK f : Path(T) = f[N] /\ IsRun(f, N, "path", T, {}, <<>>)
  BY <1>1, PathRun
<1> DEFINE M == {n \in Nat : n <= N => Has(f[n], n)}
<1>3. ASSUME NEW n \in Nat, \A m \in Nat : m < n => m \in M, n <= N
      PROVE  Has(f[n], n)
  <2>1. CASE n = 0
    <3>1. f[n] = <<>>
      BY <1>2, <2>1 DEF IsRun
    <3> QED BY <2>1, <3>1
  <2>2. CASE n > 0
    <3>1. n - 1 \in Nat /\ n - 1 < n /\ n - 1 <= N /\ n \in 1..N
      BY <1>1, <1>3, <2>2
    <3>2. Has(f[n - 1], n - 1)
      BY <1>3, <3>1
    <3>3. f[n] = IF TagOrder[n] \in T THEN Append(f[n - 1], TagOrder[n]) ELSE f[n - 1]
      BY <1>2, <3>1 DEF IsRun, Step
    <3>4. TagOrder[n] \in Tag
      BY <1>1, <3>1
    <3>5. \A t : (\E j \in 1..n : TagOrder[j] = t)
                   <=> t = TagOrder[n] \/ \E j \in 1..(n - 1) : TagOrder[j] = t
      BY <3>1
    <3> DEFINE p == f[n - 1]
               q == Append(p, TagOrder[n])
    <3>6. CASE TagOrder[n] \in T
      <4>1. /\ p \in Seq(Tag) /\ q \in Seq(Tag) /\ Len(q) = Len(p) + 1
            /\ q[Len(p) + 1] = TagOrder[n]
            /\ \A j \in 1..Len(p) : q[j] = p[j]
        BY <3>2, <3>4, AppendProperties
      <4>2. f[n] = q
        BY <3>3, <3>6
      <4>6. \A t \in Tag : (\E j \in 1..Len(p) : p[j] = t)
                               <=> t \in T /\ \E j \in 1..(n - 1) : TagOrder[j] = t
        BY <3>2
      <4> HIDE DEF p, q
      <4>3. \A t : (\E j \in 1..Len(q) : q[j] = t)
                     <=> t = TagOrder[n] \/ \E j \in 1..Len(p) : p[j] = t
        <5>1. Len(p) \in Nat
          BY <4>1
        <5>2. ASSUME NEW j \in 1..Len(q) PROVE j = Len(p) + 1 \/ j \in 1..Len(p)
          BY <4>1, <5>1
        <5>3. Len(p) + 1 \in 1..Len(q) /\ \A j \in 1..Len(p) : j \in 1..Len(q)
          BY <4>1, <5>1
        <5> QED BY <4>1, <5>2, <5>3
      <4>4. \A t \in Tag : (\E j \in 1..Len(q) : q[j] = t)
                             <=> t \in T /\ \E j \in 1..n : TagOrder[j] = t
        BY <3>5, <3>6, <4>3, <4>6
      <4> QED BY <4>1, <4>2, <4>4
    <3>7. CASE TagOrder[n] \notin T
      <4>1. f[n] = p
        BY <3>3, <3>7
      <4> HIDE DEF p
      <4>2. Has(p, n)
        BY <3>2, <3>5, <3>7 DEF p
      <4> QED BY <4>1, <4>2
    <3> QED BY <3>6, <3>7
  <2> QED BY <2>1, <2>2
<1> HIDE DEF Has
<1>4. N \in M
  <2>1. \A n \in Nat : (\A m \in Nat : m < n => m \in M) => n \in M
    BY <1>3
  <2> HIDE DEF M
  <2> QED BY <1>1, <2>1, NoLeastException
<1>5. Has(Path(T), N)
  BY <1>1, <1>2, <1>4
<1>6. \A t \in Tag : \E j \in 1..N : TagOrder[j] = t
  BY TagOrderAssumption
<1> QED BY <1>5, <1>6 DEF Has

(* Prefixes of a sequence: their lengths, the prefixes they have, and how  *)
(* each comes from the one before.                                         *)
LEMMA PrefixIs ==
  ASSUME NEW S, NEW p \in Seq(S), NEW k \in 0..Len(p)
  PROVE  /\ Prefix(p, k) \in Seq(S) /\ Len(Prefix(p, k)) = k
         /\ \A j \in 1..k : Prefix(p, k)[j] = p[j]
BY SubSeqProperties DEF Prefix

LEMMA PrefixSteps ==
  ASSUME NEW S, NEW p \in Seq(S), NEW k \in 1..Len(p)
  PROVE  Prefix(p, k) = Append(Prefix(p, k - 1), p[k])
<1>1. k - 1 \in 0..Len(p) /\ k \in 0..Len(p) /\ p[k] \in S
  OBVIOUS
<1> DEFINE a == Prefix(p, k - 1)
           b == Prefix(p, k)
<1>2. a \in Seq(S) /\ Len(a) = k - 1 /\ \A j \in 1..(k - 1) : a[j] = p[j]
  BY <1>1, PrefixIs
<1>3. b \in Seq(S) /\ Len(b) = k /\ \A j \in 1..k : b[j] = p[j]
  BY <1>1, PrefixIs
<1> HIDE DEF a, b
<1>4. /\ Append(a, p[k]) \in Seq(S) /\ Len(Append(a, p[k])) = k
      /\ \A j \in 1..(k - 1) : Append(a, p[k])[j] = a[j]
      /\ Append(a, p[k])[k] = p[k]
  <2>1. Len(a) + 1 = k
    BY <1>2
  <2> QED BY <1>1, <1>2, <2>1, AppendProperties
<1>5. \A j \in 1..k : Append(a, p[k])[j] = b[j]
  <2>1. \A j \in 1..k : j = k \/ j \in 1..(k - 1)
    OBVIOUS
  <2> QED BY <2>1, <1>2, <1>3, <1>4
<1>6. Append(a, p[k]) = b
  BY <1>3, <1>4, <1>5, SeqEqual
<1> QED BY <1>6 DEF a, b

(* A sequence with one more element tells both. *)
LEMMA AppendTells ==
  ASSUME NEW S, NEW s \in Seq(S), NEW t \in Seq(S), NEW x \in S, NEW y \in S,
         Append(s, x) = Append(t, y)
  PROVE  s = t /\ x = y
<1>1. /\ Len(Append(s, x)) = Len(s) + 1 /\ Append(s, x)[Len(s) + 1] = x
      /\ \A j \in 1..Len(s) : Append(s, x)[j] = s[j]
  BY AppendProperties
<1>2. /\ Len(Append(t, y)) = Len(t) + 1 /\ Append(t, y)[Len(t) + 1] = y
      /\ \A j \in 1..Len(t) : Append(t, y)[j] = t[j]
  BY AppendProperties
<1>3. Len(s) = Len(t)
  BY <1>1, <1>2
<1>4. x = y /\ \A j \in 1..Len(s) : s[j] = t[j]
  BY <1>1, <1>2, <1>3
<1> QED BY <1>3, <1>4, SeqEqual

(* What a walk down a path compares: prefixes of one sequence.             *)
LEMMA PrefixOfAppend ==
  ASSUME NEW S, NEW p \in Seq(S), NEW x \in S, NEW k \in 0..Len(p)
  PROVE  Prefix(Append(p, x), k) = Prefix(p, k)
<1> DEFINE a == Append(p, x)
           b == Prefix(a, k)
           c == Prefix(p, k)
<1>1. a \in Seq(S) /\ Len(a) = Len(p) + 1 /\ \A j \in 1..Len(p) : a[j] = p[j]
  BY AppendProperties
<1>2. c \in Seq(S) /\ Len(c) = k /\ \A j \in 1..k : c[j] = p[j]
  BY PrefixIs
<1> HIDE DEF a
<1>3. b \in Seq(S) /\ Len(b) = k /\ \A j \in 1..k : b[j] = a[j]
  <2>1. k \in 0..Len(a)
    BY <1>1
  <2> QED BY <1>1, <2>1, PrefixIs
<1> HIDE DEF b, c
<1>4. \A j \in 1..k : b[j] = c[j]
  BY <1>1, <1>2, <1>3
<1>5. b = c
  BY <1>2, <1>3, <1>4, SeqEqual
<1> QED BY <1>5 DEF a, b, c

LEMMA PrefixWhole ==
  ASSUME NEW S, NEW p \in Seq(S)
  PROVE  Prefix(p, Len(p)) = p
<1> DEFINE q == Prefix(p, Len(p))
<1>1. Len(p) \in 0..Len(p)
  OBVIOUS
<1>2. q \in Seq(S) /\ Len(q) = Len(p) /\ \A j \in 1..Len(p) : q[j] = p[j]
  BY <1>1, PrefixIs
<1> HIDE DEF q
<1>3. q = p
  BY <1>2, SeqEqual
<1> QED BY <1>3 DEF q

(* What leads through q goes on through q one name further, the path of a  *)
(* child leads through q only if its parent's does or it is q, and no path *)
(* leads through that of its child.                                        *)
LEMMA ThroughOn ==
  ASSUME NEW S, NEW p \in Seq(S), NEW q \in Seq(S), NEW x \in S, LeadsThrough(p, q)
  PROVE  LeadsThrough(Append(p, x), q)
<1>1. Len(q) \in 0..Len(p) /\ Len(Append(p, x)) = Len(p) + 1
  BY AppendProperties DEF LeadsThrough
<1>2. Prefix(Append(p, x), Len(q)) = Prefix(p, Len(q))
  BY <1>1, PrefixOfAppend
<1> QED BY <1>1, <1>2 DEF LeadsThrough

LEMMA ThroughChild ==
  ASSUME NEW S, NEW p \in Seq(S), NEW q \in Seq(S), NEW x \in S,
         LeadsThrough(Append(p, x), q), ~LeadsThrough(p, q)
  PROVE  q = Append(p, x)
<1>1. Append(p, x) \in Seq(S) /\ Len(Append(p, x)) = Len(p) + 1
  BY AppendProperties
<1>2. CASE Len(q) <= Len(p)
  <2>1. Prefix(Append(p, x), Len(q)) = Prefix(p, Len(q))
    BY <1>2, PrefixOfAppend
  <2> QED BY <1>2, <2>1 DEF LeadsThrough
<1>3. CASE ~(Len(q) <= Len(p))
  <2>1. Len(q) = Len(Append(p, x))
    BY <1>1, <1>3 DEF LeadsThrough
  <2>2. Prefix(Append(p, x), Len(q)) = Append(p, x)
    BY <1>1, <2>1, PrefixWhole
  <2> QED BY <2>2 DEF LeadsThrough
<1> QED BY <1>2, <1>3

LEMMA ThroughItself ==
  ASSUME NEW S, NEW p \in Seq(S), NEW x \in S
  PROVE  LeadsThrough(p, p) /\ ~LeadsThrough(p, Append(p, x)) /\ ~LeadsThrough(<<>>, Append(p, x))
<1>1. Len(Append(p, x)) = Len(p) + 1 /\ Len(p) \in Nat /\ Len(<<>>) = 0
  BY AppendProperties
<1>2. Prefix(p, Len(p)) = p
  BY PrefixWhole
<1> QED BY <1>1, <1>2 DEF LeadsThrough

-----------------------------------------------------------------------------
(* The nodes: directories, their children, and those a client can walk to. *)

NodesAgree(D, K, E, M) ==
  /\ M \subseteq D /\ D \subseteq Dir /\ Root \in M
  /\ IsMap(K, D \X Spelling, D) /\ IsMap(E, D \X FileName, Ino)
  /\ DOMAIN K \cap DOMAIN E = {}
  /\ \A e \in DOMAIN K : PathOf[K[e]] = Append(PathOf[e[1]], e[2])
MadeAgree(K, M) ==
  /\ \A d \in M \ {Root} : \E c \in M, n \in Spelling : PathOf[d] = Append(PathOf[c], n)
  /\ \A c, d \in M : PathOf[c] = PathOf[d] => c = d
  /\ \A c \in M, n \in Spelling :
       <<c, n>> \in DOMAIN K <=> \E d \in M : PathOf[d] = Append(PathOf[c], n)

(* The entries a client can walk to; they are the names of the live files. *)
NameMap(E, M) == [e \in {x \in DOMAIN E : x[1] \in M} |-> E[e]]
FilesNamed(g, L, H, F) ==
  /\ L = {g[e] : e \in DOMAIN g}
  /\ \A e \in DOMAIN g : e = <<H[g[e]], F[g[e]]>>

(* The nodes a request leaves behind, and what it did not change. *)
IsWalk(w) ==
  /\ w = [at |-> w.at, dirs |-> w.dirs, kids |-> w.kids, entry |-> w.entry, made |-> w.made,
          shared |-> w.shared, end |-> w.end]
  /\ w.at \in w.dirs /\ w.shared \in BOOLEAN
Good(w) == IsWalk(w) /\ NodesAgree(w.dirs, w.kids, w.entry, w.made) /\ MadeAgree(w.kids, w.made)
Grown(u, w) ==
  /\ Good(w) /\ w.entry = u.entry /\ u.made \subseteq w.made
  /\ NameMap(w.entry, w.made) = NameMap(u.entry, u.made)
Copy(u, w) ==
  /\ Good(w) /\ w.made = u.made
  /\ NameMap(w.entry, w.made) = NameMap(u.entry, u.made)

LEMMA PathType ==
  ASSUME NEW d \in Dir
  PROVE  PathOf[d] \in Seq(Spelling)
BY DirAssumption

LEMMA ChildTells ==
  ASSUME NEW c \in Dir, NEW d \in Dir, NEW m \in Spelling, NEW n \in Spelling,
         Append(PathOf[c], m) = Append(PathOf[d], n)
  PROVE  PathOf[c] = PathOf[d] /\ m = n
<1> DEFINE p == PathOf[c]
           q == PathOf[d]
<1>1. p \in Seq(Spelling) /\ q \in Seq(Spelling) /\ Append(p, m) = Append(q, n)
  BY PathType
<1> HIDE DEF p, q
<1>2. p = q /\ m = n
  BY <1>1, AppendTells
<1> QED BY <1>2 DEF p, q

LEMMA FreshIs ==
  ASSUME NEW w, NEW n, Fresh(w, n) # {}
  PROVE  /\ NextId(w, n) \in Dir /\ NextId(w, n) \notin w.dirs
         /\ PathOf[NextId(w, n)] = Append(PathOf[w.at], n)
<1>1. NextId(w, n) \in Fresh(w, n)
  BY DEF NextId
<1> QED BY <1>1 DEF Fresh

(* A directory made where nothing is, in a node that clients know or not.  *)
LEMMA MadeNodes ==
  ASSUME NEW D, NEW K, NEW E, NEW M, NodesAgree(D, K, E, M),
         NEW a \in D, NEW n \in Spelling, <<a, n>> \notin DOMAIN K, <<a, n>> \notin DOMAIN E,
         NEW d \in Dir \ D, PathOf[d] = Append(PathOf[a], n),
         NEW N, N = M \/ N = M \cup {d}
  PROVE  NodesAgree(D \cup {d}, Put(K, <<a, n>>, d), E, N)
<1> DEFINE x == <<a, n>>
           k == Put(K, x, d)
<1>1. x = <<a, n>> /\ x[1] = a /\ x[2] = n /\ x \in (D \cup {d}) \X Spelling
  OBVIOUS
<1> HIDE DEF x
<1>2. /\ DOMAIN k = DOMAIN K \cup {x} /\ k = [e \in DOMAIN k |-> k[e]] /\ k[x] = d
      /\ \A e \in DOMAIN K : k[e] = IF e = x THEN d ELSE K[e]
  BY DEF Put
<1> HIDE DEF k
<1>3. DOMAIN K \subseteq D \X Spelling /\ \A e \in DOMAIN K : K[e] \in D
  BY DEF NodesAgree, IsMap
<1>4. IsMap(k, (D \cup {d}) \X Spelling, D \cup {d})
  BY <1>1, <1>2, <1>3 DEF IsMap
<1>5. IsMap(E, (D \cup {d}) \X FileName, Ino)
  BY DEF NodesAgree, IsMap
<1>6. \A e \in DOMAIN k : PathOf[k[e]] = Append(PathOf[e[1]], e[2])
  BY <1>1, <1>2 DEF NodesAgree
<1>7. DOMAIN k \cap DOMAIN E = {}
  BY <1>1, <1>2 DEF NodesAgree
<1>8. N \subseteq D \cup {d} /\ D \cup {d} \subseteq Dir /\ Root \in N
  BY DEF NodesAgree
<1> QED BY <1>1, <1>4, <1>5, <1>6, <1>7, <1>8 DEF NodesAgree, k

LEMMA MadeKnown ==
  ASSUME NEW D, NEW K, NEW E, NEW M, NodesAgree(D, K, E, M), MadeAgree(K, M),
         NEW a \in M, NEW n \in Spelling, <<a, n>> \notin DOMAIN K,
         NEW d \in Dir \ D, PathOf[d] = Append(PathOf[a], n)
  PROVE  MadeAgree(Put(K, <<a, n>>, d), M \cup {d})
<1> DEFINE k == Put(K, <<a, n>>, d)
           N == M \cup {d}
<1>1. DOMAIN k = DOMAIN K \cup {<<a, n>>}
  BY DEF Put
<1>2. M \subseteq D /\ D \subseteq Dir /\ DOMAIN K \subseteq D \X Spelling
  BY DEF NodesAgree, IsMap
<1> HIDE DEF k
<1>3. \A c \in M : PathOf[c] # PathOf[d]
  BY DEF MadeAgree
<1>4. ASSUME NEW c \in M, NEW m \in Spelling, PathOf[d] = Append(PathOf[c], m)
      PROVE  c = a /\ m = n
  <2>1. Append(PathOf[c], m) = Append(PathOf[a], n) /\ c \in Dir /\ a \in Dir
    BY <1>2, <1>4
  <2>2. PathOf[c] = PathOf[a] /\ m = n
    BY <2>1, ChildTells
  <2> QED BY <2>2 DEF MadeAgree
<1>5. ASSUME NEW b \in N, NEW m \in Spelling, PathOf[b] = Append(PathOf[d], m)
      PROVE  FALSE
  <2>1. PathOf[d] \in Seq(Spelling) /\ PathOf[b] \in Seq(Spelling) /\ PathOf[Root] = <<>>
    BY <1>2, PathType, DirAssumption
  <2>2. Len(PathOf[b]) = Len(PathOf[d]) + 1 /\ Len(PathOf[d]) \in Nat
    BY <1>5, <2>1, AppendProperties
  <2>3. b \in M /\ b # Root
    <3>1. Len(<<>>) = 0
      OBVIOUS
    <3> QED BY <2>1, <2>2, <3>1
  <2>4. PICK c \in M, l \in Spelling : PathOf[b] = Append(PathOf[c], l)
    BY <2>3 DEF MadeAgree
  <2>5. Append(PathOf[c], l) = Append(PathOf[d], m) /\ c \in Dir /\ d \in Dir
    BY <1>2, <1>5, <2>4
  <2>6. PathOf[c] = PathOf[d]
    BY <2>5, ChildTells
  <2> QED BY <1>3, <2>6
<1>6. ASSUME NEW c \in N, NEW m \in Spelling
      PROVE  <<c, m>> \in DOMAIN k <=> \E b \in N : PathOf[b] = Append(PathOf[c], m)
  <2>1. CASE c = d
    <3>1. <<c, m>> \notin DOMAIN K /\ <<c, m>> # <<a, n>>
      BY <1>2, <2>1
    <3> QED BY <1>1, <1>5, <2>1, <3>1
  <2>2. CASE c \in M /\ <<c, m>> = <<a, n>>
    <3>1. d \in N /\ PathOf[d] = Append(PathOf[c], m)
      BY <2>2
    <3> QED BY <1>1, <2>2, <3>1
  <2>3. CASE c \in M /\ <<c, m>> # <<a, n>>
    <3>1. <<c, m>> \in DOMAIN K <=> \E b \in M : PathOf[b] = Append(PathOf[c], m)
      BY <2>3 DEF MadeAgree
    <3>2. PathOf[d] # Append(PathOf[c], m)
      BY <1>4, <2>3
    <3> QED BY <1>1, <2>3, <3>1, <3>2
  <2> QED BY <2>1, <2>2, <2>3
<1>7. \A b \in N \ {Root} : \E c \in N, m \in Spelling : PathOf[b] = Append(PathOf[c], m)
  BY DEF MadeAgree
<1>8. \A b, c \in N : PathOf[b] = PathOf[c] => b = c
  BY <1>3 DEF MadeAgree
<1> HIDE DEF N
<1>9. MadeAgree(k, N)
  BY <1>6, <1>7, <1>8 DEF MadeAgree
<1> QED BY <1>9 DEF k, N

(* In a node that no client knows, nothing is made for them. *)
LEMMA SameMade ==
  ASSUME NEW K, NEW M, MadeAgree(K, M), NEW k,
         \A c \in M, n \in Spelling : <<c, n>> \in DOMAIN k <=> <<c, n>> \in DOMAIN K
  PROVE  MadeAgree(k, M)
BY DEF MadeAgree

LEMMA SameNames ==
  ASSUME NEW E, NEW M, NEW F, NEW N,
         \A e : e \in DOMAIN F /\ e[1] \in N <=> e \in DOMAIN E /\ e[1] \in M,
         \A e \in DOMAIN E : e[1] \in M => F[e] = E[e]
  PROVE  NameMap(F, N) = NameMap(E, M)
<1>1. {x \in DOMAIN F : x[1] \in N} = {x \in DOMAIN E : x[1] \in M}
  OBVIOUS
<1> QED BY <1>1 DEF NameMap

LEMMA MakeGrows ==
  ASSUME NEW w, Good(w), NEW n \in Spelling, Fresh(w, n) # {},
         <<w.at, n>> \notin DOMAIN w.kids, <<w.at, n>> \notin DOMAIN w.entry
  PROVE  /\ Grown(w, Make(w, n)) /\ Make(w, n).end = w.end
         /\ PathOf[Make(w, n).at] = Append(PathOf[w.at], n)
<1> DEFINE d == NextId(w, n)
           v == Make(w, n)
           a == w.at
           N == IF a \in w.made THEN w.made \cup {d} ELSE w.made
           k == Put(w.kids, <<a, n>>, d)
<1>1. d \in Dir \ w.dirs /\ PathOf[d] = Append(PathOf[a], n)
  BY FreshIs
<1>2. IsWalk(w) /\ NodesAgree(w.dirs, w.kids, w.entry, w.made) /\ MadeAgree(w.kids, w.made)
  BY DEF Good
<1>3. a \in w.dirs /\ (N = w.made \/ N = w.made \cup {d})
  BY <1>2 DEF IsWalk
<1>4. v = [w EXCEPT !.at = d, !.dirs = @ \cup {d}, !.kids = k, !.made = N]
  BY DEF Make
<1> HIDE DEF k, d, N
<1>5. /\ v = [at |-> d, dirs |-> w.dirs \cup {d}, kids |-> k, entry |-> w.entry, made |-> N,
              shared |-> w.shared, end |-> w.end]
  BY <1>2, <1>4 DEF IsWalk
<1> HIDE DEF v
<1>6. /\ v.at = d /\ v.dirs = w.dirs \cup {d} /\ v.kids = k /\ v.entry = w.entry /\ v.made = N
      /\ v.shared = w.shared /\ v.end = w.end
  BY <1>5
<1>7. IsWalk(v)
  BY <1>2, <1>5, <1>6 DEF IsWalk
<1>8. NodesAgree(w.dirs \cup {d}, k, w.entry, N)
  BY <1>1, <1>2, <1>3, MadeNodes DEF k
<1>9. MadeAgree(k, N)
  <2>1. CASE a \in w.made
    BY <1>1, <1>2, <2>1, MadeKnown DEF k, N
  <2>2. CASE a \notin w.made
    <3>1. \A c \in w.made, m \in Spelling : <<c, m>> \in DOMAIN k <=> <<c, m>> \in DOMAIN w.kids
      BY <2>2 DEF k, Put
    <3> QED BY <1>2, <2>2, <3>1, SameMade DEF N
  <2> QED BY <2>1, <2>2
<1>10. NameMap(w.entry, N) = NameMap(w.entry, w.made)
  <2>1. DOMAIN w.entry \subseteq w.dirs \X FileName
    BY <1>2 DEF NodesAgree, IsMap
  <2>2. \A e : e \in DOMAIN w.entry /\ e[1] \in N <=> e \in DOMAIN w.entry /\ e[1] \in w.made
    BY <1>1, <1>3, <2>1
  <2> QED BY <2>2, SameNames
<1>11. w.made \subseteq N
  BY <1>3
<1> QED BY <1>1, <1>6, <1>7, <1>8, <1>9, <1>10, <1>11 DEF Good, Grown, v

(* A clone of a directory no client knows, in place of it.                 *)
LEMMA CopiedIs ==
  ASSUME NEW f, NEW old, NEW new, NEW N, \A e \in DOMAIN f : e = <<e[1], e[2]>> /\ e[1] # new
  PROVE  LET g == Copied(f, old, new)
         IN /\ g = [e \in DOMAIN g |-> g[e]]
            /\ \A x : <<new, x>> \in DOMAIN g <=> <<old, x>> \in DOMAIN f
            /\ \A x : <<new, x>> \in DOMAIN g => g[<<new, x>>] = f[<<old, x>>]
            /\ \A e : e[1] # new => (e \in DOMAIN g <=> e \in DOMAIN f)
            /\ \A e \in DOMAIN f : g[e] = f[e]
            /\ \A e \in DOMAIN g : e = <<e[1], e[2]>>
<1> DEFINE X == {<<new, x[2]>> : x \in {y \in DOMAIN f : y[1] = old}}
           g == Copied(f, old, new)
<1>1. g = [e \in DOMAIN f \cup X |-> IF e[1] = new THEN f[<<old, e[2]>>] ELSE f[e]]
  BY DEF Copied
<1>2. \A e \in X : e = <<e[1], e[2]>> /\ e[1] = new /\ <<old, e[2]>> \in DOMAIN f
  OBVIOUS
<1>3. \A x : <<old, x>> \in DOMAIN f => <<new, x>> \in X
  <2> SUFFICES ASSUME NEW x, <<old, x>> \in DOMAIN f PROVE <<new, x>> \in X
    OBVIOUS
  <2>1. <<old, x>>[1] = old /\ <<old, x>>[2] = x
    OBVIOUS
  <2> QED BY <2>1
<1> HIDE DEF X
<1>4. DOMAIN g = DOMAIN f \cup X /\ g = [e \in DOMAIN g |-> g[e]]
  BY <1>1
<1>5. \A e \in DOMAIN f : g[e] = f[e]
  BY <1>1
<1>6. ASSUME NEW x PROVE <<new, x>> \in DOMAIN g <=> <<old, x>> \in DOMAIN f
  <2>1. <<new, x>>[1] = new /\ <<new, x>>[2] = x
    OBVIOUS
  <2> QED BY <1>2, <1>3, <1>4, <2>1
<1>7. ASSUME NEW x, <<new, x>> \in DOMAIN g PROVE g[<<new, x>>] = f[<<old, x>>]
  <2>1. <<new, x>>[1] = new /\ <<new, x>>[2] = x
    OBVIOUS
  <2> QED BY <1>1, <1>4, <1>7, <2>1
<1>8. \A e : e[1] # new => (e \in DOMAIN g <=> e \in DOMAIN f)
  BY <1>2, <1>4
<1>9. \A e \in DOMAIN g : e = <<e[1], e[2]>>
  BY <1>2, <1>4
<1> HIDE DEF g
<1> QED BY <1>4, <1>5, <1>6, <1>7, <1>8, <1>9 DEF g

LEMMA CloneCopies ==
  ASSUME NEW w, Good(w), NEW n \in Spelling, Fresh(w, n) # {}, <<w.at, n>> \in DOMAIN w.kids
  PROVE  Copy(w, Clone(w, n))
<1> DEFINE d == NextId(w, n)
           v == Clone(w, n)
           x == <<w.at, n>>
           old == w.kids[x]
           K == Copied(w.kids, old, d)
           E == Copied(w.entry, old, d)
           k == Put(K, x, d)
           D == w.dirs \cup {d}
<1>1. d \in Dir \ w.dirs /\ PathOf[d] = Append(PathOf[w.at], n)
  BY FreshIs
<1>2. IsWalk(w) /\ NodesAgree(w.dirs, w.kids, w.entry, w.made) /\ MadeAgree(w.kids, w.made)
  BY DEF Good
<1>3. v = [w EXCEPT !.at = d, !.dirs = D, !.entry = E, !.kids = k]
  BY DEF Clone
<1>a. /\ x = <<w.at, n>> /\ x[1] = w.at /\ x[2] = n /\ x \in DOMAIN w.kids
      /\ old = w.kids[x] /\ K = Copied(w.kids, old, d) /\ E = Copied(w.entry, old, d)
      /\ D = w.dirs \cup {d} /\ k = Put(K, x, d)
  OBVIOUS
<1> HIDE DEF k, K, E, D, d, x, old
<1>4. v = [at |-> d, dirs |-> D, kids |-> k, entry |-> E, made |-> w.made,
           shared |-> w.shared, end |-> w.end]
  BY <1>2, <1>3 DEF IsWalk
<1> HIDE DEF v
<1>5. /\ v.at = d /\ v.dirs = D /\ v.kids = k /\ v.entry = E /\ v.made = w.made
      /\ v.shared = w.shared
  BY <1>4
<1>6. IsWalk(v)
  BY <1>2, <1>4, <1>5, <1>a DEF IsWalk
<1>7. /\ w.made \subseteq w.dirs /\ w.dirs \subseteq Dir /\ Root \in w.made
      /\ DOMAIN w.kids \subseteq w.dirs \X Spelling /\ \A e \in DOMAIN w.kids : w.kids[e] \in w.dirs
      /\ DOMAIN w.entry \subseteq w.dirs \X FileName /\ \A e \in DOMAIN w.entry : w.entry[e] \in Ino
      /\ DOMAIN w.kids \cap DOMAIN w.entry = {}
      /\ \A e \in DOMAIN w.kids : PathOf[w.kids[e]] = Append(PathOf[e[1]], e[2])
  BY <1>2 DEF NodesAgree, IsMap
<1>8. /\ \A y : <<d, y>> \in DOMAIN K <=> <<old, y>> \in DOMAIN w.kids
      /\ \A y : <<d, y>> \in DOMAIN K => K[<<d, y>>] = w.kids[<<old, y>>]
      /\ \A e : e[1] # d => (e \in DOMAIN K <=> e \in DOMAIN w.kids)
      /\ \A e \in DOMAIN w.kids : K[e] = w.kids[e]
      /\ \A e \in DOMAIN K : e = <<e[1], e[2]>>
  <2>1. \A e \in DOMAIN w.kids : e = <<e[1], e[2]>> /\ e[1] # d
    BY <1>1, <1>7
  <2> QED BY <1>a, <2>1, CopiedIs
<1>9. /\ E = [e \in DOMAIN E |-> E[e]]
      /\ \A y : <<d, y>> \in DOMAIN E <=> <<old, y>> \in DOMAIN w.entry
      /\ \A y : <<d, y>> \in DOMAIN E => E[<<d, y>>] = w.entry[<<old, y>>]
      /\ \A e : e[1] # d => (e \in DOMAIN E <=> e \in DOMAIN w.entry)
      /\ \A e \in DOMAIN w.entry : E[e] = w.entry[e]
      /\ \A e \in DOMAIN E : e = <<e[1], e[2]>>
  <2>1. \A e \in DOMAIN w.entry : e = <<e[1], e[2]>> /\ e[1] # d
    BY <1>1, <1>7
  <2> QED BY <1>a, <2>1, CopiedIs
<1>10. /\ x \in DOMAIN K /\ DOMAIN k = DOMAIN K /\ k = [e \in DOMAIN k |-> k[e]]
       /\ k[x] = d /\ \A e \in DOMAIN K : e # x => k[e] = K[e]
  <2>1. x \in DOMAIN K
    <3>1. x[1] # d
      BY <1>1, <1>2, <1>a DEF IsWalk
    <3> QED BY <1>8, <1>a, <3>1
  <2> QED BY <1>a, <2>1 DEF Put
<1>11. old \in w.dirs /\ PathOf[old] = PathOf[d]
  BY <1>1, <1>7, <1>a
<1>12. ASSUME NEW e \in DOMAIN K, e # x
       PROVE  e \in D \X Spelling /\ K[e] \in D /\ PathOf[K[e]] = Append(PathOf[e[1]], e[2])
  <2>1. CASE e[1] = d
    <3>1. e = <<d, e[2]>> /\ <<old, e[2]>> \in DOMAIN w.kids /\ K[e] = w.kids[<<old, e[2]>>]
      BY <1>8, <2>1
    <3>2. <<old, e[2]>>[1] = old /\ <<old, e[2]>>[2] = e[2]
      OBVIOUS
    <3>3. e[2] \in Spelling /\ K[e] \in w.dirs /\ PathOf[K[e]] = Append(PathOf[old], e[2])
      BY <1>7, <3>1, <3>2
    <3> QED BY <1>11, <1>a, <2>1, <3>1, <3>3
  <2>2. CASE e[1] # d
    <3>1. e \in DOMAIN w.kids /\ K[e] = w.kids[e]
      BY <1>8, <2>2
    <3>2. e \in w.dirs \X Spelling /\ K[e] \in w.dirs /\ PathOf[K[e]] = Append(PathOf[e[1]], e[2])
      BY <1>7, <3>1
    <3> QED BY <1>a, <3>2
  <2> QED BY <2>1, <2>2
<1>13. ASSUME NEW e \in DOMAIN E PROVE e \in D \X FileName /\ E[e] \in Ino
  <2>1. CASE e[1] = d
    <3>1. e = <<d, e[2]>> /\ <<old, e[2]>> \in DOMAIN w.entry /\ E[e] = w.entry[<<old, e[2]>>]
      BY <1>9, <2>1
    <3>2. <<old, e[2]>>[2] = e[2]
      OBVIOUS
    <3>3. e[2] \in FileName /\ E[e] \in Ino
      BY <1>7, <3>1, <3>2
    <3> QED BY <1>a, <3>1, <3>3
  <2>2. CASE e[1] # d
    <3>1. e \in DOMAIN w.entry /\ E[e] = w.entry[e]
      BY <1>9, <2>2
    <3>2. e \in w.dirs \X FileName /\ E[e] \in Ino
      BY <1>7, <3>1
    <3> QED BY <1>a, <3>2
  <2> QED BY <2>1, <2>2
<1>14. DOMAIN k \cap DOMAIN E = {}
  <2> SUFFICES ASSUME NEW e, e \in DOMAIN K, e \in DOMAIN E PROVE FALSE
    BY <1>10
  <2>1. CASE e[1] = d
    <3>1. e = <<d, e[2]>>
      BY <1>8, <2>1
    <3>2. <<old, e[2]>> \in DOMAIN w.kids /\ <<old, e[2]>> \in DOMAIN w.entry
      BY <1>8, <1>9, <3>1
    <3> QED BY <1>7, <3>2
  <2>2. CASE e[1] # d
    BY <1>7, <1>8, <1>9, <2>2
  <2> QED BY <2>1, <2>2
<1>15. NodesAgree(D, k, E, w.made)
  <2>1. IsMap(k, D \X Spelling, D)
    <3>1. x \in D \X Spelling /\ d \in D
      BY <1>2, <1>a DEF IsWalk
    <3>2. DOMAIN k \subseteq D \X Spelling /\ \A e \in DOMAIN k : k[e] \in D
      BY <1>10, <1>12, <3>1
    <3> QED BY <1>10, <3>2 DEF IsMap
  <2>2. IsMap(E, D \X FileName, Ino)
    BY <1>9, <1>13 DEF IsMap
  <2>3. \A e \in DOMAIN k : PathOf[k[e]] = Append(PathOf[e[1]], e[2])
    BY <1>1, <1>10, <1>12, <1>a
  <2>4. w.made \subseteq D /\ D \subseteq Dir
    BY <1>1, <1>7, <1>a
  <2> QED BY <1>7, <1>14, <2>1, <2>2, <2>3, <2>4 DEF NodesAgree
<1>16. MadeAgree(k, w.made)
  <2>1. ASSUME NEW c \in w.made, NEW m \in Spelling
        PROVE  <<c, m>> \in DOMAIN k <=> <<c, m>> \in DOMAIN w.kids
    <3>1. <<c, m>>[1] = c /\ c # d
      BY <1>1, <1>7
    <3> QED BY <1>8, <1>10, <3>1
  <2> QED BY <1>2, <2>1, SameMade
<1>17. NameMap(E, w.made) = NameMap(w.entry, w.made)
  <2>1. \A e : e \in DOMAIN E /\ e[1] \in w.made <=> e \in DOMAIN w.entry /\ e[1] \in w.made
    BY <1>1, <1>7, <1>9
  <2> QED BY <1>9, <2>1, SameNames
<1> QED BY <1>5, <1>6, <1>15, <1>16, <1>17 DEF Copy, Good, v

(* The steps of a walk that change no node. *)
LEMMA SameNodes ==
  ASSUME NEW w, Good(w), NEW v, IsWalk(v), v.dirs = w.dirs, v.kids = w.kids, v.entry = w.entry,
         v.made = w.made
  PROVE  Grown(w, v) /\ Copy(w, v)
BY DEF Good, Grown, Copy

LEMMA MovedNodes ==
  ASSUME NEW w, Good(w), NEW a \in w.dirs
  PROVE  LET v == [w EXCEPT !.at = a]
         IN Grown(w, v) /\ Copy(w, v) /\ v.at = a /\ v.kids = w.kids /\ v.entry = w.entry
            /\ v.end = w.end
<1> DEFINE v == [w EXCEPT !.at = a]
<1>1. IsWalk(w)
  BY DEF Good
<1>2. /\ v = [at |-> a, dirs |-> w.dirs, kids |-> w.kids, entry |-> w.entry, made |-> w.made,
              shared |-> w.shared, end |-> w.end]
  BY <1>1 DEF IsWalk
<1> HIDE DEF v
<1>3. /\ v.at = a /\ v.dirs = w.dirs /\ v.kids = w.kids /\ v.entry = w.entry /\ v.made = w.made
      /\ v.shared = w.shared /\ v.end = w.end
  BY <1>2
<1>4. IsWalk(v)
  BY <1>1, <1>2, <1>3 DEF IsWalk
<1> QED BY <1>3, <1>4, SameNodes DEF v

LEMMA EndedNodes ==
  ASSUME NEW w, Good(w), NEW e
  PROVE  LET v == [w EXCEPT !.end = e] IN Grown(w, v) /\ Copy(w, v) /\ v.end = e
<1> DEFINE v == [w EXCEPT !.end = e]
<1>1. IsWalk(w)
  BY DEF Good
<1>2. /\ v = [at |-> w.at, dirs |-> w.dirs, kids |-> w.kids, entry |-> w.entry, made |-> w.made,
              shared |-> w.shared, end |-> e]
  BY <1>1 DEF IsWalk
<1> HIDE DEF v
<1>3. /\ v.at = w.at /\ v.dirs = w.dirs /\ v.kids = w.kids /\ v.entry = w.entry
      /\ v.made = w.made /\ v.shared = w.shared /\ v.end = e
  BY <1>2
<1>4. IsWalk(v)
  BY <1>1, <1>2, <1>3 DEF IsWalk
<1> QED BY <1>3, <1>4, SameNodes DEF v

LEMMA UnsharedNodes ==
  ASSUME NEW w, Good(w), NEW b \in BOOLEAN
  PROVE  Copy(w, [w EXCEPT !.shared = b])
<1> DEFINE v == [w EXCEPT !.shared = b]
<1>1. IsWalk(w)
  BY DEF Good
<1>2. /\ v = [at |-> w.at, dirs |-> w.dirs, kids |-> w.kids, entry |-> w.entry, made |-> w.made,
              shared |-> b, end |-> w.end]
  BY <1>1 DEF IsWalk
<1> HIDE DEF v
<1>3. /\ v.at = w.at /\ v.dirs = w.dirs /\ v.kids = w.kids /\ v.entry = w.entry
      /\ v.made = w.made /\ v.shared = b /\ v.end = w.end
  BY <1>2
<1>4. IsWalk(v)
  BY <1>1, <1>2, <1>3 DEF IsWalk
<1> QED BY <1>3, <1>4, SameNodes DEF v

LEMMA GrownChain ==
  ASSUME NEW u, NEW v, NEW w, Grown(u, v), Grown(v, w)
  PROVE  Grown(u, w)
BY DEF Grown

LEMMA CopyChain ==
  ASSUME NEW u, NEW v, NEW w, Copy(u, v), Copy(v, w)
  PROVE  Copy(u, w)
BY DEF Copy

(* One step of ensure_real_path_for_tags, and all of them.                 *)
LEMMA EnsureStep ==
  ASSUME NEW w, Good(w), NEW n \in Spelling
  PROVE  /\ Grown(w, Ensure(w, n))
         /\ Ensure(w, n).end = "ok" =>
              w.end = "ok" /\ PathOf[Ensure(w, n).at] = Append(PathOf[w.at], n)
<1>1. CASE w.end # "ok"
  <2>1. Ensure(w, n) = w
    BY <1>1 DEF Ensure
  <2> QED BY <1>1, <2>1 DEF Good, Grown
<1>2. CASE w.end = "ok" /\ <<w.at, n>> \in DOMAIN w.kids
  <2> DEFINE a == w.kids[<<w.at, n>>]
  <2>1. Ensure(w, n) = [w EXCEPT !.at = a]
    BY <1>2 DEF Ensure
  <2>2. a \in w.dirs /\ PathOf[a] = Append(PathOf[w.at], n)
    BY <1>2 DEF Good, NodesAgree, IsMap
  <2> HIDE DEF a
  <2>3. Grown(w, [w EXCEPT !.at = a]) /\ [w EXCEPT !.at = a].at = a
    BY <2>2, MovedNodes
  <2> QED BY <1>2, <2>1, <2>2, <2>3
<1>3. CASE w.end = "ok" /\ <<w.at, n>> \notin DOMAIN w.kids
  <2>1. CASE <<w.at, n>> \in DOMAIN w.entry
    <3>1. Ensure(w, n) = [w EXCEPT !.end = "file"]
      BY <1>3, <2>1 DEF Ensure
    <3> QED BY <3>1, EndedNodes
  <2>2. CASE <<w.at, n>> \notin DOMAIN w.entry /\ Fresh(w, n) = {}
    <3>1. Ensure(w, n) = [w EXCEPT !.end = "full"]
      BY <1>3, <2>2 DEF Ensure
    <3> QED BY <3>1, EndedNodes
  <2>3. CASE <<w.at, n>> \notin DOMAIN w.entry /\ Fresh(w, n) # {}
    <3>1. Ensure(w, n) = Make(w, n)
      BY <1>3, <2>3 DEF Ensure
    <3> QED BY <1>3, <2>3, <3>1, MakeGrows
  <2> QED BY <2>1, <2>2, <2>3
<1> QED BY <1>1, <1>2, <1>3

LEMMA EnsureWalks ==
  ASSUME NEW w, Good(w), w.at = Root, NEW p \in Seq(Spelling)
  PROVE  LET v == Along(Ensure, w, p)
         IN Grown(w, v) /\ (v.end = "ok" => PathOf[v.at] = p)
<1> DEFINE N == Len(p)
           Is(v, n) == Grown(w, v) /\ (v.end = "ok" => PathOf[v.at] = Prefix(p, n))
<1>1. N \in Nat /\ \A k \in 1..N : p[k] \in Spelling
  OBVIOUS
<1>2. PICK f : Along(Ensure, w, p) = f[N] /\ IsRun(f, N, "ensure", p, {}, w)
  BY <1>1, EnsureRun
<1> DEFINE M == {n \in Nat : n <= N => Is(f[n], n)}
<1>3. ASSUME NEW n \in Nat, \A m \in Nat : m < n => m \in M, n <= N
      PROVE  Is(f[n], n)
  <2>1. CASE n = 0
    <3>1. f[n] = w
      BY <1>2, <2>1 DEF IsRun
    <3>2. Prefix(p, 0) = <<>>
      <4>1. Prefix(p, 0) \in Seq(Spelling) /\ Len(Prefix(p, 0)) = 0
        BY <1>1, PrefixIs
      <4> QED BY <4>1, EmptySeq
    <3>3. PathOf[Root] = <<>>
      BY DirAssumption
    <3> QED BY <2>1, <3>1, <3>2, <3>3 DEF Good, Grown
  <2>2. CASE n > 0
    <3>1. n - 1 \in Nat /\ n - 1 < n /\ n - 1 <= N /\ n \in 1..N /\ p[n] \in Spelling
      BY <1>1, <1>3, <2>2
    <3>2. Is(f[n - 1], n - 1)
      BY <1>3, <3>1
    <3>3. f[n] = Ensure(f[n - 1], p[n])
      BY <1>2, <3>1 DEF IsRun, Step
    <3>4. Prefix(p, n) = Append(Prefix(p, n - 1), p[n])
      BY <3>1, PrefixSteps
    <3>5. Good(f[n - 1])
      BY <3>2 DEF Grown
    <3>6. /\ Grown(f[n - 1], f[n])
          /\ f[n].end = "ok" =>
               f[n - 1].end = "ok" /\ PathOf[f[n].at] = Append(PathOf[f[n - 1].at], p[n])
      BY <3>1, <3>3, <3>5, EnsureStep
    <3> QED BY <3>2, <3>4, <3>6, GrownChain
  <2> QED BY <2>1, <2>2
<1> HIDE DEF Is
<1>4. N \in M
  <2>1. \A n \in Nat : (\A m \in Nat : m < n => m \in M) => n \in M
    BY <1>3
  <2> HIDE DEF M
  <2> QED BY <1>1, <2>1, NoLeastException
<1>5. Is(f[N], N)
  BY <1>1, <1>4
<1>6. Prefix(p, N) = p
  BY PrefixWhole
<1> QED BY <1>2, <1>5, <1>6 DEF Is

(* One step of get_mutable_inode, and all of them.                         *)
LEMMA CloneStep ==
  ASSUME NEW w, Good(w), NEW n \in Spelling
  PROVE  Copy(w, CloneChild(w, n))
<1>1. CASE <<w.at, n>> \notin DOMAIN w.kids
  <2>1. CloneChild(w, n) = w
    BY <1>1 DEF CloneChild
  <2> QED BY <2>1 DEF Copy
<1>2. CASE <<w.at, n>> \in DOMAIN w.kids /\ Fresh(w, n) = {}
  <2>1. CloneChild(w, n) = [w EXCEPT !.end = "full"]
    BY <1>2 DEF CloneChild
  <2> QED BY <2>1, EndedNodes
<1>3. CASE <<w.at, n>> \in DOMAIN w.kids /\ Fresh(w, n) # {}
  <2>1. CloneChild(w, n) = Clone(w, n)
    BY <1>3 DEF CloneChild
  <2> QED BY <1>3, <2>1, CloneCopies
<1> QED BY <1>1, <1>2, <1>3

LEMMA CloneWalks ==
  ASSUME NEW w, Good(w), NEW p \in Seq(Spelling)
  PROVE  Copy(w, Along(CloneChild, w, p))
<1> DEFINE N == Len(p)
<1>1. N \in Nat /\ \A k \in 1..N : p[k] \in Spelling
  OBVIOUS
<1>2. PICK f : Along(CloneChild, w, p) = f[N] /\ IsRun(f, N, "clone", p, {}, w)
  BY <1>1, CloneRun
<1> DEFINE M == {n \in Nat : n <= N => Copy(w, f[n])}
<1>3. ASSUME NEW n \in Nat, \A m \in Nat : m < n => m \in M, n <= N
      PROVE  Copy(w, f[n])
  <2>1. CASE n = 0
    <3>1. f[n] = w
      BY <1>2, <2>1 DEF IsRun
    <3> QED BY <3>1 DEF Copy
  <2>2. CASE n > 0
    <3>1. n - 1 \in Nat /\ n - 1 < n /\ n - 1 <= N /\ n \in 1..N /\ p[n] \in Spelling
      BY <1>1, <1>3, <2>2
    <3>2. Copy(w, f[n - 1]) /\ Good(f[n - 1])
      BY <1>3, <3>1 DEF Copy
    <3>3. f[n] = CloneChild(f[n - 1], p[n])
      BY <1>2, <3>1 DEF IsRun, Step
    <3>4. Copy(f[n - 1], f[n])
      BY <3>1, <3>2, <3>3, CloneStep
    <3> QED BY <3>2, <3>4, CopyChain
  <2> QED BY <2>1, <2>2
<1>4. N \in M
  <2>1. \A n \in Nat : (\A m \in Nat : m < n => m \in M) => n \in M
    BY <1>3
  <2> HIDE DEF M
  <2> QED BY <1>1, <2>1, NoLeastException
<1> QED BY <1>1, <1>2, <1>4

(* get_mutable_inode copies nodes and leaves those that clients know.      *)
LEMMA MutableCopies ==
  ASSUME NEW v, Good(v), NEW d \in Dir
  PROVE  Copy(v, Mutable(v, d))
<1> DEFINE w == [v EXCEPT !.at = Root]
<1>1. Root \in v.dirs
  BY DEF Good, NodesAgree
<1>2. Copy(v, w)
  BY <1>1, MovedNodes
<1>3. Good(w)
  BY <1>2 DEF Copy
<1>4. Copy(w, [w EXCEPT !.shared = FALSE])
  BY <1>3, UnsharedNodes
<1>5. Copy(w, Along(CloneChild, w, PathOf[d]))
  BY <1>3, PathType, CloneWalks
<1>6. \/ Mutable(v, d) = [w EXCEPT !.shared = FALSE]
      \/ Mutable(v, d) = Along(CloneChild, w, PathOf[d])
      \/ Mutable(v, d) = w
  BY DEF Mutable
<1> HIDE DEF w
<1> QED BY <1>2, <1>4, <1>5, <1>6, CopyChain

-----------------------------------------------------------------------------
(* What an unlink, or a create in place of a directory, cuts off.          *)

LEMMA WithoutIs ==
  ASSUME NEW w, IsWalk(w), NEW e
  PROVE  LET v == Without(w, e)
         IN /\ IsWalk(v) /\ v.at = w.at /\ v.dirs = w.dirs /\ v.shared = w.shared
            /\ v.kids = Drop(w.kids, e) /\ v.entry = Drop(w.entry, e)
            /\ v.made = w.made \ CutOff(w, e) /\ v.end = w.end
<1> DEFINE v == Without(w, e)
           M == w.made \ CutOff(w, e)
           K == Drop(w.kids, e)
           E == Drop(w.entry, e)
<1>1. v = [w EXCEPT !.made = M, !.kids = K, !.entry = E]
  BY DEF Without
<1>2. M = w.made \ CutOff(w, e) /\ K = Drop(w.kids, e) /\ E = Drop(w.entry, e)
  OBVIOUS
<1> HIDE DEF v, M, K, E
<1>3. v = [at |-> w.at, dirs |-> w.dirs, kids |-> K, entry |-> E, made |-> M,
           shared |-> w.shared, end |-> w.end]
  BY <1>1 DEF IsWalk
<1>4. /\ v.at = w.at /\ v.dirs = w.dirs /\ v.kids = K /\ v.entry = E /\ v.made = M
      /\ v.shared = w.shared /\ v.end = w.end
  BY <1>3
<1>5. IsWalk(v)
  BY <1>3, <1>4 DEF IsWalk
<1> QED BY <1>2, <1>4, <1>5 DEF v

(* The root stays, and so does the directory that loses a child.           *)
LEMMA CutOffSpares ==
  ASSUME NEW w, Good(w), NEW e
  PROVE  Root \notin CutOff(w, e) /\ e[1] \notin CutOff(w, e)
<1>1. CASE e \in DOMAIN w.kids /\ e[1] \in w.made
  <2>1. e[1] \in Dir /\ e[2] \in Spelling
    BY <1>1 DEF Good, NodesAgree, IsMap
  <2>2. PathOf[e[1]] \in Seq(Spelling) /\ PathOf[Root] = <<>>
    BY <2>1, PathType, DirAssumption
  <2>3. /\ ~LeadsThrough(PathOf[e[1]], Append(PathOf[e[1]], e[2]))
        /\ ~LeadsThrough(<<>>, Append(PathOf[e[1]], e[2]))
    BY <2>1, <2>2, ThroughItself
  <2> QED BY <2>2, <2>3 DEF CutOff
<1>2. CASE ~(e \in DOMAIN w.kids /\ e[1] \in w.made)
  BY <1>2 DEF CutOff
<1> QED BY <1>1, <1>2

LEMMA CutOffAgrees ==
  ASSUME NEW w, Good(w), NEW e \in DOMAIN w.kids, e[1] \in w.made
  PROVE  MadeAgree(Drop(w.kids, e), w.made \ CutOff(w, e))
<1> DEFINE K == Drop(w.kids, e)
           C == CutOff(w, e)
           M == w.made \ C
           q == Append(PathOf[e[1]], e[2])
<1>1. /\ w.made \subseteq Dir /\ MadeAgree(w.kids, w.made)
      /\ e[1] \in Dir /\ e[2] \in Spelling /\ e = <<e[1], e[2]>>
  BY DEF Good, NodesAgree, IsMap
<1>2. q \in Seq(Spelling)
  <2>1. PathOf[e[1]] \in Seq(Spelling)
    BY <1>1, PathType
  <2> QED BY <1>1, <2>1, AppendProperties
<1>3. DOMAIN K = DOMAIN w.kids \ {e}
  BY DEF Drop
<1>4. \A d \in w.made : d \in C <=> LeadsThrough(PathOf[d], q)
  BY DEF CutOff
<1>5. q = Append(PathOf[e[1]], e[2])
  OBVIOUS
<1> HIDE DEF K, C, q
<1>6. ASSUME NEW c \in w.made, NEW d \in w.made, NEW n \in Spelling,
             PathOf[d] = Append(PathOf[c], n), c \in C
      PROVE  d \in C
  <2>1. PathOf[c] \in Seq(Spelling) /\ LeadsThrough(PathOf[c], q)
    BY <1>1, <1>4, <1>6, PathType
  <2>2. LeadsThrough(Append(PathOf[c], n), q)
    BY <1>2, <2>1, ThroughOn
  <2> QED BY <1>4, <1>6, <2>2
<1>7. ASSUME NEW c \in M, NEW d \in w.made, NEW n \in Spelling,
             PathOf[d] = Append(PathOf[c], n), d \in C
      PROVE  <<c, n>> = e
  <2>1. PathOf[c] \in Seq(Spelling) /\ ~LeadsThrough(PathOf[c], q)
    BY <1>1, <1>4, PathType
  <2>2. LeadsThrough(Append(PathOf[c], n), q)
    BY <1>4, <1>7
  <2>3. q = Append(PathOf[c], n)
    BY <1>2, <2>1, <2>2, ThroughChild
  <2>4. PathOf[c] = PathOf[e[1]] /\ n = e[2]
    <3>1. c \in Dir /\ Append(PathOf[c], n) = Append(PathOf[e[1]], e[2])
      BY <1>1, <1>5, <2>3
    <3> QED BY <1>1, <3>1, ChildTells
  <2>5. c = e[1]
    BY <1>1, <2>4 DEF MadeAgree
  <2> QED BY <1>1, <2>4, <2>5
<1>8. ASSUME NEW d \in w.made, PathOf[d] = q PROVE d \in C
  <2>1. PathOf[e[1]] \in Seq(Spelling)
    BY <1>1, PathType
  <2>2. LeadsThrough(q, q)
    BY <1>1, <1>2, ThroughItself
  <2> QED BY <1>4, <1>8, <2>2
<1>9. ASSUME NEW c \in M, NEW n \in Spelling
      PROVE  <<c, n>> \in DOMAIN K <=> \E d \in M : PathOf[d] = Append(PathOf[c], n)
  <2>1. <<c, n>> \in DOMAIN w.kids <=> \E d \in w.made : PathOf[d] = Append(PathOf[c], n)
    BY <1>1 DEF MadeAgree
  <2>2. ASSUME <<c, n>> \in DOMAIN K PROVE \E d \in M : PathOf[d] = Append(PathOf[c], n)
    <3>1. <<c, n>> \in DOMAIN w.kids /\ <<c, n>> # e
      BY <1>3, <2>2
    <3>2. PICK d \in w.made : PathOf[d] = Append(PathOf[c], n)
      BY <2>1, <3>1
    <3>3. d \notin C
      BY <1>7, <3>1, <3>2
    <3> QED BY <3>2, <3>3
  <2>3. ASSUME NEW d \in M, PathOf[d] = Append(PathOf[c], n) PROVE <<c, n>> \in DOMAIN K
    <3>1. <<c, n>> \in DOMAIN w.kids
      BY <2>1, <2>3
    <3>2. <<c, n>> # e
      <4> SUFFICES ASSUME <<c, n>> = e PROVE FALSE
        OBVIOUS
      <4>1. c = e[1] /\ n = e[2]
        OBVIOUS
      <4>2. PathOf[d] = q
        BY <1>5, <2>3, <4>1
      <4> QED BY <1>8, <4>2
    <3> QED BY <1>3, <3>1, <3>2
  <2> QED BY <2>2, <2>3
<1>10. \A d \in M \ {Root} : \E c \in M, n \in Spelling : PathOf[d] = Append(PathOf[c], n)
  <2> TAKE d \in M \ {Root}
  <2>1. PICK c \in w.made, n \in Spelling : PathOf[d] = Append(PathOf[c], n)
    BY <1>1 DEF MadeAgree
  <2>2. c \notin C
    BY <1>6, <2>1
  <2> QED BY <2>1, <2>2
<1>11. \A c, d \in M : PathOf[c] = PathOf[d] => c = d
  BY <1>1 DEF MadeAgree
<1> HIDE DEF M
<1>12. MadeAgree(K, M)
  BY <1>9, <1>10, <1>11 DEF MadeAgree
<1> QED BY <1>12 DEF K, M, C

LEMMA DropNodes ==
  ASSUME NEW D, NEW K, NEW E, NEW M, NodesAgree(D, K, E, M), NEW e,
         NEW N \in SUBSET M, Root \in N
  PROVE  NodesAgree(D, Drop(K, e), Drop(E, e), N) /\ NodesAgree(D, K, Drop(E, e), M)
<1> DEFINE k == Drop(K, e)
           g == Drop(E, e)
<1>1. /\ DOMAIN k = DOMAIN K \ {e} /\ k = [x \in DOMAIN k |-> k[x]]
      /\ \A x \in DOMAIN k : k[x] = K[x]
      /\ DOMAIN g = DOMAIN E \ {e} /\ g = [x \in DOMAIN g |-> g[x]]
      /\ \A x \in DOMAIN g : g[x] = E[x]
  BY DEF Drop
<1> HIDE DEF k, g
<1>2. IsMap(k, D \X Spelling, D) /\ IsMap(g, D \X FileName, Ino)
  BY <1>1 DEF NodesAgree, IsMap
<1>3. \A x \in DOMAIN k : PathOf[k[x]] = Append(PathOf[x[1]], x[2])
  BY <1>1 DEF NodesAgree
<1>4. DOMAIN k \cap DOMAIN g = {} /\ DOMAIN K \cap DOMAIN g = {}
  BY <1>1 DEF NodesAgree
<1>5. N \subseteq D
  BY DEF NodesAgree
<1> QED BY <1>2, <1>3, <1>4, <1>5 DEF NodesAgree, k, g

LEMMA WithoutGood ==
  ASSUME NEW w, Good(w), NEW e
  PROVE  Good(Without(w, e))
<1> DEFINE v == Without(w, e)
<1>1. IsWalk(w) /\ NodesAgree(w.dirs, w.kids, w.entry, w.made) /\ MadeAgree(w.kids, w.made)
  BY DEF Good
<1>2. /\ IsWalk(v) /\ v.dirs = w.dirs
      /\ v.kids = Drop(w.kids, e) /\ v.entry = Drop(w.entry, e)
      /\ v.made = w.made \ CutOff(w, e)
  BY <1>1, WithoutIs
<1> HIDE DEF v
<1>3. Root \in w.made \ CutOff(w, e)
  BY <1>1, CutOffSpares DEF NodesAgree
<1>4. NodesAgree(v.dirs, v.kids, v.entry, v.made)
  BY <1>1, <1>2, <1>3, DropNodes
<1>5. MadeAgree(v.kids, v.made)
  <2>1. CASE e \in DOMAIN w.kids /\ e[1] \in w.made
    BY <1>2, <2>1, CutOffAgrees
  <2>2. CASE ~(e \in DOMAIN w.kids /\ e[1] \in w.made)
    <3>1. v.made = w.made
      BY <1>2, <2>2 DEF CutOff
    <3>2. ASSUME NEW c \in w.made, NEW n \in Spelling
          PROVE  <<c, n>> \in DOMAIN v.kids <=> <<c, n>> \in DOMAIN w.kids
      <4>1. DOMAIN v.kids = DOMAIN w.kids \ {e}
        BY <1>2 DEF Drop
      <4>2. <<c, n>> \in DOMAIN w.kids => <<c, n>> # e
        <5> SUFFICES ASSUME <<c, n>> \in DOMAIN w.kids, <<c, n>> = e PROVE FALSE
          OBVIOUS
        <5>1. e[1] = c
          OBVIOUS
        <5> QED BY <2>2, <5>1
      <4> QED BY <4>1, <4>2
    <3> QED BY <1>1, <3>1, <3>2, SameMade
  <2> QED BY <2>1, <2>2
<1> QED BY <1>2, <1>4, <1>5 DEF Good, v

(* The names that go with a child: its own, or those below it.             *)
LEMMA NamesWithout ==
  ASSUME NEW w, Good(w), NEW e, NEW g, g = NameMap(w.entry, w.made),
         NEW h, h = NameMap(Without(w, e).entry, Without(w, e).made)
  PROVE  /\ DOMAIN h \subseteq DOMAIN g /\ e \notin DOMAIN h
         /\ \A x \in DOMAIN h : h[x] = g[x]
         /\ \A x \in DOMAIN g \ DOMAIN h : x = e \/ x[1] \in CutOff(w, e)
         /\ Lost(w, e) = {g[x] : x \in DOMAIN g \ DOMAIN h}
<1> DEFINE v == Without(w, e)
<1>1. v.entry = Drop(w.entry, e) /\ v.made = w.made \ CutOff(w, e)
  BY WithoutIs DEF Good
<1>2. /\ DOMAIN g = Names(w) /\ DOMAIN h = Names(v)
      /\ \A x \in DOMAIN g : g[x] = w.entry[x]
      /\ \A x \in DOMAIN h : h[x] = v.entry[x]
  BY DEF NameMap, Names
<1>3. Lost(w, e) = {w.entry[x] : x \in Names(w) \ Names(v)}
  BY DEF Lost
<1> HIDE DEF v
<1>4. Names(v) \subseteq Names(w) /\ e \notin Names(v) /\ \A x \in Names(v) : v.entry[x] = w.entry[x]
  BY <1>1 DEF Names, Drop
<1>5. \A x \in Names(w) \ Names(v) : x = e \/ x[1] \in CutOff(w, e)
  BY <1>1 DEF Names, Drop
<1>6. Lost(w, e) = {g[x] : x \in DOMAIN g \ DOMAIN h}
  BY <1>2, <1>3
<1> QED BY <1>2, <1>4, <1>5, <1>6

-----------------------------------------------------------------------------
(* The names of the live files.                                            *)

(* Without some of the names, the files are those with the others.         *)
LEMMA FilesLost ==
  ASSUME NEW g, NEW L, NEW H, NEW F, FilesNamed(g, L, H, F),
         NEW h, DOMAIN h \subseteq DOMAIN g, \A x \in DOMAIN h : h[x] = g[x]
  PROVE  FilesNamed(h, L \ {g[x] : x \in DOMAIN g \ DOMAIN h}, H, F)
<1> DEFINE X == {g[x] : x \in DOMAIN g \ DOMAIN h}
<1>1. \A x, y \in DOMAIN g : g[x] = g[y] => x = y
  BY DEF FilesNamed
<1>2. \A x \in DOMAIN h : x = <<H[h[x]], F[h[x]]>>
  BY DEF FilesNamed
<1>3. ASSUME NEW j \in L \ X PROVE \E x \in DOMAIN h : h[x] = j
  <2>1. PICK x \in DOMAIN g : g[x] = j
    BY DEF FilesNamed
  <2>2. x \in DOMAIN h
    BY <1>3, <2>1
  <2> QED BY <2>1, <2>2
<1>4. ASSUME NEW x \in DOMAIN h PROVE h[x] \in L \ X
  <2>1. h[x] = g[x] /\ g[x] \in L
    BY DEF FilesNamed
  <2>2. g[x] \notin X
    BY <1>1
  <2> QED BY <2>1, <2>2
<1> HIDE DEF X
<1>5. L \ X = {h[x] : x \in DOMAIN h}
  BY <1>3, <1>4
<1> QED BY <1>2, <1>5 DEF FilesNamed, X

(* A file entered under a name of its own, or under none.                  *)
LEMMA FilesEntered ==
  ASSUME NEW g, NEW L, NEW H, NEW F, FilesNamed(g, L, H, F),
         L \subseteq DOMAIN H, L \subseteq DOMAIN F,
         NEW i, i \notin L, NEW d, NEW n, <<d, n>> \notin DOMAIN g
  PROVE  /\ FilesNamed(Put(g, <<d, n>>, i), L \cup {i}, Put(H, i, d), Put(F, i, n))
         /\ FilesNamed(g, L, Put(H, i, d), Put(F, i, n))
<1> DEFINE e == <<d, n>>
           k == Put(g, e, i)
           h == Put(H, i, d)
           f == Put(F, i, n)
<1>1. /\ \A j \in L : h[j] = H[j] /\ f[j] = F[j]
      /\ h[i] = d /\ f[i] = n
  BY DEF Put
<1>2. e = <<d, n>> /\ e \notin DOMAIN g
  OBVIOUS
<1> HIDE DEF e, h, f
<1>3. DOMAIN k = DOMAIN g \cup {e} /\ k[e] = i /\ \A x \in DOMAIN g : k[x] = g[x]
  BY <1>2 DEF Put
<1> HIDE DEF k
<1>4. \A x \in DOMAIN g : g[x] \in L /\ x = <<h[g[x]], f[g[x]]>>
  BY <1>1 DEF FilesNamed
<1>5. FilesNamed(g, L, h, f)
  BY <1>4 DEF FilesNamed
<1>6. \A x \in DOMAIN k : x = <<h[k[x]], f[k[x]]>>
  BY <1>1, <1>2, <1>3, <1>4
<1>7. L \cup {i} = {k[x] : x \in DOMAIN k}
  <2>1. \A j \in L : \E x \in DOMAIN k : k[x] = j
    BY <1>3 DEF FilesNamed
  <2>2. \A x \in DOMAIN k : k[x] \in L \cup {i}
    BY <1>3, <1>4
  <2> QED BY <1>3, <2>1, <2>2
<1>8. FilesNamed(k, L \cup {i}, h, f)
  BY <1>6, <1>7 DEF FilesNamed
<1> QED BY <1>5, <1>8 DEF k, e, h, f

LEMMA PutNodes ==
  ASSUME NEW D, NEW K, NEW E, NEW M, NodesAgree(D, K, E, M),
         NEW d \in D, NEW n \in FileName, NEW i \in Ino, <<d, n>> \notin DOMAIN K
  PROVE  NodesAgree(D, K, Put(E, <<d, n>>, i), M)
<1> DEFINE e == <<d, n>>
           g == Put(E, e, i)
<1>1. e \in D \X FileName /\ e \notin DOMAIN K
  OBVIOUS
<1> HIDE DEF e
<1>2. /\ DOMAIN g = DOMAIN E \cup {e} /\ g = [x \in DOMAIN g |-> g[x]] /\ g[e] = i
      /\ \A x \in DOMAIN E : x # e => g[x] = E[x]
  BY DEF Put
<1> HIDE DEF g
<1>3. IsMap(g, D \X FileName, Ino)
  BY <1>1, <1>2 DEF NodesAgree, IsMap
<1>4. DOMAIN K \cap DOMAIN g = {}
  BY <1>1, <1>2 DEF NodesAgree
<1> QED BY <1>3, <1>4 DEF NodesAgree, e, g

LEMMA PutNames ==
  ASSUME NEW E, NEW M, NEW d, NEW n, NEW i
  PROVE  LET E1 == Put(E, <<d, n>>, i)
         IN /\ d \in M => NameMap(E1, M) = Put(NameMap(E, M), <<d, n>>, i)
            /\ d \notin M => NameMap(E1, M) = NameMap(E, M)
<1> DEFINE e == <<d, n>>
           E1 == Put(E, e, i)
           g == NameMap(E, M)
<1>1. e[1] = d
  OBVIOUS
<1> HIDE DEF e
<1>2. /\ DOMAIN E1 = DOMAIN E \cup {e} /\ E1[e] = i
      /\ \A x \in DOMAIN E : x # e => E1[x] = E[x]
  BY DEF Put
<1>3. DOMAIN g = {x \in DOMAIN E : x[1] \in M} /\ \A x \in DOMAIN g : g[x] = E[x]
  BY DEF NameMap
<1> HIDE DEF E1, g
<1>4. CASE d \in M
  <2>1. {x \in DOMAIN E1 : x[1] \in M} = DOMAIN g \cup {e}
    BY <1>1, <1>2, <1>3, <1>4
  <2>2. \A x \in DOMAIN g \cup {e} : E1[x] = IF x = e THEN i ELSE g[x]
    BY <1>2, <1>3
  <2>3. NameMap(E1, M) = [x \in DOMAIN g \cup {e} |-> IF x = e THEN i ELSE g[x]]
    BY <2>1, <2>2 DEF NameMap
  <2> QED BY <1>4, <2>3 DEF Put, E1, g, e
<1>5. CASE d \notin M
  <2>1. {x \in DOMAIN E1 : x[1] \in M} = DOMAIN g
    BY <1>1, <1>2, <1>3, <1>5
  <2>2. \A x \in DOMAIN g : E1[x] = g[x]
    BY <1>1, <1>2, <1>3, <1>5
  <2>3. NameMap(E1, M) = [x \in DOMAIN g |-> g[x]]
    BY <2>1, <2>2 DEF NameMap
  <2>4. g = [x \in DOMAIN g |-> g[x]]
    BY DEF g, NameMap
  <2> QED BY <1>5, <2>3, <2>4 DEF E1, g, e
<1> QED BY <1>4, <1>5

-----------------------------------------------------------------------------
(* The inductive invariant.                                                *)

(* The nodes hang together, and the names that clients can walk to are     *)
(* those of the live files, as the registry has them.                      *)
NamesHold ==
  /\ NodesAgree(dirs, kids, entry, made) /\ MadeAgree(kids, made) /\ shared \in BOOLEAN
  /\ FilesNamed(NameMap(entry, made), live, home, fname)
  /\ fname \in [DOMAIN home -> FileName]

(* What an rmdir has still to do: the files that have the tag, of those    *)
(* none of whose tag calls was cut.                                        *)
RemovalCovers ==
  /\ removing = [name |-> removing.name, files |-> removing.files]
  /\ removing.name \subseteq Spelling /\ removing.files \subseteq Ino
  /\ \A n \in removing.name : \A i \in Query(db, {Norm[n]}) :
       calls[i] = "done" => i \in removing.files

(* A file in the registry that has tags has its name, or is known to have  *)
(* lost it.                                                                *)
GhostsKnown ==
  /\ ghosts \subseteq Ino
  /\ \A i \in DOMAIN home :
       calls[i] = "done" /\ TagsOf(db, i) # {} => i \in live \cup ghosts

TreeIInv ==
  /\ IInv
  /\ NamesHold
  /\ IsFiniteSet(DOMAIN home)
  /\ Agree(virt) /\ virt.next <= LastVnode + 1
  /\ RemovalCovers
  /\ GhostsKnown

(* The nodes of a walk that took no name from a file.                      *)
Reached(w) == Good(w) /\ NameMap(w.entry, w.made) = NameMap(entry, made) /\ made \subseteq w.made

LEMMA StartIs ==
  ASSUME NamesHold
  PROVE  /\ Good(Start) /\ Reached(Start) /\ Start.at = Root /\ Start.dirs = dirs
         /\ Start.kids = kids /\ Start.entry = entry /\ Start.made = made
         /\ Start.shared = shared /\ Start.end = "ok"
<1>1. /\ Start.at = Root /\ Start.dirs = dirs /\ Start.kids = kids /\ Start.entry = entry
      /\ Start.made = made /\ Start.shared = shared /\ Start.end = "ok"
      /\ Start = [at |-> Root, dirs |-> dirs, kids |-> kids, entry |-> entry, made |-> made,
                  shared |-> shared, end |-> "ok"]
  BY DEF Start
<1> HIDE DEF Start
<1>2. Root \in dirs
  BY DEF NamesHold, NodesAgree
<1>3. IsWalk(Start)
  BY <1>1, <1>2 DEF IsWalk, NamesHold
<1> QED BY <1>1, <1>3 DEF Good, Reached, NamesHold

LEMMA WalkReaches ==
  ASSUME NamesHold, NEW T \in SUBSET Tag
  PROVE  LET w == WalkTo(T)
         IN /\ Reached(w) /\ w.entry = entry /\ w.at \in w.dirs /\ w.at \in Dir
            /\ w.end = "ok" => PathOf[w.at] = Path(T)
<1> DEFINE p == Path(T)
           w == WalkTo(T)
<1>1. p \in Seq(Spelling)
  <2>1. p \in Seq(Tag)
    BY PathHasTags
  <2>2. \A k \in 1..Len(p) : p[k] \in Spelling
    BY <2>1, SpellingAssumption
  <2> QED BY <2>1, <2>2
<1>2. w = Along(Ensure, Start, p)
  BY DEF WalkTo
<1> HIDE DEF p, w
<1>3. Grown(Start, w) /\ (w.end = "ok" => PathOf[w.at] = p)
  BY <1>1, <1>2, StartIs, EnsureWalks
<1>4. Reached(w) /\ w.entry = entry
  BY <1>3, StartIs DEF Grown, Reached
<1>5. w.at \in w.dirs /\ w.dirs \subseteq Dir
  BY <1>4 DEF Reached, Good, IsWalk, NodesAgree
<1> QED BY <1>3, <1>4, <1>5 DEF p, w

LEMMA CopyReaches ==
  ASSUME NamesHold, NEW w, Copy(Start, w)
  PROVE  Reached(w) /\ w.made = made
BY StartIs DEF Copy, Reached

LEMMA BothReach ==
  ASSUME NamesHold, NEW c \in Dir, NEW d \in Dir
  PROVE  Copy(Start, BothMutable(c, d))
<1>1. Good(Start)
  BY StartIs
<1>2. Copy(Start, Mutable(Start, c))
  BY <1>1, MutableCopies
<1>3. Copy(Mutable(Start, c), Mutable(Mutable(Start, c), d))
  BY <1>2, MutableCopies DEF Copy
<1> QED BY <1>2, <1>3, CopyChain DEF BothMutable

(* The files that lose their names with a child of a node: they are live,  *)
(* and either the child has the name or its directory was cut off.         *)
LEMMA LostIs ==
  ASSUME NamesHold, NEW w, Reached(w), NEW e
  PROVE  /\ Lost(w, e) \subseteq live
         /\ \A j \in Lost(w, e) :
              /\ <<home[j], fname[j]>> \in DOMAIN entry /\ home[j] \in made
              /\ entry[<<home[j], fname[j]>>] = j
              /\ <<home[j], fname[j]>> = e \/ home[j] \in CutOff(w, e)
<1> DEFINE g == NameMap(entry, made)
           h == NameMap(Without(w, e).entry, Without(w, e).made)
<1>1. g = NameMap(w.entry, w.made) /\ Good(w)
  BY DEF Reached
<1>2. /\ \A x \in DOMAIN g \ DOMAIN h : x = e \/ x[1] \in CutOff(w, e)
      /\ Lost(w, e) = {g[x] : x \in DOMAIN g \ DOMAIN h}
  BY <1>1, NamesWithout
<1>3. FilesNamed(g, live, home, fname)
  BY DEF NamesHold
<1>4. \A x \in DOMAIN g : x \in DOMAIN entry /\ x[1] \in made /\ g[x] = entry[x]
  BY DEF NameMap
<1> HIDE DEF g, h
<1>5. Lost(w, e) \subseteq live
  BY <1>2, <1>3 DEF FilesNamed
<1>6. ASSUME NEW j \in Lost(w, e)
      PROVE  /\ <<home[j], fname[j]>> \in DOMAIN entry /\ home[j] \in made
             /\ entry[<<home[j], fname[j]>>] = j
             /\ <<home[j], fname[j]>> = e \/ home[j] \in CutOff(w, e)
  <2>1. PICK x \in DOMAIN g \ DOMAIN h : j = g[x]
    BY <1>2
  <2>2. x = <<home[j], fname[j]>> /\ x[1] = home[j]
    BY <1>3, <2>1 DEF FilesNamed
  <2> QED BY <1>2, <1>4, <2>1, <2>2
<1> QED BY <1>5, <1>6

(* The name of a live file, and its inode.                                 *)
LEMMA LiveNamed ==
  ASSUME IInv, NamesHold
  PROVE  /\ \A j \in live : /\ <<home[j], fname[j]>> \in DOMAIN entry /\ home[j] \in made
                            /\ entry[<<home[j], fname[j]>>] = j
         /\ \A e \in DOMAIN entry : e[1] \in made =>
              /\ entry[e] \in live /\ entry[e] \in DOMAIN home /\ entry[e] \in Ino
              /\ e = <<home[entry[e]], fname[entry[e]]>> /\ fname[entry[e]] = e[2]
         /\ live \subseteq DOMAIN home /\ DOMAIN home \subseteq Ino /\ made \subseteq Dir
<1> DEFINE g == NameMap(entry, made)
<1>1. FilesNamed(g, live, home, fname)
  BY DEF NamesHold
<1>2. /\ \A x \in DOMAIN g : x \in DOMAIN entry /\ x[1] \in made /\ g[x] = entry[x]
      /\ \A e \in DOMAIN entry : e[1] \in made => e \in DOMAIN g /\ g[e] = entry[e]
  BY DEF NameMap
<1> HIDE DEF g
<1>3. live \subseteq DOMAIN home /\ DOMAIN home \subseteq Ino /\ made \subseteq Dir
  BY DEF IInv, TypeOK, IsMap, NamesHold, NodesAgree
<1>4. ASSUME NEW e \in DOMAIN entry, e[1] \in made
      PROVE  /\ entry[e] \in live
             /\ e = <<home[entry[e]], fname[entry[e]]>> /\ fname[entry[e]] = e[2]
  <2>1. e \in DOMAIN g /\ g[e] = entry[e]
    BY <1>2, <1>4
  <2>2. e = <<home[entry[e]], fname[entry[e]]>> /\ entry[e] \in live
    BY <1>1, <2>1 DEF FilesNamed
  <2> QED BY <2>2
<1>5. ASSUME NEW j \in live
      PROVE  /\ <<home[j], fname[j]>> \in DOMAIN entry /\ home[j] \in made
             /\ entry[<<home[j], fname[j]>>] = j
  <2>1. PICK x \in DOMAIN g : j = g[x]
    BY <1>1 DEF FilesNamed
  <2>2. x = <<home[j], fname[j]>> /\ x[1] = home[j]
    BY <1>1, <2>1 DEF FilesNamed
  <2> QED BY <1>2, <2>1, <2>2
<1> QED BY <1>3, <1>4, <1>5

-----------------------------------------------------------------------------
(* What the steps do to the tag rows are steps of TagStore.                *)

LEMMA TagsAtType ==
  ASSUME Agree(virt), NEW v \in TagDirs
  PROVE  TagsAt(v) \in SUBSET Tag /\ (v # TagsDir => TagsAt(v) # {})
BY DEF Agree, IdsBelow, IsMap, TagDirs, TagsAt

LEMMA EnterStores ==
  ASSUME IInv, NamesHold, NEW w, Reached(w), NEW i \in Ino, NEW d \in Dir, NEW n,
         Enter(w, i, d, n)
  PROVE  Next
<1> DEFINE over == Lost(w, <<d, n>>)
           named == IF d \in w.made THEN {i} ELSE {}
<1>1. over \in SUBSET live /\ named \in {{}, {i}}
  BY LostIs
<1>2. Create(i, d, over, named)
  BY DEF Enter
<1> QED BY <1>1, <1>2 DEF Next

LEMMA TreeStepsStore ==
  ASSUME TreeIInv, [TreeNext]_treeVars
  PROVE  [Next]_vars
<1> USE DEF TreeIInv
<1>0. made \subseteq Dir
  BY LiveNamed
<1>1. ASSUME NEW v \in TagDirs, InTagDir(v) PROVE [Next]_vars
  <2>1. CASE Readdir(v) \/ (\E n \in FileName \cup Spelling : Lookup(v, n))
             \/ (\E n \in Spelling : MkdirIn(v, n)) \/ (\E n \in FileName : CreateInBlocked(v, n))
    BY <2>1 DEF Readdir, Lookup, MkdirIn, CreateInBlocked
  <2>2. ASSUME NEW n \in FileName, UnlinkIn(v, n) PROVE [Next]_vars
    <3>1. PICK i \in Shown(TagsAt(v), n) : Unlink(i, Lost(Start, <<home[i], fname[i]>>))
      BY <2>2 DEF UnlinkIn
    <3>2. i \in Ino /\ Lost(Start, <<home[i], fname[i]>>) \in SUBSET live
      BY <3>1 DEF Shown, Named, Query, Unlink
    <3> QED BY <3>1, <3>2 DEF Next
  <2>3. ASSUME NEW n \in FileName, NEW i \in Ino, CreateIn(v, i, n) PROVE [Next]_vars
    <3> DEFINE w == WalkTo(TagsAt(v))
    <3>1. Reached(w) /\ w.at \in Dir
      BY TagsAtType, WalkReaches
    <3>2. Enter(w, i, w.at, n)
      BY <2>3 DEF CreateIn
    <3> HIDE DEF w
    <3> QED BY <3>1, <3>2, EnterStores
  <2> QED BY <1>1, <2>1, <2>2, <2>3 DEF InTagDir
<1>2. ASSUME NEW d \in made, InRealDir(d) PROVE [Next]_vars
  <2>1. ASSUME NEW n \in FileName, NEW i \in Ino, CreateReal(i, d, n) PROVE [Next]_vars
    BY <1>0, <2>1, StartIs, EnterStores DEF CreateReal
  <2>2. ASSUME NEW n \in Spelling, MkdirReal(d, n) PROVE [Next]_vars
    BY <2>2 DEF MkdirReal
  <2>3. ASSUME NEW n \in FileName, UnlinkReal(d, n) PROVE [Next]_vars
    <3> DEFINE i == entry[<<d, n>>]
    <3>1. Unlink(i, {i}) /\ <<d, n>> \in DOMAIN entry
      BY <2>3 DEF UnlinkReal
    <3>2. i \in Ino /\ {i} \in SUBSET live
      BY <3>1, LiveNamed
    <3> QED BY <3>1, <3>2 DEF Next
  <2>4. ASSUME NEW n \in FileName, NEW c \in made, NEW m \in FileName, RenameReal(d, n, c, m)
        PROVE  [Next]_vars
    <3> DEFINE i == entry[<<d, n>>]
               over == {entry[e] : e \in {<<c, m>>} \cap DOMAIN entry}
    <3>1. Rename(i, c, over) /\ <<d, n>> \in DOMAIN entry
      BY <2>4 DEF RenameReal
    <3>2. i \in Ino /\ c \in Dir
      BY <1>0, <3>1, LiveNamed
    <3>3. over \in AtMostOne
      <4>1. CASE <<c, m>> \in DOMAIN entry
        <5>1. over = {entry[<<c, m>>]} /\ entry[<<c, m>>] \in Ino
          BY <4>1, LiveNamed
        <5> QED BY <5>1 DEF AtMostOne
      <4>2. CASE <<c, m>> \notin DOMAIN entry
        BY <4>2 DEF AtMostOne
      <4> QED BY <4>1, <4>2
    <3> QED BY <3>1, <3>2, <3>3 DEF Next
  <2> QED BY <1>2, <2>1, <2>2, <2>3, <2>4 DEF InRealDir
<1>3. ASSUME NEW i \in Ino, WriteFile(i) PROVE [Next]_vars
  BY <1>3 DEF WriteFile, Next
<1>4. ASSUME NEW i \in Ino, NEW T \in SUBSET Tag, SetTagsOf(i, T) PROVE [Next]_vars
  BY <1>4 DEF SetTagsOf, Next
<1>5. ASSUME NEW n \in Spelling, BeginRmdir(n) \/ EndRmdir(n) PROVE [Next]_vars
  BY <1>5 DEF BeginRmdir, EndRmdir
<1>6. ASSUME NEW n \in Spelling, NEW i \in Ino, TakeTags(n, i) PROVE [Next]_vars
  <2>1. Norm[n] \in Tag /\ RemoveTagDir(Norm[n], i)
    BY <1>6, SpellingAssumption DEF TakeTags
  <2> QED BY <2>1 DEF Next
<1>7. CASE Remount
  BY <1>7 DEF Remount, Next
<1>8. CASE UNCHANGED treeVars
  BY <1>8 DEF treeVars, vars
<1> QED BY <1>1, <1>2, <1>3, <1>4, <1>5, <1>6, <1>7, <1>8 DEF TreeNext

-----------------------------------------------------------------------------
(* The names after each step.                                              *)

(* Nodes made or copied on a way that takes no name.                       *)
LEMMA ReachedNames ==
  ASSUME NamesHold, NEW w, Reached(w), Leaves(w), entry' = w.entry,
         UNCHANGED <<home, live, fname>>
  PROVE  NamesHold'
<1>1. /\ dirs' = w.dirs /\ kids' = w.kids /\ made' = w.made /\ shared' = w.shared
  BY DEF Leaves
<1>2. /\ NodesAgree(w.dirs, w.kids, w.entry, w.made) /\ MadeAgree(w.kids, w.made)
      /\ w.shared \in BOOLEAN
      /\ FilesNamed(NameMap(w.entry, w.made), live, home, fname)
  BY DEF Reached, Good, IsWalk, NamesHold
<1> QED BY <1>1, <1>2 DEF NamesHold

(* A child taken from a node, with the files that lose their names.        *)
LEMMA WithoutNames ==
  ASSUME NamesHold, NEW w, Reached(w), NEW e
  PROVE  LET v == Without(w, e)
         IN /\ Good(v) /\ v.dirs = w.dirs
            /\ FilesNamed(NameMap(v.entry, v.made), live \ Lost(w, e), home, fname)
            /\ e \notin DOMAIN NameMap(v.entry, v.made)
<1> DEFINE v == Without(w, e)
           g == NameMap(entry, made)
           h == NameMap(v.entry, v.made)
<1>1. Good(w) /\ g = NameMap(w.entry, w.made)
  BY DEF Reached
<1>2. Good(v) /\ v.dirs = w.dirs
  BY <1>1, WithoutGood, WithoutIs DEF Good
<1>3. /\ DOMAIN h \subseteq DOMAIN g /\ e \notin DOMAIN h /\ \A x \in DOMAIN h : h[x] = g[x]
      /\ Lost(w, e) = {g[x] : x \in DOMAIN g \ DOMAIN h}
  BY <1>1, NamesWithout
<1>4. FilesNamed(g, live, home, fname)
  BY DEF NamesHold
<1> HIDE DEF v, g, h
<1>5. FilesNamed(h, live \ {g[x] : x \in DOMAIN g \ DOMAIN h}, home, fname)
  BY <1>3, <1>4, FilesLost
<1> QED BY <1>2, <1>3, <1>5 DEF v, h

LEMMA EnterNames ==
  ASSUME IInv, NamesHold, NEW w, Reached(w), NEW i \in Ino, NEW d \in w.dirs,
         NEW n \in FileName, Enter(w, i, d, n)
  PROVE  NamesHold'
<1> DEFINE e == <<d, n>>
           v == Without(w, e)
           L == live \ Lost(w, e)
           named == IF d \in w.made THEN {i} ELSE {}
           h == NameMap(v.entry, v.made)
<1>1. /\ Create(i, d, Lost(w, e), named) /\ Leaves(v) /\ entry' = Put(w.entry, e, i)
      /\ fname' = Put(fname, i, n)
  BY DEF Enter
<1>2. home' = Put(home, i, d) /\ live' = L \cup named /\ i \notin DOMAIN home
  BY <1>1, InoAssumption DEF Create, IInv, TypeOK, IsMap
<1>3. /\ Good(v) /\ v.dirs = w.dirs /\ FilesNamed(h, L, home, fname) /\ e \notin DOMAIN h
  BY WithoutNames
<1>4. v.kids = Drop(w.kids, e) /\ v.entry = Drop(w.entry, e) /\ v.made = w.made \ CutOff(w, e)
  BY WithoutIs DEF Reached, Good
<1>5. entry' = Put(v.entry, e, i)
  <2>1. Put(Drop(w.entry, e), e, i) = Put(w.entry, e, i)
    BY DEF Put, Drop
  <2> QED BY <1>1, <1>4, <2>1
<1>6. e[1] = d /\ d \notin CutOff(w, e)
  BY CutOffSpares DEF Reached
<1>7. e \notin DOMAIN v.kids
  BY <1>4 DEF Drop
<1>8. dirs' = v.dirs /\ kids' = v.kids /\ made' = v.made /\ shared' = v.shared
  BY <1>1 DEF Leaves
<1>9. NodesAgree(v.dirs, v.kids, Put(v.entry, e, i), v.made)
  <2>1. NodesAgree(v.dirs, v.kids, v.entry, v.made) /\ d \in v.dirs
    BY <1>3 DEF Good
  <2> HIDE DEF v
  <2> QED BY <1>7, <2>1, PutNodes
<1>10. MadeAgree(v.kids, v.made) /\ v.shared \in BOOLEAN
  BY <1>3 DEF Good, IsWalk
<1>11. L \subseteq DOMAIN home /\ L \subseteq DOMAIN fname /\ i \notin L
  BY <1>2 DEF IInv, TypeOK, NamesHold
<1>12. FilesNamed(NameMap(Put(v.entry, e, i), v.made), L \cup named, Put(home, i, d), Put(fname, i, n))
  <2>1. /\ FilesNamed(Put(h, e, i), L \cup {i}, Put(home, i, d), Put(fname, i, n))
        /\ FilesNamed(h, L, Put(home, i, d), Put(fname, i, n))
    <3> HIDE DEF h, L
    <3> QED BY <1>3, <1>11, FilesEntered
  <2>2. CASE d \in w.made
    <3>1. d \in v.made /\ L \cup named = L \cup {i}
      BY <1>4, <1>6, <2>2
    <3>2. NameMap(Put(v.entry, e, i), v.made) = Put(h, e, i)
      BY <3>1, PutNames
    <3> QED BY <2>1, <3>1, <3>2
  <2>3. CASE d \notin w.made
    <3>1. d \notin v.made /\ L \cup named = L
      BY <1>4, <2>3
    <3>2. NameMap(Put(v.entry, e, i), v.made) = h
      BY <3>1, PutNames
    <3> QED BY <2>1, <3>1, <3>2
  <2> QED BY <2>2, <2>3
<1>13. fname' \in [DOMAIN home' -> FileName]
  BY <1>1, <1>2 DEF Put, NamesHold
<1> HIDE DEF v, L, named, e
<1> QED BY <1>1, <1>2, <1>5, <1>8, <1>9, <1>10, <1>12, <1>13 DEF NamesHold, e

(* A name removed in the real tree, together with the file it leads to.    *)
LEMMA LoseName ==
  ASSUME NamesHold, NEW e \in DOMAIN entry, e[1] \in made, entry' = Drop(entry, e),
         live' = live \ {entry[e]}, UNCHANGED <<home, fname, nodes>>
  PROVE  NamesHold'
<1> DEFINE g == NameMap(entry, made)
           h == NameMap(Drop(entry, e), made)
<1>1. /\ DOMAIN h = DOMAIN g \ {e} /\ e \in DOMAIN g /\ g[e] = entry[e]
      /\ \A x \in DOMAIN h : h[x] = g[x]
  BY DEF NameMap, Drop
<1>2. FilesNamed(g, live, home, fname) /\ NodesAgree(dirs, kids, entry, made)
  BY DEF NamesHold
<1>3. Root \in made /\ made \in SUBSET made
  BY <1>2 DEF NodesAgree
<1>4. NodesAgree(dirs, kids, Drop(entry, e), made)
  BY <1>2, <1>3, DropNodes
<1> HIDE DEF g, h
<1>5. FilesNamed(h, live \ {g[x] : x \in DOMAIN g \ DOMAIN h}, home, fname)
  BY <1>1, <1>2, FilesLost
<1>6. {g[x] : x \in DOMAIN g \ DOMAIN h} = {entry[e]}
  BY <1>1
<1>7. FilesNamed(NameMap(entry, made)', live', home', fname')
  BY <1>5, <1>6 DEF h, nodes
<1> QED BY <1>4, <1>7 DEF NamesHold, nodes

(* What a clone of the directories on a way holds for clients is what they *)
(* had.                                                                    *)
LEMMA ReachedKids ==
  ASSUME NamesHold, NEW w, Copy(Start, w), NEW d \in made, NEW n
  PROVE  /\ <<d, n>> \in DOMAIN w.kids => <<d, n>> \in DOMAIN kids
         /\ <<d, n>> \in DOMAIN w.entry <=> <<d, n>> \in DOMAIN entry
<1>1. Reached(w) /\ w.made = made
  BY CopyReaches
<1>2. ASSUME <<d, n>> \in DOMAIN w.kids PROVE <<d, n>> \in DOMAIN kids
  <2>1. n \in Spelling
    BY <1>1, <1>2 DEF Reached, Good, NodesAgree, IsMap
  <2>2. MadeAgree(w.kids, made) /\ MadeAgree(kids, made)
    BY <1>1 DEF Reached, Good, NamesHold
  <2> QED BY <1>2, <2>1, <2>2 DEF MadeAgree
<1>3. <<d, n>> \in DOMAIN w.entry <=> <<d, n>> \in DOMAIN entry
  <2>1. DOMAIN NameMap(w.entry, made) = DOMAIN NameMap(entry, made)
    BY <1>1 DEF Reached
  <2>2. {x \in DOMAIN w.entry : x[1] \in made} = {x \in DOMAIN entry : x[1] \in made}
    BY <2>1 DEF NameMap
  <2>3. <<d, n>>[1] = d
    OBVIOUS
  <2> QED BY <2>2, <2>3
<1> QED BY <1>2, <1>3

LEMMA RenameNames ==
  ASSUME IInv, NamesHold, NEW c \in made, NEW n \in FileName, NEW d \in made, NEW m \in FileName,
         RenameReal(c, n, d, m)
  PROVE  NamesHold'
<1> DEFINE w == BothMutable(c, d)
           x == <<c, n>>
           y == <<d, m>>
           i == entry[x]
           over == {entry[e] : e \in {y} \cap DOMAIN entry}
           E == Drop(Drop(w.entry, x), y)
           g == NameMap(entry, made)
           h == NameMap(E, made)
<1>1. /\ x # y /\ x \in DOMAIN entry /\ y \notin DOMAIN kids
      /\ Rename(i, d, over) /\ Leaves(w)
      /\ entry' = Put(Drop(w.entry, x), y, i) /\ fname' = Put(fname, i, m)
  BY DEF RenameReal
<1>2. home' = Put(home, i, d) /\ live' = live \ over /\ over \subseteq live \ {i} /\ i \in live
  BY <1>1 DEF Rename
<1>3. Copy(Start, w)
  <2>1. c \in Dir /\ d \in Dir
    BY LiveNamed
  <2> QED BY <2>1, BothReach
<1>4. Reached(w) /\ w.made = made
  BY <1>3, CopyReaches
<1>5. y \notin DOMAIN w.kids
  BY <1>1, <1>3, ReachedKids
<1>a. x[1] = c /\ x = <<c, n>> /\ y[1] = d /\ y = <<d, m>> /\ i \in Ino
  BY <1>1, LiveNamed
<1> HIDE DEF w, x, y
<1>6. entry' = Put(E, y, i)
  <2>1. Put(Drop(Drop(w.entry, x), y), y, i) = Put(Drop(w.entry, x), y, i)
    BY DEF Put, Drop
  <2> QED BY <1>1, <2>1
<1>7. NodesAgree(w.dirs, w.kids, E, made) /\ MadeAgree(w.kids, made) /\ w.shared \in BOOLEAN
  <2>1. /\ NodesAgree(w.dirs, w.kids, w.entry, made) /\ MadeAgree(w.kids, made)
        /\ w.shared \in BOOLEAN /\ Root \in made /\ made \in SUBSET made
    BY <1>4 DEF Reached, Good, IsWalk, NodesAgree
  <2>2. NodesAgree(w.dirs, w.kids, Drop(w.entry, x), made)
    BY <2>1, DropNodes
  <2>3. NodesAgree(w.dirs, w.kids, E, made)
    BY <2>1, <2>2, DropNodes
  <2> QED BY <2>1, <2>3
<1>8. NodesAgree(w.dirs, w.kids, Put(E, y, i), made)
  <2>1. d \in w.dirs
    BY <1>7 DEF NodesAgree
  <2> HIDE DEF E, i
  <2> QED BY <1>5, <1>7, <1>a, <2>1, PutNodes
<1>9. /\ DOMAIN h = DOMAIN g \ {x, y} /\ \A z \in DOMAIN h : h[z] = g[z]
      /\ x \in DOMAIN g /\ g[x] = i
  <2>1. g = NameMap(w.entry, made)
    BY <1>4 DEF Reached
  <2>2. /\ DOMAIN h = {z \in DOMAIN w.entry : z[1] \in made} \ {x, y}
        /\ \A z \in DOMAIN h : h[z] = w.entry[z]
    BY DEF NameMap, Drop
  <2>3. /\ DOMAIN g = {z \in DOMAIN w.entry : z[1] \in made}
        /\ \A z \in DOMAIN g : g[z] = w.entry[z]
    <3> HIDE DEF g
    <3> QED BY <2>1 DEF NameMap
  <2>4. x \in DOMAIN g /\ g[x] = i
    BY <1>1, <1>a DEF NameMap
  <2> HIDE DEF g, h
  <2> QED BY <2>2, <2>3, <2>4
<1>10. {g[z] : z \in DOMAIN g \ DOMAIN h} = {i} \cup over
  <2>1. \A z : z \in DOMAIN g \ DOMAIN h <=> z = x \/ (z = y /\ y \in DOMAIN g)
    BY <1>9
  <2>2. y \in DOMAIN g <=> y \in DOMAIN entry
    BY <1>a DEF NameMap
  <2>3. y \in DOMAIN g => g[y] = entry[y]
    BY DEF NameMap
  <2>4. over = IF y \in DOMAIN g THEN {g[y]} ELSE {}
    BY <2>2, <2>3
  <2> HIDE DEF g, h, over
  <2> QED BY <1>9, <2>1, <2>4
<1>11. FilesNamed(h, live \ ({i} \cup over), home, fname)
  <2>1. FilesNamed(g, live, home, fname)
    BY DEF NamesHold
  <2> HIDE DEF g, h
  <2>2. FilesNamed(h, live \ {g[z] : z \in DOMAIN g \ DOMAIN h}, home, fname)
    BY <1>9, <2>1, FilesLost
  <2> QED BY <1>10, <2>2
<1> DEFINE L == live \ ({i} \cup over)
<1>12. L \subseteq DOMAIN home /\ L \subseteq DOMAIN fname /\ i \notin L /\ live' = L \cup {i}
  BY <1>2 DEF IInv, TypeOK, NamesHold
<1>13. y \notin DOMAIN h
  BY <1>9
<1> HIDE DEF L, g, h, over, i
<1>14. FilesNamed(Put(h, y, i), L \cup {i}, Put(home, i, d), Put(fname, i, m))
  BY <1>11, <1>12, <1>13, <1>a, FilesEntered DEF L
<1>15. NameMap(Put(E, y, i), made) = Put(h, y, i)
  BY <1>a, PutNames DEF h
<1>16. fname' \in [DOMAIN home' -> FileName]
  BY <1>1, <1>2 DEF Put, NamesHold
<1> HIDE DEF E
<1> QED BY <1>1, <1>2, <1>4, <1>6, <1>7, <1>8, <1>12, <1>14, <1>15, <1>16 DEF NamesHold, Leaves

(* A directory made in the node that clients know.                         *)
LEMMA MkdirNames ==
  ASSUME NamesHold, NEW d \in made, NEW n \in Spelling, MkdirReal(d, n)
  PROVE  NamesHold'
<1> DEFINE u == Mutable(Start, d)
           w == [u EXCEPT !.at = d]
<1>1. /\ Free(d, n) /\ Fresh(w, n) # {} /\ Leaves(Make(w, n)) /\ entry' = w.entry
      /\ UNCHANGED <<home, live, fname>>
  BY DEF MkdirReal, vars
<1>2. d \in Dir /\ Good(Start)
  BY StartIs DEF NamesHold, NodesAgree
<1>3. Copy(Start, u)
  BY <1>2, MutableCopies
<1> HIDE DEF u
<1>4. d \in u.dirs /\ Good(u)
  BY <1>3, CopyReaches DEF Reached, Good, NodesAgree
<1>5. Copy(u, w) /\ w.at = d
  BY <1>4, MovedNodes
<1> HIDE DEF w
<1>6. Copy(Start, w)
  BY <1>3, <1>5, CopyChain
<1>7. Reached(w) /\ <<d, n>> \notin DOMAIN w.kids /\ <<d, n>> \notin DOMAIN w.entry
  BY <1>1, <1>6, ReachedKids, CopyReaches DEF Free
<1>8. Grown(w, Make(w, n))
  BY <1>1, <1>5, <1>7, MakeGrows DEF Reached
<1>9. Reached(Make(w, n)) /\ Make(w, n).entry = w.entry
  BY <1>7, <1>8 DEF Reached, Grown
<1> QED BY <1>1, <1>9, ReachedNames

(* A mount reads the names back, and makes a node of each directory.       *)
LEMMA RemountNames ==
  ASSUME IInv, NamesHold, Remount
  PROVE  NamesHold'
<1> DEFINE S == {x \in made \X Spelling : At(Append(PathOf[x[1]], x[2])) # {}}
           h == NameMap(entry, made)
<1>1. /\ home' = [i \in live |-> home[i]] /\ fname' = [i \in live |-> fname[i]]
      /\ live' = live /\ dirs' = made /\ made' = made /\ shared' = TRUE
      /\ kids' = [e \in S |-> CHOOSE d \in At(Append(PathOf[e[1]], e[2])) : TRUE]
      /\ entry' = h
  <2>1. Names(Start) = {x \in DOMAIN entry : x[1] \in made}
    BY StartIs DEF Names
  <2>2. entry' = [e \in Names(Start) |-> entry[e]]
    BY DEF Remount
  <2> QED BY <2>1, <2>2 DEF Remount, Crash, NameMap
<1>2. \A p : At(p) = {d \in made : PathOf[d] = p}
  BY DEF At
<1>3. NodesAgree(dirs, kids, entry, made) /\ MadeAgree(kids, made) /\ FilesNamed(h, live, home, fname)
  BY DEF NamesHold
<1>4. /\ DOMAIN kids' = S /\ kids' = [e \in S |-> kids'[e]]
      /\ \A e \in S : kids'[e] \in At(Append(PathOf[e[1]], e[2]))
  <2>1. \A e \in S : \E d : d \in At(Append(PathOf[e[1]], e[2]))
    OBVIOUS
  <2> HIDE DEF S
  <2> QED BY <1>1, <2>1
<1>5. DOMAIN h = {x \in DOMAIN entry : x[1] \in made} /\ \A x \in DOMAIN h : h[x] = entry[x]
  BY DEF NameMap
<1>a. h = [x \in DOMAIN h |-> h[x]]
  BY DEF NameMap
<1>6. \A c \in made, n \in Spelling :
        <<c, n>> \in S <=> \E d \in made : PathOf[d] = Append(PathOf[c], n)
  <2> TAKE c \in made, n \in Spelling
  <2>1. <<c, n>>[1] = c /\ <<c, n>>[2] = n
    OBVIOUS
  <2> QED BY <1>2, <2>1
<1>7. S \subseteq made \X Spelling
  OBVIOUS
<1> HIDE DEF S, h
<1>8. MadeAgree(kids', made)
  BY <1>3, <1>4, <1>6 DEF MadeAgree
<1>9. DOMAIN kids' \cap DOMAIN h = {}
  <2> SUFFICES ASSUME NEW e \in S, e \in DOMAIN h PROVE FALSE
    BY <1>4
  <2>1. PICK c \in made, n \in Spelling : e = <<c, n>>
    BY <1>7
  <2>2. e \in DOMAIN kids
    BY <1>3, <1>6, <2>1 DEF MadeAgree
  <2> QED BY <1>3, <1>5, <2>2 DEF NodesAgree
<1>10. IsMap(kids', made \X Spelling, made)
  BY <1>2, <1>4, <1>7 DEF IsMap
<1>11. IsMap(h, made \X FileName, Ino)
  <2>1. IsMap(entry, dirs \X FileName, Ino)
    BY <1>3 DEF NodesAgree
  <2>2. ASSUME NEW x \in DOMAIN h PROVE x \in made \X FileName /\ h[x] \in Ino
    <3>1. x \in DOMAIN entry /\ x[1] \in made /\ h[x] = entry[x]
      BY <1>5
    <3>2. x \in dirs \X FileName /\ entry[x] \in Ino
      BY <2>1, <3>1 DEF IsMap
    <3> QED BY <3>1, <3>2
  <2> QED BY <1>a, <2>2 DEF IsMap
<1>12. \A e \in DOMAIN kids' : PathOf[kids'[e]] = Append(PathOf[e[1]], e[2])
  BY <1>2, <1>4
<1>13. NodesAgree(made, kids', h, made)
  BY <1>3, <1>9, <1>10, <1>11, <1>12 DEF NodesAgree
<1>14. NameMap(h, made) = h
  <2>1. {x \in DOMAIN h : x[1] \in made} = DOMAIN h
    BY <1>5
  <2>2. NameMap(h, made) = [e \in DOMAIN h |-> h[e]]
    BY <2>1 DEF NameMap
  <2> QED BY <1>a, <2>2
<1>15. live \subseteq DOMAIN home /\ live \subseteq DOMAIN fname
  BY DEF IInv, TypeOK, NamesHold
<1>16. FilesNamed(h, live, home', fname')
  <2>1. \A j \in live : home'[j] = home[j] /\ fname'[j] = fname[j]
    BY <1>1
  <2>2. \A x \in DOMAIN h : h[x] \in live
    BY <1>3 DEF FilesNamed
  <2> QED BY <1>3, <2>1, <2>2 DEF FilesNamed
<1>17. fname' \in [DOMAIN home' -> FileName]
  BY <1>1, <1>15 DEF NamesHold
<1> QED BY <1>1, <1>8, <1>13, <1>14, <1>16, <1>17 DEF NamesHold
-----------------------------------------------------------------------------
(* The virtual ids after each step.                                        *)

IdsHold(v) == Agree(v) /\ v.next <= LastVnode + 1

(* A request that asks for ids, and the other steps but a remount, leave   *)
(* every id where it leads; only an rmdir forgets one.                     *)
IdsKept(v, w) ==
  /\ \A f \in DOMAIN v.files : f \in DOMAIN w.files /\ w.files[f] = v.files[f]
  /\ \A x \in DOMAIN v.dirs \cap DOMAIN w.dirs : w.dirs[x] = v.dirs[x]
  /\ \A x \in DOMAIN w.dirs \ DOMAIN v.dirs : x >= v.next

LEMMA ExtendsKeeps ==
  ASSUME NEW v, NEW w, Extends(v, w)
  PROVE  IdsKept(v, w)
BY DEF Extends, IdsKept

(* The name forgotten by an rmdir takes its id with it, and no other. *)
LEMMA ForgetIds ==
  ASSUME IdsHold(virt), NEW n, EndRmdir(n)
  PROVE  /\ IdsHold(virt') /\ IdsKept(virt, virt')
         /\ \A x \in DOMAIN virt'.dirs : virt'.dirs[x] # {n}
<1>1. CASE {n} \in DOMAIN virt.dirIds
  <2> DEFINE x == virt.dirIds[{n}]
             T == {n}
  <2>1. virt' = [virt EXCEPT !.dirs = Drop(@, x), !.dirIds = Drop(@, T)]
    BY <1>1 DEF EndRmdir
  <2>2. x \in DOMAIN virt.dirs /\ virt.dirs[x] = T /\ T \in DOMAIN virt.dirIds
    BY <1>1 DEF IdsHold, Agree, DirsAgree
  <2>3. IsVirt(virt) /\ virt.dirIds[T] = x
    BY DEF IdsHold, Agree
  <2> HIDE DEF x, T
  <2>4. /\ IsVirt(virt')
        /\ virt'.dirs = Drop(virt.dirs, x) /\ virt'.dirIds = Drop(virt.dirIds, T)
        /\ virt'.files = virt.files /\ virt'.fileIds = virt.fileIds /\ virt'.next = virt.next
    BY <2>1, <2>3 DEF IsVirt
  <2>5. IdsBelow(virt')
    BY <2>4 DEF IdsHold, Agree, IdsBelow, IsMap, Drop
  <2>6. DirsAgree(virt')
    BY <2>2, <2>3, <2>4 DEF IdsHold, Agree, DirsAgree, Drop
  <2>7. FilesAgree(virt')
    BY <2>4 DEF IdsHold, Agree, FilesAgree
  <2>8. IdsKept(virt, virt')
    BY <2>4 DEF IdsKept, Drop
  <2>9. \A y \in DOMAIN virt'.dirs : virt'.dirs[y] # T
    BY <2>3, <2>4 DEF IdsHold, Agree, DirsAgree, Drop
  <2> QED BY <2>4, <2>5, <2>6, <2>7, <2>8, <2>9 DEF IdsHold, Agree, T
<1>2. CASE {n} \notin DOMAIN virt.dirIds
  <2>1. virt' = virt
    BY <1>2 DEF EndRmdir
  <2>2. \A y \in DOMAIN virt.dirs : virt.dirs[y] # {n}
    BY <1>2 DEF IdsHold, Agree, DirsAgree
  <2> QED BY <2>1, <2>2 DEF IdsKept
<1> QED BY <1>1, <1>2

(* Nothing is known of a tree just mounted. *)
LEMMA UnusedIds == IdsHold(Unused)
<1>1. /\ Unused.dirs = <<>> /\ Unused.files = <<>> /\ Unused.dirIds = <<>>
      /\ Unused.fileIds = <<>> /\ Unused.next = FirstVnode
  BY DEF Unused
<1>2. DOMAIN <<>> = {}
  OBVIOUS
<1>3. IsVirt(Unused)
  BY DEF Unused, IsVirt
<1>4. FirstVnode <= LastVnode + 1 /\ FirstVnode \in Nat /\ FirstVnode <= FirstVnode
  BY VnodeAssumption
<1> HIDE DEF Unused
<1>5. IdsBelow(Unused)
  BY <1>1, <1>2, <1>4 DEF IdsBelow, IsMap
<1>6. DirsAgree(Unused) /\ FilesAgree(Unused)
  BY <1>1, <1>2 DEF DirsAgree, FilesAgree
<1> QED BY <1>1, <1>3, <1>4, <1>5, <1>6 DEF IdsHold, Agree

LEMMA ListingType ==
  ASSUME NEW T
  PROVE  Listing(T) \in SUBSET Tag
BY DEF Listing, NextTags

LEMMA EnteredType ==
  ASSUME NEW T \in SUBSET Tag, NEW n \in Spelling
  PROVE  Entered(T, n) \in (SUBSET Tag) \ {{}}
<1>1. Norm[n] \in Tag
  BY SpellingAssumption
<1> QED BY <1>1 DEF Entered

LEMMA IdsStep ==
  ASSUME TreeIInv, TreeNext
  PROVE  IdsHold(virt') /\ (~Remount => IdsKept(virt, virt'))
<1>0. IdsHold(virt) /\ Agree(virt)
  BY DEF TreeIInv, IdsHold
<1> DEFINE Goal == IdsHold(virt') /\ IdsKept(virt, virt')
<1>a. ASSUME virt' = virt PROVE Goal
  BY <1>0, <1>a DEF IdsKept
<1>b. ASSUME Agree(virt'), Extends(virt, virt'), WithinBound PROVE Goal
  BY <1>b, ExtendsKeeps DEF IdsHold, WithinBound
<1> HIDE DEF Goal
<1>1. ASSUME NEW v \in TagDirs, InTagDir(v) PROVE Goal
  <2> DEFINE T == TagsAt(v)
  <2>0. T \in SUBSET Tag
    BY <1>0, TagsAtType
  <2>1. CASE Readdir(v)
    <3> DEFINE I == Query(db, T) \cap DOMAIN home
               u == GetDirs(virt, T, Listing(T))
    <3>1. I \in SUBSET Ino /\ IsFiniteSet(I)
      <4>1. IsFiniteSet(DOMAIN home) /\ I \in SUBSET DOMAIN home
        BY DEF TreeIInv
      <4>2. IsFiniteSet(I)
        BY <4>1, FS_Subset
      <4> QED BY <4>2 DEF Query
    <3>2. virt' = GetFiles(u, T, I) /\ WithinBound
      BY <2>1 DEF Readdir
    <3>3. Listing(T) \in SUBSET Tag
      BY ListingType
    <3> HIDE DEF T, I
    <3>4. Agree(u) /\ Extends(virt, u)
      BY <1>0, <2>0, <3>3, GetDirsAgrees
    <3> HIDE DEF u
    <3>5. Agree(virt') /\ Extends(u, virt')
      BY <2>0, <3>1, <3>2, <3>4, GetFilesAgrees
    <3> QED BY <1>0, <1>b, <3>2, <3>4, <3>5, ExtendsChain
  <2>2. ASSUME NEW n \in FileName \cup Spelling, Lookup(v, n) PROVE Goal
    <3>1. CASE LeadsOn(T, n) /\ virt' = GetDir(virt, Entered(T, n))
      <4>1. Entered(T, n) \in (SUBSET Tag) \ {{}}
        BY <2>0, <3>1, EnteredType DEF LeadsOn
      <4> QED BY <1>0, <1>b, <2>2, <3>1, <4>1, GetDirAgrees DEF Lookup
    <3>2. ASSUME NEW i \in Shown(T, n), virt' = GetFile(virt, T, i) PROVE Goal
      <4>1. i \in Ino
        BY <3>2 DEF Shown, Named, Query
      <4> QED BY <1>0, <1>b, <2>2, <3>2, <4>1, GetFileAgrees DEF Lookup
    <3> QED BY <2>2, <3>1, <3>2 DEF Lookup
  <2>3. ASSUME NEW n \in Spelling, MkdirIn(v, n) PROVE Goal
    <3>1. virt' = GetDir(virt, Entered(T, n)) /\ WithinBound
      BY <2>3 DEF MkdirIn
    <3>2. Entered(T, n) \in (SUBSET Tag) \ {{}}
      BY <2>0, EnteredType
    <3> QED BY <1>0, <1>b, <3>1, <3>2, GetDirAgrees
  <2>4. ASSUME NEW n \in FileName, CreateInBlocked(v, n) \/ UnlinkIn(v, n) PROVE Goal
    BY <1>a, <2>4 DEF CreateInBlocked, UnlinkIn
  <2>5. ASSUME NEW n \in FileName, NEW i \in Ino, CreateIn(v, i, n) PROVE Goal
    <3>1. virt' = GetFile(virt, T, i) /\ WithinBound
      BY <2>5 DEF CreateIn
    <3> QED BY <1>0, <1>b, <3>1, GetFileAgrees
  <2> QED BY <1>1, <2>1, <2>2, <2>3, <2>4, <2>5 DEF InTagDir
<1>2. ASSUME NEW d \in made, InRealDir(d) PROVE Goal
  BY <1>a, <1>2 DEF InRealDir, CreateReal, MkdirReal, UnlinkReal, RenameReal
<1>3. ASSUME NEW i \in Ino, WriteFile(i) \/ \E T \in SUBSET Tag : SetTagsOf(i, T) PROVE Goal
  BY <1>a, <1>3 DEF WriteFile, SetTagsOf, tree
<1>4. ASSUME NEW n \in Spelling, BeginRmdir(n) \/ \E i \in Ino : TakeTags(n, i) PROVE Goal
  BY <1>a, <1>4 DEF BeginRmdir, TakeTags
<1>5. ASSUME NEW n \in Spelling, EndRmdir(n) PROVE Goal
  BY <1>0, <1>5, ForgetIds DEF Goal
<1>6. CASE Remount
  <2>1. virt' = Unused
    BY <1>6 DEF Remount
  <2> QED BY <1>6, <2>1, UnusedIds
<1> QED BY <1>1, <1>2, <1>3, <1>4, <1>5, <1>6 DEF TreeNext, Goal

-----------------------------------------------------------------------------
(* What the tag calls of a step do to the files they are not about, and to *)
(* the one they are about when they return.                                *)

OthersSame(i) ==
  \A j \in Ino \ {i} : /\ TagsOf(db', j) = TagsOf(db, j)
                       /\ \A t \in Tag : j \in db'.index[t] <=> j \in db.index[t]
                       /\ calls'[j] = calls[j]
Quiet == db' = db /\ calls' = calls

LEMMA DeleteDoes ==
  ASSUME IInv, NEW i \in Ino, NEW since, DeleteTags(i, since)
  PROVE  /\ OthersSame(i)
         /\ calls'[i] = "done" =>
              calls[i] = "done" /\ TagsOf(db', i) = {} /\ \A t \in Tag : i \notin db'.index[t]
<1>0. IsRows(db) /\ calls \in [Ino -> Ending]
  BY DEF IInv, TypeOK
<1>1. CASE db' = Deleted(i) /\ Returned(i)
  <2>1. OnlyOf(i, db') /\ TagsOf(db', i) = {}
        /\ \A t \in Tag : i \in db'.index[t] <=> i \in db.index[t] /\ t \notin TagsOf(db, i)
    BY <1>0, <1>1, DeletedOnly
  <2>2. /\ \A j \in Ino \ {i} : calls'[j] = calls[j]
        /\ calls'[i] = "done" => calls[i] = "done"
    BY <1>0, <1>1 DEF Returned
  <2>3. calls[i] = "done" => Exact(db, i)
    BY DEF IInv, Kept
  <2> QED BY <2>1, <2>2, <2>3 DEF OthersSame, OnlyOf, Exact
<1>2. ASSUME Cut(i), NEW R \in SUBSET TagsOf(db, i),
             db' \in {Undone(i, R)} \cup (IF R = TagsOf(db, i) THEN {Deleted(i)} ELSE {})
      PROVE  OthersSame(i) /\ calls'[i] # "done"
  <2>1. OnlyOf(i, db')
    BY <1>0, <1>2, UndoneOnly, DeletedOnly
  <2>2. calls'[i] = "cut" /\ \A j \in Ino \ {i} : calls'[j] = calls[j]
    BY <1>0, <1>2 DEF Cut
  <2> QED BY <2>1, <2>2 DEF OthersSame, OnlyOf
<1> QED BY <1>1, <1>2 DEF DeleteTags

LEMMA SetDoes ==
  ASSUME IInv, NEW i \in Ino, NEW T \in SUBSET Tag, NEW since, SetTags(i, T, since)
  PROVE  /\ OthersSame(i)
         /\ calls'[i] = "done" =>
              calls[i] = "done" /\ TagsOf(db', i) = T /\ (\A t \in Tag : i \in db'.index[t] <=> t \in T)
<1>0. IsRows(db) /\ calls \in [Ino -> Ending]
  BY DEF IInv, TypeOK
<1>1. CASE T = {}
  BY <1>1, DeleteDoes DEF SetTags
<1>2. ASSUME db' = After(i, T, [out |-> Removed(i, T), in |-> T]), Returned(i)
      PROVE  /\ OthersSame(i)
             /\ calls'[i] = "done" =>
                  calls[i] = "done" /\ TagsOf(db', i) = T
                  /\ (\A t \in Tag : i \in db'.index[t] <=> t \in T)
  <2> DEFINE s == [out |-> Removed(i, T), in |-> T]
  <2>1. s \in [out : SUBSET Removed(i, T), in : SUBSET T] /\ s.out = Removed(i, T) /\ s.in = T
    OBVIOUS
  <2>2. db' = After(i, T, s)
    BY <1>2
  <2> HIDE DEF s
  <2>3. /\ OnlyOf(i, db') /\ TagsOf(db', i) = T
        /\ \A t \in Tag : i \in db'.index[t]
                            <=> (i \in db.index[t] /\ t \notin s.out) \/ t \in s.in
    BY <1>0, <2>1, <2>2, AfterOnly
  <2>4. /\ \A j \in Ino \ {i} : calls'[j] = calls[j]
        /\ calls'[i] = "done" => calls[i] = "done"
    BY <1>0, <1>2 DEF Returned
  <2>5. calls[i] = "done" => Exact(db, i)
    BY DEF IInv, Kept
  <2> QED BY <2>1, <2>3, <2>4, <2>5 DEF OthersSame, OnlyOf, Exact, Removed
<1>3. ASSUME Cut(i), db' = db PROVE OthersSame(i) /\ calls'[i] # "done"
  <2>1. calls'[i] = "cut" /\ \A j \in Ino \ {i} : calls'[j] = calls[j]
    BY <1>0, <1>3 DEF Cut
  <2> QED BY <1>3, <2>1 DEF OthersSame
<1>4. ASSUME Cut(i), NEW s \in Stages(i, T), db' = After(i, T, s)
      PROVE  OthersSame(i) /\ calls'[i] # "done"
  <2>1. OnlyOf(i, db')
    BY <1>0, <1>4, AfterOnly DEF Stages
  <2>2. calls'[i] = "cut" /\ \A j \in Ino \ {i} : calls'[j] = calls[j]
    BY <1>0, <1>4 DEF Cut
  <2> QED BY <2>1, <2>2 DEF OthersSame, OnlyOf
<1> QED BY <1>1, <1>2, <1>3, <1>4 DEF SetTags

(* The requests on files: a create, a write, a rename or a command gives   *)
(* its file tags, an unlink or an rmdir takes them.                        *)
LEMMA RequestDoes ==
  ASSUME IInv, NEW i \in Ino, NEW p \in Dir, NEW over, NEW named, NEW gone,
         NEW T \in SUBSET Tag, NEW t,
         \/ Create(i, p, over, named) \/ Rename(i, p, over) \/ Write(i) \/ SetByCommand(i, T)
         \/ Unlink(i, gone) \/ RemoveTagDir(t, i)
  PROVE  /\ OthersSame(i)
         /\ calls'[i] = "done" => calls[i] = "done"
         /\ (Unlink(i, gone) \/ RemoveTagDir(t, i)) /\ calls'[i] = "done" =>
              TagsOf(db', i) = {} /\ \A u \in Tag : i \notin db'.index[u]
<1>1. NoTags => OthersSame(i) /\ (calls'[i] = "done" => calls[i] = "done")
  BY DEF NoTags, OthersSame
<1>2. AutoTags[p] \in SUBSET Tag
  BY AutoTagsAssumption
<1>3. Write(i) => AutoTags[home[i]] \in SUBSET Tag
  BY AutoTagsAssumption DEF Write, IInv, TypeOK, IsMap
<1>4. ASSUME NEW U \in SUBSET Tag, NEW since, SetTags(i, U, since)
      PROVE  OthersSame(i) /\ (calls'[i] = "done" => calls[i] = "done")
  BY <1>4, SetDoes
<1>5. ASSUME Create(i, p, over, named) \/ Rename(i, p, over) \/ Write(i) \/ SetByCommand(i, T)
      PROVE  OthersSame(i) /\ (calls'[i] = "done" => calls[i] = "done")
  BY <1>1, <1>2, <1>3, <1>4, <1>5 DEF Create, Rename, Write, SetByCommand
<1>6. ASSUME Unlink(i, gone) \/ RemoveTagDir(t, i)
      PROVE  /\ OthersSame(i)
             /\ calls'[i] = "done" =>
                  calls[i] = "done" /\ TagsOf(db', i) = {} /\ \A u \in Tag : i \notin db'.index[u]
  BY <1>6, DeleteDoes DEF Unlink, RemoveTagDir
<1> QED BY <1>5, <1>6

-----------------------------------------------------------------------------
(* The files known to have lost their names.                               *)

LEMMA GhostsKept ==
  ASSUME TreeIInv, NEW i \in Ino, OthersSame(i),
         DOMAIN home' \subseteq DOMAIN home \cup {i}, ghosts' \subseteq Ino,
         \A j \in Ino \ {i} : j \in live \cup ghosts => j \in live' \cup ghosts',
         i \in DOMAIN home' /\ calls'[i] = "done" /\ TagsOf(db', i) # {}
           => i \in live' \cup ghosts'
  PROVE  GhostsKnown'
<1>1. DOMAIN home \subseteq Ino
  BY LiveNamed DEF TreeIInv
<1>2. ASSUME NEW j \in DOMAIN home', calls'[j] = "done", TagsOf(db', j) # {}
      PROVE  j \in live' \cup ghosts'
  <2>1. CASE j = i
    BY <1>2, <2>1
  <2>2. CASE j # i
    <3>1. j \in DOMAIN home /\ j \in Ino \ {i}
      BY <1>1, <2>2
    <3>2. TagsOf(db', j) = TagsOf(db, j) /\ calls'[j] = calls[j]
      BY <3>1 DEF OthersSame
    <3>3. j \in live \cup ghosts
      BY <1>2, <3>1, <3>2 DEF TreeIInv, GhostsKnown
    <3> QED BY <3>1, <3>3
  <2> QED BY <2>1, <2>2
<1> QED BY <1>2 DEF GhostsKnown

LEMMA GhostsEnter ==
  ASSUME TreeIInv, NEW w, Reached(w), NEW i \in Ino, NEW d \in Dir, NEW n, Enter(w, i, d, n)
  PROVE  GhostsKnown'
<1> DEFINE lost == Lost(w, <<d, n>>)
           named == IF d \in w.made THEN {i} ELSE {}
<1>1. Create(i, d, lost, named) /\ ghosts' = (ghosts \cup lost \cup {i}) \ named
  BY DEF Enter
<1>2. OthersSame(i)
  BY <1>1, RequestDoes DEF TreeIInv
<1>3. DOMAIN home' = DOMAIN home \cup {i} /\ live' = (live \ lost) \cup named
  BY <1>1 DEF Create, Put
<1>4. lost \subseteq Ino
  BY LostIs, LiveNamed DEF TreeIInv
<1>5. named = {} \/ named = {i}
  OBVIOUS
<1>6. ghosts \subseteq Ino
  BY DEF TreeIInv, GhostsKnown
<1> HIDE DEF lost, named
<1> QED BY <1>1, <1>2, <1>3, <1>4, <1>5, <1>6, GhostsKept

LEMMA GhostsStep ==
  ASSUME TreeIInv, TreeNext
  PROVE  GhostsKnown'
<1>0. /\ ghosts \subseteq Ino /\ DOMAIN home \subseteq Ino /\ live \subseteq DOMAIN home /\ IInv
      /\ NamesHold /\ made \subseteq Dir
  BY LiveNamed DEF TreeIInv, GhostsKnown
<1>a. ASSUME UNCHANGED <<vars, ghosts>> PROVE GhostsKnown'
  BY <1>a DEF vars, TreeIInv, GhostsKnown, TagsOf
<1>1. ASSUME NEW v \in TagDirs, InTagDir(v) PROVE GhostsKnown'
  <2>1. CASE Readdir(v) \/ (\E n \in FileName \cup Spelling : Lookup(v, n))
             \/ (\E n \in Spelling : MkdirIn(v, n)) \/ (\E n \in FileName : CreateInBlocked(v, n))
    BY <1>a, <2>1 DEF Readdir, Lookup, MkdirIn, CreateInBlocked
  <2>2. ASSUME NEW n \in FileName, UnlinkIn(v, n) PROVE GhostsKnown'
    <3>1. PICK i \in Shown(TagsAt(v), n) :
                 LET e == <<home[i], fname[i]>>
                 IN Unlink(i, Lost(Start, e)) /\ ghosts' = (ghosts \cup Lost(Start, e)) \ {i}
      BY <2>2 DEF UnlinkIn
    <3> DEFINE gone == Lost(Start, <<home[i], fname[i]>>)
    <3>2. i \in Ino /\ Unlink(i, gone) /\ ghosts' = (ghosts \cup gone) \ {i}
      BY <3>1 DEF Shown, Named, Query
    <3> HIDE DEF gone
    <3>3. gone \subseteq Ino /\ live' = live \ gone /\ home' = home
      BY <1>0, <3>2 DEF Unlink
    <3>4. OthersSame(i) /\ (calls'[i] = "done" => TagsOf(db', i) = {})
      BY <1>0, <3>2, DeleteDoes DEF Unlink
    <3> QED BY <1>0, <3>2, <3>3, <3>4, GhostsKept
  <2>3. ASSUME NEW n \in FileName, NEW i \in Ino, CreateIn(v, i, n) PROVE GhostsKnown'
    <3> DEFINE w == WalkTo(TagsAt(v))
    <3>1. Reached(w) /\ w.at \in Dir
      BY TagsAtType, WalkReaches DEF TreeIInv
    <3>2. Enter(w, i, w.at, n)
      BY <2>3 DEF CreateIn
    <3> HIDE DEF w
    <3> QED BY <3>1, <3>2, GhostsEnter
  <2> QED BY <1>1, <2>1, <2>2, <2>3 DEF InTagDir
<1>2. ASSUME NEW d \in made, InRealDir(d) PROVE GhostsKnown'
  <2>1. ASSUME NEW n \in FileName, NEW i \in Ino, CreateReal(i, d, n) PROVE GhostsKnown'
    BY <1>0, <2>1, StartIs, GhostsEnter DEF CreateReal
  <2>2. ASSUME NEW n \in Spelling, MkdirReal(d, n) PROVE GhostsKnown'
    BY <1>a, <2>2 DEF MkdirReal
  <2>3. ASSUME NEW n \in FileName, UnlinkReal(d, n) PROVE GhostsKnown'
    <3> DEFINE i == entry[<<d, n>>]
    <3>1. Unlink(i, {i}) /\ <<d, n>> \in DOMAIN entry
      BY <2>3 DEF UnlinkReal
    <3>2. i \in Ino
      BY <1>0, <3>1, LiveNamed
    <3> HIDE DEF i
    <3>3. live' = live \ {i} /\ home' = home /\ ghosts' = ghosts
      BY <2>3, <3>1 DEF Unlink, UnlinkReal
    <3>4. OthersSame(i) /\ (calls'[i] = "done" => TagsOf(db', i) = {})
      BY <1>0, <3>1, <3>2, DeleteDoes DEF Unlink
    <3> QED BY <1>0, <3>2, <3>3, <3>4, GhostsKept
  <2>4. ASSUME NEW n \in FileName, NEW c \in made, NEW m \in FileName, RenameReal(d, n, c, m)
        PROVE  GhostsKnown'
    <3> DEFINE i == entry[<<d, n>>]
               over == {entry[e] : e \in {<<c, m>>} \cap DOMAIN entry}
    <3>1. Rename(i, c, over) /\ ghosts' = ghosts \cup over /\ <<d, n>> \in DOMAIN entry
      BY <2>4 DEF RenameReal
    <3>2. i \in Ino /\ c \in Dir
      BY <1>0, <3>1, LiveNamed
    <3> HIDE DEF i, over
    <3>3. /\ live' = live \ over /\ DOMAIN home' = DOMAIN home \cup {i}
          /\ i \in live /\ over \subseteq live \ {i}
      BY <3>1 DEF Rename, Put
    <3>4. OthersSame(i)
      BY <1>0, <3>1, <3>2, RequestDoes
    <3> QED BY <1>0, <3>1, <3>2, <3>3, <3>4, GhostsKept
  <2> QED BY <1>2, <2>1, <2>2, <2>3, <2>4 DEF InRealDir
<1>3. ASSUME NEW i \in Ino, WriteFile(i) PROVE GhostsKnown'
  <2>1. Write(i) /\ ghosts' = ghosts \cup ({i} \ live) /\ home' = home /\ live' = live
    BY <1>3 DEF WriteFile, Write
  <2>2. AutoTags[home[i]] \in SUBSET Tag
    BY <1>0, <2>1, AutoTagsAssumption DEF Write, IInv, TypeOK, IsMap
  <2>3. OthersSame(i)
    BY <1>0, <2>1, <2>2, SetDoes DEF Write
  <2> QED BY <1>0, <2>1, <2>3, GhostsKept
<1>4. ASSUME NEW i \in Ino, NEW T \in SUBSET Tag, SetTagsOf(i, T) PROVE GhostsKnown'
  <2>1. /\ SetTags(i, T, past) /\ UNCHANGED <<home, live, ghosts>>
        /\ i \in DOMAIN home => i \in live
    BY <1>0, <1>4 DEF SetTagsOf, SetByCommand, tree
  <2>2. OthersSame(i)
    BY <1>0, <2>1, SetDoes
  <2> QED BY <1>0, <2>1, <2>2, GhostsKept
<1>5. ASSUME NEW n \in Spelling, BeginRmdir(n) \/ EndRmdir(n) PROVE GhostsKnown'
  BY <1>a, <1>5 DEF BeginRmdir, EndRmdir
<1>6. ASSUME NEW n \in Spelling, NEW i \in Ino, TakeTags(n, i) PROVE GhostsKnown'
  <2>1. DeleteTags(i, past) /\ UNCHANGED <<home, live, ghosts>>
    BY <1>6 DEF TakeTags, RemoveTagDir
  <2>2. OthersSame(i) /\ (calls'[i] = "done" => TagsOf(db', i) = {})
    BY <1>0, <2>1, DeleteDoes
  <2> QED BY <1>0, <2>1, <2>2, GhostsKept
<1>7. CASE Remount
  <2>1. DOMAIN home' = live /\ live' = live /\ ghosts' = ghosts \cap live
    BY <1>7 DEF Remount, Crash
  <2> QED BY <1>0, <2>1 DEF GhostsKnown
<1> QED BY <1>1, <1>2, <1>3, <1>4, <1>5, <1>6, <1>7 DEF TreeNext

-----------------------------------------------------------------------------
(* The rmdir in progress, the registry's size and the names: all steps.    *)

LEMMA RemovalStep ==
  ASSUME TreeIInv, TreeNext
  PROVE  RemovalCovers'
<1>0. RemovalCovers /\ IInv
  BY DEF TreeIInv
<1>a. ASSUME Serve, removing' = removing PROVE RemovalCovers'
  BY <1>0, <1>a DEF Serve, RemovalCovers
<1>b. ASSUME removing' = [name |-> {}, files |-> {}] PROVE RemovalCovers'
  BY <1>b DEF RemovalCovers
<1>1. ASSUME NEW v \in TagDirs, InTagDir(v) PROVE RemovalCovers'
  BY <1>a, <1>1 DEF InTagDir, Readdir, Lookup, MkdirIn, CreateInBlocked, UnlinkIn, CreateIn
<1>2. ASSUME NEW d \in made, InRealDir(d) PROVE RemovalCovers'
  BY <1>a, <1>2 DEF InRealDir, CreateReal, MkdirReal, UnlinkReal, RenameReal
<1>3. ASSUME NEW i \in Ino, WriteFile(i) \/ \E T \in SUBSET Tag : SetTagsOf(i, T)
      PROVE  RemovalCovers'
  BY <1>a, <1>3 DEF WriteFile, SetTagsOf, tree
<1>4. ASSUME NEW n \in Spelling, BeginRmdir(n) PROVE RemovalCovers'
  <2>1. removing' = [name |-> {n}, files |-> Query(db, {Norm[n]})] /\ db' = db
    BY <1>4 DEF BeginRmdir, vars
  <2>2. removing'.name = {n} /\ removing'.files = Query(db, {Norm[n]})
    BY <2>1
  <2>3. Query(db, {Norm[n]}) \subseteq Ino
    BY DEF Query
  <2> QED BY <2>1, <2>2, <2>3 DEF RemovalCovers
<1>5. ASSUME NEW n \in Spelling, NEW i \in Ino, TakeTags(n, i) PROVE RemovalCovers'
  <2>1. removing' = [removing EXCEPT !.files = @ \ {i}] /\ DeleteTags(i, past)
    BY <1>5 DEF TakeTags, RemoveTagDir
  <2>2. /\ removing' = [name |-> removing'.name, files |-> removing'.files]
        /\ removing'.name = removing.name /\ removing'.files = removing.files \ {i}
    BY <1>0, <2>1 DEF RemovalCovers
  <2>3. /\ OthersSame(i)
        /\ calls'[i] = "done" => \A t \in Tag : i \notin db'.index[t]
    BY <1>0, <2>1, DeleteDoes
  <2>4. ASSUME NEW m \in removing.name, NEW j \in Query(db', {Norm[m]}), calls'[j] = "done"
        PROVE  j \in removing.files \ {i}
    <3>1. Norm[m] \in Tag /\ j \in Ino /\ j \in db'.index[Norm[m]]
      BY <1>0, <2>4, SpellingAssumption DEF RemovalCovers, Query
    <3>2. j # i
      BY <2>3, <2>4, <3>1
    <3>3. j \in db.index[Norm[m]] /\ calls[j] = "done"
      BY <2>3, <2>4, <3>1, <3>2 DEF OthersSame
    <3>4. j \in Query(db, {Norm[m]})
      BY <3>1, <3>3 DEF Query
    <3> QED BY <1>0, <3>2, <3>3, <3>4 DEF RemovalCovers
  <2> QED BY <1>0, <2>2, <2>4 DEF RemovalCovers
<1>6. ASSUME NEW n \in Spelling, EndRmdir(n) PROVE RemovalCovers'
  BY <1>b, <1>6 DEF EndRmdir
<1>7. CASE Remount
  BY <1>b, <1>7 DEF Remount
<1> QED BY <1>1, <1>2, <1>3, <1>4, <1>5, <1>6, <1>7 DEF TreeNext

(* Only finitely many files are ever registered. *)
LEMMA FiniteStep ==
  ASSUME TreeIInv, [Next]_vars
  PROVE  IsFiniteSet(DOMAIN home')
<1>0. IsFiniteSet(DOMAIN home) /\ live \subseteq DOMAIN home
  BY LiveNamed DEF TreeIInv
<1>1. ASSUME home' = home PROVE IsFiniteSet(DOMAIN home')
  BY <1>0, <1>1
<1>2. ASSUME NEW i, NEW p, home' = Put(home, i, p) PROVE IsFiniteSet(DOMAIN home')
  <2>1. DOMAIN home' = DOMAIN home \cup {i}
    BY <1>2 DEF Put
  <2> QED BY <1>0, <2>1, FS_AddElement
<1>3. ASSUME home' = [i \in live |-> home[i]] PROVE IsFiniteSet(DOMAIN home')
  <2>1. IsFiniteSet(live)
    BY <1>0, FS_Subset
  <2> QED BY <1>3, <2>1
<1> QED BY <1>1, <1>2, <1>3
  DEF Next, Create, Rename, Write, Unlink, SetByCommand, RemoveTagDir, Crash, vars

LEMMA NamesStep ==
  ASSUME TreeIInv, TreeNext
  PROVE  NamesHold'
<1>0. IInv /\ NamesHold /\ Agree(virt)
  BY DEF TreeIInv
<1>b. ASSUME UNCHANGED <<home, live, entry, fname, nodes>> PROVE NamesHold'
  BY <1>0, <1>b DEF NamesHold, nodes
<1>a. ASSUME UNCHANGED <<vars, entry, fname, nodes>> PROVE NamesHold'
  BY <1>a, <1>b DEF vars
<1>1. ASSUME NEW v \in TagDirs, InTagDir(v) PROVE NamesHold'
  <2> DEFINE T == TagsAt(v)
  <2>0. T \in SUBSET Tag
    BY <1>0, TagsAtType
  <2>1. CASE Readdir(v) \/ \E n \in FileName \cup Spelling : Lookup(v, n)
    BY <1>a, <2>1 DEF Readdir, Lookup
  <2>a. ASSUME NEW U \in SUBSET Tag, Leaves(WalkTo(U)), UNCHANGED <<vars, entry, fname>>
        PROVE  NamesHold'
    <3>1. Reached(WalkTo(U)) /\ WalkTo(U).entry = entry
      BY <1>0, WalkReaches
    <3>2. entry' = WalkTo(U).entry /\ UNCHANGED <<home, live, fname>>
      BY <2>a, <3>1 DEF vars
    <3> QED BY <1>0, <2>a, <3>1, <3>2, ReachedNames
  <2>2. ASSUME NEW n \in Spelling, MkdirIn(v, n) PROVE NamesHold'
    <3>1. Entered(T, n) \in SUBSET Tag
      BY <2>0, EnteredType
    <3> QED BY <2>2, <2>a, <3>1 DEF MkdirIn
  <2>3. ASSUME NEW n \in FileName, CreateInBlocked(v, n) PROVE NamesHold'
    BY <2>0, <2>3, <2>a DEF CreateInBlocked
  <2>4. ASSUME NEW n \in FileName, UnlinkIn(v, n) PROVE NamesHold'
    <3>1. PICK i \in Shown(TagsAt(v), n) :
                 LET e == <<home[i], fname[i]>>
                 IN /\ Unlink(i, Lost(Start, e)) /\ Leaves(Without(Start, e))
                    /\ entry' = Drop(entry, e)
      BY <2>4 DEF UnlinkIn
    <3> DEFINE e == <<home[i], fname[i]>>
               u == Without(Start, e)
    <3>2. /\ Unlink(i, Lost(Start, e)) /\ Leaves(u) /\ entry' = Drop(entry, e)
          /\ fname' = fname
      BY <2>4, <3>1 DEF UnlinkIn
    <3> HIDE DEF e
    <3>3. live' = live \ Lost(Start, e) /\ home' = home
      BY <3>2 DEF Unlink
    <3>4. /\ Good(u) /\ FilesNamed(NameMap(u.entry, u.made), live \ Lost(Start, e), home, fname)
          /\ u.entry = Drop(entry, e)
      <4>1. Reached(Start) /\ IsWalk(Start) /\ Start.entry = entry
        BY <1>0, StartIs DEF Good
      <4> QED BY <1>0, <4>1, WithoutNames, WithoutIs
    <3> HIDE DEF u
    <3>5. dirs' = u.dirs /\ kids' = u.kids /\ made' = u.made /\ shared' = u.shared
      BY <3>2 DEF Leaves
    <3>6. NodesAgree(u.dirs, u.kids, u.entry, u.made) /\ MadeAgree(u.kids, u.made)
          /\ u.shared \in BOOLEAN
      BY <3>4 DEF Good, IsWalk
    <3>7. fname \in [DOMAIN home -> FileName]
      BY <1>0 DEF NamesHold
    <3> QED BY <3>2, <3>3, <3>4, <3>5, <3>6, <3>7 DEF NamesHold
  <2>5. ASSUME NEW n \in FileName, NEW i \in Ino, CreateIn(v, i, n) PROVE NamesHold'
    <3> DEFINE w == WalkTo(T)
    <3>1. Reached(w) /\ w.at \in w.dirs
      BY <1>0, <2>0, WalkReaches
    <3>2. Enter(w, i, w.at, n)
      BY <2>5 DEF CreateIn
    <3> HIDE DEF w
    <3> QED BY <1>0, <3>1, <3>2, EnterNames
  <2> QED BY <1>1, <2>1, <2>2, <2>3, <2>4, <2>5 DEF InTagDir
<1>2. ASSUME NEW d \in made, InRealDir(d) PROVE NamesHold'
  <2>1. ASSUME NEW n \in FileName, NEW i \in Ino, CreateReal(i, d, n) PROVE NamesHold'
    <3>1. Reached(Start) /\ d \in Start.dirs
      BY <1>0, StartIs DEF NamesHold, NodesAgree
    <3> QED BY <1>0, <2>1, <3>1, EnterNames DEF CreateReal
  <2>2. ASSUME NEW n \in Spelling, MkdirReal(d, n) PROVE NamesHold'
    BY <1>0, <2>2, MkdirNames
  <2>3. ASSUME NEW n \in FileName, UnlinkReal(d, n) PROVE NamesHold'
    <3> DEFINE e == <<d, n>>
    <3>1. /\ e \in DOMAIN entry /\ Unlink(entry[e], {entry[e]}) /\ entry' = Drop(entry, e)
          /\ UNCHANGED <<fname, nodes>>
      BY <2>3 DEF UnlinkReal
    <3>2. live' = live \ {entry[e]} /\ home' = home /\ e[1] \in made
      BY <3>1 DEF Unlink
    <3> HIDE DEF e
    <3> QED BY <1>0, <3>1, <3>2, LoseName
  <2>4. ASSUME NEW n \in FileName, NEW c \in made, NEW m \in FileName, RenameReal(d, n, c, m)
        PROVE  NamesHold'
    BY <1>0, <2>4, RenameNames
  <2> QED BY <1>2, <2>1, <2>2, <2>3, <2>4 DEF InRealDir
<1>3. ASSUME NEW i \in Ino, WriteFile(i) \/ \E T \in SUBSET Tag : SetTagsOf(i, T)
      PROVE  NamesHold'
  BY <1>b, <1>3 DEF WriteFile, Write, SetTagsOf, SetByCommand, tree
<1>4. ASSUME NEW n \in Spelling, BeginRmdir(n) \/ EndRmdir(n) PROVE NamesHold'
  BY <1>a, <1>4 DEF BeginRmdir, EndRmdir
<1>5. ASSUME NEW n \in Spelling, NEW i \in Ino, TakeTags(n, i) PROVE NamesHold'
  BY <1>b, <1>5 DEF TakeTags, RemoveTagDir
<1>6. CASE Remount
  BY <1>0, <1>6, RemountNames
<1> QED BY <1>1, <1>2, <1>3, <1>4, <1>5, <1>6 DEF TreeNext

-----------------------------------------------------------------------------
(* The invariant and the properties that follow from it.                   *)

LEMMA TreeInitIInv == TreeInit => TreeIInv
<1> SUFFICES ASSUME TreeInit PROVE TreeIInv
  OBVIOUS
<1>1. /\ Init /\ entry = <<>> /\ fname = <<>> /\ ghosts = {}
      /\ dirs = {Root} /\ made = {Root} /\ kids = <<>> /\ shared = TRUE /\ virt = Unused
      /\ removing = [name |-> {}, files |-> {}] /\ home = <<>> /\ live = {}
  BY DEF TreeInit, Init
<1>2. IInv
  BY <1>1, InitIInv
<1>3. DOMAIN <<>> = {}
  OBVIOUS
<1>4. NamesHold
  <2>1. NodesAgree(dirs, kids, entry, made)
    BY <1>1, <1>3, DirAssumption DEF NodesAgree, IsMap
  <2>2. ASSUME NEW c \in made, NEW d \in made, NEW n \in Spelling
        PROVE  PathOf[d] # Append(PathOf[c], n)
    <3>1. c \in Dir /\ PathOf[c] = <<>> /\ PathOf[d] = <<>>
      BY <1>1, DirAssumption
    <3>2. <<>> # Append(<<>>, n)
      OBVIOUS
    <3> QED BY <3>1, <3>2
  <2>3. MadeAgree(kids, made)
    BY <1>1, <1>3, <2>2 DEF MadeAgree
  <2>4. DOMAIN NameMap(entry, made) = {}
    BY <1>1, <1>3 DEF NameMap
  <2>5. FilesNamed(NameMap(entry, made), live, home, fname)
    BY <1>1, <2>4 DEF FilesNamed
  <2>6. fname \in [DOMAIN home -> FileName]
    BY <1>1, <1>3
  <2> QED BY <1>1, <2>1, <2>3, <2>5, <2>6 DEF NamesHold
<1>5. IsFiniteSet(DOMAIN home)
  BY <1>1, <1>3, FS_EmptySet
<1>6. Agree(virt) /\ virt.next <= LastVnode + 1
  BY <1>1, UnusedIds DEF IdsHold
<1>7. RemovalCovers
  BY <1>1 DEF RemovalCovers
<1>8. GhostsKnown
  BY <1>1, <1>3 DEF GhostsKnown
<1> QED BY <1>2, <1>4, <1>5, <1>6, <1>7, <1>8 DEF TreeIInv

LEMMA TreeNextIInv == TreeIInv /\ [TreeNext]_treeVars => TreeIInv'
<1> SUFFICES ASSUME TreeIInv, [TreeNext]_treeVars PROVE TreeIInv'
  OBVIOUS
<1>1. [Next]_vars
  BY TreeStepsStore
<1>2. IInv'
  BY <1>1, NextIInv DEF TreeIInv
<1>3. IsFiniteSet(DOMAIN home')
  BY <1>1, FiniteStep
<1>4. CASE TreeNext
  <2>1. NamesHold' /\ RemovalCovers' /\ GhostsKnown' /\ IdsHold(virt')
    BY <1>4, NamesStep, RemovalStep, GhostsStep, IdsStep
  <2> QED BY <1>2, <1>3, <2>1 DEF IdsHold, TreeIInv
<1>5. CASE UNCHANGED treeVars
  <2>1. NamesHold'
    BY <1>5 DEF treeVars, tree, nodes, TreeIInv, NamesHold
  <2>2. RemovalCovers' /\ GhostsKnown'
    BY <1>5 DEF treeVars, tree, TreeIInv, RemovalCovers, GhostsKnown, Query, TagsOf
  <2>3. Agree(virt') /\ virt'.next <= LastVnode + 1
    BY <1>5 DEF treeVars, tree, TreeIInv
  <2> QED BY <1>2, <1>3, <2>1, <2>2, <2>3 DEF TreeIInv
<1> QED BY <1>4, <1>5

(* The inductive invariant holds in every reachable state of the tree. *)
THEOREM TreeInvariance == TreeSpec => []TreeIInv
BY TreeInitIInv, TreeNextIInv, PTL DEF TreeSpec

-----------------------------------------------------------------------------
(* Types, and what the tree does to the tag rows.                          *)

LEMMA TypesFollow == TreeIInv => TreeTypeOK
<1> SUFFICES ASSUME TreeIInv PROVE TreeTypeOK
  OBVIOUS
<1>1. NamesHold /\ IInv
  BY DEF TreeIInv
<1>2. /\ IsMap(virt.dirs, FirstVnode..LastVnode, SUBSET Tag)
      /\ IsMap(virt.files, FirstVnode..LastVnode, Ino)
      /\ virt.next \in FirstVnode..(LastVnode + 1)
  <2>1. IdsBelow(virt) /\ virt.next <= LastVnode + 1
    BY DEF TreeIInv, Agree
  <2>2. FirstVnode..(virt.next - 1) \subseteq FirstVnode..LastVnode
    BY <2>1, VnodeAssumption DEF IdsBelow
  <2>3. virt.next \in FirstVnode..(LastVnode + 1)
    BY <2>1, VnodeAssumption DEF IdsBelow
  <2> QED BY <2>1, <2>2, <2>3 DEF IdsBelow, IsMap
<1>3. removing.name \subseteq Spelling /\ removing.files \subseteq Ino /\ ghosts \subseteq Ino
  BY DEF TreeIInv, RemovalCovers, GhostsKnown
<1>4. Names(Start) = {e \in DOMAIN entry : e[1] \in made}
  BY <1>1, StartIs DEF Names
<1>5. \A e \in Names(Start) : entry[e] \in live /\ e = <<home[entry[e]], fname[entry[e]]>>
  BY <1>1, <1>4, LiveNamed
<1>6. ASSUME NEW j \in live PROVE j \in {entry[e] : e \in Names(Start)}
  <2>1. /\ <<home[j], fname[j]>> \in DOMAIN entry /\ home[j] \in made
        /\ entry[<<home[j], fname[j]>>] = j
    BY <1>1, LiveNamed
  <2> DEFINE e == <<home[j], fname[j]>>
  <2>2. e \in DOMAIN entry /\ e[1] \in made /\ entry[e] = j
    BY <2>1
  <2> QED BY <1>4, <2>2
<1>7. live = {entry[e] : e \in Names(Start)}
  BY <1>5, <1>6
<1>8. /\ NodesAgree(dirs, kids, entry, made) /\ MadeAgree(kids, made)
      /\ shared \in BOOLEAN /\ fname \in [DOMAIN home -> FileName]
  BY <1>1 DEF NamesHold
<1> QED BY <1>2, <1>3, <1>5, <1>7, <1>8 DEF TreeTypeOK, NodesAgree, MadeAgree

(* Types; a live file's name and directory in the registry are those of    *)
(* its one entry that clients can walk to, and the directories they can    *)
(* walk to hang together, whatever clones a rename or mkdir left and       *)
(* whatever was created through @tags in them.                             *)
THEOREM TreeTypes == TreeSpec => []TreeTypeOK
BY TreeInvariance, TypesFollow, PTL

(* Every behaviour of the tree is, for the tag rows, one of the tag store: *)
(* the requests on real and on virtual directories write the rows only the *)
(* way TagStore says, and so all that is proved of it holds of them.       *)
THEOREM TreeImplementsStore == TreeSpec => Spec
<1>1. TreeInit => Init
  BY DEF TreeInit
<1>2. TreeIInv /\ [TreeNext]_treeVars => [Next]_vars
  BY TreeStepsStore
<1> QED BY <1>1, <1>2, TreeInvariance, PTL DEF TreeSpec, Spec

(* The rows and the index agree under the whole tree of requests. *)
THEOREM TreeAgreement == TreeSpec => []IndexExact /\ []TaggedFound
BY TreeImplementsStore, Agreement, Discovery, PTL

-----------------------------------------------------------------------------
(* The virtual ids.                                                        *)

LEMMA IdsFollow == TreeIInv => VirtualIdsAgree
<1> SUFFICES ASSUME TreeIInv PROVE VirtualIdsAgree
  OBVIOUS
<1>1. IdsBelow(virt) /\ DirsAgree(virt) /\ FilesAgree(virt)
  BY DEF TreeIInv, Agree
<1>2. \A f \in DOMAIN virt.files : Cardinality({k \in DOMAIN virt.fileIds : virt.fileIds[k] = f}) = 1
  <2> TAKE f \in DOMAIN virt.files
  <2>1. PICK k \in DOMAIN virt.fileIds : virt.fileIds[k] = f
    BY <1>1 DEF FilesAgree
  <2>2. {l \in DOMAIN virt.fileIds : virt.fileIds[l] = f} = {k}
    BY <1>1, <2>1 DEF FilesAgree
  <2> QED BY <2>2, FS_Singleton
<1>3. \A x \in DOMAIN virt.dirs \cup DOMAIN virt.files : x < virt.next
  BY <1>1, VnodeAssumption DEF IdsBelow, IsMap
<1>4. DOMAIN virt.dirs \cap DOMAIN virt.files = {}
  BY <1>1 DEF IdsBelow
<1> QED BY <1>1, <1>2, <1>3, <1>4 DEF VirtualIdsAgree, DirsAgree, FilesAgree

(* The four maps of virtual ids agree with each other for any number of    *)
(* tags, files and requests.                                               *)
THEOREM VirtualIds == TreeSpec => []VirtualIdsAgree
BY TreeInvariance, IdsFollow, PTL

(* A virtual id the kernel may hold leads where it led, until a remount:   *)
(* no request, and no rmdir, gives an id again.                            *)
THEOREM IdsAreKept == TreeSpec => VirtualIdsKept
<1>1. TreeIInv /\ [TreeNext]_treeVars =>
        [ ~Remount =>
            /\ \A f \in DOMAIN virt.files :
                 f \in DOMAIN virt'.files /\ virt'.files[f] = virt.files[f]
            /\ \A v \in DOMAIN virt.dirs \cap DOMAIN virt'.dirs : virt'.dirs[v] = virt.dirs[v]
            /\ \A x \in DOMAIN virt'.dirs \ DOMAIN virt.dirs : x >= virt.next ]_treeVars
  BY IdsStep DEF IdsKept
<1> QED BY <1>1, TreeInvariance, PTL DEF TreeSpec, VirtualIdsKept

-----------------------------------------------------------------------------
(* What the directories of @tags show.                                     *)

LEMMA DoneIsExact ==
  ASSUME TreeIInv, NEW i \in Ino, calls[i] = "done"
  PROVE  /\ \A t \in Tag : i \in db.index[t] <=> t \in TagsOf(db, i)
         /\ \A T \in (SUBSET Tag) \ {{}} : i \in Query(db, T) <=> T \subseteq TagsOf(db, i)
<1>1. Exact(db, i)
  BY DEF TreeIInv, IInv, Kept
<1> QED BY <1>1 DEF Exact, Query

LEMMA ShownFollows == TreeIInv => TaggedShown
<1> SUFFICES ASSUME TreeIInv, NEW e \in Names(Start), calls[entry[e]] = "done",
                    NEW T \in (SUBSET TagsOf(db, entry[e])) \ {{}}
             PROVE  entry[e] \in Shown(T, e[2]) \/ LeadsOn(T, e[2])
  BY DEF TaggedShown
<1> DEFINE i == entry[e]
<1>0. IInv /\ NamesHold /\ e \in DOMAIN entry /\ e[1] \in made
  BY StartIs DEF TreeIInv, Names
<1>1. /\ i \in live /\ i \in DOMAIN home /\ i \in Ino
      /\ fname[i] = e[2]
  BY <1>0, LiveNamed
<1>2. T \in (SUBSET Tag) \ {{}}
  BY <1>1, TagsAreTags DEF TreeIInv, IInv, TypeOK
<1>3. i \in Query(db, T)
  BY <1>1, <1>2, DoneIsExact
<1>4. i \in Named(T, e[2])
  BY <1>1, <1>3 DEF Named
<1> QED BY <1>4 DEF Shown

(* A named file is shown in every directory of @tags made from some of its *)
(* tags: the rows, the index, the dirents and the registry's names agree.  *)
THEOREM TaggedAreShown == TreeSpec => []TaggedShown
BY TreeInvariance, ShownFollows, PTL

LEMMA GhostsFollow == TreeIInv => OnlyGhosts
<1> SUFFICES ASSUME TreeIInv, NEW v \in TagDirs, NEW n \in FileName,
                    NEW i \in Shown(TagsAt(v), n) \ ghosts, calls[i] = "done"
             PROVE  i \in live
  BY DEF OnlyGhosts
<1>1. i \in Query(db, TagsAt(v)) /\ i \in DOMAIN home /\ i \in Ino
  BY DEF Shown, Named, Query
<1>2. TagsAt(v) \in (SUBSET Tag) \ {{}}
  BY <1>1, TagsAtType DEF TreeIInv, Query
<1>3. TagsOf(db, i) # {}
  BY <1>1, <1>2, DoneIsExact
<1> QED BY <1>1, <1>3 DEF TreeIInv, GhostsKnown

(* A file shown without a name is one of the four kinds of ghosts. *)
THEOREM ShownAreNamed == TreeSpec => []OnlyGhosts
BY TreeInvariance, GhostsFollow, PTL

-----------------------------------------------------------------------------
(* What a request in @tags does to the names of other files.               *)

LEMMA UnlinkTakes ==
  ASSUME TreeIInv, NEW v \in TagDirs, NEW n \in FileName,
         \A k \in Ino : calls[k] = "done",
         UnlinkIn(v, n), NEW j \in live \ live'
  PROVE  \/ Shown(TagsAt(v), n) = {j}
         \/ \E g \in Shown(TagsAt(v), n) \cap ghosts :
              home[j] \in made \ made' \/ <<home[j], fname[j]>> = <<home[g], fname[g]>>
<1> DEFINE S == Shown(TagsAt(v), n)
<1>0. IInv /\ NamesHold /\ Good(Start) /\ Reached(Start) /\ IsWalk(Start)
  BY StartIs DEF TreeIInv, Good
<1>1. PICK i \in S : LET e == <<home[i], fname[i]>>
                     IN Unlink(i, Lost(Start, e)) /\ Leaves(Without(Start, e))
  BY DEF UnlinkIn
<1> DEFINE e == <<home[i], fname[i]>>
<1>2. j \in Lost(Start, e)
  BY <1>1 DEF Unlink
<1>3. S = {i}
  <2>1. IsFiniteSet(S)
    <3>1. S \subseteq DOMAIN home /\ IsFiniteSet(DOMAIN home)
      BY DEF Shown, Named, TreeIInv
    <3> QED BY <3>1, FS_Subset
  <2>2. Cardinality(S) = 1
    BY DEF UnlinkIn
  <2>3. \E x : S = {x}
    BY <2>1, <2>2, FS_Singleton
  <2> QED BY <1>1, <2>3
<1>4. made' = made \ CutOff(Start, e)
  BY <1>0, <1>1, WithoutIs, StartIs DEF Leaves
<1>5. /\ <<home[j], fname[j]>> \in DOMAIN entry /\ home[j] \in made
      /\ entry[<<home[j], fname[j]>>] = j
      /\ <<home[j], fname[j]>> = e \/ home[j] \in CutOff(Start, e)
  BY <1>0, <1>2, LostIs
<1>6. CASE i \in ghosts
  BY <1>1, <1>4, <1>5, <1>6
<1>7. CASE i \notin ghosts
  <2>1. i \in live
    BY <1>1, <1>7, GhostsFollow DEF OnlyGhosts, Shown, Named, Query
  <2>2. e \in DOMAIN entry /\ entry[e] = i
    BY <1>0, <2>1, LiveNamed
  <2>3. e \notin DOMAIN Start.kids
    BY <1>0, <2>2, StartIs DEF NamesHold, NodesAgree
  <2>4. CutOff(Start, e) = {}
    BY <2>3 DEF CutOff
  <2> QED BY <1>3, <1>5, <2>2, <2>4
<1> QED BY <1>6, <1>7

LEMMA CreateTakes ==
  ASSUME TreeIInv, NEW v \in TagDirs, NEW n \in FileName, NEW i \in Ino,
         \A k \in Ino : calls[k] = "done",
         CreateIn(v, i, n), NEW j \in live \ live'
  PROVE  home[j] \in made \ made' \/ ~(TagsAt(v) \subseteq TagsOf(db, j))
<1> DEFINE T == TagsAt(v)
           w == WalkTo(T)
           e == <<w.at, n>>
<1>0. IInv /\ NamesHold
  BY DEF TreeIInv
<1>1. T \in (SUBSET Tag) \ {{}}
  BY TagsAtType DEF TreeIInv, CreateIn
<1>2. Enter(w, i, w.at, n) /\ Named(T, n) = {}
  BY DEF CreateIn, Vacant
<1>3. Reached(w) /\ w.at \in w.dirs
  BY <1>0, <1>1, WalkReaches
<1> HIDE DEF T, w
<1>4. j \in Lost(w, e) /\ made' = w.made \ CutOff(w, e)
  <2>1. Create(i, w.at, Lost(w, e), IF w.at \in w.made THEN {i} ELSE {}) /\ Leaves(Without(w, e))
    BY <1>2 DEF Enter
  <2>2. j \in Lost(w, e)
    BY <2>1 DEF Create
  <2>3. IsWalk(w)
    BY <1>3 DEF Reached, Good
  <2> QED BY <2>1, <2>2, <2>3, WithoutIs DEF Leaves
<1> HIDE DEF e
<1>5. /\ j \in live /\ home[j] \in made
      /\ <<home[j], fname[j]>> = e \/ home[j] \in CutOff(w, e)
  BY <1>0, <1>3, <1>4, LostIs
<1>6. CASE home[j] \in CutOff(w, e)
  BY <1>4, <1>5, <1>6
<1>7. CASE <<home[j], fname[j]>> = e
  <2>1. fname[j] = n
    BY <1>7 DEF e
  <2>2. j \in Ino /\ j \in DOMAIN home
    BY <1>0, <1>5, LiveNamed
  <2>3. j \notin Query(db, T)
    BY <1>2, <2>1, <2>2 DEF Named
  <2>4. ~(T \subseteq TagsOf(db, j))
    BY <1>1, <2>2, <2>3, DoneIsExact
  <2> QED BY <2>4 DEF T
<1> QED BY <1>5, <1>6, <1>7

(* A request in @tags takes no name from a file it is not about: an unlink *)
(* takes that of the file shown, or through a ghost the name that the      *)
(* ghost had; a create one from a file that could not be seen there; and   *)
(* either those of all files in the directory that has got the name.       *)
THEOREM NamesAreKept == TreeSpec => NamesKept
<1>1. TreeIInv =>
        [ \A j \in live \ live', v \in TagDirs, n \in FileName, i \in Ino :
            (\A k \in Ino : calls[k] = "done") =>
              /\ UnlinkIn(v, n) =>
                   \/ Shown(TagsAt(v), n) = {j}
                   \/ \E g \in Shown(TagsAt(v), n) \cap ghosts :
                        home[j] \in made \ made' \/ <<home[j], fname[j]>> = <<home[g], fname[g]>>
              /\ CreateIn(v, i, n) =>
                   home[j] \in made \ made' \/ ~(TagsAt(v) \subseteq TagsOf(db, j)) ]_treeVars
  BY UnlinkTakes, CreateTakes
<1> QED BY <1>1, TreeInvariance, PTL DEF NamesKept

LEMMA CreatedStep ==
  ASSUME TreeIInv, TreeIInv', NEW i \in DOMAIN home' \ DOMAIN home, NEW v \in TagDirs, NEW n \in FileName,
         CreateIn(v, i, n), calls' = calls, calls[i] = "done"
  PROVE  /\ Named(TagsAt(v), n)' = {i}
         /\ virt'.files[virt'.fileIds[<<TagsAt(v), i>>]] = i
<1> DEFINE T == TagsAt(v)
           w == WalkTo(T)
           over == Lost(w, <<w.at, n>>)
           named == IF w.at \in w.made THEN {i} ELSE {}
<1>0. Agree(virt) /\ IInv /\ NamesHold
  BY DEF TreeIInv
<1>1. T \in (SUBSET Tag) \ {{}}
  BY TagsAtType DEF TreeIInv, CreateIn
<1>2. /\ Create(i, w.at, over, named) /\ Named(T, n) = {} /\ w.end = "ok"
      /\ fname' = Put(fname, i, n) /\ virt' = GetFile(virt, T, i)
  BY DEF CreateIn, Enter, Vacant
<1>a. w.at \in Dir /\ PathOf[w.at] = Path(T)
  BY <1>0, <1>1, <1>2, WalkReaches
<1> HIDE DEF over, named, w
<1>3. AutoTags[w.at] = T
  <2> HIDE DEF T
  <2> DEFINE p == Path(T)
  <2>1. p \in Seq(Tag) /\ {p[k] : k \in 1..Len(p)} = T
    BY <1>1, PathHasTags
  <2>2. AutoTags[w.at] = {Norm[p[k]] : k \in 1..Len(p)}
    BY <1>a, DirAssumption
  <2>3. \A k \in 1..Len(p) : Norm[p[k]] = p[k]
    BY <2>1, SpellingAssumption
  <2> QED BY <2>1, <2>2, <2>3
<1>b. DOMAIN home' = DOMAIN home \cup {i}
  BY <1>2 DEF Create, Put
<1>c. i \in Ino
  BY DEF TreeIInv, IInv, TypeOK, IsMap
<1>4. SetTags(i, T, {}) /\ DOMAIN home' = DOMAIN home \cup {i}
  BY <1>1, <1>2, <1>3 DEF Create, Put
<1>5. /\ OthersSame(i)
      /\ \A t \in Tag : i \in db'.index[t] <=> t \in T
  BY <1>0, <1>1, <1>4, <1>c, SetDoes
<1>6. /\ Agree(virt') /\ virt'.dirs = virt.dirs /\ <<T, i>> \in DOMAIN virt'.fileIds
  BY <1>0, <1>2, <1>c, GetFileAgrees
<1>7. TagsAt(v)' = T
  BY <1>6 DEF TagsAt
<1> DEFINE N == {j \in Query(db', T) \cap DOMAIN home' : fname'[j] = n}
<1> HIDE DEF T
<1>8. i \in N
  BY <1>1, <1>2, <1>4, <1>5, <1>c DEF Query, Put
<1>9. ASSUME NEW j \in N, j # i PROVE FALSE
  <2>1. j \in Ino /\ j \in DOMAIN home /\ \A t \in T : j \in db'.index[t]
    BY <1>4, <1>9 DEF Query
  <2>2. j \in Query(db, T)
    BY <1>1, <1>5, <1>9, <2>1 DEF Query, OthersSame
  <2>3. DOMAIN fname = DOMAIN home
    BY <1>0 DEF NamesHold
  <2>4. fname[j] = n
    BY <1>2, <1>9, <2>1, <2>3 DEF Put
  <2> QED BY <1>2, <2>1, <2>2, <2>4 DEF Named
<1>10. Named(TagsAt(v), n)' = {i}
  BY <1>7, <1>8, <1>9 DEF Named
<1>11. virt'.files[virt'.fileIds[<<T, i>>]] = i
  BY <1>6 DEF Agree, FilesAgree
<1> QED BY <1>10, <1>11 DEF T

(* A file created in a directory of @tags is shown there, alone under its  *)
(* name: the names on the path made for a set of tags give back the tags.  *)
THEOREM CreatedAreShown == TreeSpec => CreatedIsShown
<1>1. TreeIInv /\ TreeIInv' =>
        [ \A i \in DOMAIN home' \ DOMAIN home, v \in TagDirs, n \in FileName :
            CreateIn(v, i, n) /\ calls' = calls /\ calls[i] = "done" =>
              /\ Named(TagsAt(v), n)' = {i}
              /\ virt'.files[virt'.fileIds[<<TagsAt(v), i>>]] = i ]_treeVars
  BY CreatedStep
<1> QED BY <1>1, TreeInvariance, PTL DEF CreatedIsShown

LEMMA RemovedStep ==
  ASSUME TreeIInv, NEW t \in Tag, EndRmdir(t), \A i \in Ino : calls[i] = "done"
  PROVE  t \notin Listing({})' /\ \A i \in Ino : t \notin TagsOf(db, i)'
<1>1. t \in removing.name /\ removing.files = {} /\ db' = db
  BY DEF EndRmdir, vars
<1>2. Norm[t] = t
  BY SpellingAssumption
<1>3. Query(db, {t}) = {}
  BY <1>1, <1>2 DEF TreeIInv, RemovalCovers, Query
<1>4. db.index[t] = {}
  BY <1>3 DEF Query, TreeIInv, IInv, TypeOK, IsRows
<1>5. \A x \in DOMAIN virt'.dirs : virt'.dirs[x] # {t}
  BY ForgetIds DEF TreeIInv, IdsHold
<1>6. \A i \in Ino : t \notin TagsOf(db, i)
  BY <1>4, DoneIsExact
<1>7. t \notin Listing({})'
  BY <1>1, <1>4, <1>5 DEF Listing, NextTags
<1> QED BY <1>1, <1>6, <1>7 DEF TagsOf

(* When an rmdir in @tags ends no file has the tag and it is not listed,   *)
(* whatever was created while it went from file to file.                   *)
THEOREM RemovedIsGone == TreeSpec => RemovedTagGone
<1>1. TreeIInv =>
        [ \A t \in Tag :
            EndRmdir(t) /\ (\A i \in Ino : calls[i] = "done") =>
              t \notin Listing({})' /\ \A i \in Ino : t \notin TagsOf(db, i)' ]_treeVars
  BY RemovedStep
<1> QED BY <1>1, TreeInvariance, PTL DEF RemovedTagGone
=============================================================================
