------------------------- MODULE ContentStoreProofs -------------------------
(***************************************************************************)
(* Theorems about ContentStore, for every set of chunks, contents, inodes  *)
(* and names.  Each property follows from the inductive invariant IInv.    *)
(***************************************************************************)
EXTENDS ContentStore, TLAPS

(* save_recipe in the tree: the file's chunks become referenced, and no    *)
(* chunk that nothing referenced otherwise does.                           *)
LEMMA WithRecipeTree ==
  ASSUME NEW d, IsDb(d), NEW i \in Ino, NEW r \in Seq(Chunk)
  PROVE  LET e == WithRecipe(d, i, r)
         IN  /\ IsDb(e)
             /\ e.names = d.names
             /\ e.next = d.next
             /\ DOMAIN e.recipe = DOMAIN d.recipe \cup {i}
             /\ e.recipe[i] = r
             /\ \A j \in DOMAIN d.recipe : j # i => e.recipe[j] = d.recipe[j]
             /\ Referenced(e) \subseteq Referenced(d) \cup ChunksOf(r)
<1>1. IsMap(d.recipe, Ino, Seq(Chunk))
  BY DEF IsDb
<1>2. /\ IsMap(Put(d.recipe, i, r), Ino, Seq(Chunk))
      /\ DOMAIN Put(d.recipe, i, r) = DOMAIN d.recipe \cup {i}
      /\ Put(d.recipe, i, r)[i] = r
      /\ \A j \in DOMAIN d.recipe : j # i => Put(d.recipe, i, r)[j] = d.recipe[j]
  BY <1>1 DEF IsMap, Put
<1>3. IsDb(WithRecipe(d, i, r))
  BY <1>2 DEF IsDb, WithRecipe
<1>4. Referenced(WithRecipe(d, i, r)) \subseteq Referenced(d) \cup ChunksOf(r)
  BY <1>2 DEF Referenced, WithRecipe
<1> QED BY <1>2, <1>3, <1>4 DEF WithRecipe

(* delete_file's second write: the removed recipe's chunks may stop being  *)
(* referenced, none starts to be.                                          *)
LEMMA WithoutRecipeTree ==
  ASSUME NEW d, IsDb(d), NEW i \in Ino
  PROVE  LET e == WithoutRecipe(d, i)
         IN  /\ IsDb(e)
             /\ e.names = d.names
             /\ e.next = d.next
             /\ DOMAIN e.recipe = DOMAIN d.recipe \ {i}
             /\ \A j \in DOMAIN d.recipe : j # i => e.recipe[j] = d.recipe[j]
             /\ Referenced(e) \subseteq Referenced(d)
<1>1. IsMap(d.recipe, Ino, Seq(Chunk))
  BY DEF IsDb
<1>2. /\ IsMap(Drop(d.recipe, i), Ino, Seq(Chunk))
      /\ DOMAIN Drop(d.recipe, i) = DOMAIN d.recipe \ {i}
      /\ \A j \in DOMAIN d.recipe : j # i => Drop(d.recipe, i)[j] = d.recipe[j]
  BY <1>1 DEF IsMap, Drop
<1>3. IsDb(WithoutRecipe(d, i))
  BY <1>2 DEF IsDb, WithoutRecipe
<1>4. Referenced(WithoutRecipe(d, i)) \subseteq Referenced(d)
  BY <1>2 DEF Referenced, WithoutRecipe
<1> QED BY <1>2, <1>3, <1>4 DEF WithoutRecipe

(* A change of names or of the counter references the same chunks. *)
LEMMA WithNamesTree ==
  ASSUME NEW d, IsDb(d), NEW names, IsMap(names, Name, Ino)
  PROVE  /\ IsDb(WithNames(d, names))
         /\ WithNames(d, names).recipe = d.recipe
         /\ WithNames(d, names).names = names
         /\ WithNames(d, names).next = d.next
         /\ Referenced(WithNames(d, names)) = Referenced(d)
BY DEF IsDb, Referenced, WithNames

LEMMA WithNextTree ==
  ASSUME NEW d, IsDb(d), NEW next \in Nat
  PROVE  /\ IsDb(WithNext(d, next))
         /\ WithNext(d, next).recipe = d.recipe
         /\ WithNext(d, next).names = d.names
         /\ WithNext(d, next).next = next
         /\ Referenced(WithNext(d, next)) = Referenced(d)
BY DEF IsDb, Referenced, WithNext

(* The chunks of a recipe of a well-formed tree are chunks. *)
LEMMA ReferencedChunks ==
  ASSUME NEW d, IsDb(d)
  PROVE  /\ Referenced(d) \subseteq Chunk
         /\ \A i \in DOMAIN d.recipe : /\ i \in Ino
                                       /\ d.recipe[i] \in Seq(Chunk)
                                       /\ ChunksOf(d.recipe[i]) \subseteq Referenced(d)
<1>1. \A i \in DOMAIN d.recipe : i \in Ino /\ d.recipe[i] \in Seq(Chunk)
  BY DEF IsDb, IsMap
<1>2. \A s \in Seq(Chunk) : ChunksOf(s) \subseteq Chunk
  BY DEF ChunksOf
<1> QED BY <1>1, <1>2 DEF Referenced

(* One write and a flush: durable, or Err with the write still pending. *)
LEMMA WriteOne ==
  ASSUME NEW t, Write(<<t>>), faults \in Nat
  PROVE  /\ db' = t
         /\ past' \subseteq past \cup {db}
         /\ faults' \in Nat
         /\ faults' = 0 => faults = 0
BY DEF Write, Fault

(* Two writes and a flush: as many of them as succeeded. *)
LEMMA WriteTwo ==
  ASSUME NEW s, NEW t, Write(<<s, t>>), faults \in Nat
  PROVE  /\ db' \in {s, t}
         /\ past' \subseteq past \cup {db, s}
         /\ faults' \in Nat
         /\ faults' = 0 => faults = 0 /\ db' = t
BY DEF Write, Fault

-----------------------------------------------------------------------------
(* What each action does to the trees a crash could bring back: they stay  *)
(* well formed, and every chunk they reference was referenced before, or   *)
(* is one the finished store job has put on disk.                          *)

TreesFrom(C) ==
  \A e \in past' \cup {db'} :
    /\ IsDb(e)
    /\ \A c \in Referenced(e) : c \in C \/ \E d \in past \cup {db} : c \in Referenced(d)

LEMMA CreateNamedTrees ==
  ASSUME TypeOK, NEW n \in Name, NEW d \in Contents, CreateNamed(n, d)
  PROVE  /\ TreesFrom({})
         /\ db'.recipe = db.recipe
         /\ db'.next = db.next + 1
         /\ DOMAIN db'.names = DOMAIN db.names \cup {n}
         /\ db'.names[n] = db.next
         /\ \A m \in DOMAIN db.names : m # n => db'.names[m] = db.names[m]
<1> DEFINE i == db.next
           counted == WithNext(db, i + 1)
           named == WithNames(counted, Put(db.names, n, i))
<1>1. IsDb(db) /\ i \in Nat /\ i \in Ino
  BY DEF TypeOK, IsDb, CreateNamed, Ino
<1>2. /\ IsDb(counted) /\ Referenced(counted) = Referenced(db)
      /\ counted.recipe = db.recipe /\ counted.next = i + 1
  BY <1>1 DEF WithNext, IsDb, Referenced
<1>3. /\ IsMap(Put(db.names, n, i), Name, Ino)
      /\ DOMAIN Put(db.names, n, i) = DOMAIN db.names \cup {n}
      /\ Put(db.names, n, i)[n] = i
      /\ \A m \in DOMAIN db.names : m # n => Put(db.names, n, i)[m] = db.names[m]
  BY <1>1 DEF IsDb, IsMap, Put
<1>4. /\ IsDb(named) /\ Referenced(named) = Referenced(db)
      /\ named.recipe = db.recipe /\ named.next = i + 1
      /\ named.names = Put(db.names, n, i)
  BY <1>2, <1>3, WithNamesTree
<1>5. db' = named /\ past' = past \cup {db, counted}
  BY DEF CreateNamed
<1> HIDE DEF counted, named
<1>6. \A e \in past : IsDb(e)
  BY DEF TypeOK
<1> QED BY <1>1, <1>2, <1>3, <1>4, <1>5, <1>6 DEF TreesFrom

LEMMA CommitTrees ==
  ASSUME TypeOK, CommitRecipe
  PROVE  /\ TreesFrom(ChunksOf(job.data))
         /\ Referenced(db') \subseteq Referenced(db) \cup ChunksOf(job.data)
         /\ db'.names = db.names /\ db'.next = db.next
         /\ DOMAIN db'.recipe = DOMAIN db.recipe \cup {job.ino}
         /\ db'.recipe[job.ino] = job.data
         /\ faults' \in Nat /\ (faults' = 0 => faults = 0)
<1>1. IsDb(db) /\ job.ino \in Ino /\ job.data \in Seq(Chunk)
  BY DEF TypeOK, CommitRecipe, Idle, StoreJob, GcJob
<1> DEFINE e == WithRecipe(db, job.ino, job.data)
<1>2. /\ IsDb(e) /\ e.names = db.names /\ e.next = db.next
      /\ DOMAIN e.recipe = DOMAIN db.recipe \cup {job.ino}
      /\ e.recipe[job.ino] = job.data
      /\ Referenced(e) \subseteq Referenced(db) \cup ChunksOf(job.data)
  BY <1>1, WithRecipeTree
<1>3. Write(<<e>>) /\ faults \in Nat
  BY DEF CommitRecipe, TypeOK
<1> HIDE DEF e
<1>4. /\ db' = e /\ past' \subseteq past \cup {db}
      /\ faults' \in Nat /\ (faults' = 0 => faults = 0)
  BY <1>3, WriteOne
<1>5. \A d \in past : IsDb(d)
  BY DEF TypeOK
<1> QED BY <1>1, <1>2, <1>4, <1>5 DEF TreesFrom

(* A recipe that holds nothing new is put under an inode. *)
LEMMA PutRecipeTrees ==
  ASSUME TypeOK, NEW i \in Ino, NEW r \in Seq(Chunk),
         ChunksOf(r) \subseteq Referenced(db),
         Write(<<WithRecipe(db, i, r)>>)
  PROVE  /\ TreesFrom({})
         /\ Referenced(db') \subseteq Referenced(db)
         /\ db'.names = db.names /\ db'.next = db.next
         /\ DOMAIN db'.recipe = DOMAIN db.recipe \cup {i}
         /\ faults' \in Nat /\ (faults' = 0 => faults = 0)
<1>1. IsDb(db)
  BY DEF TypeOK
<1> DEFINE e == WithRecipe(db, i, r)
<1>2. /\ IsDb(e) /\ e.names = db.names /\ e.next = db.next
      /\ DOMAIN e.recipe = DOMAIN db.recipe \cup {i}
      /\ Referenced(e) \subseteq Referenced(db)
  BY <1>1, WithRecipeTree
<1>3. Write(<<e>>) /\ faults \in Nat
  BY DEF TypeOK
<1> HIDE DEF e
<1>4. /\ db' = e /\ past' \subseteq past \cup {db}
      /\ faults' \in Nat /\ (faults' = 0 => faults = 0)
  BY <1>3, WriteOne
<1>5. \A d \in past : IsDb(d)
  BY DEF TypeOK
<1> QED BY <1>1, <1>2, <1>4, <1>5 DEF TreesFrom

LEMMA DeleteTrees ==
  ASSUME TypeOK, NEW n \in Name, DeleteFile(n)
  PROVE  /\ TreesFrom({})
         /\ Referenced(db') \subseteq Referenced(db)
         /\ db'.next = db.next
         /\ DOMAIN db'.names = DOMAIN db.names \ {n}
         /\ \A m \in DOMAIN db'.names : db'.names[m] = db.names[m]
         /\ DOMAIN db.recipe \ {db.names[n]} \subseteq DOMAIN db'.recipe
         /\ faults' \in Nat /\ (faults' = 0 => faults = 0)
<1> DEFINE unnamed == WithNames(db, Drop(db.names, n))
           gone == WithoutRecipe(unnamed, db.names[n])
<1>1. IsDb(db) /\ db.names[n] \in Ino /\ IsMap(db.names, Name, Ino)
  BY DEF TypeOK, IsDb, IsMap, DeleteFile
<1>2. /\ IsMap(Drop(db.names, n), Name, Ino)
      /\ DOMAIN Drop(db.names, n) = DOMAIN db.names \ {n}
      /\ \A m \in DOMAIN db.names \ {n} : Drop(db.names, n)[m] = db.names[m]
  BY <1>1 DEF IsMap, Drop
<1>3. /\ IsDb(unnamed) /\ Referenced(unnamed) = Referenced(db)
      /\ unnamed.recipe = db.recipe /\ unnamed.next = db.next
      /\ unnamed.names = Drop(db.names, n)
  BY <1>1, <1>2, WithNamesTree
<1>4. Write(<<unnamed, gone>>) /\ faults \in Nat
  BY DEF DeleteFile, TypeOK
<1> HIDE DEF unnamed
<1>5. /\ IsDb(gone) /\ gone.names = unnamed.names /\ gone.next = unnamed.next
      /\ DOMAIN gone.recipe = DOMAIN unnamed.recipe \ {db.names[n]}
      /\ Referenced(gone) \subseteq Referenced(unnamed)
  BY <1>1, <1>3, WithoutRecipeTree
<1> HIDE DEF gone
<1>6. /\ db' \in {unnamed, gone} /\ past' \subseteq past \cup {db, unnamed}
      /\ faults' \in Nat /\ (faults' = 0 => faults = 0)
  BY <1>4, WriteTwo
<1>7. \A d \in past : IsDb(d)
  BY DEF TypeOK
<1>8. TreesFrom({})
  BY <1>1, <1>3, <1>5, <1>6, <1>7 DEF TreesFrom
<1> QED BY <1>2, <1>3, <1>5, <1>6, <1>8

LEMMA RenameTrees ==
  ASSUME TypeOK, NEW o \in Name, NEW n \in Name, RenameFile(o, n)
  PROVE  /\ TreesFrom({})
         /\ db'.recipe = db.recipe
         /\ Referenced(db') = Referenced(db)
         /\ db'.next = db.next
         /\ faults' \in Nat
         /\ faults' = 0 =>
              /\ faults = 0
              /\ DOMAIN db'.names = (DOMAIN db.names \cup {n}) \ {o}
              /\ \A m \in DOMAIN db'.names :
                   db'.names[m] = IF m = n THEN db.names[o] ELSE db.names[m]
<1> DEFINE both == WithNames(db, Put(db.names, n, db.names[o]))
           moved == WithNames(both, Drop(both.names, o))
<1>1. IsDb(db) /\ o \in DOMAIN db.names /\ IsMap(db.names, Name, Ino)
  BY DEF TypeOK, IsDb, RenameFile
<1>2. /\ IsMap(Put(db.names, n, db.names[o]), Name, Ino)
      /\ DOMAIN Put(db.names, n, db.names[o]) = DOMAIN db.names \cup {n}
      /\ \A m \in DOMAIN db.names \cup {n} :
           Put(db.names, n, db.names[o])[m] = IF m = n THEN db.names[o] ELSE db.names[m]
  BY <1>1 DEF IsMap, Put
<1>3. /\ IsDb(both) /\ Referenced(both) = Referenced(db)
      /\ both.recipe = db.recipe /\ both.next = db.next
      /\ both.names = Put(db.names, n, db.names[o])
  BY <1>1, <1>2, WithNamesTree
<1>4. Write(<<both, moved>>) /\ faults \in Nat
  BY DEF RenameFile, TypeOK
<1> HIDE DEF both
<1>5. /\ IsMap(Drop(both.names, o), Name, Ino)
      /\ DOMAIN Drop(both.names, o) = DOMAIN both.names \ {o}
      /\ \A m \in DOMAIN both.names \ {o} : Drop(both.names, o)[m] = both.names[m]
  BY <1>2, <1>3 DEF IsMap, Drop
<1>6. /\ IsDb(moved) /\ Referenced(moved) = Referenced(both)
      /\ moved.recipe = both.recipe /\ moved.next = both.next
      /\ moved.names = Drop(both.names, o)
  BY <1>3, <1>5, WithNamesTree
<1> HIDE DEF moved
<1>7. /\ db' \in {both, moved} /\ past' \subseteq past \cup {db, both}
      /\ faults' \in Nat /\ (faults' = 0 => faults = 0 /\ db' = moved)
  BY <1>4, WriteTwo
<1>8. \A d \in past : IsDb(d)
  BY DEF TypeOK
<1>9. TreesFrom({})
  BY <1>1, <1>3, <1>6, <1>7, <1>8 DEF TreesFrom
<1> QED BY <1>2, <1>3, <1>5, <1>6, <1>7, <1>9

-----------------------------------------------------------------------------
(* A step that writes metadata only keeps every tree backed. *)
LEMMA BackedFromTrees ==
  ASSUME RecipesBacked, NEW C, \A c \in C : OnDisk(c), TreesFrom(C),
         disk' = disk, lost' = lost
  PROVE  RecipesBacked'
BY DEF RecipesBacked, TreesFrom, OnDisk

(* The open job's next chunk is a chunk. *)
LEMMA NextIsChunk ==
  ASSUME TypeOK, Storing
  PROVE  /\ job.kind = "store" /\ job \in StoreJob
         /\ Next1 \in Chunk
         /\ job.stored \in Nat /\ job.data \in Seq(Chunk) /\ job.ino \in Ino
         /\ job.stored + 1 \in 1..Len(job.data)
BY DEF TypeOK, Storing, Next1, Idle, StoreJob, GcJob

(* A step of a store job that fills chunk files and leaves the trees.      *)
LEMMA StartJob ==
  ASSUME IInv, NEW i \in Ino, NEW d \in Contents, job = Idle,
         job' = Store(i, d, 0, FALSE),
         UNCHANGED <<disk, unsynced, lost, db, past, linked, faults>>
  PROVE  IInv'
<1>1. job' \in StoreJob /\ d \in Seq(Chunk)
  BY ContentsAssumption DEF Store, StoreJob
<1>2. TypeOK'
  BY <1>1 DEF IInv, TypeOK, IsDb, IsMap
<1>3. RecipesBacked'
  BY DEF IInv, RecipesBacked, OnDisk, Referenced
<1>4. JobBacked' /\ GcExact'
  BY <1>1 DEF JobBacked, GcExact, Store
<1>5. OnlyOpenTorn'
  BY DEF IInv, OnlyOpenTorn, Idle
<1>6. NamesCounted' /\ NamesOwnFiles'
  BY DEF IInv, NamesCounted, NamesOwnFiles, Idle
<1> QED BY <1>2, <1>3, <1>4, <1>5, <1>6 DEF IInv

LEMMA SaveFileInv ==
  ASSUME IInv, NEW i \in FuseIno, NEW d \in Contents, SaveFile(i, d)
  PROVE  IInv'
BY StartJob DEF SaveFile, Ino

LEMMA OverwriteFileInv ==
  ASSUME IInv, NEW n \in Name, NEW d \in Contents, OverwriteFile(n, d)
  PROVE  IInv'
<1>1. db.names[n] \in Ino
  BY DEF IInv, TypeOK, IsDb, IsMap, OverwriteFile
<1> QED BY <1>1, StartJob DEF OverwriteFile

LEMMA CreateNamedInv ==
  ASSUME IInv, NEW n \in Name, NEW d \in Contents, CreateNamed(n, d)
  PROVE  IInv'
<1>1. /\ job = Idle /\ job' = Store(db.next, d, 0, FALSE) /\ d \in Seq(Chunk)
      /\ db.next \in LegacyIno /\ db.next \in Nat /\ n \notin DOMAIN db.names
      /\ UNCHANGED <<disk, unsynced, lost, linked, faults>>
  BY ContentsAssumption DEF CreateNamed, IInv, TypeOK, IsDb
<1>2. /\ TreesFrom({})
      /\ db'.recipe = db.recipe
      /\ db'.next = db.next + 1
      /\ DOMAIN db'.names = DOMAIN db.names \cup {n}
      /\ db'.names[n] = db.next
      /\ \A m \in DOMAIN db.names : m # n => db'.names[m] = db.names[m]
  BY CreateNamedTrees DEF IInv
<1>3. job' \in StoreJob
  BY <1>1 DEF Store, StoreJob, Ino
<1>4. TypeOK'
  BY <1>1, <1>2, <1>3 DEF IInv, TypeOK, TreesFrom
<1>5. RecipesBacked'
  BY <1>1, <1>2, BackedFromTrees DEF IInv
<1>6. JobBacked' /\ GcExact'
  BY <1>1 DEF JobBacked, GcExact, Store
<1>7. OnlyOpenTorn'
  BY <1>1 DEF IInv, OnlyOpenTorn, Idle
<1>8. NamesCounted'
  <2>1. SUFFICES ASSUME faults = 0, NEW m \in DOMAIN db'.names
        PROVE  db'.names[m] \in LegacyIno /\ db'.names[m] < db.next + 1
    BY <1>1, <1>2 DEF NamesCounted
  <2>2. CASE m = n
    BY <1>1, <1>2, <2>2
  <2>3. CASE m # n
    <3>1. /\ m \in DOMAIN db.names /\ db'.names[m] = db.names[m]
          /\ db.names[m] \in LegacyIno /\ db.names[m] < db.next
      BY <1>2, <2>1, <2>3 DEF IInv, NamesCounted
    <3>2. db.next \in Nat /\ db.names[m] \in Nat
      BY <1>1, <3>1, InoAssumption
    <3> QED BY <3>1, <3>2
  <2> QED BY <2>2, <2>3
<1>9. NamesOwnFiles'
  <2>1. SUFFICES ASSUME faults = 0
        PROVE  /\ \A m, k \in DOMAIN db'.names : db'.names[m] = db'.names[k] => m = k
               /\ \A m \in DOMAIN db'.names : \/ db'.names[m] \in DOMAIN db'.recipe
                                              \/ job'.kind = "store" /\ job'.ino = db'.names[m]
    BY <1>1 DEF NamesOwnFiles
  <2>2. \A m \in DOMAIN db.names : db.names[m] < db.next /\ db.names[m] \in Nat
    BY <2>1, InoAssumption DEF IInv, NamesCounted
  <2>3. \A m, k \in DOMAIN db'.names : db'.names[m] = db'.names[k] => m = k
    BY <1>1, <1>2, <2>1, <2>2 DEF IInv, NamesOwnFiles
  <2>4. \A m \in DOMAIN db'.names : \/ db'.names[m] \in DOMAIN db'.recipe
                                    \/ job'.kind = "store" /\ job'.ino = db'.names[m]
    BY <1>1, <1>2, <2>1 DEF IInv, NamesOwnFiles, Idle, Store
  <2> QED BY <2>3, <2>4
<1> QED BY <1>4, <1>5, <1>6, <1>7, <1>8, <1>9 DEF IInv

LEMMA DedupChunkInv ==
  ASSUME IInv, DedupChunk
  PROVE  IInv'
<1>1. /\ job \in StoreJob /\ job.kind = "store" /\ Next1 \in Chunk /\ OnDisk(Next1) /\ ~job.open
      /\ job.stored \in Nat /\ job.data \in Seq(Chunk) /\ job.stored + 1 \in 1..Len(job.data)
      /\ Next1 = job.data[job.stored + 1]
      /\ UNCHANGED <<disk, unsynced, lost, db, past, linked, faults>>
  BY NextIsChunk DEF IInv, DedupChunk, Next1
<1>2. /\ job' \in StoreJob /\ job'.kind = "store" /\ job'.stored = job.stored + 1
      /\ job'.data = job.data /\ job'.ino = job.ino /\ job'.open = FALSE
  BY <1>1 DEF DedupChunk, Store, StoreJob
<1>3. TypeOK'
  BY <1>1, <1>2 DEF IInv, TypeOK, IsDb, IsMap
<1>4. RecipesBacked'
  BY <1>1 DEF IInv, RecipesBacked, OnDisk, Referenced
<1>5. JobBacked'
  BY <1>1, <1>2 DEF IInv, JobBacked, OnDisk
<1>6. GcExact' /\ NamesCounted' /\ NamesOwnFiles'
  BY <1>1, <1>2 DEF IInv, GcExact, NamesCounted, NamesOwnFiles
<1>7. OnlyOpenTorn'
  BY <1>1, <1>2 DEF IInv, OnlyOpenTorn
<1> QED BY <1>3, <1>4, <1>5, <1>6, <1>7 DEF IInv

LEMMA CreateChunkInv ==
  ASSUME IInv, CreateChunk
  PROVE  IInv'
<1>1. /\ job \in StoreJob /\ job.kind = "store" /\ Next1 \in Chunk /\ ~OnDisk(Next1) /\ ~job.open
      /\ job.stored \in Nat /\ job.data \in Seq(Chunk) /\ job.stored + 1 \in 1..Len(job.data)
      /\ Next1 = job.data[job.stored + 1]
      /\ disk' = [disk EXCEPT ![Next1] = "partial"]
      /\ unsynced' = unsynced \cup {Next1} /\ lost' = lost \ {Next1}
      /\ UNCHANGED <<db, past, linked, faults>>
  BY NextIsChunk DEF IInv, CreateChunk, Next1
<1>2. /\ job' \in StoreJob /\ job'.kind = "store" /\ job'.stored = job.stored
      /\ job'.data = job.data /\ job'.ino = job.ino /\ job'.open = TRUE
      /\ Next1' = Next1
  BY <1>1 DEF CreateChunk, Store, StoreJob, Next1
<1>3. disk \in [Chunk -> {"absent", "partial", "whole"}]
  BY DEF IInv, TypeOK
<1>4. /\ disk' \in [Chunk -> {"absent", "partial", "whole"}]
      /\ disk'[Next1] = "partial"
      /\ \A c \in Chunk : c # Next1 => disk'[c] = disk[c]
  BY <1>1, <1>3
<1>5. TypeOK'
  BY <1>1, <1>2, <1>4 DEF IInv, TypeOK, IsDb, IsMap
<1>6. \A d \in past \cup {db} : Referenced(d) \subseteq Chunk
  BY ReferencedChunks DEF IInv, TypeOK
<1>7. RecipesBacked'
  BY <1>1, <1>4, <1>6 DEF IInv, RecipesBacked, OnDisk, Referenced
<1>8. JobBacked'
  <2>1. \A k \in 1..job.stored : job.data[k] \in Chunk /\ OnDisk(job.data[k])
    BY <1>1 DEF IInv, JobBacked
  <2> QED BY <1>1, <1>2, <1>4, <2>1 DEF JobBacked, OnDisk
<1>9. GcExact' /\ NamesCounted' /\ NamesOwnFiles'
  BY <1>1, <1>2 DEF IInv, GcExact, NamesCounted, NamesOwnFiles
<1>10. OnlyOpenTorn'
  <2>1. SUFFICES ASSUME faults = 0
        PROVE  /\ lost' = {}
               /\ \A c \in Chunk : disk'[c] = "partial" => c = Next1 /\ c \notin Referenced(db)
    BY <1>1, <1>2 DEF OnlyOpenTorn, Referenced
  <2>2. lost = {} /\ \A c \in Chunk : disk[c] # "partial"
    BY <1>1, <2>1 DEF IInv, OnlyOpenTorn
  <2>3. Next1 \notin Referenced(db)
    BY <1>1, <2>2 DEF IInv, RecipesBacked
  <2> QED BY <1>1, <1>4, <2>2, <2>3
<1> QED BY <1>5, <1>7, <1>8, <1>9, <1>10 DEF IInv

LEMMA FinishChunkInv ==
  ASSUME IInv, FinishChunk
  PROVE  IInv'
<1>1. /\ job \in StoreJob /\ job.kind = "store" /\ Next1 \in Chunk /\ job.open
      /\ job.stored \in Nat /\ job.data \in Seq(Chunk) /\ job.stored + 1 \in 1..Len(job.data)
      /\ Next1 = job.data[job.stored + 1]
      /\ disk' = [disk EXCEPT ![Next1] = "whole"]
      /\ unsynced' = unsynced \cup {Next1}
      /\ UNCHANGED <<lost, db, past, linked, faults>>
  BY NextIsChunk DEF IInv, FinishChunk, Next1
<1>2. /\ job' \in StoreJob /\ job'.kind = "store" /\ job'.stored = job.stored + 1
      /\ job'.data = job.data /\ job'.ino = job.ino /\ job'.open = FALSE
  BY <1>1 DEF FinishChunk, Store, StoreJob
<1>3. disk \in [Chunk -> {"absent", "partial", "whole"}]
  BY DEF IInv, TypeOK
<1>4. /\ disk' \in [Chunk -> {"absent", "partial", "whole"}]
      /\ disk'[Next1] = "whole"
      /\ \A c \in Chunk : c # Next1 => disk'[c] = disk[c]
  BY <1>1, <1>3
<1>5. TypeOK'
  BY <1>1, <1>2, <1>4 DEF IInv, TypeOK, IsDb, IsMap
<1>6. \A d \in past \cup {db} : Referenced(d) \subseteq Chunk
  BY ReferencedChunks DEF IInv, TypeOK
<1>7. RecipesBacked'
  BY <1>1, <1>4, <1>6 DEF IInv, RecipesBacked, OnDisk, Referenced
<1>8. JobBacked'
  <2>1. \A k \in 1..job.stored : job.data[k] \in Chunk /\ OnDisk(job.data[k])
    BY <1>1 DEF IInv, JobBacked
  <2>2. \A k \in 1..(job.stored + 1) : k \in 1..job.stored \/ k = job.stored + 1
    BY <1>1
  <2> QED BY <1>1, <1>2, <1>4, <2>1, <2>2 DEF JobBacked, OnDisk
<1>9. GcExact' /\ NamesCounted' /\ NamesOwnFiles'
  BY <1>1, <1>2 DEF IInv, GcExact, NamesCounted, NamesOwnFiles
<1>10. OnlyOpenTorn'
  BY <1>1, <1>2, <1>4 DEF IInv, OnlyOpenTorn, Referenced
<1> QED BY <1>5, <1>7, <1>8, <1>9, <1>10 DEF IInv

(* An operation ends after an error: nothing but the job changes. *)
LEMMA JobFailsInv ==
  ASSUME IInv, Fault, job' = Idle, UNCHANGED <<disk, unsynced, lost, db, past, linked>>
  PROVE  IInv'
<1>1. faults' \in Nat /\ faults' # 0
  BY DEF IInv, TypeOK, Fault
<1>2. TypeOK'
  BY <1>1 DEF IInv, TypeOK, IsDb, IsMap
<1>3. RecipesBacked'
  BY DEF IInv, RecipesBacked, OnDisk, Referenced
<1>4. JobBacked' /\ GcExact'
  BY DEF JobBacked, GcExact, Idle
<1>5. OnlyOpenTorn' /\ NamesCounted' /\ NamesOwnFiles'
  BY <1>1 DEF OnlyOpenTorn, NamesCounted, NamesOwnFiles
<1> QED BY <1>2, <1>3, <1>4, <1>5 DEF IInv

LEMMA CommitRecipeInv ==
  ASSUME IInv, CommitRecipe
  PROVE  IInv'
<1>1. /\ job.kind = "store" /\ job.stored = Len(job.data) /\ job' = Idle
      /\ UNCHANGED <<disk, unsynced, lost, linked>>
  BY DEF CommitRecipe
<1>2. job \in StoreJob /\ job.data \in Seq(Chunk) /\ job.open \in BOOLEAN
  BY <1>1 DEF IInv, TypeOK, Idle, StoreJob, GcJob
<1>3. /\ TreesFrom(ChunksOf(job.data))
      /\ Referenced(db') \subseteq Referenced(db) \cup ChunksOf(job.data)
      /\ db'.names = db.names /\ db'.next = db.next
      /\ DOMAIN db'.recipe = DOMAIN db.recipe \cup {job.ino}
      /\ db'.recipe[job.ino] = job.data
      /\ faults' \in Nat /\ (faults' = 0 => faults = 0)
  BY CommitTrees DEF IInv
<1>4. ~job.open /\ \A c \in ChunksOf(job.data) : OnDisk(c)
  BY <1>1, <1>2 DEF IInv, JobBacked, ChunksOf
<1>5. TypeOK'
  BY <1>1, <1>3 DEF IInv, TypeOK, TreesFrom
<1>6. RecipesBacked'
  BY <1>1, <1>3, <1>4, BackedFromTrees DEF IInv
<1>7. JobBacked' /\ GcExact'
  BY <1>1 DEF JobBacked, GcExact, Idle
<1>8. OnlyOpenTorn'
  BY <1>1, <1>3, <1>4 DEF IInv, OnlyOpenTorn
<1>9. NamesCounted' /\ NamesOwnFiles'
  BY <1>1, <1>3 DEF IInv, NamesCounted, NamesOwnFiles
<1> QED BY <1>5, <1>6, <1>7, <1>8, <1>9 DEF IInv

(* A recipe that references nothing new is saved, or a metadata operation  *)
(* leaves the trees referencing nothing new.                               *)
LEMMA MetadataInv ==
  ASSUME IInv, job = Idle, job' = job, TreesFrom({}), Referenced(db') \subseteq Referenced(db),
         faults' \in Nat, faults' = 0 => faults = 0, linked' \subseteq FuseIno,
         UNCHANGED <<disk, unsynced, lost>>
  PROVE  TypeOK' /\ RecipesBacked' /\ JobBacked' /\ GcExact' /\ OnlyOpenTorn'
<1>1. TypeOK'
  BY DEF IInv, TypeOK, TreesFrom
<1>2. RecipesBacked'
  BY BackedFromTrees DEF IInv
<1>3. JobBacked' /\ GcExact'
  BY DEF JobBacked, GcExact, Idle
<1>4. OnlyOpenTorn'
  BY DEF IInv, OnlyOpenTorn, Idle
<1> QED BY <1>1, <1>2, <1>3, <1>4

LEMMA CreateFileInv ==
  ASSUME IInv, NEW i \in FuseIno, CreateFile(i)
  PROVE  IInv'
<1>1. /\ <<>> \in Seq(Chunk) /\ ChunksOf(<<>>) = {} /\ i \in Ino
      /\ job = Idle /\ job' = job /\ linked' \subseteq FuseIno
      /\ UNCHANGED <<disk, unsynced, lost>>
  BY DEF CreateFile, ChunksOf, Ino, IInv, TypeOK
<1>2. Write(<<WithRecipe(db, i, <<>>)>>)
  BY DEF CreateFile
<1>3. /\ TreesFrom({}) /\ Referenced(db') \subseteq Referenced(db)
      /\ db'.names = db.names /\ db'.next = db.next
      /\ DOMAIN db'.recipe = DOMAIN db.recipe \cup {i}
      /\ faults' \in Nat /\ (faults' = 0 => faults = 0)
  BY <1>1, <1>2, PutRecipeTrees DEF IInv
<1>4. TypeOK' /\ RecipesBacked' /\ JobBacked' /\ GcExact' /\ OnlyOpenTorn'
  BY <1>1, <1>3, MetadataInv
<1>5. NamesCounted' /\ NamesOwnFiles'
  BY <1>1, <1>3 DEF IInv, NamesCounted, NamesOwnFiles
<1> QED BY <1>4, <1>5 DEF IInv

LEMMA CloneRecipeInv ==
  ASSUME IInv, NEW i \in FuseIno, NEW j \in FuseIno, CloneRecipe(i, j)
  PROVE  IInv'
<1>1. /\ i \in DOMAIN db.recipe /\ j \in Ino
      /\ job = Idle /\ job' = job /\ linked' \subseteq FuseIno
      /\ UNCHANGED <<disk, unsynced, lost>>
  BY DEF CloneRecipe, Ino, IInv, TypeOK
<1>2. db.recipe[i] \in Seq(Chunk) /\ ChunksOf(db.recipe[i]) \subseteq Referenced(db)
  BY <1>1, ReferencedChunks DEF IInv, TypeOK
<1>3. Write(<<WithRecipe(db, j, db.recipe[i])>>)
  BY DEF CloneRecipe
<1>4. /\ TreesFrom({}) /\ Referenced(db') \subseteq Referenced(db)
      /\ db'.names = db.names /\ db'.next = db.next
      /\ DOMAIN db'.recipe = DOMAIN db.recipe \cup {j}
      /\ faults' \in Nat /\ (faults' = 0 => faults = 0)
  BY <1>1, <1>2, <1>3, PutRecipeTrees DEF IInv
<1>5. TypeOK' /\ RecipesBacked' /\ JobBacked' /\ GcExact' /\ OnlyOpenTorn'
  BY <1>1, <1>4, MetadataInv
<1>6. NamesCounted' /\ NamesOwnFiles'
  BY <1>1, <1>4 DEF IInv, NamesCounted, NamesOwnFiles
<1> QED BY <1>5, <1>6 DEF IInv

LEMMA DeleteFileInv ==
  ASSUME IInv, NEW n \in Name, DeleteFile(n)
  PROVE  IInv'
<1>1. /\ job = Idle /\ job' = job /\ linked' \subseteq FuseIno /\ n \in DOMAIN db.names
      /\ UNCHANGED <<disk, unsynced, lost>>
  BY DEF DeleteFile, IInv, TypeOK
<1>2. /\ TreesFrom({})
      /\ Referenced(db') \subseteq Referenced(db)
      /\ db'.next = db.next
      /\ DOMAIN db'.names = DOMAIN db.names \ {n}
      /\ \A m \in DOMAIN db'.names : db'.names[m] = db.names[m]
      /\ DOMAIN db.recipe \ {db.names[n]} \subseteq DOMAIN db'.recipe
      /\ faults' \in Nat /\ (faults' = 0 => faults = 0)
  BY DeleteTrees DEF IInv
<1>3. TypeOK' /\ RecipesBacked' /\ JobBacked' /\ GcExact' /\ OnlyOpenTorn'
  BY <1>1, <1>2, MetadataInv
<1>4. NamesCounted'
  BY <1>1, <1>2 DEF IInv, NamesCounted
<1>5. NamesOwnFiles'
  BY <1>1, <1>2 DEF IInv, NamesOwnFiles, Idle
<1> QED BY <1>3, <1>4, <1>5 DEF IInv

LEMMA RenameFileInv ==
  ASSUME IInv, NEW o \in Name, NEW n \in Name, RenameFile(o, n)
  PROVE  IInv'
<1>1. /\ job = Idle /\ job' = job /\ linked' \subseteq FuseIno /\ o \in DOMAIN db.names
      /\ UNCHANGED <<disk, unsynced, lost>>
  BY DEF RenameFile, IInv, TypeOK
<1>2. /\ TreesFrom({})
      /\ db'.recipe = db.recipe
      /\ Referenced(db') = Referenced(db)
      /\ db'.next = db.next
      /\ faults' \in Nat
      /\ faults' = 0 =>
           /\ faults = 0
           /\ DOMAIN db'.names = (DOMAIN db.names \cup {n}) \ {o}
           /\ \A m \in DOMAIN db'.names :
                db'.names[m] = IF m = n THEN db.names[o] ELSE db.names[m]
  BY RenameTrees DEF IInv
<1>3. TypeOK' /\ RecipesBacked' /\ JobBacked' /\ GcExact' /\ OnlyOpenTorn'
  BY <1>1, <1>2, MetadataInv
<1>4. NamesCounted'
  BY <1>1, <1>2 DEF IInv, NamesCounted
<1>5. NamesOwnFiles'
  BY <1>1, <1>2 DEF IInv, NamesOwnFiles, Idle
<1> QED BY <1>3, <1>4, <1>5 DEF IInv

LEMMA UnlinkInv ==
  ASSUME IInv, NEW i \in FuseIno, Unlink(i)
  PROVE  IInv'
<1>1. linked' \subseteq FuseIno /\ UNCHANGED <<disk, unsynced, lost, db, past, job, faults>>
  BY DEF Unlink, IInv, TypeOK
<1>2. TypeOK' /\ RecipesBacked' /\ JobBacked'
  BY <1>1 DEF IInv, TypeOK, IsDb, IsMap, RecipesBacked, OnDisk, Referenced, JobBacked, Next1
<1>3. GcExact' /\ OnlyOpenTorn'
  BY <1>1 DEF IInv, GcExact, OnlyOpenTorn, OnDisk, Referenced, Next1
<1>4. NamesCounted' /\ NamesOwnFiles'
  BY <1>1 DEF IInv, NamesCounted, NamesOwnFiles
<1> QED BY <1>2, <1>3, <1>4 DEF IInv

LEMMA WritebackInv ==
  ASSUME IInv, NEW c \in Chunk, Writeback(c)
  PROVE  IInv'
<1>1. unsynced' \subseteq Chunk /\ UNCHANGED <<disk, lost, db, past, job, linked, faults>>
  BY DEF Writeback, IInv, TypeOK
<1>2. TypeOK' /\ RecipesBacked' /\ JobBacked'
  BY <1>1 DEF IInv, TypeOK, IsDb, IsMap, RecipesBacked, OnDisk, Referenced, JobBacked, Next1
<1>3. GcExact' /\ OnlyOpenTorn'
  BY <1>1 DEF IInv, GcExact, OnlyOpenTorn, OnDisk, Referenced, Next1
<1>4. NamesCounted' /\ NamesOwnFiles'
  BY <1>1 DEF IInv, NamesCounted, NamesOwnFiles
<1> QED BY <1>2, <1>3, <1>4 DEF IInv

LEMMA GcMarkInv ==
  ASSUME IInv, GcMark
  PROVE  IInv'
<1>1. /\ job = Idle /\ past = {} /\ past' = past /\ db' = db
      /\ UNCHANGED <<disk, unsynced, lost, linked, faults>>
      /\ job' = Gc(Referenced(db), {c \in Chunk : OnDisk(c)})
  BY DEF GcMark
<1>2. Referenced(db) \subseteq Chunk
  BY ReferencedChunks DEF IInv, TypeOK
<1>3. job' \in GcJob
  BY <1>1, <1>2 DEF Gc, GcJob
<1>4. TypeOK'
  BY <1>1, <1>3 DEF IInv, TypeOK, IsDb, IsMap
<1>5. RecipesBacked'
  BY <1>1 DEF IInv, RecipesBacked, OnDisk, Referenced
<1>6. JobBacked' /\ GcExact'
  BY <1>1 DEF JobBacked, GcExact, Gc, OnDisk, Referenced
<1>7. OnlyOpenTorn'
  BY <1>1 DEF IInv, OnlyOpenTorn, Idle
<1>8. NamesCounted' /\ NamesOwnFiles'
  BY <1>1 DEF IInv, NamesCounted, NamesOwnFiles, Idle
<1> QED BY <1>4, <1>5, <1>6, <1>7, <1>8 DEF IInv

LEMMA GcSweepInv ==
  ASSUME IInv, NEW c \in Chunk, GcSweep(c)
  PROVE  IInv'
<1>1. /\ job.kind = "gc" /\ c \in job.todo
      /\ UNCHANGED <<lost, db, past, linked, faults>>
      /\ job' = Gc(job.active, job.todo \ {c})
  BY DEF GcSweep
<1>2. /\ job \in GcJob /\ job.active \subseteq Chunk /\ job.todo \subseteq Chunk
      /\ past = {} /\ job.active = Referenced(db)
      /\ \A x \in Chunk : OnDisk(x) => x \in job.active \cup job.todo
  BY <1>1 DEF IInv, TypeOK, Idle, StoreJob, GcJob, GcExact
<1>3. job' \in GcJob /\ job'.kind = "gc" /\ job'.active = job.active /\ job'.todo = job.todo \ {c}
  BY <1>1, <1>2 DEF Gc, GcJob
<1>4. disk \in [Chunk -> {"absent", "partial", "whole"}]
  BY DEF IInv, TypeOK
<1>5. /\ disk' \in [Chunk -> {"absent", "partial", "whole"}]
      /\ \A x \in Chunk : x # c \/ x \in job.active => disk'[x] = disk[x]
      /\ c \notin job.active => disk'[c] = "absent"
  BY <1>4 DEF GcSweep
<1>6. unsynced' \subseteq Chunk
  BY DEF GcSweep, IInv, TypeOK
<1>7. TypeOK'
  BY <1>1, <1>3, <1>5, <1>6 DEF IInv, TypeOK, IsDb, IsMap
<1>8. RecipesBacked'
  BY <1>1, <1>2, <1>5 DEF IInv, RecipesBacked, OnDisk, Referenced
<1>9. JobBacked'
  BY <1>3 DEF JobBacked
<1>10. GcExact'
  <2>1. Referenced(db)' = Referenced(db) /\ past' = {}
    BY <1>1, <1>2
  <2>2. \A x \in Chunk : OnDisk(x)' => x \in job.active \cup (job.todo \ {c})
    BY <1>2, <1>5 DEF OnDisk
  <2> QED BY <1>2, <1>3, <2>1, <2>2 DEF GcExact
<1>11. OnlyOpenTorn'
  BY <1>1, <1>5 DEF IInv, OnlyOpenTorn
<1>12. NamesCounted' /\ NamesOwnFiles'
  BY <1>1, <1>3 DEF IInv, NamesCounted, NamesOwnFiles
<1> QED BY <1>7, <1>8, <1>9, <1>10, <1>11, <1>12 DEF IInv

LEMMA GcDoneInv ==
  ASSUME IInv, GcDone
  PROVE  IInv'
<1>1. /\ job.kind = "gc" /\ job' = Idle
      /\ UNCHANGED <<disk, unsynced, lost, db, past, linked, faults>>
  BY DEF GcDone
<1>2. TypeOK'
  BY <1>1 DEF IInv, TypeOK, IsDb, IsMap
<1>3. RecipesBacked'
  BY <1>1 DEF IInv, RecipesBacked, OnDisk, Referenced
<1>4. JobBacked' /\ GcExact'
  BY <1>1 DEF JobBacked, GcExact, Idle
<1>5. OnlyOpenTorn' /\ NamesCounted' /\ NamesOwnFiles'
  BY <1>1 DEF IInv, OnlyOpenTorn, NamesCounted, NamesOwnFiles
<1> QED BY <1>2, <1>3, <1>4, <1>5 DEF IInv

LEMMA CrashInv ==
  ASSUME IInv, Crash
  PROVE  IInv'
<1>1. /\ job' = Idle /\ db' \in past \cup {db} /\ past' = {}
      /\ UNCHANGED <<disk, unsynced, lost, linked>>
      /\ faults' \in Nat /\ faults' # 0
  BY FaultAssumption DEF Crash, IInv, TypeOK
<1>2. TypeOK'
  BY <1>1 DEF IInv, TypeOK
<1>3. RecipesBacked'
  BY <1>1 DEF IInv, RecipesBacked, OnDisk
<1>4. JobBacked' /\ GcExact'
  BY <1>1 DEF JobBacked, GcExact, Idle
<1>5. OnlyOpenTorn' /\ NamesCounted' /\ NamesOwnFiles'
  BY <1>1 DEF OnlyOpenTorn, NamesCounted, NamesOwnFiles
<1> QED BY <1>2, <1>3, <1>4, <1>5 DEF IInv

LEMMA PowerLossInv ==
  ASSUME IInv, NEW L \in SUBSET Chunk, NEW gone \in SUBSET L, PowerLoss(L, gone)
  PROVE  IInv'
<1>1. /\ job' = Idle /\ db' \in past \cup {db} /\ past' = {} /\ unsynced' = {}
      /\ lost' = lost \cup gone /\ linked' = linked
      /\ faults' \in Nat /\ faults' # 0
  BY DEF PowerLoss, Fault, IInv, TypeOK
<1>2. /\ disk' \in [Chunk -> {"absent", "partial", "whole"}]
      /\ \A c \in Chunk : disk'[c] # "absent" \/ c \in gone \/ disk'[c] = disk[c]
  BY DEF PowerLoss, IInv, TypeOK
<1>3. TypeOK'
  BY <1>1, <1>2 DEF IInv, TypeOK
<1>4. \A d \in past \cup {db} : Referenced(d) \subseteq Chunk
  BY ReferencedChunks DEF IInv, TypeOK
<1>5. RecipesBacked'
  BY <1>1, <1>2, <1>4 DEF IInv, RecipesBacked, OnDisk
<1>6. JobBacked' /\ GcExact'
  BY <1>1 DEF JobBacked, GcExact, Idle
<1>7. OnlyOpenTorn' /\ NamesCounted' /\ NamesOwnFiles'
  BY <1>1 DEF OnlyOpenTorn, NamesCounted, NamesOwnFiles
<1> QED BY <1>3, <1>5, <1>6, <1>7 DEF IInv

LEMMA StutterInv ==
  ASSUME IInv, UNCHANGED vars
  PROVE  IInv'
BY DEF vars, IInv, TypeOK, IsDb, IsMap, RecipesBacked, JobBacked, GcExact, OnlyOpenTorn,
       NamesCounted, NamesOwnFiles, OnDisk, Referenced, Next1

-----------------------------------------------------------------------------
LEMMA InitInv == Init => IInv
<1> SUFFICES ASSUME Init PROVE IInv
  OBVIOUS
<1>1. Referenced(db) = {} /\ past \cup {db} = {db}
  BY DEF Init, Referenced
<1>2. TypeOK
  BY DEF Init, TypeOK, IsDb, IsMap, LegacyBase
<1>3. RecipesBacked
  BY <1>1 DEF Init, RecipesBacked
<1>4. JobBacked /\ GcExact /\ OnlyOpenTorn /\ NamesCounted /\ NamesOwnFiles
  BY DEF Init, Idle, JobBacked, GcExact, OnlyOpenTorn, NamesCounted, NamesOwnFiles
<1> QED BY <1>2, <1>3, <1>4 DEF IInv

LEMMA NextInv == IInv /\ [Next]_vars => IInv'
<1> SUFFICES ASSUME IInv, [Next]_vars PROVE IInv'
  OBVIOUS
<1>1. CASE \E d \in Contents : \/ \E i \in FuseIno : SaveFile(i, d)
                               \/ \E n \in Name : OverwriteFile(n, d) \/ CreateNamed(n, d)
  BY <1>1, SaveFileInv, OverwriteFileInv, CreateNamedInv
<1>2. CASE StoreStep
  <2>1. CASE StoreFails
    BY <2>1, JobFailsInv DEF StoreFails
  <2> QED BY <1>2, <2>1, DedupChunkInv, CreateChunkInv, FinishChunkInv, CommitRecipeInv DEF StoreStep
<1>3. CASE \E i \in FuseIno : CreateFile(i) \/ Unlink(i)
  BY <1>3, CreateFileInv, UnlinkInv
<1>4. CASE \E i, j \in FuseIno : CloneRecipe(i, j)
  BY <1>4, CloneRecipeInv
<1>5. CASE \E n \in Name : DeleteFile(n)
  BY <1>5, DeleteFileInv
<1>6. CASE \E o, n \in Name : RenameFile(o, n)
  BY <1>6, RenameFileInv
<1>7. CASE GcStep
  <2>1. CASE GcFails
    BY <2>1, JobFailsInv DEF GcFails
  <2> QED BY <1>7, <2>1, GcMarkInv, GcSweepInv, GcDoneInv DEF GcStep
<1>8. CASE \E c \in Chunk : Writeback(c)
  BY <1>8, WritebackInv
<1>9. CASE Crash
  BY <1>9, CrashInv
<1>10. CASE PowerCut
  BY <1>10, PowerLossInv DEF PowerCut
<1>11. CASE UNCHANGED vars
  BY <1>11, StutterInv
<1> QED
  BY <1>1, <1>2, <1>3, <1>4, <1>5, <1>6, <1>7, <1>8, <1>9, <1>10, <1>11 DEF Next

(* IInv holds in every reachable state. *)
THEOREM Invariance == Spec => []IInv
BY InitInv, NextInv, PTL DEF Spec

-----------------------------------------------------------------------------
(* Every variable of a reachable state has its type. *)
THEOREM TypeCorrect == Spec => []TypeOK
BY Invariance, PTL DEF IInv

(* write_file_by_id's order, the deduplication check and run_gc together:  *)
(* a recipe, current or brought back by a crash, never names a chunk       *)
(* without a file, save for files that a power loss took.                  *)
THEOREM RecipesAlwaysBacked == Spec => []RecipesBacked
BY Invariance, PTL DEF IInv

(* Until something fails, whatever was saved can be read back. *)
LEMMA RoundTripInv == IInv => RoundTrip
<1> SUFFICES ASSUME IInv, faults = 0, NEW i \in DOMAIN db.recipe
             PROVE  Readable(i)
  BY DEF RoundTrip
<1>1. ChunksOf(db.recipe[i]) \subseteq Referenced(db) /\ Referenced(db) \subseteq Chunk
  BY ReferencedChunks DEF IInv, TypeOK
<1>2. SUFFICES ASSUME NEW c \in ChunksOf(db.recipe[i])
      PROVE  disk[c] = "whole"
  BY DEF Readable
<1>3. c \in Chunk /\ disk[c] # "absent" /\ disk[c] # "partial"
  BY <1>1, <1>2 DEF IInv, RecipesBacked, OnlyOpenTorn, OnDisk
<1> QED BY <1>3 DEF IInv, TypeOK

THEOREM RoundTripHolds == Spec => []RoundTrip
BY Invariance, RoundTripInv, PTL

(* Until something fails, no two names share an inode and each has its     *)
(* recipe: write_file, rename_file and delete_file keep the legacy         *)
(* namespace a partial function onto files.                                *)
THEOREM NamesOwnTheirFiles == Spec => []NamesOwnFiles
BY Invariance, PTL DEF IInv

(* A completed collection leaves only referenced chunk files. *)
THEOREM CollectorReclaims == Spec => GcReclaims
<1>1. IInv /\ [Next]_vars =>
        [(job.kind = "gc" /\ job.todo = {} /\ job' = Idle)
           => \A c \in Chunk : OnDisk(c) => c \in Referenced(db)]_vars
  BY DEF IInv, GcExact
<1> QED BY <1>1, Invariance, PTL DEF Spec, GcReclaims

(* Nothing but a power loss makes a readable file unreadable while its     *)
(* recipe stands.                                                          *)
LEMMA ReadableStep ==
  ASSUME IInv, [Next]_vars, ~PowerCut, NEW i \in DOMAIN db.recipe \cap DOMAIN db'.recipe,
         Readable(i), db'.recipe[i] = db.recipe[i]
  PROVE  Readable(i)'
<1>1. ChunksOf(db.recipe[i]) \subseteq Referenced(db) /\ Referenced(db) \subseteq Chunk
  BY ReferencedChunks DEF IInv, TypeOK
<1>2. SUFFICES ASSUME NEW c \in ChunksOf(db.recipe[i])
      PROVE  disk'[c] = "whole"
  BY DEF Readable
<1>3. c \in Chunk /\ c \in Referenced(db) /\ disk[c] = "whole"
  BY <1>1, <1>2 DEF Readable
<1>4. disk \in [Chunk -> {"absent", "partial", "whole"}]
  BY DEF IInv, TypeOK
<1>5. CASE CreateChunk
  BY <1>3, <1>4, <1>5 DEF CreateChunk, OnDisk
<1>6. CASE FinishChunk
  BY <1>3, <1>4, <1>6 DEF FinishChunk
<1>7. CASE \E x \in Chunk : GcSweep(x)
  <2>1. PICK x \in Chunk : GcSweep(x)
    BY <1>7
  <2>2. job.active = Referenced(db)
    BY <2>1 DEF IInv, GcExact, GcSweep
  <2> QED BY <1>3, <1>4, <2>1, <2>2 DEF GcSweep
<1>8. CASE disk' = disk
  BY <1>3, <1>8
<1>9. disk' = disk \/ CreateChunk \/ FinishChunk \/ \E x \in Chunk : GcSweep(x)
  BY DEF Next, StoreStep, GcStep, SaveFile, OverwriteFile, CreateNamed, DedupChunk, StoreFails,
         CommitRecipe, CreateFile, Unlink, CloneRecipe, DeleteFile, RenameFile, GcMark, GcDone,
         GcFails, Writeback, Crash, vars
<1> QED BY <1>5, <1>6, <1>7, <1>8, <1>9

THEOREM ReadableFilesStay == Spec => ReadableStays
<1>1. IInv /\ [Next]_vars =>
        [ \/ PowerCut
          \/ \A i \in DOMAIN db.recipe \cap DOMAIN db'.recipe :
               Readable(i) /\ db'.recipe[i] = db.recipe[i] => Readable(i)' ]_vars
  BY ReadableStep
<1> QED BY <1>1, Invariance, PTL DEF Spec, ReadableStays
=============================================================================
