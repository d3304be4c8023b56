--------------------------- MODULE TagStoreProofs ---------------------------
(***************************************************************************)
(* Proofs about TagStore, for every set of inodes, tags and directories    *)
(* and with no use of MaxPast.                                             *)
(*                                                                         *)
(* The two properties are about the rows of the running process, but a     *)
(* crash may bring back an older value of them, so the invariant that is   *)
(* inductive says of every such value what they say of db.                 *)
(***************************************************************************)
EXTENDS TagStore, TLAPS

(* The rows d are as good as the calls made so far promise. *)
Kept(d, ended) ==
  /\ IsRows(d)
  /\ \A i \in Ino : /\ ended[i] = "done" => Exact(d, i)
                    /\ ended[i] # "cut" => Found(d, i)

IInv ==
  /\ TypeOK
  /\ \A d \in past \cup {db} : Kept(d, calls)

-----------------------------------------------------------------------------
(* The rows d say of every inode but i what db says. *)
OnlyOf(i, d) ==
  /\ IsRows(d)
  /\ \A j \in Ino \ {i} : /\ TagsOf(d, j) = TagsOf(db, j)
                          /\ \A t \in Tag : j \in d.index[t] <=> j \in db.index[t]

(* Reindexed moves the inode it is given and no other. *)
LEMMA ReindexedMoves ==
  ASSUME IsRows(db), NEW i \in Ino, NEW R \in SUBSET Tag, NEW A \in SUBSET Tag
  PROVE  /\ Reindexed(i, R, A) \in [Tag -> SUBSET Ino]
         /\ \A t \in Tag :
              /\ i \in Reindexed(i, R, A)[t] <=> (i \in db.index[t] /\ t \notin R) \/ t \in A
              /\ \A j \in Ino \ {i} : j \in Reindexed(i, R, A)[t] <=> j \in db.index[t]
  BY DEF IsRows, Reindexed

(* A row written changes the tags of its inode to those of the row. *)
LEMMA PutTags ==
  ASSUME IsRows(db), NEW i \in Ino, NEW T \in SUBSET Tag,
         NEW x \in [Tag -> SUBSET Ino]
  PROVE  /\ IsRows(Rows(Put(db.tags, i, T), x))
         /\ TagsOf(Rows(Put(db.tags, i, T), x), i) = T
         /\ \A j \in Ino \ {i} : TagsOf(Rows(Put(db.tags, i, T), x), j) = TagsOf(db, j)
  BY DEF IsRows, Rows, Put, TagsOf, IsMap

(* A row removed leaves its inode without tags. *)
LEMMA DropTags ==
  ASSUME IsRows(db), NEW i \in Ino, NEW x \in [Tag -> SUBSET Ino]
  PROVE  /\ IsRows(Rows(Drop(db.tags, i), x))
         /\ TagsOf(Rows(Drop(db.tags, i), x), i) = {}
         /\ \A j \in Ino \ {i} : TagsOf(Rows(Drop(db.tags, i), x), j) = TagsOf(db, j)
  BY DEF IsRows, Rows, Drop, TagsOf, IsMap

(* The tags of an inode are tags. *)
LEMMA TagsAreTags ==
  ASSUME IsRows(db), NEW i \in Ino
  PROVE  TagsOf(db, i) \in SUBSET Tag
  BY DEF IsRows, TagsOf, IsMap

(* Every stage of set_file_tags writes about its inode only, and the last  *)
(* one puts it under its tags.                                             *)
LEMMA AfterOnly ==
  ASSUME IsRows(db), NEW i \in Ino, NEW T \in SUBSET Tag,
         NEW s \in [out : SUBSET Removed(i, T), in : SUBSET T]
  PROVE  /\ OnlyOf(i, After(i, T, s))
         /\ TagsOf(After(i, T, s), i) = T
         /\ \A t \in Tag : i \in After(i, T, s).index[t]
                             <=> (i \in db.index[t] /\ t \notin s.out) \/ t \in s.in
  <1>1. s.out \in SUBSET Tag /\ s.in \in SUBSET Tag
    BY TagsAreTags DEF Removed
  <1> DEFINE x == Reindexed(i, s.out, s.in)
  <1>2. /\ x \in [Tag -> SUBSET Ino]
        /\ \A t \in Tag :
             /\ i \in x[t] <=> (i \in db.index[t] /\ t \notin s.out) \/ t \in s.in
             /\ \A j \in Ino \ {i} : j \in x[t] <=> j \in db.index[t]
    BY <1>1, ReindexedMoves
  <1>3. After(i, T, s) = Rows(Put(db.tags, i, T), x) /\ After(i, T, s).index = x
    BY DEF After, Rows
  <1> HIDE DEF x
  <1> QED BY <1>2, <1>3, PutTags DEF OnlyOf

(* Every stage of delete_file_tags writes about its inode only. *)
LEMMA UndoneOnly ==
  ASSUME IsRows(db), NEW i \in Ino, NEW R \in SUBSET TagsOf(db, i)
  PROVE  OnlyOf(i, Undone(i, R))
  <1>1. R \in SUBSET Tag
    BY TagsAreTags
  <1> DEFINE x == Reindexed(i, R, {})
  <1>2. /\ x \in [Tag -> SUBSET Ino]
        /\ \A t \in Tag : \A j \in Ino \ {i} : j \in x[t] <=> j \in db.index[t]
    BY <1>1, ReindexedMoves
  <1>3. /\ Undone(i, R) = Rows(db.tags, x)
        /\ Undone(i, R).index = x /\ Undone(i, R).tags = db.tags
    BY DEF Undone, Rows
  <1> HIDE DEF x
  <1> QED BY <1>2, <1>3 DEF OnlyOf, IsRows, TagsOf

LEMMA DeletedOnly ==
  ASSUME IsRows(db), NEW i \in Ino
  PROVE  /\ OnlyOf(i, Deleted(i))
         /\ TagsOf(Deleted(i), i) = {}
         /\ \A t \in Tag : i \in Deleted(i).index[t]
                             <=> i \in db.index[t] /\ t \notin TagsOf(db, i)
  <1> DEFINE x == Reindexed(i, TagsOf(db, i), {})
  <1>2. /\ x \in [Tag -> SUBSET Ino]
        /\ \A t \in Tag :
             /\ i \in x[t] <=> i \in db.index[t] /\ t \notin TagsOf(db, i)
             /\ \A j \in Ino \ {i} : j \in x[t] <=> j \in db.index[t]
    BY TagsAreTags, ReindexedMoves
  <1>3. Deleted(i) = Rows(Drop(db.tags, i), x) /\ Deleted(i).index = x
    BY DEF Deleted, Rows
  <1> HIDE DEF x
  <1> QED BY <1>2, <1>3, DropTags DEF OnlyOf

-----------------------------------------------------------------------------
(* Rows that differ from good ones at an inode whose call was cut are good *)
(* enough; so are rows that differ at an inode they serve.                 *)
LEMMA OthersKept ==
  ASSUME calls \in [Ino -> Ending], Kept(db, calls), NEW i \in Ino, NEW d, OnlyOf(i, d),
         NEW e \in Ending,
         e = "done" => Exact(d, i), e # "cut" => Found(d, i)
  PROVE  Kept(d, [calls EXCEPT ![i] = e])
  <1> DEFINE c == [calls EXCEPT ![i] = e]
  <1>1. c[i] = e /\ \A j \in Ino \ {i} : c[j] = calls[j]
    OBVIOUS
  <1> HIDE DEF c
  <1>2. ASSUME NEW j \in Ino
        PROVE  (c[j] = "done" => Exact(d, j)) /\ (c[j] # "cut" => Found(d, j))
    <2>1. CASE j = i
      BY <1>1, <2>1
    <2>2. CASE j # i
      <3>1. c[j] = calls[j] /\ TagsOf(d, j) = TagsOf(db, j)
            /\ \A t \in Tag : j \in d.index[t] <=> j \in db.index[t]
        BY <1>1, <2>2 DEF OnlyOf
      <3>2. TagsOf(db, j) \in SUBSET Tag
        BY TagsAreTags DEF Kept
      <3> QED BY <3>1, <3>2 DEF Kept, Exact, Found
    <2> QED BY <2>1, <2>2
  <1> QED BY <1>2 DEF Kept, OnlyOf, c

(* What a crash could bring back stays good when a call is cut. *)
LEMMA CutKept ==
  ASSUME calls \in [Ino -> Ending], NEW i \in Ino, NEW d, Kept(d, calls)
  PROVE  Kept(d, [calls EXCEPT ![i] = "cut"])
  BY DEF Kept, Ending

(* What the two writers leave behind. *)
Written ==
  /\ calls' \in [Ino -> Ending]
  /\ \A d \in past' \cup {db'} : Kept(d, calls')

LEMMA DeleteTagsKeeps ==
  ASSUME calls \in [Ino -> Ending], Kept(db, calls), NEW i \in Ino,
         NEW since, \A d \in since : Kept(d, calls), DeleteTags(i, since)
  PROVE  Written
  <1>0. IsRows(db)
    BY DEF Kept
  <1>1. CASE db' = Deleted(i) /\ Returned(i)
    <2> DEFINE e == IF calls[i] = "done" THEN "done" ELSE "redone"
    <2>1. past' = {} /\ calls' = [calls EXCEPT ![i] = e] /\ e \in Ending
      BY <1>1 DEF Returned, Ending
    <2>2. OnlyOf(i, db') /\ Found(db', i) /\ (e = "done" => Exact(db', i))
      BY <1>0, <1>1, DeletedOnly DEF Kept, Exact, Found
    <2> HIDE DEF e
    <2>3. Kept(db', [calls EXCEPT ![i] = e])
      BY <2>1, <2>2, OthersKept
    <2> QED BY <2>1, <2>3 DEF Written
  <1>2. ASSUME Cut(i), NEW R \in SUBSET TagsOf(db, i),
               db' \in {Undone(i, R)} \cup (IF R = TagsOf(db, i) THEN {Deleted(i)} ELSE {}),
               past' = since \cup {Undone(i, Q) : Q \in SUBSET R}
        PROVE  Written
    <2>1. calls' = [calls EXCEPT ![i] = "cut"] /\ "cut" \in Ending
      BY <1>2 DEF Cut, Ending
    <2>2. OnlyOf(i, db')
      BY <1>0, <1>2, UndoneOnly, DeletedOnly
    <2>3. Kept(db', calls')
      BY <2>1, <2>2, OthersKept
    <2>4. ASSUME NEW d \in past' PROVE Kept(d, calls')
      <3>1. CASE d \in since
        BY <2>1, <3>1, CutKept
      <3>2. CASE d \in {Undone(i, Q) : Q \in SUBSET R}
        <4>1. OnlyOf(i, d)
          BY <1>0, <3>2, UndoneOnly
        <4> QED BY <2>1, <4>1, OthersKept
      <3> QED BY <1>2, <2>4, <3>1, <3>2
    <2> QED BY <2>1, <2>3, <2>4 DEF Written
  <1> QED BY <1>1, <1>2 DEF DeleteTags

LEMMA SetTagsKeeps ==
  ASSUME calls \in [Ino -> Ending], Kept(db, calls), NEW i \in Ino, NEW T \in SUBSET Tag,
         NEW since, \A d \in since : Kept(d, calls), SetTags(i, T, since)
  PROVE  Written
  <1>0. IsRows(db)
    BY DEF Kept
  <1>1. CASE T = {}
    BY <1>1, DeleteTagsKeeps DEF SetTags
  <1>2. ASSUME db' = After(i, T, [out |-> Removed(i, T), in |-> T]), Returned(i)
        PROVE  Written
    <2> DEFINE e == IF calls[i] = "done" THEN "done" ELSE "redone"
               s == [out |-> Removed(i, T), in |-> T]
    <2>1. past' = {} /\ calls' = [calls EXCEPT ![i] = e] /\ e \in Ending
      BY <1>2 DEF Returned, Ending
    <2>2. s \in [out : SUBSET Removed(i, T), in : SUBSET T]
      OBVIOUS
    <2>3. /\ OnlyOf(i, db') /\ TagsOf(db', i) = T
          /\ \A t \in Tag : i \in db'.index[t]
                              <=> (i \in db.index[t] /\ t \notin s.out) \/ t \in s.in
      BY <1>0, <1>2, <2>2, AfterOnly
    <2>4. Found(db', i) /\ (e = "done" => Exact(db', i))
      BY <2>3 DEF Kept, Exact, Found, Removed
    <2> HIDE DEF e
    <2>5. Kept(db', [calls EXCEPT ![i] = e])
      BY <2>1, <2>3, <2>4, OthersKept
    <2> QED BY <2>1, <2>5 DEF Written
  <1>3. ASSUME Cut(i), db' = db, past' = since
        PROVE  Written
    <2>1. calls' = [calls EXCEPT ![i] = "cut"] /\ calls' \in [Ino -> Ending]
      BY <1>3 DEF Cut, Ending
    <2> QED BY <1>3, <2>1, CutKept DEF Written
  <1>4. ASSUME Cut(i), NEW s \in Stages(i, T), db' = After(i, T, s),
               past' = since \cup {db} \cup UpTo(i, T, s)
        PROVE  Written
    <2>1. calls' = [calls EXCEPT ![i] = "cut"] /\ "cut" \in Ending
      BY <1>4 DEF Cut, Ending
    <2>2. \A r \in Stages(i, T) : Kept(After(i, T, r), calls')
      <3> TAKE r \in Stages(i, T)
      <3>1. OnlyOf(i, After(i, T, r))
        BY <1>0, AfterOnly DEF Stages
      <3> QED BY <2>1, <3>1, OthersKept
    <2>3. \A d \in since \cup {db} : Kept(d, calls')
      BY <2>1, CutKept
    <2> QED BY <1>4, <2>1, <2>2, <2>3 DEF Written, UpTo
  <1> QED BY <1>1, <1>2, <1>3, <1>4 DEF SetTags

-----------------------------------------------------------------------------
LEMMA InitIInv == Init => IInv
  BY DEF Init, IInv, TypeOK, Kept, IsRows, IsMap, Rows, Exact, Found, TagsOf, Ending

(* Each request keeps the invariant: its tag calls by the lemmas above,    *)
(* the rest of it by what it does to the registry.                         *)
LEMMA NextIInv == IInv /\ [Next]_vars => IInv'
  <1> SUFFICES ASSUME IInv, [Next]_vars PROVE IInv'
    OBVIOUS
  <1>0. /\ calls \in [Ino -> Ending] /\ IsMap(home, Ino, Dir) /\ live \subseteq DOMAIN home
        /\ Kept(db, calls) /\ \A d \in past : Kept(d, calls)
    BY DEF IInv, TypeOK
  <1>a. \A p \in Dir : AutoTags[p] \in SUBSET Tag
    BY AutoTagsAssumption
  <1>b. NoTags => Written
    BY <1>0 DEF NoTags, Written
  <1>c. ASSUME Written, IsMap(home, Ino, Dir)', live' \subseteq DOMAIN home' PROVE IInv'
    BY <1>c DEF Written, IInv, TypeOK, Kept
  <1>d. \A i \in Ino, p \in Dir :
          LET h == Put(home, i, p)
          IN  IsMap(h, Ino, Dir) /\ DOMAIN h = DOMAIN home \cup {i}
    BY <1>0 DEF Put, IsMap
  <1>1. ASSUME NEW i \in Ino, NEW p \in Dir, NEW over, NEW named \in {{}, {i}},
               Create(i, p, over, named)
        PROVE  IInv'
    <2>1. Written
      BY <1>0, <1>a, <1>b, <1>1, SetTagsKeeps DEF Create
    <2>2. home' = Put(home, i, p) /\ live' = (live \ over) \cup named
      BY <1>1 DEF Create
    <2> QED BY <1>0, <1>c, <1>d, <2>1, <2>2
  <1>2. ASSUME NEW i \in Ino, NEW p \in Dir, NEW over, Rename(i, p, over) PROVE IInv'
    <2>1. Written
      BY <1>0, <1>a, <1>b, <1>2, SetTagsKeeps DEF Rename
    <2> QED BY <1>0, <1>c, <1>d, <1>2, <2>1 DEF Rename
  <1>3. ASSUME NEW i \in Ino, Write(i) PROVE IInv'
    <2>1. AutoTags[home[i]] \in SUBSET Tag
      BY <1>0, <1>a, <1>3 DEF Write, IsMap
    <2>2. Written
      BY <1>0, <1>3, <2>1, SetTagsKeeps DEF Write
    <2> QED BY <1>0, <1>c, <1>3, <2>2 DEF Write, IsMap
  <1>4. ASSUME NEW i \in Ino, NEW gone, Unlink(i, gone) PROVE IInv'
    <2>1. Written
      BY <1>0, <1>4, DeleteTagsKeeps DEF Unlink
    <2> QED BY <1>0, <1>c, <1>4, <2>1 DEF Unlink, IsMap
  <1>5. ASSUME NEW i \in Ino, NEW T \in SUBSET Tag, SetByCommand(i, T) PROVE IInv'
    <2>1. Written
      BY <1>0, <1>5, SetTagsKeeps DEF SetByCommand
    <2> QED BY <1>0, <1>c, <1>5, <2>1 DEF SetByCommand, IsMap
  <1>6. ASSUME NEW i \in Ino, NEW t \in Tag, RemoveTagDir(t, i) PROVE IInv'
    <2>1. Written
      BY <1>0, <1>6, DeleteTagsKeeps DEF RemoveTagDir
    <2> QED BY <1>0, <1>c, <1>6, <2>1 DEF RemoveTagDir, IsMap
  <1>7. CASE Crash
    <2>1. Written
      BY <1>0, <1>7 DEF Crash, Written
    <2>2. home' = [j \in live |-> home[j]] /\ live' = live
      BY <1>7 DEF Crash
    <2>3. IsMap(home', Ino, Dir) /\ live' \subseteq DOMAIN home'
      BY <1>0, <2>2 DEF IsMap
    <2> QED BY <1>c, <2>1, <2>3 DEF IsMap
  <1>8. CASE UNCHANGED vars
    BY <1>8 DEF vars, IInv, TypeOK, Kept, IsRows, IsMap, Exact, Found, TagsOf
  <1> QED BY <1>1, <1>2, <1>3, <1>4, <1>5, <1>6, <1>7, <1>8 DEF Next

(* The rows and the registry are well formed at every time. *)
THEOREM TypeCorrect == Spec => []TypeOK
  <1>1. IInv => TypeOK
    BY DEF IInv
  <1> QED BY InitIInv, NextIInv, <1>1, PTL DEF Spec

(* The two tables agree on a file none of whose tag calls was cut short.   *)
THEOREM Agreement == Spec => []IndexExact
  <1>1. IInv => IndexExact
    BY DEF IInv, IndexExact, Kept
  <1> QED BY InitIInv, NextIInv, <1>1, PTL DEF Spec

(* A file whose last tag call returned is found under each of its tags.    *)
THEOREM Discovery == Spec => []TaggedFound
  <1>1. IInv => TaggedFound
    BY DEF IInv, TaggedFound, Kept
  <1> QED BY InitIInv, NextIInv, <1>1, PTL DEF Spec
=============================================================================
