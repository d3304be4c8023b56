----------------------------- MODULE MCTagTree ------------------------------
(***************************************************************************)
(* Instances of TagTree for TLC, told apart by `pick`, which never changes *)
(* and bounds what happens.  In "cut" calls are cut by errors and crashes  *)
(* and no virtual id is made, the second file having one tag at most; in   *)
(* "rmdir" only the calls of an rmdir are; in the others every call        *)
(* returns.  "names" has two files of two names, "dirs" two tags and three *)
(* virtual ids; in "clones" the directories on a path have a second id     *)
(* each, for a copy, and in "below" too, where files have the name of the  *)
(* lower one and can be in it or in its place.                             *)
(***************************************************************************)
EXTENDS TagTree

CONSTANTS a, b, A, f

VARIABLE pick

(* Ids for each path: for the directory, a copy and one made later. *)
MCDir == {<<<<>>, 0>>} \cup {<<p, k>> : p \in {<<a>>, <<b>>, <<a, b>>}, k \in 0..2}
MCRoot == <<<<>>, 0>>
MCPathOf == [d \in MCDir |-> d[1]]
MCNorm == [n \in {a, b, A} |-> IF n = A THEN a ELSE n]
MCAutoTags == [d \in MCDir |-> {MCNorm[d[1][k]] : k \in 1..Len(d[1])}]
MCTagOrder == <<a, b>>

(* The next state is one of those the pick is for: files and virtual ids,  *)
(* the paths of directories and how many ids a path has, the names and     *)
(* tags of files.                                                          *)
Bounds ==
  [cut   |-> [ino |-> 2, ids |-> 0, paths |-> {<<>>, <<a>>}, nodes |-> 1, names |-> {f}, tags |-> {a, b}],
   rmdir |-> [ino |-> 2, ids |-> 1, paths |-> {<<>>, <<a>>}, nodes |-> 1, names |-> {f}, tags |-> {a}],
   names |-> [ino |-> 2, ids |-> 2, paths |-> {<<>>, <<a>>, <<b>>}, nodes |-> 1, names |-> {f, b}, tags |-> {a}],
   dirs  |-> [ino |-> 1, ids |-> 3, paths |-> {<<>>, <<a>>, <<b>>, <<a, b>>}, nodes |-> 1, names |-> {f, b}, tags |-> {a, b}],
   clones |-> [ino |-> 1, ids |-> 3, paths |-> {<<>>, <<a>>, <<a, b>>}, nodes |-> 2, names |-> {f}, tags |-> {a, b}],
   below |-> [ino |-> 2, ids |-> 2, paths |-> {<<>>, <<a>>, <<a, b>>}, nodes |-> 2, names |-> {b}, tags |-> {a}]]
Within(bound) ==
  /\ virt'.next <= FirstVnode + bound.ids
  /\ DOMAIN fname' \subseteq 1..bound.ino
  /\ \A d \in dirs' : d[1] \in bound.paths /\ d[2] < bound.nodes
  /\ \A i \in DOMAIN fname' : fname'[i] \in bound.names
  /\ \A i \in DOMAIN db'.tags : db'.tags[i] \subseteq bound.tags
  /\ pick = "cut" => \A i \in DOMAIN db'.tags \ {1} : b \notin db'.tags[i]

MCInit == TreeInit /\ pick \in DOMAIN Bounds
MCNext ==
  /\ TreeNext
  /\ Within(Bounds[pick])
  /\ pick \in {"names", "dirs", "clones", "below"} => calls' = calls
  /\ pick = "rmdir" /\ removing.name = {} => calls' = calls
  /\ UNCHANGED pick
MCSpec == MCInit /\ [][MCNext]_<<treeVars, pick>>
=============================================================================
