------------------------------ MODULE SledMap ------------------------------
(***************************************************************************)
(* The sled tree as ArcFS uses it: a finite map from keys to values, kept  *)
(* as a function whose domain is the set of keys present.  sled is a       *)
(* library outside the repository; what is modelled is what                *)
(* file_manager.rs relies on.                                              *)
(*                                                                         *)
(* Durability.  An insert or a remove changes the tree of the running      *)
(* process at once and reaches the disk at the next flush().  The log is   *)
(* written in order, so a crash leaves the tree after some prefix of the   *)
(* writes made since the last flush.  A module that needs this keeps, next *)
(* to the tree, the set of values the tree had since the last flush, and   *)
(* lets a crash pick one of them.                                          *)
(***************************************************************************)

(* Db::insert(k, v): one key added or overwritten. *)
Put(m, k, v) == [x \in DOMAIN m \cup {k} |-> IF x = k THEN v ELSE m[x]]

(* Db::remove(k): one key dropped, nothing when it is absent. *)
Drop(m, k) == [x \in DOMAIN m \ {k} |-> m[x]]

(* m is a map from some keys in K to values in V. *)
IsMap(m, K, V) == DOMAIN m \subseteq K /\ m \in [DOMAIN m -> V]
=============================================================================
