--------------------------- MODULE SnapshotStore ----------------------------
(***************************************************************************)
(* What snapshots promise, with no rows, ids, clones or caches in it: one  *)
(* tree that changes, and names for trees that do not.  A name is listed,  *)
(* to clients, and stored, for the next mount; the two differ only by what *)
(* an error left out, and the next mount lists what is stored.  A snapshot *)
(* shows the live tree of one moment, however long it takes.  A restore    *)
(* may leave anything in the live tree while it goes on; it begins with a  *)
(* snapshot of what it takes away, and that one and the one it restores    *)
(* stay until it ends.                                                     *)
(***************************************************************************)
EXTENDS SledMap, Naturals

VARIABLES
  live,       \* the live tree that a crash leaves
  listed,     \* the snapshots clients see: a map from names to trees
  stored,     \* those that the next mount lists
  restoring,  \* the name of the snapshot that is being restored, if any
  errors      \* how many there were

vars == <<live, listed, stored, restoring, errors>>

Init == listed = <<>> /\ stored = <<>> /\ restoring = {} /\ errors = 0

(* A request about the live tree, or a step of a restore. *)
Edit == UNCHANGED <<listed, stored, restoring, errors>>

(* An error in one; it may end the restore. *)
Fail ==
  /\ restoring' \in {restoring, {}}
  /\ errors' = errors + 1
  /\ UNCHANGED <<listed, stored>>

(* A snapshot, and the one that a restore begins with. *)
Take(s) ==
  /\ restoring = {} /\ s \notin DOMAIN listed
  /\ listed' = Put(listed, s, live)
  /\ \/ /\ stored' = Put(stored, s, live)
        /\ restoring' \in {{}} \cup {{r} : r \in DOMAIN listed}
        /\ errors' = errors
     \/ /\ stored' \in {stored, Put(stored, s, live)}
        /\ restoring' = {}
        /\ errors' = errors + 1
  /\ live' = live

Remove(s) ==
  /\ restoring = {} /\ s \in DOMAIN listed
  /\ listed' = Drop(listed, s)
  /\ \/ stored' = Drop(stored, s) /\ errors' = errors
     \/ stored' = stored /\ errors' = errors + 1
  /\ UNCHANGED <<live, restoring>>

(* The live tree is the snapshot's, unless errors left something behind. *)
EndRestore(s) ==
  /\ restoring = {s}
  /\ errors = 0 => live = listed[s]
  /\ restoring' = {}
  /\ UNCHANGED <<live, listed, stored, errors>>

(* After a crash, which may cut a request of the live tree short. *)
Mount ==
  /\ listed' = stored
  /\ restoring' = {}
  /\ UNCHANGED <<stored, errors>>

Next ==
  \/ Edit \/ Fail \/ Mount
  \/ \E s \in DOMAIN listed' : Take(s)
  \/ \E s \in DOMAIN listed : Remove(s) \/ EndRestore(s)

Spec == Init /\ [][Next]_vars
=============================================================================
