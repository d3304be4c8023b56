--------------------------- MODULE WriteBackFile ----------------------------
(***************************************************************************)
(* What a write-back cache promises its clients, with no cache in it: each *)
(* file has the bytes its clients see and the bytes a crash leaves.  Only  *)
(* a client's edit changes what is seen; only writing back what is seen    *)
(* changes what is durable.  Reading, caching and evicting change neither. *)
(***************************************************************************)
EXTENDS FileBytes

CONSTANTS
  File,     \* files
  Writes,   \* the byte sequences a client writes
  Lengths,  \* the lengths a client truncates to
  MaxLen    \* bound on where a write ends

VARIABLES
  cur,      \* what a read of each file should return
  durable,  \* what each file returns after a crash
  named,    \* files a directory names
  failed    \* something has failed before

vars == <<cur, durable, named, failed>>

Init ==
  /\ cur = [f \in File |-> <<>>]
  /\ durable = [f \in File |-> <<>>]
  /\ named = {}
  /\ failed = FALSE

(* An edit of the current bytes.  Only a failure can make it an edit of an *)
(* empty file.                                                             *)
Edit(f) ==
  /\ \E base \in {cur[f], <<>>} :
       /\ base = cur[f] \/ failed'
       /\ \/ \E off \in 0..MaxLen, d \in Writes :
               cur' = [cur EXCEPT ![f] = Overlay(base, off, d)]
          \/ \E n \in Lengths : cur' = [cur EXCEPT ![f] = Resize(base, n)]
  /\ UNCHANGED <<durable, named>>

WriteBack(f) ==
  /\ durable' = [durable EXCEPT ![f] = cur[f]]
  /\ UNCHANGED <<cur, named>>

Link(f) ==
  /\ named' = named \cup {f}
  /\ UNCHANGED <<cur, durable>>

(* A file that is unlinked loses what was not written back.  If that fails *)
(* it may keep its name.                                                   *)
Unlink(f) ==
  /\ f \in named
  /\ named' \subseteq named
  /\ f \notin named' \/ failed'
  /\ cur' = [cur EXCEPT ![f] = durable[f]]
  /\ UNCHANGED durable

(* A failed rename can leave a file without a name. *)
LoseName ==
  /\ failed' /\ named' \subseteq named
  /\ UNCHANGED <<cur, durable>>

(* A crash takes what was not written back from every file. *)
Crash ==
  /\ failed'
  /\ cur' = durable
  /\ UNCHANGED <<durable, named>>

Next ==
  /\ failed' \in BOOLEAN /\ (failed => failed')
  /\ \/ \E f \in File : Edit(f) \/ WriteBack(f) \/ Link(f) \/ Unlink(f)
     \/ LoseName
     \/ Crash
     \/ UNCHANGED <<cur, durable, named>>

Spec == Init /\ [][Next]_vars
=============================================================================
