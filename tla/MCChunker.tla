----------------------------- MODULE MCChunker ------------------------------
(***************************************************************************)
(* Chunker on small instances: every file of at most MaxLen bytes, and the *)
(* files it becomes when bytes are put in at one place, or taken out, or   *)
(* one is replaced.  Min, Max and the mask are small enough for a file of  *)
(* several chunks that end at the minimum, at the maximum and in between.  *)
(***************************************************************************)
EXTENDS Chunker, TLC

CONSTANTS a, b, old, new, MaxLen

MCGear == (a :> 5) @@ (b :> 14)

Contents == UNION {[1..n -> Byte] : n \in 0..MaxLen}
Inserted == UNION {[1..n -> Byte] : n \in 0..1}
Edited(s) ==
  {SubSeq(s, 1, k) \o x \o SubSeq(s, k + 1 + cut, Len(s)) :
     k \in 0..Len(s), x \in Inserted, cut \in 0..1}

MCInit ==
  /\ \E s \in Contents : \E t \in Edited(s) : data = (old :> s) @@ (new :> t)
  /\ Start

MCSpec == MCInit /\ [][Next]_vars
=============================================================================
