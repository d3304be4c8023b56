----------------------------- MODULE FileBytes ------------------------------
(***************************************************************************)
(* The edits a client makes to a file's bytes (the buffers of write and    *)
(* setattr in fuse_handler.rs).  A byte is a number; 0 fills a gap.        *)
(***************************************************************************)
EXTENDS Naturals, Sequences

Larger(m, n) == IF m >= n THEN m ELSE n

(* Vec::resize(n, 0). *)
Resize(s, n) == [k \in 1..n |-> IF k <= Len(s) THEN s[k] ELSE 0]

(* resize up to the end of the write, then copy_from_slice at the offset. *)
Overlay(s, off, d) ==
  [k \in 1..Larger(Len(s), off + Len(d)) |->
     IF off < k /\ k <= off + Len(d) THEN d[k - off]
     ELSE IF k <= Len(s) THEN s[k] ELSE 0]
=============================================================================
