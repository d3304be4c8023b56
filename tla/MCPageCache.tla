---------------------------- MODULE MCPageCache -----------------------------
(***************************************************************************)
(* PageCache and its history on a small instance: more files than the      *)
(* cache has room for.                                                     *)
(***************************************************************************)
EXTENDS PageCacheHistory

MCByte == 0..1
MCWrites == {<<1>>}
MCLengths == {1}
=============================================================================
