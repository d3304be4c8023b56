--------------------------- MODULE MCContentStore ---------------------------
(***************************************************************************)
(* ContentStore on a small instance: two chunks, one of which two contents *)
(* share, two mounted inodes, two names and two legacy inodes.             *)
(***************************************************************************)
EXTENDS ContentStore, TLC

CONSTANTS a, b

MCChunk == {a, b}
MCContents == {<<a>>, <<b, a>>}
MCLegacyIno == {LegacyBase, LegacyBase + 1}
MCSymmetry == Permutations(FuseIno) \cup Permutations(Name)
=============================================================================
