------------------------- MODULE MCWorktreeCleanup -------------------------
(***************************************************************************)
(* Small instances of WorktreeCleanup for TLC.                             *)
(***************************************************************************)
EXTENDS WorktreeCleanup, TLC

CONSTANTS a, b, s, t

PathSymmetry == Permutations(Paths)
=============================================================================
