------------------------- MODULE MCStateReplacement -------------------------
(***************************************************************************)
(* Small instances of StateReplacement for TLC.                            *)
(***************************************************************************)
EXTENDS StateReplacement, TLC

CONSTANTS w1, w2, t1, o1, o2

OpSymmetry == Permutations(Ops)
=============================================================================
