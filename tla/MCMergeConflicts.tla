-------------------------- MODULE MCMergeConflicts --------------------------
\* Two clones, which are alike: nothing here asks which was first.
EXTENDS MergeConflicts, TLC

CONSTANTS A, B

Symmetry == Permutations(Clones)
=============================================================================
