--------------------------- MODULE MCWorkContext ---------------------------
\* Two agents, two tasks, one worktree beside the main checkout, two sessions.
EXTENDS WorkContext, TLC

CONSTANTS x, y, k1, k2, wt

Symmetry == Permutations(Tasks) \cup Permutations(Agents)
=============================================================================
