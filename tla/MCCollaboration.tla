--------------------------- MODULE MCCollaboration ---------------------------
(***************************************************************************)
(* Small instances of Collaboration for TLC.                               *)
(***************************************************************************)
EXTENDS Collaboration, TLC

CONSTANTS t1, x, y, g1

\* Only the commander has the role the task requires.
OnlyCommander == {<<x, t1>>}

\* Bounds: only the peer is deactivated; what does not meet is explored apart:
\* a project with a team or a decision has one progress item, one with a
\* hand-over two, and one with a decision no team.
Bounds ==
    /\ x \in active
    /\ team[g1] # NoRow \/ successor[1] # NoRow => item[2] = NoRow /\ handoff[1] = NoRow
    /\ handoff[1] # NoRow => item[3] = NoRow
    /\ successor[1] # NoRow => team[g1] = NoRow
=============================================================================
