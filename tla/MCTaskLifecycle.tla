-------------------------- MODULE MCTaskLifecycle --------------------------
(***************************************************************************)
(* Small instances of TaskLifecycle for TLC.                               *)
(***************************************************************************)
EXTENDS TaskLifecycle, TLC

CONSTANTS t1, t2, t3, commander, peer

\* Only the peer has the role the third task requires.
RoleHolders == (Agents \X Tasks) \ {<<commander, t3>>}

AllQualified == Agents \X Tasks

\* Bound: only the peer is deactivated.
CommanderStays == commander \in active

TaskSymmetry == Permutations(Tasks)
============================================================================
