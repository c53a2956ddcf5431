-------------------------- MODULE MCProjectIdentity --------------------------
(***************************************************************************)
(* Small instances of ProjectIdentity for TLC.                             *)
(***************************************************************************)
EXTENDS ProjectIdentity, TLC

CONSTANTS p, q

\* The binary of p brings a schema that is newer than the one of q.
SomeVersions == [proc \in Procs |-> IF proc = p THEN 2 ELSE 1]

\* Neither clones nor ids are told apart.
Renamings == Permutations(Clones) \cup Permutations(Ids)
=============================================================================
