-------------------------- MODULE MCAdmissionLock --------------------------
(***************************************************************************)
(* Small instances of AdmissionLock.                                       *)
(***************************************************************************)
EXTENDS AdmissionLock, TLC

CONSTANTS p1, p2, p3, p4

LocalProcesses == Permutations(Procs)
=============================================================================
