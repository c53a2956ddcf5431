------------------------ MODULE AdmissionLockProofs ------------------------
(***************************************************************************)
(* What the admission lock guarantees for every set of processes.          *)
(***************************************************************************)
EXTENDS AdmissionLock, TLAPS

(***************************************************************************)
(* Type correctness.  The loop counter stays in its range only because a   *)
(* process inside the loop has an iteration left, so the two are one       *)
(* invariant.                                                              *)
(***************************************************************************)
LoopPCs == {"sweep", "sweepRmdir", "build", "rename", "observe", "recheck",
            "readMeta", "probe", "steal", "verify", "restore"}

StepBound == \A p \in Procs : pc[p] \in LoopPCs => step[p] < MaxSteps

TypeInv == TypeOK /\ StepBound

\* Closing a loop iteration keeps the counter and the labels in range.
LEMMA NextStepTyped ==
  ASSUME TypeInv, NEW p \in Procs, pc[p] \in LoopPCs, NextStep(p)
  PROVE  /\ pc' \in [Procs -> PCs]
         /\ staging' \in [Procs -> Stages]
         /\ step' \in [Procs -> 0..MaxSteps]
         /\ \A q \in Procs : pc'[q] \in LoopPCs => step'[q] < MaxSteps
<1> USE StepAssumption DEF TypeInv, TypeOK, StepBound, NextStep, Goto
<1>1. step[p] \in 0..MaxSteps /\ step[p] + 1 \in 0..MaxSteps
  OBVIOUS
<1>2. step' \in [Procs -> 0..MaxSteps]
  BY <1>1
<1>3. pc' \in [Procs -> PCs] /\ staging' \in [Procs -> Stages]
  BY DEF PCs, Stages
<1>4. ASSUME NEW q \in Procs, pc'[q] \in LoopPCs PROVE step'[q] < MaxSteps
  <2>1. CASE q = p
    BY <1>1, <1>4, <2>1 DEF LoopPCs, PCs
  <2>2. CASE q # p
    BY <1>4, <2>2
  <2> QED
    BY <2>1, <2>2
<1> QED
  BY <1>2, <1>3, <1>4

\* A failed attempt keeps them in range, too.
LEMMA ConflictTyped ==
  ASSUME TypeInv, NEW p \in Procs, Conflict(p)
  PROVE  TypeInv'
BY DEF TypeInv, TypeOK, StepBound, Conflict, Goto, PCs, Stages, LoopPCs

LEMMA TypeInvStep == TypeInv /\ [Next]_vars => TypeInv'
<1> SUFFICES ASSUME TypeInv, [Next]_vars PROVE TypeInv'
  OBVIOUS
<1> USE StepAssumption, DirAssumption
    DEF TypeInv, TypeOK, StepBound, Dirs, Goto
<1>1. ASSUME NEW p \in Procs, Start(p) PROVE TypeInv'
  BY <1>1 DEF Start, PCs, LoopPCs
<1>2. ASSUME NEW p \in Procs, NEW q \in Procs, SweepUnlink(p, q)
      PROVE TypeInv'
  BY <1>2 DEF SweepUnlink, PCs, LoopPCs, Stages
<1>3. ASSUME NEW p \in Procs, SweepRmdir(p) \/ SweepDone(p) PROVE TypeInv'
  BY <1>3 DEF SweepRmdir, SweepDone, PCs, LoopPCs, Stages
<1>4. ASSUME NEW p \in Procs,
             BuildStaging(p) \/ Publish(p) \/ PublishFails(p)
      PROVE TypeInv'
  BY <1>4 DEF BuildStaging, Publish, PublishFails, PCs, LoopPCs, Stages
<1>5. ASSUME NEW p \in Procs, Observe(p) PROVE TypeInv'
  <2>1. pc[p] \in LoopPCs
    BY <1>5 DEF Observe, LoopPCs
  <2>2. CASE NextStep(p) /\ UNCHANGED <<lockDir, seen, quarantine, robbed>>
    BY <2>1, <2>2, NextStepTyped
  <2>3. CASE Conflict(p)
    BY <2>3, ConflictTyped
  <2>4. CASE Goto(p, "recheck") \/ Goto(p, "readMeta")
    BY <1>5, <2>1, <2>2, <2>3, <2>4 DEF Observe, PCs, LoopPCs
  <2> QED
    BY <1>5, <2>2, <2>3, <2>4 DEF Observe
<1>6. ASSUME NEW p \in Procs, Recheck(p) PROVE TypeInv'
  <2>1. pc[p] \in LoopPCs
    BY <1>6 DEF Recheck, LoopPCs
  <2>2. CASE NextStep(p) /\ UNCHANGED <<lockDir, seen, quarantine, robbed>>
    BY <2>1, <2>2, NextStepTyped
  <2>3. CASE /\ seen' = [seen EXCEPT ![p] = Bare]
             /\ Goto(p, "steal")
             /\ UNCHANGED <<lockDir, staging, quarantine, step, robbed>>
    BY <2>1, <2>3 DEF PCs, LoopPCs
  <2>4. CASE /\ Goto(p, "readMeta")
             /\ UNCHANGED <<lockDir, staging, seen, quarantine, step, robbed>>
    BY <2>1, <2>4 DEF PCs, LoopPCs
  <2> QED
    BY <1>6, <2>2, <2>3, <2>4 DEF Recheck
<1>7. ASSUME NEW p \in Procs, ReadMeta(p) PROVE TypeInv'
  <2>1. pc[p] \in LoopPCs
    BY <1>7 DEF ReadMeta, LoopPCs
  <2>2. CASE NextStep(p) /\ UNCHANGED <<lockDir, seen, quarantine, robbed>>
    BY <2>1, <2>2, NextStepTyped
  <2>3. CASE Conflict(p)
    BY <2>3, ConflictTyped
  <2>4. CASE /\ lockDir \in Procs
             /\ seen' = [seen EXCEPT ![p] = lockDir]
             /\ Goto(p, "probe")
             /\ UNCHANGED <<lockDir, staging, quarantine, step, robbed>>
    BY <2>1, <2>4 DEF PCs, LoopPCs
  <2> QED
    BY <1>7, <2>2, <2>3, <2>4 DEF ReadMeta
<1>8. ASSUME NEW p \in Procs, Probe(p) PROVE TypeInv'
  <2>1. pc[p] \in LoopPCs
    BY <1>8 DEF Probe, LoopPCs
  <2>2. CASE Conflict(p)
    BY <2>2, ConflictTyped
  <2>3. CASE /\ Goto(p, "steal")
             /\ UNCHANGED <<lockDir, staging, seen, quarantine, step, robbed>>
    BY <2>1, <2>3 DEF PCs, LoopPCs
  <2> QED
    BY <1>8, <2>2, <2>3 DEF Probe
<1>9. ASSUME NEW p \in Procs, Quarantine(p) \/ DecideRestore(p) PROVE TypeInv'
  BY <1>9 DEF Quarantine, DecideRestore, PCs, LoopPCs
<1>10. ASSUME NEW p \in Procs,
              StealLost(p) \/ Discard(p) \/ DiscardDisplaced(p) \/ Restore(p)
       PROVE TypeInv'
  <2>1. pc[p] \in LoopPCs /\ NextStep(p)
    BY <1>10 DEF StealLost, Discard, DiscardDisplaced, Restore, LoopPCs
  <2>2. /\ lockDir' \in Dirs \cup {NoDir}
        /\ seen' \in [Procs -> Procs \cup {Bare, NoDir}]
        /\ quarantine' \in [Procs -> Dirs \cup {NoDir}]
        /\ robbed' \subseteq Procs
    BY <1>10 DEF StealLost, Discard, DiscardDisplaced, Restore
  <2> QED
    BY <2>1, <2>2, NextStepTyped
<1>11. ASSUME NEW p \in Procs, GiveUp(p) \/ FinishWork(p) \/ Crash(p)
       PROVE TypeInv'
  BY <1>11 DEF GiveUp, FinishWork, Crash, PCs, LoopPCs
<1>12. ASSUME NEW p \in Procs,
              ReleaseCheck(p) \/ ReleaseUnlink(p) \/ ReleaseRmdir(p)
       PROVE TypeInv'
  BY <1>12 DEF ReleaseCheck, ReleaseUnlink, ReleaseRmdir, PCs, LoopPCs
<1>13. CASE AgeLockDir
  BY <1>13 DEF AgeLockDir
<1>14. ASSUME NEW p \in Procs, AgeStaging(p) PROVE TypeInv'
  BY <1>14 DEF AgeStaging, Stages
<1>15. CASE UNCHANGED vars
  BY <1>15 DEF vars
<1> QED
  BY <1>1, <1>2, <1>3, <1>4, <1>5, <1>6, <1>7, <1>8, <1>9, <1>10, <1>11,
     <1>12, <1>13, <1>14, <1>15 DEF Next, Advance

LEMMA TypeInvInit == Init => TypeInv
BY StepAssumption
   DEF Init, TypeInv, TypeOK, StepBound, Dirs, Stages, PCs, LoopPCs

\* No step of the lock protocol leaves the types: every label, directory
\* content and loop counter stays in its range, for every set of processes.
THEOREM TypeCorrect == Spec => []TypeOK
<1>1. TypeInv => TypeOK
  BY DEF TypeInv
<1> QED
  BY <1>1, TypeInvInit, TypeInvStep, PTL DEF Spec

(***************************************************************************)
(* Safety.  Owned: a process between its publication and the unlinking of  *)
(* its own metadata is named by the lock path unless it was robbed, and a  *)
(* staging directory can be emptied only by robbing its live owner.        *)
(***************************************************************************)
Owning(p) == pc[p] \in {"hold", "relCheck", "unlink"}

Owned ==
    /\ \A p \in Procs : Owning(p) /\ p \notin robbed => lockDir = p
    /\ \A p \in Procs :
          staging[p] = "oldEmpty" /\ ~Ended(p) => p \in robbed

\* What a healer believes of the owner it is about to remove.
Targeted ==
    /\ HealersTargetTheDead
    /\ \A p \in Procs : pc[p] = "probe" => seen[p] \in Procs

SafeInv == TypeInv /\ Owned /\ Targeted

LEMMA OwnedStep == TypeInv /\ Owned /\ [Next]_vars => Owned'
<1> SUFFICES ASSUME TypeInv, Owned, [Next]_vars PROVE Owned'
  OBVIOUS
<1> USE DirAssumption DEF TypeInv, TypeOK, Dirs, PCs, Stages, Owned, Owning, Ended, Goto
<1>1. ASSUME NEW p \in Procs, Start(p) PROVE Owned'
  BY <1>1 DEF Start
<1>2. ASSUME NEW p \in Procs, NEW q \in Procs, SweepUnlink(p, q)
      PROVE Owned'
  BY <1>2 DEF SweepUnlink
<1>3. ASSUME NEW p \in Procs, SweepRmdir(p) \/ SweepDone(p) PROVE Owned'
  BY <1>3 DEF SweepRmdir, SweepDone
<1>4. ASSUME NEW p \in Procs, BuildStaging(p) \/ PublishFails(p) PROVE Owned'
  BY <1>4 DEF BuildStaging, PublishFails
<1>5. ASSUME NEW p \in Procs, Publish(p) PROVE Owned'
  BY <1>5 DEF Publish
<1>6. ASSUME NEW p \in Procs, Observe(p) \/ Recheck(p) PROVE Owned'
  BY <1>6 DEF Observe, Recheck, NextStep, Conflict
<1>7. ASSUME NEW p \in Procs, ReadMeta(p) \/ Probe(p) PROVE Owned'
  BY <1>7 DEF ReadMeta, Probe, NextStep, Conflict
<1>8. ASSUME NEW p \in Procs, Quarantine(p) PROVE Owned'
  BY <1>8 DEF Quarantine
<1>9. ASSUME NEW p \in Procs,
             StealLost(p) \/ Discard(p) \/ DiscardDisplaced(p)
      PROVE Owned'
  BY <1>9 DEF StealLost, Discard, DiscardDisplaced, NextStep
<1>10. ASSUME NEW p \in Procs, DecideRestore(p) \/ Restore(p) PROVE Owned'
  BY <1>10 DEF DecideRestore, Restore, NextStep, IsBare
<1>11. ASSUME NEW p \in Procs, GiveUp(p) \/ FinishWork(p) \/ Crash(p)
       PROVE Owned'
  BY <1>11 DEF GiveUp, FinishWork, Crash
<1>12. ASSUME NEW p \in Procs, ReleaseCheck(p) PROVE Owned'
  BY <1>12 DEF ReleaseCheck
<1>13. ASSUME NEW p \in Procs, ReleaseUnlink(p) PROVE Owned'
  BY <1>13 DEF ReleaseUnlink
<1>14. ASSUME NEW p \in Procs, ReleaseRmdir(p) PROVE Owned'
  BY <1>14 DEF ReleaseRmdir, IsBare
<1>15. CASE AgeLockDir
  BY <1>15 DEF AgeLockDir
<1>16. ASSUME NEW p \in Procs, AgeStaging(p) PROVE Owned'
  BY <1>16 DEF AgeStaging
<1>17. CASE UNCHANGED vars
  BY <1>17 DEF vars
<1> QED
  BY <1>1, <1>2, <1>3, <1>4, <1>5, <1>6, <1>7, <1>8, <1>9, <1>10, <1>11,
     <1>12, <1>13, <1>14, <1>15, <1>16, <1>17 DEF Next, Advance

\* A process never comes back to life: its identifier is used once.
LEMMA EndedIsStable ==
  ASSUME TypeInv, [Next]_vars, NEW d \in Procs, Ended(d)
  PROVE  Ended(d)'
<1> USE DEF TypeInv, TypeOK, Ended, Goto, NextStep, Conflict
<1>1. ASSUME NEW p \in Procs, Start(p) \/ GiveUp(p) \/ Crash(p)
      PROVE Ended(d)'
  BY <1>1 DEF Start, GiveUp, Crash
<1>2. ASSUME NEW p \in Procs,
             \/ \E q \in Procs : SweepUnlink(p, q)
             \/ SweepRmdir(p) \/ SweepDone(p)
             \/ BuildStaging(p) \/ Publish(p) \/ PublishFails(p)
      PROVE Ended(d)'
  BY <1>2 DEF SweepUnlink, SweepRmdir, SweepDone, BuildStaging, Publish,
              PublishFails
<1>3. ASSUME NEW p \in Procs,
             Observe(p) \/ Recheck(p) \/ ReadMeta(p) \/ Probe(p)
      PROVE Ended(d)'
  BY <1>3 DEF Observe, Recheck, ReadMeta, Probe
<1>4. ASSUME NEW p \in Procs,
             \/ Quarantine(p) \/ StealLost(p) \/ Discard(p)
             \/ DiscardDisplaced(p) \/ DecideRestore(p) \/ Restore(p)
      PROVE Ended(d)'
  BY <1>4 DEF Quarantine, StealLost, Discard, DiscardDisplaced,
              DecideRestore, Restore
<1>5. ASSUME NEW p \in Procs,
             \/ FinishWork(p) \/ ReleaseCheck(p) \/ ReleaseUnlink(p)
             \/ ReleaseRmdir(p)
      PROVE Ended(d)'
  BY <1>5 DEF FinishWork, ReleaseCheck, ReleaseUnlink, ReleaseRmdir
<1>6. ASSUME AgeLockDir \/ (\E p \in Procs : AgeStaging(p)) \/ UNCHANGED vars
      PROVE Ended(d)'
  BY <1>6 DEF AgeLockDir, AgeStaging, vars
<1> QED
  BY <1>1, <1>2, <1>3, <1>4, <1>5, <1>6 DEF Next, Advance

LEMMA TargetedStep == TypeInv /\ Targeted /\ [Next]_vars => Targeted'
<1> SUFFICES ASSUME TypeInv, Targeted, [Next]_vars,
                    NEW p \in Procs
             PROVE  /\ pc'[p] \in {"steal", "verify"} /\ seen'[p] \in Procs
                         => Ended(seen[p])' /\ SameHost(p, seen'[p])
                    /\ pc'[p] = "probe" => seen'[p] \in Procs
  BY DEF Targeted, HealersTargetTheDead
<1> USE DEF TypeInv, TypeOK, Targeted, HealersTargetTheDead
<1>1. CASE pc'[p] = pc[p] /\ seen'[p] = seen[p]
  BY <1>1, EndedIsStable DEF Ended
<1>2. CASE Recheck(p)
  BY <1>2, DirAssumption DEF Recheck, Goto, NextStep
<1>3. CASE ReadMeta(p)
  BY <1>3 DEF ReadMeta, Goto, NextStep, Conflict
<1>4. CASE Probe(p)
  BY <1>4, EndedIsStable DEF Probe, Goto, Conflict, Ended
<1>5. CASE Quarantine(p)
  BY <1>5, EndedIsStable DEF Quarantine, Goto, Ended
<1>6. CASE \/ Start(p) \/ GiveUp(p) \/ Crash(p)
           \/ (\E q \in Procs : SweepUnlink(p, q))
           \/ SweepRmdir(p) \/ SweepDone(p)
           \/ BuildStaging(p) \/ Publish(p) \/ PublishFails(p)
           \/ FinishWork(p) \/ ReleaseCheck(p) \/ ReleaseUnlink(p)
           \/ ReleaseRmdir(p)
  BY <1>6 DEF Start, GiveUp, Crash, SweepUnlink, SweepRmdir, SweepDone,
              BuildStaging, Publish, PublishFails, FinishWork, ReleaseCheck,
              ReleaseUnlink, ReleaseRmdir, Goto
<1>7. CASE \/ Observe(p) \/ StealLost(p) \/ Discard(p)
           \/ DiscardDisplaced(p) \/ DecideRestore(p) \/ Restore(p)
  BY <1>7 DEF Observe, StealLost, Discard, DiscardDisplaced, DecideRestore,
              Restore, NextStep, Conflict, Goto
<1>8. ASSUME NEW q \in Procs, q # p, Start(q) \/ Advance(q) \/ GiveUp(q) \/ Crash(q)
      PROVE  pc'[p] = pc[p] /\ seen'[p] = seen[p]
  <2> USE DEF Goto, NextStep, Conflict
  <2>1. CASE Start(q) \/ GiveUp(q) \/ Crash(q)
    BY <1>8, <2>1 DEF Start, GiveUp, Crash
  <2>2. CASE \/ \E r \in Procs : SweepUnlink(q, r)
             \/ SweepRmdir(q) \/ SweepDone(q)
             \/ BuildStaging(q) \/ Publish(q) \/ PublishFails(q)
    BY <1>8, <2>2 DEF SweepUnlink, SweepRmdir, SweepDone, BuildStaging,
                      Publish, PublishFails
  <2>3. CASE Observe(q) \/ Recheck(q) \/ ReadMeta(q) \/ Probe(q)
    BY <1>8, <2>3 DEF Observe, Recheck, ReadMeta, Probe
  <2>4. CASE \/ Quarantine(q) \/ StealLost(q) \/ Discard(q)
             \/ DiscardDisplaced(q) \/ DecideRestore(q) \/ Restore(q)
    BY <1>8, <2>4 DEF Quarantine, StealLost, Discard, DiscardDisplaced,
                      DecideRestore, Restore
  <2>5. CASE \/ FinishWork(q) \/ ReleaseCheck(q) \/ ReleaseUnlink(q)
             \/ ReleaseRmdir(q)
    BY <1>8, <2>5 DEF FinishWork, ReleaseCheck, ReleaseUnlink, ReleaseRmdir
  <2> QED
    BY <1>8, <2>1, <2>2, <2>3, <2>4, <2>5 DEF Advance
<1>9. CASE AgeLockDir \/ (\E q \in Procs : AgeStaging(q)) \/ UNCHANGED vars
  <2>1. pc'[p] = pc[p] /\ seen'[p] = seen[p]
    BY <1>9 DEF AgeLockDir, AgeStaging, vars
  <2> QED
    BY <1>1, <2>1
<1> QED
  BY <1>1, <1>2, <1>3, <1>4, <1>5, <1>6, <1>7, <1>8, <1>9 DEF Next, Advance

LEMMA SafeInvInvariant == Spec => []SafeInv
<1>1. Init => SafeInv
  <2>1. Init => Owned
    BY DEF Init, Owned, Owning
  <2>2. Init => Targeted
    BY DEF Init, Targeted, HealersTargetTheDead
  <2> QED
    BY TypeInvInit, <2>1, <2>2 DEF SafeInv
<1>2. SafeInv /\ [Next]_vars => SafeInv'
  BY TypeInvStep, OwnedStep, TargetedStep DEF SafeInv
<1> QED
  BY <1>1, <1>2, PTL DEF Spec

\* A healer about to delete a lock directory for the token it read is right
\* about the owner: that process ended, on the healer's own host.
THEOREM HealersTargetTheDeadTheorem == Spec => []HealersTargetTheDead
<1>1. SafeInv => HealersTargetTheDead
  BY DEF SafeInv, Targeted
<1> QED
  BY <1>1, SafeInvInvariant, PTL

\* A working command that nobody robbed is the one the lock path names.
THEOREM HolderVisibleTheorem == Spec => []HolderVisible
<1>1. SafeInv => HolderVisible
  BY DEF SafeInv, Owned, Owning, HolderVisible, Holds
<1> QED
  BY <1>1, SafeInvInvariant, PTL

\* Two commands work at once only when one of them was robbed: publication
\* and release alone exclude each other for any number of processes.
THEOREM ExclusionUnlessRobbedTheorem == Spec => []ExclusionUnlessRobbed
<1>1. SafeInv => ExclusionUnlessRobbed
  BY DEF SafeInv, Owned, Owning, ExclusionUnlessRobbed, Holds
<1> QED
  BY <1>1, SafeInvInvariant, PTL

(***************************************************************************)
(* Before any command ended, and with nobody stalling past the grace, no   *)
(* directory is old, so no healer gets as far as taking one away, and the  *)
(* only directory without metadata is the one its releaser just emptied.   *)
(***************************************************************************)
FirstGeneration == Slow = {} /\ \A p \in Procs : ~Ended(p)

HealingPCs == {"sweepRmdir", "recheck", "steal", "verify", "restore"}

Pristine ==
    /\ robbed = {}
    /\ \A p \in Procs : staging[p] \in {"none", "full"}
    /\ \A p \in Procs : pc[p] \notin HealingPCs
    /\ lockDir # OldBare
    /\ lockDir = Bare => \E p \in Procs : pc[p] = "rmdir"

FirstGenInv == FirstGeneration => Pristine

LEMMA FirstGenerationBackwards ==
  ASSUME TypeInv, [Next]_vars, FirstGeneration'
  PROVE  FirstGeneration
BY EndedIsStable DEF FirstGeneration

LEMMA FirstGenStep == SafeInv /\ FirstGenInv /\ [Next]_vars => FirstGenInv'
<1> SUFFICES ASSUME SafeInv, FirstGenInv, [Next]_vars, FirstGeneration'
             PROVE  Pristine'
  BY DEF FirstGenInv
<1>1. FirstGeneration /\ Pristine
  BY FirstGenerationBackwards DEF SafeInv, FirstGenInv
<1>2. TypeInv /\ Owned /\ Targeted
  BY DEF SafeInv
<1> USE DirAssumption, <1>1, <1>2
    DEF TypeInv, TypeOK, Dirs, PCs, Stages, Pristine, HealingPCs, Goto
<1>3. ASSUME NEW p \in Procs, Start(p) PROVE Pristine'
  BY <1>3 DEF Start
<1>4. ASSUME NEW p \in Procs,
             \/ \E q \in Procs : SweepUnlink(p, q)
             \/ SweepRmdir(p) \/ SweepDone(p)
      PROVE Pristine'
  BY <1>4 DEF SweepUnlink, SweepRmdir, SweepDone
<1>5. ASSUME NEW p \in Procs, BuildStaging(p) \/ PublishFails(p)
      PROVE Pristine'
  BY <1>5 DEF BuildStaging, PublishFails
<1>6. ASSUME NEW p \in Procs, Publish(p) PROVE Pristine'
  BY <1>6 DEF Publish
<1>7. ASSUME NEW p \in Procs, Observe(p) \/ ReadMeta(p) PROVE Pristine'
  BY <1>7 DEF Observe, ReadMeta, NextStep, Conflict
<1>8. ASSUME NEW p \in Procs, Probe(p) PROVE Pristine'
  BY <1>8 DEF Probe, Conflict, Targeted, FirstGeneration
<1>9. ASSUME NEW p \in Procs,
             \/ Recheck(p) \/ Quarantine(p) \/ StealLost(p) \/ Discard(p)
             \/ DiscardDisplaced(p) \/ DecideRestore(p) \/ Restore(p)
      PROVE Pristine'
  BY <1>9 DEF Recheck, Quarantine, StealLost, Discard, DiscardDisplaced,
              DecideRestore, Restore
<1>10. ASSUME NEW p \in Procs, GiveUp(p) \/ Crash(p) \/ ReleaseRmdir(p)
       PROVE Pristine'
  BY <1>10 DEF GiveUp, Crash, ReleaseRmdir, FirstGeneration, Ended
<1>11. ASSUME NEW p \in Procs, FinishWork(p) \/ ReleaseCheck(p) PROVE Pristine'
  BY <1>11 DEF FinishWork, ReleaseCheck
<1>12. ASSUME NEW p \in Procs, ReleaseUnlink(p) PROVE Pristine'
  <2>1. lockDir = p
    BY <1>12 DEF ReleaseUnlink, Owned, Owning
  <2> QED
    BY <1>12, <2>1 DEF ReleaseUnlink
<1>13. CASE AgeLockDir
  BY <1>13 DEF AgeLockDir, FirstGeneration
<1>14. ASSUME NEW p \in Procs, AgeStaging(p) PROVE Pristine'
  BY <1>14 DEF AgeStaging, FirstGeneration
<1>15. CASE UNCHANGED vars
  BY <1>15 DEF vars
<1> QED
  BY <1>3, <1>4, <1>5, <1>6, <1>7, <1>8, <1>9, <1>10, <1>11, <1>12, <1>13,
     <1>14, <1>15 DEF Next, Advance

\* Until the first command of the project ends, any number of live contenders
\* exclude each other.  What can break exclusion afterwards is a healer that
\* acts on the metadata of a process that has ended since.
THEOREM FirstGenerationTheorem == Spec => []FirstGenerationExclusive
<1>1. Init => FirstGenInv
  BY DirAssumption
     DEF Init, FirstGenInv, FirstGeneration, Pristine, HealingPCs
<1>2. SafeInv /\ FirstGenInv /\ [Next]_vars => FirstGenInv'
  BY FirstGenStep
<1>3. SafeInv /\ FirstGenInv => FirstGenerationExclusive
  <2> SUFFICES ASSUME SafeInv, FirstGenInv, FirstGeneration
               PROVE  MutualExclusion
    BY DEF FirstGenerationExclusive, FirstGeneration
  <2>1. robbed = {}
    BY DEF FirstGenInv, Pristine
  <2> QED
    BY <2>1 DEF SafeInv, Owned, Owning, Holds, MutualExclusion
<1> QED
  BY <1>1, <1>2, <1>3, SafeInvInvariant, PTL DEF Spec
=============================================================================
