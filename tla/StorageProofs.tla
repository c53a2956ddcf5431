------------------------------ MODULE StorageProofs ------------------------------
(***************************************************************************)
(* Proofs about the files of a project.  StateReplacement, for every set   *)
(* of writes and any number of operations: what a replacement of the       *)
(* database never does, wherever commands die, fail or read before they    *)
(* hold the lock.  Bundles, for every set of clones, processes and         *)
(* directories: what exports, snapshots and imports leave behind.          *)
(***************************************************************************)
EXTENDS StateReplacement, Bundles, SequenceTheorems, FiniteSetTheorems, WellFoundedInduction, TLAPS

----------------------------------------------------------------------------
(***************************************************************************)
(* The command that holds the lock, and the files it has ready.            *)
(***************************************************************************)
\* Each command runs its own phases, on an operation of its own.
CommandKnown ==
    /\ cmd = "none" => phase = "idle"
    /\ cmd = "write" => phase \in {"recover", "commit"}
    /\ cmd = "merge" => phase \in {"build", "stage", "open", "finish"} \cup (SwapPhases \ {"copy"})
    /\ cmd = "apply" => phase \in {"mark", "sweep"} \cup SwapPhases
    /\ cmd = "abort" => phase = "sweep"
    /\ cmd \in {"restore", "pull"} => phase \in SwapPhases
    /\ cmd \notin {"none", "write"} => op \in Ops

\* From here on the swap has an image to put in place.
CandidateReady ==
    /\ cmd = "merge" /\ phase = "build" => ours[op] \in Images
    /\ phase \in {"stage", "finish", "link", "rename"} => candidate[op] \in Images
    /\ cmd \in Swaps /\ phase \in {"backup", "journal"} => candidate[op] \in Images
    /\ cmd = "restore" => source \in Images

TypeInv == TypeOK /\ CommandKnown /\ CandidateReady

LEMMA TypeInit == Init => TypeInv
BY NameAssumption
   DEF Init, TypeInv, TypeOK, CommandKnown, CandidateReady, Phases, SwapPhases, Swaps,
       Images, Contents

\* An image stays one when rows that exist are added to it.
LEMMA ImageUnion == \A i \in Images, s \in SUBSET Contents : i \cup s \in Images
BY DEF Images

LEMMA VisibleImage == TypeOK => Visible \in Images
BY NameAssumption DEF TypeOK, Visible, Images

LEMMA OrdinaryTyped == TypeInv /\ Ordinary => TypeInv'
<1> SUFFICES ASSUME TypeInv, Ordinary PROVE TypeInv'
  OBVIOUS
<1> USE NameAssumption DEF TypeInv, TypeOK, CommandKnown, CandidateReady, Phases, SwapPhases,
        Swaps, Begin, Step, Stop, db, elsewhere, files, merging, command
<1> Visible \in Images
  BY VisibleImage
<1>1. CASE BeginWrite
  BY <1>1 DEF BeginWrite
<1>2. ASSUME NEW o \in Ops, RecoverDatabase(o) PROVE TypeInv'
  BY <1>2 DEF RecoverDatabase, Whole
<1>3. ASSUME NEW o \in Ops, RecoveryFails(o) PROVE TypeInv'
  BY <1>3 DEF RecoveryFails
<1>4. ASSUME NEW o \in Ops, RecoverFiles(o) PROVE TypeInv'
  BY <1>4 DEF RecoverFiles
<1>5. ASSUME NEW o \in Ops, RecoverJournal(o) PROVE TypeInv'
  BY <1>5 DEF RecoverJournal
<1>6. CASE OpenDatabase
  <2> {} \in Images
    BY DEF Images
  <2> QED BY <1>6 DEF OpenDatabase
<1>7. ASSUME NEW w \in Writes, Commit(w) PROVE TypeInv'
  <2> {} \in Images /\ wal \cup {w} \in Images /\ Visible \cup {w} \in Images
    BY DEF Images, Contents
  <2> live' # NoFile \/ live' = live
    BY <1>7 DEF Commit
  <2> QED BY <1>7 DEF Commit
<1>8. CASE BackupProject
  BY <1>8 DEF BackupProject
<1>9. CASE Push
  <2> {} \in Images
    BY DEF Images
  <2> QED BY <1>9 DEF Push
<1> QED BY <1>1, <1>2, <1>3, <1>4, <1>5, <1>6, <1>7, <1>8, <1>9 DEF Ordinary

LEMMA MergeTyped == TypeInv /\ Merge => TypeInv'
<1> SUFFICES ASSUME TypeInv, Merge PROVE TypeInv'
  OBVIOUS
<1> USE NameAssumption DEF TypeInv, TypeOK, CommandKnown, CandidateReady, Phases, SwapPhases,
        Swaps, Begin, Step, Stop, db, elsewhere, files, merging, command
<1>1. ASSUME NEW m \in Ops, ReadOurs(m) PROVE TypeInv'
  BY <1>1, VisibleImage DEF ReadOurs
<1>2. ASSUME NEW m \in Ops, BeginMerge(m) PROVE TypeInv'
  BY <1>2 DEF BeginMerge
<1>3. ASSUME NEW m \in Ops, MergeRefused(m) PROVE TypeInv'
  BY <1>3 DEF MergeRefused
<1>4. CASE BuildCandidate
  <2> op \in Ops /\ ours[op] \in Images
    BY <1>4 DEF BuildCandidate
  <2> (ours[op] \ Unpacked) \cup Theirs \in Images
    BY DEF Images, Contents
  <2> QED BY <1>4 DEF BuildCandidate
<1>5. CASE StageSession
  BY <1>5 DEF StageSession
<1>6. CASE OpenSession
  BY <1>6 DEF OpenSession
<1>7. CASE FinishCandidate
  <2> op \in Ops /\ candidate[op] \in Images
    BY <1>7 DEF FinishCandidate
  <2> candidate[op] \cup {op} \in Images
    BY DEF Images, Contents
  <2> QED BY <1>7 DEF FinishCandidate
<1>8. CASE MergeFails
  BY <1>8 DEF MergeFails
<1> QED BY <1>1, <1>2, <1>3, <1>4, <1>5, <1>6, <1>7, <1>8 DEF Merge

LEMMA ApplyTyped == TypeInv /\ Apply => TypeInv'
<1> SUFFICES ASSUME TypeInv, Apply PROVE TypeInv'
  OBVIOUS
<1> USE NameAssumption DEF TypeInv, TypeOK, CommandKnown, CandidateReady, Phases, SwapPhases,
        Swaps, Begin, Step, Stop, db, elsewhere, files, merging, command
<1>1. ASSUME NEW m \in Ops, BeginApply(m) PROVE TypeInv'
  BY <1>1 DEF BeginApply
<1>2. ASSUME NEW m \in Ops, BeginAbort(m) PROVE TypeInv'
  BY <1>2 DEF BeginAbort
<1>3. CASE CopyStaged
  <2> op \in Ops /\ staged[op] \in Images
    BY <1>3 DEF CopyStaged
  <2> staged[op] \cup {op} \in Images
    BY DEF Images, Contents
  <2> QED BY <1>3 DEF CopyStaged
<1>4. CASE ApplyFails
  BY <1>4 DEF ApplyFails
<1>5. CASE MarkApplied
  BY <1>5 DEF MarkApplied
<1>6. CASE RemoveSession
  BY <1>6 DEF RemoveSession
<1> QED BY <1>1, <1>2, <1>3, <1>4, <1>5, <1>6 DEF Apply

LEMMA ReplaceTyped == TypeInv /\ Replace => TypeInv'
<1> SUFFICES ASSUME TypeInv, Replace PROVE TypeInv'
  OBVIOUS
<1> USE NameAssumption DEF TypeInv, TypeOK, CommandKnown, CandidateReady, Phases, SwapPhases,
        Swaps, Begin, Step, Stop, db, elsewhere, files, merging, command
<1>1. ASSUME NEW o \in Ops, BeginPull(o) PROVE TypeInv'
  BY <1>1 DEF BeginPull
<1>2. ASSUME NEW o \in Ops, NEW b \in backups, BeginRestore(o, b) PROVE TypeInv'
  BY <1>2 DEF BeginRestore
<1>3. CASE Backup
  <2> {} \in Images
    BY DEF Images
  <2> QED BY <1>3, VisibleImage DEF Backup
<1>4. CASE BackupNothing
  BY <1>4 DEF BackupNothing
<1>5. CASE WriteJournal
  BY <1>5 DEF WriteJournal
<1>6. CASE CopyBackup
  BY <1>6 DEF CopyBackup
<1>7. CASE CopyRemote
  BY <1>7 DEF CopyRemote
<1>8. CASE Link
  BY <1>8 DEF Link
<1>9. CASE Rename
  BY <1>9 DEF Rename
<1>10. CASE Unlink
  <2> {} \in Images
    BY DEF Images
  <2> QED BY <1>10 DEF Unlink
<1>11. CASE CompleteJournal
  BY <1>11 DEF CompleteJournal
<1>12. CASE RetireJournal
  BY <1>12 DEF RetireJournal
<1>13. CASE SwapFails
  BY <1>13 DEF SwapFails
<1>14. CASE RestoreFails
  BY <1>14 DEF RestoreFails
<1>15. CASE PullFails
  BY <1>15 DEF PullFails
<1> QED BY <1>1, <1>2, <1>3, <1>4, <1>5, <1>6, <1>7, <1>8, <1>9, <1>10, <1>11, <1>12,
           <1>13, <1>14, <1>15 DEF Replace

LEMMA TypeStep == TypeInv /\ [Next]_vars => TypeInv'
<1> SUFFICES ASSUME TypeInv, [Next]_vars PROVE TypeInv'
  OBVIOUS
<1>1. CASE Crash
  BY <1>1, NameAssumption
     DEF Crash, Stop, TypeInv, TypeOK, CommandKnown, CandidateReady, Phases, SwapPhases, Swaps,
         db, elsewhere, merging
<1>2. CASE UNCHANGED vars
  BY <1>2 DEF vars, TypeInv, TypeOK, CommandKnown, CandidateReady, db, elsewhere, files,
       merging, command
<1> QED BY <1>1, <1>2, OrdinaryTyped, MergeTyped, ApplyTyped, ReplaceTyped DEF Next

LEMMA TypeInvariant == Spec => []TypeInv
BY TypeInit, TypeStep, PTL DEF Spec

\* The database, the files beside it and the sessions keep their types, and
\* the database is never missing while a second name of it exists.
THEOREM TypeCorrect == Spec => []TypeOK
BY TypeInvariant, PTL DEF TypeInv

----------------------------------------------------------------------------
(***************************************************************************)
(* The swap.                                                               *)
(***************************************************************************)
\* Between the backup and the rename.
Replacing == phase \in {"journal", "link", "rename"} \/ (phase = "copy" /\ cmd # "apply")

\* The original is among the backups with nothing left in its log, and a
\* journal stands for the command that is about to rename over it.
SwapInv ==
    /\ live = NoFile => wal = {}
    /\ Replacing \/ phase \in {"unlink", "complete", "retire"} => wal = {}
    /\ Replacing /\ live # NoFile => live \in backups
    /\ Replacing /\ phase # "journal" => journal[op] = "prepared"

LEMMA SwapInit == Init => SwapInv
BY DEF Init, SwapInv, Replacing

LEMMA OrdinarySwaps == TypeInv /\ SwapInv /\ Ordinary => SwapInv'
<1> SUFFICES ASSUME TypeInv, SwapInv, Ordinary PROVE SwapInv'
  OBVIOUS
<1> USE NameAssumption DEF TypeInv, TypeOK, SwapInv, Replacing, Begin, Step, Stop, db, elsewhere,
        files, merging, command
<1>1. CASE BeginWrite
  BY <1>1 DEF BeginWrite
<1>2. ASSUME NEW o \in Ops, RecoverDatabase(o) PROVE SwapInv'
  BY <1>2 DEF RecoverDatabase, Whole
<1>3. ASSUME NEW o \in Ops, RecoveryFails(o) PROVE SwapInv'
  BY <1>3 DEF RecoveryFails
<1>4. ASSUME NEW o \in Ops, RecoverFiles(o) \/ RecoverJournal(o) PROVE SwapInv'
  BY <1>4 DEF RecoverFiles, RecoverJournal
<1>5. CASE OpenDatabase
  BY <1>5 DEF OpenDatabase
<1>6. ASSUME NEW w \in Writes, Commit(w) PROVE SwapInv'
  <2> live # NoFile
    BY <1>6 DEF Commit, Visible
  <2> live' # NoFile
    BY <1>6, ImageUnion, VisibleImage DEF Commit, Contents
  <2> QED BY <1>6 DEF Commit
<1>7. CASE BackupProject
  BY <1>7 DEF BackupProject
<1>8. CASE Push
  BY <1>8 DEF Push
<1> QED BY <1>1, <1>2, <1>3, <1>4, <1>5, <1>6, <1>7, <1>8 DEF Ordinary

LEMMA MergeSwaps == TypeInv /\ SwapInv /\ Merge => SwapInv'
BY DEF TypeInv, TypeOK, SwapInv, Replacing, Begin, Step, Stop, db, elsewhere, files, merging,
       command, Merge, ReadOurs, BeginMerge, MergeRefused, BuildCandidate, StageSession,
       OpenSession, FinishCandidate, MergeFails

LEMMA ApplySwaps == TypeInv /\ SwapInv /\ Apply => SwapInv'
BY DEF TypeInv, TypeOK, SwapInv, Replacing, Begin, Step, Stop, db, elsewhere, files, merging,
       command, Apply, BeginApply, BeginAbort, CopyStaged, ApplyFails, MarkApplied, RemoveSession

LEMMA ReplaceSwaps == TypeInv /\ SwapInv /\ Replace => SwapInv'
<1> SUFFICES ASSUME TypeInv, SwapInv, Replace PROVE SwapInv'
  OBVIOUS
<1> USE NameAssumption DEF TypeInv, TypeOK, CommandKnown, CandidateReady, SwapPhases, Swaps,
        SwapInv, Replacing, Begin, Step, Stop, db, elsewhere, files, merging, command
<1>1. ASSUME NEW o \in Ops, BeginPull(o) \/ (\E b \in backups : BeginRestore(o, b)) PROVE SwapInv'
  BY <1>1 DEF BeginPull, BeginRestore
<1>2. CASE Backup \/ BackupNothing
  BY <1>2 DEF Backup, BackupNothing, Usable, Visible
<1>3. CASE WriteJournal
  BY <1>3 DEF WriteJournal
<1>4. CASE CopyBackup \/ CopyRemote
  BY <1>4 DEF CopyBackup, CopyRemote
<1>5. CASE Link
  BY <1>5 DEF Link
<1>6. CASE Rename
  BY <1>6 DEF Rename
<1>7. CASE Unlink
  BY <1>7 DEF Unlink
<1>8. CASE CompleteJournal \/ RetireJournal
  BY <1>8 DEF CompleteJournal, RetireJournal
<1>9. CASE SwapFails \/ RestoreFails \/ PullFails
  BY <1>9 DEF SwapFails, RestoreFails, PullFails
<1> QED BY <1>1, <1>2, <1>3, <1>4, <1>5, <1>6, <1>7, <1>8, <1>9 DEF Replace

LEMMA SwapStep == TypeInv /\ SwapInv /\ [Next]_vars => SwapInv'
<1> SUFFICES ASSUME TypeInv, SwapInv, [Next]_vars PROVE SwapInv'
  OBVIOUS
<1>1. CASE Crash
  BY <1>1 DEF Crash, Stop, SwapInv, Replacing, db, elsewhere
<1>2. CASE UNCHANGED vars
  BY <1>2 DEF vars, SwapInv, Replacing, db, elsewhere, files, command
<1> QED BY <1>1, <1>2, OrdinarySwaps, MergeSwaps, ApplySwaps, ReplaceSwaps DEF Next

LEMMA SwapInvariant == Spec => [](TypeInv /\ SwapInv)
BY TypeInit, TypeStep, SwapInit, SwapStep, PTL DEF Spec

\* What a step may do to the image a connection sees.
ImageStep ==
    \/ Visible' = Visible
    \/ \E w \in Writes : Visible' = Visible \cup {w}
    \/ \E o \in Ops :
          /\ journal[o] = "prepared" /\ Visible' = candidate[o]
          /\ live = NoFile \/ Visible \in backups

LEMMA ImagesReplaced == TypeInv /\ SwapInv /\ [Next]_vars => ImageStep
<1> SUFFICES ASSUME TypeInv, SwapInv, [Next]_vars PROVE ImageStep
  OBVIOUS
<1> USE NameAssumption DEF TypeInv, TypeOK, SwapInv, Step, Stop, db, elsewhere, files, merging,
        command
<1>1. CASE UNCHANGED db
  BY <1>1 DEF ImageStep, Visible
<1>2. ASSUME NEW o \in Ops, RecoverDatabase(o) PROVE ImageStep
  BY <1>2 DEF RecoverDatabase, Whole, ImageStep, Visible
<1>3. CASE OpenDatabase
  BY <1>3 DEF OpenDatabase, ImageStep, Visible
<1>4. ASSUME NEW w \in Writes, Commit(w) PROVE ImageStep
  <2>1. live # NoFile
    BY <1>4 DEF Commit, Visible
  <2>2. Visible \cup {w} # NoFile
    BY ImageUnion, VisibleImage DEF Contents
  <2>3. Visible' = Visible \cup {w}
    BY <1>4, <2>1, <2>2 DEF Commit, Visible
  <2> QED BY <2>3 DEF ImageStep
<1>5. CASE Push \/ Backup
  <2>1. Visible # NoFile
    BY VisibleImage
  <2> QED BY <1>5, <2>1 DEF Push, Backup, ImageStep, Usable, Visible
<1>6. CASE Rename
  <2>1. op \in Ops
    BY <1>6 DEF Rename, CommandKnown, SwapPhases
  <2>2. candidate[op] \in Images /\ journal[op] = "prepared" /\ wal = {}
    BY <1>6 DEF Rename, CandidateReady, Replacing
  <2>3. Visible' = candidate[op]
    BY <1>6, <2>2 DEF Rename, Visible
  <2>4. live = NoFile \/ Visible \in backups
    BY <1>6, <2>2 DEF Rename, Visible, Replacing
  <2> QED BY <2>1, <2>2, <2>3, <2>4 DEF ImageStep
<1>7. CASE Unlink
  BY <1>7 DEF Unlink, ImageStep, Visible
<1>8. CASE Ordinary
  BY <1>1, <1>2, <1>3, <1>4, <1>5, <1>8
     DEF Ordinary, BeginWrite, RecoveryFails, RecoverFiles, RecoverJournal, BackupProject
<1>9. CASE Merge \/ Apply
  BY <1>1, <1>9
     DEF Merge, ReadOurs, BeginMerge, MergeRefused, BuildCandidate, StageSession, OpenSession,
         FinishCandidate, MergeFails, Apply, BeginApply, BeginAbort, CopyStaged, ApplyFails,
         MarkApplied, RemoveSession
<1>10. CASE Replace
  BY <1>1, <1>5, <1>6, <1>7, <1>10
     DEF Replace, BeginPull, BeginRestore, BackupNothing, WriteJournal, CopyBackup, CopyRemote,
         Link, CompleteJournal, RetireJournal, SwapFails, RestoreFails, PullFails
<1>11. CASE Crash \/ UNCHANGED vars
  BY <1>1, <1>11 DEF Crash, vars
<1> QED BY <1>8, <1>9, <1>10, <1>11 DEF Next

\* A connection sees one image or the next, by one transaction or by a whole
\* candidate, across every crash and recovery.
THEOREM WholeReplacementTheorem == Spec => WholeReplacement
<1>1. TypeInv /\ SwapInv /\ [Next]_vars => [ReplacesWhole]_vars
  BY ImagesReplaced DEF ImageStep, ReplacesWhole
<1> QED BY <1>1, SwapInvariant, PTL DEF Spec, WholeReplacement

\* No image a replacement takes away is lost: it is among the backups.
THEOREM LossIsBackedUpTheorem == Spec => LossIsBackedUp
<1>1. ASSUME TypeInv, SwapInv, [Next]_vars PROVE LossSaved
  <2>1. live = NoFile => Visible = {}
    BY DEF Visible
  <2> QED BY <1>1, <2>1, ImagesReplaced DEF ImageStep, LossSaved
<1>2. TypeInv /\ SwapInv /\ [Next]_vars => [LossSaved]_vars
  BY <1>1
<1> QED BY <1>2, SwapInvariant, PTL DEF Spec, LossIsBackedUp

----------------------------------------------------------------------------
(***************************************************************************)
(* The database as Database promises it.                                   *)
(***************************************************************************)
HoldsProject(f) == f \in Images => Project \in f

\* Every image there is, or is on its way, holds the project row.
WholeInv ==
    /\ \A b \in backups : Project \in b
    /\ Project \in remote
    /\ \A o \in Ops : HoldsProject(candidate[o]) /\ HoldsProject(staged[o]) /\ HoldsProject(ours[o])
    /\ HoldsProject(source)

LEMMA WholeInit == Init => WholeInv
BY NameAssumption DEF Init, WholeInv, HoldsProject

LEMMA UsableHolds == TypeOK /\ Usable => Visible \in Images /\ Project \in Visible
BY VisibleImage DEF Usable, Whole

LEMMA OrdinaryWhole == TypeInv /\ WholeInv /\ Ordinary => WholeInv'
<1> SUFFICES ASSUME TypeInv, WholeInv, Ordinary PROVE WholeInv'
  OBVIOUS
<1> USE NameAssumption DEF TypeInv, TypeOK, WholeInv, HoldsProject, Begin, Step, Stop, db,
        elsewhere, files, merging, command
<1>1. ASSUME NEW o \in Ops, RecoverDatabase(o) PROVE WholeInv'
  BY <1>1 DEF RecoverDatabase
<1>2. ASSUME NEW o \in Ops, RecoverFiles(o) PROVE WholeInv'
  BY <1>2 DEF RecoverFiles
<1>3. CASE Push
  BY <1>3, UsableHolds DEF Push
<1>4. CASE BackupProject
  BY <1>4 DEF BackupProject
<1> QED BY <1>1, <1>2, <1>3, <1>4
       DEF Ordinary, BeginWrite, RecoveryFails, RecoverJournal, OpenDatabase, Commit

LEMMA MergeWhole == TypeInv /\ WholeInv /\ Merge => WholeInv'
<1> SUFFICES ASSUME TypeInv, WholeInv, Merge PROVE WholeInv'
  OBVIOUS
<1> USE NameAssumption DEF TypeInv, TypeOK, WholeInv, HoldsProject, Begin, Step, Stop, db,
        elsewhere, files, merging, command
<1>1. ASSUME NEW m \in Ops, ReadOurs(m) PROVE WholeInv'
  BY <1>1, UsableHolds DEF ReadOurs
<1>2. CASE BuildCandidate
  <2>1. op \in Ops /\ ours[op] \in Images
    BY <1>2 DEF BuildCandidate, CommandKnown, CandidateReady, SwapPhases
  <2>2. Project \in (ours[op] \ Unpacked) \cup Theirs
    BY <2>1
  <2> QED BY <1>2, <2>1, <2>2 DEF BuildCandidate
<1>3. CASE StageSession
  BY <1>3 DEF StageSession, CommandKnown, SwapPhases
<1>4. CASE FinishCandidate
  <2>1. op \in Ops /\ candidate[op] \in Images
    BY <1>4 DEF FinishCandidate, CommandKnown, CandidateReady, SwapPhases
  <2>2. Project \in candidate[op] \cup {op}
    BY <2>1
  <2> QED BY <1>4, <2>1, <2>2 DEF FinishCandidate
<1>5. CASE MergeFails
  BY <1>5 DEF MergeFails
<1>6. ASSUME NEW m \in Ops, MergeRefused(m) PROVE WholeInv'
  BY <1>6 DEF MergeRefused
<1> QED BY <1>1, <1>2, <1>3, <1>4, <1>5, <1>6 DEF Merge, BeginMerge, OpenSession

LEMMA ApplyWhole == TypeInv /\ WholeInv /\ Apply => WholeInv'
<1> SUFFICES ASSUME TypeInv, WholeInv, Apply PROVE WholeInv'
  OBVIOUS
<1> USE NameAssumption DEF TypeInv, TypeOK, WholeInv, HoldsProject, Begin, Step, Stop, db,
        elsewhere, files, merging, command
<1>1. ASSUME NEW m \in Ops, BeginApply(m) PROVE WholeInv'
  BY <1>1 DEF BeginApply
<1>2. CASE CopyStaged
  <2>1. op \in Ops /\ staged[op] \in Images
    BY <1>2 DEF CopyStaged, CommandKnown
  <2>2. Project \in staged[op] \cup {op}
    BY <2>1
  <2> QED BY <1>2, <2>1, <2>2 DEF CopyStaged
<1>3. CASE ApplyFails
  BY <1>3 DEF ApplyFails
<1>4. CASE RemoveSession
  BY <1>4 DEF RemoveSession
<1> QED BY <1>1, <1>2, <1>3, <1>4 DEF Apply, BeginAbort, MarkApplied

LEMMA ReplaceWhole == TypeInv /\ WholeInv /\ Replace => WholeInv'
<1> SUFFICES ASSUME TypeInv, WholeInv, Replace PROVE WholeInv'
  OBVIOUS
<1> USE NameAssumption DEF TypeInv, TypeOK, WholeInv, HoldsProject, Begin, Step, Stop, db,
        elsewhere, files, merging, command
<1>1. ASSUME NEW o \in Ops, NEW b \in backups, BeginRestore(o, b) PROVE WholeInv'
  BY <1>1 DEF BeginRestore
<1>2. CASE Backup
  BY <1>2, UsableHolds DEF Backup
<1>3. CASE CopyBackup
  BY <1>3 DEF CopyBackup
<1>4. CASE CopyRemote
  BY <1>4 DEF CopyRemote
<1>5. CASE Rename
  BY <1>5 DEF Rename
<1>6. CASE SwapFails
  BY <1>6 DEF SwapFails
<1>7. CASE RestoreFails
  BY <1>7 DEF RestoreFails
<1>8. CASE PullFails
  BY <1>8 DEF PullFails
<1> QED BY <1>1, <1>2, <1>3, <1>4, <1>5, <1>6, <1>7, <1>8
       DEF Replace, BeginPull, BackupNothing, WriteJournal, Link, Unlink, CompleteJournal,
           RetireJournal

LEMMA WholeStep == TypeInv /\ WholeInv /\ [Next]_vars => WholeInv'
<1> SUFFICES ASSUME TypeInv, WholeInv, [Next]_vars PROVE WholeInv'
  OBVIOUS
<1>1. CASE Crash
  BY <1>1, NameAssumption
     DEF Crash, Stop, TypeInv, TypeOK, WholeInv, HoldsProject, db, elsewhere, merging
<1>2. CASE UNCHANGED vars
  BY <1>2 DEF vars, WholeInv, elsewhere, files, merging, command
<1> QED BY <1>1, <1>2, OrdinaryWhole, MergeWhole, ApplyWhole, ReplaceWhole DEF Next

\* The steps at which the image or the backups change.
ImageMoves ==
    \/ \E w \in Writes : Commit(w)
    \/ \E o \in Ops : RecoverDatabase(o)
    \/ BackupProject \/ Backup \/ Rename

LEMMA OtherStepsStay ==
    TypeInv /\ SwapInv /\ [Next]_vars /\ ~ImageMoves => Visible' = Visible /\ backups' = backups
<1> SUFFICES ASSUME TypeInv, SwapInv, [Next]_vars, ~ImageMoves
             PROVE  Visible' = Visible /\ backups' = backups
  OBVIOUS
<1> USE NameAssumption DEF TypeInv, TypeOK, SwapInv, ImageMoves, Step, Stop, db, elsewhere, files, merging,
        command
<1>1. CASE UNCHANGED db /\ backups' = backups
  BY <1>1 DEF Visible
<1>2. CASE OpenDatabase
  BY <1>2 DEF OpenDatabase, Visible
<1>3. CASE Push
  <2>1. Visible # NoFile
    BY VisibleImage
  <2> QED BY <1>3, <2>1 DEF Push, Usable, Visible
<1>4. CASE Unlink
  BY <1>4 DEF Unlink, Visible
<1>5. CASE Ordinary
  BY <1>1, <1>2, <1>3, <1>5 DEF Ordinary, BeginWrite, RecoveryFails, RecoverFiles, RecoverJournal
<1>6. CASE Merge \/ Apply
  BY <1>1, <1>6
     DEF Merge, ReadOurs, BeginMerge, MergeRefused, BuildCandidate, StageSession, OpenSession,
         FinishCandidate, MergeFails, Apply, BeginApply, BeginAbort, CopyStaged, ApplyFails,
         MarkApplied, RemoveSession
<1>7. CASE Replace
  BY <1>1, <1>4, <1>7
     DEF Replace, BeginPull, BeginRestore, BackupNothing, WriteJournal, CopyBackup, CopyRemote,
         Link, CompleteJournal, RetireJournal, SwapFails, RestoreFails, PullFails
<1>8. CASE Crash \/ UNCHANGED vars
  BY <1>1, <1>8 DEF Crash, vars
<1> QED BY <1>5, <1>6, <1>7, <1>8 DEF Next

LEMMA PromisedStep ==
    TypeInv /\ SwapInv /\ WholeInv /\ TypeInv' /\ WholeInv' /\ [Next]_vars
        => [Promised!Next]_(Promised!vars)
<1> SUFFICES ASSUME TypeInv, SwapInv, WholeInv, TypeInv', WholeInv', [Next]_vars
             PROVE  [Promised!Next]_(Promised!vars)
  OBVIOUS
<1> USE NameAssumption DEF TypeInv, db, elsewhere, files
<1>1. CASE ~ImageMoves
  <2>1. Visible' = Visible /\ backups' = backups
    BY <1>1, OtherStepsStay
  <2>2. Offered' \subseteq Promised!Valid
    BY DEF TypeOK, WholeInv, HoldsProject, Offered, Promised!Valid, Images
  <2> QED BY <2>1, <2>2 DEF Promised!Next, Promised!Offer
<1>2. ASSUME NEW w \in Writes, Commit(w) PROVE Promised!Commit(w)
  <2>1. Visible \in Promised!Valid
    BY <1>2, VisibleImage DEF Commit, Promised!Valid, Images
  <2>2. live # NoFile
    BY <1>2 DEF Commit, Visible
  <2>3. Visible \cup {w} # NoFile
    BY ImageUnion, VisibleImage DEF Contents
  <2>4. Visible' = Visible \cup {w}
    BY <1>2, <2>2, <2>3 DEF Commit, Visible
  <2>5. Offered' = Offered
    BY <1>2 DEF Commit, Offered
  <2> QED BY <1>2, <2>1, <2>4, <2>5 DEF Commit, Promised!Commit
<1>3. CASE BackupProject \/ Backup
  <2>1. Visible \in Promised!Valid
    BY <1>3, VisibleImage, UsableHolds DEF BackupProject, Backup, Promised!Valid, Images
  <2>2. Visible' = Visible
    <3>1. Visible # NoFile
      BY VisibleImage DEF TypeOK
    <3> QED BY <1>3, <3>1 DEF BackupProject, Backup, Usable, Visible
  <2>3. Offered' = Offered
    BY <1>3 DEF BackupProject, Backup, Offered
  <2> QED BY <1>3, <2>1, <2>2, <2>3 DEF BackupProject, Backup, Promised!Next, Promised!Keep
<1>4. ASSUME NEW o \in Ops, RecoverDatabase(o) PROVE Promised!Replace
  <2>1. candidate[o] \notin {NoFile, Torn} /\ journal[o] = "prepared"
    BY <1>4 DEF RecoverDatabase, Whole
  <2>2. Visible = {} /\ wal = {}
    BY <1>4 DEF RecoverDatabase, Visible, SwapInv
  <2>3. Visible' = candidate[o] /\ Visible' \in Offered
    BY <1>4, <2>1, <2>2 DEF RecoverDatabase, Visible, Offered
  <2>4. Offered' \subseteq Offered
    BY <1>4 DEF RecoverDatabase, Offered, TypeOK
  <2> QED BY <1>4, <2>2, <2>3, <2>4 DEF RecoverDatabase, Promised!Replace
<1>5. CASE Rename
  <2>1. op \in Ops
    BY <1>5 DEF Rename, CommandKnown, SwapPhases
  <2>2. candidate[op] \in Images /\ journal[op] = "prepared" /\ wal = {}
    BY <1>5 DEF Rename, CandidateReady, SwapInv, Replacing
  <2>3. Visible' = candidate[op] /\ Visible' \in Offered
    BY <1>5, <2>1, <2>2 DEF Rename, Visible, Offered
  <2>4. Visible \subseteq Visible' \/ Visible \in backups
    BY <1>5, <2>2 DEF Rename, Visible, SwapInv, Replacing
  <2>5. Offered' \subseteq Offered
    BY <1>5, <2>1 DEF Rename, Offered, TypeOK
  <2> QED BY <1>5, <2>3, <2>4, <2>5 DEF Rename, Promised!Next, Promised!Replace
<1> QED BY <1>1, <1>2, <1>3, <1>4, <1>5 DEF ImageMoves, Promised!Next

LEMMA PromisedInit == Init => Promised!Init
<1> SUFFICES ASSUME Init PROVE Promised!Init
  OBVIOUS
<1>1. {Project} \in Promised!Valid
  BY DEF Promised!Valid, Contents
<1>2. Visible \in {{}, {Project}}
  BY NameAssumption DEF Init, Visible, Images
<1>3. Offered = {}
  BY DEF Init, Offered
<1> QED BY <1>1, <1>2, <1>3 DEF Init, Promised!Init

\* The files of a project, with every crash, failure and recovery, implement the
\* one database that Database promises.
THEOREM ImplementsDatabaseTheorem == Spec => ImplementsDatabase
<1>1. Init => TypeInv /\ SwapInv /\ WholeInv
  BY TypeInit, SwapInit, WholeInit
<1>2. TypeInv /\ SwapInv /\ WholeInv /\ [Next]_vars => (TypeInv /\ SwapInv /\ WholeInv)'
  BY TypeStep, SwapStep, WholeStep
<1>3. TypeInv /\ SwapInv /\ WholeInv /\ [Next]_vars => [Promised!Next]_(Promised!vars)
  BY <1>2, PromisedStep
<1> QED BY <1>1, <1>2, <1>3, PromisedInit, PTL DEF Spec, ImplementsDatabase, Promised!Spec

----------------------------------------------------------------------------
(***************************************************************************)
(* What each id was drawn for, and the journals of restore and pull.       *)
(***************************************************************************)
KindInv ==
    /\ \A o \in Ops : kind[o] = "none" => ~HasFiles(o) /\ ours[o] = NoFile
    /\ \A o \in Ops : session[o] # "none" => kind[o] = "merge" /\ ours[o] = NoFile
    /\ \A o \in Ops : ours[o] # NoFile => kind[o] = "merge"
    /\ cmd \in {"merge", "apply", "abort"} => kind[op] = "merge"
    /\ cmd \in {"restore", "pull"} => kind[op] = cmd
    /\ cmd \in {"apply", "abort"} => ours[op] = NoFile
    /\ cmd = "merge" /\ phase # "build" => ours[op] = NoFile

\* A restore that completes its journal, and a pull that retires its own, have
\* no files left for it to name.
FilesGone ==
    /\ cmd \in {"restore", "pull"} /\ phase = "unlink"
          => candidate[op] = NoFile /\ journal[op] # "none"
    /\ cmd = "pull" /\ phase = "complete" => candidate[op] = NoFile
    /\ cmd = "restore" /\ phase \in {"complete", "retire"} => ~HasFiles(op)
    /\ cmd = "pull" /\ phase = "retire" => ~HasFiles(op)

JournalInv == KindInv /\ FilesGone /\ LeftoversJournalled

LEMMA JournalInit == Init => JournalInv
BY DEF Init, JournalInv, KindInv, FilesGone, LeftoversJournalled, HasFiles, NamesFiles

LEMMA OrdinaryJournals == TypeInv /\ JournalInv /\ Ordinary => JournalInv'
<1> SUFFICES ASSUME TypeInv, JournalInv, Ordinary PROVE JournalInv'
  OBVIOUS
<1> USE NameAssumption DEF TypeInv, TypeOK, CommandKnown, JournalInv, KindInv, FilesGone,
        LeftoversJournalled, HasFiles, NamesFiles, Begin, Step, Stop, db, elsewhere, files,
        merging, command
<1>1. CASE BeginWrite
  BY <1>1 DEF BeginWrite
<1>2. ASSUME NEW o \in Ops, RecoverDatabase(o) PROVE JournalInv'
  BY <1>2 DEF RecoverDatabase
<1>3. ASSUME NEW o \in Ops, RecoveryFails(o) PROVE JournalInv'
  BY <1>3 DEF RecoveryFails
<1>4. ASSUME NEW o \in Ops, RecoverFiles(o) PROVE JournalInv'
  BY <1>4 DEF RecoverFiles
<1>5. ASSUME NEW o \in Ops, RecoverJournal(o) PROVE JournalInv'
  BY <1>5 DEF RecoverJournal
<1>6. CASE OpenDatabase
  BY <1>6 DEF OpenDatabase
<1>7. ASSUME NEW w \in Writes, Commit(w) PROVE JournalInv'
  BY <1>7 DEF Commit
<1>8. CASE BackupProject \/ Push
  BY <1>8 DEF BackupProject, Push
<1> QED BY <1>1, <1>2, <1>3, <1>4, <1>5, <1>6, <1>7, <1>8 DEF Ordinary

LEMMA MergeJournals == TypeInv /\ JournalInv /\ Merge => JournalInv'
<1> SUFFICES ASSUME TypeInv, JournalInv, Merge PROVE JournalInv'
  OBVIOUS
<1> USE NameAssumption DEF TypeInv, TypeOK, CommandKnown, SwapPhases, JournalInv, KindInv,
        FilesGone, LeftoversJournalled, HasFiles, NamesFiles, Begin, Step, Stop, db, elsewhere,
        files, merging, command
<1>1. ASSUME NEW m \in Ops, ReadOurs(m) PROVE JournalInv'
  BY <1>1 DEF ReadOurs
<1>2. ASSUME NEW m \in Ops, BeginMerge(m) \/ MergeRefused(m) PROVE JournalInv'
  BY <1>2 DEF BeginMerge, MergeRefused
<1>3. CASE BuildCandidate
  BY <1>3 DEF BuildCandidate
<1>4. CASE StageSession \/ OpenSession
  BY <1>4 DEF StageSession, OpenSession
<1>5. CASE FinishCandidate
  BY <1>5 DEF FinishCandidate
<1>6. CASE MergeFails
  BY <1>6 DEF MergeFails
<1> QED BY <1>1, <1>2, <1>3, <1>4, <1>5, <1>6 DEF Merge

LEMMA ApplyJournals == TypeInv /\ JournalInv /\ Apply => JournalInv'
<1> SUFFICES ASSUME TypeInv, JournalInv, Apply PROVE JournalInv'
  OBVIOUS
<1> USE NameAssumption DEF TypeInv, TypeOK, CommandKnown, SwapPhases, JournalInv, KindInv,
        FilesGone, LeftoversJournalled, HasFiles, NamesFiles, Begin, Step, Stop, db, elsewhere,
        files, merging, command
<1>1. ASSUME NEW m \in Ops, BeginApply(m) \/ BeginAbort(m) PROVE JournalInv'
  BY <1>1 DEF BeginApply, BeginAbort, Actionable
<1>2. CASE CopyStaged \/ ApplyFails
  BY <1>2 DEF CopyStaged, ApplyFails
<1>3. CASE MarkApplied \/ RemoveSession
  BY <1>3 DEF MarkApplied, RemoveSession
<1> QED BY <1>1, <1>2, <1>3 DEF Apply

LEMMA ReplaceJournals == TypeInv /\ SwapInv /\ JournalInv /\ Replace => JournalInv'
<1> SUFFICES ASSUME TypeInv, SwapInv, JournalInv, Replace PROVE JournalInv'
  OBVIOUS
<1> USE NameAssumption DEF TypeInv, TypeOK, CommandKnown, SwapPhases, Swaps, JournalInv, KindInv,
        FilesGone, LeftoversJournalled, HasFiles, NamesFiles, Begin, Step, Stop, db, elsewhere,
        files, merging, command
<1>1. ASSUME NEW o \in Ops, BeginPull(o) \/ (\E b \in backups : BeginRestore(o, b))
      PROVE  JournalInv'
  BY <1>1 DEF BeginPull, BeginRestore
<1>2. CASE Backup \/ BackupNothing
  BY <1>2 DEF Backup, BackupNothing
<1>3. CASE WriteJournal
  BY <1>3 DEF WriteJournal
<1>4. CASE CopyBackup \/ CopyRemote
  BY <1>4 DEF CopyBackup, CopyRemote, SwapInv, Replacing
<1>5. CASE Link
  BY <1>5 DEF Link, SwapInv, Replacing
<1>6. CASE Rename
  BY <1>6 DEF Rename, SwapInv, Replacing
<1>7. CASE Unlink
  BY <1>7 DEF Unlink
<1>8. CASE CompleteJournal
  BY <1>8 DEF CompleteJournal
<1>9. CASE RetireJournal
  BY <1>9 DEF RetireJournal
<1>10. CASE SwapFails
  BY <1>10 DEF SwapFails
<1>11. CASE RestoreFails \/ PullFails
  BY <1>11 DEF RestoreFails, PullFails, SwapInv, Replacing
<1> QED BY <1>1, <1>2, <1>3, <1>4, <1>5, <1>6, <1>7, <1>8, <1>9, <1>10, <1>11 DEF Replace

LEMMA JournalStep == TypeInv /\ SwapInv /\ JournalInv /\ [Next]_vars => JournalInv'
<1> SUFFICES ASSUME TypeInv, SwapInv, JournalInv, [Next]_vars PROVE JournalInv'
  OBVIOUS
<1> USE DEF JournalInv, KindInv, FilesGone, LeftoversJournalled, HasFiles, NamesFiles
<1>1. CASE Crash
  BY <1>1 DEF Crash, Stop, TypeInv, TypeOK, CommandKnown, SwapPhases, SwapInv, Replacing, db,
     elsewhere, merging
<1>2. CASE UNCHANGED vars
  BY <1>2 DEF vars, files, merging, command
<1> QED BY <1>1, <1>2, OrdinaryJournals, MergeJournals, ApplyJournals, ReplaceJournals DEF Next

LEMMA JournalInvariant == Spec => [](TypeInv /\ SwapInv /\ JournalInv)
BY TypeInit, TypeStep, SwapInit, SwapStep, JournalInit, JournalStep, PTL DEF Spec

\* Whatever a restore or a pull leaves behind, recovery finds a journal that
\* names it.
THEOREM LeftoversJournalledTheorem == Spec => []LeftoversJournalled
BY JournalInvariant, PTL DEF JournalInv

----------------------------------------------------------------------------
(***************************************************************************)
(* Sessions.                                                               *)
(***************************************************************************)
\* A merge stages only where it saw no session, and a session that is applied
\* or aborted stays the active one until it is marked.
SessionInv ==
    /\ OneActiveMerge
    /\ cmd = "merge" /\ phase \in {"build", "stage", "open"} => ~SessionActive
    /\ cmd = "abort" => session[op] \in Actionable
    /\ cmd = "apply" =>
          session[op] \in Actionable \/ (phase = "sweep" /\ session[op] = "applied")

LEMMA SessionStep == TypeInv /\ SessionInv /\ [Next]_vars => SessionInv'
<1> SUFFICES ASSUME TypeInv, SessionInv, [Next]_vars PROVE SessionInv'
  OBVIOUS
<1> USE DEF TypeInv, TypeOK, CommandKnown, SwapPhases, SessionInv, OneActiveMerge, SessionActive,
        Actionable, Begin, Step, Stop, files, merging, command
<1>1. CASE Ordinary
  BY <1>1 DEF Ordinary, BeginWrite, RecoverDatabase, RecoveryFails, RecoverFiles, RecoverJournal,
     OpenDatabase, Commit, BackupProject, Push
<1>2. CASE Merge
  <2>1. ASSUME NEW m \in Ops, ReadOurs(m) \/ BeginMerge(m) \/ MergeRefused(m) PROVE SessionInv'
    BY <2>1 DEF ReadOurs, BeginMerge, MergeRefused
  <2>2. CASE BuildCandidate \/ StageSession \/ FinishCandidate
    BY <2>2 DEF BuildCandidate, StageSession, FinishCandidate
  <2>3. CASE OpenSession \/ MergeFails
    BY <2>3 DEF OpenSession, MergeFails
  <2> QED BY <1>2, <2>1, <2>2, <2>3 DEF Merge
<1>3. CASE Apply
  BY <1>3 DEF Apply, BeginApply, BeginAbort, CopyStaged, ApplyFails, MarkApplied, RemoveSession
<1>4. CASE Replace
  <2>1. ASSUME NEW o \in Ops, BeginPull(o) \/ (\E b \in backups : BeginRestore(o, b))
        PROVE  SessionInv'
    BY <2>1 DEF BeginPull, BeginRestore
  <2>2. CASE Backup \/ BackupNothing \/ WriteJournal \/ CopyBackup \/ CopyRemote \/ Link
    BY <2>2 DEF Backup, BackupNothing, WriteJournal, CopyBackup, CopyRemote, Link, Swaps
  <2>3. CASE Rename \/ Unlink \/ CompleteJournal \/ RetireJournal
    BY <2>3 DEF Rename, Unlink, CompleteJournal, RetireJournal
  <2>4. CASE SwapFails \/ RestoreFails \/ PullFails
    BY <2>4 DEF SwapFails, RestoreFails, PullFails
  <2> QED BY <1>4, <2>1, <2>2, <2>3, <2>4 DEF Replace
<1>5. CASE Crash
  BY <1>5 DEF Crash
<1>6. CASE UNCHANGED vars
  BY <1>6 DEF vars
<1> QED BY <1>1, <1>2, <1>3, <1>4, <1>5, <1>6 DEF Next

LEMMA SessionInvariant == Spec => []SessionInv
<1>1. Init => SessionInv
  BY DEF Init, SessionInv, OneActiveMerge, SessionActive, Actionable
<1> QED BY <1>1, TypeInvariant, SessionStep, PTL DEF Spec

\* Merges may read at the same time and then queue for the lock: one is staged.
THEOREM OneActiveMergeTheorem == Spec => []OneActiveMerge
BY SessionInvariant, PTL DEF SessionInv

----------------------------------------------------------------------------
(***************************************************************************)
(* The event a merge leaves in the database it becomes.                    *)
(***************************************************************************)
NotIn(m, f) == f \in Images => m \notin f

\* No file holds the event of merge m.
Unmarked(m) ==
    /\ NotIn(m, live) /\ m \notin wal /\ m \notin remote
    /\ \A b \in backups : m \notin b
    /\ \A o \in Ops : NotIn(m, candidate[o]) /\ NotIn(m, staged[o]) /\ NotIn(m, ours[o])
    /\ NotIn(m, source)

\* An id is unmarked until the merge that has it finishes its candidate, and
\* from then to the rename the database does not hold it.
MarkInv ==
    /\ \A m \in Ops : kind[m] = "none" \/ ours[m] # NoFile => Unmarked(m)
    /\ \A m \in Ops : ours[m] # NoFile => Project \in ours[m]
    /\ phase \in {"stage", "finish"} => op \notin candidate[op] /\ Project \in candidate[op]
    /\ phase = "open" => Whole(staged[op]) /\ op \notin staged[op]
    /\ cmd \in Swaps /\ phase \in {"stage", "finish", "copy", "backup", "journal", "link", "rename"}
          => op \notin Visible

LEMMA MarkInit == Init => MarkInv
BY NameAssumption
   DEF Init, MarkInv, Unmarked, NotIn, Swaps, Images, Contents

LEMMA UnmarkedUnseen == \A m \in Ops : Unmarked(m) /\ TypeOK => m \notin Visible
BY NameAssumption DEF Unmarked, NotIn, TypeOK, Visible

LEMMA OrdinaryMarks == TypeInv /\ KindInv /\ MarkInv /\ Ordinary => MarkInv'
<1> SUFFICES ASSUME TypeInv, KindInv, MarkInv, Ordinary PROVE MarkInv'
  OBVIOUS
<1> USE NameAssumption DEF TypeInv, TypeOK, MarkInv, Unmarked, NotIn, Begin, Step, Stop, db,
        elsewhere, files, merging, command
<1>1. CASE BeginWrite
  BY <1>1 DEF BeginWrite, Swaps
<1>2. ASSUME NEW o \in Ops, RecoverDatabase(o) PROVE MarkInv'
  BY <1>2 DEF RecoverDatabase, Whole
<1>3. ASSUME NEW o \in Ops, RecoveryFails(o) PROVE MarkInv'
  BY <1>3 DEF RecoveryFails, Swaps
<1>4. ASSUME NEW o \in Ops, RecoverFiles(o) PROVE MarkInv'
  BY <1>4 DEF RecoverFiles, Visible
<1>5. ASSUME NEW o \in Ops, RecoverJournal(o) PROVE MarkInv'
  BY <1>5 DEF RecoverJournal, Visible
<1>6. CASE OpenDatabase
  BY <1>6 DEF OpenDatabase
<1>7. ASSUME NEW w \in Writes, Commit(w) PROVE MarkInv'
  BY <1>7, UnmarkedUnseen DEF Commit, Swaps
<1>8. CASE BackupProject
  BY <1>8, UnmarkedUnseen DEF BackupProject, Swaps
<1>9. CASE Push
  BY <1>9, UnmarkedUnseen DEF Push, Swaps, CommandKnown
<1> QED BY <1>1, <1>2, <1>3, <1>4, <1>5, <1>6, <1>7, <1>8, <1>9 DEF Ordinary

LEMMA MergeMarks == TypeInv /\ KindInv /\ MarkInv /\ Merge => MarkInv'
<1> SUFFICES ASSUME TypeInv, KindInv, MarkInv, Merge PROVE MarkInv'
  OBVIOUS
<1> USE NameAssumption DEF TypeInv, TypeOK, CommandKnown, CandidateReady, SwapPhases, Swaps,
        KindInv, MarkInv, Begin, Step, Stop, db, elsewhere, files, merging, command
<1>1. ASSUME NEW m \in Ops, ReadOurs(m) PROVE MarkInv'
  <2>1. \A n \in Ops : Unmarked(n) => Unmarked(n)'
    BY <1>1, UnmarkedUnseen DEF ReadOurs, Unmarked, NotIn
  <2>2. Project \in Visible
    BY <1>1 DEF ReadOurs, Usable, Whole
  <2> QED BY <1>1, <2>1, <2>2 DEF ReadOurs, Visible
<1>2. ASSUME NEW m \in Ops, BeginMerge(m) PROVE MarkInv'
  <2>1. \A n \in Ops : Unmarked(n) => Unmarked(n)'
    BY <1>2 DEF BeginMerge, Unmarked, NotIn
  <2> QED BY <1>2, <2>1 DEF BeginMerge
<1>3. ASSUME NEW m \in Ops, MergeRefused(m) PROVE MarkInv'
  <2>1. \A n \in Ops : Unmarked(n) => Unmarked(n)'
    BY <1>3 DEF MergeRefused, Unmarked, NotIn
  <2> QED BY <1>3, <2>1 DEF MergeRefused, Visible
<1>4. CASE BuildCandidate
  <2> DEFINE image == (ours[op] \ Unpacked) \cup Theirs
  <2>1. op \in Ops /\ ours[op] \in Images /\ ours[op] # NoFile
    BY <1>4 DEF BuildCandidate
  <2>2. Unmarked(op) /\ op \notin Visible /\ op \notin image /\ Project \in image
    BY <2>1, UnmarkedUnseen DEF Unmarked, NotIn
  <2>3. candidate' = [candidate EXCEPT ![op] = image] /\ ours' = [ours EXCEPT ![op] = NoFile]
    BY <1>4 DEF BuildCandidate
  <2>4. \A n \in Ops : Unmarked(n) => n \notin image
    BY <2>1 DEF Unmarked, NotIn
  <2>5. \A n \in Ops : Unmarked(n) => Unmarked(n)'
    BY <1>4, <2>1, <2>3, <2>4 DEF BuildCandidate, Unmarked, NotIn
  <2> HIDE DEF image
  <2> QED BY <1>4, <2>1, <2>2, <2>3, <2>5 DEF BuildCandidate, Visible
<1>5. CASE StageSession
  <2>1. \A n \in Ops : Unmarked(n) => Unmarked(n)'
    BY <1>5 DEF StageSession, Unmarked, NotIn
  <2> QED BY <1>5, <2>1 DEF StageSession, Whole
<1>6. CASE OpenSession
  <2>1. \A n \in Ops : Unmarked(n) => Unmarked(n)'
    BY <1>6 DEF OpenSession, Unmarked, NotIn
  <2> QED BY <1>6, <2>1 DEF OpenSession
<1>7. CASE FinishCandidate
  <2>1. op \in Ops /\ candidate[op] \in Images /\ ours[op] = NoFile /\ kind[op] = "merge"
    BY <1>7 DEF FinishCandidate
  <2>2. candidate[op] \cup {op} \in Images
    <3>1. {op} \in SUBSET Contents
      BY <2>1 DEF Contents
    <3> HIDE DEF TypeInv, KindInv, MarkInv
    <3> QED BY <2>1, <3>1, ImageUnion
  <2>3. \A n \in Ops : n # op /\ Unmarked(n) => Unmarked(n)'
    BY <1>7, <2>1, <2>2 DEF FinishCandidate, Unmarked, NotIn
  <2> QED BY <1>7, <2>1, <2>3 DEF FinishCandidate, Visible
<1>8. CASE MergeFails
  <2>1. \A n \in Ops : Unmarked(n) => Unmarked(n)'
    BY <1>8 DEF MergeFails, Unmarked, NotIn
  <2> QED BY <1>8, <2>1 DEF MergeFails
<1> QED BY <1>1, <1>2, <1>3, <1>4, <1>5, <1>6, <1>7, <1>8 DEF Merge

LEMMA ApplyMarks == TypeInv /\ KindInv /\ MarkInv /\ Apply => MarkInv'
<1> SUFFICES ASSUME TypeInv, KindInv, MarkInv, Apply PROVE MarkInv'
  OBVIOUS
<1> USE NameAssumption DEF TypeInv, TypeOK, CommandKnown, CandidateReady, SwapPhases, Swaps,
        KindInv, MarkInv, Begin, Step, Stop, db, elsewhere, files, merging, command
<1>1. ASSUME NEW m \in Ops, BeginApply(m) PROVE MarkInv'
  <2>1. \A n \in Ops : Unmarked(n) => Unmarked(n)'
    BY <1>1 DEF BeginApply, Unmarked, NotIn
  <2> QED BY <1>1, <2>1 DEF BeginApply, Visible
<1>2. ASSUME NEW m \in Ops, BeginAbort(m) PROVE MarkInv'
  <2>1. \A n \in Ops : Unmarked(n) => Unmarked(n)'
    BY <1>2 DEF BeginAbort, Unmarked, NotIn
  <2> QED BY <1>2, <2>1 DEF BeginAbort
<1>3. CASE CopyStaged
  <2>1. op \in Ops /\ staged[op] \in Images /\ ours[op] = NoFile /\ kind[op] = "merge"
    BY <1>3 DEF CopyStaged
  <2>2. staged[op] \cup {op} \in Images
    BY <2>1, ImageUnion DEF Contents
  <2>3. \A n \in Ops : n # op /\ Unmarked(n) => Unmarked(n)'
    BY <1>3, <2>1, <2>2 DEF CopyStaged, Unmarked, NotIn
  <2> QED BY <1>3, <2>1, <2>3 DEF CopyStaged, Visible
<1>4. CASE ApplyFails
  <2>1. \A n \in Ops : Unmarked(n) => Unmarked(n)'
    BY <1>4 DEF ApplyFails, Unmarked, NotIn
  <2> QED BY <1>4, <2>1 DEF ApplyFails
<1>5. CASE MarkApplied
  <2>1. \A n \in Ops : Unmarked(n) => Unmarked(n)'
    BY <1>5 DEF MarkApplied, Unmarked, NotIn
  <2> QED BY <1>5, <2>1 DEF MarkApplied
<1>6. CASE RemoveSession
  <2>1. \A n \in Ops : Unmarked(n) => Unmarked(n)'
    BY <1>6 DEF RemoveSession, Unmarked, NotIn
  <2> QED BY <1>6, <2>1 DEF RemoveSession
<1> QED BY <1>1, <1>2, <1>3, <1>4, <1>5, <1>6 DEF Apply

LEMMA ReplaceMarks == TypeInv /\ SwapInv /\ KindInv /\ MarkInv /\ Replace => MarkInv'
<1> SUFFICES ASSUME TypeInv, SwapInv, KindInv, MarkInv, Replace PROVE MarkInv'
  OBVIOUS
<1> USE NameAssumption DEF TypeInv, TypeOK, CommandKnown, CandidateReady, SwapPhases, Swaps,
        KindInv, MarkInv, Begin, Step, Stop, db, elsewhere, files, merging, command
<1>1. ASSUME NEW o \in Ops, BeginPull(o) \/ (\E b \in backups : BeginRestore(o, b))
      PROVE  MarkInv'
  <2>1. \A n \in Ops : Unmarked(n) => Unmarked(n)'
    BY <1>1 DEF BeginPull, BeginRestore, Unmarked, NotIn
  <2> QED BY <1>1, <2>1 DEF BeginPull, BeginRestore
<1>2. CASE Backup
  <2>1. Visible \in Images /\ Visible # NoFile /\ Visible' = Visible
    BY <1>2, VisibleImage DEF Backup, Usable, Visible
  <2>2. \A n \in Ops : Unmarked(n) => Unmarked(n)'
    BY <1>2, UnmarkedUnseen DEF Backup, Unmarked, NotIn
  <2> QED BY <1>2, <2>1, <2>2 DEF Backup
<1>3. CASE BackupNothing \/ WriteJournal
  <2>1. \A n \in Ops : Unmarked(n) => Unmarked(n)'
    BY <1>3 DEF BackupNothing, WriteJournal, Unmarked, NotIn
  <2> QED BY <1>3, <2>1 DEF BackupNothing, WriteJournal, Visible
<1>4. CASE CopyBackup
  <2>1. \A n \in Ops : Unmarked(n) => Unmarked(n)'
    BY <1>4 DEF CopyBackup, Unmarked, NotIn
  <2> QED BY <1>4, <2>1 DEF CopyBackup
<1>5. CASE CopyRemote
  <2>1. \A n \in Ops : Unmarked(n) => Unmarked(n)'
    BY <1>5 DEF CopyRemote, Unmarked, NotIn
  <2> QED BY <1>5, <2>1 DEF CopyRemote
<1>6. CASE Link
  <2>1. \A n \in Ops : Unmarked(n) => Unmarked(n)'
    BY <1>6 DEF Link, Unmarked, NotIn
  <2> QED BY <1>6, <2>1 DEF Link, Visible
<1>7. CASE Rename
  <2>1. op \in Ops /\ candidate[op] \in Images
    BY <1>7 DEF Rename
  <2>2. \A n \in Ops : Unmarked(n) => Unmarked(n)'
    BY <1>7, <2>1 DEF Rename, Unmarked, NotIn
  <2> QED BY <1>7, <2>2 DEF Rename
<1>8. CASE Unlink
  <2>1. \A n \in Ops : Unmarked(n) => Unmarked(n)'
    BY <1>8 DEF Unlink, Unmarked, NotIn
  <2> QED BY <1>8, <2>1 DEF Unlink
<1>9. CASE CompleteJournal \/ RetireJournal
  <2>1. \A n \in Ops : Unmarked(n) => Unmarked(n)'
    BY <1>9 DEF CompleteJournal, RetireJournal, Unmarked, NotIn
  <2> QED BY <1>9, <2>1 DEF CompleteJournal, RetireJournal
<1>10. CASE SwapFails \/ RestoreFails \/ PullFails
  <2>1. \A n \in Ops : Unmarked(n) => Unmarked(n)'
    BY <1>10 DEF SwapFails, RestoreFails, PullFails, Unmarked, NotIn
  <2> QED BY <1>10, <2>1 DEF SwapFails, RestoreFails, PullFails
<1> QED BY <1>1, <1>2, <1>3, <1>4, <1>5, <1>6, <1>7, <1>8, <1>9, <1>10 DEF Replace

LEMMA MarkStep == TypeInv /\ SwapInv /\ KindInv /\ MarkInv /\ [Next]_vars => MarkInv'
<1> SUFFICES ASSUME TypeInv, SwapInv, KindInv, MarkInv, [Next]_vars PROVE MarkInv'
  OBVIOUS
<1> USE NameAssumption DEF TypeInv, TypeOK, CommandKnown, Swaps, KindInv, MarkInv, Stop, db,
        elsewhere, files, merging, command
<1>1. CASE Crash
  <2>1. \A n \in Ops : Unmarked(n) => Unmarked(n)'
    BY <1>1 DEF Crash, Unmarked, NotIn
  <2> QED BY <1>1, <2>1 DEF Crash
<1>2. CASE UNCHANGED vars
  <2>1. \A n \in Ops : Unmarked(n) => Unmarked(n)'
    BY <1>2 DEF vars, Unmarked, NotIn
  <2> QED BY <1>2, <2>1 DEF vars, Visible
<1> QED BY <1>1, <1>2, OrdinaryMarks, MergeMarks, ApplyMarks, ReplaceMarks DEF Next

LEMMA MarkInvariant == Spec => [](TypeInv /\ JournalInv /\ MarkInv)
<1>1. JournalInv => KindInv
  BY DEF JournalInv
<1> QED BY <1>1, TypeInit, TypeStep, SwapInit, SwapStep, JournalInit, JournalStep, MarkInit,
           MarkStep, PTL DEF Spec

\* A merge is renamed over the database at most once while the database has
\* its event: an apply that died after the rename does not apply again.
THEOREM AppliedOnceTheorem == Spec => AppliedOnce
<1>1. TypeInv /\ JournalInv /\ MarkInv /\ [Next]_vars => [SwapsOnce]_vars
  BY DEF MarkInv, SwapsOnce
<1> QED BY <1>1, MarkInvariant, PTL DEF Spec, AppliedOnce

LEMMA StagedStep == TypeInv /\ MarkInv /\ OpenSessionWhole /\ [Next]_vars => OpenSessionWhole'
<1> SUFFICES ASSUME TypeInv, MarkInv, OpenSessionWhole, [Next]_vars PROVE OpenSessionWhole'
  OBVIOUS
<1> USE DEF TypeInv, TypeOK, OpenSessionWhole, Whole
<1>1. CASE UNCHANGED merging
  BY <1>1 DEF merging
<1>2. CASE StageSession
  BY <1>2 DEF StageSession
<1>3. CASE OpenSession
  BY <1>3 DEF OpenSession, MarkInv
<1>4. CASE MergeFails
  BY <1>4 DEF MergeFails
<1>5. CASE MarkApplied
  BY <1>5 DEF MarkApplied
<1>6. CASE RemoveSession
  BY <1>6 DEF RemoveSession
<1>7. CASE Crash
  BY <1>7 DEF Crash, merging
<1>8. CASE Ordinary
  BY <1>1, <1>8 DEF Ordinary, BeginWrite, RecoverDatabase, RecoveryFails, RecoverFiles,
     RecoverJournal, OpenDatabase, Commit, BackupProject, Push
<1>9. CASE Merge \/ Apply
  BY <1>1, <1>2, <1>3, <1>4, <1>5, <1>6, <1>9
     DEF Merge, ReadOurs, BeginMerge, MergeRefused, BuildCandidate, FinishCandidate, Apply,
         BeginApply, BeginAbort, CopyStaged, ApplyFails
<1>10. CASE Replace
  BY <1>1, <1>10
     DEF Replace, BeginPull, BeginRestore, Backup, BackupNothing, WriteJournal, CopyBackup,
         CopyRemote, Link, Rename, Unlink, CompleteJournal, RetireJournal, SwapFails,
         RestoreFails, PullFails
<1>11. CASE UNCHANGED vars
  BY <1>1, <1>11 DEF vars
<1> QED BY <1>7, <1>8, <1>9, <1>10, <1>11 DEF Next

\* An open session can be applied, however often an apply of it died: its
\* candidate is there, has the project, and lacks the event of its merge.
THEOREM OpenSessionWholeTheorem == Spec => []OpenSessionWhole
<1>1. Init => OpenSessionWhole
  BY DEF Init, OpenSessionWhole
<1> QED BY <1>1, MarkInvariant, StagedStep, PTL DEF Spec
----------------------------------------------------------------------------
(***************************************************************************)
(* Bundles: every set of clones, processes, directories and trees, any number *)
(* of exports and of changes.  What holds of the databases, the files, the *)
(* refs and the processes together.                                        *)
(***************************************************************************)
\* Files that are readable were written by an export.
FilesMade(bundle) == \A file \in File : bundle[file] # Unreadable => made[bundle[file]] # None

\* The steps of an export.
Exporting == {"write", "check", "collect", "commit", "note"}

\* A process has an export that exists, and the files it needs.
RunSound(p) ==
    /\ run[p].at \in Exporting => /\ run[p].export # NoExport /\ made[run[p].export] # None
                                  /\ run[p].place \in Directories
    /\ run[p].at \in {"collect", "commit", "note"} => run[p].kind # "plain"
    /\ run[p].at = "read" => run[p].place \in Directories
    /\ run[p].at \in {"write", "read"} => run[p].next \in 1..5
    /\ run[p].at \in {"commit", "load"} => Readable(run[p].got)
    /\ FilesMade(run[p].got)

\* Everything has its type, and what is in use exists.
Sound ==
    /\ BundlesTypeOK
    /\ \A c \in Clones : store[c].edited <= changes /\ store[c].loads <= changes
    /\ \A e \in Exports : made[e] # None => made[e].tables.edited <= changes
    /\ \A d \in Directories : FilesMade(dir[d])
    /\ \A e \in Exports : commit[e] # None => FilesMade(commit[e].files) /\ Readable(commit[e].files)
    /\ \A c \in Clones, r \in Refs : ref[c][r] # NoExport => commit[ref[c][r]] # None
    /\ \A p \in Procs : RunSound(p)

\* An export that is not over was made by one process and is not yet on a ref.
Fresh ==
    /\ \A e \in Exports : commit[e] # None => made[e] # None
    /\ \A p \in Procs : run[p].at \in Exporting \ {"note"} => commit[run[p].export] = None
    /\ \A p, q \in Procs : p # q /\ run[p].at \in Exporting /\ run[q].at \in Exporting
                           => run[p].export # run[q].export

\* No two clones export to the same directory.
OwnDirectories == \A c, other \in Clones : c # other => Target[c] \cap Target[other] = {}

\* All files are of one export.
AllOf(bundle, e) == \A file \in File : bundle[file] = e

\* The files an export has written are of this export, those it has still to
\* write are older, and nobody else writes there.
WritesAlone(p) ==
    /\ run[p].at \in Exporting => lock[Home[p]] = p
    /\ run[p].at \in {"write", "check", "collect"} => run[p].place \in Target[Home[p]]
    /\ run[p].at = "write" =>
         /\ \A i \in 1..5 : i < run[p].next => dir[run[p].place][Files[i]] = run[p].export
         /\ \A file \in File : dir[run[p].place][file] <= run[p].export
    /\ run[p].at = "check" =>
         AllOf(dir[run[p].place], run[p].export) \/ AllOf(dir[run[p].place], Unreadable)
    /\ run[p].at = "collect" => AllOf(dir[run[p].place], run[p].export)
    /\ run[p].at = "commit" => AllOf(run[p].got, run[p].export)

\* No file is of a later export than one before it.
FilesInOrder(d) ==
    \A i, j \in 1..5 : i < j /\ dir[d][Files[i]] # Unreadable /\ dir[d][Files[j]] # Unreadable
                       => dir[d][Files[j]] <= dir[d][Files[i]]

\* Exports are numbered as they are made, and each works alone.
Alone ==
    /\ \A e, f \in Exports : e < f /\ made[f] # None => made[e] # None
    /\ \A p \in Procs : WritesAlone(p)
    /\ \A d \in Directories :
         /\ FilesInOrder(d)
         /\ \A file \in File : dir[d][file] # Unreadable => \E c \in Clones : d \in Target[c]

\* The exports whose files can lie in the directories of a clone.
Near(c) ==
    {e \in Exports : \/ \E d \in Target[c], file \in File : dir[d][file] = e
                     \/ \E p \in Procs : Home[p] = c /\ At(p, "write") /\ run[p].export = e}

\* Two images are one state of the tables.
Same(a, b) == /\ a.tasks = b.tasks /\ a.edited = b.edited /\ a.trees = b.trees
              /\ a.links = b.links /\ a.history = b.history

\* Between two imports the events only grow, and where their number is the
\* same so is the state.
Older(a, b) == a.loads = b.loads => a.events <= b.events /\ (a.events = b.events => Same(a, b))

\* What lies in the directories of a clone is older than its database, and
\* earlier exports are older than later ones.
Counted ==
    \A c \in Clones :
        /\ \A e \in Near(c) : Content(e).loads <= store[c].loads /\ Older(Content(e), Snapshot(c))
        /\ \A e, f \in Near(c) : e <= f => Older(Content(e), Content(f))

\* The export is on a ref of the kind it was made for.
Tells(e, public) == commit[e] # None /\ (made[e].redacted <=> public)

\* A commit is the files of its export, and its parents are those its manifest
\* names, of the same kind.
CommitTells(e) ==
    commit[e] # None =>
         /\ AllOf(commit[e].files, e) /\ commit[e].parents = made[e].parents
         /\ \A f \in commit[e].parents : commit[f] # None /\ (made[f].redacted <=> made[e].redacted)

\* A ref leads to an export of its kind.
RefTells(c, r) == ref[c][r] # NoExport => Tells(ref[c][r], r = "publication")

\* The manifest of a running export names the tip it found.
ExportTells(p) ==
    run[p].at \in Exporting =>
         /\ made[run[p].export].parents = TrailerParents(run[p].tip)
         /\ made[run[p].export].redacted <=> run[p].kind = "publication"
         /\ run[p].tip # NoExport => Tells(run[p].tip, run[p].kind = "publication")

History ==
    /\ \A e \in Exports : CommitTells(e)
    /\ \A c \in Clones, r \in Refs : RefTells(c, r)
    /\ \A p \in Procs : ExportTells(p)

\* What is noted, or about to be, is on the chain.
Noted ==
    /\ LastOnChain
    /\ \A p \in Procs : At(p, "note") => run[p].kind = "snapshot"
                                         /\ run[p].export \in Chain(ref[Home[p]]["snapshot"])

----------------------------------------------------------------------------
(***************************************************************************)
(* Bundles: facts about single records.                                    *)
(***************************************************************************)
\* The five files of a bundle, in the order they are written.
LEMMA FilesFacts ==
    /\ Len(Files) = 5 /\ \A i \in 1..5 : Files[i] \in File
    /\ \A i, j \in 1..5 : Files[i] = Files[j] => i = j
    /\ \A file \in File : \E i \in 1..5 : Files[i] = file
    /\ Files[1] = "manifest" /\ Files[2] = "tasks" /\ Files[3] = "places"
    /\ Files[4] = "events" /\ Files[5] = "sequences"
BY DEF Files, File

\* A process that does nothing.
LEMMA IdleFacts ==
    /\ Idle \in Run /\ Empty \in Bundle /\ Idle.at = "idle" /\ Idle.got = Empty
    /\ \A file \in File : Empty[file] = Unreadable
<1>1. Empty \in Bundle /\ \A file \in File : Empty[file] = Unreadable
  BY DEF Empty, Bundle, Unreadable
<1>2. 1 \in 1..Len(Files) + 1
  BY FilesFacts
<1> QED BY <1>1, <1>2 DEF Idle, Run, Steps, NoExport

\* A process that ends is idle and has no lock.
LEMMA LeaveFacts ==
    ASSUME BundlesTypeOK, NEW p \in Procs, Leave(p)
    PROVE  /\ run' \in [Procs -> Run] /\ lock' \in [Clones -> Procs \cup {None}]
           /\ run'[p] = Idle /\ \A q \in Procs : q # p => run'[q] = run[q]
           /\ \A c \in Clones : lock'[c] = IF lock[c] = p THEN None ELSE lock[c]
BY IdleFacts DEF BundlesTypeOK, Leave, Released

\* One process goes on to another record of what it does.
LEMMA RunFacts ==
    ASSUME BundlesTypeOK, NEW p \in Procs, NEW r \in Run, run' = [run EXCEPT ![p] = r]
    PROVE  /\ run' \in [Procs -> Run] /\ run'[p] = r
           /\ \A q \in Procs : q # p => run'[q] = run[q]
BY DEF BundlesTypeOK

\* A process that goes on keeps its lock.
LEMMA GoFacts ==
    ASSUME BundlesTypeOK, NEW p \in Procs, NEW step \in Steps, Go(p, step)
    PROVE  /\ run' \in [Procs -> Run] /\ lock' = lock
           /\ run'[p] = [run[p] EXCEPT !.at = step] /\ \A q \in Procs : q # p => run'[q] = run[q]
<1>1. run[p] \in Run
  BY DEF BundlesTypeOK
<1>2. [run[p] EXCEPT !.at = step] \in Run
  BY <1>1 DEF Run
<1>3. run' = [run EXCEPT ![p] = [run[p] EXCEPT !.at = step]] /\ lock' = lock
  BY DEF Go
<1> QED BY <1>2, <1>3, RunFacts

\* Nothing is asked of an idle process.
LEMMA IdleSound == ASSUME NEW p, run[p] = Idle PROVE RunSound(p)
BY IdleFacts DEF RunSound, Exporting, FilesMade

\* Nothing that is made, committed or written to a run is taken back.
LEMMA RunSoundKept ==
    ASSUME NEW p \in Procs, RunSound(p), run'[p] = run[p],
           \A e \in Exports : made[e] # None => made'[e] # None, BundlesTypeOK
    PROVE  RunSound(p)'
<1>1. run[p] \in Run
  BY DEF BundlesTypeOK
<1>2. FilesMade(run[p].got) => FilesMade(run[p].got)'
  BY <1>1 DEF FilesMade, Run, Bundle, Unreadable
<1>3. run[p].export # NoExport /\ made[run[p].export] # None => made'[run[p].export] # None
  BY <1>1 DEF Run
<1> QED BY <1>2, <1>3 DEF RunSound, Readable, FilesMade

----------------------------------------------------------------------------
(***************************************************************************)
(* Bundles: every step keeps what is made sound.                           *)
(***************************************************************************)
\* When exports are only added, what was made stays, and the numbers of changes grow,
\* a step needs only say what it adds.
LEMMA SoundKept ==
    ASSUME Sound, BundlesTypeOK', changes' >= changes,
           \A c \in Clones : store'[c] = store[c]
                             \/ (store'[c].edited <= changes' /\ store'[c].loads <= changes'),
           \A e \in Exports : made'[e] = made[e]
                              \/ (made[e] = None /\ made'[e].tables.edited <= changes'),
           \A e \in Exports : made[e] # None => made'[e] # None,
           \A d \in Directories : dir'[d] = dir[d] \/ FilesMade(dir[d])',
           \A e \in Exports : commit'[e] = commit[e]
                              \/ (FilesMade(commit[e].files)' /\ Readable(commit[e].files)'),
           \A e \in Exports : commit[e] # None => commit'[e] # None,
           \A c \in Clones, r \in Refs : ref'[c][r] # NoExport => commit'[ref'[c][r]] # None,
           \A p \in Procs : run'[p] = run[p] \/ RunSound(p)'
    PROVE  Sound'
<1>1. \A f : f \in Bundle /\ FilesMade(f) => \A file \in File : f[file] # Unreadable => made'[f[file]] # None
  BY DEF FilesMade, Bundle, Unreadable
<1>2. \A d \in Directories : FilesMade(dir[d])'
  BY <1>1 DEF Sound, BundlesTypeOK, FilesMade
<1>3. ASSUME NEW e \in Exports, commit'[e] # None
      PROVE  FilesMade(commit[e].files)' /\ Readable(commit[e].files)'
  <2>1. CASE commit'[e] = commit[e]
    <3>1. commit[e] \in SnapshotCommit /\ commit[e].files \in Bundle
      BY <1>3, <2>1 DEF Sound, BundlesTypeOK, SnapshotCommit
    <3> QED BY <1>1, <1>3, <2>1, <3>1 DEF Sound, FilesMade, Readable
  <2> QED BY <1>3, <2>1
<1>4. \A p \in Procs : RunSound(p)'
  BY RunSoundKept DEF Sound
<1>5. \A c \in Clones : store'[c].edited <= changes' /\ store'[c].loads <= changes'
  BY DEF Sound, BundlesTypeOK, Database
<1>6. \A e \in Exports : made'[e] # None => made'[e].tables.edited <= changes'
  BY DEF Sound, BundlesTypeOK, Export, Database
<1> QED BY <1>2, <1>3, <1>4, <1>5, <1>6 DEF Sound

\* A command of another kind.
LEMMA ChangedSound ==
    ASSUME BundlesAssumption, Sound, NEW c \in Clones, NEW image \in Database, Changed(c, image),
           image.links \subseteq image.trees, image.edited <= changes + 1, image.loads <= changes
    PROVE  Sound'
<1>1. changes \in Nat /\ changes' \in 0..MaxChanges /\ changes' = changes + 1
  BY DEF Changed, Sound, BundlesTypeOK, BundlesAssumption
<1> DEFINE now == [image EXCEPT !.events = store[c].events + 1, !.history = changes']
<1>2. now \in Database /\ now.links = image.links /\ now.trees = image.trees
      /\ now.edited = image.edited /\ now.loads = image.loads
  <2>1. store[c] \in Database /\ store[c].events + 1 \in Nat
    BY DEF Sound, BundlesTypeOK, Database
  <2> QED BY <1>1, <2>1 DEF Database
<1>3. store' = [store EXCEPT ![c] = now] /\ UNCHANGED <<dir, ref, commit, lock, run, made>>
  BY DEF Changed
<1> HIDE DEF now
<1>4. \A other \in Clones : store'[other] = IF other = c THEN now ELSE store[other]
  BY <1>3 DEF Sound, BundlesTypeOK
<1>5. BundlesTypeOK'
  BY <1>1, <1>2, <1>3, <1>4 DEF Sound, BundlesTypeOK
<1>6. now.edited <= changes' /\ now.loads <= changes'
  BY <1>1, <1>2 DEF Database
<1>7. \A c1 \in Clones : store'[c1] = store[c1]
                             \/ (store'[c1].edited <= changes' /\ store'[c1].loads <= changes')
  BY <1>4, <1>6
<1>8. changes' >= changes
  BY <1>1
<1>9. \A c1 \in Clones, r \in Refs : ref'[c1][r] # NoExport => commit'[ref'[c1][r]] # None
  BY <1>3 DEF Sound
<1> QED BY <1>3, <1>5, <1>7, <1>8, <1>9, SoundKept

\* Tasks and worktrees.
LEMMA WorkSound ==
    ASSUME BundlesAssumption, Sound, NEW c \in Clones, Work(c)
    PROVE  Sound'
<1>1. /\ store[c] \in Database /\ store[c].links \subseteq store[c].trees
      /\ store[c].edited <= changes /\ store[c].loads <= changes
      /\ changes \in 0..MaxChanges /\ MaxChanges \in Nat /\ changes < MaxChanges
  BY DEF Sound, BundlesTypeOK, BundlesAssumption, Work, CreateTask, EditTask, EnterTree, Changed
<1>2. CASE CreateTask(c)
  <2> DEFINE image == [store[c] EXCEPT !.tasks = @ \cup {store[c].next}, !.next = @ + 1]
  <2>1. image \in Database /\ image.links = store[c].links /\ image.trees = store[c].trees
        /\ image.edited = store[c].edited /\ image.loads = store[c].loads
    <3>1. store[c].next \in Numbers /\ store[c].next + 1 \in Nat
          /\ store[c].tasks \cup {store[c].next} \in SUBSET Numbers
      BY <1>1, <1>2 DEF CreateTask, Database
    <3> QED BY <1>1, <3>1 DEF Database
  <2>2. Changed(c, image)
    BY <1>2 DEF CreateTask
  <2> HIDE DEF image
  <2> QED BY <1>1, <2>1, <2>2, ChangedSound DEF Database
<1>3. CASE EditTask(c)
  <2> DEFINE image == [store[c] EXCEPT !.edited = @ + 1]
  <2>1. image \in Database /\ image.links = store[c].links /\ image.trees = store[c].trees
        /\ image.edited = store[c].edited + 1 /\ image.loads = store[c].loads
    BY <1>1 DEF Database
  <2>2. Changed(c, image)
    BY <1>3 DEF EditTask
  <2> HIDE DEF image
  <2> QED BY <1>1, <2>1, <2>2, ChangedSound DEF Database
<1>4. CASE EnterTree(c)
  <2>1. PICK t \in Here[c] \ store[c].trees :
            Changed(c, [store[c] EXCEPT !.trees = @ \cup {t}, !.links = @ \cup {t}])
    BY <1>4 DEF EnterTree
  <2> DEFINE image == [store[c] EXCEPT !.trees = @ \cup {t}, !.links = @ \cup {t}]
  <2>2. t \in Trees
    BY DEF BundlesAssumption
  <2>3. image \in Database /\ image.links = store[c].links \cup {t} /\ image.trees = store[c].trees \cup {t}
        /\ image.edited = store[c].edited /\ image.loads = store[c].loads
    BY <1>1, <2>2 DEF Database
  <2> HIDE DEF image
  <2>4. Changed(c, image)
    BY <2>1 DEF image
  <2> QED BY <1>1, <2>3, <2>4, ChangedSound DEF Database
<1> QED BY <1>2, <1>3, <1>4 DEF Work

\* A ref moves to a commit that exists.
LEMMA FetchSound ==
    ASSUME BundlesAssumption, Sound, NEW c \in Clones, NEW other \in Clones, Fetch(c, other)
    PROVE  Sound'
<1>1. PICK r \in Refs : ref[other][r] # NoExport /\ ref' = [ref EXCEPT ![c][r] = ref[other][r]]
  BY DEF Fetch
<1>2. changes' \in 0..MaxChanges /\ changes' >= changes
      /\ UNCHANGED <<store, dir, commit, lock, run, made>>
  BY DEF Fetch, Sound, BundlesTypeOK, BundlesAssumption
<1>3. ref' \in [Clones -> [Refs -> Exports \cup {NoExport}]]
  BY <1>1 DEF Sound, BundlesTypeOK
<1>4. BundlesTypeOK'
  BY <1>2, <1>3 DEF Sound, BundlesTypeOK
<1>5. \A c1 \in Clones, s \in Refs : ref'[c1][s] # NoExport => commit'[ref'[c1][s]] # None
  BY <1>1, <1>2 DEF Sound, BundlesTypeOK
<1> QED BY <1>2, <1>4, <1>5, SoundKept

\* An emptied directory.
LEMMA CleanSound ==
    ASSUME BundlesAssumption, Sound, NEW d \in Directories, Clean(d)
    PROVE  Sound'
<1>1. changes' \in 0..MaxChanges /\ changes' >= changes
      /\ UNCHANGED <<store, ref, commit, lock, run, made>>
  BY DEF Clean, Sound, BundlesTypeOK, BundlesAssumption
<1>2. dir' = [dir EXCEPT ![d] = Empty]
  BY DEF Clean
<1>3. BundlesTypeOK'
  BY <1>1, <1>2, IdleFacts DEF Sound, BundlesTypeOK
<1>4. \A other \in Directories : dir'[other] = dir[other] \/ FilesMade(dir[other])'
  BY <1>2, IdleFacts DEF Sound, BundlesTypeOK, FilesMade
<1>5. \A c1 \in Clones, s \in Refs : ref'[c1][s] # NoExport => commit'[ref'[c1][s]] # None
  BY <1>1 DEF Sound
<1> QED BY <1>1, <1>3, <1>4, <1>5, SoundKept

\* A step that is over: its process is idle.
LEMMA LeaveSound ==
    ASSUME Sound, NEW p \in Procs, Leave(p), changes' = changes,
           made' = made, dir' = dir, commit' = commit, ref' = ref,
           store' \in [Clones -> Database],
           \A c \in Clones : /\ store'[c].links = store[c].links /\ store'[c].trees = store[c].trees
                             /\ store'[c].edited = store[c].edited
                             /\ store'[c].loads = store[c].loads
    PROVE  Sound'
<1>1. BundlesTypeOK'
  BY LeaveFacts DEF Sound, BundlesTypeOK
<1>2. \A q \in Procs : run'[q] = run[q] \/ RunSound(q)'
  <2>1. RunSound(p)'
    BY LeaveFacts, IdleFacts DEF Sound, RunSound, Exporting, FilesMade
  <2> QED BY <2>1, LeaveFacts DEF Sound
<1>3. changes' >= changes
  BY DEF Sound, BundlesTypeOK
<1>4. \A c1 \in Clones, s \in Refs : ref'[c1][s] # NoExport => commit'[ref'[c1][s]] # None
  BY DEF Sound
<1> QED BY <1>1, <1>2, <1>3, <1>4, SoundKept DEF Sound

\* The new export is made, and its content is a state of the database.
LEMMA AskExportSound ==
    ASSUME BundlesAssumption, Sound, NEW p \in Procs, AskExport(p)
    PROVE  Sound'
<1> DEFINE c == Home[p]
<1>1. PICK e \in Exports, sort \in Kinds[c], d \in Target[c] : IsNext(e) /\ BeginExport(p, e, sort, d)
  BY DEF AskExport
<1>2. /\ c \in Clones /\ sort \in {"plain", "snapshot", "publication"} /\ d \in Directories
      /\ store[c] \in Database /\ Snapshot(c) \in Database /\ Snapshot(c).edited = store[c].edited
  <2>1. c \in Clones /\ store[c] \in Database
    BY DEF BundlesAssumption, Sound, BundlesTypeOK
  <2>2. [store[c] EXCEPT !.events = @ + 1] \in Database
    BY <2>1 DEF Database
  <2> QED BY <2>1, <2>2 DEF BundlesAssumption, Snapshot, Database
<1>3. Tip(c, sort) \in Exports \cup {NoExport} /\ (Tip(c, sort) # NoExport => commit[Tip(c, sort)] # None)
  BY <1>2 DEF Tip, Sound, BundlesTypeOK, Refs
<1>4. Parents(Tip(c, sort)) \in SUBSET Exports
  <2>1. CASE Tip(c, sort) = NoExport
    BY <2>1 DEF Parents
  <2>2. CASE Tip(c, sort) # NoExport
    <3>1. /\ Tip(c, sort) \in Exports /\ commit[Tip(c, sort)] \in SnapshotCommit
          /\ Readable(commit[Tip(c, sort)].files)
      BY <1>3, <2>2 DEF Sound, BundlesTypeOK
    <3>2. commit[Tip(c, sort)].files.manifest \in Exports
      BY <3>1 DEF SnapshotCommit, Bundle, Readable, File
    <3> QED BY <2>2, <3>2 DEF Parents
  <2> QED BY <2>1, <2>2
<1>5. BuildManifest(c, sort) \in Export /\ BuildManifest(c, sort).tables = Snapshot(c)
  BY <1>2, <1>4 DEF BuildManifest, Export
<1> DEFINE r == [Idle EXCEPT !.at = "write", !.kind = sort, !.export = e,
                             !.tip = Tip(c, sort), !.place = d]
<1>6. r \in Run /\ r.at = "write" /\ r.export = e /\ r.place = d /\ r.next = 1 /\ r.got = Empty
  BY <1>2, <1>3, IdleFacts, FilesFacts DEF Run, Steps, Idle
<1>7. run' = [run EXCEPT ![p] = r] /\ made' = [made EXCEPT ![e] = BuildManifest(c, sort)]
      /\ UNCHANGED <<store, dir, ref, commit, changes>> /\ lock' = [lock EXCEPT ![c] = p]
  BY <1>1 DEF BeginExport, AskExport
<1>8. run' \in [Procs -> Run] /\ run'[p] = r /\ \A q \in Procs : q # p => run'[q] = run[q]
  BY <1>6, <1>7, RunFacts DEF Sound
<1>9. /\ made' \in [Exports -> Export \cup {None}] /\ made'[e] = BuildManifest(c, sort)
      /\ \A f \in Exports : f # e => made'[f] = made[f]
  BY <1>5, <1>7 DEF Sound, BundlesTypeOK
<1>10. lock' \in [Clones -> Procs \cup {None}]
  BY <1>2, <1>7 DEF Sound, BundlesTypeOK
<1>11. BundlesTypeOK'
  BY <1>7, <1>8, <1>9, <1>10 DEF Sound, BundlesTypeOK
<1>12. made[e] = None /\ made'[e] # None /\ made'[e].tables.edited <= changes'
  BY <1>1, <1>2, <1>5, <1>7, <1>9, NothingAssumption DEF IsNext, Sound
<1> HIDE DEF r, c
<1>13. RunSound(p)'
  BY <1>2, <1>6, <1>8, <1>12, IdleFacts DEF RunSound, Exporting, FilesMade, NoExport, Exports
<1>14. changes' >= changes
  BY <1>7 DEF Sound, BundlesTypeOK
<1>15. \A c1 \in Clones, s \in Refs : ref'[c1][s] # NoExport => commit'[ref'[c1][s]] # None
  BY <1>7 DEF Sound
<1>16. \A f \in Exports : made[f] # None => made'[f] # None
  BY <1>9, <1>12
<1>17. \A f \in Exports : made'[f] = made[f] \/ (made[f] = None /\ made'[f].tables.edited <= changes')
  BY <1>9, <1>12
<1>18. \A q \in Procs : run'[q] = run[q] \/ RunSound(q)'
  BY <1>8, <1>13
<1> QED BY <1>7, <1>11, <1>14, <1>15, <1>16, <1>17, <1>18, SoundKept

\* A step of one process that leaves databases, refs and exports alone.
LEMMA RunStepSound ==
    ASSUME Sound, NEW p \in Procs, NEW r \in Run, run' = [run EXCEPT ![p] = r], RunSound(p)',
           UNCHANGED <<store, ref, commit, lock, made, changes>>,
           dir' \in [Directories -> Bundle],
           \A d \in Directories : dir'[d] = dir[d] \/ FilesMade(dir[d])'
    PROVE  Sound'
<1>1. run' \in [Procs -> Run] /\ \A q \in Procs : q # p => run'[q] = run[q]
  BY RunFacts DEF Sound
<1>2. BundlesTypeOK'
  BY <1>1 DEF Sound, BundlesTypeOK
<1>3. changes' >= changes
  BY DEF Sound, BundlesTypeOK
<1>4. \A c1 \in Clones, s \in Refs : ref'[c1][s] # NoExport => commit'[ref'[c1][s]] # None
  BY DEF Sound
<1> QED BY <1>1, <1>2, <1>3, <1>4, SoundKept

\* The parts of what a process does.
LEMMA RunOf ==
    ASSUME Sound, NEW p \in Procs
    PROVE  /\ run[p] \in Run /\ RunSound(p)
           /\ run[p].at \in Steps /\ run[p].got \in Bundle /\ run[p].next \in 1..6
           /\ run[p].export \in Exports \cup {NoExport} /\ run[p].place \in Directories \cup {None}
           /\ run[p].tip \in Exports \cup {NoExport}
           /\ run[p].kind \in {"plain", "snapshot", "publication"}
BY FilesFacts DEF Sound, BundlesTypeOK, Run

\* The file is one of an export that is made.
LEMMA WriteFileSound ==
    ASSUME Sound, NEW p \in Procs, WriteFile(p)
    PROVE  Sound'
<1> DEFINE r == IF run[p].next = Len(Files) THEN [run[p] EXCEPT !.at = "check", !.next = 1]
                                            ELSE [run[p] EXCEPT !.next = @ + 1]
<1>1. /\ run[p].at = "write" /\ run[p].next \in 1..5 /\ run[p].place \in Directories
      /\ run[p].export \in Exports /\ made[run[p].export] # None
  BY RunOf DEF WriteFile, At, RunSound, Exporting
<1>2. /\ r \in Run /\ r.at \in {"write", "check"} /\ r.next \in 1..5
      /\ r.export = run[p].export /\ r.place = run[p].place /\ r.got = run[p].got
  <2>1. CASE run[p].next = 5
    <3>1. r = [run[p] EXCEPT !.at = "check", !.next = 1] /\ 1 \in 1..Len(Files) + 1
      BY <2>1, FilesFacts
    <3>2. run[p] \in Run
      BY RunOf
    <3> HIDE DEF r
    <3>3. /\ r.at = "check" /\ r.next = 1 /\ r.export = run[p].export
          /\ r.place = run[p].place /\ r.got = run[p].got
      BY <3>1, <3>2 DEF Run
    <3>4. r \in Run
      BY <3>1, <3>2 DEF Run, Steps
    <3> QED BY <3>3, <3>4
  <2>2. CASE run[p].next # 5
    <3>1. r = [run[p] EXCEPT !.next = run[p].next + 1] /\ run[p].next + 1 \in 1..Len(Files) + 1
          /\ run[p].next + 1 \in 1..5
      BY <1>1, <2>2, FilesFacts
    <3> HIDE DEF r
    <3> QED BY <1>1, <3>1, RunOf DEF Run, Steps
  <2> QED BY <2>1, <2>2
<1>3. run' = [run EXCEPT ![p] = r] /\ UNCHANGED <<store, ref, commit, lock, made, changes>>
  BY DEF WriteFile
<1> HIDE DEF r
<1>4. RunSound(p)'
  <2>1. run'[p] = r
    BY <1>2, <1>3, RunFacts DEF Sound
  <2> QED BY <1>1, <1>2, <1>3, <2>1, RunOf DEF RunSound, Exporting, FilesMade
<1>5. dir' = [dir EXCEPT ![run[p].place][Files[run[p].next]] = run[p].export] /\ Files[run[p].next] \in File
  BY <1>1, FilesFacts DEF WriteFile
<1>6. dir' \in [Directories -> Bundle]
  BY <1>1, <1>5 DEF Sound, BundlesTypeOK, Bundle
<1>7. \A d \in Directories : dir'[d] = dir[d] \/ FilesMade(dir[d])'
  BY <1>1, <1>3, <1>5 DEF Sound, BundlesTypeOK, Bundle, FilesMade
<1> QED BY <1>2, <1>3, <1>4, <1>6, <1>7, RunStepSound

\* The event of an export changes nothing else.
LEMMA ConfirmedStore ==
    ASSUME BundlesAssumption, Sound, NEW p \in Procs, store' = [store EXCEPT ![Home[p]].events = @ + 1]
    PROVE  /\ store' \in [Clones -> Database]
           /\ \A c \in Clones : /\ store'[c].links = store[c].links /\ store'[c].trees = store[c].trees
                                /\ store'[c].edited = store[c].edited
                                /\ store'[c].loads = store[c].loads
<1>1. Home[p] \in Clones /\ store[Home[p]] \in Database
  BY DEF BundlesAssumption, Sound, BundlesTypeOK
<1>2. [store[Home[p]] EXCEPT !.events = @ + 1] \in Database
  BY <1>1 DEF Database
<1>3. store' = [store EXCEPT ![Home[p]] = [store[Home[p]] EXCEPT !.events = @ + 1]]
  OBVIOUS
<1> DEFINE now == [store[Home[p]] EXCEPT !.events = @ + 1]
<1>4. now.links = store[Home[p]].links /\ now.trees = store[Home[p]].trees
      /\ now.edited = store[Home[p]].edited /\ now.loads = store[Home[p]].loads
  BY <1>1 DEF Database
<1>5. now \in Database /\ store' = [store EXCEPT ![Home[p]] = now]
  BY <1>2, <1>3
<1> HIDE DEF now
<1>6. store \in [Clones -> Database]
  BY DEF Sound, BundlesTypeOK
<1> QED BY <1>1, <1>4, <1>5, <1>6

\* The note changes nothing else.
LEMMA NotedStore ==
    ASSUME BundlesAssumption, Sound, NEW p \in Procs, NEW e \in Exports,
           store' = [store EXCEPT ![Home[p]].last = e]
    PROVE  /\ store' \in [Clones -> Database]
           /\ \A c \in Clones : /\ store'[c].links = store[c].links /\ store'[c].trees = store[c].trees
                                /\ store'[c].edited = store[c].edited
                                /\ store'[c].loads = store[c].loads
<1>1. Home[p] \in Clones /\ store[Home[p]] \in Database
  BY DEF BundlesAssumption, Sound, BundlesTypeOK
<1>2. [store[Home[p]] EXCEPT !.last = e] \in Database
  BY <1>1 DEF Database
<1>3. store' = [store EXCEPT ![Home[p]] = [store[Home[p]] EXCEPT !.last = e]]
  OBVIOUS
<1> DEFINE now == [store[Home[p]] EXCEPT !.last = e]
<1>4. now.links = store[Home[p]].links /\ now.trees = store[Home[p]].trees
      /\ now.edited = store[Home[p]].edited /\ now.loads = store[Home[p]].loads
  BY <1>1 DEF Database
<1>5. now \in Database /\ store' = [store EXCEPT ![Home[p]] = now]
  BY <1>2, <1>3
<1> HIDE DEF now
<1>6. store \in [Clones -> Database]
  BY DEF Sound, BundlesTypeOK
<1> QED BY <1>1, <1>4, <1>5, <1>6

\* A step of an export that goes on, and changes no files.
LEMMA GoSound ==
    ASSUME Sound, NEW p \in Procs, NEW step \in {"collect", "commit", "note"}, Go(p, step),
           run[p].at \in Exporting, run[p].kind # "plain", step = "commit" => Readable(run[p].got),
           store' \in [Clones -> Database],
           \A c \in Clones : /\ store'[c].links = store[c].links /\ store'[c].trees = store[c].trees
                             /\ store'[c].edited = store[c].edited
                             /\ store'[c].loads = store[c].loads,
           UNCHANGED <<dir, made, changes>>,
           commit' \in [Exports -> SnapshotCommit \cup {None}],
           \A e \in Exports : commit'[e] = commit[e]
                              \/ (FilesMade(commit[e].files)' /\ Readable(commit[e].files)'),
           \A e \in Exports : commit[e] # None => commit'[e] # None,
           ref' \in [Clones -> [Refs -> Exports \cup {NoExport}]],
           \A c \in Clones, r \in Refs : ref'[c][r] # NoExport => commit'[ref'[c][r]] # None
    PROVE  Sound'
<1>1. /\ run' \in [Procs -> Run] /\ lock' = lock
      /\ run'[p] = [run[p] EXCEPT !.at = step] /\ \A q \in Procs : q # p => run'[q] = run[q]
  <2>1. step \in Steps /\ BundlesTypeOK
    BY DEF Steps, Sound
  <2> QED BY <2>1, GoFacts
<1>2. BundlesTypeOK'
  BY <1>1 DEF Sound, BundlesTypeOK
<1>3. /\ run'[p].at = step /\ run'[p].kind = run[p].kind /\ run'[p].export = run[p].export
      /\ run'[p].place = run[p].place /\ run'[p].got = run[p].got
  BY <1>1, RunOf DEF Run
<1>4. RunSound(p)'
  BY <1>3, RunOf DEF RunSound, Exporting, FilesMade, Readable
<1>5. changes' >= changes
  BY DEF Sound, BundlesTypeOK
<1>6. \A c \in Clones : store'[c] = store[c]
                        \/ (store'[c].edited <= changes' /\ store'[c].loads <= changes')
  BY DEF Sound
<1>7. \A q \in Procs : run'[q] = run[q] \/ RunSound(q)'
  BY <1>1, <1>4
<1> QED BY <1>2, <1>5, <1>6, <1>7, SoundKept

\* After the files were read back.
LEMMA ConfirmSound ==
    ASSUME BundlesAssumption, Sound, NEW p \in Procs, Confirm(p)
    PROVE  Sound'
<1>1. /\ store' \in [Clones -> Database]
      /\ \A c \in Clones : /\ store'[c].links = store[c].links /\ store'[c].trees = store[c].trees
                           /\ store'[c].edited = store[c].edited
                           /\ store'[c].loads = store[c].loads
  BY ConfirmedStore DEF Confirm
<1>2. UNCHANGED <<dir, ref, commit, made, changes>> /\ run[p].at = "check"
  BY DEF Confirm, At
<1>3. CASE run[p].kind = "plain"
  BY <1>1, <1>2, <1>3, LeaveSound DEF Confirm
<1>4. CASE run[p].kind # "plain"
  <2>1. Go(p, "collect")
    BY <1>4 DEF Confirm
  <2>2. /\ commit \in [Exports -> SnapshotCommit \cup {None}]
        /\ ref \in [Clones -> [Refs -> Exports \cup {NoExport}]]
        /\ \A c \in Clones, r \in Refs : ref[c][r] # NoExport => commit[ref[c][r]] # None
    BY DEF Sound, BundlesTypeOK
  <2>3. run[p].at \in Exporting
    BY <1>2 DEF Exporting
  <2> QED BY <1>1, <1>2, <1>4, <2>1, <2>2, <2>3, GoSound
<1> QED BY <1>3, <1>4

\* An export that gives up.
LEMMA LeavingSound ==
    ASSUME Sound, NEW p \in Procs, Refuse(p) \/ CommitLost(p)
    PROVE  Sound'
<1>1. Leave(p) /\ UNCHANGED <<store, dir, ref, commit, made, changes>>
  BY DEF Refuse, CommitLost
<1> QED BY <1>1, LeaveSound DEF Sound, BundlesTypeOK

\* The end of an export to a snapshot ref.
LEMMA NoteSound ==
    ASSUME BundlesAssumption, Sound, NEW p \in Procs, Note(p)
    PROVE  Sound'
<1>1. run[p].export \in Exports
  BY RunOf DEF Note, At, RunSound, Exporting
<1>2. Leave(p) /\ UNCHANGED <<dir, ref, commit, made, changes>>
  BY DEF Note
<1> QED BY <1>1, <1>2, NotedStore, LeaveSound DEF Note

\* The files to commit are readable.
LEMMA CollectSound ==
    ASSUME Sound, NEW p \in Procs, Collect(p)
    PROVE  Sound'
<1> DEFINE bundle == dir[run[p].place]
           r == [run[p] EXCEPT !.at = "commit", !.got = bundle]
<1>1. /\ run[p].at = "collect" /\ run[p].place \in Directories /\ run[p] \in Run
      /\ run[p].export # NoExport /\ made[run[p].export] # None /\ run[p].kind # "plain"
  BY RunOf DEF Collect, At, RunSound, Exporting
<1>2. Readable(bundle) /\ bundle \in Bundle /\ FilesMade(bundle)
  BY <1>1 DEF Collect, Sound, BundlesTypeOK
<1>3. /\ r \in Run /\ r.at = "commit" /\ r.got = bundle /\ r.export = run[p].export
      /\ r.place = run[p].place /\ r.kind = run[p].kind
  <2> HIDE DEF bundle
  <2>1. r \in Run
    BY <1>1, <1>2 DEF Run, Steps
  <2> QED BY <1>1, <2>1 DEF Run
<1>4. run' = [run EXCEPT ![p] = r] /\ UNCHANGED <<store, dir, ref, commit, lock, made, changes>>
  BY DEF Collect
<1> HIDE DEF r, bundle
<1>5. run'[p] = r
  BY <1>3, <1>4, RunFacts DEF Sound
<1>6. RunSound(p)'
  BY <1>1, <1>2, <1>3, <1>4, <1>5 DEF RunSound, Exporting, FilesMade, Readable
<1>7. dir' \in [Directories -> Bundle]
  BY <1>4 DEF Sound, BundlesTypeOK
<1> QED BY <1>3, <1>4, <1>6, <1>7, RunStepSound

\* The new tip of the ref is a commit.
LEMMA CommitSnapshotSound ==
    ASSUME BundlesAssumption, Sound, NEW p \in Procs, CommitSnapshot(p)
    PROVE  Sound'
<1>0. PICK e \in Exports, k \in Refs : e = run[p].export /\ k = run[p].kind
  BY RunOf DEF CommitSnapshot, At, RunSound, Exporting, Refs
<1> DEFINE c == Home[p]
           new == [files |-> run[p].got, parents |-> TrailerParents(run[p].tip)]
<1>1. /\ run[p].at = "commit" /\ c \in Clones
      /\ Readable(run[p].got) /\ FilesMade(run[p].got) /\ run[p].got \in Bundle
  BY RunOf DEF CommitSnapshot, At, RunSound, Exporting, Refs, BundlesAssumption
<1>2. new \in SnapshotCommit /\ new # None /\ new.files = run[p].got
  <2>1. TrailerParents(run[p].tip) \in SUBSET Exports
    BY RunOf DEF TrailerParents
  <2>2. new \in SnapshotCommit
    BY <1>1, <2>1 DEF SnapshotCommit
  <2> QED BY <2>2, NothingAssumption
<1>3. /\ commit' = [commit EXCEPT ![e] = new] /\ ref' = [ref EXCEPT ![c][k] = e]
      /\ UNCHANGED <<store, dir, made, changes>>
  BY <1>0 DEF CommitSnapshot
<1> HIDE DEF new
<1>4. commit' \in [Exports -> SnapshotCommit \cup {None}] /\ commit'[e] = new
      /\ \A f \in Exports : f # e => commit'[f] = commit[f]
  BY <1>1, <1>2, <1>3 DEF Sound, BundlesTypeOK
<1>5. ref' \in [Clones -> [Refs -> Exports \cup {NoExport}]]
      /\ \A c1 \in Clones, r \in Refs : ref'[c1][r] = IF c1 = c /\ r = k THEN e ELSE ref[c1][r]
  BY <1>1, <1>3 DEF Sound, BundlesTypeOK
<1>6. FilesMade(commit[e].files)' /\ Readable(commit[e].files)'
  BY <1>1, <1>2, <1>3, <1>4 DEF FilesMade, Readable
<1>7. \A f \in Exports : commit'[f] = commit[f]
                         \/ (FilesMade(commit[f].files)' /\ Readable(commit[f].files)')
  BY <1>4, <1>6
<1>8. \A f \in Exports : commit[f] # None => commit'[f] # None
  BY <1>2, <1>4
<1>9. \A c1 \in Clones, r \in Refs : ref'[c1][r] # NoExport => commit'[ref'[c1][r]] # None
  <2>1. \A c1 \in Clones, r \in Refs : ref[c1][r] # NoExport => ref[c1][r] \in Exports /\ commit[ref[c1][r]] # None
    BY DEF Sound, BundlesTypeOK
  <2>2. commit'[e] # None
    BY <1>2, <1>4
  <2> QED BY <2>1, <2>2, <1>5, <1>8
<1>10. /\ store' \in [Clones -> Database]
       /\ \A c1 \in Clones : /\ store'[c1].links = store[c1].links /\ store'[c1].trees = store[c1].trees
                             /\ store'[c1].edited = store[c1].edited
                             /\ store'[c1].loads = store[c1].loads
  BY <1>3 DEF Sound, BundlesTypeOK
<1>11. CASE k = "snapshot"
  <2>1. Go(p, "note")
    BY <1>0, <1>11 DEF CommitSnapshot
  <2>2. run[p].at \in Exporting /\ run[p].kind # "plain"
    BY <1>0, <1>1 DEF Exporting, Refs
  <2> QED BY <1>3, <1>4, <1>5, <1>7, <1>8, <1>9, <1>10, <2>1, <2>2, GoSound
<1>12. CASE k # "snapshot"
  <2>1. Leave(p)
    BY <1>0, <1>12 DEF CommitSnapshot
  <2>2. BundlesTypeOK'
    BY <1>3, <1>4, <1>5, <1>10, <2>1, LeaveFacts DEF Sound, BundlesTypeOK
  <2>3. RunSound(p)'
    BY <2>1, LeaveFacts, IdleFacts DEF Sound, RunSound, Exporting, FilesMade
  <2>4. \A q \in Procs : run'[q] = run[q] \/ RunSound(q)'
    BY <2>1, <2>3, LeaveFacts DEF Sound
  <2>5. changes' >= changes
    BY <1>3 DEF Sound, BundlesTypeOK
  <2> QED BY <1>3, <1>7, <1>8, <1>9, <2>2, <2>4, <2>5, SoundKept
<1> QED BY <1>11, <1>12

\* An idle process has read nothing.
LEMMA IdleReady == Idle \in Run /\ Idle.got \in Bundle
BY IdleFacts DEF Run

\* What an import accepts is readable.
LEMMA AcceptingFacts ==
    ASSUME NEW bundle \in Bundle, FilesMade(bundle)
    PROVE  /\ Accepting(bundle) \in Run /\ Accepting(bundle).at \in {"load", "idle"}
           /\ Accepting(bundle).at = "load" => Accepting(bundle).got = bundle /\ Accepted(bundle)
           /\ FilesMade(Accepting(bundle).got)
<1>1. CASE Accepted(bundle)
  <2>1. Accepting(bundle) = [Idle EXCEPT !.at = "load", !.got = bundle]
    BY <1>1 DEF Accepting
  <2>2. Accepting(bundle) \in Run
    BY <2>1, IdleReady DEF Run, Steps
  <2>3. Accepting(bundle).at = "load" /\ Accepting(bundle).got = bundle
    BY <2>1 DEF Idle
  <2> QED BY <1>1, <2>2, <2>3
<1>2. CASE ~Accepted(bundle)
  BY <1>2, IdleFacts DEF Accepting, FilesMade
<1> QED BY <1>1, <1>2

\* A command that takes what it accepts to the load, or ends.
LEMMA AcceptSound ==
    ASSUME Sound, NEW p \in Procs, NEW bundle \in Bundle, FilesMade(bundle),
           run' = [run EXCEPT ![p] = Accepting(bundle)],
           UNCHANGED <<store, dir, ref, commit, lock, made, changes>>
    PROVE  Sound'
<1>1. Accepting(bundle) \in Run
  BY AcceptingFacts
<1>2. run'[p] = Accepting(bundle)
  BY <1>1, RunFacts DEF Sound
<1>3. RunSound(p)'
  BY <1>2, AcceptingFacts DEF RunSound, Exporting, FilesMade, Readable, Accepted
<1>4. dir' \in [Directories -> Bundle]
  BY DEF Sound, BundlesTypeOK
<1> QED BY <1>1, <1>3, <1>4, RunStepSound

\* The manifest is the first file an import has.
LEMMA AskImportSound ==
    ASSUME BundlesAssumption, Sound, NEW p \in Procs, AskImport(p)
    PROVE  Sound'
<1>1. PICK d \in Sources[Home[p]] \cap Directories :
        /\ HasManifest(dir[d])
        /\ run' = [run EXCEPT ![p] = [Idle EXCEPT !.at = "read", !.place = d, !.next = 2,
                                                  !.got.manifest = dir[d].manifest]]
  BY DEF AskImport
<1>2. dir[d] \in Bundle /\ FilesMade(dir[d]) /\ "manifest" \in File
  BY DEF Sound, BundlesTypeOK, File
<1> DEFINE got == [Empty EXCEPT !["manifest"] = dir[d]["manifest"]]
           r == [Idle EXCEPT !.at = "read", !.place = d, !.next = 2, !.got = got]
<1>3. got \in Bundle /\ (\A file \in File : got[file] \in {Unreadable, dir[d][file]})
  BY <1>2, IdleFacts DEF Bundle, Empty
<1>4. run' = [run EXCEPT ![p] = r]
  BY <1>1 DEF Idle
<1> HIDE DEF got
<1>5. /\ r \in Run /\ r.at = "read" /\ r.place = d /\ r.next = 2 /\ r.got = got
  <2>1. 2 \in 1..Len(Files) + 1
    BY FilesFacts
  <2> QED BY <1>3, <2>1, IdleReady DEF Run, Steps, Idle, NoExport
<1> HIDE DEF r
<1>6. run'[p] = r
  BY <1>4, <1>5, RunFacts DEF Sound
<1>7. UNCHANGED <<store, dir, ref, commit, lock, made, changes>>
  BY DEF AskImport
<1>8. RunSound(p)'
  BY <1>2, <1>3, <1>5, <1>6, <1>7 DEF RunSound, Exporting, FilesMade
<1>9. dir' \in [Directories -> Bundle]
  BY <1>7 DEF Sound, BundlesTypeOK
<1> QED BY <1>4, <1>5, <1>7, <1>8, <1>9, RunStepSound

\* One file more.
LEMMA ReadFileSound ==
    ASSUME Sound, NEW p \in Procs, ReadFile(p)
    PROVE  Sound'
<1> DEFINE file == Files[run[p].next]
           got == [run[p].got EXCEPT ![file] = dir[run[p].place][file]]
           r == [run[p] EXCEPT !.got = got, !.next = @ + 1]
<1>1. /\ run[p].at = "read" /\ run[p].next \in 1..5 /\ run[p].place \in Directories
      /\ run[p] \in Run /\ run[p].got \in Bundle /\ FilesMade(run[p].got) /\ file \in File
      /\ dir[run[p].place] \in Bundle /\ FilesMade(dir[run[p].place])
  BY RunOf, FilesFacts DEF ReadFile, At, RunSound, Sound, BundlesTypeOK
<1>2. got \in Bundle /\ FilesMade(got)
  <2> HIDE DEF file
  <2> QED BY <1>1 DEF Bundle, FilesMade
<1>3. UNCHANGED <<store, dir, ref, commit, lock, made, changes>>
  BY DEF ReadFile
<1>4. CASE run[p].next = Len(Files)
  <2>1. run' = [run EXCEPT ![p] = Accepting(got)]
    BY <1>4 DEF ReadFile
  <2> HIDE DEF got
  <2>2. PICK bundle \in Bundle : bundle = got
    BY <1>2
  <2> QED BY <1>2, <1>3, <2>1, <2>2, AcceptSound
<1>5. CASE run[p].next # Len(Files)
  <2>1. run' = [run EXCEPT ![p] = r]
    BY <1>5 DEF ReadFile
  <2>2. run[p].next + 1 \in 1..5 /\ run[p].next + 1 \in 1..Len(Files) + 1
    BY <1>1, <1>5, FilesFacts
  <2> HIDE DEF got
  <2>3. r \in Run
    BY <1>1, <1>2, <2>2 DEF Run
  <2>4. r.at = "read" /\ r.place = run[p].place /\ r.next = run[p].next + 1 /\ r.got = got
    BY <1>1 DEF Run
  <2> HIDE DEF r
  <2>5. run'[p] = r
    BY <2>1, <2>3, RunFacts DEF Sound
  <2>6. RunSound(p)'
    BY <1>1, <1>2, <1>3, <2>2, <2>4, <2>5 DEF RunSound, Exporting, FilesMade
  <2>7. dir' \in [Directories -> Bundle]
    BY <1>3 DEF Sound, BundlesTypeOK
  <2>8. PICK row \in Run : row = r
    BY <2>3
  <2> QED BY <1>3, <2>1, <2>6, <2>7, <2>8, RunStepSound
<1> QED BY <1>4, <1>5

\* The files of a commit.
LEMMA AskImportFromGitSound ==
    ASSUME BundlesAssumption, Sound, NEW p \in Procs, AskImportFromGit(p)
    PROVE  Sound'
<1>1. PICK r \in Sources[Home[p]] \cap Refs :
        ref[Home[p]][r] # NoExport /\ run' = [run EXCEPT ![p] = Accepting(FilesAtTip(Home[p], r))]
  BY DEF AskImportFromGit
<1>2. Home[p] \in Clones /\ ref[Home[p]][r] \in Exports /\ commit[ref[Home[p]][r]] # None
  BY <1>1 DEF BundlesAssumption, Sound, BundlesTypeOK
<1>3. FilesAtTip(Home[p], r) \in Bundle /\ FilesMade(FilesAtTip(Home[p], r))
  BY <1>2 DEF FilesAtTip, Sound, BundlesTypeOK, SnapshotCommit
<1>4. PICK bundle \in Bundle : bundle = FilesAtTip(Home[p], r)
  BY <1>3
<1>5. UNCHANGED <<store, dir, ref, commit, lock, made, changes>>
  BY DEF AskImportFromGit
<1> QED BY <1>1, <1>3, <1>4, <1>5, AcceptSound

\* A file may be left half written.
LEMMA InterruptSound ==
    ASSUME Sound, NEW p \in Procs, Interrupt(p)
    PROVE  Sound'
<1>1. Leave(p) /\ UNCHANGED <<store, ref, commit, made, changes>>
  BY DEF Interrupt
<1>2. CASE dir' = dir
  BY <1>1, <1>2, LeaveSound DEF Sound, BundlesTypeOK
<1>3. CASE run[p].at = "write"
           /\ dir' = [dir EXCEPT ![run[p].place][Files[run[p].next]] = Unreadable]
  <2>1. run[p].place \in Directories /\ Files[run[p].next] \in File
    BY <1>3, RunOf, FilesFacts DEF RunSound, Exporting
  <2>2. dir' \in [Directories -> Bundle]
    BY <1>3, <2>1 DEF Sound, BundlesTypeOK, Bundle
  <2>3. \A d \in Directories : FilesMade(dir[d])'
    <3>1. ASSUME NEW d \in Directories, NEW file \in File
          PROVE  dir'[d][file] = Unreadable \/ dir'[d][file] = dir[d][file]
      BY <1>3, <2>1 DEF Sound, BundlesTypeOK, Bundle
    <3> QED BY <1>1, <3>1 DEF Sound, FilesMade
  <2>4. BundlesTypeOK'
    BY <1>1, <2>2, LeaveFacts DEF Sound, BundlesTypeOK
  <2>5. RunSound(p)'
    BY <1>1, LeaveFacts, IdleFacts DEF Sound, RunSound, Exporting, FilesMade
  <2>6. \A q \in Procs : run'[q] = run[q] \/ RunSound(q)'
    BY <1>1, <2>5, LeaveFacts DEF Sound
  <2>7. changes' >= changes
    BY <1>1 DEF Sound, BundlesTypeOK
  <2>8. \A c1 \in Clones, s \in Refs : ref'[c1][s] # NoExport => commit'[ref'[c1][s]] # None
    BY <1>1 DEF Sound
  <2> QED BY <1>1, <2>3, <2>4, <2>6, <2>7, <2>8, SoundKept
<1> QED BY <1>2, <1>3 DEF Interrupt, At

\* A finite set of numbers has a greatest one.
LEMMA Greatest ==
    ASSUME NEW S \in SUBSET Nat, IsFiniteSet(S), S # {}
    PROVE  \E i \in S : \A j \in S : j <= i
<1> DEFINE From(i) == {j \in S : j >= i}
           T == {From(i) : i \in S}
<1>1. T \subseteq FiniteSubsetsOf(S) /\ T # {}
  <2>1. ASSUME NEW i \in S PROVE From(i) \in FiniteSubsetsOf(S)
    <3>1. From(i) \in SUBSET S
      OBVIOUS
    <3> HIDE DEF From
    <3>2. IsFiniteSet(From(i))
      BY <3>1, FS_Subset
    <3> QED BY <3>1, <3>2 DEF FiniteSubsetsOf
  <2> QED BY <2>1
<1>2. PICK x \in T : \A y \in T : ~(<<y, x>> \in StrictSubsetOrdering(S))
  BY <1>1, FS_StrictSubsetOrderingWellFounded, WFMin
<1>3. PICK i \in S : x = From(i)
  BY <1>2
<1>4. ASSUME NEW j \in S, ~(j <= i) PROVE FALSE
  <2>0. i \in Nat /\ j \in Nat /\ j > i
    BY <1>4
  <2>1. From(j) \subseteq From(i) /\ i \in From(i) /\ i \notin From(j)
    <3>1. \A k \in S : k \in Nat
      OBVIOUS
    <3>2. \A k \in S : k >= j => k >= i
      BY <2>0, <3>1
    <3>3. i >= i /\ ~(i >= j)
      BY <2>0
    <3> QED BY <3>2, <3>3
  <2>2. From(j) \in T /\ From(j) \in SUBSET S /\ From(i) \in SUBSET S
    BY <1>4
  <2>3. From(j) # From(i)
    BY <2>1
  <2> HIDE DEF From, T
  <2>4. <<From(j), From(i)>> \in StrictSubsetOrdering(S)
    BY <2>1, <2>2, <2>3 DEF StrictSubsetOrdering
  <2> QED BY <1>2, <1>3, <2>2, <2>4
<1> QED BY <1>4

\* The counter after an import is above the stored one and all numbers in use.
LEMMA ReconciledFacts ==
    ASSUME BundlesAssumption, NEW tasks \in SUBSET Numbers, NEW stored \in Nat
    PROVE  /\ ReconcileSequences(tasks, stored) \in Nat
           /\ stored <= ReconcileSequences(tasks, stored)
           /\ \A n \in tasks : n < ReconcileSequences(tasks, stored)
<1> DEFINE above == {stored} \cup {n + 1 : n \in tasks}
           top == MaxChanges + stored + 2
<1>1. MaxChanges \in Nat /\ top \in Nat /\ (\A n \in tasks : n \in Nat /\ n <= MaxChanges + 1)
  BY DEF BundlesAssumption, Numbers
<1>2. above \in SUBSET Nat /\ above # {} /\ \A n \in above : n <= top
  BY <1>1
<1>3. IsFiniteSet(above)
  <2> HIDE DEF above, top
  <2> QED BY <1>1, <1>2, FS_BoundedSetOfNaturals
<1>4. \E n \in above : \A other \in above : other <= n
  <2> HIDE DEF above
  <2> QED BY <1>2, <1>3, Greatest
<1>5. ReconcileSequences(tasks, stored) \in above
      /\ \A other \in above : other <= ReconcileSequences(tasks, stored)
  <2>1. ReconcileSequences(tasks, stored) = CHOOSE n \in above : \A other \in above : other <= n
    BY DEF ReconcileSequences
  <2> HIDE DEF above
  <2> QED BY <1>4, <2>1
<1>6. stored \in above /\ \A n \in tasks : n + 1 \in above
  OBVIOUS
<1>7. ReconcileSequences(tasks, stored) \in Nat
  BY <1>2, <1>5
<1>8. \A n \in tasks : n + 1 <= ReconcileSequences(tasks, stored)
  <2> HIDE DEF above
  <2> QED BY <1>5, <1>6
<1> QED BY <1>1, <1>5, <1>6, <1>7, <1>8

\* The database after an import.
LEMMA LoadedFacts ==
    ASSUME BundlesAssumption, Sound, NEW p \in Procs, Load(p)
    PROVE  LET c == Home[p]
               new == Loaded(c, run[p].got)
           IN  /\ c \in Clones /\ new \in Database /\ new.links \subseteq new.trees
               /\ new.edited <= changes' /\ new.loads = store[c].loads + 1 /\ new.last = NoExport
               /\ \A n \in new.tasks : n < new.next
<1> DEFINE c == Home[p]
           bundle == run[p].got
           tasks == Content(bundle["tasks"])
           places == Content(bundle["places"])
           gone == places.trees \ LiveTrees(c, places)
           next == ReconcileSequences(tasks.tasks, Content(bundle["sequences"]).next)
<1>1. /\ c \in Clones /\ store[c] \in Database /\ store[c].loads <= changes
      /\ changes \in Nat /\ MaxChanges \in Nat /\ changes < MaxChanges /\ changes' = changes + 1
  BY DEF Load, BundlesAssumption, Sound, BundlesTypeOK
<1>2. ASSUME NEW file \in File PROVE Content(bundle[file]) \in Database /\ Content(bundle[file]).edited <= changes
  <2>1. bundle \in Bundle /\ FilesMade(bundle) /\ Readable(bundle)
    BY RunOf DEF Load, At, RunSound
  <2>2. bundle[file] \in Exports /\ made[bundle[file]] # None
    BY <2>1 DEF Bundle, FilesMade, Readable
  <2> HIDE DEF bundle
  <2> QED BY <2>2 DEF Content, Sound, BundlesTypeOK, Export
<1>3. tasks \in Database /\ places \in Database /\ tasks.edited <= changes
      /\ Content(bundle["events"]) \in Database /\ Content(bundle["sequences"]) \in Database
  BY <1>2 DEF File
<1> HIDE DEF bundle
<1>4. LiveTrees(c, places) \in SUBSET Trees /\ LiveLinks(c, places) \in SUBSET Trees
      /\ LiveLinks(c, places) \subseteq LiveTrees(c, places)
  BY <1>1, <1>3 DEF LiveTrees, LiveLinks, Database
<1>5. Cardinality(gone) \in Nat
  <2>1. gone \in SUBSET Trees
    BY <1>3 DEF Database
  <2> HIDE DEF gone
  <2> QED BY <2>1, FS_Subset, FS_CardinalityType DEF BundlesAssumption
<1>6. next \in Nat /\ \A n \in tasks.tasks : n < next
  <2>1. tasks.tasks \in SUBSET Numbers /\ Content(bundle["sequences"]).next \in Nat
    BY <1>3 DEF Database
  <2> HIDE DEF tasks
  <2> QED BY <2>1, ReconciledFacts
<1>7. Loaded(c, bundle) =
       [tasks |-> tasks.tasks, edited |-> tasks.edited,
        trees |-> LiveTrees(c, places), links |-> LiveLinks(c, places),
        next |-> next, events |-> Content(bundle["events"]).events + 1 + Cardinality(gone),
        last |-> NoExport, history |-> changes', loads |-> store[c].loads + 1]
  BY DEF Loaded
<1>8. Content(bundle["events"]).events + 1 + Cardinality(gone) \in Nat
  BY <1>3, <1>5 DEF Database
<1>9. tasks.tasks \in SUBSET Numbers /\ tasks.edited \in 0..MaxChanges /\ store[c].loads + 1 \in 0..MaxChanges
      /\ tasks.edited <= changes' /\ changes' \in 0..MaxChanges
  BY <1>1, <1>3 DEF Database
<1> HIDE DEF tasks, places, gone, next
<1>10. Loaded(c, bundle) \in Database
  BY <1>4, <1>6, <1>7, <1>8, <1>9 DEF Database, NoExport
<1>11. /\ Loaded(c, bundle).links = LiveLinks(c, places) /\ Loaded(c, bundle).trees = LiveTrees(c, places)
       /\ Loaded(c, bundle).edited = tasks.edited /\ Loaded(c, bundle).loads = store[c].loads + 1
       /\ Loaded(c, bundle).last = NoExport /\ Loaded(c, bundle).tasks = tasks.tasks
       /\ Loaded(c, bundle).next = next
  BY <1>7
<1>12. bundle = run[p].got
  BY DEF bundle
<1> QED BY <1>1, <1>4, <1>6, <1>9, <1>10, <1>11, <1>12

\* The import has put the new database in place.
LEMMA LoadSound ==
    ASSUME BundlesAssumption, Sound, NEW p \in Procs, Load(p)
    PROVE  Sound'
<1>1. PICK c \in Clones : c = Home[p]
  BY DEF BundlesAssumption
<1> DEFINE new == Loaded(c, run[p].got)
<1>2. /\ new \in Database /\ new.links \subseteq new.trees
      /\ new.edited <= changes' /\ new.loads = store[c].loads + 1
  BY <1>1, LoadedFacts
<1>3. /\ store' = [store EXCEPT ![c] = new] /\ changes' = changes + 1 /\ changes' \in 0..MaxChanges
      /\ Leave(p) /\ UNCHANGED <<dir, ref, commit, made>> /\ store[c].loads + 1 <= changes'
  BY <1>1 DEF Load, Sound, BundlesTypeOK, BundlesAssumption, Database
<1> HIDE DEF new
<1>4. store' \in [Clones -> Database] /\ \A d \in Clones : store'[d] = IF d = c THEN new ELSE store[d]
  BY <1>2, <1>3 DEF Sound, BundlesTypeOK
<1>5. BundlesTypeOK'
  BY <1>2, <1>3, <1>4, LeaveFacts DEF Sound, BundlesTypeOK
<1>6. RunSound(p)'
  BY <1>3, LeaveFacts, IdleFacts DEF Sound, RunSound, Exporting, FilesMade
<1>7. \A q \in Procs : run'[q] = run[q] \/ RunSound(q)'
  BY <1>3, <1>6, LeaveFacts DEF Sound
<1>8. changes' >= changes
  BY <1>3 DEF Sound, BundlesTypeOK
<1>9. \A c1 \in Clones, s \in Refs : ref'[c1][s] # NoExport => commit'[ref'[c1][s]] # None
  BY <1>3 DEF Sound
<1>10. \A d \in Clones : store'[d] = store[d]
                        \/ (store'[d].edited <= changes' /\ store'[d].loads <= changes')
  BY <1>2, <1>3, <1>4
<1> QED BY <1>3, <1>5, <1>7, <1>8, <1>9, <1>10, SoundKept

----------------------------------------------------------------------------
(***************************************************************************)
(* Bundles: types, and the next number.                                    *)
(***************************************************************************)
\* In the beginning.
LEMMA SoundInit == ASSUME BundlesAssumption, 1 \in Numbers, BundlesInit PROVE Sound
<1> DEFINE first == [tasks |-> {1}, edited |-> 0, trees |-> {}, links |-> {},
                     next |-> 2, events |-> 1, last |-> NoExport, history |-> 0, loads |-> 0]
<1>1. 0 \in 0..MaxChanges /\ {1} \in SUBSET Numbers
  BY DEF BundlesAssumption
<1>2. first \in Database
  BY <1>1 DEF Database, NoExport
<1>3. first.links \subseteq first.trees /\ first.edited = 0 /\ first.loads = 0
  OBVIOUS
<1>4. store = [c \in Clones |-> first]
  BY DEF BundlesInit
<1> HIDE DEF first
<1>5. BundlesTypeOK
  <2>1. store \in [Clones -> Database] /\ \A c \in Clones : store[c].links \subseteq store[c].trees
    BY <1>2, <1>3, <1>4
  <2>2. dir \in [Directories -> Bundle] /\ run \in [Procs -> Run]
    BY IdleFacts DEF BundlesInit
  <2>3. /\ ref \in [Clones -> [Refs -> Exports \cup {NoExport}]]
        /\ commit \in [Exports -> SnapshotCommit \cup {None}]
        /\ lock \in [Clones -> Procs \cup {None}] /\ made \in [Exports -> Export \cup {None}]
    BY DEF BundlesInit
  <2>4. changes \in 0..MaxChanges
    BY <1>1 DEF BundlesInit
  <2> QED BY <2>1, <2>2, <2>3, <2>4 DEF BundlesTypeOK
<1>6. \A p \in Procs : RunSound(p)
  BY IdleSound DEF BundlesInit
<1>7. \A d \in Directories : FilesMade(dir[d])
  BY IdleFacts DEF BundlesInit, FilesMade
<1> QED BY <1>3, <1>4, <1>5, <1>6, <1>7 DEF Sound, BundlesInit

\* Each step of the system.
LEMMA SoundStep == ASSUME BundlesAssumption, Sound, [BundlesNext]_bundleVars PROVE Sound'
<1>1. ASSUME NEW p \in Procs, ExportStep(p) PROVE Sound'
  BY <1>1, AskExportSound, WriteFileSound, ConfirmSound, LeavingSound, CollectSound,
     CommitSnapshotSound, NoteSound DEF ExportStep
<1>2. ASSUME NEW p \in Procs, ImportStep(p) PROVE Sound'
  BY <1>2, AskImportSound, ReadFileSound, AskImportFromGitSound, LoadSound DEF ImportStep
<1>3. ASSUME NEW p \in Procs, Interrupt(p) PROVE Sound'
  BY <1>3, InterruptSound
<1>4. ASSUME NEW c \in Clones, Work(c) PROVE Sound'
  BY <1>4, WorkSound
<1>5. ASSUME NEW c \in Clones, NEW other \in Clones, Fetch(c, other) PROVE Sound'
  BY <1>5, FetchSound
<1>6. ASSUME NEW d \in Directories, Clean(d) PROVE Sound'
  BY <1>6, CleanSound
<1>7. CASE UNCHANGED bundleVars
  BY <1>7 DEF bundleVars, Sound, BundlesTypeOK, RunSound, FilesMade, Exporting, Readable
<1> QED BY <1>1, <1>2, <1>3, <1>4, <1>5, <1>6, <1>7 DEF BundlesNext

\* There is a number for the first task.
LEMMA FirstNumber == ASSUME BundlesAssumption PROVE 1 \in Numbers
BY DEF BundlesAssumption, Numbers

\* Everything that is in use exists and is readable where it has to be: the
\* induction hypothesis of all that follows.
THEOREM SoundInvariant == BundlesSpec => []Sound
<1>1. BundlesInit => Sound
  BY SoundInit, FirstNumber, BundlesAssumption
<1>2. Sound /\ [BundlesNext]_bundleVars => Sound'
  BY SoundStep, BundlesAssumption
<1> QED BY <1>1, <1>2, PTL DEF BundlesSpec

\* Every state has its type, and no link leads to a worktree that is not in
\* the same database, also after an import that dropped worktrees.
THEOREM BundlesTypeCorrect == BundlesSpec => []BundlesTypeOK
<1>1. Sound => BundlesTypeOK
  BY DEF Sound
<1> QED BY <1>1, SoundInvariant, PTL

\* A step that is no command of another kind and no import keeps all numbers.
LEMMA NumbersKept ==
    ASSUME Sound, NextUnused,
           \A c \in Clones : \/ store'[c].tasks = store[c].tasks /\ store'[c].next = store[c].next
                             \/ \A n \in store'[c].tasks : n < store'[c].next
    PROVE  NextUnused'
BY DEF NextUnused

\* A command of another kind gives out at most the next number.
LEMMA ChangedNumbers ==
    ASSUME BundlesAssumption, Sound, NextUnused, NEW c \in Clones, NEW image \in Database,
           Changed(c, image), \A n \in image.tasks : n < image.next
    PROVE  NextUnused'
<1> DEFINE now == [image EXCEPT !.events = store[c].events + 1, !.history = changes']
<1>1. now.tasks = image.tasks /\ now.next = image.next
  BY DEF Database
<1>2. store' = [store EXCEPT ![c] = now]
  BY DEF Changed
<1> HIDE DEF now
<1>3. \A d \in Clones : store'[d] = IF d = c THEN now ELSE store[d]
  BY <1>2 DEF Sound, BundlesTypeOK
<1> QED BY <1>1, <1>3 DEF NextUnused

\* Tasks and worktrees.
LEMMA WorkNumbers ==
    ASSUME BundlesAssumption, Sound, NextUnused, NEW c \in Clones, Work(c)
    PROVE  NextUnused'
<1>1. /\ store[c] \in Database /\ (\A n \in store[c].tasks : n \in Nat /\ n < store[c].next)
      /\ store[c].next \in Nat
  BY DEF Sound, BundlesTypeOK, NextUnused, Database, Numbers
<1>2. CASE CreateTask(c)
  <2> DEFINE image == [store[c] EXCEPT !.tasks = @ \cup {store[c].next}, !.next = @ + 1]
  <2>1. store[c].next \in Numbers /\ Changed(c, image)
    BY <1>2 DEF CreateTask
  <2>2. image.tasks = store[c].tasks \cup {store[c].next} /\ image.next = store[c].next + 1
        /\ image \in Database
    <3>1. store[c].next + 1 \in Nat /\ store[c].tasks \cup {store[c].next} \in SUBSET Numbers
      BY <1>1, <2>1 DEF Database
    <3> QED BY <1>1, <3>1 DEF Database
  <2> HIDE DEF image
  <2>3. \A n \in image.tasks : n < image.next
    BY <1>1, <2>2
  <2> QED BY <2>1, <2>2, <2>3, ChangedNumbers
<1>3. CASE EditTask(c)
  <2> DEFINE image == [store[c] EXCEPT !.edited = @ + 1]
  <2>1. changes < MaxChanges /\ changes \in Nat /\ MaxChanges \in Nat /\ store[c].edited <= changes
        /\ store[c].edited \in Nat /\ Changed(c, image)
    BY <1>1, <1>3 DEF EditTask, Changed, Sound, BundlesTypeOK, BundlesAssumption, Database
  <2>2. store[c].edited + 1 \in 0..MaxChanges
    BY <2>1
  <2>3. image.tasks = store[c].tasks /\ image.next = store[c].next /\ image \in Database
    BY <1>1, <2>2 DEF Database
  <2> HIDE DEF image
  <2> QED BY <1>1, <2>1, <2>3, ChangedNumbers
<1>4. CASE EnterTree(c)
  <2>1. PICK t \in Here[c] \ store[c].trees :
            Changed(c, [store[c] EXCEPT !.trees = @ \cup {t}, !.links = @ \cup {t}])
    BY <1>4 DEF EnterTree
  <2> DEFINE image == [store[c] EXCEPT !.trees = @ \cup {t}, !.links = @ \cup {t}]
  <2>2. t \in Trees
    BY DEF BundlesAssumption
  <2>3. image.tasks = store[c].tasks /\ image.next = store[c].next /\ image \in Database
    BY <1>1, <2>2 DEF Database
  <2>4. Changed(c, image)
    BY <2>1
  <2> HIDE DEF image
  <2> QED BY <1>1, <2>3, <2>4, ChangedNumbers
<1> QED BY <1>2, <1>3, <1>4 DEF Work

\* Each step of the system.
LEMMA NumbersStep == ASSUME BundlesAssumption, Sound, NextUnused, [BundlesNext]_bundleVars PROVE NextUnused'
<1>1. ASSUME store' = store PROVE NextUnused'
  BY <1>1 DEF NextUnused
<1>2. ASSUME NEW p \in Procs, Confirm(p) PROVE NextUnused'
  <2>1. \A c \in Clones : store'[c].tasks = store[c].tasks /\ store'[c].next = store[c].next
    BY <1>2 DEF Confirm, Sound, BundlesTypeOK, Database
  <2> QED BY <2>1, NumbersKept
<1>3. ASSUME NEW p \in Procs, Note(p) PROVE NextUnused'
  <2>1. \A c \in Clones : store'[c].tasks = store[c].tasks /\ store'[c].next = store[c].next
    BY <1>3 DEF Note, Sound, BundlesTypeOK, Database
  <2> QED BY <2>1, NumbersKept
<1>4. ASSUME NEW p \in Procs, Load(p) PROVE NextUnused'
  <2> DEFINE new == Loaded(Home[p], run[p].got)
  <2>1. Home[p] \in Clones /\ \A n \in new.tasks : n < new.next
    BY <1>4, LoadedFacts
  <2>2. store' = [store EXCEPT ![Home[p]] = new]
    BY <1>4 DEF Load
  <2> HIDE DEF new
  <2>3. \A d \in Clones : store'[d] = IF d = Home[p] THEN new ELSE store[d]
    BY <2>1, <2>2 DEF Sound, BundlesTypeOK
  <2> QED BY <2>1, <2>3 DEF NextUnused
<1>5. ASSUME NEW c \in Clones, Work(c) PROVE NextUnused'
  BY <1>5, WorkNumbers
<1>6. ASSUME NEW p \in Procs, ExportStep(p) PROVE NextUnused'
  BY <1>1, <1>2, <1>3, <1>6 DEF ExportStep, AskExport, BeginExport, WriteFile, Refuse, Collect, CommitSnapshot, CommitLost
<1>7. ASSUME NEW p \in Procs, ImportStep(p) PROVE NextUnused'
  BY <1>1, <1>4, <1>7 DEF ImportStep, AskImport, ReadFile, AskImportFromGit
<1>8. ASSUME NEW p \in Procs, Interrupt(p) PROVE NextUnused'
  BY <1>1, <1>8 DEF Interrupt
<1>9. ASSUME NEW c \in Clones, NEW other \in Clones, Fetch(c, other) PROVE NextUnused'
  BY <1>1, <1>9 DEF Fetch
<1>10. ASSUME NEW d \in Directories, Clean(d) PROVE NextUnused'
  BY <1>1, <1>10 DEF Clean
<1>11. CASE UNCHANGED bundleVars
  BY <1>1, <1>11 DEF bundleVars
<1> QED BY <1>5, <1>6, <1>7, <1>8, <1>9, <1>10, <1>11 DEF BundlesNext

\* No number is given out twice in a clone, whatever sequences an import found
\* (reconcile_sequences).
THEOREM NextUnusedTheorem == BundlesSpec => []NextUnused
<1>1. BundlesInit => NextUnused
  BY DEF BundlesInit, NextUnused
<1>2. Sound /\ NextUnused /\ [BundlesNext]_bundleVars => NextUnused'
  BY NumbersStep, BundlesAssumption
<1> QED BY <1>1, <1>2, SoundInvariant, PTL DEF BundlesSpec

----------------------------------------------------------------------------
(***************************************************************************)
(* Bundles: what one process does, and what the steps of the others leave. *)
(***************************************************************************)
Moves(p) == ExportStep(p) \/ ImportStep(p) \/ Interrupt(p)

\* What stays the same while a process goes on with its export.
Onward(p) ==
    run'[p].at \in Exporting =>
        /\ run[p].at \in Exporting /\ (run[p].at = "note" => run'[p].at = "note")
        /\ (run'[p].at = "write" => run[p].at = "write")
        /\ run'[p].export = run[p].export /\ run'[p].kind = run[p].kind
        /\ run'[p].tip = run[p].tip /\ run'[p].place = run[p].place

\* A step of one process leaves the others where they are.
LEMMA OnlyOneMoves ==
    ASSUME BundlesAssumption, Sound, NEW p \in Procs, Moves(p)
    PROVE  \A q \in Procs : q # p => run'[q] = run[q]
<1>1. run \in [Procs -> Run]
  BY DEF Sound, BundlesTypeOK
<1>2. ASSUME Leave(p) PROVE \A q \in Procs : q # p => run'[q] = run[q]
  BY <1>1, <1>2 DEF Leave
<1>3. ASSUME NEW step, Go(p, step) PROVE \A q \in Procs : q # p => run'[q] = run[q]
  BY <1>1, <1>3 DEF Go
<1>4. CASE ExportStep(p)
  <2>1. CASE AskExport(p)
    BY <1>1, <2>1 DEF AskExport, BeginExport
  <2>2. CASE WriteFile(p)
    BY <1>1, <2>2 DEF WriteFile
  <2>3. CASE Collect(p)
    BY <1>1, <2>3 DEF Collect
  <2> QED BY <1>2, <1>3, <1>4, <2>1, <2>2, <2>3 DEF ExportStep, Confirm, Refuse, CommitSnapshot, CommitLost, Note
<1>5. CASE ImportStep(p)
  <2>1. CASE AskImport(p)
    BY <1>1, <2>1 DEF AskImport
  <2>2. CASE ReadFile(p)
    BY <1>1, <2>2 DEF ReadFile
  <2>3. CASE AskImportFromGit(p)
    BY <1>1, <2>3 DEF AskImportFromGit
  <2> QED BY <1>2, <1>5, <2>1, <2>2, <2>3 DEF ImportStep, Load
<1>6. CASE Interrupt(p)
  BY <1>2, <1>6 DEF Interrupt
<1> QED BY <1>4, <1>5, <1>6 DEF Moves

\* A process that ends exports no more.
LEMMA LeftIsIdle ==
    ASSUME Sound, NEW p \in Procs, Leave(p)
    PROVE  run'[p] = Idle /\ run'[p].at \notin Exporting /\ Onward(p)
BY LeaveFacts, IdleFacts DEF Sound, Onward, Exporting

\* What an import does is no export.
LEMMA ImportIsNoExport ==
    ASSUME BundlesAssumption, Sound, NEW p \in Procs, ImportStep(p)
    PROVE  run'[p].at \notin Exporting
<1>1. run \in [Procs -> Run]
  BY DEF Sound, BundlesTypeOK
<1>2. ASSUME NEW bundle PROVE Accepting(bundle).at \in {"load", "idle"}
  BY IdleFacts DEF Accepting, Idle
<1>3. CASE AskImport(p)
  <2>1. PICK d : run'[p] = [Idle EXCEPT !.at = "read", !.place = d, !.next = 2,
                                        !.got.manifest = dir[d].manifest]
    BY <1>1, <1>3 DEF AskImport
  <2> QED BY <2>1 DEF Idle, Exporting
<1>4. CASE ReadFile(p)
  <2>1. CASE run[p].next = Len(Files)
    <3>1. PICK bundle : run'[p] = Accepting(bundle)
      BY <1>1, <1>4, <2>1 DEF ReadFile
    <3> QED BY <1>2, <3>1 DEF Exporting
  <2>2. CASE run[p].next # Len(Files)
    <3>1. run[p].at = "read" /\ run[p] \in Run
      BY <1>1, <1>4 DEF ReadFile, At
    <3>2. PICK got : run'[p] = [run[p] EXCEPT !.got = got, !.next = @ + 1]
      BY <1>1, <1>4, <2>2 DEF ReadFile
    <3> QED BY <3>1, <3>2 DEF Exporting, Run
  <2> QED BY <2>1, <2>2
<1>5. CASE AskImportFromGit(p)
  <2>1. PICK bundle : run'[p] = Accepting(bundle)
    BY <1>1, <1>5 DEF AskImportFromGit
  <2> QED BY <1>2, <2>1 DEF Exporting
<1>6. CASE Load(p)
  BY <1>6, LeftIsIdle DEF Load
<1> QED BY <1>3, <1>4, <1>5, <1>6 DEF ImportStep

\* The write of one file.
LEMMA WriteFileFacts ==
    ASSUME Sound, NEW p \in Procs, WriteFile(p)
    PROVE  /\ run[p].at = "write" /\ run[p].next \in 1..5 /\ run[p].place \in Directories
           /\ run[p].export \in Exports /\ made[run[p].export] # None
           /\ run'[p].export = run[p].export /\ run'[p].kind = run[p].kind
           /\ run'[p].tip = run[p].tip /\ run'[p].place = run[p].place
           /\ IF run[p].next = 5 THEN run'[p].at = "check"
                                 ELSE run'[p].at = "write" /\ run'[p].next = run[p].next + 1
           /\ Files[run[p].next] \in File
           /\ dir' = [dir EXCEPT ![run[p].place][Files[run[p].next]] = run[p].export]
<1>1. /\ run[p].at = "write" /\ run[p].next \in 1..5 /\ run[p].place \in Directories
      /\ run[p].export \in Exports /\ made[run[p].export] # None /\ run[p] \in Run /\ run \in [Procs -> Run]
  BY RunOf DEF WriteFile, At, RunSound, Exporting, Sound, BundlesTypeOK
<1>2. run'[p] = IF run[p].next = 5 THEN [run[p] EXCEPT !.at = "check", !.next = 1]
                                   ELSE [run[p] EXCEPT !.next = @ + 1]
  BY <1>1, FilesFacts DEF WriteFile
<1>3. dir' = [dir EXCEPT ![run[p].place][Files[run[p].next]] = run[p].export] /\ Files[run[p].next] \in File
  BY <1>1, FilesFacts DEF WriteFile
<1>4. CASE run[p].next = 5
  BY <1>1, <1>2, <1>3, <1>4 DEF Run
<1>5. CASE run[p].next # 5
  BY <1>1, <1>2, <1>3, <1>5 DEF Run
<1> QED BY <1>4, <1>5

\* A process that goes on has the same export.
LEMMA GoesOn ==
    ASSUME Sound, NEW p \in Procs, NEW step \in {"collect", "commit", "note"}, Go(p, step),
           run[p].at \in Exporting \ {"note"}
    PROVE  Onward(p) /\ run'[p].at = step /\ run'[p].got = run[p].got /\ lock' = lock
<1>1. run'[p] = [run[p] EXCEPT !.at = step] /\ lock' = lock
  BY GoFacts DEF Steps, Sound
<1> QED BY <1>1, RunOf DEF Run, Onward

\* The files are collected.
LEMMA CollectFacts ==
    ASSUME Sound, NEW p \in Procs, Collect(p)
    PROVE  Onward(p) /\ run'[p].at = "commit" /\ run'[p].got = dir[run[p].place]
<1>1. run[p].at = "collect" /\ run[p] \in Run /\ run \in [Procs -> Run]
  BY RunOf DEF Collect, At, Sound, BundlesTypeOK
<1>2. run'[p] = [run[p] EXCEPT !.at = "commit", !.got = dir[run[p].place]]
  BY <1>1 DEF Collect
<1> QED BY <1>1, <1>2 DEF Run, Onward, Exporting

\* Each step of an export but the first one continues it.
LEMMA ExportsGoOn ==
    ASSUME BundlesAssumption, Sound, NEW p \in Procs, Moves(p), ~AskExport(p)
    PROVE  Onward(p)
<1>1. CASE WriteFile(p)
  BY <1>1, WriteFileFacts DEF Onward, Exporting
<1>2. CASE Confirm(p)
  BY <1>2, LeftIsIdle, GoesOn DEF Confirm, At, Exporting
<1>3. CASE Refuse(p) \/ CommitLost(p) \/ Note(p) \/ Interrupt(p)
  BY <1>3, LeftIsIdle DEF Refuse, CommitLost, Note, Interrupt
<1>4. CASE Collect(p)
  BY <1>4, CollectFacts
<1>5. CASE CommitSnapshot(p)
  BY <1>5, LeftIsIdle, GoesOn DEF CommitSnapshot, At, Exporting
<1>6. CASE ImportStep(p)
  BY <1>6, ImportIsNoExport DEF Onward
<1> QED BY <1>1, <1>2, <1>3, <1>4, <1>5, <1>6 DEF Moves, ExportStep

\* The only step to a note is the commit to the ref.
LEMMA NoteAfterCommit ==
    ASSUME BundlesAssumption, Sound, NEW p \in Procs, Moves(p), run'[p].at = "note"
    PROVE  CommitSnapshot(p)
<1>1. CASE AskExport(p)
  <2>1. PICK e, sort, d : BeginExport(p, e, sort, d)
    BY <1>1 DEF AskExport
  <2>2. run \in [Procs -> Run]
    BY DEF Sound, BundlesTypeOK
  <2>3. run'[p] = [Idle EXCEPT !.at = "write", !.kind = sort, !.export = e,
                               !.tip = Tip(Home[p], sort), !.place = d]
    BY <2>1, <2>2 DEF BeginExport
  <2>4. run'[p].at = "write"
    BY <2>3 DEF Idle
  <2> QED BY <2>4
<1>2. CASE WriteFile(p)
  BY <1>2, WriteFileFacts
<1>3. CASE Confirm(p)
  BY <1>3, LeftIsIdle, GoesOn DEF Confirm, At, Exporting
<1>4. CASE Refuse(p) \/ CommitLost(p) \/ Note(p) \/ Interrupt(p)
  BY <1>4, LeftIsIdle DEF Refuse, CommitLost, Note, Interrupt, Exporting
<1>5. CASE Collect(p)
  BY <1>5, CollectFacts
<1>6. CASE ImportStep(p)
  BY <1>6, ImportIsNoExport DEF Exporting
<1> QED BY <1>1, <1>2, <1>3, <1>4, <1>5, <1>6 DEF Moves, ExportStep

----------------------------------------------------------------------------
(***************************************************************************)
(* Bundles: an export that is not over is no other process's, and on no ref. *)
(***************************************************************************)
\* The start of an export e.
Asks(p, c, e, sort, d) ==
    /\ c = Home[p] /\ IsNext(e) /\ made[e] = None /\ d \in Directories
    /\ sort \in {"plain", "snapshot", "publication"}
    /\ run[p].at = "idle" /\ lock[c] = None /\ lock' = [lock EXCEPT ![c] = p]
    /\ UNCHANGED <<store, dir, ref, commit, changes>>
    /\ made' \in [Exports -> Export \cup {None}] /\ made'[e] = BuildManifest(c, sort)
    /\ made'[e] # None /\ \A f \in Exports : f # e => made'[f] = made[f]
    /\ run'[p].at = "write" /\ run'[p].kind = sort /\ run'[p].export = e
    /\ run'[p].tip = Tip(c, sort) /\ run'[p].place = d /\ run'[p].next = 1

\* Every export starts like this.
LEMMA AskExportFacts ==
    ASSUME BundlesAssumption, Sound, NEW p \in Procs, AskExport(p)
    PROVE  \E c \in Clones, e \in Exports, sort \in Kinds[Home[p]], d \in Target[Home[p]] :
              Asks(p, c, e, sort, d)
<1>1. PICK e \in Exports, sort \in Kinds[Home[p]], d \in Target[Home[p]] :
          IsNext(e) /\ BeginExport(p, e, sort, d)
  BY DEF AskExport
<1>2. Home[p] \in Clones /\ d \in Directories /\ sort \in {"plain", "snapshot", "publication"}
  BY DEF BundlesAssumption
<1>3. run' = [run EXCEPT ![p] = [Idle EXCEPT !.at = "write", !.kind = sort, !.export = e,
                                             !.tip = Tip(Home[p], sort), !.place = d]]
      /\ made' = [made EXCEPT ![e] = BuildManifest(Home[p], sort)]
      /\ UNCHANGED <<store, dir, ref, commit, changes>>
  BY <1>1 DEF BeginExport
<1>4. run'[p] = [Idle EXCEPT !.at = "write", !.kind = sort, !.export = e,
                             !.tip = Tip(Home[p], sort), !.place = d]
  BY <1>3 DEF Sound, BundlesTypeOK
<1>5. /\ run'[p].at = "write" /\ run'[p].kind = sort /\ run'[p].export = e
      /\ run'[p].tip = Tip(Home[p], sort) /\ run'[p].place = d /\ run'[p].next = 1
  BY <1>4 DEF Idle
<1>6. Sound'
  BY AskExportSound
<1>7. made'[e] = BuildManifest(Home[p], sort) /\ \A f \in Exports : f # e => made'[f] = made[f]
  BY <1>3 DEF Sound, BundlesTypeOK
<1>8. made' \in [Exports -> Export \cup {None}] /\ made'[e] # None
  BY <1>5, <1>6 DEF Sound, BundlesTypeOK, RunSound, Exporting
<1>9. run[p].at = "idle" /\ lock[Home[p]] = None /\ lock' = [lock EXCEPT ![Home[p]] = p]
  BY DEF AskExport, At, Free
<1>10. made[e] = None
  BY <1>1 DEF IsNext
<1> QED BY <1>1, <1>2, <1>3, <1>5, <1>7, <1>8, <1>9, <1>10 DEF Asks

\* The commit of an export e to the ref k.
CommitsTo(p, c, e, k) ==
    /\ c = Home[p] /\ e = run[p].export /\ k = run[p].kind /\ run[p].at = "commit"
    /\ ref[c][k] = run[p].tip /\ made[e] # None
    /\ UNCHANGED <<store, dir, made, changes>>
    /\ commit'[e] = [files |-> run[p].got, parents |-> TrailerParents(run[p].tip)]
    /\ commit'[e] # None /\ \A f \in Exports : f # e => commit'[f] = commit[f]
    /\ \A c1 \in Clones, r \in Refs : ref'[c1][r] = IF c1 = c /\ r = k THEN e ELSE ref[c1][r]
    /\ IF k = "snapshot" THEN run'[p].at = "note" /\ Onward(p) /\ lock' = lock
                         ELSE run'[p] = Idle /\ Leave(p)

\* Every commit is like this.
LEMMA CommitSnapshotFacts ==
    ASSUME BundlesAssumption, Sound, NEW p \in Procs, CommitSnapshot(p)
    PROVE  \E c \in Clones, e \in Exports, k \in Refs : CommitsTo(p, c, e, k)
<1>1. PICK c \in Clones, e \in Exports, k \in Refs : c = Home[p] /\ e = run[p].export /\ k = run[p].kind
      /\ run[p].at = "commit" /\ made[e] # None
  BY RunOf DEF CommitSnapshot, At, RunSound, Exporting, Refs, BundlesAssumption
<1> DEFINE new == [files |-> run[p].got, parents |-> TrailerParents(run[p].tip)]
<1>2. /\ commit' = [commit EXCEPT ![e] = new] /\ ref' = [ref EXCEPT ![c][k] = e]
      /\ UNCHANGED <<store, dir, made, changes>> /\ ref[c][k] = run[p].tip
  BY <1>1 DEF CommitSnapshot, TipMoved
<1>3. run[p].got \in Bundle /\ TrailerParents(run[p].tip) \in SUBSET Exports
  BY RunOf DEF TrailerParents
<1>4. new \in SnapshotCommit
  BY <1>3 DEF SnapshotCommit
<1> HIDE DEF new
<1>5. new # None
  BY <1>4, NothingAssumption
<1>6. commit'[e] = new /\ \A f \in Exports : f # e => commit'[f] = commit[f]
  BY <1>2 DEF Sound, BundlesTypeOK
<1>7. \A c1 \in Clones, r \in Refs : ref'[c1][r] = IF c1 = c /\ r = k THEN e ELSE ref[c1][r]
  BY <1>2 DEF Sound, BundlesTypeOK
<1>8. IF k = "snapshot" THEN run'[p].at = "note" /\ Onward(p) /\ lock' = lock
                        ELSE run'[p] = Idle /\ Leave(p)
  BY <1>1, LeftIsIdle, GoesOn DEF CommitSnapshot, Exporting
<1>9. commit'[e] = [files |-> run[p].got, parents |-> TrailerParents(run[p].tip)]
  BY <1>6 DEF new
<1> QED BY <1>1, <1>2, <1>5, <1>6, <1>7, <1>8, <1>9 DEF CommitsTo

\* Steps that neither start an export nor commit one.
LEMMA FreshKept ==
    ASSUME Sound, Fresh, commit' = commit, \A e \in Exports : made[e] # None => made'[e] # None,
           \A p \in Procs : run'[p] = run[p] \/ Onward(p)
    PROVE  Fresh'
<1>1. \A p \in Procs : run'[p].at \in Exporting => run[p].at \in Exporting /\ run'[p].export = run[p].export
                          /\ (run'[p].at # "note" => run[p].at # "note")
  BY DEF Onward
<1>2. \A p \in Procs : run'[p].at \in Exporting \ {"note"} => commit'[run'[p].export] = None
  BY <1>1 DEF Fresh
<1>3. \A p, q \in Procs : p # q /\ run'[p].at \in Exporting /\ run'[q].at \in Exporting
                           => run'[p].export # run'[q].export
  BY <1>1 DEF Fresh
<1>4. \A e \in Exports : commit'[e] # None => made'[e] # None
  BY DEF Fresh
<1> QED BY <1>2, <1>3, <1>4 DEF Fresh, Exporting

\* Each step of the system.
LEMMA FreshStep == ASSUME BundlesAssumption, Sound, Fresh, [BundlesNext]_bundleVars PROVE Fresh'
<1>1. ASSUME NEW p \in Procs, AskExport(p) PROVE Fresh'
  <2>0. PICK c \in Clones, e \in Exports, sort \in Kinds[Home[p]], d \in Target[Home[p]] :
            Asks(p, c, e, sort, d)
    BY <1>1, AskExportFacts
  <2>1. /\ made[e] = None /\ commit' = commit /\ made'[e] # None
        /\ \A f \in Exports : f # e => made'[f] = made[f]
        /\ run'[p].export = e
    BY <2>0 DEF Asks
  <2>2. \A q \in Procs : q # p => run'[q] = run[q]
    BY <1>1, OnlyOneMoves DEF Moves, ExportStep
  <2>3. \A q \in Procs : run[q].at \in Exporting => run[q].export # e
    BY <2>1, RunOf DEF RunSound
  <2>4. commit[e] = None
    BY <2>1 DEF Fresh
  <2>5. \A q \in Procs : run'[q].at \in Exporting \ {"note"} => commit'[run'[q].export] = None
    BY <2>1, <2>2, <2>4 DEF Fresh
  <2>6. \A q, r \in Procs : q # r /\ run'[q].at \in Exporting /\ run'[r].at \in Exporting
                           => run'[q].export # run'[r].export
    BY <2>1, <2>2, <2>3 DEF Fresh
  <2>7. \A f \in Exports : commit'[f] # None => made'[f] # None
    BY <2>1 DEF Fresh
  <2> QED BY <2>5, <2>6, <2>7 DEF Fresh, Exporting
<1>2. ASSUME NEW p \in Procs, CommitSnapshot(p) PROVE Fresh'
  <2>0. PICK c \in Clones, e \in Exports, k \in Refs : CommitsTo(p, c, e, k)
    BY <1>2, CommitSnapshotFacts
  <2>1. /\ e = run[p].export /\ run[p].at = "commit" /\ made[e] # None /\ made' = made
        /\ \A f \in Exports : f # e => commit'[f] = commit[f]
        /\ (run'[p].at = "note" /\ Onward(p)) \/ run'[p] = Idle
    BY <2>0 DEF CommitsTo
  <2>2. \A q \in Procs : q # p => run'[q] = run[q]
    BY <1>2, OnlyOneMoves DEF Moves, ExportStep
  <2>3. run'[p].at \in Exporting => run'[p].at = "note" /\ run'[p].export = e
    BY <2>1, IdleFacts DEF Onward, Exporting
  <2>4. \A q \in Procs : q # p /\ run[q].at \in Exporting => run[q].export # e /\ run[q].export \in Exports
    BY <2>1, RunOf DEF Fresh, Exporting, RunSound
  <2>5. \A q \in Procs : run'[q].at \in Exporting \ {"note"} => commit'[run'[q].export] = None
    BY <2>1, <2>2, <2>3, <2>4 DEF Fresh
  <2>6. \A q, r \in Procs : q # r /\ run'[q].at \in Exporting /\ run'[r].at \in Exporting
                           => run'[q].export # run'[r].export
    BY <2>1, <2>2, <2>3, <2>4 DEF Fresh
  <2>7. \A f \in Exports : commit'[f] # None => made'[f] # None
    BY <2>1 DEF Fresh
  <2> QED BY <2>5, <2>6, <2>7 DEF Fresh, Exporting
<1>3. ASSUME NEW p \in Procs, Moves(p), ~AskExport(p), ~CommitSnapshot(p) PROVE Fresh'
  <2>1. commit' = commit /\ made' = made
    BY <1>3 DEF Moves, ExportStep, ImportStep, WriteFile, Confirm, Refuse, Collect, CommitLost, Note,
                AskImport, ReadFile, AskImportFromGit, Load, Interrupt
  <2>2. \A q \in Procs : run'[q] = run[q] \/ Onward(q)
    BY <1>3, OnlyOneMoves, ExportsGoOn
  <2> QED BY <2>1, <2>2, FreshKept
<1>4. ASSUME UNCHANGED <<commit, made, run>> PROVE Fresh'
  BY <1>4, FreshKept
<1>5. (\E c \in Clones : Work(c)) \/ (\E c, other \in Clones : Fetch(c, other))
       \/ (\E d \in Directories : Clean(d)) \/ UNCHANGED bundleVars => UNCHANGED <<commit, made, run>>
  BY DEF Work, CreateTask, EditTask, EnterTree, Changed, Fetch, Clean, bundleVars
<1> QED BY <1>1, <1>2, <1>3, <1>4, <1>5 DEF BundlesNext, Moves

\* In the beginning.
LEMMA FreshInit == BundlesInit => Fresh
BY IdleFacts DEF BundlesInit, Fresh, Exporting

----------------------------------------------------------------------------
(***************************************************************************)
(* Bundles: the noted snapshot is on the chain of its ref.                 *)
(***************************************************************************)
\* A commit is on the chain of its own, and chains go through the parents.
LEMMA ChainBegins == ASSUME NEW e \in Exports PROVE e # NoExport /\ e \in Chain(e)
BY DEF Chain, Exports, NoExport

\* Chains go through the parents.
LEMMA ChainGoesOn ==
    ASSUME NEW e \in Exports, NEW f \in Chain(e), NEW g \in Chain(f)
    PROVE  g \in Chain(e)
BY DEF Chain

\* Chains only grow while commits are not taken back.
LEMMA ChainGrows ==
    ASSUME NEW e, NEW f \in Chain(e),
           \A x \in Exports : commit[x] # None => commit'[x] # None /\ commit[x].parents \subseteq commit'[x].parents
    PROVE  f \in Chain(e)'
<1>1. \A S \in SUBSET Exports : Closed(S)' => Closed(S)
  BY DEF Closed
<1> QED BY <1>1 DEF Chain

\* A step that notes nothing, where chains only grow.
LEMMA NotedKept ==
    ASSUME Noted,
           \A c \in Clones : store'[c].last = store[c].last \/ store'[c].last = NoExport,
           \A c \in Clones : Chain(ref[c]["snapshot"]) \subseteq Chain(ref[c]["snapshot"])',
           \A p \in Procs : run'[p] = run[p] \/ run'[p].at # "note",
           BundlesAssumption
    PROVE  Noted'
<1>1. \A p \in Procs : Home[p] \in Clones
  BY DEF BundlesAssumption
<1>2. LastOnChain'
  BY DEF Noted, LastOnChain
<1>3. \A p \in Procs : run'[p].at = "note" => run'[p].kind = "snapshot"
                                              /\ run'[p].export \in Chain(ref[Home[p]]["snapshot"])'
  BY <1>1 DEF Noted, At
<1> QED BY <1>2, <1>3 DEF Noted, At

\* The new tip has the old one for its parent.
LEMMA CommitSnapshotNoted ==
    ASSUME BundlesAssumption, Sound, Fresh, Noted, NEW p \in Procs, CommitSnapshot(p)
    PROVE  Noted'
<1>1. PICK c \in Clones, e \in Exports, k \in Refs : CommitsTo(p, c, e, k)
  BY CommitSnapshotFacts
<1>2. commit[e] = None
  BY <1>1 DEF CommitsTo, Fresh, Exporting
<1>3. \A x \in Exports : commit[x] # None => commit'[x] # None /\ commit[x].parents \subseteq commit'[x].parents
  BY <1>1, <1>2 DEF CommitsTo
<1>4. ASSUME NEW tip \in Exports, tip = run[p].tip, NEW f \in Chain(tip)
      PROVE  f \in Chain(e)'
  <2>1. commit'[e] # None /\ commit'[e].parents = {tip}
    BY <1>1, <1>4 DEF CommitsTo, TrailerParents, Exports, NoExport
  <2>2. tip \in Chain(e)'
    <3>1. \A S \in SUBSET Exports : Closed(S)' /\ e \in S => tip \in S
      BY <2>1 DEF Closed
    <3> QED BY <3>1, ChainBegins DEF Chain
  <2>3. f \in Chain(tip)'
    BY <1>3, <1>4, ChainGrows
  <2> QED BY <2>2, <2>3 DEF Chain
<1>5. ASSUME NEW d \in Clones PROVE Chain(ref[d]["snapshot"]) \subseteq Chain(ref[d]["snapshot"])'
  <2>1. CASE d = c /\ k = "snapshot"
    <3>1. ref'[d]["snapshot"] = e /\ ref[d]["snapshot"] = run[p].tip
      BY <1>1, <2>1 DEF CommitsTo, Refs
    <3>2. ASSUME NEW f \in Chain(ref[d]["snapshot"]) PROVE f \in Chain(ref[d]["snapshot"])'
      <4>1. PICK tip \in Exports : tip = run[p].tip
        BY <3>1, <3>2, RunOf DEF Chain
      <4>2. f \in Chain(tip)
        BY <3>1, <3>2, <4>1
      <4>3. f \in Chain(e)'
        BY <1>4, <4>1, <4>2
      <4> QED BY <3>1, <4>3 DEF Chain, Closed
    <3> QED BY <3>2
  <2>2. CASE ~(d = c /\ k = "snapshot")
    <3>1. PICK old : old = ref[d]["snapshot"] /\ ref'[d]["snapshot"] = old
      BY <1>1, <2>2 DEF CommitsTo, Refs
    <3>2. \A f \in Chain(old) : f \in Chain(old)'
      BY <1>3, ChainGrows
    <3> QED BY <3>1, <3>2 DEF Chain, Closed
  <2> QED BY <2>1, <2>2
<1>6. store' = store
  BY <1>1 DEF CommitsTo
<1>7. LastOnChain'
  BY <1>5, <1>6 DEF Noted, LastOnChain
<1>8. ASSUME NEW q \in Procs, run'[q].at = "note"
      PROVE  run'[q].kind = "snapshot" /\ run'[q].export \in Chain(ref[Home[q]]["snapshot"])'
  <2>1. CASE q # p
    <3>1. run'[q] = run[q] /\ Home[q] \in Clones
      BY <2>1, OnlyOneMoves DEF Moves, ExportStep, BundlesAssumption
    <3> QED BY <1>5, <1>8, <3>1 DEF Noted, At
  <2>2. CASE q = p
    <3>1. k = "snapshot" /\ Onward(p) /\ c = Home[p] /\ e = run[p].export /\ k = run[p].kind
      BY <1>1, <1>8, <2>2, IdleFacts DEF CommitsTo
    <3>2. run'[p].kind = "snapshot" /\ run'[p].export = e
      BY <1>8, <2>2, <3>1 DEF Onward, Exporting
    <3>3. ref'[Home[p]]["snapshot"] = e
      BY <1>1, <3>1 DEF CommitsTo, Refs
    <3>4. e \in Chain(e)'
      BY ChainBegins DEF Chain
    <3> QED BY <2>2, <3>2, <3>3, <3>4 DEF Chain, Closed
  <2> QED BY <2>1, <2>2
<1> QED BY <1>7, <1>8 DEF Noted, At

\* What is noted is on the chain.
LEMMA NoteNoted ==
    ASSUME BundlesAssumption, Sound, Noted, NEW p \in Procs, Note(p)
    PROVE  Noted'
<1>1. PICK e : e = run[p].export /\ e \in Chain(ref[Home[p]]["snapshot"])
  BY DEF Noted, Note
<1>2. Home[p] \in Clones
  BY DEF BundlesAssumption
<1>3. UNCHANGED <<ref, commit>> /\ \A c \in Clones : store'[c].last = IF c = Home[p] THEN e ELSE store[c].last
  BY <1>1, <1>2 DEF Note, Sound, BundlesTypeOK, Database
<1>4. \A q \in Procs : q # p => run'[q] = run[q]
  BY OnlyOneMoves DEF Moves, ExportStep
<1>5. run'[p].at # "note"
  BY LeftIsIdle DEF Note, Exporting
<1>6. \A c \in Clones : Chain(ref[c]["snapshot"])' = Chain(ref[c]["snapshot"])
  BY <1>3 DEF Chain, Closed
<1>7. LastOnChain'
  BY <1>1, <1>3, <1>6 DEF Noted, LastOnChain
<1>8. \A q \in Procs : run'[q].at = "note" => run'[q].kind = "snapshot"
                                              /\ run'[q].export \in Chain(ref[Home[q]]["snapshot"])'
  BY <1>4, <1>5, <1>6 DEF Noted, At, BundlesAssumption
<1> QED BY <1>7, <1>8 DEF Noted, At

\* A fetch forwards a ref to a tip whose chain holds the old one.
LEMMA FetchNoted ==
    ASSUME BundlesAssumption, Sound, Noted, NEW c \in Clones, NEW other \in Clones, Fetch(c, other)
    PROVE  Noted'
<1>1. PICK r \in Refs : /\ ref[c][r] # NoExport => ref[c][r] \in Chain(ref[other][r])
                        /\ ref' = [ref EXCEPT ![c][r] = ref[other][r]]
                        /\ ref[other][r] # NoExport
  BY DEF Fetch
<1>2. UNCHANGED <<store, commit, run>>
  BY DEF Fetch
<1>3. ASSUME NEW d \in Clones PROVE Chain(ref[d]["snapshot"]) \subseteq Chain(ref[d]["snapshot"])'
  <2>1. CASE d = c /\ r = "snapshot"
    <3>0. PICK old \in Exports \cup {NoExport}, tip \in Exports :
              old = ref[d]["snapshot"] /\ tip = ref[other]["snapshot"]
      BY <1>1, <2>1 DEF Sound, BundlesTypeOK, Refs
    <3>1. tip = ref'[d]["snapshot"] /\ old = ref[d]["snapshot"] /\ (old # NoExport => old \in Chain(tip))
      BY <1>1, <2>1, <3>0 DEF Sound, BundlesTypeOK, Refs
    <3>2. \A f \in Chain(old) : f \in Chain(tip)
      <4>1. CASE old = NoExport
        BY <4>1 DEF Chain
      <4>2. CASE old # NoExport
        BY <3>1, <4>2, ChainGoesOn
      <4> QED BY <4>1, <4>2
    <3>3. Chain(tip) = Chain(ref[d]["snapshot"])'
      BY <1>2, <3>1 DEF Chain, Closed
    <3> QED BY <3>1, <3>2, <3>3
  <2>2. CASE ~(d = c /\ r = "snapshot")
    <3>1. ref'[d]["snapshot"] = ref[d]["snapshot"]
      BY <1>1, <2>2 DEF Sound, BundlesTypeOK, Refs
    <3> QED BY <1>2, <3>1 DEF Chain, Closed
  <2> QED BY <2>1, <2>2
<1> QED BY <1>2, <1>3, NotedKept

\* Each step of the system.
LEMMA NotedStep == ASSUME BundlesAssumption, Sound, Fresh, Noted, [BundlesNext]_bundleVars PROVE Noted'
<1>1. ASSUME UNCHANGED <<ref, commit>>
      PROVE  \A c \in Clones : Chain(ref[c]["snapshot"]) \subseteq Chain(ref[c]["snapshot"])'
  BY <1>1 DEF Chain, Closed
<1>2. ASSUME NEW p \in Procs, Moves(p), ~CommitSnapshot(p), ~Note(p) PROVE Noted'
  <2>1. UNCHANGED <<ref, commit>>
    BY <1>2 DEF Moves, ExportStep, ImportStep, AskExport, BeginExport, WriteFile, Confirm, Refuse, Collect,
                CommitLost, AskImport, ReadFile, AskImportFromGit, Load, Interrupt
  <2>2. ASSUME NEW c \in Clones PROVE store'[c].last = store[c].last \/ store'[c].last = NoExport
    <3>1. CASE Confirm(p)
      BY <3>1 DEF Confirm, Sound, BundlesTypeOK, Database
    <3>2. CASE Load(p)
      <4> DEFINE new == Loaded(Home[p], run[p].got)
      <4>1. Home[p] \in Clones /\ new.last = NoExport
        BY <3>2, LoadedFacts
      <4>2. store' = [store EXCEPT ![Home[p]] = new]
        BY <3>2 DEF Load
      <4> HIDE DEF new
      <4> QED BY <4>1, <4>2 DEF Sound, BundlesTypeOK
    <3>3. CASE store' = store
      BY <3>3
    <3> QED BY <1>2, <3>1, <3>2, <3>3 DEF Moves, ExportStep, ImportStep, AskExport, BeginExport, WriteFile, Refuse,
                Collect, CommitLost, AskImport, ReadFile, AskImportFromGit, Interrupt
  <2>3. \A q \in Procs : run'[q] = run[q] \/ run'[q].at # "note"
    BY <1>2, OnlyOneMoves, NoteAfterCommit
  <2> QED BY <1>1, <2>1, <2>2, <2>3, NotedKept
<1>3. ASSUME NEW c \in Clones, Work(c) PROVE Noted'
  <2>1. UNCHANGED <<ref, commit, run>>
    BY <1>3 DEF Work, CreateTask, EditTask, EnterTree, Changed
  <2>2. \A d \in Clones : store'[d].last = store[d].last
    <3>1. store[c] \in Database /\ store \in [Clones -> Database]
      BY DEF Sound, BundlesTypeOK
    <3>2. CASE CreateTask(c)
      BY <3>1, <3>2 DEF CreateTask, Changed, Database
    <3>3. CASE EditTask(c)
      BY <3>1, <3>3 DEF EditTask, Changed, Database
    <3>4. CASE EnterTree(c)
      BY <3>1, <3>4 DEF EnterTree, Changed, Database
    <3> QED BY <1>3, <3>2, <3>3, <3>4 DEF Work
  <2> QED BY <1>1, <2>1, <2>2, NotedKept
<1>4. ASSUME NEW d \in Directories, Clean(d) PROVE Noted'
  BY <1>1, <1>4, NotedKept DEF Clean
<1>5. CASE UNCHANGED bundleVars
  BY <1>1, <1>5, NotedKept DEF bundleVars
<1> QED BY <1>2, <1>3, <1>4, <1>5, CommitSnapshotNoted, NoteNoted, FetchNoted DEF BundlesNext, Moves

\* In the beginning.
LEMMA NotedInit == BundlesInit => Noted
BY IdleFacts DEF BundlesInit, Noted, LastOnChain, At

\* The snapshot a database notes is on the chain of its ref, across fetches,
\* commits of others and deaths between the commit and the note.
THEOREM LastOnChainTheorem == BundlesSpec => []LastOnChain
<1>1. BundlesInit => Fresh /\ Noted
  BY FreshInit, NotedInit
<1>2. Sound /\ Fresh /\ Noted /\ [BundlesNext]_bundleVars => Fresh' /\ Noted'
  BY FreshStep, NotedStep, BundlesAssumption
<1>3. Noted => LastOnChain
  BY DEF Noted
<1> QED BY <1>1, <1>2, <1>3, SoundInvariant, PTL DEF BundlesSpec

----------------------------------------------------------------------------
(***************************************************************************)
(* Bundles: an export works alone in its directory, where each directory   *)
(* belongs to one clone.                                                   *)
(***************************************************************************)
\* A file is unreadable or names an export.
LEMMA BundleValues ==
    ASSUME BundlesAssumption, NEW bundle \in Bundle, NEW file \in File
    PROVE  bundle[file] \in Nat /\ bundle[file] \in Exports \cup {Unreadable}
BY DEF BundlesAssumption, Bundle, Exports, Unreadable

\* What lies in a directory.
LEMMA BundleOfDir ==
    ASSUME Sound, NEW d \in Directories
    PROVE  dir[d] \in Bundle
BY DEF Sound, BundlesTypeOK

\* Two processes that write, check or collect have different directories.
LEMMA PlacesApart ==
    ASSUME BundlesAssumption, OwnDirectories, Alone, NEW p \in Procs, NEW q \in Procs, p # q,
           run[p].at \in {"write", "check", "collect"}, run[q].at \in {"write", "check", "collect"}
    PROVE  run[p].place # run[q].place
<1>1. Home[p] \in Clones /\ Home[q] \in Clones
  BY DEF BundlesAssumption
<1>2. /\ lock[Home[p]] = p /\ lock[Home[q]] = q
      /\ run[p].place \in Target[Home[p]] /\ run[q].place \in Target[Home[q]]
  BY DEF Alone, WritesAlone, Exporting
<1> QED BY <1>1, <1>2 DEF OwnDirectories

\* A process that exports is not disturbed by what another one does.
LEMMA OthersWriteAlone ==
    ASSUME BundlesAssumption, OwnDirectories, Alone, NEW p \in Procs,
           \A q \in Procs : q # p => run'[q] = run[q],
           \A c \in Clones : lock'[c] = lock[c] \/ lock[c] \in {p, None},
           \A d \in Directories : dir'[d] = dir[d] \/ (run[p].at = "write" /\ d = run[p].place),
           NEW q \in Procs, q # p, RunSound(q)
    PROVE  WritesAlone(q)'
<1>1. Home[q] \in Clones /\ run'[q] = run[q] /\ q # None
  BY DEF BundlesAssumption
<1>2. WritesAlone(q)
  BY DEF Alone
<1>3. run[q].at \in Exporting => lock'[Home[q]] = q
  BY <1>1, <1>2 DEF WritesAlone
<1>4. run[q].at \in {"write", "check", "collect"} => run[q].place \in Directories /\ dir'[run[q].place] = dir[run[q].place]
  BY PlacesApart DEF RunSound, Exporting
<1>5. run[q].at \in Exporting => run'[q].at \in Exporting
  BY <1>1
<1> QED BY <1>1, <1>2, <1>3, <1>4 DEF WritesAlone, AllOf

\* A step of one process that changes no file.
LEMMA AloneKept ==
    ASSUME BundlesAssumption, OwnDirectories, Sound, Alone, NEW p \in Procs,
           \A q \in Procs : q # p => run'[q] = run[q],
           \A c \in Clones : lock'[c] = lock[c] \/ lock[c] \in {p, None},
           dir' = dir, made' = made, WritesAlone(p)'
    PROVE  Alone'
<1>1. \A q \in Procs : WritesAlone(q)'
  <2>1. ASSUME NEW q \in Procs, q # p PROVE WritesAlone(q)'
    BY <2>1, OthersWriteAlone DEF Sound
  <2> QED BY <2>1
<1>2. \A d \in Directories : FilesInOrder(d)'
  BY DEF Alone, FilesInOrder
<1>3. \A d \in Directories, file \in File : dir'[d][file] # Unreadable => \E c \in Clones : d \in Target[c]
  BY DEF Alone
<1>4. \A e, f \in Exports : e < f /\ made'[f] # None => made'[e] # None
  BY DEF Alone
<1> QED BY <1>1, <1>2, <1>3, <1>4 DEF Alone

\* A process that ends.
LEMMA LeaveAlone ==
    ASSUME BundlesAssumption, OwnDirectories, Sound, Alone, NEW p \in Procs, Leave(p), Moves(p),
           dir' = dir, made' = made
    PROVE  Alone'
<1>1. \A q \in Procs : q # p => run'[q] = run[q]
  BY OnlyOneMoves
<1>2. \A c \in Clones : lock'[c] = lock[c] \/ lock[c] \in {p, None}
  BY LeaveFacts DEF Sound
<1>3. WritesAlone(p)'
  BY LeaveFacts, IdleFacts DEF Sound, WritesAlone, Exporting
<1> QED BY <1>1, <1>2, <1>3, AloneKept

\* The new export is later than every file in its directory.
LEMMA AskExportAlone ==
    ASSUME BundlesAssumption, OwnDirectories, Sound, Alone, NEW p \in Procs, AskExport(p)
    PROVE  Alone'
<1>1. PICK c \in Clones, e \in Exports, sort \in Kinds[Home[p]], d \in Target[Home[p]] :
          Asks(p, c, e, sort, d)
  BY AskExportFacts
<1>2. \A q \in Procs : q # p => run'[q] = run[q]
  BY OnlyOneMoves DEF Moves, ExportStep
<1>3. /\ lock' = [lock EXCEPT ![c] = p] /\ lock[c] = None /\ c = Home[p] /\ dir' = dir
      /\ run'[p].at = "write" /\ run'[p].export = e /\ run'[p].place = d /\ run'[p].next = 1
      /\ d \in Directories /\ IsNext(e) /\ made[e] = None
      /\ made'[e] # None /\ \A f \in Exports : f # e => made'[f] = made[f]
  BY <1>1 DEF Asks
<1>4. lock'[c] = p /\ \A c1 \in Clones : lock'[c1] = lock[c1] \/ lock[c1] \in {p, None}
  BY <1>3 DEF Sound, BundlesTypeOK
<1>5. \A file \in File : dir[d][file] <= e
  <2>1. ASSUME NEW file \in File PROVE dir[d][file] <= e
    <3>1. dir[d][file] \in Nat /\ dir[d][file] \in Exports \cup {Unreadable} /\ e \in Nat
      BY <1>3, BundleOfDir, BundleValues DEF Exports
    <3>2. dir[d][file] = Unreadable \/ made[dir[d][file]] # None
      BY <1>3 DEF Sound, FilesMade
    <3>3. dir[d][file] \in Exports /\ e < dir[d][file] /\ made[dir[d][file]] # None => made[e] # None
      BY DEF Alone
    <3> QED BY <1>3, <3>1, <3>2, <3>3 DEF Unreadable
  <2> QED BY <2>1
<1>6. WritesAlone(p)'
  <2>1. \A i \in 1..5 : ~(i < 1)
    OBVIOUS
  <2>2. lock'[Home[p]] = p /\ run'[p].place \in Target[Home[p]]
    BY <1>1, <1>3, <1>4
  <2> QED BY <1>3, <1>5, <2>1, <2>2 DEF WritesAlone
<1>7. \A q \in Procs : WritesAlone(q)'
  <2>1. ASSUME NEW q \in Procs, q # p PROVE WritesAlone(q)'
    BY <1>2, <1>3, <1>4, <2>1, OthersWriteAlone DEF Sound
  <2> QED BY <1>6, <2>1
<1>8. \A f, g \in Exports : f < g /\ made'[g] # None => made'[f] # None
  <2>1. \A f \in Exports : f < e => made[f] # None
    BY <1>3 DEF IsNext
  <2> QED BY <1>3, <2>1 DEF Alone
<1>9. \A x \in Directories : FilesInOrder(x)'
  BY <1>3 DEF Alone, FilesInOrder
<1>10. \A x \in Directories, file \in File : dir'[x][file] # Unreadable => \E c1 \in Clones : x \in Target[c1]
  BY <1>3 DEF Alone
<1> QED BY <1>7, <1>8, <1>9, <1>10 DEF Alone

\* The files before this one are of the same export, those after it older.
LEMMA WriteFileAlone ==
    ASSUME BundlesAssumption, OwnDirectories, Sound, Alone, NEW p \in Procs, WriteFile(p)
    PROVE  Alone'
<1>1. PICK n \in 1..5, d \in Directories, e \in Exports :
          n = run[p].next /\ d = run[p].place /\ e = run[p].export
  BY WriteFileFacts
<1>2. /\ run[p].at = "write" /\ run'[p].export = e /\ run'[p].place = d
      /\ IF n = 5 THEN run'[p].at = "check" ELSE run'[p].at = "write" /\ run'[p].next = n + 1
      /\ Files[n] \in File /\ dir' = [dir EXCEPT ![d][Files[n]] = e]
  BY <1>1, WriteFileFacts
<1>3. lock' = lock /\ made' = made /\ \A q \in Procs : q # p => run'[q] = run[q]
  BY OnlyOneMoves DEF WriteFile, Moves, ExportStep
<1>4. /\ \A x \in Directories : x # d => dir'[x] = dir[x]
      /\ dir'[d][Files[n]] = e /\ \A file \in File : file # Files[n] => dir'[d][file] = dir[d][file]
  BY <1>2 DEF Sound, BundlesTypeOK, Bundle
<1>5. /\ lock[Home[p]] = p /\ d \in Target[Home[p]] /\ Home[p] \in Clones
      /\ \A i \in 1..5 : i < n => dir[d][Files[i]] = e
      /\ \A file \in File : dir[d][file] <= e
  BY <1>1, <1>2 DEF Alone, WritesAlone, Exporting, BundlesAssumption
<1>6. \A file \in File : dir'[d][file] <= e
  BY <1>4, <1>5 DEF Exports
<1>7. \A i \in 1..5 : i <= n => dir'[d][Files[i]] = e
  <2>1. ASSUME NEW i \in 1..5, i <= n PROVE dir'[d][Files[i]] = e
    <3>1. CASE i = n
      BY <1>4, <3>1
    <3>2. CASE i # n
      <4>1. i < n /\ Files[i] # Files[n] /\ Files[i] \in File
        BY <2>1, <3>2, FilesFacts
      <4> QED BY <1>4, <1>5, <4>1
    <3> QED BY <3>1, <3>2
  <2> QED BY <2>1
<1>8. WritesAlone(p)'
  <2>1. CASE n = 5
    <3>1. AllOf(dir'[d], e)
      BY <1>7, <2>1, FilesFacts DEF AllOf
    <3> QED BY <1>2, <1>3, <1>5, <2>1, <3>1 DEF WritesAlone, AllOf
  <2>2. CASE n # 5
    <3>1. \A i \in 1..5 : i < n + 1 => dir'[d][Files[i]] = e
      BY <1>7
    <3> QED BY <1>2, <1>3, <1>5, <1>6, <2>2, <3>1 DEF WritesAlone
  <2> QED BY <2>1, <2>2
<1>9. \A q \in Procs : WritesAlone(q)'
  <2>1. ASSUME NEW q \in Procs, q # p PROVE WritesAlone(q)'
    BY <1>1, <1>2, <1>3, <1>4, <2>1, OthersWriteAlone DEF Sound
  <2> QED BY <1>8, <2>1
<1>10. \A x \in Directories : FilesInOrder(x)'
  <2>1. ASSUME NEW x \in Directories, x # d PROVE FilesInOrder(x)'
    BY <1>4, <2>1 DEF Alone, FilesInOrder
  <2>2. FilesInOrder(d)'
    <3>1. ASSUME NEW i \in 1..5, NEW j \in 1..5, i < j,
                 dir'[d][Files[i]] # Unreadable, dir'[d][Files[j]] # Unreadable
          PROVE  dir'[d][Files[j]] <= dir'[d][Files[i]]
      <4>1. CASE i <= n
        BY <1>6, <1>7, <4>1, FilesFacts
      <4>2. CASE ~(i <= n)
        <5>1. Files[i] # Files[n] /\ Files[j] # Files[n] /\ Files[i] \in File /\ Files[j] \in File
          BY <3>1, <4>2, FilesFacts
        <5>2. dir'[d][Files[i]] = dir[d][Files[i]] /\ dir'[d][Files[j]] = dir[d][Files[j]]
          BY <1>4, <5>1
        <5> QED BY <3>1, <5>2 DEF Alone, FilesInOrder
      <4> QED BY <4>1, <4>2
    <3> QED BY <3>1 DEF FilesInOrder
  <2> QED BY <2>1, <2>2
<1>11. \A x \in Directories, file \in File : dir'[x][file] # Unreadable => \E c \in Clones : x \in Target[c]
  BY <1>4, <1>5 DEF Alone
<1>12. \A f, g \in Exports : f < g /\ made'[g] # None => made'[f] # None
  BY <1>3 DEF Alone
<1> QED BY <1>9, <1>10, <1>11, <1>12 DEF Alone

\* What was read back is of this export alone.
LEMMA ConfirmAlone ==
    ASSUME BundlesAssumption, OwnDirectories, Sound, Alone, NEW p \in Procs, Confirm(p)
    PROVE  Alone'
<1>1. run[p].at = "check" /\ ReadsBack(p) /\ UNCHANGED <<dir, made>>
  BY DEF Confirm, At
<1>2. CASE run[p].kind = "plain"
  BY <1>1, <1>2, LeaveAlone DEF Confirm, Moves, ExportStep
<1>3. CASE run[p].kind # "plain"
  <2>1. Onward(p) /\ run'[p].at = "collect" /\ lock' = lock
    BY <1>1, <1>3, GoesOn DEF Confirm, Exporting
  <2>2. run'[p].export = run[p].export /\ run'[p].place = run[p].place
    BY <2>1 DEF Onward, Exporting
  <2>3. /\ lock[Home[p]] = p /\ run[p].place \in Target[Home[p]]
        /\ AllOf(dir[run[p].place], run[p].export) \/ AllOf(dir[run[p].place], Unreadable)
    BY <1>1 DEF Alone, WritesAlone, Exporting
  <2>4. dir[run[p].place]["manifest"] # Unreadable
    BY <1>1 DEF ReadsBack, Accepted, Readable, File
  <2>5. AllOf(dir[run[p].place], run[p].export)
    BY <2>3, <2>4 DEF AllOf, File
  <2>6. WritesAlone(p)'
    BY <1>1, <2>1, <2>2, <2>3, <2>5 DEF WritesAlone, AllOf
  <2>7. \A q \in Procs : q # p => run'[q] = run[q]
    BY OnlyOneMoves DEF Moves, ExportStep
  <2> QED BY <1>1, <2>1, <2>6, <2>7, AloneKept
<1> QED BY <1>2, <1>3

\* And so is what is collected.
LEMMA CollectAlone ==
    ASSUME BundlesAssumption, OwnDirectories, Sound, Alone, NEW p \in Procs, Collect(p)
    PROVE  Alone'
<1>1. run[p].at = "collect" /\ UNCHANGED <<dir, made, lock>>
  BY DEF Collect, At
<1>2. Onward(p) /\ run'[p].at = "commit" /\ run'[p].got = dir[run[p].place]
  BY CollectFacts
<1>3. run'[p].export = run[p].export
  BY <1>2 DEF Onward, Exporting
<1>4. lock[Home[p]] = p /\ AllOf(dir[run[p].place], run[p].export)
  BY <1>1 DEF Alone, WritesAlone, Exporting
<1>5. WritesAlone(p)'
  BY <1>1, <1>2, <1>3, <1>4 DEF WritesAlone, AllOf
<1>6. \A q \in Procs : q # p => run'[q] = run[q]
  BY OnlyOneMoves DEF Moves, ExportStep
<1> QED BY <1>1, <1>5, <1>6, AloneKept

\* The commit is at its end, or the note follows.
LEMMA CommitSnapshotAlone ==
    ASSUME BundlesAssumption, OwnDirectories, Sound, Alone, NEW p \in Procs, CommitSnapshot(p)
    PROVE  Alone'
<1>1. PICK c \in Clones, e \in Exports, k \in Refs : CommitsTo(p, c, e, k)
  BY CommitSnapshotFacts
<1>2. UNCHANGED <<dir, made>> /\ run[p].at = "commit"
  BY <1>1 DEF CommitsTo
<1>3. CASE k # "snapshot"
  BY <1>1, <1>2, <1>3, LeaveAlone DEF CommitsTo, Moves, ExportStep
<1>4. CASE k = "snapshot"
  <2>1. run'[p].at = "note" /\ lock' = lock
    BY <1>1, <1>4 DEF CommitsTo
  <2>2. lock[Home[p]] = p
    BY <1>2 DEF Alone, WritesAlone, Exporting
  <2>3. WritesAlone(p)'
    BY <2>1, <2>2 DEF WritesAlone
  <2>4. \A q \in Procs : q # p => run'[q] = run[q]
    BY OnlyOneMoves DEF Moves, ExportStep
  <2> QED BY <1>2, <2>1, <2>3, <2>4, AloneKept
<1> QED BY <1>3, <1>4

\* An import writes no files.
LEMMA ImportAlone ==
    ASSUME BundlesAssumption, OwnDirectories, Sound, Alone, NEW p \in Procs, ImportStep(p)
    PROVE  Alone'
<1>1. CASE Load(p)
  BY <1>1, LeaveAlone DEF Load, Moves, ImportStep
<1>2. CASE ~Load(p)
  <2>1. UNCHANGED <<dir, made, lock>>
    BY <1>2 DEF ImportStep, AskImport, ReadFile, AskImportFromGit
  <2>2. \A q \in Procs : q # p => run'[q] = run[q]
    BY OnlyOneMoves DEF Moves
  <2>3. WritesAlone(p)'
    BY ImportIsNoExport DEF WritesAlone, Exporting
  <2> QED BY <2>1, <2>2, <2>3, AloneKept
<1> QED BY <1>1, <1>2

\* A half-written file is unreadable.
LEMMA InterruptAlone ==
    ASSUME BundlesAssumption, OwnDirectories, Sound, Alone, NEW p \in Procs, Interrupt(p)
    PROVE  Alone'
<1>1. Leave(p) /\ made' = made /\ Moves(p)
  BY DEF Interrupt, Moves
<1>2. CASE dir' = dir
  BY <1>1, <1>2, LeaveAlone
<1>3. CASE run[p].at = "write"
           /\ dir' = [dir EXCEPT ![run[p].place][Files[run[p].next]] = Unreadable]
  <2>1. PICK d \in Directories, n \in 1..5 : d = run[p].place /\ n = run[p].next
    BY <1>3, RunOf DEF RunSound, Exporting
  <2>2. \A x \in Directories : x # d => dir'[x] = dir[x]
    BY <1>3, <2>1 DEF Sound, BundlesTypeOK
  <2>3. \A x \in Directories, file \in File : dir'[x][file] \in {dir[x][file], Unreadable}
    BY <1>3, <2>1, FilesFacts DEF Sound, BundlesTypeOK, Bundle
  <2>4. \A x \in Directories : FilesInOrder(x)'
    <3>1. ASSUME NEW x \in Directories, NEW i \in 1..5, NEW j \in 1..5, i < j,
                 dir'[x][Files[i]] # Unreadable, dir'[x][Files[j]] # Unreadable
          PROVE  dir'[x][Files[j]] <= dir'[x][Files[i]]
      <4>1. dir'[x][Files[i]] = dir[x][Files[i]] /\ dir'[x][Files[j]] = dir[x][Files[j]]
        BY <2>3, <3>1, FilesFacts
      <4> QED BY <3>1, <4>1 DEF Alone, FilesInOrder
    <3> QED BY <3>1 DEF FilesInOrder
  <2>5. \A x \in Directories, file \in File : dir'[x][file] # Unreadable => \E c \in Clones : x \in Target[c]
    BY <2>3 DEF Alone
  <2>6. \A q \in Procs : WritesAlone(q)'
    <3>1. ASSUME NEW q \in Procs, q # p PROVE WritesAlone(q)'
      <4>1. \A r \in Procs : r # p => run'[r] = run[r]
        BY <1>1, OnlyOneMoves
      <4>2. \A c \in Clones : lock'[c] = lock[c] \/ lock[c] \in {p, None}
        BY <1>1, LeaveFacts DEF Sound
      <4> QED BY <1>3, <2>1, <2>2, <3>1, <4>1, <4>2, OthersWriteAlone DEF Sound
    <3>2. WritesAlone(p)'
      BY <1>1, LeaveFacts, IdleFacts DEF Sound, WritesAlone, Exporting
    <3> QED BY <3>1, <3>2
  <2>7. \A f, g \in Exports : f < g /\ made'[g] # None => made'[f] # None
    BY <1>1 DEF Alone
  <2> QED BY <2>4, <2>5, <2>6, <2>7 DEF Alone
<1> QED BY <1>2, <1>3 DEF Interrupt, At

\* A directory is emptied under one process at most.
LEMMA CleanAlone ==
    ASSUME BundlesAssumption, OwnDirectories, Sound, Alone, NEW d \in Directories, Clean(d)
    PROVE  Alone'
<1>1. PICK p \in Procs : run[p].at = "check" /\ run[p].place = d
  BY DEF Clean, At
<1>2. UNCHANGED <<made, lock, run>> /\ dir' = [dir EXCEPT ![d] = Empty]
  BY DEF Clean
<1>3. /\ dir'[d] = Empty /\ \A x \in Directories : x # d => dir'[x] = dir[x]
  BY <1>2 DEF Sound, BundlesTypeOK
<1>4. ASSUME NEW q \in Procs PROVE WritesAlone(q)'
  <2>1. WritesAlone(q) /\ RunSound(q)
    BY DEF Alone, Sound
  <2>2. CASE q = p
    <3>1. AllOf(dir'[d], Unreadable)
      BY <1>3, IdleFacts DEF AllOf
    <3> QED BY <1>1, <1>2, <2>1, <2>2, <3>1 DEF WritesAlone, AllOf, Exporting
  <2>3. CASE q # p
    <3>1. run[q].at \in {"write", "check", "collect"} => run[q].place \in Directories /\ run[q].place # d
      BY <1>1, <2>1, <2>3, PlacesApart DEF RunSound, Exporting
    <3>2. run[q].at \in {"write", "check", "collect"} => dir'[run[q].place] = dir[run[q].place]
      BY <1>3, <3>1
    <3> QED BY <1>2, <2>1, <3>2 DEF WritesAlone, AllOf
  <2> QED BY <2>2, <2>3
<1>5. \A x \in Directories : FilesInOrder(x)'
  <2>1. FilesInOrder(d)'
    BY <1>3, IdleFacts, FilesFacts DEF FilesInOrder
  <2>2. ASSUME NEW x \in Directories, x # d PROVE FilesInOrder(x)'
    BY <1>3, <2>2 DEF Alone, FilesInOrder
  <2> QED BY <2>1, <2>2
<1>6. \A x \in Directories, file \in File : dir'[x][file] # Unreadable => \E c \in Clones : x \in Target[c]
  BY <1>3, IdleFacts DEF Alone
<1>7. \A f, g \in Exports : f < g /\ made'[g] # None => made'[f] # None
  BY <1>2 DEF Alone
<1> QED BY <1>4, <1>5, <1>6, <1>7 DEF Alone

\* Steps without files, locks and processes.
LEMMA AloneSame ==
    ASSUME Alone, UNCHANGED <<dir, lock, run, made>>
    PROVE  Alone'
<1>1. \A p \in Procs : WritesAlone(p)'
  BY DEF Alone, WritesAlone, AllOf, Exporting
<1>2. \A d \in Directories : FilesInOrder(d)'
  BY DEF Alone, FilesInOrder
<1> QED BY <1>1, <1>2 DEF Alone

\* Each step of the system.
LEMMA AloneStep ==
    ASSUME BundlesAssumption, OwnDirectories, Sound, Alone, [BundlesNext]_bundleVars
    PROVE  Alone'
<1>1. ASSUME NEW p \in Procs, Refuse(p) \/ CommitLost(p) \/ Note(p) PROVE Alone'
  BY <1>1, LeaveAlone DEF Refuse, CommitLost, Note, Moves, ExportStep
<1>2. ASSUME NEW p \in Procs, ExportStep(p) PROVE Alone'
  BY <1>1, <1>2, AskExportAlone, WriteFileAlone, ConfirmAlone, CollectAlone, CommitSnapshotAlone DEF ExportStep
<1>3. (\E c \in Clones : Work(c)) \/ (\E c, other \in Clones : Fetch(c, other)) \/ UNCHANGED bundleVars
      => UNCHANGED <<dir, lock, run, made>>
  BY DEF Work, CreateTask, EditTask, EnterTree, Changed, Fetch, bundleVars
<1> QED BY <1>2, <1>3, ImportAlone, InterruptAlone, CleanAlone, AloneSame DEF BundlesNext

\* In the beginning.
LEMMA AloneInit == ASSUME BundlesAssumption, BundlesInit PROVE Alone
<1>1. \A p \in Procs : WritesAlone(p)
  BY IdleFacts DEF BundlesInit, WritesAlone, Exporting
<1>2. \A d \in Directories : FilesInOrder(d)
  BY IdleFacts, FilesFacts DEF BundlesInit, FilesInOrder
<1>3. \A d \in Directories, file \in File : dir[d][file] = Unreadable
  BY IdleFacts DEF BundlesInit
<1>4. \A e \in Exports : made[e] = None
  BY DEF BundlesInit
<1> QED BY <1>1, <1>2, <1>3, <1>4 DEF Alone

----------------------------------------------------------------------------
(***************************************************************************)
(* Bundles: what commits, refs and running exports tell of each other.     *)
(***************************************************************************)
\* Steps without commits, refs and new exports.
LEMMA HistoryKept ==
    ASSUME BundlesAssumption, Sound, Fresh, History, ref' = ref, commit' = commit, made' = made,
           \A p \in Procs : run'[p] = run[p] \/ Onward(p)
    PROVE  History'
<1>1. \A p \in Procs : run'[p].at \in Exporting =>
          /\ run[p].at \in Exporting /\ run'[p].export = run[p].export
          /\ run'[p].kind = run[p].kind /\ run'[p].tip = run[p].tip
  BY DEF Onward
<1>2. \A p \in Procs : run'[p].at \in Exporting =>
         /\ made'[run'[p].export].parents = TrailerParents(run'[p].tip)
         /\ made'[run'[p].export].redacted <=> run'[p].kind = "publication"
         /\ run'[p].tip # NoExport => commit'[run'[p].tip] # None
                                      /\ (made'[run'[p].tip].redacted <=> run'[p].kind = "publication")
  BY <1>1 DEF History, CommitTells, RefTells, ExportTells, Tells
<1>3. \A e \in Exports : CommitTells(e)'
  BY DEF History, CommitTells, AllOf
<1>4. \A c \in Clones, r \in Refs : RefTells(c, r)'
  BY DEF History, RefTells, Tells
<1>5. \A p \in Procs : ExportTells(p)'
  BY <1>2 DEF ExportTells, Tells, Exporting, TrailerParents
<1> QED BY <1>3, <1>4, <1>5 DEF History

\* In the beginning.
LEMMA HistoryInit == ASSUME BundlesInit PROVE History
BY IdleFacts DEF BundlesInit, History, CommitTells, RefTells, ExportTells, Exporting

\* A ref takes over a tip of its own kind.
LEMMA FetchHistory ==
    ASSUME BundlesAssumption, Sound, History, NEW c \in Clones, NEW other \in Clones, Fetch(c, other)
    PROVE  History'
<1>1. PICK r \in Refs : ref[other][r] # NoExport /\ ref' = [ref EXCEPT ![c][r] = ref[other][r]]
  BY DEF Fetch
<1>2. UNCHANGED <<commit, made, run>>
  BY DEF Fetch
<1>3. \A d \in Clones, s \in Refs : ref'[d][s] = IF d = c /\ s = r THEN ref[other][r] ELSE ref[d][s]
  BY <1>1 DEF Sound, BundlesTypeOK
<1>4. \A d \in Clones, s \in Refs : ref'[d][s] # NoExport =>
          commit'[ref'[d][s]] # None /\ (made'[ref'[d][s]].redacted <=> s = "publication")
  BY <1>2, <1>3 DEF History, CommitTells, RefTells, ExportTells, Tells
<1>5. \A e \in Exports : CommitTells(e)'
  BY <1>2 DEF History, CommitTells, AllOf
<1>6. \A d \in Clones, s \in Refs : RefTells(d, s)'
  BY <1>4 DEF RefTells, Tells
<1>7. \A p \in Procs : ExportTells(p)'
  BY <1>2 DEF History, ExportTells, Tells, Exporting, TrailerParents
<1> QED BY <1>5, <1>6, <1>7 DEF History

\* The manifest names the export at the tip for its parent.
LEMMA AskExportHistory ==
    ASSUME BundlesAssumption, Sound, Fresh, History, NEW p \in Procs, AskExport(p)
    PROVE  History'
<1>1. PICK c \in Clones, e \in Exports, sort \in Kinds[Home[p]], d \in Target[Home[p]] :
          Asks(p, c, e, sort, d)
  BY AskExportFacts
<1>2. /\ made[e] = None /\ UNCHANGED <<ref, commit>> /\ made'[e] = BuildManifest(c, sort)
      /\ \A f \in Exports : f # e => made'[f] = made[f]
      /\ run'[p].at = "write" /\ run'[p].export = e /\ run'[p].kind = sort /\ run'[p].tip = Tip(c, sort)
      /\ sort \in {"plain", "snapshot", "publication"}
  BY <1>1 DEF Asks
<1>3. \A f \in Exports : commit[f] # None => f # e /\ made'[f] = made[f]
  BY <1>2 DEF Fresh
<1>4. PICK tip \in Exports \cup {NoExport} : tip = Tip(c, sort)
  BY <1>2 DEF Tip, Sound, BundlesTypeOK, Refs
<1>5. tip # NoExport => /\ commit[tip] # None /\ (made[tip].redacted <=> sort = "publication")
                        /\ commit[tip].files.manifest = tip
  <2>1. tip # NoExport => sort \in Refs /\ tip = ref[c][sort]
    BY <1>2, <1>4 DEF Tip, Refs
  <2> QED BY <1>4, <2>1 DEF History, CommitTells, RefTells, ExportTells, Tells, AllOf, File
<1>6. made'[e].parents = TrailerParents(tip) /\ (made'[e].redacted <=> sort = "publication")
  <2>1. made'[e].parents = Parents(tip) /\ made'[e].redacted = (sort = "publication")
    BY <1>2, <1>4 DEF BuildManifest
  <2>2. Parents(tip) = TrailerParents(tip)
    BY <1>5 DEF Parents, TrailerParents
  <2> QED BY <2>1, <2>2
<1>7. \A q \in Procs : q # p => run'[q] = run[q]
  BY OnlyOneMoves DEF Moves, ExportStep
<1>8. ASSUME NEW q \in Procs, run'[q].at \in Exporting
      PROVE  /\ made'[run'[q].export].parents = TrailerParents(run'[q].tip)
             /\ made'[run'[q].export].redacted <=> run'[q].kind = "publication"
             /\ run'[q].tip # NoExport => commit'[run'[q].tip] # None
                                      /\ (made'[run'[q].tip].redacted <=> run'[q].kind = "publication")
  <2>1. CASE q = p
    <3>1. tip # NoExport => made'[tip] = made[tip] /\ commit'[tip] = commit[tip]
      BY <1>2, <1>3, <1>4, <1>5
    <3>2. run'[q].export = e /\ run'[q].kind = sort /\ run'[q].tip = tip
      BY <1>2, <1>4, <2>1
    <3>3. tip # NoExport => commit'[tip] # None /\ (made'[tip].redacted <=> sort = "publication")
      BY <1>5, <3>1
    <3>4. made'[e].redacted <=> sort = "publication"
      BY <1>6
    <3> QED BY <1>6, <3>2, <3>3, <3>4
  <2>2. CASE q # p
    <3>1. run'[q] = run[q] /\ run[q].export \in Exports /\ made[run[q].export] # None
          /\ run[q].tip \in Exports \cup {NoExport}
      BY <1>7, <1>8, <2>2, RunOf DEF RunSound
    <3>2. made'[run[q].export] = made[run[q].export]
      BY <1>2, <3>1
    <3>3. run[q].tip # NoExport => made'[run[q].tip] = made[run[q].tip] /\ commit[run[q].tip] # None
      BY <1>3, <1>8, <3>1 DEF History, CommitTells, RefTells, ExportTells, Tells
    <3> QED BY <1>2, <1>8, <3>1, <3>2, <3>3 DEF History, CommitTells, RefTells, ExportTells, Tells
  <2> QED BY <2>1, <2>2
<1>9. \A f \in Exports : commit'[f] # None =>
         /\ AllOf(commit'[f].files, f) /\ commit'[f].parents = made'[f].parents
         /\ \A g \in commit'[f].parents : commit'[g] # None /\ (made'[g].redacted <=> made'[f].redacted)
  <2>1. ASSUME NEW f \in Exports, commit[f] # None, NEW g \in commit[f].parents PROVE g \in Exports
    BY <2>1 DEF Sound, BundlesTypeOK, SnapshotCommit
  <2> QED BY <1>2, <1>3, <2>1 DEF History, CommitTells
<1>10. \A d1 \in Clones, r \in Refs : ref'[d1][r] # NoExport =>
          commit'[ref'[d1][r]] # None /\ (made'[ref'[d1][r]].redacted <=> r = "publication")
  <2>1. \A d1 \in Clones, r \in Refs : ref[d1][r] \in Exports \cup {NoExport}
    BY DEF Sound, BundlesTypeOK
  <2> QED BY <1>2, <1>3, <2>1 DEF History, CommitTells, RefTells, ExportTells, Tells
<1>11. \A f \in Exports : CommitTells(f)'
  BY <1>9 DEF CommitTells, AllOf
<1>12. \A d1 \in Clones, r \in Refs : RefTells(d1, r)'
  BY <1>10 DEF RefTells, Tells
<1>13. \A q \in Procs : ExportTells(q)'
  BY <1>8 DEF ExportTells, Tells, Exporting, TrailerParents
<1> QED BY <1>11, <1>12, <1>13 DEF History

\* The tip has not moved, so the commit has the same parent.
LEMMA CommitSnapshotHistory ==
    ASSUME BundlesAssumption, Sound, Fresh, Alone, History, NEW p \in Procs, CommitSnapshot(p)
    PROVE  History'
<1>1. PICK c \in Clones, e \in Exports, k \in Refs : CommitsTo(p, c, e, k)
  BY CommitSnapshotFacts
<1>2. PICK tip \in Exports \cup {NoExport}, got \in Bundle : tip = run[p].tip /\ got = run[p].got
  BY RunOf
<1>3. /\ e = run[p].export /\ k = run[p].kind /\ run[p].at = "commit" /\ made' = made
      /\ commit'[e] = [files |-> got, parents |-> TrailerParents(tip)]
      /\ commit'[e] # None /\ \A f \in Exports : f # e => commit'[f] = commit[f]
      /\ \A c1 \in Clones, r \in Refs : ref'[c1][r] = IF c1 = c /\ r = k THEN e ELSE ref[c1][r]
  BY <1>1, <1>2 DEF CommitsTo
<1>4. /\ AllOf(got, e) /\ made[e].parents = TrailerParents(tip)
      /\ made[e].redacted <=> k = "publication"
      /\ tip # NoExport => commit[tip] # None /\ (made[tip].redacted <=> k = "publication")
  BY <1>2, <1>3 DEF Alone, WritesAlone, History, ExportTells, Tells, Exporting
<1>5. \A f \in Exports : commit[f] # None => commit'[f] # None
  BY <1>3
<1>6. ASSUME NEW f \in Exports, commit'[f] # None
      PROVE  /\ AllOf(commit'[f].files, f) /\ commit'[f].parents = made'[f].parents
             /\ \A g \in commit'[f].parents : commit'[g] # None /\ (made'[g].redacted <=> made'[f].redacted)
  <2>1. CASE f = e
    <3>1. commit'[e].files = got /\ commit'[e].parents = TrailerParents(tip)
      BY <1>3
    <3>2. \A g \in TrailerParents(tip) : g = tip /\ tip # NoExport
      BY DEF TrailerParents
    <3>3. tip # NoExport => commit'[tip] # None /\ (made'[tip].redacted <=> made'[e].redacted)
      BY <1>3, <1>4, <1>5
    <3> QED BY <1>3, <1>4, <2>1, <3>1, <3>2, <3>3
  <2>2. CASE f # e
    <3>1. commit'[f] = commit[f] /\ commit[f] # None
      BY <1>3, <1>6, <2>2
    <3>2. \A g \in commit[f].parents : g \in Exports
      BY <3>1 DEF Sound, BundlesTypeOK, SnapshotCommit
    <3> QED BY <1>3, <1>5, <3>1, <3>2 DEF History, CommitTells
  <2> QED BY <2>1, <2>2
<1>7. \A d \in Clones, r \in Refs : ref'[d][r] # NoExport =>
          commit'[ref'[d][r]] # None /\ (made'[ref'[d][r]].redacted <=> r = "publication")
  <2>1. \A d \in Clones, r \in Refs : ref[d][r] \in Exports \cup {NoExport}
    BY DEF Sound, BundlesTypeOK
  <2> QED BY <1>3, <1>4, <1>5, <2>1 DEF History, CommitTells, RefTells, ExportTells, Tells
<1>8. ASSUME NEW q \in Procs, run'[q].at \in Exporting
      PROVE  /\ made'[run'[q].export].parents = TrailerParents(run'[q].tip)
             /\ made'[run'[q].export].redacted <=> run'[q].kind = "publication"
             /\ run'[q].tip # NoExport => commit'[run'[q].tip] # None
                                      /\ (made'[run'[q].tip].redacted <=> run'[q].kind = "publication")
  <2>1. run[q].at \in Exporting /\ run'[q].export = run[q].export /\ run'[q].kind = run[q].kind
        /\ run'[q].tip = run[q].tip
    <3>1. CASE q # p
      BY <1>8, <3>1, OnlyOneMoves DEF Moves, ExportStep
    <3>2. CASE q = p
      <4>1. Onward(p)
        BY <1>1, <1>8, <3>2, IdleFacts DEF CommitsTo, Exporting
      <4> QED BY <1>8, <3>2, <4>1 DEF Onward
    <3> QED BY <3>1, <3>2
  <2>2. run[q].tip \in Exports \cup {NoExport}
    BY RunOf
  <2> QED BY <1>3, <1>5, <2>1, <2>2 DEF History, CommitTells, RefTells, ExportTells, Tells
<1>11. \A f \in Exports : CommitTells(f)'
  BY <1>6 DEF CommitTells, AllOf
<1>12. \A d1 \in Clones, r \in Refs : RefTells(d1, r)'
  BY <1>7 DEF RefTells, Tells
<1>13. \A q \in Procs : ExportTells(q)'
  BY <1>8 DEF ExportTells, Tells, Exporting, TrailerParents
<1> QED BY <1>11, <1>12, <1>13 DEF History

\* Each step of the system.
LEMMA HistoryStep ==
    ASSUME BundlesAssumption, Sound, Fresh, Alone, History, [BundlesNext]_bundleVars
    PROVE  History'
<1>1. ASSUME NEW p \in Procs, Moves(p), ~AskExport(p), ~CommitSnapshot(p) PROVE History'
  <2>1. commit' = commit /\ made' = made /\ ref' = ref
    BY <1>1 DEF Moves, ExportStep, ImportStep, WriteFile, Confirm, Refuse, Collect, CommitLost, Note,
                AskImport, ReadFile, AskImportFromGit, Load, Interrupt
  <2>2. \A q \in Procs : run'[q] = run[q] \/ Onward(q)
    BY <1>1, OnlyOneMoves, ExportsGoOn
  <2> QED BY <2>1, <2>2, HistoryKept
<1>2. ASSUME UNCHANGED <<commit, made, run, ref>> PROVE History'
  BY <1>2, HistoryKept
<1>3. (\E c \in Clones : Work(c)) \/ (\E d \in Directories : Clean(d)) \/ UNCHANGED bundleVars
      => UNCHANGED <<commit, made, run, ref>>
  BY DEF Work, CreateTask, EditTask, EnterTree, Changed, Clean, bundleVars
<1> QED BY <1>1, <1>2, <1>3, AskExportHistory, CommitSnapshotHistory, FetchHistory DEF BundlesNext, Moves

\* Chains stay among the commits of one kind.
LEMMA HistoryTellsAll ==
    ASSUME BundlesAssumption, Sound, Fresh, History PROVE SnapshotIsExport
<1>1. ASSUME NEW e \in Exports, commit[e] # None
      PROVE  (\A file \in File : commit[e].files[file] = e) /\ commit[e].parents = made[e].parents
  BY <1>1 DEF History, CommitTells, AllOf
<1>2. ASSUME NEW c \in Clones, NEW r \in Refs, NEW e \in Chain(ref[c][r])
      PROVE  made[e].redacted = (r = "publication")
  <2> DEFINE S == {f \in Exports : commit[f] # None /\ (made[f].redacted <=> r = "publication")}
  <2>1. Closed(S)
    <3>1. \A f \in Exports : commit[f] # None => commit[f].parents \subseteq Exports
      BY DEF Sound, BundlesTypeOK, SnapshotCommit
    <3> QED BY <3>1 DEF Closed, History, CommitTells
  <2>2. ref[c][r] \in S
    BY <1>2 DEF Chain, History, RefTells, Tells, Sound, BundlesTypeOK
  <2>3. e \in S
    <3> HIDE DEF S
    <3>1. S \in SUBSET Exports
      BY DEF S
    <3> QED BY <1>2, <2>1, <2>2, <3>1 DEF Chain
  <2>4. made[e].redacted <=> r = "publication"
    BY <2>3
  <2>5. made[e].redacted = TRUE \/ made[e].redacted = FALSE
    BY <2>3 DEF Fresh, Sound, BundlesTypeOK, Export
  <2> HIDE DEF S
  <2> QED BY <2>4, <2>5
<1> QED BY <1>1, <1>2 DEF SnapshotIsExport

\* A snapshot commit is the files of its own export and its parent is the one
\* its manifest names; what is on the publication ref is redacted and nothing
\* on the snapshot ref is.  Where two clones export to one directory the files
\* can be mixed, and this does not hold.
THEOREM SnapshotIsExportTheorem == ASSUME OwnDirectories PROVE BundlesSpec => []SnapshotIsExport
<1>1. BundlesInit => Fresh /\ Alone /\ History
  BY FreshInit, AloneInit, HistoryInit, BundlesAssumption
<1>2. Sound /\ Fresh /\ Alone /\ History /\ [BundlesNext]_bundleVars => Fresh' /\ Alone' /\ History'
  BY FreshStep, AloneStep, HistoryStep, BundlesAssumption, OwnDirectories
<1>3. Sound /\ Fresh /\ History => SnapshotIsExport
  BY HistoryTellsAll, BundlesAssumption
<1> QED BY <1>1, <1>2, <1>3, SoundInvariant, PTL DEF BundlesSpec

----------------------------------------------------------------------------
(***************************************************************************)
(* Bundles: what lies in a directory is refused or whole.                  *)
(***************************************************************************)
\* What an export holds.
LEMMA ContentOf ==
    ASSUME Sound, NEW e \in Exports, made[e] # None
    PROVE  /\ Content(e) \in Database /\ Content(e).events \in Nat /\ Content(e).loads \in Nat
BY DEF Sound, BundlesTypeOK, Export, Content, Database

\* Exports in a directory or under way are made.
LEMMA NearIsMade ==
    ASSUME Sound, NEW c \in Clones, NEW e \in Near(c),
           \A x \in Clones : Target[x] \subseteq Directories
    PROVE  e \in Exports /\ made[e] # None
<1>1. CASE \E d \in Target[c], file \in File : dir[d][file] = e
  BY <1>1 DEF Near, Sound, FilesMade, Exports, Unreadable
<1>2. CASE \E p \in Procs : Home[p] = c /\ At(p, "write") /\ run[p].export = e
  BY <1>2 DEF Near, Sound, RunSound, Exporting, At
<1> QED BY <1>1, <1>2 DEF Near

\* The database of a clone is the same, has more events, or was loaded anew.
MovedOn(c) ==
    \/ store'[c].loads > store[c].loads
    \/ store'[c].loads = store[c].loads /\ store'[c].events > store[c].events
    \/ store'[c].loads = store[c].loads /\ store'[c].events = store[c].events /\ Same(store'[c], store[c])

\* A snapshot has one event more than the database.
LEMMA StoreOf ==
    ASSUME Sound, NEW c \in Clones
    PROVE  /\ store[c] \in Database /\ store[c].loads \in Nat /\ store[c].events \in Nat
           /\ Snapshot(c).loads = store[c].loads /\ Snapshot(c).events = store[c].events + 1
           /\ Same(Snapshot(c), store[c])
<1>1. store[c] \in Database
  BY DEF Sound, BundlesTypeOK
<1> QED BY <1>1 DEF Database, Snapshot, Same

\* What is older than a database stays so.
LEMMA OlderMovesOn ==
    ASSUME Sound, Sound', NEW c \in Clones, MovedOn(c), NEW a \in Database,
           a.loads <= store[c].loads, Older(a, Snapshot(c))
    PROVE  a.loads <= store'[c].loads /\ Older(a, Snapshot(c)')
<1>1. /\ a.loads \in Nat /\ a.events \in Nat
  BY DEF Database
<1>2. /\ store'[c].loads \in Nat /\ store'[c].events \in Nat
      /\ Snapshot(c)'.loads = store'[c].loads /\ Snapshot(c)'.events = store'[c].events + 1
      /\ Same(Snapshot(c)', store'[c])
  <2>1. store'[c] \in Database
    BY DEF Sound, BundlesTypeOK
  <2> QED BY <2>1 DEF Database, Snapshot, Same
<1>3. /\ store[c].loads \in Nat /\ store[c].events \in Nat
      /\ Snapshot(c).loads = store[c].loads /\ Snapshot(c).events = store[c].events + 1
      /\ Same(Snapshot(c), store[c])
  BY StoreOf
<1>4. store'[c].loads >= store[c].loads
  BY <1>2, <1>3 DEF MovedOn
<1>5. a.loads <= store'[c].loads
  BY <1>1, <1>2, <1>3, <1>4
<1>6. ASSUME a.loads = store'[c].loads
      PROVE  a.events <= store'[c].events + 1
             /\ (a.events = store'[c].events + 1 => Same(a, Snapshot(c)'))
  <2>1. a.loads = store[c].loads /\ store'[c].loads = store[c].loads
    BY <1>1, <1>2, <1>3, <1>4, <1>6
  <2>2. a.events <= store[c].events + 1 /\ (a.events = store[c].events + 1 => Same(a, Snapshot(c)))
    BY <1>3, <2>1 DEF Older
  <2>3. CASE store'[c].events > store[c].events
    BY <1>1, <1>2, <1>3, <2>2, <2>3
  <2>4. CASE store'[c].events = store[c].events /\ Same(store'[c], store[c])
    <3>1. Same(a, Snapshot(c)) => Same(a, Snapshot(c)')
      BY <1>2, <1>3, <2>4 DEF Same
    <3> QED BY <1>2, <2>2, <2>4, <3>1
  <2> QED BY <1>2, <1>3, <2>1, <2>3, <2>4 DEF MovedOn
<1>7. Older(a, Snapshot(c)')
  BY <1>2, <1>6 DEF Older
<1> QED BY <1>5, <1>7

\* A step that makes no export.
LEMMA CountedKept ==
    ASSUME BundlesAssumption, Sound, Sound', Counted,
           \A c \in Clones : \A e \in Exports : e \in Near(c)' => e \in Near(c),
           \A c \in Clones : MovedOn(c),
           \A e \in Exports : made[e] # None => made'[e] = made[e]
    PROVE  Counted'
<1>1. \A c \in Clones : Target[c] \subseteq Directories
  BY DEF BundlesAssumption
<1>2. ASSUME NEW c \in Clones, NEW e \in Exports, e \in Near(c)'
      PROVE  e \in Near(c) /\ Content(e)' = Content(e) /\ Content(e) \in Database
  BY <1>1, <1>2, NearIsMade, ContentOf DEF Content
<1>3. ASSUME NEW c \in Clones, NEW e \in Exports, e \in Near(c)'
      PROVE  Content(e)'.loads <= store'[c].loads /\ Older(Content(e)', Snapshot(c)')
  <2>1. PICK a \in Database : a = Content(e)
    BY <1>2, <1>3
  <2>2. a.loads <= store[c].loads /\ Older(a, Snapshot(c))
    BY <1>2, <1>3, <2>1 DEF Counted
  <2>3. a.loads <= store'[c].loads /\ Older(a, Snapshot(c)')
    BY <2>2, OlderMovesOn
  <2> QED BY <1>2, <1>3, <2>1, <2>3
<1>4. ASSUME NEW c \in Clones, NEW e \in Exports, NEW f \in Exports, e \in Near(c)', f \in Near(c)', e <= f
      PROVE  Older(Content(e)', Content(f)')
  <2>1. Older(Content(e), Content(f))
    BY <1>2, <1>4 DEF Counted
  <2> QED BY <1>2, <1>4, <2>1
<1>5. \A c \in Clones : Near(c)' \subseteq Exports
  BY DEF Near
<1> QED BY <1>3, <1>4, <1>5 DEF Counted

\* A database that does not change.
LEMMA SameStore == ASSUME Sound, NEW c \in Clones, store'[c] = store[c] PROVE MovedOn(c)
BY DEF MovedOn, Same

\* Every command of another kind appends an event.
LEMMA WorkMovesOn ==
    ASSUME BundlesAssumption, Sound, NEW c \in Clones, Work(c)
    PROVE  \A x \in Clones : MovedOn(x)
<1>1. store[c] \in Database /\ store \in [Clones -> Database]
  BY DEF Sound, BundlesTypeOK
<1>2. ASSUME NEW image, Changed(c, image), image.loads = store[c].loads PROVE \A x \in Clones : MovedOn(x)
  <2>1. store'[c].loads = store[c].loads /\ store'[c].events = store[c].events + 1
        /\ \A x \in Clones : x # c => store'[x] = store[x]
    <3>1. Sound'
      BY WorkSound
    <3>2. store' = [store EXCEPT ![c] = [image EXCEPT !.events = store[c].events + 1, !.history = changes']]
      BY <1>2 DEF Changed
    <3>3. store'[c] = [image EXCEPT !.events = store[c].events + 1, !.history = changes']
          /\ \A x \in Clones : x # c => store'[x] = store[x]
      BY <1>1, <3>2
    <3>4. store'[c] \in Database
      BY <3>1 DEF Sound, BundlesTypeOK
    <3> QED BY <1>2, <3>3, <3>4 DEF Database
  <2>2. MovedOn(c)
    BY <2>1, StoreOf DEF MovedOn
  <2> QED BY <2>1, <2>2, SameStore
<1> QED BY <1>1, <1>2 DEF Work, CreateTask, EditTask, EnterTree, Database

\* A step that puts no export's files anywhere new leaves what is near a clone.
LEMMA NearKept ==
    ASSUME NEW c \in Clones, NEW e \in Exports, e \in Near(c)',
           \A d \in Directories, file \in File :
               dir'[d][file] \in {dir[d][file], Unreadable},
           \A p \in Procs : run'[p].at = "write" => run[p].at = "write" /\ run'[p].export = run[p].export,
           Target[c] \subseteq Directories
    PROVE  e \in Near(c)
<1>1. CASE \E d \in Target[c], file \in File : dir'[d][file] = e
  BY <1>1 DEF Near, Exports, Unreadable
<1>2. CASE \E p \in Procs : Home[p] = c /\ run'[p].at = "write" /\ run'[p].export = e
  BY <1>2 DEF Near, At
<1> QED BY <1>1, <1>2 DEF Near, At

\* A process writes to the directories of its own clone.
LEMMA WriteFileNear ==
    ASSUME BundlesAssumption, OwnDirectories, Sound, Alone, NEW p \in Procs, WriteFile(p),
           NEW c \in Clones, NEW e \in Exports, e \in Near(c)'
    PROVE  e \in Near(c)
<1>1. PICK n \in 1..5, d \in Directories, x \in Exports :
          n = run[p].next /\ d = run[p].place /\ x = run[p].export
  BY WriteFileFacts
<1>2. run[p].at = "write" /\ run'[p].export = x
      /\ Files[n] \in File /\ dir' = [dir EXCEPT ![d][Files[n]] = x]
  BY <1>1, WriteFileFacts
<1>3. \A q \in Procs : run'[q].at = "write" => run[q].at = "write" /\ run'[q].export = run[q].export
  BY <1>1, <1>2, OnlyOneMoves DEF Moves, ExportStep
<1>4. Target[c] \subseteq Directories /\ Home[p] \in Clones
  BY DEF BundlesAssumption
<1>5. CASE \E q \in Procs : Home[q] = c /\ run'[q].at = "write" /\ run'[q].export = e
  BY <1>3, <1>5 DEF Near, At
<1>6. CASE \E t \in Target[c], file \in File : dir'[t][file] = e
  <2>1. PICK t \in Target[c], file \in File : dir'[t][file] = e
    BY <1>6
  <2>2. CASE t = d /\ file = Files[n]
    <3>1. e = x
      BY <1>2, <1>4, <2>1, <2>2 DEF Sound, BundlesTypeOK, Bundle
    <3>2. d \in Target[Home[p]]
      BY <1>1, <1>2 DEF Alone, WritesAlone
    <3>3. Home[p] = c
      BY <1>4, <2>2, <3>2 DEF OwnDirectories
    <3> QED BY <1>1, <1>2, <3>1, <3>3 DEF Near, At
  <2>3. CASE ~(t = d /\ file = Files[n])
    <3>1. dir'[t][file] = dir[t][file]
      BY <1>2, <1>4, <2>3 DEF Sound, BundlesTypeOK, Bundle
    <3> QED BY <2>1, <3>1 DEF Near
  <2> QED BY <2>2, <2>3
<1> QED BY <1>5, <1>6 DEF Near, At

\* An image is as old as itself.
LEMMA OlderRefl == ASSUME NEW a \in Database PROVE Older(a, a)
BY DEF Older, Same, Database

\* The new export is the database's state of now, with one event more.
LEMMA AskExportCounted ==
    ASSUME BundlesAssumption, OwnDirectories, Sound, Alone, Counted, NEW p \in Procs, AskExport(p)
    PROVE  Counted'
<1>1. PICK c \in Clones, e \in Exports, sort \in Kinds[Home[p]], d \in Target[Home[p]] :
          Asks(p, c, e, sort, d)
  BY AskExportFacts
<1>2. /\ c = Home[p] /\ IsNext(e) /\ made[e] = None /\ UNCHANGED <<store, dir>>
      /\ made'[e] = BuildManifest(c, sort) /\ made'[e] # None
      /\ \A f \in Exports : f # e => made'[f] = made[f]
      /\ run'[p].export = e
  BY <1>1 DEF Asks
<1>3. \A q \in Procs : q # p => run'[q] = run[q]
  BY OnlyOneMoves DEF Moves, ExportStep
<1>4. PICK now \in Database : /\ now = Snapshot(c) /\ now.loads = store[c].loads
  <2>1. store[c] \in Database /\ store[c].events + 1 \in Nat
    BY DEF Sound, BundlesTypeOK, Database
  <2>2. Snapshot(c) \in Database
    BY <2>1 DEF Snapshot, Database
  <2> QED BY <2>2, StoreOf
<1>5. Content(e)' = now /\ \A x \in Clones : Snapshot(x)' = Snapshot(x)
  BY <1>2, <1>4 DEF Content, BuildManifest, Snapshot
<1>6. \A x \in Clones : Target[x] \subseteq Directories
  BY DEF BundlesAssumption
<1>7. ASSUME NEW x \in Clones, NEW f \in Exports, f \in Near(x)'
      PROVE  (x = c /\ f = e) \/ (f # e /\ f < e /\ f \in Near(x) /\ Content(f)' = Content(f) /\ Content(f) \in Database)
  <2>1. CASE \E q \in Procs : Home[q] = x /\ run'[q].at = "write" /\ run'[q].export = f /\ q = p
    BY <1>2, <2>1
  <2>2. CASE \/ \E q \in Procs : Home[q] = x /\ run'[q].at = "write" /\ run'[q].export = f /\ q # p
             \/ \E t \in Target[x], file \in File : dir'[t][file] = f
    <3>1. f \in Near(x)
      BY <1>2, <1>3, <2>2 DEF Near, At
    <3>2. made[f] # None
      BY <1>6, <3>1, NearIsMade
    <3>3. f # e /\ Content(f)' = Content(f) /\ Content(f) \in Database
      BY <1>2, <3>2, ContentOf DEF Content
    <3>4. f < e
      <4>1. e < f => made[e] # None
        BY <3>2 DEF Alone
      <4> QED BY <1>2, <3>3, <4>1 DEF Exports
    <3> QED BY <3>1, <3>3, <3>4
  <2> QED BY <1>7, <2>1, <2>2 DEF Near, At
<1>8. ASSUME NEW x \in Clones, NEW f \in Exports, f \in Near(x)'
      PROVE  Content(f)'.loads <= store'[x].loads /\ Older(Content(f)', Snapshot(x)')
  <2>1. CASE x = c /\ f = e
    <3>1. now.loads <= store'[c].loads
      BY <1>2, <1>4 DEF Database
    <3> QED BY <1>4, <1>5, <2>1, <3>1, OlderRefl
  <2>2. CASE f \in Near(x) /\ Content(f)' = Content(f)
    <3>1. Content(f).loads <= store[x].loads /\ Older(Content(f), Snapshot(x))
      BY <2>2 DEF Counted
    <3> QED BY <1>2, <1>5, <2>2, <3>1
  <2> QED BY <1>7, <1>8, <2>1, <2>2
<1>9. ASSUME NEW x \in Clones, NEW f \in Exports, NEW g \in Exports, f \in Near(x)', g \in Near(x)', f <= g
      PROVE  Older(Content(f)', Content(g)')
  <2>1. CASE g = e /\ x = c
    <3>1. Older(Content(f)', Snapshot(c)')
      BY <1>8, <1>9, <2>1
    <3> QED BY <1>4, <1>5, <2>1, <3>1
  <2>2. CASE g # e
    <3>1. f # e
      BY <1>7, <1>9, <2>2 DEF Exports
    <3>2. f \in Near(x) /\ g \in Near(x) /\ Content(f)' = Content(f) /\ Content(g)' = Content(g)
      BY <1>7, <1>9, <2>2, <3>1
    <3>3. Older(Content(f), Content(g))
      BY <1>9, <3>2 DEF Counted
    <3> QED BY <3>2, <3>3
  <2> QED BY <1>7, <1>9, <2>1, <2>2
<1>10. \A x \in Clones : Near(x)' \subseteq Exports
  BY DEF Near
<1> QED BY <1>8, <1>9, <1>10 DEF Counted

\* Each step of the system.
LEMMA StoreMovesOn ==
    ASSUME BundlesAssumption, Sound, [BundlesNext]_bundleVars
    PROVE  \A c \in Clones : MovedOn(c)
<1>1. ASSUME NEW p \in Procs, Confirm(p) PROVE \A c \in Clones : MovedOn(c)
  <2>1. Home[p] \in Clones /\ store[Home[p]] \in Database
    BY DEF BundlesAssumption, Sound, BundlesTypeOK
  <2>2. store' = [store EXCEPT ![Home[p]].events = @ + 1]
    BY <1>1 DEF Confirm
  <2>3. store'[Home[p]].events = store[Home[p]].events + 1 /\ store'[Home[p]].loads = store[Home[p]].loads
        /\ \A c \in Clones : c # Home[p] => store'[c] = store[c]
    BY <2>1, <2>2 DEF Sound, BundlesTypeOK, Database
  <2>4. MovedOn(Home[p])
    BY <2>1, <2>3, StoreOf DEF MovedOn
  <2> QED BY <2>3, <2>4, SameStore
<1>2. ASSUME NEW p \in Procs, Note(p) PROVE \A c \in Clones : MovedOn(c)
  <2>1. Home[p] \in Clones /\ store[Home[p]] \in Database
    BY DEF BundlesAssumption, Sound, BundlesTypeOK
  <2>2. store' = [store EXCEPT ![Home[p]].last = run[p].export]
    BY <1>2 DEF Note
  <2>3. /\ store'[Home[p]].events = store[Home[p]].events /\ store'[Home[p]].loads = store[Home[p]].loads
        /\ Same(store'[Home[p]], store[Home[p]])
        /\ \A c \in Clones : c # Home[p] => store'[c] = store[c]
    BY <2>1, <2>2 DEF Sound, BundlesTypeOK, Database, Same
  <2>4. MovedOn(Home[p])
    BY <2>3 DEF MovedOn
  <2> QED BY <2>3, <2>4, SameStore
<1>3. ASSUME NEW p \in Procs, Load(p) PROVE \A c \in Clones : MovedOn(c)
  <2> DEFINE new == Loaded(Home[p], run[p].got)
  <2>1. Home[p] \in Clones /\ new.loads = store[Home[p]].loads + 1
    BY <1>3, LoadedFacts
  <2>2. store' = [store EXCEPT ![Home[p]] = new]
    BY <1>3 DEF Load
  <2> HIDE DEF new
  <2>3. store'[Home[p]] = new /\ \A c \in Clones : c # Home[p] => store'[c] = store[c]
    BY <2>1, <2>2 DEF Sound, BundlesTypeOK
  <2>4. MovedOn(Home[p])
    BY <2>1, <2>3, StoreOf DEF MovedOn
  <2> QED BY <2>3, <2>4, SameStore
<1>4. ASSUME store' = store PROVE \A c \in Clones : MovedOn(c)
  BY <1>4, SameStore
<1>5. ASSUME NEW p \in Procs, Moves(p), ~Confirm(p), ~Note(p), ~Load(p) PROVE store' = store
  BY <1>5 DEF Moves, ExportStep, ImportStep, AskExport, BeginExport, WriteFile, Refuse, Collect, CommitSnapshot,
              CommitLost, AskImport, ReadFile, AskImportFromGit, Interrupt
<1>6. (\E c, other \in Clones : Fetch(c, other)) \/ (\E d \in Directories : Clean(d)) \/ UNCHANGED bundleVars
      => store' = store
  BY DEF Fetch, Clean, bundleVars
<1> QED BY <1>1, <1>2, <1>3, <1>4, <1>5, <1>6, WorkMovesOn DEF BundlesNext, Moves

\* Each step of the system.
LEMMA CountedStep ==
    ASSUME BundlesAssumption, OwnDirectories, Sound, Sound', Alone, Counted, [BundlesNext]_bundleVars
    PROVE  Counted'
<1>1. CASE \E p \in Procs : AskExport(p)
  BY <1>1, AskExportCounted
<1>2. CASE ~(\E p \in Procs : AskExport(p))
  <2>1. made' = made
    BY <1>2 DEF BundlesNext, ExportStep, ImportStep, WriteFile, Confirm, Refuse, Collect, CommitSnapshot,
                CommitLost, Note, AskImport, ReadFile, AskImportFromGit, Load, Interrupt,
                Work, CreateTask, EditTask, EnterTree, Changed, Fetch, Clean, bundleVars
  <2>2. \A c \in Clones : MovedOn(c)
    BY StoreMovesOn
  <2>3. ASSUME NEW c \in Clones, NEW e \in Exports, e \in Near(c)' PROVE e \in Near(c)
    <3>1. CASE \E p \in Procs : WriteFile(p)
      BY <2>3, <3>1, WriteFileNear
    <3>2. CASE ~(\E p \in Procs : WriteFile(p))
      <4>1. \A d \in Directories, file \in File : dir'[d][file] \in {dir[d][file], Unreadable}
        <5>1. ASSUME NEW p \in Procs, Interrupt(p)
              PROVE  \A d \in Directories, file \in File : dir'[d][file] \in {dir[d][file], Unreadable}
          <6>1. CASE dir' = dir
            BY <6>1
          <6>2. CASE run[p].at = "write" /\ dir' = [dir EXCEPT ![run[p].place][Files[run[p].next]] = Unreadable]
            <7>1. run[p].place \in Directories /\ Files[run[p].next] \in File
              BY <6>2, RunOf, FilesFacts DEF RunSound, Exporting
            <7> QED BY <6>2, <7>1 DEF Sound, BundlesTypeOK, Bundle
          <6> QED BY <5>1, <6>1, <6>2 DEF Interrupt, At
        <5>2. ASSUME NEW x \in Directories, Clean(x)
              PROVE  \A d \in Directories, file \in File : dir'[d][file] \in {dir[d][file], Unreadable}
          <6>1. dir' = [dir EXCEPT ![x] = Empty]
            BY <5>2 DEF Clean
          <6> QED BY <6>1, IdleFacts DEF Sound, BundlesTypeOK
        <5>3. ASSUME dir' = dir
              PROVE  \A d \in Directories, file \in File : dir'[d][file] \in {dir[d][file], Unreadable}
          BY <5>3
        <5>4. ASSUME NEW p \in Procs, ExportStep(p) \/ ImportStep(p) PROVE dir' = dir
          BY <1>2, <3>2, <5>4 DEF ExportStep, ImportStep, Confirm, Refuse, Collect, CommitSnapshot,
                CommitLost, Note, AskImport, ReadFile, AskImportFromGit, Load
        <5>5. (\E x \in Clones : Work(x)) \/ (\E x, other \in Clones : Fetch(x, other)) \/ UNCHANGED bundleVars
              => dir' = dir
          BY DEF Work, CreateTask, EditTask, EnterTree, Changed, Fetch, bundleVars
        <5> QED BY <5>1, <5>2, <5>3, <5>4, <5>5 DEF BundlesNext
      <4>2. \A q \in Procs : run'[q] = run[q] \/ Onward(q)
        <5>1. ASSUME NEW p \in Procs, Moves(p) PROVE \A q \in Procs : run'[q] = run[q] \/ Onward(q)
          BY <1>2, <5>1, OnlyOneMoves, ExportsGoOn
        <5>2. (\E x \in Clones : Work(x)) \/ (\E x, other \in Clones : Fetch(x, other))
              \/ (\E d \in Directories : Clean(d)) \/ UNCHANGED bundleVars => run' = run
          BY DEF Work, CreateTask, EditTask, EnterTree, Changed, Fetch, Clean, bundleVars
        <5> QED BY <5>1, <5>2 DEF BundlesNext, Moves
      <4>3. \A q \in Procs : run'[q].at = "write" => run[q].at = "write" /\ run'[q].export = run[q].export
        BY <4>2 DEF Onward, Exporting
      <4> QED BY <2>3, <4>1, <4>3, NearKept DEF BundlesAssumption
    <3> QED BY <3>1, <3>2
  <2> QED BY <2>1, <2>2, <2>3, CountedKept
<1> QED BY <1>1, <1>2

\* In the beginning.
LEMMA NoExportIsNear ==
    ASSUME BundlesAssumption, BundlesInit PROVE Counted
<1>1. \A c \in Clones : Target[c] \subseteq Directories
  BY DEF BundlesAssumption
<1>2. \A c \in Clones : Near(c) = {}
  BY <1>1, IdleFacts DEF BundlesInit, Near, At, Exports, Unreadable
<1> QED BY <1>2 DEF Counted

\* The files of a directory come from one clone, later ones from earlier exports.
LEMMA CountedIsWhole ==
    ASSUME BundlesAssumption, Sound, Alone, Counted
    PROVE  RefusedOrWhole
<1> SUFFICES ASSUME NEW d \in Directories, Accepted(dir[d]), OneReplacement(dir[d])
             PROVE  OneState(dir[d])
  BY DEF RefusedOrWhole
<1>1. PICK m \in Exports, t \in Exports, w \in Exports, v \in Exports :
          m = dir[d]["manifest"] /\ t = dir[d]["tasks"] /\ w = dir[d]["places"] /\ v = dir[d]["events"]
  BY BundleOfDir DEF Accepted, Readable, Bundle, File
<1>2. v <= w /\ w <= t /\ t <= m
  <2>1. Files[1] = "manifest" /\ Files[2] = "tasks" /\ Files[3] = "places" /\ Files[4] = "events"
    BY FilesFacts
  <2>2. 1 < 2 /\ 2 < 3 /\ 3 < 4 /\ 1 \in 1..5 /\ 2 \in 1..5 /\ 3 \in 1..5 /\ 4 \in 1..5
    OBVIOUS
  <2>3. FilesInOrder(d) /\ m # Unreadable /\ t # Unreadable /\ w # Unreadable /\ v # Unreadable
    BY <1>1 DEF Alone, Accepted, Readable, File
  <2> QED BY <1>1, <2>1, <2>2, <2>3 DEF FilesInOrder
<1>3. PICK c \in Clones : d \in Target[c]
  BY <1>1 DEF Alone, Exports, Unreadable, File
<1>4. m \in Near(c) /\ t \in Near(c) /\ w \in Near(c) /\ v \in Near(c)
  BY <1>1, <1>3 DEF Near, File
<1>5. \A c1 \in Clones : Target[c1] \subseteq Directories
  BY DEF BundlesAssumption
<1>6. /\ Content(m) \in Database /\ Content(t) \in Database /\ Content(w) \in Database /\ Content(v) \in Database
  BY <1>4, <1>5, NearIsMade, ContentOf
<1>7. Content(m).events = Content(v).events
  BY <1>1 DEF Accepted, CheckCounts, SameCounts, File
<1>8. Content(t).loads = Content(m).loads /\ Content(w).loads = Content(m).loads
      /\ Content(v).loads = Content(m).loads
  BY <1>1 DEF OneReplacement, File
<1>9. v <= m /\ w <= m /\ v <= t
  BY <1>2 DEF Exports
<1>10. /\ Older(Content(v), Content(t)) /\ Older(Content(v), Content(w)) /\ Older(Content(v), Content(m))
       /\ Older(Content(t), Content(m)) /\ Older(Content(w), Content(m))
  BY <1>2, <1>4, <1>9 DEF Counted
<1>11. /\ Content(m).events \in Nat /\ Content(t).events \in Nat /\ Content(w).events \in Nat
       /\ Content(v).events \in Nat
  BY <1>6 DEF Database
<1>12. Same(Content(v), Content(m))
  BY <1>7, <1>8, <1>10 DEF Older
<1>13. Same(Content(t), Content(m))
  BY <1>7, <1>8, <1>10, <1>11 DEF Older
<1>14. Same(Content(w), Content(m))
  BY <1>7, <1>8, <1>10, <1>11 DEF Older
<1>15. /\ PartOf(Content(t), "tasks") = PartOf(Content(m), "tasks")
       /\ PartOf(Content(w), "places") = PartOf(Content(m), "places")
       /\ PartOf(Content(v), "events") = PartOf(Content(m), "events")
  BY <1>12, <1>13, <1>14 DEF PartOf, Same
<1> QED BY <1>1, <1>15 DEF OneState, File

\* What a reader accepts in a directory is one state of the tables, wherever
\* exports died or still run: the files lie in the order of their exports,
\* later exports of a clone have more events, and the manifest and the events
\* agree.  Where two clones export to one directory this does not hold.
THEOREM RefusedOrWholeTheorem == ASSUME OwnDirectories PROVE BundlesSpec => []RefusedOrWhole
<1>1. BundlesInit => Alone /\ Counted
  BY AloneInit, NoExportIsNear, BundlesAssumption
<1>2. Sound /\ Sound' /\ Alone /\ Counted /\ [BundlesNext]_bundleVars => Alone' /\ Counted'
  BY AloneStep, CountedStep, BundlesAssumption, OwnDirectories
<1>3. Sound /\ Alone /\ Counted => RefusedOrWhole
  BY CountedIsWhole, BundlesAssumption
<1> QED BY <1>1, <1>2, <1>3, SoundInvariant, PTL DEF BundlesSpec

=============================================================================
