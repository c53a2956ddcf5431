--------------------------- MODULE AdmissionLock ---------------------------
(***************************************************************************)
(* The project-wide admission lock of carryctx: a directory that a command *)
(* installs with a no-clobber rename and holds until it ends               *)
(* (adapter/filesystem.rs).  A command that finds the directory occupied   *)
(* reads its metadata and may heal it: move the directory of a dead holder *)
(* to a private quarantine name, compare the token found there with the    *)
(* one it observed, and delete or restore it.  Every file-system call that *)
(* another process can tell apart is an action of its own.                 *)
(***************************************************************************)
EXTENDS Naturals

CONSTANTS
    Procs,      \* command processes; each acquires at most once, so the
                \* process also stands for the owner token it publishes
    Remote,     \* processes on a second host that shares the file system
    Slow,       \* processes that may stall longer than METALESS_LOCK_GRACE
    MaxSteps,   \* ACQUIRE_MAX_STEPS
    NoDir,      \* nothing at this path
    Bare,       \* a directory without readable metadata, younger than grace
    OldBare     \* the same, at least METALESS_LOCK_GRACE old

ASSUME DirAssumption ==
    /\ NoDir \notin Procs /\ Bare \notin Procs /\ OldBare \notin Procs
    /\ NoDir # Bare /\ NoDir # OldBare /\ Bare # OldBare

ASSUME StepAssumption == MaxSteps \in Nat \ {0}

ASSUME SubsetAssumption == Remote \subseteq Procs /\ Slow \subseteq Procs

VARIABLES
    pc,         \* where each process is in its command
    lockDir,    \* what the lock path holds: NoDir, Bare, OldBare or an owner
    staging,    \* each publisher's private staging directory
    seen,       \* the owner token a healer observed (Bare: no token)
    quarantine, \* the directory each healer moved out of the lock path
    step,       \* iterations of the loop in acquire_lock_owned
    robbed      \* history: live processes whose published or staged metadata
                \* another process took away

vars == <<pc, lockDir, staging, seen, quarantine, step, robbed>>

Dirs == Procs \cup {Bare, OldBare}

Stages == {"none", "full", "oldFull", "oldEmpty"}

PCs == {"idle", "sweep", "sweepRmdir", "build", "rename", "observe",
        "recheck", "readMeta", "probe", "steal", "verify", "restore",
        "backoff", "hold", "relCheck", "unlink", "rmdir", "exited",
        "crashed"}

TypeOK ==
    /\ pc \in [Procs -> PCs]
    /\ lockDir \in Dirs \cup {NoDir}
    /\ staging \in [Procs -> Stages]
    /\ seen \in [Procs -> Procs \cup {Bare, NoDir}]
    /\ quarantine \in [Procs -> Dirs \cup {NoDir}]
    /\ step \in [Procs -> 0..MaxSteps]
    /\ robbed \subseteq Procs

(***************************************************************************)
(* What kill(pid, 0) can find out: a process of the same host that ended.  *)
(***************************************************************************)
Ended(p) == pc[p] \in {"exited", "crashed"}

SameHost(p, q) == (p \in Remote) = (q \in Remote)

IsBare(dir) == dir \in {Bare, OldBare}

Token(dir) == IF dir \in Procs THEN dir ELSE Bare

Init ==
    /\ pc = [p \in Procs |-> "idle"]
    /\ lockDir = NoDir
    /\ staging = [p \in Procs |-> "none"]
    /\ seen = [p \in Procs |-> NoDir]
    /\ quarantine = [p \in Procs |-> NoDir]
    /\ step = [p \in Procs |-> 0]
    /\ robbed = {}

Goto(p, label) == pc' = [pc EXCEPT ![p] = label]

(***************************************************************************)
(* acquire_lock_owned: entry, the sweep of orphaned stagings and the loop. *)
(***************************************************************************)
Start(p) ==
    /\ pc[p] \in {"idle", "backoff"}
    /\ Goto(p, "sweep")
    /\ step' = [step EXCEPT ![p] = 0]
    /\ UNCHANGED <<lockDir, staging, seen, quarantine, robbed>>

\* sweep_orphaned_stagings removes an aged staging directory: the metadata
\* goes first, whoever the directory belongs to.
SweepUnlink(p, q) ==
    /\ pc[p] = "sweep"
    /\ staging[q] = "oldFull"
    /\ staging' = [staging EXCEPT ![q] = "oldEmpty"]
    /\ robbed' = IF Ended(q) THEN robbed ELSE robbed \cup {q}
    /\ Goto(p, "sweepRmdir")
    /\ UNCHANGED <<lockDir, seen, quarantine, step>>

\* ... and then the emptied directories themselves.
SweepRmdir(p) ==
    /\ pc[p] = "sweepRmdir"
    /\ staging' = [q \in Procs |->
                      IF staging[q] = "oldEmpty" THEN "none" ELSE staging[q]]
    /\ Goto(p, "sweep")
    /\ UNCHANGED <<lockDir, seen, quarantine, step, robbed>>

SweepDone(p) ==
    /\ pc[p] = "sweep"
    /\ \A q \in Procs : staging[q] # "oldFull"
    /\ Goto(p, "build")
    /\ UNCHANGED <<lockDir, staging, seen, quarantine, step, robbed>>

\* publish_lock_dir, first half: rebuild the staging directory from scratch.
BuildStaging(p) ==
    /\ pc[p] = "build"
    /\ staging' = [staging EXCEPT ![p] = "full"]
    /\ Goto(p, "rename")
    /\ UNCHANGED <<lockDir, seen, quarantine, step, robbed>>

\* Faulty variant: a rename that replaces an occupied lock directory.
PublishClobber(p) ==
    /\ pc[p] = "rename"
    /\ staging[p] # "none"
    /\ lockDir' = IF staging[p] = "oldEmpty" THEN Bare ELSE p
    /\ staging' = [staging EXCEPT ![p] = "none"]
    /\ Goto(p, "hold")
    /\ UNCHANGED <<seen, quarantine, step, robbed>>

\* publish_lock_dir, second half: renameat2(RENAME_NOREPLACE).  A staging
\* directory that was swept away makes the rename fail with NotFound.
Publish(p) ==
    /\ pc[p] = "rename"
    /\ lockDir = NoDir
    /\ staging[p] # "none"
    /\ lockDir' = IF staging[p] = "oldEmpty" THEN Bare ELSE p
    /\ staging' = [staging EXCEPT ![p] = "none"]
    /\ Goto(p, "hold")
    /\ UNCHANGED <<seen, quarantine, step, robbed>>

PublishFails(p) ==
    /\ pc[p] = "rename"
    /\ lockDir # NoDir \/ staging[p] = "none"
    /\ Goto(p, "observe")
    /\ UNCHANGED <<lockDir, staging, seen, quarantine, step, robbed>>

\* The end of one loop iteration: publish again, or give the attempt up.
NextStep(p) ==
    /\ step' = [step EXCEPT ![p] = step[p] + 1]
    /\ IF step[p] + 1 < MaxSteps
         THEN Goto(p, "build") /\ UNCHANGED staging
         ELSE /\ Goto(p, "backoff")
              /\ staging' = [staging EXCEPT ![p] = "none"]

\* A STATE_CONFLICT: the attempt fails and its staging directory goes.
Conflict(p) ==
    /\ Goto(p, "backoff")
    /\ staging' = [staging EXCEPT ![p] = "none"]
    /\ UNCHANGED <<lockDir, seen, quarantine, step, robbed>>

(***************************************************************************)
(* observe_existing_lock                                                   *)
(***************************************************************************)
Observe(p) ==
    /\ pc[p] = "observe"
    /\ \/ /\ lockDir = NoDir
          /\ NextStep(p)
          /\ UNCHANGED <<lockDir, seen, quarantine, robbed>>
       \/ /\ lockDir = Bare
          /\ Conflict(p)
       \/ /\ lockDir = OldBare
          /\ Goto(p, "recheck")
          /\ UNCHANGED <<lockDir, staging, seen, quarantine, step, robbed>>
       \/ /\ lockDir \in Procs
          /\ Goto(p, "readMeta")
          /\ UNCHANGED <<lockDir, staging, seen, quarantine, step, robbed>>

\* Faulty variant: an orphaned directory is never confirmed.
RecheckNeverConfirms(p) ==
    /\ pc[p] = "recheck"
    /\ IF lockDir = NoDir
         THEN NextStep(p) /\ UNCHANGED <<lockDir, seen, quarantine, robbed>>
         ELSE Conflict(p)

\* The second inspection, METALESS_RECHECK_GAP later.
Recheck(p) ==
    /\ pc[p] = "recheck"
    /\ \/ /\ lockDir = NoDir
          /\ NextStep(p)
          /\ UNCHANGED <<lockDir, seen, quarantine, robbed>>
       \/ /\ lockDir = OldBare
          /\ seen' = [seen EXCEPT ![p] = Bare]
          /\ Goto(p, "steal")
          /\ UNCHANGED <<lockDir, staging, quarantine, step, robbed>>
       \/ /\ lockDir \notin {NoDir, OldBare}
          /\ Goto(p, "readMeta")
          /\ UNCHANGED <<lockDir, staging, seen, quarantine, step, robbed>>

\* Reading meta.json; when it is gone for all META_READ_MAX_ATTEMPTS reads
\* the directory is classified by its mere existence.
ReadMeta(p) ==
    /\ pc[p] = "readMeta"
    /\ \/ /\ lockDir \in Procs
          /\ seen' = [seen EXCEPT ![p] = lockDir]
          /\ Goto(p, "probe")
          /\ UNCHANGED <<lockDir, staging, quarantine, step, robbed>>
       \/ /\ IsBare(lockDir)
          /\ Conflict(p)
       \/ /\ lockDir = NoDir
          /\ NextStep(p)
          /\ UNCHANGED <<lockDir, seen, quarantine, robbed>>

\* Faulty variant: every holder looks alive.
ProbeAllAlive(p) ==
    /\ pc[p] = "probe"
    /\ Conflict(p)

\* is_pid_alive, asked of the metadata read before: the holder may have
\* released the lock and ended in between.
Probe(p) ==
    /\ pc[p] = "probe"
    /\ IF SameHost(p, seen[p]) /\ Ended(seen[p])
         THEN /\ Goto(p, "steal")
              /\ UNCHANGED <<lockDir, staging, seen, quarantine, step, robbed>>
         ELSE Conflict(p)

(***************************************************************************)
(* remove_lock_dir_best_effort: quarantine whatever is at the lock path    *)
(* now, compare tokens, then delete or restore.                            *)
(***************************************************************************)
Quarantine(p) ==
    /\ pc[p] = "steal"
    /\ lockDir # NoDir
    /\ quarantine' = [quarantine EXCEPT ![p] = lockDir]
    /\ lockDir' = NoDir
    /\ robbed' = IF lockDir \in Procs /\ ~Ended(lockDir)
                   THEN robbed \cup {lockDir} ELSE robbed
    /\ Goto(p, "verify")
    /\ UNCHANGED <<staging, seen, step>>

StealLost(p) ==
    /\ pc[p] = "steal"
    /\ lockDir = NoDir
    /\ NextStep(p)
    /\ UNCHANGED <<lockDir, seen, quarantine, robbed>>

\* The token is the observed one: the stale directory is deleted.
Discard(p) ==
    /\ pc[p] = "verify"
    /\ Token(quarantine[p]) = seen[p]
    /\ quarantine' = [quarantine EXCEPT ![p] = NoDir]
    /\ NextStep(p)
    /\ UNCHANGED <<lockDir, seen, robbed>>

\* Another token, and the lock path is occupied again: the quarantined
\* directory is deleted all the same.
DiscardDisplaced(p) ==
    /\ pc[p] = "verify"
    /\ Token(quarantine[p]) # seen[p]
    /\ lockDir # NoDir
    /\ quarantine' = [quarantine EXCEPT ![p] = NoDir]
    /\ NextStep(p)
    /\ UNCHANGED <<lockDir, seen, robbed>>

DecideRestore(p) ==
    /\ pc[p] = "verify"
    /\ Token(quarantine[p]) # seen[p]
    /\ lockDir = NoDir
    /\ Goto(p, "restore")
    /\ UNCHANGED <<lockDir, staging, seen, quarantine, step, robbed>>

\* A plain rename back: it replaces an empty directory, and fails, leaving
\* the quarantine behind, when the lock path was taken meanwhile.
Restore(p) ==
    /\ pc[p] = "restore"
    /\ lockDir' = IF lockDir = NoDir \/ IsBare(lockDir)
                    THEN quarantine[p] ELSE lockDir
    /\ quarantine' = [quarantine EXCEPT ![p] = NoDir]
    /\ NextStep(p)
    /\ UNCHANGED <<seen, robbed>>

\* next_backoff_delay_ms returned 0, or the command does not retry.
GiveUp(p) ==
    /\ pc[p] = "backoff"
    /\ Goto(p, "exited")
    /\ UNCHANGED <<lockDir, staging, seen, quarantine, step, robbed>>

(***************************************************************************)
(* Drop for AdmissionLock: release_lock checks the owner, then removes the *)
(* directory by path, metadata first.                                      *)
(***************************************************************************)
FinishWork(p) ==
    /\ pc[p] = "hold"
    /\ Goto(p, "relCheck")
    /\ UNCHANGED <<lockDir, staging, seen, quarantine, step, robbed>>

ReleaseCheck(p) ==
    /\ pc[p] = "relCheck"
    /\ Goto(p, IF lockDir = p THEN "unlink" ELSE "exited")
    /\ UNCHANGED <<lockDir, staging, seen, quarantine, step, robbed>>

ReleaseUnlink(p) ==
    /\ pc[p] = "unlink"
    /\ IF lockDir = NoDir
         THEN /\ Goto(p, "exited")
              /\ UNCHANGED <<lockDir, robbed>>
         ELSE /\ Goto(p, "rmdir")
              /\ lockDir' = IF lockDir \in Procs THEN Bare ELSE lockDir
              /\ robbed' = IF lockDir \in Procs \ {p} /\ ~Ended(lockDir)
                             THEN robbed \cup {lockDir} ELSE robbed
    /\ UNCHANGED <<staging, seen, quarantine, step>>

ReleaseRmdir(p) ==
    /\ pc[p] = "rmdir"
    /\ lockDir' = IF IsBare(lockDir) THEN NoDir ELSE lockDir
    /\ Goto(p, "exited")
    /\ UNCHANGED <<staging, seen, quarantine, step, robbed>>

(***************************************************************************)
(* The environment: processes die, directories grow older than the grace.  *)
(***************************************************************************)
Crash(p) ==
    /\ pc[p] \notin {"idle", "exited", "crashed"}
    /\ Goto(p, "crashed")
    /\ UNCHANGED <<lockDir, staging, seen, quarantine, step, robbed>>

\* A directory that a live process is about to remove or rename ages only
\* when that process stalls.
AgeLockDir ==
    /\ lockDir = Bare
    /\ \A p \in Procs : pc[p] = "rmdir" => p \in Slow
    /\ lockDir' = OldBare
    /\ UNCHANGED <<pc, staging, seen, quarantine, step, robbed>>

AgeStaging(p) ==
    /\ staging[p] = "full"
    /\ Ended(p) \/ p \in Slow
    /\ staging' = [staging EXCEPT ![p] = "oldFull"]
    /\ UNCHANGED <<pc, lockDir, seen, quarantine, step, robbed>>

(***************************************************************************)
(* Specification                                                           *)
(***************************************************************************)
\* The steps a scheduled process takes by itself, up to the next decision.
Advance(p) ==
    \/ \E q \in Procs : SweepUnlink(p, q)
    \/ SweepRmdir(p) \/ SweepDone(p)
    \/ BuildStaging(p) \/ Publish(p) \/ PublishFails(p)
    \/ Observe(p) \/ Recheck(p) \/ ReadMeta(p) \/ Probe(p)
    \/ Quarantine(p) \/ StealLost(p)
    \/ Discard(p) \/ DiscardDisplaced(p) \/ DecideRestore(p) \/ Restore(p)
    \/ FinishWork(p)
    \/ ReleaseCheck(p) \/ ReleaseUnlink(p) \/ ReleaseRmdir(p)

Next ==
    \/ \E p \in Procs : Start(p) \/ Advance(p) \/ GiveUp(p) \/ Crash(p)
    \/ AgeLockDir
    \/ \E p \in Procs : AgeStaging(p)

Spec == Init /\ [][Next]_vars

\* The operating system schedules every process, a retry loop that slept
\* tries again unless its budget is spent, and time passes.
Fairness ==
    /\ \A p \in Procs : WF_vars(Advance(p))
    /\ \A p \in Procs : WF_vars(pc[p] = "backoff" /\ (Start(p) \/ GiveUp(p)))
    /\ WF_vars(AgeLockDir)

FairSpec == Spec /\ Fairness

(***************************************************************************)
(* Properties                                                              *)
(***************************************************************************)
Holds(p) == pc[p] = "hold"

\* At most one command works on the project's state at a time: the
\* "single-writer lock held for the whole process duration" of cli.rs.
MutualExclusion ==
    \A p, q \in Procs : Holds(p) /\ Holds(q) => p = q

\* Two commands can hold the lock at once only after one of them was robbed:
\* its directory was moved, emptied or swept by another process while it was
\* alive.  The no-clobber rename and the release never cause it by themselves.
ExclusionUnlessRobbed ==
    \A p, q \in Procs :
        Holds(p) /\ Holds(q) /\ p # q => p \in robbed \/ q \in robbed

\* Without a process that stalls past the grace, nobody is robbed before some
\* command has ended: the token comparison, the no-clobber rename and the
\* age checks keep any number of live contenders apart.
FirstGenerationExclusive ==
    Slow = {} /\ (\A p \in Procs : ~Ended(p)) => MutualExclusion

\* A healer deletes a directory whose token it observed only when that owner
\* has ended: what it takes for stale is stale, whatever interleaves.
HealersTargetTheDead ==
    \A p \in Procs :
        /\ pc[p] \in {"steal", "verify"}
        /\ seen[p] \in Procs
        => Ended(seen[p]) /\ SameHost(p, seen[p])

\* A command that works holds a lock other commands can see, unless it was
\* robbed: the lock path names it.
HolderVisible ==
    \A p \in Procs : Holds(p) /\ p \notin robbed => lockDir = p

Contending(p) == pc[p] \notin {"idle", "exited", "crashed", "hold",
                               "relCheck", "unlink", "rmdir"}

\* A lock directory left behind does not block the project for ever: while
\* some process of the dead owner's host keeps contending, the directory of an
\* ended process is eventually gone from the lock path (observe_existing_lock
\* classifies it as stale and remove_lock_dir_best_effort heals it).
StaleLockReclaimed ==
    \A d \in Procs :
        (lockDir = d /\ Ended(d)) ~>
            \/ lockDir # d
            \/ \A p \in Procs : SameHost(p, d) => ~Contending(p)

\* Likewise for a directory without metadata, that a release crashed in.
BareLockReclaimed ==
    IsBare(lockDir) ~>
        \/ ~IsBare(lockDir)
        \/ \A p \in Procs : ~Contending(p)
=============================================================================
