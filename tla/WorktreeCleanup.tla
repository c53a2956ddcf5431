-------------------------- MODULE WorktreeCleanup --------------------------
(***************************************************************************)
(* Worktrees, their registrations and the durable outbox of cleanup        *)
(* requests (application/worktree.rs, application/cleanup.rs).  A cleanup  *)
(* request is created in the transaction that finishes its task and is     *)
(* attempted afterwards: a transaction that claims it, the assessment and  *)
(* the git removal outside any transaction, and a second transaction that  *)
(* records the outcome.  Commands hold the admission lock, so one command  *)
(* works at a time ("phase"); people edit worktrees whenever they like,    *)
(* and the command may die between any two steps.                          *)
(*                                                                         *)
(* Left out: branches and their deletion, events, jj-colocated             *)
(* repositories, directories git does not list, and bounds on attempts.    *)
(***************************************************************************)
EXTENDS Naturals

CONSTANTS
    Tasks,
    Paths,          \* places where a worktree can be
    Root,           \* the repository root, an ancestor of every path
    NoTask,         \* worktrees.task_id NULL
    Unregistered,   \* no row in worktrees for this path
    NoPath,
    MaxRequests,    \* bound: cleanup requests ever created
    CleanCancelled, \* cleanup.on_task_cancelled is when_idle
    GitMayFail      \* git and the database may fail in the middle

ASSUME NameAssumption ==
    /\ NoTask \notin Tasks /\ Unregistered \notin Tasks /\ NoTask # Unregistered
    /\ Root \notin Paths /\ NoPath \notin Paths

ASSUME BoundAssumption ==
    /\ MaxRequests \in Nat
    /\ CleanCancelled \in BOOLEAN /\ GitMayFail \in BOOLEAN

VARIABLES
    dir,        \* the git worktree at each path; "kept": it has uncommitted
                \* or untracked files, or is locked
    bound,      \* worktrees.task_id of the row of each path
    finished,   \* tasks that are completed or cancelled
    fresh,      \* where active sessions work that are not stale
    state,      \* worktree_cleanup_requests.state; "none": no such row
    target,     \* .worktree_path
    for,        \* .task_id
    linked,     \* .worktree_id is not NULL: it names the row of the path
    phase,      \* the step the running command is at
    todo,       \* the requests the running drain still has to attempt
    current,    \* the request being attempted
    outcome,    \* what its attempt came to
    cwd,        \* working directory of the running drain
    removing,   \* the worktree the running worktree remove resolved
    journal     \* the path of the worktree.create journal

rows == <<bound, finished, state, target, for, linked>>
drain == <<todo, current, outcome, cwd>>
vars == <<dir, fresh, rows, phase, drain, removing, journal>>

Requests == 1..MaxRequests

Places == Paths \cup {Root}

Active == {"pending", "running", "blocked"}

\* find_pending_by_project
Retryable == Active \cup {"failed"}

Phases == {"idle", "down", "bind", "retire", "delete",
           "claim", "assess", "execute", "finish"}

Registered(p) == bound[p] # Unregistered

\* The foreign key of worktree_cleanup_requests.worktree_id.
LinksResolve ==
    \A r \in Requests : linked[r] => target[r] \in Paths /\ Registered(target[r])

TypeOK ==
    /\ dir \in [Paths -> {"gone", "clean", "kept"}]
    /\ bound \in [Paths -> Tasks \cup {NoTask, Unregistered}]
    /\ finished \subseteq Tasks
    /\ fresh \subseteq Places
    /\ state \in [Requests -> Retryable \cup {"none", "completed"}]
    /\ target \in [Requests -> Paths \cup {NoPath}]
    /\ for \in [Requests -> Tasks \cup {NoTask}]
    /\ linked \in [Requests -> BOOLEAN]
    /\ phase \in Phases
    /\ todo \subseteq Requests
    /\ current \in Requests \cup {0}
    /\ outcome \in {"none", "completed", "blocked", "failed"}
    /\ cwd \in Places
    /\ removing \in Paths \cup {NoPath}
    /\ journal \in Paths \cup {NoPath}
    /\ LinksResolve

Exists(p) == dir[p] # "gone"

\* A fresh active session in the worktree, or in a directory above it.
Occupied(p) == p \in fresh \/ Root \in fresh

\* worktree_cleanup_active_uq: another active request names the same row
ActiveRival(r, p) ==
    \E q \in Requests \ {r} : state[q] \in Active /\ linked[q] /\ target[q] = p

Init ==
    /\ dir = [p \in Paths |-> "gone"]
    /\ bound = [p \in Paths |-> Unregistered]
    /\ finished = {}
    /\ fresh = {}
    /\ state = [r \in Requests |-> "none"]
    /\ target = [r \in Requests |-> NoPath]
    /\ for = [r \in Requests |-> NoTask]
    /\ linked = [r \in Requests |-> FALSE]
    /\ phase = "idle"
    /\ todo = {} /\ current = 0 /\ outcome = "none"
    /\ cwd = Root
    /\ removing = NoPath
    /\ journal = NoPath

----------------------------------------------------------------------------
(***************************************************************************)
(* Commands begin idle; opening the project has retired every journal.     *)
(***************************************************************************)
Ready == phase = "idle" /\ journal = NoPath

\* Deletes the registration rows of the paths P: SET NULL unlinks requests.
DeleteRows(P) ==
    /\ bound' = [p \in Paths |-> IF p \in P THEN Unregistered ELSE bound[p]]
    /\ linked' = [r \in Requests |-> linked[r] /\ target[r] \notin P]

\* The drain that follows a commit, started in directory d.
BeginDrain(d) ==
    /\ phase' = "claim"
    /\ cwd' = d
    /\ todo' = {r \in Requests : state'[r] \in Retryable}
    /\ UNCHANGED <<current, outcome>>

\* create_worktree: journal, then git worktree add.
CreateDir(p) ==
    /\ Ready
    /\ ~Exists(p)
    /\ journal' = p
    /\ dir' = [dir EXCEPT ![p] = "clean"]
    /\ phase' = "bind"
    /\ UNCHANGED <<fresh, rows, drain, removing>>

BoundElsewhere(t, p) == \E q \in Paths \ {p} : bound[q] = t

\* bind_worktree as the second half of create_worktree.  A task bound to
\* another worktree undoes the creation; what git refuses to remove stays, and
\* its journal with it unless the branch had moved on.  The row of a path
\* keeps its identity.
BindCreated(t) ==
    LET p == journal
    IN  /\ phase = "bind"
        /\ IF BoundElsewhere(t, p) \/ ~Exists(p)
             THEN /\ phase' = "idle"
                  /\ dir' = [dir EXCEPT ![p] = IF @ = "clean" THEN "gone" ELSE @]
                  /\ journal' \in IF dir'[p] = "gone" THEN {NoPath} ELSE {NoPath, p}
                  /\ UNCHANGED bound
             ELSE /\ phase' = "retire"
                  /\ bound' = [bound EXCEPT ![p] = t]
                  /\ UNCHANGED <<dir, journal>>
        /\ UNCHANGED <<fresh, finished, state, target, for, linked, drain, removing>>

RetireJournal ==
    /\ phase = "retire"
    /\ journal' = NoPath
    /\ phase' = "idle"
    /\ UNCHANGED <<dir, fresh, rows, drain, removing>>

\* bind_worktree of an existing worktree; t is NoTask without --task
Bind(p, t) ==
    /\ Ready
    /\ Exists(p)
    /\ t # NoTask => ~BoundElsewhere(t, p)
    /\ bound' = [bound EXCEPT ![p] = t]
    /\ UNCHANGED <<dir, fresh, finished, state, target, for, linked, phase, drain, removing, journal>>

Unbind(p) ==
    /\ Ready
    /\ Registered(p)
    /\ bound' = [bound EXCEPT ![p] = NoTask]
    /\ UNCHANGED <<dir, fresh, finished, state, target, for, linked, phase, drain, removing, journal>>

\* remove_worktree, first half: git removes the directory, or refuses.
RemoveDir(p, force) ==
    /\ Ready
    /\ Registered(p)
    /\ dir[p] = "kept" => force
    /\ dir' = [dir EXCEPT ![p] = "gone"]
    /\ phase' = "delete"
    /\ removing' = p
    /\ UNCHANGED <<fresh, rows, drain, journal>>

\* ... second half: the row.
DeleteRow ==
    /\ phase = "delete"
    /\ DeleteRows({removing})
    /\ phase' = "idle"
    /\ removing' = NoPath
    /\ UNCHANGED <<dir, fresh, finished, state, target, for, drain, journal>>

\* doctor --prune-stale-worktrees
PruneStale ==
    /\ Ready
    /\ DeleteRows({p \in Paths : ~Exists(p)})
    /\ UNCHANGED <<dir, fresh, finished, state, target, for, phase, drain, removing, journal>>

StartSession(l) ==
    /\ Ready
    /\ l \in Paths => Exists(l)
    /\ fresh' = fresh \cup {l}
    /\ UNCHANGED <<dir, rows, phase, drain, removing, journal>>

\* session end, of a fresh or a stale session; drains unless --no-cleanup
EndSession(l, d, cleanup) ==
    /\ Ready
    /\ fresh' = fresh \ {l}
    /\ UNCHANGED <<dir, rows, removing, journal>>
    /\ IF cleanup THEN BeginDrain(d) ELSE UNCHANGED <<phase, drain>>

Reopen(t) ==
    /\ Ready
    /\ t \in finished
    /\ finished' = finished \ {t}
    /\ UNCHANGED <<dir, fresh, bound, state, target, for, linked, phase, drain, removing, journal>>

----------------------------------------------------------------------------
(***************************************************************************)
(* task complete and task cancel: the request is enqueued in the same      *)
(* transaction, which fails as a whole when it cannot be, and drained      *)
(* after the commit.                                                       *)
(***************************************************************************)
\* Faulty variant of HasActiveRequest: any active request of the task will do.
AnyActiveRequest(t, p) == \E r \in Requests : state[r] \in Active /\ for[r] = t

\* the task already has an active request for the worktree it is bound to
HasActiveRequest(t, p) ==
    \E r \in Requests : state[r] \in Active /\ for[r] = t /\ linked[r] /\ target[r] = p

\* INSERT INTO worktree_cleanup_requests
Insert(r, t, p) ==
    /\ state[r] = "none"
    /\ \A q \in Requests : q < r => state[q] # "none"
    /\ state' = [state EXCEPT ![r] = "pending"]
    /\ target' = [target EXCEPT ![r] = p]
    /\ for' = [for EXCEPT ![r] = t]
    /\ linked' = [linked EXCEPT ![r] = TRUE]

\* Faulty variant of Enqueue: no unique index refuses the row.
EnqueueBeside(t, p) == \E r \in Requests : Insert(r, t, p)

Enqueue(t, p) == \E r \in Requests : ~ActiveRival(r, p) /\ Insert(r, t, p)

RequestCleanup(t) ==
    LET due == {p \in Paths : bound[p] = t /\ ~HasActiveRequest(t, p)}
    IN  IF due = {} THEN UNCHANGED <<state, target, for, linked>>
                    ELSE \E p \in due : Enqueue(t, p)

FinishTask(t, cancelled, d) ==
    /\ Ready
    /\ t \notin finished
    /\ finished' = finished \cup {t}
    /\ IF cancelled => CleanCancelled
         THEN RequestCleanup(t) ELSE UNCHANGED <<state, target, for, linked>>
    /\ BeginDrain(d)
    /\ UNCHANGED <<dir, fresh, bound, removing, journal>>

\* worktree cleanup run: one request, or all of them
CleanupRun(d, R) ==
    /\ Ready
    /\ phase' = "claim"
    /\ cwd' = d
    /\ todo' = R
    /\ UNCHANGED <<dir, fresh, rows, current, outcome, removing, journal>>

CleanupRunAll(d) == CleanupRun(d, {r \in Requests : state[r] \in Retryable})

CleanupRunOne(d) ==
    \E r \in Requests : state[r] \in Retryable /\ CleanupRun(d, {r})

----------------------------------------------------------------------------
(***************************************************************************)
(* reconcile_pending_cleanup_with_policy: the requests of the list, oldest *)
(* first; the first error ends the drain.                                  *)
(***************************************************************************)
IsNext(r) == r \in todo /\ \A q \in todo : r <= q

\* Faulty variant of Claim: what a crash left running is nobody's.
ClaimSkipsRunning(r) ==
    /\ phase = "claim"
    /\ IsNext(r)
    /\ IF state[r] = "running"
         THEN todo' = todo \ {r} /\ UNCHANGED <<state, phase, current>>
         ELSE /\ linked[r] => ~ActiveRival(r, target[r])
              /\ state' = [state EXCEPT ![r] = "running"]
              /\ phase' = "assess"
              /\ current' = r
              /\ todo' = todo \ {r}
    /\ UNCHANGED <<dir, fresh, bound, finished, target, for, linked, outcome, cwd, removing, journal>>

\* claim_for_attempt, in a transaction of its own
Claim(r) ==
    /\ phase = "claim"
    /\ IsNext(r)
    /\ linked[r] => ~ActiveRival(r, target[r])
    /\ state' = [state EXCEPT ![r] = "running"]
    /\ phase' = "assess"
    /\ current' = r
    /\ todo' = todo \ {r}
    /\ UNCHANGED <<dir, fresh, bound, finished, target, for, linked, outcome, cwd, removing, journal>>

\* A failed request cannot become active beside another one for its row: the
\* error leaves the loop.
ClaimRefused(r) ==
    /\ phase = "claim"
    /\ IsNext(r)
    /\ linked[r] /\ ActiveRival(r, target[r])
    /\ phase' = "idle"
    /\ todo' = {}
    /\ cwd' = Root
    /\ UNCHANGED <<dir, fresh, rows, current, outcome, removing, journal>>

\* assess_worktree_cleanup: no blocker
Removable(p) ==
    /\ Exists(p) => ~Occupied(p)
    /\ cwd # p
    /\ dir[p] # "kept"

Assess ==
    /\ phase = "assess"
    /\ \/ /\ Removable(target[current])
          /\ phase' = "execute"
          /\ UNCHANGED outcome
       \/ /\ ~Removable(target[current])
          /\ phase' = "finish"
          /\ outcome' = "blocked"
       \/ /\ GitMayFail
          /\ phase' = "finish"
          /\ outcome' = "failed"
    /\ UNCHANGED <<dir, fresh, rows, todo, current, cwd, removing, journal>>

\* Faulty variant of Execute: git worktree remove --force.
ExecuteForced ==
    LET p == target[current]
    IN  /\ phase = "execute"
        /\ dir' = [dir EXCEPT ![p] = "gone"]
        /\ outcome' = "completed"
        /\ phase' = "finish"
        /\ UNCHANGED <<fresh, rows, todo, current, cwd, removing, journal>>

\* execute_worktree_cleanup: idempotent, and git removes only a clean tree.
Execute ==
    LET p == target[current]
    IN  /\ phase = "execute"
        /\ \/ /\ ~Registered(p) \/ ~Exists(p)
              /\ outcome' = "completed"
              /\ UNCHANGED dir
           \/ /\ Registered(p) /\ dir[p] = "clean"
              /\ dir' = [dir EXCEPT ![p] = "gone"]
              /\ outcome' = "completed"
           \/ /\ Registered(p) /\ dir[p] = "kept"
              /\ outcome' = "blocked"
              /\ UNCHANGED dir
           \/ /\ GitMayFail /\ Registered(p) /\ Exists(p)
              /\ outcome' = "failed"
              /\ UNCHANGED dir
        /\ phase' = "finish"
        /\ UNCHANGED <<fresh, rows, todo, current, cwd, removing, journal>>

AttemptOver == current' = 0 /\ outcome' = "none"

\* Faulty variant of Record: the registration outlives the worktree.
RecordKeepsRow ==
    /\ phase = "finish"
    /\ state' = [state EXCEPT ![current] = outcome]
    /\ AttemptOver
    /\ phase' = "claim"
    /\ UNCHANGED <<dir, fresh, bound, finished, target, for, linked, todo, cwd, removing, journal>>

\* The second transaction: the outcome, and the row of a removed worktree.
Record ==
    /\ phase = "finish"
    /\ state' = [state EXCEPT ![current] = outcome]
    /\ IF outcome = "completed" /\ linked[current]
         THEN DeleteRows({target[current]}) ELSE UNCHANGED <<bound, linked>>
    /\ AttemptOver
    /\ phase' = "claim"
    /\ UNCHANGED <<dir, fresh, finished, target, for, todo, cwd, removing, journal>>

EndDrain ==
    /\ phase = "claim"
    /\ todo = {}
    /\ phase' = "idle"
    /\ cwd' = Root
    /\ UNCHANGED <<dir, fresh, rows, todo, current, outcome, removing, journal>>

----------------------------------------------------------------------------
(***************************************************************************)
(* Crashes and recovery; people.                                           *)
(***************************************************************************)
Crash ==
    /\ phase \notin {"idle", "down"}
    /\ phase' = "down"
    /\ todo' = {}
    /\ AttemptOver
    /\ cwd' = Root
    /\ removing' = NoPath
    /\ UNCHANGED <<dir, fresh, rows, journal>>

\* recover_worktree_create_journals, before the next command does anything:
\* a clean worktree is removed, and the journal goes in any case.
Recover ==
    /\ phase = "down" \/ (phase = "idle" /\ journal # NoPath)
    /\ phase' = "idle"
    /\ dir' = [p \in Paths |-> IF p = journal /\ dir[p] = "clean" THEN "gone" ELSE dir[p]]
    /\ journal' = NoPath
    /\ UNCHANGED <<fresh, rows, drain, removing>>

SetDir(p, from, to) ==
    /\ dir[p] = from
    /\ dir' = [dir EXCEPT ![p] = to]
    /\ UNCHANGED <<fresh, rows, phase, drain, removing, journal>>

\* edits, commits, git worktree lock, unlock and remove
People ==
    \E p \in Paths :
        \/ SetDir(p, "clean", "kept") \/ SetDir(p, "kept", "clean")
        \/ SetDir(p, "clean", "gone") \/ SetDir(p, "kept", "gone")

\* session.stale_after passes without activity
GoStale(l) ==
    /\ l \in fresh
    /\ fresh' = fresh \ {l}
    /\ UNCHANGED <<dir, rows, phase, drain, removing, journal>>

----------------------------------------------------------------------------
\* the steps of a command that has begun
Work ==
    \/ \E t \in Tasks : BindCreated(t)
    \/ RetireJournal \/ DeleteRow
    \/ \E r \in Requests : Claim(r) \/ ClaimRefused(r)
    \/ Assess \/ Execute \/ Record \/ EndDrain

\* where a command can be started
Here == {Root} \cup {p \in Paths : Exists(p)}

Command ==
    \/ \E p \in Paths : CreateDir(p) \/ Unbind(p)
    \/ \E p \in Paths, t \in Tasks \cup {NoTask} : Bind(p, t)
    \/ \E p \in Paths, force \in BOOLEAN : RemoveDir(p, force)
    \/ PruneStale
    \/ \E l \in Places : StartSession(l)
    \/ \E l \in Places, d \in Here, cleanup \in BOOLEAN : EndSession(l, d, cleanup)
    \/ \E t \in Tasks : Reopen(t)
    \/ \E t \in Tasks, cancelled \in BOOLEAN, d \in Here : FinishTask(t, cancelled, d)
    \/ \E d \in Here : CleanupRunAll(d) \/ CleanupRunOne(d)

Next ==
    \/ Command \/ Work \/ Crash \/ Recover \/ People
    \/ \E l \in Places : GoStale(l)

Spec == Init /\ [][Next]_vars

\* A command that has begun runs on unless it dies, the next one recovers, and
\* people go on draining from the repository root (the code itself schedules
\* nothing: task complete, task cancel, session end and cleanup run do).
Fairness ==
    /\ WF_vars(Work)
    /\ WF_vars(Recover)
    /\ SF_vars(CleanupRunAll(Root))

FairSpec == Spec /\ Fairness

----------------------------------------------------------------------------
(***************************************************************************)
(* Properties                                                              *)
(***************************************************************************)

\* The outbox never has two active requests for one registration, although a
\* failed request becomes active again when it is retried and worktrees are
\* rebound to tasks with requests of their own.
OneActivePerWorktree ==
    \A r \in Requests : state[r] \in Active /\ linked[r] => ~ActiveRival(r, target[r])

RemovalSpares ==
    phase = "execute" /\ phase' = "finish" =>
       \A p \in Paths :
          Exists(p) /\ ~Exists(p)' =>
             dir[p] = "clean" /\ p \notin fresh /\ Root \notin fresh /\ cwd # p

\* What cleanup removes is clean, unlocked, and neither the working directory
\* of the command nor that of a session that is still fresh, whatever people
\* did between the assessment and the removal.
CleanupSparesWork == [][RemovalSpares]_vars

FinishRequests ==
    CleanCancelled =>
       \A t \in finished' \ finished, p \in Paths :
          bound[p] = t =>
             \E r \in Requests : /\ state'[r] \in Active
                                /\ linked'[r] /\ target'[r] = p /\ for'[r] = t

\* The transaction that finishes a task leaves an active request for the
\* worktree the task is bound to now, whatever requests earlier lives of the
\* task left behind for other worktrees.
FinishedTaskRequested == [][FinishRequests]_vars

CompletionTrue ==
    \A r \in Requests :
       state[r] # "completed" /\ state'[r] = "completed" /\ linked[r] =>
          ~Exists(target[r]) /\ ~Registered(target[r])'

\* A request is recorded as completed only when the directory is gone, and the
\* registration it names goes in that same transaction, also when a crash and
\* any number of other commands came between the removal and the record.
CompletedMeansGone == [][CompletionTrue]_vars

\* The worktree of r is, as far as people go, ready to be removed.
Idle(r) ==
    state[r] \in Active =>
       /\ Exists(target[r]) => ~Occupied(target[r])
       /\ dir[target[r]] # "kept"

\* No active request is stuck, not even one a crash left running: if people
\* leave its worktree alone, commands stop dying and nothing failed for good,
\* the drains complete it.
RequestsDrain ==
    \A r \in Requests :
       <>[](Idle(r) /\ phase # "down" /\ \A q \in Requests : state[q] # "failed")
          => []<>(state[r] \notin Active)

RefusalIsFailed ==
    phase = "claim" /\ phase' = "idle" /\ todo # {} =>
       \E r \in todo : /\ \A q \in todo : r <= q
                      /\ state[r] = "failed" /\ linked[r] /\ ActiveRival(r, target[r])

\* A drain that leaves requests untried stopped at one that had failed before, when
\* its worktree has got a new request since: no active request ever stops it, and so
\* no drain without failures stops early, whatever was claimed and recorded before.
OnlyFailedStops == [][RefusalIsFailed]_vars

\* README.md:142: the drains "retry every eligible request for the project".
\* A drain that ends by itself has attempted its whole list.
DrainRetriesAll ==
    [][phase = "claim" /\ phase' = "idle" => todo = {}]_vars
=============================================================================
