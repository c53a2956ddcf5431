---------------------------- MODULE WorkContext ----------------------------
(***************************************************************************)
(* Who works on what, and where: the sessions of the agents, the tasks and *)
(* worktrees from which a command or a git hook concludes which task it is *)
(* about, and the checkpoints it leaves there.                             *)
(*                                                                         *)
(* Commands exclude each other (module AdmissionLock), but pausing,        *)
(* resuming and abandoning a session write its row and its event in two    *)
(* transactions, and between the two hooks of a commit others may run.     *)
(*                                                                         *)
(* Left out: stale sessions (no command calls mark_stale_sessions), the    *)
(* registration of a first agent by resolve_agent, deactivated agents      *)
(* (module TaskLifecycle), unknown references (they only fail).            *)
(***************************************************************************)
EXTENDS Naturals, Sequences, FiniteSets

CONSTANTS
    Agents,         \* at least two, all active
    DefaultAgent,   \* agent.default_name, NoAgent when it is not configured
    Tasks,
    Places,         \* registered worktrees
    NoAgent, NoTask, NoPlace,
    Required,       \* checkpoint.require_before_session_end
    Attended,       \* a person at a terminal confirms what is asked
    TaskPrefixIsCtx, \* project.task_prefix is the one the hooks look for
    MaxSessions     \* bound: sessions started

ASSUME ContextAssumption ==
    /\ NoAgent \notin Agents /\ NoTask \notin Tasks /\ NoPlace \notin Places
    /\ DefaultAgent \in Agents \cup {NoAgent}
    /\ {Required, Attended, TaskPrefixIsCtx} \subseteq BOOLEAN
    /\ MaxSessions \in Nat

VARIABLES
    sessions,   \* the rows, oldest first, each with what its last event says
    unlogged,   \* the session whose row is written and its event not yet, or 0
    doing,      \* who has a task in progress
    over,       \* completed and cancelled tasks
    bound,      \* the task of each worktree
    checked,    \* tasks with a checkpoint
    draft       \* the commit between its hooks: where, and the task it names

contextVars == <<sessions, unlogged, doing, over, bound, checked, draft>>

SomeTask == Tasks \cup {NoTask}
Checkouts == Places \cup {NoPlace}
States == {"active", "paused", "ended", "abandoned"}

\* What an event says of the session: whether it goes on, and how it ended.
Told(state) == IF state \in {"active", "paused"} THEN "live" ELSE state

Row == [agent: Agents \cup {NoAgent}, place: Checkouts, task: SomeTask,
        state: States, told: {"live", "ended", "abandoned"}]

ContextTypeOK ==
    /\ sessions \in Seq(Row)
    /\ unlogged \in 0..Len(sessions)
    /\ doing \in [Tasks -> Agents \cup {NoAgent}]
    /\ over \subseteq {k \in Tasks : doing[k] = NoAgent}
    /\ bound \in [Places -> SomeTask]
    /\ checked \subseteq Tasks
    /\ draft = {} \/ \E p \in Checkouts, k \in SomeTask : draft = {[place |-> p, names |-> k]}

ContextInit ==
    /\ sessions = <<>> /\ unlogged = 0
    /\ doing = [k \in Tasks |-> NoAgent] /\ over = {}
    /\ bound = [p \in Places |-> NoTask]
    /\ checked = {} /\ draft = {}

----------------------------------------------------------------------------
(***************************************************************************)
(* Which agent and which task a command is about.                          *)
(***************************************************************************)
\* resolve_agent: two agents are active, so there is no single one to guess.
ActingAgent(named) == IF named # NoAgent THEN named ELSE DefaultAgent

Active == {i \in DOMAIN sessions : sessions[i].state = "active"}

\* The task of the worktree that contains the working directory.
TaskHere(cwd) == IF cwd \in Places THEN bound[cwd] ELSE NoTask

\* The one task the agent has in progress.
OnlyTaskOf(a) ==
    LET mine == {k \in Tasks : a # NoAgent /\ doing[k] = a}
    IN  IF Cardinality(mine) = 1 THEN CHOOSE k \in mine : TRUE ELSE NoTask

FirstOf(a, b) == IF a # NoTask THEN a ELSE b

\* list orders the sessions by their start, newest first; the first active one
\* counts, whosever it is.
NewestActiveTask ==
    IF Active = {} THEN NoTask
    ELSE sessions[CHOOSE i \in Active : \A j \in Active : j <= i].task

ResolveTask(explicit, cwd, a) ==
    FirstOf(explicit, FirstOf(NewestActiveTask, FirstOf(TaskHere(cwd), OnlyTaskOf(a))))

\* Faulty variant: a session of another worktree counts as well.
SessionTaskAnywhere(cwd) ==
    LET carrying == {i \in Active : sessions[i].task # NoTask}
    IN  IF Cardinality(carrying) = 1
        THEN sessions[CHOOSE i \in carrying : TRUE].task ELSE NoTask

\* The task of the only active session that has one, if it is here or nowhere
\* in particular and its task is not over.
SessionTask(cwd) ==
    LET carrying == {i \in Active : sessions[i].task # NoTask}
        s == sessions[CHOOSE i \in carrying : TRUE]
    IN  IF /\ Cardinality(carrying) = 1
           /\ s.place \in {NoPlace, cwd} /\ s.task \notin over
        THEN s.task ELSE NoTask

\* resolve_hook_task: what the subject of the commit, its branch and --task name,
\* in this order, comes first.
HookTask(given, cwd, a) ==
    FirstOf(given, FirstOf(TaskHere(cwd), FirstOf(SessionTask(cwd), OnlyTaskOf(a))))

----------------------------------------------------------------------------
(***************************************************************************)
(* Sessions.                                                               *)
(***************************************************************************)
CanTransition(from, to) ==
    \/ from = "active" /\ to \in {"paused", "ended", "abandoned"}
    \/ from = "paused" /\ to \in {"active", "ended", "abandoned"}

\* Faulty variant: worktree_id = NULL, which no row matches.
FindActiveNull(a, place) ==
    {i \in Active : sessions[i].agent = a /\ place \in Places /\ place = sessions[i].place}

\* find_active: without a worktree the sessions of the agent everywhere.
FindActive(a, place) ==
    {i \in Active : sessions[i].agent = a /\ place \in {NoPlace, sessions[i].place}}

Quiet == unlogged = 0

\* A row in a new state.  What a session that is over was about is dropped here:
\* nothing asks for it again.
Moved(row, to, told) ==
    IF to \in {"ended", "abandoned"}
    THEN [agent |-> NoAgent, place |-> NoPlace, task |-> NoTask, state |-> to, told |-> told]
    ELSE [row EXCEPT !.state = to, !.told = told]

\* start_session: what the agent has active there is ended in the same
\* transaction.  --reuse keeps it and changes nothing.
StartSession(a, place, explicit, cwd) ==
    LET superseded == FindActive(a, place)
        row == [agent |-> a, place |-> place,
                task |-> FirstOf(explicit, FirstOf(TaskHere(cwd), OnlyTaskOf(a))),
                state |-> "active", told |-> "live"]
    IN  /\ Quiet /\ Len(sessions) < MaxSessions
        /\ sessions' = Append([i \in DOMAIN sessions |->
               IF i \in superseded
               THEN Moved(sessions[i], "ended", "ended")
               ELSE sessions[i]], row)
        /\ UNCHANGED <<unlogged, doing, over, bound, checked, draft>>

\* A command names the session, or takes the newest in the state it changes.
MayChange(i, a, to) ==
    /\ i \in DOMAIN sessions
    /\ sessions[i].agent = a
    /\ CanTransition(sessions[i].state, to)

\* pause, resume and abandon: the row is committed, the event follows.
WriteState(i, a, to) ==
    /\ Quiet /\ MayChange(i, a, to)
    /\ sessions' = [sessions EXCEPT ![i] = Moved(@, to, @.told)]
    /\ unlogged' = i
    /\ UNCHANGED <<doing, over, bound, checked, draft>>

Pause(i, a) == WriteState(i, a, "paused")
Resume(i, a) == WriteState(i, a, "active")
Abandon(i, a) == WriteState(i, a, "abandoned")

AppendEvent ==
    /\ unlogged # 0
    /\ sessions' = [sessions EXCEPT ![unlogged].told = Told(sessions[unlogged].state)]
    /\ unlogged' = 0
    /\ UNCHANGED <<doing, over, bound, checked, draft>>

\* The process dies before it has appended the event.
CrashUnlogged ==
    /\ unlogged # 0 /\ unlogged' = 0
    /\ UNCHANGED <<sessions, doing, over, bound, checked, draft>>

Recorded(i) == sessions[i].task \in checked \cup {NoTask}

\* Faulty variant: the row and the event in two transactions here too.
EndInTwo(i, a) == WriteState(i, a, "ended")

\* session end: row and event in one transaction, after the checkpoint rule;
\* the drain of the cleanup outbox that follows is module WorktreeCleanup's.
EndSession(i, a) ==
    /\ Quiet /\ MayChange(i, a, "ended")
    /\ Required => Recorded(i) \/ Attended
    /\ sessions' = [sessions EXCEPT ![i] = Moved(@, "ended", "ended")]
    /\ UNCHANGED <<unlogged, doing, over, bound, checked, draft>>

----------------------------------------------------------------------------
(***************************************************************************)
(* Checkpoints: of the command, and of the two hooks of a commit.          *)
(***************************************************************************)
Checkpoint(k) == k # NoTask /\ checked' = checked \cup {k}

CreateCheckpoint(named, explicit, cwd) ==
    /\ Quiet
    /\ Checkpoint(ResolveTask(explicit, cwd, ActingAgent(named)))
    /\ UNCHANGED <<sessions, unlogged, doing, over, bound, draft>>

\* A commit begins in a checkout with the message that was typed.
\* prepare-commit-msg puts the task in front of it, unless it begins with just
\* that, there is no task, or a merge or squash is committed.  `given` is the
\* task of the branch, or else of --task.
PrepareCommit(named, typed, given, cwd) ==
    /\ Quiet /\ draft = {}
    /\ LET k == HookTask(given, cwd, ActingAgent(named))
       IN  \E names \in {typed, FirstOf(k, typed)} :
              draft' = {[place |-> cwd, names |-> names]}
    /\ UNCHANGED <<sessions, unlogged, doing, over, bound, checked>>

\* The task a subject names, for the post-commit hook.
NamedTask(names) == IF TaskPrefixIsCtx THEN names ELSE NoTask

PostCommit(named, given) ==
    /\ Quiet /\ draft # {}
    /\ \E d \in draft :
        LET k == HookTask(FirstOf(NamedTask(d.names), given), d.place, ActingAgent(named))
        IN  checked' = IF k = NoTask THEN checked ELSE checked \cup {k}
    /\ draft' = {}
    /\ UNCHANGED <<sessions, unlogged, doing, over, bound>>

----------------------------------------------------------------------------
(***************************************************************************)
(* What tasks and worktrees do meanwhile (TaskLifecycle, WorktreeCleanup). *)
(***************************************************************************)
Work(k, a) ==
    /\ Quiet /\ k \notin over /\ doing[k] = NoAgent
    /\ doing' = [doing EXCEPT ![k] = a]
    /\ UNCHANGED <<sessions, unlogged, over, bound, checked, draft>>

FinishTask(k) ==
    /\ Quiet /\ k \notin over
    /\ doing' = [doing EXCEPT ![k] = NoAgent]
    /\ over' = over \cup {k}
    /\ UNCHANGED <<sessions, unlogged, bound, checked, draft>>

BindWorktree(p, k) ==
    /\ Quiet /\ \A q \in Places : bound[q] # k
    /\ bound' = [bound EXCEPT ![p] = k]
    /\ UNCHANGED <<sessions, unlogged, doing, over, checked, draft>>

UnbindWorktree(p) ==
    /\ Quiet /\ bound[p] # NoTask
    /\ bound' = [bound EXCEPT ![p] = NoTask]
    /\ UNCHANGED <<sessions, unlogged, doing, over, checked, draft>>

ContextNext ==
    \/ \E a \in Agents, p, cwd \in Checkouts, k \in SomeTask : StartSession(a, p, k, cwd)
    \/ \E i \in 1..MaxSessions, a \in Agents :
        Pause(i, a) \/ Resume(i, a) \/ Abandon(i, a) \/ EndSession(i, a)
    \/ AppendEvent \/ CrashUnlogged
    \/ \E a \in Agents \cup {NoAgent}, k \in SomeTask, cwd \in Checkouts :
        CreateCheckpoint(a, k, cwd) \/ \E typed \in SomeTask : PrepareCommit(a, typed, k, cwd)
    \/ \E a \in Agents \cup {NoAgent}, k \in SomeTask : PostCommit(a, k)
    \/ \E k \in Tasks : FinishTask(k) \/ \E a \in Agents : Work(k, a)
    \/ \E p \in Places : UnbindWorktree(p) \/ \E k \in Tasks : BindWorktree(p, k)

ContextSpec == ContextInit /\ [][ContextNext]_contextVars

----------------------------------------------------------------------------
\* Two sessions of one agent in one place are both active only when one of them
\* was resumed after the other had started: starting supersedes.
TwoActiveOnlyByResume ==
    [][\A i, j \in Active' :
           /\ i < j
           /\ sessions'[i].agent = sessions'[j].agent
           /\ sessions'[i].place = sessions'[j].place
           /\ ~({i, j} \subseteq Active)
           => /\ {i, j} \subseteq DOMAIN sessions
              /\ \E r \in {i, j} : sessions[r].state = "paused"]_contextVars

\* The log and the rows agree on which sessions have ended, whenever a process
\* dies; a session the log calls abandoned is abandoned.
LogTellsEnd ==
    \A i \in DOMAIN sessions :
        /\ sessions[i].told = "ended" <=> sessions[i].state = "ended"
        /\ sessions[i].told = "abandoned" => sessions[i].state = "abandoned"

\* Where a checkpoint is required and nobody is asked, a session that ends
\* without one was superseded by a session its agent started.
EndedUnrecorded ==
    [][Required /\ ~Attended =>
       \A i \in DOMAIN sessions :
           /\ sessions[i].state # "ended" /\ sessions'[i].state = "ended"
           /\ sessions[i].task \notin checked \cup {NoTask}
           => /\ Len(sessions') = Len(sessions) + 1
              /\ sessions'[Len(sessions')].agent = sessions[i].agent]_contextVars

\* A commit that names no task is not attributed to the task of a session in
\* another worktree, unless its own worktree or agent has that task: whoever
\* commits where, now.
TagBelongsHere ==
    \A a \in Agents \cup {NoAgent}, cwd \in Checkouts :
        LET k == HookTask(NoTask, cwd, a)
        IN  k # NoTask /\ k \notin {TaskHere(cwd), OnlyTaskOf(a)} =>
                \A i \in Active : sessions[i].task # NoTask =>
                    sessions[i].task = k /\ sessions[i].place \in {NoPlace, cwd}

\* runtime.rs:413: several active sessions cannot cross-tag.  A commit in the
\* worktree of one session is not attributed to the task of another.
NoCrossTag ==
    \A i, j \in Active :
        LET k == HookTask(NoTask, sessions[i].place, DefaultAgent)
        IN  /\ sessions[i].place # NoPlace /\ sessions[j].place # sessions[i].place
            /\ TaskHere(sessions[i].place) = NoTask
            /\ NoTask \notin {sessions[i].task, sessions[j].task}
            /\ sessions[i].task # sessions[j].task
            => k # sessions[j].task

\* The commit whose prepared message names a task is checkpointed on that task.
PrefixIsTag ==
    [][\A d \in draft : draft' = {} /\ d.names # NoTask => d.names \in checked']_contextVars
=============================================================================
