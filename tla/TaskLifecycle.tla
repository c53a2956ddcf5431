--------------------------- MODULE TaskLifecycle ---------------------------
(***************************************************************************)
(* Tasks, their owners and their dependency graph (domain/task.rs,         *)
(* domain/dependency.rs and application/task.rs).  Every use case runs in  *)
(* one unit of work, an immediate SQLite transaction that is rolled back   *)
(* unless it commits, so each is a single action here.  Concurrent         *)
(* commands are the interleavings of these actions.                        *)
(*                                                                         *)
(* Sessions and progress items belong to other components: whether a task  *)
(* has an active session or open progress is an input of the transition    *)
(* that asks.  Titles, priorities, teams and events are left out.          *)
(***************************************************************************)
EXTENDS Naturals

CONSTANTS
    Tasks,          \* the identities a project can ever use
    Agents,         \* registered agents
    NoAgent,        \* owner_agent_id NULL, or no --agent on the command line
    Commanders,     \* agents of kind commander
    Subagents,      \* agents of kind subagent; the others are unclassified
    Qualified,      \* <<agent, task>>: the agent has the task's required_role
    SingleActive,   \* policy.single_active_task
    StrictCompletion \* task.strict_completion

ASSUME AgentAssumption ==
    /\ NoAgent \notin Agents
    /\ Commanders \subseteq Agents /\ Subagents \subseteq Agents
    /\ Commanders \cap Subagents = {}

ASSUME PolicyAssumption ==
    /\ SingleActive \in BOOLEAN /\ StrictCompletion \in BOOLEAN
    /\ Qualified \subseteq Agents \X Tasks

VARIABLES
    status,         \* tasks.status; "absent" before the row exists
    owner,          \* tasks.owner_agent_id
    strong,         \* task_dependencies of kind strong: <<task, prerequisite>>
    informational,  \* task_dependencies of kind informational
    active          \* agents whose status is active

vars == <<status, owner, strong, informational, active>>

Terminal == {"completed", "cancelled"}

TaskStatus == {"planned", "ready", "in_progress", "blocked", "review"} \cup Terminal

Actors == Agents \cup {NoAgent}

TypeOK ==
    /\ status \in [Tasks -> TaskStatus \cup {"absent"}]
    /\ owner \in [Tasks -> Actors]
    /\ strong \subseteq Tasks \X Tasks
    /\ informational \subseteq Tasks \X Tasks
    /\ strong \cap informational = {}   \* task_dependencies_edge_uq
    /\ active \subseteq Agents

----------------------------------------------------------------------------
(***************************************************************************)
(* The facts a use case reads before it decides.                           *)
(***************************************************************************)
Exists(t) == status[t] # "absent"

HasOwner(t) == owner[t] # NoAgent

PrerequisiteSettled(p) == status[p] \in Terminal

\* list_incomplete_strong_dependencies is empty
StrongComplete(t) == \A p \in Tasks : <<t, p>> \in strong => PrerequisiteSettled(p)

Edges == strong \cup informational

\* A set that holds the start and, with every task, its prerequisites.
ClosedFrom(E, start, S) ==
    /\ start \in S
    /\ \A e \in E : e[1] \in S => e[2] \in S

\* The search of would_create_cycle visits goal when it begins at start.
Reaches(E, start, goal) == \A S \in SUBSET Tasks : ClosedFrom(E, start, S) => goal \in S

\* Faulty variant of WouldCreateCycle: only the edges out of the prerequisite.
DirectCycleOnly(E, t, p) == t = p \/ <<p, t>> \in E

WouldCreateCycle(E, t, p) == t = p \/ Reaches(E, p, t)

\* the agent owns another task that is in progress
OccupiedElsewhere(a, t) ==
    \E u \in Tasks \ {t} : owner[u] = a /\ status[u] = "in_progress"

MayHold(a, t) == <<a, t>> \in Qualified /\ (SingleActive => ~OccupiedElsewhere(a, t))

\* release_authorized
ReleaseAuthorized(t, a) ==
    \/ ~HasOwner(t)
    \/ a \notin Subagents
    \/ a = owner[t]

SetTask(t, s, o) ==
    /\ status' = [status EXCEPT ![t] = s]
    /\ owner' = [owner EXCEPT ![t] = o]

GraphUnchanged == UNCHANGED <<strong, informational, active>>

----------------------------------------------------------------------------
(***************************************************************************)
(* create_task.  requested is the --status option ("default": none given). *)
(* A new identity has no edges yet, so no prerequisite can close a cycle.  *)
(***************************************************************************)
Create(t, requested, assignee, prereqs) ==
    LET complete == \A p \in prereqs : PrerequisiteSettled(p)
    IN  /\ ~Exists(t)
        /\ \A p \in prereqs : Exists(p) /\ ~WouldCreateCycle(Edges, t, p)
        /\ requested = "ready" => complete
        /\ assignee \in active \cup {NoAgent}
        /\ SetTask(t, IF requested # "default" THEN requested
                      ELSE IF complete THEN "ready" ELSE "planned", assignee)
        /\ strong' = strong \cup {<<t, p>> : p \in prereqs}
        /\ UNCHANGED <<informational, active>>

\* claim_task and the compare-and-set update it ends with
Claim(t, a) ==
    /\ a \in active
    /\ status[t] = "ready"
    /\ ~HasOwner(t)
    /\ MayHold(a, t)
    /\ StrongComplete(t)
    /\ SetTask(t, "in_progress", a)
    /\ GraphUnchanged

(***************************************************************************)
(* transition_task: one action per TransitionAction, acting agent a.       *)
(***************************************************************************)
BackInQueue(t) == IF StrongComplete(t) THEN "ready" ELSE "planned"

Release(t, a, hasActiveSession) ==
    /\ status[t] \in {"in_progress", "blocked", "review"}
    /\ ReleaseAuthorized(t, a)
    /\ ~hasActiveSession
    /\ SetTask(t, BackInQueue(t), NoAgent)
    /\ GraphUnchanged

\* The policies look at the owner, or at the actor when nobody owns the task.
Start(t, a) ==
    LET checked == IF HasOwner(t) THEN owner[t] ELSE a
    IN  /\ checked # NoAgent => MayHold(checked, t)
        /\ \/ status[t] \in {"ready", "planned"} /\ StrongComplete(t)
           \/ status[t] = "in_progress"
        /\ SetTask(t, "in_progress", owner[t])
        /\ GraphUnchanged

Block(t, a) ==
    /\ status[t] \in {"in_progress", "ready", "planned", "review"}
    /\ SetTask(t, "blocked", owner[t])
    /\ GraphUnchanged

\* Faulty variant of Unblock: without the dependency gate.
UnblockUngated(t, a) ==
    /\ status[t] \in {"blocked", "planned"}
    /\ SetTask(t, IF HasOwner(t) THEN "in_progress" ELSE "ready", owner[t])
    /\ GraphUnchanged

Unblock(t, a) ==
    /\ status[t] \in {"blocked", "planned"}
    /\ StrongComplete(t)
    /\ SetTask(t, IF HasOwner(t) THEN "in_progress" ELSE "ready", owner[t])
    /\ GraphUnchanged

Review(t, a) ==
    /\ status[t] = "in_progress"
    /\ SetTask(t, "review", owner[t])
    /\ GraphUnchanged

\* Faulty variant of Promoted: asks before the completion is written.
PromotedTooEarly(t) ==
    {d \in Tasks : /\ <<d, t>> \in strong
                   /\ status[d] = "planned"
                   /\ ~HasOwner(d)
                   /\ StrongComplete(d)}

\* the dependents that the completion of t takes out of "planned"
Promoted(t) ==
    {d \in Tasks : /\ <<d, t>> \in strong
                   /\ status[d] = "planned"
                   /\ ~HasOwner(d)
                   /\ \A p \in Tasks \ {t} : <<d, p>> \in strong => PrerequisiteSettled(p)}

Complete(t, a, hasOpenProgress) ==
    /\ status[t] \in {"review", "in_progress"}
    /\ StrongComplete(t)
    /\ ~(hasOpenProgress /\ StrictCompletion)
    /\ status' = [d \in Tasks |-> IF d = t THEN "completed"
                                  ELSE IF d \in Promoted(t) THEN "ready" ELSE status[d]]
    /\ UNCHANGED owner
    /\ GraphUnchanged

Cancel(t, a) ==
    /\ Exists(t) /\ status[t] \notin Terminal
    /\ SetTask(t, "cancelled", NoAgent)
    /\ GraphUnchanged

Reopen(t, a) ==
    /\ status[t] \in Terminal
    /\ SetTask(t, BackInQueue(t), NoAgent)
    /\ GraphUnchanged

----------------------------------------------------------------------------
(***************************************************************************)
(* add_dependency, remove_dependency, deactivate_agent                     *)
(***************************************************************************)
\* Faulty variant of AddDependency: the task is not downgraded to planned.
AddWithoutDowngrade(t, p, kind) ==
    /\ Exists(t) /\ Exists(p)
    /\ ~WouldCreateCycle(Edges, t, p)
    /\ <<t, p>> \notin Edges
    /\ strong' = IF kind = "strong" THEN strong \cup {<<t, p>>} ELSE strong
    /\ informational' = IF kind = "strong" THEN informational
                                           ELSE informational \cup {<<t, p>>}
    /\ UNCHANGED <<status, owner, active>>

AddDependency(t, p, kind) ==
    /\ Exists(t) /\ Exists(p)
    /\ <<t, p>> \notin Edges
    /\ ~WouldCreateCycle(Edges, t, p)
    /\ strong' = IF kind = "strong" THEN strong \cup {<<t, p>>} ELSE strong
    /\ informational' = IF kind = "strong" THEN informational
                                           ELSE informational \cup {<<t, p>>}
    /\ status' = IF /\ kind = "strong" /\ ~PrerequisiteSettled(p)
                    /\ status[t] = "ready" /\ ~HasOwner(t)
                 THEN [status EXCEPT ![t] = "planned"]
                 ELSE status
    /\ UNCHANGED <<owner, active>>

RemoveDependency(t, p) ==
    /\ <<t, p>> \in Edges
    /\ strong' = strong \ {<<t, p>>}
    /\ informational' = informational \ {<<t, p>>}
    /\ status' = IF /\ status[t] = "planned" /\ ~HasOwner(t)
                    /\ \A q \in Tasks : <<t, q>> \in strong' => PrerequisiteSettled(q)
                 THEN [status EXCEPT ![t] = "ready"]
                 ELSE status
    /\ UNCHANGED <<owner, active>>

\* No check that the agent still owns unfinished tasks.
DeactivateAgent(a) ==
    /\ a \in active
    /\ active' = active \ {a}
    /\ UNCHANGED <<status, owner, strong, informational>>

----------------------------------------------------------------------------
Init ==
    /\ status = [t \in Tasks |-> "absent"]
    /\ owner = [t \in Tasks |-> NoAgent]
    /\ strong = {}
    /\ informational = {}
    /\ active = Agents

\* transition_task run by a on t, whatever the TransitionAction
Transition(t, a) ==
    \/ \E session \in BOOLEAN : Release(t, a, session)
    \/ Start(t, a)
    \/ Block(t, a)
    \/ Unblock(t, a)
    \/ Review(t, a)
    \/ \E open \in BOOLEAN : Complete(t, a, open)
    \/ Cancel(t, a)
    \/ Reopen(t, a)

Next ==
    \/ \E t \in Tasks, requested \in {"default", "planned", "ready"},
          assignee \in Actors, prereqs \in SUBSET Tasks :
          Create(t, requested, assignee, prereqs)
    \/ \E t \in Tasks, a \in Agents : Claim(t, a)
    \/ \E t \in Tasks, a \in Actors : Transition(t, a)
    \/ \E t, p \in Tasks, kind \in {"strong", "informational"} : AddDependency(t, p, kind)
    \/ \E t, p \in Tasks : RemoveDependency(t, p)
    \/ \E a \in Agents : DeactivateAgent(a)

Spec == Init /\ [][Next]_vars

----------------------------------------------------------------------------
(***************************************************************************)
(* Properties                                                              *)
(***************************************************************************)

\* No task waits, through any chain of strong and informational edges, for
\* itself: would_create_cycle is asked before every insertion, whatever
\* removals and status changes came between.
Acyclic == \A e \in Edges : ~Reaches(Edges, e[2], e[1])

WorkStepGated ==
    \A t \in Tasks :
       status'[t] # status[t] /\ status'[t] \in {"in_progress", "completed"}
          => StrongComplete(t)

\* Work never begins or ends past an open gate: whichever command takes a
\* task into in_progress or completed (claim, start, unblock, complete), all
\* its strong prerequisites were settled at that moment.
GateGuardsWork == [][WorkStepGated]_vars

\* A task that is ready for anyone to claim although a strong prerequisite is
\* open.
ReadyButGated(t) == status[t] = "ready" /\ ~HasOwner(t) /\ ~StrongComplete(t)

ReopenedPrerequisite(t) ==
    \E p \in Tasks : /\ <<t, p>> \in strong
                    /\ PrerequisiteSettled(p)
                    /\ ~PrerequisiteSettled(p)'

StaysGated ==
    \A t \in Tasks :
       ReadyButGated(t)' => ReadyButGated(t) \/ ReopenedPrerequisite(t)

\* Creation, promotion, release, reopening and the edits of the dependency
\* graph keep unowned ready tasks behind their gate: only the reopening of a
\* prerequisite, which does not look at its dependents, can leave one of them
\* ready in front of an open prerequisite.
OnlyReopenUngates == [][StaysGated]_vars

OwnerKeptOrCleared ==
    \A t \in Tasks : HasOwner(t) => owner'[t] \in {owner[t], NoAgent}

\* Ownership never passes from one agent to another in one step: between two
\* owners a task is unowned, however claims and transitions interleave.
NoOwnershipTransfer == [][OwnerKeptOrCleared]_vars

TakenOnlyWhenIdle ==
    \A t \in Tasks :
       /\ SingleActive
       /\ status[t] = "ready" /\ status'[t] = "in_progress"
       /\ owner'[t] # NoAgent
       => \A u \in Tasks \ {t} :
             owner[u] = owner'[t] => status[u] # "in_progress"

\* Under the single_active_task policy a ready task never becomes its owner's
\* work in progress, by claim or by start and whoever runs the command, while
\* that owner has another task in progress.  (Unblocking is not covered.)
OneTaskAtATime == [][TakenOnlyWhenIdle]_vars

\* The last strong prerequisite of the planned and unowned task d settles.
LastGateOpens(d) ==
    /\ status[d] = "planned" /\ ~HasOwner(d)
    /\ ~StrongComplete(d) /\ StrongComplete(d)'
    /\ strong' = strong

CompletedStepPromotes ==
    \A p, d \in Tasks :
       /\ status[p] # "completed" /\ status'[p] = "completed"
       /\ LastGateOpens(d)
       => status'[d] = "ready"

\* When a completion settles the last open prerequisite of unowned planned
\* tasks, all of them become ready in the same transaction, however many
\* prerequisites and dependents there are.  (A cancellation settles as well, and
\* promotes nothing.)
CompletionPromotes == [][CompletedStepPromotes]_vars

\* Invariant I2 as release_authorized states it (domain/task.rs:185): only
\* the owner, a commander or an unclassified actor removes ownership.
RevocationAuthorized ==
    [][\A t \in Tasks, a \in Actors :
         Transition(t, a) /\ HasOwner(t) /\ owner'[t] = NoAgent
            => ReleaseAuthorized(t, a)]_vars

\* A deactivated agent is rejected wherever it is named as the actor
\* (cli.rs:837, tests/agent_identity_test.rs:9).
DeactivatedCannotAct ==
    [][\A t \in Tasks, a \in Agents \ active : ~Transition(t, a)]_vars
============================================================================
