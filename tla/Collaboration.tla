---------------------------- MODULE Collaboration ----------------------------
(***************************************************************************)
(* What agents leave each other about a task: hand-overs of it, its list   *)
(* of progress items, the team it belongs to and the decisions taken       *)
(* (application/collaboration.rs and team.rs, carryctx-core/application/   *)
(* progress.rs and their commands).  Every command is one unit of work,    *)
(* hence one action.                                                       *)
(*                                                                         *)
(* The tasks are those of TaskLifecycle: its actions run here beside the   *)
(* others, the completion of a task looks at the progress items of this    *)
(* module, and accepting a hand-over may claim its task.                   *)
(*                                                                         *)
(* Left out: texts and types of items and decisions, the source and the    *)
(* target of a hand-over (nothing asks for them), events.  No command of   *)
(* these deletes a row.                                                    *)
(***************************************************************************)
EXTENDS Naturals, FiniteSets

CONSTANTS
    Tasks, Agents, NoAgent, Commanders, Subagents, Qualified,
    SingleActive, StrictCompletion,     \* as in TaskLifecycle
    RoleFree,       \* tasks without a required_role
    MaxHandoffs,    \* bound: hand-overs of the project
    MaxItems,       \* bound: progress items of the project
    MaxDecisions,   \* bound: decisions of the project
    Teams,          \* the teams a project can have
    NoTeam,         \* tasks.team_id NULL
    NoRow

ASSUME BoundAssumption ==
    /\ MaxHandoffs \in Nat /\ MaxItems \in Nat /\ MaxDecisions \in Nat
    /\ RoleFree \subseteq Tasks /\ Agents \X RoleFree \subseteq Qualified

VARIABLES
    status, owner, strong, informational, active,   \* as in TaskLifecycle
    handoff,    \* handoffs, by display number
    item,       \* progress_items, by display number
    team,       \* teams and team_members
    taskTeam,   \* tasks.team_id
    successor   \* decisions, by display number: superseded_by, 0 when null

Task == INSTANCE TaskLifecycle WITH
    status <- status,
    owner <- owner,
    strong <- strong,
    informational <- informational,
    active <- active

taskVars == <<status, owner, strong, informational, active>>
vars == <<taskVars, handoff, item, team, taskTeam, successor>>

Handoffs == 1..MaxHandoffs
Items == 1..MaxItems
Decisions == 1..MaxDecisions

HandoffRow == [task: Tasks, state: {"pending", "accepted", "declined", "closed"}]

ItemRow == [task: Tasks, status: {"open", "completed", "removed"}, position: Nat]

TeamRow == [members: SUBSET Agents, commander: Agents \cup {NoAgent}]

ASSUME NullAssumption ==
    /\ NoRow \notin Nat \cup HandoffRow \cup ItemRow \cup TeamRow
    /\ NoTeam \notin Teams /\ NoAgent \notin Agents

TypeOK ==
    /\ Task!TypeOK
    /\ handoff \in [Handoffs -> HandoffRow \cup {NoRow}]
    /\ item \in [Items -> ItemRow \cup {NoRow}]
    /\ team \in [Teams -> TeamRow \cup {NoRow}]
    /\ taskTeam \in [Tasks -> Teams \cup {NoTeam}]
    /\ successor \in [Decisions -> Decisions \cup {0, NoRow}]
    /\ \A h \in Handoffs : handoff[h] # NoRow => Task!Exists(handoff[h].task)
    /\ \A i \in Items : item[i] # NoRow => Task!Exists(item[i].task)
    /\ \A t \in Tasks : taskTeam[t] # NoTeam => Task!Exists(t) /\ team[taskTeam[t]] # NoRow

\* The display number the sequences table gives next; rows never go.
NextNumber(row) == {n \in DOMAIN row : row[n] = NoRow /\ \A k \in 1..(n - 1) : row[k] # NoRow}

----------------------------------------------------------------------------
(***************************************************************************)
(* Progress items                                                          *)
(***************************************************************************)
ItemsOf(t) == {i \in Items : item[i] # NoRow /\ item[i].task = t}

Listed(t) == {i \in ItemsOf(t) : item[i].status # "removed"}

OpenItems(t) == {i \in ItemsOf(t) : item[i].status = "open"}

\* Faulty variant of Position: the number of items that are listed.
PositionByCount(t) == {Cardinality(Listed(t))}

\* get_next_position: one above every item of the task, removed ones included.
Position(t) ==
    {p \in 0..MaxItems : /\ \A i \in ItemsOf(t) : item[i].position < p
                         /\ p = 0 \/ \E i \in ItemsOf(t) : item[i].position = p - 1}

OnlyItems == UNCHANGED <<taskVars, handoff, team, taskTeam, successor>>

\* Nothing asks for the status of the task.
CreateItem(i, t) ==
    /\ i \in NextNumber(item) /\ Task!Exists(t)
    /\ \E p \in Position(t) :
           item' = [item EXCEPT ![i] = [task |-> t, status |-> "open", position |-> p]]
    /\ OnlyItems

\* evaluate_progress_transition
Legal(from, to) ==
    <<from, to>> \in {<<"open", "completed">>, <<"open", "removed">>,
                      <<"completed", "open">>, <<"completed", "removed">>}

MoveItem(i, to) ==
    /\ item[i] # NoRow /\ Legal(item[i].status, to)
    /\ item' = [item EXCEPT ![i].status = to]
    /\ OnlyItems

\* `order` names every listed item of the task once; those that are removed keep
\* the position they had.
Reorder(t, order) ==
    /\ Listed(t) # {}
    /\ \A i, j \in Listed(t) : order[i] = order[j] => i = j
    /\ item' = [i \in Items |-> IF i \in Listed(t) THEN [item[i] EXCEPT !.position = order[i]]
                                                   ELSE item[i]]
    /\ OnlyItems

\* Faulty variant of Complete: nobody looks at the items.
CompleteUnasked(t, a) ==
    /\ Task!Complete(t, a, FALSE)
    /\ UNCHANGED <<handoff, item, team, taskTeam, successor>>

\* transition_task (Complete), with what it reads of the items
Complete(t, a) ==
    /\ Task!Complete(t, a, OpenItems(t) # {})
    /\ UNCHANGED <<handoff, item, team, taskTeam, successor>>

----------------------------------------------------------------------------
(***************************************************************************)
(* Hand-overs                                                              *)
(***************************************************************************)
InsertHandoff(h, t) == handoff' = [handoff EXCEPT ![h] = [task |-> t, state |-> "pending"]]

CreateHandoff(h, t) ==
    /\ h \in NextNumber(handoff) /\ Task!Exists(t) /\ InsertHandoff(h, t)
    /\ UNCHANGED <<taskVars, item, team, taskTeam, successor>>

CanMove(from, to) ==
    \/ from = "pending" /\ to \in {"accepted", "declined", "closed"}
    \/ from \in {"accepted", "declined"} /\ to = "closed"

\* The compare-and-set of update_status.
SetState(h, from, to) ==
    /\ handoff[h].state = from
    /\ handoff' = [handoff EXCEPT ![h].state = to]

MoveHandoff(h, to) ==
    /\ handoff[h] # NoRow /\ CanMove(handoff[h].state, to)
    /\ SetState(h, handoff[h].state, to)
    /\ UNCHANGED <<item, team, taskTeam, successor>>

\* enforce_role_matching asks who is named on the command line, if anybody is.
RoleMatches(a, t) == IF a = NoAgent THEN t \in RoleFree ELSE <<a, t>> \in Qualified

Accept(h, a) ==
    /\ MoveHandoff(h, "accepted") /\ RoleMatches(a, handoff[h].task)
    /\ UNCHANGED taskVars

\* Faulty variant of AcceptAndClaim: makes the acceptor the owner.
AcceptAndTake(h, a, b) ==
    /\ handoff[h] # NoRow
    /\ a \in {b, NoAgent} /\ RoleMatches(a, handoff[h].task)
    /\ MoveHandoff(h, "accepted")
    /\ status' = [status EXCEPT ![handoff[h].task] = "in_progress"]
    /\ owner' = [owner EXCEPT ![handoff[h].task] = b]
    /\ UNCHANGED <<strong, informational, active>>

\* --claim-task: the task is claimed in the same transaction, for the agent
\* named, or for the one resolve_agent finds when nobody is named; if it can't be
\* claimed nothing is accepted.
AcceptAndClaim(h, a, b) ==
    /\ handoff[h] # NoRow
    /\ a \in {b, NoAgent} /\ RoleMatches(a, handoff[h].task)
    /\ Task!Claim(handoff[h].task, b)
    /\ MoveHandoff(h, "accepted")

Decline(h) == MoveHandoff(h, "declined") /\ UNCHANGED taskVars

Close(h) == MoveHandoff(h, "closed") /\ UNCHANGED taskVars

----------------------------------------------------------------------------
(***************************************************************************)
(* Teams                                                                   *)
(***************************************************************************)
OnlyTeams == UNCHANGED <<taskVars, handoff, item, successor>>

\* The commander, if one is named, becomes the first member.
CreateTeam(g, c) ==
    /\ team[g] = NoRow
    /\ team' = [team EXCEPT ![g] = [members |-> {c} \ {NoAgent}, commander |-> c]]
    /\ OnlyTeams /\ UNCHANGED taskTeam

AddMember(g, a) ==
    /\ team[g] # NoRow /\ a \notin team[g].members
    /\ team' = [team EXCEPT ![g].members = @ \cup {a}]
    /\ OnlyTeams /\ UNCHANGED taskTeam

\* Faulty variant of RemoveMember: without the trigger.
RemoveAnyMember(g, a) ==
    /\ team[g] # NoRow /\ a \in team[g].members
    /\ team' = [team EXCEPT ![g].members = @ \ {a}]
    /\ OnlyTeams /\ UNCHANGED taskTeam

\* team_members_reject_commander_removal
RemoveMember(g, a) ==
    /\ team[g] # NoRow /\ a \in team[g].members \ {team[g].commander}
    /\ team' = [team EXCEPT ![g].members = @ \ {a}]
    /\ OnlyTeams /\ UNCHANGED taskTeam

SetCommander(g, a) ==
    /\ team[g] # NoRow /\ a \in team[g].members \cup {NoAgent}
    /\ team' = [team EXCEPT ![g].commander = a]
    /\ OnlyTeams /\ UNCHANGED taskTeam

SetTaskTeam(t, g) ==
    /\ Task!Exists(t)
    /\ g # NoTeam => team[g] # NoRow
    /\ taskTeam' = [taskTeam EXCEPT ![t] = g]
    /\ OnlyTeams /\ UNCHANGED team

\* What team status tells of a task: under a member, or in the count of those
\* nobody owns.
Shown(g, t) ==
    /\ taskTeam[t] = g /\ status[t] \notin Task!Terminal
    /\ owner[t] \in team[g].members \cup {NoAgent}

----------------------------------------------------------------------------
(***************************************************************************)
(* Decisions                                                               *)
(***************************************************************************)
OnlyDecisions == UNCHANGED <<taskVars, handoff, item, team, taskTeam>>

\* decision add names the task it belongs to.
CreateDecision(d, t) ==
    /\ d \in NextNumber(successor) /\ Task!Exists(t)
    /\ successor' = [successor EXCEPT ![d] = 0]
    /\ OnlyDecisions

\* Neither itself nor twice.
Supersede(d, e) ==
    /\ successor[d] = 0 /\ successor[e] # NoRow /\ d # e
    /\ successor' = [successor EXCEPT ![d] = e]
    /\ OnlyDecisions

----------------------------------------------------------------------------
Init ==
    /\ Task!Init
    /\ handoff = [h \in Handoffs |-> NoRow]
    /\ item = [i \in Items |-> NoRow]
    /\ team = [g \in Teams |-> NoRow]
    /\ taskTeam = [t \in Tasks |-> NoTeam]
    /\ successor = [d \in Decisions |-> NoRow]

\* The commands of tasks that look at nothing in this module.
TaskCommand ==
    \/ \E t \in Tasks, requested \in {"default", "planned", "ready"},
          assignee \in Task!Actors, prereqs \in SUBSET Tasks :
          Task!Create(t, requested, assignee, prereqs)
    \/ \E t \in Tasks, a \in Agents : Task!Claim(t, a)
    \/ \E t \in Tasks, a \in Task!Actors :
          \/ \E session \in BOOLEAN : Task!Release(t, a, session)
          \/ Task!Start(t, a) \/ Task!Block(t, a) \/ Task!Unblock(t, a)
          \/ Task!Review(t, a) \/ Task!Cancel(t, a) \/ Task!Reopen(t, a)
    \/ \E t, p \in Tasks, kind \in {"strong", "informational"} : Task!AddDependency(t, p, kind)
    \/ \E t, p \in Tasks : Task!RemoveDependency(t, p)
    \/ \E a \in Agents : Task!DeactivateAgent(a)

ItemCommand ==
    \/ \E i \in Items, t \in Tasks : CreateItem(i, t)
    \/ \E i \in Items, to \in {"open", "completed", "removed"} : MoveItem(i, to)
    \/ \E t \in Tasks : \E order \in [Listed(t) -> 0..(Cardinality(Listed(t)) - 1)] :
           Reorder(t, order)

HandoffCommand ==
    \/ \E h \in Handoffs, t \in Tasks : CreateHandoff(h, t)
    \/ \E h \in Handoffs, a \in Agents \cup {NoAgent} :
           Accept(h, a) \/ \E b \in Agents : AcceptAndClaim(h, a, b)
    \/ \E h \in Handoffs : Decline(h) \/ Close(h)

TeamCommand ==
    \/ \E g \in Teams, a \in Agents \cup {NoAgent} : CreateTeam(g, a) \/ SetCommander(g, a)
    \/ \E g \in Teams, a \in Agents : AddMember(g, a) \/ RemoveMember(g, a)
    \/ \E t \in Tasks, g \in Teams \cup {NoTeam} : SetTaskTeam(t, g)

DecisionCommand ==
    \/ \E d \in Decisions, t \in Tasks : CreateDecision(d, t)
    \/ \E d, e \in Decisions : Supersede(d, e)

Next ==
    \/ TaskCommand /\ UNCHANGED <<handoff, item, team, taskTeam, successor>>
    \/ \E t \in Tasks, a \in Task!Actors : Complete(t, a)
    \/ ItemCommand
    \/ HandoffCommand
    \/ TeamCommand
    \/ DecisionCommand

Spec == Init /\ [][Next]_vars

----------------------------------------------------------------------------
(***************************************************************************)
(* Properties                                                              *)
(***************************************************************************)
\* Hand-overs, items and teams leave the life of a task as it is: every step is
\* one TaskLifecycle allows or leaves the tasks alone, so a hand-over never
\* opens a gate, takes a task from its owner or gives it to a busy or
\* deactivated agent (CHANGELOG.md:165: a team association "never changes a
\* task's lifecycle, ownership, dependencies, or scopes").
ImplementsTasks == Task!Spec

\* The listed items of a task stand in one order, whatever was removed and
\* however the rest was arranged: no two share a position.
PositionsDistinct ==
    \A t \in Tasks : \A i, j \in Listed(t) : item[i].position = item[j].position => i = j

\* Under strict completion no task is completed with an item open: what is open
\* on a completed task was added or opened again afterwards.
NothingOpenWhenCompleted ==
    [][\A t \in Tasks : StrictCompletion /\ status[t] # "completed" /\ status'[t] = "completed"
           => OpenItems(t)' = {}]_vars

\* The commander of a team is a member of it (CHANGELOG.md:165).
CommanderIsMember ==
    \A g \in Teams : team[g] # NoRow => team[g].commander \in team[g].members \cup {NoAgent}

\* team status shows every unfinished task of the team, under its owner or as
\* unassigned (README.md:106: "the complete coordination view").
StatusComplete ==
    \A t \in Tasks : taskTeam[t] # NoTeam /\ status[t] \notin Task!Terminal
        => Shown(taskTeam[t], t)

\* Among the decisions that were taken one is in force: a chain of successors
\* ends (collaboration.rs:442, "Chain-integrity guards").
DecisionInForce ==
    (\E d \in Decisions : successor[d] # NoRow) => \E d \in Decisions : successor[d] = 0
=============================================================================
