------------------------ MODULE CollaborationProofs ------------------------
(***************************************************************************)
(* Proofs about Collaboration, for every number of hand-overs, items and   *)
(* decisions and every set of tasks, agents and teams: it refines          *)
(* TaskLifecycle, positions stay distinct and commanders members.  And     *)
(* about Scopes, for every set of patterns: what is reported as a definite *)
(* conflict is one.                                                        *)
(***************************************************************************)
EXTENDS Collaboration, Scopes, TLAPS

RowsTyped ==
    /\ handoff \in [Handoffs -> HandoffRow \cup {NoRow}]
    /\ item \in [Items -> ItemRow \cup {NoRow}]
    /\ team \in [Teams -> TeamRow \cup {NoRow}]

RecordInv == RowsTyped /\ PositionsDistinct /\ CommanderIsMember

Records == <<handoff, item, team>>

----------------------------------------------------------------------------
(***************************************************************************)
(* Items                                                                   *)
(***************************************************************************)

\* A new item stands behind every item its task has.
LEMMA CreateItemKeeps ==
    ASSUME RecordInv, NEW i \in Items, NEW t \in Tasks, CreateItem(i, t)
    PROVE  RecordInv'
<1> USE NullAssumption, BoundAssumption DEF RecordInv, RowsTyped, OnlyItems, Items
<1>1. item[i] = NoRow /\ UNCHANGED <<handoff, team>>
  BY DEF CreateItem, NextNumber
<1>2. PICK p \in Position(t) :
         item' = [item EXCEPT ![i] = [task |-> t, status |-> "open", position |-> p]]
  BY DEF CreateItem
<1>3. p \in Nat /\ \A j \in ItemsOf(t) : item[j].position < p
  BY DEF Position
<1>4. item' \in [Items -> ItemRow \cup {NoRow}]
  BY <1>2, <1>3 DEF ItemRow
<1>5. PositionsDistinct'
  <2> SUFFICES ASSUME NEW u \in Tasks, NEW j \in Listed(u)', NEW k \in Listed(u)',
                      j # k
               PROVE  item'[j].position # item'[k].position
    BY DEF PositionsDistinct
  <2>1. j \in Items /\ k \in Items
    BY DEF Listed, ItemsOf
  <2>2. \A n \in Items \ {i} : item'[n] = item[n]
    BY <1>2
  <2>3. item'[i] = [task |-> t, status |-> "open", position |-> p]
    BY <1>2
  <2>4. \A n \in Listed(u)' \ {i} : n \in Listed(u) /\ n \in ItemsOf(u)
    BY <2>2 DEF Listed, ItemsOf
  <2>5. \A n \in ItemsOf(u) : item[n].position \in Nat
    BY DEF ItemsOf, ItemRow
  <2>6. i \in Listed(u)' => u = t
    BY <2>3 DEF Listed, ItemsOf
  <2>7. CASE j = i
    BY <2>7, <2>1, <2>2, <2>3, <2>4, <2>5, <2>6, <1>3
  <2>8. CASE k = i
    BY <2>8, <2>1, <2>2, <2>3, <2>4, <2>5, <2>6, <1>3
  <2>9. CASE j # i /\ k # i
    BY <2>9, <2>1, <2>2, <2>4 DEF PositionsDistinct
  <2> QED BY <2>7, <2>8, <2>9
<1>6. CommanderIsMember'
  BY <1>1 DEF CommanderIsMember
<1> QED BY <1>1, <1>4, <1>5, <1>6

\* What is removed never comes back, so no item joins the list by a change of
\* its status.
LEMMA MoveItemKeeps ==
    ASSUME RecordInv, NEW i \in Items, NEW to \in {"open", "completed", "removed"},
           MoveItem(i, to)
    PROVE  RecordInv'
<1> USE NullAssumption DEF RecordInv, RowsTyped, OnlyItems, Items
<1>1. /\ item[i] \in ItemRow /\ item[i].status # "removed"
      /\ item' = [item EXCEPT ![i].status = to] /\ UNCHANGED <<handoff, team>>
  BY DEF MoveItem, Legal
<1>2. item'[i] \in ItemRow
  BY <1>1 DEF ItemRow
<1>3. item' \in [Items -> ItemRow \cup {NoRow}]
  BY <1>1, <1>2
<1>4. \A n \in Items : item[n] # NoRow =>
          item'[n].task = item[n].task /\ item'[n].position = item[n].position
  BY <1>1 DEF ItemRow
<1>5. \A u \in Tasks : Listed(u)' \subseteq Listed(u)
  BY <1>1, <1>4 DEF Listed, ItemsOf
<1>6. \A u \in Tasks : Listed(u) \subseteq Items /\ \A n \in Listed(u) : item[n] # NoRow
  BY DEF Listed, ItemsOf
<1>7. PositionsDistinct'
  BY <1>4, <1>5, <1>6 DEF PositionsDistinct
<1>8. CommanderIsMember'
  BY <1>1 DEF CommanderIsMember
<1> QED BY <1>1, <1>3, <1>7, <1>8

\* A new order places every listed item of one task, and no other.
LEMMA ReorderKeeps ==
    ASSUME RecordInv, NEW t \in Tasks,
           NEW order \in [Listed(t) -> Nat], Reorder(t, order)
    PROVE  RecordInv'
<1> USE NullAssumption DEF RecordInv, RowsTyped, OnlyItems, Items
<1>1. /\ item' = [i \in Items |-> IF i \in Listed(t)
                                  THEN [item[i] EXCEPT !.position = order[i]] ELSE item[i]]
      /\ \A i, j \in Listed(t) : order[i] = order[j] => i = j
      /\ UNCHANGED <<handoff, team>>
  BY DEF Reorder
<1>2. \A i \in Listed(t) : i \in Items /\ item[i] \in ItemRow
  BY DEF Listed, ItemsOf
<1>3. \A i \in Listed(t) : /\ order[i] \in Nat
                            /\ item'[i] = [item[i] EXCEPT !.position = order[i]]
                            /\ item'[i] \in ItemRow
                            /\ item'[i].task = item[i].task
                            /\ item'[i].status = item[i].status
                            /\ item'[i].position = order[i]
  <2> SUFFICES ASSUME NEW i \in Listed(t)
               PROVE  /\ order[i] \in Nat
                      /\ item'[i] = [item[i] EXCEPT !.position = order[i]]
                      /\ item'[i] \in ItemRow
                      /\ item'[i].task = item[i].task
                      /\ item'[i].status = item[i].status
                      /\ item'[i].position = order[i]
    OBVIOUS
  <2>1. order[i] \in Nat
    OBVIOUS
  <2>2. item'[i] = [item[i] EXCEPT !.position = order[i]]
    BY <1>1, <1>2
  <2>3. item[i] \in ItemRow
    BY <1>2
  <2> QED BY <2>1, <2>2, <2>3 DEF ItemRow
<1>4. \A i \in Items \ Listed(t) : item'[i] = item[i]
  BY <1>1
<1>5. item' \in [Items -> ItemRow \cup {NoRow}]
  <2> DEFINE moved(i) == IF i \in Listed(t) THEN [item[i] EXCEPT !.position = order[i]]
                                            ELSE item[i]
  <2>1. item' = [i \in Items |-> moved(i)]
    BY <1>1
  <2>2. \A i \in Items : moved(i) \in ItemRow \cup {NoRow}
    BY <1>2, <1>3
  <2> HIDE DEF moved
  <2> QED BY <2>1, <2>2
<1>6. \A u \in Tasks : Listed(u)' = Listed(u)
  <2>1. \A i \in Listed(t) : item[i] # NoRow /\ item'[i] # NoRow
    BY <1>2, <1>3
  <2> SUFFICES ASSUME NEW u \in Tasks, NEW i \in Items
               PROVE  i \in Listed(u)' <=> i \in Listed(u)
    BY DEF Listed, ItemsOf
  <2>2. CASE i \in Listed(t)
    BY <1>3, <2>1, <2>2 DEF Listed, ItemsOf
  <2>3. CASE i \notin Listed(t)
    BY <1>4, <2>3 DEF Listed, ItemsOf
  <2> QED BY <2>2, <2>3
<1>7. \A u \in Tasks \ {t} : \A i \in Listed(u) : i \in Items /\ item'[i] = item[i]
  BY <1>1 DEF Listed, ItemsOf
<1>8. PositionsDistinct'
  <2> SUFFICES ASSUME NEW u \in Tasks, NEW j \in Listed(u)', NEW k \in Listed(u)',
                      item'[j].position = item'[k].position
               PROVE  j = k
    BY DEF PositionsDistinct
  <2>1. j \in Listed(u) /\ k \in Listed(u)
    BY <1>6
  <2>2. CASE u = t
    <3>1. j \in Listed(t) /\ k \in Listed(t)
      BY <2>1, <2>2
    <3>2. item'[j].position = order[j] /\ item'[k].position = order[k]
      BY <3>1, <1>3
    <3>3. order[j] = order[k]
      BY <3>2
    <3> QED BY <3>1, <3>3, <1>1
  <2>3. CASE u # t
    BY <2>1, <2>3, <1>7 DEF PositionsDistinct
  <2> QED BY <2>2, <2>3
<1>9. CommanderIsMember'
  BY <1>1 DEF CommanderIsMember
<1> QED BY <1>1, <1>5, <1>8, <1>9

----------------------------------------------------------------------------
(***************************************************************************)
(* Teams                                                                   *)
(***************************************************************************)

\* What a step that leaves the items alone keeps of them.
LEMMA ItemsAlone ==
    ASSUME PositionsDistinct, UNCHANGED item
    PROVE  PositionsDistinct'
BY DEF PositionsDistinct, Listed, ItemsOf

\* A team comes with its commander, the trigger keeps the commander from being
\* removed and only a member can take the command.
LEMMA TeamCommandKeeps ==
    ASSUME RecordInv, TeamCommand
    PROVE  RecordInv'
<1> USE NullAssumption
<1>1. UNCHANGED <<handoff, item>>
  BY DEF TeamCommand, CreateTeam, SetCommander, AddMember, RemoveMember, SetTaskTeam, OnlyTeams
<1>2. \/ UNCHANGED team
      \/ \E g \in Teams, r \in TeamRow :
            /\ r.commander \in r.members \cup {NoAgent}
            /\ team' = [team EXCEPT ![g] = r]
  <2>1. ASSUME NEW g \in Teams, NEW a \in Agents \cup {NoAgent}, CreateTeam(g, a)
        PROVE  <1>2
    <3>1. [members |-> {a} \ {NoAgent}, commander |-> a] \in TeamRow
      BY DEF TeamRow
    <3> QED BY <2>1, <3>1 DEF CreateTeam
  <2>2. ASSUME NEW g \in Teams, team[g] # NoRow
        PROVE  /\ team[g] \in TeamRow
               /\ team[g].commander \in team[g].members \cup {NoAgent}
    BY <2>2 DEF RecordInv, RowsTyped, CommanderIsMember
  <2>3. ASSUME NEW g \in Teams, NEW a \in Agents \cup {NoAgent}, SetCommander(g, a)
        PROVE  <1>2
    <3>1. team[g] # NoRow /\ a \in team[g].members \cup {NoAgent}
      BY <2>3 DEF SetCommander
    <3>2. team' = [team EXCEPT ![g] = [team[g] EXCEPT !.commander = a]]
      BY <2>3 DEF SetCommander
    <3>3. /\ [team[g] EXCEPT !.commander = a] \in TeamRow
          /\ [team[g] EXCEPT !.commander = a].commander = a
          /\ [team[g] EXCEPT !.commander = a].members = team[g].members
      BY <2>2, <3>1 DEF TeamRow
    <3> QED BY <3>1, <3>2, <3>3
  <2>4. ASSUME NEW g \in Teams, NEW a \in Agents, AddMember(g, a)
        PROVE  <1>2
    <3>1. team[g] # NoRow
      BY <2>4 DEF AddMember
    <3> DEFINE r == [team[g] EXCEPT !.members = team[g].members \cup {a}]
    <3>2. team' = [team EXCEPT ![g] = r]
      BY <2>4 DEF AddMember
    <3>3. r \in TeamRow /\ r.commander = team[g].commander /\ r.members = team[g].members \cup {a}
      BY <2>2, <3>1 DEF TeamRow
    <3>4. r.commander \in r.members \cup {NoAgent}
      BY <2>2, <3>1, <3>3
    <3> QED BY <3>2, <3>3, <3>4
  <2>5. ASSUME NEW g \in Teams, NEW a \in Agents, RemoveMember(g, a)
        PROVE  <1>2
    <3>1. team[g] # NoRow /\ a # team[g].commander
      BY <2>5 DEF RemoveMember
    <3> DEFINE r == [team[g] EXCEPT !.members = team[g].members \ {a}]
    <3>2. team' = [team EXCEPT ![g] = r]
      BY <2>5 DEF RemoveMember
    <3>3. r \in TeamRow /\ r.commander = team[g].commander /\ r.members = team[g].members \ {a}
      BY <2>2, <3>1 DEF TeamRow
    <3>4. r.commander \in r.members \cup {NoAgent}
      BY <2>2, <3>1, <3>3
    <3> QED BY <3>2, <3>3, <3>4
  <2>6. ASSUME NEW t \in Tasks, NEW g \in Teams \cup {NoTeam}, SetTaskTeam(t, g)
        PROVE  <1>2
    BY <2>6 DEF SetTaskTeam
  <2> QED BY <2>1, <2>3, <2>4, <2>5, <2>6 DEF TeamCommand
<1>3. team' \in [Teams -> TeamRow \cup {NoRow}] /\ CommanderIsMember'
  BY <1>2 DEF RecordInv, RowsTyped, CommanderIsMember
<1>4. PositionsDistinct'
  BY <1>1, ItemsAlone DEF RecordInv
<1> QED BY <1>1, <1>3, <1>4 DEF RecordInv, RowsTyped

----------------------------------------------------------------------------
(***************************************************************************)
(* Hand-overs                                                              *)
(***************************************************************************)

\* A hand-over keeps its task when it moves.
LEMMA MoveHandoffKeeps ==
    ASSUME RecordInv, NEW h \in Handoffs,
           NEW to \in {"accepted", "declined", "closed"}, MoveHandoff(h, to)
    PROVE  RecordInv'
<1>1. handoff[h] \in HandoffRow /\ UNCHANGED <<item, team>>
  BY DEF RecordInv, RowsTyped, MoveHandoff
<1>2. [handoff[h] EXCEPT !.state = to] \in HandoffRow
  BY <1>1 DEF HandoffRow
<1>3. handoff' = [handoff EXCEPT ![h] = [handoff[h] EXCEPT !.state = to]]
  BY DEF MoveHandoff, SetState
<1>4. handoff' \in [Handoffs -> HandoffRow \cup {NoRow}]
  BY <1>2, <1>3 DEF RecordInv, RowsTyped
<1>5. PositionsDistinct' /\ CommanderIsMember'
  BY <1>1, ItemsAlone DEF RecordInv, CommanderIsMember
<1> QED BY <1>1, <1>4, <1>5 DEF RecordInv, RowsTyped

LEMMA HandoffCommandKeeps ==
    ASSUME RecordInv, HandoffCommand
    PROVE  RecordInv'
<1>1. ASSUME NEW h \in Handoffs, NEW t \in Tasks, CreateHandoff(h, t)
      PROVE  RecordInv'
  <2>1. handoff' = [handoff EXCEPT ![h] = [task |-> t, state |-> "pending"]]
    BY <1>1 DEF CreateHandoff, InsertHandoff
  <2>2. [task |-> t, state |-> "pending"] \in HandoffRow
    BY DEF HandoffRow
  <2>3. handoff' \in [Handoffs -> HandoffRow \cup {NoRow}]
    BY <2>1, <2>2 DEF RecordInv, RowsTyped
  <2>4. UNCHANGED <<item, team>>
    BY <1>1 DEF CreateHandoff
  <2>5. PositionsDistinct' /\ CommanderIsMember'
    BY <2>4, ItemsAlone DEF RecordInv, CommanderIsMember
  <2> QED BY <2>3, <2>4, <2>5 DEF RecordInv, RowsTyped
<1>2. ASSUME NEW h \in Handoffs, NEW a \in Agents \cup {NoAgent}, Accept(h, a)
      PROVE  RecordInv'
  BY <1>2, MoveHandoffKeeps DEF Accept
<1>3. ASSUME NEW h \in Handoffs, NEW a \in Agents \cup {NoAgent}, NEW b \in Agents,
             AcceptAndClaim(h, a, b)
      PROVE  RecordInv'
  BY <1>3, MoveHandoffKeeps DEF AcceptAndClaim
<1>4. ASSUME NEW h \in Handoffs, Decline(h) \/ Close(h)
      PROVE  RecordInv'
  BY <1>4, MoveHandoffKeeps DEF Decline, Close
<1> QED BY <1>1, <1>2, <1>3, <1>4 DEF HandoffCommand

----------------------------------------------------------------------------
(***************************************************************************)
(* The invariant                                                           *)
(***************************************************************************)
LEMMA RecordInit == Init => RecordInv
BY NullAssumption DEF Init, RecordInv, RowsTyped, PositionsDistinct, CommanderIsMember,
                      Listed, ItemsOf

LEMMA RecordsAlone ==
    ASSUME RecordInv, UNCHANGED Records
    PROVE  RecordInv'
BY ItemsAlone DEF RecordInv, RowsTyped, CommanderIsMember, Records

LEMMA ItemCommandKeeps ==
    ASSUME RecordInv, ItemCommand
    PROVE  RecordInv'
<1>1. ASSUME NEW t \in Tasks,
             NEW order \in [Listed(t) -> 0..(Cardinality(Listed(t)) - 1)], Reorder(t, order)
      PROVE  RecordInv'
  <2>1. order \in [Listed(t) -> Nat]
    <3>1. \A n \in 0..(Cardinality(Listed(t)) - 1) : n \in Nat
      OBVIOUS
    <3> QED BY <3>1
  <2> QED BY <1>1, <2>1, ReorderKeeps
<1> QED BY <1>1, CreateItemKeeps, MoveItemKeeps DEF ItemCommand

LEMMA RecordStep == RecordInv /\ [Next]_vars => RecordInv'
<1> SUFFICES ASSUME RecordInv, [Next]_vars
             PROVE  RecordInv'
  OBVIOUS
<1>1. ASSUME TaskCommand /\ UNCHANGED <<handoff, item, team, taskTeam, successor>>
      PROVE  RecordInv'
  BY <1>1, RecordsAlone DEF Records
<1>2. ASSUME NEW t \in Tasks, NEW a \in Task!Actors, Complete(t, a)
      PROVE  RecordInv'
  BY <1>2, RecordsAlone DEF Complete, Records
<1>3. ASSUME DecisionCommand
      PROVE  RecordInv'
  BY <1>3, RecordsAlone DEF DecisionCommand, CreateDecision, Supersede, OnlyDecisions, Records
<1>4. ASSUME UNCHANGED vars
      PROVE  RecordInv'
  BY <1>4, RecordsAlone DEF vars, Records
<1> QED BY <1>1, <1>2, <1>3, <1>4, ItemCommandKeeps, HandoffCommandKeeps, TeamCommandKeeps
        DEF Next

LEMMA RecordInvariant == Spec => []RecordInv
BY RecordInit, RecordStep, PTL DEF Spec

\* Whatever is removed and however the rest is arranged, two listed items of one
\* task never share a position.
THEOREM PositionsDistinctTheorem == Spec => []PositionsDistinct
<1>1. RecordInv => PositionsDistinct
  BY DEF RecordInv
<1> QED BY <1>1, RecordInvariant, PTL

\* The commander of a team stays a member of it.
THEOREM CommanderIsMemberTheorem == Spec => []CommanderIsMember
<1>1. RecordInv => CommanderIsMember
  BY DEF RecordInv
<1> QED BY <1>1, RecordInvariant, PTL

----------------------------------------------------------------------------
(***************************************************************************)
(* The refinement                                                          *)
(***************************************************************************)
LEMMA TaskCommandStep ==
    ASSUME TaskCommand
    PROVE  Task!Next
BY DEF TaskCommand, Task!Next, Task!Transition

LEMMA CompleteStep ==
    ASSUME NEW t \in Tasks, NEW a \in Task!Actors, Complete(t, a)
    PROVE  Task!Next
<1>1. (OpenItems(t) # {}) \in BOOLEAN
  OBVIOUS
<1>2. \E open \in BOOLEAN : Task!Complete(t, a, open)
  BY <1>1 DEF Complete
<1> QED BY <1>2 DEF Task!Next, Task!Transition

\* A hand-over that is accepted claims its task as the claim command would, or
\* leaves the tasks alone.
LEMMA HandoffStep ==
    ASSUME RecordInv, HandoffCommand
    PROVE  Task!Next \/ UNCHANGED taskVars
<1>1. ASSUME NEW h \in Handoffs, NEW a \in Agents \cup {NoAgent}, NEW b \in Agents,
             AcceptAndClaim(h, a, b)
      PROVE  Task!Next
  <2>1. handoff[h].task \in Tasks
    BY <1>1 DEF AcceptAndClaim, RecordInv, RowsTyped, HandoffRow
  <2>2. Task!Claim(handoff[h].task, b)
    BY <1>1 DEF AcceptAndClaim
  <2> QED BY <2>1, <2>2 DEF Task!Next, Task!Transition
<1>2. ASSUME NEW h \in Handoffs, NEW a \in Agents \cup {NoAgent}, Accept(h, a)
      PROVE  UNCHANGED taskVars
  BY <1>2 DEF Accept
<1>3. ASSUME NEW h \in Handoffs, Decline(h) \/ Close(h)
      PROVE  UNCHANGED taskVars
  BY <1>3 DEF Decline, Close
<1>4. ASSUME NEW h \in Handoffs, NEW t \in Tasks, CreateHandoff(h, t)
      PROVE  UNCHANGED taskVars
  BY <1>4 DEF CreateHandoff, taskVars
<1> QED BY <1>1, <1>2, <1>3, <1>4 DEF HandoffCommand

LEMMA RefinementStep == RecordInv /\ [Next]_vars => [Task!Next]_(Task!vars)
<1> SUFFICES ASSUME RecordInv, [Next]_vars
             PROVE  Task!Next \/ UNCHANGED taskVars
  BY DEF taskVars, Task!vars
<1>1. ASSUME NEW t \in Tasks, NEW a \in Task!Actors, Complete(t, a)
      PROVE  Task!Next
  BY <1>1, CompleteStep
<1>2. ASSUME ItemCommand
      PROVE  UNCHANGED taskVars
  BY <1>2 DEF ItemCommand, CreateItem, MoveItem, Reorder, OnlyItems
<1>3. ASSUME TeamCommand
      PROVE  UNCHANGED taskVars
  BY <1>3 DEF TeamCommand, CreateTeam, SetCommander, AddMember, RemoveMember, SetTaskTeam,
              OnlyTeams
<1>4. ASSUME DecisionCommand
      PROVE  UNCHANGED taskVars
  BY <1>4 DEF DecisionCommand, CreateDecision, Supersede, OnlyDecisions
<1>5. ASSUME UNCHANGED vars
      PROVE  UNCHANGED taskVars
  BY <1>5 DEF vars
<1> QED BY <1>1, <1>2, <1>3, <1>4, <1>5, TaskCommandStep, HandoffStep DEF Next

\* Every behaviour of a project with hand-overs, items, teams and decisions is,
\* for its tasks, a behaviour of TaskLifecycle.
THEOREM ImplementsTasksTheorem == Spec => ImplementsTasks
<1>1. Init => Task!Init
  BY DEF Init
<1> QED BY <1>1, RecordInvariant, RefinementStep, PTL DEF Spec, ImplementsTasks, Task!Spec

----------------------------------------------------------------------------
(***************************************************************************)
(* Strict completion                                                       *)
(***************************************************************************)
\* Whatever a task command other than Complete makes of the status of a task, it
\* is not "completed".
EveryTask == status = [t \in Tasks |-> status[t]]

NoneCompleted == \A t \in Tasks : status'[t] = "completed" => status[t] = "completed"

Uncompleting == NoneCompleted /\ EveryTask'

LEMMA OneChanged ==
    ASSUME EveryTask, NEW t \in Tasks, NEW s, s # "completed",
           status' = [status EXCEPT ![t] = s]
    PROVE  Uncompleting
BY DEF EveryTask, NoneCompleted, Uncompleting

LEMMA NoneChanged ==
    ASSUME EveryTask, UNCHANGED status
    PROVE  Uncompleting
BY DEF EveryTask, NoneCompleted, Uncompleting

\* A task begins planned or ready.
LEMMA CreateCompletesNone ==
    ASSUME EveryTask, NEW t \in Tasks, NEW r \in {"default", "planned", "ready"},
           NEW o \in Task!Actors, NEW P \in SUBSET Tasks, Task!Create(t, r, o, P)
    PROVE  Uncompleting
<1>1. \E s \in {"ready", "planned"} : status' = [status EXCEPT ![t] = s]
  BY DEF Task!Create, Task!SetTask
<1> QED BY <1>1, OneChanged

LEMMA TaskCommandCompletesNone ==
    ASSUME EveryTask, TaskCommand
    PROVE  Uncompleting
<1>1. ASSUME NEW t \in Tasks, NEW a \in Task!Actors,
             \/ \E session \in BOOLEAN : Task!Release(t, a, session)
             \/ Task!Start(t, a) \/ Task!Block(t, a) \/ Task!Unblock(t, a)
             \/ Task!Review(t, a) \/ Task!Cancel(t, a) \/ Task!Reopen(t, a)
      PROVE  Uncompleting
  <2>1. \E s \in {"ready", "planned", "in_progress", "blocked", "review", "cancelled"} :
            status' = [status EXCEPT ![t] = s]
    BY <1>1 DEF Task!Release, Task!Start, Task!Block, Task!Unblock, Task!Review, Task!Cancel,
                Task!Reopen, Task!SetTask, Task!BackInQueue
  <2> QED BY <2>1, OneChanged
<1>2. ASSUME NEW t \in Tasks, NEW a \in Agents, Task!Claim(t, a)
      PROVE  Uncompleting
  BY <1>2, OneChanged DEF Task!Claim, Task!SetTask
<1>3. ASSUME NEW t \in Tasks, NEW p \in Tasks, NEW sort \in {"strong", "informational"},
             Task!AddDependency(t, p, sort) \/ Task!RemoveDependency(t, p)
      PROVE  Uncompleting
  <2>1. \/ UNCHANGED status
        \/ \E s \in {"ready", "planned"} : status' = [status EXCEPT ![t] = s]
    BY <1>3 DEF Task!AddDependency, Task!RemoveDependency
  <2> QED BY <2>1, OneChanged, NoneChanged
<1>4. ASSUME NEW a \in Agents, Task!DeactivateAgent(a)
      PROVE  Uncompleting
  BY <1>4, NoneChanged DEF Task!DeactivateAgent
<1> QED BY <1>1, <1>2, <1>3, <1>4, CreateCompletesNone DEF TaskCommand

\* A completion looks at the items of its own task, and under strict completion
\* finds none open; those it promotes become ready.
LEMMA CompleteFindsNoneOpen ==
    ASSUME EveryTask, NEW u \in Tasks, NEW a \in Task!Actors, Complete(u, a),
           NEW t \in Tasks, StrictCompletion, status[t] # "completed",
           status'[t] = "completed"
    PROVE  OpenItems(t)' = {}
<1>1. t = u
  BY DEF Complete, Task!Complete
<1>2. OpenItems(u) = {}
  BY DEF Complete, Task!Complete
<1>3. OpenItems(u)' = OpenItems(u)
  BY DEF Complete, OpenItems, ItemsOf
<1> QED BY <1>1, <1>2, <1>3

LEMMA HandoffCompletesNone ==
    ASSUME EveryTask, HandoffCommand
    PROVE  Uncompleting
<1>1. ASSUME NEW h \in Handoffs, NEW a \in Agents \cup {NoAgent}, NEW b \in Agents,
             AcceptAndClaim(h, a, b)
      PROVE  Uncompleting
  <2>1. status' = [status EXCEPT ![handoff[h].task] = "in_progress"]
    BY <1>1 DEF AcceptAndClaim, Task!Claim, Task!SetTask
  <2> QED BY <2>1 DEF EveryTask, NoneCompleted, Uncompleting
<1>2. ASSUME NEW h \in Handoffs, NEW a \in Agents \cup {NoAgent}, Accept(h, a)
      PROVE  UNCHANGED status
  BY <1>2 DEF Accept, taskVars
<1>3. ASSUME NEW h \in Handoffs, Decline(h) \/ Close(h)
      PROVE  UNCHANGED status
  BY <1>3 DEF Decline, Close, taskVars
<1>4. ASSUME NEW h \in Handoffs, NEW t \in Tasks, CreateHandoff(h, t)
      PROVE  UNCHANGED status
  BY <1>4 DEF CreateHandoff, taskVars
<1> QED BY <1>1, <1>2, <1>3, <1>4, NoneChanged DEF HandoffCommand

StrictStep ==
    \A t \in Tasks : StrictCompletion /\ status[t] # "completed" /\ status'[t] = "completed"
        => OpenItems(t)' = {}

LEMMA StrictNext ==
    ASSUME EveryTask, [Next]_vars
    PROVE  StrictStep /\ EveryTask'
<1>1. Uncompleting => StrictStep /\ EveryTask'
  BY DEF Uncompleting, NoneCompleted, StrictStep
<1>2. ASSUME NEW u \in Tasks, NEW a \in Task!Actors, Complete(u, a)
      PROVE  StrictStep /\ EveryTask'
  <2>1. StrictStep
    BY <1>2, CompleteFindsNoneOpen DEF StrictStep
  <2>2. EveryTask'
    BY <1>2 DEF Complete, Task!Complete, EveryTask
  <2> QED BY <2>1, <2>2
<1>3. ASSUME ItemCommand \/ TeamCommand \/ DecisionCommand \/ UNCHANGED vars
      PROVE  UNCHANGED status
  <2>1. ItemCommand => UNCHANGED status
    BY DEF ItemCommand, CreateItem, MoveItem, Reorder, OnlyItems, taskVars
  <2>2. TeamCommand => UNCHANGED status
    BY DEF TeamCommand, CreateTeam, SetCommander, AddMember, RemoveMember, SetTaskTeam,
           OnlyTeams, taskVars
  <2>3. DecisionCommand => UNCHANGED status
    BY DEF DecisionCommand, CreateDecision, Supersede, OnlyDecisions, taskVars
  <2>4. UNCHANGED vars => UNCHANGED status
    BY DEF vars, taskVars
  <2> QED BY <1>3, <2>1, <2>2, <2>3, <2>4
<1> QED BY <1>1, <1>2, <1>3, TaskCommandCompletesNone, HandoffCompletesNone, NoneChanged
        DEF Next

\* Under strict completion no task is completed with an item open, by whichever
\* command.
THEOREM NothingOpenWhenCompletedTheorem == Spec => NothingOpenWhenCompleted
<1>1. Init => EveryTask
  BY DEF Init, Task!Init, EveryTask
<1>2. EveryTask /\ [Next]_vars => EveryTask'
  BY StrictNext
<1>3. EveryTask /\ [Next]_vars => [StrictStep]_vars
  BY StrictNext
<1>4. Spec => []EveryTask
  BY <1>1, <1>2, PTL DEF Spec
<1> QED BY <1>3, <1>4, PTL DEF Spec, NothingOpenWhenCompleted, StrictStep
----------------------------------------------------------------------------
(***************************************************************************)
(* Scopes: what classify_overlap may conclude from matching one pattern    *)
(* against the text of another                                             *)
(***************************************************************************)
Wildcards == {"*", "**", "*.rs"}

\* A file that the text of a pattern stands for: every wildcard is a Rust file.
Example(p) ==
    [j \in 1..Len(p) |-> IF p[j] \in Wildcards THEN CHOOSE f \in RustFiles : TRUE ELSE p[j]]

LEMMA PatternFacts ==
    ASSUME NEW p \in Patterns
    PROVE  /\ Len(p) \in 1..MaxDepth /\ Len(p) \in Nat
           /\ p \in Seq(Names \cup Wildcards)
           /\ \A j \in 1..Len(p) : p[j] \in Names \cup Wildcards
BY ScopeAssumption DEF Wildcards

LEMMA ExampleFacts ==
    ASSUME NEW p \in Patterns
    PROVE  /\ Example(p) \in Paths /\ Len(Example(p)) = Len(p)
           /\ \A j \in 1..Len(p) :
                  /\ Example(p)[j] \in Names
                  /\ p[j] \in Wildcards => Example(p)[j] \in RustFiles
                  /\ p[j] \notin Wildcards => Example(p)[j] = p[j]
<1>1. (CHOOSE f \in RustFiles : TRUE) \in RustFiles /\ RustFiles \subseteq Names
  BY ScopeAssumption
<1>2. Len(p) \in 1..MaxDepth /\ Len(p) \in Nat
  BY PatternFacts
<1>3. \A j \in 1..Len(p) :
          /\ Example(p)[j] \in Names
          /\ p[j] \in Wildcards => Example(p)[j] \in RustFiles
          /\ p[j] \notin Wildcards => Example(p)[j] = p[j]
  BY <1>1, <1>2, PatternFacts DEF Example
<1>4. Example(p) \in [1..Len(p) -> Names]
  BY <1>3 DEF Example
<1>5. Example(p) \in Paths
  BY <1>2, <1>4 DEF Paths
<1>6. Len(Example(p)) = Len(p)
  BY <1>2, <1>4
<1> QED
  BY <1>3, <1>5, <1>6

LEMMA MatchesItself ==
    ASSUME NEW p \in Patterns
    PROVE  Matches(p, p)
<1> DEFINE cut == [i \in 0..Len(p) |-> i]
<1>1. Len(p) \in Nat /\ Len(p) > 0
  BY PatternFacts
<1>2. cut \in [0..Len(p) -> 0..Len(p)] /\ cut[0] = 0 /\ cut[Len(p)] = Len(p)
  BY <1>1
<1>3. \A i \in 1..Len(p) : Takes(p, i, p, cut[i - 1], cut[i])
  BY <1>1 DEF Takes
<1> QED
  BY <1>2, <1>3 DEF Matches

\* "**" alone covers everything.
LEMMA TreeMatches ==
    ASSUME NEW p \in Patterns
    PROVE  Matches(<<"**">>, p)
<1> DEFINE cut == [i \in 0..1 |-> IF i = 0 THEN 0 ELSE Len(p)]
<1>1. Len(p) \in Nat /\ Len(<<"**">>) = 1 /\ <<"**">>[1] = "**"
  BY PatternFacts
<1>2. cut \in [0..1 -> 0..Len(p)] /\ cut[0] = 0 /\ cut[1] = Len(p)
  BY <1>1
<1>3. \A i \in 1..1 : Takes(<<"**">>, i, p, cut[i - 1], cut[i])
  BY <1>1, <1>2 DEF Takes
<1> QED
  BY <1>1, <1>2, <1>3 DEF Matches

\* A pattern covers the file its own text stands for.
LEMMA CoversExample ==
    ASSUME NEW p \in Patterns
    PROVE  Matches(p, Example(p))
<1> DEFINE cut == [i \in 0..Len(p) |-> i]
<1>1. Len(p) \in Nat /\ Len(p) > 0 /\ Len(Example(p)) = Len(p)
  BY PatternFacts, ExampleFacts
<1>2. cut \in [0..Len(p) -> 0..Len(Example(p))] /\ cut[0] = 0
      /\ cut[Len(p)] = Len(Example(p))
  BY <1>1
<1>3. ASSUME NEW i \in 1..Len(p)
      PROVE  Takes(p, i, Example(p), cut[i - 1], cut[i])
  <2>1. cut[i - 1] = i - 1 /\ cut[i] = i
    BY <1>1
  <2>2. CASE p[i] \in Wildcards
    BY <1>1, <2>1, <2>2, ExampleFacts DEF Takes, Wildcards
  <2>3. CASE p[i] \notin Wildcards
    BY <1>1, <2>1, <2>3, ExampleFacts DEF Takes
  <2> QED
    BY <2>2, <2>3
<1> QED
  BY <1>2, <1>3 DEF Matches

\* What covers the text of a pattern covers the file this text stands for, cut in
\* the same places.
LEMMA CoveredTextCoversExample ==
    ASSUME NEW p \in Patterns, NEW s \in Patterns, Matches(p, s)
    PROVE  Matches(p, Example(s))
<1>1. PICK cut \in [0..Len(p) -> 0..Len(s)] :
          /\ cut[0] = 0 /\ cut[Len(p)] = Len(s)
          /\ \A i \in 1..Len(p) : Takes(p, i, s, cut[i - 1], cut[i])
  BY DEF Matches
<1>2. Len(p) \in Nat /\ Len(s) \in Nat /\ Len(Example(s)) = Len(s)
  BY PatternFacts, ExampleFacts
<1>3. ASSUME NEW i \in 1..Len(p)
      PROVE  Takes(p, i, Example(s), cut[i - 1], cut[i])
  <2> DEFINE j == cut[i - 1] k == cut[i]
  <2>1. j \in 0..Len(s) /\ k \in 0..Len(s) /\ Takes(p, i, s, j, k)
    BY <1>1, <1>2
  <2>2. CASE p[i] = "*.rs" /\ j < k /\ s[k] \in RustFiles \cup {"*.rs"}
    <3>1. k \in 1..Len(s)
      BY <1>2, <2>1, <2>2
    <3>2. Example(s)[k] \in RustFiles
      BY <2>2, <3>1, ExampleFacts DEF Wildcards
    <3> QED
      BY <2>2, <3>2 DEF Takes
  <2>3. CASE k = j + 1 /\ s[k] = p[i]
    <3>1. k \in 1..Len(s) /\ j \in Nat
      BY <1>2, <2>1, <2>3
    <3>2. CASE p[i] \in Wildcards
      BY <2>3, <3>1, <3>2, ExampleFacts DEF Takes, Wildcards
    <3>3. CASE p[i] \notin Wildcards
      BY <2>3, <3>1, <3>3, ExampleFacts DEF Takes
    <3> QED
      BY <3>2, <3>3
  <2> QED
    BY <2>1, <2>2, <2>3 DEF Takes
<1> QED
  BY <1>1, <1>2, <1>3 DEF Matches

LEMMA OverlapFacts ==
    ASSUME NEW a \in Patterns, NEW b \in Patterns
    PROVE  /\ Overlap[<<a, b>>] = classify_overlap(a, b)
           /\ (Overlap[<<a, b>>] = "definite") <=> Matches(a, b) \/ Matches(b, a)
<1>1. Overlap[<<a, b>>] = classify_overlap(a, b)
  BY DEF Overlap
<1> QED
  BY <1>1 DEF classify_overlap

LEMMA DefiniteHaveFile ==
    ASSUME NEW a \in Patterns, NEW b \in Patterns, Overlap[<<a, b>>] = "definite"
    PROVE  Meet[<<a, b>>]
<1>1. Meet[<<a, b>>] = \E f \in Paths : Matches(a, f) /\ Matches(b, f)
  BY DEF Meet
<1>2. CASE Matches(a, b)
  BY <1>1, <1>2, CoveredTextCoversExample, CoversExample, ExampleFacts
<1>3. CASE Matches(b, a)
  BY <1>1, <1>3, CoveredTextCoversExample, CoversExample, ExampleFacts
<1> QED
  BY <1>2, <1>3, OverlapFacts

\* A scope conflict that is reported as definite is one, for patterns of any length:
\* a file is in both scopes, although classify_overlap takes the wildcards of one for
\* names when it matches the other against its text.
THEOREM DefiniteMeetsTheorem == ScopeSpec => []DefiniteMeets
<1>1. ASSUME NEW c \in Conflicts
      PROVE  c[1][2] \in Patterns /\ c[2][2] \in Patterns
  BY DEF Conflicts, ActiveScopes
<1>2. DefiniteMeets
  BY <1>1, DefiniteHaveFile DEF DefiniteMeets
<1> QED
  BY <1>2, PTL

\* Whatever two unfinished tasks of a team share in the view of `team context`,
\* `task scope conflicts` reports too, and as definite.
THEOREM TeamReportAgreesTheorem == ScopeSpec => []TeamReportAgrees
<1>1. ASSUME NEW c \in TeamConflicts(Scoped), c[1][1] \notin finished, c[2][1] \notin finished
      PROVE  c \in Conflicts /\ Overlap[<<c[1][2], c[2][2]>>] = "definite"
  <2> DEFINE a == c[1][2] b == c[2][2]
  <2>1. a \in Patterns /\ b \in Patterns /\ (a = b \/ <<"**">> \in {a, b})
    BY DEF TeamConflicts
  <2>2. Matches(a, b) \/ Matches(b, a)
    BY <2>1, MatchesItself, TreeMatches
  <2>3. Overlap[<<a, b>>] = "definite"
    BY <2>1, <2>2, OverlapFacts
  <2>4. c \in ActiveScopes \X ActiveScopes /\ c[1][1] # c[2][1]
    BY <1>1 DEF TeamConflicts, ActiveScopes
  <2> QED
    BY <2>3, <2>4 DEF Conflicts
<1>2. TeamReportAgrees
  BY <1>1 DEF TeamReportAgrees
<1> QED
  BY <1>2, PTL
============================================================================
