------------------------ MODULE TaskLifecycleProofs ------------------------
(***************************************************************************)
(* Proofs about TaskLifecycle, for every set of tasks and agents and every *)
(* policy: the dependency graph stays acyclic, and the gates, promotions   *)
(* and ownership rules hold of every step.                                 *)
(***************************************************************************)
EXTENDS TaskLifecycle, TLAPS

\* Every edge joins two tasks that exist: the foreign keys of
\* task_dependencies.  A task being created therefore has no edge yet.
EdgesExist == \A e \in Edges : Exists(e[1]) /\ Exists(e[2])

AcyclicGraph(E) == \A e \in E : ~Reaches(E, e[2], e[1])

----------------------------------------------------------------------------
(***************************************************************************)
(* Facts about would_create_cycle                                          *)
(***************************************************************************)

\* Dropping edges closes no cycle.
LEMMA AcyclicSubgraph ==
    ASSUME NEW E, NEW F \in SUBSET E, AcyclicGraph(E)
    PROVE  AcyclicGraph(F)
BY DEF AcyclicGraph, Reaches, ClosedFrom

\* The check that guards add_dependency is enough: an edge it accepts closes
\* no cycle, neither through itself nor through an edge already there.
LEMMA AcceptedEdgeKeepsAcyclic ==
    ASSUME NEW E \in SUBSET (Tasks \X Tasks), NEW t \in Tasks, NEW p \in Tasks,
           AcyclicGraph(E), ~WouldCreateCycle(E, t, p)
    PROVE  AcyclicGraph(E \cup {<<t, p>>})
<1> DEFINE F == E \cup {<<t, p>>}
<1>1. PICK R \in SUBSET Tasks : ClosedFrom(E, p, R) /\ t \notin R
  BY DEF WouldCreateCycle, Reaches
<1>2. ASSUME NEW e \in F PROVE \E S \in SUBSET Tasks : ClosedFrom(F, e[2], S) /\ e[1] \notin S
  <2>1. CASE e = <<t, p>>
    <3>1. ClosedFrom(F, p, R)
      BY <1>1 DEF ClosedFrom
    <3> QED BY <2>1, <3>1, <1>1
  <2>2. CASE e \in E
    <3>1. PICK S \in SUBSET Tasks : ClosedFrom(E, e[2], S) /\ e[1] \notin S
      BY <2>2 DEF AcyclicGraph, Reaches
    <3>2. CASE e[1] \in R
      <4>1. e[2] \in R
        BY <1>1, <2>2, <3>2 DEF ClosedFrom
      <4>2. ClosedFrom(F, e[2], S \cap R)
        BY <1>1, <3>1, <4>1 DEF ClosedFrom
      <4>3. S \cap R \in SUBSET Tasks /\ e[1] \notin S \cap R
        BY <3>1
      <4> QED BY <4>2, <4>3
    <3>3. CASE e[1] \notin R
      <4>1. ClosedFrom(F, e[2], S \cup R)
        BY <1>1, <3>1 DEF ClosedFrom
      <4>2. S \cup R \in SUBSET Tasks /\ e[1] \notin S \cup R
        BY <3>1, <3>3
      <4> QED BY <4>1, <4>2
    <3> QED BY <3>2, <3>3
  <2> QED BY <2>1, <2>2
<1> QED BY <1>2 DEF AcyclicGraph, Reaches

\* The edges of a task that has none yet close no cycle either, whatever its
\* prerequisites: create_task may add several at once.
LEMMA NewTaskKeepsAcyclic ==
    ASSUME NEW E \in SUBSET (Tasks \X Tasks), NEW t \in Tasks,
           NEW P \in SUBSET (Tasks \ {t}),
           \A e \in E : e[1] # t /\ e[2] # t,
           AcyclicGraph(E)
    PROVE  AcyclicGraph(E \cup {<<t, p>> : p \in P})
<1> DEFINE New == {<<t, p>> : p \in P}
           F == E \cup New
<1>1. ASSUME NEW e \in F PROVE \E S \in SUBSET Tasks : ClosedFrom(F, e[2], S) /\ e[1] \notin S
  <2>1. CASE e \in New
    <3>1. PICK p \in P : e = <<t, p>>
      BY <2>1
    <3>2. ClosedFrom(F, e[2], Tasks \ {t})
      BY <3>1 DEF ClosedFrom
    <3>3. Tasks \ {t} \in SUBSET Tasks /\ e[1] \notin Tasks \ {t}
      BY <3>1
    <3> QED BY <3>2, <3>3
  <2>2. CASE e \in E
    <3>1. PICK S \in SUBSET Tasks : ClosedFrom(E, e[2], S) /\ e[1] \notin S
      BY <2>2 DEF AcyclicGraph, Reaches
    <3>2. ClosedFrom(F, e[2], S \ {t})
      BY <3>1, <2>2 DEF ClosedFrom
    <3>3. S \ {t} \in SUBSET Tasks /\ e[1] \notin S \ {t}
      BY <3>1
    <3> QED BY <3>2, <3>3
  <2> QED BY <2>1, <2>2
<1> QED BY <1>1 DEF AcyclicGraph, Reaches

----------------------------------------------------------------------------
(***************************************************************************)
(* The inductive invariant                                                 *)
(***************************************************************************)
\* The rows and foreign keys keep their types: no step but create_task gives
\* a task that did not exist an edge, and no step makes a task disappear.
RowInv ==
    /\ TypeOK
    /\ EdgesExist
    /\ \A t \in Tasks : ~Exists(t) => owner[t] = NoAgent

LEMMA RowStep == RowInv /\ [Next]_vars => RowInv'
<1> SUFFICES ASSUME RowInv, [Next]_vars PROVE RowInv'
  OBVIOUS
<1> USE AgentAssumption DEF RowInv, TypeOK, EdgesExist, Edges, Exists, TaskStatus, Terminal, Actors
<1>1. ASSUME NEW t \in Tasks, NEW r \in {"default", "planned", "ready"},
             NEW o \in Actors, NEW P \in SUBSET Tasks, Create(t, r, o, P)
      PROVE  RowInv'
  <2>1. status' \in [Tasks -> TaskStatus \cup {"absent"}] /\ owner' \in [Tasks -> Actors]
    BY <1>1 DEF Create, SetTask
  <2>2. strong' \subseteq Tasks \X Tasks /\ strong' \cap informational' = {}
    BY <1>1 DEF Create
  <2>3. t \notin P /\ status'[t] # "absent"
    BY <1>1 DEF Create, SetTask
  <2>4. \A u \in Tasks : status[u] # "absent" => status'[u] # "absent"
    BY <1>1, <2>3 DEF Create, SetTask
  <2>5. \A e \in strong' \cup informational' : e \in strong \cup informational \/ \E p \in P : e = <<t, p>>
    BY <1>1 DEF Create
  <2>6. \A p \in P : status'[p] # "absent"
    BY <1>1, <2>4 DEF Create
  <2>7. EdgesExist'
    BY <2>3, <2>4, <2>5, <2>6
  <2>8. \A u \in Tasks : status'[u] = "absent" => owner'[u] = NoAgent
    BY <1>1, <2>3 DEF Create, SetTask
  <2> QED BY <1>1, <2>1, <2>2, <2>7, <2>8 DEF Create
<1>2. ASSUME NEW t \in Tasks, NEW a \in Agents, Claim(t, a) PROVE RowInv'
  BY <1>2 DEF Claim, SetTask, GraphUnchanged
<1>3. ASSUME NEW t \in Tasks, NEW a \in Actors, Transition(t, a) PROVE RowInv'
  <2> USE DEF SetTask, GraphUnchanged
  <2>1. ASSUME NEW s \in BOOLEAN, Release(t, a, s) PROVE RowInv'
    BY <2>1 DEF Release, BackInQueue
  <2>2. CASE Start(t, a)
    BY <2>2 DEF Start
  <2>3. CASE Block(t, a)
    BY <2>3 DEF Block
  <2>4. CASE Unblock(t, a)
    BY <2>4 DEF Unblock
  <2>5. CASE Review(t, a)
    BY <2>5 DEF Review
  <2>6. ASSUME NEW s \in BOOLEAN, Complete(t, a, s) PROVE RowInv'
    BY <2>6 DEF Complete
  <2>7. CASE Cancel(t, a)
    BY <2>7 DEF Cancel
  <2>8. CASE Reopen(t, a)
    BY <2>8 DEF Reopen, BackInQueue
  <2> QED BY <1>3, <2>1, <2>2, <2>3, <2>4, <2>5, <2>6, <2>7, <2>8 DEF Transition
<1>4. ASSUME NEW t \in Tasks, NEW p \in Tasks, NEW k \in {"strong", "informational"},
             AddDependency(t, p, k)
      PROVE  RowInv'
  BY <1>4 DEF AddDependency
<1>5. ASSUME NEW t \in Tasks, NEW p \in Tasks, RemoveDependency(t, p) PROVE RowInv'
  BY <1>5 DEF RemoveDependency
<1>6. ASSUME NEW a \in Agents, DeactivateAgent(a) PROVE RowInv'
  BY <1>6 DEF DeactivateAgent
<1>7. CASE UNCHANGED vars
  BY <1>7 DEF vars
<1> QED BY <1>1, <1>2, <1>3, <1>4, <1>5, <1>6, <1>7 DEF Next

LEMMA RowInvariant == Spec => []RowInv
<1>1. Init => RowInv
  BY AgentAssumption DEF Init, RowInv, TypeOK, EdgesExist, Edges, Actors
<1> QED BY <1>1, RowStep, PTL DEF Spec

\* Statuses, owners and edges keep their types, and no edge is ever both
\* strong and informational.
THEOREM TypeCorrect == Spec => []TypeOK
<1>1. RowInv => TypeOK
  BY DEF RowInv
<1> QED BY <1>1, RowInvariant, PTL

----------------------------------------------------------------------------
\* A step changes the graph by creating a task, adding an edge the cycle check
\* accepted, or removing one; a transition leaves it alone.
LEMMA AcyclicStep == RowInv /\ Acyclic /\ [Next]_vars => Acyclic'
<1> SUFFICES ASSUME RowInv, Acyclic, [Next]_vars PROVE AcyclicGraph(Edges')
  BY DEF Acyclic, AcyclicGraph
<1>0. Edges \in SUBSET (Tasks \X Tasks) /\ AcyclicGraph(Edges)
  BY DEF RowInv, TypeOK, Edges, Acyclic, AcyclicGraph
<1>1. ASSUME NEW t \in Tasks, NEW r \in {"default", "planned", "ready"},
             NEW o \in Actors, NEW P \in SUBSET Tasks, Create(t, r, o, P)
      PROVE  AcyclicGraph(Edges')
  <2>1. P \in SUBSET (Tasks \ {t})
    BY <1>1 DEF Create
  <2>2. \A e \in Edges : e[1] # t /\ e[2] # t
    BY <1>1 DEF Create, RowInv, EdgesExist
  <2>3. Edges' = Edges \cup {<<t, p>> : p \in P}
    BY <1>1 DEF Create, Edges
  <2> QED BY <1>0, <2>1, <2>2, <2>3, NewTaskKeepsAcyclic
<1>2. ASSUME NEW t \in Tasks, NEW p \in Tasks, NEW k \in {"strong", "informational"},
             AddDependency(t, p, k)
      PROVE  AcyclicGraph(Edges')
  <2>1. Edges' = Edges \cup {<<t, p>>}
    BY <1>2 DEF AddDependency, Edges
  <2>2. ~WouldCreateCycle(Edges, t, p)
    BY <1>2 DEF AddDependency
  <2> QED BY <1>0, <2>1, <2>2, AcceptedEdgeKeepsAcyclic
<1>3. ASSUME NEW t \in Tasks, NEW p \in Tasks, RemoveDependency(t, p)
      PROVE  AcyclicGraph(Edges')
  <2>1. Edges' \in SUBSET Edges
    BY <1>3 DEF RemoveDependency, Edges
  <2> QED BY <1>0, <2>1, AcyclicSubgraph
<1>4. CASE UNCHANGED <<strong, informational>>
  BY <1>0, <1>4 DEF Edges
<1>5. ASSUME NEW t \in Tasks, NEW a \in Agents, Claim(t, a)
      PROVE  UNCHANGED <<strong, informational>>
  BY <1>5 DEF Claim, GraphUnchanged
<1>6. ASSUME NEW t \in Tasks, NEW a \in Actors, Transition(t, a)
      PROVE  UNCHANGED <<strong, informational>>
  BY <1>6 DEF Transition, Release, Start, Block, Unblock, Review, Complete,
              Cancel, Reopen, GraphUnchanged
<1>7. ASSUME NEW a \in Agents, DeactivateAgent(a)
      PROVE  UNCHANGED <<strong, informational>>
  BY <1>7 DEF DeactivateAgent
<1>8. UNCHANGED vars => UNCHANGED <<strong, informational>>
  BY DEF vars
<1> QED BY <1>1, <1>2, <1>3, <1>4, <1>5, <1>6, <1>7, <1>8 DEF Next

\* The dependency graph of a project is acyclic at every moment, for every
\* number of tasks and every sequence of edits.
THEOREM AcyclicTheorem == Spec => []Acyclic
<1>1. Init => Acyclic
  BY DEF Init, Acyclic, Edges
<1> QED BY <1>1, AcyclicStep, RowInvariant, PTL DEF Spec

----------------------------------------------------------------------------
(***************************************************************************)
(* Action properties                                                       *)
(***************************************************************************)

\* Work enters in_progress or completed only with every strong prerequisite
\* settled, whichever command is used.
THEOREM GateGuardsWorkTheorem == Spec => GateGuardsWork
<1>1. ASSUME RowInv, [Next]_vars PROVE WorkStepGated
  <2> USE <1>1 DEF RowInv, TypeOK, SetTask, WorkStepGated
  <2>1. ASSUME NEW t \in Tasks, NEW r \in {"default", "planned", "ready"},
               NEW o \in Actors, NEW P \in SUBSET Tasks, Create(t, r, o, P)
        PROVE  WorkStepGated
    BY <2>1 DEF Create
  <2>2. ASSUME NEW t \in Tasks, NEW a \in Agents, Claim(t, a) PROVE WorkStepGated
    BY <2>2 DEF Claim
  <2>3. ASSUME NEW t \in Tasks, NEW a \in Actors, Transition(t, a) PROVE WorkStepGated
    <3>1. ASSUME NEW s \in BOOLEAN, Release(t, a, s) PROVE WorkStepGated
      BY <3>1 DEF Release, BackInQueue
    <3>2. CASE Start(t, a)
      BY <3>2 DEF Start
    <3>3. CASE Block(t, a) \/ Review(t, a) \/ Cancel(t, a)
      BY <3>3 DEF Block, Review, Cancel
    <3>4. CASE Unblock(t, a)
      BY <3>4 DEF Unblock
    <3>5. ASSUME NEW s \in BOOLEAN, Complete(t, a, s) PROVE WorkStepGated
      BY <3>5 DEF Complete
    <3>6. CASE Reopen(t, a)
      BY <3>6 DEF Reopen, BackInQueue
    <3> QED BY <2>3, <3>1, <3>2, <3>3, <3>4, <3>5, <3>6 DEF Transition
  <2>4. ASSUME NEW t \in Tasks, NEW p \in Tasks, NEW k \in {"strong", "informational"},
               AddDependency(t, p, k) \/ RemoveDependency(t, p)
        PROVE  WorkStepGated
    BY <2>4 DEF AddDependency, RemoveDependency
  <2>5. ASSUME NEW a \in Agents, DeactivateAgent(a) PROVE WorkStepGated
    BY <2>5 DEF DeactivateAgent
  <2>6. CASE UNCHANGED vars
    BY <2>6 DEF vars
  <2> QED BY <2>1, <2>2, <2>3, <2>4, <2>5, <2>6 DEF Next
<1>2. RowInv /\ [Next]_vars => [WorkStepGated]_vars
  BY <1>1
<1> QED BY <1>2, RowInvariant, PTL DEF Spec, GateGuardsWork

\* A task never passes from one owner to another in a single step.
THEOREM NoOwnershipTransferTheorem == Spec => NoOwnershipTransfer
<1>1. ASSUME RowInv, [Next]_vars PROVE OwnerKeptOrCleared
  <2> USE <1>1 DEF RowInv, TypeOK, SetTask, HasOwner, OwnerKeptOrCleared
  <2>1. ASSUME NEW t \in Tasks, NEW r \in {"default", "planned", "ready"},
               NEW o \in Actors, NEW P \in SUBSET Tasks, Create(t, r, o, P)
        PROVE  OwnerKeptOrCleared
    BY <2>1 DEF Create, Exists
  <2>2. ASSUME NEW t \in Tasks, NEW a \in Agents, Claim(t, a) PROVE OwnerKeptOrCleared
    BY <2>2 DEF Claim
  <2>3. ASSUME NEW t \in Tasks, NEW a \in Actors, Transition(t, a) PROVE OwnerKeptOrCleared
    BY <2>3 DEF Transition, Release, Start, Block, Unblock, Review, Complete, Cancel, Reopen
  <2>4. ASSUME NEW t \in Tasks, NEW p \in Tasks, NEW k \in {"strong", "informational"},
               AddDependency(t, p, k) \/ RemoveDependency(t, p)
        PROVE  OwnerKeptOrCleared
    BY <2>4 DEF AddDependency, RemoveDependency
  <2>5. ASSUME NEW a \in Agents, DeactivateAgent(a) PROVE OwnerKeptOrCleared
    BY <2>5 DEF DeactivateAgent
  <2>6. CASE UNCHANGED vars
    BY <2>6 DEF vars
  <2> QED BY <2>1, <2>2, <2>3, <2>4, <2>5, <2>6 DEF Next
<1>2. RowInv /\ [Next]_vars => [OwnerKeptOrCleared]_vars
  BY <1>1
<1> QED BY <1>2, RowInvariant, PTL DEF Spec, NoOwnershipTransfer

\* Only the reopening of a prerequisite leaves an unowned ready task behind an
\* open gate: every command that makes a task ready, or hangs a prerequisite
\* on a ready task, keeps the two apart.
THEOREM OnlyReopenUngatesTheorem == Spec => OnlyReopenUngates
<1>1. ASSUME RowInv, [Next]_vars PROVE StaysGated
  <2> SUFFICES ASSUME NEW d \in Tasks, ReadyButGated(d)', ~ReopenedPrerequisite(d)
               PROVE  ReadyButGated(d)
    BY DEF StaysGated
  <2> USE <1>1 DEF RowInv, TypeOK, SetTask, HasOwner, ReadyButGated,
                   ReopenedPrerequisite, StrongComplete
  <2>1. ASSUME NEW t \in Tasks, NEW r \in {"default", "planned", "ready"},
               NEW o \in Actors, NEW P \in SUBSET Tasks, Create(t, r, o, P)
        PROVE  ReadyButGated(d)
    <3>1. CASE d = t
      <4>1. status'[t] = "ready" => \A p \in P : PrerequisiteSettled(p)
        BY <2>1 DEF Create
      <4>2. \A p \in Tasks : <<t, p>> \in strong' => p \in P
        BY <2>1 DEF Create, EdgesExist, Edges
      <4>3. \A p \in P : PrerequisiteSettled(p) => PrerequisiteSettled(p)'
        BY <2>1 DEF Create, PrerequisiteSettled, Exists
      <4> QED BY <3>1, <4>1, <4>2, <4>3
    <3>2. CASE d # t
      <4>1. \A p \in Tasks : <<d, p>> \in strong' => <<d, p>> \in strong
        BY <2>1, <3>2 DEF Create
      <4>2. status'[d] = status[d] /\ owner'[d] = owner[d]
        BY <2>1, <3>2 DEF Create
      <4>3. PICK p \in Tasks : <<d, p>> \in strong' /\ ~PrerequisiteSettled(p)'
        OBVIOUS
      <4>4. <<d, p>> \in strong
        BY <4>1, <4>3
      <4>5. ~PrerequisiteSettled(p)
        BY <4>3, <4>4
      <4> QED BY <4>2, <4>4, <4>5
    <3> QED BY <3>1, <3>2
  <2>2. ASSUME NEW t \in Tasks, NEW a \in Agents, Claim(t, a) PROVE ReadyButGated(d)
    BY <2>2 DEF Claim, GraphUnchanged
  <2>3. ASSUME NEW t \in Tasks, NEW a \in Actors, Transition(t, a) PROVE ReadyButGated(d)
    <3>1. UNCHANGED strong
      BY <2>3 DEF Transition, Release, Start, Block, Unblock, Review, Complete,
                  Cancel, Reopen, GraphUnchanged
    <3>2. PICK p \in Tasks : <<d, p>> \in strong /\ ~PrerequisiteSettled(p)'
      BY <3>1
    <3>3. ~PrerequisiteSettled(p)
      BY <3>2
    <3>4. ASSUME NEW s \in BOOLEAN, Release(t, a, s) PROVE status[d] = "ready" /\ owner[d] = NoAgent
      BY <3>2, <3>3, <3>4 DEF Release, BackInQueue
    <3>5. CASE Start(t, a) \/ Block(t, a) \/ Review(t, a) \/ Cancel(t, a)
      BY <3>2, <3>3, <3>5 DEF Start, Block, Review, Cancel
    <3>6. CASE Unblock(t, a)
      BY <3>2, <3>3, <3>6 DEF Unblock
    <3>7. ASSUME NEW s \in BOOLEAN, Complete(t, a, s) PROVE status[d] = "ready" /\ owner[d] = NoAgent
      <4>1. p # t
        BY <3>2, <3>7 DEF Complete, PrerequisiteSettled, Terminal
      <4>2. d \notin Promoted(t)
        BY <3>2, <3>3, <4>1 DEF Promoted
      <4> QED BY <3>7, <4>2 DEF Complete
    <3>8. CASE Reopen(t, a)
      BY <3>2, <3>3, <3>8 DEF Reopen, BackInQueue
    <3> QED BY <2>3, <3>2, <3>3, <3>4, <3>5, <3>6, <3>7, <3>8 DEF Transition
  <2>4. ASSUME NEW t \in Tasks, NEW p \in Tasks, NEW k \in {"strong", "informational"},
               AddDependency(t, p, k)
        PROVE  ReadyButGated(d)
    BY <2>4 DEF AddDependency, PrerequisiteSettled, Terminal
  <2>5. ASSUME NEW t \in Tasks, NEW p \in Tasks, RemoveDependency(t, p)
        PROVE  ReadyButGated(d)
    BY <2>5 DEF RemoveDependency, PrerequisiteSettled, Terminal
  <2>6. ASSUME NEW a \in Agents, DeactivateAgent(a) PROVE ReadyButGated(d)
    BY <2>6 DEF DeactivateAgent, PrerequisiteSettled
  <2>7. CASE UNCHANGED vars
    BY <2>7 DEF vars, PrerequisiteSettled
  <2> QED BY <2>1, <2>2, <2>3, <2>4, <2>5, <2>6, <2>7 DEF Next
<1>2. RowInv /\ [Next]_vars => [StaysGated]_vars
  BY <1>1
<1> QED BY <1>2, RowInvariant, PTL DEF Spec, OnlyReopenUngates

\* A completion makes every unowned planned dependent ready whose last open
\* prerequisite it settles.
THEOREM CompletionPromotesTheorem == Spec => CompletionPromotes
<1>1. ASSUME RowInv, [Next]_vars PROVE CompletedStepPromotes
  <2> SUFFICES ASSUME NEW p \in Tasks, NEW d \in Tasks,
                      status[p] # "completed", status'[p] = "completed", LastGateOpens(d)
               PROVE  status'[d] = "ready"
    BY DEF CompletedStepPromotes
  <2> USE <1>1 DEF RowInv, TypeOK, SetTask
  <2>1. ASSUME NEW s \in BOOLEAN, NEW a \in Actors, Complete(p, a, s)
        PROVE  status'[d] = "ready"
    <3>1. \A q \in Tasks : q # p /\ PrerequisiteSettled(q)' => PrerequisiteSettled(q)
      BY <2>1 DEF Complete, PrerequisiteSettled, Terminal
    <3>2. <<d, p>> \in strong
      BY <3>1 DEF LastGateOpens, StrongComplete
    <3>3. d \in Promoted(p) /\ d # p
      BY <2>1, <3>1, <3>2 DEF LastGateOpens, StrongComplete, Promoted, Complete
    <3> QED BY <2>1, <3>3 DEF Complete
  <2>2. \E s \in BOOLEAN, a \in Actors : Complete(p, a, s)
    <3>1. ASSUME NEW t \in Tasks, NEW a \in Actors, Transition(t, a)
          PROVE  \E s \in BOOLEAN : Complete(p, a, s)
      <4>1. ASSUME NEW s \in BOOLEAN, Release(t, a, s) PROVE FALSE
        BY <4>1 DEF Release, BackInQueue
      <4>2. ASSUME NEW s \in BOOLEAN, Complete(t, a, s) PROVE t = p
        BY <4>2 DEF Complete
      <4>3. ~(Start(t, a) \/ Block(t, a) \/ Unblock(t, a) \/ Review(t, a) \/ Cancel(t, a))
        BY DEF Start, Block, Unblock, Review, Cancel
      <4>4. ~Reopen(t, a)
        BY DEF Reopen, BackInQueue
      <4> QED BY <3>1, <4>1, <4>2, <4>3, <4>4 DEF Transition
    <3>2. ASSUME NEW t \in Tasks, NEW r \in {"default", "planned", "ready"},
                 NEW o \in Actors, NEW P \in SUBSET Tasks, Create(t, r, o, P)
          PROVE  FALSE
      BY <3>2 DEF Create
    <3>3. ASSUME NEW t \in Tasks, NEW a \in Agents, Claim(t, a) PROVE FALSE
      BY <3>3 DEF Claim
    <3>4. ASSUME NEW t \in Tasks, NEW q \in Tasks, NEW k \in {"strong", "informational"},
                 AddDependency(t, q, k) \/ RemoveDependency(t, q)
          PROVE  FALSE
      BY <3>4 DEF AddDependency, RemoveDependency
    <3>5. ASSUME NEW a \in Agents, DeactivateAgent(a) PROVE FALSE
      BY <3>5 DEF DeactivateAgent
    <3>6. ~UNCHANGED vars
      BY DEF vars
    <3> QED BY <3>1, <3>2, <3>3, <3>4, <3>5, <3>6 DEF Next
  <2> QED BY <2>1, <2>2
<1>2. RowInv /\ [Next]_vars => [CompletedStepPromotes]_vars
  BY <1>1
<1> QED BY <1>2, RowInvariant, PTL DEF Spec, CompletionPromotes

\* Under the single_active_task policy neither a claim nor a start gives an
\* owner a second task in progress.
THEOREM OneTaskAtATimeTheorem == Spec => OneTaskAtATime
<1>1. ASSUME RowInv, [Next]_vars PROVE TakenOnlyWhenIdle
  <2> SUFFICES ASSUME NEW d \in Tasks, SingleActive, status[d] = "ready",
                      status'[d] = "in_progress", owner'[d] # NoAgent
               PROVE  ~OccupiedElsewhere(owner'[d], d)
    BY DEF TakenOnlyWhenIdle, OccupiedElsewhere
  <2> USE <1>1 DEF RowInv, TypeOK, SetTask
  <2>1. ASSUME NEW t \in Tasks, NEW a \in Agents, Claim(t, a)
        PROVE  ~OccupiedElsewhere(owner'[d], d)
    BY <2>1 DEF Claim, MayHold
  <2>2. ASSUME NEW t \in Tasks, NEW a \in Actors, Transition(t, a)
        PROVE  ~OccupiedElsewhere(owner'[d], d)
    <3>1. ASSUME NEW s \in BOOLEAN, Release(t, a, s) PROVE FALSE
      BY <3>1 DEF Release, BackInQueue
    <3>2. CASE Start(t, a)
      BY <3>2 DEF Start, MayHold, HasOwner
    <3>3. ASSUME NEW s \in BOOLEAN, Complete(t, a, s) PROVE FALSE
      BY <3>3 DEF Complete
    <3>4. ~(Block(t, a) \/ Unblock(t, a) \/ Review(t, a) \/ Cancel(t, a) \/ Reopen(t, a))
      BY DEF Block, Unblock, Review, Cancel, Reopen, BackInQueue
    <3> QED BY <2>2, <3>1, <3>2, <3>3, <3>4 DEF Transition
  <2>3. ASSUME NEW t \in Tasks, NEW r \in {"default", "planned", "ready"},
               NEW o \in Actors, NEW P \in SUBSET Tasks, Create(t, r, o, P)
        PROVE  FALSE
    BY <2>3 DEF Create, Exists
  <2>4. ASSUME NEW t \in Tasks, NEW p \in Tasks, NEW k \in {"strong", "informational"},
               AddDependency(t, p, k) \/ RemoveDependency(t, p)
        PROVE  FALSE
    BY <2>4 DEF AddDependency, RemoveDependency
  <2>5. ASSUME NEW a \in Agents, DeactivateAgent(a) PROVE FALSE
    BY <2>5 DEF DeactivateAgent
  <2>6. ~UNCHANGED vars
    BY DEF vars
  <2> QED BY <2>1, <2>2, <2>3, <2>4, <2>5, <2>6 DEF Next
<1>2. RowInv /\ [Next]_vars => [TakenOnlyWhenIdle]_vars
  BY <1>1
<1> QED BY <1>2, RowInvariant, PTL DEF Spec, OneTaskAtATime
============================================================================
