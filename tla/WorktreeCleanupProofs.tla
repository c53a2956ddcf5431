----------------------- MODULE WorktreeCleanupProofs -----------------------
(***************************************************************************)
(* Proofs about WorktreeCleanup, for every set of tasks and paths and any  *)
(* number of requests: what the outbox and the attempts never do, whatever *)
(* crashes, retries and rebindings come between.                           *)
(***************************************************************************)
EXTENDS WorktreeCleanup, TLAPS

----------------------------------------------------------------------------
(***************************************************************************)
(* The rows: types, foreign keys and the two unique indexes.               *)
(***************************************************************************)
\* worktrees_active_task_uq
BoundOnce ==
    \A p, q \in Paths : bound[p] \in Tasks /\ bound[p] = bound[q] => p = q

\* A request that exists has the path it was created with.
TargetsKept == \A r \in Requests : state[r] # "none" => target[r] \in Paths

\* The attempt in progress is on a running request, and a worktree or a
\* create is in progress only in the phases that have one.
AttemptKnown ==
    /\ phase \in {"assess", "execute", "finish"}
          => current \in Requests /\ state[current] = "running"
    /\ phase = "finish" => outcome # "none"
    /\ \A r \in todo : state[r] # "none"
    /\ phase = "delete" => removing \in Paths
    /\ phase \in {"bind", "retire"} => journal \in Paths

TypeInv == TypeOK /\ TargetsKept /\ AttemptKnown

LEMMA TypeInit == Init => TypeInv
BY NameAssumption, BoundAssumption
   DEF Init, TypeInv, TypeOK, TargetsKept, AttemptKnown, LinksResolve, Phases, Places,
       Requests, Retryable, Active

LEMMA CommandTyped == TypeInv /\ Command => TypeInv'
<1> SUFFICES ASSUME TypeInv, Command PROVE TypeInv'
  OBVIOUS
<1> USE NameAssumption DEF TypeInv, TypeOK, TargetsKept, AttemptKnown, LinksResolve,
        Registered, Exists, Phases, Places, Retryable, Active, Ready, rows, drain
<1>1. ASSUME NEW p \in Paths, CreateDir(p) PROVE TypeInv'
  BY <1>1 DEF CreateDir
<1>2. ASSUME NEW p \in Paths, Unbind(p) PROVE TypeInv'
  BY <1>2 DEF Unbind
<1>3. ASSUME NEW p \in Paths, NEW t \in Tasks \cup {NoTask}, Bind(p, t) PROVE TypeInv'
  BY <1>3 DEF Bind
<1>4. ASSUME NEW p \in Paths, NEW force \in BOOLEAN, RemoveDir(p, force) PROVE TypeInv'
  BY <1>4 DEF RemoveDir
<1>5. CASE PruneStale
  BY <1>5 DEF PruneStale, DeleteRows
<1>6. ASSUME NEW l \in Places, StartSession(l) PROVE TypeInv'
  BY <1>6 DEF StartSession
<1>7. ASSUME NEW l \in Places, NEW d \in Here, NEW c \in BOOLEAN, EndSession(l, d, c)
      PROVE  TypeInv'
  <2> d \in Places
    BY DEF Here
  <2> QED BY <1>7 DEF EndSession, BeginDrain
<1>8. ASSUME NEW t \in Tasks, Reopen(t) PROVE TypeInv'
  BY <1>8 DEF Reopen
<1>9. ASSUME NEW t \in Tasks, NEW c \in BOOLEAN, NEW d \in Here, FinishTask(t, c, d)
      PROVE  TypeInv'
  <2> d \in Places
    BY DEF Here
  <2>1. CASE UNCHANGED <<state, target, for, linked>>
    BY <1>9, <2>1 DEF FinishTask, BeginDrain
  <2>2. ASSUME NEW p \in Paths, bound[p] = t, Enqueue(t, p) PROVE TypeInv'
    BY <1>9, <2>2 DEF FinishTask, BeginDrain, Enqueue, Insert
  <2> QED BY <1>9, <2>1, <2>2 DEF FinishTask, RequestCleanup
<1>10. ASSUME NEW d \in Here, CleanupRunAll(d) \/ CleanupRunOne(d) PROVE TypeInv'
  <2> d \in Places
    BY DEF Here
  <2> QED BY <1>10 DEF CleanupRunAll, CleanupRunOne, CleanupRun
<1> QED BY <1>1, <1>2, <1>3, <1>4, <1>5, <1>6, <1>7, <1>8, <1>9, <1>10 DEF Command

LEMMA WorkTyped == TypeInv /\ Work => TypeInv'
<1> SUFFICES ASSUME TypeInv, Work PROVE TypeInv'
  OBVIOUS
<1> USE NameAssumption DEF TypeInv, TypeOK, TargetsKept, AttemptKnown, LinksResolve,
        Registered, Exists, Phases, Places, Retryable, Active, rows, drain
<1>1. ASSUME NEW t \in Tasks, BindCreated(t) PROVE TypeInv'
  BY <1>1 DEF BindCreated
<1>2. CASE RetireJournal
  BY <1>2 DEF RetireJournal
<1>3. CASE DeleteRow
  BY <1>3 DEF DeleteRow, DeleteRows
<1>4. ASSUME NEW r \in Requests, Claim(r) PROVE TypeInv'
  BY <1>4 DEF Claim, IsNext
<1>5. ASSUME NEW r \in Requests, ClaimRefused(r) PROVE TypeInv'
  BY <1>5 DEF ClaimRefused
<1>6. CASE Assess
  BY <1>6 DEF Assess
<1>7. CASE Execute
  BY <1>7 DEF Execute
<1>8. CASE Record
  <2> USE <1>8 DEF Record, AttemptOver, Requests
  <2>1. state' = [state EXCEPT ![current] = outcome] /\ current \in Requests
    OBVIOUS
  <2>2. CASE outcome = "completed" /\ linked[current]
    <3>1. DeleteRows({target[current]})
      BY <2>2
    <3>2. /\ bound' \in [Paths -> Tasks \cup {NoTask, Unregistered}]
          /\ linked' \in [Requests -> BOOLEAN]
      BY <3>1 DEF DeleteRows
    <3>3. \A r \in Requests : linked'[r] => linked[r] /\ target[r] # target[current]
      BY <3>1 DEF DeleteRows
    <3>4. \A p \in Paths \ {target[current]} : bound'[p] = bound[p]
      BY <3>1 DEF DeleteRows
    <3>5. LinksResolve'
      BY <3>3, <3>4
    <3> QED BY <2>1, <3>2, <3>5
  <2>3. CASE UNCHANGED <<bound, linked>>
    BY <2>1, <2>3
  <2> QED BY <2>2, <2>3
<1>9. CASE EndDrain
  BY <1>9 DEF EndDrain
<1> QED BY <1>1, <1>2, <1>3, <1>4, <1>5, <1>6, <1>7, <1>8, <1>9 DEF Work

LEMMA TypeStep == TypeInv /\ [Next]_vars => TypeInv'
<1> SUFFICES ASSUME TypeInv, [Next]_vars PROVE TypeInv'
  OBVIOUS
<1> USE DEF TypeInv, TypeOK, TargetsKept, AttemptKnown, LinksResolve, Registered, Phases,
        Places, Retryable, Active, rows, drain
<1>1. CASE Crash
  BY <1>1 DEF Crash, AttemptOver
<1>2. CASE Recover
  BY <1>2 DEF Recover
<1>3. CASE People
  BY <1>3 DEF People, SetDir
<1>4. ASSUME NEW l \in Places, GoStale(l) PROVE TypeInv'
  BY <1>4 DEF GoStale
<1>5. CASE UNCHANGED vars
  BY <1>5 DEF vars
<1> QED BY <1>1, <1>2, <1>3, <1>4, <1>5, CommandTyped, WorkTyped DEF Next

LEMMA TypeInvariant == Spec => []TypeInv
BY TypeInit, TypeStep, PTL DEF Spec

\* The tables keep their types, and a request's worktree_id always names a
\* registration that exists, through every deletion of rows.
THEOREM TypeCorrect == Spec => []TypeOK
<1>1. TypeInv => TypeOK
  BY DEF TypeInv
<1> QED BY <1>1, TypeInvariant, PTL
----------------------------------------------------------------------------
(***************************************************************************)
(* The unique indexes                                                      *)
(***************************************************************************)
RowInv == BoundOnce /\ OneActivePerWorktree

LEMMA RowStep == TypeInv /\ RowInv /\ [Next]_vars => RowInv'
<1> SUFFICES ASSUME TypeInv, RowInv, [Next]_vars PROVE RowInv'
  OBVIOUS
<1> USE NameAssumption DEF TypeInv, TypeOK, RowInv, BoundOnce, OneActivePerWorktree, ActiveRival,
        BoundElsewhere, Active, rows
\* Steps that leave the rows alone.
<1>1. CASE UNCHANGED <<bound, state, target, linked>>
  BY <1>1
\* Binding asks whether the task is bound elsewhere.
<1>2. ASSUME NEW t \in Tasks, BindCreated(t) PROVE RowInv'
  BY <1>2 DEF BindCreated, AttemptKnown
<1>3. ASSUME NEW p \in Paths, NEW t \in Tasks \cup {NoTask}, Bind(p, t) PROVE RowInv'
  BY <1>3 DEF Bind
<1>4. ASSUME NEW p \in Paths, Unbind(p) PROVE RowInv'
  BY <1>4 DEF Unbind
\* Deleting rows only takes links away.
<1>5. ASSUME NEW P, DeleteRows(P), UNCHANGED <<state, target>> PROVE RowInv'
  BY <1>5 DEF DeleteRows
\* The two ways into an active state ask for a rival.
<1>6. ASSUME NEW t \in Tasks, NEW p \in Paths, Enqueue(t, p), UNCHANGED bound PROVE RowInv'
  BY <1>6 DEF Enqueue, Insert
<1>7. ASSUME NEW r \in Requests, Claim(r) PROVE RowInv'
  <2>1. \A q \in Requests \ {r} : state'[q] = state[q]
    BY <1>7 DEF Claim
  <2>2. UNCHANGED <<bound, target, linked>>
    BY <1>7 DEF Claim
  <2>3. linked[r] => ~ActiveRival(r, target[r])
    BY <1>7 DEF Claim
  <2> QED BY <2>1, <2>2, <2>3
\* Recording an outcome makes no request active that was not.
<1>8. CASE Record
  <2>1. \A q \in Requests : state'[q] \in Active => state[q] \in Active
    BY <1>8 DEF Record, AttemptKnown
  <2>2. \A q \in Requests : linked'[q] => linked[q]
    BY <1>8 DEF Record, DeleteRows
  <2>3. BoundOnce'
    BY <1>8 DEF Record, DeleteRows
  <2>4. UNCHANGED target
    BY <1>8 DEF Record
  <2> QED BY <2>1, <2>2, <2>3, <2>4
<1>9. CASE Command
  <2>1. ASSUME NEW p \in Paths, CreateDir(p) PROVE RowInv'
    BY <1>1, <2>1 DEF CreateDir
  <2>2. ASSUME NEW p \in Paths, NEW force \in BOOLEAN, RemoveDir(p, force) PROVE RowInv'
    BY <1>1, <2>2 DEF RemoveDir
  <2>3. CASE PruneStale
    BY <1>5, <2>3 DEF PruneStale
  <2>4. ASSUME NEW l \in Places, StartSession(l) PROVE RowInv'
    BY <1>1, <2>4 DEF StartSession
  <2>5. ASSUME NEW l \in Places, NEW d \in Here, NEW c \in BOOLEAN, EndSession(l, d, c)
        PROVE  RowInv'
    BY <1>1, <2>5 DEF EndSession
  <2>6. ASSUME NEW t \in Tasks, Reopen(t) PROVE RowInv'
    BY <1>1, <2>6 DEF Reopen
  <2>7. ASSUME NEW t \in Tasks, NEW c \in BOOLEAN, NEW d \in Here, FinishTask(t, c, d)
        PROVE  RowInv'
    BY <1>1, <1>6, <2>7 DEF FinishTask, RequestCleanup
  <2>8. ASSUME NEW d \in Here, CleanupRunAll(d) \/ CleanupRunOne(d) PROVE RowInv'
    BY <1>1, <2>8 DEF CleanupRunAll, CleanupRunOne, CleanupRun
  <2> QED BY <1>3, <1>4, <1>9, <2>1, <2>2, <2>3, <2>4, <2>5, <2>6, <2>7, <2>8 DEF Command
<1>10. CASE Work
  <2>1. CASE RetireJournal
    BY <1>1, <2>1 DEF RetireJournal
  <2>2. CASE DeleteRow
    BY <1>5, <2>2 DEF DeleteRow
  <2>3. ASSUME NEW r \in Requests, ClaimRefused(r) PROVE RowInv'
    BY <1>1, <2>3 DEF ClaimRefused
  <2>4. CASE Assess \/ Execute \/ EndDrain
    BY <1>1, <2>4 DEF Assess, Execute, EndDrain
  <2> QED BY <1>2, <1>7, <1>8, <1>10, <2>1, <2>2, <2>3, <2>4 DEF Work
<1>11. CASE Crash \/ Recover \/ People
  BY <1>1, <1>11 DEF Crash, Recover, People, SetDir
<1>12. ASSUME NEW l \in Places, GoStale(l) PROVE RowInv'
  BY <1>1, <1>12 DEF GoStale
<1>13. CASE UNCHANGED vars
  BY <1>1, <1>13 DEF vars
<1> QED BY <1>9, <1>10, <1>11, <1>12, <1>13 DEF Next

LEMMA RowInvariant == Spec => [](TypeInv /\ RowInv)
<1>1. Init => RowInv
  BY NameAssumption DEF Init, RowInv, BoundOnce, OneActivePerWorktree, Active
<1> QED BY <1>1, TypeInit, TypeStep, RowStep, PTL DEF Spec

\* The outbox never holds two active requests for one registration: the index
\* turns the second one away, and every other step only leaves active states.
THEOREM OneActiveTheorem == Spec => []OneActivePerWorktree
<1>1. RowInv => OneActivePerWorktree
  BY DEF RowInv
<1> QED BY <1>1, RowInvariant, PTL

\* A finished task's current worktree has an active request in the very
\* transaction that finished it.
THEOREM FinishedTaskRequestedTheorem == Spec => FinishedTaskRequested
<1>1. ASSUME TypeInv, RowInv, [Next]_vars PROVE FinishRequests
  <2> SUFFICES ASSUME CleanCancelled, NEW t \in finished' \ finished, NEW p \in Paths, bound[p] = t
               PROVE  \E r \in Requests : /\ state'[r] \in Active
                                          /\ linked'[r] /\ target'[r] = p /\ for'[r] = t
    BY DEF FinishRequests
  <2> USE <1>1 DEF TypeInv, TypeOK
  <2>1. t \in Tasks /\ \E c \in BOOLEAN, d \in Here : FinishTask(t, c, d)
    <3>1. CASE Command
      BY <3>1 DEF Command, CreateDir, Unbind, Bind, RemoveDir, PruneStale, StartSession,
         EndSession, Reopen, FinishTask, CleanupRunAll, CleanupRunOne, CleanupRun, rows
    <3>2. CASE Work
      BY <3>2 DEF Work, BindCreated, RetireJournal, DeleteRow, Claim, ClaimRefused, Assess,
         Execute, Record, EndDrain, rows
    <3>3. CASE Crash \/ Recover \/ People \/ (\E l \in Places : GoStale(l)) \/ UNCHANGED vars
      BY <3>3 DEF Crash, Recover, People, SetDir, GoStale, vars, rows
    <3> QED BY <3>1, <3>2, <3>3 DEF Next
  <2>2. RequestCleanup(t)
    BY <2>1 DEF FinishTask
  <2>3. CASE HasActiveRequest(t, p)
    <3>1. PICK r \in Requests :
             state[r] \in Active /\ for[r] = t /\ linked[r] /\ target[r] = p
      BY <2>3 DEF HasActiveRequest
    <3>2. state'[r] = state[r] /\ for'[r] = for[r] /\ linked'[r] = linked[r] /\ target'[r] = target[r]
      BY <2>2, <3>1 DEF RequestCleanup, Enqueue, Insert, Active
    <3> QED BY <3>1, <3>2
  <2>4. CASE ~HasActiveRequest(t, p)
    <3>1. PICK q \in Paths : bound[q] = t /\ Enqueue(t, q)
      BY <2>2, <2>4 DEF RequestCleanup
    <3>2. q = p
      BY <1>1, <2>1, <3>1 DEF RowInv, BoundOnce
    <3> QED BY <3>1, <3>2 DEF Enqueue, Insert, Active
  <2> QED BY <2>3, <2>4
<1>2. TypeInv /\ RowInv /\ [Next]_vars => [FinishRequests]_vars
  BY <1>1
<1> QED BY <1>2, RowInvariant, PTL DEF Spec, FinishedTaskRequested
----------------------------------------------------------------------------
(***************************************************************************)
(* The attempt                                                             *)
(***************************************************************************)
\* What the assessment found still holds when git is asked to remove the
\* worktree: sessions start only when no drain runs, and nobody recreates a
\* directory that is gone.  Cleanliness alone can change, and git looks again.
AssessmentHolds ==
    phase = "execute" =>
       /\ cwd # target[current]
       /\ Exists(target[current]) => ~Occupied(target[current])

\* An attempt that came to "completed" left nothing at the path of its row.
RemovalHolds ==
    phase = "finish" /\ outcome = "completed" /\ linked[current] => ~Exists(target[current])

AttemptInv == AssessmentHolds /\ RemovalHolds

LEMMA AttemptStep == TypeInv /\ AttemptInv /\ [Next]_vars => AttemptInv'
<1> SUFFICES ASSUME TypeInv, AttemptInv, [Next]_vars PROVE AttemptInv'
  OBVIOUS
<1> USE NameAssumption DEF TypeInv, TypeOK, TargetsKept, AttemptKnown, LinksResolve, Registered,
        AttemptInv, AssessmentHolds, RemovalHolds, Exists, Occupied, rows, drain
<1>1. CASE phase' \notin {"execute", "finish"}
  BY <1>1
<1>2. CASE Assess
  BY <1>2 DEF Assess, Removable
<1>3. CASE Execute
  BY <1>3 DEF Execute
<1>4. ASSUME phase \in {"execute", "finish"}, UNCHANGED <<rows, phase, drain>>,
             fresh' \subseteq fresh, \A p \in Paths : Exists(p)' => Exists(p)
      PROVE  AttemptInv'
  BY <1>4
<1>5. CASE Command
  BY <1>1, <1>5 DEF Command, Ready, CreateDir, Unbind, Bind, RemoveDir, PruneStale, StartSession,
     EndSession, Reopen, FinishTask, BeginDrain, CleanupRunAll, CleanupRunOne, CleanupRun
<1>6. CASE Work
  BY <1>1, <1>2, <1>3, <1>6 DEF Work, BindCreated, RetireJournal, DeleteRow, Claim, ClaimRefused,
     Record, EndDrain
<1>7. CASE Crash \/ Recover
  BY <1>1, <1>7 DEF Crash, Recover
<1>8. CASE People
  <2>1. \A p \in Paths : Exists(p)' => Exists(p)
    BY <1>8 DEF People, SetDir
  <2> QED BY <1>1, <1>4, <1>8, <2>1 DEF People, SetDir, Phases
<1>9. ASSUME NEW l \in Places, GoStale(l) PROVE AttemptInv'
  BY <1>1, <1>4, <1>9 DEF GoStale
<1>10. CASE UNCHANGED vars
  BY <1>1, <1>4, <1>10 DEF vars
<1> QED BY <1>5, <1>6, <1>7, <1>8, <1>9, <1>10 DEF Next

LEMMA AttemptInvariant == Spec => [](TypeInv /\ AttemptInv)
<1>1. Init => AttemptInv
  BY DEF Init, AttemptInv, AssessmentHolds, RemovalHolds
<1> QED BY <1>1, TypeInit, TypeStep, AttemptStep, PTL DEF Spec

\* Cleanup removes a directory only when it is clean at that moment and no
\* fresh session, nor the command itself, is in it.
THEOREM CleanupSparesWorkTheorem == Spec => CleanupSparesWork
<1>1. ASSUME TypeInv, AttemptInv, [Next]_vars PROVE RemovalSpares
  <2> SUFFICES ASSUME phase = "execute", phase' = "finish",
                      NEW p \in Paths, Exists(p), ~Exists(p)'
               PROVE  dir[p] = "clean" /\ p \notin fresh /\ Root \notin fresh /\ cwd # p
    BY DEF RemovalSpares
  <2>1. Execute
    BY <1>1 DEF Next, Command, Ready, CreateDir, Unbind, Bind, RemoveDir, PruneStale, StartSession,
       EndSession, Reopen, FinishTask, CleanupRunAll, CleanupRunOne, CleanupRun,
       Work, BindCreated, RetireJournal, DeleteRow, Claim, ClaimRefused, Assess, Record,
       EndDrain, Crash, Recover, People, SetDir, GoStale, vars
  <2>2. p = target[current] /\ dir[p] = "clean"
    BY <1>1, <2>1 DEF Execute, Exists, TypeInv, TypeOK
  <2> QED BY <1>1, <2>2 DEF AttemptInv, AssessmentHolds, Occupied
<1>2. TypeInv /\ AttemptInv /\ [Next]_vars => [RemovalSpares]_vars
  BY <1>1
<1> QED BY <1>2, AttemptInvariant, PTL DEF Spec, CleanupSparesWork

\* A linked request is completed only over a directory that is gone, together
\* with its registration.
THEOREM CompletedMeansGoneTheorem == Spec => CompletedMeansGone
<1>1. ASSUME TypeInv, AttemptInv, [Next]_vars PROVE CompletionTrue
  <2> SUFFICES ASSUME NEW r \in Requests, state[r] # "completed", state'[r] = "completed", linked[r]
               PROVE  ~Exists(target[r]) /\ ~Registered(target[r])'
    BY DEF CompletionTrue
  <2> USE <1>1 DEF TypeInv, TypeOK
  <2>1. Record
    <3>1. CASE Command
      BY <3>1 DEF Command, CreateDir, Unbind, Bind, RemoveDir, PruneStale, StartSession,
         EndSession, Reopen, FinishTask, RequestCleanup, Enqueue, Insert, CleanupRunAll, CleanupRunOne,
         CleanupRun, rows
    <3>2. CASE Work
      BY <3>2 DEF Work, BindCreated, RetireJournal, DeleteRow, Claim, ClaimRefused, Assess,
         Execute, EndDrain, rows
    <3>3. CASE Crash \/ Recover \/ People \/ (\E l \in Places : GoStale(l)) \/ UNCHANGED vars
      BY <3>3 DEF Crash, Recover, People, SetDir, GoStale, vars, rows
    <3> QED BY <3>1, <3>2, <3>3 DEF Next
  <2>2. r = current /\ outcome = "completed"
    BY <2>1 DEF Record
  <2>3. DeleteRows({target[r]}) /\ UNCHANGED target
    BY <2>1, <2>2 DEF Record
  <2>4. ~Registered(target[r])'
    BY <2>3 DEF DeleteRows, Registered, LinksResolve
  <2>5. ~Exists(target[r])
    BY <2>1, <2>2 DEF Record, AttemptInv, RemovalHolds
  <2> QED BY <2>4, <2>5
<1>2. TypeInv /\ AttemptInv /\ [Next]_vars => [CompletionTrue]_vars
  BY <1>1
<1> QED BY <1>2, AttemptInvariant, PTL DEF Spec, CompletedMeansGone

----------------------------------------------------------------------------
(***************************************************************************)
(* The list of a drain.                                                    *)
(***************************************************************************)
\* What a drain still has to attempt is active or failed: only the attempt in
\* progress, which is off the list, can complete.
ListedInv ==
    /\ \A r \in todo : state[r] \in Retryable
    /\ phase \in {"assess", "execute", "finish"} => current \notin todo
    /\ phase \notin {"claim", "assess", "execute", "finish"} => todo = {}

LEMMA ListedStep == TypeInv /\ ListedInv /\ [Next]_vars => ListedInv'
<1> SUFFICES ASSUME TypeInv, ListedInv, [Next]_vars PROVE ListedInv'
  OBVIOUS
<1> USE DEF TypeInv, TypeOK, ListedInv, Retryable, Active, rows, drain
<1>1. ASSUME UNCHANGED <<state, phase, drain>> PROVE ListedInv'
  BY <1>1
<1>2. ASSUME NEW d, BeginDrain(d) PROVE ListedInv'
  BY <1>2 DEF BeginDrain
<1>3. ASSUME NEW d, NEW R \in SUBSET Requests, CleanupRun(d, R), \A r \in R : state[r] \in Retryable
      PROVE  ListedInv'
  BY <1>3 DEF CleanupRun, Ready
<1>4. CASE Command
  <2>1. ASSUME NEW d, CleanupRunAll(d) \/ CleanupRunOne(d) PROVE ListedInv'
    <3>1. CASE CleanupRunAll(d)
      BY <1>3, <3>1 DEF CleanupRunAll
    <3>2. CASE CleanupRunOne(d)
      <4>1. PICK r \in Requests : state[r] \in Retryable /\ CleanupRun(d, {r})
        BY <3>2 DEF CleanupRunOne
      <4> QED BY <1>3, <4>1
    <3> QED BY <2>1, <3>1, <3>2
  <2>2. ASSUME NEW t \in Tasks, NEW c \in BOOLEAN, NEW d, FinishTask(t, c, d) PROVE ListedInv'
    BY <1>2, <2>2 DEF FinishTask
  <2>3. ASSUME NEW l \in Places, NEW d, NEW c \in BOOLEAN, EndSession(l, d, c) PROVE ListedInv'
    BY <1>1, <1>2, <2>3 DEF EndSession
  <2> QED BY <1>1, <1>4, <2>1, <2>2, <2>3 DEF Command, Ready, CreateDir, Unbind, Bind, RemoveDir,
        PruneStale, StartSession, Reopen
<1>5. CASE Work
  <2>1. CASE \E r \in Requests : Claim(r) \/ ClaimRefused(r)
    BY <2>1 DEF Claim, ClaimRefused, IsNext
  <2>2. CASE Record
    BY <2>2 DEF Record, AttemptOver
  <2> QED BY <1>5, <2>1, <2>2 DEF Work, BindCreated, RetireJournal, DeleteRow, Assess, Execute, EndDrain
<1>6. CASE Crash \/ Recover
  BY <1>6 DEF Crash, Recover
<1>7. CASE People \/ (\E l \in Places : GoStale(l)) \/ UNCHANGED vars
  BY <1>1, <1>7 DEF People, SetDir, GoStale, vars
<1> QED BY <1>4, <1>5, <1>6, <1>7 DEF Next

\* A drain ends early only over a failed request whose registration got another
\* active one since; an active request is never refused, so none keeps the drain
\* from those behind it.
THEOREM OnlyFailedStopsTheorem == Spec => OnlyFailedStops
<1>1. ASSUME TypeInv, RowInv, ListedInv, [Next]_vars PROVE RefusalIsFailed
  <2> SUFFICES ASSUME phase = "claim", phase' = "idle", todo # {}
               PROVE  \E r \in todo : /\ \A q \in todo : r <= q
                                      /\ state[r] = "failed" /\ linked[r] /\ ActiveRival(r, target[r])
    BY DEF RefusalIsFailed
  <2>1. PICK r \in Requests : ClaimRefused(r)
    BY <1>1 DEF Next, Command, Ready, CreateDir, Unbind, Bind, RemoveDir, PruneStale, StartSession,
       EndSession, Reopen, FinishTask, CleanupRunAll, CleanupRunOne, CleanupRun,
       Work, BindCreated, RetireJournal, DeleteRow, Claim, Assess, Execute, Record,
       EndDrain, Crash, Recover, People, SetDir, GoStale, vars, drain
  <2>2. r \in todo /\ (\A q \in todo : r <= q) /\ linked[r] /\ ActiveRival(r, target[r])
    BY <2>1 DEF ClaimRefused, IsNext
  <2>3. state[r] \in Retryable /\ state[r] \notin Active
    BY <1>1, <2>2 DEF ListedInv, RowInv, OneActivePerWorktree
  <2> QED BY <2>2, <2>3 DEF Retryable
<1>2. TypeInv /\ RowInv /\ ListedInv /\ [Next]_vars => [RefusalIsFailed]_vars
  BY <1>1
<1>3. Init => ListedInv
  BY DEF Init, ListedInv
<1>4. Spec => []ListedInv
  BY <1>3, TypeInvariant, ListedStep, PTL DEF Spec
<1> QED BY <1>2, <1>4, RowInvariant, PTL DEF Spec, OnlyFailedStops
=============================================================================
