--------------------------- MODULE ReplicasProofs ---------------------------
(***************************************************************************)
(* Proofs about the merge of two stores, about the clones that use it and  *)
(* about the sessions of merges with conflicts.                            *)
(***************************************************************************)
EXTENDS MergeConflicts, SequenceTheorems, FiniteSetTheorems, WellFoundedInduction, TLAPS

----------------------------------------------------------------------------
(***************************************************************************)
(* Numbers                                                                 *)
(***************************************************************************)
\* A finite set of numbers has a greatest one.
LEMMA Greatest ==
    ASSUME NEW S \in SUBSET Nat, IsFiniteSet(S), S # {}
    PROVE  \E i \in S : \A j \in S : j <= i
<1> DEFINE From(i) == {j \in S : j >= i}
           T == {From(i) : i \in S}
<1>1. T \subseteq FiniteSubsetsOf(S) /\ T # {}
  <2>1. ASSUME NEW i \in S PROVE From(i) \in FiniteSubsetsOf(S)
    <3>1. From(i) \in SUBSET S
      OBVIOUS
    <3> HIDE DEF From
    <3>2. IsFiniteSet(From(i))
      BY <3>1, FS_Subset
    <3> QED BY <3>1, <3>2 DEF FiniteSubsetsOf
  <2> QED BY <2>1
<1>2. PICK x \in T : \A y \in T : ~(<<y, x>> \in StrictSubsetOrdering(S))
  BY <1>1, FS_StrictSubsetOrderingWellFounded, WFMin
<1>3. PICK i \in S : x = From(i)
  BY <1>2
<1>4. ASSUME NEW j \in S, ~(j <= i) PROVE FALSE
  <2>0. i \in Nat /\ j \in Nat /\ j > i
    BY <1>4
  <2>1. From(j) \subseteq From(i) /\ i \in From(i) /\ i \notin From(j)
    <3>1. \A k \in S : k \in Nat
      OBVIOUS
    <3>2. \A k \in S : k >= j => k >= i
      BY <2>0, <3>1
    <3>3. i >= i /\ ~(i >= j)
      BY <2>0
    <3> QED BY <3>2, <3>3
  <2>2. From(j) \in T /\ From(j) \in SUBSET S /\ From(i) \in SUBSET S
    BY <1>4
  <2>3. From(j) # From(i)
    BY <2>1
  <2> HIDE DEF From, T
  <2>4. <<From(j), From(i)>> \in StrictSubsetOrdering(S)
    BY <2>1, <2>2, <2>3 DEF StrictSubsetOrdering
  <2> QED BY <1>2, <1>3, <2>2, <2>4
<1> QED BY <1>4

\* And a least one.
LEMMA Least ==
    ASSUME NEW S \in SUBSET Nat, IsFiniteSet(S), S # {}
    PROVE  \E i \in S : \A j \in S : i <= j
<1> DEFINE UpTo(i) == {j \in S : j <= i}
           T == {UpTo(i) : i \in S}
<1>1. T \subseteq FiniteSubsetsOf(S) /\ T # {}
  <2>1. ASSUME NEW i \in S PROVE UpTo(i) \in FiniteSubsetsOf(S)
    <3>1. UpTo(i) \in SUBSET S
      OBVIOUS
    <3> HIDE DEF UpTo
    <3>2. IsFiniteSet(UpTo(i))
      BY <3>1, FS_Subset
    <3> QED BY <3>1, <3>2 DEF FiniteSubsetsOf
  <2> QED BY <2>1
<1>2. PICK x \in T : \A y \in T : ~(<<y, x>> \in StrictSubsetOrdering(S))
  BY <1>1, FS_StrictSubsetOrderingWellFounded, WFMin
<1>3. PICK i \in S : x = UpTo(i)
  BY <1>2
<1>4. ASSUME NEW j \in S, ~(i <= j) PROVE FALSE
  <2>0. i \in Nat /\ j \in Nat /\ j < i
    BY <1>4
  <2>1. UpTo(j) \subseteq UpTo(i) /\ i \in UpTo(i) /\ i \notin UpTo(j)
    <3>1. \A k \in S : k \in Nat
      OBVIOUS
    <3>2. \A k \in S : k <= j => k <= i
      BY <2>0, <3>1
    <3>3. i <= i /\ ~(i <= j)
      BY <2>0
    <3> QED BY <3>2, <3>3
  <2>2. UpTo(j) \in T /\ UpTo(j) \in SUBSET S /\ UpTo(i) \in SUBSET S
    BY <1>4
  <2>3. UpTo(j) # UpTo(i)
    BY <2>1
  <2> HIDE DEF UpTo, T
  <2>4. <<UpTo(j), UpTo(i)>> \in StrictSubsetOrdering(S)
    BY <2>1, <2>2, <2>3 DEF StrictSubsetOrdering
  <2> QED BY <1>2, <1>3, <2>2, <2>4
<1> QED BY <1>4

LEMMA MaxOf ==
    ASSUME NEW S \in SUBSET Nat, IsFiniteSet(S), S # {}
    PROVE  Max(S) \in S /\ \A j \in S : j <= Max(S)
<1>1. \E i \in S : \A j \in S : i >= j
  BY Greatest
<1>2. Max(S) \in S /\ \A j \in S : Max(S) >= j
  BY <1>1 DEF Max
<1> QED BY <1>2

LEMMA MinOf ==
    ASSUME NEW S \in SUBSET Nat, IsFiniteSet(S), S # {}
    PROVE  Min(S) \in S /\ \A j \in S : Min(S) <= j
<1>1. \E i \in S : \A j \in S : i <= j
  BY Least
<1> QED BY <1>1 DEF Min

\* What a function gives to the members of a finite set is a finite set.
LEMMA ImageFinite ==
    ASSUME NEW S, IsFiniteSet(S), NEW f
    PROVE  IsFiniteSet({f[x] : x \in S})
<1> DEFINE T == {f[x] : x \in S}
           g == [x \in S |-> f[x]]
<1>1. g \in Surjection(S, T)
  BY DEF Surjection
<1> QED BY <1>1, FS_Surjection

----------------------------------------------------------------------------
(***************************************************************************)
(* A merge of typed stores is a typed store                                *)
(***************************************************************************)
\* One key is one side's row, the elected one or none.
LEMMA MergeKeyTyped ==
    ASSUME NEW R, NEW b, NEW o \in R \cup {NoRow}, NEW t \in R \cup {NoRow}, NEW od, NEW td,
           NEW e, o # NoRow /\ t # NoRow => e \in R
    PROVE  MergeKey(b, o, t, od, td, e) \in R \cup {NoRow}
BY DEF MergeKey, BothEdited, Edited

\* Of two rows the winner is one, and neither beats it.
LEMMA WinnerFacts ==
    ASSUME NEW o \in TaskRow, NEW t \in TaskRow
    PROVE  Winner(o, t) \in {o, t} /\ ~Beats(o, Winner(o, t)) /\ ~Beats(t, Winner(o, t))
<1>1. /\ o.upd \in Nat /\ t.upd \in Nat /\ o.number \in Nat /\ t.number \in Nat
  BY DEF TaskRow, Times
<1>2. ~Beats(o, o) /\ ~Beats(t, t)
  BY <1>1 DEF Beats
<1>3. ~Beats(o, t) \/ ~Beats(t, o)
  BY <1>1 DEF Beats
<1>4. \E r \in {o, t} : \A q \in {o, t} : ~Beats(q, r)
  BY <1>2, <1>3
<1> QED BY <1>4 DEF Winner, Unbeaten

LEMMA ElectTaskTyped ==
    ASSUME NEW o \in TaskRow, NEW t \in TaskRow
    PROVE  ElectTask(o, t) \in TaskRow
<1>1. Winner(o, t) \in TaskRow
  BY WinnerFacts
<1>2. (o.started \/ t.started) \in BOOLEAN
  OBVIOUS
<1> QED BY <1>1, <1>2 DEF ElectTask, TaskRow

LEMMA NewestIn ==
    ASSUME NEW rows, rows # {}, \A r \in rows : r.upd \in Times
    PROVE  Newest(rows) \in rows /\ \A q \in rows : Newest(rows).upd >= q.upd
<1> DEFINE stamps == {r.upd : r \in rows}
<1>1. stamps \in SUBSET Nat /\ stamps # {} /\ (\A n \in stamps : n <= MaxTime) /\ MaxTime \in Nat
  BY IdAssumption DEF Times
<1>2. IsFiniteSet(stamps)
  <2> HIDE DEF stamps
  <2> QED BY <1>1, FS_BoundedSetOfNaturals
<1>3. \E n \in stamps : \A m \in stamps : m <= n
  <2> HIDE DEF stamps
  <2> QED BY <1>1, <1>2, Greatest
<1>4. \E r \in rows : \A q \in rows : r.upd >= q.upd
  <2>1. PICK r \in rows : \A m \in stamps : m <= r.upd
    BY <1>3
  <2>2. \A q \in rows : q.upd \in Nat /\ q.upd <= r.upd /\ r.upd \in Nat
    BY <1>1, <2>1
  <2> QED BY <2>2
<1> QED BY <1>4 DEF Newest

\* An agent is aliased to an agent.
LEMMA AliasesTyped ==
    ASSUME NEW sides
    PROVE  Aliases(sides) \in [AgentIds -> AgentIds]
<1> SUFFICES ASSUME NEW a \in AgentIds, a \in Folded(sides)
             PROVE  Min(Named(sides, Max(LosesName(sides, a)))) \in AgentIds
  BY DEF Aliases
<1>1. LosesName(sides, a) \in SUBSET Names /\ LosesName(sides, a) # {}
  BY DEF LosesName, Folded
<1>2. IsFiniteSet(LosesName(sides, a)) /\ LosesName(sides, a) \in SUBSET Nat
  BY <1>1, IdAssumption, FS_Subset
<1>3. Max(LosesName(sides, a)) \in LosesName(sides, a)
  BY <1>1, <1>2, MaxOf
<1> DEFINE n == Max(LosesName(sides, a))
<1>4. Named(sides, n) \in SUBSET AgentIds /\ Named(sides, n) # {}
  BY <1>3 DEF LosesName, Named
<1>5. IsFiniteSet(Named(sides, n)) /\ Named(sides, n) \in SUBSET Nat
  BY <1>4, IdAssumption, FS_Subset
<1>6. Min(Named(sides, n)) \in Named(sides, n)
  BY <1>4, <1>5, MinOf
<1> QED BY <1>4, <1>6

\* What the tables of a store hold.
LEMMA StoreFacts ==
    ASSUME NEW r \in Stores
    PROVE  /\ r.row \in Tables /\ r.next \in Nat
           /\ r.row.task \in [TaskIds -> TaskRow \cup {NoRow}]
           /\ r.row.agent \in [AgentIds -> AgentRow \cup {NoRow}]
           /\ r.row.member \in [AgentIds -> MemberRow \cup {NoRow}]
           /\ r.row.dep \in [DepIds -> DepRow \cup {NoRow}]
           /\ r.row.event \in [TaskIds -> EventRow \cup {NoRow}]
           /\ r.gone.task \subseteq TaskIds /\ r.gone.member \subseteq AgentIds
           /\ r.gone.dep \subseteq DepIds
BY DEF Stores, Tables

LEMMA MergedTasksTyped ==
    ASSUME NEW b, NEW o \in Stores, NEW t \in Stores
    PROVE  MergedTasks(b, o, t) \in [TaskIds -> TaskRow \cup {NoRow}]
<1> SUFFICES ASSUME NEW k \in TaskIds, NEW od, NEW td
             PROVE  MergeTask(b.row.task[k], o.row.task[k], t.row.task[k], od, td)
                       \in TaskRow \cup {NoRow}
  BY DEF MergedTasks
<1>1. o.row.task[k] \in TaskRow \cup {NoRow} /\ t.row.task[k] \in TaskRow \cup {NoRow}
  BY StoreFacts
<1>2. o.row.task[k] # NoRow /\ t.row.task[k] # NoRow
         => ElectTask(o.row.task[k], t.row.task[k]) \in TaskRow
  BY <1>1, ElectTaskTyped
<1> QED BY <1>1, <1>2, MergeKeyTyped DEF MergeTask

LEMMA StampsTyped ==
    /\ \A r \in TaskRow : r.upd \in Times
    /\ \A r \in AgentRow : r.upd \in Times
    /\ \A r \in MemberRow : r.upd \in Times
BY DEF TaskRow, AgentRow, MemberRow

LEMMA MergedAgentsTyped ==
    ASSUME NEW b, NEW o \in Stores, NEW t \in Stores
    PROVE  MergedAgents(b, o, t) \in [AgentIds -> AgentRow \cup {NoRow}]
<1> SUFFICES ASSUME NEW a \in AgentIds
             PROVE  MergeAgent(b.row.agent[a], o.row.agent[a], t.row.agent[a])
                       \in AgentRow \cup {NoRow}
  BY DEF MergedAgents
<1> DEFINE p == o.row.agent[a]
           q == t.row.agent[a]
<1>1. p \in AgentRow \cup {NoRow} /\ q \in AgentRow \cup {NoRow}
  BY StoreFacts
<1>2. p # NoRow /\ q # NoRow => Newest({p, q}) \in AgentRow
  BY <1>1, StampsTyped, NewestIn
<1> QED BY <1>1, <1>2, MergeKeyTyped DEF MergeAgent

LEMMA MemberTyped ==
    ASSUME NEW b, NEW o \in Stores, NEW t \in Stores, NEW a \in AgentIds
    PROVE  MemberBeforeRemap(b, o, t, a) \in MemberRow \cup {NoRow}
<1> DEFINE p == o.row.member[a]
           q == t.row.member[a]
<1>1. p \in MemberRow \cup {NoRow} /\ q \in MemberRow \cup {NoRow}
  BY StoreFacts
<1>2. p # NoRow /\ q # NoRow => Newest({p, q}) \in MemberRow
  BY <1>1, StampsTyped, NewestIn
<1> QED BY <1>1, <1>2, MergeKeyTyped DEF MemberBeforeRemap, MergeMember

LEMMA MergedMembersTyped ==
    ASSUME NEW b, NEW o \in Stores, NEW t \in Stores, NEW alias
    PROVE  MergedMembers(b, o, t, alias) \in [AgentIds -> MemberRow \cup {NoRow}]
<1>1. \A a \in AgentIds : MemberBeforeRemap(b, o, t, a) \in MemberRow \cup {NoRow}
  BY MemberTyped
<1>2. ASSUME NEW rows \in SUBSET MemberRow, rows # {}
      PROVE  Newest(rows) \in MemberRow
  BY <1>2, StampsTyped, NewestIn
<1>3. ASSUME NEW a \in AgentIds
      PROVE  ({MemberBeforeRemap(b, o, t, i) : i \in {j \in AgentIds : alias[j] = a}} \ {NoRow})
                \in SUBSET MemberRow
  BY <1>1
<1> QED BY <1>2, <1>3 DEF MergedMembers

LEMMA DepsBeforeTyped ==
    ASSUME NEW b, NEW o \in Stores, NEW t \in Stores
    PROVE  DepsBeforeElection(b, o, t) \in [DepIds -> DepRow \cup {NoRow}]
<1> SUFFICES ASSUME NEW d \in DepIds, NEW od, NEW td
             PROVE  MergeDep(b.row.dep[d], o.row.dep[d], t.row.dep[d], od, td)
                       \in DepRow \cup {NoRow}
  BY DEF DepsBeforeElection
<1> DEFINE p == o.row.dep[d]
           q == t.row.dep[d]
<1>1. p \in DepRow \cup {NoRow} /\ q \in DepRow \cup {NoRow}
  BY StoreFacts
<1>2. Either({p, q}) \in {p, q}
  BY DEF Either
<1>3. p # NoRow /\ q # NoRow => Either({p, q}) \in DepRow
  BY <1>1, <1>2
<1> HIDE DEF p, q
<1>4. MergeKey(b.row.dep[d], p, q, od, td, Either({p, q})) \in DepRow \cup {NoRow}
  BY <1>1, <1>3, MergeKeyTyped
<1> QED BY <1>4 DEF MergeDep, p, q

LEMMA MergedDepsTyped ==
    ASSUME NEW b, NEW o \in Stores, NEW t \in Stores
    PROVE  MergedDeps(b, o, t) \in [DepIds -> DepRow \cup {NoRow}]
BY DepsBeforeTyped DEF MergedDeps

LEMMA MergedEventsTyped ==
    ASSUME NEW b \in Stores, NEW o \in Stores, NEW t \in Stores,
           NEW alias \in [AgentIds -> AgentIds], NEW agents \in SUBSET AgentIds,
           NEW tasks \in SUBSET TaskIds
    PROVE  MergedEvents(b, o, t, alias, agents, tasks) \in [TaskIds -> EventRow \cup {NoRow}]
<1>1. ASSUME NEW e \in TaskIds
      PROVE  EventsOfAll(b, o, t)[e] \in EventRow \cup {NoRow}
  <2> DEFINE held == Held(b.row.event[e], o.row.event[e], t.row.event[e])
  <2>1. held \in SUBSET EventRow
    BY StoreFacts DEF Held
  <2>2. held # {} => Either(held) \in held
    BY DEF Either
  <2>3. EventsOfAll(b, o, t)[e] = IF held = {} THEN NoRow ELSE Either(held)
    BY DEF EventsOfAll, UnionEvent
  <2> HIDE DEF held
  <2> QED BY <2>1, <2>2, <2>3
<1>2. ASSUME NEW row \in EventRow \cup {NoRow}
      PROVE  Rewritten(row, alias, agents, tasks) \in EventRow \cup {NoRow}
  BY DEF Rewritten, EventRow, OrNull
<1> QED BY <1>1, <1>2 DEF MergedEvents

----------------------------------------------------------------------------
(***************************************************************************)
(* The display numbers of a merge                                          *)
(***************************************************************************)
TaskTable == [TaskIds -> TaskRow \cup {NoRow}]

\* The high-water mark is a number no task is above.
LEMMA HighWaterFacts ==
    ASSUME NEW tasks \in TaskTable
    PROVE  /\ HighWater(tasks) \in Nat
           /\ \A k \in Rows(tasks) : tasks[k].number <= HighWater(tasks)
           /\ HighWater(tasks) = 0 \/ \E k \in Rows(tasks) : HighWater(tasks) = tasks[k].number
<1> DEFINE number == [k \in TaskIds |-> tasks[k].number]
           used == {number[k] : k \in Rows(tasks)}
<1>1. Rows(tasks) \in SUBSET TaskIds /\ \A k \in Rows(tasks) : tasks[k] \in TaskRow
  BY DEF TaskTable, Rows
<1>2. used = {tasks[k].number : k \in Rows(tasks)}
  BY <1>1
<1>3. {0} \cup used \in SUBSET Nat
  <2>1. \A k \in Rows(tasks) : tasks[k].number \in Nat
    BY <1>1 DEF TaskRow
  <2> HIDE DEF used
  <2> QED BY <1>2, <2>1
<1>4. IsFiniteSet(Rows(tasks))
  BY <1>1, IdAssumption, FS_Subset
<1>5. IsFiniteSet(used)
  BY <1>4, ImageFinite
<1>6. IsFiniteSet({0} \cup used)
  <2> HIDE DEF used
  <2> QED BY <1>5, FS_Singleton, FS_Union
<1>7. /\ Max({0} \cup used) \in Nat /\ Max({0} \cup used) \in {0} \cup used
      /\ \A n \in {0} \cup used : n <= Max({0} \cup used)
  <2> HIDE DEF used
  <2>1. Max({0} \cup used) \in {0} \cup used /\ \A n \in {0} \cup used : n <= Max({0} \cup used)
    BY <1>3, <1>6, MaxOf
  <2> QED BY <2>1, <1>3
<1>8. HighWater(tasks) = Max({0} \cup used)
  BY <1>2 DEF HighWater
<1>9. \A k \in Rows(tasks) : tasks[k].number \in {0} \cup used
  BY <1>2
<1>10. \A n \in used : \E k \in Rows(tasks) : n = tasks[k].number
  BY <1>2
<1> HIDE DEF used
<1> QED BY <1>7, <1>8, <1>9, <1>10

LEMMA MaxOfTwo ==
    ASSUME NEW m \in Nat, NEW n \in Nat
    PROVE  Max({m, n}) \in Nat /\ m <= Max({m, n}) /\ n <= Max({m, n})
<1>1. {m, n} \in SUBSET Nat /\ {m, n} # {}
  OBVIOUS
<1>2. IsFiniteSet({m, n})
  <2>1. {m, n} = {m} \cup {n} /\ IsFiniteSet({m}) /\ IsFiniteSet({n})
    BY FS_Singleton
  <2>2. IsFiniteSet({m} \cup {n})
    BY <2>1, FS_Union
  <2> QED BY <2>1, <2>2
<1> QED BY <1>1, <1>2, MaxOf

\* The counter of a merge is the greatest of the three.
LEMMA NextOfThree ==
    ASSUME NEW b \in Stores, NEW o \in Stores, NEW t \in Stores
    PROVE  /\ MergedNext(b, o, t) \in {b.next, o.next, t.next} /\ MergedNext(b, o, t) \in Nat
           /\ b.next <= MergedNext(b, o, t) /\ o.next <= MergedNext(b, o, t)
           /\ t.next <= MergedNext(b, o, t)
<1> DEFINE nexts == {b.next, o.next, t.next}
<1>1. nexts \in SUBSET Nat /\ nexts # {}
  BY StoreFacts
<1>2. IsFiniteSet(nexts)
  <2>1. /\ nexts = {b.next} \cup ({o.next} \cup {t.next})
        /\ IsFiniteSet({b.next}) /\ IsFiniteSet({o.next}) /\ IsFiniteSet({t.next})
    BY FS_Singleton
  <2>2. IsFiniteSet({o.next} \cup {t.next})
    BY <2>1, FS_Union
  <2>3. IsFiniteSet({b.next} \cup ({o.next} \cup {t.next}))
    BY <2>1, <2>2, FS_Union
  <2> QED BY <2>1, <2>3
<1>3. Max(nexts) \in nexts /\ \A n \in nexts : n <= Max(nexts)
  <2> HIDE DEF nexts
  <2> QED BY <1>1, <1>2, MaxOf
<1>4. MergedNext(b, o, t) = Max(nexts)
  BY DEF MergedNext
<1> QED BY <1>1, <1>3, <1>4

LEMMA MergedNextTyped ==
    ASSUME NEW b \in Stores, NEW o \in Stores, NEW t \in Stores
    PROVE  MergedNext(b, o, t) \in Nat
BY NextOfThree

Floor(tasks, next) == Max({next, HighWater(tasks) + 1})

MovedBefore(tasks, k) == {i \in Renumbered(tasks) : Precedes(tasks, i, k)}

\* A number is given away only if a task before it has it, and the new one is
\* above all of them.
LEMMA NumberedFacts ==
    ASSUME NEW tasks \in TaskTable, NEW next \in Nat
    PROVE  /\ Floor(tasks, next) \in Nat /\ next <= Floor(tasks, next)
           /\ \A k \in Rows(tasks) : tasks[k].number < Floor(tasks, next)
           /\ Renumbered(tasks) \subseteq Rows(tasks)
           /\ \A k \in TaskIds : Cardinality(MovedBefore(tasks, k)) \in Nat
           /\ \A k \in TaskIds : Numbered(tasks, next)[k] =
                 IF k \in Renumbered(tasks)
                 THEN [tasks[k] EXCEPT !.number = Floor(tasks, next) + Cardinality(MovedBefore(tasks, k))]
                 ELSE tasks[k]
           /\ Numbered(tasks, next) \in TaskTable
           /\ Rows(Numbered(tasks, next)) = Rows(tasks)
<1>1. HighWater(tasks) \in Nat /\ \A k \in Rows(tasks) : tasks[k].number <= HighWater(tasks)
  BY HighWaterFacts
<1>2. Floor(tasks, next) \in Nat /\ next <= Floor(tasks, next)
         /\ HighWater(tasks) + 1 <= Floor(tasks, next)
  BY <1>1, MaxOfTwo DEF Floor
<1>3. \A k \in Rows(tasks) : k \in TaskIds /\ tasks[k] \in TaskRow /\ tasks[k].number \in Nat
  BY DEF Rows, TaskTable, TaskRow
<1>4. \A k \in Rows(tasks) : tasks[k].number < Floor(tasks, next)
  BY <1>1, <1>2, <1>3
<1>5. Renumbered(tasks) \subseteq Rows(tasks)
  BY DEF Renumbered
<1>6. ASSUME NEW k \in TaskIds
      PROVE  Cardinality(MovedBefore(tasks, k)) \in Nat
  <2>1. MovedBefore(tasks, k) \in SUBSET TaskIds
    BY <1>3, <1>5 DEF MovedBefore
  <2>2. IsFiniteSet(MovedBefore(tasks, k))
    BY <2>1, IdAssumption, FS_Subset
  <2> QED BY <2>2, FS_CardinalityType
<1>7. \A k \in TaskIds : Numbered(tasks, next)[k] =
                 IF k \in Renumbered(tasks)
                 THEN [tasks[k] EXCEPT !.number = Floor(tasks, next) + Cardinality(MovedBefore(tasks, k))]
                 ELSE tasks[k]
  BY DEF Numbered, Floor, MovedBefore
<1>8. ASSUME NEW k \in TaskIds
      PROVE  /\ Numbered(tasks, next)[k] \in TaskRow \cup {NoRow}
             /\ Numbered(tasks, next)[k] = NoRow <=> tasks[k] = NoRow
  <2>1. CASE k \in Renumbered(tasks)
    <3>1. tasks[k] \in TaskRow /\ tasks[k] # NoRow
      BY <2>1, <1>3, <1>5 DEF Rows
    <3>2. Floor(tasks, next) + Cardinality(MovedBefore(tasks, k)) \in Nat
      BY <1>2, <1>6
    <3>3. Numbered(tasks, next)[k] \in TaskRow
      BY <1>7, <2>1, <3>1, <3>2 DEF TaskRow
    <3> QED BY <3>1, <3>3, IdAssumption
  <2>2. CASE k \notin Renumbered(tasks)
    BY <2>2, <1>7 DEF TaskTable
  <2> QED BY <2>1, <2>2
<1>9. DOMAIN Numbered(tasks, next) = TaskIds /\ Numbered(tasks, next) \in TaskTable
  BY <1>8 DEF Numbered, TaskTable
<1>10. Rows(Numbered(tasks, next)) = Rows(tasks)
  BY <1>8, <1>9 DEF Rows, TaskTable
<1> QED BY <1>2, <1>4, <1>5, <1>6, <1>7, <1>9, <1>10


\* Which side is ours matters to no conflict between a deletion and an edit.
LEMMA DeleteClashSymmetric ==
    ASSUME NEW b, NEW o, NEW t, NEW od, NEW td
    PROVE  DeleteClash(b, o, t, od, td) <=> DeleteClash(b, t, o, td, od)
  BY DEF DeleteClash

\* Without one, one key has one outcome, provided the election has.
LEMMA MergeKeySymmetric ==
    ASSUME NEW b, NEW o, NEW t, NEW e, NEW od, NEW td,
           ~DeleteClash(b, o, t, od, td)
    PROVE  MergeKey(b, o, t, od, td, e) = MergeKey(b, t, o, td, od, e)
  <1>1. ~DeleteClash(b, t, o, td, od)
    BY DeleteClashSymmetric
  <1>2. CASE od \/ td
    BY <1>1, <1>2 DEF MergeKey
  <1>3. CASE ~(od \/ td)
    BY <1>3 DEF MergeKey, BothEdited, Edited
  <1>4. QED
    BY <1>2, <1>3

\* What was deleted and not edited elsewhere is gone.
LEMMA MergeKeyDeletes ==
    ASSUME NEW b, NEW o, NEW t, NEW e, NEW od, NEW td,
           od \/ td, ~DeleteClash(b, o, t, od, td)
    PROVE  MergeKey(b, o, t, od, td, e) = NoRow
  BY DEF MergeKey

LEMMA ElectTaskSymmetric ==
    ASSUME NEW o, NEW t, ~StatusGap(o, t)
    PROVE  ElectTask(o, t) = ElectTask(t, o)
  <1>1. ~StatusGap(t, o)
    BY DEF StatusGap
  <1>2. {o, t} = {t, o}
    OBVIOUS
  <1>3. Winner(o, t) = Winner(t, o)
    BY <1>2 DEF Winner
  <1>4. (o.started \/ t.started) = (t.started \/ o.started)
    OBVIOUS
  <1>5. QED
    BY <1>1, <1>3, <1>4 DEF ElectTask

LEMMA TaskClashSymmetric ==
    ASSUME NEW b, NEW o, NEW t, NEW od, NEW td
    PROVE  TaskClash(b, o, t, od, td) <=> TaskClash(b, t, o, td, od)
  <1>1. BothEdited(b, o, t) <=> BothEdited(b, t, o)
    BY DEF BothEdited
  <1>2. StatusGap(o, t) <=> StatusGap(t, o)
    BY DEF StatusGap
  <1>3. QED
    BY <1>1, <1>2, DeleteClashSymmetric DEF TaskClash

LEMMA MergeTaskSymmetric ==
    ASSUME NEW b, NEW o, NEW t, NEW od, NEW td,
           ~TaskClash(b, o, t, od, td)
    PROVE  MergeTask(b, o, t, od, td) = MergeTask(b, t, o, td, od)
  <1>1. ~DeleteClash(b, o, t, od, td)
    BY DEF TaskClash
  <1>2. CASE StatusGap(o, t)
    <2>1. ~StatusGap(o, t) \/ od \/ td \/ ~BothEdited(b, o, t)
      BY DEF TaskClash
    <2>2. ~DeleteClash(b, t, o, td, od)
      BY <1>1, DeleteClashSymmetric
    <2>3. BothEdited(b, t, o) <=> BothEdited(b, o, t)
      BY DEF BothEdited
    <2>4. CASE od \/ td
      BY <1>1, <2>2, <2>4 DEF MergeTask, MergeKey
    <2>5. CASE ~od /\ ~td /\ ~BothEdited(b, o, t)
      <3>1. MergeTask(b, o, t, od, td) = MergeKey(b, o, t, od, td, o)
        BY <2>5 DEF MergeTask, MergeKey
      <3>2. MergeTask(b, t, o, td, od) = MergeKey(b, t, o, td, od, o)
        BY <2>3, <2>5 DEF MergeTask, MergeKey
      <3>3. QED
        BY <1>1, <3>1, <3>2, MergeKeySymmetric
    <2>6. QED
      BY <1>2, <2>1, <2>4, <2>5
  <1>3. CASE ~StatusGap(o, t)
    BY <1>1, <1>3, ElectTaskSymmetric, MergeKeySymmetric DEF MergeTask
  <1>4. QED
    BY <1>2, <1>3

LEMMA MergeAgentSymmetric ==
    ASSUME NEW b, NEW o, NEW t
    PROVE  MergeAgent(b, o, t) = MergeAgent(b, t, o)
  <1>1. {o, t} = {t, o}
    OBVIOUS
  <1>2. Newest({o, t}) = Newest({t, o})
    BY <1>1
  <1>3. QED
    BY <1>2 DEF MergeAgent, MergeKey, BothEdited, Edited

LEMMA MergeDepSymmetric ==
    ASSUME NEW b, NEW o, NEW t, NEW od, NEW td, ~DeleteClash(b, o, t, od, td)
    PROVE  MergeDep(b, o, t, od, td) = MergeDep(b, t, o, td, od)
  <1>1. {o, t} = {t, o}
    OBVIOUS
  <1>2. Either({o, t}) = Either({t, o})
    BY <1>1
  <1>3. QED
    BY <1>2, MergeKeySymmetric DEF MergeDep

----------------------------------------------------------------------------
\* No key of a clean merge clashes.
LEMMA CleanKeys ==
    ASSUME NEW b, NEW o, NEW t, Clean(b, o, t)
    PROVE  /\ \A k \in TaskIds : ~TaskClash(b.row.task[k], o.row.task[k], t.row.task[k],
                                            k \in o.gone.task, k \in t.gone.task)
           /\ \A a \in AgentIds : ~DeleteClash(b.row.member[a], o.row.member[a],
                                       t.row.member[a], a \in o.gone.member, a \in t.gone.member)
           /\ \A d \in DepIds : ~DeleteClash(b.row.dep[d], o.row.dep[d], t.row.dep[d],
                                       d \in o.gone.dep, d \in t.gone.dep)
           /\ EdgeClashes(DepsBeforeElection(b, o, t)) = {}
  BY DEF Clean, Clashes

LEMMA TablesSymmetric ==
    ASSUME NEW b, NEW o, NEW t, Clean(b, o, t)
    PROVE  /\ MergedTasks(b, o, t) = MergedTasks(b, t, o)
           /\ MergedAgents(b, o, t) = MergedAgents(b, t, o)
           /\ \A a \in AgentIds : MemberBeforeRemap(b, o, t, a) = MemberBeforeRemap(b, t, o, a)
           /\ DepsBeforeElection(b, o, t) = DepsBeforeElection(b, t, o)
  <1>1. {o, t} = {t, o}
    OBVIOUS
  <1>2. MergedTasks(b, o, t) = MergedTasks(b, t, o)
    BY CleanKeys, MergeTaskSymmetric DEF MergedTasks
  <1>4. MergedAgents(b, o, t) = MergedAgents(b, t, o)
    BY <1>1, MergeAgentSymmetric DEF MergedAgents
  <1>5. ASSUME NEW a \in AgentIds
        PROVE  MemberBeforeRemap(b, o, t, a) = MemberBeforeRemap(b, t, o, a)
    <2>1. Newest({o.row.member[a], t.row.member[a]}) = Newest({t.row.member[a], o.row.member[a]})
      <3>1. {o.row.member[a], t.row.member[a]} = {t.row.member[a], o.row.member[a]}
        OBVIOUS
      <3>2. QED
        BY <3>1
    <2>2. QED
      BY <2>1, CleanKeys, MergeKeySymmetric DEF MemberBeforeRemap, MergeMember
  <1>6. ASSUME NEW d \in DepIds
        PROVE  MergeDep(b.row.dep[d], o.row.dep[d], t.row.dep[d], d \in o.gone.dep, d \in t.gone.dep)
                = MergeDep(b.row.dep[d], t.row.dep[d], o.row.dep[d], d \in t.gone.dep, d \in o.gone.dep)
    BY CleanKeys, MergeDepSymmetric
  <1>7. DepsBeforeElection(b, o, t) = DepsBeforeElection(b, t, o)
    BY <1>6 DEF DepsBeforeElection
  <1>8. QED
    BY <1>2, <1>4, <1>5, <1>7

LEMMA CleanSymmetric ==
    ASSUME NEW b, NEW o, NEW t, Clean(b, o, t)
    PROVE  Clean(b, t, o)
  <1>1. \A e \in TaskIds : ~Tampered(b.row.event[e], t.row.event[e], o.row.event[e])
    BY DEF Clean, Tampered, Held
  <1>2. \A k \in TaskIds : ~TaskClash(b.row.task[k], t.row.task[k], o.row.task[k],
                                      k \in t.gone.task, k \in o.gone.task)
    BY CleanKeys, TaskClashSymmetric
  <1>3. \A a \in AgentIds : ~DeleteClash(b.row.member[a], t.row.member[a], o.row.member[a],
                                         a \in t.gone.member, a \in o.gone.member)
    BY CleanKeys, DeleteClashSymmetric
  <1>4. \A d \in DepIds : ~DeleteClash(b.row.dep[d], t.row.dep[d], o.row.dep[d],
                                       d \in t.gone.dep, d \in o.gone.dep)
    BY CleanKeys, DeleteClashSymmetric
  <1>5. EdgeClashes(DepsBeforeElection(b, t, o)) = {}
    BY CleanKeys, TablesSymmetric
  <1>6. Clashes(b, t, o) = {}
    BY <1>2, <1>3, <1>4, <1>5 DEF Clashes
  <1>7. QED
    BY <1>1, <1>6 DEF Clean

\* A clean merge gives both sides the same database.
THEOREM CandidateSymmetric ==
    ASSUME NEW b, NEW o, NEW t, Clean(b, o, t)
    PROVE  Candidate(b, o, t) = Candidate(b, t, o)
  <1>1. {o, t} = {t, o} /\ {b.next, o.next, t.next} = {b.next, t.next, o.next}
    OBVIOUS
  <1>2. MergedNext(b, o, t) = MergedNext(b, t, o)
    BY <1>1 DEF MergedNext
  <1>3. Aliases({o, t}) = Aliases({t, o})
    BY <1>1
  <1>4. \A alias : MergedMembers(b, o, t, alias) = MergedMembers(b, t, o, alias)
    <2>1. TAKE alias
    <2>2. ASSUME NEW a \in AgentIds
          PROVE  {MemberBeforeRemap(b, o, t, i) : i \in {j \in AgentIds : alias[j] = a}}
                  = {MemberBeforeRemap(b, t, o, i) : i \in {j \in AgentIds : alias[j] = a}}
      BY TablesSymmetric
    <2>3. QED
      BY <2>2 DEF MergedMembers
  <1>5. MergedDeps(b, o, t) = MergedDeps(b, t, o)
    BY TablesSymmetric DEF MergedDeps
  <1>6. \A alias, agents, tasks : MergedEvents(b, o, t, alias, agents, tasks)
                                  = MergedEvents(b, t, o, alias, agents, tasks)
    <2>1. ASSUME NEW e \in TaskIds
          PROVE  UnionEvent(b.row.event[e], o.row.event[e], t.row.event[e])
                   = UnionEvent(b.row.event[e], t.row.event[e], o.row.event[e])
      <3>1. Held(b.row.event[e], o.row.event[e], t.row.event[e])
              = Held(b.row.event[e], t.row.event[e], o.row.event[e])
        BY DEF Held
      <3>2. QED
        BY <3>1 DEF UnionEvent
    <2>2. EventsOfAll(b, o, t) = EventsOfAll(b, t, o)
      BY <2>1 DEF EventsOfAll
    <2>3. QED
      BY <2>2 DEF MergedEvents
  <1>7. /\ b.gone.task \cup o.gone.task \cup t.gone.task
             = b.gone.task \cup t.gone.task \cup o.gone.task
        /\ b.gone.member \cup o.gone.member \cup t.gone.member
             = b.gone.member \cup t.gone.member \cup o.gone.member
        /\ b.gone.dep \cup o.gone.dep \cup t.gone.dep
             = b.gone.dep \cup t.gone.dep \cup o.gone.dep
    OBVIOUS
  <1>10. \A tasks, members, deps : MergedGone(b, o, t, tasks, members, deps)
                                   = MergedGone(b, t, o, tasks, members, deps)
    BY <1>7 DEF MergedGone
  <1>8. MergedTasks(b, o, t) = MergedTasks(b, t, o) /\ MergedAgents(b, o, t) = MergedAgents(b, t, o)
    BY TablesSymmetric
  <1> DEFINE alias == Aliases({o, t})
             tasks == MergedTasks(b, o, t)
             agents == MergedAgents(b, o, t)
             members == MergedMembers(b, o, t, alias)
             deps == MergedDeps(b, o, t)
  <1>11. MergedMembers(b, t, o, Aliases({t, o})) = members
    BY <1>3, <1>4
  <1>12. MergedEvents(b, t, o, Aliases({t, o}), Rows(agents), Rows(tasks))
           = MergedEvents(b, o, t, alias, Rows(agents), Rows(tasks))
    BY <1>3, <1>6
  <1>13. MergedGone(b, t, o, Rows(tasks), Rows(members), Rows(deps))
           = MergedGone(b, o, t, Rows(tasks), Rows(members), Rows(deps))
    BY <1>10
  <1>14. /\ MergedTasks(b, t, o) = tasks /\ MergedAgents(b, t, o) = agents
         /\ MergedDeps(b, t, o) = deps /\ Aliases({t, o}) = alias
         /\ MergedNext(b, t, o) = MergedNext(b, o, t)
    BY <1>2, <1>3, <1>5, <1>8
  <1>9. QED
    BY <1>11, <1>12, <1>13, <1>14, Zenon DEF Candidate

\* The order in which two clones merge each other never matters, whatever they
\* hold and over whatever base.
THEOREM CommutativeTheorem == Spec => []Commutative
  <1>1. Commutative
    BY CleanSymmetric, CandidateSymmetric DEF Commutative
  <1>2. QED
    BY <1>1, PTL
\* Of two renumbered tasks the one behind has more of them before it.
LEMMA BehindIsAbove ==
    ASSUME NEW tasks \in TaskTable, NEW i \in Renumbered(tasks), NEW k \in Renumbered(tasks),
           Precedes(tasks, i, k)
    PROVE  Cardinality(MovedBefore(tasks, i)) < Cardinality(MovedBefore(tasks, k))
<1>1. \A j \in Renumbered(tasks) : j \in TaskIds /\ j \in Nat /\ tasks[j].number \in Nat
  BY IdAssumption DEF Renumbered, Rows, TaskTable, TaskRow
<1>2. MovedBefore(tasks, k) \in SUBSET TaskIds
  BY <1>1 DEF MovedBefore
<1>3. IsFiniteSet(MovedBefore(tasks, k))
  BY <1>2, IdAssumption, FS_Subset
<1>4. \A j \in MovedBefore(tasks, i) : j \in MovedBefore(tasks, k)
  BY <1>1 DEF MovedBefore, Precedes
<1>5. i \in MovedBefore(tasks, k) /\ i \notin MovedBefore(tasks, i)
  BY <1>1 DEF MovedBefore, Precedes
<1>6. MovedBefore(tasks, i) \in SUBSET MovedBefore(tasks, k) /\ MovedBefore(tasks, i) # MovedBefore(tasks, k)
  BY <1>4, <1>5
<1>7. /\ IsFiniteSet(MovedBefore(tasks, i))
      /\ Cardinality(MovedBefore(tasks, i)) <= Cardinality(MovedBefore(tasks, k))
      /\ Cardinality(MovedBefore(tasks, k)) # Cardinality(MovedBefore(tasks, i))
  BY <1>3, <1>6, FS_Subset
<1>8. Cardinality(MovedBefore(tasks, i)) \in Nat /\ Cardinality(MovedBefore(tasks, k)) \in Nat
  BY <1>3, <1>7, FS_CardinalityType
<1> QED BY <1>7, <1>8

\* No two tasks have one number.
NumbersDistinct(tasks) ==
    \A i, k \in Rows(tasks) : tasks[i].number = tasks[k].number => i = k

LEMMA RenumberedNone ==
    ASSUME NEW tasks \in TaskTable
    PROVE  Renumbered(tasks) = {} <=> NumbersDistinct(tasks)
<1>1. \A k \in Rows(tasks) : k \in Nat
  BY IdAssumption DEF Rows, TaskTable
<1>2. \A i, k \in Rows(tasks) : i = k \/ i < k \/ k < i
  BY <1>1
<1>3. \A i \in Rows(tasks) : ~(i < i)
  BY <1>1
<1> QED BY <1>2, <1>3 DEF Renumbered, NumbersDistinct

LEMMA NumberedDistinct ==
    ASSUME NEW tasks \in TaskTable, NEW next \in Nat
    PROVE  NumbersDistinct(Numbered(tasks, next))
<1> DEFINE new == Numbered(tasks, next)
           moved == Renumbered(tasks)
           floor == Floor(tasks, next)
           rank(k) == Cardinality(MovedBefore(tasks, k))
<1>1. /\ floor \in Nat /\ (\A k \in Rows(tasks) : tasks[k].number < floor)
      /\ moved \subseteq Rows(tasks) /\ (\A k \in TaskIds : rank(k) \in Nat)
      /\ Rows(new) = Rows(tasks)
      /\ \A k \in TaskIds : new[k] = IF k \in moved
                                     THEN [tasks[k] EXCEPT !.number = floor + rank(k)]
                                     ELSE tasks[k]
  BY NumberedFacts
<1>2. \A k \in Rows(tasks) : k \in TaskIds /\ k \in Nat /\ tasks[k] \in TaskRow
                              /\ tasks[k].number \in Nat
  BY IdAssumption DEF Rows, TaskTable, TaskRow
<1>3. \A k \in moved : new[k].number = floor + rank(k)
  BY <1>1, <1>2 DEF TaskRow
<1>4. \A k \in Rows(tasks) \ moved : new[k].number = tasks[k].number
  BY <1>1, <1>2
<1> HIDE DEF new, moved, floor, rank
<1> SUFFICES ASSUME NEW i \in Rows(tasks), NEW k \in Rows(tasks), i < k
             PROVE  new[i].number # new[k].number
  <2>1. \A i, k \in Rows(tasks) : i = k \/ i < k \/ k < i
    BY <1>2
  <2> QED BY <2>1, <1>1 DEF NumbersDistinct, new
<1>5. CASE i \notin moved /\ k \notin moved
  BY <1>2, <1>4, <1>5 DEF moved, Renumbered
<1>6. CASE i \in moved /\ k \notin moved
  BY <1>1, <1>2, <1>3, <1>4, <1>6
<1>7. CASE i \notin moved /\ k \in moved
  BY <1>1, <1>2, <1>3, <1>4, <1>7
<1>8. CASE i \in moved /\ k \in moved
  <2>1. Precedes(tasks, i, k) \/ Precedes(tasks, k, i)
    BY <1>2 DEF Precedes
  <2>2. rank(i) # rank(k)
    <3>1. ASSUME NEW p \in moved, NEW q \in moved, Precedes(tasks, p, q)
          PROVE  rank(p) < rank(q)
      BY <3>1, BehindIsAbove DEF moved, rank
    <3>2. rank(i) \in Nat /\ rank(k) \in Nat
      BY <1>1, <1>2
    <3> QED BY <1>8, <2>1, <3>1, <3>2
  <2> QED BY <1>1, <1>2, <1>3, <1>8, <2>2
<1> QED BY <1>5, <1>6, <1>7, <1>8

----------------------------------------------------------------------------
(***************************************************************************)
(* The candidate                                                           *)
(***************************************************************************)
\* Numbers are distinct, and the next one is above them.
NumbersSound(r) ==
    /\ NumbersDistinct(r.row.task) /\ r.next # 0
    /\ \A k \in Rows(r.row.task) : r.row.task[k].number < r.next

\* The owners are rewritten, and nothing else of a task.
LEMMA OwnedFacts ==
    ASSUME NEW tasks \in TaskTable, NEW kept, kept = Rows(tasks),
           NEW alias \in [AgentIds -> AgentIds], NEW agents \in SUBSET AgentIds
    PROVE  /\ Owned(tasks, kept, alias, agents) \in TaskTable
           /\ Rows(Owned(tasks, kept, alias, agents)) = Rows(tasks)
           /\ \A k \in Rows(tasks) : /\ Owned(tasks, kept, alias, agents)[k].number = tasks[k].number
                                     /\ Owned(tasks, kept, alias, agents)[k].upd = tasks[k].upd
<1> DEFINE new == Owned(tasks, kept, alias, agents)
<1>1. ASSUME NEW k \in TaskIds, k \in kept
      PROVE  /\ new[k] \in TaskRow /\ new[k].number = tasks[k].number
             /\ new[k].upd = tasks[k].upd
  <2>1. tasks[k] \in TaskRow
    BY <1>1 DEF TaskTable, Rows
  <2>2. OrNull(Remapped(alias, tasks[k].owner), agents) \in AgentIds \cup {Nobody}
    BY DEF OrNull
  <2>3. new[k] = [tasks[k] EXCEPT !.owner = OrNull(Remapped(alias, tasks[k].owner), agents)]
    BY <1>1 DEF Owned
  <2> QED BY <2>1, <2>2, <2>3 DEF TaskRow
<1>2. \A k \in TaskIds : k \notin kept => new[k] = NoRow
  BY DEF Owned
<1>3. new \in TaskTable
  BY <1>1, <1>2 DEF Owned, TaskTable
<1>4. Rows(new) = Rows(tasks)
  <2>1. \A k \in TaskIds : new[k] # NoRow <=> k \in kept
    BY <1>1, <1>2, IdAssumption
  <2>2. DOMAIN new = TaskIds /\ DOMAIN tasks = TaskIds
    BY <1>3 DEF TaskTable
  <2> HIDE DEF new
  <2> QED BY <2>1, <2>2 DEF Rows
<1>5. \A k \in Rows(tasks) : k \in TaskIds
  BY DEF Rows, TaskTable
<1> QED BY <1>1, <1>3, <1>4, <1>5

LEMMA CandidateFields ==
    ASSUME NEW b \in Stores, NEW o \in Stores, NEW t \in Stores
    PROVE  /\ Candidate(b, o, t) \in Stores
           /\ NumbersSound(Candidate(b, o, t))
           /\ Candidate(b, o, t).gone.task
                = (b.gone.task \cup o.gone.task \cup t.gone.task) \ Rows(MergedTasks(b, o, t))
           /\ Candidate(b, o, t).gone.dep
                = (b.gone.dep \cup o.gone.dep \cup t.gone.dep) \ Rows(MergedDeps(b, o, t))
<1> DEFINE alias == Aliases({o, t})
           tasks == MergedTasks(b, o, t)
           kept == Rows(tasks)
           next == MergedNext(b, o, t)
           numbered == Numbered(tasks, next)
           agents == MergedAgents(b, o, t)
           alive == Rows(agents)
           members == MergedMembers(b, o, t, alias)
           deps == MergedDeps(b, o, t)
           owned == Owned(numbered, kept, alias, alive)
           events == MergedEvents(b, o, t, alias, alive, kept)
           gone == MergedGone(b, o, t, kept, Rows(members), Rows(deps))
           above == CounterAbove(numbered, next)
<1>1. Candidate(b, o, t) = [row |-> [task |-> owned, agent |-> agents, member |-> members,
                                      dep |-> deps, event |-> events],
                            gone |-> gone, next |-> above]
  BY Zenon DEF Candidate
<1>2. alias \in [AgentIds -> AgentIds]
  BY AliasesTyped
<1>3. tasks \in TaskTable /\ next \in Nat
  BY MergedTasksTyped, MergedNextTyped DEF TaskTable
<1>4. numbered \in TaskTable /\ Rows(numbered) = kept /\ NumbersDistinct(numbered)
  BY <1>3, NumberedFacts, NumberedDistinct
<1>5. agents \in [AgentIds -> AgentRow \cup {NoRow}] /\ alive \in SUBSET AgentIds
  BY MergedAgentsTyped DEF Rows
<1>6. members \in [AgentIds -> MemberRow \cup {NoRow}]
  BY MergedMembersTyped
<1>7. deps \in [DepIds -> DepRow \cup {NoRow}]
  BY MergedDepsTyped
<1>8. kept \in SUBSET TaskIds
  BY <1>3 DEF Rows, TaskTable
<1>9. events \in [TaskIds -> EventRow \cup {NoRow}]
  BY <1>2, <1>5, <1>8, MergedEventsTyped
<1>10. /\ owned \in TaskTable /\ Rows(owned) = kept
       /\ \A k \in kept : owned[k].number = numbered[k].number
  <2> HIDE DEF numbered, alias, alive, kept
  <2> QED BY <1>2, <1>4, <1>5, OwnedFacts
<1>11. /\ above \in Nat /\ above # 0
       /\ \A k \in kept : numbered[k].number < above
  <2> HIDE DEF numbered, next, kept
  <2>1. HighWater(numbered) \in Nat /\ \A k \in kept : numbered[k].number <= HighWater(numbered)
    BY <1>4, HighWaterFacts
  <2>2. above \in Nat /\ HighWater(numbered) + 1 <= above
    BY <1>3, <2>1, MaxOfTwo DEF CounterAbove
  <2>3. \A k \in kept : numbered[k].number \in Nat
    BY <1>4 DEF TaskTable, TaskRow, Rows
  <2> QED BY <2>1, <2>2, <2>3
<1>12. gone \in [task: SUBSET TaskIds, member: SUBSET AgentIds, dep: SUBSET DepIds]
  BY StoreFacts DEF MergedGone
<1>13. /\ gone.task = (b.gone.task \cup o.gone.task \cup t.gone.task) \ kept
       /\ gone.dep = (b.gone.dep \cup o.gone.dep \cup t.gone.dep) \ Rows(deps)
  BY DEF MergedGone
<1> HIDE DEF alias, tasks, kept, next, numbered, agents, alive, members, deps, owned, events,
             gone, above
<1>14. Candidate(b, o, t) \in Stores
  BY <1>1, <1>5, <1>6, <1>7, <1>9, <1>10, <1>11, <1>12 DEF Stores, Tables, TaskTable
<1>15. NumbersSound(Candidate(b, o, t))
  BY <1>1, <1>4, <1>10, <1>11 DEF NumbersSound, NumbersDistinct
<1> QED BY <1>1, <1>13, <1>14, <1>15 DEF kept, deps, tasks

\* What ours has deleted is no row of a clean merge.
LEMMA DeletedStaysDeleted ==
    ASSUME NEW b \in Stores, NEW o \in Stores, NEW t \in Stores, Clean(b, o, t)
    PROVE  /\ o.gone.task \subseteq Candidate(b, o, t).gone.task
           /\ o.gone.dep \subseteq Candidate(b, o, t).gone.dep
<1>1. ASSUME NEW k \in o.gone.task PROVE MergedTasks(b, o, t)[k] = NoRow
  <2>1. k \in TaskIds
    BY StoreFacts
  <2>2. ~DeleteClash(b.row.task[k], o.row.task[k], t.row.task[k], k \in o.gone.task, k \in t.gone.task)
    BY <2>1, CleanKeys DEF TaskClash
  <2> QED BY <2>1, <2>2, MergeKeyDeletes DEF MergedTasks, MergeTask
<1>2. ASSUME NEW d \in o.gone.dep PROVE MergedDeps(b, o, t)[d] = NoRow
  <2>1. d \in DepIds
    BY StoreFacts
  <2>2. ~DeleteClash(b.row.dep[d], o.row.dep[d], t.row.dep[d], d \in o.gone.dep, d \in t.gone.dep)
    BY <2>1, CleanKeys
  <2>3. DepsBeforeElection(b, o, t)[d] = NoRow
    BY <2>1, <2>2, MergeKeyDeletes DEF DepsBeforeElection, MergeDep
  <2> QED BY <2>1, <2>3 DEF MergedDeps, Rows
<1> QED BY <1>1, <1>2, CandidateFields DEF Rows

\* r is not older than q, or is settled and q is not.
NotOlder(r, q) == r.upd >= q.upd \/ (Terminal(r) /\ ~Terminal(q))

\* Of a clean merge of one key nothing is lost that a side changed.
LEMMA MergeTaskNewest ==
    ASSUME NEW b, NEW o \in TaskRow \cup {NoRow}, NEW t \in TaskRow \cup {NoRow},
           NEW od, NEW td, ~TaskClash(b, o, t, od, td), NEW r \in {o, t}, Edited(r, b),
           MergeTask(b, o, t, od, td) # NoRow
    PROVE  NotOlder(MergeTask(b, o, t, od, td), r)
<1> DEFINE m == MergeTask(b, o, t, od, td)
<1>1. ~od /\ ~td
  BY DEF MergeTask, MergeKey, TaskClash
<1>2. \A q \in TaskRow : q.upd \in Nat
  BY DEF TaskRow, Times
<1>3. \A q \in TaskRow : NotOlder(q, q)
  BY <1>2 DEF NotOlder
<1>4. r \in TaskRow
  BY DEF Edited
<1>5. CASE o = t
  <2>1. m = o
    BY <1>1, <1>5 DEF MergeTask, MergeKey, BothEdited
  <2> QED BY <1>3, <1>4, <1>5, <2>1
<1>6. CASE o # t /\ Edited(o, b) /\ Edited(t, b)
  <2>1. m = ElectTask(o, t) /\ o \in TaskRow /\ t \in TaskRow
    BY <1>1, <1>6 DEF MergeTask, MergeKey, BothEdited, Edited
  <2>2. ~StatusGap(o, t)
    BY <1>1, <1>6 DEF TaskClash, BothEdited
  <2>3. Winner(o, t) \in {o, t} /\ ~Beats(r, Winner(o, t))
    BY <2>1, WinnerFacts
  <2>4. /\ m = [Winner(o, t) EXCEPT !.started = o.started \/ t.started]
    BY <2>1, <2>2 DEF ElectTask
  <2>5. m.upd = Winner(o, t).upd /\ m.status = Winner(o, t).status
    BY <2>1, <2>3, <2>4 DEF TaskRow
  <2>6. NotOlder(Winner(o, t), r)
    BY <1>2, <1>4, <2>1, <2>3 DEF Beats, NotOlder, Terminal
  <2> QED BY <2>5, <2>6 DEF NotOlder, Terminal
<1>7. CASE o # t /\ ~(Edited(o, b) /\ Edited(t, b))
  <2>1. m = r
    BY <1>1, <1>7 DEF MergeTask, MergeKey, BothEdited, Edited
  <2> QED BY <1>3, <1>4, <2>1
<1> QED BY <1>5, <1>6, <1>7

----------------------------------------------------------------------------
(***************************************************************************)
(* Commands                                                                *)
(***************************************************************************)
SoundStore(r) == r \in Stores /\ Consistent(r.row) /\ NumbersSound(r)

KeepsGone(r, c) == r.gone.task \subseteq c.gone.task /\ r.gone.dep \subseteq c.gone.dep

\* What a command leaves: a sound store with the tombstones there were.
Leaves(r, c) == SoundStore(c) /\ KeepsGone(r, c)

LEMMA OneIsATime == 1 \in Times
BY IdAssumption, CloneAssumption DEF Times

\* A row of a store that changes neither its number nor to an owner not there.
LEMMA TaskEdited ==
    ASSUME NEW r, SoundStore(r), NEW k \in Rows(r.row.task), NEW v \in TaskRow,
           v.number = r.row.task[k].number,
           v.owner \in Rows(r.row.agent) \cup {Nobody}
    PROVE  Leaves(r, [r EXCEPT !.row.task[k] = v])
<1> DEFINE c == [r EXCEPT !.row.task[k] = v]
<1>1. r \in Stores /\ k \in TaskIds /\ v # NoRow
  BY StoreFacts, IdAssumption DEF SoundStore, Rows
<1>2. /\ c \in Stores /\ c.gone = r.gone /\ c.next = r.next
      /\ c.row.task = [r.row.task EXCEPT ![k] = v] /\ c.row.agent = r.row.agent
      /\ c.row.member = r.row.member /\ c.row.dep = r.row.dep /\ c.row.event = r.row.event
  BY <1>1 DEF Stores, Tables
<1> HIDE DEF c
<1>3. Rows(c.row.task) = Rows(r.row.task)
  BY <1>1, <1>2, StoreFacts DEF Rows
<1>4. \A i \in Rows(r.row.task) : c.row.task[i].number = r.row.task[i].number
  BY <1>1, <1>2, StoreFacts DEF Rows
<1>5. \A i \in Rows(r.row.task) : c.row.task[i].owner \in {r.row.task[i].owner, v.owner}
  BY <1>1, <1>2, StoreFacts DEF Rows
<1>6. Consistent(c.row)
  BY <1>2, <1>3, <1>5 DEF SoundStore, Consistent
<1>7. NumbersSound(c)
  BY <1>2, <1>3, <1>4 DEF SoundStore, NumbersSound, NumbersDistinct
<1> QED BY <1>2, <1>6, <1>7 DEF Leaves, SoundStore, KeepsGone, c

\* A task with the next number, and the event that tells of it.
LEMMA TaskCreated ==
    ASSUME NEW r, SoundStore(r), NEW k \in TaskIds, NEW a \in Rows(r.row.agent)
    PROVE  Leaves(r, [r EXCEPT !.row.task[k] = NewTask(r.next),
                               !.row.event[k] = [actor |-> a, task |-> k],
                               !.next = @ + 1])
<1> DEFINE v == NewTask(r.next)
           e == [actor |-> a, task |-> k]
           c == [r EXCEPT !.row.task[k] = v, !.row.event[k] = e, !.next = r.next + 1]
<1>1. r \in Stores /\ a \in AgentIds /\ r.next \in Nat
  BY StoreFacts DEF SoundStore, Rows
<1>2. /\ v \in TaskRow /\ v.number = r.next /\ v.owner = Nobody /\ v # NoRow
  <2>1. v \in TaskRow /\ v.number = r.next /\ v.owner = Nobody
    BY <1>1, OneIsATime DEF NewTask, TaskRow, Statuses
  <2> QED BY <2>1, IdAssumption
<1>3. e \in EventRow /\ e.actor = a /\ e.task = k
  BY <1>1 DEF EventRow
<1> HIDE DEF v, e
<1>4. /\ c \in Stores /\ c.gone = r.gone /\ c.next = r.next + 1
      /\ c.row.task = [r.row.task EXCEPT ![k] = v] /\ c.row.agent = r.row.agent
      /\ c.row.member = r.row.member /\ c.row.dep = r.row.dep
      /\ c.row.event = [r.row.event EXCEPT ![k] = e]
  <2>1. r.next + 1 \in Nat
    BY <1>1
  <2>2. c \in Stores
    BY <1>1, <1>2, <1>3, <2>1 DEF Stores, Tables
  <2> QED BY <1>1, <2>2 DEF Stores, Tables
<1> HIDE DEF c
<1>5. Rows(c.row.task) = Rows(r.row.task) \cup {k}
  BY <1>1, <1>2, <1>4, StoreFacts DEF Rows
<1>6. /\ \A i \in Rows(r.row.task) \ {k} : c.row.task[i] = r.row.task[i]
      /\ c.row.task[k] = v
  BY <1>1, <1>4, StoreFacts DEF Rows
<1>7. /\ \A i \in Rows(c.row.event) \ {k} : i \in Rows(r.row.event) /\ c.row.event[i] = r.row.event[i]
      /\ c.row.event[k] = e
  BY <1>1, <1>4, StoreFacts DEF Rows
<1>8. Consistent(c.row)
  BY <1>2, <1>3, <1>4, <1>5, <1>6, <1>7 DEF SoundStore, Consistent
<1>9. NumbersSound(c)
  <2>1. \A i \in Rows(r.row.task) : r.row.task[i].number \in Nat /\ r.row.task[i].number < r.next
    BY <1>1, StoreFacts DEF SoundStore, NumbersSound, Rows, TaskRow
  <2>2. \A i \in Rows(c.row.task) : c.row.task[i].number < r.next + 1
    BY <1>1, <1>2, <1>5, <1>6, <2>1
  <2>3. NumbersDistinct(c.row.task)
    BY <1>1, <1>2, <1>5, <1>6, <2>1 DEF SoundStore, NumbersSound, NumbersDistinct
  <2> QED BY <1>1, <1>4, <2>2, <2>3 DEF NumbersSound
<1>10. c = [r EXCEPT !.row.task[k] = NewTask(r.next), !.row.event[k] = [actor |-> a, task |-> k],
                     !.next = @ + 1]
  BY DEF c, v, e
<1> QED BY <1>4, <1>8, <1>9, <1>10 DEF Leaves, SoundStore, KeepsGone

\* The tables of tasks and their numbers stay, the others stay consistent.
LEMMA TasksAlone ==
    ASSUME NEW r, SoundStore(r), NEW c \in Stores, c.row.task = r.row.task, c.next = r.next,
           Rows(r.row.agent) \subseteq Rows(c.row.agent), c.row.event = r.row.event,
           Rows(c.row.member) \subseteq Rows(c.row.agent),
           \A d \in Rows(c.row.dep) :
               {c.row.dep[d].task, c.row.dep[d].on} \subseteq Rows(c.row.task),
           KeepsGone(r, c)
    PROVE  Leaves(r, c)
<1>1. Consistent(c.row)
  BY DEF SoundStore, Consistent
<1>2. NumbersSound(c)
  BY DEF SoundStore, NumbersSound
<1> QED BY <1>1, <1>2 DEF Leaves, SoundStore

\* What holds of the members and the edges of a sound store.
LEMMA Joined ==
    ASSUME NEW r, SoundStore(r)
    PROVE  /\ Rows(r.row.member) \subseteq Rows(r.row.agent)
           /\ \A d \in Rows(r.row.dep) :
                 {r.row.dep[d].task, r.row.dep[d].on} \subseteq Rows(r.row.task)
BY DEF SoundStore, Consistent

LEMMA AgentWritten ==
    ASSUME NEW r, SoundStore(r), NEW a \in AgentIds, NEW v \in AgentRow
    PROVE  Leaves(r, [r EXCEPT !.row.agent[a] = v])
<1> DEFINE c == [r EXCEPT !.row.agent[a] = v]
<1>1. r \in Stores /\ v # NoRow
  BY IdAssumption DEF SoundStore
<1>2. /\ c \in Stores /\ c.gone = r.gone /\ c.next = r.next
      /\ c.row.task = r.row.task /\ c.row.agent = [r.row.agent EXCEPT ![a] = v]
      /\ c.row.member = r.row.member /\ c.row.dep = r.row.dep /\ c.row.event = r.row.event
  BY <1>1 DEF Stores, Tables
<1> HIDE DEF c
<1>3. Rows(r.row.agent) \subseteq Rows(c.row.agent)
  BY <1>1, <1>2, StoreFacts DEF Rows
<1>4. /\ Rows(r.row.agent) \subseteq Rows(c.row.agent) /\ KeepsGone(r, c)
      /\ Rows(c.row.member) \subseteq Rows(c.row.agent)
  BY <1>2, <1>3, Joined DEF KeepsGone
<1>5. \A i \in Rows(c.row.dep) : {c.row.dep[i].task, c.row.dep[i].on} \subseteq Rows(c.row.task)
  BY <1>2, <1>3, Joined
<1>6. Leaves(r, c)
  BY <1>2, <1>4, <1>5, TasksAlone
<1> QED BY <1>6 DEF c

LEMMA MemberAdded ==
    ASSUME NEW r, SoundStore(r), NEW a \in Rows(r.row.agent), NEW v \in MemberRow
    PROVE  Leaves(r, [r EXCEPT !.row.member[a] = v])
<1> DEFINE c == [r EXCEPT !.row.member[a] = v]
<1>1. r \in Stores /\ v # NoRow /\ a \in AgentIds
  BY StoreFacts, IdAssumption DEF SoundStore, Rows
<1>2. /\ c \in Stores /\ c.gone = r.gone /\ c.next = r.next
      /\ c.row.task = r.row.task /\ c.row.agent = r.row.agent
      /\ c.row.member = [r.row.member EXCEPT ![a] = v] /\ c.row.dep = r.row.dep
      /\ c.row.event = r.row.event
  BY <1>1 DEF Stores, Tables
<1> HIDE DEF c
<1>3. Rows(c.row.member) \subseteq Rows(c.row.agent)
  BY <1>1, <1>2, StoreFacts, Joined DEF Rows
<1>4. /\ Rows(r.row.agent) \subseteq Rows(c.row.agent) /\ KeepsGone(r, c)
      /\ Rows(c.row.member) \subseteq Rows(c.row.agent)
  BY <1>2, <1>3, Joined DEF KeepsGone
<1>5. \A i \in Rows(c.row.dep) : {c.row.dep[i].task, c.row.dep[i].on} \subseteq Rows(c.row.task)
  BY <1>2, <1>3, Joined
<1>6. Leaves(r, c)
  BY <1>2, <1>4, <1>5, TasksAlone
<1> QED BY <1>6 DEF c

LEMMA MemberRemoved ==
    ASSUME NEW r, SoundStore(r), NEW a \in AgentIds
    PROVE  Leaves(r, [r EXCEPT !.row.member[a] = NoRow, !.gone.member = @ \cup {a}])
<1> DEFINE c == [r EXCEPT !.row.member[a] = NoRow, !.gone.member = r.gone.member \cup {a}]
<1>1. r \in Stores
  BY DEF SoundStore
<1>2. /\ c \in Stores /\ c.next = r.next
      /\ c.gone.task = r.gone.task /\ c.gone.dep = r.gone.dep
      /\ c.row.task = r.row.task /\ c.row.agent = r.row.agent
      /\ c.row.member = [r.row.member EXCEPT ![a] = NoRow] /\ c.row.dep = r.row.dep
      /\ c.row.event = r.row.event
  BY <1>1 DEF Stores, Tables
<1> HIDE DEF c
<1>3. Rows(c.row.member) \subseteq Rows(c.row.agent)
  BY <1>1, <1>2, StoreFacts, Joined DEF Rows
<1>4. /\ Rows(r.row.agent) \subseteq Rows(c.row.agent) /\ KeepsGone(r, c)
      /\ Rows(c.row.member) \subseteq Rows(c.row.agent)
  BY <1>2, <1>3, Joined DEF KeepsGone
<1>5. \A i \in Rows(c.row.dep) : {c.row.dep[i].task, c.row.dep[i].on} \subseteq Rows(c.row.task)
  BY <1>2, <1>3, Joined
<1>6. Leaves(r, c)
  BY <1>2, <1>4, <1>5, TasksAlone
<1> QED BY <1>6 DEF c

LEMMA DependencyAdded ==
    ASSUME NEW r, SoundStore(r), NEW d \in DepIds, NEW v \in DepRow,
           {v.task, v.on} \subseteq Rows(r.row.task)
    PROVE  Leaves(r, [r EXCEPT !.row.dep[d] = v])
<1> DEFINE c == [r EXCEPT !.row.dep[d] = v]
<1>1. r \in Stores /\ v # NoRow
  BY IdAssumption DEF SoundStore
<1>2. /\ c \in Stores /\ c.gone = r.gone /\ c.next = r.next
      /\ c.row.task = r.row.task /\ c.row.agent = r.row.agent
      /\ c.row.member = r.row.member /\ c.row.dep = [r.row.dep EXCEPT ![d] = v]
      /\ c.row.event = r.row.event
  BY <1>1 DEF Stores, Tables
<1> HIDE DEF c
<1>3. \A i \in Rows(c.row.dep) : c.row.dep[i] = v \/ (i \in Rows(r.row.dep) /\ c.row.dep[i] = r.row.dep[i])
  BY <1>1, <1>2, StoreFacts DEF Rows
<1>4. /\ Rows(r.row.agent) \subseteq Rows(c.row.agent) /\ KeepsGone(r, c)
      /\ Rows(c.row.member) \subseteq Rows(c.row.agent)
  BY <1>2, <1>3, Joined DEF KeepsGone
<1>5. \A i \in Rows(c.row.dep) : {c.row.dep[i].task, c.row.dep[i].on} \subseteq Rows(c.row.task)
  BY <1>2, <1>3, Joined
<1>6. Leaves(r, c)
  BY <1>2, <1>4, <1>5, TasksAlone
<1> QED BY <1>6 DEF c

LEMMA DependencyRemoved ==
    ASSUME NEW r, SoundStore(r), NEW d \in DepIds
    PROVE  Leaves(r, [r EXCEPT !.row.dep[d] = NoRow, !.gone.dep = @ \cup {d}])
<1> DEFINE c == [r EXCEPT !.row.dep[d] = NoRow, !.gone.dep = r.gone.dep \cup {d}]
<1>1. r \in Stores
  BY DEF SoundStore
<1>2. /\ c \in Stores /\ c.next = r.next
      /\ c.gone.task = r.gone.task /\ c.gone.dep = r.gone.dep \cup {d}
      /\ c.row.task = r.row.task /\ c.row.agent = r.row.agent
      /\ c.row.member = r.row.member /\ c.row.dep = [r.row.dep EXCEPT ![d] = NoRow]
      /\ c.row.event = r.row.event
  BY <1>1 DEF Stores, Tables
<1> HIDE DEF c
<1>3. \A i \in Rows(c.row.dep) : i \in Rows(r.row.dep) /\ c.row.dep[i] = r.row.dep[i]
  BY <1>1, <1>2, StoreFacts DEF Rows
<1>4. /\ Rows(r.row.agent) \subseteq Rows(c.row.agent) /\ KeepsGone(r, c)
      /\ Rows(c.row.member) \subseteq Rows(c.row.agent)
  BY <1>2, <1>3, Joined DEF KeepsGone
<1>5. \A i \in Rows(c.row.dep) : {c.row.dep[i].task, c.row.dep[i].on} \subseteq Rows(c.row.task)
  BY <1>2, <1>3, Joined
<1>6. Leaves(r, c)
  BY <1>2, <1>4, <1>5, TasksAlone
<1> QED BY <1>6 DEF c

\* The cascade leaves no edge and no event that names a task that went.
LEMMA TasksPruned ==
    ASSUME NEW r, SoundStore(r), NEW ks \in SUBSET TaskIds
    PROVE  Leaves(r, WithoutTasks(r, ks))
<1> DEFINE ds == {d \in Rows(r.row.dep) : {r.row.dep[d].task, r.row.dep[d].on} \cap ks # {}}
           tasks == [k \in TaskIds |-> IF k \in ks THEN NoRow ELSE r.row.task[k]]
           deps == [d \in DepIds |-> IF d \in ds THEN NoRow ELSE r.row.dep[d]]
           event(e) == IF r.row.event[e] # NoRow /\ r.row.event[e].task \in ks
                       THEN [r.row.event[e] EXCEPT !.task = Nobody] ELSE r.row.event[e]
           events == [e \in TaskIds |-> event(e)]
           c == [r EXCEPT !.row.task = tasks, !.row.dep = deps, !.row.event = events,
                          !.gone.task = r.gone.task \cup ks, !.gone.dep = r.gone.dep \cup ds]
<1>1. r \in Stores
  BY DEF SoundStore
<1>2. tasks \in TaskTable /\ ds \subseteq DepIds /\ deps \in [DepIds -> DepRow \cup {NoRow}]
  BY <1>1, StoreFacts DEF TaskTable, Rows
<1>3. ASSUME NEW e \in TaskIds
      PROVE  /\ event(e) \in EventRow \cup {NoRow}
             /\ event(e) # NoRow =>
                   /\ r.row.event[e] # NoRow /\ event(e).actor = r.row.event[e].actor
                   /\ event(e).task \in ({r.row.event[e].task} \ ks) \cup {Nobody}
  <2>1. r.row.event[e] \in EventRow \cup {NoRow}
    BY <1>1, StoreFacts
  <2> QED BY <2>1 DEF EventRow
<1> HIDE DEF event, ds
<1>4. events \in [TaskIds -> EventRow \cup {NoRow}]
  BY <1>3
<1> HIDE DEF tasks, deps, events
<1>5. /\ c \in Stores /\ c.next = r.next
      /\ c.gone.task = r.gone.task \cup ks /\ c.gone.dep = r.gone.dep \cup ds
      /\ c.row.task = tasks /\ c.row.agent = r.row.agent
      /\ c.row.member = r.row.member /\ c.row.dep = deps /\ c.row.event = events
  BY <1>1, <1>2, <1>4 DEF Stores, Tables, TaskTable
<1>6. c = WithoutTasks(r, ks)
  BY DEF WithoutTasks, c, tasks, deps, events, event, ds
<1> HIDE DEF c
<1>7. /\ Rows(tasks) = Rows(r.row.task) \ ks
      /\ \A k \in Rows(tasks) : tasks[k] = r.row.task[k]
  BY <1>1, StoreFacts DEF tasks, Rows
<1>8. \A d \in Rows(deps) : /\ d \in Rows(r.row.dep) /\ deps[d] = r.row.dep[d]
                             /\ {deps[d].task, deps[d].on} \subseteq Rows(tasks)
  <2>1. \A d \in Rows(deps) : d \in Rows(r.row.dep) /\ deps[d] = r.row.dep[d] /\ d \notin ds
    BY <1>1, StoreFacts DEF deps, Rows
  <2> QED BY <1>7, <2>1, Joined DEF ds
<1>9. \A e \in Rows(events) :
         /\ e \in Rows(r.row.event) /\ events[e].actor = r.row.event[e].actor
         /\ events[e].task \in ({r.row.event[e].task} \ ks) \cup {Nobody}
  BY <1>1, <1>3, StoreFacts DEF events, Rows
<1>10. Consistent(c.row)
  BY <1>5, <1>7, <1>8, <1>9 DEF SoundStore, Consistent
<1>11. NumbersSound(c)
  BY <1>5, <1>7 DEF SoundStore, NumbersSound, NumbersDistinct
<1> QED BY <1>5, <1>6, <1>10, <1>11 DEF Leaves, SoundStore, KeepsGone

----------------------------------------------------------------------------
(***************************************************************************)
(* The invariant: every database and every snapshot is a sound store.      *)
(***************************************************************************)
Snap == [store: Stores, parents: SUBSET Nat]

SnapsSound(list) ==
    /\ list \in Seq(Snap)
    /\ \A x \in DOMAIN list : SoundStore(list[x].store) /\ list[x].parents \subseteq 1..(x - 1)

StoresSound ==
    /\ store \in [Clones -> Stores \cup {NoStore}]
    /\ \A s \in Clones : store[s] # NoStore => SoundStore(store[s])

CountersTyped == drawn \in [task: Nat, agent: Nat, dep: Nat] /\ edits \in 0..MaxEdits

RefsTyped == tip \in [Clones -> 0..Len(snaps)] /\ last \in [Clones -> 0..Len(snaps)]

CloneInv == StoresSound /\ SnapsSound(snaps) /\ RefsTyped /\ CountersTyped

\* A step that changes at most one database, leaving it sound.
StoreStep(s) ==
    \/ UNCHANGED store
    \/ \E c : /\ SoundStore(c) /\ store' = [store EXCEPT ![s] = c]
              /\ store[s] # NoStore => KeepsGone(store[s], c)

GoneKept ==
    \A s \in Clones : store[s] # NoStore =>
        /\ store[s].gone.task \subseteq store'[s].gone.task
        /\ store[s].gone.dep \subseteq store'[s].gone.dep

LEMMA StoreStepSound ==
    ASSUME StoresSound, NEW s \in Clones, StoreStep(s)
    PROVE  StoresSound' /\ GoneKept
<1>1. CASE UNCHANGED store
  BY <1>1 DEF StoresSound, GoneKept
<1>2. ASSUME NEW c, SoundStore(c), store' = [store EXCEPT ![s] = c],
             store[s] # NoStore => KeepsGone(store[s], c)
      PROVE  StoresSound' /\ GoneKept
  <2>1. c \in Stores /\ c # NoStore
    BY <1>2, CloneAssumption DEF SoundStore
  <2>2. store'[s] = c /\ \A u \in Clones \ {s} : store'[u] = store[u]
    BY <1>2 DEF StoresSound
  <2>3. store' \in [Clones -> Stores \cup {NoStore}]
    BY <1>2, <2>1 DEF StoresSound
  <2>4. \A u \in Clones : store'[u] # NoStore => SoundStore(store'[u])
    BY <1>2, <2>2 DEF StoresSound
  <2>5. GoneKept
    BY <1>2, <2>2 DEF GoneKept, KeepsGone
  <2> QED BY <2>3, <2>4, <2>5 DEF StoresSound
<1> QED BY <1>1, <1>2 DEF StoreStep

\* What a command of a clone commits.
LEMMA CommitStep ==
    ASSUME CloneInv, NEW s \in Clones, edits < MaxEdits, NEW c, NEW ids,
           store[s] # NoStore, Leaves(store[s], c), Commit(s, c, ids)
    PROVE  CloneInv' /\ StoreStep(s)
<1>1. StoreStep(s)
  BY DEF Commit, Leaves, StoreStep
<1>2. StoresSound'
  BY <1>1, StoreStepSound DEF CloneInv
<1>3. drawn' \in [task: Nat, agent: Nat, dep: Nat]
  <2>1. /\ DOMAIN drawn = {"task", "agent", "dep"}
        /\ drawn["task"] \in Nat /\ drawn["agent"] \in Nat /\ drawn["dep"] \in Nat
    BY DEF CloneInv, CountersTyped
  <2>2. drawn' = [i \in {"task", "agent", "dep"} |-> IF i \in ids THEN drawn[i] + 1 ELSE drawn[i]]
    BY <2>1 DEF Commit
  <2>3. drawn' \in [{"task", "agent", "dep"} -> Nat]
    BY <2>1, <2>2
  <2> QED BY <2>3
<1>4. edits' \in 0..MaxEdits
  BY CloneAssumption DEF CloneInv, CountersTyped, Commit
<1>5. UNCHANGED <<snaps, tip, last>>
  BY DEF Commit
<1> QED BY <1>1, <1>2, <1>3, <1>4, <1>5 DEF CloneInv, CountersTyped, RefsTyped

LEMMA TouchStep ==
    ASSUME CloneInv, NEW s \in Clones, edits < MaxEdits, store[s] # NoStore,
           NEW k \in Rows(store[s].row.task), NEW v \in TaskRow,
           v.number = store[s].row.task[k].number,
           v.owner \in Rows(store[s].row.agent) \cup {Nobody}, Touch(s, k, v)
    PROVE  CloneInv' /\ StoreStep(s)
<1>1. PICK now \in Times :
          Commit(s, [store[s] EXCEPT !.row.task[k] = [v EXCEPT !.upd = now]], {})
  BY DEF Touch
<1> DEFINE w == [v EXCEPT !.upd = now]
<1>2. w \in TaskRow /\ w.number = v.number /\ w.owner = v.owner
  BY DEF TaskRow
<1>3. SoundStore(store[s])
  BY DEF CloneInv, StoresSound
<1>4. Commit(s, [store[s] EXCEPT !.row.task[k] = w], {})
  BY <1>1
<1> HIDE DEF w
<1>5. Leaves(store[s], [store[s] EXCEPT !.row.task[k] = w])
  BY <1>2, <1>3, TaskEdited
<1> QED BY <1>4, <1>5, CommitStep

LEMMA WorkStep ==
    ASSUME CloneInv, NEW s \in Clones, edits < MaxEdits, store[s] # NoStore, Work(s)
    PROVE  CloneInv' /\ StoreStep(s)
<1> DEFINE r == store[s]
<1>1. SoundStore(r) /\ r \in Stores
  BY DEF CloneInv, StoresSound, SoundStore
<1>2. \A k \in Rows(r.row.task) :
         /\ r.row.task[k] \in TaskRow /\ r.row.task[k].owner \in Rows(r.row.agent) \cup {Nobody}
  BY <1>1, StoreFacts DEF SoundStore, Consistent, Rows
<1>3. \A a \in Rows(r.row.agent) : a \in AgentIds /\ r.row.agent[a] \in AgentRow
  BY <1>1, StoreFacts DEF Rows
<1>4. ASSUME NEW k \in TaskIds, NEW a \in AgentIds, CreateTask(s, k, a)
      PROVE  CloneInv' /\ StoreStep(s)
  <2>1. a \in Rows(r.row.agent)
    BY <1>4 DEF CreateTask
  <2>2. Leaves(r, [r EXCEPT !.row.task[k] = NewTask(r.next),
                            !.row.event[k] = [actor |-> a, task |-> k], !.next = @ + 1])
    BY <1>1, <2>1, TaskCreated
  <2>3. Commit(s, [r EXCEPT !.row.task[k] = NewTask(r.next),
                            !.row.event[k] = [actor |-> a, task |-> k], !.next = @ + 1], {"task"})
    BY <1>4 DEF CreateTask
  <2> QED BY <2>2, <2>3, CommitStep
<1>5. ASSUME NEW k \in TaskIds, NEW a \in AgentIds, EditTask(s, k, a)
      PROVE  CloneInv' /\ StoreStep(s)
  <2> DEFINE v == [r.row.task[k] EXCEPT !.started = TRUE, !.owner = a]
  <2>1. k \in Rows(r.row.task) /\ a \in Rows(r.row.agent) /\ Touch(s, k, v)
    BY <1>5 DEF EditTask
  <2>2. v \in TaskRow /\ v.number = r.row.task[k].number /\ v.owner = a
    BY <1>2, <2>1 DEF TaskRow
  <2> HIDE DEF v
  <2> QED BY <2>1, <2>2, TouchStep
<1>6. ASSUME NEW k \in TaskIds, NEW st \in Statuses, SetStatus(s, k, st)
      PROVE  CloneInv' /\ StoreStep(s)
  <2> DEFINE v == [r.row.task[k] EXCEPT !.status = st]
  <2>1. k \in Rows(r.row.task) /\ Touch(s, k, v)
    BY <1>6 DEF SetStatus
  <2>2. /\ v \in TaskRow /\ v.number = r.row.task[k].number
        /\ v.owner \in Rows(r.row.agent) \cup {Nobody}
    BY <1>2, <2>1 DEF TaskRow
  <2> HIDE DEF v
  <2> QED BY <2>1, <2>2, TouchStep
<1>7. ASSUME NEW a \in AgentIds, NEW n \in Names, RegisterAgent(s, a, n)
      PROVE  CloneInv' /\ StoreStep(s)
  <2> DEFINE v == [name |-> n, active |-> TRUE, upd |-> 1]
  <2>1. Commit(s, [r EXCEPT !.row.agent[a] = v], {"agent"})
    BY <1>7 DEF RegisterAgent
  <2>2. v \in AgentRow
    BY OneIsATime DEF AgentRow
  <2> HIDE DEF v
  <2>3. Leaves(r, [r EXCEPT !.row.agent[a] = v])
    BY <1>1, <2>2, AgentWritten
  <2> QED BY <2>1, <2>3, CommitStep
<1>8. ASSUME NEW a \in AgentIds, DeactivateAgent(s, a)
      PROVE  CloneInv' /\ StoreStep(s)
  <2>1. a \in Rows(r.row.agent)
    BY <1>8 DEF DeactivateAgent
  <2>2. PICK now \in Times :
            Commit(s, [r EXCEPT !.row.agent[a] = [@ EXCEPT !.active = FALSE, !.upd = now]], {})
    BY <1>8 DEF DeactivateAgent
  <2> DEFINE v == [r.row.agent[a] EXCEPT !.active = FALSE, !.upd = now]
  <2>3. v \in AgentRow
    BY <1>3, <2>1 DEF AgentRow
  <2>4. Commit(s, [r EXCEPT !.row.agent[a] = v], {})
    BY <2>2
  <2> HIDE DEF v
  <2>5. Leaves(r, [r EXCEPT !.row.agent[a] = v])
    BY <1>1, <2>3, AgentWritten
  <2> QED BY <2>4, <2>5, CommitStep
<1>9. ASSUME NEW a \in AgentIds, AddMember(s, a)
      PROVE  CloneInv' /\ StoreStep(s)
  <2>1. a \in Rows(r.row.agent)
    BY <1>9 DEF AddMember
  <2>2. PICK now \in Times : Commit(s, [r EXCEPT !.row.member[a] = [upd |-> now]], {})
    BY <1>9 DEF AddMember
  <2>3. [upd |-> now] \in MemberRow
    BY DEF MemberRow
  <2>4. Leaves(r, [r EXCEPT !.row.member[a] = [upd |-> now]])
    BY <1>1, <2>1, <2>3, MemberAdded
  <2> QED BY <2>2, <2>4, CommitStep
<1>10. ASSUME NEW a \in AgentIds, RemoveMember(s, a)
       PROVE  CloneInv' /\ StoreStep(s)
  <2>1. Commit(s, [r EXCEPT !.row.member[a] = NoRow, !.gone.member = @ \cup {a}], {})
    BY <1>10 DEF RemoveMember
  <2>2. Leaves(r, [r EXCEPT !.row.member[a] = NoRow, !.gone.member = @ \cup {a}])
    BY <1>1, MemberRemoved
  <2> QED BY <2>1, <2>2, CommitStep
<1>11. ASSUME NEW d \in DepIds, NEW k \in TaskIds, NEW p \in TaskIds,
              NEW kind \in {"strong", "informational"}, AddDependency(s, d, k, p, kind)
       PROVE  CloneInv' /\ StoreStep(s)
  <2>1. {k, p} \subseteq Rows(r.row.task)
    BY <1>11 DEF AddDependency
  <2>2. PICK now \in Times :
            Commit(s, [r EXCEPT !.row.dep[d] = [task |-> k, on |-> p, kind |-> kind, at |-> now]],
                   {"dep"})
    BY <1>11 DEF AddDependency
  <2> DEFINE v == [task |-> k, on |-> p, kind |-> kind, at |-> now]
  <2>3. v \in DepRow /\ v.task = k /\ v.on = p
    BY DEF DepRow
  <2>4. Commit(s, [r EXCEPT !.row.dep[d] = v], {"dep"})
    BY <2>2
  <2> HIDE DEF v
  <2>5. Leaves(r, [r EXCEPT !.row.dep[d] = v])
    BY <1>1, <2>1, <2>3, DependencyAdded
  <2> QED BY <2>4, <2>5, CommitStep
<1>12. ASSUME NEW d \in DepIds, RemoveDependency(s, d)
       PROVE  CloneInv' /\ StoreStep(s)
  <2>1. Commit(s, [r EXCEPT !.row.dep[d] = NoRow, !.gone.dep = @ \cup {d}], {})
    BY <1>12 DEF RemoveDependency
  <2>2. Leaves(r, [r EXCEPT !.row.dep[d] = NoRow, !.gone.dep = @ \cup {d}])
    BY <1>1, DependencyRemoved
  <2> QED BY <2>1, <2>2, CommitStep
<1>13. ASSUME NEW h \in Times, Prune(s, h)
       PROVE  CloneInv' /\ StoreStep(s)
  <2>1. \E ks \in SUBSET TaskIds : Commit(s, WithoutTasks(r, ks), {})
    <3>1. Rows(r.row.task) \subseteq TaskIds
      BY <1>1, StoreFacts DEF Rows
    <3> QED BY <1>13, <3>1 DEF Prune
  <2>2. PICK ks \in SUBSET TaskIds : Commit(s, WithoutTasks(r, ks), {})
    BY <2>1
  <2>3. Leaves(r, WithoutTasks(r, ks))
    BY <1>1, TasksPruned
  <2> QED BY <2>2, <2>3, CommitStep
<1> HIDE DEF r
<1> QED BY <1>4, <1>5, <1>6, <1>7, <1>8, <1>9, <1>10, <1>11, <1>12, <1>13 DEF Work

----------------------------------------------------------------------------
(***************************************************************************)
(* Snapshots and merges                                                    *)
(***************************************************************************)
LEMMA EmptyTyped == Empty \in Stores
<1>1. /\ [k \in TaskIds |-> NoRow] \in [TaskIds -> TaskRow \cup {NoRow}]
      /\ [a \in AgentIds |-> NoRow] \in [AgentIds -> AgentRow \cup {NoRow}]
      /\ [a \in AgentIds |-> NoRow] \in [AgentIds -> MemberRow \cup {NoRow}]
      /\ [d \in DepIds |-> NoRow] \in [DepIds -> DepRow \cup {NoRow}]
      /\ [k \in TaskIds |-> NoRow] \in [TaskIds -> EventRow \cup {NoRow}]
  OBVIOUS
<1> QED BY <1>1 DEF Empty, Stores, Tables

LEMMA SnapFacts ==
    ASSUME SnapsSound(snaps)
    PROVE  /\ Len(snaps) \in Nat /\ Snapshots = 1..Len(snaps)
           /\ \A x \in Snapshots : snaps[x].store \in Stores /\ SoundStore(snaps[x].store)
<1>1. snaps \in Seq(Snap)
  BY DEF SnapsSound
<1>2. Len(snaps) \in Nat /\ DOMAIN snaps = 1..Len(snaps)
  BY <1>1, LenProperties
<1>3. \A x \in Snapshots : SoundStore(snaps[x].store)
  BY DEF SnapsSound, Snapshots
<1> QED BY <1>2, <1>3 DEF Snapshots, SoundStore

LEMMA PublishSound ==
    ASSUME SnapsSound(snaps), RefsTyped, NEW s \in Clones, NEW content, SoundStore(content),
           NEW parents \in SUBSET (1..Len(snaps)), NEW how, Publish(s, content, parents, how)
    PROVE  SnapsSound(snaps)' /\ RefsTyped'
<1> DEFINE new == [store |-> content, parents |-> IF how = "directory" THEN {} ELSE parents]
           x == Len(snaps) + 1
<1>1. snaps \in Seq(Snap) /\ Len(snaps) \in Nat /\ DOMAIN snaps = 1..Len(snaps)
  BY SnapFacts DEF SnapsSound, Snapshots
<1>2. /\ new \in Snap /\ new.store = content /\ new.parents \subseteq 1..Len(snaps)
  <2>1. 1..Len(snaps) \subseteq Nat
    BY <1>1
  <2> QED BY <2>1 DEF Snap, SoundStore
<1>3. snaps' = Append(snaps, new)
  BY DEF Publish
<1> HIDE DEF new
<1>4. /\ snaps' \in Seq(Snap) /\ Len(snaps') = x /\ DOMAIN snaps' = 1..x
      /\ \A i \in 1..Len(snaps) : snaps'[i] = snaps[i]
      /\ snaps'[x] = new
  <2>1. /\ Append(snaps, new) \in Seq(Snap)
        /\ Len(Append(snaps, new)) = Len(snaps) + 1
        /\ \A i \in 1..Len(snaps) : Append(snaps, new)[i] = snaps[i]
        /\ Append(snaps, new)[Len(snaps) + 1] = new
    BY <1>1, <1>2, AppendProperties
  <2> QED BY <1>3, <2>1, LenProperties
<1>5. SnapsSound(snaps)'
  <2> SUFFICES ASSUME NEW i \in 1..x
               PROVE  SoundStore(snaps'[i].store) /\ snaps'[i].parents \subseteq 1..(i - 1)
    BY <1>4 DEF SnapsSound
  <2>1. CASE i = x
    BY <1>1, <1>2, <1>4, <2>1
  <2>2. CASE i # x
    <3>1. i \in 1..Len(snaps)
      BY <1>1, <2>2
    <3> QED BY <1>1, <1>4, <3>1 DEF SnapsSound
  <2> QED BY <2>1, <2>2
<1>6. 0..Len(snaps) \subseteq 0..x /\ x \in 0..x
  BY <1>1
<1>7. tip' \in [Clones -> 0..x] /\ last' \in [Clones -> 0..x]
  BY <1>6 DEF Publish, RefsTyped
<1> QED BY <1>4, <1>5, <1>7 DEF RefsTyped

\* The base of a merge is a snapshot, or there is none.
LEMMA BaseIn ==
    ASSUME NEW s, NEW x, NEW read \in SUBSET Snapshots
    PROVE  Base(s, x, read) \in {0} \cup Snapshots
BY DEF Base

LEMMA MergeIntoStep ==
    ASSUME CloneInv, NEW s \in Clones, NEW x \in Snapshots, NEW b \in {0} \cup Snapshots,
           MergeInto(s, x, b)
    PROVE  StoreStep(s) /\ SoundStore(store'[s]) /\ UNCHANGED <<drawn, edits>>
<1> DEFINE base == BaseStore(b)
           c == Candidate(base, store[s], snaps[x].store)
<1>1. SnapsSound(snaps) /\ StoresSound
  BY DEF CloneInv
<1>2. base \in Stores
  <2>1. CASE b = 0
    BY <2>1, EmptyTyped DEF BaseStore
  <2>2. CASE b # 0
    BY <1>1, <2>2, SnapFacts DEF BaseStore
  <2> QED BY <2>1, <2>2
<1>3. store[s] # NoStore /\ store[s] \in Stores /\ snaps[x].store \in Stores
  BY <1>1, SnapFacts DEF MergeInto, StoresSound
<1>4. /\ Clean(base, store[s], snaps[x].store) /\ Consistent(c.row)
      /\ store' = [store EXCEPT ![s] = c] /\ UNCHANGED <<drawn, edits>>
  BY DEF MergeInto
<1> HIDE DEF base
<1>5. SoundStore(c)
  BY <1>2, <1>3, <1>4, CandidateFields DEF SoundStore
<1>6. KeepsGone(store[s], c)
  BY <1>2, <1>3, <1>4, DeletedStaysDeleted DEF KeepsGone
<1> HIDE DEF c
<1>7. store'[s] = c
  BY <1>1, <1>4 DEF StoresSound
<1> QED BY <1>4, <1>5, <1>6, <1>7 DEF StoreStep

\* The commits of a ref are snapshots.
LEMMA HistoryIn == \A x : History(x) \in SUBSET Snapshots
BY DEF History

LEMMA ShareStep ==
    ASSUME CloneInv, NEW s \in Clones, Share(s)
    PROVE  CloneInv' /\ StoreStep(s)
<1>1. SnapsSound(snaps) /\ RefsTyped /\ StoresSound /\ CountersTyped
  BY DEF CloneInv
<1>2. Len(snaps) \in Nat /\ Snapshots = 1..Len(snaps)
  BY <1>1, SnapFacts
<1>3. \A u \in Clones : tip[u] # 0 => tip[u] \in Snapshots
  BY <1>1, <1>2 DEF RefsTyped
<1>4. ASSUME NEW how \in Outcomes, Export(s, how)
      PROVE  CloneInv' /\ StoreStep(s)
  <2>1. SoundStore(store[s]) /\ UNCHANGED <<store, drawn, edits>>
           /\ Publish(s, store[s], {tip[s]} \ {0}, how)
    BY <1>1, <1>4 DEF Export, StoresSound
  <2>2. {tip[s]} \ {0} \in SUBSET (1..Len(snaps))
    BY <1>2, <1>3
  <2>3. SnapsSound(snaps)' /\ RefsTyped'
    BY <1>1, <2>1, <2>2, PublishSound
  <2> QED BY <1>1, <2>1, <2>3 DEF CloneInv, StoresSound, CountersTyped, StoreStep
<1>5. ASSUME NEW u \in Clones, Fetch(s, u)
      PROVE  CloneInv' /\ StoreStep(s)
  <2>1. tip' \in [Clones -> 0..Len(snaps)]
    BY <1>1, <1>5 DEF Fetch, RefsTyped
  <2> QED BY <1>1, <1>5, <2>1 DEF Fetch, CloneInv, StoresSound, SnapsSound, RefsTyped,
                                CountersTyped, StoreStep
<1>6. ASSUME NEW x \in Snapshots, FreshImport(s, x)
      PROVE  CloneInv' /\ StoreStep(s)
  <2>1. StoreStep(s)
    BY <1>1, <1>6, SnapFacts DEF FreshImport, StoreStep
  <2>2. StoresSound'
    BY <1>1, <2>1, StoreStepSound
  <2> QED BY <1>1, <1>6, <2>1, <2>2 DEF FreshImport, CloneInv, SnapsSound, RefsTyped, CountersTyped
<1>7. ASSUME NEW x \in Snapshots, Merge(s, x)
      PROVE  CloneInv' /\ StoreStep(s)
  <2>1. /\ Base(s, x, {}) \in {0} \cup Snapshots
        /\ Base(s, x, History(x)) \in {0} \cup Snapshots
    BY HistoryIn, BaseIn
  <2>2. UNCHANGED <<snaps, tip, last>> /\ \E b \in {0} \cup Snapshots : MergeInto(s, x, b)
    BY <1>7, <2>1 DEF Merge
  <2>3. StoreStep(s) /\ UNCHANGED <<drawn, edits>>
    BY <2>2, MergeIntoStep
  <2>4. StoresSound'
    BY <1>1, <2>3, StoreStepSound
  <2> QED BY <1>1, <2>2, <2>3, <2>4 DEF CloneInv, SnapsSound, RefsTyped, CountersTyped
<1>8. ASSUME NEW u \in Clones, MergeAndCommit(s, u)
      PROVE  CloneInv' /\ StoreStep(s)
  <2> DEFINE b == Base(s, tip[u], History(tip[u]) \cup History(tip[s]))
  <2>1. tip[u] \in Snapshots /\ tip[s] \in Snapshots /\ MergeInto(s, tip[u], b)
    BY <1>3, <1>8 DEF MergeAndCommit
  <2>2. b \in {0} \cup Snapshots
    <3>1. History(tip[u]) \cup History(tip[s]) \in SUBSET Snapshots
      BY HistoryIn
    <3> QED BY <3>1, BaseIn
  <2> HIDE DEF b
  <2>3. StoreStep(s) /\ SoundStore(store'[s]) /\ UNCHANGED <<drawn, edits>>
    BY <2>1, <2>2, MergeIntoStep
  <2>4. StoresSound'
    BY <1>1, <2>3, StoreStepSound
  <2>5. SnapsSound(snaps)' /\ RefsTyped'
    <3>1. CASE UNCHANGED <<snaps, tip, last>>
      BY <1>1, <3>1 DEF SnapsSound, RefsTyped
    <3>2. ASSUME NEW how, Publish(s, store'[s], {tip[s], tip[u]}, how)
          PROVE  SnapsSound(snaps)' /\ RefsTyped'
      <4>1. {tip[s], tip[u]} \in SUBSET (1..Len(snaps))
        BY <1>2, <2>1
      <4> QED BY <1>1, <2>3, <3>2, <4>1, PublishSound
    <3> QED BY <1>8, <3>1, <3>2 DEF MergeAndCommit
  <2> QED BY <1>1, <2>3, <2>4, <2>5 DEF CloneInv, CountersTyped
<1> QED BY <1>4, <1>5, <1>6, <1>7, <1>8 DEF Share

LEMMA CloneStep == CloneInv /\ [Next]_vars => CloneInv' /\ [GoneKept]_vars
<1>1. ASSUME CloneInv, NEW s \in Clones, store[s] # NoStore, edits < MaxEdits, Work(s)
      PROVE  CloneInv' /\ GoneKept
  BY <1>1, WorkStep, StoreStepSound DEF CloneInv
<1>2. ASSUME CloneInv, NEW s \in Clones, Share(s)
      PROVE  CloneInv' /\ GoneKept
  BY <1>2, ShareStep, StoreStepSound DEF CloneInv
<1>3. CloneInv /\ UNCHANGED vars => CloneInv'
  BY DEF vars, CloneInv, StoresSound, SnapsSound, RefsTyped, CountersTyped
<1> QED BY <1>1, <1>2, <1>3 DEF Next

LEMMA GenesisSound == SoundStore(Genesis)
<1>1. /\ {1, 2} \subseteq TaskIds /\ 1 \in AgentIds /\ 1 \in DepIds /\ 1 \in Times
      /\ TaskIds \subseteq Nat
  BY CloneAssumption, IdAssumption, OneIsATime
<1>2. Min(Names) \in Names
  <2>1. Names \in SUBSET Nat /\ IsFiniteSet(Names) /\ Names # {}
    BY IdAssumption, CloneAssumption
  <2> QED BY <2>1, MinOf
<1> DEFINE agent1 == [name |-> Min(Names), active |-> TRUE, upd |-> 1]
           member1 == [upd |-> 1]
           task1 == NewTask(1)
           task2 == [NewTask(2) EXCEPT !.status = "completed"]
           event1 == [actor |-> 1, task |-> 1]
           event2 == [actor |-> 1, task |-> 2]
           dep1 == [task |-> 1, on |-> 2, kind |-> "strong", at |-> 1]
           tasks == [Empty.row.task EXCEPT ![1] = task1, ![2] = task2]
           agents == [Empty.row.agent EXCEPT ![1] = agent1]
           members == [Empty.row.member EXCEPT ![1] = member1]
           deps == [Empty.row.dep EXCEPT ![1] = dep1]
           events == [Empty.row.event EXCEPT ![1] = event1, ![2] = event2]
<1>3. /\ agent1 \in AgentRow /\ member1 \in MemberRow /\ event1 \in EventRow
      /\ event2 \in EventRow /\ dep1 \in DepRow
  BY <1>1, <1>2 DEF AgentRow, MemberRow, EventRow, DepRow
<1>4. /\ task1 \in TaskRow /\ task2 \in TaskRow /\ task1.number = 1 /\ task2.number = 2
      /\ task1.owner = Nobody /\ task2.owner = Nobody
  BY <1>1 DEF TaskRow, NewTask, Statuses
<1>5. Empty \in Stores
  BY EmptyTyped
<1>6. /\ event1.actor = 1 /\ event1.task = 1 /\ event2.actor = 1 /\ event2.task = 2
      /\ dep1.task = 1 /\ dep1.on = 2
  OBVIOUS
<1>7. /\ task1 # NoRow /\ task2 # NoRow /\ agent1 # NoRow /\ member1 # NoRow
      /\ event1 # NoRow /\ event2 # NoRow /\ dep1 # NoRow
  <2> HIDE DEF task1, task2, agent1, member1, event1, event2, dep1
  <2> QED BY <1>3, <1>4, IdAssumption
<1> HIDE DEF task1, task2, agent1, member1, event1, event2, dep1
<1>8. /\ tasks \in [TaskIds -> TaskRow \cup {NoRow}] /\ agents \in [AgentIds -> AgentRow \cup {NoRow}]
      /\ members \in [AgentIds -> MemberRow \cup {NoRow}] /\ deps \in [DepIds -> DepRow \cup {NoRow}]
      /\ events \in [TaskIds -> EventRow \cup {NoRow}]
  BY <1>1, <1>3, <1>4, <1>5, StoreFacts
<1>9. /\ Rows(tasks) = {1, 2} /\ tasks[1] = task1 /\ tasks[2] = task2
      /\ Rows(agents) = {1} /\ Rows(members) = {1}
      /\ Rows(deps) = {1} /\ deps[1] = dep1
      /\ Rows(events) = {1, 2} /\ events[1] = event1 /\ events[2] = event2
  <2>1. /\ Empty.row.task = [k \in TaskIds |-> NoRow] /\ Empty.row.agent = [a \in AgentIds |-> NoRow]
        /\ Empty.row.member = [a \in AgentIds |-> NoRow] /\ Empty.row.dep = [d \in DepIds |-> NoRow]
        /\ Empty.row.event = [k \in TaskIds |-> NoRow]
    BY DEF Empty
  <2>2. Rows(tasks) = {1, 2} /\ tasks[1] = task1 /\ tasks[2] = task2
    <3> DEFINE none == Empty.row.task
    <3>1. DOMAIN none = TaskIds /\ \A k \in TaskIds : none[k] = NoRow
      BY <2>1
    <3> HIDE DEF none
    <3>2. /\ tasks[1] = task1 /\ tasks[2] = task2 /\ DOMAIN tasks = TaskIds
          /\ \A k \in TaskIds \ {1, 2} : tasks[k] = NoRow
      <4>1. tasks = [none EXCEPT ![1] = task1, ![2] = task2]
        BY DEF none
      <4> HIDE DEF tasks
      <4> QED BY <1>1, <3>1, <4>1
    <3> HIDE DEF tasks
    <3>3. \A k \in TaskIds : tasks[k] # NoRow <=> k \in {1, 2}
      BY <1>7, <3>2
    <3> QED BY <1>1, <3>2, <3>3 DEF Rows
  <2>3. Rows(agents) = {1} /\ Rows(members) = {1}
    BY <1>1, <1>7, <2>1 DEF Rows
  <2>4. Rows(deps) = {1} /\ deps[1] = dep1
    BY <1>1, <1>7, <2>1 DEF Rows
  <2>5. Rows(events) = {1, 2} /\ events[1] = event1 /\ events[2] = event2
    <3> DEFINE none == Empty.row.event
    <3>1. DOMAIN none = TaskIds /\ \A k \in TaskIds : none[k] = NoRow
      BY <2>1
    <3> HIDE DEF none
    <3>2. /\ events[1] = event1 /\ events[2] = event2 /\ DOMAIN events = TaskIds
          /\ \A k \in TaskIds \ {1, 2} : events[k] = NoRow
      <4>1. events = [none EXCEPT ![1] = event1, ![2] = event2]
        BY DEF none
      <4> HIDE DEF events
      <4> QED BY <1>1, <3>1, <4>1
    <3> HIDE DEF events
    <3>3. \A k \in TaskIds : events[k] # NoRow <=> k \in {1, 2}
      BY <1>7, <3>2
    <3> QED BY <1>1, <3>2, <3>3 DEF Rows
  <2> QED BY <2>2, <2>3, <2>4, <2>5
<1> HIDE DEF tasks, agents, members, deps, events
<1>10. /\ Genesis \in Stores /\ Genesis.next = 3
       /\ Genesis.row.task = tasks /\ Genesis.row.agent = agents /\ Genesis.row.member = members
       /\ Genesis.row.dep = deps /\ Genesis.row.event = events
  <2>1. Genesis = [row |-> [task |-> tasks, agent |-> agents, member |-> members, dep |-> deps,
                            event |-> events],
                   gone |-> Empty.gone, next |-> 3]
    BY DEF Genesis, agent1, member1, task1, task2, event1, event2, dep1, tasks, agents, members,
           deps, events
  <2>2. Empty.gone \in [task: SUBSET TaskIds, member: SUBSET AgentIds, dep: SUBSET DepIds]
    BY DEF Empty
  <2> QED BY <1>8, <2>1, <2>2 DEF Stores, Tables
<1>11. Consistent(Genesis.row)
  BY <1>4, <1>6, <1>9, <1>10 DEF Consistent
<1>12. NumbersSound(Genesis)
  BY <1>4, <1>9, <1>10 DEF NumbersSound, NumbersDistinct
<1> QED BY <1>10, <1>11, <1>12 DEF SoundStore

LEMMA CloneInit == Init => CloneInv
<1> SUFFICES ASSUME Init PROVE CloneInv
  OBVIOUS
<1>1. SoundStore(Genesis) /\ Genesis \in Stores
  BY GenesisSound DEF SoundStore
<1>2. StoresSound
  BY <1>1, CloneAssumption DEF Init, StoresSound
<1> DEFINE first == [store |-> Genesis, parents |-> {}]
<1>3. snaps = <<first>> /\ first \in Snap /\ first.store = Genesis /\ first.parents = {}
  BY <1>1 DEF Init, Snap
<1> HIDE DEF first
<1>4. snaps \in Seq(Snap) /\ Len(snaps) = 1 /\ DOMAIN snaps = {1} /\ snaps[1] = first
  BY <1>3
<1>5. SnapsSound(snaps)
  BY <1>1, <1>3, <1>4 DEF SnapsSound
<1>6. RefsTyped
  BY <1>4 DEF Init, RefsTyped
<1>7. CountersTyped
  BY CloneAssumption DEF Init, CountersTyped
<1> QED BY <1>2, <1>5, <1>6, <1>7 DEF CloneInv

LEMMA CloneInvariant == Spec => []CloneInv
BY CloneInit, CloneStep, PTL DEF Spec

\* Whatever clones publish, fetch, import and merge, every database keeps the
\* shape and the foreign keys of the schema.
THEOREM ReplicasTypeCorrect == Spec => []TypeOK
<1>1. CloneInv => TypeOK
  BY SnapFacts DEF CloneInv, TypeOK, StoresSound, SnapsSound, RefsTyped, CountersTyped, SoundStore,
                   Snapshots
<1> QED BY <1>1, CloneInvariant, PTL

\* Two tasks of one clone never share a display number, and the next number is
\* above them all.
THEOREM NumbersUniqueTheorem == Spec => []NumbersUnique
<1>1. ASSUME NEW r, SoundStore(r)
      PROVE  Renumbered(r.row.task) = {} /\ HighWater(r.row.task) < r.next
  <2>1. r.row.task \in TaskTable /\ r.next \in Nat /\ NumbersSound(r)
    BY <1>1, StoreFacts DEF SoundStore, TaskTable
  <2>2. Renumbered(r.row.task) = {}
    BY <2>1, RenumberedNone DEF NumbersSound
  <2>3. HighWater(r.row.task) < r.next
    BY <2>1, HighWaterFacts DEF NumbersSound
  <2> QED BY <2>2, <2>3
<1>2. CloneInv => NumbersUnique
  BY <1>1 DEF CloneInv, StoresSound, NumbersUnique
<1> QED BY <1>2, CloneInvariant, PTL

\* No merge over any base replaces what a side has changed by an older row,
\* settled tasks excepted.
THEOREM NewestSurvivesTheorem == Spec => []NewestSurvives
<1>1. ASSUME NEW base, NEW o \in Stores, NEW t \in Stores, Clean(base, o, t),
             NEW r \in {o, t}, NEW k \in Rows(MergedTasks(base, o, t)),
             Edited(r.row.task[k], base.row.task[k])
      PROVE  NotOlder(MergedTasks(base, o, t)[k], r.row.task[k])
  <2>1. k \in TaskIds /\ MergedTasks(base, o, t)[k] # NoRow
    BY DEF Rows, MergedTasks
  <2>2. o.row.task[k] \in TaskRow \cup {NoRow} /\ t.row.task[k] \in TaskRow \cup {NoRow}
    BY <2>1, StoreFacts
  <2>3. ~TaskClash(base.row.task[k], o.row.task[k], t.row.task[k], k \in o.gone.task, k \in t.gone.task)
    BY <1>1, <2>1, CleanKeys
  <2>4. MergedTasks(base, o, t)[k] = MergeTask(base.row.task[k], o.row.task[k], t.row.task[k],
                                               k \in o.gone.task, k \in t.gone.task)
    BY <2>1 DEF MergedTasks
  <2>5. r.row.task[k] \in {o.row.task[k], t.row.task[k]}
    BY <1>1
  <2> QED BY <1>1, <2>1, <2>2, <2>3, <2>4, <2>5, MergeTaskNewest
<1>2. CloneInv => NewestSurvives
  <2> SUFFICES ASSUME CloneInv, NEW s \in Clones, NEW x \in Snapshots, store[s] # NoStore,
                      NEW b \in Bases(s, x),
                      Clean(BaseStore(b), store[s], snaps[x].store),
                      NEW r \in {store[s], snaps[x].store},
                      NEW k \in Rows(MergedTasks(BaseStore(b), store[s], snaps[x].store)),
                      Edited(r.row.task[k], BaseStore(b).row.task[k])
               PROVE  NotOlder(MergedTasks(BaseStore(b), store[s], snaps[x].store)[k], r.row.task[k])
    BY DEF NewestSurvives, NotOlder
  <2>1. store[s] \in Stores /\ snaps[x].store \in Stores
    BY SnapFacts DEF CloneInv, StoresSound
  <2> QED BY <1>1, <2>1
<1> QED BY <1>2, CloneInvariant, PTL

\* No step of a clone takes a tombstone of a task or an edge back, merges over
\* whatever base included.
THEOREM DeletesStickTheorem == Spec => DeletesStick
<1>1. CloneInv /\ [Next]_vars => [GoneKept]_vars
  BY CloneStep
<1> QED BY <1>1, CloneInvariant, PTL DEF Spec, DeletesStick, GoneKept

----------------------------------------------------------------------------
(***************************************************************************)
(* Edges                                                                   *)
(***************************************************************************)
DepTable == [DepIds -> DepRow \cup {NoRow}]

\* What the UNIQUE index of the edges holds.
EdgesOnce(deps) ==
    \A d, e \in Rows(deps) : deps[d].task = deps[e].task /\ deps[d].on = deps[e].on => d = e

LEMMA EdgesOnceSame ==
    ASSUME NEW deps
    PROVE  EdgesOnce(deps) <=> \A d \in Rows(deps) : SameEdge(deps, d) = {d}
<1>1. ASSUME EdgesOnce(deps), NEW d \in Rows(deps)
      PROVE  SameEdge(deps, d) = {d}
  BY <1>1 DEF EdgesOnce, SameEdge
<1>2. ASSUME \A d \in Rows(deps) : SameEdge(deps, d) = {d}, NEW d \in Rows(deps), NEW e \in Rows(deps),
             deps[d].task = deps[e].task, deps[d].on = deps[e].on
      PROVE  d = e
  <2>1. e \in SameEdge(deps, d)
    BY <1>2 DEF SameEdge
  <2> QED BY <1>2, <2>1
<1> QED BY <1>1, <1>2 DEF EdgesOnce

FewerEdges(old, new) == \A e \in Rows(new) : e \in Rows(old) /\ new[e] = old[e]

\* Row d, with v, of an edge that had none.
OneEdgeMore(old, new, d, v) ==
    /\ \A e \in Rows(new) : (e = d /\ new[e] = v) \/ (e \in Rows(old) /\ new[e] = old[e])
    /\ \A e \in Rows(old) : ~(old[e].task = v.task /\ old[e].on = v.on)

LEMMA FewerEdgesOnce ==
    ASSUME NEW old, EdgesOnce(old), NEW new, FewerEdges(old, new)
    PROVE  EdgesOnce(new)
BY DEF EdgesOnce, FewerEdges

LEMMA OneMoreOnce ==
    ASSUME NEW old, EdgesOnce(old), NEW new, NEW d, NEW v, OneEdgeMore(old, new, d, v)
    PROVE  EdgesOnce(new)
BY DEF EdgesOnce, OneEdgeMore

\* Of the rows of an edge the merge keeps one.
LEMMA MergedDepsOnce ==
    ASSUME NEW b, NEW o, NEW t
    PROVE  EdgesOnce(MergedDeps(b, o, t))
<1> DEFINE deps == DepsBeforeElection(b, o, t)
           merged == MergedDeps(b, o, t)
<1>1. \A d \in Rows(merged) : d \in Rows(deps) /\ KeepsEdge(deps, d) /\ merged[d] = deps[d]
  BY DEF MergedDeps, Rows
<1> HIDE DEF merged, deps
<1>2. ASSUME NEW d \in Rows(merged), NEW e \in Rows(merged),
             merged[d].task = merged[e].task, merged[d].on = merged[e].on
      PROVE  d = e
  <2>1. deps[d].task = deps[e].task /\ deps[d].on = deps[e].on
    BY <1>1, <1>2
  <2>2. SameEdge(deps, d) = SameEdge(deps, e)
    BY <2>1 DEF SameEdge
  <2>3. KindsOnly(deps, d) <=> KindsOnly(deps, e)
    <3>1. d \in SameEdge(deps, d) /\ e \in SameEdge(deps, e)
      BY <1>1 DEF SameEdge
    <3> QED BY <2>2, <3>1 DEF KindsOnly
  <2> QED BY <1>1, <1>2, <2>2, <2>3 DEF KeepsEdge
<1>3. EdgesOnce(merged)
  BY <1>2 DEF EdgesOnce
<1> QED BY <1>3 DEF merged

\* A row of an edge is the row of a side.
LEMMA DepFromSide ==
    ASSUME NEW b, NEW o, NEW t, NEW d \in Rows(DepsBeforeElection(b, o, t))
    PROVE  /\ d \in DepIds
           /\ DepsBeforeElection(b, o, t)[d] \in {o.row.dep[d], t.row.dep[d]} \ {NoRow}
<1> DEFINE p == o.row.dep[d]
           q == t.row.dep[d]
<1>1. d \in DepIds /\ DepsBeforeElection(b, o, t)[d] # NoRow
        /\ DepsBeforeElection(b, o, t)[d] = MergeDep(b.row.dep[d], p, q, d \in o.gone.dep, d \in t.gone.dep)
  BY DEF DepsBeforeElection, Rows
<1>2. Either({p, q}) \in {p, q}
  BY DEF Either
<1> HIDE DEF p, q
<1>3. MergeDep(b.row.dep[d], p, q, d \in o.gone.dep, d \in t.gone.dep) \in {p, q, NoRow}
  BY <1>2 DEF MergeDep, MergeKey
<1> QED BY <1>1, <1>3 DEF p, q

\* Both sides of a conflict about an edge have a row of it.
LEMMA ClaimantsOfBoth ==
    ASSUME NEW q, q.ours \in Stores, q.theirs \in Stores,
           EdgesOnce(q.ours.row.dep), EdgesOnce(q.theirs.row.dep),
           NEW d \in EdgeClashes(DepsBeforeElection(q.base, q.ours, q.theirs)),
           NEW side \in Sides
    PROVE  /\ Claimant(q, d, side) \in DepIds /\ Claimant(q, d, side) \in Claimants(q, d)
           /\ Claimant(q, d, side) \in Rows(Side(q, side).row.dep)
<1> DEFINE deps == DepsBeforeElection(q.base, q.ours, q.theirs)
           o == q.ours.row.dep
           t == q.theirs.row.dep
<1>1. d \in Rows(deps) /\ d \in SameEdge(deps, d) /\ SameEdge(deps, d) # {d}
  BY DEF EdgeClashes, SameEdge
<1>2. PICK e \in SameEdge(deps, d) : e # d
  BY <1>1
<1>3. /\ e \in Rows(deps) /\ deps[e].task = deps[d].task /\ deps[e].on = deps[d].on
      /\ Claimants(q, d) = SameEdge(deps, d)
  BY <1>2 DEF SameEdge, Claimants
<1>4. /\ e \in DepIds /\ d \in DepIds
      /\ deps[e] \in {o[e], t[e]} \ {NoRow} /\ deps[d] \in {o[d], t[d]} \ {NoRow}
  BY <1>1, <1>3, DepFromSide
<1>5. DOMAIN o = DepIds /\ DOMAIN t = DepIds
  BY StoreFacts
<1> HIDE DEF deps, o, t
<1>6. EdgesOnce(o) /\ EdgesOnce(t)
  BY DEF o, t
<1>7. \E i \in {d, e} : i \in Rows(o)
  <2>1. ASSUME d \notin Rows(o), e \notin Rows(o)
        PROVE  FALSE
    <3>1. deps[d] = t[d] /\ deps[e] = t[e] /\ d \in Rows(t) /\ e \in Rows(t)
      BY <1>4, <1>5, <2>1 DEF Rows
    <3> QED BY <1>2, <1>3, <1>6, <3>1 DEF EdgesOnce
  <2> QED BY <2>1
<1>8. \E i \in {d, e} : i \in Rows(t)
  <2>1. ASSUME d \notin Rows(t), e \notin Rows(t)
        PROVE  FALSE
    <3>1. deps[d] = o[d] /\ deps[e] = o[e] /\ d \in Rows(o) /\ e \in Rows(o)
      BY <1>4, <1>5, <2>1 DEF Rows
    <3> QED BY <1>2, <1>3, <1>6, <3>1 DEF EdgesOnce
  <2> QED BY <2>1
<1>9. \E i \in Claimants(q, d) : i \in Rows(Side(q, side).row.dep)
  BY <1>1, <1>2, <1>3, <1>7, <1>8 DEF Side, o, t
<1>10. /\ Claimant(q, d, side) \in Claimants(q, d)
       /\ Claimant(q, d, side) \in Rows(Side(q, side).row.dep)
  BY <1>9 DEF Claimant
<1>11. Claimants(q, d) \subseteq Rows(deps)
  BY <1>3 DEF SameEdge
<1> QED BY <1>10, <1>11, DepFromSide DEF deps

----------------------------------------------------------------------------
(***************************************************************************)
(* What an answer writes                                                   *)
(***************************************************************************)
EdgesSound(r) == SoundStore(r) /\ EdgesOnce(r.row.dep)

\* A session: its sides and its candidate are databases, and no number of a side is
\* above the counter of the candidate.
SessionSound(q) ==
    /\ q.base \in Stores /\ EdgesSound(q.ours) /\ EdgesSound(q.theirs) /\ EdgesSound(q.image)
    /\ q.ours.next <= q.image.next /\ q.theirs.next <= q.image.next
    /\ DOMAIN q.answer = Clashes(q.base, q.ours, q.theirs) /\ DOMAIN q.answer # {}
    /\ \A c \in DOMAIN q.answer :
          q.answer[c] \in Answer /\ (q.answer[c].owner # Kept => c[1] = "task")

LEMMA ClashFacts ==
    ASSUME NEW b, NEW o, NEW t, NEW c \in Clashes(b, o, t)
    PROVE  /\ c \in Conflict
           /\ \/ c[1] = "task" /\ c[2] \in TaskIds
              \/ c[1] = "member" /\ c[2] \in AgentIds
              \/ c[1] = "dep" /\ c[2] \in DepIds
              \/ c[1] = "edge" /\ c[2] \in EdgeClashes(DepsBeforeElection(b, o, t))
<1>1. EdgeClashes(DepsBeforeElection(b, o, t)) \subseteq DepIds
  BY DEF EdgeClashes, DepsBeforeElection, Rows
<1> QED BY <1>1 DEF Clashes, Conflict

\* The rows of a side.
LEMMA SideFacts ==
    ASSUME NEW q, SessionSound(q), NEW side \in Sides
    PROVE  /\ EdgesSound(Side(q, side)) /\ Side(q, side) \in Stores
           /\ Side(q, side).next <= q.image.next
           /\ \A k \in TaskIds : Side(q, side).row.task[k] # NoRow =>
                 /\ Side(q, side).row.task[k] \in TaskRow
                 /\ Side(q, side).row.task[k].number < q.image.next
<1>1. /\ EdgesSound(Side(q, side)) /\ Side(q, side) \in Stores
      /\ Side(q, side).next <= q.image.next
  BY DEF SessionSound, EdgesSound, SoundStore, Side, Sides
<1>2. q.image.next \in Nat /\ Side(q, side).next \in Nat
  BY <1>1, StoreFacts DEF SessionSound, EdgesSound, SoundStore
<1> DEFINE z == Side(q, side)
<1>3. ASSUME NEW k \in TaskIds, z.row.task[k] # NoRow
      PROVE  z.row.task[k] \in TaskRow /\ z.row.task[k].number < q.image.next
  <2>1. k \in Rows(z.row.task) /\ z.row.task[k] \in TaskRow
    BY <1>1, <1>3, StoreFacts DEF Rows
  <2>2. z.row.task[k].number < z.next /\ z.row.task[k].number \in Nat
    BY <1>1, <2>1 DEF EdgesSound, SoundStore, NumbersSound, TaskRow
  <2> QED BY <1>1, <1>2, <2>1, <2>2
<1> QED BY <1>1, <1>3

\* What is written is a store whose counter is above every number, whatever the
\* statement breaks.
SettledTyped(r, c) ==
    /\ c \in Stores /\ c.next = r.next
    /\ \A k \in Rows(c.row.task) : c.row.task[k].number < c.next

LEMMA TaskWritten ==
    ASSUME NEW r, SoundStore(r), NEW k \in TaskIds, NEW v \in TaskRow, v.number < r.next
    PROVE  SettledTyped(r, Upsert(r, "task", k, v))
<1> DEFINE c == Upsert(r, "task", k, v)
<1>1. r \in Stores
  BY DEF SoundStore
<1>2. /\ c \in Stores /\ c.next = r.next /\ c.row.task = [r.row.task EXCEPT ![k] = v]
  BY <1>1 DEF Stores, Tables, Upsert
<1> HIDE DEF c
<1>3. \A i \in Rows(c.row.task) : c.row.task[i] = v \/ (i \in Rows(r.row.task) /\ c.row.task[i] = r.row.task[i])
  BY <1>1, <1>2, StoreFacts DEF Rows
<1>4. SettledTyped(r, c)
  BY <1>2, <1>3 DEF SettledTyped, SoundStore, NumbersSound
<1> QED BY <1>4 DEF c

LEMMA MemberWritten ==
    ASSUME NEW r, SoundStore(r), NEW a \in AgentIds, NEW v \in MemberRow
    PROVE  SettledTyped(r, Upsert(r, "member", a, v))
<1>1. r \in Stores
  BY DEF SoundStore
<1>2. /\ Upsert(r, "member", a, v) \in Stores /\ Upsert(r, "member", a, v).next = r.next
      /\ Upsert(r, "member", a, v).row.task = r.row.task
  BY <1>1 DEF Stores, Tables, Upsert
<1> QED BY <1>2 DEF SettledTyped, SoundStore, NumbersSound

LEMMA DepWritten ==
    ASSUME NEW r, SoundStore(r), NEW d \in DepIds, NEW v \in DepRow
    PROVE  SettledTyped(r, Upsert(r, "dep", d, v))
<1>1. r \in Stores
  BY DEF SoundStore
<1>2. /\ Upsert(r, "dep", d, v) \in Stores /\ Upsert(r, "dep", d, v).next = r.next
      /\ Upsert(r, "dep", d, v).row.task = r.row.task
  BY <1>1 DEF Stores, Tables, Upsert
<1> QED BY <1>2 DEF SettledTyped, SoundStore, NumbersSound

LEMMA RowDeleted ==
    ASSUME NEW r, SoundStore(r), NEW table, NEW k,
           \/ table = "task" /\ k \in TaskIds
           \/ table = "member" /\ k \in AgentIds
           \/ table = "dep" /\ k \in DepIds
    PROVE  SettledTyped(r, Delete(r, table, k))
<1>1. r \in Stores
  BY DEF SoundStore
<1>2. CASE table = "task"
  <2>1. {k} \in SUBSET TaskIds /\ Delete(r, table, k) = WithoutTasks(r, {k})
    BY <1>2 DEF Delete
  <2>2. SoundStore(WithoutTasks(r, {k}))
    BY <2>1, TasksPruned DEF Leaves
  <2>3. WithoutTasks(r, {k}).next = r.next
    BY <1>1 DEF WithoutTasks, Stores
  <2> QED BY <2>1, <2>2, <2>3 DEF SettledTyped, SoundStore, NumbersSound
<1>3. CASE table = "member"
  <2>1. Delete(r, table, k) = [r EXCEPT !.row.member[k] = NoRow, !.gone.member = @ \cup {k}]
    BY <1>3 DEF Delete
  <2>2. SoundStore([r EXCEPT !.row.member[k] = NoRow, !.gone.member = @ \cup {k}])
    BY <1>3, MemberRemoved DEF Leaves
  <2>3. [r EXCEPT !.row.member[k] = NoRow, !.gone.member = @ \cup {k}].next = r.next
    BY <1>1 DEF Stores
  <2> QED BY <2>1, <2>2, <2>3 DEF SettledTyped, SoundStore, NumbersSound
<1>4. CASE table = "dep"
  <2>1. Delete(r, table, k) = [r EXCEPT !.row.dep[k] = NoRow, !.gone.dep = @ \cup {k}]
    BY <1>4 DEF Delete
  <2>2. SoundStore([r EXCEPT !.row.dep[k] = NoRow, !.gone.dep = @ \cup {k}])
    BY <1>4, DependencyRemoved DEF Leaves
  <2>3. [r EXCEPT !.row.dep[k] = NoRow, !.gone.dep = @ \cup {k}].next = r.next
    BY <1>1 DEF Stores
  <2> QED BY <2>1, <2>2, <2>3 DEF SettledTyped, SoundStore, NumbersSound
<1> QED BY <1>2, <1>3, <1>4

LEMMA EdgeSettled ==
    ASSUME NEW q, SessionSound(q), NEW r, SoundStore(r),
           NEW d \in EdgeClashes(DepsBeforeElection(q.base, q.ours, q.theirs)), NEW side \in Sides
    PROVE  SettledTyped(r, SettleEdge(r, q, d, side))
<1> DEFINE i == Claimant(q, d, side)
           losers == Losers(r, q, d, side)
           row == DepsBeforeElection(q.base, q.ours, q.theirs)[i]
           deps == [e \in DepIds |-> IF e = i THEN row
                                     ELSE IF e \in losers THEN NoRow ELSE r.row.dep[e]]
           gone == (r.gone.dep \cup losers) \ {i}
<1>1. r \in Stores /\ q.ours \in Stores /\ q.theirs \in Stores
  BY DEF SessionSound, EdgesSound, SoundStore
<1>2. i \in DepIds /\ Claimant(q, d, Opposite(side)) \in DepIds
  BY <1>1, ClaimantsOfBoth DEF SessionSound, EdgesSound, Opposite, Sides
<1>3. losers \subseteq DepIds
  BY <1>1, <1>2, StoreFacts DEF Losers, Rows
<1>4. row \in DepRow \cup {NoRow}
  BY <1>1, <1>2, DepsBeforeTyped
<1>5. SettleEdge(r, q, d, side) = [r EXCEPT !.row.dep = deps, !.gone.dep = gone]
  BY DEF SettleEdge
<1> HIDE DEF i, losers, row
<1>6. deps \in [DepIds -> DepRow \cup {NoRow}] /\ gone \in SUBSET DepIds
  BY <1>1, <1>3, <1>4, StoreFacts
<1> HIDE DEF deps, gone
<1>7. [r EXCEPT !.row.dep = deps, !.gone.dep = gone] \in Stores
  BY <1>1, <1>6 DEF Stores, Tables
<1>8. /\ [r EXCEPT !.row.dep = deps, !.gone.dep = gone].next = r.next
      /\ [r EXCEPT !.row.dep = deps, !.gone.dep = gone].row.task = r.row.task
  BY <1>1 DEF Stores, Tables
<1> QED BY <1>5, <1>7, <1>8 DEF SettledTyped, SoundStore, NumbersSound

\* An answer that is to be written.
ToWrite(c, a) == a \in Answer /\ a.side \in Sides /\ (a.owner # Kept => c[1] = "task")

LEMMA AnswerWritten ==
    ASSUME NEW q, SessionSound(q), NEW r, SoundStore(r), q.image.next <= r.next,
           NEW c \in Clashes(q.base, q.ours, q.theirs), NEW a, ToWrite(c, a)
    PROVE  SettledTyped(r, Settle(r, q, c, a))
<1> DEFINE side == a.side
           v == Chosen(q, c, side)
<1>1. side \in Sides /\ a.owner \in AgentIds \cup {Nobody, Kept}
  BY DEF ToWrite, Answer
<1>2. r \in Stores /\ r.next \in Nat /\ q.image.next \in Nat
  BY StoreFacts DEF SessionSound, EdgesSound, SoundStore
<1>3. CASE c[1] = "edge"
  <2>1. c[2] \in EdgeClashes(DepsBeforeElection(q.base, q.ours, q.theirs))
    BY <1>3, ClashFacts
  <2>2. Settle(r, q, c, a) = SettleEdge(r, q, c[2], side)
    BY <1>3 DEF Settle
  <2> QED BY <1>1, <2>1, <2>2, EdgeSettled
<1>4. CASE c[1] # "edge" /\ v = NoRow
  <2>1. Settle(r, q, c, a) = Delete(r, c[1], c[2])
    BY <1>4 DEF Settle
  <2> QED BY <1>4, <2>1, ClashFacts, RowDeleted
<1>5. CASE c[1] # "edge" /\ v # NoRow
  <2>1. Settle(r, q, c, a) = Upsert(r, c[1], c[2], Overridden(v, a))
    BY <1>5 DEF Settle
  <2>2. CASE c[1] = "task"
    <3>1. c[2] \in TaskIds /\ v = Side(q, side).row.task[c[2]]
      BY <2>2, ClashFacts DEF Chosen
    <3>2. v \in TaskRow /\ v.number < q.image.next /\ v.number \in Nat
      BY <1>1, <1>5, <3>1, SideFacts DEF TaskRow
    <3>3. Overridden(v, a) \in TaskRow /\ Overridden(v, a).number = v.number
      BY <1>1, <3>2 DEF Overridden, TaskRow
    <3>4. Overridden(v, a).number < r.next
      BY <1>2, <3>2, <3>3
    <3> HIDE DEF v
    <3> QED BY <2>1, <2>2, <3>1, <3>3, <3>4, TaskWritten
  <2>3. CASE c[1] = "member"
    <3>1. c[2] \in AgentIds /\ v = Side(q, side).row.member[c[2]]
      BY <2>3, ClashFacts DEF Chosen
    <3>2. v \in MemberRow /\ Overridden(v, a) = v
      BY <1>1, <1>5, <2>3, <3>1, SideFacts, StoreFacts DEF Overridden, ToWrite
    <3> HIDE DEF v
    <3> QED BY <2>1, <2>3, <3>1, <3>2, MemberWritten
  <2>4. CASE c[1] = "dep"
    <3>1. c[2] \in DepIds /\ v = Side(q, side).row.dep[c[2]]
      BY <2>4, ClashFacts DEF Chosen
    <3>2. v \in DepRow /\ Overridden(v, a) = v
      BY <1>1, <1>5, <2>4, <3>1, SideFacts, StoreFacts DEF Overridden, ToWrite
    <3> HIDE DEF v
    <3> QED BY <2>1, <2>4, <3>1, <3>2, DepWritten
  <2> QED BY <1>5, <2>2, <2>3, <2>4, ClashFacts
<1> QED BY <1>3, <1>4, <1>5

\* A statement that succeeds leaves a database.
LEMMA StatementSound ==
    ASSUME NEW q, SessionSound(q), NEW r, EdgesSound(r), q.image.next <= r.next,
           NEW c \in Clashes(q.base, q.ours, q.theirs), NEW a, ToWrite(c, a),
           SettleNext(r, q, c, a) # NoStore
    PROVE  /\ EdgesSound(SettleNext(r, q, c, a))
           /\ q.image.next <= SettleNext(r, q, c, a).next
<1> DEFINE n == Settle(r, q, c, a)
<1>1. SettleNext(r, q, c, a) = n /\ Fits(n)
  BY DEF SettleNext
<1>2. SettledTyped(r, n)
  BY AnswerWritten DEF EdgesSound
<1> HIDE DEF n
<1>3. n \in Stores /\ n.row.task \in TaskTable
  BY <1>2, StoreFacts DEF SettledTyped, TaskTable
<1>4. NumbersSound(n)
  BY <1>1, <1>2, <1>3, RenumberedNone DEF Fits, NumbersSound, SettledTyped, EdgesSound, SoundStore
<1>5. EdgesOnce(n.row.dep)
  BY <1>1, EdgesOnceSame DEF Fits
<1> QED BY <1>1, <1>2, <1>3, <1>4, <1>5 DEF EdgesSound, SoundStore, SettledTyped, Fits

----------------------------------------------------------------------------
(***************************************************************************)
(* Staging                                                                 *)
(***************************************************************************)
LEMMA CandidateNext ==
    ASSUME NEW b \in Stores, NEW o \in Stores, NEW t \in Stores
    PROVE  o.next <= Candidate(b, o, t).next /\ t.next <= Candidate(b, o, t).next
<1> DEFINE next == MergedNext(b, o, t)
           numbered == Numbered(MergedTasks(b, o, t), next)
           above == CounterAbove(numbered, next)
<1>1. /\ next \in Nat /\ o.next <= next /\ t.next <= next
      /\ o.next \in Nat /\ t.next \in Nat
  BY NextOfThree, StoreFacts
<1> HIDE DEF next
<1>2. numbered \in TaskTable
  BY <1>1, MergedTasksTyped, NumberedFacts DEF TaskTable
<1>3. HighWater(numbered) \in Nat
  BY <1>2, HighWaterFacts
<1>4. above \in Nat /\ next <= above
  BY <1>1, <1>3, MaxOfTwo DEF CounterAbove
<1>5. Candidate(b, o, t).next = above
  BY Zenon DEF Candidate, next
<1> HIDE DEF above
<1> QED BY <1>1, <1>4, <1>5

LEMMA CandidateSound ==
    ASSUME NEW b \in Stores, NEW o \in Stores, NEW t \in Stores, Consistent(Candidate(b, o, t).row)
    PROVE  EdgesSound(Candidate(b, o, t))
<1>1. Candidate(b, o, t).row.dep = MergedDeps(b, o, t)
  BY Zenon DEF Candidate
<1> QED BY <1>1, MergedDepsOnce, CandidateFields DEF EdgesSound, SoundStore

LEMMA OpenTyped == Open \in Answer /\ Open.owner = Kept
BY DEF Open, Answer

LEMMA StagedSound ==
    ASSUME NEW b \in Stores, NEW o, EdgesSound(o), NEW t, EdgesSound(t),
           Consistent(Candidate(b, o, t).row), Clashes(b, o, t) # {}
    PROVE  SessionSound(Staged(b, o, t))
<1>1. o \in Stores /\ t \in Stores
  BY DEF EdgesSound, SoundStore
<1>2. EdgesSound(Candidate(b, o, t))
  BY <1>1, CandidateSound
<1>3. o.next <= Candidate(b, o, t).next /\ t.next <= Candidate(b, o, t).next
  BY <1>1, CandidateNext
<1> DEFINE q == Staged(b, o, t)
<1>4. /\ q.base = b /\ q.ours = o /\ q.theirs = t /\ q.image = Candidate(b, o, t)
      /\ q.answer = [c \in Clashes(b, o, t) |-> Open]
  BY DEF Staged
<1> HIDE DEF q
<1>5. DOMAIN q.answer = Clashes(b, o, t) /\ \A c \in DOMAIN q.answer : q.answer[c] = Open
  BY <1>4
<1>6. SessionSound(q)
  BY <1>2, <1>3, <1>4, <1>5, OpenTyped DEF SessionSound
<1> QED BY <1>6 DEF q

\* --skip-open leaves no answer open.
LEMMA AtOursWritten ==
    ASSUME NEW q, SessionSound(q)
    PROVE  /\ DOMAIN AtOurs(q.answer) = Clashes(q.base, q.ours, q.theirs)
           /\ \A c \in DOMAIN AtOurs(q.answer) : ToWrite(c, AtOurs(q.answer)[c])
<1>1. DOMAIN AtOurs(q.answer) = DOMAIN q.answer /\ DOMAIN q.answer = Clashes(q.base, q.ours, q.theirs)
  BY DEF AtOurs, SessionSound
<1>2. ASSUME NEW c \in DOMAIN q.answer
      PROVE  ToWrite(c, AtOurs(q.answer)[c])
  <2>1. q.answer[c] \in Answer /\ (q.answer[c].owner # Kept => c[1] = "task")
    BY DEF SessionSound
  <2>2. [Open EXCEPT !.side = "ours"] \in Answer /\ [Open EXCEPT !.side = "ours"].side = "ours"
           /\ [Open EXCEPT !.side = "ours"].owner = Kept
    BY DEF Open, Answer, Sides
  <2>3. AtOurs(q.answer)[c] = IF IsOpen(q.answer[c]) THEN [Open EXCEPT !.side = "ours"] ELSE q.answer[c]
    BY DEF AtOurs
  <2>4. CASE IsOpen(q.answer[c])
    BY <2>2, <2>3, <2>4 DEF ToWrite, Sides
  <2>5. CASE ~IsOpen(q.answer[c])
    BY <2>1, <2>3, <2>5 DEF ToWrite, Answer, IsOpen
  <2> QED BY <2>4, <2>5
<1> QED BY <1>1, <1>2

----------------------------------------------------------------------------
(***************************************************************************)
(* The invariant: every database, every session and every copy that is     *)
(* being written keeps the constraints.                                    *)
(***************************************************************************)
Answered == UNION {[D -> Answer] : D \in SUBSET Conflict}

Sessions == [base: Stores, ours: Stores, theirs: Stores, image: Stores, answer: Answered]

Applies == [skip: BOOLEAN, answers: Answered, image: Stores \cup {NoStore}]

\* What conflict apply of a session still has to write, and where.
CopySound(q, p) ==
    /\ EdgesSound(p.image) /\ q.image.next <= p.image.next
    /\ DOMAIN p.answers \subseteq Clashes(q.base, q.ours, q.theirs)
    /\ \A c \in DOMAIN p.answers : ToWrite(c, p.answers[c])

ConflictsTyped ==
    /\ session \in [Clones -> Sessions \cup {NoSession}]
    /\ applying \in [Clones -> Applies \cup {NoSession}]

ConflictInv ==
    /\ CloneInv /\ 1 \in Snapshots
    /\ \A s \in Clones : EdgesSound(store[s])
    /\ ConflictsTyped
    /\ \A s \in Clones : Staging(s) => SessionSound(session[s])
    /\ \A s \in Clones : Writing(s) => Staging(s) /\ CopySound(session[s], applying[s])
    /\ merges \in 0..MaxMerges

LEMMA ConflictInvSessionsOK == ConflictInv => SessionsOK
<1> SUFFICES ASSUME ConflictInv PROVE SessionsOK
  OBVIOUS
<1>1. ASSUME NEW s \in Clones
      PROVE  Fits(store[s])
  <2>1. EdgesSound(store[s])
    BY DEF ConflictInv
  <2>2. store[s].row.task \in TaskTable
    BY <2>1, StoreFacts DEF EdgesSound, SoundStore, TaskTable
  <2>3. Renumbered(store[s].row.task) = {}
    BY <2>1, <2>2, RenumberedNone DEF EdgesSound, SoundStore, NumbersSound
  <2> QED BY <2>1, <2>3, EdgesOnceSame DEF EdgesSound, SoundStore, Fits
<1>2. ASSUME NEW s \in Clones, Staging(s)
      PROVE  /\ {session[s].base, session[s].ours, session[s].theirs, session[s].image}
                   \subseteq Stores
             /\ DOMAIN session[s].answer # {} /\ DOMAIN session[s].answer \subseteq Conflict
             /\ \A c \in DOMAIN session[s].answer : session[s].answer[c] \in Answer
  <2>1. SessionSound(session[s])
    BY <1>2 DEF ConflictInv
  <2> HIDE DEF Staging
  <2> QED BY <2>1, ClashFacts DEF SessionSound, EdgesSound, SoundStore
<1> QED BY <1>1, <1>2 DEF SessionsOK, ConflictInv

\* The databases that the clones start with.
LEMMA Starts ==
    ASSUME NEW start \in {Genesis, [Genesis EXCEPT !.row.dep[1] = NoRow]}
    PROVE  EdgesSound(start) /\ start.gone.task = {} /\ Rows(start.row.dep) \subseteq {1}
<1> DEFINE bare == [Genesis EXCEPT !.row.dep[1] = NoRow]
<1>1. SoundStore(Genesis) /\ Genesis \in Stores /\ 1 \in DepIds
  BY GenesisSound, CloneAssumption DEF SoundStore
<1>2. Genesis.gone.task = {} /\ Genesis.row.dep \in DepTable /\ Rows(Genesis.row.dep) \subseteq {1}
  <2>1. /\ Genesis.gone = Empty.gone
        /\ Genesis.row.dep = [Empty.row.dep EXCEPT
                              ![1] = [task |-> 1, on |-> 2, kind |-> "strong", at |-> 1]]
    BY DEF Genesis
  <2>2. Empty.row.dep = [d \in DepIds |-> NoRow] /\ Empty.gone.task = {}
    BY DEF Empty
  <2> QED BY <1>1, <2>1, <2>2, StoreFacts DEF Rows, DepTable
<1>3. EdgesSound(Genesis)
  BY <1>1, <1>2 DEF EdgesSound, EdgesOnce
<1>4. /\ bare \in Stores /\ bare.next = Genesis.next /\ bare.gone = Genesis.gone
      /\ bare.row.task = Genesis.row.task /\ bare.row.agent = Genesis.row.agent
      /\ bare.row.member = Genesis.row.member /\ bare.row.event = Genesis.row.event
      /\ bare.row.dep = [Genesis.row.dep EXCEPT ![1] = NoRow]
  BY <1>1 DEF Stores, Tables
<1>5. Rows(bare.row.dep) = {}
  BY <1>2, <1>4 DEF Rows, DepTable
<1> HIDE DEF bare
<1>6. EdgesSound(bare)
  <2>1. Rows(bare.row.member) \subseteq Rows(bare.row.agent)
    BY <1>1, <1>4, Joined
  <2>2. KeepsGone(Genesis, bare)
    BY <1>4 DEF KeepsGone
  <2>3. Leaves(Genesis, bare)
    BY <1>1, <1>4, <1>5, <2>1, <2>2, TasksAlone
  <2> QED BY <1>5, <2>3 DEF EdgesSound, EdgesOnce, Leaves
<1> QED BY <1>2, <1>3, <1>4, <1>5, <1>6 DEF bare

LEMMA ConflictsInit == ConflictInit => ConflictInv
<1> SUFFICES ASSUME ConflictInit PROVE ConflictInv
  OBVIOUS
<1>1. PICK start \in {Genesis, [Genesis EXCEPT !.row.dep[1] = NoRow]} :
           /\ store = [s \in Clones |-> start]
           /\ snaps = <<[store |-> start, parents |-> {}]>>
           /\ drawn = [task |-> 2, agent |-> 1, dep |-> Cardinality(Rows(start.row.dep))]
  BY DEF ConflictInit
<1>2. EdgesSound(start) /\ SoundStore(start) /\ start \in Stores
  BY Starts DEF EdgesSound, SoundStore
<1>3. StoresSound /\ \A s \in Clones : EdgesSound(store[s])
  BY <1>1, <1>2 DEF StoresSound
<1> DEFINE first == [store |-> start, parents |-> {}]
<1>4. snaps = <<first>> /\ first \in Snap /\ first.store = start /\ first.parents = {}
  BY <1>1, <1>2 DEF Snap
<1> HIDE DEF first
<1>5. snaps \in Seq(Snap) /\ Len(snaps) = 1 /\ DOMAIN snaps = {1} /\ snaps[1] = first
  BY <1>4
<1>6. SnapsSound(snaps) /\ 1 \in Snapshots
  BY <1>2, <1>4, <1>5 DEF SnapsSound, Snapshots
<1>7. RefsTyped
  BY <1>5 DEF ConflictInit, RefsTyped
<1>8. CountersTyped
  <2>1. Rows(start.row.dep) \in SUBSET DepIds
    BY <1>2, StoreFacts DEF Rows
  <2>2. Cardinality(Rows(start.row.dep)) \in Nat
    BY <2>1, IdAssumption, FS_Subset, FS_CardinalityType
  <2> QED BY <1>1, <2>2, CloneAssumption DEF ConflictInit, CountersTyped
<1>9. /\ \A s \in Clones : ~Staging(s) /\ ~Writing(s)
      /\ ConflictsTyped /\ merges \in 0..MaxMerges
  BY SessionAssumption DEF ConflictInit, Staging, Writing, ConflictsTyped
<1> QED BY <1>3, <1>6, <1>7, <1>8, <1>9 DEF ConflictInv, CloneInv

\* A change of clone s deletes no task, and makes one edge at most.
LEMMA ChangeRows ==
    ASSUME NEW s \in Clones, DOMAIN store = Clones, EdgesSound(store[s]), CountersTyped, Change(s)
    PROVE  /\ store'[s].gone.task = store[s].gone.task
           /\ Rows(store[s].row.event) \subseteq Rows(store'[s].row.event)
           /\ \/ FewerEdges(store[s].row.dep, store'[s].row.dep) /\ drawn'.dep = drawn.dep
              \/ \E v : /\ OneEdgeMore(store[s].row.dep, store'[s].row.dep, drawn.dep + 1, v)
                        /\ drawn'.dep = drawn.dep + 1
<1> DEFINE r == store[s]
           c == store'[s]
           Same == c.gone.task = r.gone.task /\ Rows(r.row.event) \subseteq Rows(c.row.event)
           Alone == Same /\ c.row.dep = r.row.dep /\ drawn'.dep = drawn.dep
<1>1. /\ r \in Stores /\ r.row.dep \in DepTable /\ drawn.dep \in Nat
      /\ drawn \in [task: Nat, agent: Nat, dep: Nat]
  BY StoreFacts DEF EdgesSound, SoundStore, DepTable, CountersTyped
<1>2. ASSUME NEW n, NEW ids, Commit(s, n, ids)
      PROVE  c = n /\ drawn'.dep = IF "dep" \in ids THEN drawn.dep + 1 ELSE drawn.dep
  BY <1>1, <1>2 DEF Commit
<1>3. ASSUME NEW k \in TaskIds, NEW a \in AgentIds, CreateTask(s, k, a)
      PROVE  Alone
  <2>1. /\ c = [r EXCEPT !.row.task[k] = NewTask(r.next),
                         !.row.event[k] = [actor |-> a, task |-> k],
                         !.next = @ + 1]
        /\ drawn'.dep = drawn.dep
    BY <1>2, <1>3 DEF CreateTask
  <2> DEFINE v == [actor |-> a, task |-> k]
             w == NewTask(r.next)
  <2>2. /\ c.row.dep = r.row.dep /\ c.gone.task = r.gone.task
        /\ c.row.event = [r.row.event EXCEPT ![k] = v]
    <3>1. c = [r EXCEPT !.row.task[k] = w, !.row.event[k] = v, !.next = @ + 1]
      BY <2>1
    <3> HIDE DEF v, w, c
    <3> QED BY <1>1, <3>1 DEF Stores, Tables
  <2>3. r.row.event \in [TaskIds -> EventRow \cup {NoRow}]
    BY <1>1, StoreFacts
  <2>4. v # NoRow
    BY IdAssumption DEF EventRow
  <2> HIDE DEF r, c, v
  <2>5. Rows(r.row.event) \subseteq Rows(c.row.event)
    BY <2>2, <2>3, <2>4 DEF Rows
  <2> QED BY <2>1, <2>2, <2>5
<1>4. ASSUME NEW k, NEW row, Touch(s, k, row)
      PROVE  Alone
  <2>1. PICK now \in Times : Commit(s, [r EXCEPT !.row.task[k] = [row EXCEPT !.upd = now]], {})
    BY <1>4 DEF Touch
  <2>2. c = [r EXCEPT !.row.task[k] = [row EXCEPT !.upd = now]] /\ drawn'.dep = drawn.dep
    BY <1>2, <2>1
  <2> QED BY <1>1, <2>2 DEF Stores, Tables
<1>5. ASSUME NEW a \in AgentIds, NEW n \in Names, RegisterAgent(s, a, n)
      PROVE  Alone
  <2>1. /\ c = [r EXCEPT !.row.agent[a] = [name |-> n, active |-> TRUE, upd |-> 1]]
        /\ drawn'.dep = drawn.dep
    BY <1>2, <1>5 DEF RegisterAgent
  <2> QED BY <1>1, <2>1 DEF Stores, Tables
<1>6. ASSUME NEW a \in AgentIds, AddMember(s, a) \/ RemoveMember(s, a)
      PROVE  Alone
  <2>1. CASE AddMember(s, a)
    <3>1. PICK now \in Times : Commit(s, [r EXCEPT !.row.member[a] = [upd |-> now]], {})
      BY <2>1 DEF AddMember
    <3>2. c = [r EXCEPT !.row.member[a] = [upd |-> now]] /\ drawn'.dep = drawn.dep
      BY <1>2, <3>1
    <3> QED BY <1>1, <3>2 DEF Stores, Tables
  <2>2. CASE RemoveMember(s, a)
    <3>1. /\ c = [r EXCEPT !.row.member[a] = NoRow, !.gone.member = @ \cup {a}]
          /\ drawn'.dep = drawn.dep
      BY <1>2, <2>2 DEF RemoveMember
    <3> QED BY <1>1, <3>1 DEF Stores, Tables
  <2> QED BY <1>6, <2>1, <2>2
<1>7. ASSUME NEW d \in DepIds, NEW k \in TaskIds, NEW p \in TaskIds,
             NEW kind \in {"strong", "informational"}, AddDependency(s, d, k, p, kind)
      PROVE  /\ Same /\ drawn'.dep = drawn.dep + 1
             /\ \E v : OneEdgeMore(r.row.dep, c.row.dep, drawn.dep + 1, v)
  <2>1. <<k, p>> \notin Edges(r.row) /\ d = drawn.dep + 1
    BY <1>7 DEF AddDependency
  <2>2. PICK now \in Times :
            Commit(s, [r EXCEPT !.row.dep[d] = [task |-> k, on |-> p, kind |-> kind, at |-> now]],
                   {"dep"})
    BY <1>7 DEF AddDependency
  <2> DEFINE v == [task |-> k, on |-> p, kind |-> kind, at |-> now]
  <2>3. v.task = k /\ v.on = p
    OBVIOUS
  <2>4. c = [r EXCEPT !.row.dep[d] = v] /\ drawn'.dep = drawn.dep + 1
    BY <1>2, <2>2
  <2>5. \A e \in Rows(r.row.dep) : ~(r.row.dep[e].task = v.task /\ r.row.dep[e].on = v.on)
    BY <2>1, <2>3 DEF Edges
  <2> HIDE DEF v, c
  <2>6. /\ c.row.dep = [r.row.dep EXCEPT ![d] = v] /\ c.gone.task = r.gone.task
        /\ c.row.event = r.row.event
    BY <1>1, <2>4 DEF Stores, Tables
  <2>7. \A e \in Rows(c.row.dep) :
            (e = d /\ c.row.dep[e] = v) \/ (e \in Rows(r.row.dep) /\ c.row.dep[e] = r.row.dep[e])
    BY <1>1, <2>6 DEF Rows, DepTable
  <2>8. OneEdgeMore(r.row.dep, c.row.dep, drawn.dep + 1, v)
    BY <2>1, <2>5, <2>7 DEF OneEdgeMore
  <2> QED BY <2>4, <2>6, <2>8
<1>8. ASSUME NEW d \in DepIds, RemoveDependency(s, d)
      PROVE  /\ Same /\ drawn'.dep = drawn.dep
             /\ FewerEdges(r.row.dep, c.row.dep)
  <2>1. /\ c = [r EXCEPT !.row.dep[d] = NoRow, !.gone.dep = @ \cup {d}]
        /\ drawn'.dep = drawn.dep
    BY <1>2, <1>8 DEF RemoveDependency
  <2>2. /\ c.row.dep = [r.row.dep EXCEPT ![d] = NoRow] /\ c.gone.task = r.gone.task
        /\ c.row.event = r.row.event
    BY <1>1, <2>1 DEF Stores, Tables
  <2>3. FewerEdges(r.row.dep, c.row.dep)
    BY <1>1, <2>2 DEF Rows, DepTable, FewerEdges
  <2> QED BY <2>1, <2>2, <2>3
<1>9. Alone => FewerEdges(r.row.dep, c.row.dep)
  BY DEF FewerEdges
<1> HIDE DEF r, c
<1>10. \/ Alone
       \/ Same /\ drawn'.dep = drawn.dep /\ FewerEdges(r.row.dep, c.row.dep)
       \/ /\ Same /\ drawn'.dep = drawn.dep + 1
          /\ \E v : OneEdgeMore(r.row.dep, c.row.dep, drawn.dep + 1, v)
  <2> HIDE DEF Alone, Same
  <2> QED BY <1>3, <1>4, <1>5, <1>6, <1>7, <1>8 DEF Change, EditTask, SetStatus
<1> QED BY <1>9, <1>10 DEF r, c

LEMMA ChangeStep ==
    ASSUME ConflictInv, NEW s \in Clones, Change(s)
    PROVE  ConflictInv'
<1>1. CloneInv /\ edits < MaxEdits /\ ~Writing(s) /\ UNCHANGED <<session, applying, merges>>
  BY DEF ConflictInv, Change
<1>2. EdgesSound(store[s]) /\ store[s] # NoStore /\ DOMAIN store = Clones
  BY CloneAssumption DEF ConflictInv, CloneInv, StoresSound, EdgesSound, SoundStore
<1>3. Work(s) /\ UNCHANGED <<snaps>>
  <2>1. Work(s)
    BY DEF Change, Work
  <2>2. UNCHANGED snaps
    BY DEF Change, CreateTask, EditTask, SetStatus, Touch, RegisterAgent, AddMember, RemoveMember,
           AddDependency, RemoveDependency, Commit
  <2> QED BY <2>1, <2>2
<1>4. CloneInv' /\ StoreStep(s)
  BY <1>1, <1>2, <1>3, WorkStep
<1>5. EdgesOnce(store'[s].row.dep)
  <2>1. EdgesOnce(store[s].row.dep) /\ CountersTyped
    BY <1>1, <1>2 DEF EdgesSound, CloneInv
  <2> QED BY <1>2, <2>1, ChangeRows, FewerEdgesOnce, OneMoreOnce
<1>6. \A u \in Clones : EdgesSound(store'[u])
  <2>1. store' = store \/ \E c : SoundStore(c) /\ store' = [store EXCEPT ![s] = c]
    BY <1>4 DEF StoreStep
  <2>2. SoundStore(store'[s]) /\ \A u \in Clones \ {s} : store'[u] = store[u]
    BY <1>2, <2>1 DEF EdgesSound
  <2> QED BY <1>5, <2>2 DEF EdgesSound, ConflictInv
<1>7. Snapshots' = Snapshots
  BY <1>3 DEF Snapshots
<1>8. UNCHANGED <<session, applying, merges>>
  BY <1>1
<1> QED BY <1>4, <1>6, <1>7, <1>8 DEF ConflictInv, ConflictsTyped, Staging, Writing

\* A command that changes the sessions and applies of one clone and no database.
LEMMA SessionStep ==
    ASSUME ConflictInv, NEW s \in Clones, UNCHANGED <<store, snaps, tip, last, drawn, edits>>,
           merges' \in 0..MaxMerges,
           session'[s] \in Sessions \cup {NoSession}, applying'[s] \in Applies \cup {NoSession},
           session' = [session EXCEPT ![s] = session'[s]],
           applying' = [applying EXCEPT ![s] = applying'[s]],
           session'[s] # NoSession => SessionSound(session'[s]),
           applying'[s] # NoSession /\ applying'[s].image # NoStore
              => session'[s] # NoSession /\ CopySound(session'[s], applying'[s])
    PROVE  ConflictInv'
<1>1. CloneInv' /\ (1 \in Snapshots)' /\ \A u \in Clones : EdgesSound(store'[u])
  BY DEF ConflictInv, CloneInv, StoresSound, SnapsSound, RefsTyped, CountersTyped, Snapshots
<1>2. ConflictsTyped'
  BY DEF ConflictInv, ConflictsTyped
<1>3. /\ \A u \in Clones \ {s} : session'[u] = session[u] /\ applying'[u] = applying[u]
  BY DEF ConflictInv, ConflictsTyped
<1>4. \A u \in Clones : Staging(u)' => SessionSound(session'[u])
  BY <1>3 DEF ConflictInv, Staging
<1>5. \A u \in Clones : Writing(u)' => Staging(u)' /\ CopySound(session'[u], applying'[u])
  BY <1>3 DEF ConflictInv, Staging, Writing
<1> QED BY <1>1, <1>2, <1>4, <1>5 DEF ConflictInv

\* The entries of one clone, before and after.
LEMMA EntriesTyped ==
    ASSUME ConflictInv, NEW s \in Clones
    PROVE  /\ session[s] \in Sessions \cup {NoSession} /\ DOMAIN session = Clones
           /\ applying[s] \in Applies \cup {NoSession} /\ DOMAIN applying = Clones
           /\ session = [session EXCEPT ![s] = session[s]]
           /\ applying = [applying EXCEPT ![s] = applying[s]]
           /\ EdgesSound(store[s]) /\ merges \in 0..MaxMerges
           /\ session[s] # NoSession => SessionSound(session[s])
           /\ applying[s] # NoSession /\ applying[s].image # NoStore
                 => session[s] # NoSession /\ CopySound(session[s], applying[s])
BY DEF ConflictInv, ConflictsTyped, Staging, Writing

LEMMA StagedTyped ==
    ASSUME NEW q, SessionSound(q), NEW b \in Stores, NEW o \in Stores, NEW t \in Stores,
           q = Staged(b, o, t)
    PROVE  q \in Sessions
<1>1. q.image \in Stores /\ q.answer \in Answered
  <2>1. DOMAIN q.answer \subseteq Conflict /\ \A c \in DOMAIN q.answer : q.answer[c] \in Answer
    BY ClashFacts DEF SessionSound
  <2>2. q.answer = [c \in DOMAIN q.answer |-> q.answer[c]]
    BY DEF Staged
  <2>3. q.answer \in [DOMAIN q.answer -> Answer]
    BY <2>1, <2>2
  <2> QED BY <2>1, <2>3 DEF Answered, SessionSound, EdgesSound, SoundStore
<1>2. q = [base |-> b, ours |-> o, theirs |-> t, image |-> q.image, answer |-> q.answer]
  BY DEF Staged
<1> QED BY <1>1, <1>2 DEF Sessions

LEMMA ImportStep ==
    ASSUME ConflictInv, NEW s \in Clones, NEW u \in Clones, NEW base \in {0, 1}, Import(s, u, base)
    PROVE  ConflictInv'
<1> DEFINE b == BaseStore(base)
           q == Staged(b, store[s], store[u])
           c == Candidate(b, store[s], store[u])
<1>1. EdgesSound(store[s]) /\ EdgesSound(store[u]) /\ store[s] \in Stores /\ store[u] \in Stores
  BY DEF ConflictInv, EdgesSound, SoundStore
<1>2. b \in Stores
  <2>1. SnapsSound(snaps) /\ 1 \in Snapshots
    BY DEF ConflictInv, CloneInv
  <2> QED BY <2>1, EmptyTyped, SnapFacts DEF BaseStore
<1>3. /\ q.image = c /\ q.answer = [x \in Clashes(b, store[s], store[u]) |-> Open]
  BY DEF Staged
<1>4. /\ merges < MaxMerges /\ merges' = merges + 1 /\ Consistent(c.row) /\ ~Staging(s)
      /\ IF DOMAIN q.answer = {}
         THEN store' = [store EXCEPT ![s] = c] /\ UNCHANGED session
         ELSE session' = [session EXCEPT ![s] = q] /\ UNCHANGED store
      /\ UNCHANGED <<snaps, tip, last, drawn, edits, applying>>
  BY <1>3 DEF Import
<1>5. merges' \in 0..MaxMerges
  BY <1>4, SessionAssumption DEF ConflictInv
<1>6. CASE DOMAIN q.answer = {}
  <2>1. EdgesSound(c) /\ SoundStore(c) /\ c \in Stores
    BY <1>1, <1>2, <1>4, CandidateSound DEF EdgesSound, SoundStore
  <2> HIDE DEF c, q
  <2>2. /\ store \in [Clones -> Stores \cup {NoStore}] /\ store' = [store EXCEPT ![s] = c]
        /\ UNCHANGED session
    BY <1>4, <1>6 DEF ConflictInv, CloneInv, StoresSound
  <2>3. store'[s] = c /\ (\A v \in Clones \ {s} : store'[v] = store[v])
           /\ store' \in [Clones -> Stores \cup {NoStore}]
    BY <2>1, <2>2
  <2>4. \A v \in Clones : EdgesSound(store'[v])
    BY <2>1, <2>3 DEF ConflictInv
  <2>5. StoresSound'
    BY <2>3, <2>4 DEF StoresSound, EdgesSound
  <2>6. CloneInv' /\ (1 \in Snapshots)'
    BY <1>4, <2>5 DEF ConflictInv, CloneInv, SnapsSound, RefsTyped, CountersTyped, Snapshots
  <2> QED BY <1>4, <1>5, <2>2, <2>4, <2>6 DEF ConflictInv, ConflictsTyped, Staging, Writing
<1>7. CASE DOMAIN q.answer # {}
  <2>1. Clashes(b, store[s], store[u]) # {}
    BY <1>3, <1>7
  <2>2. SessionSound(q)
    BY <1>1, <1>2, <1>4, <2>1, StagedSound
  <2>3. q \in Sessions
    BY <1>1, <1>2, <2>2, StagedTyped
  <2> HIDE DEF q
  <2>4. session' = [session EXCEPT ![s] = q] /\ UNCHANGED <<store, applying>>
    BY <1>4, <1>7
  <2>5. session'[s] = q
    BY <2>4, EntriesTyped
  <2>6. ~Writing(s)
    BY <1>4 DEF ConflictInv
  <2> QED BY <1>4, <1>5, <2>2, <2>3, <2>4, <2>5, <2>6, EntriesTyped, SessionStep DEF Writing
<1> QED BY <1>6, <1>7

\* The answers of a session.
LEMMA AnswersTyped ==
    ASSUME NEW q, SessionSound(q), q \in Sessions
    PROVE  q.answer \in [DOMAIN q.answer -> Answer] /\ DOMAIN q.answer \subseteq Conflict
BY DEF Sessions, Answered, SessionSound

LEMMA ResolveStep ==
    ASSUME ConflictInv, NEW s \in Clones, NEW c \in Conflict, NEW side \in Sides,
           NEW owner \in AgentIds \cup {Nobody, Kept}, Resolve(s, c, side, owner)
    PROVE  ConflictInv'
<1> DEFINE a == [side |-> side, owner |-> owner]
           q == session[s]
           n == [q EXCEPT !.answer[c] = a]
<1>1. /\ Staging(s) /\ ~Writing(s) /\ c \in DOMAIN q.answer /\ (owner # Kept => c[1] = "task")
      /\ session' = [session EXCEPT ![s] = n] /\ UNCHANGED <<vars, applying, merges>>
  BY DEF Resolve
<1>2. SessionSound(q) /\ q \in Sessions
  BY <1>1, EntriesTyped DEF Staging
<1>3. a \in Answer /\ a.owner = owner
  BY DEF Answer
<1>4. q.answer \in [DOMAIN q.answer -> Answer] /\ DOMAIN q.answer \subseteq Conflict
  BY <1>2, AnswersTyped
<1> DEFINE answers == [q.answer EXCEPT ![c] = a]
<1> HIDE DEF a, q
<1>5. /\ answers \in [DOMAIN q.answer -> Answer] /\ DOMAIN answers = DOMAIN q.answer
      /\ answers[c] = a /\ \A e \in DOMAIN q.answer \ {c} : answers[e] = q.answer[e]
  BY <1>1, <1>3, <1>4
<1>6. answers \in Answered
  BY <1>4, <1>5 DEF Answered
<1>7. n = [q EXCEPT !.answer = answers]
  BY <1>2 DEF Sessions
<1> HIDE DEF answers, n
<1>8. /\ n \in Sessions /\ n.base = q.base /\ n.ours = q.ours /\ n.theirs = q.theirs
      /\ n.image = q.image /\ n.answer = answers
  BY <1>2, <1>6, <1>7 DEF Sessions
<1>9. SessionSound(n)
  <2>1. \A e \in DOMAIN answers : answers[e] \in Answer /\ (answers[e].owner # Kept => e[1] = "task")
    BY <1>1, <1>2, <1>3, <1>5 DEF SessionSound
  <2> QED BY <1>2, <1>5, <1>8, <2>1 DEF SessionSound
<1>10. session'[s] = n
  BY <1>1, EntriesTyped
<1>11. UNCHANGED <<store, snaps, tip, last, drawn, edits, applying, merges>>
  BY <1>1 DEF vars
<1> QED BY <1>1, <1>8, <1>9, <1>10, <1>11, EntriesTyped, SessionStep DEF Writing

LEMMA AskStep ==
    ASSUME ConflictInv, NEW s \in Clones, NEW skip \in BOOLEAN, AskApply(s, skip)
    PROVE  ConflictInv'
<1> DEFINE p == [skip |-> skip, answers |-> session[s].answer, image |-> NoStore]
<1>1. /\ Staging(s) /\ applying' = [applying EXCEPT ![s] = p] /\ UNCHANGED <<vars, session, merges>>
  BY DEF AskApply
<1>2. SessionSound(session[s]) /\ session[s] \in Sessions
  BY <1>1, EntriesTyped DEF Staging
<1>3. p \in Applies /\ p.image = NoStore
  BY <1>2 DEF Applies, Sessions
<1> HIDE DEF p
<1>4. applying'[s] = p
  BY <1>1, EntriesTyped
<1>5. UNCHANGED <<store, snaps, tip, last, drawn, edits, session, merges>>
  BY <1>1 DEF vars
<1> QED BY <1>1, <1>3, <1>4, <1>5, EntriesTyped, SessionStep

LEMMA BeginStep ==
    ASSUME ConflictInv, NEW s \in Clones, BeginApply(s)
    PROVE  ConflictInv'
<1> DEFINE q == session[s]
           p == applying[s]
           n == [p EXCEPT !.answers = AtOurs(q.answer), !.image = q.image]
<1>1. UNCHANGED <<store, snaps, tip, last, drawn, edits, session, merges>> /\ p # NoSession
  BY DEF BeginApply, vars
<1>2. p \in Applies
  BY <1>1, EntriesTyped
<1>3. CASE Staging(s) /\ Ready(q.answer, p.skip)
  <2>1. SessionSound(q) /\ q \in Sessions
    BY <1>3, EntriesTyped DEF Staging
  <2>2. applying' = [applying EXCEPT ![s] = n]
    BY <1>3, EntriesTyped DEF BeginApply
  <2>3. /\ DOMAIN AtOurs(q.answer) = Clashes(q.base, q.ours, q.theirs)
        /\ \A c \in DOMAIN AtOurs(q.answer) : ToWrite(c, AtOurs(q.answer)[c])
    BY <2>1, AtOursWritten
  <2>4. AtOurs(q.answer) \in Answered
    <3>1. AtOurs(q.answer) \in [DOMAIN AtOurs(q.answer) -> Answer]
      <4>1. AtOurs(q.answer) = [c \in DOMAIN AtOurs(q.answer) |-> AtOurs(q.answer)[c]]
        BY DEF AtOurs
      <4>2. \A c \in DOMAIN AtOurs(q.answer) : AtOurs(q.answer)[c] \in Answer
        BY <2>3 DEF ToWrite
      <4> QED BY <4>1, <4>2
    <3>2. DOMAIN AtOurs(q.answer) \subseteq Conflict
      BY <2>3, ClashFacts
    <3> QED BY <3>1, <3>2 DEF Answered
  <2> HIDE DEF q, p
  <2>5. /\ n \in Applies /\ n.answers = AtOurs(q.answer) /\ n.image = q.image
    BY <1>2, <2>1, <2>4 DEF Applies, Sessions
  <2> HIDE DEF n
  <2>6. q.image.next <= q.image.next /\ EdgesSound(q.image)
    BY <2>1, StoreFacts DEF SessionSound, EdgesSound, SoundStore
  <2>7. CopySound(q, n)
    BY <2>3, <2>5, <2>6 DEF CopySound
  <2>8. applying'[s] = n
    BY <2>2, EntriesTyped
  <2>9. session'[s] = q /\ q # NoSession
    BY <1>1, <1>3 DEF q, Staging
  <2> QED BY <1>1, <2>2, <2>5, <2>7, <2>8, <2>9, EntriesTyped, SessionStep
<1>4. CASE ~(Staging(s) /\ Ready(q.answer, p.skip))
  <2>1. applying' = [applying EXCEPT ![s] = NoSession]
    BY <1>4, EntriesTyped DEF BeginApply
  <2>2. applying'[s] = NoSession
    BY <2>1, EntriesTyped
  <2> QED BY <1>1, <2>1, <2>2, EntriesTyped, SessionStep
<1> QED BY <1>3, <1>4

LEMMA WriteStep ==
    ASSUME ConflictInv, NEW s \in Clones, NEW c \in Conflict, WriteAnswer(s, c)
    PROVE  ConflictInv'
<1> DEFINE q == session[s]
           p == applying[s]
           left == DOMAIN p.answers \ {c}
           image == SettleNext(p.image, q, c, p.answers[c])
           rest == [e \in left |-> p.answers[e]]
           n == [p EXCEPT !.image = image, !.answers = rest]
<1>1. /\ UNCHANGED <<store, snaps, tip, last, drawn, edits, session, merges>>
      /\ p # NoSession /\ p.image # NoStore /\ c \in DOMAIN p.answers
  BY DEF WriteAnswer, vars, Writing
<1>2. /\ p \in Applies /\ q # NoSession /\ SessionSound(q) /\ CopySound(q, p)
  BY <1>1, EntriesTyped
<1>3. CASE image = NoStore
  <2>1. applying' = [applying EXCEPT ![s] = NoSession]
    BY <1>3, EntriesTyped DEF WriteAnswer
  <2>2. applying'[s] = NoSession
    BY <2>1, EntriesTyped
  <2> QED BY <1>1, <2>1, <2>2, EntriesTyped, SessionStep
<1>4. CASE image # NoStore
  <2>1. applying' = [applying EXCEPT ![s] = n]
    <3>1. applying' = [applying EXCEPT ![s] = IF image = NoStore THEN NoSession ELSE n]
      BY EntriesTyped DEF WriteAnswer
    <3> HIDE DEF image, n
    <3> QED BY <1>4, <3>1
  <2>2. c \in Clashes(q.base, q.ours, q.theirs) /\ ToWrite(c, p.answers[c])
    BY <1>1, <1>2 DEF CopySound
  <2>3. EdgesSound(image) /\ q.image.next <= image.next
    BY <1>2, <1>4, <2>2, StatementSound DEF CopySound
  <2> HIDE DEF q, p, image
  <2>4. image \in Stores
    BY <2>3 DEF EdgesSound, SoundStore
  <2>5. DOMAIN rest = left /\ \A e \in left : rest[e] = p.answers[e] /\ ToWrite(e, rest[e])
    <3>1. \A e \in left : ToWrite(e, p.answers[e])
      BY <1>2 DEF CopySound
    <3> HIDE DEF left
    <3> QED BY <3>1
  <2>6. rest \in Answered
    <3>1. left \subseteq Conflict
      BY <1>2, ClashFacts DEF CopySound
    <3>2. rest \in [left -> Answer]
      BY <2>5 DEF ToWrite
    <3> QED BY <3>1, <3>2 DEF Answered
  <2>7. left \subseteq Clashes(q.base, q.ours, q.theirs)
    BY <1>2 DEF CopySound
  <2> HIDE DEF rest, left
  <2>8. n \in Applies /\ n.image = image /\ n.answers = rest
    BY <1>2, <2>4, <2>6 DEF Applies
  <2> HIDE DEF n
  <2>9. CopySound(q, n)
    BY <2>3, <2>5, <2>7, <2>8 DEF CopySound
  <2>10. applying'[s] = n
    BY <2>1, EntriesTyped
  <2>11. session'[s] = q
    BY <1>1 DEF q
  <2> QED BY <1>1, <1>2, <2>1, <2>8, <2>9, <2>10, <2>11, EntriesTyped, SessionStep
<1> QED BY <1>3, <1>4

LEMMA ReplaceStep ==
    ASSUME ConflictInv, NEW s \in Clones, ReplaceDatabase(s)
    PROVE  ConflictInv'
<1> DEFINE image == applying[s].image
<1>1. /\ UNCHANGED <<snaps, tip, last, drawn, edits, merges>>
      /\ applying[s] # NoSession /\ image # NoStore
      /\ applying' = [applying EXCEPT ![s] = NoSession]
  BY DEF ReplaceDatabase, Writing
<1>2. EdgesSound(image)
  BY <1>1, EntriesTyped DEF CopySound
<1>3. applying'[s] = NoSession
  BY <1>1, EntriesTyped
<1>4. CASE UNCHANGED <<store, session>>
  BY <1>1, <1>3, <1>4, EntriesTyped, SessionStep
<1>5. CASE store' = [store EXCEPT ![s] = image] /\ session' = [session EXCEPT ![s] = NoSession]
  <2> HIDE DEF image
  <2>1. image \in Stores
    BY <1>2 DEF EdgesSound, SoundStore
  <2>2. /\ store'[s] = image /\ (\A v \in Clones \ {s} : store'[v] = store[v])
        /\ store' \in [Clones -> Stores \cup {NoStore}]
    BY <1>5, <2>1 DEF ConflictInv, CloneInv, StoresSound
  <2>3. \A v \in Clones : EdgesSound(store'[v])
    BY <1>2, <2>2 DEF ConflictInv
  <2>4. StoresSound'
    BY <2>2, <2>3 DEF StoresSound, EdgesSound
  <2>5. CloneInv' /\ (1 \in Snapshots)'
    BY <1>1, <2>4 DEF ConflictInv, CloneInv, SnapsSound, RefsTyped, CountersTyped, Snapshots
  <2>6. ConflictsTyped'
    BY <1>1, <1>5 DEF ConflictInv, ConflictsTyped
  <2>7. /\ session'[s] = NoSession
        /\ \A v \in Clones \ {s} : session'[v] = session[v] /\ applying'[v] = applying[v]
    BY <1>1, <1>5 DEF ConflictInv, ConflictsTyped
  <2>8. \A v \in Clones : Staging(v)' => SessionSound(session'[v])
    BY <2>7 DEF ConflictInv, Staging
  <2>9. \A v \in Clones : Writing(v)' => Staging(v)' /\ CopySound(session'[v], applying'[v])
    BY <1>3, <2>7 DEF ConflictInv, Staging, Writing
  <2> QED BY <1>1, <2>3, <2>5, <2>6, <2>8, <2>9 DEF ConflictInv
<1> QED BY <1>4, <1>5 DEF ReplaceDatabase

LEMMA AbortStep ==
    ASSUME ConflictInv, NEW s \in Clones, Abort(s)
    PROVE  ConflictInv'
<1>1. /\ ~Writing(s) /\ session' = [session EXCEPT ![s] = NoSession]
      /\ UNCHANGED <<store, snaps, tip, last, drawn, edits, applying, merges>>
  BY DEF Abort, vars
<1>2. session'[s] = NoSession
  BY <1>1, EntriesTyped
<1> QED BY <1>1, <1>2, EntriesTyped, SessionStep DEF Writing

LEMMA ConflictStep == ConflictInv /\ [ConflictNext]_conflictVars => ConflictInv'
<1>1. ASSUME ConflictInv, ConflictNext
      PROVE  ConflictInv'
  BY <1>1, ChangeStep, ImportStep, ResolveStep, AskStep, BeginStep, WriteStep, ReplaceStep,
     AbortStep DEF ConflictNext
<1>2. ASSUME ConflictInv, UNCHANGED conflictVars
      PROVE  ConflictInv'
  BY <1>2 DEF conflictVars, vars, ConflictInv, CloneInv, StoresSound, SnapsSound, RefsTyped,
              CountersTyped, Snapshots, ConflictsTyped, Staging, Writing
<1> QED BY <1>1, <1>2

\* Whatever is changed, merged, answered and applied, in whatever order and by however
\* many clones, a database keeps the foreign keys, the display numbers and the UNIQUE
\* index of the edges, and a session the sides and conflicts it was staged with.
THEOREM SessionsOKTheorem == ConflictSpec => []SessionsOK
<1>1. ConflictSpec => []ConflictInv
  BY ConflictsInit, ConflictStep, PTL DEF ConflictSpec
<1> QED BY <1>1, ConflictInvSessionsOK, PTL

----------------------------------------------------------------------------
(***************************************************************************)
(* The last word.  No command deletes a task here, and an edge keeps its   *)
(* id and its columns in whatever database it is: then a session's two     *)
(* claimants of an edge are all there are, and what one answer writes      *)
(* touches no row but those it is about.                                   *)
(***************************************************************************)
\* The databases that the clones start with.
Beginnings == {Genesis, [Genesis EXCEPT !.row.dep[1] = NoRow]}

\* A database that has deleted no task and no event, and whose edges are those of
\* `edge`, drawn up to n.
Known(edge, n, r) ==
    /\ r.gone.task = {} /\ Rows(Genesis.row.event) \subseteq Rows(r.row.event)
    /\ \A d \in Rows(r.row.dep) : d <= n /\ r.row.dep[d] = edge[d]

\* The rows of a database come from the sides of a session.
FromSides(q, r) == Rows(r.row.dep) \subseteq Rows(q.ours.row.dep) \cup Rows(q.theirs.row.dep)

\* A database says of row x what answer a to conflict c does.
Says(r, q, c, a, x) ==
    /\ r.row[x[1]][x[2]] = Said(q, c, a, x)
    /\ Said(q, c, a, x) = NoRow <=> x[2] \in r.gone[x[1]]

Keys == ({"task"} \X TaskIds) \cup ({"member"} \X AgentIds) \cup ({"dep"} \X DepIds)

SameAt(r, z, x) ==
    /\ z.row[x[1]][x[2]] = r.row[x[1]][x[2]]
    /\ x[2] \in z.gone[x[1]] <=> x[2] \in r.gone[x[1]]

\* What no answer is about.
Rest(r) == <<r.row.agent, r.row.event, r.next>>

\* Of the tasks of a conflict no side has deleted one.
LEMMA TaskConflictRows ==
    ASSUME NEW q, NEW edge, NEW n, Known(edge, n, q.ours), Known(edge, n, q.theirs),
           NEW c \in Clashes(q.base, q.ours, q.theirs), c[1] = "task", NEW side
    PROVE  Chosen(q, c, side) # NoRow
<1> DEFINE b == q.base.row.task[c[2]]
           o == q.ours.row.task[c[2]]
           t == q.theirs.row.task[c[2]]
<1>1. TaskClash(b, o, t, c[2] \in q.ours.gone.task, c[2] \in q.theirs.gone.task)
  BY DEF Clashes
<1>2. ~(c[2] \in q.ours.gone.task) /\ ~(c[2] \in q.theirs.gone.task)
  BY DEF Known
<1>3. BothEdited(b, o, t)
  BY <1>1, <1>2 DEF TaskClash, DeleteClash
<1>4. o # NoRow /\ t # NoRow
  BY <1>3 DEF BothEdited, Edited
<1> QED BY <1>4 DEF Chosen, Side

\* Of an edge in conflict each side has one row, i that one and j the other, and there
\* are no others.
ClaimedBy(edge, q, d, side, i, j) ==
    /\ i \in DepIds /\ j \in DepIds /\ Claimants(q, d) = {i, j}
    /\ DepsBeforeElection(q.base, q.ours, q.theirs)[i] = edge[i]
    /\ Side(q, side).row.dep[i] = edge[i] /\ edge[i] # NoRow
    /\ i \in Rows(Side(q, side).row.dep)
    /\ \A e \in Rows(q.ours.row.dep) \cup Rows(q.theirs.row.dep) :
          edge[e].task = edge[i].task /\ edge[e].on = edge[i].on => e \in {i, j}

LEMMA TwoClaimants ==
    ASSUME NEW q, SessionSound(q), NEW edge, NEW n, Known(edge, n, q.ours), Known(edge, n, q.theirs),
           NEW d \in EdgeClashes(DepsBeforeElection(q.base, q.ours, q.theirs)),
           NEW side \in Sides
    PROVE  ClaimedBy(edge, q, d, side, Claimant(q, d, side), Claimant(q, d, Opposite(side)))
<1> DEFINE deps == DepsBeforeElection(q.base, q.ours, q.theirs)
           o == q.ours.row.dep
           t == q.theirs.row.dep
           i == Claimant(q, d, side)
           j == Claimant(q, d, Opposite(side))
           here == Side(q, side).row.dep
           there == Side(q, Opposite(side)).row.dep
<1>1. /\ q.ours \in Stores /\ q.theirs \in Stores /\ EdgesOnce(o) /\ EdgesOnce(t)
      /\ Opposite(side) \in Sides
  BY DEF SessionSound, EdgesSound, SoundStore, Opposite, Sides
<1>2. /\ i \in DepIds /\ i \in Claimants(q, d) /\ i \in Rows(here)
      /\ j \in DepIds /\ j \in Claimants(q, d) /\ j \in Rows(there)
  BY <1>1, ClaimantsOfBoth
<1>3. {here, there} = {o, t}
  BY DEF Side, Opposite, Sides
<1>4. DOMAIN o = DepIds /\ DOMAIN t = DepIds
  BY <1>1, StoreFacts
<1>5. (\A e \in Rows(o) : o[e] = edge[e]) /\ (\A e \in Rows(t) : t[e] = edge[e])
  BY DEF Known
<1>6. Claimants(q, d) = SameEdge(deps, d)
  BY DEF Claimants
<1>7. ASSUME NEW e \in Rows(deps)
      PROVE  deps[e] = edge[e] /\ (e \in Rows(o) \/ e \in Rows(t))
  <2>1. e \in DepIds /\ deps[e] \in {o[e], t[e]} \ {NoRow}
    BY <1>7, DepFromSide
  <2> HIDE DEF deps, o, t
  <2> QED BY <1>4, <1>5, <2>1 DEF Rows
<1>8. Side(q, side).row.dep = here
  OBVIOUS
<1> HIDE DEF deps, o, t, here, there, i, j
<1>9. \A e \in Claimants(q, d) :
          e \in Rows(deps) /\ deps[e].task = deps[d].task /\ deps[e].on = deps[d].on
  BY <1>6 DEF SameEdge
<1>10. \A e \in Rows(here) : here[e] = edge[e] /\ here[e] # NoRow
  BY <1>3, <1>5 DEF Rows
<1>11. \A e \in Rows(there) : there[e] = edge[e]
  BY <1>3, <1>5
<1>12. /\ deps[i] = edge[i] /\ deps[j] = edge[j]
       /\ edge[i].task = edge[j].task /\ edge[i].on = edge[j].on
  BY <1>2, <1>7, <1>9
<1>13. EdgesOnce(here) /\ EdgesOnce(there)
  BY <1>1, <1>3
<1>14. ASSUME NEW e \in Rows(o) \cup Rows(t), edge[e].task = edge[i].task, edge[e].on = edge[i].on
       PROVE  e \in {i, j}
  <2>1. CASE e \in Rows(here)
    BY <1>2, <1>10, <1>13, <1>14, <2>1 DEF EdgesOnce
  <2>2. CASE e \in Rows(there)
    BY <1>2, <1>11, <1>12, <1>13, <1>14, <2>2 DEF EdgesOnce
  <2> QED BY <1>3, <1>14, <2>1, <2>2
<1>15. Claimants(q, d) = {i, j}
  <2>1. ASSUME NEW e \in Claimants(q, d)
        PROVE  e \in {i, j}
    <3>1. edge[e].task = edge[i].task /\ edge[e].on = edge[i].on /\ e \in Rows(o) \cup Rows(t)
      BY <1>2, <1>7, <1>9, <1>12, <2>1
    <3> QED BY <1>14, <3>1
  <2> QED BY <1>2, <2>1
<1>16. ClaimedBy(edge, q, d, side, i, j)
  BY <1>2, <1>8, <1>10, <1>12, <1>14, <1>15 DEF deps, o, t, ClaimedBy
<1> QED BY <1>16 DEF i, j

\* What every statement leaves: the rows come from the sides, the answer is followed,
\* and no row it does not name is touched.
Follows(edge, n, q, r, z, c, a) ==
    /\ Known(edge, n, z) /\ FromSides(q, z)
    /\ \A x \in NamedBy(q, c) : Says(z, q, c, a, x)
    /\ \A x \in Keys \ NamedBy(q, c) : SameAt(r, z, x)
    /\ Rest(z) = Rest(r)

LEMMA NamedAreKeys ==
    ASSUME NEW q, SessionSound(q), NEW c \in Clashes(q.base, q.ours, q.theirs)
    PROVE  NamedBy(q, c) \subseteq Keys
<1>1. Claimants(q, c[2]) \subseteq DepIds
  BY DEF Claimants, SameEdge, DepsBeforeElection, Rows
<1>2. c = <<c[1], c[2]>>
  BY ClashFacts DEF Conflict
<1> QED BY <1>1, <1>2, ClashFacts DEF NamedBy, Keys

LEMMA SameKeys ==
    ASSUME NEW r, NEW z, NEW names,
           \A k \in TaskIds : <<"task", k>> \notin names =>
              z.row.task[k] = r.row.task[k] /\ (k \in z.gone.task <=> k \in r.gone.task),
           \A i \in AgentIds : <<"member", i>> \notin names =>
              z.row.member[i] = r.row.member[i] /\ (i \in z.gone.member <=> i \in r.gone.member),
           \A d \in DepIds : <<"dep", d>> \notin names =>
              z.row.dep[d] = r.row.dep[d] /\ (d \in z.gone.dep <=> d \in r.gone.dep)
    PROVE  \A x \in Keys \ names : SameAt(r, z, x)
<1> SUFFICES ASSUME NEW x \in Keys, x \notin names PROVE SameAt(r, z, x)
  OBVIOUS
<1>1. CASE x \in {"task"} \X TaskIds
  <2>1. PICK k \in TaskIds : x = <<"task", k>>
    BY <1>1
  <2> QED BY <2>1 DEF SameAt
<1>2. CASE x \in {"member"} \X AgentIds
  <2>1. PICK i \in AgentIds : x = <<"member", i>>
    BY <1>2
  <2> QED BY <2>1 DEF SameAt
<1>3. CASE x \in {"dep"} \X DepIds
  <2>1. PICK d \in DepIds : x = <<"dep", d>>
    BY <1>3
  <2> QED BY <2>1 DEF SameAt
<1> QED BY <1>1, <1>2, <1>3 DEF Keys

LEMMA TaskAnswered ==
    ASSUME NEW edge, NEW n, NEW q, NEW r \in Stores, Known(edge, n, r), FromSides(q, r),
           NEW c, NEW k \in TaskIds, c = <<"task", k>>, NEW a, NEW v \in TaskRow,
           Chosen(q, c, a.side) # NoRow, v = Overridden(Chosen(q, c, a.side), a)
    PROVE  Follows(edge, n, q, r, Upsert(r, "task", k, v), c, a)
<1> DEFINE z == Upsert(r, "task", k, v)
<1>1. /\ z.row.task = [r.row.task EXCEPT ![k] = v] /\ z.row.member = r.row.member
      /\ z.row.dep = r.row.dep /\ z.gone.member = r.gone.member /\ z.gone.dep = r.gone.dep
      /\ z.gone.task = r.gone.task \ {k} /\ z.row.agent = r.row.agent
      /\ z.row.event = r.row.event /\ z.next = r.next
  BY DEF Upsert, Stores, Tables
<1>2. r.row.task \in TaskTable /\ v # NoRow
  BY StoreFacts, IdAssumption DEF TaskTable
<1>3. NamedBy(q, c) = {c} /\ Said(q, c, a, c) = v /\ c[1] = "task" /\ c[2] = k
  BY DEF NamedBy, Said
<1> HIDE DEF z
<1>4. z.row.task[k] = v /\ \A i \in TaskIds \ {k} : z.row.task[i] = r.row.task[i]
  BY <1>1, <1>2 DEF TaskTable
<1>5. Known(edge, n, z) /\ FromSides(q, z)
  BY <1>1 DEF Known, FromSides
<1>6. Says(z, q, c, a, c)
  BY <1>1, <1>2, <1>3, <1>4 DEF Says
<1>7. \A x \in Keys \ {c} : SameAt(r, z, x)
  BY <1>1, <1>4, SameKeys
<1> QED BY <1>1, <1>3, <1>5, <1>6, <1>7 DEF Follows, Rest, z

LEMMA MemberAnswered ==
    ASSUME NEW edge, NEW n, NEW q, NEW r \in Stores, Known(edge, n, r), FromSides(q, r),
           NEW c, NEW i \in AgentIds, c = <<"member", i>>, NEW a, NEW v \in MemberRow \cup {NoRow},
           NEW z, z.row.task = r.row.task, z.row.dep = r.row.dep,
           z.gone.task = r.gone.task, z.gone.dep = r.gone.dep,
           z.row.member = [r.row.member EXCEPT ![i] = v], Rest(z) = Rest(r),
           \A j \in AgentIds \ {i} : j \in z.gone.member <=> j \in r.gone.member,
           v = NoRow <=> i \in z.gone.member,
           Said(q, c, a, c) = v
    PROVE  Follows(edge, n, q, r, z, c, a)
<1>1. r.row.member \in [AgentIds -> MemberRow \cup {NoRow}]
  BY StoreFacts
<1>2. NamedBy(q, c) = {c} /\ c[1] = "member" /\ c[2] = i
  BY DEF NamedBy
<1>3. z.row.member[i] = v /\ \A j \in AgentIds \ {i} : z.row.member[j] = r.row.member[j]
  BY <1>1
<1>4. Known(edge, n, z) /\ FromSides(q, z)
  BY DEF Known, FromSides, Rest
<1>5. Says(z, q, c, a, c)
  BY <1>2, <1>3 DEF Says
<1>6. \A x \in Keys \ {c} : SameAt(r, z, x)
  BY <1>3, SameKeys
<1> QED BY <1>2, <1>4, <1>5, <1>6 DEF Follows

LEMMA DepAnswered ==
    ASSUME NEW edge, NEW n, NEW q, NEW r \in Stores, Known(edge, n, r), FromSides(q, r),
           NEW c, NEW i \in DepIds, c = <<"dep", i>>, NEW a, NEW v,
           v # NoRow => /\ v = edge[i] /\ i <= n
                        /\ i \in Rows(q.ours.row.dep) \cup Rows(q.theirs.row.dep),
           NEW z, z.row.task = r.row.task, z.row.member = r.row.member,
           z.gone.task = r.gone.task, z.gone.member = r.gone.member,
           z.row.dep = [r.row.dep EXCEPT ![i] = v], Rest(z) = Rest(r),
           \A j \in DepIds \ {i} : j \in z.gone.dep <=> j \in r.gone.dep,
           v = NoRow <=> i \in z.gone.dep,
           Said(q, c, a, c) = v
    PROVE  Follows(edge, n, q, r, z, c, a)
<1>1. r.row.dep \in DepTable
  BY StoreFacts DEF DepTable
<1>2. NamedBy(q, c) = {c} /\ c[1] = "dep" /\ c[2] = i
  BY DEF NamedBy
<1>3. z.row.dep[i] = v /\ \A j \in DepIds \ {i} : z.row.dep[j] = r.row.dep[j]
  BY <1>1 DEF DepTable
<1>4. Rows(z.row.dep) \ {i} \subseteq Rows(r.row.dep) /\ DOMAIN z.row.dep = DepIds
        /\ (i \in Rows(z.row.dep) => v # NoRow)
  BY <1>1, <1>3 DEF Rows, DepTable
<1>5. Known(edge, n, z)
  <2>1. ASSUME NEW d \in Rows(z.row.dep)
        PROVE  d <= n /\ z.row.dep[d] = edge[d]
    <3>1. CASE d = i
      BY <1>3, <1>4, <3>1
    <3>2. CASE d # i
      <4>1. d \in Rows(r.row.dep) /\ d \in DepIds
        BY <1>4, <3>2 DEF Rows
      <4> QED BY <1>3, <3>2, <4>1 DEF Known
    <3> QED BY <3>1, <3>2
  <2> QED BY <2>1 DEF Known, Rest
<1>6. FromSides(q, z)
  BY <1>4 DEF FromSides
<1>7. Says(z, q, c, a, c)
  BY <1>2, <1>3 DEF Says
<1>8. \A x \in Keys \ {c} : SameAt(r, z, x)
  BY <1>3, SameKeys
<1> QED BY <1>2, <1>5, <1>6, <1>7, <1>8 DEF Follows

LEMMA EdgeAnswered ==
    ASSUME NEW edge, NEW n, NEW q, SessionSound(q), Known(edge, n, q.ours), Known(edge, n, q.theirs),
           NEW r \in Stores, Known(edge, n, r), FromSides(q, r),
           NEW c, NEW d \in EdgeClashes(DepsBeforeElection(q.base, q.ours, q.theirs)),
           c = <<"edge", d>>, NEW a, a.side \in Sides
    PROVE  Follows(edge, n, q, r, SettleEdge(r, q, d, a.side), c, a)
<1> DEFINE side == a.side
           i == Claimant(q, d, side)
           j == Claimant(q, d, Opposite(side))
           losers == Losers(r, q, d, side)
           deps == [e \in DepIds |-> IF e = i THEN DepsBeforeElection(q.base, q.ours, q.theirs)[i]
                                     ELSE IF e \in losers THEN NoRow ELSE r.row.dep[e]]
           gone == (r.gone.dep \cup losers) \ {i}
           z == SettleEdge(r, q, d, side)
<1>1. /\ i \in DepIds /\ j \in DepIds /\ Claimants(q, d) = {i, j}
      /\ DepsBeforeElection(q.base, q.ours, q.theirs)[i] = edge[i]
      /\ Side(q, side).row.dep[i] = edge[i] /\ edge[i] # NoRow
      /\ i \in Rows(Side(q, side).row.dep)
      /\ \A e \in Rows(q.ours.row.dep) \cup Rows(q.theirs.row.dep) :
            edge[e].task = edge[i].task /\ edge[e].on = edge[i].on => e \in {i, j}
  <2>1. ClaimedBy(edge, q, d, side, i, j)
    BY TwoClaimants
  <2> QED BY <2>1 DEF ClaimedBy
<1>2. z = [r EXCEPT !.row.dep = deps, !.gone.dep = gone]
  BY DEF SettleEdge
<1>3. /\ z.row.task = r.row.task /\ z.row.member = r.row.member /\ z.row.dep = deps
      /\ z.gone.task = r.gone.task /\ z.gone.member = r.gone.member /\ z.gone.dep = gone
      /\ z.row.event = r.row.event /\ Rest(z) = Rest(r)
  BY <1>2 DEF Stores, Tables, Rest
<1>4. losers = {j} \ {i}
  <2>1. losers = ({e \in Rows(r.row.dep) : r.row.dep[e].task = edge[i].task
                                              /\ r.row.dep[e].on = edge[i].on} \cup {j}) \ {i}
    BY <1>1 DEF Losers
  <2>2. ASSUME NEW e \in Rows(r.row.dep), r.row.dep[e].task = edge[i].task,
               r.row.dep[e].on = edge[i].on
        PROVE  e \in {i, j}
    <3>1. r.row.dep[e] = edge[e] /\ e \in Rows(q.ours.row.dep) \cup Rows(q.theirs.row.dep)
      BY DEF Known, FromSides
    <3> HIDE DEF i, j
    <3> QED BY <1>1, <2>2, <3>1
  <2> HIDE DEF i, j, losers
  <2> QED BY <2>1, <2>2
<1>5. NamedBy(q, c) = {<<"dep", i>>, <<"dep", j>>}
  <2>1. NamedBy(q, c) = {<<"dep", e>> : e \in {i, j}}
    BY <1>1 DEF NamedBy
  <2> QED BY <2>1
<1>6. /\ Said(q, c, a, <<"dep", i>>) = edge[i]
      /\ j # i => Said(q, c, a, <<"dep", j>>) = NoRow
  BY <1>1 DEF Said, Chosen
<1> HIDE DEF i, j, losers, z
<1>7. /\ DOMAIN deps = DepIds /\ deps[i] = edge[i] /\ (j # i => deps[j] = NoRow)
      /\ \A e \in DepIds \ {i, j} : deps[e] = r.row.dep[e]
  BY <1>1, <1>4
<1>8. i \notin gone /\ (j # i => j \in gone) /\ \A e \in DepIds \ {i, j} : e \in gone <=> e \in r.gone.dep
  BY <1>4
<1> HIDE DEF deps, gone
<1>9. r.row.dep \in DepTable
  BY StoreFacts DEF DepTable
<1>10. \A e \in Rows(deps) : e = i \/ (e # i /\ e # j /\ e \in DepIds /\ e \in Rows(r.row.dep) /\ deps[e] = r.row.dep[e])
  BY <1>7, <1>9 DEF Rows, DepTable
<1>11. i \in Rows(q.ours.row.dep) \cup Rows(q.theirs.row.dep) /\ i <= n
  BY <1>1 DEF Side, Sides, Known
<1>12. Known(edge, n, z)
  BY <1>3, <1>7, <1>10, <1>11 DEF Known
<1>13. FromSides(q, z)
  BY <1>3, <1>10, <1>11 DEF FromSides
<1>14. \A x \in NamedBy(q, c) : Says(z, q, c, a, x)
  <2>1. Says(z, q, c, a, <<"dep", i>>)
    BY <1>1, <1>3, <1>6, <1>7, <1>8 DEF Says
  <2>2. j # i => Says(z, q, c, a, <<"dep", j>>)
    BY <1>3, <1>6, <1>7, <1>8 DEF Says
  <2> QED BY <1>5, <2>1, <2>2
<1>15. \A x \in Keys \ NamedBy(q, c) : SameAt(r, z, x)
  BY <1>3, <1>5, <1>7, <1>8, SameKeys
<1> QED BY <1>3, <1>12, <1>13, <1>14, <1>15 DEF Follows, z

LEMMA AnswerFollowed ==
    ASSUME NEW edge, NEW n, NEW q, SessionSound(q), Known(edge, n, q.ours), Known(edge, n, q.theirs),
           NEW r \in Stores, Known(edge, n, r), FromSides(q, r),
           NEW c \in Clashes(q.base, q.ours, q.theirs), NEW a, ToWrite(c, a)
    PROVE  Follows(edge, n, q, r, Settle(r, q, c, a), c, a)
<1> DEFINE side == a.side
           k == c[2]
           v == Chosen(q, c, side)
<1>1. side \in Sides /\ a.owner \in AgentIds \cup {Nobody, Kept} /\ c = <<c[1], k>>
  BY ClashFacts DEF ToWrite, Answer, Conflict
<1>2. CASE c[1] = "edge"
  <2>1. k \in EdgeClashes(DepsBeforeElection(q.base, q.ours, q.theirs))
    BY <1>2, ClashFacts
  <2>2. Settle(r, q, c, a) = SettleEdge(r, q, k, side)
    BY <1>2 DEF Settle
  <2>3. c = <<"edge", k>>
    BY <1>1, <1>2
  <2> HIDE DEF k
  <2> QED BY <1>1, <2>1, <2>2, <2>3, EdgeAnswered
<1>3. CASE c[1] = "task"
  <2>1. k \in TaskIds /\ v = Side(q, side).row.task[k] /\ v # NoRow
    BY <1>3, ClashFacts, TaskConflictRows DEF Chosen
  <2>2. v \in TaskRow
    BY <1>1, <2>1, SideFacts
  <2>3. Overridden(v, a) \in TaskRow
    BY <1>1, <2>2 DEF Overridden, TaskRow
  <2>4. Settle(r, q, c, a) = Upsert(r, "task", k, Overridden(v, a))
    BY <1>3, <2>1 DEF Settle
  <2>5. c = <<"task", k>>
    BY <1>1, <1>3
  <2> HIDE DEF k
  <2> QED BY <2>1, <2>3, <2>4, <2>5, TaskAnswered
<1>4. CASE c[1] = "member"
  <2>1. k \in AgentIds /\ v = Side(q, side).row.member[k] /\ c = <<"member", k>>
    BY <1>1, <1>4, ClashFacts DEF Chosen
  <2>2. v \in MemberRow \cup {NoRow} /\ Overridden(v, a) = v
    BY <1>1, <1>4, <2>1, SideFacts, StoreFacts DEF Overridden, ToWrite
  <2>3. Said(q, c, a, c) = v
    BY <1>4, <2>2 DEF Said
  <2> DEFINE z == Settle(r, q, c, a)
             gone == IF v = NoRow THEN r.gone.member \cup {k} ELSE r.gone.member \ {k}
  <2>4. z = [r EXCEPT !.row.member[k] = v, !.gone.member = gone]
    <3>1. CASE v = NoRow
      BY <1>4, <3>1 DEF Settle, Delete
    <3>2. CASE v # NoRow
      BY <1>4, <2>2, <3>2 DEF Settle, Upsert
    <3> QED BY <3>1, <3>2
  <2> HIDE DEF z, v, k
  <2>5. /\ z.row.task = r.row.task /\ z.row.dep = r.row.dep
        /\ z.gone.task = r.gone.task /\ z.gone.dep = r.gone.dep
        /\ z.row.member = [r.row.member EXCEPT ![k] = v] /\ z.gone.member = gone
        /\ Rest(z) = Rest(r)
    BY <2>4 DEF Stores, Tables, Rest
  <2> QED BY <2>1, <2>2, <2>3, <2>5, MemberAnswered DEF z
<1>5. CASE c[1] = "dep"
  <2>1. k \in DepIds /\ v = Side(q, side).row.dep[k] /\ c = <<"dep", k>>
    BY <1>1, <1>5, ClashFacts DEF Chosen
  <2>2. v \in DepRow \cup {NoRow} /\ Overridden(v, a) = v
           /\ DOMAIN Side(q, side).row.dep = DepIds
    BY <1>1, <1>5, <2>1, SideFacts, StoreFacts DEF Overridden, ToWrite
  <2>3. Said(q, c, a, c) = v
    BY <1>5, <2>2 DEF Said
  <2> DEFINE z == Settle(r, q, c, a)
             gone == IF v = NoRow THEN r.gone.dep \cup {k} ELSE r.gone.dep \ {k}
  <2>4. z = [r EXCEPT !.row.dep[k] = v, !.gone.dep = gone]
    <3>1. CASE v = NoRow
      BY <1>5, <3>1 DEF Settle, Delete
    <3>2. CASE v # NoRow
      BY <1>5, <2>2, <3>2 DEF Settle, Upsert
    <3> QED BY <3>1, <3>2
  <2>5. v # NoRow => /\ v = edge[k] /\ k <= n
                      /\ k \in Rows(q.ours.row.dep) \cup Rows(q.theirs.row.dep)
    <3>1. v # NoRow => k \in Rows(Side(q, side).row.dep)
      BY <2>1, <2>2 DEF Rows
    <3> QED BY <1>1, <2>1, <3>1 DEF Side, Sides, Known
  <2> HIDE DEF z, v, k
  <2>6. /\ z.row.task = r.row.task /\ z.row.member = r.row.member
        /\ z.gone.task = r.gone.task /\ z.gone.member = r.gone.member
        /\ z.row.dep = [r.row.dep EXCEPT ![k] = v] /\ z.gone.dep = gone
        /\ Rest(z) = Rest(r)
    BY <2>4 DEF Stores, Tables, Rest
  <2>7. /\ \A j \in DepIds \ {k} : j \in z.gone.dep <=> j \in r.gone.dep
        /\ v = NoRow <=> k \in z.gone.dep
    BY <2>6
  <2>8. Follows(edge, n, q, r, z, c, a)
    <3> HIDE DEF gone
    <3> QED BY <2>1, <2>3, <2>5, <2>6, <2>7, DepAnswered
  <2> QED BY <2>8 DEF z
<1> QED BY <1>2, <1>3, <1>4, <1>5, ClashFacts

\* What has been written of a session's answers.
Written(q, p) ==
    LET answers == AtOurs(q.answer)
        done == DOMAIN answers \ DOMAIN p.answers
    IN  /\ FromSides(q, p.image)
        /\ \A c \in DOMAIN p.answers : p.answers[c] = answers[c]
        /\ \A c \in done, e \in DOMAIN p.answers : Before(c, e)
        /\ \A c \in done : \A x \in NamedBy(q, c) :
              (\A e \in done : x \in NamedBy(q, e) => ~Before(c, e))
                 => Says(p.image, q, c, answers[c], x)
        /\ \A x \in Keys : (\A c \in done : x \notin NamedBy(q, c)) => SameAt(q.image, p.image, x)
        /\ Rest(p.image) = Rest(q.image)

\* A session has the candidate that the merge made, over a base that every clone
\* comes from, and of events of which no two sides have different ones.
AsStaged(q) ==
    /\ q.image = Candidate(q.base, q.ours, q.theirs)
    /\ q.base \in {Empty} \cup Beginnings
    /\ \A e \in TaskIds : ~Tampered(q.base.row.event[e], q.ours.row.event[e], q.theirs.row.event[e])

\* The databases of a clone: its own, those of its session and the copy it writes.
KnownAt(edge, n, r, q, p) ==
    /\ Known(edge, n, r)
    /\ q # NoSession =>
          Known(edge, n, q.ours) /\ Known(edge, n, q.theirs) /\ Known(edge, n, q.image)
    /\ p # NoSession /\ p.image # NoStore => Known(edge, n, p.image)

WordsAt(q, p) ==
    /\ q # NoSession => FromSides(q, q.image) /\ AsStaged(q)
    /\ p # NoSession /\ p.image # NoStore => Written(q, p)

Ledger(edge) == \A s \in Clones : KnownAt(edge, drawn.dep, store[s], session[s], applying[s])

WordInv ==
    /\ ConflictInv
    /\ snaps[1].store \in Beginnings
    /\ \E edge : Ledger(edge)
    /\ \A s \in Clones : WordsAt(session[s], applying[s])

\* One more answer.
LEMMA OneMore ==
    ASSUME NEW edge, NEW n, NEW q, SessionSound(q), NEW p, CopySound(q, p), Written(q, p),
           Known(edge, n, q.ours), Known(edge, n, q.theirs), Known(edge, n, p.image),
           NEW c \in DOMAIN p.answers, \A e \in DOMAIN p.answers \ {c} : Before(c, e),
           NEW m, m.image = SettleNext(p.image, q, c, p.answers[c]), m.image # NoStore,
           DOMAIN m.answers = DOMAIN p.answers \ {c},
           \A e \in DOMAIN m.answers : m.answers[e] = p.answers[e]
    PROVE  Known(edge, n, m.image) /\ Written(q, m)
<1> DEFINE answers == AtOurs(q.answer)
           done == DOMAIN answers \ DOMAIN p.answers
           after == DOMAIN answers \ DOMAIN m.answers
<1>1. /\ c \in Clashes(q.base, q.ours, q.theirs) /\ ToWrite(c, p.answers[c])
      /\ p.image \in Stores /\ p.answers[c] = answers[c]
      /\ DOMAIN answers = Clashes(q.base, q.ours, q.theirs)
  BY AtOursWritten DEF CopySound, EdgesSound, SoundStore, Written
<1>2. m.image = Settle(p.image, q, c, answers[c])
  BY <1>1 DEF SettleNext
<1>3. FromSides(q, p.image)
  BY DEF Written
<1>4. Follows(edge, n, q, p.image, m.image, c, answers[c])
  BY <1>1, <1>2, <1>3, AnswerFollowed
<1>5. DOMAIN m.answers = DOMAIN p.answers \ {c} /\ after = done \cup {c}
  BY <1>1
<1>6. \A e \in DOMAIN m.answers : m.answers[e] = answers[e]
  BY <1>5 DEF Written
<1>7. \A e \in done : Before(e, c)
  BY DEF Written
<1>8. \A e \in after, i \in DOMAIN m.answers : Before(e, i)
  BY <1>5 DEF Written
<1>9. ASSUME NEW e \in done, NEW x \in NamedBy(q, e),
             \A i \in done : x \in NamedBy(q, i) => ~Before(e, i)
      PROVE  Says(p.image, q, e, answers[e], x)
  BY <1>9 DEF Written
<1>10. \A e \in after : NamedBy(q, e) \subseteq Keys
  BY <1>1, NamedAreKeys
<1> HIDE DEF answers, done, after
<1>11. ASSUME NEW e \in after, NEW x \in NamedBy(q, e),
              \A i \in after : x \in NamedBy(q, i) => ~Before(e, i)
       PROVE  Says(m.image, q, e, answers[e], x)
  <2>1. CASE e = c
    BY <1>4, <1>11, <2>1 DEF Follows
  <2>2. CASE e # c
    <3>1. e \in done /\ Before(e, c)
      BY <1>5, <1>7, <2>2
    <3>2. x \in Keys \ NamedBy(q, c)
      BY <1>5, <1>10, <1>11, <3>1
    <3>3. Says(p.image, q, e, answers[e], x)
      BY <1>5, <1>9, <1>11, <3>1
    <3>4. SameAt(p.image, m.image, x)
      BY <1>4, <3>2 DEF Follows
    <3> QED BY <3>3, <3>4 DEF Says, SameAt
  <2> QED BY <2>1, <2>2
<1>12. Known(edge, n, m.image) /\ FromSides(q, m.image)
  BY <1>4 DEF Follows
<1>13. ASSUME NEW x \in Keys, \A e \in after : x \notin NamedBy(q, e)
       PROVE  SameAt(q.image, m.image, x)
  <2>1. SameAt(q.image, p.image, x)
    BY <1>5, <1>13 DEF Written, answers, done
  <2>2. SameAt(p.image, m.image, x)
    BY <1>4, <1>5, <1>13 DEF Follows
  <2> QED BY <2>1, <2>2 DEF SameAt
<1>14. Rest(m.image) = Rest(q.image)
  BY <1>4 DEF Follows, Written
<1> QED BY <1>6, <1>8, <1>11, <1>12, <1>13, <1>14 DEF Written, answers, after

\* A step of clone s that draws no id: the ledger and the words of s are enough.
LEMMA WordsKept ==
    ASSUME WordInv, ConflictInv', NEW s \in Clones, UNCHANGED <<snaps, drawn>>,
           \A u \in Clones \ {s} :
              store'[u] = store[u] /\ session'[u] = session[u] /\ applying'[u] = applying[u],
           \A edge : Ledger(edge) =>
              KnownAt(edge, drawn.dep, store'[s], session'[s], applying'[s]),
           WordsAt(session'[s], applying'[s])
    PROVE  WordInv'
<1>1. PICK edge : Ledger(edge)
  BY DEF WordInv
<1>2. \A u \in Clones : KnownAt(edge, drawn'.dep, store'[u], session'[u], applying'[u])
  <2>1. KnownAt(edge, drawn.dep, store'[s], session'[s], applying'[s])
    BY <1>1
  <2> QED BY <1>1, <2>1 DEF Ledger
<1>3. Ledger(edge)'
  BY <1>2 DEF Ledger
<1>4. (\E e : Ledger(e))'
  BY <1>3
<1>5. \A u \in Clones : WordsAt(session'[u], applying'[u])
  BY DEF WordInv
<1>6. snaps'[1].store \in Beginnings
  BY DEF WordInv
<1> QED BY <1>4, <1>5, <1>6 DEF WordInv

\* What is known of the databases of a clone.
LEMMA WordFacts ==
    ASSUME WordInv, NEW s \in Clones
    PROVE  /\ \A edge : Ledger(edge) => KnownAt(edge, drawn.dep, store[s], session[s], applying[s])
           /\ WordsAt(session[s], applying[s]) /\ ConflictInv
           /\ session[s] # NoSession => SessionSound(session[s])
           /\ applying[s] # NoSession /\ applying[s].image # NoStore
                 => session[s] # NoSession /\ CopySound(session[s], applying[s])
BY EntriesTyped DEF WordInv, Ledger

\* A clone that leaves the others alone.
LEMMA OthersAlone ==
    ASSUME ConflictInv, NEW s \in Clones, NEW n, NEW q, NEW p,
           store' = store \/ store' = [store EXCEPT ![s] = n],
           session' = session \/ session' = [session EXCEPT ![s] = q],
           applying' = applying \/ applying' = [applying EXCEPT ![s] = p]
    PROVE  \A u \in Clones \ {s} :
              store'[u] = store[u] /\ session'[u] = session[u] /\ applying'[u] = applying[u]
BY DEF ConflictInv, ConflictsTyped, CloneInv, StoresSound

LEMMA ResolveWords ==
    ASSUME WordInv, ConflictInv', NEW s \in Clones, NEW c, NEW side, NEW owner,
           Resolve(s, c, side, owner)
    PROVE  WordInv'
<1> DEFINE q == session[s]
           n == [q EXCEPT !.answer[c] = [side |-> side, owner |-> owner]]
<1>1. /\ q # NoSession /\ ~Writing(s) /\ session' = [session EXCEPT ![s] = n]
      /\ UNCHANGED <<store, snaps, drawn, applying>>
  BY DEF Resolve, Staging, vars
<1>2. q \in Sessions /\ session'[s] = n
  BY <1>1, WordFacts, EntriesTyped
<1>3. n.base = q.base /\ n.ours = q.ours /\ n.theirs = q.theirs /\ n.image = q.image
  BY <1>2 DEF Sessions
<1> HIDE DEF n
<1>4. WordsAt(session'[s], applying'[s])
  BY <1>1, <1>2, <1>3, WordFacts DEF WordsAt, Writing, FromSides, AsStaged
<1>5. \A edge : Ledger(edge) => KnownAt(edge, drawn.dep, store'[s], session'[s], applying'[s])
  BY <1>1, <1>2, <1>3, WordFacts DEF KnownAt
<1>6. \A u \in Clones \ {s} :
         store'[u] = store[u] /\ session'[u] = session[u] /\ applying'[u] = applying[u]
  BY <1>1, WordFacts, OthersAlone
<1> QED BY <1>1, <1>4, <1>5, <1>6, WordsKept

LEMMA AskWords ==
    ASSUME WordInv, ConflictInv', NEW s \in Clones, NEW skip, AskApply(s, skip)
    PROVE  WordInv'
<1> DEFINE p == [skip |-> skip, answers |-> session[s].answer, image |-> NoStore]
<1>1. applying' = [applying EXCEPT ![s] = p] /\ UNCHANGED <<store, snaps, drawn, session>>
  BY DEF AskApply, vars
<1>2. applying'[s] = p /\ p.image = NoStore
  BY <1>1, WordFacts, EntriesTyped
<1> HIDE DEF p
<1>3. WordsAt(session'[s], applying'[s])
  BY <1>1, <1>2, WordFacts DEF WordsAt
<1>4. \A edge : Ledger(edge) => KnownAt(edge, drawn.dep, store'[s], session'[s], applying'[s])
  BY <1>1, <1>2, WordFacts DEF KnownAt
<1>5. \A u \in Clones \ {s} :
         store'[u] = store[u] /\ session'[u] = session[u] /\ applying'[u] = applying[u]
  BY <1>1, WordFacts, OthersAlone
<1> QED BY <1>1, <1>3, <1>4, <1>5, WordsKept

\* A clone that has no copy any more.
LEMMA CopyDropped ==
    ASSUME WordInv, ConflictInv', NEW s \in Clones,
           UNCHANGED <<store, snaps, drawn>>, session' = session \/ session' = [session EXCEPT ![s] = NoSession],
           applying' = [applying EXCEPT ![s] = NoSession]
              \/ (applying' = applying /\ ~Writing(s))
    PROVE  WordInv'
<1>1. /\ applying'[s] # NoSession => applying'[s].image = NoStore
      /\ session'[s] \in {session[s], NoSession} /\ store'[s] = store[s]
  BY WordFacts, EntriesTyped DEF Writing
<1>2. WordsAt(session'[s], applying'[s])
  BY <1>1, WordFacts DEF WordsAt
<1>3. \A edge : Ledger(edge) => KnownAt(edge, drawn.dep, store'[s], session'[s], applying'[s])
  BY <1>1, WordFacts DEF KnownAt
<1>4. \A u \in Clones \ {s} :
         store'[u] = store[u] /\ session'[u] = session[u] /\ applying'[u] = applying[u]
  BY WordFacts, OthersAlone
<1> QED BY <1>2, <1>3, <1>4, WordsKept

LEMMA BeginWords ==
    ASSUME WordInv, ConflictInv', NEW s \in Clones, BeginApply(s)
    PROVE  WordInv'
<1> DEFINE q == session[s]
           p == applying[s]
           n == [p EXCEPT !.answers = AtOurs(q.answer), !.image = q.image]
<1>1. /\ UNCHANGED <<store, snaps, drawn, session>> /\ p # NoSession
      /\ applying' = [applying EXCEPT ![s] =
             IF Staging(s) /\ Ready(q.answer, p.skip) THEN n ELSE NoSession]
  BY WordFacts, EntriesTyped DEF BeginApply, vars
<1>2. CASE Staging(s) /\ Ready(q.answer, p.skip)
  <2>1. q # NoSession /\ p \in Applies /\ applying' = [applying EXCEPT ![s] = n]
    BY <1>1, <1>2, WordFacts, EntriesTyped DEF Staging
  <2>2. n.answers = AtOurs(q.answer) /\ n.image = q.image
    BY <2>1 DEF Applies
  <2>3. applying'[s] = n /\ session'[s] = q /\ store'[s] = store[s]
    BY <1>1, <2>1, WordFacts, EntriesTyped
  <2> HIDE DEF n, p
  <2>4. Written(q, n)
    BY <2>1, <2>2, WordFacts DEF Written, WordsAt, SameAt
  <2>5. WordsAt(session'[s], applying'[s])
    BY <2>1, <2>3, <2>4, WordFacts DEF WordsAt
  <2>6. \A edge : Ledger(edge) => KnownAt(edge, drawn.dep, store'[s], session'[s], applying'[s])
    BY <2>1, <2>2, <2>3, WordFacts DEF KnownAt
  <2>7. \A u \in Clones \ {s} :
           store'[u] = store[u] /\ session'[u] = session[u] /\ applying'[u] = applying[u]
    BY <1>1, <2>1, WordFacts, OthersAlone
  <2> QED BY <1>1, <2>5, <2>6, <2>7, WordsKept
<1>3. CASE ~(Staging(s) /\ Ready(q.answer, p.skip))
  <2>1. applying' = [applying EXCEPT ![s] = NoSession]
    BY <1>1, <1>3
  <2> QED BY <1>1, <2>1, CopyDropped
<1> QED BY <1>2, <1>3

LEMMA WriteWords ==
    ASSUME WordInv, ConflictInv', NEW s \in Clones, NEW c, WriteAnswer(s, c)
    PROVE  WordInv'
<1> DEFINE q == session[s]
           p == applying[s]
           image == SettleNext(p.image, q, c, p.answers[c])
           rest == [e \in DOMAIN p.answers \ {c} |-> p.answers[e]]
           n == [p EXCEPT !.image = image, !.answers = rest]
<1>1. /\ UNCHANGED <<store, snaps, drawn, session>> /\ p # NoSession /\ p.image # NoStore
      /\ c \in DOMAIN p.answers /\ \A e \in DOMAIN p.answers \ {c} : Before(c, e)
      /\ applying' = [applying EXCEPT ![s] = IF image = NoStore THEN NoSession ELSE n]
  BY WordFacts, EntriesTyped DEF WriteAnswer, Writing, vars
<1>2. /\ q # NoSession /\ SessionSound(q) /\ CopySound(q, p) /\ Written(q, p) /\ p \in Applies
      /\ WordsAt(q, p)
  BY <1>1, WordFacts, EntriesTyped DEF WordsAt
<1>3. CASE image = NoStore
  <2>1. applying' = [applying EXCEPT ![s] = NoSession]
    BY <1>1, <1>3
  <2> QED BY <1>1, <2>1, CopyDropped
<1>4. CASE image # NoStore
  <2> HIDE DEF q, p, image, rest
  <2>1. n.image = image /\ n.answers = rest
    BY <1>2 DEF Applies
  <2>2. applying' = [applying EXCEPT ![s] = n]
    BY <1>1, <1>4
  <2> HIDE DEF n
  <2>3. applying'[s] = n /\ session'[s] = q /\ store'[s] = store[s]
    BY <1>1, <2>2, WordFacts, EntriesTyped DEF q
  <2>4. ASSUME NEW edge, Ledger(edge)
        PROVE  /\ KnownAt(edge, drawn.dep, store[s], q, p)
               /\ Known(edge, drawn.dep, n.image) /\ Written(q, n)
    <3>1. KnownAt(edge, drawn.dep, store[s], q, p)
      BY <2>4, WordFacts DEF q, p
    <3>2. /\ Known(edge, drawn.dep, q.ours) /\ Known(edge, drawn.dep, q.theirs)
          /\ Known(edge, drawn.dep, p.image)
      BY <1>1, <1>2, <3>1 DEF KnownAt
    <3>3. n.image = SettleNext(p.image, q, c, p.answers[c]) /\ n.image # NoStore
      BY <1>4, <2>1 DEF image
    <3>4. /\ DOMAIN n.answers = DOMAIN p.answers \ {c}
          /\ \A e \in DOMAIN n.answers : n.answers[e] = p.answers[e]
      BY <2>1 DEF rest
    <3>5. Known(edge, drawn.dep, n.image) /\ Written(q, n)
      BY <1>1, <1>2, <3>2, <3>3, <3>4, OneMore
    <3> QED BY <3>1, <3>5
  <2>5. \A edge : Ledger(edge) => KnownAt(edge, drawn.dep, store'[s], session'[s], applying'[s])
    BY <2>3, <2>4 DEF KnownAt
  <2>6. Written(q, n)
    BY <2>4 DEF WordInv
  <2>7. WordsAt(session'[s], applying'[s])
    BY <1>2, <2>3, <2>6 DEF WordsAt
  <2>8. \A u \in Clones \ {s} :
           store'[u] = store[u] /\ session'[u] = session[u] /\ applying'[u] = applying[u]
    BY <1>1, <2>2, WordFacts, OthersAlone
  <2> QED BY <1>1, <2>5, <2>7, <2>8, WordsKept
<1> QED BY <1>3, <1>4

LEMMA ReplaceWords ==
    ASSUME WordInv, ConflictInv', NEW s \in Clones, ReplaceDatabase(s)
    PROVE  WordInv'
<1> DEFINE image == applying[s].image
<1>1. /\ UNCHANGED <<snaps, drawn>> /\ applying[s] # NoSession /\ image # NoStore
      /\ applying' = [applying EXCEPT ![s] = NoSession]
  BY DEF ReplaceDatabase, Writing
<1>2. CASE UNCHANGED <<store, session>>
  BY <1>1, <1>2, CopyDropped
<1>3. CASE store' = [store EXCEPT ![s] = image] /\ session' = [session EXCEPT ![s] = NoSession]
  <2>1. session'[s] = NoSession /\ applying'[s] = NoSession
    BY <1>1, <1>3, WordFacts, EntriesTyped
  <2>2. store'[s] = image
    BY <1>3, WordFacts DEF ConflictInv, CloneInv, StoresSound
  <2>3. WordsAt(session'[s], applying'[s])
    BY <2>1 DEF WordsAt
  <2>4. \A edge : Ledger(edge) => KnownAt(edge, drawn.dep, store'[s], session'[s], applying'[s])
    BY <1>1, <2>1, <2>2, WordFacts DEF KnownAt
  <2>5. \A u \in Clones \ {s} :
           store'[u] = store[u] /\ session'[u] = session[u] /\ applying'[u] = applying[u]
    BY <1>1, <1>3, WordFacts, OthersAlone
  <2> QED BY <1>1, <2>3, <2>4, <2>5, WordsKept
<1> QED BY <1>2, <1>3 DEF ReplaceDatabase

LEMMA AbortWords ==
    ASSUME WordInv, ConflictInv', NEW s \in Clones, Abort(s)
    PROVE  WordInv'
BY CopyDropped DEF Abort, vars

\* The databases that were there stay known when an edge is drawn.
LEMMA KnownMore ==
    ASSUME NEW edge, NEW n \in Nat, NEW v, NEW r \in Stores, Known(edge, n, r)
    PROVE  Known([e \in DepIds |-> IF e = n + 1 THEN v ELSE edge[e]], n + 1, r)
<1>1. Rows(r.row.dep) \subseteq DepIds /\ DepIds \subseteq Nat
  BY StoreFacts, IdAssumption DEF Rows
<1>2. \A e \in Rows(r.row.dep) : e \in Nat /\ e <= n /\ r.row.dep[e] = edge[e]
  BY <1>1 DEF Known
<1> QED BY <1>1, <1>2 DEF Known

LEMMA ChangeWords ==
    ASSUME WordInv, ConflictInv', NEW s \in Clones, Change(s)
    PROVE  WordInv'
<1> DEFINE r == store[s]
           c == store'[s]
           n == drawn.dep
<1>1. /\ DOMAIN store = Clones /\ EdgesSound(r) /\ r \in Stores /\ CountersTyped /\ n \in Nat
      /\ c \in Stores
  BY DEF WordInv, ConflictInv, CloneInv, StoresSound, EdgesSound, SoundStore, CountersTyped
<1>2. /\ UNCHANGED <<session, applying, snaps>>
      /\ \A u \in Clones \ {s} : store'[u] = store[u]
  <2>1. ASSUME NEW k, NEW ids, Commit(s, k, ids)
        PROVE  UNCHANGED snaps /\ \A u \in Clones \ {s} : store'[u] = store[u]
    BY <1>1, <2>1 DEF Commit
  <2> QED BY <2>1 DEF Change, CreateTask, EditTask, SetStatus, Touch, RegisterAgent, AddMember,
                      RemoveMember, AddDependency, RemoveDependency
<1>3. PICK edge : Ledger(edge)
  BY DEF WordInv
<1>4. KnownAt(edge, n, r, session[s], applying[s])
  BY <1>3 DEF Ledger
<1>5. \E e : \A u \in Clones : KnownAt(e, drawn'.dep, store'[u], session[u], applying[u])
  <2>1. CASE /\ FewerEdges(r.row.dep, c.row.dep) /\ drawn'.dep = n /\ c.gone.task = r.gone.task
             /\ Rows(r.row.event) \subseteq Rows(c.row.event)
    <3>1. Known(edge, n, c)
      BY <1>4, <2>1 DEF KnownAt, Known, FewerEdges
    <3>2. KnownAt(edge, n, c, session[s], applying[s])
      BY <1>4, <3>1 DEF KnownAt
    <3>3. \A u \in Clones : KnownAt(edge, n, store'[u], session[u], applying[u])
      BY <1>2, <1>3, <3>2 DEF Ledger
    <3> QED BY <2>1, <3>3
  <2>2. ASSUME NEW v, OneEdgeMore(r.row.dep, c.row.dep, n + 1, v), drawn'.dep = n + 1,
               c.gone.task = r.gone.task, Rows(r.row.event) \subseteq Rows(c.row.event)
        PROVE  \E e : \A u \in Clones :
                  KnownAt(e, drawn'.dep, store'[u], session[u], applying[u])
    <3> DEFINE more == [e \in DepIds |-> IF e = n + 1 THEN v ELSE edge[e]]
    <3>1. ASSUME NEW u \in Clones
          PROVE  KnownAt(more, n + 1, store[u], session[u], applying[u])
      <4>1. KnownAt(edge, n, store[u], session[u], applying[u])
        BY <1>3 DEF Ledger
      <4>2. /\ store[u] \in Stores
            /\ session[u] # NoSession =>
                  {session[u].ours, session[u].theirs, session[u].image} \subseteq Stores
            /\ applying[u] # NoSession /\ applying[u].image # NoStore =>
                  applying[u].image \in Stores
        BY EntriesTyped DEF WordInv, EdgesSound, SoundStore, SessionSound, CopySound
      <4> HIDE DEF n
      <4>3. \A i \in Stores : Known(edge, n, i) => Known(more, n + 1, i)
        BY <1>1, KnownMore
      <4> HIDE DEF more
      <4> QED BY <4>1, <4>2, <4>3 DEF KnownAt
    <3>2. Known(more, n + 1, c)
      <4>1. /\ Known(more, n + 1, r) /\ c.gone.task = {}
            /\ Rows(Genesis.row.event) \subseteq Rows(c.row.event)
        BY <1>4, <2>2, <3>1 DEF KnownAt, Known
      <4>2. \A e \in Rows(c.row.dep) : e \in DepIds
        BY <1>1, StoreFacts DEF Rows
      <4>3. n + 1 <= n + 1 /\ (n + 1 \in DepIds => more[n + 1] = v)
        BY <1>1
      <4> HIDE DEF more, n, c, r
      <4> QED BY <2>2, <4>1, <4>2, <4>3 DEF Known, OneEdgeMore
    <3> HIDE DEF more
    <3>3. KnownAt(more, n + 1, c, session[s], applying[s])
      BY <3>1, <3>2 DEF KnownAt
    <3>4. \A u \in Clones : KnownAt(more, n + 1, store'[u], session[u], applying[u])
      BY <1>2, <3>1, <3>3
    <3> QED BY <2>2, <3>4
  <2> QED BY <1>1, <2>1, <2>2, ChangeRows
<1>6. (\E e : Ledger(e))'
  BY <1>2, <1>5 DEF Ledger
<1> QED BY <1>2, <1>6 DEF WordInv

\* A merge loses no event.
LEMMA EventsOfSides ==
    ASSUME NEW b \in Stores, NEW o \in Stores, NEW t \in Stores
    PROVE  Rows(o.row.event) \subseteq Rows(Candidate(b, o, t).row.event)
<1> DEFINE c == Candidate(b, o, t)
           alive == Rows(MergedAgents(b, o, t))
           kept == Rows(MergedTasks(b, o, t))
           all == EventsOfAll(b, o, t)
<1>1. c.row.event = [e \in TaskIds |-> Rewritten(all[e], Aliases({o, t}), alive, kept)]
  BY DEF Candidate, MergedEvents
<1>2. ASSUME NEW e \in Rows(o.row.event)
      PROVE  e \in TaskIds /\ all[e] \in EventRow
  <2> DEFINE held == Held(b.row.event[e], o.row.event[e], t.row.event[e])
  <2>1. e \in TaskIds /\ o.row.event[e] # NoRow
    BY <1>2, StoreFacts DEF Rows
  <2>2. held \in SUBSET EventRow /\ held # {}
    <3>1. /\ b.row.event[e] \in EventRow \cup {NoRow} /\ o.row.event[e] \in EventRow \cup {NoRow}
          /\ t.row.event[e] \in EventRow \cup {NoRow}
      BY <2>1, StoreFacts
    <3> QED BY <2>1, <3>1 DEF Held
  <2>3. all[e] = Either(held)
    BY <2>1, <2>2 DEF EventsOfAll, UnionEvent
  <2>4. Either(held) \in held
    BY <2>2 DEF Either
  <2> QED BY <2>1, <2>2, <2>3, <2>4
<1>3. Aliases({o, t}) \in [AgentIds -> AgentIds] /\ alive \subseteq AgentIds /\ kept \subseteq TaskIds
  BY AliasesTyped DEF MergedAgents, MergedTasks, Rows
<1>4. ASSUME NEW row \in EventRow, NEW alias \in [AgentIds -> AgentIds]
      PROVE  Rewritten(row, alias, alive, kept) # NoRow
  <2>1. Rewritten(row, alias, alive, kept) \in EventRow
    BY <1>3, <1>4, IdAssumption DEF Rewritten, EventRow, OrNull
  <2> QED BY <2>1, IdAssumption
<1> HIDE DEF c, all
<1> QED BY <1>1, <1>2, <1>3, <1>4 DEF Rows, c

\* A candidate of known databases is known, and its edges are those of its sides.
LEMMA CandidateKnown ==
    ASSUME NEW edge, NEW n, NEW b \in Stores, NEW o \in Stores, NEW t \in Stores,
           b.gone.task = {}, Known(edge, n, o), Known(edge, n, t)
    PROVE  /\ Known(edge, n, Candidate(b, o, t))
           /\ Rows(Candidate(b, o, t).row.dep) \subseteq Rows(o.row.dep) \cup Rows(t.row.dep)
<1> DEFINE c == Candidate(b, o, t)
           deps == DepsBeforeElection(b, o, t)
<1>1. c.row.dep = MergedDeps(b, o, t)
  BY Zenon DEF Candidate
<1>2. c.gone.task = (b.gone.task \cup o.gone.task \cup t.gone.task) \ Rows(MergedTasks(b, o, t))
  BY DEF Candidate, MergedGone
<1>3. c.gone.task = {}
  BY <1>2 DEF Known
<1>31. Rows(o.row.event) \subseteq Rows(c.row.event)
  BY EventsOfSides
<1>4. \A d \in Rows(MergedDeps(b, o, t)) : d \in Rows(deps) /\ MergedDeps(b, o, t)[d] = deps[d]
  BY DEF MergedDeps, Rows
<1>5. DOMAIN o.row.dep = DepIds /\ DOMAIN t.row.dep = DepIds
  BY StoreFacts
<1>6. ASSUME NEW d \in Rows(c.row.dep)
      PROVE  /\ d <= n /\ c.row.dep[d] = edge[d]
             /\ d \in Rows(o.row.dep) \cup Rows(t.row.dep)
  <2>1. d \in DepIds /\ c.row.dep[d] \in {o.row.dep[d], t.row.dep[d]} \ {NoRow}
    BY <1>1, <1>4, DepFromSide
  <2>2. \/ d \in Rows(o.row.dep) /\ c.row.dep[d] = o.row.dep[d]
        \/ d \in Rows(t.row.dep) /\ c.row.dep[d] = t.row.dep[d]
    BY <1>5, <2>1 DEF Rows
  <2> HIDE DEF c
  <2> QED BY <2>2 DEF Known
<1> HIDE DEF c
<1>7. Known(edge, n, c)
  BY <1>3, <1>31, <1>6 DEF Known
<1> QED BY <1>6, <1>7 DEF c

LEMMA ImportWords ==
    ASSUME WordInv, ConflictInv', NEW s \in Clones, NEW u \in Clones, NEW base \in {0, 1},
           Import(s, u, base)
    PROVE  WordInv'
<1> DEFINE b == BaseStore(base)
           q == Staged(b, store[s], store[u])
           c == Candidate(b, store[s], store[u])
<1>1. store[s] \in Stores /\ store[u] \in Stores /\ DOMAIN store = Clones
  BY DEF WordInv, ConflictInv, CloneInv, StoresSound, EdgesSound, SoundStore
<1>2. b \in Stores /\ b.gone.task = {} /\ b \in {Empty} \cup Beginnings
  <2>1. snaps[1].store \in Beginnings
    BY DEF WordInv
  <2>2. snaps[1].store \in Stores /\ snaps[1].store.gone.task = {}
    BY <2>1, Starts DEF Beginnings, EdgesSound, SoundStore
  <2>3. Empty.gone.task = {}
    BY DEF Empty
  <2> QED BY <2>1, <2>2, <2>3, EmptyTyped DEF BaseStore
<1>3. q.ours = store[s] /\ q.theirs = store[u] /\ q.image = c /\ q.base = b
  BY DEF Staged
<1>31. AsStaged(q)
  BY <1>2, <1>3 DEF Import, AsStaged
<1>4. /\ session[s] = NoSession /\ UNCHANGED <<snaps, drawn, applying>>
      /\ IF DOMAIN q.answer = {}
         THEN store' = [store EXCEPT ![s] = c] /\ UNCHANGED session
         ELSE session' = [session EXCEPT ![s] = q] /\ UNCHANGED store
  BY <1>3 DEF Import, Staging
<1>5. ASSUME NEW edge, Ledger(edge)
      PROVE  /\ KnownAt(edge, drawn.dep, store[s], session[s], applying[s])
             /\ Known(edge, drawn.dep, store[s]) /\ Known(edge, drawn.dep, store[u])
             /\ Known(edge, drawn.dep, c)
  <2>1. /\ KnownAt(edge, drawn.dep, store[s], session[s], applying[s])
        /\ KnownAt(edge, drawn.dep, store[u], session[u], applying[u])
    BY <1>5 DEF Ledger
  <2>2. Known(edge, drawn.dep, store[s]) /\ Known(edge, drawn.dep, store[u])
    BY <2>1 DEF KnownAt
  <2> HIDE DEF b
  <2> QED BY <1>1, <1>2, <2>1, <2>2, CandidateKnown
<1>6. FromSides(q, c)
  <2>1. PICK edge : Ledger(edge)
    BY DEF WordInv
  <2>2. Known(edge, drawn.dep, store[s]) /\ Known(edge, drawn.dep, store[u])
    BY <1>5, <2>1
  <2>3. Rows(c.row.dep) \subseteq Rows(store[s].row.dep) \cup Rows(store[u].row.dep)
    <3> HIDE DEF b
    <3> QED BY <1>1, <1>2, <2>2, CandidateKnown
  <2> QED BY <1>3, <2>3 DEF FromSides
<1> HIDE DEF q, c
<1>7. applying[s] # NoSession => applying[s].image = NoStore
  BY <1>4, WordFacts
<1>8. CASE DOMAIN q.answer = {}
  <2>1. /\ store'[s] = c /\ session'[s] = NoSession /\ applying'[s] = applying[s]
        /\ store' = [store EXCEPT ![s] = c] /\ session' = session
    BY <1>1, <1>4, <1>8
  <2>2. WordsAt(session'[s], applying'[s])
    BY <1>7, <2>1 DEF WordsAt
  <2>3. \A edge : Ledger(edge) => KnownAt(edge, drawn.dep, store'[s], session'[s], applying'[s])
    BY <1>5, <1>7, <2>1 DEF KnownAt
  <2>4. \A v \in Clones \ {s} :
           store'[v] = store[v] /\ session'[v] = session[v] /\ applying'[v] = applying[v]
    BY <1>4, <2>1, WordFacts, OthersAlone
  <2> QED BY <1>4, <2>2, <2>3, <2>4, WordsKept
<1>9. CASE DOMAIN q.answer # {}
  <2>1. session' = [session EXCEPT ![s] = q] /\ store' = store
    BY <1>4, <1>9
  <2>2. session'[s] = q /\ applying'[s] = applying[s] /\ store'[s] = store[s]
    BY <1>4, <2>1, WordFacts, EntriesTyped
  <2>3. WordsAt(session'[s], applying'[s])
    BY <1>3, <1>31, <1>6, <1>7, <2>2 DEF WordsAt
  <2>4. \A edge : Ledger(edge) => KnownAt(edge, drawn.dep, store'[s], session'[s], applying'[s])
    BY <1>3, <1>5, <1>7, <2>2 DEF KnownAt
  <2>5. \A v \in Clones \ {s} :
           store'[v] = store[v] /\ session'[v] = session[v] /\ applying'[v] = applying[v]
    BY <1>4, <2>1, WordFacts, OthersAlone
  <2> QED BY <1>4, <2>3, <2>4, <2>5, WordsKept
<1> QED BY <1>8, <1>9

LEMMA WordsInit == ConflictInit => WordInv
<1> SUFFICES ASSUME ConflictInit PROVE WordInv
  OBVIOUS
<1>1. PICK start \in {Genesis, [Genesis EXCEPT !.row.dep[1] = NoRow]} :
           /\ store = [s \in Clones |-> start]
           /\ snaps = <<[store |-> start, parents |-> {}]>>
           /\ drawn = [task |-> 2, agent |-> 1, dep |-> Cardinality(Rows(start.row.dep))]
  BY DEF ConflictInit
<1>2. start.gone.task = {} /\ Rows(start.row.dep) \subseteq {1}
  BY Starts
<1>3. \A d \in Rows(start.row.dep) : d <= drawn.dep
  <2>1. CASE Rows(start.row.dep) = {}
    BY <2>1
  <2>2. CASE Rows(start.row.dep) = {1}
    <3>1. drawn.dep = 1
      BY <1>1, <2>2, FS_Singleton
    <3> QED BY <2>2, <3>1
  <2> QED BY <1>2, <2>1, <2>2
<1>31. start.row.event = Genesis.row.event
  BY <1>1, GenesisSound DEF SoundStore, Stores, Tables
<1>4. Known(start.row.dep, drawn.dep, start)
  BY <1>2, <1>3, <1>31 DEF Known
<1>5. \A s \in Clones : store[s] = start /\ session[s] = NoSession /\ applying[s] = NoSession
  BY <1>1 DEF ConflictInit
<1>6. Ledger(start.row.dep) /\ \A s \in Clones : WordsAt(session[s], applying[s])
  BY <1>4, <1>5 DEF Ledger, KnownAt, WordsAt
<1>7. snaps[1].store \in Beginnings
  BY <1>1 DEF Beginnings
<1> QED BY <1>6, <1>7, ConflictsInit DEF WordInv

\* The step that applies a session is the one that replaces the database, when every
\* answer is written.
LEMMA ReplacedOfStep ==
    ASSUME WordInv, ConflictNext, NEW s \in Clones, Applied(s)
    PROVE  /\ applying[s] # NoSession /\ applying[s].image # NoStore
           /\ DOMAIN applying[s].answers = {} /\ ~Buried(applying[s].image)
           /\ session[s] # NoSession /\ store'[s] = applying[s].image
<1>1. session[s] # NoSession /\ session'[s] = NoSession /\ store'[s] # store[s]
  BY DEF Applied, Staging
<1>2. session' # session /\ store' # store
  BY <1>1
<1>3. PICK u \in Clones : ReplaceDatabase(u)
  <2>1. ASSUME NEW u \in Clones, Change(u)
        PROVE  session' = session
    BY <2>1 DEF Change
  <2>2. ASSUME NEW u \in Clones, NEW v \in Clones, NEW base \in {0, 1}, Import(u, v, base)
        PROVE  session' = session \/ store' = store
    BY <2>2 DEF Import
  <2>3. ASSUME NEW u \in Clones, NEW e, NEW side, NEW owner, Resolve(u, e, side, owner)
        PROVE  store' = store
    BY <2>3 DEF Resolve, vars
  <2>4. ASSUME NEW u \in Clones, NEW skip, AskApply(u, skip)
        PROVE  store' = store
    BY <2>4 DEF AskApply, vars
  <2>5. ASSUME NEW u \in Clones, BeginApply(u) \/ Abort(u)
        PROVE  store' = store
    BY <2>5 DEF BeginApply, Abort, vars
  <2>6. ASSUME NEW u \in Clones, NEW e, WriteAnswer(u, e)
        PROVE  store' = store
    BY <2>6 DEF WriteAnswer, vars
  <2> QED BY <1>2, <2>1, <2>2, <2>3, <2>4, <2>5, <2>6 DEF ConflictNext
<1>4. /\ applying[u] # NoSession /\ applying[u].image # NoStore /\ DOMAIN applying[u].answers = {}
      /\ ~Buried(applying[u].image) /\ store' = [store EXCEPT ![u] = applying[u].image]
  BY <1>2, <1>3 DEF ReplaceDatabase, Writing
<1>5. u = s /\ store'[s] = applying[s].image
  BY <1>1, <1>4 DEF WordInv, ConflictInv, CloneInv, StoresSound
<1> QED BY <1>1, <1>4, <1>5

LEMMA LastWordOfStep ==
    ASSUME WordInv, ConflictNext, NEW s \in Clones, Applied(s),
           NEW q, q = session[s], NEW answers, answers = AtOurs(q.answer),
           NEW c \in DOMAIN answers, NEW x \in NamedBy(q, c),
           \A e \in DOMAIN answers : x \in NamedBy(q, e) => ~Before(c, e)
    PROVE  Says(store'[s], q, c, answers[c], x)
<1>1. /\ applying[s] # NoSession /\ applying[s].image # NoStore
      /\ DOMAIN applying[s].answers = {} /\ store'[s] = applying[s].image
  BY ReplacedOfStep
<1>2. Written(q, applying[s])
  BY <1>1 DEF WordInv, WordsAt
<1> QED BY <1>1, <1>2 DEF Written

LEMMA WordStep == WordInv /\ [ConflictNext]_conflictVars => WordInv'
<1>1. ASSUME WordInv, ConflictNext
      PROVE  WordInv'
  <2>1. ConflictInv'
    BY <1>1, ConflictStep DEF WordInv
  <2> QED BY <1>1, <2>1, ChangeWords, ImportWords, ResolveWords, AskWords, BeginWords, WriteWords,
             ReplaceWords, AbortWords DEF ConflictNext
<1>2. ASSUME WordInv, UNCHANGED conflictVars
      PROVE  WordInv'
  <2>1. ConflictInv'
    BY <1>2, ConflictStep DEF WordInv
  <2> QED BY <1>2, <2>1 DEF conflictVars, vars, WordInv, Ledger
<1> QED BY <1>1, <1>2

\* After conflict apply every row that a conflict was about is what the last answer said
\* of it, and a row that lost has a tombstone: no answer undoes another, though one about
\* an edge removes whatever other row of the edge it finds in the copy.
THEOREM LastWordTheorem == ConflictSpec => LastWord
<1>1. WordInv /\ [ConflictNext]_conflictVars =>
         [\A s \in Clones : Applied(s) =>
             LET q == session[s]
                 answers == AtOurs(q.answer)
             IN  \A c \in DOMAIN answers : \A x \in NamedBy(q, c) :
                     (\A e \in DOMAIN answers : x \in NamedBy(q, e) => ~Before(c, e)) =>
                         /\ store'[s].row[x[1]][x[2]] = Said(q, c, answers[c], x)
                         /\ Said(q, c, answers[c], x) = NoRow <=> x[2] \in store'[s].gone[x[1]]
         ]_conflictVars
  BY LastWordOfStep DEF Says
<1>2. ConflictSpec => []WordInv
  BY WordsInit, WordStep, PTL DEF ConflictSpec
<1> QED BY <1>1, <1>2, PTL DEF ConflictSpec, LastWord

----------------------------------------------------------------------------
(***************************************************************************)
(* Nothing else.  A database is what the answers make of the candidate     *)
(* when it is so row by row, and of every row when all are written.        *)
(***************************************************************************)
Deps(q) == DepsBeforeElection(q.base, q.ours, q.theirs)

Conflicting(q) == Clashes(q.base, q.ours, q.theirs)

LEMMA KeyFacts ==
    ASSUME NEW x \in Keys
    PROVE  x[1] \in {"task", "member", "dep"} /\ x[2] \in Nat
<1>1. CASE x \in {"task"} \X TaskIds
  BY <1>1, IdAssumption
<1>2. CASE x \in {"member"} \X AgentIds
  BY <1>2, IdAssumption
<1>3. CASE x \in {"dep"} \X DepIds
  BY <1>3, IdAssumption
<1> QED BY <1>1, <1>2, <1>3 DEF Keys

LEMMA EdgeClash ==
    ASSUME NEW q, NEW c \in Conflicting(q), c[1] = "edge"
    PROVE  \E d \in EdgeClashes(Deps(q)) : c = <<"edge", d>>
<1>1. c \notin {<<"task", k>> : k \in {k \in TaskIds :
                    TaskClash(q.base.row.task[k], q.ours.row.task[k], q.theirs.row.task[k],
                              k \in q.ours.gone.task, k \in q.theirs.gone.task)}}
  OBVIOUS
<1>2. c \notin {<<"member", a>> : a \in {a \in AgentIds :
                    DeleteClash(q.base.row.member[a], q.ours.row.member[a], q.theirs.row.member[a],
                                a \in q.ours.gone.member, a \in q.theirs.gone.member)}}
  OBVIOUS
<1>3. c \notin {<<"dep", d>> : d \in {d \in DepIds :
                    DeleteClash(q.base.row.dep[d], q.ours.row.dep[d], q.theirs.row.dep[d],
                                d \in q.ours.gone.dep, d \in q.theirs.gone.dep)}}
  OBVIOUS
<1> QED BY <1>1, <1>2, <1>3 DEF Conflicting, Clashes, Deps

\* Of the conflicts about a row the one about its edge comes last, and there is one
\* about each edge; without it the last is the row's own.
LEMMA AboutKey ==
    ASSUME NEW q, NEW answers, DOMAIN answers = Conflicting(q), NEW x \in Keys
    PROVE  /\ \A d \in EdgeClashes(Deps(q)) : x \in NamedBy(q, <<"edge", d>>)
                 => LastAbout(q, answers, x) = {<<"edge", d>>}
           /\ (\A d \in EdgeClashes(Deps(q)) : x \notin NamedBy(q, <<"edge", d>>))
                 => LastAbout(q, answers, x) = {x} \cap Conflicting(q)
<1> DEFINE named == {c \in Conflicting(q) : x \in NamedBy(q, c)}
           edges == {<<"edge", d>> : d \in EdgeClashes(Deps(q))}
<1>1. x[1] \in {"task", "member", "dep"} /\ x[2] \in Nat
  BY KeyFacts
<1>2. LastAbout(q, answers, x) = {c \in named : \A e \in named : ~Before(c, e)}
  BY DEF LastAbout
<1>3. ASSUME NEW c \in Conflicting(q)
      PROVE  c \in edges \/ c[1] # "edge"
  BY EdgeClash
<1>4. ASSUME NEW c \in named
      PROVE  c \in edges \/ c = x
  BY <1>3 DEF NamedBy
<1>5. edges \subseteq Conflicting(q)
  <2> SUFFICES ASSUME NEW d \in EdgeClashes(Deps(q)) PROVE <<"edge", d>> \in Conflicting(q)
    OBVIOUS
  <2>1. <<"edge", d>> \in {<<"edge", e>> : e \in EdgeClashes(DepsBeforeElection(q.base, q.ours, q.theirs))}
    BY DEF Deps
  <2> QED BY <2>1 DEF Conflicting, Clashes
<1>6. ~Before(x, x)
  <2>1. Rank(x) \in Nat
    BY <1>1 DEF Rank
  <2> HIDE DEF Keys
  <2> QED BY <1>1, <2>1 DEF Before
<1>7. ASSUME NEW d \in EdgeClashes(Deps(q)), <<"edge", d>> \in named
      PROVE  LastAbout(q, answers, x) = {<<"edge", d>>}
  <2> DEFINE c == <<"edge", d>>
  <2>1. \E i \in SameEdge(Deps(q), d) : x = <<"dep", i>>
    BY <1>7 DEF NamedBy, Claimants, Deps
  <2>2. d \in Nat
    BY IdAssumption DEF EdgeClashes, Deps, DepsBeforeElection, Rows
  <2>3. ASSUME NEW e \in EdgeClashes(Deps(q)), <<"edge", e>> \in named
        PROVE  e = d
    <3>1. \E i \in SameEdge(Deps(q), e) : x = <<"dep", i>>
      BY <2>3 DEF NamedBy, Claimants, Deps
    <3>2. SameEdge(Deps(q), d) = SameEdge(Deps(q), e)
      BY <2>1, <3>1 DEF SameEdge
    <3> QED BY <3>2 DEF EdgeClashes
  <2>4. named \subseteq {c, x}
    BY <1>4, <2>3
  <2>5. Rank(c) = 2 /\ Rank(x) = 1
    BY <2>1 DEF Rank
  <2>6. ~Before(c, c) /\ ~Before(c, x) /\ Before(x, c)
    BY <2>2, <2>5 DEF Before
  <2> QED BY <1>2, <1>7, <2>4, <2>6
<1>8. ASSUME \A d \in EdgeClashes(Deps(q)) : x \notin NamedBy(q, <<"edge", d>>)
      PROVE  LastAbout(q, answers, x) = {x} \cap Conflicting(q)
  <2>1. \A c \in named : c \notin edges
    BY <1>8
  <2>2. named \subseteq {x}
    BY <1>4, <2>1
  <2>3. x \in Conflicting(q) => x \in named
    BY <1>1 DEF NamedBy
  <2> QED BY <1>2, <1>6, <2>2, <2>3
<1> QED BY <1>5, <1>7, <1>8

\* What a database has of every row is what the answers make of the candidate.
AnsweredAs(q, answers, r) ==
    /\ Rest(r) = Rest(q.image)
    /\ \A x \in Keys : /\ r.row[x[1]][x[2]] = Word(q, answers, x)
                       /\ x[2] \in r.gone[x[1]] <=> Lost(q, answers, x)

LEMMA AnsweredIs ==
    ASSUME NEW q, q.image \in Stores, NEW answers, NEW r \in Stores, AnsweredAs(q, answers, r)
    PROVE  AnsweredBy(q, answers) = r
<1> DEFINE task == [k \in TaskIds |-> Word(q, answers, <<"task", k>>)]
           member == [a \in AgentIds |-> Word(q, answers, <<"member", a>>)]
           dep == [d \in DepIds |-> Word(q, answers, <<"dep", d>>)]
<1>1. /\ \A k \in TaskIds : <<"task", k>> \in Keys
      /\ \A a \in AgentIds : <<"member", a>> \in Keys
      /\ \A d \in DepIds : <<"dep", d>> \in Keys
  BY DEF Keys
<1>2. r.row.task = task /\ r.row.member = member /\ r.row.dep = dep
  <2>1. \A k \in TaskIds : r.row.task[k] = Word(q, answers, <<"task", k>>)
    BY <1>1 DEF AnsweredAs
  <2>2. \A a \in AgentIds : r.row.member[a] = Word(q, answers, <<"member", a>>)
    BY <1>1 DEF AnsweredAs
  <2>3. \A d \in DepIds : r.row.dep[d] = Word(q, answers, <<"dep", d>>)
    BY <1>1 DEF AnsweredAs
  <2> QED BY <2>1, <2>2, <2>3, StoreFacts
<1>3. /\ r.gone.task = {k \in TaskIds : Lost(q, answers, <<"task", k>>)}
      /\ r.gone.member = {a \in AgentIds : Lost(q, answers, <<"member", a>>)}
      /\ r.gone.dep = {d \in DepIds : Lost(q, answers, <<"dep", d>>)}
  <2>1. \A k \in TaskIds : k \in r.gone.task <=> Lost(q, answers, <<"task", k>>)
    BY <1>1 DEF AnsweredAs
  <2>2. \A a \in AgentIds : a \in r.gone.member <=> Lost(q, answers, <<"member", a>>)
    BY <1>1 DEF AnsweredAs
  <2>3. \A d \in DepIds : d \in r.gone.dep <=> Lost(q, answers, <<"dep", d>>)
    BY <1>1 DEF AnsweredAs
  <2> QED BY <2>1, <2>2, <2>3, StoreFacts
<1> HIDE DEF task, member, dep
<1>4. r.row.agent = q.image.row.agent /\ r.row.event = q.image.row.event /\ r.next = q.image.next
  BY DEF AnsweredAs, Rest
<1>5. [q.image.row EXCEPT !.task = task, !.member = member, !.dep = dep] = r.row
  BY <1>2, <1>4 DEF Stores, Tables
<1>6. r = [row |-> r.row, gone |-> [task |-> r.gone.task, member |-> r.gone.member,
                                    dep |-> r.gone.dep], next |-> r.next]
  BY DEF Stores
<1> QED BY <1>3, <1>4, <1>5, <1>6 DEF AnsweredBy, task, member, dep

\* All answers are written.
LEMMA AllWritten ==
    ASSUME NEW q, SessionSound(q), NEW p, Written(q, p), DOMAIN p.answers = {}
    PROVE  AnsweredAs(q, AtOurs(q.answer), p.image)
<1> DEFINE answers == AtOurs(q.answer)
<1>1. DOMAIN answers = Conflicting(q)
  BY AtOursWritten DEF Conflicting
<1>2. /\ \A c \in DOMAIN answers : \A x \in NamedBy(q, c) :
            (\A e \in DOMAIN answers : x \in NamedBy(q, e) => ~Before(c, e))
               => Says(p.image, q, c, answers[c], x)
      /\ \A x \in Keys : (\A c \in DOMAIN answers : x \notin NamedBy(q, c)) => SameAt(q.image, p.image, x)
      /\ Rest(p.image) = Rest(q.image)
  BY DEF Written
<1> HIDE DEF answers
<1>3. ASSUME NEW x \in Keys
      PROVE  /\ p.image.row[x[1]][x[2]] = Word(q, answers, x)
             /\ x[2] \in p.image.gone[x[1]] <=> Lost(q, answers, x)
  <2>1. CASE LastAbout(q, answers, x) = {}
    <3>1. ASSUME NEW d \in EdgeClashes(Deps(q)), x \in NamedBy(q, <<"edge", d>>)
          PROVE  FALSE
      <4>1. LastAbout(q, answers, x) = {<<"edge", d>>}
        BY <1>1, <3>1, AboutKey
      <4> QED BY <2>1, <4>1
    <3>2. x \notin Conflicting(q)
      <4>1. LastAbout(q, answers, x) = {x} \cap Conflicting(q)
        BY <1>1, <3>1, AboutKey
      <4> QED BY <2>1, <4>1
    <3>3. ASSUME NEW c \in Conflicting(q)
          PROVE  x \notin NamedBy(q, c)
      <4>1. CASE c[1] = "edge"
        BY <3>1, <4>1, EdgeClash
      <4>2. CASE c[1] # "edge"
        BY <3>2, <4>2 DEF NamedBy
      <4> QED BY <4>1, <4>2
    <3>4. SameAt(q.image, p.image, x)
      BY <1>1, <1>2, <3>3
    <3> QED BY <2>1, <3>4 DEF SameAt, Word, Lost
  <2>2. CASE LastAbout(q, answers, x) # {}
    <3> DEFINE c == Either(LastAbout(q, answers, x))
    <3>1. c \in LastAbout(q, answers, x)
      BY <2>2 DEF Either
    <3>2. Says(p.image, q, c, answers[c], x)
      BY <1>2, <3>1 DEF LastAbout
    <3>3. Word(q, answers, x) = Said(q, c, answers[c], x)
      BY <2>2 DEF Word
    <3> HIDE DEF c
    <3> QED BY <2>2, <3>2, <3>3 DEF Says, Lost
  <2> QED BY <2>1, <2>2
<1> QED BY <1>2, <1>3 DEF AnsweredAs, answers

\* What is known of a session and of the database it has become.
Became(edge, n, q, r) ==
    /\ SessionSound(q) /\ AsStaged(q)
    /\ Known(edge, n, q.ours) /\ Known(edge, n, q.theirs) /\ Known(edge, n, r)
    /\ EdgesSound(r) /\ ~Buried(r) /\ AnsweredAs(q, AtOurs(q.answer), r)

LEMMA SessionBecame ==
    ASSUME WordInv, ConflictNext, NEW s \in Clones, Applied(s)
    PROVE  \E edge, n : Became(edge, n, session[s], store'[s])
<1>1. /\ applying[s] # NoSession /\ applying[s].image # NoStore
      /\ DOMAIN applying[s].answers = {} /\ ~Buried(applying[s].image)
      /\ session[s] # NoSession /\ store'[s] = applying[s].image
  BY ReplacedOfStep
<1>2. /\ WordsAt(session[s], applying[s])
      /\ SessionSound(session[s]) /\ CopySound(session[s], applying[s])
  BY <1>1, WordFacts
<1>3. PICK edge : Ledger(edge)
  BY DEF WordInv
<1>4. KnownAt(edge, drawn.dep, store[s], session[s], applying[s])
  BY <1>3, WordFacts
<1>5. AnsweredAs(session[s], AtOurs(session[s].answer), applying[s].image)
  BY <1>1, <1>2, AllWritten DEF WordsAt
<1>6. Became(edge, drawn.dep, session[s], applying[s].image)
  BY <1>1, <1>2, <1>4, <1>5 DEF Became, WordsAt, KnownAt, CopySound
<1> QED BY <1>1, <1>6

\* conflict apply makes of the candidate what the answers say and nothing else, in
\* whatever order it writes them: no statement touches a row, a counter or an event that
\* no conflict is about.
THEOREM NothingElseTheorem == ConflictSpec => NothingElse
<1>1. ASSUME WordInv, ConflictNext, NEW s \in Clones, Applied(s)
      PROVE  store'[s] = AnsweredBy(session[s], AtOurs(session[s].answer))
  <2>1. PICK edge, n : Became(edge, n, session[s], store'[s])
    BY <1>1, SessionBecame
  <2>2. session[s].image \in Stores /\ store'[s] \in Stores
    BY <2>1 DEF Became, SessionSound, EdgesSound, SoundStore
  <2> QED BY <2>1, <2>2, AnsweredIs DEF Became
<1>2. WordInv /\ [ConflictNext]_conflictVars =>
         [\A s \in Clones : Applied(s) =>
             store'[s] = AnsweredBy(session[s], AtOurs(session[s].answer))]_conflictVars
  BY <1>1
<1>3. ConflictSpec => []WordInv
  BY WordsInit, WordStep, PTL DEF ConflictSpec
<1> QED BY <1>2, <1>3, PTL DEF ConflictSpec, NothingElse

----------------------------------------------------------------------------
(***************************************************************************)
(* A merge that folds no agent into another                                *)
(***************************************************************************)
LEMMA NobodyAliased ==
    ASSUME NEW sides, Folded(sides) = {}
    PROVE  Aliases(sides) = [a \in AgentIds |-> a]
BY DEF Aliases

\* An agent of a side is there.
LEMMA AgentsOfSides ==
    ASSUME NEW b, NEW o \in Stores, NEW t \in Stores, Folded({o, t}) = {}
    PROVE  /\ Rows(o.row.agent) \cup Rows(t.row.agent) \subseteq Rows(MergedAgents(b, o, t))
           /\ MergedAgents(b, o, t) = [a \in AgentIds |->
                 MergeAgent(b.row.agent[a], o.row.agent[a], t.row.agent[a])]
<1>1. MergedAgents(b, o, t) = [a \in AgentIds |->
                 MergeAgent(b.row.agent[a], o.row.agent[a], t.row.agent[a])]
  BY DEF MergedAgents
<1>2. ASSUME NEW a \in Rows(o.row.agent) \cup Rows(t.row.agent)
      PROVE  a \in AgentIds /\ MergeAgent(b.row.agent[a], o.row.agent[a], t.row.agent[a]) # NoRow
  <2> DEFINE p == o.row.agent[a]
             q == t.row.agent[a]
  <2>1. a \in AgentIds /\ (p # NoRow \/ q # NoRow)
    BY StoreFacts DEF Rows
  <2>2. p \in AgentRow \cup {NoRow} /\ q \in AgentRow \cup {NoRow}
    BY <2>1, StoreFacts
  <2>3. p # NoRow /\ q # NoRow => Newest({p, q}) \in {p, q}
    BY <2>2, StampsTyped, NewestIn
  <2> HIDE DEF p, q
  <2>4. MergeAgent(b.row.agent[a], p, q) # NoRow
    BY <2>1, <2>3 DEF MergeAgent, MergeKey, BothEdited, Edited
  <2> QED BY <2>1, <2>4 DEF p, q
<1>3. DOMAIN MergedAgents(b, o, t) = AgentIds
  BY <1>1
<1> QED BY <1>1, <1>2, <1>3 DEF Rows

NoTaskGone(r) == r.gone.task = {}

\* Of tasks nothing is deleted here, and two of one key are in conflict just if both are
\* settled and differently.
TaskOf(b, o, t) == MergeTask(b, o, t, FALSE, FALSE)

Unsettled(b, o, t) == BothEdited(b, o, t) /\ StatusGap(o, t)

\* Without tombstones every task is merged by its rows alone.
LEMMA TasksByRows ==
    ASSUME NEW b, NEW o, NEW t, NoTaskGone(o), NoTaskGone(t)
    PROVE  /\ DOMAIN MergedTasks(b, o, t) = TaskIds
           /\ \A k \in TaskIds :
                 MergedTasks(b, o, t)[k] = TaskOf(b.row.task[k], o.row.task[k], t.row.task[k])
BY DEF MergedTasks, TaskOf, MergeTask, MergeKey, DeleteClash, NoTaskGone

\* Then a task of a side is there, with the owner that a side says.
LEMMA TasksOfSides ==
    ASSUME NEW b, NEW o \in Stores, NEW t \in Stores, NoTaskGone(o), NoTaskGone(t)
    PROVE  /\ Rows(o.row.task) \cup Rows(t.row.task) \subseteq Rows(MergedTasks(b, o, t))
           /\ \A k \in Rows(MergedTasks(b, o, t)) :
                 \/ k \in Rows(o.row.task) /\ MergedTasks(b, o, t)[k].owner = o.row.task[k].owner
                 \/ k \in Rows(t.row.task) /\ MergedTasks(b, o, t)[k].owner = t.row.task[k].owner
<1>1. \A k \in TaskIds :
         MergedTasks(b, o, t)[k] = TaskOf(b.row.task[k], o.row.task[k], t.row.task[k])
  BY TasksByRows
<1>2. ASSUME NEW k \in TaskIds
      PROVE  /\ (o.row.task[k] # NoRow \/ t.row.task[k] # NoRow) <=> MergedTasks(b, o, t)[k] # NoRow
             /\ MergedTasks(b, o, t)[k] # NoRow =>
                   \/ o.row.task[k] # NoRow /\ MergedTasks(b, o, t)[k].owner = o.row.task[k].owner
                   \/ t.row.task[k] # NoRow /\ MergedTasks(b, o, t)[k].owner = t.row.task[k].owner
  <2> DEFINE p == o.row.task[k]
             q == t.row.task[k]
             m == MergedTasks(b, o, t)[k]
  <2>1. p \in TaskRow \cup {NoRow} /\ q \in TaskRow \cup {NoRow}
    BY StoreFacts
  <2>2. ASSUME p # NoRow, q # NoRow
        PROVE  /\ ElectTask(p, q) # NoRow
               /\ ElectTask(p, q).owner = p.owner \/ ElectTask(p, q).owner = q.owner
    <3>1. p \in TaskRow /\ q \in TaskRow
      BY <2>1, <2>2
    <3> HIDE DEF p, q
    <3>2. ElectTask(p, q) \in TaskRow /\ Winner(p, q) \in {p, q}
      BY <3>1, ElectTaskTyped, WinnerFacts
    <3>3. \A v \in TaskRow : \A f : [v EXCEPT !.started = f].owner = v.owner
      BY DEF TaskRow
    <3> QED BY <3>1, <3>2, <3>3, IdAssumption DEF ElectTask
  <2>3. m = TaskOf(b.row.task[k], p, q)
    BY <1>1
  <2> HIDE DEF p, q, m
  <2>4. /\ (p # NoRow \/ q # NoRow) <=> m # NoRow
        /\ m # NoRow => (p # NoRow /\ m.owner = p.owner) \/ (q # NoRow /\ m.owner = q.owner)
    BY <2>2, <2>3 DEF TaskOf, MergeTask, MergeKey, BothEdited, Edited
  <2> QED BY <2>4 DEF p, q, m
<1>3. DOMAIN o.row.task = TaskIds /\ DOMAIN t.row.task = TaskIds /\ DOMAIN MergedTasks(b, o, t) = TaskIds
  BY StoreFacts, TasksByRows
<1>4. ASSUME NEW k \in Rows(MergedTasks(b, o, t))
      PROVE  \/ k \in Rows(o.row.task) /\ MergedTasks(b, o, t)[k].owner = o.row.task[k].owner
             \/ k \in Rows(t.row.task) /\ MergedTasks(b, o, t)[k].owner = t.row.task[k].owner
  BY <1>2, <1>3 DEF Rows
<1>5. Rows(o.row.task) \cup Rows(t.row.task) \subseteq Rows(MergedTasks(b, o, t))
  BY <1>2, <1>3 DEF Rows
<1> QED BY <1>4, <1>5

\* No side has another version of an event.
SameEvents(b, o, t) ==
    /\ \A e \in TaskIds : ~Tampered(b.row.event[e], o.row.event[e], t.row.event[e])
    /\ Rows(b.row.event) \subseteq Rows(o.row.event)

\* Nothing of such a merge dangles: the tables of the candidate are those of the rows.
Unfolded(b, o, t, c) ==
    /\ c.row.agent = MergedAgents(b, o, t)
    /\ \A a \in AgentIds : c.row.member[a] = MemberBeforeRemap(b, o, t, a)
    /\ c.row.task = Numbered(MergedTasks(b, o, t), MergedNext(b, o, t))
    /\ c.row.dep = MergedDeps(b, o, t)
    /\ c.row.event = EventsOfAll(b, o, t)
    /\ c.gone = MergedGone(b, o, t, Rows(c.row.task), Rows(c.row.member), Rows(c.row.dep))
    /\ c.next = CounterAbove(c.row.task, MergedNext(b, o, t))

LEMMA CandidateUnfolded ==
    ASSUME NEW b \in Stores, NEW o \in Stores, NEW t \in Stores,
           Consistent(o.row), Consistent(t.row), NoTaskGone(o), NoTaskGone(t),
           Folded({o, t}) = {}, SameEvents(b, o, t)
    PROVE  Unfolded(b, o, t, Candidate(b, o, t))
<1> DEFINE alias == [a \in AgentIds |-> a]
           tasks == MergedTasks(b, o, t)
           kept == Rows(tasks)
           numbered == Numbered(tasks, MergedNext(b, o, t))
           agents == MergedAgents(b, o, t)
           alive == Rows(agents)
           members == MergedMembers(b, o, t, alias)
           deps == MergedDeps(b, o, t)
           owned == Owned(numbered, kept, alias, alive)
           events == MergedEvents(b, o, t, alias, alive, kept)
<1>1. Candidate(b, o, t) =
         [row |-> [task |-> owned, agent |-> agents, member |-> members, dep |-> deps, event |-> events],
          gone |-> MergedGone(b, o, t, kept, Rows(members), Rows(deps)),
          next |-> CounterAbove(numbered, MergedNext(b, o, t))]
  <2>1. Aliases({o, t}) = alias
    BY NobodyAliased
  <2> HIDE DEF alias
  <2> QED BY <2>1, Zenon DEF Candidate
<1>2. tasks \in TaskTable /\ MergedNext(b, o, t) \in Nat
  BY MergedTasksTyped, MergedNextTyped DEF TaskTable
<1>3. /\ numbered \in TaskTable /\ Rows(numbered) = kept
      /\ \A k \in TaskIds : numbered[k] = tasks[k] \/ \E n \in Nat : numbered[k] = [tasks[k] EXCEPT !.number = n]
  <2> HIDE DEF tasks
  <2>1. /\ numbered \in TaskTable /\ Rows(numbered) = kept
        /\ Floor(tasks, MergedNext(b, o, t)) \in Nat
        /\ \A k \in TaskIds : Cardinality(MovedBefore(tasks, k)) \in Nat
        /\ \A k \in TaskIds : numbered[k] =
                 IF k \in Renumbered(tasks)
                 THEN [tasks[k] EXCEPT !.number = Floor(tasks, MergedNext(b, o, t))
                                                   + Cardinality(MovedBefore(tasks, k))]
                 ELSE tasks[k]
    BY <1>2, NumberedFacts
  <2>2. \A i, j \in Nat : i + j \in Nat
    OBVIOUS
  <2> HIDE DEF numbered, kept
  <2> QED BY <2>1, <2>2
<1>4. Rows(o.row.agent) \cup Rows(t.row.agent) \subseteq alive
  BY AgentsOfSides
<1>5. /\ Rows(o.row.task) \cup Rows(t.row.task) \subseteq kept
      /\ \A k \in kept : \/ k \in Rows(o.row.task) /\ tasks[k].owner = o.row.task[k].owner
                         \/ k \in Rows(t.row.task) /\ tasks[k].owner = t.row.task[k].owner
  BY TasksOfSides
<1> HIDE DEF tasks, numbered, agents, members, deps, owned, events
<1>6. owned = numbered
  <2>1. ASSUME NEW k \in kept
        PROVE  k \in TaskIds /\ numbered[k] \in TaskRow /\ numbered[k].owner \in alive \cup {Nobody}
    <3>1. k \in TaskIds /\ tasks[k] \in TaskRow /\ numbered[k] \in TaskRow
      BY <1>2, <1>3 DEF Rows, TaskTable
    <3>2. tasks[k].owner \in alive \cup {Nobody}
      BY <1>4, <1>5 DEF Consistent
    <3>3. \A n : [tasks[k] EXCEPT !.number = n].owner = tasks[k].owner
      BY <3>1 DEF TaskRow
    <3>4. numbered[k].owner = tasks[k].owner
      BY <1>3, <3>1, <3>3
    <3> QED BY <3>1, <3>2, <3>4
  <2>2. ASSUME NEW row \in TaskRow, row.owner \in alive \cup {Nobody}
        PROVE  [row EXCEPT !.owner = OrNull(Remapped(alias, @), alive)] = row
    <3>1. row.owner \in AgentIds \cup {Nobody}
      BY DEF TaskRow
    <3>2. OrNull(Remapped(alias, row.owner), alive) = row.owner
      BY <2>2, <3>1 DEF OrNull, Remapped
    <3> HIDE DEF alias, alive
    <3> QED BY <3>2 DEF TaskRow
  <2>3. \A k \in TaskIds \ kept : numbered[k] = NoRow
    BY <1>3 DEF Rows, TaskTable
  <2> HIDE DEF alias, alive, kept
  <2>4. \A k \in TaskIds : owned[k] = numbered[k]
    <3> TAKE k \in TaskIds
    <3>1. CASE k \in kept
      BY <2>1, <2>2, <3>1 DEF owned, Owned
    <3>2. CASE k \notin kept
      BY <2>3, <3>2 DEF owned, Owned
    <3> QED BY <3>1, <3>2
  <2>5. DOMAIN owned = TaskIds /\ owned = [k \in TaskIds |-> owned[k]]
    BY DEF owned, Owned
  <2>6. numbered = [k \in TaskIds |-> numbered[k]]
    BY <1>3 DEF TaskTable
  <2> QED BY <2>4, <2>5, <2>6
<1>7. ASSUME NEW a \in AgentIds
      PROVE  members[a] = MemberBeforeRemap(b, o, t, a)
  <2> DEFINE m == MemberBeforeRemap(b, o, t, a)
             rows == {MemberBeforeRemap(b, o, t, i) : i \in {j \in AgentIds : alias[j] = a}} \ {NoRow}
  <2>1. {j \in AgentIds : alias[j] = a} = {a}
    OBVIOUS
  <2>2. rows = {m} \ {NoRow}
    BY <2>1
  <2>3. m \in MemberRow \cup {NoRow}
    BY MemberTyped
  <2>4. m # NoRow => Newest({m}) = m
    BY <2>3, StampsTyped, NewestIn
  <2>5. members[a] = IF rows = {} THEN NoRow ELSE Newest(rows)
    BY DEF members, MergedMembers
  <2> HIDE DEF m, rows
  <2> QED BY <2>2, <2>4, <2>5 DEF m
<1>8. events = EventsOfAll(b, o, t)
  <2>1. ASSUME NEW e \in TaskIds
        PROVE  Rewritten(EventsOfAll(b, o, t)[e], alias, alive, kept) = EventsOfAll(b, o, t)[e]
    <3> DEFINE held == Held(b.row.event[e], o.row.event[e], t.row.event[e])
               v == EventsOfAll(b, o, t)[e]
    <3>1. v = IF held = {} THEN NoRow ELSE Either(held)
      BY DEF EventsOfAll, UnionEvent
    <3>2. held # {} => Either(held) \in held
      BY DEF Either
    <3>3. held \in SUBSET EventRow
      BY StoreFacts DEF Held
    <3>4. \A r, z \in held : r = z
      BY DEF SameEvents, Tampered
    <3>5. held # {} => o.row.event[e] \in held \/ t.row.event[e] \in held
      <4>1. b.row.event[e] # NoRow => o.row.event[e] # NoRow
        BY StoreFacts DEF SameEvents, Rows
      <4> QED BY <4>1 DEF Held
    <3> HIDE DEF held, v
    <3>6. CASE held = {}
      BY <3>1, <3>6 DEF Rewritten, v
    <3>7. CASE held # {}
      <4>1. v \in EventRow /\ v # NoRow /\ (v = o.row.event[e] \/ v = t.row.event[e])
        <5>1. v \in held
          BY <3>1, <3>2, <3>7
        <5> QED BY <3>3, <3>4, <3>5, <3>7, <5>1, IdAssumption
      <4>2. /\ v = o.row.event[e] => e \in Rows(o.row.event)
            /\ v = t.row.event[e] => e \in Rows(t.row.event)
        BY <4>1, StoreFacts DEF Rows
      <4>3. v.actor \in alive \cup {Nobody} /\ v.task \in kept \cup {Nobody}
        BY <1>4, <1>5, <4>1, <4>2 DEF Consistent
      <4>4. v.actor \in AgentIds \cup {Nobody} /\ v = [actor |-> v.actor, task |-> v.task]
        BY <4>1 DEF EventRow
      <4>5. OrNull(Remapped(alias, v.actor), alive) = v.actor /\ OrNull(v.task, kept) = v.task
        BY <4>3, <4>4 DEF OrNull, Remapped
      <4> HIDE DEF alias, alive, kept
      <4>6. Rewritten(v, alias, alive, kept) = v
        BY <4>1, <4>4, <4>5 DEF Rewritten
      <4> QED BY <4>6 DEF v
    <3> QED BY <3>6, <3>7
  <2>2. events = [e \in TaskIds |-> EventsOfAll(b, o, t)[e]]
    BY <2>1 DEF events, MergedEvents
  <2> QED BY <2>2 DEF EventsOfAll
<1> HIDE DEF alias, alive
<1>9. /\ Candidate(b, o, t).row.task = numbered /\ Candidate(b, o, t).row.agent = agents
      /\ Candidate(b, o, t).row.member = members /\ Candidate(b, o, t).row.dep = deps
      /\ Candidate(b, o, t).row.event = EventsOfAll(b, o, t)
      /\ Candidate(b, o, t).gone = MergedGone(b, o, t, Rows(numbered), Rows(members), Rows(deps))
      /\ Candidate(b, o, t).next = CounterAbove(numbered, MergedNext(b, o, t))
  BY <1>1, <1>3, <1>6, <1>8
<1> QED BY <1>7, <1>9 DEF Unfolded, agents, numbered, tasks, deps

----------------------------------------------------------------------------
(***************************************************************************)
(* What is merged and merged back                                          *)
(***************************************************************************)
\* The bases: nothing, or a database in which no task is started.
BaseSound(b) ==
    /\ b \in Stores /\ b.gone.task = {} /\ b.gone.member = {} /\ b.gone.dep = {}
    /\ \A k \in TaskIds : b.row.task[k] # NoRow =>
          ~b.row.task[k].started /\ b.row.task[k].number < b.next
    /\ Rows(b.row.event) \subseteq Rows(Genesis.row.event)

LEMMA BasesSound ==
    ASSUME NEW b \in {Empty} \cup Beginnings
    PROVE  BaseSound(b)
<1>1. Genesis \in Stores /\ SoundStore(Genesis)
  BY GenesisSound DEF SoundStore
<1>2. /\ Empty.gone.task = {} /\ Empty.gone.member = {} /\ Empty.gone.dep = {}
      /\ Rows(Empty.row.event) = {} /\ \A k \in TaskIds : Empty.row.task[k] = NoRow
  BY DEF Empty, Rows
<1>3. /\ Genesis.gone = Empty.gone /\ DOMAIN Genesis.row.task = TaskIds
      /\ \A k \in TaskIds : Genesis.row.task[k] # NoRow => ~Genesis.row.task[k].started
  <2>1. /\ ~NewTask(1).started
        /\ ~[NewTask(2) EXCEPT !.status = "completed"].started
    BY DEF NewTask
  <2> DEFINE one == NewTask(1)
             two == [NewTask(2) EXCEPT !.status = "completed"]
             none == Empty.row.task
  <2>2. Genesis.row.task = [none EXCEPT ![1] = one, ![2] = two]
    BY DEF Genesis
  <2>3. DOMAIN none = TaskIds /\ \A k \in TaskIds : none[k] = NoRow
    BY DEF Empty
  <2> HIDE DEF one, two, none
  <2>4. \A k \in TaskIds : Genesis.row.task[k] \in {NoRow, one, two}
    BY <2>2, <2>3
  <2>5. Genesis.gone = Empty.gone /\ DOMAIN Genesis.row.task = TaskIds
    BY <2>2, <2>3 DEF Genesis
  <2> QED BY <2>1, <2>4, <2>5 DEF one, two
<1>4. \A k \in TaskIds : Genesis.row.task[k] # NoRow => Genesis.row.task[k].number < Genesis.next
  BY <1>1, <1>3 DEF SoundStore, NumbersSound, Rows
<1>5. BaseSound(Genesis)
  BY <1>1, <1>2, <1>3, <1>4 DEF BaseSound
<1>6. BaseSound(Empty)
  BY <1>2, EmptyTyped DEF BaseSound
<1> DEFINE bare == [Genesis EXCEPT !.row.dep[1] = NoRow]
<1>7. bare \in Stores
  BY Starts DEF EdgesSound, SoundStore
<1>8. bare.gone = Genesis.gone /\ bare.next = Genesis.next /\ bare.row.task = Genesis.row.task
         /\ bare.row.event = Genesis.row.event
  BY <1>1 DEF Stores, Tables
<1> HIDE DEF bare
<1>9. BaseSound(bare)
  BY <1>5, <1>7, <1>8 DEF BaseSound
<1> QED BY <1>5, <1>6, <1>9 DEF Beginnings, bare

\* Answers without --set.
Plain(q, answers) ==
    /\ DOMAIN answers = Conflicting(q)
    /\ \A c \in DOMAIN answers : answers[c].side \in Sides /\ answers[c].owner = Kept

\* What they make of a row: of an edge in conflict one row stays, and a row in conflict
\* is that of a side.
LEMMA WordCases ==
    ASSUME NEW q, NEW answers, Plain(q, answers), NEW x \in Keys
    PROVE  /\ \A d \in EdgeClashes(Deps(q)) : x \in NamedBy(q, <<"edge", d>>) =>
                 /\ Word(q, answers, x) = IF x[2] = Claimant(q, d, answers[<<"edge", d>>].side)
                                          THEN Chosen(q, x, answers[<<"edge", d>>].side) ELSE NoRow
                 /\ Lost(q, answers, x) <=> Word(q, answers, x) = NoRow
           /\ (\A d \in EdgeClashes(Deps(q)) : x \notin NamedBy(q, <<"edge", d>>)) =>
                 /\ x \in Conflicting(q) =>
                       /\ Word(q, answers, x) = Chosen(q, x, answers[x].side)
                       /\ Lost(q, answers, x) <=> Word(q, answers, x) = NoRow
                 /\ x \notin Conflicting(q) =>
                       /\ Word(q, answers, x) = q.image.row[x[1]][x[2]]
                       /\ Lost(q, answers, x) <=> x[2] \in q.image.gone[x[1]]
<1>1. DOMAIN answers = Conflicting(q)
  BY DEF Plain
<1>2. \A c : Either({c}) = c
  BY DEF Either
<1>3. ASSUME NEW d \in EdgeClashes(Deps(q)), x \in NamedBy(q, <<"edge", d>>)
      PROVE  /\ Word(q, answers, x) = IF x[2] = Claimant(q, d, answers[<<"edge", d>>].side)
                                      THEN Chosen(q, x, answers[<<"edge", d>>].side) ELSE NoRow
             /\ Lost(q, answers, x) <=> Word(q, answers, x) = NoRow
  <2> DEFINE c == <<"edge", d>>
  <2>1. LastAbout(q, answers, x) = {c}
    BY <1>1, <1>3, AboutKey
  <2>2. c[1] = "edge" /\ c[2] = d
    OBVIOUS
  <2> HIDE DEF c
  <2>3. Word(q, answers, x) = Said(q, c, answers[c], x)
    BY <1>2, <2>1 DEF Word
  <2> QED BY <2>1, <2>2, <2>3 DEF Said, Lost, c
<1>4. ASSUME \A d \in EdgeClashes(Deps(q)) : x \notin NamedBy(q, <<"edge", d>>)
      PROVE  /\ x \in Conflicting(q) =>
                   /\ Word(q, answers, x) = Chosen(q, x, answers[x].side)
                   /\ Lost(q, answers, x) <=> Word(q, answers, x) = NoRow
             /\ x \notin Conflicting(q) =>
                   /\ Word(q, answers, x) = q.image.row[x[1]][x[2]]
                   /\ Lost(q, answers, x) <=> x[2] \in q.image.gone[x[1]]
  <2>1. LastAbout(q, answers, x) = {x} \cap Conflicting(q)
    BY <1>1, <1>4, AboutKey
  <2>2. CASE x \in Conflicting(q)
    <3>1. LastAbout(q, answers, x) = {x} /\ x[1] # "edge" /\ answers[x].owner = Kept
      BY <2>1, <2>2, KeyFacts DEF Plain
    <3> HIDE DEF Keys
    <3>2. Word(q, answers, x) = Said(q, x, answers[x], x)
      BY <1>2, <3>1 DEF Word
    <3>3. Said(q, x, answers[x], x) = Chosen(q, x, answers[x].side)
      BY <3>1 DEF Said, Overridden
    <3> QED BY <2>2, <3>1, <3>2, <3>3 DEF Lost
  <2>3. CASE x \notin Conflicting(q)
    BY <2>1, <2>3 DEF Word, Lost
  <2> QED BY <2>2, <2>3
<1> QED BY <1>3, <1>4

----------------------------------------------------------------------------
(***************************************************************************)
(* The way back.  The clone the bundle came from merges the result, over   *)
(* the same base: row by row it gets what is there, except where its row   *)
(* is in conflict again.                                                   *)
(***************************************************************************)
\* What a merge with answers makes of a key that can be deleted, with its tombstone.
Made(b, o, t, od, td, e, r, rd) ==
    /\ DeleteClash(b, o, t, od, td) => r \in {o, t} /\ (rd <=> r = NoRow)
    /\ ~DeleteClash(b, o, t, od, td) =>
          /\ r = MergeKey(b, o, t, od, td, e)
          /\ rd <=> (od \/ td) /\ r = NoRow

\* A task: the versions of a conflict have one number, a row that the merge gave a new
\* number has one above all.
TaskMade(b, o, t, r) ==
    \/ /\ BothEdited(b, o, t) /\ StatusGap(o, t) /\ r \in {o, t} /\ o.number = t.number
    \/ /\ ~(BothEdited(b, o, t) /\ StatusGap(o, t))
       /\ LET m == TaskOf(b, o, t)
          IN  \/ r = m
              \/ /\ m # NoRow /\ r \in TaskRow
                 /\ \E n \in Nat : r = [m EXCEPT !.number = n]
                 /\ b # NoRow => b.number < r.number
                 /\ o # NoRow => o.number < r.number
                 /\ t # NoRow => t.number < r.number

\* A version that beats ours, or that is ours with a fact more, is elected as it is.
LEMMA ElectAgain ==
    ASSUME NEW t \in TaskRow, NEW r \in TaskRow, ~StatusGap(t, r), t.started => r.started,
           Beats(r, t) \/ (r.started /\ r = [t EXCEPT !.started = TRUE])
    PROVE  ElectTask(t, r) = r
<1>1. Winner(t, r) \in {t, r} /\ ~Beats(r, Winner(t, r))
  BY WinnerFacts
<1>2. (t.started \/ r.started) = r.started /\ [r EXCEPT !.started = r.started] = r
  BY DEF TaskRow
<1>3. ElectTask(t, r) = [Winner(t, r) EXCEPT !.started = r.started]
  BY <1>2 DEF ElectTask
<1>4. CASE Beats(r, t)
  BY <1>1, <1>2, <1>3, <1>4
<1>5. CASE r.started /\ r = [t EXCEPT !.started = TRUE]
  <2>1. r.started = TRUE
    BY <1>5 DEF TaskRow
  <2> QED BY <1>1, <1>2, <1>3, <1>5, <2>1
<1> QED BY <1>4, <1>5

LEMMA TaskBack ==
    ASSUME NEW b \in TaskRow \cup {NoRow}, NEW o \in TaskRow \cup {NoRow},
           NEW t \in TaskRow \cup {NoRow}, NEW r \in TaskRow \cup {NoRow}, TaskMade(b, o, t, r),
           b # NoRow => ~b.started,
           o # NoRow /\ t # NoRow /\ o.upd = t.upd => o = t
    PROVE  LET m == TaskOf(b, t, r)
           IN  /\ ~Unsettled(b, t, r) => m = r
               /\ Unsettled(b, t, r) => m # NoRow /\ r # NoRow /\ m.number = r.number
<1> DEFINE m == TaskOf(b, t, r)
           m0 == TaskOf(b, o, t)
<1>1. \A v \in TaskRow : /\ v.number \in Nat /\ v.upd \in Nat /\ v.started \in BOOLEAN
                          /\ v # NoRow
  BY IdAssumption DEF TaskRow, Times
<1>2. ASSUME NEW v \in TaskRow, NEW n \in Nat
      PROVE  /\ [v EXCEPT !.number = n].number = n /\ [v EXCEPT !.number = n].upd = v.upd
             /\ [v EXCEPT !.number = n].status = v.status
             /\ [v EXCEPT !.number = n].started = v.started
  BY DEF TaskRow
<1>3. Unsettled(b, t, r) <=> BothEdited(b, t, r) /\ StatusGap(t, r)
  BY DEF Unsettled
<1>4. r = t => m = r
  BY DEF TaskOf, MergeTask, MergeKey, BothEdited
<1>5. CASE BothEdited(b, o, t) /\ StatusGap(o, t)
  <2>1. r \in {o, t} /\ o.number = t.number /\ o # NoRow /\ t # NoRow
    BY <1>5 DEF TaskMade, BothEdited, Edited
  <2>2. CASE r = t
    BY <1>3, <1>4, <2>2 DEF BothEdited
  <2>3. CASE r = o
    <3>1. BothEdited(b, t, r) /\ StatusGap(t, r)
      BY <1>5, <2>3 DEF BothEdited, StatusGap
    <3>2. m = t
      BY <3>1 DEF TaskOf, MergeTask, MergeKey, ElectTask, BothEdited
    <3> QED BY <1>3, <2>1, <2>3, <3>1, <3>2
  <2> QED BY <2>1, <2>2, <2>3
<1>6. CASE ~(BothEdited(b, o, t) /\ StatusGap(o, t))
  <2>1. \/ r = m0
        \/ /\ m0 # NoRow /\ r \in TaskRow
           /\ \E n \in Nat : r = [m0 EXCEPT !.number = n]
           /\ b # NoRow => b.number < r.number
           /\ o # NoRow => o.number < r.number
           /\ t # NoRow => t.number < r.number
    BY <1>6 DEF TaskMade
  <2>2. t # NoRow => m0 # NoRow
    <3>1. BothEdited(b, o, t) => ElectTask(o, t) # NoRow
      BY <1>1, ElectTaskTyped DEF BothEdited, Edited
    <3> QED BY <3>1 DEF TaskOf, MergeTask, MergeKey, BothEdited, Edited
  <2>3. t # NoRow => r \in TaskRow
    BY <2>1, <2>2
  <2>4. CASE ~Edited(t, b)
    <3>1. m = IF r # NoRow THEN r ELSE t
      BY <2>4 DEF TaskOf, MergeTask, MergeKey, BothEdited
    <3>2. m = r
      BY <1>1, <2>3, <3>1
    <3> QED BY <1>3, <2>4, <3>2 DEF BothEdited
  <2>5. CASE r = t
    BY <1>3, <1>4, <2>5 DEF BothEdited
  <2>6. CASE Edited(t, b) /\ r # t
    <3>1. t \in TaskRow /\ r \in TaskRow /\ t # NoRow /\ t # b
      BY <2>3, <2>6 DEF Edited
    <3>2. CASE m0 = t
      <4>1. PICK n \in Nat : r = [t EXCEPT !.number = n]
        BY <2>1, <2>6, <3>2
      <4>2. /\ r.upd = t.upd /\ r.status = t.status /\ r.started = t.started /\ t.number < r.number
            /\ b # NoRow => b.number < r.number
        BY <1>2, <2>1, <2>6, <3>1, <3>2, <4>1
      <4>3. Beats(r, t) /\ ~StatusGap(t, r)
        BY <4>2 DEF Beats, Terminal, StatusGap
      <4>4. ElectTask(t, r) = r
        BY <3>1, <4>2, <4>3, ElectAgain
      <4>5. r # b
        BY <1>1, <3>1, <4>2
      <4> QED BY <1>1, <1>3, <2>6, <3>1, <4>3, <4>4, <4>5 DEF TaskOf, MergeTask, MergeKey, BothEdited, Edited
    <3>3. CASE m0 # t
      <4> DEFINE w == Winner(o, t)
                 s == o.started \/ t.started
      <4>1. /\ BothEdited(b, o, t) /\ ~StatusGap(o, t) /\ o \in TaskRow /\ o # b
            /\ m0 = [w EXCEPT !.started = s]
        BY <1>6, <2>6, <3>3 DEF TaskOf, MergeTask, MergeKey, ElectTask, BothEdited, Edited
      <4>2. w \in {o, t} /\ ~Beats(t, w) /\ w \in TaskRow /\ s \in BOOLEAN
        BY <3>1, <4>1, WinnerFacts
      <4> HIDE DEF w, s, m0
      <4>3. /\ m0 \in TaskRow /\ m0.upd = w.upd /\ m0.status = w.status /\ m0.started = s
            /\ m0.number = w.number
        BY <4>1, <4>2 DEF TaskRow
      <4>4. /\ r.upd = w.upd /\ r.status = w.status /\ r.started = s
            /\ r = m0 \/ (t.number < r.number /\ (b # NoRow => b.number < r.number))
        <5>1. CASE r = m0
          BY <4>3, <5>1
        <5>2. CASE r # m0
          <6>1. /\ t.number < r.number /\ (b # NoRow => b.number < r.number)
                /\ \E n \in Nat : r = [m0 EXCEPT !.number = n]
            BY <2>1, <3>1, <5>2
          <6>2. r.upd = m0.upd /\ r.status = m0.status /\ r.started = m0.started
            BY <1>2, <4>3, <6>1
          <6> QED BY <4>3, <6>1, <6>2
        <5> QED BY <5>1, <5>2
      <4>5. ~StatusGap(t, r)
        BY <4>1, <4>2, <4>4 DEF StatusGap, Terminal
      <4>6. t.started => r.started
        BY <4>4 DEF s
      <4>7. r # b
        <5>1. CASE r # m0
          BY <1>1, <3>1, <4>4, <5>1
        <5>2. CASE r = m0 /\ s
          BY <4>3, <5>2, IdAssumption
        <5>3. CASE r = m0 /\ ~s
          <6>1. w.started = FALSE /\ s = FALSE
            BY <1>1, <3>1, <4>1, <4>2, <5>3 DEF s
          <6>2. m0 = w
            BY <4>1, <4>2, <6>1 DEF TaskRow
          <6> QED BY <3>1, <4>1, <4>2, <5>3, <6>2
        <5> QED BY <5>1, <5>2, <5>3
      <4>8. Beats(r, t) \/ (r.started /\ r = [t EXCEPT !.started = TRUE])
        <5>1. CASE w = t /\ r # m0
          BY <4>4, <5>1 DEF Beats, Terminal
        <5>2. CASE w = t /\ r = m0
          <6>1. s = TRUE
            <7>1. s = FALSE => t.started = FALSE
              BY <1>1, <3>1 DEF s
            <7>2. t.started = FALSE => [t EXCEPT !.started = FALSE] = t
              BY <3>1 DEF TaskRow
            <7> QED BY <2>6, <4>1, <4>2, <5>2, <7>1, <7>2
          <6> QED BY <4>1, <4>3, <5>2, <6>1
        <5>3. CASE w = o /\ o # t
          <6>1. o.upd # t.upd /\ o.upd \in Nat /\ t.upd \in Nat
            BY <1>1, <3>1, <4>1, <5>3
          <6>2. ~Beats(t, o)
            BY <4>2, <5>3
          <6>3. \/ Terminal(o) /\ ~Terminal(t)
                \/ Terminal(o) = Terminal(t) /\ o.upd > t.upd
            BY <6>1, <6>2 DEF Beats, Terminal
          <6>4. Terminal(r) = Terminal(o) /\ r.upd = o.upd
            BY <4>4, <5>3 DEF Terminal
          <6> QED BY <6>3, <6>4 DEF Beats
        <5> QED BY <4>2, <5>1, <5>2, <5>3
      <4>9. ElectTask(t, r) = r
        BY <3>1, <4>5, <4>6, <4>8, ElectAgain
      <4> QED BY <1>1, <1>3, <2>6, <3>1, <4>5, <4>7, <4>9 DEF TaskOf, MergeTask, MergeKey, BothEdited, Edited
    <3> QED BY <3>2, <3>3
  <2> QED BY <2>4, <2>5, <2>6
<1> QED BY <1>5, <1>6

\* A session that folds no agent into another, and the database r that plain answers
\* have made of its candidate.
Way(edge, n, q, answers, r) ==
    /\ SessionSound(q) /\ BaseSound(q.base)
    /\ Known(edge, n, q.ours) /\ Known(edge, n, q.theirs) /\ Known(edge, n, r)
    /\ EdgesSound(r) /\ ~Buried(r)
    /\ Unfolded(q.base, q.ours, q.theirs, q.image) /\ SameEvents(q.base, q.ours, q.theirs)
    /\ Plain(q, answers) /\ AnsweredAs(q, answers, r)
    /\ Untied(q) /\ NobodyFolded(q) /\ NumbersAgree(q) /\ NobodyRejoined(q)

LEMMA WayStores ==
    ASSUME NEW edge, NEW n, NEW q, NEW answers, NEW r, Way(edge, n, q, answers, r)
    PROVE  /\ q.base \in Stores /\ q.ours \in Stores /\ q.theirs \in Stores /\ r \in Stores
           /\ q.image \in Stores
           /\ Consistent(q.theirs.row) /\ Consistent(r.row)
           /\ NoTaskGone(q.ours) /\ NoTaskGone(q.theirs) /\ NoTaskGone(r)
           /\ NumbersSound(q.ours) /\ NumbersSound(q.theirs) /\ NumbersSound(r)
           /\ EdgesOnce(q.ours.row.dep) /\ EdgesOnce(q.theirs.row.dep) /\ EdgesOnce(r.row.dep)
BY DEF Way, SessionSound, EdgesSound, SoundStore, Known, NoTaskGone

\* Nobody is folded on the way back, and the agents are those of the result.
LEMMA AgentsBack ==
    ASSUME NEW edge, NEW n, NEW q, NEW answers, NEW r, Way(edge, n, q, answers, r)
    PROVE  Folded({q.theirs, r}) = {} /\ MergedAgents(q.base, q.theirs, r) = r.row.agent
<1> DEFINE b == q.base.row.agent
           o == q.ours.row.agent
           t == q.theirs.row.agent
           p == r.row.agent
<1>1. Folded({q.ours, q.theirs}) = {} /\ p = MergedAgents(q.base, q.ours, q.theirs)
  BY DEF Way, NobodyFolded, AnsweredAs, Rest, Unfolded
<1>2. ASSUME NEW a \in AgentIds
      PROVE  /\ p[a] = MergeAgent(b[a], o[a], t[a])
             /\ BothEdited(b[a], o[a], t[a]) => Newest({o[a], t[a]}) \in {o[a], t[a]}
  <2>1. o[a] \in AgentRow \cup {NoRow} /\ t[a] \in AgentRow \cup {NoRow}
    BY WayStores, StoreFacts
  <2>2. o[a] # NoRow /\ t[a] # NoRow => Newest({o[a], t[a]}) \in {o[a], t[a]}
    <3> HIDE DEF o, t
    <3> QED BY <2>1, StampsTyped, NewestIn
  <2> QED BY <1>1, <2>2 DEF MergedAgents, BothEdited, Edited
<1>3. ASSUME NEW a \in AgentIds
      PROVE  MergeAgent(b[a], t[a], p[a]) = p[a] /\ p[a] \in {o[a], t[a]}
  <2> DEFINE e == Newest({o[a], t[a]})
             f == Newest({t[a], p[a]})
  <2>1. p[a] = MergeKey(b[a], o[a], t[a], FALSE, FALSE, e)
    BY <1>2 DEF MergeAgent
  <2>2. BothEdited(b[a], o[a], t[a]) => e \in {o[a], t[a]}
    BY <1>2
  <2>3. BothEdited(b[a], o[a], t[a]) /\ BothEdited(b[a], t[a], p[a]) /\ p[a] = e => f = e
    <3> SUFFICES ASSUME BothEdited(b[a], o[a], t[a]), BothEdited(b[a], t[a], p[a]), p[a] = e
                 PROVE  f = e
      OBVIOUS
    <3>1. p[a] = o[a]
      BY <2>2 DEF BothEdited
    <3>2. {o[a], t[a]} = {t[a], p[a]}
      BY <3>1
    <3> QED BY <3>2
  <2> HIDE DEF e, f, p, o, t, b
  <2>4. MergeKey(b[a], t[a], p[a], FALSE, FALSE, f) = p[a]
    BY <2>1, <2>2, <2>3 DEF MergeKey, BothEdited, Edited
  <2>5. p[a] \in {o[a], t[a]}
    BY <2>1, <2>2 DEF MergeKey
  <2>6. MergeAgent(b[a], t[a], p[a]) = MergeKey(b[a], t[a], p[a], FALSE, FALSE, f)
    BY DEF MergeAgent, f
  <2> HIDE DEF MergeAgent
  <2> QED BY <2>4, <2>5, <2>6
<1>4. Folded({q.theirs, r}) = {}
  <2>1. ASSUME NEW i \in Names
        PROVE  Named({q.theirs, r}, i) \subseteq Named({q.ours, q.theirs}, i)
    <3>1. ASSUME NEW a \in AgentIds, NEW s \in {q.theirs, r}, s.row.agent[a] # NoRow,
                 s.row.agent[a].name = i
          PROVE  \E z \in {q.ours, q.theirs} : z.row.agent[a] # NoRow /\ z.row.agent[a].name = i
      <4>1. s.row.agent[a] = q.ours.row.agent[a] \/ s.row.agent[a] = q.theirs.row.agent[a]
        BY <1>3
      <4> QED BY <3>1, <4>1
    <3> HIDE DEF b, o, t, p
    <3> QED BY <3>1 DEF Named
  <2>2. \A a \in AgentIds : LosesName({q.theirs, r}, a) \subseteq LosesName({q.ours, q.theirs}, a)
    BY <2>1 DEF LosesName
  <2> QED BY <1>1, <2>2 DEF Folded
<1>5. MergedAgents(q.base, q.theirs, r) = [a \in AgentIds |-> MergeAgent(b[a], t[a], p[a])]
  BY <1>4 DEF MergedAgents
<1>6. p = [a \in AgentIds |-> p[a]]
  BY WayStores, StoreFacts
<1> HIDE DEF b, o, t
<1>7. MergedAgents(q.base, q.theirs, r) = p
  BY <1>3, <1>5, <1>6
<1> QED BY <1>4, <1>7

\* No side has another version of an event on the way back, and the result has all.
LEMMA EventsBack ==
    ASSUME NEW edge, NEW n, NEW q, NEW answers, NEW r, Way(edge, n, q, answers, r)
    PROVE  SameEvents(q.base, q.theirs, r) /\ EventsOfAll(q.base, q.theirs, r) = r.row.event
<1> DEFINE b == q.base.row.event
           o == q.ours.row.event
           t == q.theirs.row.event
           p == r.row.event
<1>1. p = EventsOfAll(q.base, q.ours, q.theirs) /\ SameEvents(q.base, q.ours, q.theirs)
  BY DEF Way, AnsweredAs, Rest, Unfolded
<1>2. ASSUME NEW e \in TaskIds
      PROVE  ~Tampered(b[e], t[e], p[e]) /\ UnionEvent(b[e], t[e], p[e]) = p[e]
  <2>1. p[e] = UnionEvent(b[e], o[e], t[e]) /\ ~Tampered(b[e], o[e], t[e])
    BY <1>1 DEF EventsOfAll, SameEvents
  <2> HIDE DEF b, o, t, p
  <2>2. \A S : S # {} => Either(S) \in S
    BY DEF Either
  <2>3. CASE Held(b[e], o[e], t[e]) = {}
    <3>1. p[e] = NoRow /\ b[e] = NoRow /\ t[e] = NoRow
      BY <2>1, <2>3 DEF UnionEvent, Held
    <3> QED BY <3>1 DEF UnionEvent, Held, Tampered
  <2>4. CASE Held(b[e], o[e], t[e]) # {}
    <3>1. p[e] \in Held(b[e], o[e], t[e]) /\ \A x, y \in Held(b[e], o[e], t[e]) : x = y
      BY <2>1, <2>2, <2>4 DEF UnionEvent, Tampered
    <3>2. \A x \in Held(b[e], t[e], p[e]) : x = p[e]
      BY <3>1 DEF Held
    <3>3. p[e] \in Held(b[e], t[e], p[e])
      BY <3>1 DEF Held
    <3> QED BY <2>2, <3>2, <3>3 DEF UnionEvent, Tampered
  <2> QED BY <2>3, <2>4
<1>3. Rows(b) \subseteq Rows(t)
  BY DEF Way, BaseSound, Known
<1>4. p = [e \in TaskIds |-> p[e]]
  BY WayStores, StoreFacts
<1>5. EventsOfAll(q.base, q.theirs, r) = [e \in TaskIds |-> UnionEvent(b[e], t[e], p[e])]
  BY DEF EventsOfAll
<1>6. SameEvents(q.base, q.theirs, r)
  BY <1>2, <1>3 DEF SameEvents
<1> HIDE DEF b, o, t
<1>7. EventsOfAll(q.base, q.theirs, r) = p
  BY <1>2, <1>4, <1>5
<1> QED BY <1>6, <1>7

----------------------------------------------------------------------------
(* Members *)

\* A key of a table in which no edge names it.
LEMMA OwnWord ==
    ASSUME NEW q, NEW answers, Plain(q, answers), NEW x \in Keys, x[1] # "dep"
    PROVE  /\ x \in Conflicting(q) =>
                 /\ Word(q, answers, x) = Chosen(q, x, answers[x].side) /\ answers[x].side \in Sides
                 /\ Lost(q, answers, x) <=> Word(q, answers, x) = NoRow
           /\ x \notin Conflicting(q) =>
                 /\ Word(q, answers, x) = q.image.row[x[1]][x[2]]
                 /\ Lost(q, answers, x) <=> x[2] \in q.image.gone[x[1]]
<1>1. \A d \in EdgeClashes(Deps(q)) : x \notin NamedBy(q, <<"edge", d>>)
  BY DEF NamedBy
<1>2. x \in Conflicting(q) => answers[x].side \in Sides
  BY DEF Plain
<1> HIDE DEF Keys
<1> QED BY <1>1, <1>2, WordCases

\* Which members and tasks are in conflict.
LEMMA OwnClash ==
    ASSUME NEW q
    PROVE  /\ \A a \in AgentIds : <<"member", a>> \in Conflicting(q) <=>
                 DeleteClash(q.base.row.member[a], q.ours.row.member[a], q.theirs.row.member[a],
                             a \in q.ours.gone.member, a \in q.theirs.gone.member)
           /\ \A k \in TaskIds : <<"task", k>> \in Conflicting(q) <=>
                 TaskClash(q.base.row.task[k], q.ours.row.task[k], q.theirs.row.task[k],
                           k \in q.ours.gone.task, k \in q.theirs.gone.task)
           /\ \A d \in DepIds : <<"dep", d>> \in Conflicting(q) <=>
                 DeleteClash(q.base.row.dep[d], q.ours.row.dep[d], q.theirs.row.dep[d],
                             d \in q.ours.gone.dep, d \in q.theirs.gone.dep)
<1> DEFINE members == {a \in AgentIds :
                 DeleteClash(q.base.row.member[a], q.ours.row.member[a], q.theirs.row.member[a],
                             a \in q.ours.gone.member, a \in q.theirs.gone.member)}
           tasks == {k \in TaskIds :
                 TaskClash(q.base.row.task[k], q.ours.row.task[k], q.theirs.row.task[k],
                           k \in q.ours.gone.task, k \in q.theirs.gone.task)}
           deps == {d \in DepIds :
                 DeleteClash(q.base.row.dep[d], q.ours.row.dep[d], q.theirs.row.dep[d],
                             d \in q.ours.gone.dep, d \in q.theirs.gone.dep)}
           edges == EdgeClashes(DepsBeforeElection(q.base, q.ours, q.theirs))
<1>1. Conflicting(q) = {<<"task", k>> : k \in tasks} \cup {<<"member", a>> : a \in members}
                          \cup {<<"dep", d>> : d \in deps} \cup {<<"edge", d>> : d \in edges}
  BY DEF Conflicting, Clashes
<1> HIDE DEF members, tasks, deps, edges
<1>2. /\ \A i : <<"member", i>> \in Conflicting(q) <=> i \in members
      /\ \A i : <<"task", i>> \in Conflicting(q) <=> i \in tasks
      /\ \A i : <<"dep", i>> \in Conflicting(q) <=> i \in deps
  BY <1>1
<1> QED BY <1>2 DEF members, tasks, deps

\* No row has a tombstone.
LEMMA NotBuried ==
    ASSUME NEW r \in Stores, ~Buried(r)
    PROVE  /\ \A k \in r.gone.task : k \in TaskIds /\ r.row.task[k] = NoRow
           /\ \A a \in r.gone.member : a \in AgentIds /\ r.row.member[a] = NoRow
           /\ \A d \in r.gone.dep : d \in DepIds /\ r.row.dep[d] = NoRow
BY StoreFacts DEF Buried, Rows

LEMMA MembersMade ==
    ASSUME NEW edge, NEW n, NEW q, NEW answers, NEW r, Way(edge, n, q, answers, r), NEW a \in AgentIds
    PROVE  Made(q.base.row.member[a], q.ours.row.member[a], q.theirs.row.member[a],
                a \in q.ours.gone.member, a \in q.theirs.gone.member,
                Newest({q.ours.row.member[a], q.theirs.row.member[a]}),
                r.row.member[a], a \in r.gone.member)
<1> DEFINE x == <<"member", a>>
           b == q.base.row.member[a]
           o == q.ours.row.member[a]
           t == q.theirs.row.member[a]
           od == a \in q.ours.gone.member
           td == a \in q.theirs.gone.member
           p == r.row.member[a]
           pd == a \in r.gone.member
           e == Newest({o, t})
<1>1. x \in Keys /\ x[1] = "member" /\ x[2] = a
  BY DEF Keys
<1>2. p = Word(q, answers, x) /\ (pd <=> Lost(q, answers, x)) /\ Plain(q, answers)
  BY <1>1 DEF Way, AnsweredAs
<1>3. x \in Conflicting(q) <=> DeleteClash(b, o, t, od, td)
  BY OwnClash
<1>4. ASSUME DeleteClash(b, o, t, od, td)
      PROVE  p \in {o, t} /\ (pd <=> p = NoRow)
  <2>1. /\ p = Chosen(q, x, answers[x].side) /\ (pd <=> p = NoRow)
    BY <1>1, <1>2, <1>3, <1>4, OwnWord
  <2> QED BY <1>1, <2>1 DEF Chosen, Side
<1>5. ASSUME ~DeleteClash(b, o, t, od, td)
      PROVE  p = MergeKey(b, o, t, od, td, e) /\ (pd <=> (od \/ td) /\ p = NoRow)
  <2>1. p = q.image.row.member[a] /\ (pd <=> a \in q.image.gone.member)
    BY <1>1, <1>2, <1>3, <1>5, OwnWord
  <2>2. /\ q.image.row.member[a] = MemberBeforeRemap(q.base, q.ours, q.theirs, a)
        /\ q.image.gone.member = (q.base.gone.member \cup q.ours.gone.member \cup q.theirs.gone.member)
                                    \ Rows(q.image.row.member)
        /\ q.base.gone.member = {}
    BY DEF Way, BaseSound, Unfolded, MergedGone
  <2>3. a \in Rows(q.image.row.member) <=> q.image.row.member[a] # NoRow
    BY WayStores, StoreFacts DEF Rows
  <2>4. MemberBeforeRemap(q.base, q.ours, q.theirs, a) = MergeKey(b, o, t, od, td, e)
    BY DEF MemberBeforeRemap, MergeMember
  <2> HIDE DEF e, x
  <2> QED BY <2>1, <2>2, <2>3, <2>4
<1> HIDE DEF b, o, t, od, td, p, pd, e
<1>6. Made(b, o, t, od, td, e, p, pd)
  BY <1>4, <1>5 DEF Made
<1> QED BY <1>6 DEF b, o, t, od, td, p, pd, e

\* A row that takes the way back stays, and so does its tombstone.
KeyStays(b, t, r, td, rd, m) ==
    /\ DeleteClash(b, t, r, td, rd) => (rd <=> r = NoRow)
    /\ ~DeleteClash(b, t, r, td, rd) => m = r /\ ((td \/ rd) /\ r = NoRow <=> rd)

LEMMA MembersBack ==
    ASSUME NEW edge, NEW n, NEW q, NEW answers, NEW r, Way(edge, n, q, answers, r), NEW a \in AgentIds
    PROVE  KeyStays(q.base.row.member[a], q.theirs.row.member[a], r.row.member[a],
                    a \in q.theirs.gone.member, a \in r.gone.member,
                    MemberBeforeRemap(q.base, q.theirs, r, a))
<1> DEFINE b == q.base.row.member[a]
           o == q.ours.row.member[a]
           t == q.theirs.row.member[a]
           od == a \in q.ours.gone.member
           td == a \in q.theirs.gone.member
           p == r.row.member[a]
           pd == a \in r.gone.member
           e == Newest({o, t})
           f == Newest({t, p})
<1>1. Made(b, o, t, od, td, e, p, pd)
  BY MembersMade
<1>2. od \in BOOLEAN /\ td \in BOOLEAN /\ pd \in BOOLEAN
  OBVIOUS
<1>3. (od => o = NoRow) /\ (td => t = NoRow)
  BY WayStores, NotBuried DEF Way, NobodyRejoined
<1>4. BothEdited(b, o, t) => e \in {o, t}
  <2>1. o \in MemberRow \cup {NoRow} /\ t \in MemberRow \cup {NoRow}
    BY WayStores, StoreFacts
  <2> HIDE DEF o, t
  <2> QED BY <2>1, StampsTyped, NewestIn DEF BothEdited, Edited
<1>5. MemberBeforeRemap(q.base, q.theirs, r, a) = MergeKey(b, t, p, td, pd, f)
  BY DEF MemberBeforeRemap, MergeMember
<1>6. BothEdited(b, o, t) /\ BothEdited(b, t, p) /\ p = e => f = e
  <2> SUFFICES ASSUME BothEdited(b, o, t), BothEdited(b, t, p), p = e
               PROVE  f = e
    OBVIOUS
  <2>1. p = o
    BY <1>4 DEF BothEdited
  <2>2. {o, t} = {t, p}
    BY <2>1
  <2> QED BY <2>2
<1> HIDE DEF b, o, t, od, td, p, pd, e, f
<1>7. /\ DeleteClash(b, t, p, td, pd) => (pd <=> p = NoRow)
      /\ ~DeleteClash(b, t, p, td, pd) =>
            /\ MergeKey(b, t, p, td, pd, f) = p
            /\ (td \/ pd) /\ p = NoRow <=> pd
  BY <1>1, <1>2, <1>3, <1>4, <1>6 DEF Made, DeleteClash, MergeKey, BothEdited, Edited
<1> QED BY <1>5, <1>7 DEF KeyStays, b, t, td, p, pd

----------------------------------------------------------------------------
(* Tasks *)

LEMMA TaskInConflict ==
    ASSUME NEW q, NoTaskGone(q.ours), NoTaskGone(q.theirs), NEW k \in TaskIds
    PROVE  <<"task", k>> \in Conflicting(q)
              <=> Unsettled(q.base.row.task[k], q.ours.row.task[k], q.theirs.row.task[k])
<1>1. k \notin q.ours.gone.task /\ k \notin q.theirs.gone.task
  BY DEF NoTaskGone
<1> QED BY <1>1, OwnClash DEF TaskClash, DeleteClash, Unsettled

LEMMA TasksMade ==
    ASSUME NEW edge, NEW n, NEW q, NEW answers, NEW r, Way(edge, n, q, answers, r), NEW k \in TaskIds
    PROVE  TaskMade(q.base.row.task[k], q.ours.row.task[k], q.theirs.row.task[k], r.row.task[k])
<1> DEFINE x == <<"task", k>>
           b == q.base.row.task[k]
           o == q.ours.row.task[k]
           t == q.theirs.row.task[k]
           p == r.row.task[k]
           tasks == MergedTasks(q.base, q.ours, q.theirs)
           next == MergedNext(q.base, q.ours, q.theirs)
<1>1. x \in Keys /\ x[1] = "task" /\ x[2] = k
  BY DEF Keys
<1>2. p = Word(q, answers, x) /\ Plain(q, answers)
  BY <1>1 DEF Way, AnsweredAs
<1>3. x \in Conflicting(q) <=> Unsettled(b, o, t)
  BY WayStores, TaskInConflict
<1>4. ASSUME Unsettled(b, o, t) PROVE TaskMade(b, o, t, p)
  <2>1. p = Chosen(q, x, answers[x].side)
    BY <1>1, <1>2, <1>3, <1>4, OwnWord
  <2>2. p \in {o, t}
    BY <1>1, <2>1 DEF Chosen, Side
  <2>3. x \in DOMAIN q.answer
    BY <1>3, <1>4 DEF Way, SessionSound, Conflicting
  <2>4. Chosen(q, x, "ours") = o /\ Chosen(q, x, "theirs") = t
    BY <1>1 DEF Chosen, Side
  <2> HIDE DEF x
  <2>5. o.number = t.number
    BY <1>1, <2>3, <2>4 DEF Way, NumbersAgree
  <2> QED BY <1>4, <2>2, <2>5 DEF TaskMade, Unsettled
<1>5. ASSUME ~Unsettled(b, o, t) PROVE TaskMade(b, o, t, p)
  <2>1. p = q.image.row.task[k] /\ q.image.row.task = Numbered(tasks, next)
    BY <1>1, <1>2, <1>3, <1>5, OwnWord DEF Way, Unfolded
  <2>2. tasks[k] = TaskOf(b, o, t) /\ tasks \in TaskTable
    BY WayStores, TasksByRows, MergedTasksTyped DEF TaskTable
  <2>3. /\ next \in Nat /\ q.base.next <= next /\ q.ours.next <= next /\ q.theirs.next <= next
        /\ q.base.next \in Nat /\ q.ours.next \in Nat /\ q.theirs.next \in Nat
    BY WayStores, NextOfThree, StoreFacts
  <2>4. /\ b # NoRow => b.number < q.base.next /\ b.number \in Nat
        /\ o # NoRow => o.number < q.ours.next /\ o.number \in Nat
        /\ t # NoRow => t.number < q.theirs.next /\ t.number \in Nat
    <3>1. /\ b \in TaskRow \cup {NoRow} /\ o \in TaskRow \cup {NoRow} /\ t \in TaskRow \cup {NoRow}
          /\ DOMAIN q.ours.row.task = TaskIds /\ DOMAIN q.theirs.row.task = TaskIds
      BY WayStores, StoreFacts
    <3>2. /\ b # NoRow => b.number < q.base.next
          /\ o # NoRow => o.number < q.ours.next
          /\ t # NoRow => t.number < q.theirs.next
      BY <3>1, WayStores DEF NumbersSound, Rows, Way, BaseSound
    <3> QED BY <3>1, <3>2 DEF TaskRow
  <2> HIDE DEF x, b, o, t, p, tasks, next
  <2>5. /\ Floor(tasks, next) \in Nat /\ next <= Floor(tasks, next)
        /\ Renumbered(tasks) \subseteq Rows(tasks)
        /\ Cardinality(MovedBefore(tasks, k)) \in Nat
        /\ Numbered(tasks, next)[k] =
              IF k \in Renumbered(tasks)
              THEN [tasks[k] EXCEPT !.number = Floor(tasks, next) + Cardinality(MovedBefore(tasks, k))]
              ELSE tasks[k]
    BY <2>2, <2>3, NumberedFacts
  <2>6. CASE k \notin Renumbered(tasks)
    BY <1>5, <2>1, <2>2, <2>5, <2>6 DEF TaskMade, Unsettled
  <2>7. CASE k \in Renumbered(tasks)
    <3> DEFINE i == Floor(tasks, next) + Cardinality(MovedBefore(tasks, k))
    <3>1. tasks[k] \in TaskRow /\ tasks[k] # NoRow
      BY <2>2, <2>5, <2>7 DEF Rows, TaskTable
    <3>2. i \in Nat /\ next <= i
      BY <2>3, <2>5
    <3>3. p = [tasks[k] EXCEPT !.number = i]
      BY <2>1, <2>5, <2>7
    <3> HIDE DEF i
    <3>4. p \in TaskRow /\ p.number = i
      BY <3>1, <3>2, <3>3 DEF TaskRow
    <3>5. /\ b # NoRow => b.number < p.number
          /\ o # NoRow => o.number < p.number
          /\ t # NoRow => t.number < p.number
      BY <2>3, <2>4, <3>2, <3>4
    <3> QED BY <1>5, <2>2, <3>1, <3>2, <3>3, <3>4, <3>5 DEF TaskMade, Unsettled
  <2> QED BY <2>6, <2>7
<1> HIDE DEF b, o, t, p
<1> QED BY <1>4, <1>5 DEF b, o, t, p

\* On the way back no task gets another number, and the counter is that of the result.
LEMMA TasksBack ==
    ASSUME NEW edge, NEW n, NEW q, NEW answers, NEW r, Way(edge, n, q, answers, r)
    PROVE  LET numbered == Numbered(MergedTasks(q.base, q.theirs, r), MergedNext(q.base, q.theirs, r))
           IN  /\ \A k \in TaskIds :
                     /\ ~Unsettled(q.base.row.task[k], q.theirs.row.task[k], r.row.task[k])
                           => numbered[k] = r.row.task[k]
                     /\ Unsettled(q.base.row.task[k], q.theirs.row.task[k], r.row.task[k])
                           => r.row.task[k] # NoRow
               /\ CounterAbove(numbered, MergedNext(q.base, q.theirs, r)) = r.next
<1> DEFINE b == q.base.row.task
           o == q.ours.row.task
           t == q.theirs.row.task
           p == r.row.task
           tasks == MergedTasks(q.base, q.theirs, r)
           next == MergedNext(q.base, q.theirs, r)
           numbered == Numbered(tasks, next)
<1>1. ASSUME NEW k \in TaskIds
      PROVE  /\ ~Unsettled(b[k], t[k], p[k]) => tasks[k] = p[k]
             /\ Unsettled(b[k], t[k], p[k]) => tasks[k] # NoRow /\ p[k] # NoRow /\ tasks[k].number = p[k].number
  <2>1. tasks[k] = TaskOf(b[k], t[k], p[k])
    BY WayStores, TasksByRows
  <2>2. /\ b[k] \in TaskRow \cup {NoRow} /\ o[k] \in TaskRow \cup {NoRow}
        /\ t[k] \in TaskRow \cup {NoRow} /\ p[k] \in TaskRow \cup {NoRow}
        /\ DOMAIN o = TaskIds /\ DOMAIN t = TaskIds
    BY WayStores, StoreFacts
  <2>3. TaskMade(b[k], o[k], t[k], p[k])
    BY TasksMade
  <2>4. b[k] # NoRow => ~b[k].started
    BY DEF Way, BaseSound
  <2>5. o[k] # NoRow /\ t[k] # NoRow /\ o[k].upd = t[k].upd => o[k] = t[k]
    BY <2>2 DEF Way, Untied, Rows
  <2> HIDE DEF b, o, t, p, tasks
  <2>6. /\ ~Unsettled(b[k], t[k], p[k]) => TaskOf(b[k], t[k], p[k]) = p[k]
        /\ Unsettled(b[k], t[k], p[k]) =>
              /\ TaskOf(b[k], t[k], p[k]) # NoRow /\ p[k] # NoRow
              /\ TaskOf(b[k], t[k], p[k]).number = p[k].number
    BY <2>2, <2>3, <2>4, <2>5, TaskBack
  <2> QED BY <2>1, <2>6
<1>2. tasks \in TaskTable /\ p \in TaskTable /\ next \in Nat
  BY WayStores, StoreFacts, MergedTasksTyped, MergedNextTyped DEF TaskTable
<1>3. /\ NumbersDistinct(p) /\ r.next \in Nat
      /\ \A k \in Rows(p) : p[k].number < r.next
  BY WayStores, StoreFacts DEF NumbersSound
<1>4. next = r.next
  <2>1. r.next = q.image.next
    BY DEF Way, AnsweredAs, Rest
  <2>2. /\ q.image.next = CounterAbove(q.image.row.task, MergedNext(q.base, q.ours, q.theirs))
        /\ q.image.row.task \in TaskTable
    BY WayStores, StoreFacts DEF Way, Unfolded, TaskTable
  <2>3. MergedNext(q.base, q.ours, q.theirs) <= q.image.next
    <3>1. MergedNext(q.base, q.ours, q.theirs) \in Nat /\ HighWater(q.image.row.task) + 1 \in Nat
      BY <2>2, WayStores, NextOfThree, HighWaterFacts
    <3> QED BY <2>2, <3>1, MaxOfTwo DEF CounterAbove
  <2>4. q.base.next <= r.next /\ q.theirs.next <= r.next
    <3>1. /\ q.base.next <= MergedNext(q.base, q.ours, q.theirs)
          /\ q.theirs.next <= MergedNext(q.base, q.ours, q.theirs)
          /\ MergedNext(q.base, q.ours, q.theirs) \in Nat
          /\ q.base.next \in Nat /\ q.theirs.next \in Nat
      BY WayStores, NextOfThree, StoreFacts
    <3> QED BY <1>3, <2>1, <2>3, <3>1
  <2>5. /\ next \in {q.base.next, q.theirs.next, r.next} /\ r.next <= next
        /\ q.base.next \in Nat /\ q.theirs.next \in Nat
    BY WayStores, NextOfThree, StoreFacts
  <2> HIDE DEF next
  <2> QED BY <1>2, <1>3, <2>4, <2>5
<1> HIDE DEF tasks, next, p
<1>5. Rows(tasks) = Rows(p) /\ \A k \in Rows(tasks) : tasks[k].number = p[k].number
  <2>1. \A k \in TaskIds : /\ (tasks[k] = NoRow <=> p[k] = NoRow)
                           /\ tasks[k] # NoRow => tasks[k].number = p[k].number
    BY <1>1
  <2>2. DOMAIN tasks = TaskIds /\ DOMAIN p = TaskIds
    BY <1>2 DEF TaskTable
  <2> QED BY <2>1, <2>2 DEF Rows
<1>6. Renumbered(tasks) = {}
  <2>1. NumbersDistinct(tasks)
    BY <1>3, <1>5 DEF NumbersDistinct
  <2> QED BY <1>2, <2>1, RenumberedNone
<1>7. \A k \in TaskIds : numbered[k] = tasks[k]
  BY <1>2, <1>6, NumberedFacts
<1>8. numbered \in TaskTable /\ Rows(numbered) = Rows(tasks)
  BY <1>2, NumberedFacts
<1> HIDE DEF numbered
<1>9. CounterAbove(numbered, next) = r.next
  <2>1. /\ HighWater(numbered) \in Nat
        /\ HighWater(numbered) = 0 \/ \E k \in Rows(numbered) : HighWater(numbered) = numbered[k].number
    BY <1>8, HighWaterFacts
  <2>2. HighWater(numbered) + 1 <= r.next
    <3>1. r.next # 0
      BY WayStores DEF NumbersSound
    <3>2. \A k \in Rows(numbered) : numbered[k].number < r.next
      <4>1. \A k \in Rows(numbered) : k \in TaskIds
        BY <1>8 DEF Rows, TaskTable
      <4> QED BY <1>3, <1>5, <1>7, <1>8, <4>1
    <3> QED BY <1>3, <2>1, <3>1, <3>2
  <2>3. LET h == HighWater(numbered) + 1
        IN  Max({next, h}) \in {next, h} /\ next <= Max({next, h}) /\ h <= Max({next, h})
    <3> DEFINE h == HighWater(numbered) + 1
    <3>1. {next, h} \in SUBSET Nat /\ {next, h} # {} /\ IsFiniteSet({next, h})
      <4>1. {next, h} = {next} \cup {h} /\ IsFiniteSet({next}) /\ IsFiniteSet({h})
        BY FS_Singleton
      <4>2. IsFiniteSet({next} \cup {h})
        BY <4>1, FS_Union
      <4> QED BY <1>2, <2>1, <4>1, <4>2
    <3> HIDE DEF h
    <3> QED BY <3>1, MaxOf DEF h
  <2> QED BY <1>2, <1>3, <1>4, <2>1, <2>2, <2>3 DEF CounterAbove
<1>10. \A k \in TaskIds :
          /\ ~Unsettled(b[k], t[k], p[k]) => numbered[k] = p[k]
          /\ Unsettled(b[k], t[k], p[k]) => p[k] # NoRow
  BY <1>1, <1>7
<1> QED BY <1>9, <1>10 DEF numbered, tasks, next, p

----------------------------------------------------------------------------
(* Edges *)

\* A row whose edge is in no conflict is alone on its edge.
LEMMA LoneEdge ==
    ASSUME NEW q, NoneElected(q), NEW d \in DepIds,
           \A m \in EdgeClashes(Deps(q)) : d \notin SameEdge(Deps(q), m)
    PROVE  MergedDeps(q.base, q.ours, q.theirs)[d] = Deps(q)[d]
<1> DEFINE deps == Deps(q)
           same == SameEdge(deps, d)
<1>1. MergedDeps(q.base, q.ours, q.theirs)[d]
         = IF d \in Rows(deps) /\ KeepsEdge(deps, d) THEN deps[d] ELSE NoRow
  BY DEF MergedDeps, Deps
<1>2. DOMAIN deps = DepIds
  BY DEF Deps, DepsBeforeElection
<1>3. \A m \in Rows(deps) : ~KindsOnly(deps, m)
  BY DEF NoneElected, Deps
<1> HIDE DEF deps
<1>4. CASE d \notin Rows(deps)
  BY <1>1, <1>2, <1>4 DEF Rows, deps
<1>5. CASE d \in Rows(deps)
  <2>1. d \in same /\ same \subseteq Rows(deps)
    BY <1>5 DEF SameEdge
  <2>2. same \in SUBSET Nat /\ same # {} /\ IsFiniteSet(same)
    <3>1. same \in SUBSET DepIds
      BY <1>2, <2>1 DEF Rows
    <3> HIDE DEF same
    <3> QED BY <2>1, <3>1, IdAssumption, FS_Subset
  <2> DEFINE m == Min(same)
  <2>3. m \in same
    <3> HIDE DEF same
    <3> QED BY <2>2, MinOf
  <2>4. SameEdge(deps, m) = same
    <3> HIDE DEF m
    <3> QED BY <2>3 DEF SameEdge
  <2>5. same = {d}
    <3>1. SUFFICES ASSUME same # {d} PROVE FALSE
      OBVIOUS
    <3>2. m \in EdgeClashes(deps)
      <4>1. m \in Rows(deps) /\ m = Min(SameEdge(deps, m)) /\ ~KindsOnly(deps, m)
        BY <1>3, <2>1, <2>3, <2>4
      <4>2. SameEdge(deps, m) # {m}
        BY <2>1, <2>4, <3>1
      <4> HIDE DEF m
      <4> QED BY <4>1, <4>2 DEF EdgeClashes
    <3>3. d \in SameEdge(deps, m)
      BY <2>1, <2>4
    <3> QED BY <3>2, <3>3 DEF deps
  <2>6. KeepsEdge(deps, d)
    BY <1>3, <1>5, <2>3, <2>5 DEF KeepsEdge
  <2> QED BY <1>1, <1>5, <2>6 DEF deps
<1> QED BY <1>4, <1>5

LEMMA NamedEdge ==
    ASSUME NEW q, NEW d \in DepIds, NEW m
    PROVE  <<"dep", d>> \in NamedBy(q, <<"edge", m>>) <=> d \in SameEdge(Deps(q), m)
BY DEF NamedBy, Claimants, Deps

\* What becomes of a row of an edge: one that the result lacks, and that a side had or
\* has deleted, has a tombstone there; one that the other clone has deleted and the
\* result has was made after the base.
DepKept(b, t, r, td, rd) ==
    /\ t # NoRow /\ r = NoRow => rd
    /\ td /\ r # NoRow => Edited(r, b)
    /\ td /\ r = NoRow => rd

LEMMA DepsKept ==
    ASSUME NEW edge, NEW n, NEW q, NEW answers, NEW r, Way(edge, n, q, answers, r), NoneElected(q),
           NEW d \in DepIds
    PROVE  DepKept(q.base.row.dep[d], q.theirs.row.dep[d], r.row.dep[d],
                   d \in q.theirs.gone.dep, d \in r.gone.dep)
<1> DEFINE x == <<"dep", d>>
           b == q.base.row.dep[d]
           o == q.ours.row.dep[d]
           t == q.theirs.row.dep[d]
           od == d \in q.ours.gone.dep
           td == d \in q.theirs.gone.dep
           p == r.row.dep[d]
           pd == d \in r.gone.dep
           e == Either({o, t})
           deps == Deps(q)
<1>1. x \in Keys /\ x[1] = "dep" /\ x[2] = d
  BY DEF Keys
<1>2. p = Word(q, answers, x) /\ (pd <=> Lost(q, answers, x)) /\ Plain(q, answers)
  BY <1>1 DEF Way, AnsweredAs
<1>3. x \in Conflicting(q) <=> DeleteClash(b, o, t, od, td)
  BY OwnClash
<1>4. (od => o = NoRow) /\ (td => t = NoRow)
  BY WayStores, NotBuried DEF Way, NobodyRejoined
<1>5. (o # NoRow => o = edge[d]) /\ (t # NoRow => t = edge[d]) /\ (p # NoRow => p = edge[d])
  <2>1. DOMAIN q.ours.row.dep = DepIds /\ DOMAIN q.theirs.row.dep = DepIds /\ DOMAIN r.row.dep = DepIds
    BY WayStores, StoreFacts
  <2> QED BY <2>1 DEF Way, Known, Rows
<1>6. deps[d] = MergeKey(b, o, t, od, td, e)
  BY DEF Deps, DepsBeforeElection, MergeDep
<1>7. e \in {o, t}
  BY DEF Either
<1>8. \A m : x \in NamedBy(q, <<"edge", m>>) <=> d \in SameEdge(deps, m)
  BY NamedEdge
<1>9. ASSUME NEW m \in EdgeClashes(deps), d \in SameEdge(deps, m)
      PROVE  DepKept(b, t, p, td, pd)
  <2>1. pd <=> p = NoRow
    BY <1>1, <1>2, <1>8, <1>9, WordCases
  <2>2. deps[d] # NoRow
    BY <1>9 DEF SameEdge, Rows
  <2> HIDE DEF b, o, t, od, td, p, pd, e, deps, x
  <2>3. td => Edited(o, b) /\ o # NoRow
    BY <1>4, <1>6, <2>2 DEF MergeKey, DeleteClash, Edited
  <2> QED BY <1>5, <2>1, <2>3 DEF DepKept, Edited
<1>10. ASSUME \A m \in EdgeClashes(deps) : d \notin SameEdge(deps, m)
       PROVE  DepKept(b, t, p, td, pd)
  <2>1. \A m \in EdgeClashes(deps) : x \notin NamedBy(q, <<"edge", m>>)
    BY <1>8, <1>10
  <2>2. CASE DeleteClash(b, o, t, od, td)
    <3>1. p = Chosen(q, x, answers[x].side) /\ (pd <=> p = NoRow)
      <4> HIDE DEF x, b, o, t, od, td, p, pd
      <4> QED BY <1>1, <1>2, <1>3, <2>1, <2>2, WordCases
    <3>2. p \in {o, t}
      BY <1>1, <3>1 DEF Chosen, Side
    <3> HIDE DEF b, o, t, od, td, p, pd, e, deps, x
    <3> QED BY <1>4, <2>2, <3>1, <3>2 DEF DepKept, DeleteClash
  <2>3. CASE ~DeleteClash(b, o, t, od, td)
    <3>1. p = q.image.row.dep[d] /\ (pd <=> d \in q.image.gone.dep)
      <4> HIDE DEF b, o, t, od, td, p, pd, deps
      <4> QED BY <1>1, <1>2, <1>3, <2>1, <2>3, WordCases DEF deps
    <3>2. q.image.row.dep[d] = deps[d]
      BY <1>10, LoneEdge DEF Way, Unfolded
    <3>3. /\ q.image.gone.dep = (q.base.gone.dep \cup q.ours.gone.dep \cup q.theirs.gone.dep)
                                    \ Rows(q.image.row.dep)
          /\ q.base.gone.dep = {}
      BY DEF Way, BaseSound, Unfolded, MergedGone
    <3>4. d \in Rows(q.image.row.dep) <=> q.image.row.dep[d] # NoRow
      BY WayStores, StoreFacts DEF Rows
    <3>5. pd <=> (od \/ td) /\ p = NoRow
      BY <3>1, <3>3, <3>4
    <3> HIDE DEF b, o, t, od, td, p, pd, e, deps, x
    <3>6. p = MergeKey(b, o, t, od, td, e)
      BY <1>6, <3>1, <3>2
    <3> QED BY <1>4, <1>7, <2>3, <3>5, <3>6 DEF DepKept, MergeKey, BothEdited, Edited
  <2> QED BY <2>2, <2>3
<1> HIDE DEF b, t, td, p, pd
<1>11. DepKept(b, t, p, td, pd)
  BY <1>9, <1>10
<1> QED BY <1>11 DEF b, t, td, p, pd

\* The way back, staged.
LEMMA BackStaged ==
    ASSUME NEW q, NEW r
    PROVE  /\ Back(q, r).base = q.base /\ Back(q, r).ours = q.theirs /\ Back(q, r).theirs = r
           /\ Back(q, r).image = Candidate(q.base, q.theirs, r)
           /\ Plain(Back(q, r), Theirs(Back(q, r)))
           /\ \A c \in Conflicting(Back(q, r)) : Theirs(Back(q, r))[c].side = "theirs"
<1> DEFINE z == Back(q, r)
<1>1. /\ z.base = q.base /\ z.ours = q.theirs /\ z.theirs = r
      /\ z.image = Candidate(q.base, q.theirs, r)
      /\ DOMAIN z.answer = Clashes(q.base, q.theirs, r)
  BY DEF Back, Staged
<1> HIDE DEF z
<1>2. DOMAIN z.answer = Conflicting(z)
  BY <1>1 DEF Conflicting
<1>3. [Open EXCEPT !.side = "theirs"].side = "theirs" /\ [Open EXCEPT !.side = "theirs"].owner = Kept
  BY DEF Open
<1>4. Theirs(z) = [c \in DOMAIN z.answer |-> [Open EXCEPT !.side = "theirs"]]
  BY DEF Theirs
<1>5. DOMAIN Theirs(z) = Conflicting(z) /\ \A c \in Conflicting(z) :
          Theirs(z)[c].side = "theirs" /\ Theirs(z)[c].owner = Kept
  BY <1>2, <1>3, <1>4
<1>6. Plain(z, Theirs(z))
  BY <1>5 DEF Plain, Sides
<1> QED BY <1>1, <1>5, <1>6 DEF z

LEMMA BackUnfolded ==
    ASSUME NEW edge, NEW n, NEW q, NEW answers, NEW r, Way(edge, n, q, answers, r)
    PROVE  Unfolded(q.base, q.theirs, r, Candidate(q.base, q.theirs, r))
<1> DEFINE b == q.base
           t == q.theirs
<1>1. /\ b \in Stores /\ t \in Stores /\ r \in Stores /\ Consistent(t.row) /\ Consistent(r.row)
      /\ NoTaskGone(t) /\ NoTaskGone(r)
  BY WayStores
<1>2. Folded({t, r}) = {} /\ SameEvents(b, t, r)
  BY AgentsBack, EventsBack
<1> HIDE DEF b, t
<1>3. Unfolded(b, t, r, Candidate(b, t, r))
  BY <1>1, <1>2, CandidateUnfolded
<1> QED BY <1>3 DEF b, t

\* The edges: a row that another claims the edge of is gone from the result.
LEMMA DepsBack ==
    ASSUME NEW edge, NEW n, NEW q, NEW answers, NEW r, Way(edge, n, q, answers, r),
           NoneElected(q), NoneElected(Back(q, r)), NEW d \in DepIds
    PROVE  LET z == Back(q, r)
               x == <<"dep", d>>
           IN  /\ r.row.dep[d] = Word(z, Theirs(z), x)
               /\ d \in r.gone.dep <=> Lost(z, Theirs(z), x)
<1> DEFINE z == Back(q, r)
           x == <<"dep", d>>
           b == q.base.row.dep[d]
           t == q.theirs.row.dep[d]
           td == d \in q.theirs.gone.dep
           p == r.row.dep[d]
           pd == d \in r.gone.dep
           f == Either({t, p})
           deps == Deps(z)
<1>1. x \in Keys /\ x[1] = "dep" /\ x[2] = d
  BY DEF Keys
<1>2. /\ z.base = q.base /\ z.ours = q.theirs /\ z.theirs = r
      /\ z.image = Candidate(q.base, q.theirs, r)
      /\ Plain(z, Theirs(z))
      /\ \A c \in Conflicting(z) : Theirs(z)[c].side = "theirs"
  BY BackStaged
<1>3. Chosen(z, x, "theirs") = p
  BY <1>1, <1>2 DEF Chosen, Side
<1>4. DepKept(b, t, p, td, pd)
  BY DepsKept
<1>5. pd => p = NoRow
  BY WayStores, NotBuried DEF Way
<1>6. (t # NoRow => t = edge[d]) /\ (p # NoRow => p = edge[d])
  <2>1. DOMAIN q.theirs.row.dep = DepIds /\ DOMAIN r.row.dep = DepIds
    BY WayStores, StoreFacts
  <2> QED BY <2>1 DEF Way, Known, Rows
<1>7. deps[d] = MergeKey(b, t, p, td, pd, f)
  BY <1>2 DEF Deps, DepsBeforeElection, MergeDep
<1>8. x \in Conflicting(z) <=> DeleteClash(b, t, p, td, pd)
  BY <1>2, OwnClash
<1>9. \A m : x \in NamedBy(z, <<"edge", m>>) <=> d \in SameEdge(deps, m)
  BY NamedEdge
<1> HIDE DEF z
<1>10. ASSUME NEW m \in EdgeClashes(deps), d \in SameEdge(deps, m)
       PROVE  p = Word(z, Theirs(z), x) /\ (pd <=> Lost(z, Theirs(z), x))
  <2> DEFINE i == Claimant(z, m, "theirs")
  <2>1. /\ i \in DepIds /\ i \in SameEdge(deps, m) /\ i \in Rows(r.row.dep)
    <3>1. /\ z.ours \in Stores /\ z.theirs \in Stores
          /\ EdgesOnce(z.ours.row.dep) /\ EdgesOnce(z.theirs.row.dep)
      BY <1>2, WayStores
    <3>2. m \in EdgeClashes(DepsBeforeElection(z.base, z.ours, z.theirs)) /\ "theirs" \in Sides
      BY <1>10 DEF Deps, Sides
    <3>3. /\ Claimant(z, m, "theirs") \in DepIds /\ Claimant(z, m, "theirs") \in Claimants(z, m)
          /\ Claimant(z, m, "theirs") \in Rows(Side(z, "theirs").row.dep)
      BY <3>1, <3>2, ClaimantsOfBoth
    <3> QED BY <1>2, <3>3 DEF Side, Claimants, Deps
  <2>2. <<"edge", m>> \in Conflicting(z)
    BY <1>10 DEF Conflicting, Clashes, Deps
  <2>3. /\ Word(z, Theirs(z), x) = IF d = i THEN p ELSE NoRow
        /\ Lost(z, Theirs(z), x) <=> Word(z, Theirs(z), x) = NoRow
    BY <1>1, <1>2, <1>3, <1>9, <1>10, <2>2, WordCases
  <2>4. \A j \in Rows(deps) : deps[j] = edge[j] /\ deps[j] # NoRow
    <3> SUFFICES ASSUME NEW j \in Rows(deps) PROVE deps[j] = edge[j] /\ deps[j] # NoRow
      OBVIOUS
    <3>1. j \in DepIds /\ deps[j] \in {q.theirs.row.dep[j], r.row.dep[j]} \ {NoRow}
      BY <1>2, DepFromSide DEF Deps
    <3>2. DOMAIN q.theirs.row.dep = DepIds /\ DOMAIN r.row.dep = DepIds
      BY WayStores, StoreFacts
    <3> QED BY <3>1, <3>2 DEF Way, Known, Rows
  <2>5. deps[d].task = deps[i].task /\ deps[d].on = deps[i].on /\ d \in Rows(deps) /\ i \in Rows(deps)
    BY <1>10, <2>1 DEF SameEdge
  <2> HIDE DEF i, deps
  <2>6. d # i => p = NoRow
    <3>1. SUFFICES ASSUME d # i, p # NoRow PROVE FALSE
      OBVIOUS
    <3>2. d \in Rows(r.row.dep) /\ r.row.dep[d] = edge[d] /\ r.row.dep[i] = edge[i]
      <4>1. d \in Rows(r.row.dep)
        BY <3>1, WayStores, StoreFacts DEF Rows
      <4> QED BY <2>1, <4>1 DEF Way, Known
    <3>3. EdgesOnce(r.row.dep)
      BY WayStores
    <3> QED BY <2>1, <2>4, <2>5, <3>1, <3>2, <3>3 DEF EdgesOnce
  <2>7. d = i => p # NoRow
    BY <2>1 DEF Rows
  <2>8. d # i => t # NoRow
    <3>1. deps[d] \in {t, p} \ {NoRow}
      BY <1>2, <2>5, DepFromSide DEF Deps, deps
    <3> QED BY <2>6, <3>1
  <2> QED BY <1>4, <1>5, <2>3, <2>6, <2>7, <2>8 DEF DepKept
<1>11. ASSUME \A m \in EdgeClashes(deps) : d \notin SameEdge(deps, m)
       PROVE  p = Word(z, Theirs(z), x) /\ (pd <=> Lost(z, Theirs(z), x))
  <2>1. \A m \in EdgeClashes(Deps(z)) : x \notin NamedBy(z, <<"edge", m>>)
    BY <1>9, <1>11
  <2>2. CASE DeleteClash(b, t, p, td, pd)
    <3>1. p = Word(z, Theirs(z), x) /\ (Lost(z, Theirs(z), x) <=> p = NoRow)
      <4> HIDE DEF x, b, t, td, p, pd
      <4> QED BY <1>1, <1>2, <1>3, <1>8, <2>1, <2>2, WordCases
    <3>2. pd <=> p = NoRow
      <4> HIDE DEF b, t, td, p, pd
      <4> QED BY <1>5, <2>2 DEF DeleteClash, Edited
    <3> QED BY <3>1, <3>2
  <2>3. CASE ~DeleteClash(b, t, p, td, pd)
    <3>1. /\ Word(z, Theirs(z), x) = z.image.row.dep[d]
          /\ Lost(z, Theirs(z), x) <=> d \in z.image.gone.dep
      <4> HIDE DEF b, t, td, p, pd
      <4> QED BY <1>1, <1>2, <1>8, <2>1, <2>3, WordCases
    <3>2. Unfolded(q.base, q.theirs, r, z.image)
      BY <1>2, BackUnfolded
    <3>3. z.image.row.dep[d] = deps[d]
      <4>1. NoneElected(z)
        BY DEF z
      <4> QED BY <1>2, <1>11, <3>2, <4>1, LoneEdge DEF Unfolded
    <3>4. /\ z.image.gone.dep = (q.base.gone.dep \cup q.theirs.gone.dep \cup r.gone.dep)
                                    \ Rows(z.image.row.dep)
          /\ q.base.gone.dep = {}
      BY <3>2 DEF Way, BaseSound, Unfolded, MergedGone
    <3>5. d \in Rows(z.image.row.dep) <=> z.image.row.dep[d] # NoRow
      BY <3>2 DEF Unfolded, MergedDeps, Rows
    <3>6. Lost(z, Theirs(z), x) <=> (td \/ pd) /\ deps[d] = NoRow
      BY <3>1, <3>3, <3>4, <3>5
    <3> HIDE DEF b, t, td, p, pd, f, deps
    <3>7. deps[d] = p /\ ((td \/ pd) /\ p = NoRow <=> pd)
      BY <1>4, <1>5, <1>6, <1>7, <2>3 DEF DepKept, MergeKey, DeleteClash, BothEdited, Edited
    <3> QED BY <3>1, <3>3, <3>6, <3>7
  <2> QED BY <2>2, <2>3
<1> HIDE DEF x, p, pd, deps
<1>12. p = Word(z, Theirs(z), x) /\ (pd <=> Lost(z, Theirs(z), x))
  BY <1>10, <1>11
<1> QED BY <1>12 DEF z, x, p, pd

LEMMA OwnWordBack ==
    ASSUME NEW q, NEW r, NEW x \in Keys, x[1] # "dep"
    PROVE  LET z == Back(q, r)
           IN  /\ x \in Conflicting(z) =>
                     /\ Word(z, Theirs(z), x) = r.row[x[1]][x[2]]
                     /\ Lost(z, Theirs(z), x) <=> r.row[x[1]][x[2]] = NoRow
               /\ x \notin Conflicting(z) =>
                     /\ Word(z, Theirs(z), x) = z.image.row[x[1]][x[2]]
                     /\ Lost(z, Theirs(z), x) <=> x[2] \in z.image.gone[x[1]]
<1> DEFINE z == Back(q, r)
<1>1. /\ z.theirs = r /\ Plain(z, Theirs(z))
      /\ \A c \in Conflicting(z) : Theirs(z)[c].side = "theirs"
  BY BackStaged
<1> HIDE DEF z
<1>2. Chosen(z, x, "theirs") = r.row[x[1]][x[2]]
  BY <1>1 DEF Chosen, Side
<1>3. /\ x \in Conflicting(z) =>
            /\ Word(z, Theirs(z), x) = r.row[x[1]][x[2]]
            /\ Lost(z, Theirs(z), x) <=> r.row[x[1]][x[2]] = NoRow
      /\ x \notin Conflicting(z) =>
            /\ Word(z, Theirs(z), x) = z.image.row[x[1]][x[2]]
            /\ Lost(z, Theirs(z), x) <=> x[2] \in z.image.gone[x[1]]
  BY <1>1, <1>2, OwnWord
<1> QED BY <1>3 DEF z

LEMMA MemberWordBack ==
    ASSUME NEW edge, NEW n, NEW q, NEW answers, NEW r, Way(edge, n, q, answers, r), NEW a \in AgentIds
    PROVE  LET z == Back(q, r)
               x == <<"member", a>>
           IN  /\ r.row.member[a] = Word(z, Theirs(z), x)
               /\ a \in r.gone.member <=> Lost(z, Theirs(z), x)
<1> DEFINE z == Back(q, r)
           x == <<"member", a>>
           b == q.base.row.member[a]
           t == q.theirs.row.member[a]
           td == a \in q.theirs.gone.member
           p == r.row.member[a]
           pd == a \in r.gone.member
           m == MemberBeforeRemap(q.base, q.theirs, r, a)
<1>1. x \in Keys /\ x[1] = "member" /\ x[2] = a
  BY DEF Keys
<1>2. /\ z.base = q.base /\ z.ours = q.theirs /\ z.theirs = r
      /\ z.image = Candidate(q.base, q.theirs, r)
  BY BackStaged
<1>3. KeyStays(b, t, p, td, pd, m)
  BY MembersBack
<1>4. /\ x \in Conflicting(z) => Word(z, Theirs(z), x) = p /\ (Lost(z, Theirs(z), x) <=> p = NoRow)
      /\ x \notin Conflicting(z) =>
            /\ Word(z, Theirs(z), x) = z.image.row.member[a]
            /\ Lost(z, Theirs(z), x) <=> a \in z.image.gone.member
  <2> HIDE DEF z
  <2> QED BY <1>1, OwnWordBack DEF z
<1> HIDE DEF z
<1>5. x \in Conflicting(z) <=> DeleteClash(b, t, p, td, pd)
  BY <1>2, OwnClash
<1>6. Unfolded(q.base, q.theirs, r, z.image)
  BY <1>2, BackUnfolded
<1>7. z.image.row.member[a] = m
  BY <1>6 DEF Unfolded
<1>8. a \in z.image.gone.member <=> (td \/ pd) /\ m = NoRow
  <2>1. /\ z.image.gone.member = (q.base.gone.member \cup q.theirs.gone.member \cup r.gone.member)
                                    \ Rows(z.image.row.member)
        /\ q.base.gone.member = {}
    BY <1>6 DEF Way, BaseSound, Unfolded, MergedGone
  <2>2. a \in Rows(z.image.row.member) <=> z.image.row.member[a] # NoRow
    <3>1. z.image \in Stores
      BY <1>2, WayStores, CandidateFields
    <3> QED BY <3>1, StoreFacts DEF Rows
  <2> HIDE DEF m
  <2> QED BY <1>7, <2>1, <2>2
<1> HIDE DEF x, b, t, td, p, pd, m
<1>9. p = Word(z, Theirs(z), x) /\ (pd <=> Lost(z, Theirs(z), x))
  BY <1>3, <1>4, <1>5, <1>7, <1>8 DEF KeyStays
<1> QED BY <1>9 DEF z, x, p, pd

LEMMA TaskWordBack ==
    ASSUME NEW edge, NEW n, NEW q, NEW answers, NEW r, Way(edge, n, q, answers, r), NEW k \in TaskIds
    PROVE  LET z == Back(q, r)
               x == <<"task", k>>
           IN  /\ r.row.task[k] = Word(z, Theirs(z), x)
               /\ k \in r.gone.task <=> Lost(z, Theirs(z), x)
<1> DEFINE z == Back(q, r)
           x == <<"task", k>>
           b == q.base.row.task[k]
           t == q.theirs.row.task[k]
           p == r.row.task[k]
           numbered == Numbered(MergedTasks(q.base, q.theirs, r), MergedNext(q.base, q.theirs, r))
<1>1. x \in Keys /\ x[1] = "task" /\ x[2] = k
  BY DEF Keys
<1>2. /\ z.base = q.base /\ z.ours = q.theirs /\ z.theirs = r
      /\ z.image = Candidate(q.base, q.theirs, r)
  BY BackStaged
<1>3. /\ ~Unsettled(b, t, p) => numbered[k] = p
      /\ Unsettled(b, t, p) => p # NoRow
  BY TasksBack
<1>4. /\ x \in Conflicting(z) => Word(z, Theirs(z), x) = p /\ (Lost(z, Theirs(z), x) <=> p = NoRow)
      /\ x \notin Conflicting(z) =>
            /\ Word(z, Theirs(z), x) = z.image.row.task[k]
            /\ Lost(z, Theirs(z), x) <=> k \in z.image.gone.task
  <2> HIDE DEF z
  <2> QED BY <1>1, OwnWordBack DEF z
<1> HIDE DEF z
<1>5. NoTaskGone(q.theirs) /\ NoTaskGone(r)
  BY WayStores
<1>6. x \in Conflicting(z) <=> Unsettled(b, t, p)
  <2>1. NoTaskGone(z.ours) /\ NoTaskGone(z.theirs)
    BY <1>2, <1>5
  <2> QED BY <1>2, <2>1, TaskInConflict
<1>7. Unfolded(q.base, q.theirs, r, z.image)
  BY <1>2, BackUnfolded
<1>8. z.image.row.task[k] = numbered[k] /\ k \notin z.image.gone.task /\ k \notin r.gone.task
  <2>1. z.image.row.task = numbered
    BY <1>7 DEF Unfolded
  <2>2. z.image.gone.task = (q.base.gone.task \cup q.theirs.gone.task \cup r.gone.task)
                               \ Rows(z.image.row.task)
    BY <1>7 DEF Unfolded, MergedGone
  <2>3. q.base.gone.task = {} /\ q.theirs.gone.task = {} /\ r.gone.task = {}
    BY <1>5 DEF NoTaskGone, Way, BaseSound
  <2> QED BY <2>1, <2>2, <2>3
<1> HIDE DEF x, b, t, p, numbered
<1>9. p = Word(z, Theirs(z), x) /\ ~Lost(z, Theirs(z), x) /\ k \notin r.gone.task
  BY <1>3, <1>4, <1>6, <1>8
<1> QED BY <1>9 DEF z, x, p

\* The clone the bundle came from gets the result.
LEMMA FollowedBack ==
    ASSUME NEW edge, NEW n, NEW q, NEW answers, NEW r, Way(edge, n, q, answers, r),
           NoneElected(q), NoneElected(Back(q, r))
    PROVE  Followed(q, r) = r
<1> DEFINE z == Back(q, r)
<1>1. z.image = Candidate(q.base, q.theirs, r)
  BY BackStaged
<1>2. Rest(r) = Rest(z.image)
  <2>1. Unfolded(q.base, q.theirs, r, z.image)
    BY <1>1, BackUnfolded
  <2>2. MergedAgents(q.base, q.theirs, r) = r.row.agent /\ EventsOfAll(q.base, q.theirs, r) = r.row.event
    BY AgentsBack, EventsBack
  <2>3. CounterAbove(Numbered(MergedTasks(q.base, q.theirs, r), MergedNext(q.base, q.theirs, r)),
                     MergedNext(q.base, q.theirs, r)) = r.next
    BY TasksBack
  <2> HIDE DEF z
  <2> QED BY <2>1, <2>2, <2>3 DEF Rest, Unfolded
<1>3. ASSUME NEW x \in Keys
      PROVE  /\ r.row[x[1]][x[2]] = Word(z, Theirs(z), x)
             /\ x[2] \in r.gone[x[1]] <=> Lost(z, Theirs(z), x)
  <2>1. CASE x \in {"task"} \X TaskIds
    <3>1. PICK k \in TaskIds : x = <<"task", k>>
      BY <2>1
    <3>2. x[1] = "task" /\ x[2] = k
      BY <3>1
    <3>3. r.row.task[k] = Word(z, Theirs(z), x) /\ (k \in r.gone.task <=> Lost(z, Theirs(z), x))
      BY <3>1, TaskWordBack
    <3> HIDE DEF z
    <3> QED BY <3>2, <3>3
  <2>2. CASE x \in {"member"} \X AgentIds
    <3>1. PICK a \in AgentIds : x = <<"member", a>>
      BY <2>2
    <3>2. x[1] = "member" /\ x[2] = a
      BY <3>1
    <3>3. r.row.member[a] = Word(z, Theirs(z), x) /\ (a \in r.gone.member <=> Lost(z, Theirs(z), x))
      BY <3>1, MemberWordBack
    <3> HIDE DEF z
    <3> QED BY <3>2, <3>3
  <2>3. CASE x \in {"dep"} \X DepIds
    <3>1. PICK d \in DepIds : x = <<"dep", d>>
      BY <2>3
    <3>2. x[1] = "dep" /\ x[2] = d
      BY <3>1
    <3>3. r.row.dep[d] = Word(z, Theirs(z), x) /\ (d \in r.gone.dep <=> Lost(z, Theirs(z), x))
      BY <3>1, DepsBack
    <3> HIDE DEF z
    <3> QED BY <3>2, <3>3
  <2> QED BY <2>1, <2>2, <2>3 DEF Keys
<1>4. z.image \in Stores /\ r \in Stores
  BY <1>1, WayStores, CandidateFields
<1> HIDE DEF z
<1>5. AnsweredAs(z, Theirs(z), r)
  BY <1>2, <1>3 DEF AnsweredAs
<1>6. AnsweredBy(z, Theirs(z)) = r
  BY <1>4, <1>5, AnsweredIs
<1> QED BY <1>6 DEF Followed, z

\* What the hypotheses of OthersFollow make of a session and its database.
LEMMA WayThere ==
    ASSUME NEW edge, NEW n, NEW q, NEW r, Became(edge, n, q, r),
           Untied(q), NoSet(q), NobodyFolded(q), NumbersAgree(q), NobodyRejoined(q)
    PROVE  Way(edge, n, q, AtOurs(q.answer), r)
<1> DEFINE b == q.base
           o == q.ours
           t == q.theirs
<1>1. /\ EdgesSound(o) /\ EdgesSound(t) /\ q.image = Candidate(b, o, t)
      /\ b \in {Empty} \cup Beginnings
      /\ \A e \in TaskIds : ~Tampered(b.row.event[e], o.row.event[e], t.row.event[e])
  BY DEF Became, SessionSound, AsStaged
<1>2. BaseSound(b)
  <2> HIDE DEF b
  <2> QED BY <1>1, BasesSound
<1>3. /\ b \in Stores /\ o \in Stores /\ t \in Stores /\ Consistent(o.row) /\ Consistent(t.row)
  BY <1>1, <1>2 DEF EdgesSound, SoundStore, BaseSound
<1>4. NoTaskGone(o) /\ NoTaskGone(t)
  BY DEF Became, Known, NoTaskGone
<1>5. SameEvents(b, o, t)
  <2>1. Rows(b.row.event) \subseteq Rows(o.row.event)
    BY <1>2 DEF BaseSound, Became, Known
  <2> QED BY <1>1, <2>1 DEF SameEvents
<1>6. Folded({o, t}) = {}
  BY DEF NobodyFolded
<1>7. Unfolded(b, o, t, q.image)
  <2> HIDE DEF b, o, t
  <2>1. Unfolded(b, o, t, Candidate(b, o, t))
    BY <1>3, <1>4, <1>5, <1>6, CandidateUnfolded
  <2> QED BY <1>1, <2>1
<1>8. Plain(q, AtOurs(q.answer))
  <2>1. /\ DOMAIN AtOurs(q.answer) = Conflicting(q) /\ DOMAIN q.answer = Conflicting(q)
        /\ \A c \in Conflicting(q) : ToWrite(c, AtOurs(q.answer)[c])
    BY AtOursWritten DEF Became, Conflicting, SessionSound
  <2>2. ASSUME NEW c \in Conflicting(q)
        PROVE  AtOurs(q.answer)[c].owner = Kept
    <3>1. AtOurs(q.answer)[c] = IF IsOpen(q.answer[c]) THEN [Open EXCEPT !.side = "ours"] ELSE q.answer[c]
      BY <2>1 DEF AtOurs
    <3>2. [Open EXCEPT !.side = "ours"].owner = Kept
      BY DEF Open
    <3> QED BY <2>1, <3>1, <3>2 DEF NoSet
  <2> QED BY <2>1, <2>2 DEF Plain, ToWrite
<1> QED BY <1>2, <1>5, <1>7, <1>8 DEF Became, Way

\* The clone that a bundle came from can take over what the merge has made of it, in
\* every way of answering it, whatever both clones did before: merged over the same
\* base and answered with --theirs, the result comes out as it is.
THEOREM OthersFollowTheorem == ConflictSpec => OthersFollow
<1>1. ASSUME WordInv, ConflictNext, NEW s \in Clones, Applied(s),
             Untied(session[s]), NoSet(session[s]),
             NoneElected(session[s]), NoneElected(Back(session[s], store'[s])),
             NobodyFolded(session[s]), NumbersAgree(session[s]), NobodyRejoined(session[s])
      PROVE  Followed(session[s], store'[s]) = store'[s]
  <2>1. PICK edge, n : Became(edge, n, session[s], store'[s])
    BY <1>1, SessionBecame
  <2>2. Way(edge, n, session[s], AtOurs(session[s].answer), store'[s])
    BY <1>1, <2>1, WayThere
  <2> QED BY <1>1, <2>2, FollowedBack
<1>2. WordInv /\ [ConflictNext]_conflictVars =>
         [\A s \in Clones :
             LET q == session[s]
             IN  /\ Applied(s) /\ Untied(q) /\ NoSet(q)
                 /\ NoneElected(q) /\ NoneElected(Back(q, store'[s]))
                 /\ NobodyFolded(q) /\ NumbersAgree(q) /\ NobodyRejoined(q)
                 => Followed(q, store'[s]) = store'[s]]_conflictVars
  BY <1>1
<1>3. ConflictSpec => []WordInv
  BY WordsInit, WordStep, PTL DEF ConflictSpec
<1> QED BY <1>2, <1>3, PTL DEF ConflictSpec, OthersFollow
=============================================================================
