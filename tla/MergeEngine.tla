---------------------------- MODULE MergeEngine ----------------------------
(***************************************************************************)
(* The three-way row merge of carryctx-pack (merge/mod.rs) and the         *)
(* reconciliation of its result with the schema (build_candidate).         *)
(*                                                                         *)
(* A store maps every id to its row or to NoRow, and remembers the ids it  *)
(* deleted.  Ids are ULIDs; their numbers stand for their order.  Five     *)
(* tables stand for the five policies: tasks (last writer wins, status     *)
(* lattice, facts that are never lost, display numbers), agents (aliased   *)
(* by name), members (keyed by the agent, so the key itself is remapped),  *)
(* deps (immutable, unique per edge) and events (append-only).             *)
(*                                                                         *)
(* Left out: tables that follow a policy already there, machine-local      *)
(* columns and worktrees, warnings, --strict-edits (it only refuses what   *)
(* is merged without it), and immutable rows of one id that differ (no     *)
(* command updates a dependency).                                          *)
(***************************************************************************)
EXTENDS Integers, FiniteSets, FiniteSetsExt

CONSTANTS
    TaskIds,    \* an event has the id of the task whose creation it records
    AgentIds,
    DepIds,
    Names,      \* agent names, in their order
    MaxTime,    \* bound: clock readings
    NoRow,
    Nobody      \* a null agent or task reference

Times == 1..MaxTime
Statuses == {"open", "completed", "cancelled"}

\* The owner stands for every column an edit changes, started for the facts.
TaskRow == [status: Statuses, started: BOOLEAN, owner: AgentIds \cup {Nobody},
            number: Nat, upd: Times]
AgentRow == [name: Names, active: BOOLEAN, upd: Times]
MemberRow == [upd: Times]
DepRow == [task: TaskIds, on: TaskIds, kind: {"strong", "informational"}, at: Times]
EventRow == [actor: AgentIds \cup {Nobody}, task: TaskIds \cup {Nobody}]

ASSUME IdAssumption ==
    /\ TaskIds \subseteq Nat /\ AgentIds \subseteq Nat /\ DepIds \subseteq Nat
    /\ Names \subseteq Nat /\ MaxTime \in Nat
    /\ IsFiniteSet(TaskIds) /\ IsFiniteSet(AgentIds) /\ IsFiniteSet(DepIds)
    /\ IsFiniteSet(Names)
    /\ Nobody \notin Nat
    /\ NoRow \notin TaskRow \cup AgentRow \cup MemberRow \cup DepRow \cup EventRow

Tables == [task: [TaskIds -> TaskRow \cup {NoRow}],
           agent: [AgentIds -> AgentRow \cup {NoRow}],
           member: [AgentIds -> MemberRow \cup {NoRow}],
           dep: [DepIds -> DepRow \cup {NoRow}],
           event: [TaskIds -> EventRow \cup {NoRow}]]

\* A side of a merge: its tables, its tombstones, its task counter.
Stores == [row: Tables,
           gone: [task: SUBSET TaskIds, member: SUBSET AgentIds, dep: SUBSET DepIds],
           next: Nat]

Rows(table) == {k \in DOMAIN table : table[k] # NoRow}

Empty == [row |-> [task |-> [k \in TaskIds |-> NoRow],
                   agent |-> [a \in AgentIds |-> NoRow],
                   member |-> [a \in AgentIds |-> NoRow],
                   dep |-> [d \in DepIds |-> NoRow],
                   event |-> [k \in TaskIds |-> NoRow]],
          gone |-> [task |-> {}, member |-> {}, dep |-> {}],
          next |-> 1]

----------------------------------------------------------------------------
(***************************************************************************)
(* One key: b, o and t are the rows of the base, of ours and of theirs, od *)
(* and td say which side has deleted the key.  No base is the empty store: *)
(* then every row counts as changed.                                       *)
(***************************************************************************)
Edited(r, b) == r # NoRow /\ r # b

\* Deleted on one side and edited on the other.
DeleteClash(b, o, t, od, td) ==
    (od /\ ~td /\ Edited(t, b)) \/ (td /\ ~od /\ Edited(o, b))

BothEdited(b, o, t) == o # t /\ Edited(o, b) /\ Edited(t, b)

\* Faulty variant: what one side has deleted comes back from the other.
MergeKeyForgets(b, o, t, od, td, elected) ==
    CASE t # NoRow /\ ~Edited(o, b) -> t
      [] BothEdited(b, o, t) -> elected
      [] OTHER -> o

\* A row that is absent without a tombstone was not deleted.
MergeKey(b, o, t, od, td, elected) ==
    IF od \/ td THEN IF DeleteClash(b, o, t, od, td) THEN o ELSE NoRow
    ELSE IF t # NoRow /\ ~Edited(o, b) THEN t
    ELSE IF BothEdited(b, o, t) THEN elected
    ELSE o

Terminal(r) == r.status \in {"completed", "cancelled"}

StatusGap(o, t) == Terminal(o) /\ Terminal(t) /\ o.status # t.status

\* Faulty variant: the first argument of a tie wins.
WinnerOurs(o, t) ==
    IF (Terminal(t) /\ ~Terminal(o)) \/ (Terminal(t) = Terminal(o) /\ t.upd > o.upd)
    THEN t ELSE o

\* Faulty variant: the row that counts further wins, whenever it was written.
BeatsByNumber(r, q) ==
    \/ Terminal(r) /\ ~Terminal(q)
    \/ Terminal(r) = Terminal(q) /\ (r.number > q.number \/ r.upd < q.upd)

Beats(r, q) ==
    \/ Terminal(r) /\ ~Terminal(q)
    \/ /\ Terminal(r) = Terminal(q)
       /\ r.upd > q.upd \/ (r.upd = q.upd /\ r.number > q.number)

\* Of two rows neither of which beats the other the greater canonical JSON wins,
\* whichever side is ours; the display id is the first of its columns here.
Unbeaten(rows) == CHOOSE r \in rows : \A q \in rows : ~Beats(q, r)

Winner(o, t) == Unbeaten({o, t})

ElectTask(o, t) ==
    IF StatusGap(o, t) THEN o
    ELSE [Winner(o, t) EXCEPT !.started = o.started \/ t.started]

\* lww, of rows that have no status
Newest(rows) == CHOOSE r \in rows : \A q \in rows : r.upd >= q.upd

Either(rows) == CHOOSE r \in rows : TRUE

MergeTask(b, o, t, od, td) == MergeKey(b, o, t, od, td, ElectTask(o, t))
MergeAgent(b, o, t) == MergeKey(b, o, t, FALSE, FALSE, Newest({o, t}))
MergeMember(b, o, t, od, td) == MergeKey(b, o, t, od, td, Newest({o, t}))
\* No command updates an edge; which of two versions wins depends on no side.
MergeDep(b, o, t, od, td) == MergeKey(b, o, t, od, td, Either({o, t}))

TaskClash(b, o, t, od, td) ==
    \/ DeleteClash(b, o, t, od, td)
    \/ ~od /\ ~td /\ BothEdited(b, o, t) /\ StatusGap(o, t)

----------------------------------------------------------------------------
(***************************************************************************)
(* Append-only tables: the union of the three sides, whatever is deleted.  *)
(***************************************************************************)
Held(b, o, t) == {b, o, t} \ {NoRow}

Tampered(b, o, t) == \E r, q \in Held(b, o, t) : r # q

UnionEvent(b, o, t) ==
    IF Held(b, o, t) = {} THEN NoRow ELSE Either(Held(b, o, t))

----------------------------------------------------------------------------
(***************************************************************************)
(* Agents that share a name on any two sides are one agent that forked:    *)
(* the smallest id stays and takes over the references of the others.      *)
(***************************************************************************)
Named(sides, n) ==
    {a \in AgentIds : \E s \in sides : /\ s.row.agent[a] # NoRow
                                      /\ s.row.agent[a].name = n}

\* The names under which a is not the smallest id.
LosesName(sides, a) ==
    {n \in Names : a \in Named(sides, n) /\ \E i \in Named(sides, n) : i < a}

Folded(sides) == {a \in AgentIds : LosesName(sides, a) # {}}

\* One step, never followed further.  Of several names the last counts.
Aliases(sides) ==
    [a \in AgentIds |-> IF a \in Folded(sides)
                        THEN Min(Named(sides, Max(LosesName(sides, a))))
                        ELSE a]

----------------------------------------------------------------------------
(***************************************************************************)
(* The tables of the result, in the order in which the engine makes them.  *)
(***************************************************************************)
MergedAgents(b, o, t) ==
    [a \in AgentIds |->
        IF a \in Folded({o, t}) THEN NoRow
        ELSE MergeAgent(b.row.agent[a], o.row.agent[a], t.row.agent[a])]

MergedTasks(b, o, t) ==
    [k \in TaskIds |-> MergeTask(b.row.task[k], o.row.task[k], t.row.task[k],
                                 k \in o.gone.task, k \in t.gone.task)]

MemberBeforeRemap(b, o, t, a) ==
    MergeMember(b.row.member[a], o.row.member[a], t.row.member[a],
                a \in o.gone.member, a \in t.gone.member)

\* Two memberships that the alias gives one key become the newer of them.
MergedMembers(b, o, t, alias) ==
    [a \in AgentIds |->
        LET rows == {MemberBeforeRemap(b, o, t, i) :
                        i \in {j \in AgentIds : alias[j] = a}} \ {NoRow}
        IN  IF rows = {} THEN NoRow ELSE Newest(rows)]

DepsBeforeElection(b, o, t) ==
    [d \in DepIds |-> MergeDep(b.row.dep[d], o.row.dep[d], t.row.dep[d],
                               d \in o.gone.dep, d \in t.gone.dep)]

SameEdge(deps, d) ==
    {e \in Rows(deps) : deps[e].task = deps[d].task /\ deps[e].on = deps[d].on}

\* Rows of one edge that differ in their kind and in nothing else, not even in
\* when they were made.
KindsOnly(deps, d) ==
    /\ {deps[e].kind : e \in SameEdge(deps, d)} = {"strong", "informational"}
    /\ \A e \in SameEdge(deps, d) : deps[e].at = deps[d].at

\* Of several rows for an edge one stays: the first strong one if only the kinds
\* differ, otherwise the first, and then it is a conflict.
KeepsEdge(deps, d) ==
    d = Min(IF KindsOnly(deps, d)
            THEN {e \in SameEdge(deps, d) : deps[e].kind = "strong"}
            ELSE SameEdge(deps, d))

EdgeClashes(deps) ==
    {d \in Rows(deps) : d = Min(SameEdge(deps, d)) /\ SameEdge(deps, d) # {d}
                        /\ ~KindsOnly(deps, d)}

MergedDeps(b, o, t) ==
    LET deps == DepsBeforeElection(b, o, t)
    IN  [d \in DepIds |-> IF d \in Rows(deps) /\ KeepsEdge(deps, d) THEN deps[d] ELSE NoRow]

----------------------------------------------------------------------------
(***************************************************************************)
(* Display numbers are no identity: of the tasks that claim a number the   *)
(* smallest id keeps it, the others get numbers above every number there.  *)
(***************************************************************************)
HighWater(tasks) == Max({0} \cup {tasks[k].number : k \in Rows(tasks)})

Renumbered(tasks) ==
    {k \in Rows(tasks) : \E i \in Rows(tasks) : i < k /\ tasks[i].number = tasks[k].number}

Precedes(tasks, i, k) ==
    \/ tasks[i].number < tasks[k].number
    \/ tasks[i].number = tasks[k].number /\ i < k

\* Faulty variant: the numbers stay as the clones gave them.
NumberedAsTheyCame(tasks, next) == tasks

Numbered(tasks, next) ==
    LET floor == Max({next, HighWater(tasks) + 1})
        moved == Renumbered(tasks)
    IN  [k \in TaskIds |->
            IF k \in moved
            THEN [tasks[k] EXCEPT !.number =
                    floor + Cardinality({i \in moved : Precedes(tasks, i, k)})]
            ELSE tasks[k]]

MergedNext(b, o, t) == Max({b.next, o.next, t.next})

\* The conflicts that keep a merge from being applied, by table and key.
Clashes(b, o, t) ==
    {<<"task", k>> : k \in {k \in TaskIds :
        TaskClash(b.row.task[k], o.row.task[k], t.row.task[k],
                  k \in o.gone.task, k \in t.gone.task)}}
    \cup {<<"member", a>> : a \in {a \in AgentIds :
        DeleteClash(b.row.member[a], o.row.member[a], t.row.member[a],
                    a \in o.gone.member, a \in t.gone.member)}}
    \cup {<<"dep", d>> : d \in {d \in DepIds :
        DeleteClash(b.row.dep[d], o.row.dep[d], t.row.dep[d],
                    d \in o.gone.dep, d \in t.gone.dep)}}
    \cup {<<"edge", d>> : d \in EdgeClashes(DepsBeforeElection(b, o, t))}

----------------------------------------------------------------------------
(***************************************************************************)
(* The candidate database: the result with its dangling references nulled  *)
(* where the column allows it, and its counter above every number.         *)
(***************************************************************************)
\* remap_agent_references
Remapped(alias, a) == IF a = Nobody THEN Nobody ELSE alias[a]

\* A survivor can itself be folded: what nobody has any more is nulled.
OrNull(k, known) == IF k \in known THEN k ELSE Nobody

Rewritten(row, alias, agents, tasks) ==
    IF row = NoRow THEN NoRow
    ELSE [actor |-> OrNull(Remapped(alias, row.actor), agents), task |-> OrNull(row.task, tasks)]

EventsOfAll(b, o, t) ==
    [e \in TaskIds |-> UnionEvent(b.row.event[e], o.row.event[e], t.row.event[e])]

MergedEvents(b, o, t, alias, agents, tasks) ==
    [e \in TaskIds |-> Rewritten(EventsOfAll(b, o, t)[e], alias, agents, tasks)]

\* The tombstones of the three sides, except for rows that are there.
MergedGone(b, o, t, tasks, members, deps) ==
    [task |-> (b.gone.task \cup o.gone.task \cup t.gone.task) \ tasks,
     member |-> (b.gone.member \cup o.gone.member \cup t.gone.member) \ members,
     dep |-> (b.gone.dep \cup o.gone.dep \cup t.gone.dep) \ deps]

\* write_back_sequences
CounterAbove(tasks, next) == Max({next, HighWater(tasks) + 1})

Owned(tasks, kept, alias, agents) ==
    [k \in TaskIds |->
        IF k \in kept THEN [tasks[k] EXCEPT !.owner = OrNull(Remapped(alias, @), agents)]
        ELSE NoRow]

Candidate(b, o, t) ==
    LET alias == Aliases({o, t})
        tasks == MergedTasks(b, o, t)
        kept == Rows(tasks)
        numbered == Numbered(tasks, MergedNext(b, o, t))
        agents == MergedAgents(b, o, t)
        alive == Rows(agents)
        members == MergedMembers(b, o, t, alias)
        deps == MergedDeps(b, o, t)
    IN  [row |-> [task |-> Owned(numbered, kept, alias, alive),
                  agent |-> agents, member |-> members, dep |-> deps,
                  event |-> MergedEvents(b, o, t, alias, alive, kept)],
         gone |-> MergedGone(b, o, t, kept, Rows(members), Rows(deps)),
         next |-> CounterAbove(numbered, MergedNext(b, o, t))]

\* What the schema's foreign keys ask of the tables.
Consistent(row) ==
    /\ Rows(row.member) \subseteq Rows(row.agent)
    /\ \A d \in Rows(row.dep) : {row.dep[d].task, row.dep[d].on} \subseteq Rows(row.task)
    /\ \A k \in Rows(row.task) : row.task[k].owner \in Rows(row.agent) \cup {Nobody}
    /\ \A e \in Rows(row.event) : /\ row.event[e].actor \in Rows(row.agent) \cup {Nobody}
                                   /\ row.event[e].task \in Rows(row.task) \cup {Nobody}

\* The engine reports no tampering and no conflict.
Clean(b, o, t) ==
    /\ \A e \in TaskIds : ~Tampered(b.row.event[e], o.row.event[e], t.row.event[e])
    /\ Clashes(b, o, t) = {}
=============================================================================
