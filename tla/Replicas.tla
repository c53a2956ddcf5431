------------------------------ MODULE Replicas ------------------------------
(***************************************************************************)
(* Clones of one project: each works on its own database, publishes        *)
(* snapshots (export, and the commits of the snapshot ref) and takes in    *)
(* those of the others (import into an empty clone, import --mode merge).  *)
(* Modules MergeEngine and StateReplacement say how a merge elects rows    *)
(* and how its candidate replaces the database; here a merge is one step.  *)
(*                                                                         *)
(* Left out: import --mode replace, an explicit --base, the publication    *)
(* ref, and merges that are staged for a resolution (they change nothing). *)
(***************************************************************************)
EXTENDS MergeEngine, Sequences

CONSTANTS
    Clones,
    First,      \* the clone in which the project was initialised
    NoStore,
    MaxEdits,   \* bound: commands that change a row
    MaxSnaps    \* bound: snapshots

ASSUME CloneAssumption ==
    /\ First \in Clones /\ NoStore \notin Stores
    /\ {1, 2} \subseteq TaskIds /\ 1 \in AgentIds \cap DepIds
    /\ Names # {} /\ MaxTime # 0
    /\ MaxEdits \in Nat /\ MaxSnaps \in Nat \ {0}

VARIABLES
    store,  \* the database of each clone
    snaps,  \* the snapshots, by export id: what they hold and their parents
    tip,    \* the snapshot ref of each clone, 0 when there is none
    last,   \* snapshot_state: last_export_id
    drawn,  \* the ids in use, by table
    edits

vars == <<store, snaps, tip, last, drawn, edits>>

Snapshots == DOMAIN snaps

TypeOK ==
    /\ store \in [Clones -> Stores \cup {NoStore}]
    /\ \A x \in Snapshots : snaps[x].store \in Stores /\ snaps[x].parents \subseteq 1..(x - 1)
    /\ tip \in [Clones -> 0..Len(snaps)]
    /\ last \in [Clones -> 0..Len(snaps)]
    /\ drawn \in [task: Nat, agent: Nat, dep: Nat]
    /\ edits \in 0..MaxEdits
    /\ \A s \in Clones : store[s] # NoStore => Consistent(store[s].row)

NewTask(number) ==
    [status |-> "open", started |-> FALSE, owner |-> Nobody, number |-> number, upd |-> 1]

\* A project with an agent, a team it is in and two tasks, of which one is done
\* and the other waits for it, exported once to the snapshot ref.
Genesis ==
    [row |-> [task |-> [Empty.row.task EXCEPT
                           ![1] = NewTask(1),
                           ![2] = [NewTask(2) EXCEPT !.status = "completed"]],
              agent |-> [Empty.row.agent EXCEPT
                            ![1] = [name |-> Min(Names), active |-> TRUE, upd |-> 1]],
              member |-> [Empty.row.member EXCEPT ![1] = [upd |-> 1]],
              dep |-> [Empty.row.dep EXCEPT
                          ![1] = [task |-> 1, on |-> 2, kind |-> "strong", at |-> 1]],
              event |-> [Empty.row.event EXCEPT
                            ![1] = [actor |-> 1, task |-> 1],
                            ![2] = [actor |-> 1, task |-> 2]]],
     gone |-> Empty.gone,
     next |-> 3]

Init ==
    /\ store = [s \in Clones |-> IF s = First THEN Genesis ELSE NoStore]
    /\ snaps = <<[store |-> Genesis, parents |-> {}]>>
    /\ tip = [s \in Clones |-> IF s = First THEN 1 ELSE 0]
    /\ last = tip
    /\ drawn = [task |-> 2, agent |-> 1, dep |-> 1]
    /\ edits = 0

----------------------------------------------------------------------------
(***************************************************************************)
(* Commands of one clone.  An id that is drawn is greater than those drawn *)
(* before it, in whatever clone.                                           *)
(***************************************************************************)
\* What a command of a clone commits; `ids` are the tables it draws an id for.
Commit(s, changed, ids) ==
    /\ edits' = edits + 1
    /\ store' = [store EXCEPT ![s] = changed]
    /\ drawn' = [i \in DOMAIN drawn |-> IF i \in ids THEN drawn[i] + 1 ELSE drawn[i]]
    /\ UNCHANGED <<snaps, tip, last>>

CreateTask(s, k, a) ==
    /\ k = drawn.task + 1 /\ a \in Rows(store[s].row.agent)
    /\ Commit(s, [store[s] EXCEPT
           !.row.task[k] = NewTask(store[s].next),
           !.row.event[k] = [actor |-> a, task |-> k],
           !.next = @ + 1], {"task"})

\* The clocks of two clones may disagree and stamp alike, but nobody stamps a
\* row earlier than it was.
Touch(s, k, row) ==
    \E now \in {n \in Times : n >= row.upd} :
        Commit(s, [store[s] EXCEPT !.row.task[k] = [row EXCEPT !.upd = now]], {})

\* task edit, claim and start
EditTask(s, k, a) ==
    /\ k \in Rows(store[s].row.task) /\ ~Terminal(store[s].row.task[k])
    /\ a \in Rows(store[s].row.agent)
    /\ Touch(s, k, [store[s].row.task[k] EXCEPT !.started = TRUE, !.owner = a])

\* complete, cancel and reopen
SetStatus(s, k, st) ==
    /\ k \in Rows(store[s].row.task)
    /\ Terminal(store[s].row.task[k]) <=> st = "open"
    /\ Touch(s, k, [store[s].row.task[k] EXCEPT !.status = st])

NameFree(s, n) == \A a \in Rows(store[s].row.agent) : store[s].row.agent[a].name # n

RegisterAgent(s, a, n) ==
    /\ a = drawn.agent + 1 /\ NameFree(s, n)
    /\ Commit(s, [store[s] EXCEPT
           !.row.agent[a] = [name |-> n, active |-> TRUE, upd |-> 1]], {"agent"})

\* Nothing asks what the agent still owns, and its name stays taken.
DeactivateAgent(s, a) ==
    /\ a \in Rows(store[s].row.agent) /\ store[s].row.agent[a].active
    /\ \E now \in {i \in Times : i >= store[s].row.agent[a].upd} :
        Commit(s, [store[s] EXCEPT
            !.row.agent[a] = [@ EXCEPT !.active = FALSE, !.upd = now]], {})

AddMember(s, a) ==
    /\ a \in Rows(store[s].row.agent) \ Rows(store[s].row.member)
    /\ \E now \in Times : Commit(s, [store[s] EXCEPT !.row.member[a] = [upd |-> now]], {})

RemoveMember(s, a) ==
    /\ a \in Rows(store[s].row.member)
    /\ Commit(s, [store[s] EXCEPT !.row.member[a] = NoRow, !.gone.member = @ \cup {a}], {})

\* p is k or waits for it: every set that has p and that no edge leaves has k.
Edges(row) == {<<row.dep[d].task, row.dep[d].on>> : d \in Rows(row.dep)}

LeadsTo(row, p, k) ==
    \A S \in SUBSET TaskIds :
        p \in S /\ (\A e \in Edges(row) : e[1] \in S => e[2] \in S) => k \in S

AddDependency(s, d, k, p, kind) ==
    /\ d = drawn.dep + 1
    /\ {k, p} \subseteq Rows(store[s].row.task)
    /\ <<k, p>> \notin Edges(store[s].row)
    /\ ~LeadsTo(store[s].row, p, k)
    /\ \E now \in Times :
        Commit(s, [store[s] EXCEPT
            !.row.dep[d] = [task |-> k, on |-> p, kind |-> kind, at |-> now]], {"dep"})

RemoveDependency(s, d) ==
    /\ d \in Rows(store[s].row.dep)
    /\ Commit(s, [store[s] EXCEPT !.row.dep[d] = NoRow, !.gone.dep = @ \cup {d}], {})

\* Faulty variant: the events keep the reference.
WithoutTasksOnly(r, ks) ==
    [r EXCEPT !.row.task = [k \in TaskIds |-> IF k \in ks THEN NoRow ELSE @[k]],
              !.gone.task = @ \cup ks]

\* delete_tasks_cascade: tasks go with their edges; their events stay and lose
\* the reference.
WithoutTasks(r, ks) ==
    LET ds == {d \in Rows(r.row.dep) : {r.row.dep[d].task, r.row.dep[d].on} \cap ks # {}}
    IN  [r EXCEPT
            !.row.task = [k \in TaskIds |-> IF k \in ks THEN NoRow ELSE @[k]],
            !.row.dep = [d \in DepIds |-> IF d \in ds THEN NoRow ELSE @[d]],
            !.row.event = [e \in TaskIds |->
                IF @[e] # NoRow /\ @[e].task \in ks THEN [@[e] EXCEPT !.task = Nobody]
                ELSE @[e]],
            !.gone.task = @ \cup ks, !.gone.dep = @ \cup ds]

\* project prune: completed tasks older than the threshold
Prune(s, threshold) ==
    LET ks == {k \in Rows(store[s].row.task) :
                  /\ store[s].row.task[k].status = "completed"
                  /\ store[s].row.task[k].upd < threshold}
    IN  ks # {} /\ Commit(s, WithoutTasks(store[s], ks), {})

----------------------------------------------------------------------------
(***************************************************************************)
(* Snapshots.  A commit of the snapshot ref and the record of it in the    *)
(* database are two writes: a crash between them leaves the commit alone.  *)
(***************************************************************************)
Outcomes == {"directory", "unrecorded", "recorded"}

\* A bundle of `content`; on the ref it is a child of `parents`.
Publish(s, content, parents, how) ==
    LET x == Len(snaps) + 1
    IN  /\ x <= MaxSnaps
        /\ snaps' = Append(snaps, [store |-> content,
                                   parents |-> IF how = "directory" THEN {} ELSE parents])
        /\ tip' = IF how = "directory" THEN tip ELSE [tip EXCEPT ![s] = x]
        /\ last' = IF how = "recorded" THEN [last EXCEPT ![s] = x] ELSE last

Export(s, how) ==
    /\ store[s] # NoStore
    /\ Publish(s, store[s], {tip[s]} \ {0}, how)
    /\ UNCHANGED <<store, drawn, edits>>

\* The commits an export id stands on, by those whose manifests are known.
Ancestors(known) ==
    LET up[x \in 0..Len(snaps)] ==
            {x} \cup (IF x \in known THEN UNION {up[y] : y \in snaps[x].parents} ELSE {})
    IN  up

History(x) == IF x = 0 THEN {} ELSE Ancestors(Snapshots)[x] \cap Snapshots

\* git fetch of another clone's snapshot ref into the own one, fast-forward.
Fetch(s, u) ==
    /\ tip[s] # tip[u] /\ tip[s] \in {0} \cup History(tip[u])
    /\ tip' = [tip EXCEPT ![s] = tip[u]]
    /\ UNCHANGED <<store, snaps, last, drawn, edits>>

\* fresh_import: the clone does not know what it was imported from.
FreshImport(s, x) ==
    /\ store[s] = NoStore
    /\ store' = [store EXCEPT ![s] = snaps[x].store]
    /\ UNCHANGED <<snaps, tip, last, drawn, edits>>

----------------------------------------------------------------------------
(***************************************************************************)
(* import --mode merge.  `read` are the commits of the refs it reads: of   *)
(* the incoming one with --from-git, of its own with --snapshot-ref.       *)
(***************************************************************************)
\* The newest common ancestor of the last export and the bundle, if its commit
\* is there to read, otherwise the last export, otherwise 0.
Base(s, x, read) ==
    LET above == Ancestors(read \cup {x})
        common == above[last[s]] \cap above[x]
    IN  IF last[s] # 0 /\ common # {} /\ Max(common) \in read THEN Max(common)
        ELSE IF last[s] \in read THEN last[s]
        ELSE 0

BaseStore(x) == IF x = 0 THEN Empty ELSE snaps[x].store

MergeInto(s, x, base) ==
    LET b == BaseStore(base)
        candidate == Candidate(b, store[s], snaps[x].store)
    IN  /\ store[s] # NoStore
        /\ Clean(b, store[s], snaps[x].store)
        /\ Consistent(candidate.row)
        /\ store' = [store EXCEPT ![s] = candidate]
        /\ UNCHANGED <<drawn, edits>>

\* A bundle directory, and --from-git of another clone's ref; neither touches
\* the own ref.
Merge(s, x) ==
    /\ \E b \in {Base(s, x, {})}
               \cup {Base(s, x, History(x)) : u \in {v \in Clones \ {s} : tip[v] = x}} :
           MergeInto(s, x, b)
    /\ UNCHANGED <<snaps, tip, last>>

\* --from-git --snapshot-ref: then the merge is a commit with two parents, if it
\* comes to writing it.
MergeAndCommit(s, u) ==
    /\ s # u /\ tip[u] # 0 /\ tip[s] # 0
    /\ MergeInto(s, tip[u], Base(s, tip[u], History(tip[u]) \cup History(tip[s])))
    /\ \/ UNCHANGED <<snaps, tip, last>>
       \/ \E how \in {"unrecorded", "recorded"} : Publish(s, store'[s], {tip[s], tip[u]}, how)

Work(s) ==
    \/ \E k \in TaskIds, a \in AgentIds : CreateTask(s, k, a) \/ EditTask(s, k, a)
    \/ \E k \in TaskIds, st \in Statuses : SetStatus(s, k, st)
    \/ \E a \in AgentIds, n \in Names : RegisterAgent(s, a, n)
    \/ \E a \in AgentIds : DeactivateAgent(s, a) \/ AddMember(s, a) \/ RemoveMember(s, a)
    \/ \E d \in DepIds, k, p \in TaskIds, kind \in {"strong", "informational"} :
           AddDependency(s, d, k, p, kind)
    \/ \E d \in DepIds : RemoveDependency(s, d)
    \/ \E h \in Times : Prune(s, h)

Share(s) ==
    \/ \E how \in Outcomes : Export(s, how)
    \/ \E u \in Clones : Fetch(s, u)
    \/ \E x \in Snapshots : FreshImport(s, x) \/ Merge(s, x)
    \/ \E u \in Clones : MergeAndCommit(s, u)

Next == \E s \in Clones : (store[s] # NoStore /\ edits < MaxEdits /\ Work(s)) \/ Share(s)

Spec == Init /\ [][Next]_vars

----------------------------------------------------------------------------
\* A key is deleted and there: a member that was added again (add_member leaves
\* the tombstone).
Buried(r) ==
    \/ r.gone.task \cap Rows(r.row.task) # {}
    \/ r.gone.member \cap Rows(r.row.member) # {}
    \/ r.gone.dep \cap Rows(r.row.dep) # {}

\* Two clones that merge each other's database over one base get the same
\* database, or both are refused: conflicts, elections, aliases and new numbers
\* may not depend on which side is ours.  (Symmetric in s and u.)
Commutative ==
    \A s \in Clones, u \in Clones \ {First} :
        s # u /\ store[s] # NoStore /\ store[u] # NoStore =>
        \A x \in {0} \cup (History(tip[s]) \cap History(tip[u])) :
            LET b == BaseStore(x)
            IN  /\ Clean(b, store[s], store[u]) <=> Clean(b, store[u], store[s])
                /\ Clean(b, store[s], store[u]) =>
                      Candidate(b, store[s], store[u]) = Candidate(b, store[u], store[s])

\* Whatever was merged, pruned and imported, two tasks of a clone never have one
\* number, and the number its next task gets is above them all.
NumbersUnique ==
    \A s \in Clones : store[s] # NoStore =>
        /\ Renumbered(store[s].row.task) = {}
        /\ HighWater(store[s].row.task) < store[s].next

\* A clone that has nothing new and merges a descendant of its snapshot has then
\* what the descendant has: its edits, its deletions, its counter.
FastForward ==
    \A y \in Snapshots, x \in Snapshots :
        LET r == snaps[x].store q == snaps[y].store
        IN  /\ x \in History(y) /\ Clean(r, r, q)
            /\ ~Buried(q)
            => Candidate(r, r, q) = q

\* The bases a merge of snapshot x into s can be given.
Bases(s, x) ==
    {Base(s, x, read) : read \in {{}, History(x), History(x) \cup History(tip[s])}}

\* Whatever base it is given, a merge never replaces a task either side has
\* changed since that base by an older row, unless the older one is settled.
NewestSurvives ==
    \A s \in Clones, x \in Snapshots : store[s] # NoStore =>
        \A b \in Bases(s, x) :
            LET base == BaseStore(b) o == store[s] t == snaps[x].store
                merged == MergedTasks(base, o, t)
            IN  Clean(base, o, t) =>
                \A r \in {o, t} : \A k \in Rows(merged) :
                    Edited(r.row.task[k], base.row.task[k]) =>
                        \/ merged[k].upd >= r.row.task[k].upd
                        \/ Terminal(merged[k]) /\ ~Terminal(r.row.task[k])

\* Over an ancestor of the incoming snapshot a merge replaces no task by an older
\* row at all, changed or not (CHANGELOG.md:92: "row-level last-writer-wins by
\* `updated_at`").
NothingReverted ==
    \A s \in Clones, x \in Snapshots : store[s] # NoStore =>
        \A b \in Bases(s, x) \cap History(x) :
            LET o == store[s] t == snaps[x].store
                merged == MergedTasks(BaseStore(b), o, t)
            IN  Clean(BaseStore(b), o, t) =>
                \A k \in Rows(merged) \cap Rows(o.row.task) :
                    \/ merged[k].upd >= o.row.task[k].upd
                    \/ Terminal(merged[k]) /\ ~Terminal(o.row.task[k])

\* What a clone has deleted stays deleted there: no merge, with whatever base
\* and whatever the other side did to the row, brings a task or an edge back.
DeletesStick ==
    [][\A s \in Clones : store[s] # NoStore =>
           /\ store[s].gone.task \subseteq store'[s].gone.task
           /\ store[s].gone.dep \subseteq store'[s].gone.dep]_vars

\* Merging a database with itself changes nothing (CHANGELOG.md:92: "merge(M,M)
\* == M").
Idempotent ==
    \A s \in Clones : store[s] # NoStore =>
        Candidate(Empty, store[s], store[s]) = store[s]

\* No merge changes who an event says was acting (merge_matrix_test.rs:915: "a
\* merge never updates or deletes an event").
EventsKept ==
    [][\A s \in Clones : store[s] # NoStore =>
           \A e \in Rows(store[s].row.event) :
               store'[s].row.event[e].actor = store[s].row.event[e].actor]_vars
=============================================================================
