--------------------------- MODULE MergeConflicts ---------------------------
(***************************************************************************)
(* Merges with conflicts (application/merge_conflict): a merge that cannot *)
(* elect every row is staged as a session.  The session holds the          *)
(* candidate, with ours in the place of each conflict; conflict resolve    *)
(* records a side for a conflict, as often as one likes, conflict apply    *)
(* writes the sides into a copy of the candidate, one after the other, and *)
(* replaces the database by it, conflict abort drops the session.          *)
(*                                                                         *)
(* The clones and their commands are those of Replicas.  A merge reads the *)
(* other clone's bundle as it is exported now, without a base or over the  *)
(* first snapshot.  Left out: --strict-edits, whose conflicts are resolved *)
(* like those of two final statuses, machine-local columns, --set of       *)
(* columns other than the one that stands for all, the commit on           *)
(* --snapshot-ref (Bundles) and a crash on the way (StateReplacement).     *)
(***************************************************************************)
EXTENDS Replicas, SequencesExt

CONSTANTS
    NoSession,
    Kept,       \* no --set for the owner
    MaxMerges   \* bound: merges that are begun

ASSUME SessionAssumption == MaxMerges \in Nat /\ Kept \notin AgentIds \cup {Nobody}

VARIABLES
    session,    \* the staged merge of each clone
    applying,   \* a conflict apply: the answers it has to write, and the copy it writes to
    merges

conflictVars == <<vars, session, applying, merges>>

Sides == {"ours", "theirs"}

Conflict == {"dep", "edge", "task", "member"} \X (TaskIds \cup AgentIds \cup DepIds)

Answer == [side: Sides \cup {"open"}, owner: AgentIds \cup {Nobody, Kept}]

Open == [side |-> "open", owner |-> Kept]

\* A session of clone s that is neither applied nor aborted.
Staging(s) == session[s] # NoSession

\* A conflict apply has the lock, which every command that writes takes.
Writing(s) == applying[s] # NoSession /\ applying[s].image # NoStore

\* What the UNIQUE indexes and foreign keys hold of a database at every statement.
Fits(r) ==
    /\ Consistent(r.row)
    /\ Renumbered(r.row.task) = {}
    /\ \A d \in Rows(r.row.dep) : SameEdge(r.row.dep, d) = {d}

\* A database keeps every constraint, whatever was merged and resolved, and only a
\* session that exists has answers.
SessionsOK ==
    /\ \A s \in Clones : Fits(store[s])
    /\ \A s \in Clones : Staging(s) =>
           /\ {session[s].base, session[s].ours, session[s].theirs, session[s].image}
                 \subseteq Stores
           /\ DOMAIN session[s].answer # {} /\ DOMAIN session[s].answer \subseteq Conflict
           /\ \A c \in DOMAIN session[s].answer : session[s].answer[c] \in Answer
    /\ merges \in 0..MaxMerges

----------------------------------------------------------------------------
(* What a conflict shows of the two sides *)

Side(q, side) == IF side = "ours" THEN q.ours ELSE q.theirs

Opposite(side) == IF side = "ours" THEN "theirs" ELSE "ours"

\* find_conflict: the row of the chosen side, NoRow where that side deleted it.
Chosen(q, c, side) == Side(q, side).row[c[1]][c[2]]

\* The rows of one edge, of which the merge kept the first.
Claimants(q, d) == SameEdge(DepsBeforeElection(q.base, q.ours, q.theirs), d)

Claimant(q, d, side) ==
    CHOOSE e \in Claimants(q, d) : e \in Rows(Side(q, side).row.dep)

\* --set, of a column of the chosen row
Overridden(row, a) == IF a.owner = Kept THEN row ELSE [row EXCEPT !.owner = a.owner]

\* By table and key; the keys of edges come after the ids.  The conflicts of two
\* edges share no row.
Rank(c) == CASE c[1] = "dep" -> 1 [] c[1] = "edge" -> 2 [] c[1] = "task" -> 3 [] OTHER -> 4

Before(c, e) == Rank(c) < Rank(e) \/ (Rank(c) = Rank(e) /\ c[2] < e[2])

Ordered(conflicts) == SetToSortSeq(conflicts, Before)

----------------------------------------------------------------------------
(* Writing the answers into the candidate *)

Upsert(r, table, k, row) ==
    [r EXCEPT !.row[table][k] = row, !.gone[table] = @ \ {k}]

\* Faulty variant: the row goes without a tombstone.
DeleteOnly(r, table, k) ==
    IF table = "task" THEN WithoutTasks(r, {k}) ELSE [r EXCEPT !.row[table][k] = NoRow]

Delete(r, table, k) ==
    IF table = "task" THEN WithoutTasks(r, {k})
    ELSE [r EXCEPT !.row[table][k] = NoRow, !.gone[table] = @ \cup {k}]

\* Faulty variant: a row that the merge has dropped is not recorded as deleted.
LosersPresent(r, q, d, side) ==
    LET i == Claimant(q, d, side)
        row == DepsBeforeElection(q.base, q.ours, q.theirs)[i]
    IN  {e \in Rows(r.row.dep) : r.row.dep[e].task = row.task /\ r.row.dep[e].on = row.on} \ {i}

\* The other rows of the edge that are there, and the other side's row even if the
\* merge has dropped it.
Losers(r, q, d, side) ==
    LET i == Claimant(q, d, side)
        row == DepsBeforeElection(q.base, q.ours, q.theirs)[i]
    IN  ({e \in Rows(r.row.dep) : /\ r.row.dep[e].task = row.task
                                  /\ r.row.dep[e].on = row.on}
            \cup {Claimant(q, d, Opposite(side))}) \ {i}

SettleEdge(r, q, d, side) ==
    LET i == Claimant(q, d, side)
        losers == Losers(r, q, d, side)
    IN  [r EXCEPT !.row.dep = [e \in DepIds |->
                      IF e = i THEN DepsBeforeElection(q.base, q.ours, q.theirs)[i]
                      ELSE IF e \in losers THEN NoRow ELSE @[e]],
                  !.gone.dep = (@ \cup losers) \ {i}]

Settle(r, q, c, a) ==
    CASE c[1] = "edge" -> SettleEdge(r, q, c[2], a.side)
      [] c[1] # "edge" /\ Chosen(q, c, a.side) = NoRow -> Delete(r, c[1], c[2])
      [] OTHER -> Upsert(r, c[1], c[2], Overridden(Chosen(q, c, a.side), a))

\* Faulty variant: the indexes are gone.
SettleUnchecked(r, q, c, a) == Settle(r, q, c, a)

\* NoStore when a statement fails; a tombstone of a row that is there is refused in
\* the end.
SettleNext(r, q, c, a) ==
    IF r = NoStore \/ ~Fits(Settle(r, q, c, a)) THEN NoStore ELSE Settle(r, q, c, a)

Image(q, answers) ==
    LET r == FoldLeft(LAMBDA i, c : SettleNext(i, q, c, answers[c]),
                      q.image, Ordered(DOMAIN answers))
    IN  IF r # NoStore /\ Buried(r) THEN NoStore ELSE r

IsOpen(a) == a.side = "open"

\* --skip-open
AtOurs(answers) ==
    [c \in DOMAIN answers |-> IF IsOpen(answers[c]) THEN [Open EXCEPT !.side = "ours"]
                              ELSE answers[c]]

Ready(answers, skip) == skip \/ \A c \in DOMAIN answers : ~IsOpen(answers[c])

----------------------------------------------------------------------------
(* The commands *)

Staged(b, o, t) ==
    [base |-> b, ours |-> o, theirs |-> t, image |-> Candidate(b, o, t),
     answer |-> [c \in Clashes(b, o, t) |-> Open]]

\* import --mode merge of u's bundle: one that has no conflict is applied at once.
Import(s, u, base) ==
    LET q == Staged(BaseStore(base), store[s], store[u])
    IN  /\ s # u /\ ~Staging(s) /\ merges < MaxMerges
        /\ \A e \in TaskIds : ~Tampered(q.base.row.event[e], q.ours.row.event[e],
                                         q.theirs.row.event[e])
        /\ Consistent(q.image.row)
        /\ IF DOMAIN q.answer = {}
           THEN store' = [store EXCEPT ![s] = q.image] /\ UNCHANGED session
           ELSE session' = [session EXCEPT ![s] = q] /\ UNCHANGED store
        /\ merges' = merges + 1
        /\ UNCHANGED <<snaps, tip, last, drawn, edits, applying>>

\* A second answer replaces the first.
Resolve(s, c, side, owner) ==
    /\ Staging(s) /\ ~Writing(s) /\ c \in DOMAIN session[s].answer
    /\ owner # Kept => c[1] = "task" /\ Chosen(session[s], c, side) # NoRow
    /\ session' = [session EXCEPT ![s].answer[c] = [side |-> side, owner |-> owner]]
    /\ UNCHANGED <<vars, applying, merges>>

\* What conflict apply looks at before it has the lock.
AskApply(s, skip) ==
    /\ applying[s] = NoSession /\ Staging(s)
    /\ Ready(session[s].answer, skip)
    /\ applying' = [applying EXCEPT ![s] =
           [skip |-> skip, answers |-> session[s].answer, image |-> NoStore]]
    /\ UNCHANGED <<vars, session, merges>>

\* Faulty variant: what was read before the lock is written.
BeginSeen(s) ==
    /\ applying[s] # NoSession /\ ~Writing(s)
    /\ applying' = [applying EXCEPT ![s] =
           IF Staging(s) /\ DOMAIN @.answers = DOMAIN session[s].answer
           THEN [@ EXCEPT !.answers = AtOurs(@), !.image = session[s].image]
           ELSE NoSession]
    /\ UNCHANGED <<vars, session, merges>>

\* It takes the lock, reads everything again and copies the candidate; what clone s
\* did since the merge was staged is not in it.
BeginApply(s) ==
    /\ applying[s] # NoSession /\ ~Writing(s)
    /\ applying' = [applying EXCEPT ![s] =
           IF Staging(s) /\ Ready(session[s].answer, @.skip)
           THEN [@ EXCEPT !.answers = AtOurs(session[s].answer), !.image = session[s].image]
           ELSE NoSession]
    /\ UNCHANGED <<vars, session, merges>>

\* One answer after the other; the first that fails takes the copy with it.
WriteAnswer(s, c) ==
    LET left == DOMAIN applying[s].answers \ {c}
        rest == [e \in left |-> applying[s].answers[e]]
        image == SettleNext(applying[s].image, session[s], c, applying[s].answers[c])
    IN  /\ Writing(s) /\ c \in DOMAIN applying[s].answers
        /\ \A e \in left : Before(c, e)
        /\ applying' = [applying EXCEPT ![s] =
               IF image = NoStore THEN NoSession
               ELSE [@ EXCEPT !.image = image, !.answers = rest]]
        /\ UNCHANGED <<vars, session, merges>>

\* The copy replaces the database and the session goes.
ReplaceDatabase(s) ==
    /\ Writing(s) /\ DOMAIN applying[s].answers = {}
    /\ applying' = [applying EXCEPT ![s] = NoSession]
    /\ IF Buried(applying[s].image)
       THEN UNCHANGED <<store, session>>
       ELSE /\ store' = [store EXCEPT ![s] = applying[s].image]
            /\ session' = [session EXCEPT ![s] = NoSession]
    /\ UNCHANGED <<snaps, tip, last, drawn, edits, merges>>

Abort(s) ==
    /\ Staging(s) /\ ~Writing(s)
    /\ session' = [session EXCEPT ![s] = NoSession]
    /\ UNCHANGED <<vars, applying, merges>>

\* The commands that take part in conflicts.
Change(s) ==
    /\ edits < MaxEdits /\ ~Writing(s)
    /\ \/ \E k \in TaskIds, a \in AgentIds : CreateTask(s, k, a) \/ EditTask(s, k, a)
       \/ \E k \in TaskIds, st \in Statuses : SetStatus(s, k, st)
       \/ \E a \in AgentIds, n \in Names : RegisterAgent(s, a, n)
       \/ \E a \in AgentIds : AddMember(s, a) \/ RemoveMember(s, a)
       \/ \E d \in DepIds, k, p \in TaskIds, kind \in {"strong", "informational"} :
              AddDependency(s, d, k, p, kind)
       \/ \E d \in DepIds : RemoveDependency(s, d)
    /\ UNCHANGED <<session, applying, merges>>

\* The clones are copies of one snapshot, taken before or after the first edge.
ConflictInit ==
    /\ \E start \in {Genesis, [Genesis EXCEPT !.row.dep[1] = NoRow]} :
           /\ store = [s \in Clones |-> start]
           /\ snaps = <<[store |-> start, parents |-> {}]>>
           /\ drawn = [task |-> 2, agent |-> 1, dep |-> Cardinality(Rows(start.row.dep))]
    /\ tip = [s \in Clones |-> 1] /\ last = tip
    /\ edits = 0 /\ merges = 0
    /\ session = [s \in Clones |-> NoSession]
    /\ applying = [s \in Clones |-> NoSession]

ConflictNext ==
    \E s \in Clones :
        \/ Change(s)
        \/ \E u \in Clones, base \in {0, 1} : Import(s, u, base)
        \/ \E c \in Conflict, side \in Sides, owner \in AgentIds \cup {Nobody, Kept} :
               Resolve(s, c, side, owner)
        \/ \E skip \in BOOLEAN : AskApply(s, skip)
        \/ BeginApply(s) \/ ReplaceDatabase(s) \/ Abort(s)
        \/ \E c \in Conflict : WriteAnswer(s, c)

ConflictSpec == ConflictInit /\ [][ConflictNext]_conflictVars

----------------------------------------------------------------------------
(* What the answers make of the candidate *)

\* The rows a conflict is about, and what an answer to it makes of one of them.
NamedBy(q, c) ==
    IF c[1] = "edge" THEN {<<"dep", e>> : e \in Claimants(q, c[2])} ELSE {c}

Said(q, c, a, x) ==
    IF c[1] = "edge"
    THEN IF x[2] = Claimant(q, c[2], a.side) THEN Chosen(q, x, a.side) ELSE NoRow
    ELSE IF Chosen(q, c, a.side) = NoRow THEN NoRow
    ELSE Overridden(Chosen(q, c, a.side), a)

\* The answers about row x of which none comes after.
LastAbout(q, answers, x) ==
    {c \in DOMAIN answers :
        x \in NamedBy(q, c) /\ \A e \in DOMAIN answers : x \in NamedBy(q, e) => ~Before(c, e)}

\* What row x is then, and whether it has a tombstone.
Word(q, answers, x) ==
    IF LastAbout(q, answers, x) = {} THEN q.image.row[x[1]][x[2]]
    ELSE LET c == Either(LastAbout(q, answers, x)) IN Said(q, c, answers[c], x)

Lost(q, answers, x) ==
    IF LastAbout(q, answers, x) = {} THEN x[2] \in q.image.gone[x[1]]
    ELSE Word(q, answers, x) = NoRow

\* The candidate with every answer in it, and nothing else changed.
AnsweredBy(q, answers) ==
    [row |-> [q.image.row EXCEPT
                 !.task = [k \in TaskIds |-> Word(q, answers, <<"task", k>>)],
                 !.member = [a \in AgentIds |-> Word(q, answers, <<"member", a>>)],
                 !.dep = [d \in DepIds |-> Word(q, answers, <<"dep", d>>)]],
     gone |-> [task |-> {k \in TaskIds : Lost(q, answers, <<"task", k>>)},
               member |-> {a \in AgentIds : Lost(q, answers, <<"member", a>>)},
               dep |-> {d \in DepIds : Lost(q, answers, <<"dep", d>>)}],
     next |-> q.image.next]

Applied(s) == Staging(s) /\ session'[s] = NoSession /\ store'[s] # store[s]

\* Every row that a conflict is about is in the merged database what the last
\* answer says of it, also an answer given while apply waited for the lock, and a
\* row has a tombstone just if it lost ("so a later merge cannot resurrect it",
\* merge_conflict.rs:850).
LastWord ==
    [][\A s \in Clones : Applied(s) =>
        LET q == session[s]
            answers == AtOurs(q.answer)
        IN  \A c \in DOMAIN answers : \A x \in NamedBy(q, c) :
                (\A e \in DOMAIN answers : x \in NamedBy(q, e) => ~Before(c, e)) =>
                    /\ store'[s].row[x[1]][x[2]] = Said(q, c, answers[c], x)
                    /\ Said(q, c, answers[c], x) = NoRow <=> x[2] \in store'[s].gone[x[1]]
      ]_conflictVars

\* conflict apply makes of the candidate what the answers say and nothing else: no
\* statement touches a row, a counter or an event that no conflict is about.
NothingElse ==
    [][\A s \in Clones : Applied(s) =>
           store'[s] = AnsweredBy(session[s], AtOurs(session[s].answer))]_conflictVars

\* No two versions of a task were written at one time: then which of them is newer
\* does not depend on the text of their columns.
Untied(q) ==
    \A k \in Rows(q.ours.row.task) \cap Rows(q.theirs.row.task) :
        q.ours.row.task[k].upd = q.theirs.row.task[k].upd
            => q.ours.row.task[k] = q.theirs.row.task[k]

\* The merge of the result, over the same base, at the clone the bundle came from,
\* and what that clone gets when it answers --theirs throughout.
Back(q, result) == Staged(q.base, q.theirs, result)

Theirs(q) == [c \in DOMAIN q.answer |-> [Open EXCEPT !.side = "theirs"]]

Followed(q, result) == AnsweredBy(Back(q, result), Theirs(Back(q, result)))

\* It is told so when apply fails: NoStore.
FollowedOrTold(q, result) == Image(Back(q, result), Theirs(Back(q, result)))

\* Nothing but the same database: the two clones agree, or it is told that they do
\* not.
Agrees(q, result) == FollowedOrTold(q, result) \in {result, NoStore}

NoSet(q) == \A c \in DOMAIN q.answer : q.answer[c].owner = Kept

\* Of no two rows of an edge the merge has dropped the informational one unasked.
NoneElected(q) ==
    LET deps == DepsBeforeElection(q.base, q.ours, q.theirs)
    IN  \A d \in Rows(deps) : ~KindsOnly(deps, d)

\* No agent took over what another of its name had.
NobodyFolded(q) == Folded({q.ours, q.theirs}) = {}

\* No task in conflict was given another number by a merge that one clone has and the
\* other has not.
NumbersAgree(q) ==
    \A c \in DOMAIN q.answer : c[1] = "task" =>
        Chosen(q, c, "ours").number = Chosen(q, c, "theirs").number

\* No member was removed and added again.
NobodyRejoined(q) == ~Buried(q.ours) /\ ~Buried(q.theirs)

\* A merge that was resolved without --set can be taken over by the clone its bundle
\* came from, as it is and not only in part.
OthersFollow ==
    [][\A s \in Clones :
           LET q == session[s]
           IN  /\ Applied(s) /\ Untied(q) /\ NoSet(q)
               /\ NoneElected(q) /\ NoneElected(Back(q, store'[s]))
               /\ NobodyFolded(q) /\ NumbersAgree(q) /\ NobodyRejoined(q)
               => Followed(q, store'[s]) = store'[s]]_conflictVars

\* Also one that dropped an informational edge.
ElectionFollowed ==
    [][\A s \in Clones : Applied(s) /\ Untied(session[s]) /\ NoSet(session[s]) =>
           Agrees(session[s], store'[s])]_conflictVars

\* Also one with --set (which leaves the time of the row as it was).
SetTravels ==
    [][\A s \in Clones : Applied(s) /\ Untied(session[s]) =>
           Agrees(session[s], store'[s])]_conflictVars

\* It is never refused.
OthersCanFollow ==
    [][\A s \in Clones : Applied(s) /\ Untied(session[s]) /\ NoSet(session[s]) =>
           FollowedOrTold(session[s], store'[s]) # NoStore]_conflictVars
=============================================================================
