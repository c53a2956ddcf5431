------------------------------- MODULE Bundles -------------------------------
(***************************************************************************)
(* Bundles and snapshots (application/export, application/import,          *)
(* carryctx-pack io and manifest, carryctx-vcs git).                       *)
(*                                                                         *)
(* export writes a directory: the manifest first, then one file for each   *)
(* table.  It holds the admission lock of its clone and one transaction,   *)
(* which appends the event of the export before the tables are read and    *)
(* commits only after the files were read back.  With a target it then     *)
(* reads the files once more and commits them to a ref by compare-and-     *)
(* swap, and at last notes the new snapshot in the database.  import reads *)
(* the files one by one before it has any lock and accepts them when every *)
(* table has as many rows as the manifest says; no checksum is compared.   *)
(*                                                                         *)
(* The tables are told apart as far as the order of the files matters: the *)
(* tasks, the worktrees and sessions, the events, and the sequences, which *)
(* come last.  A file is the export that wrote it.  Left out: redaction    *)
(* itself, format version 1, the merge mode of import (Replicas), the swap *)
(* of the database file (StateReplacement), first imports and identity     *)
(* (ProjectIdentity): all clones here belong to one project.               *)
(***************************************************************************)
EXTENDS Naturals, FiniteSets, Sequences

CONSTANTS
    Clones,
    Procs,
    Home,         \* the clone each process works in
    Directories,
    Target,       \* the directories each clone exports to
    Kinds,        \* the kinds of export each clone makes
    Sources,      \* the directories and refs each clone imports from
    Trees,        \* worktree paths
    Here,         \* the worktree paths that exist on the machine of each clone
    MaxExports,
    MaxChanges,   \* bound: commands of other kinds, imports and fetches
    None

Exports == 1..MaxExports

ASSUME BundlesAssumption ==
    /\ Home \in [Procs -> Clones]
    /\ Target \in [Clones -> SUBSET Directories]
    /\ Sources \in [Clones -> SUBSET (Directories \cup {"snapshot", "publication"})]
    /\ Kinds \in [Clones -> SUBSET {"plain", "snapshot", "publication"}]
    /\ Here \in [Clones -> SUBSET Trees] /\ IsFiniteSet(Trees)
    /\ MaxExports \in Nat /\ MaxChanges \in Nat
    /\ None \notin Procs \cup Directories

VARIABLES
    store,        \* the database of each clone
    dir,       \* the files of each bundle directory
    ref,       \* the snapshot refs of each clone
    commit,    \* the snapshot commits, by the export that made them
    lock,      \* the admission lock of each clone
    run,       \* what each process does
    made,      \* what each export has read: the content of the files it writes
    changes    \* the changes so far; the last one names a database's history

bundleVars == <<store, dir, ref, commit, lock, run, made, changes>>

Numbers == 1..MaxChanges + 1

NoExport == 0

Database == [tasks: SUBSET Numbers, edited: 0..MaxChanges, trees: SUBSET Trees,
             links: SUBSET Trees, next: Nat, events: Nat,
             last: Exports \cup {NoExport}, history: 0..MaxChanges, loads: 0..MaxChanges]

Files == <<"manifest", "tasks", "places", "events", "sequences">>

File == {"manifest", "tasks", "places", "events", "sequences"}

\* A file that is missing, or that a write left half done.
Unreadable == 0

Bundle == [File -> Exports \cup {Unreadable}]

Refs == {"snapshot", "publication"}

Steps == {"idle", "write", "check", "collect", "commit", "note", "read", "load"}

Export == [tables: Database, redacted: BOOLEAN, parents: SUBSET Exports]

SnapshotCommit == [files: Bundle, parents: SUBSET Exports]

Run == [at: Steps, kind: {"plain", "snapshot", "publication"},
        export: Exports \cup {NoExport}, tip: Exports \cup {NoExport},
        place: Directories \cup {None}, next: 1..Len(Files) + 1, got: Bundle]

ASSUME NothingAssumption == None \notin Export \cup SnapshotCommit

Empty == [file \in File |-> Unreadable]

Idle == [at |-> "idle", kind |-> "plain", export |-> NoExport, tip |-> NoExport,
         place |-> None, next |-> 1, got |-> Empty]

\* Everything has its type, and a session's link names a worktree of its database.
BundlesTypeOK ==
    /\ store \in [Clones -> Database]
    /\ \A c \in Clones : store[c].links \subseteq store[c].trees
    /\ dir \in [Directories -> Bundle]
    /\ ref \in [Clones -> [Refs -> Exports \cup {NoExport}]]
    /\ commit \in [Exports -> SnapshotCommit \cup {None}]
    /\ lock \in [Clones -> Procs \cup {None}]
    /\ run \in [Procs -> Run]
    /\ made \in [Exports -> Export \cup {None}]
    /\ changes \in 0..MaxChanges

At(p, step) == run[p].at = step

Free(c) == lock[c] = None

\* Any command that ends, fails or dies lets go of its lock.
Released(p) == [c \in Clones |-> IF lock[c] = p THEN None ELSE lock[c]]

Leave(p) == run' = [run EXCEPT ![p] = Idle] /\ lock' = Released(p)

Go(p, step) == run' = [run EXCEPT ![p].at = step] /\ UNCHANGED lock

-----------------------------------------------------------------------------
(* What a reader accepts *)

Content(e) == made[e].tables

\* sequences has one row for each kind of number handed out so far.
SequenceRows(image) == IF image.next > 1 THEN 1 ELSE 0

SameCounts(image, other, file) ==
    /\ file = "tasks" => Cardinality(image.tasks) = Cardinality(other.tasks)
    /\ file = "places" => Cardinality(image.trees) = Cardinality(other.trees)
    /\ file = "events" => image.events = other.events
    /\ file = "sequences" => SequenceRows(image) = SequenceRows(other)

\* Bugs the validation could have: it stops at the first tables, or believes
\* the manifest.
CheckCountsFewer(files) ==
    \A file \in File \ {"events"} :
        SameCounts(Content(files.manifest), Content(files[file]), file)

CheckCounts(files) ==
    \A file \in File : SameCounts(Content(files.manifest), Content(files[file]), file)

Readable(files) == \A file \in File : files[file] # Unreadable

\* carryctx-pack io.rs read_bundle
Accepted(files) == Readable(files) /\ CheckCounts(files)

-----------------------------------------------------------------------------
(* Work in a clone *)

Changed(c, image) ==
    /\ Free(c) /\ changes < MaxChanges
    /\ changes' = changes + 1
    /\ store' = [store EXCEPT ![c] = [image EXCEPT !.events = store[c].events + 1, !.history = changes']]
    /\ UNCHANGED <<dir, ref, commit, lock, run, made>>

CreateTask(c) ==
    /\ store[c].next \in Numbers
    /\ Changed(c, [store[c] EXCEPT !.tasks = @ \cup {store[c].next}, !.next = @ + 1])

EditTask(c) == store[c].tasks # {} /\ Changed(c, [store[c] EXCEPT !.edited = @ + 1])

\* A worktree is registered and a session started in it.
EnterTree(c) == \E t \in Here[c] \ store[c].trees :
    Changed(c, [store[c] EXCEPT !.trees = @ \cup {t}, !.links = @ \cup {t}])

Work(c) == CreateTask(c) \/ EditTask(c) \/ EnterTree(c)

Closed(S) == \A e \in S : commit[e] # None => commit[e].parents \subseteq S

\* The exports on the way from a commit back to the root: they are in every set
\* that holds it and the parents of its members.
Chain(e) ==
    {f \in Exports : e # NoExport /\ \A S \in SUBSET Exports : Closed(S) /\ e \in S => f \in S}

\* Refs are carried by people: git fetch forwards a ref to another clone's tip.
Fetch(c, other) ==
    /\ changes < MaxChanges /\ changes' = changes + 1
    /\ \E r \in Refs :
         /\ ref[c][r] # ref[other][r]
         /\ ref[other][r] # NoExport
         /\ ref[c][r] # NoExport => ref[c][r] \in Chain(ref[other][r])
         /\ ref' = [ref EXCEPT ![c][r] = ref[other][r]]
    /\ UNCHANGED <<store, dir, commit, lock, run, made>>

\* People clear out a bundle directory before the export has read it back.
Clean(d) ==
    /\ changes < MaxChanges /\ changes' = changes + 1
    /\ \E p \in Procs : At(p, "check") /\ run[p].place = d
    /\ dir' = [dir EXCEPT ![d] = Empty]
    /\ UNCHANGED <<store, ref, commit, lock, run, made>>

-----------------------------------------------------------------------------
(* export *)

\* resolve_target: a plain export has none.
Tip(c, kind) == IF kind = "plain" THEN NoExport ELSE ref[c][kind]

\* collect_snapshot after the event of the export was appended
Snapshot(c) == [store[c] EXCEPT !.events = @ + 1]

\* build_manifest: the parent is the export whose manifest is at the tip.
Parents(tip) == IF tip = NoExport THEN {} ELSE {commit[tip].files.manifest}

BuildManifest(c, kind) == [tables |-> Snapshot(c), redacted |-> kind = "publication",
                           parents |-> Parents(Tip(c, kind))]

IsNext(e) == made[e] = None /\ \A f \in Exports : f < e => made[f] # None

\* run_export, up to the first file: the tip of the ref, then the transaction
\* with the event and everything the files will hold
BeginExport(p, e, kind, d) ==
    LET c == Home[p] IN
    /\ made' = [made EXCEPT ![e] = BuildManifest(c, kind)]
    /\ run' = [run EXCEPT ![p] = [Idle EXCEPT !.at = "write", !.kind = kind, !.export = e,
                                              !.tip = Tip(c, kind), !.place = d]]
    /\ UNCHANGED <<store, dir, ref, commit, changes>>

AskExport(p) ==
    LET c == Home[p] IN
    /\ At(p, "idle") /\ Free(c)
    /\ lock' = [lock EXCEPT ![c] = p]
    /\ \E e \in Exports, kind \in Kinds[c], d \in Target[c] :
         IsNext(e) /\ BeginExport(p, e, kind, d)

\* write_bundle, one file after the other, each in place
WriteFile(p) ==
    LET r == run[p] IN
    /\ At(p, "write")
    /\ dir' = [dir EXCEPT ![r.place][Files[r.next]] = r.export]
    /\ run' = [run EXCEPT ![p] = IF r.next = Len(Files) THEN [r EXCEPT !.at = "check", !.next = 1]
                                                       ELSE [r EXCEPT !.next = @ + 1]]
    /\ UNCHANGED <<store, ref, commit, lock, made, changes>>

ReadsBack(p) == Accepted(dir[run[p].place]) /\ dir[run[p].place].manifest = run[p].export

\* The files are read back; only then the transaction commits.
Confirm(p) ==
    /\ At(p, "check") /\ ReadsBack(p)
    /\ store' = [store EXCEPT ![Home[p]].events = @ + 1]
    /\ IF run[p].kind = "plain" THEN Leave(p) ELSE Go(p, "collect")
    /\ UNCHANGED <<dir, ref, commit, made, changes>>

Refuse(p) ==
    /\ At(p, "check") /\ ~ReadsBack(p)
    /\ Leave(p)
    /\ UNCHANGED <<store, dir, ref, commit, made, changes>>

\* A bug the export could have: it notes the snapshot before it is on the ref.
CollectAndNote(p) ==
    /\ At(p, "collect") /\ Readable(dir[run[p].place])
    /\ run' = [run EXCEPT ![p].at = "commit", ![p].got = dir[run[p].place]]
    /\ store' = [store EXCEPT ![Home[p]].last = IF run[p].kind = "snapshot" THEN run[p].export ELSE @]
    /\ UNCHANGED <<dir, ref, commit, lock, made, changes>>

\* read_bundle_files: every file must still be there.
Collect(p) ==
    /\ At(p, "collect") /\ Readable(dir[run[p].place])
    /\ run' = [run EXCEPT ![p].at = "commit", ![p].got = dir[run[p].place]]
    /\ UNCHANGED <<store, dir, ref, commit, lock, made, changes>>

\* A bug the commit could have: it takes the tip the ref has now for its parent.
CommitOnTip(p) ==
    LET r == run[p]
        c == Home[p] IN
    /\ At(p, "commit")
    /\ commit' = [commit EXCEPT ![r.export] = [files |-> r.got,
                     parents |-> IF ref[c][r.kind] = NoExport THEN {} ELSE {ref[c][r.kind]}]]
    /\ ref' = [ref EXCEPT ![c][r.kind] = r.export]
    /\ IF r.kind = "snapshot" THEN Go(p, "note") ELSE Leave(p)
    /\ UNCHANGED <<store, dir, made, changes>>

\* resolve_parent_export_ids: the trailer of a commit names the export that made it.
TrailerParents(tip) == IF tip = NoExport THEN {} ELSE {tip}

\* update_ref_cas and the check before it
TipMoved(p) == ref[Home[p]][run[p].kind] # run[p].tip

\* git.rs write_snapshot_commit: the ref must still be at the tip the manifest
\* names as its parent.
CommitSnapshot(p) ==
    LET r == run[p]
        c == Home[p] IN
    /\ At(p, "commit") /\ ~TipMoved(p)
    /\ commit' = [commit EXCEPT ![r.export] = [files |-> r.got, parents |-> TrailerParents(r.tip)]]
    /\ ref' = [ref EXCEPT ![c][r.kind] = r.export]
    /\ IF r.kind = "snapshot" THEN Go(p, "note") ELSE Leave(p)
    /\ UNCHANGED <<store, dir, made, changes>>

\* The bundle and its event stay.
CommitLost(p) ==
    /\ At(p, "commit") /\ TipMoved(p)
    /\ Leave(p)
    /\ UNCHANGED <<store, dir, ref, commit, made, changes>>

\* snapshot_state: both columns in one transaction
Note(p) ==
    /\ At(p, "note")
    /\ store' = [store EXCEPT ![Home[p]].last = run[p].export]
    /\ Leave(p)
    /\ UNCHANGED <<dir, ref, commit, made, changes>>

-----------------------------------------------------------------------------
(* import --mode replace, from a directory or from a ref *)

HasManifest(files) == files.manifest # Unreadable

\* The manifest is read first; without one the import is over.
AskImport(p) == \E d \in Sources[Home[p]] \cap Directories :
    /\ At(p, "idle") /\ changes < MaxChanges
    /\ HasManifest(dir[d])
    /\ run' = [run EXCEPT ![p] = [Idle EXCEPT !.at = "read", !.place = d, !.next = 2,
                                              !.got.manifest = dir[d].manifest]]
    /\ UNCHANGED <<store, dir, ref, commit, lock, made, changes>>

Accepting(files) ==
    IF Accepted(files) THEN [Idle EXCEPT !.at = "load", !.got = files] ELSE Idle

ReadFile(p) ==
    LET r    == run[p]
        file == Files[r.next]
        got  == [r.got EXCEPT ![file] = dir[r.place][file]]
    IN  /\ At(p, "read")
        /\ run' = [run EXCEPT ![p] = IF r.next = Len(Files) THEN Accepting(got)
                                     ELSE [r EXCEPT !.got = got, !.next = @ + 1]]
        /\ UNCHANGED <<store, dir, ref, commit, lock, made, changes>>

\* materialize_ref_into
FilesAtTip(c, r) == commit[ref[c][r]].files

\* import --from-git: the tip is resolved once, and its files cannot change.
AskImportFromGit(p) == \E r \in Sources[Home[p]] \cap Refs :
    /\ At(p, "idle") /\ changes < MaxChanges /\ ref[Home[p]][r] # NoExport
    /\ run' = [run EXCEPT ![p] = Accepting(FilesAtTip(Home[p], r))]
    /\ UNCHANGED <<store, dir, ref, commit, lock, made, changes>>

\* Bugs the load could have: the counter of the bundle; every link.
ReconcileStored(tasks, stored) == stored

\* reconcile_sequences: never below the stored value nor a number in use
ReconcileSequences(tasks, stored) ==
    LET above == {stored} \cup {n + 1 : n \in tasks} IN
    CHOOSE n \in above : \A other \in above : other <= n

\* prune_worktrees
LiveTrees(c, places) == places.trees \cap Here[c]

KeepAllLinks(c, places) == places.links

\* insert_rows_nulling_pruned_worktree_refs
LiveLinks(c, places) == places.links \cap LiveTrees(c, places)

\* load_bundle_into_db: worktrees that do not exist here are dropped and
\* the links to them cleared; snapshot_state is not part of a bundle.
Loaded(c, files) ==
    LET tasks  == Content(files.tasks)
        places == Content(files.places)
    IN [tasks |-> tasks.tasks, edited |-> tasks.edited,
        trees |-> LiveTrees(c, places), links |-> LiveLinks(c, places),
        next |-> ReconcileSequences(tasks.tasks, Content(files.sequences).next),
        events |-> Content(files.events).events + 1 + Cardinality(places.trees \ LiveTrees(c, places)),
        last |-> NoExport, history |-> changes', loads |-> store[c].loads + 1]

\* An import does not wait for the lock.  It holds it from here until the new
\* database is in place, so nobody else sees a step in between.
Load(p) ==
    LET c == Home[p] IN
    /\ At(p, "load") /\ Free(c) /\ changes < MaxChanges
    /\ changes' = changes + 1
    /\ store' = [store EXCEPT ![c] = Loaded(c, run[p].got)]
    /\ Leave(p)
    /\ UNCHANGED <<dir, ref, commit, made>>

\* A command dies or meets an error.  The transaction it is in is rolled back;
\* a file it is writing may be left half written.
Interrupt(p) ==
    /\ ~At(p, "idle") /\ Leave(p)
    /\ \/ UNCHANGED dir
       \/ /\ At(p, "write")
          /\ dir' = [dir EXCEPT ![run[p].place][Files[run[p].next]] = Unreadable]
    /\ UNCHANGED <<store, ref, commit, made, changes>>

-----------------------------------------------------------------------------
\* Both clones start with the project's first task.
BundlesInit ==
    /\ store = [c \in Clones |-> [tasks |-> {1}, edited |-> 0, trees |-> {}, links |-> {},
                               next |-> 2, events |-> 1, last |-> NoExport,
                               history |-> 0, loads |-> 0]]
    /\ dir = [d \in Directories |-> Empty]
    /\ ref = [c \in Clones |-> [r \in Refs |-> NoExport]]
    /\ commit = [e \in Exports |-> None]
    /\ lock = [c \in Clones |-> None]
    /\ run = [p \in Procs |-> Idle]
    /\ made = [e \in Exports |-> None]
    /\ changes = 0

ExportStep(p) ==
    \/ AskExport(p) \/ WriteFile(p) \/ Confirm(p) \/ Refuse(p) \/ Collect(p)
    \/ CommitSnapshot(p) \/ CommitLost(p) \/ Note(p)

ImportStep(p) ==
    \/ AskImport(p) \/ ReadFile(p) \/ AskImportFromGit(p) \/ Load(p)

BundlesNext ==
    \/ \E p \in Procs : ExportStep(p) \/ ImportStep(p) \/ Interrupt(p)
    \/ \E c \in Clones : Work(c)
    \/ \E c, other \in Clones : Fetch(c, other)
    \/ \E d \in Directories : Clean(d)

BundlesSpec == BundlesInit /\ [][BundlesNext]_bundleVars

-----------------------------------------------------------------------------
(* What bundles and snapshots promise *)

\* The part of a database one file carries, as far as events record it.
PartOf(image, file) ==
    IF file = "tasks" THEN <<image.tasks, image.edited>>
    ELSE IF file = "places" THEN <<image.trees, image.links>>
    ELSE <<image.history>>

OneState(files) == \A file \in File \ {"sequences"} :
    PartOf(Content(files[file]), file) = PartOf(Content(files.manifest), file)

OneReplacement(files) == \A file \in File \ {"sequences"} :
    Content(files[file]).loads = Content(files.manifest).loads

\* Whatever exports into a directory died or are under way, and wherever, what
\* lies there at a moment is refused or is one state of the tables (all that
\* events record of it), if no import replaced the database in between.  The one
\* guard is that every export brings an event more (run_export, read_bundle).
RefusedOrWhole == \A d \in Directories :
    Accepted(dir[d]) /\ OneReplacement(dir[d]) => OneState(dir[d])

\* A snapshot commit carries the files of its own export, redacted exactly on the
\* publication ref, and its manifest names the export of its Git parent, whoever
\* moved the ref meanwhile (run_export, write_snapshot_commit).
SnapshotIsExport ==
    /\ \A e \in Exports : commit[e] # None =>
         /\ \A file \in File : commit[e].files[file] = e
         /\ commit[e].parents = made[e].parents
    /\ \A c \in Clones, r \in Refs : \A e \in Chain(ref[c][r]) :
         made[e].redacted = (r = "publication")

\* The snapshot a database notes as its last one is on the chain of its ref, so
\* that a merge finds a base (run_export, snapshot_state).
LastOnChain == \A c \in Clones :
    store[c].last # NoExport => store[c].last \in Chain(ref[c]["snapshot"])

\* The next number is larger than every number in use, also after an import of
\* a directory whose sequences are older than its tasks (reconcile_sequences).
NextUnused == \A c \in Clones : \A n \in store[c].tasks : n < store[c].next

\* Not what the code does: the files an import accepted are one state, also when
\* an export overtook it while it read them (Bundles.cfg with this invariant).
AcceptedIsOneState == \A p \in Procs : At(p, "load") => OneState(run[p].got)

\* Not what the code does: RefusedOrWhole also across an import (BundlesTorn.cfg).
RestingIsOneState == \A d \in Directories :
    Accepted(dir[d]) => OneState(dir[d])
=============================================================================
