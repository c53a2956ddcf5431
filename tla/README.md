# carryctx in TLA+

carryctx keeps the working memory of software agents: tasks and their
dependencies, who works on what and where, sessions, hand-overs and decisions.
One project is one SQLite database (`state.sqlite`) inside a repository, used by
many short-lived command processes that know nothing of each other; clones of the
repository exchange their databases as bundles and merge them. This directory
holds TLA+ models of the parts of carryctx where the order of steps decides
whether that works, TLC configurations that check them on small instances, and
TLAPS proofs of the main results for every instance.

All paths below are relative to the repository; `CLI` stands for
`crates/carryctx-cli/src`, `CORE` for `crates/carryctx-core/src`, `SQL` for
`crates/carryctx-sqlite/src`, `PACK` for `crates/carryctx-pack/src` and `VCS` for
`crates/carryctx-vcs/src`.

| Module | Models | Run | Proofs |
| --- | --- | --- | --- |
| `AdmissionLock` | the project-wide lock directory | `lock` | `AdmissionLockProofs` |
| `TaskLifecycle` | tasks, ownership, the dependency gate | `task_lifecycle` | `TaskLifecycleProofs` |
| `Collaboration` | hand-overs, progress items, teams, decisions, beside `TaskLifecycle` | `collaboration` | `CollaborationProofs` |
| `Scopes` | scopes of tasks and the two conflict reports | `scopes` | `CollaborationProofs` |
| `WorkContext` | sessions, checkpoints, the task a command or a commit is about | `work_context` | `HooksProofs` |
| `GitHooks` | the hook files of a repository | `git_hooks` | `HooksProofs` |
| `WorktreeCleanup` | worktrees and the durable cleanup outbox | `cleanup` | `WorktreeCleanupProofs` |
| `ProjectIdentity` | init, first imports, schema upgrades: which project a clone is | `identity` | `ProjectIdentityProofs` |
| `Database` | what a project promises of its database (abstract) | through `StateReplacement` | `StorageProofs` |
| `StateReplacement` | the files, journals and sessions behind that promise | `replacement` | `StorageProofs` |
| `Bundles` | export, snapshot commits, import, file by file | `bundles` | `StorageProofs` |
| `MergeEngine` | the three-way merge as operators (no state) | through `Replicas` | `ReplicasProofs` |
| `Replicas` | clones that work, publish snapshots and merge them | `replicas` | `ReplicasProofs` |
| `MergeConflicts` | merges with conflicts, resolved and applied later | `conflicts` | `ReplicasProofs` |

`MC<Module>` extends a module with the values of its constants for TLC. To check
one configuration: `tlc -config WorktreeCleanup.cfg MCWorktreeCleanup` (`GitHooks`
needs no MC module); to check one proof module: `tlapm TaskLifecycleProofs.tla`.

## 1. Inventory

### How the parts interact

A command parses its arguments, opens the runtime (`CLI/cli.rs`, `open_runtime`)
and ends. Opening the runtime takes the **admission lock**, retires the journals
a dead command left (**replacement of the database**, **worktrees**), opens or
migrates the database, and resolves the acting agent. The use case then runs as
one or several `BEGIN IMMEDIATE` transactions, and the lock is dropped with the
process. `init`, `sync`, `import`, `project restore` and `conflict
resolve | apply | abort` take the lock themselves, later and without retry. There
is no daemon, no message passing and no timer: components meet through rows of the
database, files and directories beside it, git worktrees, hooks and refs, and calls
within a command (finishing a task or ending a session drains the cleanup outbox;
completing a task promotes its dependents). Clones meet through bundles,
snapshot refs that Git carries, and a remote directory for whole databases.

So the hard behaviour is of five kinds: contenders for the lock and healers of
dead holders; processes that die between two steps that belong together; people
and agents who act between two commands, or beside a command, in an order nobody
foresaw; the few commands that read before they hold the lock; and clones that
diverge and merge in any order.

### Components

| Component | State it keeps | Operations | What is hard | What makes it correct |
| --- | --- | --- | --- | --- |
| Admission lock (`CLI/adapter/filesystem.rs`) | a lock directory, its metadata, private staging and quarantine directories | acquire with retry, observe, heal, restore, release, sweep | every file-system call races with every other process; holders die; two hosts may share the disk | one command at a time; only dead holders are healed; a dead holder blocks nobody for ever |
| Tasks and dependencies (`CLI/application/task.rs`, `CORE/domain/task.rs`, `dependency.rs`) | status, owner, strong and informational edges | create, claim, nine transitions, add and remove an edge | long histories: reopened prerequisites, edges added under a running task, deactivated agents | no cycle; work only past open gates; promotion reaches exactly the freed dependents |
| Handoffs, decisions (`CLI/application/collaboration.rs`) | handoffs, supersession chains | create, accept (and claim), reject, close, supersede | an acceptance that claims a task; chains that close | a hand-over keeps to the rules of tasks; a decision is in force |
| Progress items (`CORE/application/progress.rs`) | an ordered list per task | create, edit, complete, reopen, remove, reorder | positions under removal; the completion gate of the task | no two share a position; nothing open on a task being completed |
| Teams (`CLI/application/team.rs`) | members, commander, the team of a task | create, join, leave, assign | members who leave with tasks | the commander is a member; the view shows every task |
| Scopes (`CLI/application/collaboration.rs`) | patterns of tasks | add, remove, report conflicts | patterns matched against patterns | what is called definite meets; nothing is missed |
| Sessions (`CLI/application/session.rs`) | sessions, their state and place | start, pause, resume, end, abandon | row and event are two commits; several sessions of one agent | row and event agree; starting supersedes |
| Checkpoints (`CLI/application/checkpoint.rs`), command line and runtime (`CLI/application/runtime.rs`) | checkpoints | create; resolve the acting agent, the task, the session | sessions, bindings and tasks change between two hooks of one commit | nothing is attributed to a task that is somebody else's |
| Hooks (`CLI/commands/hooks.rs`) | hook files and their backups | install, compose, displace, uninstall, restore | other tools' hooks; a crash between two renames | a foreign hook is never lost; an installed hook runs carryctx |
| Worktrees and cleanup (`CLI/application/worktree.rs`, `cleanup.rs`) | git directories, registrations, creation journal, cleanup requests | create, bind, unbind, remove, prune, enqueue, claim, assess, execute, record, drain, recover | git and the database cannot commit together; people edit meanwhile; a drain may die at any step | nothing in use is removed; finished tasks leave a request; completion means gone; no request is lost |
| Project initialisation, schema migration (`CLI/application/init.rs`, `SQL/database.rs`) | `config.toml`, the project row, the registry; schema version, backups | init, force, first import, upgrade | three files no lock covers together; Git carries one of them; binaries of different age | one identity; nothing is upgraded or replaced without a backup; no binary touches a newer schema |
| Replacement of the database (`CLI/application/project_mgmt.rs`, `sync.rs`, `merge_import.rs`, `merge_conflict.rs`) | `state.sqlite` and its log, candidates, linked originals, journals, backups, conflict sessions | backup, restore, push, pull, merge, stage, apply, abort, recover | three files change in place of one; a merge reads before it locks; a conflict session lives for days | always one whole image; what goes is backed up; a merge is applied once |
| Full import and export (`CLI/application/import.rs`, `export.rs`, `PACK/io.rs`) | bundle directories, snapshot commits, the noted snapshot | export to a directory, to a snapshot ref, as publication; import | files are written and read one by one, reads are outside the lock, refs move | a bundle is one state or refused; a commit is one export; a base can be found |
| Merge engine (`PACK/merge`) | snapshot history, tombstones, display numbers | three-way election of rows, aliases, renumbering, base resolution | order of merges, diamonds in the history, ties of clocks | same result in either order; deletions stick; nothing newer is lost |
| Merge conflict sessions (`CLI/application/merge_conflict.rs`) | staged merges and answers | stage, resolve, apply, abort | answers are written one after the other into a database with constraints | the database is what the last answers say; the other clone can follow |
| Agents (`CLI/application/agent.rs`) | registered agents, kind, status | register, rename, deactivate | rows outlive the agent's authority | a deactivated agent no longer acts |
| Database transactions (`SQL/unit_of_work.rs`, `repos.rs`) | none of their own | begin, commit, roll back on drop | use cases made of several transactions | all or nothing |
| Version-control adapters (`VCS`) | none | run git and jj, parse output | none beyond parsing | parse what is printed |
| Trust store, configuration, presets | per-user and per-project documents | read and write whole | none | none |
| Event log, graph, search, statistics, context views | append-only rows; queries | list, render | none | none |

The last two lines are not modelled: reading, rendering and documents that one
command reads and writes whole. What the others leave out is in section 6.

## 2. The modules and the code

Every definition that stands for code says in a comment which function or which
part of it it stands for. Definitions marked *Faulty variant* are not part of
any specification: each is a plausible bug in the definition that follows it,
kept to show that the properties notice it.

### AdmissionLock

The lock is a directory. A contender builds a private staging directory with its
metadata and renames it onto the lock path without replacing (`Publish`); who
finds the path occupied reads the metadata, asks whether the owner is alive, and
heals a dead owner's directory by renaming it to a quarantine name, comparing
tokens there, and deleting it or putting it back.

| Variable | Code |
| --- | --- |
| `lockDir` | the lock path: nothing, an owner's token, or a directory without readable metadata (`Bare`; `OldBare` past `METALESS_LOCK_GRACE`) |
| `staging`, `quarantine` | the private directories of each process |
| `seen` | the token a healer observed before it decided |
| `step`, `pc` | the loop of `acquire_lock_owned` (`ACQUIRE_MAX_STEPS`), and the next file-system call |
| `robbed` | history variable: live processes whose directory another process took away |

One action is one file-system call another process can tell apart: the metadata
is unlinked (`ReleaseUnlink`) before the directory is removed (`ReleaseRmdir`),
the observation (`Observe`, `Recheck`, `ReadMeta`), the probe of the pid (`Probe`)
and the rename (`Quarantine`) are separate. `Crash` may strike anywhere.
`Remote` processes share the disk but not the process table. A process id is not
reused. `Slow` names processes that may stall for longer than the grace age
while they publish or release.

### TaskLifecycle

`status` and `owner` are the columns of `tasks`; `strong` and `informational`
the rows of `task_dependencies`; `active` the agents that are not deactivated.
Each command is one transaction, so each is one action: `Create`, `Claim`,
`AddDependency`, `RemoveDependency`, `DeactivateAgent`, and one action per
`TransitionAction` of `transition_task` (`Release`, `Start`, `Block`, `Unblock`,
`Review`, `Complete`, `Cancel`, `Reopen`), including the promotion of dependents
inside `Complete`. The acting agent is a parameter, because the policies ask
now the actor and now the owner. `Reaches` says what the search of
`would_create_cycle` computes: a task is reached when every set closed under
edges and holding the start holds it. Open progress items and active sessions
are inputs of the actions that look at them.

### WorktreeCleanup

A finished task should give its git worktree back. The request is a row
(`state`, `target`, `for`, `linked`), created in the transaction that finishes
the task. Drains claim requests oldest first, assess the worktree, remove it
with git outside any transaction, and record the outcome in a second
transaction.

| Variable | Code |
| --- | --- |
| `dir` | the worktree of each path: gone, clean, or *kept* (changes, untracked files, or locked) |
| `bound` | `worktrees.task_id`, or no registration row |
| `finished`, `fresh` | finished tasks; places with an active session that is not stale |
| `phase`, `todo`, `current`, `outcome`, `cwd` | the running command and its drain |
| `journal` | the `worktree.create` journal |
| `removing` | what `worktree remove` resolved before it called git |

Commands hold the admission lock, so one works at a time and `phase` says where
it is; `People` edit, lock, clean up and delete worktrees between any two steps,
sessions go stale, and `Crash` ends the command at any step. `Recover` is what
the next command does first. Execution refuses what is no longer clean, as git
does, so the assessment may be out of date.

### StateReplacement

An image of the database is the set of things committed to it: `live` is
`state.sqlite`, `wal` what is only in its log. A replacement builds `candidate`,
backs up and checkpoints, writes a `journal`, hard-links the original
(`linked`), renames, and undoes its traces in an order that differs between
merge, restore and pull (`Unlink`, `CompleteJournal`, `RetireJournal`). A merge
with conflicts parks its candidate in a session (`session`, `staged`) that a
later `conflict apply` copies and swaps in. `BeginWrite`, `RecoverDatabase`,
`RecoverFiles`, `RecoverJournal` and `OpenDatabase` are the start of an ordinary
command, `Commit` its work. `ReadOurs` is the only step outside the lock.
`MergeFails`, `ApplyFails`, `SwapFails`, `RestoreFails` and `PullFails` are the
error paths, with what each cleans up and what it leaves; `Crash` may leave a
candidate torn or a session directory half removed.

The database may be missing at the start (`Init`), since that is where an
initialised project whose database was lost begins.

### Database

The abstract specification: one `image` a connection sees, the backups (`kept`)
and the images journals name (`offered`). `Commit` adds one write to a valid image,
`Keep` saves it, `Offer` changes what journals name, and `Replace` puts an offered
image in the place of one that loses nothing by it or has been kept. No file, no
journal format and no crash is in it.

### Collaboration

The variables of `TaskLifecycle` and, beside them, `handoff`, `item`, `team`,
`taskTeam` and `successor` (the rows of `handoffs`, `progress_items`, `teams` with
their members, `tasks.team_id`, and `decisions.superseded_by`), each by its display
number. Every command is one unit of work, hence one action: `TaskCommand` is the
next-state relation of `TaskLifecycle` without completion, `Complete` adds the gate
that looks at the open items, `ItemCommand` creates, moves, completes, reopens,
removes and reorders items with the positions as the code computes them,
`HandoffCommand` creates, accepts, rejects and closes, where accepting may claim
the task, `TeamCommand` and `DecisionCommand` are the rest. Texts, types and
addressees, which no command looks at, are left out.

### Scopes

`scopes` counts the rows a task has of each pattern (nothing makes them unique),
`finished` are the completed and cancelled tasks. A pattern is a sequence of
segments, names and the wildcards `*`, `**` and `*.rs`; `Matches` says what globset
makes of it as `classify_overlap` builds it, where a `*` also crosses separators: a cut
of the text says where each segment of the pattern ends, without recursion.
`Conflicts` is what `task scope conflicts` reports, `TeamConflicts` what `team
context` does, by its own test.

### WorkContext

| Variable | Code |
| --- | --- |
| `sessions` | rows of `sessions` in order of creation, each with what its last event says |
| `unlogged` | the session whose row is committed and whose event is not yet |
| `doing`, `over` | who has which task in progress; finished tasks |
| `bound` | the task of each worktree |
| `checked` | tasks with a checkpoint |
| `draft` | a commit between `prepare-commit-msg` and `post-commit` |

`StartSession` supersedes in one transaction; `Pause`, `Resume` and `Abandon` write
the row (`WriteState`) and `AppendEvent` the event in the next, with `CrashUnlogged`
between; `EndSession` asks for the checkpoint. `ResolveTask` and `SessionTask` are the
resolutions of `CLI/application/runtime.rs`, used by `CreateCheckpoint`,
`PrepareCommit` and `PostCommit`; `Work`, `FinishTask` and the bindings are what others
change meanwhile.

### GitHooks

`file` and `bak` are the hook files and their backups, each abstracted to what the
code tells apart (absent, the shim, the retired hook, a composition with the current
shim text, one with another (*stale*), a foreign file, any other file with the marker
CarryCtx) and to whose body it holds. `cmd` is the command that runs, its
flags and what it still has to do; `SetAside`, `Install`, `Uninstall`, `Restore` and
`Write` are single file operations, `Crash` ends the command between any two, and a
rename whose result nobody looks at may fail (`RenameMayFail`). `People` write or remove
the files, and change ours (`Reworked`), between commands and, if `Racing`, under a running one. Hook commands take the
admission lock.

### ProjectIdentity

`config` (the id in `config.toml`), `db` (project rows, projects with tasks, schema),
`saved`, `bundles`, `remote`, `registry`, and per clone the `lock`, per process the `cmd` it
runs. `Begins` are the commands: `init` with or without `--force`, a first and a
replacing import, restore, pull, push, export and ordinary commands. `Steps` are
what they do file by file, including the backup before an upgrade and the refusal of
a newer schema; every step may fail or die. Each process has its own binary
(`Version`). `Checkout` is Git bringing or taking away `config.toml`.

### Bundles

| Variable | Code |
| --- | --- |
| `store` | the database of a clone: how often tasks and sessions were changed, worktrees, sequence, events, the noted snapshot |
| `dir` | the files of each bundle directory; a file is the export that wrote it, or unreadable |
| `ref`, `commit` | the snapshot and publication refs of each clone, and the commits by export |
| `run` | what each process does: the export or import, the next file, what it has read |
| `made` | what each export has read from its database |
| `lock`, `changes` | the admission lock of each clone; a bound |

`AskExport`, `WriteFile`, `Confirm`, `Collect`, `CommitSnapshot` and `Note` are
`run_export` and `write_snapshot_commit`: the files in the order they are written, the
read-back, the commit of the transaction, the second reading for the commit, the
compare-and-swap of the ref, the note. `AskImport`, `ReadFile`, `Accept` and `Load` are
`import --mode replace`: reading before the lock, the count check, the pruning of
worktrees that do not exist here, and the reconciled sequence. `Interrupt` kills a
process anywhere. `Clean` removes a directory (the user's business) before its
read-back.

### MergeEngine and Replicas

`MergeEngine` is `PACK/merge` as operators, for five tables that stand for its five
policies: tasks (last writer wins, settled status first, facts never lost, display
numbers), agents (aliased by name), members (keyed by the agent), dependencies
(immutable, unique per edge) and events (append-only). `MergeKey` is the rule for one
key, `MergedTasks` … `MergedGone` the tables, `Candidate` the whole result after
aliases, renumbering, rewritten references and counters, `Clean` the conflicts and
refusals. `Winner` elects one of two rows by `Beats`, with the greater text where
neither does.

`Replicas` gives it a life: `store` of each clone, `snaps` with their parents, the
snapshot ref (`tip`) and `snapshot_state` (`last`) of each clone. `Work` is any command
that changes rows (`CreateTask`, `EditTask`, `SetStatus`, agents, members,
dependencies, `Prune`), `Share` is `Export` in its three outcomes (a directory only, a
snapshot that a crash left unrecorded, a recorded one), `Fetch`, `FreshImport`, `Merge` over
the base the history gives (`Base`) and `MergeAndCommit`. A merge is one step here;
`StateReplacement` has its steps.

### MergeConflicts

`MergeConflicts` extends `Replicas` by merges with conflicts. `session` holds the base,
both sides, the candidate and the answers; `applying` is a `conflict apply`. `AskApply`
looks at the session without the lock (with or without `--skip-open`), `BeginApply` takes
the lock, reads the answers again and copies the candidate, each `WriteAnswer` writes one
answer into the copy (`SettleNext`), in the order of tables and keys, and gives up where
the schema's constraints (`Fits`) refuse a statement, as SQLite does, and
`ReplaceDatabase` puts the copy in the database's place. While it is `Writing` the other commands
of the clone wait for the lock; those of other clones go on. `Import`, `Resolve` (with
`--set`) and `Abort` are the other commands.

What an apply comes to is said twice. `Image` folds the answers into the candidate one
by one, with the refusals of the schema (`NoStore`). `AnsweredBy` is the same result in
closed form, row by row: what the last answer about a row says of it, and the candidate
where none does. `NothingElse` says that an apply which succeeds gives just that; it is
what makes the question answerable what another clone gets: `Back` is the session the
bundle's clone has when it merges the result over the same base, `Followed` what it gets
when it answers `--theirs` throughout, and `OthersFollow` says when that is the result
again.

### How the modules fit together

* *Refinement of tasks.* `Collaboration` instantiates
  `Task == INSTANCE TaskLifecycle WITH status <- status, owner <- owner, …` and runs its
  actions; `ImplementsTasks == Task!Spec` says that hand-overs, items, teams and
  decisions leave tasks to their rules. Checked by `collaboration`, proved as
  `ImplementsTasksTheorem`. So what is proved of `TaskLifecycle` holds of the tasks of
  `Collaboration`.
* *Refinement of the database.* `StateReplacement` instantiates
  `Promised == INSTANCE Database WITH image <- Visible, kept <- backups, offered <- Offered`,
  where `Visible` is what a connection would see of `state.sqlite` and its log and
  `Offered` what the journals of candidates name. `ImplementsDatabase == Promised!Spec` is
  checked by `replacement` and proved as `ImplementsDatabaseTheorem`.
* *Extension.* `MergeConflicts` extends `Replicas`, which extends `MergeEngine`: the
  conflicts use the very operators the clean merges use.
* *Assumption of the lock.* `WorktreeCleanup`, `StateReplacement`, `ProjectIdentity`, `Bundles`
  and `GitHooks` take from `AdmissionLock` that one command of a clone works at a time
  (their `phase`, `lock` or `cmd`). `AdmissionLockRace.cfg` shows the one window in which
  the code does not guarantee that, so their results are about commands whose
  lock was not robbed (`ExclusionUnlessRobbed`). `TaskLifecycle` and `Collaboration` do not
  need it: SQLite serialises their transactions.
* *The same command seen from two sides.* `FinishTask` and `Reopen` of
  `WorktreeCleanup` are `Complete`, `Cancel` and `Reopen` of `TaskLifecycle` seen from the
  worktree. `Merge` of `Replicas` is the content, `StateReplacement` the files, of
  `merge_import.rs`; `Load` of `Bundles` and the replacing import of `ProjectIdentity` are
  the content and the identity of one command.

## 3. The runs

Twelve runs, one for each module with a life of its own. `CHECK_DEADLOCK` is FALSE
where the system rightly stops: all ids are used, or all processes have ended.

| Run | Instance | Distinct states | Asks |
| --- | --- | --- | --- |
| `lock` | two local processes, of which one may stall past the grace age, and a remote one; `MaxSteps` 2; fair | 244,189 | Do two hold the lock only after one was robbed? Is what a crash left there reclaimed? |
| `task_lifecycle` | three symmetric tasks, a commander and a peer, both policies on | 249,118 | Acyclic graph, gated work, promotion |
| `collaboration` | one task, two agents, two hand-overs, three items, two decisions, one team | 35,168 | Does all that keep to `TaskLifecycle`? Distinct positions, nothing open on completion |
| `scopes` | two tasks, twelve patterns of up to three segments, three rows | 11,700 | Does a definite conflict exist? |
| `work_context` | two agents, two tasks, one worktree and the main checkout, two sessions; symmetric | 720,192 | Do rows and log agree? Whose task does a commit name? Who has two active sessions? |
| `git_hooks` | two hooks, two foreign bodies, two edits, renames may fail | 1,075,604 | Is a foreign hook kept, does an installed hook run? |
| `cleanup` | two tasks that share one path, two requests, git may fail, fair | 546,480 | Is only idle work removed, is every finished task's worktree requested, is completion true, what stops a drain, does every unblocked request drain? |
| `identity` | two clones, two processes with binaries of different schemas, two ids, five commands; symmetric | 876,478 | One identity, no loss without a backup, newer schemas untouched |
| `replacement` | two operations of any kind, one local write, one foreign; symmetric operations | 617,091 | Is the promise of `Database` kept, what goes backed up, a merge applied once? |
| `bundles` | two clones, a process in each, a directory each, one tree, two exports, two changes | 1,688,606 | Is a bundle one state or refused, a commit one export, a base on the chain, the next number unused? |
| `replicas` | two clones; four tasks, two agents, two edges, two names, two clock readings; two edits, two snapshots | 40,910 | Do both sides get the same? Do deletions stick, numbers stay unique, newer rows survive? |
| `conflicts` | two clones; three tasks, two agents, three edges; two edits, one snapshot, one merge; symmetric | 23,055 | Is the last answer what counts? Is every database within its constraints, does the other clone get the same? |

### Bounds, and why they are enough

* **`MaxSteps`** (lock). Two iterations of the loop let a contender fail, heal and
  publish; the code allows more, which repeats the same states. A process acquires
  once: a second acquisition is another process. Three processes supply holder,
  healer and rival; the four that the race of section 4 needs are in
  `AdmissionLockRace.cfg`.
* **Tasks** (task_lifecycle). Three give chains, forks, joins and indirect cycles. Two
  agents give owner, other and, with deactivation, nobody. `CommanderStays` lets only
  the peer be deactivated: deactivation closes claims and assignments to an agent
  whatever its kind. In `collaboration` one task suffices, since items,
  hand-overs and teams of different tasks never meet; three items are the least
  that can be reordered around a removed one.
* **`MaxRows`, `MaxDepth`** (scopes). A conflict needs two rows, a duplicate a third. The
  patterns cover each pair of segment kinds in the first and in a later place. Paths as long
  as the longest pattern are enough to find a file two patterns share, since a
  wildcard can be read as one name; that is what the proof of `DefiniteMeets` shows
  for patterns of any length.
* **`MaxSessions`** (work_context). Two are the least that can be ambiguous or supersede one
  another. One worktree and the main checkout give *here* and *elsewhere*.
* **`MaxEdits`** (git_hooks). Two changes by people give a foreign hook and its
  replacement, or a backup and a change to the composition made since, in either order
  and in either hook. `Racing` is FALSE: with people
  changing files under a running command no tool can keep them.
* **`MaxRequests`** (cleanup). Two requests are the least that can be rivals and that a
  drain can leave one of; two tasks on one path let one registration serve both. The
  instance with one task and two paths (`Tasks = {s}`, `Paths = {a, b}`), where a task is
  rebound and one worktree occupied while the other is removed, satisfies the safety
  properties too (1.56 million states) and takes longer than a run should.
* **`MaxCommands`** (identity). Five are a victim, a second initialiser, an import or
  Checkout that brings another identity, a forced init and a command that finds the
  result; each finding of section 4 needs at most that.
* **Operations and writes** (replacement). Two operations let a second command meet
  the traces of any first one, in any pair of kinds, and let two merges read before
  either locks. One local and one foreign write tell apart all images the properties
  distinguish.
* **`MaxExports`, `MaxChanges`** (bundles). Two exports overlap, follow each other or
  die over each other. Each clone exports to its own directory (a shared one is a
  finding), the second clone imports, and the kinds of export are divided between the
  clones; columns that change without an event are left out, and a truncated file
  counts as unreadable. `RefusedOrWhole` speaks of directories whose clone saw no
  import in between (the other case is a finding).
* **`MaxEdits`, `MaxSnaps`, `MaxMerges`, `MaxTime`** (replicas, conflicts). Edits on both
  sides of a base, tied or ordered clocks, a snapshot and its successor. Two edits suffice
  for each pair of policies on one row. Deeper instances of `MergeConflicts` were run by
  hand with the same outcome, with `NothingElse` too: `MaxEdits` 3 with two tasks and one agent
  (593,601 states), `MaxEdits` 3 with two edges (916,095), two merges with two tasks, one agent
  and two edges (986,497), and random behaviours of three clones with five edits and three
  merges.

### Fairness

Only `lock` and `cleanup` have liveness properties, and only they assume fairness.

`lock` assumes weak fairness of each process's own steps (the operating system schedules
it), of the decision after a failed attempt (the retry loop either tries again or
gives up), and of time (`AgeLockDir`); a crash is never forced. The promise is
conditional accordingly: a lock left behind goes, or nobody who may heal it contends
any more.

`cleanup` assumes that a running command goes on unless it dies, that a next command
recovers, and that people keep running drains from the repository root
(`SF(CleanupRunAll(Root))`). The last is an assumption about people: carryctx
schedules nothing by itself, but every `task complete`, `task cancel` and `session end`
drains, and so does `worktree cleanup run`. Strong fairness is needed because other
commands make the drain impossible again and again. `RequestsDrain` then promises
completion to a request whose worktree is left alone, while nothing has failed for good.

### The properties

| Property | What would have to go wrong |
| --- | --- |
| `ExclusionUnlessRobbed` | a rename that clobbers, a liveness probe of the wrong process, a restore over a live lock |
| `StaleLockReclaimed`, `BareLockReclaimed` | a crash window whose residue nobody classifies as stale |
| `Acyclic` | an edge accepted after the search looked at the wrong set of edges |
| `GateGuardsWork`, `OnlyReopenUngates` | one way into work, or into *ready*, that skips the gate |
| `CompletionPromotes` | promotion that counts the task just completed as open, or forgets a second prerequisite |
| `ImplementsTasks` | an acceptance that claims past the gate or from an owner |
| `PositionsDistinct`, `NothingOpenWhenCompleted` | a position counted after a removal; a gate that looks at the wrong items |
| `DefiniteMeets` | a verdict drawn from matching a pattern against the text of another |
| `LogTellsEnd` | an event written by a process that died, or for a row that was not changed |
| `TagBelongsHere`, `TwoActiveOnlyByResume` | a session chosen by order of the rows, a supersession that looks at one place only |
| `InstalledRuns`, `ForeignKept` | a backup overwritten, a failed rename taken for done, a composition that drops what was there |
| `CleanupSparesWork` | a forced removal; an assessment trusted too long |
| `FinishedTaskRequested`, `CompletedMeansGone`, `RequestsDrain` | a request for another worktree taken for this one's; a row that outlives its directory; a request left *running* by a crash |
| `OnlyFailedStops` | two active requests for one registration, of which each keeps the other from being claimed |
| `OneIdentity`, `ImageKept`, `NeverTouchesNewer` | a check before the lock and not again; a backup after the upgrade; a schema read once |
| `ImplementsDatabase`, `LossIsBackedUp` | a log replayed into another image; a backup of the main file alone; a journal that names what is not whole |
| `AppliedOnce` | a crash between rename and mark |
| `BundlesTypeOK`, `RefusedOrWhole`, `SnapshotIsExport` | a manifest written last, a missing event, a parent read from the wrong place; links to pruned worktrees |
| `LastOnChain`, `NextUnused` | a note before the ref moved; a sequence older than the tasks |
| `Commutative` | any asymmetry of elections, aliases, edges, numbers, counters, tombstones |
| `DeletesStick`, `NumbersUnique`, `NewestSurvives` | a tombstone lost in a merge; renumbering onto a number in use; the base's row taken for ours |
| `SessionsOK`, `LastWord` | answers read before the lock; a loser without a tombstone, or a winner with one |
| `OthersFollow` | a result the other clone undoes, in part or by electing otherwise on the way back |

Where each would be noticed is shown by the mutants of `PROJECT.json`: every property of
every run is violated under the run's own configuration when one mapped definition is
replaced by its faulty variant.

`OthersFollow` has hypotheses, and each is there because TLC finds a behaviour of the code that
refutes the property without it. They are read off the session before it is applied, or off the
merge of its result:

* `Untied`, `NoSet`: two versions written in one second are elected by their text, and `--set`
  leaves the time of the row (`SetTravels`), so the way back may elect otherwise.
* `NoneElected`, both ways: the merge drops one of two rows of an edge unasked when only their
  kind differs (`ElectionFollowed`). It has to be asked of the way back too: an edge
  deleted on one side and answered `ours` comes back as such a pair.
* `NumbersAgree`: a task in conflict that was renumbered by a merge only one clone has. The
  result carries one side's row with the other's number (two clones, two merges, five edits, four tasks).
* `NobodyFolded`: the tombstone of a membership of a folded agent is kept under the name the agent
  no longer has (`PACK/merge/mod.rs:177-180`), so a membership comes back (three clones,
  three merges, five edits).
* `NobodyRejoined`: a member removed and added again has a tombstone and a row, and the next
  merge drops it (`Idempotent`).

That the other clone may be *refused* (`OthersCanFollow`) is a finding of section 4 and not excluded by
these: `OthersFollow` says that what it gets, if it gets anything, is the result.

Some properties are stated, hold under the same configurations, and are left out of
the listed runs because a deeper one says more: `PrefixIsTag` and `ContextTypeOK` (WorkContext),
`FastForward` (Replicas). Others hold and are only listed as theorems: `HolderVisible`,
`HealersTargetTheDead`, `FirstGenerationExclusive`, `NoOwnershipTransfer`, `OneTaskAtATime`,
`OneActivePerWorktree`, `CommanderIsMember`, `TeamReportAgrees`, `EndedUnrecorded`,
`BackupsKept`, `WholeReplacement`, `LeftoversJournalled`, `OneActiveMerge`, `OpenSessionWhole`,
`NothingElse` and the `TypeOK` of most components.

## 4. Where the code and its documents differ

Each finding is refuted by TLC under the configuration in brackets, which is kept
beside the listed runs; `PROJECT.json` quotes the line of the comment, test or document.
Where a configuration names several properties TLC stops at the first;
`-continue` shows all.

*The lock.* Two commands can hold it (`AdmissionLockRace`): a healer that observed a dead
holder renames whatever lies at the lock path when it gets there
(`CLI/adapter/filesystem.rs:449`); until it compares tokens and restores the directory of
a live third process, a fourth can publish.

*Tasks and agents* (`TaskFindings`, `CollaborationFindings`). `RevocationAuthorized`:
cancelling clears the owner for any actor. `DeactivatedCannotAct`: a deactivated agent is
resolved by name and acts. `StatusComplete`: `team status` shows an unfinished task whose
owner is not a member nowhere. `DecisionInForce`: two decisions can supersede each other.

*Scopes and context.* `NothingMissed` (`ScopesFindings`): `*/a.rs` and `src/*` are reported as
disjoint. `NoCrossTag` (`WorkContextCrossTag`): with ambiguous sessions the hook falls back on
the acting agent's task, and tags a commit of one session's worktree with another's task.

*Hooks* (`GitHooksFindings`). `OnlyForceLosesForeign`: a plain install keeps a composition only if
it contains the current shim text (`CLI/commands/hooks.rs:392`). One with another shim is renamed
to `.bak` if that place is free, whether the rename works or not, and then overwritten
(`hooks.rs:431`, `:494`): with an older backup in place the foreign hook is lost without
`--force`. `ForeignKept`, which the run checks, names this case (`OverwritesStale`) and says that there is
no other. `ForceKeepsOriginal`: a second `--force` overwrites the backup with
carryctx's own shim. `UninstallRemovesAll`: `--restore` may bring the retired carryctx hook
back. `ByteForByte`: a composition gives the foreign body back trimmed.

*Cleanup.* `DrainRetriesAll` (`WorktreeCleanupDrain`): a request that cannot be claimed ends the
drain before the later ones are tried.

*Identity* (`ProjectIdentityFindings`). `PullKeepsProject`: the published database is checked and
copied in two steps. `OneProject`: `init --force` after another identity came in adds a second
project row, and then every way back refuses. `ImportKeepsConfig`: a first import overwrites
an identity that arrived after its check. `RegistryKept`: `registry.json` is written in place
under one clone's lock.

*Bundles.* `AcceptedIsOneState` (`Bundles.cfg` with this invariant): an import that an export
overtakes accepts new tasks with old events. `RestingIsOneState` (`BundlesTorn`): after an
import of an older database a torn directory can be accepted. `SnapshotIsExport` with a shared
directory (`Bundles.cfg` with `Target <- OneTarget`): one clone's commit carries the other's files.

*Replacement* (`StateReplacementFindings`). `MergeKeepsWrites`: a merge reads its own side before it
takes the lock and never again; the write is in the backup, not in the result. `ApplyRetried`: an
apply that dies after the hard link and is tried again removes the journal that recovery would
have needed, and can never succeed.

*Merging.* `Idempotent` and `NothingReverted` (`ReplicasFindings`): a member removed and added again is
dropped by merging the database with itself; an export onto a fetched ref makes an older row
look like an edit of the newer one, and the next merge takes it. `EventsKept` (`ReplicasEvents`): a
folded agent is rewritten in append-only events, and later merges fail as tampering.
`OthersCanFollow`, `ElectionFollowed`, `SetTravels` (`MergeConflictsFindings`): answers about one edge can
be written in an order the schema refuses; an edge elected away unasked can vanish although
neither clone removed it; `--set` leaves the time of the row, so the next merge may undo it.

*Met while reading, without a configuration of their own*, and kept in the models where these
reach: `checkpoint correct` can never work, since it inserts an
empty project id, which the foreign key refuses, and nothing commits (`SQL/repos.rs:2692`,
`CLI/commands/checkpoint.rs:230`); `agent
rename` never commits (`CLI/commands/agent.rs:218`); `agent current` may register an agent without
committing; a cancellation settles a prerequisite but promotes nobody; `unblock` does not ask the
single-active policy; starting an unowned ready task leaves it in progress with no owner;
deactivating an agent leaves it its tasks; a request whose registration was deleted keeps its
path; `session start` supersedes without the checkpoint the end would require; pausing or ending
without a reference takes the newest session of the project; `--compose --force` displaces a
composed hook; `uninstall --restore` does nothing where the hook file is gone; team context
compares finished tasks too and by another test than `task scope conflicts`; `sync push`
overwrites another project's remote database; `project restore` refuses to replace a database that is
empty but migrated, although that is what an ordinary command makes of a lost one; `open` does not
refuse every newer schema that a read-only command meets; pruning deletes checkpoints and nulls the
task of events, which a later merge may take for tampering or refuse for a foreign key; deleting
a row on one side while the other refers to it is refused in the end; a merge can close a cycle
of dependencies; `delete_vs_edit` on tasks is never staged; work done between staging and apply
is lost; and `PACK/merge/dag.rs:285` takes one's own last export as base whatever was exported since.

## 5. What is proved

The theorems hold for every set of processes, tasks, agents, clones, paths, writes and operations
and every value of the other constants that satisfies the named `ASSUME`s. These say that
special values differ from ordinary ones, that subsets are subsets, that numbers are numbers and
that the tables of a merge are finite; TLC evaluates them in the runs. Two theorems have
a hypothesis that the code does not enforce, and section 4 shows what happens without it:
`OwnDirectories` (no two clones export to one directory) and, for `GitHooks`, `~Racing` (nobody
changes a hook file while a hook command runs).

| Module | Theorem | States |
| --- | --- | --- |
| `AdmissionLockProofs` | `TypeCorrect` | types, and the bound of the acquisition loop |
| | `HealersTargetTheDeadTheorem` | a healer removes by token only the dead of its own host |
| | `HolderVisibleTheorem` | a holder nobody robbed is named by the lock path |
| | `ExclusionUnlessRobbedTheorem` | two commands hold the lock only if one was robbed, also with stalled publishers |
| | `FirstGenerationTheorem` | no two hold it before some command has ended, if nobody stalls |
| `TaskLifecycleProofs` | `TypeCorrect` | types, foreign keys of the edges |
| | `AcyclicTheorem` | the dependency graph never has a cycle |
| | `GateGuardsWorkTheorem` | no way into work past an open prerequisite |
| | `NoOwnershipTransferTheorem` | between two owners a task is unowned |
| | `OnlyReopenUngatesTheorem` | only reopening a prerequisite leaves a ready task gated |
| | `CompletionPromotesTheorem` | the last prerequisite completed frees its dependents at once |
| | `OneTaskAtATimeTheorem` | the single-active policy, for claim and start |
| `CollaborationProofs` | `ImplementsTasksTheorem` | a refinement: every behaviour is one of `TaskLifecycle` |
| | `PositionsDistinctTheorem` | listed items of a task have different positions |
| | `NothingOpenWhenCompletedTheorem` | under strict completion no task is completed with an open item |
| | `CommanderIsMemberTheorem` | a commander is a member |
| `CollaborationProofs` (Scopes) | `DefiniteMeetsTheorem` | scopes reported as definitely in conflict share a file, for any patterns |
| | `TeamReportAgreesTheorem` | what `team context` reports of unfinished tasks, `task scope conflicts` reports as definite |
| `HooksProofs` (WorkContext) | `ContextTypeCorrect` | types |
| | `LogTellsEndTheorem` | log and rows agree on which sessions have ended, across crashes |
| | `TagBelongsHereTheorem` | a commit takes a session's task only where that session speaks for it |
| | `TwoActiveOnlyByResumeTheorem` | only a resumption gives an agent two active sessions in one place |
| | `EndedUnrecordedTheorem` | a session that ends without the demanded checkpoint was superseded by its own agent |
| `HooksProofs` (GitHooks) | `TypeCorrect` | types |
| | `InstalledRunsTheorem` | what an install came past runs carryctx |
| | `BackupsKeptTheorem` | only `--force` overwrites a backup, only `--restore` takes it |
| | `ForeignKeptTheorem` | only `--force`, or a plain install over a stale composition without a way to the backup, loses a foreign hook |
| `WorktreeCleanupProofs` | `TypeCorrect` | types and the foreign key of requests |
| | `OneActiveTheorem` | one active request per registration |
| | `FinishedTaskRequestedTheorem` | a finished task's worktree has an active request in the same commit |
| | `CleanupSparesWorkTheorem` | nothing dirty, locked or occupied is removed |
| | `CompletedMeansGoneTheorem` | completion is recorded only of what is gone |
| | `OnlyFailedStopsTheorem` | no active request stops a drain, only a failed one with a newer rival |
| `ProjectIdentityProofs` | `TypeCorrect` | types |
| | `OneIdentityTheorem` | `init` and first imports never give a clone a second identity |
| | `ImageKeptTheorem` | what upgrades a schema or loses tasks has saved the database |
| | `NeverTouchesNewerTheorem` | no binary changes a database of a newer schema |
| `StorageProofs` (StateReplacement) | `TypeCorrect` | types; a linked original always has a database |
| | `ImplementsDatabaseTheorem` | a refinement: every behaviour is one of `Database` |
| | `WholeReplacementTheorem` | one whole image, across any crashes and recoveries |
| | `LossIsBackedUpTheorem` | what a replacement takes out is in a backup |
| | `LeftoversJournalledTheorem` | recovery can find every file of a restore or pull |
| | `OneActiveMergeTheorem` | one merge session, however many merges read at once |
| | `AppliedOnceTheorem` | no merge replaces a database that records it |
| | `OpenSessionWholeTheorem` | an open session's candidate is whole and unmarked |
| `StorageProofs` (Bundles) | `BundlesTypeCorrect` | types, and links only to worktrees that are there |
| | `NextUnusedTheorem` | no next number is in use |
| | `LastOnChainTheorem` | a noted snapshot is on the chain of its ref |
| | `SnapshotIsExportTheorem` | a commit is one export whole, with the parent its manifest names |
| | `RefusedOrWholeTheorem` | what is accepted is one state, unless an import came in between |
| `ReplicasProofs` | `CandidateSymmetric` | the merge of any two typed databases is the same in either order |
| | `CommutativeTheorem` | so are those of any two clones that ever meet |
| | `ReplicasTypeCorrect` | types of all databases and snapshots |
| | `NumbersUniqueTheorem` | display numbers are unique and below the counter |
| | `NewestSurvivesTheorem` | a row a side changed since the base yields only to a newer or settled one |
| | `DeletesStickTheorem` | no step takes a tombstone back |
| `ReplicasProofs` (MergeConflicts) | `SessionsOKTheorem` | foreign keys, numbers and the UNIQUE index of edges, whatever is merged, answered and applied |
| | `LastWordTheorem` | what is applied is what the last answers say, row by row, with tombstones of the losers and of them only |
| | `NothingElseTheorem` | an apply is the candidate with the answers in it: it touches no other row, counter, event or tombstone |
| | `OthersFollowTheorem` | merged back and answered `--theirs`, the result of a merge comes out as it is |

### The inductive invariants

* **AdmissionLock.** `TypeOK` is inductive only with `StepBound` (a process in the loop has an
  iteration left). Safety rests on `Owned` (the lock path names an unrobbed process from its
  publication until it unlinks its own metadata, and a staging directory is emptied only by robbing
  its owner) and on `Targeted`, which carries what the healer knows from the read to the removal.
  Both lean on a dead process staying dead (`EndedIsStable`). `FirstGenInv` says that before any
  command ended no directory is old and so no healer acts.
* **TaskLifecycle.** `RowInv` adds to the types that edges join tasks that exist and that a task
  without a row has no owner. Acyclicity is an argument about graphs, stated as three lemmas: an edge
  the search accepts closes no cycle, fewer edges close none, and a task nobody depends on closes
  none. Reachability is defined by closed sets rather than by recursion, so that they can be proved
  for any set of tasks. The action properties follow action by action.
* **Collaboration.** `RecordInv` (types, positions, commanders) goes item by item: a listed position
  is below the next one drawn, and reordering is a permutation of what was listed. The refinement maps
  each command to the task action it runs (`TaskCommandStep`, `CompleteStep`, `HandoffStep`) or to a stutter.
  `NothingOpenWhenCompleted` needs `StrictNext`: of all actions only `Complete` makes a task completed.
* **Scopes.** The invariant is none but the types of the constants: what has to be shown is about two patterns.
  A verdict of *definite* comes from matching one pattern against the text of the other, which is no path.
  `Example` turns that text into a file (each wildcard becomes one Rust file): its pattern covers it
  (`CoversExample`), and whatever covers the text covers the file with the same cut (`CoveredTextCoversExample`). The
  cut is what lets the proof do without induction over patterns.
* **WorkContext.** `ContextInv` is types and `LogTellsEnd`: an event is written for the row that was
  changed, and the only row ahead of its event is `unlogged`. The resolutions are operators, whose
  lemmas (`SessionTaskFacts`, `Greatest`) say of which session they speak. `EndedUnrecorded` and
  `TwoActiveOnlyByResume` follow action by action from what a step does to one row (`StartFacts`, `ChangedRowFacts`).
* **GitHooks.** `HookInv` adds `WriteSound`: what is about to be written runs carryctx and, without
  `--force`, holds the body of the file it replaces, unless that is a stale composition whose backup place is
  taken or whose rename failed. What a command decides for a file and when it writes it are two steps, so
  `ForeignKept` is not inductive without it.
* **WorktreeCleanup.** `TypeInv` adds `TargetsKept` and `AttemptKnown` (an attempt is on a running
  request). `RowInv` holds the two unique indexes: a task is bound once, a registration has one active
  request; finishing a task needs both. `AttemptInv` carries what an assessment found to the removal:
  sessions start only when no drain runs, so occupation stays as assessed; cleanliness may
  change, and git looks again. `ListedInv` says that what is on the list of a drain is active or failed; with the
  unique index no active one of them can be refused (`OnlyFailedStops`), which is the safety half of `RequestsDrain`.
* **ProjectIdentity.** `IdentityInv` adds `Knows`: what each command at each step knows of lock, schema,
  and identity since it looked. Every step is a step of the lock's holder or changes no database.
* **StateReplacement.** `TypeInv` adds which command is in which phase and what it has ready.
  `SwapInv`: between backup and rename the log is empty, the original is in the backups and the journal
  is written; from it `ImagesReplaced` says what one step can do to the visible image. `WholeInv` says that
  every file that may become the database holds the project row; with the two, `PromisedStep` maps each action
  of the code to `Commit`, `Keep`, `Offer`, `Replace` or a stutter of `Database`, and recovery is never a
  replacement nobody offered. `JournalInv` follows the files of restore and pull against their journals;
  `SessionInv` keeps the check made under the lock true until the session opens; `MarkInv` follows the
  event of a merge through every file that might hold it.
* **Bundles.** `Sound` is types and that all files and commits were made by exports. `Fresh`: an export
  that is not over has no commit and one process. `Noted`: chains only grow. `Alone` (with `OwnDirectories`)
  says that an export's own files are its, those it has still to write are older, and nobody else writes there;
  `History` ties commits to manifests. `Counted` orders the exports of a clone by what they hold; each has an event
  more than the one before, so equal counts mean one export, which is why count checks suffice there.
* **Replicas.** First the operators. `MergeKeySymmetric` and `ElectTaskSymmetric` turn the election of one row
  round, table by table up to `CandidateSymmetric`, for any base and any two typed stores. `MergeKeyDeletes`,
  `NumberedDistinct`, `HighWaterFacts` and `MergeTaskNewest` say what a merge keeps, numbers and elects. Then `CloneInv`: every
  database and every snapshot is sound (typed, foreign keys hold, numbers distinct and below the counter), a
  snapshot's parents are older, refs name snapshots. `StoreStepSound` reduces each command to its effect on
  one database.
* **MergeConflicts.** `ConflictInv` adds to `CloneInv` that no database has two rows of one edge, that a session's sides and
  candidate are databases with no number above the candidate's counter (`SessionSound`), and that the copy a
  `conflict apply` writes to is one too, with answers left only for conflicts of its session (`CopySound`). That a statement
  keeps the constraints is what the schema checks; that it writes rows of the right shape, with a number below the
  counter, is proved (`AnswerWritten`). For an edge this needs that each side of the conflict has a row of it
  (`ClaimantsOfBoth`), which follows from the UNIQUE index of the two sides.
  `LastWord` needs `WordInv`: there is one table of edges that every database, side, candidate and copy agrees with (`Ledger`,
  because an id is drawn once and an edge is never updated), no task has a tombstone (none of these commands deletes
  one), the edges of a copy come from its session's sides, and the answers written so far stand in the copy, of
  two about one row the later one (`Written`). From the ledger the two claimants of an edge are the only rows of it (`TwoClaimants`), so what an
  answer about an edge removes is named by its conflict, and an answer touches no other row (`AnswerFollowed`).
  `Written` also carries the frame, that rows no answer so far is about are the candidate's; when no answer is left
  that is `AnsweredBy`, hence `NothingElse`.
* **The way back** (`OthersFollow`). `AsStaged` says that a session's candidate is the merge of its sides over its
  base, which is empty or one of the `Beginnings`: here no clone exports again, so all merges are over the first export or
  over nothing. `Known` says that what a side has beyond that is new. Without folded agents the candidate has a form in
  which no alias occurs (`Unfolded`, `CandidateUnfolded`). `Way` collects what the result of an apply then is, whatever the answers were. `FollowedBack`
  goes through the tables of the merge of the result over the same base, key by key: a row that the answers took
  from `theirs` is unchanged on that side; one taken from `ours` is either newer than the base, and elected, or in
  conflict again, and `--theirs` takes it (`KeyStays` for members, `TaskMade` for tasks with their numbers, `DepKept` and
  `LoneEdge` for edges, which are unique by their ends and not only by their ids). Counters, events and tombstones follow.

Where an invariant is not among the listed runs' properties it was checked under TLC on the same
instances before it was proved.

## 6. What is only model-checked, and what is left out

*Only model-checked.*

* Liveness under fairness (`StaleLockReclaimed`, `BareLockReclaimed`, `RequestsDrain`) and everything about
  ENABLED: the prover does not reach them.
* `Image` of `MergeConflicts` is a fold over a sequence of conflicts; that it gives `AnsweredBy` or `NoStore` is an
  induction over data. So `OthersFollow` speaks of `AnsweredBy`, which the step-by-step apply is proved to reach
  (`NothingElse`), and `Image` serves only the findings `OthersCanFollow`, `ElectionFollowed` and `SetTravels`.
* `Ancestors` of `Replicas` is a recursive function; the proofs only use that a history consists of snapshots, so
  `FastForward`, which says what descent implies, stays with TLC.
* The properties of section 4 are refuted, so there is nothing to prove.

*Left out of the modelled components.*

* AdmissionLock: reuse of process ids, the backoff delays and their budget (trying again is always possible),
  commands that take no lock at all (`team status`, dry runs, `conflict list`, `trust`).
* TaskLifecycle, Collaboration: edits of text and of the required role, display numbers, deletion by `project
  prune` (in `Replicas`).
* Scopes: character classes, alternatives and escapes of globs.
* WorkContext: stale sessions, first registration of an agent, corrections of checkpoints (which never work).
* GitHooks: file modes, which manager a foreign hook belongs to, and compositions whose foreign part is empty or
  lacks its end marker.
* WorktreeCleanup: branches and `delete_branch`, jj-colocated repositories, events and their foreign keys, attempt
  bounds, directories git does not list.
* ProjectIdentity: names and prefixes, and the text of migrations.
* StateReplacement: what the merge engine elects, the resolution of single conflicts, snapshot refs, events other
  than `project.merged`, the table-by-table read of the merging side, a `sync push` interrupted halfway, and readers
  that outlast `busy_timeout` (10 s): for them the checkpoint reports *busy* in a row nobody reads, and the log is
  removed after it. The branch of the recovery that replaces a database that is there but invalid has no state
  that reaches it here.
* Bundles: redaction itself, format version 1, checksums (no reader compares them), columns that change without events.
* MergeEngine, Replicas: tables that follow a policy already there, NULL-union of hand-over times, `--strict-edits`,
  an explicit `--base`, the plan shown to users.
* MergeConflicts: `--set` of columns other than the one that stands for all, machine-local columns.

*Left out altogether*: trust store, configuration and presets, event log, graph, search, statistics and
context views. They read, render, or read and write one document whole.

## 7. Plan

The order was: the lock everything rests on, the rules of the tasks, the outbox, the replacement of the
database, each with its proofs; then collaboration, context, hooks, identity, bundles and merging; then
the proofs of those and the two refinements. What is left:

1. For `FastForward`, ancestors by closed sets, as reachability in `TaskLifecycle`, and hypotheses as those of
   `OthersFollow`: a folded agent or a rejoined member makes a merge with one's own past change something.
2. The deletions of `project prune` in `TaskLifecycle`, and the events of cleanup.

An abstract lock that `AdmissionLock` implements for as long as nobody is robbed was considered and left out: its
only promise would be `ExclusionUnlessRobbed`, which is proved.
