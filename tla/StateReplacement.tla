-------------------------- MODULE StateReplacement --------------------------
(***************************************************************************)
(* How the project database is replaced as a whole: project restore, sync  *)
(* pull, import --mode merge and conflict apply (application/project_mgmt, *)
(* sync, merge_import, merge_conflict).  Each builds a candidate beside    *)
(* state.sqlite, keeps the original by a hard link, renames the candidate  *)
(* over it, and keeps a journal meanwhile; ordinary commands retire the    *)
(* journals a dead command left before they open the database.             *)
(*                                                                         *)
(* Commands hold the admission lock (module AdmissionLock) from their      *)
(* first step to their last, and may die between any two.  Only a merge    *)
(* reads the database before it takes the lock.                            *)
(*                                                                         *)
(* An image of the database is the set of things committed to it.  Left    *)
(* out: what the merge engine elects, single conflicts and their           *)
(* resolutions, snapshot refs, audit events other than project.merged,     *)
(* that a merge reads its own side table by table, and readers that hold a *)
(* snapshot for longer than busy_timeout.                                  *)
(***************************************************************************)
CONSTANTS
    Writes,     \* what ordinary commands commit
    Theirs,     \* what the bundle and the remote bring from another clone
    Unpacked,   \* writes to tables that are no part of a bundle
    Ops,        \* bound: operation ids; the id of a merge is also its
                \* project.merged event
    Project,    \* the project row
    NoFile,
    Torn,       \* a database file that was not written to its end
    NoOp

Contents == {Project} \cup Writes \cup Theirs \cup Ops

Images == SUBSET Contents

ASSUME NameAssumption ==
    /\ Ops \cap (Writes \cup Theirs) = {} /\ Writes \cap Theirs = {}
    /\ Project \notin Writes \cup Theirs \cup Ops
    /\ Unpacked \subseteq Writes
    /\ NoFile # Torn /\ \A i \in Images : i # NoFile /\ i # Torn
    /\ NoOp \notin Ops

VARIABLES
    live,       \* state.sqlite
    wal,        \* committed to state.sqlite-wal and not yet to state.sqlite
    backups,    \* the images under backups/
    remote,     \* the database the remote directory publishes
    journal,    \* status of each operation's journal
    candidate,  \* the file restore_<op> or sync_pull_<op>
    linked,     \* operations whose original_<op> exists: it is state.sqlite
                \* under a second name until the rename
    session,    \* the directory merges/<id>: "partial" before merge.json is
                \* there, "dying" when a removal stopped before merge.json
    staged,     \* its candidate.sqlite
    ours,       \* what a merge read before the lock
    kind,       \* what each operation id was drawn for
    phase,      \* the step the command that holds the lock is at
    cmd,
    op,         \* its operation id
    source      \* the backup a restore copies

db == <<live, wal>>
elsewhere == <<backups, remote>>
files == <<journal, candidate, linked>>
merging == <<session, staged>>
command == <<phase, cmd, op, source>>
vars == <<db, elsewhere, files, merging, ours, kind, command>>

SwapPhases == {"backup", "journal", "copy", "link", "rename",
               "unlink", "complete", "retire"}

Phases == SwapPhases \cup
    {"idle", "recover", "commit", "build", "stage", "open", "finish", "mark", "sweep"}

TypeOK ==
    /\ live \in {NoFile} \cup Images
    /\ wal \in Images
    /\ backups \subseteq Images
    /\ remote \in Images
    /\ journal \in [Ops -> {"none", "prepared", "completed"}]
    /\ candidate \in [Ops -> {NoFile, Torn} \cup Images]
    /\ linked \subseteq Ops
    /\ session \in [Ops -> {"none", "partial", "open", "dying", "applied"}]
    /\ staged \in [Ops -> {NoFile} \cup Images]
    /\ ours \in [Ops -> {NoFile} \cup Images]
    /\ kind \in [Ops -> {"none", "merge", "restore", "pull"}]
    /\ phase \in Phases
    /\ cmd \in {"none", "write", "merge", "apply", "abort", "restore", "pull"}
    /\ op \in Ops \cup {NoOp}
    /\ source \in {NoFile} \cup Images
    /\ linked # {} => live # NoFile

\* What a connection to the database sees.
Visible == IF live = NoFile THEN {} ELSE live \cup wal

\* validate_database: the file is whole and holds the project row
Whole(f) == f \notin {NoFile, Torn} /\ Project \in f
Usable == live # NoFile /\ Whole(Visible)

\* active_merge_session
Actionable == {"open", "dying"}
SessionActive == \E m \in Ops : session[m] \in Actionable

\* The commands that go through swap_candidate_into_place.
Swaps == {"merge", "apply"}

Init ==
    /\ live \in {NoFile, {Project}}
    /\ wal = {}
    /\ backups = {{Project}}
    /\ remote = {Project} \cup Theirs
    /\ journal = [o \in Ops |-> "none"]
    /\ candidate = [o \in Ops |-> NoFile]
    /\ linked = {}
    /\ session = [m \in Ops |-> "none"]
    /\ staged = [m \in Ops |-> NoFile]
    /\ ours = [m \in Ops |-> NoFile]
    /\ kind = [o \in Ops |-> "none"]
    /\ phase = "idle" /\ cmd = "none" /\ op = NoOp /\ source = NoFile

Begin(c, o, b, p) ==
    /\ phase = "idle"
    /\ phase' = p /\ cmd' = c /\ op' = o /\ source' = b

Step(p) == phase' = p /\ UNCHANGED <<cmd, op, source>>

\* The command ends and releases the lock.
Stop == phase' = "idle" /\ cmd' = "none" /\ op' = NoOp /\ source' = NoFile

----------------------------------------------------------------------------
(***************************************************************************)
(* Ordinary commands: recovery, then the work of the command.              *)
(***************************************************************************)
BeginWrite ==
    /\ Begin("write", NoOp, NoFile, "recover")
    /\ UNCHANGED <<db, elsewhere, files, merging, ours, kind>>

\* The database is missing: the journal's candidate takes its place.  (The
\* original is a second name of the database, so it cannot be all that is left.)
RecoverDatabase(o) ==
    /\ phase = "recover"
    /\ journal[o] = "prepared" /\ live = NoFile
    /\ Whole(candidate[o])
    /\ live' = candidate[o]
    /\ candidate' = [candidate EXCEPT ![o] = NoFile]
    /\ UNCHANGED <<wal, elsewhere, journal, linked, merging, ours, kind, command>>

RecoveryFails(o) ==
    /\ phase = "recover"
    /\ journal[o] = "prepared" /\ live = NoFile
    /\ ~Whole(candidate[o])
    /\ Stop
    /\ UNCHANGED <<db, elsewhere, files, merging, ours, kind>>

\* A completed project.restore journal names no files.
HasFiles(o) == candidate[o] # NoFile \/ o \in linked
NamesFiles(o) == journal[o] = "prepared" \/ kind[o] = "pull"

RecoverFiles(o) ==
    /\ phase = "recover"
    /\ journal[o] # "none" /\ live # NoFile
    /\ NamesFiles(o) /\ HasFiles(o)
    /\ candidate' = [candidate EXCEPT ![o] = NoFile]
    /\ linked' = linked \ {o}
    /\ UNCHANGED <<db, elsewhere, journal, merging, ours, kind, command>>

RecoverJournal(o) ==
    /\ phase = "recover"
    /\ journal[o] # "none" /\ (journal[o] = "completed" \/ live # NoFile)
    /\ NamesFiles(o) => ~HasFiles(o)
    /\ journal' = [journal EXCEPT ![o] = "none"]
    /\ UNCHANGED <<db, elsewhere, candidate, linked, merging, ours, kind, command>>

\* Opening creates and migrates a missing database; it has no project row then.
OpenDatabase ==
    /\ phase = "recover"
    /\ \A o \in Ops : journal[o] = "none"
    /\ live' = IF live = NoFile THEN {} ELSE live
    /\ Step("commit")
    /\ UNCHANGED <<wal, elsewhere, files, merging, ours, kind>>

\* One transaction commits.  It stays in the log when another connection is
\* open or the command dies, else the last connection checkpoints as it closes.
Commit(w) ==
    /\ phase = "commit" /\ Project \in Visible
    /\ w \notin Visible
    /\ \/ wal' = wal \cup {w} /\ live' = live
       \/ wal' = {} /\ live' = Visible \cup {w}
    /\ Stop
    /\ UNCHANGED <<elsewhere, files, merging, ours, kind>>

BackupProject ==
    /\ phase = "commit" /\ Project \in Visible
    /\ backups' = backups \cup {Visible}
    /\ Stop
    /\ UNCHANGED <<db, remote, files, merging, ours, kind>>

\* sync push: checkpoint, snapshot, publish by rename
Push ==
    /\ phase = "idle" /\ Usable
    /\ live' = Visible /\ wal' = {}
    /\ remote' = Visible
    /\ UNCHANGED <<backups, files, merging, ours, kind, command>>

----------------------------------------------------------------------------
(***************************************************************************)
(* Commands that replace the database.                                     *)
(***************************************************************************)
BeginRestore(o, b) ==
    /\ kind[o] = "none" /\ b \in backups
    /\ Begin("restore", o, b, "backup")
    /\ kind' = [kind EXCEPT ![o] = "restore"]
    /\ UNCHANGED <<db, elsewhere, files, merging, ours>>

BeginPull(o) ==
    /\ kind[o] = "none" /\ Usable
    /\ Begin("pull", o, NoFile, "backup")
    /\ kind' = [kind EXCEPT ![o] = "pull"]
    /\ UNCHANGED <<db, elsewhere, files, merging, ours>>

\* import --mode merge reads its own side, without the lock.
ReadOurs(m) ==
    /\ kind[m] = "none" /\ ~SessionActive /\ Usable
    /\ ours' = [ours EXCEPT ![m] = Visible]
    /\ kind' = [kind EXCEPT ![m] = "merge"]
    /\ UNCHANGED <<db, elsewhere, files, merging, command>>

BeginMerge(m) ==
    /\ ours[m] # NoFile /\ ~SessionActive
    /\ Begin("merge", m, NoFile, "build")
    /\ UNCHANGED <<db, elsewhere, files, merging, ours, kind>>

MergeRefused(m) ==
    /\ phase = "idle"
    /\ ours[m] # NoFile /\ SessionActive
    /\ ours' = [ours EXCEPT ![m] = NoFile]
    /\ UNCHANGED <<db, elsewhere, files, merging, kind, command>>

BuildCandidate ==
    /\ phase = "build"
    /\ candidate' = [candidate EXCEPT ![op] = (ours[op] \ Unpacked) \cup Theirs]
    /\ ours' = [ours EXCEPT ![op] = NoFile]
    /\ Step("stage") \/ Step("finish")
    /\ UNCHANGED <<db, elsewhere, journal, linked, merging, kind>>

\* The merge has conflicts: its candidate moves to the session directory ...
StageSession ==
    /\ phase = "stage"
    /\ staged' = [staged EXCEPT ![op] = candidate[op]]
    /\ candidate' = [candidate EXCEPT ![op] = NoFile]
    /\ session' = [session EXCEPT ![op] = "partial"]
    /\ Step("open")
    /\ UNCHANGED <<db, elsewhere, journal, linked, ours, kind>>

\* ... and merge.json, written last, makes the session active.
OpenSession ==
    /\ phase = "open"
    /\ session' = [session EXCEPT ![op] = "open"]
    /\ Stop
    /\ UNCHANGED <<db, elsewhere, files, staged, ours, kind>>

\* append_merge_events
FinishCandidate ==
    /\ phase = "finish"
    /\ candidate' = [candidate EXCEPT ![op] = @ \cup {op}]
    /\ Step("backup")
    /\ UNCHANGED <<db, elsewhere, journal, linked, merging, ours, kind>>

\* A merge fails before its journal: its files go, but for the candidate of a
\* failed transaction of events.
MergeFails ==
    /\ cmd = "merge" /\ phase \in {"build", "stage", "open", "finish", "backup", "journal"}
    /\ \/ candidate' = [candidate EXCEPT ![op] = NoFile]
       \/ phase = "finish" /\ candidate' = candidate
    /\ session' = [session EXCEPT ![op] = "none"]
    /\ staged' = [staged EXCEPT ![op] = NoFile]
    /\ ours' = [ours EXCEPT ![op] = NoFile]
    /\ Stop
    /\ UNCHANGED <<db, elsewhere, journal, linked, kind>>

\* Faulty variant of BeginApply: the live database is not asked for the merge.
BeginApplyAgain(m) ==
    /\ session[m] \in Actionable /\ live # NoFile
    /\ Begin("apply", m, NoFile, "copy")
    /\ candidate' = [candidate EXCEPT ![m] = NoFile]
    /\ UNCHANGED <<db, elsewhere, journal, linked, merging, ours, kind>>

BeginApply(m) ==
    /\ session[m] \in Actionable /\ live # NoFile
    /\ m \notin Visible
    /\ Begin("apply", m, NoFile, "copy")
    /\ candidate' = [candidate EXCEPT ![m] = NoFile]
    /\ UNCHANGED <<db, elsewhere, journal, linked, merging, ours, kind>>

\* The copy of the staged candidate, with resolutions and events committed.
CopyStaged ==
    /\ cmd = "apply" /\ phase = "copy"
    /\ staged[op] # NoFile
    /\ candidate' = [candidate EXCEPT ![op] = staged[op] \cup {op}]
    /\ Step("backup")
    /\ UNCHANGED <<db, elsewhere, journal, linked, merging, ours, kind>>

ApplyFails ==
    /\ cmd = "apply" /\ phase \in {"copy", "backup", "journal"}
    /\ candidate' = [candidate EXCEPT ![op] = NoFile]
    /\ Stop
    /\ UNCHANGED <<db, elsewhere, journal, linked, merging, ours, kind>>

BeginAbort(m) ==
    /\ session[m] \in Actionable
    /\ Begin("abort", m, NoFile, "sweep")
    /\ UNCHANGED <<db, elsewhere, files, merging, ours, kind>>

----------------------------------------------------------------------------
(***************************************************************************)
(* The swap.                                                               *)
(***************************************************************************)

\* Faulty variant of Backup: the database is not checkpointed.
BackupOnly ==
    /\ phase = "backup" /\ Usable
    /\ backups' = backups \cup {Visible}
    /\ Step("journal")
    /\ UNCHANGED <<db, remote, files, merging, ours, kind>>

\* Faulty variant of Backup: the backup is a copy of the main file alone.
BackupMainFile ==
    /\ phase = "backup" /\ Usable
    /\ backups' = backups \cup {live}
    /\ live' = Visible /\ wal' = {}
    /\ Step("journal")
    /\ UNCHANGED <<remote, files, merging, ours, kind>>

\* The pre-operation backup, then the checkpoint of the database.
Backup ==
    /\ phase = "backup" /\ Usable
    /\ backups' = backups \cup {Visible}
    /\ live' = Visible /\ wal' = {}
    /\ Step("journal")
    /\ UNCHANGED <<remote, files, merging, ours, kind>>

\* A restore may find no database.
BackupNothing ==
    /\ phase = "backup" /\ cmd = "restore" /\ live = NoFile
    /\ Step("journal")
    /\ UNCHANGED <<db, elsewhere, files, merging, ours, kind>>

WriteJournal ==
    /\ phase = "journal"
    /\ journal' = [journal EXCEPT ![op] = "prepared"]
    /\ Step(IF cmd \in Swaps THEN "link" ELSE "copy")
    /\ UNCHANGED <<db, elsewhere, candidate, linked, merging, ours, kind>>

CopyBackup ==
    /\ cmd = "restore" /\ phase = "copy"
    /\ candidate' = [candidate EXCEPT ![op] = source]
    /\ Step("link")
    /\ UNCHANGED <<db, elsewhere, journal, linked, merging, ours, kind>>

CopyRemote ==
    /\ cmd = "pull" /\ phase = "copy"
    /\ candidate' = [candidate EXCEPT ![op] = remote]
    /\ Step("link")
    /\ UNCHANGED <<db, elsewhere, journal, linked, merging, ours, kind>>

\* The hard link to the original; it fails when the name is taken.
Link ==
    /\ phase = "link"
    /\ op \notin linked
    /\ linked' = IF live = NoFile THEN linked ELSE linked \cup {op}
    /\ Step("rename")
    /\ UNCHANGED <<db, elsewhere, journal, candidate, merging, ours, kind>>

Rename ==
    /\ phase = "rename"
    /\ live' = candidate[op]
    /\ candidate' = [candidate EXCEPT ![op] = NoFile]
    /\ Step(IF cmd = "pull" THEN "complete" ELSE "unlink")
    /\ UNCHANGED <<wal, elsewhere, journal, linked, merging, ours, kind>>

\* commit_swap fails: the original stays if it was the link that failed.
SwapFails ==
    /\ cmd \in Swaps /\ phase \in {"link", "rename"}
    /\ linked' = IF phase = "rename" THEN linked \ {op} ELSE linked
    /\ journal' = [journal EXCEPT ![op] = "none"]
    /\ candidate' = [candidate EXCEPT ![op] = NoFile]
    /\ Stop
    /\ UNCHANGED <<db, elsewhere, merging, ours, kind>>

\* A failing restore leaves its journal to the recovery.
RestoreFails ==
    /\ cmd = "restore" /\ phase \in {"copy", "link", "rename"}
    /\ linked' = IF phase = "rename" THEN linked \ {op} ELSE linked
    /\ candidate' = [candidate EXCEPT ![op] = NoFile]
    /\ Stop
    /\ UNCHANGED <<db, elsewhere, journal, merging, ours, kind>>

PullFails ==
    /\ cmd = "pull" /\ phase \in {"copy", "link", "rename"}
    /\ candidate' = [candidate EXCEPT ![op] = NoFile]
    /\ linked' = linked \ {op}
    /\ journal' = [journal EXCEPT ![op] = "none"]
    /\ Stop
    /\ UNCHANGED <<db, elsewhere, merging, ours, kind>>

\* The original goes; a merge removes the log's files once more.
Unlink ==
    /\ phase = "unlink"
    /\ linked' = linked \ {op}
    /\ wal' = IF cmd \in Swaps THEN {} ELSE wal
    /\ Step(IF cmd = "pull" THEN "retire" ELSE "complete")
    /\ UNCHANGED <<live, elsewhere, journal, candidate, merging, ours, kind>>

CompleteJournal ==
    /\ phase = "complete"
    /\ journal' = [journal EXCEPT ![op] = "completed"]
    /\ Step(IF cmd = "pull" THEN "unlink" ELSE "retire")
    /\ UNCHANGED <<db, elsewhere, candidate, linked, merging, ours, kind>>

RetireJournal ==
    /\ phase = "retire"
    /\ journal' = [journal EXCEPT ![op] = "none"]
    /\ IF cmd = "apply" THEN Step("mark") ELSE Stop
    /\ UNCHANGED <<db, elsewhere, candidate, linked, merging, ours, kind>>

\* mark_session_applied, best effort
MarkApplied ==
    /\ phase = "mark"
    /\ \/ session' = [session EXCEPT ![op] = "applied"]
       \/ session' = session
    /\ Step("sweep")
    /\ UNCHANGED <<db, elsewhere, files, staged, ours, kind>>

RemoveSession ==
    /\ phase = "sweep"
    /\ session' = [session EXCEPT ![op] = "none"]
    /\ staged' = [staged EXCEPT ![op] = NoFile]
    /\ Stop
    /\ UNCHANGED <<db, elsewhere, files, ours, kind>>

----------------------------------------------------------------------------
\* The command dies, or fails at a step whose failure cleans nothing up.  A
\* file may be left half written and a directory half removed.
Crash ==
    /\ phase # "idle"
    /\ Stop
    /\ \/ candidate' = candidate
       \/ phase \in {"build", "copy"} /\ candidate' = [candidate EXCEPT ![op] = Torn]
    /\ \/ UNCHANGED merging
       \/ /\ phase = "sweep"
          /\ staged' = [staged EXCEPT ![op] = NoFile]
          /\ session' = [session EXCEPT ![op] = IF @ = "applied" THEN @ ELSE "dying"]
       \/ /\ phase = "sweep"
          /\ UNCHANGED staged
          /\ session' = [session EXCEPT ![op] = "partial"]
    /\ ours' = IF phase = "build" THEN [ours EXCEPT ![op] = NoFile] ELSE ours
    /\ UNCHANGED <<db, elsewhere, journal, linked, kind>>

Ordinary ==
    \/ BeginWrite
    \/ \E o \in Ops : \/ RecoverDatabase(o) \/ RecoveryFails(o)
                      \/ RecoverFiles(o) \/ RecoverJournal(o)
    \/ OpenDatabase
    \/ \E w \in Writes : Commit(w)
    \/ BackupProject \/ Push

Merge ==
    \/ \E m \in Ops : ReadOurs(m) \/ BeginMerge(m) \/ MergeRefused(m)
    \/ BuildCandidate \/ StageSession \/ OpenSession \/ FinishCandidate \/ MergeFails

Apply ==
    \/ \E m \in Ops : BeginApply(m) \/ BeginAbort(m)
    \/ CopyStaged \/ ApplyFails \/ MarkApplied \/ RemoveSession

Replace ==
    \/ \E o \in Ops : BeginPull(o) \/ \E b \in backups : BeginRestore(o, b)
    \/ Backup \/ BackupNothing \/ WriteJournal \/ CopyBackup \/ CopyRemote
    \/ Link \/ Rename \/ Unlink \/ CompleteJournal \/ RetireJournal
    \/ SwapFails \/ RestoreFails \/ PullFails

Next == Ordinary \/ Merge \/ Apply \/ Replace \/ Crash

Spec == Init /\ [][Next]_vars

----------------------------------------------------------------------------
(***************************************************************************)
(* Properties                                                              *)
(***************************************************************************)
\* The images that journals name.
Offered ==
    {candidate[o] : o \in {p \in Ops : journal[p] = "prepared" /\ candidate[p] \notin {NoFile, Torn}}}

Promised == INSTANCE Database WITH
    image <- Visible,
    kept <- backups,
    offered <- Offered

\* What a connection sees changes by one transaction, or becomes exactly a
\* candidate that a journal names, which is whole, when what it takes away is
\* among the backups: no crash, no recovery and no log left behind by an earlier
\* command mixes two images or puts an unfinished one in place.
ImplementsDatabase == Promised!Spec

ReplacesWhole ==
    Visible' # Visible =>
       \/ \E w \in Writes : Visible' = Visible \cup {w}
       \/ \E o \in Ops : journal[o] = "prepared" /\ Visible' = candidate[o]

\* No step mixes two images.
WholeReplacement == [][ReplacesWhole]_vars

LossSaved == ~(Visible \subseteq Visible') => Visible \in backups

\* Whatever a replacement takes out of the database, the image that held it is
\* among the backups, with all that was still in the log.
LossIsBackedUp == [][LossSaved]_vars

\* merge_conflict.rs:410: a staged candidate is never changed, so an apply that
\* died can be tried again; and it does not hold the event of its own merge.
OpenSessionWhole ==
    \A m \in Ops : session[m] = "open" => Whole(staged[m]) /\ m \notin staged[m]

\* However many merges read before any of them has the lock, one is staged.
OneActiveMerge ==
    \A m, n \in Ops : session[m] \in Actionable /\ session[n] \in Actionable => m = n

SwapsOnce ==
    phase = "rename" /\ phase' = "unlink" /\ cmd \in Swaps => op \notin Visible

\* A merge replaces the database at most once while the database records it,
\* also when the command dies between the rename and the mark on its session.
AppliedOnce == [][SwapsOnce]_vars

\* Every file a restore or a pull leaves beside the database is named by a
\* journal that recovery will go by.
LeftoversJournalled ==
    \A o \in Ops :
       kind[o] \in {"restore", "pull"} /\ HasFiles(o) => journal[o] # "none" /\ NamesFiles(o)

MergeKeeps ==
    phase = "rename" /\ phase' = "unlink" /\ cmd \in Swaps =>
       Visible \ Unpacked \subseteq Visible'

\* merge_import.rs:137: its own side is read "so no write can interleave before
\* staging".  A merge loses no write of a table that is part of a bundle.
MergeKeepsWrites == [][MergeKeeps]_vars

\* merge_conflict.rs:540: "an interrupted apply can be retried".  No attempt
\* meets a file of an earlier one at the name its link needs.
ApplyRetried == phase = "link" /\ cmd = "apply" => op \notin linked
=============================================================================
