--------------------------- MODULE ProjectIdentity ---------------------------
(***************************************************************************)
(* Which project a clone belongs to, and in which schema its database is   *)
(* (application/init, import, sync, project_mgmt; sqlite/database.rs).     *)
(*                                                                         *)
(* The identity of a project is kept in three places that no lock covers   *)
(* together: .carryctx/config.toml, which Git carries; the row of the      *)
(* table projects in state.sqlite; and the machine's registry of projects. *)
(* init writes all three one after the other, the first import of a bundle *)
(* does the same, and whole databases come in by import --mode replace,    *)
(* project restore and sync pull.  Each command holds the admission lock   *)
(* of its own clone, once it has it, and may fail or die at every step.    *)
(*                                                                         *)
(* A database is abstracted to its project rows, to the projects whose     *)
(* tasks it holds, and to its schema.  Left out: names and prefixes, the   *)
(* files of a swap and its journal (StateReplacement), what a bundle       *)
(* carries (Bundles), merges, and that a dead holder's lock has to be      *)
(* reclaimed (AdmissionLock).                                              *)
(***************************************************************************)
EXTENDS Naturals

CONSTANTS
    Clones,      \* the repositories of one machine that share a remote
                 \* directory and the place bundles are kept in
    Procs,
    Version,     \* the schema each process' binary brings along
    Ids,
    NoId,
    NoProc,
    NoClone,
    MaxCommands  \* bound: commands, and times Git changes a config.toml

ASSUME IdentityAssumption ==
    /\ NoId \notin Ids /\ NoProc \notin Procs /\ NoClone \notin Clones
    /\ Version \in [Procs -> Nat \ {0}]
    /\ MaxCommands \in Nat

VARIABLES
    config,    \* project.id of config.toml
    db,        \* state.sqlite
    saved,     \* the databases under backups/
    bundles,   \* what export wrote
    remote,    \* the database the remote directory publishes
    registry,  \* the projects of registry.json
    lock,      \* the admission lock of each clone
    cmd,       \* the command each process runs
    minted,    \* history: the ids given out
    moved,     \* history: the clones into which Git, a restore, a replacing
               \* import or a pull brought another identity
    started

outside == <<saved, bundles, remote>>
history == <<minted, moved, started>>
vars == <<config, db, outside, registry, lock, cmd, history>>

\* Schema 0 is a file that is not there yet.
Images == [rows: SUBSET Ids, work: SUBSET Ids, schema: Nat]

Blank == [rows |-> {}, work |-> {}, schema |-> 0]

Bundle == [id: Ids, work: BOOLEAN]

Locked == {"config", "open", "upgrade", "row", "load", "work",
           "backup", "copy", "swap", "register", "list"}

Commands == [at: {"idle", "ask"} \cup Locked,
             op: {"none", "init", "fresh", "replace", "restore", "pull", "work"},
             clone: Clones \cup {NoClone}, id: Ids \cup {NoId}, image: Images, listed: SUBSET Ids]

TypeOK ==
    /\ config \in [Clones -> Ids \cup {NoId}]
    /\ db \in [Clones -> Images]
    /\ saved \subseteq Images /\ bundles \subseteq Bundle /\ remote \in Images
    /\ registry \subseteq Ids
    /\ lock \in [Clones -> Procs \cup {NoProc}]
    /\ cmd \in [Procs -> Commands]
    /\ minted \subseteq Ids /\ moved \subseteq Clones
    /\ started \in 0..MaxCommands

\* sqlite/database.rs validate_schema_compatibility
Understands(p, image) == image.schema <= Version[p]

One(rows) == \E i \in rows : rows = {i}

\* A bug the validation could have: any schema will do.
SoundAnySchema(p, image) == image.schema # 0 /\ One(image.rows)

\* project_mgmt.rs validate_database
Sound(p, image) == image.schema # 0 /\ One(image.rows) /\ Understands(p, image)

At(p, step) == cmd[p].at = step

Here(p) == cmd[p].clone

Begin(p, c, op, step, i, image) ==
    /\ At(p, "idle") /\ started < MaxCommands
    /\ started' = started + 1
    /\ cmd' = [cmd EXCEPT ![p] = [at |-> step, op |-> op, clone |-> c, id |-> i,
                                  image |-> image, listed |-> {}]]

Acquire(p, c) == lock[c] = NoProc /\ lock' = [lock EXCEPT ![c] = p]

Goto(p, step) == cmd' = [cmd EXCEPT ![p].at = step]

Idle == [at |-> "idle", op |-> "none", clone |-> NoClone, id |-> NoId,
         image |-> Blank, listed |-> {}]

\* A command ends and lets go of its lock.
End(p) ==
    /\ cmd' = [cmd EXCEPT ![p] = Idle]
    /\ lock' = [c \in Clones |-> IF lock[c] = p THEN NoProc ELSE lock[c]]

Free(c) == lock[c] = NoProc

-----------------------------------------------------------------------------
(* init and the first import *)

\* Faulty variant of InitIdentity: only config.toml is asked.
InitIdentityOfConfig(c, force) ==
    IF config[c] # NoId THEN {config[c]} ELSE Ids \ minted

\* The id a new or a forced initialisation takes: the one config.toml has,
\* else the one the database has, else a new one.
InitIdentity(c, force) ==
    IF config[c] # NoId THEN {config[c]}
    ELSE IF force /\ db[c].rows # {} THEN db[c].rows
    ELSE Ids \ minted

InitProject(p, c, force) ==
    /\ db[c].rows = {} \/ force
    /\ \E i \in InitIdentity(c, force) :
          /\ Begin(p, c, "init", "config", i, Blank)
          /\ minted' = minted \cup {i}
    /\ Acquire(p, c)
    /\ UNCHANGED <<config, db, outside, registry, moved>>

\* What a bare import looks at before it has the lock.
MayImport(c, b) == db[c].rows = {} /\ config[c] \in {NoId, b.id}

\* The database import builds of a bundle.
Loaded(p, b) == [rows |-> {b.id}, work |-> IF b.work THEN {b.id} ELSE {},
                 schema |-> Version[p]]

AskFresh(p, c) ==
    /\ \E b \in bundles : MayImport(c, b) /\ Begin(p, c, "fresh", "ask", b.id, Loaded(p, b))
    /\ UNCHANGED <<config, db, outside, registry, lock, minted, moved>>

\* A bug a first import could have: nothing is looked at again.
StillEmptyUnchecked(p) == TRUE

\* The database is looked at again, config.toml is not.
StillEmpty(p) == db[Here(p)].rows = {}

LockFresh(p) ==
    /\ At(p, "ask") /\ cmd[p].op = "fresh"
    /\ Acquire(p, Here(p))
    /\ StillEmpty(p)
    /\ Goto(p, "config")
    /\ UNCHANGED <<config, db, outside, registry, history>>

WriteConfig(p) ==
    /\ At(p, "config")
    /\ config' = [config EXCEPT ![Here(p)] = cmd[p].id]
    /\ Goto(p, "open")
    /\ UNCHANGED <<db, outside, registry, lock, history>>

\* A bug init could have: INSERT OR REPLACE deletes what hangs on the row.
UpsertReplacing(image, i) ==
    [image EXCEPT !.rows = image.rows \cup {i}, !.work = image.work \ {i}]

\* INSERT ... ON CONFLICT(id) DO UPDATE: no row is ever deleted.
Upsert(image, i) == [image EXCEPT !.rows = image.rows \cup {i}]

CreateRow(p) ==
    /\ At(p, "row")
    /\ db' = [db EXCEPT ![Here(p)] = Upsert(db[Here(p)], cmd[p].id)]
    /\ Goto(p, "register")
    /\ UNCHANGED <<config, outside, registry, lock, history>>

Filled(image, b) == [image EXCEPT !.rows = image.rows \cup b.rows,
                                  !.work = image.work \cup b.work]

\* load_bundle_into_db: one transaction.
Load(p) ==
    /\ At(p, "load")
    /\ db' = [db EXCEPT ![Here(p)] = Filled(db[Here(p)], cmd[p].image)]
    /\ Goto(p, "register")
    /\ UNCHANGED <<config, outside, registry, lock, history>>

\* registry.json is read and written under no lock of its own: init in two
\* clones holds two admission locks.
ReadRegistry(p) ==
    /\ At(p, "register")
    /\ cmd' = [cmd EXCEPT ![p].at = "list", ![p].listed = registry]
    /\ UNCHANGED <<config, db, outside, registry, lock, history>>

WriteRegistry(p) ==
    /\ At(p, "list")
    /\ registry' = cmd[p].listed \cup {cmd[p].id}
    /\ End(p)
    /\ UNCHANGED <<config, db, outside, history>>

-----------------------------------------------------------------------------
(* Every other command opens the database and brings it to its own schema *)

Work(p, c) ==
    /\ Begin(p, c, "work", "open", NoId, Blank)
    /\ Acquire(p, c)
    /\ UNCHANGED <<config, db, outside, registry, minted, moved>>

Opened(p) == IF cmd[p].op = "init" THEN "row"
             ELSE IF cmd[p].op = "fresh" THEN "load" ELSE "work"

\* A schema to upgrade is backed up first, a new file has nothing to back up.
Open(p) ==
    LET image == db[Here(p)]
        old == image.schema # 0 /\ image.schema < Version[p]
    IN  /\ At(p, "open") /\ Understands(p, image)
        /\ saved' = IF old THEN saved \cup {image} ELSE saved
        /\ Goto(p, IF image.schema = Version[p] THEN Opened(p) ELSE "upgrade")
        /\ UNCHANGED <<config, db, bundles, remote, registry, lock, history>>

Upgrade(p) ==
    /\ At(p, "upgrade")
    /\ db' = [db EXCEPT ![Here(p)].schema = Version[p]]
    /\ Goto(p, Opened(p))
    /\ UNCHANGED <<config, outside, registry, lock, history>>

Commit(p) ==
    /\ At(p, "work")
    /\ \E i \in db[Here(p)].rows : db' = [db EXCEPT ![Here(p)].work = @ \cup {i}]
    /\ End(p)
    /\ UNCHANGED <<config, outside, registry, history>>

\* Like a commit, export runs in the runtime, which has upgraded the schema.
Export(p) ==
    /\ At(p, "work") /\ One(db[Here(p)].rows)
    /\ bundles' = bundles \cup
          {[id |-> i, work |-> i \in db[Here(p)].work] : i \in db[Here(p)].rows}
    /\ End(p)
    /\ UNCHANGED <<config, db, saved, remote, registry, history>>

-----------------------------------------------------------------------------
(* Databases that come in whole *)

AskReplace(p, c) ==
    /\ db[c].rows # {}
    /\ \E b \in bundles : Begin(p, c, "replace", "ask", b.id, Loaded(p, b))
    /\ UNCHANGED <<config, db, outside, registry, lock, minted, moved>>

LockReplace(p) ==
    /\ At(p, "ask") /\ cmd[p].op = "replace"
    /\ Acquire(p, Here(p))
    /\ Goto(p, "backup")
    /\ UNCHANGED <<config, db, outside, registry, history>>

\* Any file may be given: the backups of another clone are backups too.
StartRestore(p, c) ==
    /\ \E image \in saved : Sound(p, image) /\ Begin(p, c, "restore", "backup", NoId, image)
    /\ Acquire(p, c)
    /\ UNCHANGED <<config, db, outside, registry, minted, moved>>

\* The published database is checked where it lies.
SameProject(p, c) ==
    Sound(p, remote) /\ \E i \in db[c].rows : remote.rows = {i}

StartPull(p, c) ==
    /\ SameProject(p, c)
    /\ Begin(p, c, "pull", "backup", NoId, Blank)
    /\ Acquire(p, c)
    /\ UNCHANGED <<config, db, outside, registry, minted, moved>>

\* The current database goes under backups/ and has to be sound itself;
\* restore alone does without when there is no database.
Backup(p) ==
    LET image == db[Here(p)]
        needed == cmd[p].op # "restore" \/ image.schema # 0
    IN  /\ At(p, "backup")
        /\ needed => Sound(p, image)
        /\ saved' = IF needed THEN saved \cup {image} ELSE saved
        /\ Goto(p, IF cmd[p].op = "pull" THEN "copy" ELSE "swap")
        /\ UNCHANGED <<config, db, bundles, remote, registry, lock, history>>

\* fs::copy of what the remote publishes by now; whose it is, is not looked
\* at again.
Copy(p) ==
    /\ At(p, "copy") /\ Sound(p, remote)
    /\ cmd' = [cmd EXCEPT ![p].image = remote, ![p].at = "swap"]
    /\ UNCHANGED <<config, db, outside, registry, lock, history>>

\* Neither config.toml nor the registry follows.
Swap(p) ==
    /\ At(p, "swap")
    /\ db' = [db EXCEPT ![Here(p)] = cmd[p].image]
    /\ moved' = IF cmd[p].image.rows = db[Here(p)].rows THEN moved ELSE moved \cup {Here(p)}
    /\ End(p)
    /\ UNCHANGED <<config, outside, registry, minted, started>>

\* Every clone publishes under the name of its Git directory, ".git.sqlite".
Push(p, c) ==
    /\ At(p, "idle") /\ Free(c)
    /\ Sound(p, db[c])
    /\ remote' = db[c]
    /\ UNCHANGED <<config, db, saved, bundles, registry, lock, cmd, history>>

-----------------------------------------------------------------------------
(* What happens to them *)

\* The command fails, or dies; the write of registry.json is no atomic one.
Stop(p) ==
    /\ ~At(p, "idle")
    /\ registry' \in IF At(p, "list") THEN {registry, {}} ELSE {registry}
    /\ End(p)
    /\ UNCHANGED <<config, db, outside, history>>

\* Git brings a config.toml or takes it away.  It brings another identity
\* unless the clone has none, or has this one, and nobody is about to write.
Checkout(c, i) ==
    /\ i # config[c] /\ i \in minted \cup {NoId}
    /\ started < MaxCommands /\ started' = started + 1
    /\ config' = [config EXCEPT ![c] = i]
    /\ moved' = IF i = NoId \/ (Free(c) /\ db[c].rows \subseteq {i})
                THEN moved ELSE moved \cup {c}
    /\ UNCHANGED <<db, outside, registry, lock, cmd, minted>>

Init ==
    /\ config = [c \in Clones |-> NoId] /\ db = [c \in Clones |-> Blank]
    /\ saved = {} /\ bundles = {} /\ remote = Blank /\ registry = {}
    /\ lock = [c \in Clones |-> NoProc] /\ cmd = [p \in Procs |-> Idle]
    /\ minted = {} /\ moved = {} /\ started = 0

Begins(p, c) ==
    \/ \E force \in BOOLEAN : InitProject(p, c, force)
    \/ AskFresh(p, c)
    \/ Work(p, c)
    \/ AskReplace(p, c)
    \/ StartRestore(p, c)
    \/ StartPull(p, c)
    \/ Push(p, c)

Steps(p) ==
    \/ LockFresh(p)
    \/ WriteConfig(p)
    \/ Open(p)
    \/ Upgrade(p)
    \/ CreateRow(p)
    \/ Load(p)
    \/ ReadRegistry(p)
    \/ WriteRegistry(p)
    \/ Commit(p)
    \/ Export(p)
    \/ LockReplace(p)
    \/ Backup(p)
    \/ Copy(p)
    \/ Swap(p)
    \/ Stop(p)

Next ==
    \/ \E p \in Procs : Steps(p) \/ \E c \in Clones : Begins(p, c)
    \/ \E c \in Clones, i \in Ids \cup {NoId} : Checkout(c, i)

Spec == Init /\ [][Next]_vars

-----------------------------------------------------------------------------
(* Properties *)

\* While nothing brought another identity into a clone, its database has at
\* most one project, and it is the one of config.toml: not after any number
\* of initialisations, forced or not, that crashed anywhere, nor with a
\* first import that found the clone empty before another command filled it.
OneIdentity ==
    \A c \in Clones \ moved :
        /\ \A i, j \in db[c].rows : i = j
        /\ config[c] # NoId /\ db[c].rows # {} => config[c] \in db[c].rows

\* A database whose tasks disappear or whose schema changes is kept under
\* backups/ as it was: init and the upgrade of a schema lose nothing, and
\* no restore, pull or replacing import is final.
ImageKept ==
    [][\A c \in Clones :
          db[c].schema # 0
              /\ (db'[c].schema # db[c].schema \/ ~ (db[c].work \subseteq db'[c].work))
            => db[c] \in saved]_vars

\* A binary never writes into, upgrades or replaces a database whose schema
\* is newer than its own, even one a newer binary upgraded in between.
NeverTouchesNewer ==
    [][\A c \in Clones : db'[c] # db[c] =>
          lock[c] # NoProc /\ Understands(lock[c], db[c])]_vars

\* Refuted.  sync pull never changes the project of a clone.
PullKeepsProject ==
    [][\A p \in Procs : At(p, "swap") /\ cmd[p].op = "pull" =>
          db'[Here(p)].rows = db[Here(p)].rows]_vars

\* Refuted.  A database has at most one project row.
OneProject == \A c \in Clones : \A i, j \in db[c].rows : i = j

\* Refuted.  The first import of a bundle never changes the identity that
\* config.toml has.
ImportKeepsConfig ==
    [][\A p \in Procs :
          At(p, "config") /\ cmd[p].op = "fresh" /\ config[Here(p)] # NoId /\ cmd' # cmd
            => config'[Here(p)] = config[Here(p)]]_vars

\* Refuted.  No project the registry lists drops out of it.
RegistryKept == [][registry \subseteq registry']_vars

=============================================================================
