------------------------------ MODULE GitHooks ------------------------------
(***************************************************************************)
(* The hook files CarryCtx keeps in .git/hooks (commands/hooks.rs): what   *)
(* hooks install and hooks uninstall make of the files other tools and     *)
(* people put there, file operation by file operation, with a crash        *)
(* between any two.                                                        *)
(*                                                                         *)
(* A hook file is abstracted to what the code tells apart, and to whose    *)
(* body it holds.  A composition is a file with the marker of the foreign  *)
(* part and a dispatch call: "composed" with the current shim text in it,  *)
(* "stale" with another one.  "edited" is any other file with the marker   *)
(* CarryCtx that is neither the shim nor the retired hook: a shim somebody *)
(* changed, or a composition whose dispatch call somebody took out.        *)
(*                                                                         *)
(* Left out: permissions, messages, the manager a foreign hook belongs to, *)
(* a composition whose foreign part is empty or lacks its end marker, and  *)
(* the commits that run the hooks (WorkContext).                           *)
(***************************************************************************)
EXTENDS Naturals

CONSTANTS
    Bodies,         \* the hooks other tools and people write
    NoBody,
    RenameMayFail,  \* a rename whose result nobody looks at fails
    Racing,         \* people change the files while a command runs
    MaxEdits        \* bound: how often they do

ASSUME HookAssumption ==
    /\ NoBody \notin Bodies /\ MaxEdits \in Nat
    /\ RenameMayFail \in BOOLEAN /\ Racing \in BOOLEAN

VARIABLES
    file,   \* .git/hooks/<hook>
    bak,    \* .git/hooks/<hook>.bak
    cmd,    \* the command that runs, its flags and what it still has to do
    edits

vars == <<file, bak, cmd, edits>>

Hooks == {"post-commit", "prepare-commit-msg"}

\* exact: the body is there byte for byte
Content == [kind: {"absent", "shim", "legacy"}, body: {NoBody}, exact: BOOLEAN]
               \cup [kind: {"foreign", "composed", "stale", "edited"}, body: Bodies, exact: BOOLEAN]

Ours(kind) == [kind |-> kind, body |-> NoBody, exact |-> TRUE]

Theirs(kind, b, exact) == [kind |-> kind, body |-> b, exact |-> exact]

Absent == Ours("absent")

Commands == [op: {"none", "install", "uninstall"}, force: BOOLEAN, compose: BOOLEAN,
             restore: BOOLEAN, names: SUBSET Hooks, todo: SUBSET Hooks,
             writes: BOOLEAN, out: Content]

Nobody == [op |-> "none", force |-> FALSE, compose |-> FALSE, restore |-> FALSE,
           names |-> {}, todo |-> {}, writes |-> FALSE, out |-> Absent]

TypeOK ==
    /\ file \in [Hooks -> Content] /\ bak \in [Hooks -> Content]
    /\ cmd \in Commands
    /\ edits \in 0..MaxEdits

----------------------------------------------------------------------------
\* The content has the marker CarryCtx.
Managed(c) == c.kind \in {"shim", "legacy", "edited", "composed", "stale"}

\* The content has the marker of the foreign part and a dispatch call.
Composition(c) == c.kind \in {"composed", "stale"}

\* Faulty variant of UpToDate: the shim alone.
UpToDateShim(c) == c.kind = "shim"

\* Faulty variant of UpToDate: the retired hook as well.
UpToDateLegacy(c) == c.kind \in {"shim", "composed", "legacy"}

\* What an install without flags leaves as it is: the current shim, alone or in a
\* composition.
UpToDate(c) == c.kind \in {"shim", "composed"}

Plain == ~cmd.force /\ ~cmd.compose

\* The file is renamed to the backup: without --force only into a free place.
\* --force displaces a composition as well, --compose or not.
SetsAside(n) ==
    \/ file[n].kind = "foreign" /\ cmd.force /\ ~cmd.compose
    \/ Managed(file[n]) /\ cmd.force
    \/ Managed(file[n]) /\ Plain /\ ~UpToDate(file[n]) /\ bak[n] = Absent

\* The file is replaced where it is.
WritesOver(n) ==
    \/ file[n].kind = "absent"
    \/ Managed(file[n]) /\ Plain /\ ~UpToDate(file[n]) /\ bak[n] # Absent
    \/ file[n].kind \in {"shim", "legacy", "edited"} /\ cmd.compose /\ ~cmd.force

\* Foreign first, then the shim.  Composing again trims the body.
Composes(n) == file[n].kind = "foreign" /\ cmd.compose

Recomposes(n) == Composition(file[n]) /\ cmd.compose /\ ~cmd.force

----------------------------------------------------------------------------
\* names: with --post-commit-only, or without
StartInstall(force, compose, names) ==
    /\ cmd = Nobody
    /\ cmd' = [Nobody EXCEPT !.op = "install", !.force = force, !.compose = compose,
                             !.names = names, !.todo = names]
    /\ UNCHANGED <<file, bak, edits>>

StartUninstall(restore) ==
    /\ cmd = Nobody
    /\ cmd' = [Nobody EXCEPT !.op = "uninstall", !.restore = restore,
                             !.names = Hooks, !.todo = Hooks]
    /\ UNCHANGED <<file, bak, edits>>

\* The loop goes over the hooks in this order, and looks at a file that it is
\* not about to write.
Looks(n) ==
    /\ n \in cmd.todo /\ ~cmd.writes
    /\ "post-commit" \in cmd.todo => n = "post-commit"

Continue(n) ==
    /\ cmd' = [cmd EXCEPT !.todo = @ \ {n}]
    /\ UNCHANGED edits

GoWrite(content) ==
    /\ cmd' = [cmd EXCEPT !.writes = TRUE, !.out = content]
    /\ UNCHANGED edits

\* HOOK_EXISTS: the command ends, and keeps what it did for the hook before.
Refuse(n) ==
    /\ cmd.op = "install" /\ Looks(n)
    /\ file[n].kind = "foreign" /\ Plain
    /\ cmd' = Nobody
    /\ UNCHANGED <<file, bak, edits>>

Skip(n) ==
    /\ Looks(n)
    /\ IF cmd.op = "install" THEN Plain /\ UpToDate(file[n]) ELSE ~Managed(file[n])
    /\ Continue(n)
    /\ UNCHANGED <<file, bak>>

\* fs::rename(..).ok()
SetAside(n) ==
    /\ cmd.op = "install" /\ Looks(n) /\ SetsAside(n)
    /\ \/ bak' = [bak EXCEPT ![n] = file[n]] /\ file' = [file EXCEPT ![n] = Absent]
       \/ RenameMayFail /\ UNCHANGED <<file, bak>>
    /\ GoWrite(Ours("shim"))

Install(n) ==
    /\ cmd.op = "install" /\ Looks(n)
    /\ \/ WritesOver(n) /\ GoWrite(Ours("shim"))
       \/ Composes(n) /\ GoWrite(Theirs("composed", file[n].body, file[n].exact))
       \/ Recomposes(n) /\ GoWrite(Theirs("composed", file[n].body, FALSE))
    /\ UNCHANGED <<file, bak>>

\* A composition gives its foreign body back, trimmed, and ignores the backup.
Uninstall(n) ==
    /\ cmd.op = "uninstall" /\ Looks(n) /\ Managed(file[n])
    /\ \/ Composition(file[n]) /\ GoWrite(Theirs("foreign", file[n].body, FALSE))
       \/ /\ ~Composition(file[n]) /\ ~(cmd.restore /\ bak[n] # Absent)
          /\ GoWrite(Absent)
    /\ UNCHANGED <<file, bak>>

\* fs::rename(..).ok()
Restore(n) ==
    /\ cmd.op = "uninstall" /\ Looks(n) /\ Managed(file[n])
    /\ ~Composition(file[n]) /\ cmd.restore /\ bak[n] # Absent
    /\ \/ file' = [file EXCEPT ![n] = bak[n]] /\ bak' = [bak EXCEPT ![n] = Absent]
       \/ RenameMayFail /\ UNCHANGED <<file, bak>>
    /\ Continue(n)

\* write_atomic, or remove_file
Write(n) ==
    /\ n \in cmd.todo /\ cmd.writes
    /\ "post-commit" \in cmd.todo => n = "post-commit"
    /\ file' = [file EXCEPT ![n] = cmd.out]
    /\ cmd' = [cmd EXCEPT !.todo = @ \ {n}, !.writes = FALSE, !.out = Absent]
    /\ UNCHANGED <<bak, edits>>

Finish == cmd # Nobody /\ cmd.todo = {} /\ cmd' = Nobody /\ UNCHANGED <<file, bak, edits>>

Crash == cmd # Nobody /\ cmd' = Nobody /\ UNCHANGED <<file, bak, edits>>

\* What a person makes of a hook of CarryCtx: the shim changed, the shim in a
\* composition changed, or its dispatch call taken out.
Reworked(c) ==
    CASE c.kind = "shim" -> {Theirs("edited", b, TRUE) : b \in Bodies}
      [] Composition(c)  -> {Theirs(kind, c.body, c.exact) : kind \in {"stale", "edited"}}
      [] OTHER           -> {}

\* lefthook, husky or a person writes the hook, removes it or changes ours.
People(n) ==
    /\ edits < MaxEdits /\ (Racing \/ cmd = Nobody)
    /\ \E c \in {Absent} \cup {Theirs("foreign", b, TRUE) : b \in Bodies} \cup Reworked(file[n]) :
           file' = [file EXCEPT ![n] = c]
    /\ edits' = edits + 1
    /\ UNCHANGED <<bak, cmd>>

\* A repository without CarryCtx hooks, or with those of an old version.
Init ==
    /\ file \in [Hooks -> {Absent, Ours("legacy")} \cup {Theirs("foreign", b, TRUE) : b \in Bodies}]
    /\ bak = [n \in Hooks |-> Absent]
    /\ cmd = Nobody
    /\ edits = 0

Next ==
    \/ \E force, compose \in BOOLEAN, names \in {Hooks, {"post-commit"}} :
          StartInstall(force, compose, names)
    \/ \E restore \in BOOLEAN : StartUninstall(restore)
    \/ \E n \in Hooks : \/ Refuse(n) \/ Skip(n) \/ SetAside(n) \/ Install(n)
                        \/ Uninstall(n) \/ Restore(n) \/ Write(n)
                        \/ People(n)
    \/ Finish
    \/ Crash

Spec == Init /\ [][Next]_vars

----------------------------------------------------------------------------
(***************************************************************************)
(* Properties                                                              *)
(***************************************************************************)
Holds(c, b) == (c.kind = "foreign" \/ Composition(c)) /\ c.body = b

Kept(n, b) == Holds(file[n], b) \/ Holds(bak[n], b)

LosesForeign(n, b) == Kept(n, b) /\ ~Kept(n, b)'

\* An install without flags over a composition with another shim, whose backup
\* place is taken or whose rename failed: the shim is written in its place.
OverwritesStale(n) ==
    /\ cmd.op = "install" /\ Plain /\ file[n].kind = "stale"
    /\ bak[n] = Absent => RenameMayFail

\* Whatever sequence of installs, uninstalls and crashes a hook goes through,
\* its foreign body is in the hook file or in the backup until an install with
\* --force, an install over a composition with another shim that has no way to
\* the backup, or somebody else takes it away.
ForeignKept ==
    [][\A n \in Hooks, b \in Bodies :
          LosesForeign(n, b) => cmd.force \/ OverwritesStale(n) \/ edits' # edits]_vars

\* An existing backup is not overwritten (CHANGELOG.md:35), except by --force;
\* it leaves its place only to become the hook again.
BackupsKept ==
    [][\A n \in Hooks : bak[n] # Absent /\ bak'[n] # bak[n]
          => cmd.force \/ (cmd.restore /\ file'[n] = bak[n])]_vars

\* A hook an install has come past runs CarryCtx: the shim, or the composition
\* with what was there.
InstalledRuns ==
    cmd.op = "install" => \A n \in cmd.names \ cmd.todo : file[n].kind \in {"shim", "composed"}

\* A reinstall keeps a composition (hooks.rs:391): only --force, or somebody else,
\* takes a foreign hook away.
OnlyForceLosesForeign ==
    [][\A n \in Hooks, b \in Bodies : LosesForeign(n, b) => cmd.force \/ edits' # edits]_vars

\* --force backs up originals (hooks.rs:43): only other people take a foreign
\* hook away.
ForceKeepsOriginal ==
    [][\A n \in Hooks, b \in Bodies : LosesForeign(n, b) => edits' # edits]_vars

\* uninstall removes all hooks of CarryCtx (hooks.rs:27): when it ends none is there.
UninstallRemovesAll ==
    [][cmd.op = "uninstall" /\ Finish => \A n \in Hooks : ~Managed(file[n])]_vars

\* A composition that is uninstalled gives the foreign body back byte for byte
\* (hooks.rs:572).
ByteForByte ==
    [][\A n \in Hooks : Composition(file[n]) /\ file'[n].kind = "foreign"
          /\ file[n].body = file'[n].body /\ cmd.op = "uninstall" => file'[n].exact]_vars
=============================================================================
