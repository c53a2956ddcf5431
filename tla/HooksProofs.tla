---------------------------- MODULE HooksProofs ----------------------------
(***************************************************************************)
(* Proofs about the hooks: about GitHooks, for any bodies and any number   *)
(* of edits, what the commands keep of the hooks they meet; and about      *)
(* WorkContext, for any agents, tasks, worktrees and number of sessions,   *)
(* what the hooks and the commands take for the task at hand.              *)
(***************************************************************************)
EXTENDS GitHooks, WorkContext, SequenceTheorems, FiniteSetTheorems, WellFoundedInduction, TLAPS

Next1(n) == n \in cmd.todo /\ ("post-commit" \in cmd.todo => n = "post-commit")

\* What is about to be written: an install writes a hook that runs CarryCtx, and
\* without --force only an install over a stale composition takes the place of a
\* body it does not write.
WriteSound ==
    cmd.writes =>
        /\ cmd.op = "install" => cmd.out.kind \in {"shim", "composed"}
        /\ ~cmd.force => \A n \in Hooks, b \in Bodies :
               Next1(n) /\ Holds(file[n], b) => Holds(cmd.out, b) \/ OverwritesStale(n)

\* What every reachable state has.
HookInv == TypeOK /\ WriteSound /\ InstalledRuns

----------------------------------------------------------------------------
LEMMA OursFacts ==
    /\ Absent \in Content /\ Ours("shim") \in Content /\ Ours("legacy") \in Content
    /\ Absent.kind = "absent" /\ Ours("shim").kind = "shim"
BY DEF Content, Absent, Ours

LEMMA TheirsFacts ==
    ASSUME NEW kind \in {"foreign", "composed", "stale", "edited"}, NEW b \in Bodies, NEW e \in BOOLEAN
    PROVE  /\ Theirs(kind, b, e) \in Content
           /\ Theirs(kind, b, e).kind = kind /\ Theirs(kind, b, e).body = b
BY DEF Content, Theirs

LEMMA BodyFacts ==
    ASSUME NEW c \in Content
    PROVE  /\ c.kind \in {"foreign", "composed", "stale", "edited"} => c.body \in Bodies
           /\ c.exact \in BOOLEAN
<1>1. CASE c \in [kind: {"absent", "shim", "legacy"}, body: {NoBody}, exact: BOOLEAN]
  BY <1>1
<1>2. CASE c \in [kind: {"foreign", "composed", "stale", "edited"}, body: Bodies, exact: BOOLEAN]
  BY <1>2
<1> QED BY <1>1, <1>2 DEF Content

LEMMA ContentFacts ==
    /\ Absent \in Content /\ Ours("shim") \in Content /\ Ours("legacy") \in Content
    /\ Absent.kind = "absent" /\ Ours("shim").kind = "shim"
    /\ \A kind \in {"foreign", "composed", "stale", "edited"}, b \in Bodies, e \in BOOLEAN :
          /\ Theirs(kind, b, e) \in Content
          /\ Theirs(kind, b, e).kind = kind /\ Theirs(kind, b, e).body = b
    /\ \A c \in Content : c.kind \in {"foreign", "composed", "stale", "edited"} => c.body \in Bodies
    /\ \A c \in Content : c.exact \in BOOLEAN
BY OursFacts, TheirsFacts, BodyFacts

\* What people write.
LEMMA WrittenFacts ==
    /\ Absent \in Content /\ Ours("legacy") \in Content
    /\ \A b \in Bodies : Theirs("foreign", b, TRUE) \in Content
    /\ \A c \in Content : Reworked(c) \subseteq Content
<1>1. ASSUME NEW c \in Content, c.kind = "shim"
      PROVE  Reworked(c) \subseteq Content
  <2>1. ~Composition(c)
    BY <1>1 DEF Composition
  <2>2. Reworked(c) = {Theirs("edited", b, TRUE) : b \in Bodies}
    BY <1>1, <2>1 DEF Reworked
  <2>3. \A b \in Bodies : Theirs("edited", b, TRUE) \in Content
    BY ContentFacts
  <2> QED BY <2>2, <2>3
<1>2. ASSUME NEW c \in Content, Composition(c)
      PROVE  Reworked(c) \subseteq Content
  <2>1. c.kind # "shim" /\ c.body \in Bodies /\ c.exact \in BOOLEAN
    BY <1>2, ContentFacts DEF Composition
  <2>2. \A kind \in {"stale", "edited"} : Theirs(kind, c.body, c.exact) \in Content
    BY <2>1, ContentFacts
  <2> QED BY <1>2, <2>1, <2>2 DEF Reworked
<1>3. ASSUME NEW c \in Content, c.kind # "shim", ~Composition(c)
      PROVE  Reworked(c) \subseteq Content
  BY <1>3 DEF Reworked
<1> QED BY <1>1, <1>2, <1>3, ContentFacts

LEMMA NobodyFacts ==
    /\ Nobody \in Commands /\ Nobody.writes = FALSE /\ Nobody.op = "none"
    /\ Nobody.force = FALSE /\ Nobody.out = Absent /\ Nobody.todo = {}
BY ContentFacts DEF Nobody, Commands

LEMMA CommandFacts ==
    \A c \in Commands :
       /\ c.op \in {"none", "install", "uninstall"} /\ c.force \in BOOLEAN /\ c.compose \in BOOLEAN
       /\ c.restore \in BOOLEAN /\ c.names \subseteq Hooks /\ c.todo \subseteq Hooks
       /\ c.writes \in BOOLEAN /\ c.out \in Content
BY DEF Commands

LEMMA InitInv == Init => HookInv
<1> SUFFICES ASSUME Init
             PROVE  HookInv
  OBVIOUS
<1>1. {Absent, Ours("legacy")} \cup {Theirs("foreign", b, TRUE) : b \in Bodies} \subseteq Content
  BY WrittenFacts
<1>2. file \in [Hooks -> Content] /\ bak \in [Hooks -> Content]
  BY <1>1, ContentFacts DEF Init
<1>3. edits \in 0..MaxEdits
  BY HookAssumption DEF Init
<1> QED BY <1>2, <1>3, NobodyFacts DEF Init, HookInv, TypeOK, WriteSound, InstalledRuns

\* A command that ends, however it does.
LEMMA EndKeeps ==
    ASSUME HookInv, cmd' = Nobody, UNCHANGED <<file, bak, edits>>
    PROVE  HookInv'
BY NobodyFacts DEF HookInv, TypeOK, WriteSound, InstalledRuns

LEMMA StartInstallKeeps ==
    ASSUME HookInv, NEW force \in BOOLEAN, NEW compose \in BOOLEAN,
           NEW names \in {Hooks, {"post-commit"}}, StartInstall(force, compose, names)
    PROVE  HookInv'
<1>1. names \subseteq Hooks
  BY DEF Hooks
<1>2. cmd' = [Nobody EXCEPT !.op = "install", !.force = force, !.compose = compose,
                            !.names = names, !.todo = names]
  BY DEF StartInstall
<1>3. /\ cmd' \in Commands /\ cmd'.writes = FALSE
      /\ cmd'.names = names /\ cmd'.todo = names
  BY <1>1, <1>2, ContentFacts DEF Nobody, Commands
<1> QED BY <1>3 DEF StartInstall, HookInv, TypeOK, WriteSound, InstalledRuns

LEMMA StartUninstallKeeps ==
    ASSUME HookInv, NEW restore \in BOOLEAN, StartUninstall(restore)
    PROVE  HookInv'
<1>1. cmd' = [Nobody EXCEPT !.op = "uninstall", !.restore = restore,
                            !.names = Hooks, !.todo = Hooks]
  BY DEF StartUninstall
<1>2. cmd' \in Commands /\ cmd'.writes = FALSE /\ cmd'.op = "uninstall"
  BY <1>1, ContentFacts DEF Nobody, Commands
<1> QED BY <1>2 DEF StartUninstall, HookInv, TypeOK, WriteSound, InstalledRuns

\* A hook that is passed without a write.
LEMMA ContinueFacts ==
    ASSUME HookInv, NEW n \in Hooks, Looks(n), Continue(n)
    PROVE  /\ cmd' \in Commands /\ cmd'.writes = FALSE
           /\ cmd'.op = cmd.op /\ cmd'.names = cmd.names /\ cmd'.todo = cmd.todo \ {n}
<1>1. cmd \in Commands
  BY DEF HookInv, TypeOK
<1>2. cmd' = [cmd EXCEPT !.todo = cmd.todo \ {n}]
  BY DEF Continue
<1>3. cmd.writes = FALSE
  BY <1>1, CommandFacts DEF Looks
<1>4. cmd.todo \ {n} \subseteq Hooks
  BY <1>1, CommandFacts
<1> QED BY <1>1, <1>2, <1>3, <1>4 DEF Commands

LEMMA SkipKeeps ==
    ASSUME HookInv, NEW n \in Hooks, Skip(n)
    PROVE  HookInv'
<1>1. Looks(n) /\ Continue(n) /\ UNCHANGED <<file, bak, edits>>
  BY DEF Skip, Continue
<1>2. cmd.op = "install" => UpToDate(file[n])
  BY DEF Skip
<1>3. InstalledRuns'
  BY <1>1, <1>2, ContinueFacts DEF HookInv, InstalledRuns, UpToDate
<1> QED BY <1>1, <1>3, ContinueFacts DEF HookInv, TypeOK, WriteSound

LEMMA RestoreKeeps ==
    ASSUME HookInv, NEW n \in Hooks, Restore(n)
    PROVE  HookInv'
<1>1. Looks(n) /\ Continue(n) /\ UNCHANGED edits /\ cmd.op = "uninstall"
  BY DEF Restore, Continue
<1>2. file' \in [Hooks -> Content] /\ bak' \in [Hooks -> Content]
  BY ContentFacts DEF Restore, HookInv, TypeOK
<1>3. InstalledRuns'
  BY <1>1, ContinueFacts DEF InstalledRuns
<1> QED BY <1>1, <1>2, <1>3, ContinueFacts DEF HookInv, TypeOK, WriteSound

\* A hook whose new content is decided.
LEMMA GoWriteFacts ==
    ASSUME HookInv, NEW c \in Content, GoWrite(c)
    PROVE  /\ cmd' \in Commands /\ cmd'.out = c
           /\ cmd'.op = cmd.op /\ cmd'.names = cmd.names /\ cmd'.todo = cmd.todo
           /\ cmd'.force = cmd.force /\ cmd'.compose = cmd.compose
BY DEF HookInv, TypeOK, GoWrite, Commands

\* The hook that Looks(n) looks at is the only one that is next.
LEMMA OnlyNext ==
    ASSUME NEW n \in Hooks, Looks(n), NEW m \in Hooks, Next1(m)
    PROVE  m = n
BY DEF Looks, Next1, Hooks

LEMMA SetAsideKeeps ==
    ASSUME HookInv, NEW n \in Hooks, SetAside(n)
    PROVE  HookInv'
<1>1. Looks(n) /\ GoWrite(Ours("shim")) /\ cmd.op = "install" /\ SetsAside(n)
  BY DEF SetAside
<1>2. /\ cmd' \in Commands /\ cmd'.out = Ours("shim") /\ cmd'.op = cmd.op
      /\ cmd'.names = cmd.names /\ cmd'.todo = cmd.todo /\ cmd'.force = cmd.force
      /\ cmd'.compose = cmd.compose
  BY <1>1, GoWriteFacts, ContentFacts
<1>3. /\ file' \in [Hooks -> Content] /\ bak' \in [Hooks -> Content]
      /\ \A m \in Hooks : file'[m] = file[m] \/ (m = n /\ file'[m] = Absent)
  BY ContentFacts DEF SetAside, HookInv, TypeOK
<1>4. ~cmd.force => Plain /\ \A b \in Bodies : Holds(file[n], b) => file[n].kind = "stale"
  BY <1>1 DEF SetsAside, UpToDate, Managed, Composition, Holds
<1>5. file'[n] = Absent \/ (RenameMayFail /\ UNCHANGED <<file, bak>>)
  BY DEF SetAside, HookInv, TypeOK
<1>6. WriteSound'
  <2>0. \A m \in Hooks : Next1(m)' <=> Next1(m)
    BY <1>2 DEF Next1
  <2>1. \A m \in Hooks : Next1(m)' => m = n
    BY <1>1, <2>0, OnlyNext
  <2>2. ASSUME ~cmd'.force, NEW b \in Bodies, Holds(file[n], b)'
        PROVE  OverwritesStale(n)'
    <3>1. file'[n] # Absent
      BY <2>2, ContentFacts DEF Holds, Composition
    <3>2. RenameMayFail /\ UNCHANGED <<file, bak>>
      BY <1>5, <3>1
    <3>3. Holds(file[n], b)
      BY <2>2, <3>2 DEF Holds, Composition
    <3> QED BY <1>1, <1>2, <1>4, <2>2, <3>2, <3>3 DEF OverwritesStale, Plain
  <2>3. cmd'.out.kind = "shim"
    BY <1>2, ContentFacts
  <2>4. ~cmd'.force => \A m \in Hooks, b \in Bodies :
           (Next1(m) /\ Holds(file[m], b))' => OverwritesStale(m)'
    BY <2>1, <2>2
  <2> QED BY <2>3, <2>4 DEF WriteSound
<1>7. InstalledRuns'
  <2>1. n \in cmd.todo
    BY <1>1 DEF Looks
  <2>2. \A m \in cmd.names \ cmd.todo : file'[m] = file[m] /\ m \in Hooks
    BY <1>3, <2>1, CommandFacts DEF HookInv, TypeOK
  <2>3. \A m \in cmd.names \ cmd.todo : file[m].kind \in {"shim", "composed"}
    BY <1>1 DEF HookInv, InstalledRuns
  <2> QED BY <1>2, <2>2, <2>3 DEF InstalledRuns
<1> QED BY <1>1, <1>2, <1>3, <1>6, <1>7 DEF HookInv, TypeOK, GoWrite

\* What a decided content holds of the file it is decided for.
LEMMA DecidedKeeps ==
    ASSUME HookInv, NEW n \in Hooks, NEW c \in Content, Looks(n), GoWrite(c),
           UNCHANGED <<file, bak>>,
           cmd.op = "install" => c.kind \in {"shim", "composed"},
           ~cmd.force => \A b \in Bodies :
               Holds(file[n], b) => Holds(c, b) \/ OverwritesStale(n)
    PROVE  HookInv'
<1>1. /\ cmd' \in Commands /\ cmd'.out = c /\ cmd'.op = cmd.op
      /\ cmd'.names = cmd.names /\ cmd'.todo = cmd.todo /\ cmd'.force = cmd.force
      /\ cmd'.compose = cmd.compose
  BY GoWriteFacts
<1>2. WriteSound'
  <2>0. \A m \in Hooks : Next1(m)' <=> Next1(m)
    BY <1>1 DEF Next1
  <2>1. \A m \in Hooks : Next1(m)' => m = n
    BY <2>0, OnlyNext
  <2>2. \A b \in Bodies : Holds(file[n], b)' <=> Holds(file[n], b)
    BY DEF Holds, Composition
  <2>3. \A b \in Bodies : Holds(cmd.out, b)' <=> Holds(c, b)
    BY <1>1 DEF Holds, Composition
  <2>4. OverwritesStale(n)' <=> OverwritesStale(n)
    BY <1>1 DEF OverwritesStale, Plain
  <2>5. ~cmd'.force => \A m \in Hooks, b \in Bodies :
           (Next1(m) /\ Holds(file[m], b))' => Holds(cmd.out, b)' \/ OverwritesStale(m)'
    <3> SUFFICES ASSUME ~cmd'.force, NEW m \in Hooks, NEW b \in Bodies,
                        Next1(m)', Holds(file[m], b)'
                 PROVE  Holds(cmd.out, b)' \/ OverwritesStale(m)'
      OBVIOUS
    <3>1. m = n
      BY <2>1
    <3>2. Holds(file[n], b)
      BY <2>2, <3>1
    <3> QED BY <1>1, <2>3, <2>4, <3>1, <3>2
  <2> QED BY <1>1, <2>5 DEF WriteSound
<1>3. InstalledRuns'
  BY <1>1 DEF HookInv, InstalledRuns
<1> QED BY <1>1, <1>2, <1>3 DEF HookInv, TypeOK, GoWrite

LEMMA InstallKeeps ==
    ASSUME HookInv, NEW n \in Hooks, Install(n)
    PROVE  HookInv'
<1>1. Looks(n) /\ UNCHANGED <<file, bak>> /\ file[n] \in Content
  BY DEF Install, HookInv, TypeOK
<1>2. CASE WritesOver(n) /\ GoWrite(Ours("shim"))
  <2>1. \A b \in Bodies : Holds(file[n], b) => OverwritesStale(n)
    BY <1>2 DEF Install, WritesOver, UpToDate, Managed, Holds, Composition, OverwritesStale
  <2> QED BY <1>1, <1>2, <2>1, ContentFacts, DecidedKeeps
<1>3. ASSUME NEW e \in BOOLEAN, file[n].kind \in {"foreign", "composed", "stale"},
             GoWrite(Theirs("composed", file[n].body, e))
      PROVE  HookInv'
  <2> DEFINE c == Theirs("composed", file[n].body, e)
  <2>0. file[n].body \in Bodies
    BY <1>1, <1>3, ContentFacts
  <2>1. c \in Content /\ c.kind = "composed" /\ c.body = file[n].body
    BY <2>0, TheirsFacts
  <2>2. \A b \in Bodies : Holds(file[n], b) => Holds(c, b)
    BY <2>1 DEF Holds, Composition
  <2> QED BY <1>1, <1>3, <2>1, <2>2, DecidedKeeps
<1>4. CASE Composes(n) /\ GoWrite(Theirs("composed", file[n].body, file[n].exact))
  BY <1>1, <1>3, <1>4, ContentFacts DEF Composes
<1>5. CASE Recomposes(n) /\ GoWrite(Theirs("composed", file[n].body, FALSE))
  BY <1>3, <1>5 DEF Recomposes, Composition
<1> QED BY <1>2, <1>4, <1>5 DEF Install

LEMMA UninstallKeeps ==
    ASSUME HookInv, NEW n \in Hooks, Uninstall(n)
    PROVE  HookInv'
<1>1. /\ Looks(n) /\ UNCHANGED <<file, bak>> /\ file[n] \in Content
      /\ cmd.op = "uninstall" /\ Managed(file[n])
  BY DEF Uninstall, HookInv, TypeOK
<1>2. CASE Composition(file[n]) /\ GoWrite(Theirs("foreign", file[n].body, FALSE))
  <2> DEFINE c == Theirs("foreign", file[n].body, FALSE)
  <2>0. file[n].body \in Bodies
    BY <1>1, <1>2, ContentFacts DEF Composition
  <2>1. c \in Content /\ c.kind = "foreign" /\ c.body = file[n].body
    BY <2>0, TheirsFacts
  <2>2. \A b \in Bodies : Holds(file[n], b) => Holds(c, b)
    BY <2>1 DEF Holds, Composition
  <2> QED BY <1>1, <1>2, <2>1, <2>2, DecidedKeeps
<1>3. CASE ~Composition(file[n]) /\ GoWrite(Absent)
  <2>1. \A b \in Bodies : ~Holds(file[n], b)
    BY <1>1, <1>3 DEF Managed, Holds
  <2> QED BY <1>1, <1>3, <2>1, ContentFacts, DecidedKeeps
<1> QED BY <1>2, <1>3 DEF Uninstall

LEMMA WriteKeeps ==
    ASSUME HookInv, NEW n \in Hooks, Write(n)
    PROVE  HookInv'
<1>1. /\ cmd \in Commands /\ cmd.writes /\ n \in cmd.todo
      /\ file' = [file EXCEPT ![n] = cmd.out]
      /\ cmd' = [cmd EXCEPT !.todo = cmd.todo \ {n}, !.writes = FALSE, !.out = Absent]
  BY DEF Write, HookInv, TypeOK
<1>2. cmd.out \in Content /\ cmd.todo \ {n} \subseteq Hooks
  BY <1>1, CommandFacts
<1>3. /\ cmd' \in Commands /\ cmd'.writes = FALSE /\ cmd'.op = cmd.op
      /\ cmd'.names = cmd.names /\ cmd'.todo = cmd.todo \ {n}
  BY <1>1, <1>2, ContentFacts DEF Commands
<1>4. InstalledRuns'
  BY <1>1, <1>3 DEF HookInv, TypeOK, InstalledRuns, WriteSound
<1> QED BY <1>1, <1>2, <1>3, <1>4 DEF Write, HookInv, TypeOK, WriteSound

LEMMA PeopleKeeps ==
    ASSUME HookInv, ~Racing, NEW n \in Hooks, People(n)
    PROVE  HookInv'
<1>1. cmd = Nobody /\ UNCHANGED <<bak, cmd>> /\ edits' = edits + 1 /\ edits < MaxEdits
  BY DEF People
<1>2. file' \in [Hooks -> Content]
  <2> DEFINE C == {Absent} \cup {Theirs("foreign", b, TRUE) : b \in Bodies} \cup Reworked(file[n])
  <2>0. C \subseteq Content
    BY WrittenFacts DEF HookInv, TypeOK
  <2>1. PICK c \in C : file' = [file EXCEPT ![n] = c]
    BY Zenon DEF People
  <2> QED BY <2>0, <2>1 DEF HookInv, TypeOK
<1>3. edits' \in 0..MaxEdits
  BY <1>1, HookAssumption DEF HookInv, TypeOK
<1> QED BY <1>1, <1>2, <1>3, NobodyFacts DEF HookInv, TypeOK, WriteSound, InstalledRuns

LEMMA StepInv == ~Racing /\ HookInv /\ [Next]_vars => HookInv'
<1> SUFFICES ASSUME ~Racing, HookInv, [Next]_vars
             PROVE  HookInv'
  OBVIOUS
<1>1. CASE UNCHANGED vars
  BY <1>1 DEF vars, HookInv, TypeOK, WriteSound, InstalledRuns, Next1, Holds,
                 Composition, OverwritesStale, Plain
<1>2. ASSUME NEW n \in Hooks, Refuse(n)
      PROVE  HookInv'
  BY <1>2, EndKeeps DEF Refuse
<1>3. CASE Finish \/ Crash
  BY <1>3, EndKeeps DEF Finish, Crash
<1> QED BY <1>1, <1>2, <1>3, StartInstallKeeps, StartUninstallKeeps, SkipKeeps, SetAsideKeeps,
           InstallKeeps, UninstallKeeps, RestoreKeeps, WriteKeeps, PeopleKeeps DEF Next

LEMMA HookInvariant == ~Racing /\ Spec => []HookInv
<1> SUFFICES ASSUME ~Racing
             PROVE  Spec => []HookInv
  OBVIOUS
<1>1. HookInv /\ [Next]_vars => HookInv'
  BY StepInv
<1> QED BY <1>1, InitInv, PTL DEF Spec

----------------------------------------------------------------------------
\* The files, the backups and the command keep their types while nobody changes a
\* file under a command.
THEOREM TypeCorrect == ~Racing /\ Spec => []TypeOK
<1>1. HookInv => TypeOK
  BY DEF HookInv
<1> QED BY <1>1, HookInvariant, PTL

\* Every hook an install has come past runs CarryCtx.
THEOREM InstalledRunsTheorem == ~Racing /\ Spec => []InstalledRuns
<1>1. HookInv => InstalledRuns
  BY DEF HookInv
<1> QED BY <1>1, HookInvariant, PTL

\* Only an install with --force overwrites a backup; it goes back to the hook.
THEOREM BackupsKeptTheorem == ~Racing /\ Spec => BackupsKept
<1> SUFFICES ASSUME ~Racing
             PROVE  Spec => BackupsKept
  OBVIOUS
<1>1. ASSUME HookInv, NEW n \in Hooks, [Next]_vars, bak[n] # Absent, bak'[n] # bak[n]
      PROVE  cmd.force \/ (cmd.restore /\ file'[n] = bak[n])
  <2>1. ASSUME NEW m \in Hooks, SetAside(m)
        PROVE  cmd.force
    BY <1>1, <2>1 DEF SetAside, SetsAside, HookInv, TypeOK
  <2>2. ASSUME NEW m \in Hooks, Restore(m)
        PROVE  cmd.restore /\ file'[n] = bak[n]
    BY <1>1, <2>2 DEF Restore, HookInv, TypeOK
  <2>3. \E m \in Hooks : SetAside(m) \/ Restore(m)
    BY <1>1 DEF Next, vars, StartInstall, StartUninstall, Refuse, Skip, Install, Uninstall,
                Write, People, Finish, Crash
  <2> QED BY <2>1, <2>2, <2>3
<1>2. HookInv /\ [Next]_vars
         => [\A n \in Hooks : bak[n] # Absent /\ bak'[n] # bak[n]
               => cmd.force \/ (cmd.restore /\ file'[n] = bak[n])]_vars
  BY <1>1
<1>3. Spec => []HookInv
  BY HookInvariant
<1> QED BY <1>2, <1>3, PTL DEF Spec, BackupsKept

----------------------------------------------------------------------------
\* What the single steps keep of a foreign body.
LEMMA StepKeepsBody ==
    ASSUME HookInv, ~Racing, NEW n \in Hooks, NEW b \in Bodies, [Next]_vars,
           Kept(n, b), ~cmd.force, ~OverwritesStale(n), edits' = edits
    PROVE  Kept(n, b)'
<1>1. CASE UNCHANGED <<file, bak>>
  BY <1>1 DEF Kept, Holds, Composition
<1>2. ASSUME NEW m \in Hooks, SetAside(m)
      PROVE  Kept(n, b)'
  <2>1. CASE UNCHANGED <<file, bak>>
    BY <2>1 DEF Kept, Holds, Composition
  <2>2. CASE bak' = [bak EXCEPT ![m] = file[m]] /\ file' = [file EXCEPT ![m] = Absent]
    <3>1. bak[m] = Absent
      BY <1>2 DEF SetAside, SetsAside
    <3> QED BY <2>2, <3>1, ContentFacts DEF HookInv, TypeOK, Kept, Holds, Composition
  <2> QED BY <1>2, <2>1, <2>2 DEF SetAside
<1>3. ASSUME NEW m \in Hooks, Restore(m)
      PROVE  Kept(n, b)'
  <2>1. CASE UNCHANGED <<file, bak>>
    BY <2>1 DEF Kept, Holds, Composition
  <2>2. CASE file' = [file EXCEPT ![m] = bak[m]] /\ bak' = [bak EXCEPT ![m] = Absent]
    <3>1. ~Holds(file[m], b)
      BY <1>3 DEF Restore, Managed, Holds, Composition
    <3> QED BY <2>2, <3>1 DEF HookInv, TypeOK, Kept, Holds, Composition
  <2> QED BY <1>3, <2>1, <2>2 DEF Restore
<1>4. ASSUME NEW m \in Hooks, Write(m)
      PROVE  Kept(n, b)'
  <2>1. /\ Next1(m) /\ cmd.writes /\ file' = [file EXCEPT ![m] = cmd.out] /\ bak' = bak
    BY <1>4 DEF Write, Next1
  <2>2. Holds(file[m], b) => Holds(cmd.out, b) \/ OverwritesStale(m)
    BY <2>1 DEF HookInv, WriteSound
  <2> QED BY <2>1, <2>2 DEF HookInv, TypeOK, Kept, Holds, Composition
<1>5. ASSUME NEW m \in Hooks, People(m)
      PROVE  FALSE
  BY <1>5 DEF People, HookInv, TypeOK
<1>6. \/ UNCHANGED <<file, bak>>
      \/ \E m \in Hooks : SetAside(m) \/ Restore(m) \/ Write(m) \/ People(m)
  BY DEF Next, vars, StartInstall, StartUninstall, Refuse, Skip, Install, Uninstall, Finish, Crash
<1> QED BY <1>1, <1>2, <1>3, <1>4, <1>5, <1>6

\* A foreign body is lost only to --force, to an install without flags over a stale
\* composition that has no way to the backup, or to somebody else.
THEOREM ForeignKeptTheorem == ~Racing /\ Spec => ForeignKept
<1> SUFFICES ASSUME ~Racing
             PROVE  Spec => ForeignKept
  OBVIOUS
<1>1. HookInv /\ [Next]_vars
         => [\A n \in Hooks, b \in Bodies :
                LosesForeign(n, b) => cmd.force \/ OverwritesStale(n) \/ edits' # edits]_vars
  BY StepKeepsBody DEF LosesForeign
<1>2. Spec => []HookInv
  BY HookInvariant
<1> QED BY <1>1, <1>2, PTL DEF Spec, ForeignKept

----------------------------------------------------------------------------
(***************************************************************************)
(* WorkContext.  The inductive invariant is the type and what the log says *)
(* of the sessions: a row and its event are written apart, so the step     *)
(* that appends the event has to know which rows are over.                 *)
(***************************************************************************)
\* What every reachable state has.
ContextInv == ContextTypeOK /\ LogTellsEnd

\* What a step does to the sessions that are active after it.
ResumeOnly ==
    \A i, j \in Active' :
           /\ i < j
           /\ sessions'[i].agent = sessions'[j].agent
           /\ sessions'[i].place = sessions'[j].place
           /\ ~({i, j} \subseteq Active)
           => /\ {i, j} \subseteq DOMAIN sessions
              /\ \E r \in {i, j} : sessions[r].state = "paused"

\* A session that ends in a step without a checkpoint is superseded in it.
SupersededOnly ==
    Required /\ ~Attended =>
       \A i \in DOMAIN sessions :
           /\ sessions[i].state # "ended" /\ sessions'[i].state = "ended"
           /\ sessions[i].task \notin checked \cup {NoTask}
           => /\ Len(sessions') = Len(sessions) + 1
              /\ sessions'[Len(sessions')].agent = sessions[i].agent

\* A row moved to a new state is a row, in that state and with that event.
LEMMA MovedFacts ==
    ASSUME NEW row \in Row, NEW to \in States, NEW told \in {"live", "ended", "abandoned"}
    PROVE  /\ Moved(row, to, told) \in Row
           /\ Moved(row, to, told).state = to
           /\ Moved(row, to, told).told = told
           /\ to \notin {"ended", "abandoned"} =>
                /\ Moved(row, to, told).agent = row.agent
                /\ Moved(row, to, told).place = row.place
                /\ Moved(row, to, told).task = row.task
BY DEF Moved, Row, Checkouts, SomeTask

LEMMA FirstOfType ==
    ASSUME NEW a \in SomeTask, NEW b \in SomeTask
    PROVE  FirstOf(a, b) \in SomeTask
BY DEF FirstOf

LEMMA OnlyTaskOfType ==
    ASSUME NEW a PROVE OnlyTaskOf(a) \in SomeTask
<1> DEFINE mine == {k \in Tasks : a # NoAgent /\ doing[k] = a}
<1>1. CASE Cardinality(mine) = 1 /\ mine # {}
  BY <1>1 DEF OnlyTaskOf, SomeTask
<1>2. CASE mine = {}
  BY <1>2, FS_EmptySet DEF OnlyTaskOf, SomeTask
<1>3. CASE Cardinality(mine) # 1
  BY <1>3 DEF OnlyTaskOf, SomeTask
<1> QED BY <1>1, <1>2, <1>3

LEMMA TaskHereType ==
    ASSUME ContextTypeOK, NEW cwd PROVE TaskHere(cwd) \in SomeTask
BY DEF ContextTypeOK, TaskHere, SomeTask

LEMMA MappedSeq ==
    ASSUME NEW S, NEW n \in Nat, NEW f, f = [i \in 1..n |-> f[i]], \A i \in 1..n : f[i] \in S
    PROVE  f \in Seq(S) /\ Len(f) = n
<1>1. f \in [1..n -> S]
  OBVIOUS
<1>2. f \in Seq(S)
  BY <1>1, SeqDef
<1>3. Len(f) \in Nat /\ DOMAIN f = 1..Len(f) /\ DOMAIN f = 1..n
  BY <1>1, <1>2, LenProperties
<1> QED BY <1>2, <1>3

\* A session whose row changes in place.
LEMMA ChangedRowFacts ==
    ASSUME ContextTypeOK, NEW i \in DOMAIN sessions, NEW row \in Row,
           sessions' = [sessions EXCEPT ![i] = row]
    PROVE  /\ sessions' \in Seq(Row)
           /\ Len(sessions') = Len(sessions)
           /\ DOMAIN sessions' = DOMAIN sessions
           /\ \A j \in DOMAIN sessions : sessions'[j] = IF j = i THEN row ELSE sessions[j]
BY ExceptSeq DEF ContextTypeOK

\* A session that starts ends those its agent has active there, and no row of
\* another changes.
LEMMA StartFacts ==
    ASSUME ContextTypeOK, NEW a \in Agents, NEW place \in Checkouts, NEW k \in SomeTask,
           NEW cwd \in Checkouts, StartSession(a, place, k, cwd)
    PROVE  /\ sessions' \in Seq(Row)
           /\ Len(sessions') = Len(sessions) + 1
           /\ \A i \in DOMAIN sessions : /\ i \in DOMAIN sessions'
                 /\ sessions'[i] = IF i \in FindActive(a, place)
                                   THEN Moved(sessions[i], "ended", "ended") ELSE sessions[i]
           /\ sessions'[Len(sessions) + 1].state = "active"
           /\ sessions'[Len(sessions) + 1].told = "live"
           /\ sessions'[Len(sessions) + 1].agent = a
           /\ sessions'[Len(sessions) + 1].place = place
<1> DEFINE F == [i \in DOMAIN sessions |->
               IF i \in FindActive(a, place)
               THEN Moved(sessions[i], "ended", "ended")
               ELSE sessions[i]]
           row == [agent |-> a, place |-> place,
                   task |-> FirstOf(k, FirstOf(TaskHere(cwd), OnlyTaskOf(a))),
                   state |-> "active", told |-> "live"]
<1>1. sessions' = Append(F, row)
  BY DEF StartSession
<1>2. row \in Row
  <2>1. row.task \in SomeTask
    BY FirstOfType, OnlyTaskOfType, TaskHereType
  <2> QED BY <2>1 DEF Row, States
<1>3. sessions \in Seq(Row) /\ Len(sessions) \in Nat /\ DOMAIN sessions = 1..Len(sessions)
  BY LenProperties DEF ContextTypeOK
<1>4. \A i \in DOMAIN sessions : F[i] \in Row
  BY <1>3, MovedFacts, ElementOfSeq DEF States
<1>5. F \in Seq(Row) /\ Len(F) = Len(sessions)
  BY <1>3, <1>4, MappedSeq
<1> HIDE DEF F, row
<1>6. /\ sessions' \in Seq(Row) /\ Len(sessions') = Len(sessions) + 1
      /\ \A i \in 1..Len(F) : Append(F, row)[i] = F[i]
      /\ Append(F, row)[Len(F) + 1] = row
  BY <1>1, <1>2, <1>5, AppendProperties
<1>7. row.state = "active" /\ row.told = "live" /\ row.agent = a /\ row.place = place
  BY DEF row
<1>8. \A i \in DOMAIN sessions : sessions'[i] = F[i]
  BY <1>1, <1>3, <1>5, <1>6
<1>9. DOMAIN sessions' = 1..(Len(sessions) + 1)
  BY <1>6, LenProperties
<1>10. \A i \in DOMAIN sessions : i \in DOMAIN sessions'
  BY <1>3, <1>9
<1>11. \A i \in DOMAIN sessions :
           sessions'[i] = IF i \in FindActive(a, place)
                          THEN Moved(sessions[i], "ended", "ended") ELSE sessions[i]
  BY <1>8 DEF F
<1> QED BY <1>1, <1>5, <1>6, <1>7, <1>10, <1>11

\* A finite set of numbers has a greatest one.
LEMMA Greatest ==
    ASSUME NEW S \in SUBSET Nat, IsFiniteSet(S), S # {}
    PROVE  \E i \in S : \A j \in S : j <= i
<1> DEFINE From(i) == {j \in S : j >= i}
           T == {From(i) : i \in S}
<1>1. T \subseteq FiniteSubsetsOf(S) /\ T # {}
  <2>1. ASSUME NEW i \in S PROVE From(i) \in FiniteSubsetsOf(S)
    <3>1. From(i) \in SUBSET S
      OBVIOUS
    <3> HIDE DEF From
    <3>2. IsFiniteSet(From(i))
      BY <3>1, FS_Subset
    <3> QED BY <3>1, <3>2 DEF FiniteSubsetsOf
  <2> QED BY <2>1
<1>2. PICK x \in T : \A y \in T : ~(<<y, x>> \in StrictSubsetOrdering(S))
  BY <1>1, FS_StrictSubsetOrderingWellFounded, WFMin
<1>3. PICK i \in S : x = From(i)
  BY <1>2
<1>4. ASSUME NEW j \in S, ~(j <= i) PROVE FALSE
  <2>0. i \in Nat /\ j \in Nat /\ j > i
    BY <1>4
  <2>1. From(j) \subseteq From(i) /\ i \in From(i) /\ i \notin From(j)
    <3>1. \A k \in S : k \in Nat
      OBVIOUS
    <3>2. \A k \in S : k >= j => k >= i
      BY <2>0, <3>1
    <3>3. i >= i /\ ~(i >= j)
      BY <2>0
    <3> QED BY <3>2, <3>3
  <2>2. From(j) \in T /\ From(j) \in SUBSET S /\ From(i) \in SUBSET S
    BY <1>4
  <2>3. From(j) # From(i)
    BY <2>1
  <2> HIDE DEF From, T
  <2>4. <<From(j), From(i)>> \in StrictSubsetOrdering(S)
    BY <2>1, <2>2, <2>3 DEF StrictSubsetOrdering
  <2> QED BY <1>2, <1>3, <2>2, <2>4
<1> QED BY <1>4

LEMMA ActiveFinite ==
    ASSUME ContextTypeOK
    PROVE  /\ Active \in SUBSET Nat /\ Active \subseteq DOMAIN sessions /\ IsFiniteSet(Active)
           /\ \A i \in Active : sessions[i] \in Row
<1>1. sessions \in Seq(Row) /\ Len(sessions) \in Nat /\ DOMAIN sessions = 1..Len(sessions)
  BY LenProperties DEF ContextTypeOK
<1>2. IsFiniteSet(1..Len(sessions))
  BY <1>1, FS_Interval
<1>3. Active \in SUBSET (1..Len(sessions)) /\ Active \in SUBSET Nat
  BY <1>1 DEF Active
<1>4. \A i \in Active : sessions[i] \in Row
  BY <1>1, <1>3, ElementOfSeq
<1> QED BY <1>1, <1>2, <1>3, <1>4, FS_Subset

\* The session a hook takes its task from is the only one that has a task.
LEMMA SessionTaskFacts ==
    ASSUME ContextTypeOK, NEW cwd, SessionTask(cwd) # NoTask
    PROVE  \E i \in Active : /\ {j \in Active : sessions[j].task # NoTask} = {i}
                             /\ sessions[i].place \in {NoPlace, cwd}
                             /\ SessionTask(cwd) = sessions[i].task
<1> DEFINE carrying == {j \in Active : sessions[j].task # NoTask}
           s == sessions[CHOOSE i \in carrying : TRUE]
<1>1. IsFiniteSet(carrying)
  BY ActiveFinite, FS_Subset
<1>2. Cardinality(carrying) = 1 /\ s.place \in {NoPlace, cwd} /\ SessionTask(cwd) = s.task
  BY DEF SessionTask
<1>3. PICK i : carrying = {i}
  BY <1>1, <1>2, FS_Singleton
<1>4. (CHOOSE j \in carrying : TRUE) = i
  BY <1>3
<1> HIDE DEF carrying
<1>5. i \in Active
  BY <1>3 DEF carrying
<1>6. SessionTask(cwd) = sessions[i].task /\ sessions[i].place \in {NoPlace, cwd}
  BY <1>2, <1>4
<1> QED BY <1>3, <1>5, <1>6 DEF carrying

LEMMA HookTaskType ==
    ASSUME ContextTypeOK, NEW given \in SomeTask, NEW cwd, NEW a
    PROVE  HookTask(given, cwd, a) \in SomeTask
<1>1. SessionTask(cwd) \in SomeTask
  <2>1. CASE SessionTask(cwd) = NoTask
    BY <2>1 DEF SomeTask
  <2>2. CASE SessionTask(cwd) # NoTask
    BY <2>2, SessionTaskFacts, ActiveFinite DEF Row
  <2> QED BY <2>1, <2>2
<1> QED BY <1>1, FirstOfType, TaskHereType, OnlyTaskOfType DEF HookTask

LEMMA ResolveTaskType ==
    ASSUME ContextTypeOK, NEW explicit \in SomeTask, NEW cwd, NEW a
    PROVE  ResolveTask(explicit, cwd, a) \in SomeTask
<1>1. NewestActiveTask \in SomeTask
  <2>1. CASE Active = {}
    BY <2>1 DEF NewestActiveTask, SomeTask
  <2>2. CASE Active # {}
    <3>1. (CHOOSE i \in Active : \A j \in Active : j <= i) \in Active
      BY <2>2, ActiveFinite, Greatest
    <3>2. sessions[CHOOSE i \in Active : \A j \in Active : j <= i] \in Row
      BY <3>1, ActiveFinite
    <3> QED BY <2>2, <3>2 DEF NewestActiveTask, Row
  <2> QED BY <2>1, <2>2
<1> QED BY <1>1, FirstOfType, TaskHereType, OnlyTaskOfType DEF ResolveTask

\* The empty tables of a new project.
LEMMA ContextInitInv == ContextAssumption /\ ContextInit => ContextInv
<1> SUFFICES ASSUME ContextAssumption, ContextInit PROVE ContextInv
  OBVIOUS
<1>1. sessions \in Seq(Row) /\ Len(sessions) = 0 /\ DOMAIN sessions = {}
  BY EmptySeq DEF ContextInit
<1>2. ContextTypeOK
  BY <1>1 DEF ContextTypeOK, ContextInit, SomeTask
<1> QED BY <1>1, <1>2 DEF ContextInv, LogTellsEnd

\* Every row is one.
LEMMA SessionRow ==
    ASSUME ContextTypeOK
    PROVE  /\ Len(sessions) \in Nat /\ DOMAIN sessions = 1..Len(sessions)
           /\ \A i \in DOMAIN sessions : sessions[i] \in Row
BY LenProperties, ElementOfSeq DEF ContextTypeOK

LEMMA StartKeeps ==
    ASSUME ContextInv, NEW a \in Agents, NEW place \in Checkouts, NEW k \in SomeTask,
           NEW cwd \in Checkouts, StartSession(a, place, k, cwd)
    PROVE  ContextInv'
<1>1. /\ sessions' \in Seq(Row) /\ Len(sessions') = Len(sessions) + 1
      /\ Len(sessions) \in Nat /\ DOMAIN sessions = 1..Len(sessions)
      /\ DOMAIN sessions' = 1..Len(sessions')
  BY StartFacts, SessionRow, LenProperties DEF ContextInv
<1>2. ContextTypeOK'
  BY <1>1 DEF ContextInv, ContextTypeOK, StartSession
<1>3. ASSUME NEW i \in DOMAIN sessions'
      PROVE  /\ sessions'[i].told = "ended" <=> sessions'[i].state = "ended"
             /\ sessions'[i].told = "abandoned" => sessions'[i].state = "abandoned"
  <2>1. CASE i = Len(sessions) + 1
    BY <2>1, StartFacts DEF ContextInv
  <2>2. CASE i # Len(sessions) + 1
    <3>1. i \in DOMAIN sessions
      BY <1>1, <2>2
    <3>2. sessions'[i] = IF i \in FindActive(a, place)
                         THEN Moved(sessions[i], "ended", "ended") ELSE sessions[i]
      BY <3>1, StartFacts DEF ContextInv
    <3>3. /\ Moved(sessions[i], "ended", "ended").state = "ended"
          /\ Moved(sessions[i], "ended", "ended").told = "ended"
      BY <3>1, SessionRow, MovedFacts DEF ContextInv, States
    <3> QED BY <3>1, <3>2, <3>3 DEF ContextInv, LogTellsEnd
  <2> QED BY <2>1, <2>2
<1> QED BY <1>2, <1>3 DEF ContextInv, LogTellsEnd

\* A row that changes in place, when state and event go on agreeing in it.
LEMMA ChangedRowKeeps ==
    ASSUME ContextInv, NEW i \in DOMAIN sessions, NEW row \in Row,
           sessions' = [sessions EXCEPT ![i] = row],
           unlogged' \in {0, i, unlogged},
           UNCHANGED <<doing, over, bound, checked, draft>>,
           row.told = "ended" <=> row.state = "ended",
           row.told = "abandoned" => row.state = "abandoned"
    PROVE  ContextInv'
<1>1. /\ sessions' \in Seq(Row) /\ Len(sessions') = Len(sessions)
      /\ DOMAIN sessions' = DOMAIN sessions
      /\ \A j \in DOMAIN sessions : sessions'[j] = IF j = i THEN row ELSE sessions[j]
  BY ChangedRowFacts DEF ContextInv
<1>2. unlogged' \in 0..Len(sessions')
  BY <1>1, SessionRow DEF ContextInv, ContextTypeOK
<1>3. ContextTypeOK'
  BY <1>1, <1>2 DEF ContextInv, ContextTypeOK
<1> QED BY <1>1, <1>3 DEF ContextInv, LogTellsEnd

LEMMA WriteStateKeeps ==
    ASSUME ContextInv, NEW i, NEW a \in Agents, NEW to \in {"paused", "active", "abandoned"},
           WriteState(i, a, to)
    PROVE  ContextInv'
<1>1. /\ i \in DOMAIN sessions /\ sessions[i] \in Row
      /\ CanTransition(sessions[i].state, to)
      /\ sessions[i].state \notin {"ended", "abandoned"}
  BY SessionRow DEF WriteState, MayChange, CanTransition, ContextInv
<1> DEFINE row == Moved(sessions[i], to, sessions[i].told)
<1>2. sessions[i].told \in {"live", "ended", "abandoned"}
  BY <1>1 DEF Row
<1>3. row \in Row /\ row.state = to /\ row.told = sessions[i].told
  BY <1>1, <1>2, MovedFacts DEF States
<1>4. sessions' = [sessions EXCEPT ![i] = row] /\ unlogged' = i
      /\ UNCHANGED <<doing, over, bound, checked, draft>>
  BY DEF WriteState
<1>5. row.told = "live"
  BY <1>1, <1>2, <1>3 DEF ContextInv, LogTellsEnd
<1> HIDE DEF row
<1> QED BY <1>1, <1>3, <1>4, <1>5, ChangedRowKeeps

LEMMA AppendEventKeeps ==
    ASSUME ContextInv, AppendEvent
    PROVE  ContextInv'
<1> DEFINE row == [sessions[unlogged] EXCEPT !.told = Told(sessions[unlogged].state)]
<1>1. unlogged \in DOMAIN sessions /\ sessions[unlogged] \in Row
  <2>1. unlogged \in DOMAIN sessions
    BY SessionRow DEF AppendEvent, ContextInv, ContextTypeOK
  <2> QED BY <2>1, SessionRow DEF ContextInv
<1>2. /\ row \in Row /\ row.state = sessions[unlogged].state
      /\ row.told = Told(sessions[unlogged].state)
  BY <1>1 DEF Row, Told, States
<1>3. row.told = "ended" <=> row.state = "ended"
  BY <1>1, <1>2 DEF Told
<1>4. row.told = "abandoned" => row.state = "abandoned"
  BY <1>1, <1>2 DEF Told
<1>5. sessions' = [sessions EXCEPT ![unlogged] = row]
  BY <1>1 DEF AppendEvent
<1>6. unlogged' = 0 /\ UNCHANGED <<doing, over, bound, checked, draft>>
  BY DEF AppendEvent
<1> HIDE DEF row
<1> QED BY <1>1, <1>2, <1>3, <1>4, <1>5, <1>6, ChangedRowKeeps

LEMMA EndSessionKeeps ==
    ASSUME ContextInv, NEW i, NEW a \in Agents, EndSession(i, a)
    PROVE  ContextInv'
<1> DEFINE row == Moved(sessions[i], "ended", "ended")
<1>1. i \in DOMAIN sessions /\ sessions[i] \in Row
  BY SessionRow DEF EndSession, MayChange, ContextInv
<1>2. row \in Row /\ row.state = "ended" /\ row.told = "ended"
  BY <1>1, MovedFacts DEF States
<1>3. sessions' = [sessions EXCEPT ![i] = row] /\ unlogged' = unlogged
      /\ UNCHANGED <<doing, over, bound, checked, draft>>
  BY DEF EndSession
<1> HIDE DEF row
<1> QED BY <1>1, <1>2, <1>3, ChangedRowKeeps

\* The actions that leave the sessions alone.
LEMMA RestKeeps ==
    ASSUME ContextAssumption, ContextInv, UNCHANGED sessions,
           unlogged' \in {0, unlogged},
           doing' \in [Tasks -> Agents \cup {NoAgent}],
           over' \subseteq {k \in Tasks : doing'[k] = NoAgent},
           bound' \in [Places -> SomeTask],
           checked' \subseteq Tasks,
           draft' = {} \/ \E p \in Checkouts, k \in SomeTask : draft' = {[place |-> p, names |-> k]}
    PROVE  ContextInv'
<1>1. unlogged' \in 0..Len(sessions')
  BY SessionRow DEF ContextInv, ContextTypeOK
<1>2. ContextTypeOK'
  BY <1>1 DEF ContextInv, ContextTypeOK
<1> QED BY <1>2 DEF ContextInv, LogTellsEnd

LEMMA CheckpointKeeps ==
    ASSUME ContextAssumption, ContextInv, NEW named, NEW explicit \in SomeTask, NEW cwd,
           CreateCheckpoint(named, explicit, cwd)
    PROVE  ContextInv'
<1>1. ResolveTask(explicit, cwd, ActingAgent(named)) \in SomeTask
  BY ResolveTaskType DEF ContextInv
<1>2. checked' \subseteq Tasks
  BY <1>1 DEF CreateCheckpoint, Checkpoint, SomeTask, ContextInv, ContextTypeOK
<1>3. UNCHANGED <<sessions, unlogged, doing, over, bound, draft>>
  BY DEF CreateCheckpoint
<1> QED BY <1>2, <1>3, RestKeeps DEF ContextInv, ContextTypeOK

LEMMA PrepareKeeps ==
    ASSUME ContextAssumption, ContextInv, NEW named, NEW typed \in SomeTask,
           NEW given \in SomeTask, NEW cwd \in Checkouts,
           PrepareCommit(named, typed, given, cwd)
    PROVE  ContextInv'
<1>1. HookTask(given, cwd, ActingAgent(named)) \in SomeTask
  BY HookTaskType DEF ContextInv
<1>2. FirstOf(HookTask(given, cwd, ActingAgent(named)), typed) \in SomeTask
  BY <1>1, FirstOfType
<1>3. \E k \in SomeTask : draft' = {[place |-> cwd, names |-> k]}
  BY <1>2 DEF PrepareCommit
<1>4. UNCHANGED <<sessions, unlogged, doing, over, bound, checked>>
  BY DEF PrepareCommit
<1> QED BY <1>3, <1>4, RestKeeps DEF ContextInv, ContextTypeOK

LEMMA PostCommitKeeps ==
    ASSUME ContextAssumption, ContextInv, NEW named, NEW given \in SomeTask,
           PostCommit(named, given)
    PROVE  ContextInv'
<1>1. PICK d \in draft :
        checked' = IF HookTask(FirstOf(NamedTask(d.names), given), d.place, ActingAgent(named)) = NoTask
                   THEN checked
                   ELSE checked \cup {HookTask(FirstOf(NamedTask(d.names), given), d.place, ActingAgent(named))}
  BY DEF PostCommit
<1>2. d.names \in SomeTask
  BY DEF ContextInv, ContextTypeOK
<1>3. FirstOf(NamedTask(d.names), given) \in SomeTask
  BY <1>2, FirstOfType DEF NamedTask, SomeTask
<1>4. HookTask(FirstOf(NamedTask(d.names), given), d.place, ActingAgent(named)) \in SomeTask
  BY <1>3, HookTaskType DEF ContextInv
<1>5. checked' \subseteq Tasks
  BY <1>1, <1>4 DEF ContextInv, ContextTypeOK, SomeTask
<1>6. draft' = {} /\ UNCHANGED <<sessions, unlogged, doing, over, bound>>
  BY DEF PostCommit
<1> QED BY <1>5, <1>6, RestKeeps DEF ContextInv, ContextTypeOK

LEMMA TasksKeep ==
    ASSUME ContextAssumption, ContextInv, NEW k \in Tasks,
           FinishTask(k) \/ \E a \in Agents : Work(k, a)
    PROVE  ContextInv'
<1>1. CASE FinishTask(k)
  BY <1>1, RestKeeps DEF ContextInv, ContextTypeOK, FinishTask
<1>2. ASSUME NEW a \in Agents, Work(k, a) PROVE ContextInv'
  <2>1. doing' \in [Tasks -> Agents \cup {NoAgent}]
    BY <1>2 DEF ContextInv, ContextTypeOK, Work
  <2>2. over' \subseteq {j \in Tasks : doing'[j] = NoAgent}
    BY <1>2 DEF ContextInv, ContextTypeOK, Work
  <2> QED BY <1>2, <2>1, <2>2, RestKeeps DEF ContextInv, ContextTypeOK, Work
<1> QED BY <1>1, <1>2

LEMMA WorktreesKeep ==
    ASSUME ContextAssumption, ContextInv, NEW p \in Places,
           UnbindWorktree(p) \/ \E k \in Tasks : BindWorktree(p, k)
    PROVE  ContextInv'
<1>1. bound' \in [Places -> SomeTask]
  BY DEF ContextInv, ContextTypeOK, UnbindWorktree, BindWorktree, SomeTask
<1>2. UNCHANGED <<sessions, unlogged, doing, over, checked, draft>>
  BY DEF UnbindWorktree, BindWorktree
<1> QED BY <1>1, <1>2, RestKeeps DEF ContextInv, ContextTypeOK

LEMMA ContextStep == ContextAssumption /\ ContextInv /\ [ContextNext]_contextVars => ContextInv'
<1> SUFFICES ASSUME ContextAssumption, ContextInv, [ContextNext]_contextVars PROVE ContextInv'
  OBVIOUS
<1>1. ASSUME NEW a \in Agents, NEW p \in Checkouts, NEW cwd \in Checkouts, NEW k \in SomeTask,
             StartSession(a, p, k, cwd)
      PROVE  ContextInv'
  BY <1>1, StartKeeps
<1>2. ASSUME NEW i \in 1..MaxSessions, NEW a \in Agents,
             Pause(i, a) \/ Resume(i, a) \/ Abandon(i, a) \/ EndSession(i, a)
      PROVE  ContextInv'
  BY <1>2, WriteStateKeeps, EndSessionKeeps DEF Pause, Resume, Abandon
<1>3. CASE AppendEvent
  BY <1>3, AppendEventKeeps
<1>4. CASE CrashUnlogged
  BY <1>4, RestKeeps DEF CrashUnlogged, ContextInv, ContextTypeOK
<1>5. ASSUME NEW a \in Agents \cup {NoAgent}, NEW k \in SomeTask, NEW cwd \in Checkouts,
             CreateCheckpoint(a, k, cwd) \/ \E typed \in SomeTask : PrepareCommit(a, typed, k, cwd)
      PROVE  ContextInv'
  BY <1>5, CheckpointKeeps, PrepareKeeps
<1>6. ASSUME NEW a \in Agents \cup {NoAgent}, NEW k \in SomeTask, PostCommit(a, k)
      PROVE  ContextInv'
  BY <1>6, PostCommitKeeps
<1>7. ASSUME NEW k \in Tasks, FinishTask(k) \/ \E a \in Agents : Work(k, a)
      PROVE  ContextInv'
  BY <1>7, TasksKeep
<1>8. ASSUME NEW p \in Places, UnbindWorktree(p) \/ \E k \in Tasks : BindWorktree(p, k)
      PROVE  ContextInv'
  BY <1>8, WorktreesKeep
<1>9. CASE UNCHANGED contextVars
  BY <1>9, RestKeeps DEF contextVars, ContextInv, ContextTypeOK
<1> QED BY <1>1, <1>2, <1>3, <1>4, <1>5, <1>6, <1>7, <1>8, <1>9 DEF ContextNext

LEMMA ContextInvariant == ContextAssumption /\ ContextSpec => []ContextInv
<1>1. ContextAssumption /\ ContextInit => ContextInv
  BY ContextInitInv
<1>2. ContextAssumption /\ ContextInv /\ [ContextNext]_contextVars => ContextInv'
  BY ContextStep
<1> QED BY <1>1, <1>2, ContextAssumption, PTL DEF ContextSpec

\* The rows of sessions, the tasks, the worktrees and the commit in flight keep
\* their types, for any agents, tasks, worktrees and number of sessions.
THEOREM ContextTypeCorrect == ContextSpec => []ContextTypeOK
<1>1. ContextInv => ContextTypeOK
  BY DEF ContextInv
<1>2. ContextSpec => []ContextInv
  BY ContextInvariant, ContextAssumption
<1> QED BY <1>1, <1>2, PTL

\* The log says of a session that it has ended just when its row does, wherever a
\* process died between the row and the event.
THEOREM LogTellsEndTheorem == ContextSpec => []LogTellsEnd
<1>1. ContextInv => LogTellsEnd
  BY DEF ContextInv
<1>2. ContextSpec => []ContextInv
  BY ContextInvariant, ContextAssumption
<1> QED BY <1>1, <1>2, PTL

\* A commit that names no task gets the task of a session only where that session
\* works, or where it works anywhere, and only when it is the only one with a task.
THEOREM TagBelongsHereTheorem == ContextSpec => []TagBelongsHere
<1>1. ContextInv => TagBelongsHere
  <2> SUFFICES ASSUME ContextInv, NEW a \in Agents \cup {NoAgent}, NEW cwd \in Checkouts,
                      HookTask(NoTask, cwd, a) # NoTask,
                      HookTask(NoTask, cwd, a) \notin {TaskHere(cwd), OnlyTaskOf(a)},
                      NEW i \in Active, sessions[i].task # NoTask
               PROVE  /\ sessions[i].task = HookTask(NoTask, cwd, a)
                      /\ sessions[i].place \in {NoPlace, cwd}
    BY DEF TagBelongsHere
  <2>1. SessionTask(cwd) # NoTask /\ HookTask(NoTask, cwd, a) = SessionTask(cwd)
    BY DEF HookTask, FirstOf
  <2>2. PICK s \in Active : /\ {j \in Active : sessions[j].task # NoTask} = {s}
                            /\ sessions[s].place \in {NoPlace, cwd}
                            /\ SessionTask(cwd) = sessions[s].task
    BY <2>1, SessionTaskFacts DEF ContextInv
  <2>3. i = s
    BY <2>2
  <2> QED BY <2>1, <2>2, <2>3
<1>2. ContextSpec => []ContextInv
  BY ContextInvariant, ContextAssumption
<1> QED BY <1>1, <1>2, PTL

\* A session that starts takes the place of what its agent has active there.
LEMMA StartSupersedes ==
    ASSUME ContextInv, NEW a \in Agents, NEW place \in Checkouts, NEW k \in SomeTask,
           NEW cwd \in Checkouts, StartSession(a, place, k, cwd)
    PROVE  ResumeOnly
<1>1. /\ Len(sessions) \in Nat /\ DOMAIN sessions = 1..Len(sessions)
      /\ DOMAIN sessions' = 1..(Len(sessions) + 1)
  BY StartFacts, SessionRow, LenProperties DEF ContextInv
<1>2. ASSUME NEW i \in Active', i # Len(sessions) + 1
      PROVE  /\ i \in Active /\ i \notin FindActive(a, place) /\ sessions'[i] = sessions[i]
  <2>1. i \in DOMAIN sessions /\ sessions'[i].state = "active"
    BY <1>1, <1>2 DEF Active
  <2>2. sessions'[i] = IF i \in FindActive(a, place)
                       THEN Moved(sessions[i], "ended", "ended") ELSE sessions[i]
    BY <2>1, StartFacts DEF ContextInv
  <2>3. Moved(sessions[i], "ended", "ended").state = "ended"
    BY <2>1, SessionRow, MovedFacts DEF ContextInv, States
  <2> QED BY <2>1, <2>2, <2>3 DEF Active
<1>3. SUFFICES ASSUME NEW i \in Active', NEW j \in Active', i < j,
                      sessions'[i].agent = sessions'[j].agent,
                      sessions'[i].place = sessions'[j].place,
                      ~({i, j} \subseteq Active)
               PROVE  FALSE
  BY DEF ResumeOnly
<1>4. i \in 1..(Len(sessions) + 1) /\ j \in 1..(Len(sessions) + 1)
  BY <1>1 DEF Active
<1>5. j = Len(sessions) + 1 /\ i # Len(sessions) + 1
  BY <1>1, <1>2, <1>3, <1>4
<1>6. i \in Active /\ i \notin FindActive(a, place) /\ sessions'[i] = sessions[i]
  BY <1>2, <1>5
<1>7. sessions'[j].agent = a /\ sessions'[j].place = place
  BY <1>5, StartFacts DEF ContextInv
<1> QED BY <1>3, <1>6, <1>7 DEF FindActive

\* When one row changes in place, only a paused one becomes active.
LEMMA ChangedRowResumes ==
    ASSUME ContextInv, NEW i \in DOMAIN sessions, NEW row \in Row,
           sessions' = [sessions EXCEPT ![i] = row],
           row.state = "active" => sessions[i].state \in {"active", "paused"}
    PROVE  ResumeOnly
<1>1. /\ DOMAIN sessions' = DOMAIN sessions
      /\ \A j \in DOMAIN sessions : sessions'[j] = IF j = i THEN row ELSE sessions[j]
  BY ChangedRowFacts DEF ContextInv
<1>2. \A j \in Active' : j \in DOMAIN sessions /\ (j \in Active \/ sessions[j].state = "paused")
  BY <1>1 DEF Active
<1> QED BY <1>2 DEF ResumeOnly

LEMMA SessionsUnchanged == UNCHANGED sessions => ResumeOnly
BY DEF ResumeOnly, Active

\* Two sessions of one agent in one place are both active only after one of them
\* was resumed: no start, end or event makes them so.
THEOREM TwoActiveOnlyByResumeTheorem == ContextSpec => TwoActiveOnlyByResume
<1>1. ContextInv /\ [ContextNext]_contextVars => [ResumeOnly]_contextVars
  <2> SUFFICES ASSUME ContextInv, ContextNext PROVE ResumeOnly
    OBVIOUS
  <2>1. ASSUME NEW a \in Agents, NEW p \in Checkouts, NEW cwd \in Checkouts, NEW k \in SomeTask,
               StartSession(a, p, k, cwd)
        PROVE  ResumeOnly
    BY <2>1, StartSupersedes
  <2>2. ASSUME NEW i, NEW a \in Agents, NEW to \in {"paused", "active", "abandoned"},
               WriteState(i, a, to)
        PROVE  ResumeOnly
    <3> DEFINE row == Moved(sessions[i], to, sessions[i].told)
    <3>1. i \in DOMAIN sessions /\ sessions[i] \in Row /\ CanTransition(sessions[i].state, to)
      BY <2>2, SessionRow DEF WriteState, MayChange, ContextInv
    <3>2. row \in Row /\ row.state = to
      BY <3>1, MovedFacts DEF States, Row
    <3>3. sessions' = [sessions EXCEPT ![i] = row]
      BY <2>2 DEF WriteState
    <3>4. to = "active" => sessions[i].state = "paused"
      BY <3>1 DEF CanTransition
    <3> HIDE DEF row
    <3> QED BY <3>1, <3>2, <3>3, <3>4, ChangedRowResumes
  <2>3. ASSUME NEW i, NEW a \in Agents, EndSession(i, a) PROVE ResumeOnly
    <3> DEFINE row == Moved(sessions[i], "ended", "ended")
    <3>1. i \in DOMAIN sessions /\ sessions[i] \in Row
      BY <2>3, SessionRow DEF EndSession, MayChange, ContextInv
    <3>2. row \in Row /\ row.state = "ended"
      BY <3>1, MovedFacts DEF States
    <3>3. sessions' = [sessions EXCEPT ![i] = row]
      BY <2>3 DEF EndSession
    <3> HIDE DEF row
    <3> QED BY <3>1, <3>2, <3>3, ChangedRowResumes
  <2>4. CASE AppendEvent
    <3> DEFINE row == [sessions[unlogged] EXCEPT !.told = Told(sessions[unlogged].state)]
    <3>1. unlogged \in DOMAIN sessions
      BY <2>4, SessionRow DEF AppendEvent, ContextInv, ContextTypeOK
    <3>2. row \in Row /\ row.state = sessions[unlogged].state
      BY <3>1, SessionRow DEF Row, Told, States, ContextInv
    <3>3. sessions' = [sessions EXCEPT ![unlogged] = row]
      BY <2>4, <3>1 DEF AppendEvent
    <3> HIDE DEF row
    <3> QED BY <3>1, <3>2, <3>3, ChangedRowResumes
  <2>5. ASSUME \/ CrashUnlogged
               \/ \E a \in Agents \cup {NoAgent}, k \in SomeTask, cwd \in Checkouts :
                     CreateCheckpoint(a, k, cwd) \/ \E typed \in SomeTask : PrepareCommit(a, typed, k, cwd)
               \/ \E a \in Agents \cup {NoAgent}, k \in SomeTask : PostCommit(a, k)
               \/ \E k \in Tasks : FinishTask(k) \/ \E a \in Agents : Work(k, a)
               \/ \E p \in Places : UnbindWorktree(p) \/ \E k \in Tasks : BindWorktree(p, k)
        PROVE  ResumeOnly
    <3>1. UNCHANGED sessions
      BY <2>5 DEF CrashUnlogged, CreateCheckpoint, PrepareCommit, PostCommit, FinishTask, Work,
                  UnbindWorktree, BindWorktree
    <3> QED BY <3>1, SessionsUnchanged
  <2> QED BY <2>1, <2>2, <2>3, <2>4, <2>5 DEF ContextNext, Pause, Resume, Abandon
<1>2. ContextSpec => []ContextInv
  BY ContextInvariant, ContextAssumption
<1> QED BY <1>1, <1>2, PTL DEF ContextSpec, TwoActiveOnlyByResume, ResumeOnly

\* When one row changes in place, it ends only by session end, which asks for the
\* checkpoint.
LEMMA ChangedRowSupersedes ==
    ASSUME ContextInv, NEW i \in DOMAIN sessions, NEW row \in Row,
           sessions' = [sessions EXCEPT ![i] = row],
           row.state = "ended" => sessions[i].state = "ended" \/ Recorded(i) \/ ~Required \/ Attended
    PROVE  SupersededOnly
<1>1. \A j \in DOMAIN sessions : sessions'[j] = IF j = i THEN row ELSE sessions[j]
  BY ChangedRowFacts DEF ContextInv
<1> QED BY <1>1 DEF SupersededOnly, Recorded

\* Where a checkpoint is required and nobody is asked, no session ends without one
\* but by a later session of its agent: not when it is paused, resumed or abandoned,
\* nor when a process dies between the row and its event.
THEOREM EndedUnrecordedTheorem == ContextSpec => EndedUnrecorded
<1>1. ContextInv /\ [ContextNext]_contextVars => [SupersededOnly]_contextVars
  <2> SUFFICES ASSUME ContextInv, ContextNext PROVE SupersededOnly
    OBVIOUS
  <2>1. ASSUME NEW a \in Agents, NEW p \in Checkouts, NEW cwd \in Checkouts, NEW k \in SomeTask,
               StartSession(a, p, k, cwd)
        PROVE  SupersededOnly
    <3>1. /\ Len(sessions') = Len(sessions) + 1 /\ sessions'[Len(sessions')].agent = a
          /\ \A i \in DOMAIN sessions : i \notin FindActive(a, p) => sessions'[i] = sessions[i]
      BY <2>1, StartFacts DEF ContextInv
    <3>2. \A i \in FindActive(a, p) : sessions[i].agent = a
      BY DEF FindActive
    <3> QED BY <3>1, <3>2 DEF SupersededOnly
  <2>2. ASSUME NEW i, NEW a \in Agents, NEW to \in {"paused", "active", "abandoned"},
               WriteState(i, a, to)
        PROVE  SupersededOnly
    <3> DEFINE row == Moved(sessions[i], to, sessions[i].told)
    <3>1. i \in DOMAIN sessions /\ sessions[i] \in Row
      BY <2>2, SessionRow DEF WriteState, MayChange, ContextInv
    <3>2. row \in Row /\ row.state = to
      BY <3>1, MovedFacts DEF States, Row
    <3>3. sessions' = [sessions EXCEPT ![i] = row]
      BY <2>2 DEF WriteState
    <3> HIDE DEF row
    <3> QED BY <3>1, <3>2, <3>3, ChangedRowSupersedes
  <2>3. ASSUME NEW i, NEW a \in Agents, EndSession(i, a) PROVE SupersededOnly
    <3> DEFINE row == Moved(sessions[i], "ended", "ended")
    <3>1. i \in DOMAIN sessions /\ sessions[i] \in Row
      BY <2>3, SessionRow DEF EndSession, MayChange, ContextInv
    <3>2. row \in Row
      BY <3>1, MovedFacts DEF States
    <3>3. sessions' = [sessions EXCEPT ![i] = row] /\ (Recorded(i) \/ ~Required \/ Attended)
      BY <2>3 DEF EndSession
    <3> HIDE DEF row
    <3> QED BY <3>1, <3>2, <3>3, ChangedRowSupersedes
  <2>4. CASE AppendEvent
    <3> DEFINE row == [sessions[unlogged] EXCEPT !.told = Told(sessions[unlogged].state)]
    <3>1. unlogged \in DOMAIN sessions
      BY <2>4, SessionRow DEF AppendEvent, ContextInv, ContextTypeOK
    <3>2. row \in Row /\ row.state = sessions[unlogged].state
      BY <3>1, SessionRow DEF Row, Told, States, ContextInv
    <3>3. sessions' = [sessions EXCEPT ![unlogged] = row]
      BY <2>4, <3>1 DEF AppendEvent
    <3> HIDE DEF row
    <3> QED BY <3>1, <3>2, <3>3, ChangedRowSupersedes
  <2>5. CASE UNCHANGED sessions
    BY <2>5 DEF SupersededOnly
  <2> QED BY <2>1, <2>2, <2>3, <2>4, <2>5 DEF ContextNext, Pause, Resume, Abandon, CrashUnlogged,
        CreateCheckpoint, PrepareCommit, PostCommit, FinishTask, Work, UnbindWorktree, BindWorktree
<1>2. ContextSpec => []ContextInv
  BY ContextInvariant, ContextAssumption
<1> QED BY <1>1, <1>2, PTL DEF ContextSpec, EndedUnrecorded, SupersededOnly
=============================================================================
