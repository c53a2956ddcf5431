------------------------ MODULE ProjectIdentityProofs ------------------------
(***************************************************************************)
(* Proofs about ProjectIdentity, for any clones, processes, binaries and   *)
(* number of commands: types, OneIdentity, ImageKept, NeverTouchesNewer.   *)
(*                                                                         *)
(* All rest on what a running command still knows of its clone, step by    *)
(* step, because it holds the clone's lock: that the schema is one it      *)
(* understands, that the image it is about to replace is saved, and which  *)
(* project rows and which config.toml it found (Knows).                    *)
(***************************************************************************)
EXTENDS ProjectIdentity, TLAPS

Writing == {"upgrade", "row", "load", "work", "copy", "swap"}

\* Initialisation and first import, from the lock to the project row.
Settling == {"open", "upgrade", "row", "load"}

\* A command past its lock.
Holds(p) == cmd[p].at \in Locked => Here(p) \in Clones /\ lock[Here(p)] = p

KnowsSchema(p) ==
    cmd[p].at \in Writing =>
        /\ Understands(p, db[Here(p)])
        /\ cmd[p].at \in {"upgrade", "copy", "swap"} /\ db[Here(p)].schema # 0
              => db[Here(p)] \in saved

\* What kind of command gets to a step.
KnowsStep(p) ==
    /\ cmd[p].at \in {"register", "list"} => cmd[p].op \in {"init", "fresh"}
    /\ cmd[p].op \in {"init", "fresh"} /\ cmd[p].at # "idle" => cmd[p].id \in Ids
    /\ cmd[p].at = "config" => cmd[p].op \in {"init", "fresh"}
    /\ cmd[p].at = "row" => cmd[p].op = "init"
    /\ cmd[p].at = "load" => cmd[p].op = "fresh"
    /\ cmd[p].at = "ask" => Here(p) \in Clones
    /\ cmd[p].op = "fresh" /\ cmd[p].at # "idle" => cmd[p].image.rows = {cmd[p].id}
    /\ cmd[p].op \in {"init", "fresh"} => cmd[p].at \notin {"backup", "copy", "swap", "work"}

KnowsIdentity(p) ==
    LET c == Here(p)
        i == cmd[p].id
    IN  cmd[p].op \in {"init", "fresh"} /\ c \notin moved =>
          /\ cmd[p].at \in {"config"} \cup Settling =>
                IF cmd[p].op = "init" THEN db[c].rows \subseteq {i} ELSE db[c].rows = {}
          /\ cmd[p].at \in Settling => config[c] \in {i, NoId}

Knows(p) == Holds(p) /\ KnowsSchema(p) /\ KnowsStep(p) /\ KnowsIdentity(p)

IdentityInv == TypeOK /\ OneIdentity /\ \A p \in Procs : Knows(p)

-----------------------------------------------------------------------------
(* Records *)

LEMMA ImageFacts ==
    /\ Blank \in Images /\ Blank.rows = {} /\ Blank.work = {} /\ Blank.schema = 0
    /\ \A image \in Images : /\ image.rows \subseteq Ids /\ image.work \subseteq Ids
                             /\ image.schema \in Nat
BY DEF Blank, Images

LEMMA IdleFacts ==
    Idle \in Commands /\ Idle.at = "idle" /\ Idle.op = "none"
BY ImageFacts DEF Idle, Commands

LEMMA CommandFacts ==
    \A c \in Commands :
       /\ c.at \in {"idle", "ask"} \cup Locked /\ c.clone \in Clones \cup {NoClone}
       /\ c.id \in Ids \cup {NoId} /\ c.image \in Images /\ c.listed \subseteq Ids
       /\ c.op \in {"none", "init", "fresh", "replace", "restore", "pull", "work"}
BY DEF Commands

\* A command that starts.
LEMMA BeginFacts ==
    ASSUME TypeOK, NEW p \in Procs, NEW c \in Clones, NEW op, NEW step, NEW i, NEW image,
           op \in {"init", "fresh", "replace", "restore", "pull", "work"},
           step \in {"ask"} \cup Locked, i \in Ids \cup {NoId}, image \in Images,
           Begin(p, c, op, step, i, image)
    PROVE  /\ cmd' \in [Procs -> Commands] /\ started' \in 0..MaxCommands
           /\ cmd'[p].at = step /\ cmd'[p].op = op /\ cmd'[p].clone = c
           /\ cmd'[p].id = i /\ cmd'[p].image = image
           /\ \A q \in Procs \ {p} : cmd'[q] = cmd[q]
<1> DEFINE r == [at |-> step, op |-> op, clone |-> c, id |-> i, image |-> image, listed |-> {}]
<1>1. r \in Commands
  BY DEF Commands
<1>2. cmd' = [cmd EXCEPT ![p] = r]
  BY DEF Begin
<1>3. cmd \in [Procs -> Commands]
  BY DEF TypeOK
<1>4. cmd'[p] = r /\ cmd' \in [Procs -> Commands] /\ \A q \in Procs \ {p} : cmd'[q] = cmd[q]
  BY <1>1, <1>2, <1>3
<1>5. started' \in 0..MaxCommands
  BY IdentityAssumption DEF Begin, TypeOK
<1> QED BY <1>4, <1>5

\* A command that goes on to another step.
LEMMA GotoFacts ==
    ASSUME TypeOK, NEW p \in Procs, NEW step, step \in Locked, Goto(p, step)
    PROVE  /\ cmd' \in [Procs -> Commands]
           /\ cmd'[p].at = step /\ cmd'[p].op = cmd[p].op /\ cmd'[p].clone = cmd[p].clone
           /\ cmd'[p].id = cmd[p].id /\ cmd'[p].image = cmd[p].image
           /\ \A q \in Procs \ {p} : cmd'[q] = cmd[q]
BY DEF TypeOK, Goto, Commands

\* A command that ends.
LEMMA EndFacts ==
    ASSUME TypeOK, NEW p \in Procs, End(p)
    PROVE  /\ cmd' \in [Procs -> Commands] /\ cmd'[p] = Idle
           /\ lock' \in [Clones -> Procs \cup {NoProc}]
           /\ \A q \in Procs \ {p} : cmd'[q] = cmd[q]
           /\ \A c \in Clones : lock[c] # p => lock'[c] = lock[c]
BY IdleFacts DEF TypeOK, End

LEMMA AcquireFacts ==
    ASSUME TypeOK, NEW p \in Procs, NEW c \in Clones, Acquire(p, c)
    PROVE  /\ lock' \in [Clones -> Procs \cup {NoProc}] /\ lock'[c] = p
           /\ \A d \in Clones : lock[d] # NoProc => lock'[d] = lock[d]
BY DEF TypeOK, Acquire

LEMMA IdleKnows ==
    ASSUME NEW p \in Procs, cmd'[p] = Idle
    PROVE  Knows(p)'
BY IdleFacts DEF Knows, Holds, KnowsSchema, KnowsStep, KnowsIdentity, Locked, Writing, Settling

\* What a command knows stays true as long as its clone is left alone.
LEMMA OthersKnow ==
    ASSUME IdentityInv, NEW q \in Procs, cmd'[q] = cmd[q],
           moved \subseteq moved', saved \subseteq saved',
           cmd[q].at \in Locked =>
              /\ lock'[Here(q)] = lock[Here(q)] /\ db'[Here(q)] = db[Here(q)]
              /\ config'[Here(q)] = config[Here(q)]
    PROVE  Knows(q)'
<1>1. Knows(q)
  BY DEF IdentityInv
<1>2. Writing \subseteq Locked /\ {"config"} \cup Settling \subseteq Locked
  BY DEF Writing, Locked, Settling
<1>3. Holds(q)' /\ KnowsStep(q)'
  BY <1>1 DEF Knows, Holds, KnowsStep, Here
<1>4. KnowsSchema(q)'
  BY <1>1, <1>2 DEF Knows, KnowsSchema, Here, Understands
<1>5. KnowsIdentity(q)'
  BY <1>1, <1>2 DEF Knows, KnowsIdentity, Here
<1> QED BY <1>3, <1>4, <1>5 DEF Knows

\* Two commands past their locks are in two clones.
LEMMA Apart ==
    ASSUME IdentityInv, NEW p \in Procs, NEW q \in Procs \ {p},
           cmd[p].at \in Locked, cmd[q].at \in Locked
    PROVE  Here(p) \in Clones /\ Here(q) \in Clones /\ Here(p) # Here(q)
           /\ lock[Here(q)] # p /\ lock[Here(p)] = p
BY DEF IdentityInv, Knows, Holds

\* A holder's clone is not free.
LEMMA NotFree ==
    ASSUME IdentityInv, NEW q \in Procs, cmd[q].at \in Locked
    PROVE  Here(q) \in Clones /\ lock[Here(q)] = q /\ lock[Here(q)] # NoProc
BY IdentityAssumption DEF IdentityInv, Knows, Holds

-----------------------------------------------------------------------------
(* The steps *)

LEMMA InitInv == Init => IdentityInv
<1> SUFFICES ASSUME Init
             PROVE  IdentityInv
  OBVIOUS
<1>1. TypeOK
  BY ImageFacts, IdleFacts, IdentityAssumption DEF Init, TypeOK
<1>2. OneIdentity
  BY ImageFacts DEF Init, OneIdentity
<1>3. ASSUME NEW p \in Procs PROVE Knows(p)
  BY IdleFacts DEF Init, Knows, Holds, KnowsSchema, KnowsStep, KnowsIdentity, Locked, Writing, Settling
<1> QED BY <1>1, <1>2, <1>3 DEF IdentityInv

\* A command that starts without the lock.
LEMMA AsksKeep ==
    ASSUME IdentityInv, NEW p \in Procs, NEW c \in Clones, AskFresh(p, c) \/ AskReplace(p, c)
    PROVE  IdentityInv'
<1>1. PICK b \in bundles, op \in {"fresh", "replace"} :
         Begin(p, c, op, "ask", b.id, Loaded(p, b))
  BY DEF AskFresh, AskReplace
<1>2. UNCHANGED <<config, db, saved, bundles, remote, registry, lock, minted, moved>>
  BY DEF AskFresh, AskReplace, outside
<1>3. b.id \in Ids /\ Loaded(p, b) \in Images /\ Loaded(p, b).rows = {b.id}
  BY IdentityAssumption DEF IdentityInv, TypeOK, Bundle, Loaded, Images
<1>4. TypeOK
  BY DEF IdentityInv
<1>5. /\ cmd' \in [Procs -> Commands] /\ started' \in 0..MaxCommands
      /\ cmd'[p].at = "ask" /\ cmd'[p].op = op /\ cmd'[p].clone = c
      /\ cmd'[p].id = b.id /\ cmd'[p].image = Loaded(p, b)
      /\ \A q \in Procs \ {p} : cmd'[q] = cmd[q]
  BY <1>1, <1>3, <1>4, BeginFacts
<1>6. Knows(p)'
  BY <1>3, <1>5 DEF Knows, Holds, KnowsSchema, KnowsStep, KnowsIdentity, Locked, Writing,
                    Settling, Here
<1>7. \A q \in Procs \ {p} : Knows(q)'
  BY <1>2, <1>5, OthersKnow
<1>8. TypeOK' /\ OneIdentity'
  BY <1>2, <1>5 DEF IdentityInv, TypeOK, OneIdentity
<1> QED BY <1>6, <1>7, <1>8 DEF IdentityInv

\* A command that starts with the lock and changes nothing yet.
LEMMA StartsKeep ==
    ASSUME IdentityInv, NEW p \in Procs, NEW c \in Clones, NEW op, NEW step, NEW i, NEW image,
           Begin(p, c, op, step, i, image), Acquire(p, c),
           UNCHANGED <<config, db, saved, bundles, remote, registry, moved>>,
           minted' \subseteq Ids, i \in Ids \cup {NoId}, image \in Images,
           \/ op = "init" /\ step = "config" /\ i \in Ids /\ (c \notin moved => db[c].rows \subseteq {i})
           \/ op = "work" /\ step = "open"
           \/ op \in {"restore", "pull"} /\ step = "backup"
    PROVE  IdentityInv'
<1>1. TypeOK
  BY DEF IdentityInv
<1>2. op \in {"init", "work", "restore", "pull"} /\ step \in {"config", "open", "backup"}
  OBVIOUS
<1>3. step \in Locked
  BY <1>2 DEF Locked
<1>4. /\ cmd' \in [Procs -> Commands] /\ started' \in 0..MaxCommands
      /\ cmd'[p].at = step /\ cmd'[p].op = op /\ cmd'[p].clone = c
      /\ cmd'[p].id = i /\ cmd'[p].image = image
      /\ \A q \in Procs \ {p} : cmd'[q] = cmd[q]
  BY <1>1, <1>2, <1>3, BeginFacts
<1>5. /\ lock' \in [Clones -> Procs \cup {NoProc}] /\ lock'[c] = p
      /\ \A d \in Clones : lock[d] # NoProc => lock'[d] = lock[d]
  BY <1>1, AcquireFacts
<1>6. Knows(p)'
  <2>1. Holds(p)' /\ KnowsSchema(p)'
    BY <1>2, <1>4, <1>5 DEF Holds, KnowsSchema, Here, Writing
  <2>2. KnowsStep(p)'
    BY <1>4 DEF KnowsStep, Here
  <2>3. KnowsIdentity(p)'
    BY <1>4 DEF KnowsIdentity, Here, Settling
  <2> QED BY <2>1, <2>2, <2>3 DEF Knows
<1>7. ASSUME NEW q \in Procs \ {p} PROVE Knows(q)'
  BY <1>4, <1>5, OthersKnow, NotFree
<1>8. TypeOK' /\ OneIdentity'
  BY <1>4, <1>5 DEF IdentityInv, TypeOK, OneIdentity
<1> QED BY <1>6, <1>7, <1>8 DEF IdentityInv

LEMMA InitProjectKeeps ==
    ASSUME IdentityInv, NEW p \in Procs, NEW c \in Clones, NEW force \in BOOLEAN,
           InitProject(p, c, force)
    PROVE  IdentityInv'
<1>1. PICK i \in InitIdentity(c, force) :
         Begin(p, c, "init", "config", i, Blank) /\ minted' = minted \cup {i}
  BY DEF InitProject
<1>2. TypeOK /\ OneIdentity
  BY DEF IdentityInv
<1>3. config[c] \in Ids \cup {NoId} /\ db[c].rows \subseteq Ids /\ minted \subseteq Ids
  BY <1>2, ImageFacts DEF TypeOK
<1>4. i \in Ids
  BY <1>1, <1>3 DEF InitIdentity
<1>5. c \notin moved => db[c].rows \subseteq {i}
  <2>1. CASE config[c] # NoId
    BY <1>1, <1>2, <2>1 DEF InitIdentity, OneIdentity
  <2>2. CASE config[c] = NoId /\ db[c].rows # {}
    BY <1>1, <1>2, <2>2 DEF InitIdentity, OneIdentity, InitProject
  <2>3. CASE db[c].rows = {}
    BY <2>3
  <2> QED BY <2>1, <2>2, <2>3
<1>6. UNCHANGED <<config, db, saved, bundles, remote, registry, moved>> /\ Acquire(p, c)
  BY DEF InitProject, outside
<1>7. minted' \subseteq Ids
  BY <1>1, <1>3, <1>4
<1>8. Blank \in Images
  BY ImageFacts
<1> HIDE DEF InitIdentity
<1> QED BY <1>1, <1>4, <1>5, <1>6, <1>7, <1>8, StartsKeep

LEMMA OtherStartsKeep ==
    ASSUME IdentityInv, NEW p \in Procs, NEW c \in Clones,
           Work(p, c) \/ StartRestore(p, c) \/ StartPull(p, c)
    PROVE  IdentityInv'
<1>1. /\ UNCHANGED <<config, db, saved, bundles, remote, registry, moved>> /\ Acquire(p, c)
      /\ minted' \subseteq Ids /\ saved \subseteq Images /\ Blank \in Images
  BY ImageFacts DEF Work, StartRestore, StartPull, outside, IdentityInv, TypeOK
<1>2. CASE Work(p, c)
  BY <1>1, <1>2, StartsKeep DEF Work
<1>3. CASE StartPull(p, c)
  BY <1>1, <1>3, StartsKeep DEF StartPull
<1>4. CASE StartRestore(p, c)
  <2>1. PICK image \in saved : Begin(p, c, "restore", "backup", NoId, image)
    BY <1>4 DEF StartRestore
  <2> QED BY <1>1, <2>1, StartsKeep
<1> QED BY <1>2, <1>3, <1>4

LEMMA LocksKeep ==
    ASSUME IdentityInv, NEW p \in Procs, LockFresh(p) \/ LockReplace(p)
    PROVE  IdentityInv'
<1>1. TypeOK /\ Knows(p)
  BY DEF IdentityInv
<1>2. PICK step \in {"config", "backup"} :
         /\ Goto(p, step)
         /\ step = "config" => LockFresh(p)
         /\ step = "backup" => LockReplace(p)
  BY DEF LockFresh, LockReplace
<1>3. Here(p) \in Clones /\ Acquire(p, Here(p)) /\ cmd[p].at = "ask"
  BY <1>1 DEF Knows, KnowsStep, LockFresh, LockReplace, At
<1>4. UNCHANGED <<config, db, saved, bundles, remote, registry, minted, moved, started>>
  BY DEF LockFresh, LockReplace, outside, history
<1>5. /\ cmd' \in [Procs -> Commands]
      /\ cmd'[p].at = step /\ cmd'[p].op = cmd[p].op /\ cmd'[p].clone = cmd[p].clone
      /\ cmd'[p].id = cmd[p].id /\ cmd'[p].image = cmd[p].image
      /\ \A q \in Procs \ {p} : cmd'[q] = cmd[q]
  BY <1>1, <1>2, GotoFacts DEF Locked
<1>6. /\ lock' \in [Clones -> Procs \cup {NoProc}] /\ lock'[Here(p)] = p
      /\ \A d \in Clones : lock[d] # NoProc => lock'[d] = lock[d]
  BY <1>1, <1>3, AcquireFacts
<1>7. Knows(p)'
  <2>1. Holds(p)' /\ KnowsSchema(p)'
    BY <1>3, <1>5, <1>6 DEF Holds, KnowsSchema, Here, Writing
  <2>2. step = "config" => cmd[p].op = "fresh" /\ db[Here(p)].rows = {}
    BY <1>2 DEF LockFresh, StillEmpty
  <2>3. step = "backup" => cmd[p].op = "replace"
    BY <1>2 DEF LockReplace
  <2>4. KnowsStep(p)'
    BY <1>1, <1>3, <1>5, <2>2, <2>3 DEF Knows, KnowsStep, Here
  <2>5. KnowsIdentity(p)'
    BY <1>4, <1>5, <2>2, <2>3 DEF KnowsIdentity, Here, Settling
  <2> QED BY <2>1, <2>4, <2>5 DEF Knows
<1>8. ASSUME NEW q \in Procs \ {p} PROVE Knows(q)'
  BY <1>4, <1>5, <1>6, OthersKnow, NotFree
<1>9. TypeOK' /\ OneIdentity'
  BY <1>4, <1>5, <1>6 DEF IdentityInv, TypeOK, OneIdentity
<1> QED BY <1>7, <1>8, <1>9 DEF IdentityInv

\* A step of a command past its lock leaves what the others know.
LEMMA HolderSteps ==
    ASSUME IdentityInv, NEW p \in Procs, cmd[p].at \in Locked,
           \A q \in Procs \ {p} : cmd'[q] = cmd[q],
           moved \subseteq moved', saved \subseteq saved',
           \A c \in Clones : lock[c] # p => lock'[c] = lock[c],
           \A c \in Clones \ {Here(p)} : db'[c] = db[c] /\ config'[c] = config[c]
    PROVE  \A q \in Procs \ {p} : Knows(q)'
<1> SUFFICES ASSUME NEW q \in Procs \ {p}
             PROVE  Knows(q)'
  OBVIOUS
<1>1. CASE cmd[q].at \in Locked
  BY <1>1, Apart, OthersKnow
<1>2. CASE cmd[q].at \notin Locked
  BY <1>2, OthersKnow
<1> QED BY <1>1, <1>2

\* What the command of a step past the lock is known to be.
LEMMA HolderFacts ==
    ASSUME IdentityInv, NEW p \in Procs, cmd[p].at \in Locked
    PROVE  /\ TypeOK /\ Knows(p) /\ Here(p) \in Clones /\ lock[Here(p)] = p
           /\ db[Here(p)] \in Images /\ config[Here(p)] \in Ids \cup {NoId}
           /\ cmd[p] \in Commands /\ Version[p] \in Nat \ {0}
BY IdentityAssumption DEF IdentityInv, Knows, Holds, TypeOK

LEMMA WriteConfigKeeps ==
    ASSUME IdentityInv, NEW p \in Procs, WriteConfig(p)
    PROVE  IdentityInv'
<1>1. cmd[p].at = "config" /\ cmd[p].at \in Locked /\ "open" \in Locked
  BY DEF WriteConfig, At, Locked
<1>2. /\ TypeOK /\ Knows(p) /\ Here(p) \in Clones
      /\ config' = [config EXCEPT ![Here(p)] = cmd[p].id] /\ Goto(p, "open")
      /\ UNCHANGED <<db, saved, bundles, remote, registry, lock, minted, moved, started>>
  BY <1>1, HolderFacts DEF WriteConfig, outside, history
<1>3. /\ cmd' \in [Procs -> Commands]
      /\ cmd'[p].at = "open" /\ cmd'[p].op = cmd[p].op /\ cmd'[p].clone = cmd[p].clone
      /\ cmd'[p].id = cmd[p].id /\ cmd'[p].image = cmd[p].image
      /\ \A q \in Procs \ {p} : cmd'[q] = cmd[q]
  BY <1>1, <1>2, GotoFacts
<1>4. cmd[p].id \in Ids /\ cmd[p].op \in {"init", "fresh"}
  BY <1>1, <1>2 DEF Knows, KnowsStep
<1>5. /\ config' \in [Clones -> Ids \cup {NoId}] /\ config'[Here(p)] = cmd[p].id
      /\ \A c \in Clones \ {Here(p)} : config'[c] = config[c]
  BY <1>2, <1>4 DEF TypeOK
<1>6. Knows(p)'
  <2>1. Holds(p)' /\ KnowsSchema(p)'
    BY <1>1, <1>2, <1>3 DEF Knows, Holds, KnowsSchema, Here, Writing
  <2>2. KnowsStep(p)'
    BY <1>1, <1>2, <1>3 DEF Knows, KnowsStep, Here
  <2>3. KnowsIdentity(p)'
    BY <1>1, <1>2, <1>3, <1>5 DEF Knows, KnowsIdentity, Here, Settling
  <2> QED BY <2>1, <2>2, <2>3 DEF Knows
<1>7. \A q \in Procs \ {p} : Knows(q)'
  BY <1>1, <1>2, <1>3, <1>5, HolderSteps
<1>8. TypeOK'
  BY <1>2, <1>3, <1>5 DEF TypeOK
<1>9. OneIdentity'
  BY <1>1, <1>2, <1>4, <1>5 DEF IdentityInv, OneIdentity, Knows, KnowsIdentity
<1> QED BY <1>6, <1>7, <1>8, <1>9 DEF IdentityInv

LEMMA OpenKeeps ==
    ASSUME IdentityInv, NEW p \in Procs, Open(p)
    PROVE  IdentityInv'
<1>1. cmd[p].at = "open" /\ cmd[p].at \in Locked
  BY DEF Open, At, Locked
<1>2. PICK step \in {"row", "load", "work", "upgrade"} :
         /\ Goto(p, step)
         /\ step # "upgrade" => step = Opened(p)
         /\ step = "upgrade" => db[Here(p)].schema # Version[p]
  BY DEF Open, Opened
<1>3. /\ TypeOK /\ Knows(p) /\ Here(p) \in Clones /\ db[Here(p)] \in Images
      /\ Version[p] \in Nat \ {0} /\ Understands(p, db[Here(p)]) /\ step \in Locked
      /\ UNCHANGED <<config, db, bundles, remote, registry, lock, minted, moved, started>>
  BY <1>1, HolderFacts DEF Open, history, Locked
<1>4. /\ cmd' \in [Procs -> Commands]
      /\ cmd'[p].at = step /\ cmd'[p].op = cmd[p].op /\ cmd'[p].clone = cmd[p].clone
      /\ cmd'[p].id = cmd[p].id /\ cmd'[p].image = cmd[p].image
      /\ \A q \in Procs \ {p} : cmd'[q] = cmd[q]
  BY <1>2, <1>3, GotoFacts
<1>5. saved \subseteq saved' /\ saved' \subseteq Images
  BY <1>3 DEF Open, TypeOK
<1>6. step = "upgrade" /\ db[Here(p)].schema # 0 => db[Here(p)] \in saved'
  BY <1>2, <1>3, ImageFacts DEF Open, Understands
<1>7. Knows(p)'
  <2>1. Holds(p)' /\ KnowsSchema(p)'
    BY <1>1, <1>2, <1>3, <1>4, <1>6 DEF Knows, Holds, KnowsSchema, Here, Writing, Understands
  <2>2. KnowsStep(p)'
    BY <1>1, <1>2, <1>3, <1>4 DEF Knows, KnowsStep, Here, Opened
  <2>3. KnowsIdentity(p)'
    BY <1>1, <1>2, <1>3, <1>4 DEF Knows, KnowsIdentity, Here, Settling
  <2> QED BY <2>1, <2>2, <2>3 DEF Knows
<1>8. \A q \in Procs \ {p} : Knows(q)'
  BY <1>1, <1>3, <1>4, <1>5, HolderSteps
<1>9. TypeOK' /\ OneIdentity'
  BY <1>3, <1>4, <1>5 DEF IdentityInv, TypeOK, OneIdentity
<1> QED BY <1>7, <1>8, <1>9 DEF IdentityInv

Changes(p, image, step) ==
    \/ step = Opened(p) /\ cmd[p].at = "upgrade" /\ image.rows = db[Here(p)].rows
    \/ step = "register" /\ cmd[p].at \in {"row", "load"}
          /\ image.rows = db[Here(p)].rows \cup {cmd[p].id}

Becomes(p, image) == db' = [db EXCEPT ![Here(p)] = image]

\* A command that changes its database and goes on: the upgrade, the project
\* row, the rows of a bundle.
LEMMA ChangeKeeps ==
    ASSUME IdentityInv, NEW p \in Procs, NEW image \in Images, NEW step,
           cmd[p].at \in {"upgrade", "row", "load"},
           Becomes(p, image), Goto(p, step),
           UNCHANGED <<config, saved, bundles, remote, registry, lock, minted, moved, started>>,
           Understands(p, image),
           Changes(p, image, step)
    PROVE  IdentityInv'
<1>1. cmd[p].at \in Locked /\ step \in {"row", "load", "work", "register"}
  BY DEF Locked, Opened, Changes
<1>2. /\ TypeOK /\ Knows(p) /\ Here(p) \in Clones /\ step \in Locked
      /\ config[Here(p)] \in Ids \cup {NoId} /\ db[Here(p)] \in Images
  BY <1>1, HolderFacts DEF Locked
<1>3. /\ cmd' \in [Procs -> Commands]
      /\ cmd'[p].at = step /\ cmd'[p].op = cmd[p].op /\ cmd'[p].clone = cmd[p].clone
      /\ cmd'[p].id = cmd[p].id /\ cmd'[p].image = cmd[p].image
      /\ \A q \in Procs \ {p} : cmd'[q] = cmd[q]
  BY <1>2, GotoFacts
<1>4. /\ db' \in [Clones -> Images] /\ db'[Here(p)] = image
      /\ \A c \in Clones \ {Here(p)} : db'[c] = db[c]
  BY <1>2 DEF TypeOK, Becomes
<1>5. Knows(p)'
  <2>1. Holds(p)' /\ KnowsSchema(p)'
    BY <1>1, <1>2, <1>3, <1>4 DEF Knows, Holds, KnowsSchema, Here, Writing, Understands
  <2>2. KnowsStep(p)'
    BY <1>1, <1>2, <1>3 DEF Knows, KnowsStep, Here, Opened, Changes
  <2>3. KnowsIdentity(p)'
    BY <1>1, <1>2, <1>3, <1>4 DEF Knows, KnowsIdentity, Here, Settling, Opened, Changes
  <2> QED BY <2>1, <2>2, <2>3 DEF Knows
<1>6. \A q \in Procs \ {p} : Knows(q)'
  BY <1>1, <1>3, <1>4, HolderSteps
<1>7. TypeOK'
  BY <1>3, <1>4 DEF IdentityInv, TypeOK
<1>8. OneIdentity'
  <2> SUFFICES ASSUME NEW c \in Clones \ moved'
               PROVE  /\ \A i, j \in db'[c].rows : i = j
                      /\ config'[c] # NoId /\ db'[c].rows # {} => config'[c] \in db'[c].rows
    BY DEF OneIdentity
  <2>1. /\ \A i, j \in db[c].rows : i = j
        /\ config[c] # NoId /\ db[c].rows # {} => config[c] \in db[c].rows
    BY DEF IdentityInv, OneIdentity
  <2>2. CASE c # Here(p) \/ image.rows = db[Here(p)].rows
    BY <1>2, <1>4, <2>1, <2>2
  <2>3. CASE c = Here(p) /\ image.rows = db[Here(p)].rows \cup {cmd[p].id} /\ step = "register"
    <3>1. cmd[p].at \in {"row", "load"} /\ cmd[p].op \in {"init", "fresh"}
      BY <1>2, <2>3 DEF Knows, KnowsStep, Opened, Changes
    <3>2. db[c].rows \subseteq {cmd[p].id} /\ config[c] \in {cmd[p].id, NoId}
      BY <1>2, <2>3, <3>1 DEF Knows, KnowsIdentity, Settling
    <3> QED BY <1>4, <2>3, <3>2
  <2> QED BY <2>2, <2>3 DEF Changes
<1> QED BY <1>5, <1>6, <1>7, <1>8 DEF IdentityInv

LEMMA UpgradeKeeps ==
    ASSUME IdentityInv, NEW p \in Procs, Upgrade(p)
    PROVE  IdentityInv'
<1> DEFINE image == [db[Here(p)] EXCEPT !.schema = Version[p]]
<1>1. cmd[p].at = "upgrade" /\ cmd[p].at \in Locked
  BY DEF Upgrade, At, Locked
<1>2. db[Here(p)] \in Images /\ Version[p] \in Nat
  BY <1>1, HolderFacts
<1>3. image \in Images /\ image.schema = Version[p] /\ image.rows = db[Here(p)].rows
  BY <1>2 DEF Images
<1>4. db' = [db EXCEPT ![Here(p)] = image] /\ Goto(p, Opened(p))
      /\ UNCHANGED <<config, saved, bundles, remote, registry, lock, minted, moved, started>>
  BY DEF Upgrade, outside, history
<1>5. Understands(p, image) /\ Changes(p, image, Opened(p))
  BY <1>1, <1>2, <1>3 DEF Understands, Changes
<1>6. PICK i \in Images, step \in {Opened(p)} :
         /\ Understands(p, i) /\ Changes(p, i, step)
         /\ Becomes(p, i) /\ Goto(p, step)
  BY <1>3, <1>4, <1>5 DEF Becomes
<1> QED BY <1>1, <1>4, <1>6, ChangeKeeps

LEMMA CreateRowKeeps ==
    ASSUME IdentityInv, NEW p \in Procs, CreateRow(p)
    PROVE  IdentityInv'
<1> DEFINE image == Upsert(db[Here(p)], cmd[p].id)
<1>1. cmd[p].at = "row" /\ cmd[p].at \in Locked /\ cmd[p].at \in Writing
  BY DEF CreateRow, At, Locked, Writing
<1>2. db[Here(p)] \in Images /\ Knows(p) /\ Version[p] \in Nat
  BY <1>1, HolderFacts
<1>3. cmd[p].id \in Ids /\ Understands(p, db[Here(p)])
  BY <1>1, <1>2 DEF Knows, KnowsStep, KnowsSchema
<1>4. image \in Images /\ image.schema = db[Here(p)].schema
      /\ image.rows = db[Here(p)].rows \cup {cmd[p].id}
  BY <1>2, <1>3 DEF Images, Upsert
<1>5. db' = [db EXCEPT ![Here(p)] = image] /\ Goto(p, "register")
      /\ UNCHANGED <<config, saved, bundles, remote, registry, lock, minted, moved, started>>
  BY DEF CreateRow, outside, history
<1>6. Understands(p, image) /\ Changes(p, image, "register")
  BY <1>1, <1>3, <1>4 DEF Understands, Changes
<1>7. PICK i \in Images, step \in {"register"} :
         /\ Understands(p, i) /\ Changes(p, i, step)
         /\ Becomes(p, i) /\ Goto(p, step)
  BY <1>4, <1>5, <1>6 DEF Becomes
<1> QED BY <1>1, <1>5, <1>7, ChangeKeeps

LEMMA LoadKeeps ==
    ASSUME IdentityInv, NEW p \in Procs, Load(p)
    PROVE  IdentityInv'
<1> DEFINE image == Filled(db[Here(p)], cmd[p].image)
<1>1. cmd[p].at = "load" /\ cmd[p].at \in Locked /\ cmd[p].at \in Writing
  BY DEF Load, At, Locked, Writing
<1>2. /\ db[Here(p)] \in Images /\ Knows(p) /\ TypeOK /\ Here(p) \in Clones
      /\ cmd[p].image \in Images
  BY <1>1, HolderFacts, CommandFacts
<1>3. /\ cmd[p].id \in Ids /\ cmd[p].image.rows = {cmd[p].id}
      /\ Understands(p, db[Here(p)])
  BY <1>1, <1>2 DEF Knows, KnowsStep, KnowsSchema
<1>4. image \in Images /\ image.schema = db[Here(p)].schema
      /\ image.rows = db[Here(p)].rows \cup {cmd[p].id}
  BY <1>2, <1>3 DEF Images, Filled
<1>6. db' = [db EXCEPT ![Here(p)] = image]
  BY DEF Load
<1>7. Goto(p, "register")
      /\ UNCHANGED <<config, saved, bundles, remote, registry, lock, minted, moved, started>>
  BY DEF Load, outside, history
<1>8. Understands(p, image) /\ Changes(p, image, "register")
  BY <1>1, <1>3, <1>4 DEF Understands, Changes
<1>9. PICK i \in Images, step \in {"register"} :
         /\ Understands(p, i) /\ Changes(p, i, step)
         /\ Becomes(p, i) /\ Goto(p, step)
  BY <1>4, <1>6, <1>7, <1>8 DEF Becomes
<1> QED BY <1>1, <1>7, <1>9, ChangeKeeps

\* A command that ends, with or without the lock.
LEMMA EndsKeep ==
    ASSUME IdentityInv, NEW p \in Procs, End(p),
           UNCHANGED <<config, minted, started>>,
           db' \in [Clones -> Images], saved' \subseteq Images, bundles' \subseteq Bundle,
           remote' = remote, registry' \subseteq Ids, moved' \subseteq Clones,
           moved \subseteq moved', saved \subseteq saved',
           \A c \in Clones : db'[c] # db[c] => c = Here(p) /\ cmd[p].at \in Locked,
           OneIdentity'
    PROVE  IdentityInv'
<1>1. TypeOK
  BY DEF IdentityInv
<1>2. /\ cmd' \in [Procs -> Commands] /\ cmd'[p] = Idle
      /\ lock' \in [Clones -> Procs \cup {NoProc}]
      /\ \A q \in Procs \ {p} : cmd'[q] = cmd[q]
      /\ \A c \in Clones : lock[c] # p => lock'[c] = lock[c]
  BY <1>1, EndFacts
<1>3. Knows(p)'
  BY <1>2, IdleKnows
<1>4. ASSUME NEW q \in Procs \ {p} PROVE Knows(q)'
  <2>1. CASE cmd[q].at \in Locked
    <3>1. Here(q) \in Clones /\ lock[Here(q)] = q
      BY <2>1, NotFree
    <3>2. db'[Here(q)] = db[Here(q)]
      BY <2>1, <3>1, Apart
    <3> QED BY <1>2, <3>1, <3>2, OthersKnow
  <2>2. CASE cmd[q].at \notin Locked
    BY <1>2, <2>2, OthersKnow
  <2> QED BY <2>1, <2>2
<1>5. TypeOK'
  BY <1>1, <1>2 DEF TypeOK
<1> QED BY <1>3, <1>4, <1>5 DEF IdentityInv

LEMMA FinishesKeep ==
    ASSUME IdentityInv, NEW p \in Procs, WriteRegistry(p) \/ Export(p) \/ Stop(p)
    PROVE  IdentityInv'
<1>1. TypeOK /\ OneIdentity
  BY DEF IdentityInv
<1>2. End(p) /\ UNCHANGED <<config, db, saved, remote, minted, moved, started>>
  BY DEF WriteRegistry, Export, Stop, outside, history
<1>3. cmd[p] \in Commands
  BY <1>1 DEF TypeOK
<1>4. registry' \subseteq Ids
  <2>1. CASE WriteRegistry(p)
    <3>1. cmd[p].id \in Ids
      BY <2>1 DEF WriteRegistry, At, IdentityInv, Knows, KnowsStep
    <3> QED BY <1>3, <2>1, <3>1, CommandFacts DEF WriteRegistry
  <2>2. CASE Export(p)
    BY <1>1, <2>2 DEF Export, TypeOK
  <2>3. CASE Stop(p)
    BY <1>1, <2>3 DEF Stop, TypeOK
  <2> QED BY <2>1, <2>2, <2>3
<1>5. bundles' \subseteq Bundle
  <2>1. CASE Export(p)
    <3>1. cmd[p].at \in Locked
      BY <2>1 DEF Export, At, Locked
    <3>2. db[Here(p)].rows \subseteq Ids
      BY <3>1, HolderFacts, ImageFacts
    <3>3. \A i \in Ids : [id |-> i, work |-> i \in db[Here(p)].work] \in Bundle
      BY DEF Bundle
    <3> QED BY <1>1, <2>1, <3>2, <3>3 DEF Export, TypeOK
  <2>2. CASE WriteRegistry(p) \/ Stop(p)
    BY <1>1, <2>2 DEF WriteRegistry, Stop, outside, TypeOK
  <2> QED BY <2>1, <2>2
<1>6. OneIdentity'
  BY <1>1, <1>2 DEF OneIdentity
<1> QED BY <1>1, <1>2, <1>4, <1>5, <1>6, EndsKeep DEF TypeOK

LEMMA CommitKeeps ==
    ASSUME IdentityInv, NEW p \in Procs, Commit(p)
    PROVE  IdentityInv'
<1>1. cmd[p].at \in Locked
  BY DEF Commit, At, Locked
<1>2. /\ TypeOK /\ OneIdentity /\ Here(p) \in Clones /\ db[Here(p)] \in Images
  BY <1>1, HolderFacts DEF IdentityInv
<1>3. PICK i \in db[Here(p)].rows : db' = [db EXCEPT ![Here(p)].work = @ \cup {i}]
  BY DEF Commit
<1>4. DEFINE image == [db[Here(p)] EXCEPT !.work = @ \cup {i}]
<1>5. image \in Images /\ image.rows = db[Here(p)].rows
  BY <1>2, ImageFacts DEF Images
<1>6. /\ db' \in [Clones -> Images] /\ db'[Here(p)].rows = db[Here(p)].rows
      /\ \A c \in Clones \ {Here(p)} : db'[c] = db[c]
  BY <1>2, <1>3, <1>5 DEF TypeOK
<1>7. \A c \in Clones : db'[c].rows = db[c].rows
  BY <1>6
<1>8. End(p) /\ UNCHANGED <<config, saved, bundles, remote, registry, minted, moved, started>>
  BY DEF Commit, outside, history
<1>9. OneIdentity'
  BY <1>2, <1>7, <1>8 DEF OneIdentity
<1> QED BY <1>1, <1>2, <1>6, <1>8, <1>9, EndsKeep DEF TypeOK

LEMMA SwapKeeps ==
    ASSUME IdentityInv, NEW p \in Procs, Swap(p)
    PROVE  IdentityInv'
<1>1. cmd[p].at \in Locked
  BY DEF Swap, At, Locked
<1>2. /\ TypeOK /\ OneIdentity /\ Here(p) \in Clones /\ db[Here(p)] \in Images
      /\ cmd[p].image \in Images
  BY <1>1, HolderFacts, CommandFacts DEF IdentityInv
<1>3. /\ db' \in [Clones -> Images] /\ db'[Here(p)] = cmd[p].image
      /\ \A c \in Clones \ {Here(p)} : db'[c] = db[c]
  BY <1>2 DEF Swap, TypeOK
<1>4. /\ moved \subseteq moved' /\ moved' \subseteq Clones
      /\ Here(p) \notin moved' => db'[Here(p)].rows = db[Here(p)].rows
  BY <1>2, <1>3 DEF Swap, TypeOK
<1>5. End(p) /\ UNCHANGED <<config, saved, bundles, remote, registry, minted, started>>
  BY DEF Swap, outside
<1>6. \A c \in Clones \ moved' : db'[c].rows = db[c].rows /\ c \notin moved
  BY <1>3, <1>4
<1>7. OneIdentity'
  BY <1>2, <1>5, <1>6 DEF OneIdentity
<1> QED BY <1>1, <1>2, <1>3, <1>4, <1>5, <1>7, EndsKeep DEF TypeOK

\* The registry is read.
LEMMA ReadRegistryKeeps ==
    ASSUME IdentityInv, NEW p \in Procs, ReadRegistry(p)
    PROVE  IdentityInv'
<1>1. cmd[p].at = "register" /\ cmd[p].at \in Locked /\ "list" \in Locked
  BY DEF ReadRegistry, At, Locked
<1>2. /\ TypeOK /\ OneIdentity /\ Knows(p)
  BY <1>1, HolderFacts DEF IdentityInv
<1>3. /\ cmd' \in [Procs -> Commands]
      /\ cmd'[p].at = "list" /\ cmd'[p].op = cmd[p].op /\ cmd'[p].clone = cmd[p].clone
      /\ cmd'[p].id = cmd[p].id /\ cmd'[p].image = cmd[p].image
      /\ \A q \in Procs \ {p} : cmd'[q] = cmd[q]
  BY <1>1, <1>2 DEF ReadRegistry, TypeOK, Commands
<1>4. UNCHANGED <<config, db, saved, bundles, remote, registry, lock, minted, moved, started>>
  BY DEF ReadRegistry, outside, history
<1>5. Knows(p)'
  BY <1>1, <1>2, <1>3, <1>4 DEF Knows, Holds, KnowsSchema, KnowsStep, KnowsIdentity, Here,
                                Writing, Settling
<1>6. \A q \in Procs \ {p} : Knows(q)'
  BY <1>1, <1>3, <1>4, HolderSteps
<1>7. TypeOK' /\ OneIdentity'
  BY <1>2, <1>3, <1>4 DEF TypeOK, OneIdentity
<1> QED BY <1>5, <1>6, <1>7 DEF IdentityInv

LEMMA BackupKeeps ==
    ASSUME IdentityInv, NEW p \in Procs, Backup(p)
    PROVE  IdentityInv'
<1>1. cmd[p].at = "backup" /\ cmd[p].at \in Locked
  BY DEF Backup, At, Locked
<1>2. PICK step \in {"copy", "swap"} : Goto(p, step)
  BY DEF Backup
<1>3. /\ TypeOK /\ OneIdentity /\ Knows(p) /\ Here(p) \in Clones
      /\ db[Here(p)] \in Images /\ Version[p] \in Nat \ {0}
  BY <1>1, HolderFacts DEF IdentityInv
<1>4. /\ cmd' \in [Procs -> Commands]
      /\ cmd'[p].at = step /\ cmd'[p].op = cmd[p].op /\ cmd'[p].clone = cmd[p].clone
      /\ cmd'[p].id = cmd[p].id /\ cmd'[p].image = cmd[p].image
      /\ \A q \in Procs \ {p} : cmd'[q] = cmd[q]
  BY <1>2, <1>3, GotoFacts DEF Locked
<1>5. UNCHANGED <<config, db, bundles, remote, registry, lock, minted, moved, started>>
  BY DEF Backup, history
<1>6. saved \subseteq saved' /\ saved' \subseteq Images
  BY <1>3 DEF Backup, TypeOK
<1>7. /\ Understands(p, db[Here(p)])
      /\ db[Here(p)].schema # 0 => db[Here(p)] \in saved'
  BY <1>3 DEF Backup, Sound, Understands
<1>8. Knows(p)'
  <2>1. cmd[p].op \notin {"init", "fresh"}
    BY <1>1, <1>3 DEF Knows, KnowsStep
  <2> QED BY <1>1, <1>3, <1>4, <1>5, <1>7, <2>1
          DEF Knows, Holds, KnowsSchema, KnowsStep, KnowsIdentity, Here, Understands, Settling
<1>9. \A q \in Procs \ {p} : Knows(q)'
  BY <1>1, <1>4, <1>5, <1>6, HolderSteps
<1>10. TypeOK' /\ OneIdentity'
  BY <1>3, <1>4, <1>5, <1>6 DEF TypeOK, OneIdentity
<1> QED BY <1>8, <1>9, <1>10 DEF IdentityInv

LEMMA CopyKeeps ==
    ASSUME IdentityInv, NEW p \in Procs, Copy(p)
    PROVE  IdentityInv'
<1>1. cmd[p].at = "copy" /\ cmd[p].at \in Locked /\ "swap" \in Locked
  BY DEF Copy, At, Locked
<1>2. TypeOK /\ OneIdentity /\ Knows(p)
  BY <1>1, HolderFacts DEF IdentityInv
<1>3. /\ cmd' \in [Procs -> Commands]
      /\ cmd'[p].at = "swap" /\ cmd'[p].op = cmd[p].op /\ cmd'[p].clone = cmd[p].clone
      /\ cmd'[p].id = cmd[p].id
      /\ \A q \in Procs \ {p} : cmd'[q] = cmd[q]
  BY <1>1, <1>2 DEF Copy, TypeOK, Commands
<1>4. UNCHANGED <<config, db, saved, bundles, remote, registry, lock, minted, moved, started>>
  BY DEF Copy, outside, history
<1>5. Knows(p)'
  <2>1. cmd[p].op \notin {"init", "fresh"}
    BY <1>1, <1>2 DEF Knows, KnowsStep
  <2> QED BY <1>1, <1>2, <1>3, <1>4, <2>1
          DEF Knows, Holds, KnowsSchema, KnowsStep, KnowsIdentity, Here, Understands,
              Writing, Settling
<1>6. \A q \in Procs \ {p} : Knows(q)'
  BY <1>1, <1>3, <1>4, HolderSteps
<1>7. TypeOK' /\ OneIdentity'
  BY <1>2, <1>3, <1>4 DEF TypeOK, OneIdentity
<1> QED BY <1>5, <1>6, <1>7 DEF IdentityInv

LEMMA PushKeeps ==
    ASSUME IdentityInv, NEW p \in Procs, NEW c \in Clones, Push(p, c)
    PROVE  IdentityInv'
<1>1. UNCHANGED <<config, db, saved, bundles, registry, lock, cmd, minted, moved, started>>
  BY DEF Push, history
<1>2. ASSUME NEW q \in Procs PROVE Knows(q)'
  BY <1>1, OthersKnow
<1>3. TypeOK' /\ OneIdentity'
  BY <1>1 DEF Push, IdentityInv, TypeOK, OneIdentity
<1> QED BY <1>2, <1>3 DEF IdentityInv

LEMMA CheckoutKeeps ==
    ASSUME IdentityInv, NEW c \in Clones, NEW i \in Ids \cup {NoId}, Checkout(c, i)
    PROVE  IdentityInv'
<1>1. UNCHANGED <<db, saved, bundles, remote, registry, lock, cmd, minted>>
  BY DEF Checkout, outside
<1>2. /\ config' \in [Clones -> Ids \cup {NoId}] /\ config'[c] = i
      /\ \A d \in Clones \ {c} : config'[d] = config[d]
      /\ moved \subseteq moved' /\ moved' \subseteq Clones
      /\ started' \in 0..MaxCommands
  BY IdentityAssumption DEF Checkout, IdentityInv, TypeOK
<1>3. c \notin moved' => i = NoId \/ (lock[c] = NoProc /\ db[c].rows \subseteq {i})
  BY DEF Checkout, Free, IdentityInv, TypeOK
<1>4. ASSUME NEW q \in Procs PROVE Knows(q)'
  <2>1. CASE cmd[q].at \in Locked /\ Here(q) = c
    <3>1. Knows(q) /\ lock[c] # NoProc
      BY <2>1, NotFree DEF IdentityInv
    <3>2. Holds(q)' /\ KnowsStep(q)' /\ KnowsSchema(q)'
      BY <1>1, <3>1 DEF Knows, Holds, KnowsStep, KnowsSchema, Here, Understands
    <3>3. KnowsIdentity(q)'
      BY <1>1, <1>2, <1>3, <2>1, <3>1 DEF Knows, KnowsIdentity, Here
    <3> QED BY <3>2, <3>3 DEF Knows
  <2>2. CASE cmd[q].at \in Locked /\ Here(q) # c
    BY <1>1, <1>2, <2>2, NotFree, OthersKnow
  <2>3. CASE cmd[q].at \notin Locked
    BY <1>1, <1>2, <2>3, OthersKnow
  <2> QED BY <2>1, <2>2, <2>3
<1>5. OneIdentity'
  <2> SUFFICES ASSUME NEW d \in Clones \ moved'
               PROVE  /\ \A k, j \in db'[d].rows : k = j
                      /\ config'[d] # NoId /\ db'[d].rows # {} => config'[d] \in db'[d].rows
    BY DEF OneIdentity
  <2>1. /\ \A k, j \in db[d].rows : k = j
        /\ config[d] # NoId /\ db[d].rows # {} => config[d] \in db[d].rows
    BY <1>2 DEF IdentityInv, OneIdentity
  <2> QED BY <1>1, <1>2, <1>3, <2>1
<1>6. TypeOK'
  BY <1>1, <1>2 DEF IdentityInv, TypeOK
<1> QED BY <1>4, <1>5, <1>6 DEF IdentityInv

-----------------------------------------------------------------------------
(* Which steps change a database *)

Changing(p) == Upgrade(p) \/ CreateRow(p) \/ Load(p) \/ Commit(p) \/ Swap(p)

LEMMA OnlyHolderChanges ==
    ASSUME IdentityInv, [Next]_vars, NEW c \in Clones, db'[c] # db[c]
    PROVE  \E p \in Procs : Changing(p) /\ Here(p) = c /\ cmd[p].at \in Writing
<1>1. db' # db
  OBVIOUS
<1>2. PICK p \in Procs : Steps(p) \/ \E d \in Clones : Begins(p, d)
  BY <1>1 DEF Next, vars, Checkout
<1>3. ~ \E d \in Clones : Begins(p, d)
  BY <1>1 DEF Begins, InitProject, AskFresh, Work, AskReplace, StartRestore, StartPull, Push
<1>4. Changing(p)
  BY <1>1, <1>2, <1>3 DEF Steps, Changing, LockFresh, WriteConfig, Open, ReadRegistry,
     WriteRegistry, Export, LockReplace, Backup, Copy, Stop
<1>5. cmd[p].at \in Writing
  BY <1>4 DEF Changing, Upgrade, CreateRow, Load, Commit, Swap, At, Writing
<1>6. \A d \in Clones \ {Here(p)} : db'[d] = db[d]
  <2>1. db \in [Clones -> Images]
    BY DEF IdentityInv, TypeOK
  <2> QED BY <1>4, <2>1 DEF Changing, Upgrade, CreateRow, Load, Commit, Swap
<1> QED BY <1>4, <1>5, <1>6

LEMMA ChangerFacts ==
    ASSUME IdentityInv, NEW p \in Procs, cmd[p].at \in Writing
    PROVE  /\ lock[Here(p)] = p /\ Here(p) \in Clones /\ Understands(p, db[Here(p)])
           /\ db[Here(p)] \in Images /\ db \in [Clones -> Images]
           /\ cmd[p].at \in {"upgrade", "swap"} /\ db[Here(p)].schema # 0
                 => db[Here(p)] \in saved
<1>1. cmd[p].at \in Locked
  BY DEF Writing, Locked
<1> QED BY <1>1, HolderFacts DEF Knows, KnowsSchema, TypeOK

\* What adds rows to a database keeps its schema and its tasks.
LEMMA AddersKeep ==
    ASSUME IdentityInv, NEW p \in Procs, CreateRow(p) \/ Load(p) \/ Commit(p),
           cmd[p].at \in Writing
    PROVE  /\ db'[Here(p)].schema = db[Here(p)].schema
           /\ db[Here(p)].work \subseteq db'[Here(p)].work
<1>1. Here(p) \in Clones /\ db[Here(p)] \in Images /\ db \in [Clones -> Images]
  BY ChangerFacts
<1>2. CASE CreateRow(p)
  BY <1>1, <1>2 DEF CreateRow, Upsert, Images
<1>3. CASE Load(p)
  BY <1>1, <1>3 DEF Load, Filled, Images
<1>4. CASE Commit(p)
  <2>1. PICK i \in db[Here(p)].rows : db' = [db EXCEPT ![Here(p)].work = @ \cup {i}]
    BY <1>4 DEF Commit
  <2> QED BY <1>1, <2>1 DEF Images
<1> QED BY <1>2, <1>3, <1>4

-----------------------------------------------------------------------------
(* The theorems *)

LEMMA NextKeeps == IdentityInv /\ [Next]_vars => IdentityInv'
<1> SUFFICES ASSUME IdentityInv, [Next]_vars
             PROVE  IdentityInv'
  OBVIOUS
<1>1. ASSUME NEW p \in Procs, Steps(p) PROVE IdentityInv'
  BY <1>1, LocksKeep, WriteConfigKeeps, OpenKeeps, UpgradeKeeps, CreateRowKeeps, LoadKeeps,
     ReadRegistryKeeps, FinishesKeep, CommitKeeps, BackupKeeps, CopyKeeps, SwapKeeps DEF Steps
<1>2. ASSUME NEW p \in Procs, NEW c \in Clones, Begins(p, c) PROVE IdentityInv'
  BY <1>2, InitProjectKeeps, AsksKeep, OtherStartsKeep, PushKeeps DEF Begins
<1>3. CASE UNCHANGED vars
  <2>1. UNCHANGED <<config, db, saved, bundles, remote, registry, lock, cmd, minted, moved, started>>
    BY <1>3 DEF vars, outside, history
  <2>2. ASSUME NEW q \in Procs PROVE Knows(q)'
    BY <2>1, OthersKnow
  <2>3. TypeOK' /\ OneIdentity'
    BY <2>1 DEF IdentityInv, TypeOK, OneIdentity
  <2> QED BY <2>2, <2>3 DEF IdentityInv
<1> QED BY <1>1, <1>2, <1>3, CheckoutKeeps DEF Next

\* config.toml, the databases and every running command keep their types,
\* and every command knows what its lock lets it know of its clone.
THEOREM Invariance == Spec => []IdentityInv
<1> QED BY InitInv, NextKeeps, PTL DEF Spec

\* Configurations, databases, backups, the registry and commands keep their
\* types through every initialisation, import, upgrade and replacement.
THEOREM TypeCorrect == Spec => []TypeOK
<1>1. IdentityInv => TypeOK
  BY DEF IdentityInv
<1> QED BY <1>1, Invariance, PTL

\* One project in a database, and the one of config.toml, until a restore, a
\* pull, a replacing import or Git brings another: init and the first import
\* never fork the identity of a clone.
THEOREM OneIdentityTheorem == Spec => []OneIdentity
<1>1. IdentityInv => OneIdentity
  BY DEF IdentityInv
<1> QED BY <1>1, Invariance, PTL

\* No binary writes into, upgrades or replaces a database of a newer schema,
\* by whichever command and whoever upgraded it in between.
THEOREM NeverTouchesNewerTheorem == Spec => NeverTouchesNewer
<1>1. ASSUME IdentityInv, [Next]_vars
      PROVE  \A c \in Clones : db'[c] # db[c] =>
                lock[c] # NoProc /\ Understands(lock[c], db[c])
  <2> SUFFICES ASSUME NEW c \in Clones, db'[c] # db[c]
               PROVE  lock[c] # NoProc /\ Understands(lock[c], db[c])
    OBVIOUS
  <2>1. PICK p \in Procs : Here(p) = c /\ cmd[p].at \in Writing
    BY <1>1, OnlyHolderChanges
  <2>2. lock[c] = p /\ Understands(p, db[c])
    BY <1>1, <2>1, ChangerFacts
  <2> QED BY <2>2, IdentityAssumption
<1> QED BY <1>1, Invariance, PTL DEF Spec, NeverTouchesNewer

\* A database that loses tasks or changes its schema is saved as it was.
THEOREM ImageKeptTheorem == Spec => ImageKept
<1>1. ASSUME IdentityInv, [Next]_vars
      PROVE  \A c \in Clones :
                db[c].schema # 0
                    /\ (db'[c].schema # db[c].schema \/ ~ (db[c].work \subseteq db'[c].work))
                  => db[c] \in saved
  <2> SUFFICES ASSUME NEW c \in Clones, db[c].schema # 0,
                      db'[c].schema # db[c].schema \/ ~ (db[c].work \subseteq db'[c].work)
               PROVE  db[c] \in saved
    OBVIOUS
  <2>1. PICK p \in Procs : Changing(p) /\ Here(p) = c /\ cmd[p].at \in Writing
    BY <1>1, OnlyHolderChanges
  <2>2. Upgrade(p) \/ Swap(p)
    BY <1>1, <2>1, AddersKeep DEF Changing
  <2>3. cmd[p].at \in {"upgrade", "swap"}
    BY <2>2 DEF Upgrade, Swap, At
  <2> QED BY <1>1, <2>1, <2>3, ChangerFacts
<1> QED BY <1>1, Invariance, PTL DEF Spec, ImageKept
=============================================================================
