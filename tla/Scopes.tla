------------------------------- MODULE Scopes -------------------------------
(***************************************************************************)
(* The scopes of tasks: glob patterns of the files a task will touch, and  *)
(* the two places that tell agents whose patterns meet: `task scope        *)
(* conflicts` (detect_conflicts, classify_overlap) and `team context`.     *)
(*                                                                         *)
(* A pattern, like a path, is a sequence of segments.  What globset makes  *)
(* of it is modelled per segment: "*" takes one or more of them (the       *)
(* separator is not special to it as classify_overlap builds it), "**" any *)
(* number, "*.rs" one or more of which the last is a Rust file.  Classes,  *)
(* alternatives and escapes are left out, and so are the actor and the     *)
(* event of a change.                                                      *)
(***************************************************************************)
EXTENDS Naturals, Sequences, FiniteSetsExt

CONSTANTS
    Scoped,     \* the tasks
    Names,      \* names of directories and files
    RustFiles,  \* those that end in .rs
    Patterns,   \* the scopes agents write: sequences of segments
    MaxDepth,   \* bound: segments of a pattern, and of the paths looked at
    MaxRows     \* bound: rows of scopes

ASSUME ScopeAssumption ==
    /\ RustFiles \subseteq Names /\ RustFiles # {}
    /\ MaxDepth \in Nat /\ MaxRows \in Nat
    /\ Names \cap {"*", "**", "*.rs"} = {}
    /\ Patterns \subseteq Seq(Names \cup {"*", "**", "*.rs"})
    /\ \A p \in Patterns : Len(p) \in 1..MaxDepth

VARIABLES
    scopes,     \* the rows a task has of each pattern: nothing makes them unique
    finished    \* the tasks that are completed or cancelled

scopeVars == <<scopes, finished>>

ScopeTypeOK ==
    /\ scopes \in [Scoped -> [Patterns -> 0..MaxRows]]
    /\ finished \subseteq Scoped

----------------------------------------------------------------------------
\* Segment i of pattern p takes the segments j + 1 to k of s.
Takes(p, i, s, j, k) ==
    \/ p[i] = "**" /\ j <= k /\ (i = Len(p) => i = 1 \/ j < k)
    \/ p[i] = "*" /\ j < k
    \/ p[i] = "*.rs" /\ j < k /\ s[k] \in RustFiles \cup {"*.rs"}
    \/ k = j + 1 /\ s[k] = p[i]

\* GlobSet::is_match: pattern p covers the text s, which may be a pattern too.  The
\* cut says where each segment of p ends.
Matches(p, s) ==
    \E cut \in [0..Len(p) -> 0..Len(s)] :
        /\ cut[0] = 0 /\ cut[Len(p)] = Len(s)
        /\ \A i \in 1..Len(p) : Takes(p, i, s, cut[i - 1], cut[i])

Cascades(p) == \E i \in DOMAIN p : p[i] = "**"

\* Faulty variant of classify_overlap: a common prefix is enough.
PrefixIsDefinite(a, b) ==
    IF Matches(a, b) \/ Matches(b, a) \/ a[1] = b[1] THEN "definite"
    ELSE IF Cascades(a) \/ Cascades(b) THEN "possible" ELSE "none"

\* Some prefix is common when the first segment is.
classify_overlap(a, b) ==
    IF Matches(a, b) \/ Matches(b, a) THEN "definite"
    ELSE IF a[1] = b[1] \/ Cascades(a) \/ Cascades(b) THEN "possible" ELSE "none"

Overlap == [e \in Patterns \X Patterns |-> classify_overlap(e[1], e[2])]

ScopesOf(t) == {p \in Patterns : scopes[t][p] > 0}

\* list_active_scopes joins the tasks that are not finished.
ActiveScopes == {s \in (Scoped \ finished) \X Patterns : s[2] \in ScopesOf(s[1])}

\* What detect_conflicts reports: two rows of different tasks, and how they meet.
Conflicts ==
    {c \in ActiveScopes \X ActiveScopes : /\ c[1][1] # c[2][1]
                                          /\ Overlap[<<c[1][2], c[2][2]>>] # "none"}

\* What team context reports of the tasks of a team, finished ones included.
TeamConflicts(team) ==
    {c \in (team \X Patterns) \X (team \X Patterns) :
        /\ c[1][1] # c[2][1] /\ c[1][2] \in ScopesOf(c[1][1]) /\ c[2][2] \in ScopesOf(c[2][1])
        /\ c[1][2] = c[2][2] \/ <<"**">> \in {c[1][2], c[2][2]}}

----------------------------------------------------------------------------
AddScope(t, p) ==
    /\ t \notin finished
    /\ scopes' = [scopes EXCEPT ![t][p] = @ + 1]
    /\ UNCHANGED finished

\* Every row of the pattern goes, whatever became of the task.
RemoveScope(t, p) ==
    /\ p \in ScopesOf(t)
    /\ scopes' = [scopes EXCEPT ![t][p] = 0]
    /\ UNCHANGED finished

\* The transitions of a task leave its scopes where they are.
Finish(t) == t \notin finished /\ finished' = finished \cup {t} /\ UNCHANGED scopes

Reopen(t) == t \in finished /\ finished' = finished \ {t} /\ UNCHANGED scopes

ScopeInit == scopes = [t \in Scoped |-> [p \in Patterns |-> 0]] /\ finished = {}

Rows == MapThenSumSet(LAMBDA r : scopes[r[1]][r[2]], Scoped \X Patterns)

ScopeNext ==
    \/ \E t \in Scoped, p \in Patterns :
          \/ Rows < MaxRows /\ AddScope(t, p)
          \/ RemoveScope(t, p)
    \/ \E t \in Scoped : Finish(t) \/ Reopen(t)

ScopeSpec == ScopeInit /\ [][ScopeNext]_scopeVars

----------------------------------------------------------------------------
(***************************************************************************)
(* Properties                                                              *)
(***************************************************************************)
\* Paths long enough for every pattern: a wildcard needs one name.
Paths == UNION {[1..n -> Names] : n \in 1..MaxDepth}

Meet == [e \in Patterns \X Patterns |-> \E f \in Paths : Matches(e[1], f) /\ Matches(e[2], f)]

\* A conflict that is reported as definite is one: some file is in both scopes,
\* also when both are patterns and one was matched against the text of the other.
DefiniteMeets ==
    \A c \in Conflicts : Overlap[<<c[1][2], c[2][2]>>] = "definite" => Meet[<<c[1][2], c[2][2]>>]

\* The two reports agree on the unfinished tasks of a team: what team context
\* shows, task scope conflicts shows, and as definite.
TeamReportAgrees ==
    \A c \in TeamConflicts(Scoped) :
        c[1][1] \notin finished /\ c[2][1] \notin finished
        => c \in Conflicts /\ Overlap[<<c[1][2], c[2][2]>>] = "definite"

\* Scopes that are reported as disjoint are ("under-reporting is worse than a
\* false positive", collaboration.rs:268).
NothingMissed ==
    \A c \in ActiveScopes \X ActiveScopes :
        c[1][1] # c[2][1] /\ Meet[<<c[1][2], c[2][2]>>] => c \in Conflicts
=============================================================================
