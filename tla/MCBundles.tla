------------------------------ MODULE MCBundles ------------------------------
(***************************************************************************)
(* Small instances of Bundles for TLC.                                     *)
(***************************************************************************)
EXTENDS Bundles, TLC

CONSTANTS p, q, c1, c2, d1, d2, t

SomeHomes == p :> c1 @@ q :> c2

\* Each clone exports into a directory of its own, or both into the first.
OwnTargets == c1 :> {d1} @@ c2 :> {d2}
OneTarget == c1 :> {d1} @@ c2 :> {d1}

\* Every kind occurs, and both clones make snapshots.
SomeKinds == c1 :> {"snapshot", "publication"} @@ c2 :> {"plain", "snapshot"}

\* The second clone imports what the first exports.
SomeSources == c1 :> {} @@ c2 :> {d1, "snapshot"}

\* The worktree exists on the machine of the first clone only.
FirstOnly == c1 :> {t} @@ c2 :> {}

\* One clone exports to two directories and imports what lies in the first.
OneHome == p :> c1
BothTargets == c1 :> {d1, d2}
PlainOnly == c1 :> {"plain"}
FirstSource == c1 :> {d1}
ExistsHere == c1 :> {t}
=============================================================================
