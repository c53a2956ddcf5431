------------------------------ MODULE Database ------------------------------
(***************************************************************************)
(* What a project promises of its database, whatever files it is made of:  *)
(* transactions add to one image, an image is replaced by another as a     *)
(* whole, and only by one a journal names; what a replacement takes away   *)
(* has been kept; and every image but the empty one holds the project row. *)
(* StateReplacement implements it (ImplementsDatabase).                    *)
(***************************************************************************)
CONSTANTS
    Contents,   \* what can be committed to a database
    Writes,     \* what ordinary commands commit
    Project     \* the project row

\* The images that pass validate_database.
Valid == {i \in SUBSET Contents : Project \in i}

VARIABLES
    image,      \* what a connection sees
    kept,       \* the backups
    offered     \* the images that journals name

vars == <<image, kept, offered>>

Init ==
    /\ image \in {{}} \cup Valid
    /\ kept \subseteq Valid
    /\ offered = {}

Commit(w) ==
    /\ image \in Valid
    /\ image' = image \cup {w}
    /\ UNCHANGED <<kept, offered>>

Keep ==
    /\ image \in Valid
    /\ kept' = kept \cup {image}
    /\ UNCHANGED <<image, offered>>

\* Journals are written, retired and recovered.
Offer ==
    /\ offered' \subseteq Valid
    /\ UNCHANGED <<image, kept>>

Replace ==
    /\ image' \in offered
    /\ image \subseteq image' \/ image \in kept
    /\ offered' \subseteq offered
    /\ UNCHANGED kept

Next ==
    \/ \E w \in Writes : Commit(w)
    \/ Keep \/ Offer \/ Replace

Spec == Init /\ [][Next]_vars
=============================================================================
