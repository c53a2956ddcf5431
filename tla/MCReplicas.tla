----------------------------- MODULE MCReplicas -----------------------------
\* Two clones; at most two commands change rows and two snapshots are made.
EXTENDS Replicas, TLC

CONSTANTS A, B
=============================================================================
