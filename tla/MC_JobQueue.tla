----------------------------- MODULE MC_JobQueue -----------------------------
(* Instances of JobQueue for TLC. *)
EXTENDS JobQueue, TLC

CONSTANTS w1, w2, w3, r1, r2, j1, j2

AllOps == ClientOps
Reviews == {"approve", "reject", "rerender"}

\* Interchangeable only in runs that name no worker as reliable and check no
\* liveness.
Sessions == Permutations({w1, w2, w3})

=============================================================================
