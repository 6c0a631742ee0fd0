--------------------------- MODULE MCKubeContext ---------------------------
(* Instances of KubeContext for TLC. *)
EXTENDS KubeContext, TLC

\* Where the hub leads is in the initial state; the other targets and the
\* processes are interchangeable.
Symmetry == Permutations(Targets \ {HubTarget}) \cup Permutations(Procs)

=============================================================================
