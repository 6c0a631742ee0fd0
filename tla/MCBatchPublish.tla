-------------------------- MODULE MCBatchPublish --------------------------
(* Instances of BatchPublish for TLC. *)
EXTENDS BatchPublish, TLC

\* Services start alike, and so do platforms.
Symmetry == Permutations(Services) \cup Permutations(Platforms)

=============================================================================
