--------------------------- MODULE MCSpaceConnect ---------------------------
(* Instances of SpaceConnect for TLC. *)
EXTENDS SpaceConnect

\* Ids only ever get compared; Names are not symmetric with the generated ones.
Symmetry == Permutations(RobotIds) \cup Permutations(TokenIds)

=============================================================================
