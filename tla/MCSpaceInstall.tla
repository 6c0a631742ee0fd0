--------------------------- MODULE MCSpaceInstall ---------------------------
(* A Space of before 1.7: UXP, a provider and a chart are prerequisites.   *)
EXTENDS SpaceInstall

MCPrerequisites == <<"uxp", "provider", "cert">>
=============================================================================
