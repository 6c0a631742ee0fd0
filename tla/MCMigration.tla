---------------------------- MODULE MCMigration ----------------------------
(* One resource of each kind that migration treats in its own way. *)
EXTENDS ControlPlaneMigration, TLC

CONSTANTS configmap, caSecret, xrd, provider, vpc, xnetwork, networkClaim, widget,
          configmaps, xrds, providers, vpcs, xnetworks, networkClaims, widgets

MCTypeOf == configmap :> configmaps @@ caSecret :> configmaps @@ xrd :> xrds @@ provider :> providers
            @@ vpc :> vpcs @@ xnetwork :> xnetworks @@ networkClaim :> networkClaims
            @@ widget :> widgets
MCCategory == configmaps :> "none" @@ xrds :> "none" @@ providers :> "none" @@ vpcs :> "managed"
              @@ xnetworks :> "composite" @@ networkClaims :> "claim" @@ widgets :> "none"
MCBaseTypes == <<configmaps, xrds, providers>>
MCDefinedBy == vpcs :> {provider} @@ xnetworks :> {xrd} @@ networkClaims :> {xrd}
               @@ [t \in Types |-> {}]
MCComposes == networkClaim :> {xnetwork} @@ xnetwork :> {vpc} @@ provider :> {caSecret}
              @@ [r \in Resources |-> {}]
\* Lexical: cluster/, metadata.yaml, namespaces/ within a type.
MCWalk == <<xrd, xrds, configmap, caSecret, ExportMeta, networkClaims, networkClaim, provider,
            providers, vpc, vpcs, widget, widgets, xnetwork, xnetworks>>

\* The archive of a source that changed is imported once only.
MigrationWithOneChange == MigrationNext /\ (changes > 0 => import'.runs <= 1)
=============================================================================
