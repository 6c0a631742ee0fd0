---------------------------- MODULE SpaceInstall ----------------------------
(***************************************************************************)
(* `up space init`, `upgrade` and `destroy`, and the commands of `up uxp`, *)
(* over the Helm releases of one cluster.  init first installs the         *)
(* prerequisites it misses.  Whether one is there is read from a resource  *)
(* it brings along (a CRD, an ingress class), never from its release.      *)
(***************************************************************************)
EXTENDS Naturals, SequencesExt

CONSTANTS
    Prerequisites,  \* those of the version to install, in their order
    Providers,      \* those among them that are packages of Crossplane
    MaxVersion,     \* bound: versions 1 .. MaxVersion
    MaxLaunches     \* bound: commands

NoVersion == 0
Helm == INSTANCE HelmRelease WITH None <- NoVersion

VARIABLES
    releases,   \* [charts -> the release], see HelmRelease
    brought,    \* the prerequisites whose resource is there
    packages,   \* the providers whose package was created, with its state
    configured, \* the providers that have their ProviderConfig
    namespace,  \* upbound-system
    pullSecret, \* is the image pull secret in it
    launch,     \* the command that runs
    cutShort,   \* prerequisites that failed, were killed or taken away
    launches    \* commands started

installVars == <<releases, brought, packages, configured, namespace, pullSecret, launch, cutShort, launches>>

Version == 1 .. MaxVersion
Uxp == "uxp"
Space == "space"
Alternate == "crossplane"
Charts == (ToSet(Prerequisites) \ Providers) \cup {Uxp, Space, Alternate}
InNamespace == {Uxp, Space, Alternate}

\* The charts of the Space itself and of Crossplane are no prerequisites.
ASSUME InstallAssumption ==
    /\ Prerequisites \in Seq(ToSet(Prerequisites))
    /\ Providers \subseteq ToSet(Prerequisites) \ {Uxp}
    /\ {Space, Alternate} \cap ToSet(Prerequisites) = {}

NoLaunch == [op |-> "none", step |-> "idle", version |-> 0, missing |-> <<>>, confirmed |-> FALSE, flag |-> FALSE]

At(op, step) == launch.op = op /\ launch.step = step
Go(step) == launch' = [launch EXCEPT !.step = step]
Fails == launch' = NoLaunch
\* The prerequisite that is being installed.
Underway == {launch.missing[i] : i \in {1} \cap DOMAIN launch.missing}
-----------------------------------------------------------------------------
(* The Helm manager *)

\* The release it works on: of its chart, else of the alternate one.
ReleaseName(chart) ==
    IF chart = Uxp /\ releases[Uxp] = Helm!NoRelease /\ releases[Alternate] # Helm!NoRelease
    THEN Alternate ELSE chart

\* The version bounds of the caller refuse a chart before anything is done.
ManagerInstall(chart, v) ==
    IF releases[chart] # Helm!NoRelease
    THEN {Helm!Refuse(releases[chart])}
    ELSE Helm!Install(releases[chart], v) \cup {Helm!Refuse(releases[chart])}

\* Without --rollback a failed upgrade stays as it is.
ManagerUpgrade(r, v, rollback) ==
    IF r = Helm!NoRelease THEN {Helm!Refuse(r)}
    ELSE {Helm!Refuse(r)} \cup
         IF rollback THEN Helm!Upgrade(r, v)
         ELSE IF Helm!Upgradable(r)
              THEN {Helm!Succeed(Helm!Deployed(v, r.cur)), Helm!Break(r), Helm!Break(Helm!Failed(v, r.cur))}
              ELSE {}
-----------------------------------------------------------------------------
(* up space init *)

LaunchInit ==
    /\ launch = NoLaunch /\ launches < MaxLaunches
    /\ \E v \in Version : launch' = [NoLaunch EXCEPT !.op = "init", !.step = "check", !.version = v]
    /\ launches' = launches + 1
    /\ UNCHANGED <<releases, brought, packages, configured, namespace, pullSecret, cutShort>>

\* The prerequisites that are not there, in their order.
NotInstalled ==
    LET missing[n \in 0 .. Len(Prerequisites)] ==
            IF n = 0 THEN <<>>
            ELSE IF Prerequisites[n] \in brought THEN missing[n - 1]
            ELSE Append(missing[n - 1], Prerequisites[n])
    IN  missing[Len(Prerequisites)]

\* The account and the installation of what is missing are asked for.
CheckPrerequisites ==
    /\ At("init", "check")
    /\ \/ launch' = [launch EXCEPT !.step = "install", !.missing = NotInstalled]
       \/ Fails
    /\ UNCHANGED <<releases, brought, packages, configured, namespace, pullSecret, cutShort, launches>>

\* One that has come in the meantime is passed over.
SkippedOne(p) == p \in brought
Next1 == [launch EXCEPT !.missing = Tail(@)]
CutShort(p) == cutShort' = cutShort \cup {p}

\* A chart brings its resource with it, maybe also if it fails half way.
Brings(p, o) ==
    CASE ~o.err -> {brought \cup {p}}
      [] o.err /\ o.rel = releases[p] -> {brought}
      [] OTHER -> {brought, brought \cup {p}}

InstallChart ==
    /\ At("init", "install") /\ launch.missing # <<>>
    /\ LET p == Head(launch.missing) IN
       /\ p \notin Providers
       /\ \/ /\ SkippedOne(p) /\ launch' = Next1
             /\ UNCHANGED <<releases, brought, namespace, cutShort>>
          \/ /\ ~SkippedOne(p)
             /\ p = Uxp => namespace # "deleting"
             /\ namespace' = IF p = Uxp THEN "active" ELSE namespace
             /\ \E o \in ManagerInstall(p, 1) :
                 /\ releases' = [releases EXCEPT ![p] = o.rel]
                 /\ brought' \in Brings(p, o)
                 /\ launch' = IF o.err THEN NoLaunch ELSE Next1
                 /\ IF o.err THEN CutShort(p) ELSE UNCHANGED cutShort
          \/ Fails /\ CutShort(p) /\ UNCHANGED <<releases, brought, namespace>>
    /\ UNCHANGED <<packages, configured, pullSecret, launches>>

\* A provider needs the CRDs of UXP; its package must not exist yet.
CreatePackage ==
    /\ At("init", "install") /\ launch.missing # <<>>
    /\ LET p == Head(launch.missing) IN
       /\ p \in Providers
       /\ \/ SkippedOne(p) /\ launch' = Next1 /\ UNCHANGED <<packages, cutShort>>
          \/ /\ ~SkippedOne(p) /\ Uxp \in brought /\ p \notin packages
             /\ packages' = packages \cup {p} /\ Go("wait") /\ UNCHANGED cutShort
          \/ Fails /\ CutShort(p) /\ UNCHANGED packages
    /\ UNCHANGED <<releases, brought, configured, namespace, pullSecret, launches>>

\* Crossplane installs a package as long as it runs itself.
PackageHealthy(p) ==
    /\ p \in packages \ brought /\ \E c \in {Uxp, Alternate} : releases[c].status = "deployed"
    /\ brought' = brought \cup {p}
    /\ UNCHANGED <<releases, packages, configured, namespace, pullSecret, launch, cutShort, launches>>

ConfigureWithoutAsking == \* Mutant: the wait for the package is not a wait
    /\ At("init", "wait")
    /\ LET p == Head(launch.missing) IN
       \/ launch' = [Next1 EXCEPT !.step = "install"] /\ UNCHANGED <<configured, cutShort>>
       \/ Fails /\ CutShort(p) /\ UNCHANGED configured
    /\ UNCHANGED <<releases, brought, packages, namespace, pullSecret, launches>>

\* Waits without a limit, then makes the ProviderConfig.
ConfigureProvider ==
    /\ At("init", "wait")
    /\ LET p == Head(launch.missing) IN
       \/ /\ p \in brought
          /\ configured' = configured \cup {p}
          /\ launch' = [Next1 EXCEPT !.step = "install"]
          /\ UNCHANGED cutShort
       \/ Fails /\ CutShort(p) /\ UNCHANGED configured
    /\ UNCHANGED <<releases, brought, packages, namespace, pullSecret, launches>>

\* The namespace may exist, even if it is being deleted: then nothing can be
\* made in it.
ApplySecret ==
    /\ At("init", "install") /\ launch.missing = <<>>
    /\ namespace' = IF namespace = "absent" THEN "active" ELSE namespace
    /\ \/ namespace' = "active" /\ pullSecret' = TRUE /\ Go("deploy")
       \/ Fails /\ UNCHANGED pullSecret
    /\ UNCHANGED <<releases, brought, packages, configured, cutShort, launches>>

\* With versions before 1.7 the host cluster is waited for, unless --quiet is
\* given, and init may fail then though the release is deployed.
DeploySpace ==
    /\ At("init", "deploy")
    /\ \E o \in ManagerInstall(Space, launch.version) :
        /\ o.rel # Helm!NoRelease => namespace = "active"
        /\ releases' = [releases EXCEPT ![Space] = o.rel]
        /\ \/ Fails
           \/ ~o.err /\ Go("ready")
    /\ UNCHANGED <<brought, packages, configured, namespace, pullSecret, cutShort, launches>>
-----------------------------------------------------------------------------
(* up space upgrade *)

\* Unless a bundle is given the versions are compared, and the user is asked.
Unsupported(from, to) == from > to \/ to > from + 1

LaunchUpgradeUnasked == \* Mutant: only skipped versions are asked about
    /\ launch = NoLaunch /\ launches < MaxLaunches
    /\ releases[Space] # Helm!NoRelease
    /\ \E v \in Version, bundle, confirmed \in BOOLEAN :
        /\ bundle \/ confirmed \/ v <= releases[Space].cur + 1
        /\ launch' = [NoLaunch EXCEPT !.op = "upgrade", !.step = "secret", !.version = v,
                                      !.confirmed = confirmed, !.flag = bundle]
    /\ launches' = launches + 1
    /\ UNCHANGED <<releases, brought, packages, configured, namespace, pullSecret, cutShort>>

LaunchUpgrade ==
    /\ launch = NoLaunch /\ launches < MaxLaunches
    /\ releases[Space] # Helm!NoRelease
    /\ \E v \in Version, bundle, confirmed \in BOOLEAN :
        /\ bundle \/ confirmed \/ ~Unsupported(releases[Space].cur, v)
        /\ launch' = [NoLaunch EXCEPT !.op = "upgrade", !.step = "secret", !.version = v,
                                      !.confirmed = confirmed, !.flag = bundle]
    /\ launches' = launches + 1
    /\ UNCHANGED <<releases, brought, packages, configured, namespace, pullSecret, cutShort>>

UpgradeSecret ==
    /\ At("upgrade", "secret")
    /\ \/ namespace = "active" /\ pullSecret' = TRUE /\ Go("upgrade")
       \/ Fails /\ UNCHANGED pullSecret
    /\ UNCHANGED <<releases, brought, packages, configured, namespace, cutShort, launches>>

UpgradeSpace ==
    /\ At("upgrade", "upgrade")
    /\ \E rollback \in BOOLEAN : \E o \in ManagerUpgrade(releases[Space], launch.version, rollback) :
        releases' = [releases EXCEPT ![Space] = o.rel]
    /\ Fails
    /\ UNCHANGED <<brought, packages, configured, namespace, pullSecret, cutShort, launches>>
-----------------------------------------------------------------------------
(* up space destroy *)

\* A failed uninstall, and --orphan, keep the namespace.
LaunchDestroy ==
    /\ launch = NoLaunch /\ launches < MaxLaunches
    /\ \E o \in Helm!Uninstall(releases[Space]), orphan \in BOOLEAN :
        /\ releases' = [releases EXCEPT ![Space] = o.rel]
        /\ launch' = IF o.err \/ orphan THEN NoLaunch
                     ELSE [NoLaunch EXCEPT !.op = "destroy", !.step = "namespace"]
    /\ launches' = launches + 1
    /\ UNCHANGED <<brought, packages, configured, namespace, pullSecret, cutShort>>

DeleteNamespace ==
    /\ At("destroy", "namespace")
    /\ namespace' \in {namespace} \cup {"deleting" : x \in {namespace} \ {"absent"}}
    /\ Fails
    /\ UNCHANGED <<releases, brought, packages, configured, pullSecret, cutShort, launches>>

\* With the namespace goes all that is in it, the releases of UXP included;
\* CRDs are not.
NamespaceGone ==
    /\ namespace = "deleting"
    /\ namespace' = "absent" /\ pullSecret' = FALSE
    /\ releases' = [c \in Charts |-> IF c \in InNamespace THEN Helm!NoRelease ELSE releases[c]]
    /\ cutShort' = cutShort \cup ({Uxp} \cap ToSet(Prerequisites))
    /\ UNCHANGED <<brought, packages, configured, launch, launches>>
-----------------------------------------------------------------------------
(* up uxp: the release of its chart or of Crossplane's.  Helm creates no    *)
(* namespace; the commands do.                                             *)

UxpInstall ==
    /\ launch = NoLaunch /\ launches < MaxLaunches /\ namespace # "deleting"
    /\ namespace' = "active"
    /\ \E o \in ManagerInstall(ReleaseName(Uxp), 1) :
        /\ releases' = [releases EXCEPT ![ReleaseName(Uxp)] = o.rel]
        /\ brought' \in Brings(Uxp, o)
        /\ IF o.err THEN CutShort(Uxp) ELSE UNCHANGED cutShort
    /\ launches' = launches + 1
    /\ UNCHANGED <<packages, configured, pullSecret, launch>>

\* A release of Crossplane is upgraded under its own name, to the equivalent
\* version unless forced.
UxpUpgrade ==
    /\ launch = NoLaunch /\ launches < MaxLaunches
    /\ LET name == ReleaseName(Uxp) IN
       \E v \in Version, force, rollback \in BOOLEAN :
        /\ name = Alternate => force \/ v = releases[name].cur
        /\ \E o \in ManagerUpgrade(releases[name], v, rollback) :
            /\ releases' = [releases EXCEPT ![name] = o.rel]
            /\ IF o.err THEN CutShort(Uxp) ELSE UNCHANGED cutShort
    /\ launches' = launches + 1
    /\ UNCHANGED <<brought, packages, configured, namespace, pullSecret, launch>>

\* Never the alternate one.
UxpUninstall ==
    /\ launch = NoLaunch /\ launches < MaxLaunches
    /\ \E o \in Helm!Uninstall(releases[Uxp]) : releases' = [releases EXCEPT ![Uxp] = o.rel]
    /\ cutShort' = cutShort \cup ({Uxp} \cap ToSet(Prerequisites))
    /\ launches' = launches + 1
    /\ UNCHANGED <<brought, packages, configured, namespace, pullSecret, launch>>

\* Killed in the middle of Helm a command leaves a pending release.
KillLaunch ==
    /\ launch # NoLaunch
    /\ Fails
    /\ LET busy == CASE At("init", "install") -> Underway \ (brought \cup Providers)
                     [] At("init", "deploy") \/ At("upgrade", "upgrade") -> {Space}
                     [] OTHER -> {}
       IN \/ UNCHANGED <<releases, brought>>
          \/ \E c \in busy, come \in SUBSET (busy \ {Space}) :
                /\ c \in InNamespace => namespace = "active"
                /\ launch.op = "init" => releases[c] = Helm!NoRelease
                /\ \E rel \in Helm!Interrupted(releases[c], IF c = Space THEN launch.version ELSE 1) :
                      releases' = [releases EXCEPT ![c] = rel]
                /\ brought' = brought \cup come
    /\ cutShort' = cutShort \cup Underway
    /\ UNCHANGED <<packages, configured, namespace, pullSecret, launches>>

\* So does up uxp, whose commands are one step here.
KillUxp ==
    /\ launch = NoLaunch /\ launches < MaxLaunches /\ namespace # "deleting"
    /\ namespace' = "active"
    /\ LET name == ReleaseName(Uxp) IN
       \E v \in Version : \E rel \in Helm!Interrupted(releases[name], v) :
            releases' = [releases EXCEPT ![name] = rel]
    /\ brought' \in {brought, brought \cup {Uxp}} /\ CutShort(Uxp)
    /\ launches' = launches + 1
    /\ UNCHANGED <<packages, configured, pullSecret, launch>>

Finish == /\ launch.step = "ready" /\ launch' = NoLaunch
          /\ UNCHANGED <<releases, brought, packages, configured, namespace, pullSecret, cutShort, launches>>
-----------------------------------------------------------------------------
\* What prerequisites bring may have come from elsewhere: an ingress class of
\* the cloud's, a cert-manager installed otherwise, what an older one left.
InstallInit ==
    /\ \E c \in {Helm!NoRelease, Helm!Deployed(1, NoVersion)}, others \in SUBSET ToSet(Prerequisites) :
        /\ releases = [x \in Charts |-> IF x = Alternate THEN c ELSE Helm!NoRelease]
        /\ namespace = IF c = Helm!NoRelease THEN "absent" ELSE "active"
        /\ brought = others \cup (IF c = Helm!NoRelease THEN {} ELSE {Uxp})
        /\ cutShort = brought
    /\ packages = {} /\ configured = {} /\ pullSecret = FALSE
    /\ launch = NoLaunch /\ launches = 0

InstallNext ==
    \/ LaunchInit \/ CheckPrerequisites \/ InstallChart \/ CreatePackage \/ ConfigureProvider
    \/ ApplySecret \/ DeploySpace \/ Finish
    \/ LaunchUpgrade \/ UpgradeSecret \/ UpgradeSpace
    \/ LaunchDestroy \/ DeleteNamespace \/ NamespaceGone
    \/ UxpInstall \/ UxpUpgrade \/ UxpUninstall \/ KillLaunch \/ KillUxp
    \/ \E p \in Providers : PackageHealthy(p)

InstallSpec == InstallInit /\ [][InstallNext]_installVars
-----------------------------------------------------------------------------
(* When init says that the Space is ready, its release is deployed, the     *)
(* pull secret is there, and so is every prerequisite that no earlier run  *)
(* was cut short in, nothing took away and nothing but init brought: the   *)
(* release of a chart, the ProviderConfig of a provider (init.go "Required *)
(* prerequisites met!").                                                   *)
ReadyIsDeployed ==
    launch.step = "ready" =>
        /\ releases[Space] = Helm!Deployed(launch.version, NoVersion) /\ pullSecret
        /\ \A p \in ToSet(Prerequisites) \ cutShort :
              IF p \in Providers THEN p \in configured ELSE releases[p].status = "deployed"

(* A Space only gets an older version if the user has agreed to that, gave *)
(* a chart of his own, or a failed upgrade was rolled back, to the end or  *)
(* not (upgrade.go, validateVersions).                                     *)
DowngradeIsAgreed ==
    [][LET r == releases[Space] IN
       releases'[Space].cur \in 1 .. r.cur - 1 =>
            \/ launch.confirmed \/ launch.flag
            \/ [releases'[Space] EXCEPT !.status = "deployed"] = Helm!RolledBack(r)]_installVars
=============================================================================
