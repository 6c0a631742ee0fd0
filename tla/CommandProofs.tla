--------------------------- MODULE CommandProofs ----------------------------
(***************************************************************************)
(* What init and upgrade leave of a Space, and an install of packages, for *)
(* any prerequisites, versions, packages and number of commands; and what  *)
(* a billing export reports, for any hours, windows and stored objects.    *)
(***************************************************************************)
EXTENDS SpaceInstall, PackageInstall, UsageReport, FiniteSetTheorems, SequenceTheorems, TLAPS

-----------------------------------------------------------------------------
(***************************************************************************)
(* No version of a Space goes down unasked.  The versions are compared     *)
(* when an upgrade is launched and used two steps later; the invariant     *)
(* says that the answer still holds then, since nothing that may come in   *)
(* between raises the version of the release.                              *)
(***************************************************************************)
Rel == [cur : Nat, prev : Nat, status : Helm!Statuses]

IsLaunch(l) ==
    \E op, step, missing, confirmed, flag : \E v \in Nat :
        l = [op |-> op, step |-> step, version |-> v, missing |-> missing, confirmed |-> confirmed, flag |-> flag]

InstallTypes == releases \in [Charts -> Rel] /\ IsLaunch(launch)

\* The user agreed to the version, or brought the chart himself.
Agreed == launch.confirmed \/ launch.flag

UpgradeIsAgreed == launch.op = "upgrade" /\ ~Agreed => launch.version >= releases[Space].cur

InstallInv == InstallTypes /\ UpgradeIsAgreed

\* Release s is r rolled back, to the end or not.
GoneBack(r, s) == [s EXCEPT !.status = "deployed"] = Helm!RolledBack(r)

(* What the calls of the Helm manager leave: releases, and of the versions *)
(* there were and the one asked for.                                       *)
LEMMA ManagerInstallFacts ==
    ASSUME NEW chart \in Charts, NEW v \in Nat, releases \in [Charts -> Rel],
           NEW o \in ManagerInstall(chart, v)
    PROVE  /\ o.rel \in Rel
           /\ o.rel = releases[chart] \/ releases[chart] = Helm!NoRelease
<1>1. releases[chart] \in Rel
  OBVIOUS
<1>2. CASE releases[chart] # Helm!NoRelease
  BY <1>1, <1>2 DEF ManagerInstall, Helm!Refuse
<1>3. CASE releases[chart] = Helm!NoRelease
  <2>1. o \in {Helm!Succeed(Helm!Deployed(v, NoVersion)), Helm!Break(releases[chart]),
               Helm!Break(Helm!Failed(v, NoVersion)), Helm!Refuse(releases[chart])}
    BY <1>3 DEF ManagerInstall, Helm!Install
  <2>2. o.rel \in {Helm!Deployed(v, NoVersion), releases[chart], Helm!Failed(v, NoVersion)}
    BY <2>1 DEF Helm!Succeed, Helm!Break, Helm!Refuse
  <2> QED
    BY <1>1, <1>3, <2>2 DEF Rel, Helm!Deployed, Helm!Failed, Helm!Statuses, NoVersion
<1> QED
  BY <1>2, <1>3

(* An upgrade leaves the version there was, the one asked for, or, rolled *)
(* back, the one before.                                                   *)
LEMMA ManagerUpgradeFacts ==
    ASSUME NEW r \in Rel, NEW v \in Nat, NEW rollback \in BOOLEAN, NEW o \in ManagerUpgrade(r, v, rollback)
    PROVE  /\ o.rel \in Rel
           /\ GoneBack(r, o.rel) \/ o.rel.cur \in {r.cur, v}
<1> USE DEF Helm!Deployed, Helm!Failed
<1>1. /\ Helm!RolledBack(r) \in Rel
      /\ GoneBack(r, Helm!RolledBack(r)) \/ Helm!RolledBack(r).cur = r.cur
      /\ r.cur \in Nat /\ r.prev \in Nat
  BY DEF Rel, GoneBack, Helm!RolledBack, Helm!Statuses
<1>2. ASSUME NEW x \in Helm!AfterRollback(r) PROVE x \in Rel /\ (GoneBack(r, x) \/ x.cur = r.cur)
  <2>1. CASE x \in {r, Helm!RolledBack(r)}
    BY <1>1, <2>1
  <2>2. CASE r.prev # NoVersion /\ x = Helm!Failed(r.prev, r.cur)
    BY <1>1, <2>2 DEF Rel, GoneBack, Helm!RolledBack, Helm!Statuses
  <2> QED
    BY <1>2, <2>1, <2>2 DEF Helm!AfterRollback
<1>3. ASSUME NEW x \in Helm!AfterRollback(Helm!Failed(v, r.cur)) \cup {Helm!Deployed(v, r.cur), Helm!Failed(v, r.cur)}
      PROVE  x \in Rel /\ x.cur \in {r.cur, v}
  <2>1. x \in {Helm!Failed(v, r.cur), Helm!Deployed(r.cur, v), Helm!Failed(r.cur, v), Helm!Deployed(v, r.cur)}
    BY <1>3 DEF Helm!AfterRollback, Helm!RolledBack
  <2> QED
    BY <1>1, <2>1 DEF Rel, Helm!Statuses
<1>4. r \in Helm!AfterRollback(r) /\ Helm!RolledBack(r) \in Helm!AfterRollback(r)
  BY DEF Helm!AfterRollback
<1> HIDE DEF Helm!Deployed, Helm!Failed
<1>5. \E x \in Helm!AfterRollback(r) \cup Helm!AfterRollback(Helm!Failed(v, r.cur))
                  \cup {Helm!Deployed(v, r.cur), Helm!Failed(v, r.cur)} :
          o \in {Helm!Refuse(x), Helm!Break(x), Helm!Succeed(x)}
  BY <1>4 DEF ManagerUpgrade, Helm!Upgrade
<1>6. \E x \in Helm!AfterRollback(r) \cup Helm!AfterRollback(Helm!Failed(v, r.cur))
                  \cup {Helm!Deployed(v, r.cur), Helm!Failed(v, r.cur)} : o.rel = x
  BY <1>5 DEF Helm!Succeed, Helm!Break, Helm!Refuse
<1> QED
  BY <1>2, <1>3, <1>6

(* No release, a killed call, and a failed uninstall. *)
LEMMA ReleaseFacts ==
    /\ Helm!NoRelease \in Rel /\ Helm!NoRelease.cur = 0
    /\ \A r \in Rel, v \in Nat : \A x \in Helm!Interrupted(r, v) :
            x \in Rel /\ (GoneBack(r, x) \/ x.cur \in {r.cur, v})
    /\ \A r \in Rel : \A o \in Helm!Uninstall(r) : o.rel \in Rel /\ (o.rel.cur = r.cur \/ o.rel = Helm!NoRelease)
<1>1. Helm!NoRelease \in Rel /\ Helm!NoRelease.cur = 0
  BY DEF Rel, Helm!NoRelease, Helm!Statuses, NoVersion
<1>2. ASSUME NEW r \in Rel, NEW v \in Nat, NEW x \in Helm!Interrupted(r, v)
      PROVE  x \in Rel /\ (GoneBack(r, x) \/ x.cur \in {r.cur, v})
  <2>1. r.cur \in Nat /\ r.prev \in Nat
    BY DEF Rel
  <2>2. CASE x = r
    BY <2>2
  <2>3. CASE r.prev # NoVersion /\ x = Helm!Pending(r.prev, r.cur)
    BY <2>1, <2>3 DEF Rel, GoneBack, Helm!RolledBack, Helm!Deployed, Helm!Pending, Helm!Statuses
  <2>4. CASE x \in {Helm!Pending(v, r.cur), Helm!Failed(v, r.cur), Helm!Pending(r.cur, v)}
    BY <2>1, <2>4 DEF Rel, Helm!Pending, Helm!Failed, Helm!Statuses
  <2> QED
    BY <2>2, <2>3, <2>4 DEF Helm!Interrupted
<1>3. ASSUME NEW r \in Rel, NEW o \in Helm!Uninstall(r)
      PROVE  o.rel \in Rel /\ (o.rel.cur = r.cur \/ o.rel = Helm!NoRelease)
  <2>1. o.rel \in Helm!HalfGone(r)
    BY DEF Helm!Uninstall, Helm!HalfGone, Helm!Succeed, Helm!Refuse, Helm!Break
  <2>2. o.rel \in {r, [r EXCEPT !.status = "uninstalling"],
                   [cur |-> r.cur, prev |-> NoVersion, status |-> "uninstalling"], Helm!NoRelease}
    BY <2>1 DEF Helm!HalfGone
  <2> QED
    BY <1>1, <2>2 DEF Rel, Helm!Statuses, NoVersion
<1> QED
  BY <1>1, <1>2, <1>3

(* The names of the charts. *)
LEMMA ChartFacts ==
    /\ {Uxp, Space, Alternate} \subseteq Charts
    /\ Uxp # Space /\ Alternate # Space
    /\ ReleaseName(Uxp) \in Charts \ {Space}
BY DEF Charts, Uxp, Space, Alternate, ReleaseName

(* A cluster without a Space. *)
LEMMA InstallBegins == InstallInit => InstallInv
<1> SUFFICES ASSUME InstallInit PROVE InstallInv
  OBVIOUS
<1>1. launch = NoLaunch
  BY DEF InstallInit
<1>2. Helm!Deployed(1, NoVersion) \in Rel
  BY DEF Rel, Helm!Deployed, Helm!Statuses, NoVersion
<1>3. releases \in [Charts -> Rel]
  BY <1>2, ReleaseFacts DEF InstallInit
<1> QED
  BY <1>1, <1>3 DEF InstallInv, InstallTypes, IsLaunch, UpgradeIsAgreed, NoLaunch

\* The command goes on, without a change of what it was asked for.
GoesOn ==
    /\ launch'.op = launch.op /\ launch'.version = launch.version
    /\ launch'.confirmed = launch.confirmed /\ launch'.flag = launch.flag

\* The release of the Space stays at its version, goes, or comes.
SpaceQuiet ==
    \/ releases'[Space] = releases[Space] \/ releases'[Space] = Helm!NoRelease
    \/ releases'[Space].cur = releases[Space].cur
    \/ releases[Space] = Helm!NoRelease

\* The step that DowngradeIsAgreed allows.
AgreedStep ==
    LET r == releases[Space] IN
    releases'[Space].cur \in 1 .. r.cur - 1 =>
         launch.confirmed \/ launch.flag \/ GoneBack(r, releases'[Space])

(* The forms in which a command ends and goes on. *)
LEMMA FailFacts == IsLaunch(NoLaunch) /\ NoLaunch.op = "none"
BY DEF IsLaunch, NoLaunch

(* What IsLaunch asks for is the fields. *)
LEMMA RecordFacts ==
    ASSUME NEW op, NEW step, NEW missing, NEW confirmed, NEW flag, NEW v \in Nat, NEW l,
           l = [op |-> op, step |-> step, version |-> v, missing |-> missing, confirmed |-> confirmed, flag |-> flag]
    PROVE  IsLaunch(l)
<1> SUFFICES \E o, s, m, c, f : \E w \in Nat :
        l = [op |-> o, step |-> s, version |-> w, missing |-> m, confirmed |-> c, flag |-> f]
  BY Zenon DEF IsLaunch
<1> WITNESS op, step, missing, confirmed, flag
<1> WITNESS v \in Nat
<1> QED
  OBVIOUS

(* A prerequisite less is missing. *)
LEMMA MissingFacts ==
    ASSUME InstallTypes, NEW s, NEW m,
           \/ launch' = [launch EXCEPT !.step = s, !.missing = m]
           \/ launch' = [launch EXCEPT !.step = s]
           \/ launch' = Next1 \/ launch' = [Next1 EXCEPT !.step = s]
    PROVE  IsLaunch(launch') /\ launch'.op = launch.op
<1>1. PICK op, step, missing, confirmed, flag : \E v \in Nat :
        launch = [op |-> op, step |-> step, version |-> v, missing |-> missing, confirmed |-> confirmed, flag |-> flag]
  BY DEF InstallTypes, IsLaunch
<1>2. PICK v \in Nat :
        launch = [op |-> op, step |-> step, version |-> v, missing |-> missing, confirmed |-> confirmed, flag |-> flag]
  BY <1>1
<1>3. Next1 = [op |-> op, step |-> step, version |-> v, missing |-> Tail(missing), confirmed |-> confirmed, flag |-> flag]
  <2>1. launch.missing = missing
    BY <1>2
  <2>2. Next1 = [launch EXCEPT !.missing = Tail(missing)]
    BY <2>1, Zenon DEF Next1
  <2> QED
    BY <1>2, <2>2
<1>4. \E z, q : launch' = [op |-> op, step |-> z, version |-> v, missing |-> q, confirmed |-> confirmed, flag |-> flag]
  BY <1>2, <1>3
<1>5. IsLaunch(launch')
  BY <1>4, RecordFacts
<1>6. launch'.op = launch.op
  BY <1>2, <1>4
<1> QED
  BY <1>5, <1>6

(* The next step. *)
LEMMA GoFacts ==
    ASSUME InstallTypes, NEW s, launch' = [launch EXCEPT !.step = s]
    PROVE  IsLaunch(launch') /\ GoesOn
<1>1. PICK op, step, missing, confirmed, flag : \E v \in Nat :
        launch = [op |-> op, step |-> step, version |-> v, missing |-> missing, confirmed |-> confirmed, flag |-> flag]
  BY DEF InstallTypes, IsLaunch
<1>2. PICK v \in Nat :
        launch = [op |-> op, step |-> step, version |-> v, missing |-> missing, confirmed |-> confirmed, flag |-> flag]
  BY <1>1
<1>3. launch' = [op |-> op, step |-> s, version |-> v, missing |-> missing, confirmed |-> confirmed, flag |-> flag]
  BY <1>2
<1>4. IsLaunch(launch')
  BY MissingFacts
<1>5. GoesOn
  BY <1>2, <1>3 DEF GoesOn
<1> QED
  BY <1>4, <1>5

(* A step that leaves the Space's release, takes it, or makes it. *)
LEMMA QuietSteps ==
    ASSUME InstallInv, releases' \in [Charts -> Rel], IsLaunch(launch'), SpaceQuiet,
           \/ launch'.op # "upgrade"
           \/ GoesOn /\ (releases'[Space] = releases[Space] \/ releases'[Space] = Helm!NoRelease)
    PROVE  InstallInv' /\ AgreedStep
<1>1. Space \in Charts /\ releases[Space] \in Rel /\ releases'[Space] \in Rel
  BY ChartFacts DEF InstallInv, InstallTypes
<1>2. releases[Space].cur \in Nat /\ releases'[Space].cur \in Nat /\ Helm!NoRelease.cur = 0
  BY <1>1, ReleaseFacts DEF Rel
<1>3. releases'[Space].cur \notin 1 .. releases[Space].cur - 1
  BY <1>2 DEF SpaceQuiet
<1>4. UpgradeIsAgreed'
  <2>1. CASE launch'.op # "upgrade"
    BY <2>1 DEF UpgradeIsAgreed
  <2>2. CASE GoesOn /\ (releases'[Space] = releases[Space] \/ releases'[Space] = Helm!NoRelease)
    <3>1. launch.version \in Nat /\ launch'.version = launch.version
      BY <2>2 DEF InstallInv, InstallTypes, IsLaunch, GoesOn
    <3>2. launch'.op = "upgrade" /\ ~Agreed' => launch.op = "upgrade" /\ ~Agreed
      BY <2>2 DEF GoesOn, Agreed
    <3>3. launch.op = "upgrade" /\ ~Agreed => launch.version >= releases[Space].cur
      BY DEF InstallInv, UpgradeIsAgreed
    <3>4. releases'[Space].cur \in {releases[Space].cur, 0}
      BY <1>2, <2>2
    <3> QED
      BY <1>2, <3>1, <3>2, <3>3, <3>4 DEF UpgradeIsAgreed
  <2> QED
    BY <2>1, <2>2
<1> QED
  BY <1>3, <1>4 DEF InstallInv, InstallTypes, AgreedStep

(* up space init. *)
LEMMA InitSteps ==
    ASSUME InstallInv,
           \/ LaunchInit \/ CheckPrerequisites \/ CreatePackage \/ ConfigureProvider \/ ApplySecret
    PROVE  InstallInv' /\ AgreedStep
<1>1. releases' = releases
  BY DEF LaunchInit, CheckPrerequisites, CreatePackage, ConfigureProvider, ApplySecret
<1>2. releases' \in [Charts -> Rel] /\ SpaceQuiet
  BY <1>1 DEF InstallInv, InstallTypes, SpaceQuiet
<1>3. CASE LaunchInit
  <2>1. PICK v \in Version : launch' = [NoLaunch EXCEPT !.op = "init", !.step = "check", !.version = v]
    BY <1>3 DEF LaunchInit
  <2>2. v \in Nat
    BY DEF Version
  <2>3. IsLaunch(launch') /\ launch'.op = "init"
    BY <2>1, <2>2 DEF IsLaunch, NoLaunch
  <2> QED
    BY <1>2, <2>3, QuietSteps
<1>4. CASE launch' = NoLaunch
  BY <1>2, <1>4, FailFacts, QuietSteps
<1>5. CASE (CheckPrerequisites \/ CreatePackage \/ ConfigureProvider \/ ApplySecret) /\ launch' # NoLaunch
  <2>1. launch.op = "init"
    BY <1>5 DEF CheckPrerequisites, CreatePackage, ConfigureProvider, ApplySecret, At
  <2>2. CASE CheckPrerequisites
    <3>1. \E m : launch' = [launch EXCEPT !.step = "install", !.missing = m]
      BY <1>5, <2>2 DEF CheckPrerequisites, Fails
    <3> QED
      BY <1>2, <2>1, <3>1, MissingFacts, QuietSteps DEF InstallInv
  <2>3. CASE CreatePackage \/ ConfigureProvider
    <3>1. CASE launch' \in {Next1, [Next1 EXCEPT !.step = "install"]}
      BY <1>2, <2>1, <3>1, MissingFacts, QuietSteps DEF InstallInv
    <3>2. CASE launch' = [launch EXCEPT !.step = "wait"]
      BY <1>2, <2>1, <3>2, GoFacts, QuietSteps DEF InstallInv, GoesOn
    <3> QED
      BY <1>5, <2>3, <3>1, <3>2 DEF CreatePackage, ConfigureProvider, Fails, Go
  <2>4. CASE ApplySecret
    <3>1. launch' = [launch EXCEPT !.step = "deploy"]
      BY <1>5, <2>4 DEF ApplySecret, Fails, Go
    <3> QED
      BY <1>2, <2>1, <3>1, GoFacts, QuietSteps DEF InstallInv, GoesOn
  <2> QED
    BY <1>5, <2>2, <2>3, <2>4
<1> QED
  BY <1>3, <1>4, <1>5

\* A release of a chart was changed to another one.
Changed(chart, rel) == chart \in Charts /\ rel \in Rel /\ releases' = [releases EXCEPT ![chart] = rel]

(* One release is another one. *)
LEMMA ChangedFacts ==
    ASSUME InstallInv, NEW chart, NEW rel, Changed(chart, rel)
    PROVE  /\ releases' \in [Charts -> Rel]
           /\ releases'[Space] = IF chart = Space THEN rel ELSE releases[Space]
BY ChartFacts DEF Changed, InstallInv, InstallTypes

(* An installation, of a prerequisite or the Space. *)
LEMMA DeploySteps ==
    ASSUME InstallInv, InstallChart \/ DeploySpace
    PROVE  InstallInv' /\ AgreedStep
<1>1. releases \in [Charts -> Rel] /\ launch.version \in Nat /\ launch.op = "init"
  BY DEF InstallInv, InstallTypes, IsLaunch, InstallChart, DeploySpace, At
<1>2. \/ releases' = releases
      \/ \E chart, v \in Nat : \E o \in ManagerInstall(chart, v) : releases' = [releases EXCEPT ![chart] = o.rel]
  BY <1>1 DEF InstallChart, DeploySpace
<1>3. releases' \in [Charts -> Rel] /\ SpaceQuiet
  <2>1. CASE releases' = releases
    BY <1>1, <2>1 DEF SpaceQuiet
  <2>2. ASSUME NEW chart, NEW v \in Nat, NEW o \in ManagerInstall(chart, v),
               releases' = [releases EXCEPT ![chart] = o.rel]
        PROVE  releases' \in [Charts -> Rel] /\ SpaceQuiet
    <3>1. CASE chart \in Charts
      <4>1. o.rel \in Rel /\ (o.rel = releases[chart] \/ releases[chart] = Helm!NoRelease)
        BY <1>1, <3>1, ManagerInstallFacts
      <4>2. Changed(chart, o.rel)
        BY <2>2, <3>1, <4>1 DEF Changed
      <4> QED
        BY <4>1, <4>2, ChangedFacts DEF SpaceQuiet
    <3>2. CASE chart \notin Charts
      <4>1. releases' = releases
        BY <1>1, <2>2, <3>2
      <4> QED
        BY <1>1, <4>1 DEF SpaceQuiet
    <3> QED
      BY <3>1, <3>2
  <2> QED
    BY <1>2, <2>1, <2>2
<1>4. CASE launch' = NoLaunch
  BY <1>3, <1>4, FailFacts, QuietSteps
<1>5. CASE launch' = Next1
  BY <1>1, <1>3, <1>5, MissingFacts, QuietSteps DEF InstallInv
<1>6. CASE launch' = [launch EXCEPT !.step = "ready"]
  BY <1>1, <1>3, <1>6, GoFacts, QuietSteps DEF InstallInv, GoesOn
<1> QED
  BY <1>4, <1>5, <1>6 DEF InstallChart, DeploySpace, Fails, Go

(* The launch of an upgrade: here the versions are compared. *)
LEMMA LaunchUpgradeStep ==
    ASSUME InstallInv, LaunchUpgrade
    PROVE  InstallInv' /\ AgreedStep
<1>1. PICK v \in Version, bundle \in BOOLEAN, confirmed \in BOOLEAN :
        /\ bundle \/ confirmed \/ ~Unsupported(releases[Space].cur, v)
        /\ launch' = [NoLaunch EXCEPT !.op = "upgrade", !.step = "secret", !.version = v,
                                      !.confirmed = confirmed, !.flag = bundle]
  BY DEF LaunchUpgrade
<1>2. releases' = releases
  BY DEF LaunchUpgrade
<1>3. v \in Nat /\ Space \in Charts /\ releases[Space].cur \in Nat
  BY ChartFacts DEF Version, InstallInv, InstallTypes, Rel
<1>4. launch' = [op |-> "upgrade", step |-> "secret", version |-> v, missing |-> <<>>,
                 confirmed |-> confirmed, flag |-> bundle]
  BY <1>1 DEF NoLaunch
<1>5. IsLaunch(launch')
  BY <1>3, <1>4 DEF IsLaunch
<1>6. UpgradeIsAgreed'
  <2>1. CASE bundle \/ confirmed
    BY <1>4, <2>1 DEF UpgradeIsAgreed, Agreed
  <2>2. CASE ~Unsupported(releases[Space].cur, v)
    BY <1>2, <1>3, <1>4, <2>2 DEF Unsupported, UpgradeIsAgreed
  <2> QED
    BY <1>1, <2>1, <2>2
<1>7. releases'[Space].cur \notin 1 .. releases[Space].cur - 1
  BY <1>2, <1>3
<1> QED
  BY <1>2, <1>5, <1>6, <1>7 DEF InstallInv, InstallTypes, AgreedStep

(* The other steps of an upgrade: what was compared still holds. *)
LEMMA UpgradeSteps ==
    ASSUME InstallInv, UpgradeSecret \/ UpgradeSpace
    PROVE  InstallInv' /\ AgreedStep
<1>1. releases \in [Charts -> Rel] /\ launch.version \in Nat /\ Space \in Charts /\ releases[Space] \in Rel
  BY ChartFacts DEF InstallInv, InstallTypes, IsLaunch
<1>2. CASE UpgradeSecret
  <2>1. releases' = releases /\ SpaceQuiet
    BY <1>2 DEF UpgradeSecret, SpaceQuiet
  <2>2. CASE launch' = NoLaunch
    BY <1>1, <2>1, <2>2, FailFacts, QuietSteps
  <2>3. CASE launch' = [launch EXCEPT !.step = "upgrade"]
    BY <1>1, <2>1, <2>3, GoFacts, QuietSteps DEF InstallInv
  <2> QED
    BY <1>2, <2>2, <2>3 DEF UpgradeSecret, Fails, Go
<1>3. CASE UpgradeSpace
  <2>0. PICK rollback \in BOOLEAN : \E o \in ManagerUpgrade(releases[Space], launch.version, rollback) :
           releases' = [releases EXCEPT ![Space] = o.rel]
    BY <1>3 DEF UpgradeSpace
  <2>1. PICK o \in ManagerUpgrade(releases[Space], launch.version, rollback) :
           releases' = [releases EXCEPT ![Space] = o.rel]
    BY <2>0
  <2>2. /\ o.rel \in Rel
        /\ GoneBack(releases[Space], o.rel) \/ o.rel.cur \in {releases[Space].cur, launch.version}
    BY <1>1, ManagerUpgradeFacts
  <2>3. releases' \in [Charts -> Rel] /\ releases'[Space] = o.rel
    BY <1>1, <2>1, <2>2
  <2>4. launch' = NoLaunch /\ launch.op = "upgrade"
    BY <1>3 DEF UpgradeSpace, Fails, At
  <2>5. InstallInv'
    BY <2>3, <2>4, FailFacts DEF InstallInv, InstallTypes, UpgradeIsAgreed
  <2>6. releases[Space].cur \in Nat
    BY <1>1 DEF Rel
  <2>7. Agreed \/ launch.version >= releases[Space].cur
    BY <2>4 DEF InstallInv, UpgradeIsAgreed
  <2>8. o.rel.cur \in 1 .. releases[Space].cur - 1 =>
            Agreed \/ GoneBack(releases[Space], o.rel)
    BY <1>1, <2>2, <2>6, <2>7
  <2> QED
    BY <2>3, <2>5, <2>8 DEF AgreedStep, Agreed
<1> QED
  BY <1>2, <1>3

(* up space destroy. *)
LEMMA DestroySteps ==
    ASSUME InstallInv, LaunchDestroy \/ DeleteNamespace \/ NamespaceGone
    PROVE  InstallInv' /\ AgreedStep
<1>1. releases \in [Charts -> Rel] /\ Space \in Charts /\ Helm!NoRelease \in Rel
  BY ChartFacts, ReleaseFacts DEF InstallInv, InstallTypes
<1>2. releases' \in [Charts -> Rel] /\ SpaceQuiet /\ (LaunchDestroy \/ releases'[Space] \in {releases[Space], Helm!NoRelease})
  <2>1. CASE LaunchDestroy
    <3>1. PICK o \in Helm!Uninstall(releases[Space]) : releases' = [releases EXCEPT ![Space] = o.rel]
      BY <2>1 DEF LaunchDestroy
    <3>2. o.rel \in Rel /\ (o.rel.cur = releases[Space].cur \/ o.rel = Helm!NoRelease)
      BY <1>1, ReleaseFacts
    <3> QED
      BY <1>1, <2>1, <3>1, <3>2 DEF SpaceQuiet
  <2>2. CASE DeleteNamespace \/ NamespaceGone
    BY <1>1, <2>2 DEF DeleteNamespace, NamespaceGone, InNamespace, SpaceQuiet
  <2> QED
    BY <2>1, <2>2
<1>3. SpaceQuiet
  BY <1>2
<1>4. CASE launch' = NoLaunch
  BY <1>2, <1>3, <1>4, FailFacts, QuietSteps
<1>5. CASE launch' = launch /\ ~LaunchDestroy
  <2>1. IsLaunch(launch') /\ GoesOn /\ releases'[Space] \in {releases[Space], Helm!NoRelease}
    BY <1>2, <1>5 DEF InstallInv, InstallTypes, GoesOn
  <2> QED
    BY <1>2, <1>3, <2>1, QuietSteps
<1>6. CASE launch' = [NoLaunch EXCEPT !.op = "destroy", !.step = "namespace"]
  <2>1. IsLaunch(launch') /\ launch'.op = "destroy"
    BY <1>6 DEF IsLaunch, NoLaunch
  <2> QED
    BY <1>2, <1>3, <2>1, QuietSteps
<1> QED
  BY <1>4, <1>5, <1>6 DEF LaunchDestroy, DeleteNamespace, NamespaceGone, Fails

(* The commands of UXP work on other releases. *)
LEMMA UxpSteps ==
    ASSUME InstallInv, \/ UxpInstall \/ UxpUpgrade \/ UxpUninstall \/ KillUxp \/ Finish
                       \/ \E p \in Providers : PackageHealthy(p)
    PROVE  InstallInv' /\ AgreedStep
<1>1. releases \in [Charts -> Rel] /\ launch.version \in Nat /\ Uxp \in Charts /\ Uxp # Space
  BY ChartFacts DEF InstallInv, InstallTypes, IsLaunch
<1>2. CASE UxpInstall \/ UxpUpgrade \/ KillUxp
  <2> DEFINE name == ReleaseName(Uxp)
  <2>1. name \in Charts \ {Space}
    BY ChartFacts
  <2>2. launch' = launch
    BY <1>2 DEF UxpInstall, UxpUpgrade, KillUxp
  <2>3. \E rel \in Rel : releases' = [releases EXCEPT ![name] = rel]
    <3>1. CASE UxpInstall
      <4>1. PICK o \in ManagerInstall(name, 1) : releases' = [releases EXCEPT ![name] = o.rel]
        BY <3>1 DEF UxpInstall
      <4>2. o.rel \in Rel
        BY <1>1, <2>1, ManagerInstallFacts
      <4> QED
        BY <4>1, <4>2
    <3>2. CASE UxpUpgrade
      <4>1. PICK v \in Version, rollback \in BOOLEAN : \E o \in ManagerUpgrade(releases[name], v, rollback) :
               releases' = [releases EXCEPT ![name] = o.rel]
        BY <3>2 DEF UxpUpgrade
      <4>2. PICK o \in ManagerUpgrade(releases[name], v, rollback) :
               releases' = [releases EXCEPT ![name] = o.rel]
        BY <4>1
      <4>3. v \in Nat
        BY DEF Version
      <4>4. o.rel \in Rel
        BY <1>1, <2>1, <4>3, ManagerUpgradeFacts
      <4> QED
        BY <4>2, <4>4
    <3>3. CASE KillUxp
      <4>1. PICK v \in Version : \E rel \in Helm!Interrupted(releases[name], v) : releases' = [releases EXCEPT ![name] = rel]
        BY <3>3 DEF KillUxp
      <4>2. v \in Nat /\ releases[name] \in Rel
        BY <1>1, <2>1 DEF Version
      <4> QED
        BY <4>1, <4>2, ReleaseFacts
    <3> QED
      BY <1>2, <3>1, <3>2, <3>3
  <2>4. releases' \in [Charts -> Rel] /\ releases'[Space] = releases[Space]
    BY <1>1, <2>1, <2>3, ChartFacts
  <2>5. IsLaunch(launch') /\ GoesOn /\ SpaceQuiet
    BY <2>2, <2>4 DEF InstallInv, InstallTypes, GoesOn, SpaceQuiet
  <2> QED
    BY <2>4, <2>5, QuietSteps
<1>3. CASE UxpUninstall
  <2>1. releases' \in [Charts -> Rel] /\ releases'[Space] = releases[Space]
    <3>1. PICK o \in Helm!Uninstall(releases[Uxp]) : releases' = [releases EXCEPT ![Uxp] = o.rel]
      BY <1>3 DEF UxpUninstall
    <3>2. o.rel \in Rel
      BY <1>1, ReleaseFacts
    <3> QED
      BY <1>1, <3>1, <3>2, ChartFacts
  <2>2. IsLaunch(launch') /\ GoesOn /\ SpaceQuiet
    BY <1>3, <2>1 DEF UxpUninstall, InstallInv, InstallTypes, GoesOn, SpaceQuiet
  <2> QED
    BY <2>1, <2>2, QuietSteps
<1>4. CASE Finish
  <2>1. releases' = releases /\ launch' = NoLaunch /\ SpaceQuiet
    BY <1>4 DEF Finish, SpaceQuiet
  <2> QED
    BY <1>1, <2>1, FailFacts, QuietSteps
<1>5. CASE \E p \in Providers : PackageHealthy(p)
  <2>1. releases' = releases /\ launch' = launch
    BY <1>5 DEF PackageHealthy
  <2>2. IsLaunch(launch') /\ GoesOn /\ SpaceQuiet
    BY <2>1 DEF InstallInv, InstallTypes, GoesOn, SpaceQuiet
  <2> QED
    BY <1>1, <2>1, <2>2, QuietSteps
<1> QED
  BY <1>2, <1>3, <1>4, <1>5

(* A killed upgrade leaves the version it was launched with, a killed init *)
(* the first one.                                                          *)
LEMMA KillStep ==
    ASSUME InstallInv, KillLaunch
    PROVE  InstallInv' /\ AgreedStep
<1>1. releases \in [Charts -> Rel] /\ launch.version \in Nat /\ Space \in Charts /\ releases[Space] \in Rel
  BY ChartFacts DEF InstallInv, InstallTypes, IsLaunch
<1>2. launch' = NoLaunch
  BY DEF KillLaunch, Fails
<1>3. CASE releases' = releases
  <2>1. SpaceQuiet
    BY <1>3 DEF SpaceQuiet
  <2> QED
    BY <1>1, <1>2, <1>3, <2>1, FailFacts, QuietSteps
<1>4. CASE ~(releases' = releases)
  <2>1. PICK c :
          /\ c = Space => launch.op \in {"init", "upgrade"}
          /\ launch.op = "init" => releases[c] = Helm!NoRelease
          /\ \E rel \in Helm!Interrupted(releases[c], IF c = Space THEN launch.version ELSE 1) :
                releases' = [releases EXCEPT ![c] = rel]
    BY <1>4 DEF KillLaunch, At
  <2>2. PICK rel \in Helm!Interrupted(releases[c], IF c = Space THEN launch.version ELSE 1) :
            releases' = [releases EXCEPT ![c] = rel]
    BY <2>1
  <2>3. c \in Charts
    BY <1>1, <1>4, <2>2
  <2>4. /\ rel \in Rel
        /\ c = Space => GoneBack(releases[Space], rel) \/ rel.cur \in {releases[Space].cur, launch.version}
    <3>1. releases[c] \in Rel /\ (IF c = Space THEN launch.version ELSE 1) \in Nat
      BY <1>1, <2>3
    <3> QED
      BY <3>1, ReleaseFacts
  <2>5. releases' \in [Charts -> Rel]
    BY <1>1, <2>2, <2>3, <2>4
  <2>6. InstallInv'
    BY <1>2, <2>5, FailFacts DEF InstallInv, InstallTypes, UpgradeIsAgreed
  <2>7. CASE c # Space \/ launch.op = "init"
    <3>1. SpaceQuiet
      BY <1>1, <2>1, <2>2, <2>7 DEF SpaceQuiet
    <3> QED
      BY <1>2, <2>5, <3>1, FailFacts, QuietSteps
  <2>8. CASE c = Space /\ launch.op = "upgrade"
    <3>1. releases'[Space] = rel /\ releases[Space].cur \in Nat
      BY <1>1, <2>2, <2>8 DEF Rel
    <3>2. Agreed \/ launch.version >= releases[Space].cur
      BY <2>8 DEF InstallInv, UpgradeIsAgreed
    <3>3. releases'[Space].cur \in 1 .. releases[Space].cur - 1 => Agreed \/ GoneBack(releases[Space], rel)
      BY <1>1, <2>4, <2>8, <3>1, <3>2
    <3> QED
      BY <2>6, <3>1, <3>3 DEF AgreedStep, Agreed
  <2> QED
    BY <2>1, <2>7, <2>8
<1> QED
  BY <1>3, <1>4

(* Every step keeps the invariant and is one the property allows. *)
LEMMA InstallStep == InstallInv /\ InstallNext => InstallInv' /\ AgreedStep
BY InitSteps, DeploySteps, LaunchUpgradeStep, UpgradeSteps, DestroySteps, UxpSteps, KillStep DEF InstallNext

(* Nor does doing nothing break it. *)
LEMMA InstallStutters == InstallInv /\ UNCHANGED installVars => InstallInv'
BY DEF installVars, InstallInv, InstallTypes, IsLaunch, UpgradeIsAgreed, Agreed

(* A Space only gets an older version if the user has agreed to that, gave *)
(* a chart of his own, or a failed upgrade was rolled back (upgrade.go,    *)
(* validateVersions), whatever other commands, kills and failures come     *)
(* between the question and the upgrade.                                   *)
THEOREM DowngradesAreAgreed == InstallSpec => DowngradeIsAgreed
<1>1. InstallInv /\ [InstallNext]_installVars => InstallInv'
  BY InstallStep, InstallStutters
<1>2. InstallInv /\ [InstallNext]_installVars => [AgreedStep]_installVars
  BY InstallStep
<1>3. InstallInit => InstallInv
  BY InstallBegins
<1> QED
  BY <1>1, <1>2, <1>3, PTL DEF InstallSpec, DowngradeIsAgreed, AgreedStep, GoneBack

-----------------------------------------------------------------------------
(***************************************************************************)
(* A Space that is ready has its prerequisites.  Init looks once for what  *)
(* is not there and works through that list, so the invariant says of each *)
(* prerequisite that it is in place, or that the list still has it, at     *)
(* every step until the Space itself is installed; what another command    *)
(* cut short stays out of both.                                            *)
(***************************************************************************)
(* What Check returns: prerequisites in a sequence, all that are not there *)
(* among them.  The function that goes through them is defined at every    *)
(* length, by induction: the least length at which it is not is neither 0  *)
(* nor one more than another.                                              *)
StepOf(n, before) ==
    IF n = 0 THEN <<>> ELSE IF Prerequisites[n] \in brought THEN before ELSE Append(before, Prerequisites[n])

(* A set of numbers has one that is zero or follows no other: induction.   *)
LEMMA LeastOne ==
    ASSUME NEW T \in SUBSET Nat, T # {}
    PROVE  \E n \in T : n = 0 \/ (n - 1 \in Nat /\ n - 1 \notin T)
<1>1. IsWellFoundedOn(OpToRel(<, Nat), Nat)
  BY NatLessThanWellFounded
<1>2. PICK n \in T : \A m \in T : ~ (<<m, n>> \in OpToRel(<, Nat))
  BY <1>1, WFMin
<1>3. \A m \in T : ~ (m < n)
  BY <1>2 DEF OpToRel
<1>4. n = 0 \/ (n - 1 \in Nat /\ n - 1 \notin T)
  BY <1>3
<1> QED
  BY <1>4

\* The function that NotInstalled reads, up to n.
Solves(f, n) == f = [i \in 0 .. n |-> StepOf(i, f[i - 1])]

(* There is such a function.                                               *)
LEMMA SolutionExists == \A n \in Nat : \E f : Solves(f, n)
<1> DEFINE T == {n \in Nat : ~ \E f : Solves(f, n)}
<1> SUFFICES ASSUME T # {} PROVE FALSE
  OBVIOUS
<1>1. PICK n \in T : n = 0 \/ (n - 1 \in Nat /\ n - 1 \notin T)
  <2>1. T \in SUBSET Nat
    OBVIOUS
  <2> HIDE DEF T
  <2> QED
    BY <2>1, LeastOne
<1>2. n \in Nat /\ ~ \E f : Solves(f, n)
  OBVIOUS
<1>3. CASE n = 0
  <2> DEFINE f == [i \in 0 .. 0 |-> <<>>]
  <2>1. Solves(f, 0)
    <3>1. \A i \in 0 .. 0 : StepOf(i, f[i - 1]) = <<>>
      BY DEF StepOf
    <3> QED
      BY <3>1 DEF Solves
  <2> QED
    BY <1>2, <1>3, <2>1
<1>4. CASE n - 1 \in Nat /\ n - 1 \notin T
  <2>1. PICK g : Solves(g, n - 1)
    BY <1>4
  <2> DEFINE f == [i \in 0 .. n |-> IF i = n THEN StepOf(n, g[n - 1]) ELSE g[i]]
  <2>2. g = [i \in 0 .. n - 1 |-> StepOf(i, g[i - 1])]
    BY <2>1 DEF Solves
  <2>3. \A i \in 0 .. n : f[i] = StepOf(i, f[i - 1])
    <3> SUFFICES ASSUME NEW i \in 0 .. n PROVE f[i] = StepOf(i, f[i - 1])
      OBVIOUS
    <3>1. CASE i = 0
      <4>1. f[0] = g[0] /\ g[0] = StepOf(0, g[0 - 1])
        BY <1>4, <2>2
      <4> QED
        BY <3>1, <4>1 DEF StepOf
    <3>2. CASE i # 0 /\ i # n
      <4>1. i \in 0 .. n - 1 /\ i - 1 \in 0 .. n /\ i - 1 # n
        BY <1>2, <3>2
      <4>2. f[i] = g[i] /\ f[i - 1] = g[i - 1]
        BY <3>2, <4>1
      <4>3. g[i] = StepOf(i, g[i - 1])
        BY <2>2, <4>1
      <4> QED
        BY <4>2, <4>3
    <3>3. CASE i = n /\ i # 0
      <4>1. f[i] = StepOf(n, g[n - 1])
        BY <3>3
      <4>2. n - 1 \in 0 .. n /\ n - 1 # n
        BY <1>4
      <4>3. f[n - 1] = g[n - 1]
        BY <4>2
      <4> QED
        BY <3>3, <4>1, <4>3
    <3> QED
      BY <3>1, <3>2, <3>3
  <2>4. Solves(f, n)
    <3>1. f = [i \in 0 .. n |-> f[i]]
      OBVIOUS
    <3> HIDE DEF f
    <3> QED
      BY <2>3, <3>1 DEF Solves
  <2> QED
    BY <1>2, <2>4
<1> QED
  BY <1>1, <1>3, <1>4

(* What NotInstalled lists are prerequisites, and no other is missing.     *)
LEMMA NotInstalledFacts ==
    /\ NotInstalled \in Seq(ToSet(Prerequisites))
    /\ ToSet(Prerequisites) \subseteq brought \cup ToSet(NotInstalled)
<1> DEFINE len == Len(Prerequisites)
           f == CHOOSE g : Solves(g, len)
<1>1. len \in Nat /\ \A i \in 1 .. len : Prerequisites[i] \in ToSet(Prerequisites)
  BY InstallAssumption DEF ToSet
<1>2. Solves(f, len)
  BY <1>1, SolutionExists
<1>3. NotInstalled = f[len]
  BY DEF NotInstalled, Solves, StepOf
<1> HIDE DEF f
<1>4. \A i \in 0 .. len : f[i] = StepOf(i, f[i - 1])
  BY <1>2 DEF Solves
<1> DEFINE Good(n) == /\ f[n] \in Seq(ToSet(Prerequisites))
                      /\ \A i \in 1 .. n : Prerequisites[i] \in brought \cup ToSet(f[n])
           T == {n \in 0 .. len : ~Good(n)}
<1>5. T = {}
  <2> SUFFICES ASSUME T # {} PROVE FALSE
    OBVIOUS
  <2>1. PICK n \in T : n = 0 \/ (n - 1 \in Nat /\ n - 1 \notin T)
    <3>1. T \in SUBSET Nat
      BY <1>1
    <3> HIDE DEF T
    <3> QED
      BY <3>1, LeastOne
  <2>2. n \in 0 .. len /\ ~Good(n)
    OBVIOUS
  <2>3. CASE n = 0
    <3>1. f[0] = <<>>
      BY <1>1, <1>4 DEF StepOf
    <3> QED
      BY <2>2, <2>3, <3>1
  <2>4. CASE n # 0
    <3>1. n - 1 \in 0 .. len /\ n \in 1 .. len
      BY <1>1, <2>2, <2>4
    <3>2. Good(n - 1)
      BY <2>1, <2>4, <3>1
    <3> DEFINE p == Prerequisites[n]
    <3>3. p \in ToSet(Prerequisites)
      BY <1>1, <3>1
    <3>4. f[n] = IF p \in brought THEN f[n - 1] ELSE Append(f[n - 1], p)
      BY <1>4, <2>2, <2>4 DEF StepOf
    <3>5. f[n] \in Seq(ToSet(Prerequisites))
      BY <3>2, <3>3, <3>4
    <3>6. ToSet(f[n - 1]) \subseteq ToSet(f[n]) /\ (p \in brought \/ p \in ToSet(f[n]))
      <4>1. CASE p \in brought
        BY <3>4, <4>1
      <4>2. CASE p \notin brought
        <5>1. f[n] = Append(f[n - 1], p) /\ f[n - 1] \in Seq(ToSet(Prerequisites))
          BY <3>2, <3>4, <4>2
        <5> HIDE DEF p
        <5>2. /\ Len(f[n]) = Len(f[n - 1]) + 1 /\ Len(f[n - 1]) \in Nat
              /\ DOMAIN f[n] = 1 .. Len(f[n]) /\ DOMAIN f[n - 1] = 1 .. Len(f[n - 1])
              /\ f[n][Len(f[n])] = p /\ \A j \in 1 .. Len(f[n - 1]) : f[n][j] = f[n - 1][j]
          BY <5>1, <3>3
        <5>3. p \in ToSet(f[n])
          <6>1. Len(f[n]) \in DOMAIN f[n]
            BY <5>2
          <6> QED
            BY <5>2, <6>1 DEF ToSet
        <5>4. \A j \in DOMAIN f[n - 1] : j \in DOMAIN f[n] /\ f[n][j] = f[n - 1][j]
          BY <5>2
        <5> QED
          BY <5>3, <5>4 DEF ToSet
      <4> QED
        BY <4>1, <4>2
    <3>7. \A i \in 1 .. n : Prerequisites[i] \in brought \cup ToSet(f[n])
      <4> SUFFICES ASSUME NEW i \in 1 .. n PROVE Prerequisites[i] \in brought \cup ToSet(f[n])
        OBVIOUS
      <4>1. CASE i = n
        BY <3>6, <4>1
      <4>2. CASE i # n
        <5>1. i \in 1 .. n - 1
          BY <3>1, <4>2
        <5> QED
          BY <3>2, <3>6, <5>1
      <4> QED
        BY <4>1, <4>2
    <3> QED
      BY <2>2, <3>5, <3>7
  <2> QED
    BY <2>3, <2>4
<1>6. Good(len)
  BY <1>1, <1>5
<1>7. ToSet(Prerequisites) = {Prerequisites[i] : i \in 1 .. len}
  BY InstallAssumption DEF ToSet
<1> QED
  BY <1>3, <1>6, <1>7
\* A prerequisite is installed as init promises it.
InPlace(p) == IF p \in Providers THEN p \in configured ELSE releases[p].status = "deployed"

\* The provider whose package was made and has no ProviderConfig so far.
Awaited(p) == At("init", "wait") /\ p = Head(launch.missing)

\* What is there is in place, unless something cut it short.
PlacedInv ==
    \A p \in ToSet(Prerequisites) \cap (brought \cup packages) : p \in cutShort \/ InPlace(p) \/ Awaited(p)

\* What is not there is still to come, once init has looked.
ComingInv ==
    launch.op = "init" /\ launch.step \in {"install", "wait", "deploy", "ready"} =>
        /\ launch.missing \in Seq(ToSet(Prerequisites))
        /\ launch.step = "wait" => launch.missing # <<>> /\ Head(launch.missing) \in Providers
        /\ ToSet(Prerequisites) \subseteq brought \cup ToSet(launch.missing)

\* The Space comes after all of them, into a namespace that stays.
SpaceInv ==
    /\ launch.op = "init" /\ launch.step \in {"deploy", "ready"} =>
          launch.missing = <<>> /\ namespace = "active" /\ pullSecret
    /\ launch.step = "ready" =>
          launch.op = "init" /\ releases[Space] = Helm!Deployed(launch.version, NoVersion)

ReadyInv == InstallInv /\ PlacedInv /\ ComingInv /\ SpaceInv

(* Charts of prerequisites. *)
LEMMA PrerequisiteFacts ==
    /\ \A p \in ToSet(Prerequisites) \ Providers : p \in Charts
    /\ Space \notin ToSet(Prerequisites) /\ Alternate \notin ToSet(Prerequisites) /\ Uxp \notin Providers
    /\ Providers \subseteq ToSet(Prerequisites)
BY InstallAssumption DEF Charts

(* How the command's record goes on. *)
LEMMA FieldFacts ==
    ASSUME InstallTypes, NEW s
    PROVE  /\ LET l == [launch EXCEPT !.step = s] IN
              /\ l.step = s /\ l.op = launch.op /\ l.version = launch.version /\ l.missing = launch.missing
           /\ LET l == [launch EXCEPT !.step = s, !.missing = NotInstalled] IN
              /\ l.step = s /\ l.op = launch.op /\ l.missing = NotInstalled
           /\ /\ Next1.step = launch.step /\ Next1.op = launch.op /\ Next1.missing = Tail(launch.missing)
              /\ Next1.version = launch.version
           /\ LET l == [Next1 EXCEPT !.step = s] IN
              /\ l.step = s /\ l.op = launch.op /\ l.missing = Tail(launch.missing)
<1>1. PICK op, step, missing, confirmed, flag : \E v \in Nat :
        launch = [op |-> op, step |-> step, version |-> v, missing |-> missing, confirmed |-> confirmed, flag |-> flag]
  BY DEF InstallTypes, IsLaunch
<1>2. PICK v \in Nat :
        launch = [op |-> op, step |-> step, version |-> v, missing |-> missing, confirmed |-> confirmed, flag |-> flag]
  BY <1>1
<1>3. launch.missing = missing
  BY <1>2
<1>4. Next1 = [launch EXCEPT !.missing = Tail(missing)]
  BY <1>3, Zenon DEF Next1
<1> QED
  BY <1>2, <1>3, <1>4

(* No command runs. *)
LEMMA IdleFacts == NoLaunch.op = "none" /\ NoLaunch.step = "idle" /\ NoLaunch.missing = <<>>
BY DEF NoLaunch

(* The first of what is missing, and the rest. *)
LEMMA HeadFacts ==
    ASSUME launch.missing \in Seq(ToSet(Prerequisites)), launch.missing # <<>>
    PROVE  /\ Head(launch.missing) \in ToSet(Prerequisites)
           /\ Tail(launch.missing) \in Seq(ToSet(Prerequisites))
           /\ ToSet(launch.missing) = {Head(launch.missing)} \cup ToSet(Tail(launch.missing))
           /\ Underway = {Head(launch.missing)}
<1> DEFINE m == launch.missing
<1>1. /\ Len(m) \in Nat /\ Len(m) >= 1 /\ DOMAIN m = 1 .. Len(m) /\ Head(m) = m[1]
      /\ m[1] \in ToSet(Prerequisites)
      /\ Tail(m) \in Seq(ToSet(Prerequisites)) /\ Len(Tail(m)) = Len(m) - 1
      /\ DOMAIN Tail(m) = 1 .. Len(m) - 1
      /\ \A i \in 1 .. Len(m) - 1 : Tail(m)[i] = m[i + 1]
  OBVIOUS
<1> HIDE DEF m
<1>2. ToSet(m) = {Head(m)} \cup ToSet(Tail(m))
  <2>1. ASSUME NEW p \in ToSet(m) PROVE p \in {Head(m)} \cup ToSet(Tail(m))
    <3>1. PICK i \in 1 .. Len(m) : p = m[i]
      BY <1>1 DEF ToSet
    <3>2. CASE i = 1
      BY <1>1, <3>1, <3>2
    <3>3. CASE i # 1
      <4>1. i - 1 \in 1 .. Len(m) - 1 /\ i = (i - 1) + 1
        BY <1>1, <3>3
      <4>2. Tail(m)[i - 1] = m[i]
        BY <1>1, <4>1
      <4> QED
        BY <1>1, <3>1, <4>1, <4>2 DEF ToSet
    <3> QED
      BY <3>2, <3>3
  <2>2. ASSUME NEW p \in {Head(m)} \cup ToSet(Tail(m)) PROVE p \in ToSet(m)
    <3>1. CASE p = Head(m)
      BY <1>1, <3>1 DEF ToSet
    <3>2. CASE p \in ToSet(Tail(m))
      <4>1. PICK i \in 1 .. Len(m) - 1 : p = m[i + 1]
        BY <1>1, <3>2 DEF ToSet
      <4>2. i + 1 \in DOMAIN m
        BY <1>1
      <4> QED
        BY <4>1, <4>2 DEF ToSet
    <3> QED
      BY <3>1, <3>2
  <2> QED
    BY <2>1, <2>2
<1>3. Underway = {Head(m)}
  <2>1. {1} \cap DOMAIN m = {1}
    BY <1>1
  <2>2. Underway = {m[i] : i \in {1} \cap DOMAIN m}
    BY DEF Underway, m
  <2> QED
    BY <1>1, <2>1, <2>2
<1> QED
  BY <1>1, <1>2, <1>3 DEF m

(* What a successful call of the Helm manager leaves. *)
LEMMA SucceededFacts ==
    /\ \A chart, v : \A o \in ManagerInstall(chart, v) : ~o.err => o.rel = Helm!Deployed(v, NoVersion)
    /\ \A r, v, rollback : \A o \in ManagerUpgrade(r, v, rollback) : ~o.err => o.rel.status = "deployed"
    /\ \A v, w : Helm!Deployed(v, w).status = "deployed"
<1>1. \A v, w : Helm!Deployed(v, w).status = "deployed"
  BY DEF Helm!Deployed
<1>2. \A r : Helm!Succeed(r).rel = r /\ Helm!Break(r).err /\ Helm!Refuse(r).err
  BY DEF Helm!Succeed, Helm!Break, Helm!Refuse
<1>3. ASSUME NEW chart, NEW v, NEW o \in ManagerInstall(chart, v), ~o.err
      PROVE  o.rel = Helm!Deployed(v, NoVersion)
  BY <1>2, <1>3 DEF ManagerInstall, Helm!Install
<1>4. ASSUME NEW r, NEW v, NEW rollback, NEW o \in ManagerUpgrade(r, v, rollback), ~o.err
      PROVE  o.rel.status = "deployed"
  BY <1>1, <1>2, <1>4 DEF ManagerUpgrade, Helm!Upgrade
<1> QED
  BY <1>1, <1>3, <1>4

\* What a step may not take from a prerequisite.
Keeps(p) == InPlace(p) => InPlace(p)' \/ p \in cutShort'

(* A prerequisite that was there before a step. *)
LEMMA StaysPlaced ==
    ASSUME PlacedInv, NEW p \in ToSet(Prerequisites), p \in brought \cup packages, cutShort \subseteq cutShort',
           Keeps(p), Awaited(p) => Awaited(p)' \/ InPlace(p)' \/ p \in cutShort'
    PROVE  p \in cutShort' \/ InPlace(p)' \/ Awaited(p)'
BY DEF PlacedInv, Keeps

(* Steps that bring nothing and wait for nothing. *)
LEMMA PlacedQuiet ==
    ASSUME PlacedInv, brought' \subseteq brought, packages' \subseteq packages, cutShort \subseteq cutShort',
           ~At("init", "wait"), \A p \in ToSet(Prerequisites) : Keeps(p)
    PROVE  PlacedInv'
<1> SUFFICES ASSUME NEW p \in ToSet(Prerequisites), p \in brought' \cup packages'
             PROVE  p \in cutShort' \/ InPlace(p)' \/ Awaited(p)'
  BY DEF PlacedInv
<1>1. ~Awaited(p)
  BY DEF Awaited
<1> QED
  BY <1>1, StaysPlaced

(* The release of a prerequisite that is kept. *)
LEMMA KeptFacts ==
    ASSUME NEW p \in ToSet(Prerequisites), configured \subseteq configured',
           p \notin Providers => releases'[p] = releases[p] \/ releases'[p].status = "deployed" \/ p \in cutShort'
    PROVE  Keeps(p)
BY DEF Keeps, InPlace

(* Commands start, and init looks for what is missing.                     *)
LEMMA ReadyLaunch ==
    ASSUME ReadyInv, LaunchInit \/ CheckPrerequisites \/ LaunchUpgrade
    PROVE  PlacedInv' /\ ComingInv' /\ SpaceInv'
<1>1. /\ UNCHANGED <<releases, brought, packages, configured, namespace, pullSecret, cutShort>>
      /\ InstallTypes
  BY DEF ReadyInv, InstallInv, LaunchInit, CheckPrerequisites, LaunchUpgrade
<1>2. ~At("init", "wait")
  BY IdleFacts DEF LaunchInit, CheckPrerequisites, LaunchUpgrade, At
<1>3. PlacedInv'
  <2>1. \A p \in ToSet(Prerequisites) : Keeps(p)
    BY <1>1, KeptFacts
  <2> QED
    BY <1>1, <1>2, <2>1, PlacedQuiet DEF ReadyInv
<1>4. launch' = NoLaunch \/ launch'.step \in {"check", "secret"}
         \/ /\ launch'.step = "install" /\ launch'.missing = NotInstalled
  <2>1. CASE LaunchInit \/ LaunchUpgrade
    BY <2>1 DEF LaunchInit, LaunchUpgrade, NoLaunch
  <2>2. CASE CheckPrerequisites
    <3>1. CASE launch' = [launch EXCEPT !.step = "install", !.missing = NotInstalled]
      BY <1>1, <3>1, FieldFacts
    <3> QED
      BY <2>2, <3>1 DEF CheckPrerequisites, Fails
  <2> QED
    BY <2>1, <2>2
<1>5. ComingInv'
  <2>1. CASE launch'.step = "install" /\ launch'.missing = NotInstalled
    BY <1>1, <2>1, NotInstalledFacts DEF ComingInv
  <2>2. CASE launch'.step \notin {"install", "wait", "deploy", "ready"}
    BY <2>2 DEF ComingInv
  <2> QED
    BY <1>4, <2>1, <2>2, IdleFacts
<1>6. SpaceInv'
  <2>1. launch'.step \notin {"deploy", "ready"}
    BY <1>4, IdleFacts
  <2> QED
    BY <2>1 DEF SpaceInv
<1> QED
  BY <1>3, <1>5, <1>6

(* An end of the command leaves nothing to come. *)
LEMMA EndFacts ==
    ASSUME launch' = NoLaunch
    PROVE  ComingInv' /\ SpaceInv' /\ ~At("init", "wait")'
BY IdleFacts DEF ComingInv, SpaceInv, At

(* One is not missing any more. *)
LEMMA OneLess ==
    ASSUME ReadyInv, launch.op = "init", launch.step \in {"install", "wait"}, launch.missing # <<>>,
           Head(launch.missing) \in brought', brought \subseteq brought',
           launch'.op = "init", launch'.step = "install", launch'.missing = Tail(launch.missing)
    PROVE  ComingInv' /\ SpaceInv'
<1>1. /\ launch.missing \in Seq(ToSet(Prerequisites))
      /\ ToSet(Prerequisites) \subseteq brought \cup ToSet(launch.missing)
  BY DEF ReadyInv, ComingInv
<1>2. /\ Tail(launch.missing) \in Seq(ToSet(Prerequisites))
      /\ ToSet(launch.missing) = {Head(launch.missing)} \cup ToSet(Tail(launch.missing))
  BY <1>1, HeadFacts
<1>3. ToSet(Prerequisites) \subseteq brought' \cup ToSet(Tail(launch.missing))
  BY <1>1, <1>2
<1>4. ComingInv'
  BY <1>2, <1>3 DEF ComingInv
<1> QED
  BY <1>4 DEF SpaceInv

(* Init installs the chart of a prerequisite.                              *)
LEMMA ReadyChart ==
    ASSUME ReadyInv, InstallChart
    PROVE  PlacedInv' /\ ComingInv' /\ SpaceInv'
<1>0. PICK p : p = Head(launch.missing)
  OBVIOUS
<1>1. /\ At("init", "install") /\ launch.missing # <<>> /\ p \notin Providers
      /\ UNCHANGED <<packages, configured, pullSecret, launches>>
      /\ launch.op = "init" /\ launch.step = "install"
      /\ InstallTypes /\ releases \in [Charts -> Rel]
  BY <1>0 DEF ReadyInv, InstallInv, InstallTypes, InstallChart, At
<1>2. launch.missing \in Seq(ToSet(Prerequisites)) /\ p \in ToSet(Prerequisites) /\ p \in Charts
  BY <1>0, <1>1, HeadFacts, PrerequisiteFacts DEF ReadyInv, ComingInv
<1>3. ~At("init", "wait")
  BY <1>1 DEF At
<1>4. CASE SkippedOne(p) /\ launch' = Next1 /\ UNCHANGED <<releases, brought, namespace, cutShort>>
  <2>1. \A q \in ToSet(Prerequisites) : Keeps(q)
    BY <1>1, <1>4, KeptFacts
  <2>2. PlacedInv'
    BY <1>1, <1>3, <1>4, <2>1, PlacedQuiet DEF ReadyInv
  <2>3. ComingInv' /\ SpaceInv'
    BY <1>1, <1>4, <1>0, FieldFacts, OneLess DEF SkippedOne
  <2> QED
    BY <2>2, <2>3
<1>5. CASE Fails /\ CutShort(p) /\ UNCHANGED <<releases, brought, namespace>>
  <2>1. \A q \in ToSet(Prerequisites) : Keeps(q)
    BY <1>1, <1>5, KeptFacts
  <2>2. PlacedInv'
    BY <1>1, <1>3, <1>5, <2>1, PlacedQuiet DEF ReadyInv, CutShort
  <2> QED
    BY <1>5, <2>2, EndFacts DEF Fails
<1>6. ASSUME NEW o \in ManagerInstall(p, 1),
             releases' = [releases EXCEPT ![p] = o.rel], brought' \in Brings(p, o),
             launch' = IF o.err THEN NoLaunch ELSE Next1,
             IF o.err THEN CutShort(p) ELSE UNCHANGED cutShort
      PROVE  PlacedInv' /\ ComingInv' /\ SpaceInv'
  <2>1. brought \subseteq brought' /\ brought' \subseteq brought \cup {p} /\ (~o.err => p \in brought')
    BY <1>6 DEF Brings
  <2>2. cutShort \subseteq cutShort' /\ (o.err => p \in cutShort')
    BY <1>6 DEF CutShort
  <2>3. releases'[p] = o.rel /\ \A q \in Charts : q # p => releases'[q] = releases[q]
    BY <1>1, <1>2, <1>6
  <2>4. InPlace(p)' \/ p \in cutShort'
    <3>1. ~o.err => releases'[p].status = "deployed"
      BY <2>3, SucceededFacts
    <3> QED
      BY <1>1, <2>2, <3>1 DEF InPlace
  <2>5. PlacedInv'
    <3> SUFFICES ASSUME NEW q \in ToSet(Prerequisites), q \in brought' \cup packages'
                 PROVE  q \in cutShort' \/ InPlace(q)' \/ Awaited(q)'
      BY DEF PlacedInv
    <3>1. CASE q = p
      BY <2>4, <3>1
    <3>2. CASE q # p
      <4>1. q \in brought \cup packages
        BY <1>1, <2>1, <3>2
      <4>2. q \notin Providers => releases'[q] = releases[q]
        BY <2>3, <3>2, PrerequisiteFacts
      <4>3. Keeps(q)
        BY <1>1, <4>2, KeptFacts
      <4>4. ~Awaited(q)
        BY <1>3 DEF Awaited
      <4> QED
        BY <2>2, <4>1, <4>3, <4>4, StaysPlaced DEF ReadyInv
    <3> QED
      BY <3>1, <3>2
  <2>6. CASE o.err
    BY <1>6, <2>5, <2>6, EndFacts
  <2>7. CASE ~o.err
    <3>1. launch' = Next1
      BY <1>6, <2>7
    <3>2. ComingInv' /\ SpaceInv'
      BY <1>1, <2>1, <2>7, <3>1, <1>0, FieldFacts, OneLess
    <3> QED
      BY <2>5, <3>2
  <2> QED
    BY <2>6, <2>7
<1> QED
  BY <1>0, <1>4, <1>5, <1>6 DEF InstallChart

(* Init makes a package and, when it is healthy, its ProviderConfig.       *)
LEMMA ReadyProvider ==
    ASSUME ReadyInv, CreatePackage \/ ConfigureProvider
    PROVE  PlacedInv' /\ ComingInv' /\ SpaceInv'
<1>0. PICK p : p = Head(launch.missing)
  OBVIOUS
<1>1. /\ UNCHANGED <<releases, brought, namespace, pullSecret>> /\ InstallTypes
      /\ launch.op = "init" /\ launch.step \in {"install", "wait"}
  BY DEF ReadyInv, InstallInv, CreatePackage, ConfigureProvider, At
<1>2. launch.missing # <<>> /\ launch.missing \in Seq(ToSet(Prerequisites)) /\ p \in ToSet(Prerequisites)
  <2>1. launch.missing # <<>> /\ launch.missing \in Seq(ToSet(Prerequisites))
    BY <1>1 DEF ReadyInv, ComingInv, CreatePackage, ConfigureProvider, At
  <2> QED
    BY <1>0, <2>1, HeadFacts
<1>3. ComingInv
  BY DEF ReadyInv
<1>4. CASE CreatePackage
  <2>1. ~At("init", "wait") /\ launch.step = "install" /\ p \in Providers /\ configured' = configured
    BY <1>0, <1>4 DEF CreatePackage, At
  <2>2. \A q \in ToSet(Prerequisites) : Keeps(q)
    BY <1>1, <2>1, KeptFacts
  <2>3. CASE SkippedOne(p) /\ launch' = Next1 /\ UNCHANGED <<packages, cutShort>>
    <3>1. PlacedInv'
      BY <1>1, <2>1, <2>2, <2>3, PlacedQuiet DEF ReadyInv
    <3>2. ComingInv' /\ SpaceInv'
      BY <1>1, <1>2, <2>1, <2>3, <1>0, FieldFacts, OneLess DEF SkippedOne
    <3> QED
      BY <3>1, <3>2
  <2>4. CASE Fails /\ CutShort(p) /\ UNCHANGED packages
    <3>1. PlacedInv'
      BY <1>1, <2>1, <2>2, <2>4, PlacedQuiet DEF ReadyInv, CutShort
    <3> QED
      BY <2>4, <3>1, EndFacts DEF Fails
  <2>5. CASE packages' = packages \cup {p} /\ Go("wait") /\ UNCHANGED cutShort
    <3>1. launch'.step = "wait" /\ launch'.op = "init" /\ launch'.missing = launch.missing
      BY <1>0, <1>1, <2>5, FieldFacts DEF Go
    <3>2. Awaited(p)'
      BY <1>0, <3>1 DEF Awaited, At
    <3>3. PlacedInv'
      <4> SUFFICES ASSUME NEW q \in ToSet(Prerequisites), q \in brought' \cup packages'
                   PROVE  q \in cutShort' \/ InPlace(q)' \/ Awaited(q)'
        BY DEF PlacedInv
      <4>1. CASE q = p
        BY <3>2, <4>1
      <4>2. CASE q # p
        <5>1. q \in brought \cup packages /\ cutShort \subseteq cutShort'
          BY <1>1, <2>5, <4>2
        <5>2. ~Awaited(q)
          BY <2>1 DEF Awaited
        <5> QED
          BY <2>2, <5>1, <5>2, StaysPlaced DEF ReadyInv
      <4> QED
        BY <4>1, <4>2
    <3>4. ComingInv'
      BY <1>0, <1>1, <1>2, <1>3, <2>1, <3>1 DEF ComingInv
    <3>5. SpaceInv'
      BY <3>1 DEF SpaceInv
    <3> QED
      BY <3>3, <3>4, <3>5
  <2> QED
    BY <1>0, <1>4, <2>3, <2>4, <2>5 DEF CreatePackage
<1>5. CASE ConfigureProvider
  <2>1. launch.step = "wait" /\ packages' = packages /\ configured \subseteq configured' /\ cutShort \subseteq cutShort'
    BY <1>5 DEF ConfigureProvider, At, CutShort
  <2>2. \A q \in ToSet(Prerequisites) : Keeps(q)
    BY <1>1, <2>1, KeptFacts
  <2>3. InPlace(p)' \/ p \in cutShort' \/ p \notin Providers
    BY <1>0, <1>5 DEF ConfigureProvider, CutShort, InPlace
  <2>4. PlacedInv /\ \A q : Awaited(q) => q = p
    BY <1>0 DEF ReadyInv, Awaited
  <2>5. p \in Providers
    BY <1>0, <1>1, <2>1 DEF ReadyInv, ComingInv
  <2>6. PlacedInv'
    <3> SUFFICES ASSUME NEW q \in ToSet(Prerequisites), q \in brought' \cup packages'
                 PROVE  q \in cutShort' \/ InPlace(q)' \/ Awaited(q)'
      BY DEF PlacedInv
    <3>1. q \in brought \cup packages
      BY <1>1, <2>1
    <3> QED
      BY <2>1, <2>2, <2>3, <2>4, <2>5, <3>1, StaysPlaced
  <2>7. CASE Fails
    BY <2>6, <2>7, EndFacts DEF Fails
  <2>8. CASE p \in brought /\ launch' = [Next1 EXCEPT !.step = "install"]
    <3>1. ComingInv' /\ SpaceInv'
      BY <1>1, <1>2, <2>8, <1>0, FieldFacts, OneLess
    <3> QED
      BY <2>6, <3>1
  <2> QED
    BY <1>0, <1>5, <2>7, <2>8 DEF ConfigureProvider
<1> QED
  BY <1>4, <1>5

(* All that was missing is there when the secret and the Space follow. *)
LEMMA ReadySpace ==
    ASSUME ReadyInv, ApplySecret \/ DeploySpace
    PROVE  PlacedInv' /\ ComingInv' /\ SpaceInv'
<1>1. /\ UNCHANGED <<brought, packages, configured, cutShort>> /\ InstallTypes
      /\ launch.op = "init" /\ launch.step \in {"install", "deploy"} /\ launch.missing = <<>>
      /\ releases \in [Charts -> Rel] /\ ComingInv
  BY DEF ReadyInv, InstallInv, InstallTypes, ApplySecret, DeploySpace, At, SpaceInv
<1>2. PlacedInv'
  <2>1. \A q \in ToSet(Prerequisites) : q \notin Providers => releases'[q] = releases[q]
    BY <1>1, PrerequisiteFacts DEF ApplySecret, DeploySpace
  <2>2. \A q \in ToSet(Prerequisites) : Keeps(q)
    BY <1>1, <2>1, KeptFacts
  <2> QED
    BY <1>1, <2>2, PlacedQuiet DEF ReadyInv, At
<1>3. CASE ApplySecret
  <2>1. CASE Fails
    BY <1>2, <2>1, EndFacts DEF Fails
  <2>2. CASE namespace' = "active" /\ pullSecret' = TRUE /\ Go("deploy")
    <3>1. launch'.op = "init" /\ launch'.step = "deploy" /\ launch'.missing = <<>>
      BY <1>1, <2>2, FieldFacts DEF Go
    <3>2. ComingInv'
      BY <1>1, <3>1 DEF ComingInv
    <3>3. SpaceInv'
      BY <2>2, <3>1 DEF SpaceInv
    <3> QED
      BY <1>2, <3>2, <3>3
  <2> QED
    BY <1>3, <2>1, <2>2 DEF ApplySecret
<1>4. CASE DeploySpace
  <2>1. PICK o \in ManagerInstall(Space, launch.version) :
            /\ releases' = [releases EXCEPT ![Space] = o.rel]
            /\ \/ Fails
               \/ ~o.err /\ Go("ready")
    BY <1>4 DEF DeploySpace
  <2>2. namespace' = namespace /\ pullSecret' = pullSecret /\ namespace = "active" /\ pullSecret
    BY <1>4 DEF DeploySpace, At, ReadyInv, SpaceInv
  <2>3. CASE Fails
    BY <1>2, <2>3, EndFacts DEF Fails
  <2>4. CASE ~o.err /\ Go("ready")
    <3>1. /\ launch'.op = "init" /\ launch'.step = "ready" /\ launch'.missing = <<>>
          /\ launch'.version = launch.version
      <4>1. launch' = [launch EXCEPT !.step = "ready"]
        BY <2>4 DEF Go
      <4> QED
        BY <1>1, <4>1, FieldFacts
    <3>2. releases'[Space] = Helm!Deployed(launch'.version, NoVersion)
      BY <1>1, <2>1, <2>4, <3>1, SucceededFacts, ChartFacts
    <3>3. ComingInv'
      BY <1>1, <3>1 DEF ComingInv
    <3>4. SpaceInv'
      BY <2>2, <3>1, <3>2 DEF SpaceInv
    <3> QED
      BY <1>2, <3>3, <3>4
  <2> QED
    BY <2>1, <2>3, <2>4
<1> QED
  BY <1>3, <1>4

(* Nothing but init makes a promise: a command of another kind, or none,   *)
(* leaves only the prerequisites to be looked at.                          *)
LEMMA NoPromise ==
    ASSUME launch'.op # "init" /\ launch'.step # "ready"
    PROVE  ComingInv' /\ SpaceInv' /\ ~At("init", "wait")'
BY DEF ComingInv, SpaceInv, At

(* The other commands, which bring nothing.                                *)
LEMMA ReadyOthers ==
    ASSUME ReadyInv, \/ UpgradeSecret \/ UpgradeSpace \/ LaunchDestroy \/ DeleteNamespace
                     \/ UxpUpgrade \/ UxpUninstall \/ Finish
    PROVE  PlacedInv' /\ ComingInv' /\ SpaceInv'
<1>1. /\ UNCHANGED <<brought, packages, configured>> /\ cutShort \subseteq cutShort' /\ InstallTypes
      /\ releases \in [Charts -> Rel]
  BY DEF ReadyInv, InstallInv, InstallTypes, UpgradeSecret, UpgradeSpace, LaunchDestroy, DeleteNamespace,
         UxpUpgrade, UxpUninstall, Finish, CutShort
<1>2. ~At("init", "wait") /\ launch'.op # "init" /\ launch'.step # "ready"
  <2>1. CASE UpgradeSecret
    <3>1. launch' = NoLaunch \/ launch' = [launch EXCEPT !.step = "upgrade"]
      BY <2>1 DEF UpgradeSecret, Fails, Go
    <3>2. launch.op = "upgrade"
      BY <2>1 DEF UpgradeSecret, At
    <3>3. launch'.op \in {"none", "upgrade"} /\ launch'.step \in {"idle", "upgrade"}
      <4>1. CASE launch' = NoLaunch
        BY <4>1, IdleFacts
      <4>2. CASE launch' = [launch EXCEPT !.step = "upgrade"]
        BY <1>1, <3>2, <4>2, FieldFacts
      <4> QED
        BY <3>1, <4>1, <4>2
    <3> QED
      BY <3>2, <3>3 DEF At
  <2>2. CASE UpgradeSpace \/ DeleteNamespace
    BY <2>2, IdleFacts DEF UpgradeSpace, DeleteNamespace, At, Fails
  <2>3. CASE LaunchDestroy
    <3>1. launch = NoLaunch
      BY <2>3 DEF LaunchDestroy
    <3>2. launch' = NoLaunch \/ launch' = [NoLaunch EXCEPT !.op = "destroy", !.step = "namespace"]
      BY <2>3, <3>1 DEF LaunchDestroy
    <3>3. launch'.op \in {"none", "destroy"} /\ launch'.step \in {"idle", "namespace"}
      <4>1. CASE launch' = NoLaunch
        BY <4>1, IdleFacts
      <4>2. CASE launch' = [NoLaunch EXCEPT !.op = "destroy", !.step = "namespace"]
        BY <4>2 DEF NoLaunch
      <4> QED
        BY <3>2, <4>1, <4>2
    <3> QED
      BY <3>1, <3>3, IdleFacts DEF At
  <2>4. CASE UxpUpgrade \/ UxpUninstall
    BY <2>4, IdleFacts DEF UxpUpgrade, UxpUninstall, At
  <2>5. CASE Finish
    BY <2>5, IdleFacts DEF Finish, At
  <2> QED
    BY <2>1, <2>2, <2>3, <2>4, <2>5
<1>3. \A q \in ToSet(Prerequisites) \ Providers :
          releases'[q] = releases[q] \/ releases'[q].status = "deployed" \/ q \in cutShort'
  <2>1. CASE UpgradeSecret \/ DeleteNamespace \/ Finish
    BY <2>1 DEF UpgradeSecret, DeleteNamespace, Finish
  <2>2. CASE UpgradeSpace \/ LaunchDestroy
    <3>1. releases' = releases \/ \E rel : releases' = [releases EXCEPT ![Space] = rel]
      BY <2>2 DEF UpgradeSpace, LaunchDestroy
    <3> QED
      BY <1>1, <3>1, PrerequisiteFacts
  <2>3. CASE UxpUpgrade
    <3> DEFINE name == ReleaseName(Uxp)
    <3>0. PICK v \in Version, rollback \in BOOLEAN : \E o \in ManagerUpgrade(releases[name], v, rollback) :
             /\ releases' = [releases EXCEPT ![name] = o.rel]
             /\ IF o.err THEN CutShort(Uxp) ELSE UNCHANGED cutShort
      BY <2>3 DEF UxpUpgrade
    <3>1. PICK o \in ManagerUpgrade(releases[name], v, rollback) :
             /\ releases' = [releases EXCEPT ![name] = o.rel]
             /\ IF o.err THEN CutShort(Uxp) ELSE UNCHANGED cutShort
      BY <3>0
    <3>2. name \in {Uxp, Alternate}
      BY DEF ReleaseName
    <3> SUFFICES ASSUME NEW q \in ToSet(Prerequisites) \ Providers
                 PROVE  releases'[q] = releases[q] \/ releases'[q].status = "deployed" \/ q \in cutShort'
      OBVIOUS
    <3>3. q \in Charts /\ q # Alternate
      BY PrerequisiteFacts
    <3>4. CASE q # name
      BY <1>1, <3>1, <3>3, <3>4
    <3>5. CASE q = name
      <4>1. releases'[q] = o.rel /\ q = Uxp
        BY <1>1, <3>1, <3>2, <3>3, <3>5
      <4>2. ~o.err => o.rel.status = "deployed"
        BY SucceededFacts
      <4>3. o.err => Uxp \in cutShort'
        BY <3>1 DEF CutShort
      <4> QED
        BY <4>1, <4>2, <4>3
    <3> QED
      BY <3>4, <3>5
  <2>4. CASE UxpUninstall
    BY <1>1, <2>4, PrerequisiteFacts DEF UxpUninstall
  <2> QED
    BY <2>1, <2>2, <2>3, <2>4
<1>4. \A q \in ToSet(Prerequisites) : Keeps(q)
  BY <1>1, <1>3, KeptFacts
<1>5. PlacedInv'
  BY <1>1, <1>2, <1>4, PlacedQuiet DEF ReadyInv
<1> QED
  BY <1>2, <1>5, NoPromise

(* uxp install brings the chart of Crossplane, which is a prerequisite.    *)
LEMMA ReadyUxp ==
    ASSUME ReadyInv, UxpInstall
    PROVE  PlacedInv' /\ ComingInv' /\ SpaceInv'
<1> DEFINE name == ReleaseName(Uxp)
<1>1. /\ UNCHANGED <<packages, configured, pullSecret, launch>> /\ launch = NoLaunch
      /\ releases \in [Charts -> Rel]
  BY DEF ReadyInv, InstallInv, InstallTypes, UxpInstall
<1>2. PICK o \in ManagerInstall(name, 1) :
        /\ releases' = [releases EXCEPT ![name] = o.rel]
        /\ brought' \in Brings(Uxp, o)
        /\ IF o.err THEN CutShort(Uxp) ELSE UNCHANGED cutShort
  BY DEF UxpInstall
<1>3. /\ name \in {Uxp, Alternate}
      /\ name = Alternate => releases[Alternate] # Helm!NoRelease
  BY DEF ReleaseName, Uxp, Alternate
<1>4. name = Alternate => o.err
  <2>1. ASSUME name = Alternate PROVE o.err
    <3>1. o = Helm!Refuse(releases[Alternate])
      BY <1>2, <1>3, <2>1 DEF ManagerInstall
    <3> QED
      BY <3>1 DEF Helm!Refuse
  <2> QED
    BY <2>1
<1>5. /\ brought \subseteq brought' /\ brought' \subseteq brought \cup {Uxp} /\ cutShort \subseteq cutShort'
      /\ o.err => Uxp \in cutShort'
  BY <1>2 DEF Brings, CutShort
<1>6. ComingInv' /\ SpaceInv' /\ ~At("init", "wait")
  BY <1>1, EndFacts, IdleFacts DEF At
<1>7. PlacedInv'
  <2> SUFFICES ASSUME NEW q \in ToSet(Prerequisites), q \in brought' \cup packages'
               PROVE  q \in cutShort' \/ InPlace(q)' \/ Awaited(q)'
    BY DEF PlacedInv
  <2>1. q # Alternate /\ Uxp \notin Providers /\ (q \notin Providers => q \in Charts)
    BY PrerequisiteFacts
  <2>2. CASE q = Uxp
    <3>1. CASE o.err
      BY <1>5, <2>2, <3>1
    <3>2. CASE ~o.err
      <4>1. releases'[Uxp] = o.rel
        BY <1>1, <1>2, <1>3, <1>4, <2>1, <2>2, <3>2
      <4>2. releases'[Uxp].status = "deployed"
        BY <1>2, <3>2, <4>1, SucceededFacts
      <4> QED
        BY <2>1, <2>2, <4>2 DEF InPlace
    <3> QED
      BY <3>1, <3>2
  <2>3. CASE q # Uxp
    <3>1. q \notin Providers => releases'[q] = releases[q]
      BY <1>1, <1>2, <1>3, <2>1, <2>3
    <3>2. Keeps(q) /\ ~Awaited(q) /\ q \in brought \cup packages
      BY <1>1, <1>5, <1>6, <2>3, <3>1, KeptFacts DEF Awaited
    <3> QED
      BY <1>5, <3>2, StaysPlaced DEF ReadyInv
  <2> QED
    BY <2>2, <2>3
<1> QED
  BY <1>6, <1>7

(* Killed in the middle, the commands of UXP bring it, or a part of it.    *)
LEMMA ReadyKilledUxp ==
    ASSUME ReadyInv, KillUxp
    PROVE  PlacedInv' /\ ComingInv' /\ SpaceInv'
<1>1. /\ UNCHANGED <<packages, configured, pullSecret, launch>> /\ launch = NoLaunch
      /\ cutShort' = cutShort \cup {Uxp} /\ brought \subseteq brought' /\ brought' \subseteq brought \cup {Uxp}
      /\ releases \in [Charts -> Rel] /\ \E rel : releases' = [releases EXCEPT ![ReleaseName(Uxp)] = rel]
  BY DEF ReadyInv, InstallInv, InstallTypes, KillUxp, CutShort
<1>2. ComingInv' /\ SpaceInv' /\ ~At("init", "wait")
  BY <1>1, EndFacts, IdleFacts DEF At
<1>3. PlacedInv'
  <2> SUFFICES ASSUME NEW q \in ToSet(Prerequisites), q \in brought' \cup packages', q # Uxp
               PROVE  q \in cutShort' \/ InPlace(q)' \/ Awaited(q)'
    BY <1>1 DEF PlacedInv
  <2>1. q # Alternate /\ (q \notin Providers => q \in Charts)
    BY PrerequisiteFacts
  <2>2. q \notin Providers => releases'[q] = releases[q]
    BY <1>1, <2>1 DEF ReleaseName
  <2>3. Keeps(q) /\ ~Awaited(q) /\ q \in brought \cup packages
    BY <1>1, <1>2, <2>2, KeptFacts DEF Awaited
  <2> QED
    BY <1>1, <2>3, StaysPlaced DEF ReadyInv
<1> QED
  BY <1>2, <1>3

(* A killed command may have brought what it was at, or a part of it.      *)
LEMMA ReadyKill ==
    ASSUME ReadyInv, KillLaunch
    PROVE  PlacedInv' /\ ComingInv' /\ SpaceInv'
<1>1. /\ launch' = NoLaunch /\ cutShort' = cutShort \cup Underway /\ UNCHANGED <<packages, configured>>
      /\ releases \in [Charts -> Rel]
  BY DEF ReadyInv, InstallInv, InstallTypes, KillLaunch, Fails
<1>2. PICK c, come : /\ c \in Underway \cup {Space} /\ come \subseteq Underway
                     /\ \A q \in Charts \ {c} : releases'[q] = releases[q]
                     /\ brought' = brought \cup come
  <2>1. CASE UNCHANGED <<releases, brought>>
    <3>1. /\ Space \in Underway \cup {Space} /\ {} \subseteq Underway /\ brought' = brought \cup {}
          /\ \A q \in Charts \ {Space} : releases'[q] = releases[q]
      BY <2>1
    <3> QED
      BY <3>1
  <2>2. CASE ~UNCHANGED <<releases, brought>>
    <3>1. PICK c \in Underway \cup {Space}, come \in SUBSET Underway :
            /\ \E rel : releases' = [releases EXCEPT ![c] = rel]
            /\ brought' = brought \cup come
      BY <2>2 DEF KillLaunch
    <3> QED
      BY <1>1, <3>1
  <2> QED
    BY <2>1, <2>2
<1>3. PlacedInv'
  <2> SUFFICES ASSUME NEW q \in ToSet(Prerequisites), q \in brought' \cup packages', q \notin cutShort'
               PROVE  InPlace(q)' \/ Awaited(q)'
    BY DEF PlacedInv
  <2>1. q \notin Underway /\ q # Space /\ (q \notin Providers => q \in Charts)
    BY <1>1, PrerequisiteFacts
  <2>2. q \in brought \cup packages
    BY <1>1, <1>2, <2>1
  <2>3. ~Awaited(q)
    <3>1. ASSUME Awaited(q) PROVE FALSE
      <4>1. launch.missing # <<>> /\ launch.missing \in Seq(ToSet(Prerequisites)) /\ q = Head(launch.missing)
        BY <3>1 DEF Awaited, At, ReadyInv, ComingInv
      <4> QED
        BY <2>1, <4>1, HeadFacts
    <3> QED
      BY <3>1
  <2>4. Keeps(q)
    BY <1>1, <1>2, <2>1, KeptFacts
  <2> QED
    BY <1>1, <2>2, <2>3, <2>4, StaysPlaced DEF ReadyInv
<1> QED
  BY <1>1, <1>3, EndFacts

(* What goes with the namespace, and a package that becomes healthy, may   *)
(* come at any time.                                                       *)
LEMMA ReadyCluster ==
    ASSUME ReadyInv, NamespaceGone \/ \E p \in Providers : PackageHealthy(p)
    PROVE  PlacedInv' /\ ComingInv' /\ SpaceInv'
<1>1. /\ UNCHANGED <<packages, configured, launch>> /\ cutShort \subseteq cutShort' /\ brought \subseteq brought'
      /\ brought' \cup packages' = brought \cup packages
  BY DEF NamespaceGone, PackageHealthy
<1>2. \A q \in ToSet(Prerequisites) : Keeps(q)
  <2>1. CASE NamespaceGone
    <3>1. \A q \in ToSet(Prerequisites) \ Providers : releases'[q] = releases[q] \/ q \in cutShort'
      BY <2>1, PrerequisiteFacts DEF NamespaceGone, InNamespace
    <3> QED
      BY <1>1, <3>1, KeptFacts
  <2>2. CASE \E p \in Providers : PackageHealthy(p)
    <3>1. releases' = releases
      BY <2>2 DEF PackageHealthy
    <3> QED
      BY <1>1, <3>1, KeptFacts
  <2> QED
    BY <2>1, <2>2
<1>3. PlacedInv'
  <2> SUFFICES ASSUME NEW q \in ToSet(Prerequisites), q \in brought' \cup packages'
               PROVE  q \in cutShort' \/ InPlace(q)' \/ Awaited(q)'
    BY DEF PlacedInv
  <2>1. Awaited(q) => Awaited(q)'
    BY <1>1 DEF Awaited, At
  <2> QED
    BY <1>1, <1>2, <2>1, StaysPlaced DEF ReadyInv
<1>4. ComingInv'
  BY <1>1 DEF ReadyInv, ComingInv
<1>5. SpaceInv'
  <2>1. CASE NamespaceGone
    <3>1. ~(launch.op = "init" /\ launch.step \in {"deploy", "ready"})
      BY <2>1 DEF NamespaceGone, ReadyInv, SpaceInv
    <3>2. launch.step # "ready"
      BY <3>1 DEF ReadyInv, SpaceInv
    <3> QED
      BY <1>1, <3>1, <3>2 DEF SpaceInv
  <2>2. CASE \E p \in Providers : PackageHealthy(p)
    BY <1>1, <2>2 DEF PackageHealthy, ReadyInv, SpaceInv
  <2> QED
    BY <2>1, <2>2
<1> QED
  BY <1>3, <1>4, <1>5

(* Every step keeps what leads to the promise. *)
LEMMA ReadyStep == ReadyInv /\ [InstallNext]_installVars => ReadyInv'
<1>1. ASSUME ReadyInv, InstallNext PROVE ReadyInv'
  <2>1. InstallInv'
    BY <1>1, InstallStep DEF ReadyInv
  <2>2. PlacedInv' /\ ComingInv' /\ SpaceInv'
    BY <1>1, ReadyLaunch, ReadyChart, ReadyProvider, ReadySpace, ReadyOthers, ReadyUxp, ReadyKilledUxp,
       ReadyKill, ReadyCluster
       DEF InstallNext
  <2> QED
    BY <2>1, <2>2 DEF ReadyInv
<1>2. ASSUME ReadyInv, UNCHANGED installVars PROVE ReadyInv'
  <2>1. InstallInv'
    BY <1>2, InstallStutters DEF ReadyInv
  <2>2. PlacedInv' /\ ComingInv' /\ SpaceInv'
    BY <1>2 DEF installVars, ReadyInv, PlacedInv, ComingInv, SpaceInv, InPlace, Awaited, At
  <2> QED
    BY <2>1, <2>2 DEF ReadyInv
<1> QED
  BY <1>1, <1>2

(* When init says that the Space is ready, its release is deployed, the     *)
(* pull secret is there, and so is every prerequisite that no earlier run  *)
(* was cut short in, nothing took away and nothing but init brought        *)
(* (init.go "Required prerequisites met!"), for any prerequisites,         *)
(* versions and number of commands.                                        *)
THEOREM ReadySpacesAreWhole == InstallSpec => []ReadyIsDeployed
<1>1. InstallInit => ReadyInv
  <2> SUFFICES ASSUME InstallInit PROVE ReadyInv
    OBVIOUS
  <2>1. InstallInv
    BY InstallBegins
  <2>2. PlacedInv
    BY DEF InstallInit, PlacedInv
  <2>3. ComingInv /\ SpaceInv
    BY IdleFacts DEF InstallInit, ComingInv, SpaceInv
  <2> QED
    BY <2>1, <2>2, <2>3 DEF ReadyInv
<1>2. ReadyInv => ReadyIsDeployed
  <2> SUFFICES ASSUME ReadyInv, launch.step = "ready" PROVE ReadyIsDeployed
    BY DEF ReadyIsDeployed
  <2>1. /\ launch.op = "init" /\ launch.missing = <<>> /\ pullSecret
        /\ releases[Space] = Helm!Deployed(launch.version, NoVersion)
    BY DEF ReadyInv, SpaceInv
  <2>2. ToSet(<<>>) = {}
    BY DEF ToSet
  <2>3. ToSet(Prerequisites) \subseteq brought
    BY <2>1, <2>2 DEF ReadyInv, ComingInv
  <2>4. \A p \in ToSet(Prerequisites) \ cutShort : InPlace(p)
    BY <2>3 DEF ReadyInv, PlacedInv, Awaited, At
  <2> QED
    BY <2>1, <2>4 DEF ReadyIsDeployed, InPlace
<1> QED
  BY <1>1, <1>2, ReadyStep, PTL DEF InstallSpec

-----------------------------------------------------------------------------
(***************************************************************************)
(* A package whose installation succeeded was installed and healthy at     *)
(* some time.  The watch tells of changes late and in their order, so the  *)
(* invariant is about the events that wait: one that is healthy is of a    *)
(* package that has been.                                                  *)
(***************************************************************************)
IsHealthy(e) == InstalledAndHealthy(e.conditions)

\* What command i is on the way to, was seen.
SeenInv(i) ==
    /\ installs[i].step = "healthy" => wasHealthy[i] # {}
    /\ installs[i].step = "waiting" => \A n \in DOMAIN events[i] : IsHealthy(events[i][n]) => wasHealthy[i] # {}

Commands == [step : {"ready", "created", "installed", "waiting", "healthy", "closed", "failed"},
             name : PackageNames \cup {""}, ended : BOOLEAN]
Ev == [name : PackageNames \cup {""}, conditions : SUBSET Conditions]

WatchTypes ==
    /\ installs \in [Installs -> Commands]
    /\ events \in [Installs -> Seq(Ev)]
    /\ wasHealthy \in [Installs -> SUBSET PackageNames]
    /\ DOMAIN present \subseteq PackageNames /\ present \in [DOMAIN present -> SUBSET Conditions]

WatchInv == WatchTypes /\ \A i \in Installs : SeenInv(i)

(* Packages come, change and go. *)
LEMMA TellFacts ==
    ASSUME WatchInv, NEW p \in PackageNames, NEW conditions \in SUBSET Conditions, Tell(p, conditions),
           NEW i \in Installs
    PROVE  /\ events'[i] \in Seq(Ev) /\ wasHealthy'[i] \in SUBSET PackageNames
           /\ installs'[i] = installs[i] => SeenInv(i)'
<1> DEFINE e == Event(p, conditions)
<1>1. events[i] \in Seq(Ev) /\ e \in Ev /\ wasHealthy[i] \in SUBSET PackageNames
  BY DEF WatchInv, WatchTypes, Event, Ev
<1>2. wasHealthy'[i] = wasHealthy[i] \union {q \in {p} : Watching(i) /\ InstalledAndHealthy(conditions)}
  BY DEF Tell
<1>3. events'[i] = IF Watching(i) THEN Append(events[i], e) ELSE events[i]
  BY DEF Tell
<1>4. SeenInv(i)
  BY DEF WatchInv
<1>5. ASSUME installs'[i] = installs[i] PROVE SeenInv(i)'
  <2>1. CASE ~Watching(i)
    BY <1>2, <1>3, <1>4, <1>5, <2>1 DEF SeenInv
  <2>2. CASE Watching(i)
    <3>1. installs'[i].step = "waiting"
      BY <1>5, <2>2 DEF Watching
    <3> SUFFICES ASSUME NEW n \in DOMAIN events'[i], IsHealthy(events'[i][n])
                 PROVE  wasHealthy'[i] # {}
      BY <3>1 DEF SeenInv
    <3>2. events'[i] = Append(events[i], e)
      BY <1>3, <2>2
    <3>3. CASE n \in DOMAIN events[i]
      <4>1. events'[i][n] = events[i][n]
        BY <1>1, <3>2, <3>3
      <4> QED
        BY <1>2, <1>4, <1>5, <3>1, <3>3, <4>1 DEF SeenInv
    <3>4. CASE n \notin DOMAIN events[i]
      <4>1. events'[i][n] = e
        BY <1>1, <3>2, <3>4
      <4>2. InstalledAndHealthy(conditions)
        BY <4>1 DEF IsHealthy, Event
      <4> QED
        BY <1>2, <2>2, <4>2
    <3> QED
      BY <3>3, <3>4
  <2> QED
    BY <2>1, <2>2
<1>6. events'[i] \in Seq(Ev)
  BY <1>1, <1>3
<1> QED
  BY <1>1, <1>2, <1>5, <1>6

(* A command that nothing happens to. *)
LEMMA OtherInstalls ==
    ASSUME NEW i, SeenInv(i), installs'[i] = installs[i], events'[i] = events[i], wasHealthy'[i] = wasHealthy[i]
    PROVE  SeenInv(i)'
BY DEF SeenInv

(* The package is made, or is there already.                               *)
LEMMA CreateStep ==
    ASSUME WatchInv, NEW i \in Installs, NEW p \in PackageNames, NEW wait \in BOOLEAN, Create(i, p, wait)
    PROVE  WatchInv'
<1>1. PICK step \in {"created", "installed", "failed"} :
         installs' = [installs EXCEPT ![i].step = step, ![i].name = p]
  BY DEF Create
<1>2. installs' \in [Installs -> Commands]
  <2>1. installs[i] \in Commands
    BY DEF WatchInv, WatchTypes
  <2>2. PICK made \in Commands : made = [installs[i] EXCEPT !.step = step, !.name = p]
    BY <2>1 DEF Commands
  <2>3. installs' = [installs EXCEPT ![i] = made]
    BY <1>1, <2>2
  <2> QED
    BY <2>3 DEF WatchInv, WatchTypes
<1>3. installs'[i].step = step
  BY <1>1 DEF WatchInv, WatchTypes
<1>4. \A j \in Installs : j # i => installs'[j] = installs[j]
  BY <1>1 DEF WatchInv, WatchTypes
<1>5. SeenInv(i)'
  BY <1>3 DEF SeenInv
<1>6. CASE UNCHANGED <<present, events, wasHealthy>>
  <2>1. \A j \in Installs : SeenInv(j)'
    BY <1>4, <1>5, <1>6, OtherInstalls DEF WatchInv
  <2> QED
    BY <1>2, <1>6, <2>1 DEF WatchInv, WatchTypes
<1>7. CASE /\ p \notin DOMAIN present
           /\ present' = [q \in DOMAIN present \union {p} |-> IF q = p THEN {} ELSE present[q]]
           /\ Tell(p, {})
  <2>1. \A j \in Installs : /\ events'[j] \in Seq(Ev) /\ wasHealthy'[j] \in SUBSET PackageNames
                            /\ installs'[j] = installs[j] => SeenInv(j)'
    <3> TAKE j \in Installs
    <3> QED
      BY <1>7, TellFacts
  <2>2. \A j \in Installs : SeenInv(j)'
    BY <1>4, <1>5, <2>1
  <2>3. DOMAIN present' \subseteq PackageNames /\ present' \in [DOMAIN present' -> SUBSET Conditions]
    <3>1. DOMAIN present \union {p} \in SUBSET PackageNames
      BY DEF WatchInv, WatchTypes
    <3>2. present' \in [DOMAIN present \union {p} -> SUBSET Conditions]
      BY <1>7 DEF WatchInv, WatchTypes
    <3> QED
      BY <3>1, <3>2
  <2>4. /\ events' \in [Installs -> Seq(Ev)] /\ wasHealthy' \in [Installs -> SUBSET PackageNames]
    BY <1>7, <2>1 DEF Tell
  <2> QED
    BY <1>2, <2>2, <2>3, <2>4 DEF WatchInv, WatchTypes
<1> QED
  BY <1>6, <1>7 DEF Create

(* A watch begins with an event for each package there is.                 *)
LEMMA WatchStep ==
    ASSUME WatchInv, NEW i \in Installs, Watch(i)
    PROVE  WatchInv'
<1>1. PICK step \in {"waiting", "failed"} : installs' = [installs EXCEPT ![i].step = step]
  BY DEF Watch
<1>2. installs' \in [Installs -> Commands]
  BY <1>1 DEF WatchInv, WatchTypes, Commands
<1>3. installs'[i].step = step
  BY <1>1 DEF WatchInv, WatchTypes
<1>4. \A j \in Installs : j # i => installs'[j] = installs[j]
  BY <1>1 DEF WatchInv, WatchTypes
<1>5. CASE UNCHANGED <<events, wasHealthy>> /\ installs' = [installs EXCEPT ![i].step = "failed"]
  <2>1. SeenInv(i)'
    BY <1>5 DEF SeenInv, WatchInv, WatchTypes
  <2>2. \A j \in Installs : SeenInv(j)'
    BY <1>4, <1>5, <2>1, OtherInstalls DEF WatchInv
  <2> QED
    BY <1>2, <1>5, <2>2 DEF WatchInv, WatchTypes, Watch
<1>6. ASSUME installs' = [installs EXCEPT ![i].step = "waiting"],
             NEW order \in SetToSeqs(DOMAIN present),
             events' = [events EXCEPT ![i] = [n \in DOMAIN order |-> Event(order[n], present[order[n]])]],
             wasHealthy' = [wasHealthy EXCEPT ![i] = {p \in DOMAIN present : InstalledAndHealthy(present[p])}]
      PROVE WatchInv'
  <2>1. order \in Seq(DOMAIN present)
    <3>1. order \in [1 .. Cardinality(DOMAIN present) -> DOMAIN present]
      BY DEF SetToSeqs
    <3>2. Cardinality(DOMAIN present) \in Nat
      BY PackageInstallAssumption, FS_Subset, FS_CardinalityType DEF WatchInv, WatchTypes
    <3> QED
      BY <3>1, <3>2
  <2>2. events'[i] = [n \in 1 .. Len(order) |-> Event(order[n], present[order[n]])]
    BY <1>6, <2>1 DEF WatchInv, WatchTypes
  <2>3. wasHealthy'[i] = {p \in DOMAIN present : InstalledAndHealthy(present[p])}
    BY <1>6 DEF WatchInv, WatchTypes
  <2>4. events'[i] \in Seq(Ev)
    <3>1. \A n \in 1 .. Len(order) : Event(order[n], present[order[n]]) \in Ev
      <4>1. ASSUME NEW n \in 1 .. Len(order) PROVE Event(order[n], present[order[n]]) \in Ev
        <5>1. order[n] \in DOMAIN present
          BY <2>1
        <5> QED
          BY <5>1 DEF Event, Ev, WatchInv, WatchTypes
      <4> QED
        BY <4>1
    <3>2. Len(order) \in Nat
      BY <2>1
    <3>3. \A n \in 1 .. Len(order) : events'[i][n] \in Ev
      BY <2>2, <3>1
    <3> QED
      BY <2>2, <3>2, <3>3
  <2>5. SeenInv(i)'
    <3> SUFFICES ASSUME NEW n \in DOMAIN events'[i], IsHealthy(events'[i][n])
                 PROVE  wasHealthy'[i] # {}
      BY <1>6, <1>3 DEF SeenInv, WatchInv, WatchTypes
    <3>1. events'[i][n] = Event(order[n], present[order[n]]) /\ order[n] \in DOMAIN present
      BY <2>1, <2>2
    <3> QED
      BY <2>3, <3>1 DEF IsHealthy, Event
  <2>6. \A j \in Installs : j # i => events'[j] = events[j] /\ wasHealthy'[j] = wasHealthy[j]
    BY <1>6 DEF WatchInv, WatchTypes
  <2>7. \A j \in Installs : SeenInv(j)'
    BY <1>4, <2>5, <2>6, OtherInstalls DEF WatchInv
  <2>8. DOMAIN present \subseteq PackageNames
    BY DEF WatchInv, WatchTypes
  <2>9. events' \in [Installs -> Seq(Ev)] /\ wasHealthy' \in [Installs -> SUBSET PackageNames]
    BY <1>6, <2>3, <2>4, <2>8 DEF WatchInv, WatchTypes
  <2> QED
    BY <1>2, <2>7, <2>9 DEF WatchInv, WatchTypes, Watch
<1> QED
  BY <1>5, <1>6 DEF Watch

(* The command reads an event; only a healthy one makes it succeed.        *)
LEMMA ReadStep ==
    ASSUME WatchInv, NEW i \in Installs, ReadEvent(i)
    PROVE  WatchInv'
<1>1. events[i] \in Seq(Ev) /\ events[i] # <<>>
  BY DEF ReadEvent, WatchInv, WatchTypes
<1>2. events' = [events EXCEPT ![i] = Tail(events[i])]
  BY DEF ReadEvent
<1>3. events'[i] = Tail(events[i]) /\ Tail(events[i]) \in Seq(Ev)
  BY <1>1, <1>2 DEF WatchInv, WatchTypes
<1>4. \A n \in DOMAIN Tail(events[i]) : n + 1 \in DOMAIN events[i] /\ Tail(events[i])[n] = events[i][n + 1]
  BY <1>1
<1>5. 1 \in DOMAIN events[i] /\ Head(events[i]) = events[i][1]
  BY <1>1
<1>6. PICK step \in {"waiting", "healthy"} :
                             /\ installs' = [installs EXCEPT ![i].step = step]
                             /\ step = "healthy" => InstalledAndHealthy(Head(events[i]).conditions)
  <2>1. CASE installs' = installs
    <3>0. installs \in [Installs -> Commands] /\ installs[i].step = "waiting"
      BY DEF WatchInv, WatchTypes, ReadEvent
    <3>1. installs = [installs EXCEPT ![i].step = "waiting"]
      BY <3>0 DEF Commands
    <3> QED
      BY <2>1, <3>1
  <2>2. CASE installs' = [installs EXCEPT ![i].step = "healthy"] /\ InstalledAndHealthy(Head(events[i]).conditions)
    BY <2>2
  <2> QED
    BY <2>1, <2>2 DEF ReadEvent
<1>7. installs' \in [Installs -> Commands]
  BY <1>6 DEF WatchInv, WatchTypes, Commands
<1>8. installs'[i].step = step
  BY <1>6 DEF WatchInv, WatchTypes
<1>9. SeenInv(i) /\ installs[i].step = "waiting"
  BY DEF WatchInv, ReadEvent
<1>10. SeenInv(i)'
  <2>1. \A n \in DOMAIN events[i] : IsHealthy(events[i][n]) => wasHealthy[i] # {}
    BY <1>9 DEF SeenInv
  <2>2. wasHealthy'[i] = wasHealthy[i]
    BY DEF ReadEvent
  <2>3. step = "healthy" => wasHealthy[i] # {}
    BY <1>5, <1>6, <2>1 DEF IsHealthy
  <2>4. \A n \in DOMAIN events'[i] : IsHealthy(events'[i][n]) => wasHealthy[i] # {}
    BY <1>3, <1>4, <2>1
  <2> QED
    BY <1>8, <2>2, <2>3, <2>4 DEF SeenInv
<1>11. \A j \in Installs : SeenInv(j)'
  <2>1. \A j \in Installs : j # i => installs'[j] = installs[j] /\ events'[j] = events[j] /\ wasHealthy'[j] = wasHealthy[j]
    BY <1>2, <1>6 DEF WatchInv, WatchTypes, ReadEvent
  <2> QED
    BY <1>10, <2>1, OtherInstalls DEF WatchInv
<1>12. events' \in [Installs -> Seq(Ev)]
  BY <1>2, <1>3 DEF WatchInv, WatchTypes
<1> QED
  BY <1>7, <1>11, <1>12 DEF WatchInv, WatchTypes, ReadEvent

(* The end of a watch brings a status, which is never healthy.             *)
LEMMA EndSteps ==
    ASSUME WatchInv, NEW i \in Installs, ReadEnd(i) \/ EndWatch(i)
    PROVE  WatchInv'
<1>1. events[i] \in Seq(Ev) /\ Status \in Ev /\ ~IsHealthy(Status)
  BY DEF WatchInv, WatchTypes, Status, Event, Ev, IsHealthy, InstalledAndHealthy
<1>2. /\ \A j \in Installs : j # i => installs'[j] = installs[j] /\ events'[j] = events[j]
      /\ wasHealthy' = wasHealthy /\ present' = present
  BY DEF WatchInv, WatchTypes, ReadEnd, EndWatch
<1>3. CASE ReadEnd(i)
  <2>1. installs' = [installs EXCEPT ![i].step = "closed"] /\ events' = events
    BY <1>3 DEF ReadEnd
  <2>2. installs' \in [Installs -> Commands]
    BY <2>1 DEF WatchInv, WatchTypes, Commands
  <2>3. SeenInv(i)'
    BY <2>1 DEF SeenInv, WatchInv, WatchTypes
  <2>4. \A j \in Installs : SeenInv(j)'
    BY <1>2, <2>3, OtherInstalls DEF WatchInv
  <2> QED
    BY <1>2, <2>1, <2>2, <2>4 DEF WatchInv, WatchTypes
<1>4. CASE EndWatch(i)
  <2>1. PICK n \in 0 .. Len(events[i]), last \in {<<>>, <<Status>>} :
            events' = [events EXCEPT ![i] = SubSeq(events[i], 1, n) \o last]
    BY <1>4 DEF EndWatch
  <2>2. events'[i] = SubSeq(events[i], 1, n) \o last
    BY <2>1 DEF WatchInv, WatchTypes
  <2>3. /\ SubSeq(events[i], 1, n) \in Seq(Ev) /\ last \in Seq(Ev)
        /\ Len(SubSeq(events[i], 1, n)) = n /\ n \in Nat
        /\ \A k \in 1 .. n : SubSeq(events[i], 1, n)[k] = events[i][k] /\ k \in DOMAIN events[i]
    <3>1. Len(events[i]) \in Nat /\ n \in Nat /\ n <= Len(events[i]) /\ DOMAIN events[i] = 1 .. Len(events[i])
      BY <1>1
    <3>2. SubSeq(events[i], 1, n) = [k \in 1 .. n |-> events[i][k]]
      BY <1>1, <3>1
    <3>3. \A k \in 1 .. n : events[i][k] \in Ev /\ k \in DOMAIN events[i]
      BY <1>1, <3>1
    <3>4. SubSeq(events[i], 1, n) \in Seq(Ev) /\ Len(SubSeq(events[i], 1, n)) = n
      BY <3>1, <3>2, <3>3
    <3>5. <<>> \in Seq(Ev) /\ <<Status>> \in Seq(Ev)
      BY <1>1
    <3>6. \A k \in 1 .. n : SubSeq(events[i], 1, n)[k] = events[i][k]
      BY <3>2, Zenon
    <3> QED
      BY <3>1, <3>3, <3>4, <3>5, <3>6
  <2>4. events'[i] \in Seq(Ev)
    BY <2>2, <2>3
  <2>5. \A k \in DOMAIN events'[i] : IsHealthy(events'[i][k]) => k \in DOMAIN events[i] /\ events'[i][k] = events[i][k]
    <3> SUFFICES ASSUME NEW k \in DOMAIN events'[i], IsHealthy(events'[i][k])
                 PROVE  k \in DOMAIN events[i] /\ events'[i][k] = events[i][k]
      OBVIOUS
    <3>1. CASE k \in 1 .. n
      BY <2>2, <2>3, <3>1
    <3>2. CASE k \notin 1 .. n
      <4>1. last = <<Status>> /\ events'[i][k] = Status
        BY <2>2, <2>3, <3>2
      <4> QED
        BY <1>1, <4>1
    <3> QED
      BY <3>1, <3>2
  <2>6. installs' = [installs EXCEPT ![i].ended = TRUE]
    BY <1>4 DEF EndWatch
  <2>7. /\ installs' \in [Installs -> Commands]
        /\ installs'[i].step = installs[i].step
    BY <2>6 DEF WatchInv, WatchTypes, Commands
  <2>8. SeenInv(i)'
    <3>1. SeenInv(i)
      BY DEF WatchInv
    <3> QED
      BY <1>2, <2>5, <2>7, <3>1 DEF SeenInv
  <2>9. \A j \in Installs : SeenInv(j)'
    BY <1>2, <2>8, OtherInstalls DEF WatchInv
  <2>10. events' \in [Installs -> Seq(Ev)]
    BY <2>1, <2>4, <2>2 DEF WatchInv, WatchTypes
  <2> QED
    BY <1>2, <2>7, <2>9, <2>10 DEF WatchInv, WatchTypes
<1> QED
  BY <1>3, <1>4

(* The packages change while the commands run.                             *)
LEMMA ChangeSteps ==
    ASSUME WatchInv, NEW p \in PackageNames, Change(p) \/ Delete(p)
    PROVE  WatchInv'
<1>1. PICK conditions \in SUBSET Conditions : Tell(p, conditions)
  BY DEF Change, Delete, WatchInv, WatchTypes
<1>2. \A j \in Installs : /\ events'[j] \in Seq(Ev) /\ wasHealthy'[j] \in SUBSET PackageNames
                          /\ installs'[j] = installs[j] => SeenInv(j)'
  <2> TAKE j \in Installs
  <2> QED
    BY <1>1, TellFacts
<1>3. installs' = installs
  BY DEF Change, Delete
<1>4. DOMAIN present' \subseteq PackageNames /\ present' \in [DOMAIN present' -> SUBSET Conditions]
  <2>1. CASE Change(p)
    BY <2>1 DEF Change, WatchInv, WatchTypes
  <2>2. CASE Delete(p)
    <3>1. present' \in [DOMAIN present \ {p} -> SUBSET Conditions] /\ DOMAIN present \ {p} \in SUBSET PackageNames
      BY <2>2 DEF Delete, Without, WatchInv, WatchTypes
    <3> QED
      BY <3>1
  <2> QED
    BY <2>1, <2>2
<1>5. events' \in [Installs -> Seq(Ev)] /\ wasHealthy' \in [Installs -> SUBSET PackageNames]
  BY <1>1, <1>2 DEF Tell
<1> QED
  BY <1>2, <1>3, <1>4, <1>5 DEF WatchInv, WatchTypes

(* It holds at first.                                                      *)
LEMMA PackageInstallBegins == PackageInstallInit => WatchInv
<1> SUFFICES ASSUME PackageInstallInit PROVE WatchInv
  OBVIOUS
<1>1. DOMAIN present \subseteq PackageNames /\ present \in [DOMAIN present -> SUBSET Conditions]
  BY DEF PackageInstallInit
<1>2. \A i \in Installs : SeenInv(i)
  BY DEF PackageInstallInit, SeenInv
<1>3. installs \in [Installs -> Commands]
  BY DEF PackageInstallInit, Commands
<1>4. events \in [Installs -> Seq(Ev)]
  <2>1. <<>> \in Seq(Ev)
    OBVIOUS
  <2> QED
    BY <2>1, Zenon DEF PackageInstallInit
<1>5. wasHealthy \in [Installs -> SUBSET PackageNames]
  BY DEF PackageInstallInit
<1> QED
  BY <1>1, <1>2, <1>3, <1>4, <1>5 DEF WatchInv, WatchTypes

(* A command says that its package is installed and healthy only if a      *)
(* package was, while it watched (watch.go, DynamicWatch), for any number  *)
(* of commands and packages.                                               *)
THEOREM SuccessesWereSeen == PackageInstallSpec => []SuccessWasSeen
<1>1. WatchInv /\ [PackageInstallNext]_packageInstallVars => WatchInv'
  <2>1. WatchInv /\ PackageInstallNext => WatchInv'
    BY CreateStep, WatchStep, ReadStep, EndSteps, ChangeSteps DEF PackageInstallNext
  <2>2. WatchInv /\ UNCHANGED packageInstallVars => WatchInv'
    BY DEF packageInstallVars, WatchInv, WatchTypes, SeenInv
  <2> QED
    BY <2>1, <2>2
<1>2. WatchInv => SuccessWasSeen
  BY DEF WatchInv, SeenInv, SuccessWasSeen
<1> QED
  BY <1>1, <1>2, PackageInstallBegins, PTL DEF PackageInstallSpec

-----------------------------------------------------------------------------
(***************************************************************************)
(* A usage report holds, for every key and every window of its period, the *)
(* largest count that was stored: no window is billed twice, left out or   *)
(* cut off where the period ends.  The invariant follows one window through *)
(* its reader: what is still to be read of it is owed, and what is not owed *)
(* any more is counted.                                                    *)
(***************************************************************************)
(* Sequences and remainders *)

LEMMA RangeOfTail ==
  ASSUME NEW S, NEW s \in Seq(S), s # <<>>
  PROVE  /\ Head(s) \in S /\ Tail(s) \in Seq(S)
         /\ \A x : x \in Range(s) <=> x = Head(s) \/ x \in Range(Tail(s))
<1>1. /\ Len(s) \in Nat \ {0} /\ Head(s) = s[1] /\ DOMAIN s = 1 .. Len(s)
      /\ Tail(s) \in Seq(S) /\ Len(Tail(s)) = Len(s) - 1
      /\ DOMAIN Tail(s) = 1 .. Len(s) - 1
      /\ \A i \in 1 .. Len(s) - 1 : Tail(s)[i] = s[i + 1]
  OBVIOUS
<1>2. \A x : x \in Range(Tail(s)) => x \in Range(s)
  BY <1>1 DEF Range
<1>3. ASSUME NEW i \in 1 .. Len(s), i # 1
      PROVE  i - 1 \in 1 .. Len(s) - 1 /\ s[i] = Tail(s)[i - 1]
  BY <1>1, <1>3
<1>4. ASSUME NEW x \in Range(s), x # Head(s)
      PROVE  x \in Range(Tail(s))
  <2>1. PICK i \in 1 .. Len(s) : x = s[i]
    BY <1>1 DEF Range
  <2>2. i # 1
    BY <1>1, <1>4, <2>1
  <2>3. i - 1 \in DOMAIN Tail(s) /\ x = Tail(s)[i - 1]
    BY <1>1, <1>3, <2>1, <2>2
  <2> QED  BY <2>3 DEF Range
<1>5. Head(s) \in Range(s)
  <2>1. 1 \in DOMAIN s
    BY <1>1
  <2> QED  BY <1>1, <2>1 DEF Range
<1>6. Head(s) \in S
  BY <1>1
<1> QED
  BY <1>1, <1>2, <1>4, <1>5, <1>6

LEMMA RangeOfEmpty == Range(<<>>) = {}
BY DEF Range

LEMMA NextMultiple ==
  ASSUME NEW w \in Nat \ {0}, NEW a \in Nat, a % w = 0
  PROVE  (a + w) % w = 0
<1>1. PICK p \in Nat : a = w * p
  <2>1. a = w * (a \div w) + (a % w) /\ a \div w \in Nat
    OBVIOUS
  <2> QED  BY <2>1
<1>2. PICK q \in Nat, r \in 0 .. w - 1 : a + w = w * q + r /\ r = (a + w) % w
  <2>1. /\ a + w = w * ((a + w) \div w) + ((a + w) % w)
        /\ (a + w) \div w \in Nat /\ (a + w) % w \in 0 .. w - 1
    OBVIOUS
  <2> QED  BY <2>1
<1>3. w * (p + 1 - q) = r
  BY <1>1, <1>2
<1>4. p + 1 - q >= 1 => w * (p + 1 - q) >= w
  BY <1>1, <1>2
<1>5. p + 1 - q <= -1 => w * (p + 1 - q) <= -w
  BY <1>1, <1>2
<1>6. p + 1 - q = 0
  BY <1>1, <1>2, <1>3, <1>4, <1>5
<1> QED
  BY <1>2, <1>3, <1>6

LEMMA MultiplesApart ==
  ASSUME NEW w \in Nat \ {0}, NEW a \in Nat, NEW b \in Nat,
         a % w = 0, b % w = 0, a <= b, b < a + w
  PROVE  a = b
<1>1. PICK p \in Nat, q \in Nat : a = w * p /\ b = w * q
  <2>1. /\ a = w * (a \div w) + (a % w) /\ a \div w \in Nat
        /\ b = w * (b \div w) + (b % w) /\ b \div w \in Nat
    OBVIOUS
  <2> QED  BY <2>1
<1>2. w * (q - p) = b - a
  BY <1>1
<1>3. q - p >= 1 => w * (q - p) >= w
  BY <1>1
<1>4. q - p <= -1 => w * (q - p) <= -w
  BY <1>1
<1>5. q - p = 0
  BY <1>1, <1>2, <1>3, <1>4
<1> QED
  BY <1>1, <1>5

LEMMA TheMax ==
  ASSUME NEW S \in SUBSET Int, NEW m \in S, \A y \in S : y <= m
  PROVE  Max(S) = m
<1>1. m \in S /\ \A y \in S : m >= y
  OBVIOUS
<1>2. Max(S) \in S /\ \A y \in S : Max(S) >= y
  BY <1>1 DEF Max
<1>3. Max(S) \in Int /\ m \in Int /\ Max(S) >= m /\ m >= Max(S)
  BY <1>1, <1>2
<1> QED
  BY <1>3

LEMMA TheMin ==
  ASSUME NEW a \in Int, NEW b \in Int
  PROVE  Min({a, b}) = IF a > b THEN b ELSE a
<1> DEFINE m == IF a > b THEN b ELSE a
<1>1. m \in {a, b} /\ \A y \in {a, b} : m =< y
  OBVIOUS
<1> HIDE DEF m
<1>2. Min({a, b}) \in {a, b} /\ \A y \in {a, b} : Min({a, b}) =< y
  BY <1>1 DEF Min
<1> QED
  BY <1>1, <1>2 DEF m
-----------------------------------------------------------------------------
(* The inductive invariant *)

UsageEvent == [key : UsageKeys \union {""}, value : Int]

UsageType ==
  /\ store \in [provider : {"aws", "azure", "gcp"}, events : [0 .. Hours -> StoredObjects]]
  /\ billing \in [step : {"idle", "created", "next", "reading", "saved", "failed", "cleaned",
                          "refused", "panicked", "killed"},
                  start : 0 .. Hours, end : 0 .. Hours, window : Nat \ {0}, cursor : Nat]
  /\ reader \in [hours : Seq(0 .. Hours), objects : Seq(Seq(UsageEvent)), events : Seq(UsageEvent)]
  /\ counts \in [UsageKeys -> Nat]
  /\ unnoticed \in BOOLEAN

\* The report of the windows that start before an hour.
Billed(hour) == UNION {Maxima(w[1], w[2]) : w \in {w \in Period : w[1] < hour}}

\* What is still to be read of the window.
Owed(e) ==
  \/ e \in Range(reader.events)
  \/ \E o \in Range(reader.objects) : e \in Range(o)
  \/ \E h \in Range(reader.hours) : e \in StoredAt(h)

\* A command stands at the start of a window and has billed those before it.
BilledInv ==
  /\ billing.step = "idle" => buffer = {}
  /\ billing.step \in {"created", "next", "reading"} =>
       /\ billing.start < billing.end /\ billing.start <= billing.cursor
       /\ (billing.cursor - billing.start) % billing.window = 0
       /\ ~unnoticed => buffer = Billed(billing.cursor)

\* No count is less than one that was read, and each is one that is stored
\* under an hour of the window.
CountInv ==
  billing.step = "reading" =>
    /\ billing.cursor < billing.end
    /\ \A e : Owed(e) => \E h \in billing.cursor .. WindowEnd - 1 : e \in StoredAt(h)
    /\ ~unnoticed => \A h \in billing.cursor .. WindowEnd - 1 : \A e \in StoredAt(h) :
                         (e.key # "" /\ Truncated(e.value) <= counts[e.key]) \/ Owed(e)
    /\ \A k \in UsageKeys : counts[k] > 0 =>
         \E h \in billing.cursor .. WindowEnd - 1 : \E e \in StoredAt(h) :
             e.key = k /\ Truncated(e.value) = counts[k]

UsageInv == UsageType /\ BilledInv /\ CountInv /\ ReportIsMaximum
-----------------------------------------------------------------------------
LEMMA TruncatedIsInt == \A v \in Int : Truncated(v) \in Int
<1>1. \A v \in Int, n \in Nat \ {0} : v \div n \in Int
  OBVIOUS
<1>2. PerCount \in Nat \ {0}
  BY UsageAssumption
<1> SUFFICES ASSUME NEW v \in Int PROVE Truncated(v) \in Int
  OBVIOUS
<1>3. (-v) \div PerCount \in Int /\ v \div PerCount \in Int
  <2>1. -v \in Int
    OBVIOUS
  <2> QED  BY <1>1, <1>2, <2>1
<1>4. -((-v) \div PerCount) \in Int
  BY <1>3
<1> QED
  BY <1>3, <1>4 DEF Truncated

LEMMA StoredFacts ==
  ASSUME UsageType, NEW h \in 0 .. Hours
  PROVE  /\ store.events[h] \in Seq(Seq(UsageEvent))
         /\ StoredAt(h) \subseteq UsageEvent
<1>1. store.events[h] \in Seq(Seq(UsageEvent))
  BY UsageAssumption DEF UsageType, UsageEvent
<1>2. \A o \in Range(store.events[h]) : o \in Seq(UsageEvent)
  BY <1>1 DEF Range
<1>3. \A o \in Seq(UsageEvent) : Range(o) \subseteq UsageEvent
  BY DEF Range
<1> QED
  BY <1>1, <1>2, <1>3 DEF StoredAt

LEMMA WindowFacts ==
  ASSUME UsageType, billing.cursor < billing.end
  PROVE  /\ WindowEnd \in 1 .. billing.end /\ billing.cursor < WindowEnd
         /\ billing.cursor .. WindowEnd - 1 \subseteq 0 .. Hours
         /\ WindowEnd = Min({billing.cursor + billing.window, billing.end})
<1>1. /\ billing.end \in 0 .. Hours /\ billing.cursor \in Nat /\ billing.window \in Nat \ {0}
      /\ Hours \in Nat
  BY UsageAssumption DEF UsageType
<1>2. WindowEnd = IF billing.cursor + billing.window > billing.end
                  THEN billing.end ELSE billing.cursor + billing.window
  BY DEF WindowEnd
<1> QED
  BY <1>1, <1>2, TheMin

\* When a window has been read its largest counts are those of the aggregate.
LEMMA WindowIsMaximum ==
  ASSUME UsageInv, billing.step = "reading", reader = NoReader, ~unnoticed
  PROVE  UpboundEvents = Maxima(billing.cursor, WindowEnd)
<1> DEFINE hours == billing.cursor .. WindowEnd - 1
           found == EventsIn(hours)
<1>1. \A e : ~Owed(e)
  BY RangeOfEmpty DEF UsageInv, Owed, NoReader
<1>2. \A h \in hours : StoredAt(h) \subseteq UsageEvent
  BY WindowFacts, StoredFacts DEF UsageInv, CountInv
<1>3. \A e \in found : /\ e \in UsageEvent /\ e.key \in UsageKeys /\ Truncated(e.value) > 0
                        /\ Truncated(e.value) <= counts[e.key]
  <2> SUFFICES ASSUME NEW e \in found
               PROVE  /\ e \in UsageEvent /\ e.key \in UsageKeys /\ Truncated(e.value) > 0
                      /\ Truncated(e.value) <= counts[e.key]
    OBVIOUS
  <2>1. PICK h \in hours : e \in StoredAt(h)
    BY DEF EventsIn
  <2>2. e.key # "" /\ Truncated(e.value) > 0
    BY DEF EventsIn
  <2>3. e \in UsageEvent
    BY <1>2, <2>1
  <2>4. Truncated(e.value) <= counts[e.key]
    BY <1>1, <2>1 DEF UsageInv, CountInv
  <2> QED  BY <2>2, <2>3, <2>4 DEF UsageEvent
<1>4. \A k \in UsageKeys : counts[k] > 0 =>
          \E e \in found : e.key = k /\ Truncated(e.value) = counts[k]
  <2> SUFFICES ASSUME NEW k \in UsageKeys, counts[k] > 0
               PROVE  \E e \in found : e.key = k /\ Truncated(e.value) = counts[k]
    OBVIOUS
  <2>1. PICK h \in hours : \E e \in StoredAt(h) : e.key = k /\ Truncated(e.value) = counts[k]
    BY DEF UsageInv, CountInv
  <2>2. PICK e \in StoredAt(h) : e.key = k /\ Truncated(e.value) = counts[k]
    BY <2>1
  <2>3. e.key # "" /\ Truncated(e.value) > 0
    BY <2>2, UsageAssumption
  <2>4. e \in found
    BY <2>1, <2>2, <2>3 DEF EventsIn
  <2> QED  BY <2>2, <2>4
<1>5. counts \in [UsageKeys -> Nat]
  BY DEF UsageInv, UsageType
<1> DEFINE billed == {k \in UsageKeys : counts[k] > 0}
<1> HIDE DEF found
<1>6. billed = {e.key : e \in found}
  <2>1. ASSUME NEW k \in billed
        PROVE  k \in {e.key : e \in found}
    <3>1. PICK e \in found : e.key = k
      BY <1>4
    <3> QED  BY <3>1
  <2>2. ASSUME NEW e \in found
        PROVE  e.key \in billed
    <3>1. /\ e.key \in UsageKeys /\ Truncated(e.value) \in Int /\ Truncated(e.value) > 0
          /\ Truncated(e.value) <= counts[e.key] /\ counts[e.key] \in Nat
      BY <1>3, <1>5, TruncatedIsInt DEF UsageEvent
    <3> QED  BY <3>1
  <2> QED  BY <2>1, <2>2
<1>7. ASSUME NEW k \in billed
      PROVE  Max({Truncated(e.value) : e \in {e \in found : e.key = k}}) = counts[k]
  <2> DEFINE values == {Truncated(e.value) : e \in {e \in found : e.key = k}}
  <2>1. values \in SUBSET Int
    BY <1>3, TruncatedIsInt DEF UsageEvent
  <2>2. counts[k] \in values
    <3>1. PICK e \in {e \in found : e.key = k} : Truncated(e.value) = counts[k]
      BY <1>4
    <3> QED  BY <3>1
  <2>3. \A y \in values : y <= counts[k]
    BY <1>3
  <2> HIDE DEF values
  <2> QED  BY <2>1, <2>2, <2>3, TheMax DEF values
<1>8. Maxima(billing.cursor, WindowEnd) =
        {[key |-> k, value |-> Max({Truncated(e.value) : e \in {e \in found : e.key = k}}),
          start |-> billing.cursor, end |-> WindowEnd] : k \in {e.key : e \in found}}
  BY DEF Maxima, found
<1>9. UpboundEvents = {[key |-> k, value |-> counts[k], start |-> billing.cursor, end |-> WindowEnd] :
                         k \in billed}
  BY DEF UpboundEvents
<1> HIDE DEF billed
<1>10. UpboundEvents =
         {[key |-> k, value |-> Max({Truncated(e.value) : e \in {e \in found : e.key = k}}),
           start |-> billing.cursor, end |-> WindowEnd] : k \in billed}
  BY <1>7, <1>9
<1> QED
  BY <1>6, <1>8, <1>10

\* The windows before the next one are those before this one, and this one.
LEMMA BilledGrows ==
  ASSUME UsageType, billing.start <= billing.cursor, billing.cursor < billing.end,
         (billing.cursor - billing.start) % billing.window = 0
  PROVE  Billed(billing.cursor + billing.window)
           = Billed(billing.cursor) \union Maxima(billing.cursor, WindowEnd)
<1> DEFINE c == billing.cursor
           this == <<c, WindowEnd>>
<1>1. /\ billing.end \in 0 .. Hours /\ billing.start \in 0 .. Hours /\ Hours \in Nat
      /\ c \in Nat /\ billing.window \in Nat \ {0}
      /\ WindowEnd \in 1 .. billing.end
      /\ WindowEnd = Min({c + billing.window, billing.end})
  BY WindowFacts, UsageAssumption DEF UsageType
<1>2. this \in Period /\ this[1] = c /\ this[2] = WindowEnd
  <2>1. this \in (0 .. Hours) \X (1 .. Hours)
    BY <1>1
  <2>2. c \in billing.start .. billing.end - 1
    BY <1>1
  <2> QED  BY <1>1, <2>1, <2>2 DEF Period
<1>3. ASSUME NEW w \in Period, w[1] < c + billing.window, ~(w[1] < c)
      PROVE  w = this
  <2>1. /\ w \in (0 .. Hours) \X (1 .. Hours)
        /\ w[1] \in billing.start .. billing.end - 1
        /\ (w[1] - billing.start) % billing.window = 0
        /\ w[2] = Min({w[1] + billing.window, billing.end})
    BY DEF Period
  <2> DEFINE a == c - billing.start
             b == w[1] - billing.start
  <2>2. /\ a \in Nat /\ b \in Nat /\ a <= b /\ b < a + billing.window
        /\ a % billing.window = 0 /\ b % billing.window = 0
    BY <1>1, <1>3, <2>1
  <2> HIDE DEF a, b
  <2>3. a = b
    BY <1>1, <2>2, MultiplesApart
  <2>4. w[1] = c
    BY <1>1, <2>1, <2>3 DEF a, b
  <2> QED  BY <1>1, <2>1, <2>4
<1>4. {w \in Period : w[1] < c + billing.window} = {w \in Period : w[1] < c} \union {this}
  <2>1. \A w \in Period : w[1] < c => w[1] < c + billing.window
    <3>1. \A w \in Period : w[1] \in 0 .. Hours
      BY DEF Period
    <3> QED  BY <1>1, <3>1
  <2>2. this[1] < c + billing.window
    BY <1>1, <1>2
  <2> HIDE DEF this
  <2> QED  BY <1>2, <1>3, <2>1, <2>2
<1> HIDE DEF this
<1> QED
  BY <1>2, <1>4 DEF Billed

LEMMA BilledEnds ==
  ASSUME UsageType, ~More
  PROVE  Billed(billing.cursor) = UNION {Maxima(w[1], w[2]) : w \in Period}
<1>1. \A w \in Period : w[1] \in billing.start .. billing.end - 1
  BY DEF Period
<1>2. billing.start \in Int /\ billing.end \in Int /\ billing.cursor \in Nat
  <2>1. /\ billing.start \in 0 .. Hours /\ billing.end \in 0 .. Hours
        /\ billing.cursor \in Nat
    BY DEF UsageType
  <2> QED  BY <2>1
<1>3. {w \in Period : w[1] < billing.cursor} = Period
  BY <1>1, <1>2 DEF More
<1> QED
  BY <1>3 DEF Billed

\* What was billed is a matter of the store and the period.
LEMMA BilledStays ==
  ASSUME UNCHANGED store, billing'.start = billing.start, billing'.end = billing.end,
         billing'.window = billing.window, NEW hour
  PROVE  Billed(hour)' = Billed(hour)
<1>1. Period' = Period
  BY DEF Period
<1>2. \A a, b : Maxima(a, b)' = Maxima(a, b)
  BY DEF Maxima, EventsIn, StoredAt
<1> QED
  BY <1>1, <1>2 DEF Billed

\* The hours of a window, whichever store is asked for them.
LEMMA HoursOfWindow ==
  ASSUME UsageType, More
  PROVE  \A q \in {Query, HourPrefixes} :
           q \in Seq(0 .. Hours) /\ Range(q) = billing.cursor .. WindowEnd - 1
<1> DEFINE c == billing.cursor
           n == WindowEnd - c
           found == {h \in 0 .. Hours : c <= h /\ h < WindowEnd}
           ordered == [i \in 1 .. n |-> c + i - 1]
<1>1. /\ c \in Nat /\ WindowEnd \in Nat /\ c < WindowEnd /\ WindowEnd <= Hours /\ Hours \in Nat
  <2>1. billing.end \in 0 .. Hours /\ c \in Nat /\ Hours \in Nat
    BY UsageAssumption DEF UsageType
  <2>2. WindowEnd \in 1 .. billing.end /\ c < WindowEnd
    BY WindowFacts DEF More
  <2> QED  BY <2>1, <2>2
<1>2. n \in Nat /\ n >= 1
  BY <1>1
<1>3. found = c .. WindowEnd - 1
  BY <1>1
<1>4. Cardinality(found) = n /\ IsFiniteSet(found)
  <2>1. c \in Int /\ WindowEnd - 1 \in Int
    BY <1>1
  <2> HIDE DEF c, found
  <2>2. /\ IsFiniteSet(c .. WindowEnd - 1)
        /\ Cardinality(c .. WindowEnd - 1) = IF c > WindowEnd - 1 THEN 0 ELSE WindowEnd - 1 - c + 1
    BY <2>1, FS_Interval
  <2> QED  BY <1>1, <1>3, <2>2
<1> HIDE DEF found
<1>5. \A i \in 1 .. n : c + i - 1 \in found
  BY <1>1, <1>3
<1>6. \A h \in found : h - c + 1 \in 1 .. n /\ h = c + (h - c + 1) - 1
  BY <1>1, <1>3
<1>7. Range(ordered) = found
  <2>1. \A h \in found : \E i \in DOMAIN ordered : h = ordered[i]
    BY <1>6
  <2>2. \A i \in DOMAIN ordered : ordered[i] \in found
    BY <1>5
  <2> HIDE DEF ordered
  <2> QED  BY <2>1, <2>2 DEF Range
<1>8. ordered \in [1 .. n -> found] /\ \A i, j \in DOMAIN ordered : i < j => ordered[i] < ordered[j]
  BY <1>1, <1>5
<1>9. found \subseteq 0 .. Hours
  BY DEF found
<1>10. HourPrefixes = ordered
  BY DEF HourPrefixes
<1>11. Query = CHOOSE q \in [1 .. n -> found] :
                 Range(q) = found /\ \A i, j \in DOMAIN q : i < j => q[i] < q[j]
  BY <1>4 DEF Query, found
<1> HIDE DEF ordered
<1>12. Query \in [1 .. n -> found] /\ Range(Query) = found
  BY <1>7, <1>8, <1>11
<1>13. \A q \in [1 .. n -> found] : q \in Seq(0 .. Hours)
  <2> SUFFICES ASSUME NEW q \in [1 .. n -> found] PROVE q \in Seq(0 .. Hours)
    OBVIOUS
  <2>1. q \in [1 .. n -> 0 .. Hours]
    BY <1>9
  <2> HIDE DEF n
  <2> QED  BY <1>2, <2>1, SeqDef
<1> QED
  BY <1>3, <1>7, <1>8, <1>10, <1>12, <1>13
-----------------------------------------------------------------------------
(* The steps *)

\* A step that leaves the period, the counts and the report alone.
LEMMA QuietReport ==
  ASSUME UsageInv, UsageType',
         UNCHANGED <<store, counts, buffer, report, unnoticed>>,
         billing'.start = billing.start, billing'.end = billing.end,
         billing'.window = billing.window, billing'.cursor = billing.cursor,
         billing'.step \in {billing.step, "failed", "panicked", "killed"},
         billing'.step = "reading" => billing.step = "reading" /\ \A e : Owed(e)' <=> Owed(e)
  PROVE  UsageInv'
<1>1. BilledInv'
  BY BilledStays DEF UsageInv, BilledInv
<1>2. ReportIsMaximum'
  <2>1. Period' = Period
    BY DEF Period
  <2>2. \A a, b : Maxima(a, b)' = Maxima(a, b)
    BY DEF Maxima, EventsIn, StoredAt
  <2> QED  BY <2>1, <2>2 DEF UsageInv, ReportIsMaximum
<1>3. CountInv'
  <2> SUFFICES ASSUME billing'.step = "reading" PROVE CountInv'
    BY DEF CountInv
  <2>1. WindowEnd' = WindowEnd
    BY DEF WindowEnd
  <2>2. \A h : StoredAt(h)' = StoredAt(h)
    BY DEF StoredAt
  <2>3. \A e : Owed(e)' <=> Owed(e)
    OBVIOUS
  <2>4. CountInv /\ billing.step = "reading"
    BY DEF UsageInv
  <2> QED  BY <2>1, <2>2, <2>3, <2>4 DEF CountInv
<1> QED
  BY <1>1, <1>2, <1>3 DEF UsageInv

\* An error, or a kill, leaves everything else as it is.
LEMMA StopStep ==
  ASSUME UsageInv, NEW step \in {"failed", "killed", "panicked"},
         billing' = [billing EXCEPT !.step = step], UsageType',
         UNCHANGED <<store, counts, buffer, report, unnoticed>>
  PROVE  UsageInv'
<1>1. /\ billing'.start = billing.start /\ billing'.end = billing.end
      /\ billing'.window = billing.window /\ billing'.cursor = billing.cursor
      /\ billing'.step = step
  BY DEF UsageInv, UsageType
<1> QED
  BY <1>1, QuietReport

LEMMA ValidateStep ==
  ASSUME UsageInv, NEW start \in 0 .. Hours, NEW end \in 0 .. Hours, NEW window \in Windows,
         ValidatePeriod(start, end, window)
  PROVE  UsageInv'
<1>1. /\ start \in Nat /\ end \in Nat /\ window \in Nat \ {0} /\ start < end
      /\ billing.step = "idle"
  <2>1. window \in Nat \ {0} /\ start < end /\ billing.step = "idle"
    BY UsageAssumption DEF ValidatePeriod
  <2>2. start \in Nat
    OBVIOUS
  <2>3. end \in Nat
    OBVIOUS
  <2> QED  BY <2>1, <2>2, <2>3
<1>2. UNCHANGED <<store, reader, counts, buffer, report, unnoticed>>
  BY DEF ValidatePeriod, Kept
<1>3. CASE billing' = NewWindowIterator(start, end, window)
  <2>1. /\ billing'.step = "created" /\ billing'.start = start /\ billing'.end = end
        /\ billing'.window = window /\ billing'.cursor = start
    BY <1>3 DEF NewWindowIterator
  <2>2. UsageType'
    BY <1>1, <1>2, <1>3 DEF UsageInv, UsageType, NewWindowIterator
  <2>3. Billed(start)' = {}
    <3>1. \A w \in Period' : w[1] \in start .. end - 1
      BY <2>1 DEF Period
    <3>2. {w \in Period' : w[1] < start} = {}
      BY <1>1, <3>1
    <3> QED  BY <3>2 DEF Billed
  <2>4. (start - start) % window = 0
    BY <1>1
  <2>5. BilledInv'
    BY <1>1, <1>2, <2>1, <2>3, <2>4 DEF UsageInv, BilledInv
  <2> QED  BY <2>1, <2>2, <2>5 DEF UsageInv, CountInv, ReportIsMaximum
<1>4. CASE billing' = [billing EXCEPT !.step = "refused"]
  <2>1. UsageType' /\ billing'.step = "refused"
    BY <1>2, <1>4 DEF UsageInv, UsageType
  <2> QED  BY <1>2, <2>1 DEF UsageInv, BilledInv, CountInv, ReportIsMaximum
<1> QED
  BY <1>3, <1>4 DEF ValidatePeriod

LEMMA CreateReportStep ==
  ASSUME UsageInv, CreateReport
  PROVE  UsageInv'
<1>1. UNCHANGED <<store, reader, counts, buffer, unnoticed>> /\ billing.step = "created"
  BY DEF CreateReport
<1>2. CASE Failed
  <2>1. UsageType'
    BY <1>1, <1>2 DEF Failed, UsageInv, UsageType
  <2>2. billing'.step = "failed"
    BY <1>2 DEF Failed, UsageInv, UsageType
  <2> QED  BY <2>1, <2>2 DEF UsageInv, BilledInv, CountInv, ReportIsMaximum
<1>3. CASE billing' = [billing EXCEPT !.step = "next"]
  <2>1. /\ billing'.start = billing.start /\ billing'.end = billing.end
        /\ billing'.window = billing.window /\ billing'.cursor = billing.cursor
        /\ billing'.step = "next" /\ UsageType'
    BY <1>1, <1>3 DEF UsageInv, UsageType
  <2>2. BilledInv'
    BY <1>1, <2>1, BilledStays DEF UsageInv, BilledInv
  <2> QED  BY <2>1, <2>2 DEF UsageInv, CountInv, ReportIsMaximum
<1> QED
  BY <1>2, <1>3 DEF CreateReport

LEMMA WindowStep ==
  ASSUME UsageInv, NextWindow
  PROVE  UsageInv'
<1>1. /\ billing.step = "next" /\ More
      /\ billing' = [billing EXCEPT !.step = "reading"]
      /\ counts' = NoCounts /\ UNCHANGED <<store, buffer, report, unnoticed>>
  BY DEF NextWindow
<1>2. PICK q \in {Query, HourPrefixes} : reader' = [NoReader EXCEPT !.hours = q]
  BY DEF NextWindow
<1>3. q \in Seq(0 .. Hours) /\ Range(q) = billing.cursor .. WindowEnd - 1
  BY <1>1, HoursOfWindow DEF UsageInv
<1>4. reader' = [hours |-> q, objects |-> <<>>, events |-> <<>>]
  BY <1>2 DEF NoReader
<1>5. /\ billing'.start = billing.start /\ billing'.end = billing.end
      /\ billing'.window = billing.window /\ billing'.cursor = billing.cursor
      /\ billing'.step = "reading"
  BY <1>1 DEF UsageInv, UsageType
<1>6. UsageType'
  <2>1. <<>> \in Seq(Seq(UsageEvent)) /\ <<>> \in Seq(UsageEvent)
    OBVIOUS
  <2>2. counts' \in [UsageKeys -> Nat]
    BY <1>1 DEF NoCounts
  <2>3. reader' \in [hours : Seq(0 .. Hours), objects : Seq(Seq(UsageEvent)), events : Seq(UsageEvent)]
    BY <1>3, <1>4, <2>1
  <2> QED  BY <1>1, <2>2, <2>3 DEF UsageInv, UsageType
<1>7. BilledInv'
  BY <1>1, <1>5, BilledStays DEF UsageInv, BilledInv
<1>8. CountInv'
  <2>1. WindowEnd' = WindowEnd
    BY <1>5 DEF WindowEnd
  <2>2. \A e : Owed(e)' <=> \E h \in billing.cursor .. WindowEnd - 1 : e \in StoredAt(h)'
    <3>1. Range(reader'.events) = {} /\ Range(reader'.objects) = {}
      BY <1>4, RangeOfEmpty
    <3>2. Range(reader'.hours) = billing.cursor .. WindowEnd - 1
      BY <1>3, <1>4
    <3> QED  BY <3>1, <3>2 DEF Owed
  <2>3. \A k \in UsageKeys : ~(counts'[k] > 0)
    BY <1>1 DEF NoCounts
  <2>4. billing'.cursor < billing'.end
    BY <1>1, <1>5 DEF More
  <2> QED  BY <1>5, <2>1, <2>2, <2>3, <2>4 DEF CountInv
<1> QED
  BY <1>5, <1>6, <1>7, <1>8 DEF UsageInv, ReportIsMaximum

LEMMA ListStep ==
  ASSUME UsageInv, ListNext,
         \/ UNCHANGED billing
         \/ \E step \in {"failed", "panicked"} : billing' = [billing EXCEPT !.step = step]
  PROVE  UsageInv'
<1> DEFINE h == Head(reader.hours)
<1>1. /\ billing.step = "reading"
      /\ reader.hours # <<>> /\ reader.objects = <<>> /\ reader.events = <<>>
      /\ reader' = [reader EXCEPT !.hours = Tail(@), !.objects = store.events[h]]
      /\ UNCHANGED <<store, counts, buffer, report, unnoticed>>
  BY DEF ListNext, Kept
<1>2. reader.hours \in Seq(0 .. Hours)
  BY DEF UsageInv, UsageType
<1>3. /\ h \in 0 .. Hours /\ Tail(reader.hours) \in Seq(0 .. Hours)
      /\ \A x : x \in Range(reader.hours) <=> x = h \/ x \in Range(Tail(reader.hours))
  BY <1>1, <1>2, RangeOfTail
<1>4. store.events[h] \in Seq(Seq(UsageEvent))
  BY <1>3, StoredFacts DEF UsageInv
<1> HIDE DEF h
<1>5. /\ reader'.hours = Tail(reader.hours) /\ reader'.objects = store.events[h]
      /\ reader'.events = <<>>
      /\ reader' \in [hours : Seq(0 .. Hours), objects : Seq(Seq(UsageEvent)), events : Seq(UsageEvent)]
  BY <1>1, <1>3, <1>4 DEF UsageInv, UsageType
<1>6. UsageType'
  BY <1>1, <1>5 DEF UsageInv, UsageType
<1>7. \A e : Owed(e)' <=> Owed(e)
  <2>1. \A g : StoredAt(g)' = StoredAt(g)
    BY <1>1 DEF StoredAt
  <2>2. \A e : e \in StoredAt(h) <=> \E o \in Range(store.events[h]) : e \in Range(o)
    BY DEF StoredAt
  <2> QED  BY <1>1, <1>3, <1>5, <2>1, <2>2, RangeOfEmpty DEF Owed
<1>8. CASE UNCHANGED billing
  BY <1>1, <1>6, <1>7, <1>8, QuietReport
<1>9. ASSUME NEW step \in {"failed", "panicked"}, billing' = [billing EXCEPT !.step = step]
      PROVE  UsageInv'
  BY <1>1, <1>6, <1>9, StopStep
<1> QED
  BY <1>8, <1>9

LEMMA OpenStep ==
  ASSUME UsageInv, OpenNext
  PROVE  UsageInv'
<1> DEFINE o == Head(reader.objects)
<1>1. /\ billing.step = "reading" /\ reader.objects # <<>> /\ reader.events = <<>>
      /\ reader' = [reader EXCEPT !.objects = Tail(@), !.events = o]
      /\ UNCHANGED <<store, counts, buffer, report, unnoticed>>
      /\ UNCHANGED billing \/ Failed
  BY DEF OpenNext, Kept
<1>2. reader.objects \in Seq(Seq(UsageEvent))
  BY DEF UsageInv, UsageType
<1>3. /\ o \in Seq(UsageEvent) /\ Tail(reader.objects) \in Seq(Seq(UsageEvent))
      /\ \A x : x \in Range(reader.objects) <=> x = o \/ x \in Range(Tail(reader.objects))
  BY <1>1, <1>2, RangeOfTail
<1> HIDE DEF o
<1>4. /\ reader'.hours = reader.hours /\ reader'.objects = Tail(reader.objects)
      /\ reader'.events = o
      /\ reader' \in [hours : Seq(0 .. Hours), objects : Seq(Seq(UsageEvent)), events : Seq(UsageEvent)]
  BY <1>1, <1>3 DEF UsageInv, UsageType
<1>5. UsageType'
  BY <1>1, <1>4 DEF UsageInv, UsageType, Failed
<1>6. \A e : Owed(e)' <=> Owed(e)
  <2>1. \A g : StoredAt(g)' = StoredAt(g)
    BY <1>1 DEF StoredAt
  <2> QED  BY <1>1, <1>3, <1>4, <2>1, RangeOfEmpty DEF Owed
<1>7. CASE UNCHANGED billing
  BY <1>1, <1>5, <1>6, <1>7, QuietReport
<1>8. CASE Failed
  BY <1>1, <1>5, <1>8, StopStep DEF Failed
<1> QED
  BY <1>1, <1>7, <1>8

Counted(event) == event.key # "" /\ Add(event)

\* A count grows to the value of an event of its key, or is no less already.
LEMMA AddStep ==
  ASSUME UsageInv, DecodeEvent, Counted(Head(reader.events)), UNCHANGED billing
  PROVE  UsageInv'
<1> DEFINE event == Head(reader.events)
<1>1. /\ billing.step = "reading" /\ reader.events # <<>>
      /\ reader' = [reader EXCEPT !.events = Tail(@)]
      /\ UNCHANGED <<store, buffer, report, unnoticed>>
  BY DEF DecodeEvent
<1>2. reader.events \in Seq(UsageEvent)
  BY DEF UsageInv, UsageType
<1>3. /\ event \in UsageEvent /\ Tail(reader.events) \in Seq(UsageEvent)
      /\ \A x : x \in Range(reader.events) <=> x = event \/ x \in Range(Tail(reader.events))
  BY <1>1, <1>2, RangeOfTail
<1>4. /\ event.key # ""
      /\ counts' = [counts EXCEPT ![event.key] =
                       IF Truncated(event.value) > counts[event.key] THEN Truncated(event.value)
                       ELSE counts[event.key]]
  BY DEF Counted, Add
<1> HIDE DEF event
<1>5. event.key \in UsageKeys /\ Truncated(event.value) \in Int
  BY <1>3, <1>4, TruncatedIsInt DEF UsageEvent
<1>6. counts \in [UsageKeys -> Nat]
  BY DEF UsageInv, UsageType
<1>7. /\ counts' \in [UsageKeys -> Nat]
      /\ \A k \in UsageKeys : counts[k] <= counts'[k]
      /\ Truncated(event.value) <= counts'[event.key]
      /\ \A k \in UsageKeys : counts'[k] = counts[k] \/ (k = event.key /\ counts'[k] = Truncated(event.value))
  <2> DEFINE new == IF Truncated(event.value) > counts[event.key] THEN Truncated(event.value) ELSE counts[event.key]
  <2>1. new \in Nat /\ counts[event.key] <= new /\ Truncated(event.value) <= new
        /\ new \in {Truncated(event.value), counts[event.key]}
    <3>1. PICK v \in Int, n \in Nat : v = Truncated(event.value) /\ n = counts[event.key]
      BY <1>5, <1>6
    <3>2. new = IF v > n THEN v ELSE n
      BY <3>1
    <3> HIDE DEF new
    <3>3. new \in Nat /\ n <= new /\ v <= new /\ new \in {v, n}
      BY <3>2
    <3> QED  BY <3>1, <3>3
  <2>2. counts' = [counts EXCEPT ![event.key] = new]
    BY <1>4
  <2> HIDE DEF new
  <2>3. \A k \in UsageKeys : counts'[k] = IF k = event.key THEN new ELSE counts[k]
    BY <1>6, <2>2
  <2>4. counts' \in [UsageKeys -> Nat]
    BY <1>5, <1>6, <2>1, <2>2
  <2>5. ASSUME NEW k \in UsageKeys
        PROVE  counts[k] <= counts[k]
    <3>1. PICK n \in Nat : n = counts[k]
      BY <1>6
    <3>2. n <= n
      OBVIOUS
    <3> QED  BY <3>1, <3>2
  <2> QED  BY <1>5, <2>1, <2>3, <2>4, <2>5
<1>8. /\ reader'.hours = reader.hours /\ reader'.objects = reader.objects
      /\ reader'.events = Tail(reader.events)
      /\ reader' \in [hours : Seq(0 .. Hours), objects : Seq(Seq(UsageEvent)), events : Seq(UsageEvent)]
  BY <1>1, <1>3 DEF UsageInv, UsageType
<1>9. UsageType'
  BY <1>1, <1>7, <1>8 DEF UsageInv, UsageType
<1>10. \A g : StoredAt(g)' = StoredAt(g)
  BY <1>1 DEF StoredAt
<1>11. \A e : Owed(e) <=> e = event \/ Owed(e)'
  BY <1>1, <1>3, <1>8, <1>10 DEF Owed
<1>12. BilledInv'
  BY <1>1, BilledStays DEF UsageInv, BilledInv
<1>13. CountInv'
  <2> DEFINE window == billing.cursor .. WindowEnd - 1
  <2>1. /\ billing.cursor < billing.end
        /\ \A e : Owed(e) => \E h \in window : e \in StoredAt(h)
        /\ ~unnoticed => \A h \in window : \A e \in StoredAt(h) :
                             (e.key # "" /\ Truncated(e.value) <= counts[e.key]) \/ Owed(e)
        /\ \A k \in UsageKeys : counts[k] > 0 =>
             \E h \in window : \E e \in StoredAt(h) : e.key = k /\ Truncated(e.value) = counts[k]
    BY <1>1 DEF UsageInv, CountInv
  <2>2. WindowEnd' = WindowEnd
    BY DEF WindowEnd
  <2>3. window \subseteq 0 .. Hours
    BY <2>1, WindowFacts DEF UsageInv
  <2>4. \A h \in window : StoredAt(h) \subseteq UsageEvent
    BY <2>3, StoredFacts DEF UsageInv
  <2> HIDE DEF window
  <2>5. PICK g \in window : event \in StoredAt(g)
    BY <1>11, <2>1
  <2>6. ASSUME ~unnoticed, NEW h \in window, NEW e \in StoredAt(h)
        PROVE  (e.key # "" /\ Truncated(e.value) <= counts'[e.key]) \/ Owed(e)'
    <3>1. CASE Owed(e)
      BY <1>4, <1>7, <1>11, <3>1
    <3>2. CASE e.key # "" /\ Truncated(e.value) <= counts[e.key]
      <4>1. e.key \in UsageKeys /\ Truncated(e.value) \in Int
        BY <2>4, <3>2, TruncatedIsInt DEF UsageEvent
      <4>2. counts[e.key] \in Nat /\ counts'[e.key] \in Nat /\ counts[e.key] <= counts'[e.key]
        BY <1>6, <1>7, <4>1
      <4>3. Truncated(e.value) <= counts'[e.key]
        <5>1. PICK v \in Int, m \in Nat, n \in Nat :
                v = Truncated(e.value) /\ m = counts[e.key] /\ n = counts'[e.key]
          BY <4>1, <4>2
        <5>2. v <= m /\ m <= n
          BY <3>2, <4>2, <5>1
        <5>3. v <= n
          BY <5>2
        <5> QED  BY <5>1, <5>3
      <4> QED  BY <3>2, <4>3
    <3> QED  BY <2>1, <2>6, <3>1, <3>2
  <2>7. ASSUME NEW k \in UsageKeys, counts'[k] > 0
        PROVE  \E h \in window : \E e \in StoredAt(h) : e.key = k /\ Truncated(e.value) = counts'[k]
    <3>1. CASE counts'[k] = counts[k]
      BY <2>1, <2>7, <3>1
    <3>2. CASE k = event.key /\ counts'[k] = Truncated(event.value)
      BY <1>5, <2>5, <3>2
    <3> QED  BY <1>7, <3>1, <3>2
  <2> QED  BY <1>1, <1>10, <1>11, <2>1, <2>2, <2>6, <2>7 DEF CountInv, window
<1> QED
  BY <1>1, <1>9, <1>12, <1>13 DEF UsageInv, ReportIsMaximum

LEMMA DecodeStep ==
  ASSUME UsageInv, DecodeEvent
  PROVE  UsageInv'
<1>1. CASE Head(reader.events).key # "" /\ Add(Head(reader.events)) /\ UNCHANGED billing
  BY <1>1, AddStep DEF Counted
<1>2. CASE Failed /\ UNCHANGED counts
  <2>1. UNCHANGED <<store, counts, buffer, report, unnoticed>>
    BY <1>2 DEF DecodeEvent
  <2>2. reader.events \in Seq(UsageEvent) /\ reader.events # <<>>
    BY DEF DecodeEvent, UsageInv, UsageType
  <2>3. Tail(reader.events) \in Seq(UsageEvent)
    BY <2>2, RangeOfTail
  <2>4. UsageType'
    BY <1>2, <2>1, <2>3 DEF DecodeEvent, Failed, UsageInv, UsageType
  <2> QED  BY <1>2, <2>1, <2>4, StopStep DEF Failed
<1> QED
  BY <1>1, <1>2 DEF DecodeEvent

LEMMA EndEarlyStep ==
  ASSUME UsageInv, EndEarly
  PROVE  UsageInv'
<1>1. /\ billing.step = "reading" /\ unnoticed' = TRUE
      /\ reader' = [reader EXCEPT !.events = <<>>]
      /\ UNCHANGED <<store, billing, counts, buffer, report>>
  BY DEF EndEarly
<1>2. <<>> \in Seq(UsageEvent)
  OBVIOUS
<1>3. /\ reader'.hours = reader.hours /\ reader'.objects = reader.objects
      /\ reader'.events = <<>>
      /\ reader' \in [hours : Seq(0 .. Hours), objects : Seq(Seq(UsageEvent)), events : Seq(UsageEvent)]
  BY <1>1, <1>2 DEF UsageInv, UsageType
<1>4. UsageType'
  BY <1>1, <1>3 DEF UsageInv, UsageType
<1>5. \A g : StoredAt(g)' = StoredAt(g)
  BY <1>1 DEF StoredAt
<1>6. \A e : Owed(e)' => Owed(e)
  BY <1>1, <1>3, <1>5, RangeOfEmpty DEF Owed
<1>7. WindowEnd' = WindowEnd
  BY <1>1 DEF WindowEnd
<1>8. CountInv'
  BY <1>1, <1>5, <1>6, <1>7 DEF UsageInv, CountInv
<1>9. BilledInv'
  BY <1>1 DEF UsageInv, BilledInv
<1> QED
  BY <1>1, <1>4, <1>8, <1>9 DEF UsageInv, ReportIsMaximum

LEMMA EndWindowStep ==
  ASSUME UsageInv, EndWindow
  PROVE  UsageInv'
<1>1. billing.step = "reading" /\ reader = NoReader
      /\ UNCHANGED <<store, reader, counts, report, unnoticed>>
  BY DEF EndWindow
<1>2. CASE /\ buffer' = buffer \union UpboundEvents
           /\ billing' = [billing EXCEPT !.step = "next", !.cursor = @ + billing.window]
  <2>1. /\ billing.cursor \in Nat /\ billing.window \in Nat \ {0}
        /\ billing.start \in Nat /\ billing.start <= billing.cursor
        /\ billing.start < billing.end
        /\ billing.cursor < billing.end
        /\ (billing.cursor - billing.start) % billing.window = 0
        /\ ~unnoticed => buffer = Billed(billing.cursor)
    <3>1. /\ billing.cursor \in Nat /\ billing.window \in Nat \ {0}
          /\ billing.start \in 0 .. Hours
      BY DEF UsageInv, UsageType
    <3>2. billing.start \in Nat
      BY <3>1
    <3>3. /\ billing.start <= billing.cursor /\ billing.start < billing.end
          /\ (billing.cursor - billing.start) % billing.window = 0
          /\ ~unnoticed => buffer = Billed(billing.cursor)
      BY <1>1 DEF UsageInv, BilledInv
    <3>4. billing.cursor < billing.end
      BY <1>1 DEF UsageInv, CountInv
    <3> QED  BY <3>1, <3>2, <3>3, <3>4
  <2>2. /\ billing'.start = billing.start /\ billing'.end = billing.end
        /\ billing'.window = billing.window
        /\ billing'.cursor = billing.cursor + billing.window
        /\ billing'.step = "next"
    BY <1>2 DEF UsageInv, UsageType
  <2>3. UsageType'
    <3>1. billing.cursor + billing.window \in Nat
      BY <2>1
    <3> QED  BY <1>1, <1>2, <3>1 DEF UsageInv, UsageType
  <2>4. (billing'.cursor - billing'.start) % billing'.window = 0
    <3> DEFINE a == billing.cursor - billing.start
    <3>1. a \in Nat /\ a % billing.window = 0
      BY <2>1
    <3>2. (a + billing.window) % billing.window = 0
      BY <2>1, <3>1, NextMultiple
    <3>3. billing'.cursor - billing'.start = a + billing.window
      BY <2>1, <2>2
    <3> QED  BY <2>2, <3>2, <3>3
  <2>5. billing'.start <= billing'.cursor
    BY <2>1, <2>2
  <2>6. ~unnoticed => buffer' = Billed(billing.cursor)'
    <3> SUFFICES ASSUME ~unnoticed PROVE buffer' = Billed(billing.cursor)'
      OBVIOUS
    <3>0. PICK next \in Nat : next = billing.cursor + billing.window
      BY <2>1
    <3>1. UpboundEvents = Maxima(billing.cursor, WindowEnd)
      BY <1>1, WindowIsMaximum
    <3>2. Billed(billing.cursor + billing.window)
            = Billed(billing.cursor) \union Maxima(billing.cursor, WindowEnd)
      BY <2>1, BilledGrows DEF UsageInv
    <3>3. Billed(next)' = Billed(next)
      BY <1>1, <2>2, BilledStays
    <3>4. Billed(billing.cursor)' = Billed(next)'
      BY <2>2, <3>0 DEF Billed
    <3>5. Billed(next) = buffer \union UpboundEvents
      BY <2>1, <3>0, <3>1, <3>2
    <3> QED  BY <1>2, <3>3, <3>4, <3>5
  <2>7. BilledInv'
    BY <1>1, <2>1, <2>2, <2>4, <2>5, <2>6 DEF BilledInv
  <2> QED  BY <2>2, <2>3, <2>7 DEF UsageInv, CountInv, ReportIsMaximum
<1>3. CASE Failed /\ UNCHANGED buffer
  <2>1. UsageType'
    BY <1>1, <1>3 DEF Failed, UsageInv, UsageType
  <2> QED  BY <1>1, <1>3, <2>1, StopStep DEF Failed
<1> QED
  BY <1>2, <1>3 DEF EndWindow

LEMMA CloseStep ==
  ASSUME UsageInv, CloseReport
  PROVE  UsageInv'
<1>1. billing.step = "next" /\ ~More /\ UNCHANGED <<store, reader, counts, buffer>>
  BY DEF CloseReport
<1>2. CASE /\ billing' = [billing EXCEPT !.step = "saved"]
           /\ \/ report' = buffer /\ UNCHANGED unnoticed
              \/ report' = "partial" /\ unnoticed' = TRUE
  <2>1. /\ billing'.start = billing.start /\ billing'.end = billing.end
        /\ billing'.window = billing.window /\ billing'.cursor = billing.cursor
        /\ billing'.step = "saved" /\ UsageType'
    BY <1>1, <1>2 DEF UsageInv, UsageType
  <2>2. ~unnoticed => buffer = UNION {Maxima(w[1], w[2]) : w \in Period}
    BY <1>1, BilledEnds DEF UsageInv, BilledInv
  <2>3. Period' = Period
    BY <2>1 DEF Period
  <2>4. \A a, b : Maxima(a, b)' = Maxima(a, b)
    BY <1>1 DEF Maxima, EventsIn, StoredAt
  <2>5. ReportIsMaximum'
    BY <1>1, <1>2, <2>1, <2>2, <2>3, <2>4 DEF ReportIsMaximum
  <2> QED  BY <2>1, <2>5 DEF UsageInv, BilledInv, CountInv
<1>3. CASE Failed /\ UNCHANGED <<report, unnoticed>>
  <2>1. UsageType'
    BY <1>1, <1>3 DEF Failed, UsageInv, UsageType
  <2> QED  BY <1>1, <1>3, <2>1, StopStep DEF Failed
<1> QED
  BY <1>2, <1>3 DEF CloseReport

LEMMA UsageBegins == UsageInit => UsageInv
<1> SUFFICES ASSUME UsageInit PROVE UsageInv
  OBVIOUS
<1>1. <<>> \in Seq(0 .. Hours) /\ <<>> \in Seq(Seq(UsageEvent)) /\ <<>> \in Seq(UsageEvent)
  OBVIOUS
<1>2. 0 \in 0 .. Hours
  <2>1. Hours \in Nat
    BY UsageAssumption
  <2> QED  BY <2>1
<1>3. reader \in [hours : Seq(0 .. Hours), objects : Seq(Seq(UsageEvent)), events : Seq(UsageEvent)]
  BY <1>1 DEF UsageInit, NoReader
<1>4. counts \in [UsageKeys -> Nat] /\ unnoticed \in BOOLEAN
  BY DEF UsageInit, NoCounts
<1>5. /\ billing.step = "idle" /\ billing.start = 0 /\ billing.end = 0
      /\ billing.window = 1 /\ billing.cursor = 0
      /\ billing = [step |-> billing.step, start |-> billing.start, end |-> billing.end,
                    window |-> billing.window, cursor |-> billing.cursor]
  BY DEF UsageInit
<1>6. UsageType
  BY <1>2, <1>3, <1>4, <1>5 DEF UsageInit, UsageType
<1> QED
  BY <1>6 DEF UsageInit, UsageInv, BilledInv, CountInv, ReportIsMaximum

LEMMA UsageStep == UsageInv /\ [UsageNext]_usageVars => UsageInv'
<1> SUFFICES ASSUME UsageInv, [UsageNext]_usageVars PROVE UsageInv'
  OBVIOUS
<1>1. ASSUME NEW start \in 0 .. Hours, NEW end \in 0 .. Hours, NEW window \in Windows,
             ValidatePeriod(start, end, window)
      PROVE  UsageInv'
  BY <1>1, ValidateStep
<1>2. CASE CreateReport
  BY <1>2, CreateReportStep
<1>3. CASE NextWindow
  BY <1>3, WindowStep
<1>4. CASE ListObjectsV2 \/ ListBlobs
  BY <1>4, ListStep DEF ListObjectsV2, ListBlobs, Failed
<1>5. CASE QueryObjects
  BY <1>5, ListStep DEF QueryObjects
<1>6. CASE GetObject \/ DownloadStream \/ NewObjectReader
  BY <1>6, OpenStep DEF GetObject, DownloadStream, NewObjectReader
<1>7. CASE DecodeEvent
  BY <1>7, DecodeStep
<1>8. CASE EndEarly
  BY <1>8, EndEarlyStep
<1>9. CASE EndWindow
  BY <1>9, EndWindowStep
<1>10. CASE CloseReport
  BY <1>10, CloseStep
<1>11. CASE CleanupOnError
  <2>1. UsageType' /\ billing'.step = "cleaned"
    BY <1>11 DEF CleanupOnError, UsageInv, UsageType
  <2> QED  BY <2>1 DEF UsageInv, BilledInv, CountInv, ReportIsMaximum
<1>12. CASE KillExport
  <2>1. UsageType'
    BY <1>12 DEF KillExport, Kept, UsageInv, UsageType
  <2> QED  BY <1>12, <2>1, StopStep DEF KillExport, Kept
<1>13. CASE UNCHANGED usageVars
  <2>1. /\ UNCHANGED <<store, counts, buffer, report, unnoticed>> /\ UNCHANGED billing
        /\ UNCHANGED reader
    BY <1>13 DEF usageVars
  <2>2. UsageType'
    BY <2>1 DEF UsageInv, UsageType
  <2>3. \A e : Owed(e)' <=> Owed(e)
    BY <2>1 DEF Owed, StoredAt
  <2> QED  BY <2>1, <2>2, <2>3, QuietReport
<1> QED
  BY <1>1, <1>2, <1>3, <1>4, <1>5, <1>6, <1>7, <1>8, <1>9, <1>10, <1>11, <1>12, <1>13 DEF UsageNext

\* For any number of hours, length of window, keys and stored objects: a
\* report announced as saved bills every hour of its period in one window and
\* each key with its largest count there (report.go,
\* MaxResourceCountPerGVKPerMXP), and an error leaves no report (export.go).
THEOREM ReportsAreMaximal == UsageSpec => []ReportIsMaximum
<1>1. UsageInv => ReportIsMaximum
  BY DEF UsageInv
<1> QED
  BY <1>1, UsageBegins, UsageStep, PTL DEF UsageSpec
=============================================================================
