---------------------------- MODULE HelmRelease ----------------------------
(***************************************************************************)
(* The Helm release of one chart as internal/install/helm.Installer sees   *)
(* and changes it.  A release is the last two revisions of its history     *)
(* (what each one runs) and the status of the last one: that is all        *)
(* Install, Upgrade, Rollback and Uninstall read.  Each operator below is  *)
(* the set of releases one call may leave behind, with the error it        *)
(* returns; rendering, waiting and the chart cache are the nondeterminism  *)
(* between them.                                                           *)
(***************************************************************************)

CONSTANT None      \* the absent value: no revision, no object, no name

Statuses == {"none", "deployed", "failed", "pending", "uninstalling"}

\* driver.ErrReleaseNotFound: nothing is installed.
NoRelease == [cur |-> None, prev |-> None, status |-> "none"]

\* Releases whose revisions run one of the values in S.
Releases(S) ==
  [cur : S \cup {None}, prev : S \cup {None}, status : Statuses]

Deployed(cur, prev) == [cur |-> cur, prev |-> prev, status |-> "deployed"]
Failed(cur, prev)   == [cur |-> cur, prev |-> prev, status |-> "failed"]
Pending(cur, prev)  == [cur |-> cur, prev |-> prev, status |-> "pending"]

\* One call: the release it leaves, whether it returns an error, and whether
\* that takes something outside the program to break.
Succeed(r) == [rel |-> r, err |-> FALSE, fault |-> FALSE]
Refuse(r)  == [rel |-> r, err |-> TRUE, fault |-> FALSE]
Break(r)   == [rel |-> r, err |-> TRUE, fault |-> TRUE]

\* helm's rollback to the revision before the last one.  A release with a
\* single revision has nothing to go back to: the call fails and changes
\* nothing.
RolledBack(r) ==
  IF r.prev = None THEN r ELSE Deployed(r.prev, r.cur)

\* The same, which may also fail: before its revision is written, or after.
AfterRollback(r) ==
  {r, RolledBack(r)} \cup (IF r.prev = None THEN {} ELSE {Failed(r.prev, r.cur)})

\* helm refuses to upgrade a release with an operation pending, or whose last
\* revision an uninstall has marked and no other one is deployed.  One is if
\* the upgrade to the last revision failed; the model does not tell, so with
\* a second revision both may happen.
Refused(r)    == r.status \in {"pending", "uninstalling"}
Upgradable(r) == \/ r.status \in {"deployed", "failed"}
                 \/ r.status = "uninstalling" /\ r.prev # None

\* Installer.Install of a chart that will run v: it refuses an installed
\* release, the pull may fail, and a release whose resources do not become
\* ready stays behind as a failed one (nothing removes it).
Install(r, v) ==
  IF r # NoRelease
    THEN {Refuse(r)}
    ELSE {Succeed(Deployed(v, None)), Break(r), Break(Failed(v, None))}

\* Installer.Upgrade with RollbackOnError: whether helm refuses, fails before
\* it writes a revision or after, the rollback goes one revision back from
\* the last one, unless it fails too.
Upgrade(r, v) ==
  (IF Refused(r)
     THEN {Refuse(RolledBack(r))} \cup {Break(x) : x \in AfterRollback(r)}
     ELSE {})
  \cup
  (IF Upgradable(r)
     THEN {Succeed(Deployed(v, r.cur))} \cup
          {Break(x) : x \in AfterRollback(r) \cup AfterRollback(Failed(v, r.cur))}
     ELSE {})

\* What the process leaves when it is killed inside Install or Upgrade: helm
\* has written the revision of the upgrade or of the rollback and marked it
\* pending, or the rollback of the failed upgrade has not begun.
Interrupted(r, v) ==
  {r}
  \cup (IF r = NoRelease \/ Upgradable(r) THEN {Pending(v, r.cur)} ELSE {})
  \cup (IF r.prev # None THEN {Pending(r.prev, r.cur)} ELSE {})
  \cup (IF Upgradable(r) THEN {Failed(v, r.cur), Pending(r.cur, v)} ELSE {})

\* What an uninstall that fails or is killed may leave: helm marks the last
\* revision, deletes the resources, then the revisions, the oldest first.
HalfGone(r) ==
  IF r = NoRelease
    THEN {r}
    ELSE {r, [r EXCEPT !.status = "uninstalling"],
          [cur |-> r.cur, prev |-> None, status |-> "uninstalling"], NoRelease}

\* Installer.Uninstall: what is not installed cannot be uninstalled
\* (driver.ErrReleaseNotFound).
Uninstall(r) ==
  {IF r = NoRelease THEN Refuse(r) ELSE Succeed(NoRelease)}
  \cup {Break(x) : x \in HalfGone(r)}

=============================================================================
