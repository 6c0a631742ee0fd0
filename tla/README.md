# A TLA+ model of `up`

`up` is the command line tool of Upbound. Most of its commands are sequences of
calls to systems it does not control: the Upbound console, a Kubernetes
cluster, helm, an OCI registry, a kubeconfig other tools edit too. What is hard
about it is what happens when such a sequence stops half way, is run again, or
meets what an earlier command or another program left. This directory models
those sequences in TLA+, checks them with TLC and proves with TLAPS, for every
value of the constants, nearly all of the safety properties that TLC checks.

All paths below are relative to the repository.

## 1. The system

| Component | State it keeps | Operations | Talks to | Modelled |
|---|---|---|---|---|
| space connect, `cmd/up/space/connect.go` | ConfigMap `space-connect` (Space, robot, token), Secret `space-token`, release `agent`; its undo stack in memory | create or resume the ConfigMap; create, take over or replace the Space; find or create the robot; replace its token; write the Secret; install or upgrade the agent; undo | console (Spaces, robots, tokens), Space cluster, helm | `SpaceConnect` |
| space disconnect, `cmd/up/space/disconect.go` | the same objects | delete Space, robot, ConfigMap, release, Secret; without a ConfigMap; without a cluster | the same | `SpaceConnect` |
| undo, `internal/undo` | registered functions of one command | register, replay in reverse | its caller | in `SpaceConnect` |
| helm installer, `internal/install/helm` | the release history (in the cluster), a chart cache on disk | get version, install, upgrade with rollback, roll back, uninstall; the alternate chart | helm, Kubernetes | `HelmRelease`, `SpaceInstall`; not the chart cache |
| space init / upgrade / destroy, uxp, `cmd/up/{space,uxp}` | releases, what prerequisites bring, the namespace, the pull secret | install in order, upgrade with rollback, remove | helm | `SpaceInstall` |
| ctx, `cmd/up/ctx/{cmd,writer,kubectx,actions}.go` | kubeconfig, last-context file | switch, switch back | kubectl and every other kubeconfig user | `Kubeconfig`, `KubeContext` |
| ctx navigation, `cmd/up/ctx/{list,navigation}.go` | the list model of one session, state changes in flight | select, back, accept, quit; asynchronous results; a path argument | Spaces API | `CtxNavigation` |
| migration export, `pkg/migration/exporter` | paused annotations in the cluster, a temporary directory, the archive | pause, scan, fetch, persist, archive | a control plane | `ControlPlaneMigration` |
| migration import, `pkg/migration/importer` | the unpacked archive in memory, the target control plane | preflight, unarchive, apply in phases, wait, unpause | a control plane | `ControlPlaneMigration` |
| package cache, `internal/xpkg/dep/cache` | a directory tree of entries, watchers' channels | Get, Store, Versions, Clean, Watch | other `up` processes | `PackageCache`, `LanguageServer` |
| dependency manager, `internal/xpkg/dep/manager` | accumulated packages | AddAll, Resolve, View | cache, registry | `LanguageServer` |
| language server, `internal/xpls`, `internal/xpkg/{snapshot,workspace}` | one snapshot shared by handlers and watchers | Initialize, DidOpen, DidChange, DidSave, DidChangeWatchedFiles, rebuild on cache events | editor, cache | `LanguageServer` |
| xpkg batch and push, `cmd/up/xpkg/{batch,push}.go` | goroutines per service and per image, the slots and results channels, package files, tags and manifests in the registry | build, store, push with retry, collect errors | registry | `BatchPublish` |
| configuration, profiles, login, `internal/config`, `cmd/up/{login,profile}` | `~/.up/config.json`, sessions, the callback server | read, change, rewrite; log in and out | other `up` processes, the browser | `Configuration`, `WebLogin` |
| usage and billing export, `internal/usage`, `cmd/up/space/billing` | windows over a billing period, a report file | iterate, read, aggregate, write, remove on error | object stores | `UsageReport` |
| robots, teams, members, permissions, `cmd/up/{robot,team,organization,repository}` | none; the organization in the console | find by name, then make, delete, join, leave, grant, revoke | console | `ConsoleCommands` |
| trace and query, `cmd/up/{trace,query}` | the tree on the screen, two pointers to what is asked | poll, merge, ask for something else | Spaces query API | `Trace` |
| control plane packages, `cmd/up/controlplane/pkg`, `internal/kube/watch.go` | a package in the control plane, a watch of its kind | create, watch until healthy or closed | Kubernetes, the package manager | `PackageInstall` |
| space mirror, `cmd/up/space/mirror` | a directory of tarballs, a registry | find what a version needs, save or copy it | OCI registries | `SpaceMirror` |
| the rest | none of their own | one request each, a transformation of files, or a read-only view | | no, see section 5 |

How they interact: the commands share no memory; they meet in the objects they
read and write. connect and disconnect share the three cluster objects and the
console; `up ctx` processes share the kubeconfig with each other and with
kubectl; the language server and `up xpkg dep` share the package cache; all
commands share the configuration file. Within one process there are callbacks
(undo functions), goroutines (batch, language server, usage readers) and the
message loop of the interactive list.

What makes them correct:

* connect: success means a usable connection whatever came before; failure
  takes back what this command made and nothing else; running it again works.
* disconnect: success means that nothing is left on the cluster and that the
  recorded Space and robot are gone; other clusters' Spaces are never touched.
* ctx: a switch arrives, `-` leads back, nobody else's context moves, and a
  kill between the two writes loses nothing.
* migration: an export that succeeds has all that was there throughout; an
  import that succeeds has applied what the archive has, in order, and let it
  go last. (A failed export leaves resources paused and an archive cut short.)
* cache: what a command says it has added is there whole, unless a command was
  killed at the entry or two wrote it. (The others read such an entry as it is.)
* batch: no tag refers to what is not there, and the result says who failed.
* language server: with nothing left to do it has caught up with cache, files
  and document, and the diagnostics with it.
* Space releases: ready means deployed; no version goes down unasked.
* configuration: one command at a time does what it says; several that meet may
  lose changes, and never leave a default profile that does not exist.
* login: a finished login ends.
* billing: every hour is billed in one window, with the largest count.
* console: what is deleted is what was found and meant.
* navigation and trace: what is on the screen belongs together, and what was
  said was done.

The hazards behind these, each at its line, are listed in `PROJECT.json`.

## 2. Modules

| Module | What it is |
|---|---|
| `HelmRelease` | one release as `Installer` sees it: each call is the set of releases it may leave, with its error |
| `SpaceLink` | abstract: the Space, if any, the cluster is usably connected as, and what the two commands promise about it |
| `SpaceConnect` | connect and disconnect, one action per remote call |
| `SpaceInstall` | `space init`, `upgrade`, `destroy` and `uxp` over the releases of one cluster |
| `Kubeconfig` | the pure functions of `up ctx` on one kubeconfig |
| `KubeContext` | `up ctx` processes, kubectl, and the two files |
| `CtxNavigation` | the interactive list of `up ctx`, and the walk along a path |
| `BatchPublish` | `up xpkg batch`: the main goroutine, one per service and one per image, the channels, the registry |
| `ControlPlaneMigration` | export, archive and import, between two control planes that change |
| `PackageCache` | data and operators of the cache of packages |
| `LanguageServer` | `up xpkg dep` and the language server over that cache, the registry, the editor |
| `Configuration` | commands that read and rewrite the configuration file |
| `WebLogin` | the callback server of `up login`, its handlers and channels |
| `ConsoleCommands` | commands that change an organization by name |
| `UsageReport` | a billing export, from the period to the file |
| `Trace` | the poll, the tree and what is asked for |
| `PackageInstall` | `up controlplane provider install` and `configuration install`, their watches, the API server |
| `SpaceMirror` | `up space mirror` |
| `SpaceConnectProofs`, `KubeContextProofs`, `MigrationProofs`, `LanguageServerProofs` | theorems about the modules each is named after |
| `NavigationProofs` | theorems about `CtxNavigation` and `Trace` |
| `PublishProofs` | theorems about `BatchPublish` and `SpaceMirror` |
| `AccountProofs` | theorems about `Configuration`, `WebLogin` and `ConsoleCommands` |
| `CommandProofs` | theorems about `SpaceInstall`, `PackageInstall` and `UsageReport` |
| `MCSpaceConnect`, `MCKubeContext`, `MCBatchPublish` | symmetry for TLC |
| `MCMigration`, `MCLanguageServer`, `MCCtxNavigation`, `MCSpaceInstall`, `MCUsageReport`, `MCTrace`, `MCSpaceMirror` | the instances: structured constants |
| `MCCommands` | the commands that have no run of their own, over these instances |

### 2.1 SpaceConnect

The variables are the console (`spaces`, `robots`, `tokens`), the cluster
(`cm`, `secret`, `release`), and the running command: `pc` is the next remote
call, `space` is `c.Space`, `token` is `c.Token`, `local` the process's copy of
the ConfigMap, `nilData` whether that copy's `Data` is a nil map, `undos` the
functions registered with the Undoer. `outcome`, `undoFailed` and `before` only
observe.

One action is one remote call together with the in-memory code up to the next
one. So `CreateSpace` is `sc.Create` and the assignment to `cm.Data`, and
`RecordSpace` is the `Update` that follows. `ConnectCallFails` and
`DisconnectCallFails` are a call that returns an error without an effect. The
calls of helm have effects also when they fail or the process is stopped inside
(`Kill`), and `HelmRelease` has them: an install or an upgrade leaves a release
that is failed or pending, an uninstall one that is `uninstalling`, some of its
revisions gone, or nothing. helm refuses to upgrade a release that is pending, or
that is marked `uninstalling` and has no other revision deployed. After an error `UndoStep` runs one undo function at a time, last
registered first; after a kill or a panic nothing runs.

Details of the code that are in the model because they matter:

* the undo function of a Space reads `c.Space` when it runs, not when it is
  registered (`connect.go:360`);
* a robot that was found rather than made is deleted by undo as well
  (`connect.go:541`);
* `deleteSpace` turns a failed deletion into success (`disconect.go:201`);
* `Update` returns an object whose `Data` is nil when no key is left;
* installing the agent is the last call, so its undo function never runs;
* a failed upgrade is rolled back one revision, whether or not it wrote one.

Abstractions: one organization, so the account in front of a Space's name is
left out; listing tokens and deleting them is one step; a robot's tokens carry
its name; the namespace exists, because `mxp-config` is read from it before
anything else; a reply that is lost is covered only when the process dies with
it; one command runs at a time.

`Init` is a cluster that was never connected, and a console in which other
clusters may be connected already.

`SpaceLink` forgets everything but the link: the Space for which console,
Secret and agent agree. `LinkSpec` says that every behaviour of `SpaceConnect`
is one of `SpaceLink` under the mapping given there. It rules out what no
single invariant shows: a step of disconnect, of undo, or of a helm rollback
that makes the cluster usable as a Space other than the command's own.

### 2.2 Kubeconfig and KubeContext

A kubeconfig is three maps, with the current context: contexts refer to a
cluster and a user by name. `Dest` is the context `up` works on (`upbound`),
`Prev` the same with `-previous`; both names are used in all three maps.
`Activate`, made of `SwapContexts`, `SwapClusters` and `SwapUsers`, is
`activateContext`; `MakeRoom`, `PutTarget` and `Upsert` are
`mergeUpboundContext` and `upsertContext`. `Targets` stands for the server and
the credentials a context leads to, so `Reach` is what a user of a context gets.

A process reads the kubeconfig once (`Read`, client-go caches it), writes all
of it (`Write`), then the last-context file (`WriteLast`), or stops in between
(`Refuse`, `Kill`). kubectl's use-context, rename-context and delete-context
are the environment. `home` observes the kubeconfig the last command began
with, for as long as nothing was written since.

Abstractions: namespaces and extensions of contexts are part of the target;
`clientcmd.ModifyConfig` is one step, although the library writes the file
stanza by stanza; `-f` is left out; where a target comes from (navigation) is
left out: any target may be chosen.

### 2.3 BatchPublish

`main` and `pc[s]` say what the main goroutine and the goroutine of service `s`
do next; `image[s][p]` is the goroutine that writes the image of platform `p`
in the current push. `slots` and `open` are the channel `concurrency`,
`pending` is what is in `chErr`. The flags of the command are variables that
`Init` chooses and nothing changes. `processService` is `Build`, `Store` and
the push; one attempt of the push is `StartPush`, then `Annotate` and
`ImageLands` or `ImageFails` per image, `Join` (`g.Wait`) and `WriteIndex`. The
first image that fails cancels the others: those that have not begun fail,
those under way may still arrive. A write to the registry has one of three
ends: effect and answer, effect and error, error alone. `Report` and `Release`
are two steps because the result is sent before the deferred function returns
the slot.

Abstractions: an image is put together in one step that may fail (layers,
labels and annotations are data no property looks at); the files of a service
are none, some or all; `Fetch` starts all goroutines at once, which then take
slots in any order; two services never share a repository. A process that is
killed leaves files and registry as they are, and the invariants about them
hold in every state, so there is no action for it.

### 2.4 ControlPlaneMigration

Three things meet in it: the `source`, which others change while it is
exported (`SourceChanges`), the `archive`, and the `target`, whose controllers
(`BecomeHealthy`, `Reconcile`) act on whatever is not paused. The export goes
from `RunExport` through `PauseSource`, `ScanTypes`, one `ExportType(t)` per
type (list, convert, write the resources, then the metadata of the type),
`ExportMetadata` to `Archive`. The import goes from `RunImport` through
`Preflight`, `Read`, the base types in their order (`ImportBaseResource`,
`WaitForConditions`), the rest in any order (`ImportRemainingResource`, ten at
a time in the code) to `Finalize`, which unpauses claims, composites and, if
asked, managed resources. Every request may fail (`ImportFails`), and an import
may be run again over what earlier ones left.

A resource is `absent`, `active`, `paused`, or `created`: made by a controller
of the target rather than imported, which is what pausing is to prevent.
`import.overridden` says that the user went on after a failed preflight.

The archive of an export that fails during the walk is a prefix of the files
that may well be readable, since the tar and gzip writers are closed by defer
(`export.go:417`); it may hold resources without the metadata file of their
type, which comes after them (`Described`). One with `export.yaml` passes the
preflight checks. `ApplyResource` asks the target for the type first
(`Defined`, the `RESTMapping` of `apply.go:49`): a type is there if it needs no
definition, or one of the resources that define it (`DefinedBy`) has become
healthy; otherwise the import fails.

Abstractions: the order of the archive (`Walk`) is the lexical one of one
instance; pages of a list, YAML and the temporary directory are one step with
what they add; a type is in the scan if it was defined at the time. `closed`
says that the buffers of tar, gzip and file reached the disk: the code drops
the errors of those `Close` calls (`export.go:407-422`), so a full disk at that
moment gives an export that succeeds without a whole archive, and
`ExportComplete` speaks of the others.

### 2.5 PackageCache and LanguageServer

`PackageCache` has an entry as a directory with the records of its
`package.json`, the operators that read it and the choice of versions.
`LanguageServer` has the processes. `command[c]` is one `up xpkg dep`:
`ResolveTag`, `Get`, `Fetch`, then `Store`, which is not one step but a clean of
the old files, the creation, one append per record, and the end; `KillDep`
stops it between any two. `--clean-cache` removes entry after entry. The mutex
of the cache protects the goroutines of one process and these are several, so
it is not there between commands.

The server is its handlers (`Initialize`, `DidOpen`, `DidChange`, `DidSave`,
`DidChangeWatchedFiles`), the poll of the cache, and the goroutine that builds
a snapshot under the lock. A build reads packages and files one at a time while
commands write them; an edit between its reads and its end is lost with the
snapshot it changed. `loaded` is `Manager.acc`, which the server never empties.
A build that meets an entry it cannot read ends, and the server keeps the
snapshot it has. `NeededDeps` is what the workspace needs: the least set of
dependencies that holds the declared ones and, of each that can be read, those
its package names. `shown` is what was last published, with what is to be validated (`due`) and
what was validated and is to be published (`coming`). Validation and publication
are steps of their own: `watchSnapshot` and `DidSave` hold the lock until both
are done, `DidOpen`, `DidChange` and `checkMetaFile` hold none, so that a snapshot
may be replaced, and another publication come, between the two. `shown.old` has
the files where the publication that came last was not of the last validation.
`torn` and `claims` observe: at which keys a
command was killed or two wrote at once, and what a command said is cached.

Abstractions: one open document with one object; what the validators say of
an object is whether it is known; an image is its digest, a number that grows
with each push.

### 2.6 CtxNavigation

`terminal` is the model of the program. A key that needs the network starts a
state change, which runs beside the loop with the model it was given
(`changing`) and comes back as a message that replaces the model (`TakeModel`).
While it runs, the keys of the list are disabled, the keys of the program are
not: `SelectKey`, `BackKey` and `ExitKey` act on the old list. The items of each
node are functions from a node to the set of its lists, errors of a request
included. `WalkPath` is the path argument. `hurried` says that the user pressed
such a key before the answer: `SwitchIsTold` is about users who did not.
`terminal.said` is the node a message "switched to" names, set by an interactive
switch and by a walk that arrived elsewhere; `up ctx .` prints the context there
is, which is no such message. `switched` observes what was written.

### 2.7 SpaceInstall

One command at a time (`launch`) works on the releases of a cluster.
`CheckPrerequisites`, `InstallChart` or `CreatePackage` and `ConfigureProvider`
for each missing prerequisite, `ApplySecret`, `DeploySpace` are `init`;
`LaunchUpgrade` is where versions are compared and the user is asked,
`UpgradeSecret` and `UpgradeSpace` come later; `LaunchDestroy` and
`DeleteNamespace` are `destroy`, after which the cluster ends what is in the
namespace when it likes (`NamespaceGone`). The commands of UXP are one step each
and may use the alternate release `crossplane`. `brought` is what the code
looks at to see whether a prerequisite is there: its CRDs or ingress class, not
its release. It may come from elsewhere (`others` of `InstallInit`): an ingress
class of the cloud's, a cert-manager installed otherwise. `cutShort` observes
which ones a failure, a kill or a removal hit, and which came from elsewhere.
With versions before 1.7 `init` also waits for host clusters and may fail after
the release is deployed (`DeploySpace`).

### 2.8 Configuration and WebLogin

A process reads the file when it starts, changes its copy, truncates the file
and writes it. Two that meet may overwrite each other, and a shorter
configuration over a longer one leaves the end of that (`garbled`). `told`
observes what the commands that reported success have made of the file, `alone`
that no two commands met and none died in between.

`WebLogin` has the command, the handlers of the requests that reach its server
(`tabs`), and the two channels of one place each.

### 2.9 ConsoleCommands

Each command lists, looks for a name, maybe a second one, and acts on the id it
found, while the others do the same (`account`, `links`). The console refuses an
id it does not know and never gives one twice.

### 2.10 UsageReport

The window iterator, one reader per store, the decoder event by event, the
aggregate and the archive. Each store has its own way to list: one prefix per
hour (S3, Azure), or one query over a range of names (GCS). `EndEarly` is a
download that ends between two events: the decoder's `More` is then false and
the object passes for a whole one. `CloseReport` drops the error of closing the
file, so that one which is not whole may be announced as saved. Both are
`unnoticed`. `CleanupOnError` may leave the file: an error of `os.Remove` is only
printed. A stored value is a `float64`, here in parts of a resource (`PerCount`),
and `Truncated` is the `int(...)` of the aggregate; values whose whole part does
not fit 64 bits are left out.

### 2.11 Trace

The poll reads two pointers one after the other (`LoadKinds`,
`LoadCategories`), asks for one kind or category after the other, page by page,
and the drawing goroutine merges the answer (`Update`) into a tree that
remembers intervals. The merge takes one object after the other
(`MergeObjects`) and removes the nodes nothing was merged into (`Merged`); in
which order the rest is drawn is left out. The Ready condition of an object may
be missing, or have no time (`unknown`): an open interval then gets the zero time
as its end, which stands for an open one (`tree.go:128`, `Interval`). The
intervals of Synced are kept in the same way and left out. F2 stores the two pointers one after
the other.
`up alpha query` asks in the same way, once.

### 2.12 PackageInstall and SpaceMirror

`PackageInstall` has the packages of one kind with their conditions, the
commands (`Create`, `Watch`), and for each the events its goroutine has not read.
`ReadEvent` is one turn of the loop of `DynamicWatch` and `ReadEnd` the one that
finds the channel closed. The package manager and other users change and delete
packages; the API server ends a watch (`EndWatch`) at any time, and what it had
not sent is lost. The branch for a cancelled context is left out: nothing
cancels it while `Run` waits. There is no clock; `wasHealthy` observes.

`SpaceMirror` has the work of one command as a list (`MirrorWork`), from which
`GetValues` and `SelectImage` take a chart or an image and put what it stands
for in its place, and `Save`, `Copy` or `PrintOnly` one artifact; `MirrorFails` is
also the end of the process. Directory and registry stay for the next command.
The names of files and of copies keep artifacts apart, since no two entries of
`config.yaml` share one; that an image's tag begins with `v` is left out, and so
are versions and constraints that semver cannot parse (`mirror.go:185-195`), of
which `config.yaml` has none.

### 2.13 MCCommands

`up` is one program, and one process of it runs one command. `doing` is that
command, or the ones that share a state: two `up xpkg dep`, or one beside the
language server. The components that stand still begin in one fixed state
(`CommandsInit`), so that the run explores the sum, not the product, of their
states.

## 3. Runs

| Run | Checks | Bounds | Result |
|---|---|---|---|
| `SpaceConnect` | `ConnectedIsUsable`, `FailedConnectCleansUp`, `MapUndoneLast`, `DisconnectedLeavesNothing`, `OnlyConsentedSpacesRemoved`, `LinkSpec` | 1 given and 1 generated name, 3 robots, 4 tokens, 2 faults; any number of commands | pass, 1.6 million states |
| `SpaceConnectRetry` | `RetryConnects` | 1 name, 2 robots, 3 tokens, 2 faults | pass |
| `SpaceDisconnectReport` | `DisconnectedSpaceIsGone` | 2 names, 1 fault | violated |
| `SpaceReplacePanic` | `NeverPanics` | the same | violated |
| `KubeContext` | `NoDanglingRefs`, `RoundTrip`, `SwitchArrives`, `OthersKeepTarget`, `LeftBehindIsKept` | 2 processes, 3 commands, 2 kubectl edits, 4 context names, 3 targets | pass, 1 million states |
| `CtxDash` | `DashIsPrevious` | the same with 1 process | violated |
| `CtxPanic` | `NeverPanics` | the same | violated |
| `BatchPublish` | `TypeOK`, `TagIsWhole`, `StoredBeforePushed`, `WithinConcurrency`, `ResultIsHonest`, `GivesUpLast`, `Ends` | 2 services, 1 or 2 platforms, limit 0 or 1, 1 retry | pass, 240 thousand states |
| `BatchPanic` | `FailsForAReason` | 1 platform | violated |
| `Commands` | the 21 properties below | see below | pass, 1.7 million states |
| `MigrationPaused` | `ManagedPausedByDefault` | the instance of `Commands` | violated |
| `ServerPanic` | `PanicsOnlyAtInitialize` | the instance of `Commands` | violated |

What `Commands` checks, and in which instance:

| Component | Properties | Instance |
|---|---|---|
| migration | `ExportComplete`, `ImportComplete`, `NoSecondCopy`, `DefinedFirst`, `ManagedUnpausedLast` | 7 resources, one of each kind the code treats in its own way (managed, composite, claim, package, native, skipped, excluded), 1 change of the source, 2 runs of the import, or 1 if the source changed |
| cache and dependencies | `AddedIsCached` | 2 packages, one depending on the other, 2 versions, 2 commands, 1 push, 1 kill |
| language server | `QuietServerIsCurrent`, `SavedIsServed`, `DiagnosticsCatchUp` | 1 command, 1 kill, 1 edit |
| navigation | `ListIsOfTheNode`, `SwitchIsTold` | a tree with every kind of node, 2 changes in flight, 2 switches |
| configuration | `ConfigIsTold`, `DefaultExists` | 2 processes, 2 profiles, 4 commands, 2 sessions |
| login | `LoginCanEnd` | 2 requests |
| Space releases | `ReadyIsDeployed`, `DowngradeIsAgreed` | 3 prerequisites (a chart, UXP, a provider), 2 versions, 4 commands |
| billing | `ReportIsMaximum` | 3 hours, windows of 1 or 2, 2 keys with values in halves, from 1/2 to 5/2, up to 2 objects per hour, 3 stores |
| console | `MeantToBeLost` | 2 commands, 12 operations, 1 name (all names equal), 4 ids |
| trace | `TreeIsTheAnswer` | 2 objects of 2 kinds, 2 polls, 2 changes of objects, 1 of the question |
| control plane packages | `SuccessWasSeen` | 2 commands, 2 packages with any conditions to begin with, 1 change |
| space mirror | `SuccessIsWhole` | 4 versions (a release, a pre-release, one without a value, one without a chart), 11 artifacts, 2 commands |

Why the bounds are enough. In `SpaceConnect` the number of commands is not
bounded; what is bounded is how often something goes wrong. Two faults suffice
for a failure and the failure of its undo, for a kill and then another kill
during recovery, and for a failed rollback after an earlier failure. Two names
suffice for connecting under one name while connected under another. Robots and
tokens are reused once nothing refers to them, so the ids needed are those that
live at the same time. In `KubeContext` three commands are the shortest
history in which a switch, another switch and a `-` meet; every other
kubeconfig that matters is reached by two edits before, between or during
them. Three free cluster names are as many as three commands can use up.
In `BatchPublish` two services are enough to wait for each other and to be
collected in either order, one retry is enough to fail, to succeed later and to
give up; the theorems are for any numbers.

In the instances of `Commands`: a second import is what meets the remains of a
first one, and an archive of a changed source differs from others in what it has,
so one import of it is enough (`MigrationWithOneChange`); two commands are what meets at one cache entry, one file or one
name; a pushed tag once moved is what makes a digest stale; four launches are
init, a removal, init again and an upgrade; a window of two hours over three is
the one that is cut short; two polls are the least after which a node has to
stay, go or close its interval. One name in the console is the worst case,
since then every name is ambiguous.

Any package may be healthy from the start, so one change is enough for one to
become healthy, or cease to be, or go, while two commands watch. Two commands of
`space mirror` are one that is stopped and one that goes on over what it left.

Deadlock checking is off in `KubeContext.cfg`, because the user stops once the
commands of the bound are used up, in `BatchPublish.cfg`, because the process
exits (`Ends` says that it does, so goroutines that all wait for each other
would violate it), and in `Commands.cfg`, because every command ends (for the
one place where it might not, `LoginCanEnd` says that it can). `SpaceConnect`
never stops.

Fairness. `RetryConnects` and `Ends` need it. For `RetryConnects`: `WF_vars(Running)`: a started command
goes on, because every call of it returns, in success or in error. `Kill` is
not part of `Running`, and faults are bounded, not fair. The strong fairness of
`StartConnect(Wanted, None, TRUE)` is an assumption about the operator: one who
wants the cluster connected runs connect again, and confirms, whenever no other
command is running, again and again. Other commands may come in between. The
conclusion has an exception which the code really has (`Wedged`): a first helm
install that is killed leaves a pending release, and an uninstall of the only
revision that fails or is killed leaves it `uninstalling` (`disconect.go:169`).
connect then upgrades, which helm refuses, and there is no revision to roll back
to. No run of connect gets past it; a disconnect that succeeds does. `Ends` needs `WF_vars(Main)` and
`WF_vars(Work(s))`: the Go scheduler runs goroutines that can run, and every
request to the registry returns. The properties of `Commands` need none: what
has to happen in the end is stated there of the states in which nothing is left
to happen (`Quiet`), and of those in which something is in the way
(`LoginCanEnd`).

### What the properties leave out

Some properties of `Commands` have a condition that names what the code does
not do. They hold up to it, and end where it begins:

* `ExportComplete`: the dropped errors of `Close` (2.4).
* `ImportComplete`, `NoSecondCopy`, `ManagedUnpausedLast`: imports whose failed
  preflight the user overrode; and resources without the metadata of their type,
  in the archive of a failed export, which are applied at work
  (`MigrationPaused`).
* `AddedIsCached`: an entry at which a command was killed, or which two commands
  wrote at once, stays torn until its digest changes or it is cleaned.
* `QuietServerIsCurrent` and the two after it: what changed between the first
  snapshot and the watcher's baseline is not noticed; a handler that meets an
  entry it cannot read keeps the old snapshot, and nothing reads again until the
  cache or a file changes; diagnostics after `DidChangeWatchedFiles` are not
  published; where an older publication comes after a newer one, the editor shows
  the older one until the next.
* `SwitchIsTold`: a user who goes on during a state change (2.6).
* `ConfigIsTold`: commands that met, and a death with the file truncated.
* `LoginCanEnd`: a second request to the callback server waits for ever, and the
  command with it.
* `ReadyIsDeployed`: a prerequisite in which an earlier run was cut short, or of
  which something came from elsewhere, counts as installed once its CRDs are
  there.
* `ReportIsMaximum`: a download that ends between two events, and a file that
  could not be closed; a key that was counted at none, or at less than one, for
  which the aggregate makes no entry.
* `TreeIsTheAnswer`: an answer that has an object twice, which a kind and a
  category together give; the interval of an object whose Ready condition, or its
  time, is missing.
* `SuccessWasSeen`: that the package seen is the one asked for. The callback of
  the watch does not ask for a name (`install.go:152`), and a watch begins with
  everything there is: with one healthy provider in the control plane, every
  `provider install --wait` ends at once and reports its own package "installed
  and healthy".
* `SuccessIsWhole`: a directory and a registry at once. `mirrorArtifact` serves the
  directory only, and the command reports both.

### What the violations show

* `SpaceDisconnectReport`: `disconect.go:201` has its condition inverted, so a
  disconnect prints that the Space was deleted and disconnected after a
  deletion that failed.
* `SpaceReplacePanic`: `connect --robot-token` records only the Space. When a
  later connect replaces it, the ConfigMap becomes empty, `Update` returns a
  nil map, and the next assignment panics: the old Space is gone, the new one
  half made, no undo function runs.
* `CtxDash`: a switch made while `upbound-previous` itself is current, or while
  another context uses the user `upbound-previous`, overwrites what `-` should
  lead back to. For the kubeconfigs `up ctx` leaves by itself (`Plain`),
  `RoundTrip` holds.
* `CtxPanic`: a current context `upbound` that was deleted outside makes
  `up ctx <target>` dereference nil.
* `BatchPanic`: the last goroutine's result is received, `Run` returns and
  closes the channel of slots, and only then does the goroutine give its slot
  back. Sending on a closed channel panics, after everything was published.
* `MigrationPaused`: the archive a failed export leaves can be read, and may end
  between a managed resource and the metadata file of its type
  (`export.go:417`). Its import passes the preflight checks, and as there is no
  metadata nothing says that the resource is to be paused: it is applied at work,
  although "By default, all managed resources will be paused during the import
  process" (`cmd/up/migration/import.go:53`).
* `ServerPanic`: a snapshot that cannot be built replaces the one that serves
  with nil (`server.go:340`), and validating it panics in a goroutine.

### Mutants

Each property of a passing run has a variant of a mapped definition, such as a
dropped undo function or a swap that forgets the references, under which TLC
finds that property violated. They stand next to the definitions they vary and
are listed in `PROJECT.json`.

## 4. Proofs

Of the 40 properties of the passing runs, 38 are theorems: all but
`RetryConnects` and `Ends`, which are liveness. Two type
invariants are theorems only (`TypeCorrect`, `ContextTypeCorrect`). A theorem
is for any value of the constants that fits the named `ASSUME`s: any number of
names, commands, faults, resources, packages or hours, where the runs of
section 3 have two or three.

Each proof has the same shape: an invariant that says what every step on the
way may rely on, a lemma per action that preserves it, and a theorem that
combines them. What follows is those invariants, since they are the argument.

### `SpaceConnectProofs`

| Theorem | States |
|---|---|
| `TypeCorrect` | `Spec => []TypeOK` |
| `ConnectKeepsItsPromise` | `Spec => []ConnectedIsUsable` |
| `ImplementsLink` | `Spec => LinkSpec` |
| `OthersKeepTheirSpaces` | `Spec => OnlyConsentedSpacesRemoved` |
| `DisconnectKeepsItsPromise` | `Spec => DisconnectedLeavesNothing` |
| `MapIsUndoneLast` | `Spec => MapUndoneLast` |
| `FailureLeavesNothing` | `Spec => FailedConnectCleansUp` |

`ConnectedIsUsable` looks at the state when connect reports success, and says
nothing about how it got there. `ConnectInv` adds what each call may rely on, by
`pc`: from the Update of the Space on, the copy of the ConfigMap is the
ConfigMap and records a Space that exists (`CopyIsCurrent`, `SpaceIsMade`); from
the robot on, the recorded robot exists under the Space's name (`RobotIsMade`);
from the token on, it belongs to that robot (`TokenIsMade`); before the agent,
the Secret holds both (`SecretIsMade`). The agent's step is where the parts
meet.

`ImplementsLink` is the refinement: the initial state maps to the initial state
of `SpaceLink`, and every step, of connect, disconnect, undo, failure or kill,
maps to a step of it or to a stutter (`LinkSimulation`). Besides `ConnectInv`
it needs `LinkInv`: no token outlives its robot, and what the command's name
and its Space have to do with each other at each call.

`ConsentInv` ties the running command to what it found: the ConfigMap at first,
the Space it recorded later, and that an undo function for a Space is there only
if the Space was not. `GoneInv` says, call by call of disconnect, what is gone
already. `MadeInv` says that whatever connect has made in the console has an
undo function, and that the ConfigMap's is the first of the stack, so the last
to run. `KeptInv` is the opposite: what was there is still there and no undo
function is about it, if the cluster was never connected and the name is new.
Without these two conditions it is false, for the reasons section 2.1 gives.

### `KubeContextProofs`

| Theorem | States |
|---|---|
| `ContextTypeCorrect` | `Spec => []TypeOK` |
| `KubeconfigStaysSound` | `Spec => []NoDanglingRefs` |
| `SwitchAlwaysArrives` | `Spec => SwitchArrives` |
| `OthersAlwaysKeepTarget` | `Spec => OthersKeepTarget` |
| `LeftBehindIsAlwaysKept` | `Spec => LeftBehindIsKept` |
| `RoundTripLeadsBack` | `Spec => []RoundTrip` |

The argument is in lemmas about the pure functions (`SwapContextsFacts`,
`SwapClustersFacts`, `SwapUsersFacts`, `MakeRoomFacts`, `PutTargetFacts`, put
together in `ActivateFacts` and `UpsertFacts`): each keeps a sound kubeconfig
sound and says which contexts reach what they reached. `ContextInv` carries
soundness over to the copy a process works on, which is what the write needs
when other processes have changed the file since.

The way back takes one lemma more: `Activate` after `Upsert`, or after another
`Activate`, reaches what the current context reached before
(`ResultLeadsBack`, from `ActivateLeadsBack` and `UpsertLeadsBack`). The same
lemma shows that the context left behind is in the file after the first of the
two writes.

### `MigrationProofs`

| Theorem | States |
|---|---|
| `ExportsAreComplete` | `MigrationSpec => []ExportComplete` |
| `DefinitionsComeFirst` | `MigrationSpec => DefinedFirst` |
| `ImportsAreComplete` | `MigrationSpec => []ImportComplete` |
| `ControllersMakeNoCopies` | `MigrationSpec => []NoSecondCopy` |
| `ManagedComeLast` | `MigrationSpec => ManagedUnpausedLast` |

`ExportInv` follows the export: of what was there all along, each resource is
written or its type is still to come, and what is written never holds a
resource without its type. `ImportInv` says that in the first phase a base
resource of the archive is there or still to do, and that in the second all
that is waited for is healthy; an import that fails and is run again begins
with the first, so this is inductive over any number of runs.

`OrderInv`, for imports whose preflight passed, says what is where at each step:
what is not left to do is in the target with its status (`PlacedInv`), what was
unpaused is active category by category (`FinalInv`), and whoever could make a
resource of the archive finds all of it there (`LooseInv`, of archives in which
every resource has the metadata of its type). The last is why no
second copy is made: a claim or composite acts only once everything is there.
It needs `ComposesAssumption`: what is made for anything but a claim or a
composite, by the package manager for a package, is not exported
(`shouldSkip`).

### `LanguageServerProofs`

| Theorem | States |
|---|---|
| `AddedStaysWhole` | `PackageSpec => []AddedIsCached` |
| `QuietServersAreCurrent` | `PackageSpec => []QuietServerIsCurrent` |
| `SavesAreServed` | `PackageSpec => []SavedIsServed` |
| `DiagnosticsAreCurrent` | `PackageSpec => []DiagnosticsCatchUp` |

`CacheInv` has one part per entry and one per command. `EntryInv`: an entry that
is not torn has one writer, who has written as many records as its step says,
all of one image (`Underway`), or none, and is then whole or has no file; one
that a command claims to have added is whole and nobody's. `CommandInv`: the
digest a command holds is no older than the one it asked for.

`ServerInv` speaks of a server to which no change is under way (`Settling`): no
poll to come, no news waiting, no save or change of files in the queue. Then

* a build under way has the text and the dependencies as they are (`BuildInv`),
  and there is a set `viewed`, closed but for what is still on its list, of
  packages that are loaded as the cache has them (`ViewInv`); when the list is
  empty that set is closed, so it holds all that `NeededDeps` does, and since
  everything viewed is needed, nothing else;
* if none is under way the snapshot is of the files and of the cache
  (`SnapshotInv`), and each file is `Told`: a validation of it is still to come,
  or the last one found what the snapshot shows now, and its publication is still
  to come, came last, or came before that of an older one (`shown.old`). For
  `crossplane.yaml` that holds when the dependencies were checked (`DepsInv`), for
  the document always (`ShownInv`).

Whatever makes an entry or a file differ also ends `Settling`, and only the end
of the last build begins it again. `viewed` is an existential in the invariant
and no variable of the model: nothing in the code remembers it.

### `NavigationProofs`

| Theorem | States |
|---|---|
| `ScreensBelongTogether` | `NavigationSpec => []ListIsOfTheNode` |
| `SwitchesAreTold` | `NavigationSpec => []SwitchIsTold` |
| `TreeIsAlwaysTheAnswer` | `TraceSpec => []TreeIsTheAnswer` |

A result replaces the screen by the one it began with, so `ScreenInv` says of
the screen and of each screen that a change under way holds that its list is
one of its node and its cursor an item of it. `ToldInv`: for a user who waits
there is at most one change, it knows what was written to the kubeconfig, and a
screen that names a switch is one that has written it.
That every list of a node is a sequence with an item for the cursor is proved of
`ItemsOf`, for any tree (`ItemsFacts`, `AppendedFacts`).

For the tree of the trace, `AskInv` follows the question: a poll that no change
has met since it read the first pointer asks for what is asked for, and so does
the answer it gives. `TreeInv` says that no id is in the tree twice, so that the
next answer finds the node it means; it holds until an answer has an object
twice, and nothing is claimed after that. The merge itself is one step of the
model and a loop in the code, so it has an invariant of its own, `Merging`: after
n objects there is one node for each of them and for whatever was there before,
none has the id of another, the old ones not merged into can still be found,
and the first n objects are shown as they are. `MergingBegins`,
`MergingFound` and `MergingAdded` are its steps, `MergedBy` and `MergingEnds` its
end. Removing what no object was merged into leaves as many nodes as the answer
has objects, which is counted by their ids (`LengthIsIds`, `Places`).

### `PublishProofs`

| Theorem | States |
|---|---|
| `BatchTypeCorrect` | `Spec => []TypeOK` |
| `TagsAreWhole` | `Spec => []TagIsWhole` |
| `StoringComesFirst` | `Spec => []StoredBeforePushed` |
| `SlotsLimitWork` | `Spec => []WithinConcurrency` |
| `ResultsAreHonest` | `Spec => []ResultIsHonest`, if `PushRetry < UintSize - 1` |
| `GivingUpComesLast` | `Spec => []GivesUpLast`, if `PushRetry < UintSize - 1` |
| `MirrorsAreWhole` | `SpaceMirrorSpec => []SuccessIsWhole` |

`BatchInv` is the inductive invariant of a batch. Its `SlotsInv` counts: free
slots and working services together never exceed the limit (they need not add
up to it before the channel is filled). Its `ServiceInv(s)` ties how far a
goroutine is to what is in the registry and in its files: an image that was
written is there, all of them are before the index, a service that ended
without an error has stored and published. A step of one service leaves what is
said of the others alone (`OtherServices`, `UntouchedKeeps`). The condition of
the last two is real: with the largest `uint` as `--push-retry` the number of
tries, `PushRetry + 1`, is 0 (`batch.go:312`), and the command reports success
without having pushed anything.

A mirror is correct because `DueInv` holds at each step of its work: what the
version needs is there, or some job that is left is due for it. `GetValues` and
`SelectImage` replace a job by those it stands for, so the lemmas are about what
a job is due for (`WorkFacts`, `SubArtifactsFacts`, `DueOfOne`), and one lemma,
`WorkGoesOn`, serves every action. What failed commands left does not occur in
it: nothing that is there is taken for done.

### `AccountProofs`

| Theorem | States |
|---|---|
| `DefaultIsThere` | `ConfigurationSpec => []DefaultExists` |
| `FileHoldsWhatWasTold` | `ConfigurationSpec => []ConfigIsTold` |
| `LoginEnds` | `WebLoginSpec => []LoginCanEnd` |
| `DeletionsAreMeant` | `ConsoleSpec => MeantToBeLost` |

`DefaultExists` is about the file alone; `ConfigInv` says it of every copy a
process holds as well, since any of them may be the next to be written.
`ConfigIsTold` is about commands that come one after the other: `ToldInv` says
that there is one at most, that the copy it read is what was told, and that the
one it is about to write is that and its own change (`HeldInv`).

For the login, `ChannelInv` counts with the two channels: whoever sent a code
waits or is done, and an answer that is no longer in its channel was taken by a
handler.

For the console, `ConsoleInv` says that an id means one thing for good
(`IdsAreUnique`), that what a command has listed is what the console has under
its id if it still has it (`ListedIsKept`), and that what a command is about to
delete it had listed under the name it was given (`FoundIsListed`).

### `CommandProofs`

| Theorem | States |
|---|---|
| `DowngradesAreAgreed` | `InstallSpec => DowngradeIsAgreed` |
| `ReadySpacesAreWhole` | `InstallSpec => []ReadyIsDeployed` |
| `SuccessesWereSeen` | `PackageInstallSpec => []SuccessWasSeen` |
| `ReportsAreMaximal` | `UsageSpec => []ReportIsMaximum` |

The versions are compared when an upgrade is launched and used two steps later;
`UpgradeIsAgreed` says that the answer still holds then, since nothing that can
come in between raises the version of the release.

`ReadyInv`: a prerequisite whose CRDs are there is installed, unless something
cut it short or it is the provider that `init` waits for (`PlacedInv`); while
`init` installs, every prerequisite is there or still on its list
(`ComingInv`), which is empty before the Space is deployed (`SpaceInv`). The
list is computed by a recursive function, which is unfolded as described below.

`WatchInv`: an event of a healthy package that a command has not read yet is
one of a package that has been healthy. So a command may read it late, or find
the channel closed first.

`UsageInv` follows one window. The windows before the cursor are in the report
(`BilledInv`), which needs that the cursor is a whole number of windows from the
start, and so that two windows are a window apart or the same. Within a window
(`CountInv`) what is stored under its hours is counted or still owed, that is,
in an event, an object or an hour the reader has not come to (`Owed`), and what
is counted is stored under one of its hours. When nothing is owed any more the
counts are the maxima.

### What the proofs assume

The named `ASSUME`s of the modules, which TLC evaluates in every run of the
module:

* names are distinct, and `None` is nothing else (`NamesAssumption`,
  `ObjectsAssumption`, `KubeconfigsAssumption` and their like);
* bounds are natural numbers, and so are flags, up to the size of a `uint`
  (`FlagsAssumption`);
* sets that a process holds in memory are finite: requests, packages, nodes,
  declared dependencies;
* the data fits together: the sets of the migration (`ResourcesAssumption`,
  `ComposesAssumption`), the prerequisites of a Space (`InstallAssumption`), the
  tree of nodes, in which the parent of a node is one (`NavigationAssumption`),
  versions, of which any nonempty set has a latest, and dependencies
  (`PackagesAssumption`, `ServerAssumption`), the configuration of a mirror
  (`MirrorAssumption`);
* the objects of a trace are numbers, in whose order pages go on
  (`TracedAssumption`), and what can be asked for is kinds and the one category
  (`AsksAssumption`);
* a window has at least one hour, and a stored event has a key, or none, and a
  value in parts of a resource (`UsageAssumption`); `time.go:43` refuses a shorter
  window.

### What the attempts found

Some proofs failed for a good reason, and the model, a property or an assumption
was wrong or missing:

* `NoSecondCopy` and `ImportComplete` need to know what composes what: a provider
  acts as soon as it is applied, and could make a resource of the archive a
  second time. What the package manager makes is not exported (`shouldSkip`);
  `ComposesAssumption` states it.
* `QuietServerIsCurrent`, `SavedIsServed` and `DiagnosticsCatchUp` held in the
  instance and were false in general. A package that cannot be read stops a
  rebuild, and the snapshot before it stays; a rebuild for
  `DidChangeWatchedFiles` publishes nothing. The properties name these now.
  `NeededDeps` was computed to a fixed depth, enough for the instance and not for a
  longer chain of dependencies; now it is the least closed set.
* `ReportIsMaximum` was false of a key counted at none, for which
  `aggregate.go` makes no entry. The instance had no such count; it has now.
* In `SpaceMirror` the images that fit a version were chosen when the work
  began, and the code chooses them one by one, after what the chart's values
  name has been mirrored (`SelectImage`).
* That no two nodes of a tree ever have one id is false: an answer with an object
  twice leaves two, and the next answer finds the later one. `TreeInv` says it up
  to there. The merge was a fold, about which nothing could be proved; it is
  a recursive function now, one object after the other as in `tree.go`.

### What is only model-checked

* `RetryConnects` and `Ends`: liveness under fairness, beyond the prover.

Induction over data is beyond it too, in general: the library's theorems take a
predicate as a parameter, which the installed provers cannot instantiate.
Where an induction was needed in a theorem above it was done by hand, for the
one statement at issue: the set of numbers at which the statement fails has a
least element if it has any (`LeastOne`, `LeastNumber`), and the statement holds
there because it holds for the number before. `SolutionExists` and `NotInstalledFacts` of
`CommandProofs`, `MergesExist` and `MergesFacts` of `NavigationProofs` unfold a
recursive function in this way.

The violated properties of section 3 are no theorems, of course, and neither
are the abstractions of section 2: a theorem is about the model.

## 5. Not modelled

* Two operators who connect one cluster at the same time, and console answers
  that are lost while the command goes on: `SpaceConnect` has one process.
* The chart cache of the helm installer. `pullAndLoad` looks for
  `cacheDir/cacheDir/<chart>.tgz` (`helm.go:456`), so it always pulls and the
  cache has no effect on what is installed.
* `up ctx -f other`, which writes the switch to another file and the last
  context to the one global file; the stanzas in which `ModifyConfig` writes;
  `up ctx -` to a context that is gone (it is written unchecked, `cmd.go:185`).
* Paging, YAML and the layout of the archive, as far as no property is about
  them; pausing that is not undone when an export fails later
  (`export.go:118`): the code promises nothing else.
* Panics in single lines that need no interleaving: the key of an item without
  a function (`list.go:216`), a listing error other than the end
  (`gcp/reader.go:66`).
* In the console: organizations and repositories themselves, and everything
  that only lists or prints. `robot/token/create.go` makes the token before it
  can write the file; it is modelled as a token nobody can read, and nothing
  promises that it is taken back.
* How long `--wait` waits. Below a second it is truncated to 0, and the API server
  takes its own timeout. `connector install` makes a token before helm can fail,
  and nothing promises that it is taken back.
* `xpkg build`, `init` and extraction, the credential helper, kube
  clients, registry access, drawing, logging and vendored code have no state between
  their steps that another actor or a later step could find changed.

What a next step would add: `SpaceConnect` with two operators; the snapshot's
rebuild as a refinement of an abstract server that always serves the last saved
text.
