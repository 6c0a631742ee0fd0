----------------------- MODULE ControlPlaneMigration -----------------------
(***************************************************************************)
(* `up migration export` and `up migration import`: the state of a control *)
(* plane is copied type by type into an archive, and from the archive, in  *)
(* an order Crossplane can stand, into another control plane.  The source  *)
(* keeps changing meanwhile, every request can fail, both commands can be  *)
(* killed, and an import can be run again over what an earlier one left.   *)
(***************************************************************************)
EXTENDS Naturals, Sequences, FiniteSets

CONSTANTS
    Types,          \* group resources, like providers.pkg.crossplane.io
    Resources,
    TypeOf,         \* [Resources -> Types]
    Category,       \* [Types -> {"managed", "composite", "claim", "none"}]
    CrossplaneTypes,\* defined by Crossplane, by its packages or by XRDs
    ExtraTypes,     \* --include-extra-resources
    ExcludedTypes,  \* --exclude-resources
    NativeTypes,    \* configmaps, secrets ...: no definition, no metadata file
    BaseTypes,      \* the types imported first, in this order
    ReadyTypes,     \* those of them the import waits for: XRDs and packages
    StatusTypes,    \* types with a status subresource
    Skipped,        \* resources of the Helm release, the package manager ...
    DefinedBy,      \* [Types -> SUBSET Resources]: who brings its definition, if
                    \* Kubernetes and Crossplane do not; any one of them does
    Composes,       \* [Resources -> SUBSET Resources]: what its controller makes
    Walk,           \* the order of the files in the archive, that of filepath.Walk
    ExportMeta,     \* the file export.yaml
    MaxChanges,     \* bound: changes of the source while it is exported
    MaxImports      \* bound: runs of the import

ASSUME ResourcesAssumption ==
    /\ TypeOf \in [Resources -> Types]
    /\ Category \in [Types -> {"managed", "composite", "claim", "none"}]
    /\ ReadyTypes \subseteq {BaseTypes[i] : i \in DOMAIN BaseTypes}
    /\ \A i \in DOMAIN BaseTypes : Category[BaseTypes[i]] = "none"
    /\ \A t \in NativeTypes : Category[t] = "none" /\ t \notin StatusTypes
    /\ DefinedBy \in [Types -> {D \in SUBSET Resources : \A d \in D : TypeOf[d] \in ReadyTypes}]
    /\ Composes \in [Resources -> SUBSET Resources]
    /\ Skipped \subseteq Resources
    /\ Resources \cap (Types \cup {ExportMeta}) = {}
    /\ {Walk[i] : i \in DOMAIN Walk} =
          Resources \cup (Types \ NativeTypes) \cup {ExportMeta}
    /\ MaxChanges \in Nat /\ MaxImports \in Nat

\* What is made for anything but a claim or a composite, by the package manager
\* for a package, is not exported (fetch.go: shouldSkip), and composes nothing.
ASSUME ComposesAssumption ==
    \A r \in Resources : Category[TypeOf[r]] \notin {"claim", "composite"} =>
        \A q \in Composes[r] : q \in Skipped /\ Category[TypeOf[q]] \notin {"claim", "composite"}

VARIABLES
    source,    \* the exported control plane: [Resources -> Pause]
    inflight,  \* types whose definition is being created or deleted there
    changes,   \* number of changes of the source so far
    stable,    \* resources in the source, and defined, since the export began
    export,    \* the export command: step, types left, files gathered
    archive,   \* the output file: its files, and whether it can be read to the end
    target,    \* the control plane imported into: [Resources -> Pause]
    status,    \* the resources whose status was restored there
    healthy,   \* the XRDs and packages that are ready there
    import     \* the import command

migrationVars == <<source, inflight, changes, stable, export, archive,
                   target, status, healthy, import>>

\* A resource is paused by its annotation; a created one was not imported
\* but made by a controller of the target.
Pause == {"absent", "active", "paused", "created"}
\* The file of a type is its metadata.yaml.
Files == Resources \cup (Types \ NativeTypes) \cup {ExportMeta}

Base == {BaseTypes[i] : i \in DOMAIN BaseTypes}
Present(cluster) == {r \in Resources : cluster[r] # "absent"}
Of(category) == {r \in Resources : Category[TypeOf[r]] = category}
-----------------------------------------------------------------------------
(* up migration export *)

\* Run: without --yes the user may decline an export of secrets.
RunExport(pause) ==
    /\ export.step = "idle"
    /\ \/ export' = [export EXCEPT !.step = IF pause THEN "pause" ELSE "scan"]
       \/ export' = [export EXCEPT !.step = "ended"]
    /\ stable' = {r \in Present(source) : TypeOf[r] \notin inflight}
    /\ UNCHANGED <<source, inflight, changes, archive, target, status, healthy, import>>

EndExport(e, result) == [e EXCEPT !.step = "ended", !.result = result]

\* ModifyResources of a category: the resources listed are changed one by one.
ModifyResources(cluster, category, from, to) ==
    {[cluster EXCEPT ![r] = to] : r \in {q \in Of(category) : cluster[q] = from}}

\* --pause-before-export: the managed resources listed before are paused one
\* by one; a failure ends the command and leaves those paused.
PauseSource ==
    /\ export.step = "pause"
    /\ \/ /\ source' \in ModifyResources(source, "managed", "active", "paused")
          /\ UNCHANGED export
       \/ /\ ModifyResources(source, "managed", "active", "paused") = {}
          /\ export' = [export EXCEPT !.step = "scan"]
          /\ UNCHANGED source
       \/ /\ export' = EndExport(export, "failed")
          /\ UNCHANGED source
    /\ UNCHANGED <<inflight, changes, stable, archive, target, status, healthy, import>>

\* shouldExport and extraResources: the types this export is about.
ShouldExport(t) == t \in (CrossplaneTypes \cup ExtraTypes) \ ExcludedTypes

\* All definitions are listed, page by page, and those to export picked.
ScanTypes ==
    /\ export.step = "scan"
    /\ \/ export' = [export EXCEPT !.step = "types", !.todo = {t \in Types : ShouldExport(t)}]
       \/ export' = EndExport(export, "failed")
    /\ UNCHANGED <<source, inflight, changes, stable, archive, target, status, healthy, import>>

\* shouldSkip: namespaces out of scope, and what the Helm chart or the package
\* manager makes again.
ShouldSkip(r) == r \in Skipped

Fetched(t) == {r \in Present(source) : TypeOf[r] = t /\ ~ShouldSkip(r)}

\* A directory for the type, with its metadata file if there is one, unless
\* there are no resources.
PersistResources(t, metadata) == IF Fetched(t) = {} THEN {} ELSE Fetched(t) \cup metadata

\* A resource loses its uid, versions and owners on the way: what is written
\* can be applied to another control plane.
ExportResources(t, metadata) ==
    [export EXCEPT !.todo = @ \ {t}, !.files = @ \cup PersistResources(t, metadata)]

\* The metadata of a type: its categories, and if it has a status subresource.
ExportCrossplaneResources(t) == ExportResources(t, {t})

ExportNativeResource(t) == ExportResources(t, {})

ExportOf(t) == IF t \in NativeTypes THEN ExportNativeResource(t) ELSE ExportCrossplaneResources(t)

\* Mutant: a type is passed over whatever the error.
ExportTypeLeniently(t) ==
    /\ export.step = "types" /\ t \in export.todo
    /\ \/ t \notin inflight /\ export' = ExportOf(t)
       \/ export' = [export EXCEPT !.todo = @ \ {t}]
    /\ UNCHANGED <<source, inflight, changes, stable, archive, target, status, healthy, import>>

\* The resources of one type are fetched and written below the temporary
\* directory.  A type that is not found is passed over; any other error,
\* refused connections after their retries too, ends the command.
ExportType(t) ==
    /\ export.step = "types" /\ t \in export.todo
    /\ \/ /\ t \notin inflight
          /\ export' = ExportOf(t)
       \/ t \in inflight /\ export' = [export EXCEPT !.todo = @ \ {t}]
       \/ export' = EndExport(export, "failed")
    /\ UNCHANGED <<source, inflight, changes, stable, archive, target, status, healthy, import>>

ExportMetadata ==
    /\ export.step = "types" /\ export.todo = {}
    /\ \/ export' = [export EXCEPT !.step = "archive", !.files = @ \cup {ExportMeta}]
       \/ export' = EndExport(export, "failed")
    /\ UNCHANGED <<source, inflight, changes, stable, archive, target, status, healthy, import>>

Prefix(files, n) == files \cap {Walk[i] : i \in 1..n}
Whole(files) == [files |-> files, readable |-> TRUE]
Cut(files, readable) == {[files |-> Prefix(files, n), readable |-> readable] : n \in 0..Len(Walk)}

\* archive writes the final file in place.  A walk that fails ends the command
\* and leaves what was written: the tar and gzip writers are closed all the
\* same, so that what it leaves can be read, unless a file was cut in two.  The
\* errors of closing them, when they write what they still hold, are dropped.
Archive ==
    /\ export.step = "archive"
    /\ \/ /\ archive' = Whole(export.files)
          /\ export' = EndExport(export, "exported")
       \/ /\ archive' \in Cut(export.files, TRUE) \cup Cut(export.files, FALSE)
          /\ export' = EndExport(export, "failed")
       \/ /\ archive' \in Cut(export.files, FALSE)
          /\ export' = [EndExport(export, "exported") EXCEPT !.closed = FALSE]
    /\ UNCHANGED <<source, inflight, changes, stable, target, status, healthy, import>>

\* The source goes on: its controllers and users make and delete resources
\* and definitions while it is exported.
SourceChanges ==
    /\ export.step \in {"pause", "scan", "types"} /\ changes < MaxChanges
    /\ changes' = changes + 1
    /\ \/ \E r \in Resources :
             /\ source' = [source EXCEPT ![r] = IF @ = "absent" THEN "active" ELSE "absent"]
             /\ stable' = stable \ {r}
             /\ UNCHANGED inflight
       \/ \E t \in Types \ Base :
             /\ inflight' = inflight \cup {t}
             /\ stable' = {r \in stable : TypeOf[r] # t}
             /\ UNCHANGED source
    /\ UNCHANGED <<export, archive, target, status, healthy, import>>
-----------------------------------------------------------------------------
(* up migration import *)

NotRead == [made |-> FALSE, files |-> {}]

\* im.fs is set before the archive is read into it, so that a reading that
\* fails leaves the files read until then.
Unarchive == [made |-> TRUE, files |-> archive.files]

EndImport(result) == [import EXCEPT !.step = "ended", !.fs = NotRead, !.todo = {}, !.result = result]

RunImport(unpause) ==
    /\ export.step = "ended" /\ import.step \in {"idle", "ended"}
    /\ import.runs < MaxImports
    /\ import' = [import EXCEPT !.runs = @ + 1, !.step = "preflight",
                                !.unpause = unpause, !.result = "none"]
    /\ UNCHANGED <<source, inflight, changes, stable, export, archive, target, status, healthy>>

\* What the deployment of Crossplane in the target says of its version and
\* feature flags, next to what the archive says: or it cannot be asked.
CollectInfo == {"matches", "differs", "error"}

\* PreflightChecks finds Crossplane, reads the archive and compares versions
\* and feature flags with its export.yaml.  When one of them fails the user may
\* go on all the same.
Preflight ==
    /\ import.step = "preflight"
    /\ \E info \in CollectInfo :
          LET fs == IF info = "error" THEN NotRead ELSE Unarchive
              passed == info = "matches" /\ archive.readable /\ ExportMeta \in archive.files
          IN \/ import' = [import EXCEPT !.step = "read", !.fs = fs,
                               !.overridden = @ \/ ~passed]
             \/ ~passed /\ import' = EndImport("declined")
    /\ UNCHANGED <<source, inflight, changes, stable, export, archive, target, status, healthy>>

\* ReadResources, over the directories of these types: a missing one is empty.
ReadResources(fs, types) == {r \in fs.files \cap Resources : TypeOf[r] \in types}

\* Import reads the archive unless the preflight checks did.
Read ==
    /\ import.step = "read"
    /\ LET fs == IF import.fs.made THEN import.fs ELSE Unarchive
       IN import' = IF import.fs.made \/ archive.readable
                    THEN [import EXCEPT !.step = "base", !.fs = fs,
                              !.todo = ReadResources(fs, Base)]
                    ELSE EndImport("failed")
    /\ UNCHANGED <<source, inflight, changes, stable, export, archive, target, status, healthy>>

\* Mutant: composites are applied at work.
PausedButComposites(r) ==
    /\ TypeOf[r] \in import.fs.files
    /\ Category[TypeOf[r]] \in {"managed", "claim"}

\* Mutant: managed resources are applied at work.
PausedButManaged(r) ==
    /\ TypeOf[r] \in import.fs.files
    /\ Category[TypeOf[r]] \in {"claim", "composite"}

\* Claims, composites and managed resources are paused by the categories the
\* metadata file of their type lists; without the file nothing is paused, and
\* no status restored.
Paused(r) ==
    /\ TypeOf[r] \in import.fs.files
    /\ Category[TypeOf[r]] \in {"managed", "claim", "composite"}
RestoresStatus(r) == TypeOf[r] \in import.fs.files /\ TypeOf[r] \in StatusTypes

\* RESTMapping: the target has the definition of the type.
Defined(t) == DefinedBy[t] = {} \/ DefinedBy[t] \cap healthy # {}

\* Mutant: an error of the status request is not returned.
ApplyResourceLeniently(r, restoreStatus) ==
    /\ Defined(TypeOf[r])
    /\ target' = [target EXCEPT ![r] = IF Paused(r) THEN "paused" ELSE "active"]
    /\ status' \in {status, IF restoreStatus /\ RestoresStatus(r) THEN status \cup {r} ELSE status}
    /\ import' = [import EXCEPT !.todo = @ \ {r}]
    /\ UNCHANGED <<source, inflight, changes, stable, export, archive, healthy>>

\* ApplyResources applies a resource and then its status, two requests; the
\* import ends between them when it is killed or the second keeps failing.
\* For a type that is not defined it fails at once (ImportFails).
ApplyResource(r, restoreStatus) ==
    /\ Defined(TypeOf[r])
    /\ target' = [target EXCEPT ![r] = IF Paused(r) THEN "paused" ELSE "active"]
    /\ \/ /\ status' = IF restoreStatus /\ RestoresStatus(r) THEN status \cup {r} ELSE status
          /\ import' = [import EXCEPT !.todo = @ \ {r}]
       \/ /\ restoreStatus /\ RestoresStatus(r)
          /\ import' = EndImport("failed")
          /\ UNCHANGED status
    /\ UNCHANGED <<source, inflight, changes, stable, export, archive, healthy>>

BaseIndex(r) == CHOOSE i \in DOMAIN BaseTypes : BaseTypes[i] = TypeOf[r]

ImportBaseResource(r) ==
    /\ import.step = "base" /\ r \in import.todo
    /\ \A q \in import.todo : BaseIndex(r) <= BaseIndex(q)
    /\ ApplyResource(r, FALSE)

\* Mutant: the conditions are not waited for.
DoNotWait ==
    /\ import.step = "base" /\ import.todo = {}
    /\ import' = [import EXCEPT !.step = "rest", !.todo = ReadResources(import.fs, Types \ Base)]
    /\ UNCHANGED <<source, inflight, changes, stable, export, archive, target, status, healthy>>

\* waitForConditions for the XRDs, the packages and their revisions: those
\* the control plane has, imported or not.
WaitForConditions ==
    /\ import.step = "base" /\ import.todo = {}
    /\ {r \in Present(target) : TypeOf[r] \in ReadyTypes} \subseteq healthy
    /\ import' = [import EXCEPT !.step = "rest",
                      !.todo = ReadResources(import.fs, Types \ Base)]
    /\ UNCHANGED <<source, inflight, changes, stable, export, archive, target, status, healthy>>

ImportRemainingResource(r) ==
    /\ import.step = "rest" /\ r \in import.todo
    /\ ApplyResource(r, TRUE)

\* Finalization takes the categories one after the other; what is paused in
\* the control plane is unpaused, imported or not.
UnpauseCategory(category, next) ==
    /\ import.step = category
    /\ \/ /\ target' \in ModifyResources(target, category, "paused", "active")
          /\ UNCHANGED import
       \/ /\ ModifyResources(target, category, "paused", "active") = {}
          /\ import' = next
          /\ UNCHANGED target
    /\ UNCHANGED <<source, inflight, changes, stable, export, archive, status, healthy>>

To(step) == [import EXCEPT !.step = step]

Finalize ==
    \/ /\ import.step = "rest" /\ import.todo = {}
       /\ import' = To("composite")
       /\ UNCHANGED <<source, inflight, changes, stable, export, archive, target, status, healthy>>
    \/ UnpauseCategory("composite", To("claim"))
    \/ UnpauseCategory("claim", IF import.unpause THEN To("managed") ELSE EndImport("imported"))
    \/ UnpauseCategory("managed", EndImport("imported"))

\* An error its retries did not cure, a wait of ten minutes, or a kill.
ImportFails ==
    /\ import.step \notin {"idle", "ended", "preflight"}
    /\ import' = EndImport("failed")
    /\ UNCHANGED <<source, inflight, changes, stable, export, archive, target, status, healthy>>
-----------------------------------------------------------------------------
(* The target's controllers *)

BecomeHealthy(r) ==
    /\ TypeOf[r] \in ReadyTypes /\ target[r] # "absent" /\ r \notin healthy
    /\ healthy' = healthy \cup {r}
    /\ UNCHANGED <<source, inflight, changes, stable, export, archive, target, status, import>>

\* The controller of a claim or a composite makes what it finds missing.
Reconcile(r) ==
    /\ target[r] \in {"active", "created"}
    /\ \E q \in Composes[r] :
          /\ target[q] = "absent" /\ Defined(TypeOf[q])
          /\ target' = [target EXCEPT ![q] = "created"]
    /\ UNCHANGED <<source, inflight, changes, stable, export, archive, status, healthy, import>>
-----------------------------------------------------------------------------
MigrationInit ==
    /\ source = [r \in Resources |-> "active"]
    /\ inflight = {} /\ changes = 0 /\ stable = {}
    /\ export = [step |-> "idle", todo |-> {}, files |-> {}, result |-> "none", closed |-> TRUE]
    /\ archive = [files |-> {}, readable |-> FALSE]
    /\ target = [r \in Resources |-> "absent"]
    /\ status = {} /\ healthy = {}
    /\ import = [step |-> "idle", fs |-> NotRead, todo |-> {}, unpause |-> FALSE,
                 overridden |-> FALSE, result |-> "none", runs |-> 0]

MigrationNext ==
    \/ \E b \in BOOLEAN : RunExport(b) \/ RunImport(b)
    \/ PauseSource \/ ScanTypes \/ ExportMetadata \/ Archive \/ SourceChanges
    \/ \E t \in Types : ExportType(t)
    \/ Preflight \/ Read \/ WaitForConditions \/ Finalize \/ ImportFails
    \/ \E r \in Resources : \/ ImportBaseResource(r) \/ ImportRemainingResource(r)
                            \/ BecomeHealthy(r) \/ Reconcile(r)

MigrationSpec == MigrationInit /\ [][MigrationNext]_migrationVars
-----------------------------------------------------------------------------
\* When the export says it succeeded, and the last buffers reached the disk,
\* the archive is whole and holds every resource in its scope that was there all
\* along, whatever changed around it, and none that the target must make itself
\* (export.go: Export, archive; fetch.go: shouldSkip).
ExportComplete ==
    export.result = "exported" /\ export.closed =>
        /\ archive.readable
        /\ {r \in stable \ Skipped : ShouldExport(TypeOf[r])} \subseteq archive.files
        /\ Skipped \cap archive.files = {}
        /\ \A r \in archive.files \cap Resources :
              TypeOf[r] \in archive.files \cup NativeTypes

\* The archive has the metadata of the types of which it has resources.  What a
\* failed export leaves need not: cluster/ comes before metadata.yaml.
Described(r) == TypeOf[r] \in archive.files \cup NativeTypes

\* "fully imported" is true: after an import whose preflight checks passed,
\* also one that runs over the remains of failed ones, every archived
\* resource is there, with its status, claims and composites at work and the
\* managed resources paused unless the user asked otherwise (import.go: Import).
\* Those without the metadata of their type are there, and at work.
ImportComplete ==
    import.result = "imported" /\ ~import.overridden =>
        \A r \in archive.files \cap Resources :
            /\ target[r] = IF r \in Of("managed") /\ Described(r) /\ ~import.unpause
                           THEN "paused" ELSE "active"
            /\ TypeOf[r] \in StatusTypes \ Base /\ Described(r) => r \in status

\* No controller of the target ever makes a second copy of a resource the
\* archive holds: nothing is unpaused before everything is imported, if the
\* archive is one in which every resource is described (import.go: the order of
\* Import; resource.go: pausing).
NoSecondCopy ==
    ~import.overridden /\ (\A r \in archive.files \cap Resources : Described(r)) =>
        \A r \in archive.files \cap Resources : target[r] # "created"

\* A resource that a package or an XRD defines is applied only after all the
\* archived packages and XRDs are there and ready (import.go: waitForConditions).
DefinedFirst ==
    [][\A r \in Resources :
          target[r] = "absent" /\ target'[r] \in {"active", "paused"} /\ TypeOf[r] \notin Base =>
             {q \in import.fs.files \cap Resources : TypeOf[q] \in ReadyTypes} \subseteq healthy]_migrationVars

\* A managed resource that is described starts to act on the cloud only when
\* the user asked for it and all the rest is imported, in every import whose
\* preflight checks passed (import.go: UnpauseAfterImport).
ManagedUnpausedLast ==
    [][\A r \in Of("managed") :
          target[r] # "active" /\ target'[r] = "active" /\ ~import.overridden /\ Described(r) =>
             /\ import.unpause
             /\ archive.files \cap Resources \subseteq Present(target)
             /\ \A q \in Of("composite") \cup Of("claim") : target[q] # "paused"]_migrationVars

\* "By default, all managed resources will be paused during the import
\* process" (cmd/up/migration/import.go:53): said without a condition, and not so
\* for one that is not described, after preflight checks that passed.
ManagedPausedByDefault ==
    [][\A r \in Of("managed") :
          target[r] # "active" /\ target'[r] = "active" /\ ~import.overridden => import.unpause]_migrationVars

=============================================================================
