--------------------------- MODULE LanguageServer ---------------------------
(***************************************************************************)
(* `up xpls serve` beside `up xpkg dep`: the commands fetch the packages a  *)
(* workspace depends on into the cache; the language server builds a        *)
(* snapshot of workspace and cache, and builds it again when a poll of the  *)
(* cache shows a change, the editor saves, or a file of the workspace       *)
(* changes.  They share files and no lock.                                  *)
(***************************************************************************)
EXTENDS PackageCache, SequencesExt

CONSTANTS
    DepCommands,  \* runs of `up xpkg dep`
    Wanted,       \* [DepCommands -> SUBSET Dependencies]: its argument, if any
    Published,    \* the keys first in the registry
    Pushed,       \* the keys an image is pushed to meanwhile
    Declared,     \* the dependencies first in the workspace's crossplane.yaml
    MaxPushes,    \* bound: times a tag of the registry is pushed
    MaxKills,     \* bound: commands killed
    MaxEdits      \* bound: edits of the open document

ASSUME ServerAssumption ==
    /\ Wanted \in [DepCommands -> SUBSET Dependencies] /\ \A c \in DepCommands : IsFiniteSet(Wanted[c])
    /\ Declared \in SUBSET Dependencies /\ IsFiniteSet(Declared)
    /\ Published \subseteq Keys /\ Pushed \subseteq Keys

VARIABLES
    registry,  \* [Keys -> digest], 0 when there is no such tag
    cache,     \* [Keys -> entry]
    depends,   \* the dependencies in crossplane.yaml
    command,   \* [DepCommands -> its step, what it has to add, ...]
    server,    \* the server: its state, goroutines waiting for the lock
    build,     \* the snapshot being built under the lock, and for whom
    snapshot,  \* the snapshot the handlers use
    loaded,    \* Manager.acc of the server: the package last read of each name
    poll,      \* the watcher: has it a baseline, has anything changed since
    document,  \* the open document: in the editor, on disk; messages not handled
    shown,     \* the diagnostics last published, and those on their way
    torn,      \* keys a command was killed at, or two commands wrote at once
    claims,    \* what commands added to the cache and nobody touched since
    count      \* pushes and kills so far

packageVars == <<registry, cache, depends, command, server, build, snapshot, loaded,
                 poll, document, shown, torn, claims, count>>
cacheVars == <<cache, torn, claims>>
serverVars == <<server, build, snapshot, loaded, document, shown>>

NoKey == <<>>
NoPackage == [version |-> 0, digest |-> 0, objects |-> 0]
NoPackages == [p \in Packages |-> NoPackage]
-----------------------------------------------------------------------------
(* up xpkg dep: Manager.AddAll over Local.Store *)

Steps == {"idle", "resolve", "get", "fetch", "clean", "create", "meta", "objects",
          "mark", "cleaning", "ended", "failed"}
Storing == {"create", "meta", "objects", "mark"}

\* A poll sees any file that changes below the root of the cache, once it has
\* a baseline; what changes between the first snapshot and the baseline is
\* missed.
CacheChanges ==
    poll' = [poll EXCEPT !.dirty = poll.watching,
                         !.missed = @ \/ server.state = "initializing"]

WritersBut(c, key) == {d \in DepCommands \ {c} : command[d].step \in Storing /\ command[d].key = key}
Idle == [step |-> "idle", todo |-> <<>>, key |-> NoKey, first |-> NoKey,
         digest |-> 0, least |-> 0, given |-> {}]
Step(c, step) == command' = [command EXCEPT ![c].step = step]
Stop(c, step) == command' = [command EXCEPT ![c] = [Idle EXCEPT !.step = step]]
Unclaimed(key) == {claim \in claims : claim.key # key}

\* A run: --clean-cache, or else it reads the workspace, and adds the package
\* it is given or all that crossplane.yaml names.
RunDep(c) ==
    /\ command[c].step = "idle"
    /\ \/ Step(c, "cleaning")
       \/ command' = [command EXCEPT ![c] =
            [@ EXCEPT !.step = "resolve", !.given = depends,
                      !.todo = SetToSeq(IF Wanted[c] # {} THEN Wanted[c] ELSE depends)]]
    /\ UNCHANGED <<registry, serverVars, cacheVars, depends, poll, count>>

\* Local.Clean: the files of one entry after the other, then no directory.
CleanCache(c) ==
    /\ command[c].step = "cleaning"
    /\ \/ \E key \in Keys :
            /\ cache[key].dir
            /\ cache' = [cache EXCEPT ![key] = NoEntry]
            /\ claims' = Unclaimed(key)
            /\ torn' = IF WritersBut(c, key) # {} THEN torn \cup {key} ELSE torn \ {key}
            /\ CacheChanges
            /\ UNCHANGED command
       \/ /\ \A key \in Keys : ~cache[key].dir
          /\ Stop(c, "ended")
          /\ UNCHANGED <<cacheVars, poll>>
    /\ UNCHANGED <<registry, serverVars, depends, count>>

\* ResolveTag: the newest allowed version the registry has.
ResolveTag(c) ==
    /\ command[c].step = "resolve" /\ command[c].todo # <<>>
    /\ LET d == Head(command[c].todo)
           tags == Tags(registry, d)
       IN  IF tags = {} THEN Stop(c, "failed")
           ELSE command' = [command EXCEPT ![c] =
                    [@ EXCEPT !.step = "get", !.key = <<d.pkg, Newest(tags)>>,
                              !.least = registry[<<d.pkg, Newest(tags)>>]]]
    /\ UNCHANGED <<registry, serverVars, cacheVars, depends, poll, count>>

\* The package is in the cache; its own dependencies come next.
Added(c, digest, tornKeys) ==
    LET key == command[c].key IN
    /\ command' = [command EXCEPT ![c] =
            [@ EXCEPT !.step = "resolve", !.key = NoKey, !.digest = 0, !.least = 0,
                      !.todo = PackageDeps[key] \o Tail(command[c].todo),
                      !.first = IF command[c].first = NoKey THEN key ELSE command[c].first]]
    /\ claims' = Unclaimed(key) \cup
            (IF key \in tornKeys \/ WritersBut(c, key) # {} THEN {}
             ELSE {[key |-> key, digest |-> digest, least |-> command[c].least]})

GetAnyDigest(c) == \* Mutant: the digest in the registry is not compared
    /\ command[c].step = "get"
    /\ LET entry == cache[command[c].key] IN
       \/ ~entry.file /\ Step(c, "fetch") /\ UNCHANGED claims
       \/ entry.file /\ ~Parses(entry) /\ Stop(c, "failed") /\ UNCHANGED claims
       \/ entry.file /\ Parses(entry) /\ Added(c, ImageDigest(entry), torn)
    /\ UNCHANGED <<registry, serverVars, cache, torn, depends, poll, count>>

\* retrieveAndStorePkg: what is cached is kept if its digest is still the
\* registry's; an entry that cannot be read fails the command.
GetPackage(c) ==
    /\ command[c].step = "get"
    /\ LET entry == cache[command[c].key] IN
       \/ ~entry.file /\ Step(c, "fetch") /\ UNCHANGED claims
       \/ entry.file /\ ~Parses(entry) /\ Stop(c, "failed") /\ UNCHANGED claims
       \/ /\ entry.file /\ Parses(entry)
          /\ IF ImageDigest(entry) # registry[command[c].key]
             THEN Step(c, "fetch") /\ UNCHANGED claims
             ELSE Added(c, ImageDigest(entry), torn)
    /\ UNCHANGED <<registry, serverVars, cache, torn, depends, poll, count>>

\* The image the tag has by now.
FetchImage(c) ==
    /\ command[c].step = "fetch"
    /\ \/ command' = [command EXCEPT ![c] =
            [@ EXCEPT !.step = "clean", !.digest = registry[command[c].key]]]
       \/ Stop(c, "failed")
    /\ UNCHANGED <<registry, serverVars, cacheVars, depends, poll, count>>

\* Local.Store empties the entry there is, but not one that does not parse.
CleanEntry(c) ==
    /\ command[c].step = "clean"
    /\ LET key == command[c].key IN
       IF cache[key].file /\ ~Parses(cache[key])
       THEN Stop(c, "failed") /\ UNCHANGED <<cacheVars, poll>>
       ELSE /\ Step(c, "create")
            /\ cache' = [cache EXCEPT ![key] = [Cleaned(@) EXCEPT !.dir = TRUE]]
            /\ claims' = Unclaimed(key)
            /\ torn' = IF WritersBut(c, key) # {} THEN torn \cup {key} ELSE torn \ {key}
            /\ CacheChanges
    /\ UNCHANGED <<registry, serverVars, depends, count>>

\* flush: package.json is created with the image's record, then the meta
\* object and the others are appended, each with a write of its own.  Once
\* another process has removed the directory the write fails.
Flush(c, from, to, entry) ==
    /\ command[c].step = from
    /\ IF cache[command[c].key].dir
       THEN /\ Step(c, to)
            /\ cache' = [cache EXCEPT ![command[c].key] = entry]
            /\ CacheChanges
       ELSE Stop(c, "failed") /\ UNCHANGED <<cache, poll>>
    /\ UNCHANGED <<registry, serverVars, torn, claims, depends, count>>

WriteImageMeta(c) == Flush(c, "create", "meta", Created(command[c].digest))
WriteMeta(c) ==
    Flush(c, "meta", "objects", Appended(cache[command[c].key], "meta", command[c].digest))
WriteObject(c) ==
    /\ command[c].step = "objects"
    /\ LET entry == cache[command[c].key]
           last == Count(entry, "object") + 1 >= Objects
       IN  Flush(c, "objects", IF last THEN "mark" ELSE "objects",
                 Appended(entry, "object", command[c].digest))

\* A file named like the digest ends the entry; nothing reads it.
WriteDigest(c) ==
    /\ command[c].step = "mark"
    /\ IF cache[command[c].key].dir
       THEN Added(c, command[c].digest, torn) /\ CacheChanges
       ELSE Stop(c, "failed") /\ UNCHANGED <<claims, poll>>
    /\ UNCHANGED <<registry, serverVars, cache, torn, depends, count>>

\* Meta.Upsert, on crossplane.yaml as it was when the command started.
Upserted(deps, d) == {e \in deps : e.pkg # d.pkg} \cup {d}

\* All is added.  A package given by the user becomes a dependency of the
\* workspace, in the version that was added, and the editor sees the file change.
EndDep(c) ==
    /\ command[c].step = "resolve" /\ command[c].todo = <<>>
    /\ Stop(c, "ended")
    /\ IF Wanted[c] = {} THEN UNCHANGED <<depends, document>>
       ELSE /\ depends' = Upserted(command[c].given,
                    [pkg |-> command[c].first[1], allowed |-> {command[c].first[2]}])
            /\ document' = [document EXCEPT !.messages =
                    IF server.state = "running" THEN Append(@, "files") ELSE @]
    /\ poll' = [poll EXCEPT !.missed = @ \/ (server.state = "initializing" /\ depends' # depends)]
    /\ UNCHANGED <<registry, cacheVars, server, build, snapshot, loaded, shown, count>>

\* The user, or the machine, stops a command.
KillDep(c) ==
    /\ count.kills < MaxKills
    /\ command[c].step \in Storing
    /\ Stop(c, "failed")
    /\ torn' = torn \cup {command[c].key}
    /\ count' = [count EXCEPT !.kills = @ + 1]
    /\ UNCHANGED <<registry, serverVars, cache, claims, depends, poll>>

\* Someone pushes a new image under a tag, old or new.
Push ==
    /\ count.pushes < MaxPushes
    /\ \E key \in Pushed : registry' = [registry EXCEPT ![key] = @ + 1]
    /\ count' = [count EXCEPT !.pushes = @ + 1]
    /\ UNCHANGED <<serverVars, cacheVars, depends, command, poll>>

Dep(c) ==
    \/ RunDep(c) \/ CleanCache(c) \/ ResolveTag(c) \/ GetPackage(c) \/ FetchImage(c)
    \/ CleanEntry(c) \/ WriteImageMeta(c) \/ WriteMeta(c) \/ WriteObject(c)
    \/ WriteDigest(c) \/ EndDep(c) \/ KillDep(c)
-----------------------------------------------------------------------------
(* up xpls serve: the snapshot, built under the lock of the server *)

\* The goroutines that publish, and the files they publish for.
Publishers == {"handler", "save", "watch", "check"}
WorkspaceFiles == {"meta", "document"}

NoBuild == [by |-> "none", text |-> {}, deps |-> {}, roots |-> <<>>, todo |-> <<>>,
            packages |-> NoPackages]

\* Validations and publications of these goroutines are still to come.
Publishing(bys) == (\E file \in WorkspaceFiles, by \in bys : <<by, file>> \in shown.due) \/ \E p \in shown.coming : p.by \in bys

\* The lock is free: nobody builds, or publishes what he has built.
Unlocked == build.by = "none" /\ ~Publishing({"watch", "save"})

BeginBuildFromSnapshot(by) == \* Mutant: a workspace already parsed is used again
    /\ Unlocked
    /\ build' = [NoBuild EXCEPT !.by = by, !.deps = depends, !.roots = SetToSeq(depends),
                    !.text = IF by = "init" THEN document.disk ELSE snapshot.text]

\* The objects of a text: one, named like the text.
Parsed(text) == {text}

\* Factory.New begins with Workspace.Parse: the files as they are on disk.
BeginBuild(by) ==
    /\ Unlocked
    /\ build' = [NoBuild EXCEPT !.by = by, !.text = document.disk, !.deps = depends,
                                !.roots = SetToSeq(depends)]

\* The editor starts the server.
Initialize ==
    /\ server.state = "off"
    /\ server' = [server EXCEPT !.state = "initializing"]
    /\ BeginBuild("init")
    /\ UNCHANGED <<registry, cacheVars, depends, command, snapshot, loaded, document, shown, poll, count>>

\* A snapshot that cannot be built: a handler keeps the one it has, Initialize
\* and the watcher go on without one, and panic.
BuildFails ==
    /\ build' = NoBuild
    /\ server' = IF build.by \in {"init", "watch"}
                 THEN [server EXCEPT !.state = "panicked", !.by = build.by]
                 ELSE server

\* Manager.View: a dependency and those of its package, depth first, each in
\* the newest version the cache has a directory for.  What is not there skips
\* the root, an entry that does not parse fails the View.  m.acc is never
\* emptied: a root that resolves brings in all that was ever read.
CachedPackage(key) ==
    [version |-> key[2], digest |-> ImageDigest(cache[key]), objects |-> Count(cache[key], "object")]

ViewPackage ==
    /\ build.by # "none" /\ build.roots \o build.todo # <<>>
    /\ LET root == build.todo = <<>>
           d == Head(build.todo \o build.roots)
           roots == IF root THEN Tail(build.roots) ELSE build.roots
           key == <<d.pkg, Newest(CachedVersions(cache, d))>>
           todo == PackageDeps[key] \o (IF root THEN <<>> ELSE Tail(build.todo))
       IN  IF CachedVersions(cache, d) = {} \/ ~cache[key].file
           THEN /\ build' = [build EXCEPT !.roots = roots, !.todo = <<>>]
                /\ UNCHANGED <<loaded, server>>
           ELSE IF ~Parses(cache[key]) THEN BuildFails /\ UNCHANGED loaded
           ELSE /\ loaded' = [loaded EXCEPT ![d.pkg] = CachedPackage(key)]
                /\ build' = [build EXCEPT !.roots = roots, !.todo = todo,
                                          !.packages = IF todo = <<>> THEN loaded' ELSE @]
                /\ UNCHANGED server
    /\ UNCHANGED <<registry, cacheVars, depends, command, snapshot, document, shown, poll, count>>

\* Validate: for crossplane.yaml the dependencies no version in the cache
\* satisfies, for the document its objects and the packages whose kinds are
\* not known.
UnknownKinds(packages) == {p \in Packages : packages[p].objects < Objects}
MetaDiagnostics(snap) == {d \in snap.deps : CachedVersions(cache, d) = {}}
DocumentDiagnostics(snap) ==
    [nodes |-> snap.nodes, unknown |-> UnknownKinds(snap.packages)]

Diagnostics(file) == IF file = "meta" THEN MetaDiagnostics(snapshot) ELSE DocumentDiagnostics(snapshot)

\* A goroutine takes the snapshot and validates a file; what others found
\* earlier, and have not published yet, is old.
Validated(by, file) ==
    [shown EXCEPT !.due = @ \ {<<by, file>>},
                  !.coming = {[p EXCEPT !.old = p.old \/ p.file = file] : p \in @}
                        \cup {[by |-> by, file |-> file, diags |-> Diagnostics(file), old |-> FALSE]}]

\* The snapshot is in place, and the lock still held.  The watcher goes on to
\* validate all files and DidSave the file saved.  DidChangeWatchedFiles ends:
\* it looks for "file://" in a name that no longer has it (server.unpublished,
\* from when it begins).
BuildEndsFor(files) ==
    /\ build.by # "none" /\ build.roots \o build.todo = <<>>
    /\ build' = NoBuild
    /\ snapshot' = [text |-> build.text, nodes |-> Parsed(build.text), deps |-> build.deps, packages |-> build.packages]
    /\ server' = [server EXCEPT !.unpublished = @ /\ build.by # "watch"]
    /\ shown' = [shown EXCEPT !.due = @ \cup {build.by} \X files]
    /\ UNCHANGED <<registry, cacheVars, depends, command, loaded, document, poll, count>>

EndBuildForDocument == \* Mutant: the watcher publishes for the open document only
    BuildEndsFor(IF build.by \in {"watch", "save"} THEN {"document"} ELSE {})

EndBuild ==
    BuildEndsFor(IF build.by = "watch" THEN WorkspaceFiles ELSE IF build.by = "save" THEN {"document"} ELSE {})

Validate ==
    /\ server.state = "running"
    /\ \E due \in shown.due : shown' = Validated(due[1], due[2])
    /\ UNCHANGED <<registry, cacheVars, depends, command, server, build, snapshot, loaded, document, poll, count>>

\* publishDiagnostics, once the goroutine has validated all its files: what
\* comes last is what the editor shows.
Publish ==
    /\ server.state = "running"
    /\ \E p \in shown.coming :
        /\ \A file \in WorkspaceFiles : <<p.by, file>> \notin shown.due
        /\ shown' = [shown EXCEPT ![p.file] = p.diags, !.coming = @ \ {p},
                                  !.old = IF p.old THEN @ \cup {p.file} ELSE @ \ {p.file}]
    /\ UNCHANGED <<registry, cacheVars, depends, command, server, build, snapshot, loaded, document, poll, count>>

\* The rest of Initialize: only now does the watcher take its baseline.
StartWatching ==
    /\ server.state = "initializing" /\ build.by = "none"
    /\ server' = [server EXCEPT !.state = "running", !.unchecked = TRUE]
    /\ poll' = [poll EXCEPT !.watching = TRUE]
    /\ UNCHANGED <<registry, cacheVars, depends, command, build, snapshot, loaded, document, shown, count>>

\* Its goroutine, without the lock.
CheckMetaFile ==
    /\ server.state = "running" /\ server.unchecked
    /\ server' = [server EXCEPT !.unchecked = FALSE]
    /\ shown' = Validated("check", "meta")
    /\ UNCHANGED <<registry, cacheVars, depends, command, build, snapshot, loaded, document, poll, count>>

\* A poll that finds a change sends one event, whatever has changed; a
\* goroutine for it then waits for the lock.  Bound: one waits.
Poll ==
    /\ poll.dirty /\ server.state = "running" /\ server.waiting = 0
    /\ poll' = [poll EXCEPT !.dirty = FALSE]
    /\ server' = [server EXCEPT !.waiting = 1]
    /\ UNCHANGED <<registry, cacheVars, depends, command, build, snapshot, loaded, document, shown, count>>

WatchSnapshotIfIdle == \* Mutant: an event is dropped while a snapshot is being built
    /\ server.state = "running" /\ server.waiting = 1
    /\ server' = [server EXCEPT !.waiting = 0]
    /\ BeginBuild("watch") \/ (~Unlocked /\ UNCHANGED build)
    /\ UNCHANGED <<registry, cacheVars, depends, command, snapshot, loaded, document, shown, poll, count>>

WatchSnapshot ==
    /\ server.state = "running" /\ server.waiting = 1
    /\ server' = [server EXCEPT !.waiting = 0]
    /\ BeginBuild("watch")
    /\ UNCHANGED <<registry, cacheVars, depends, command, snapshot, loaded, document, shown, poll, count>>
-----------------------------------------------------------------------------
(* The editor and the handlers of its messages, one message at a time *)

\* An edit is sent as the range it replaces, a save after the file is written;
\* the editor also reports the file its save changed.
EditDocument ==
    /\ server.state = "running"
    /\ document.editor < MaxEdits
    /\ document' = [document EXCEPT !.editor = @ + 1, !.messages = Append(@, "change")]
    /\ UNCHANGED <<registry, cacheVars, depends, command, server, build, snapshot, loaded, shown, poll, count>>

SaveDocument ==
    /\ server.state = "running"
    /\ document.disk # 1 .. document.editor
    /\ document' = [document EXCEPT !.disk = 1 .. document.editor, !.messages = @ \o <<"save", "files">>]
    /\ UNCHANGED <<registry, cacheVars, depends, command, server, build, snapshot, loaded, shown, poll, count>>

Handles(message) ==
    /\ server.state = "running"
    /\ build.by \notin {"save", "files"}
    /\ document.messages # <<>> /\ Head(document.messages) = message
    /\ ~document.parsing /\ ~Publishing({"handler", "save"})

DidOpen ==
    /\ Handles("open")
    /\ document' = [document EXCEPT !.messages = Tail(@)]
    /\ shown' = Validated("handler", "document")
    /\ UNCHANGED <<registry, cacheVars, depends, command, server, build, snapshot, loaded, poll, count>>

\* UpdateContent, not under the server's lock: the range is applied to the
\* text the snapshot has.  If that is not the text it was made for, the result
\* is garbled (0) or the range is refused.
UpdateContent ==
    /\ Handles("change")
    /\ LET edit == document.changes + 1
           insync == snapshot.text = 1 .. document.changes
       IN  \/ /\ document' = [document EXCEPT !.changes = edit, !.parsing = TRUE]
              /\ snapshot' = [snapshot EXCEPT !.text = @ \cup {edit} \cup (IF insync THEN {} ELSE {0})]
           \/ /\ ~insync
              /\ document' = [document EXCEPT !.changes = edit, !.messages = Tail(@)]
              /\ UNCHANGED snapshot
    /\ UNCHANGED <<registry, cacheVars, depends, command, server, build, loaded, shown, poll, count>>

\* ReParseFile adds the objects of the text, on whatever snapshot there is by
\* now, and removes none; then DidChange validates, on whatever there is then.
ReParseFile ==
    /\ server.state = "running" /\ document.parsing
    /\ document' = [document EXCEPT !.parsing = FALSE, !.messages = Tail(@)]
    /\ snapshot' = [snapshot EXCEPT !.nodes = @ \cup Parsed(snapshot.text)]
    /\ shown' = [shown EXCEPT !.due = @ \cup {<<"handler", "document">>}]
    /\ UNCHANGED <<registry, cacheVars, depends, command, server, build, loaded, poll, count>>

\* DidSave and DidChangeWatchedFiles build a snapshot while they hold the lock.
DidSave ==
    /\ Handles("save") /\ BeginBuild("save")
    /\ document' = [document EXCEPT !.messages = Tail(@)]
    /\ UNCHANGED <<registry, cacheVars, depends, command, server, snapshot, loaded, shown, poll, count>>

DidChangeWatchedFiles ==
    /\ Handles("files") /\ BeginBuild("files")
    /\ document' = [document EXCEPT !.messages = Tail(@)]
    /\ server' = [server EXCEPT !.unpublished = TRUE]
    /\ UNCHANGED <<registry, cacheVars, depends, command, snapshot, loaded, shown, poll, count>>

Serve ==
    \/ Initialize \/ ViewPackage \/ EndBuild \/ Validate \/ Publish \/ StartWatching \/ CheckMetaFile \/ Poll
    \/ WatchSnapshot \/ DidOpen \/ UpdateContent \/ ReParseFile \/ DidSave \/ DidChangeWatchedFiles
Editor == EditDocument \/ SaveDocument
-----------------------------------------------------------------------------
PackageInit ==
    /\ registry = [key \in Keys |-> IF key \in Published THEN 1 ELSE 0]
    /\ cache = [key \in Keys |-> NoEntry]
    /\ depends = Declared
    /\ command = [c \in DepCommands |-> Idle]
    /\ server = [state |-> "off", by |-> "none", waiting |-> 0,
                 unchecked |-> FALSE, unpublished |-> FALSE]
    /\ build = NoBuild
    /\ snapshot = [text |-> {}, nodes |-> {}, deps |-> {}, packages |-> NoPackages]
    /\ loaded = NoPackages
    /\ poll = [watching |-> FALSE, dirty |-> FALSE, missed |-> FALSE]
    /\ document = [editor |-> 0, disk |-> {}, messages |-> <<"open">>, parsing |-> FALSE, changes |-> 0]
    /\ shown = [meta |-> {}, document |-> [nodes |-> {}, unknown |-> {}], old |-> {},
                due |-> {}, coming |-> {}]
    /\ torn = {} /\ claims = {}
    /\ count = [pushes |-> 0, kills |-> 0]

PackageNext == (\E c \in DepCommands : Dep(c)) \/ Push \/ Serve \/ Editor

PackageSpec == PackageInit /\ [][PackageNext]_packageVars
-----------------------------------------------------------------------------
(* What a command has added to the cache is there whole, all of one image,
   and that image is no older than the one the tag had when the command asked
   for it; until someone cleans or replaces the entry, and unless a command was
   killed at the entry or two wrote it at once.                              *)
AddedIsCached ==
    \A claim \in claims \ {claim \in claims : claim.key \in torn} :
        /\ WholeEntry(cache[claim.key])
        /\ ImageDigest(cache[claim.key]) = claim.digest
        /\ claim.digest >= claim.least

Quiet ==
    /\ server.state = "running" /\ build.by = "none" /\ server.waiting = 0 /\ ~server.unchecked
    /\ ~poll.dirty /\ document.messages = <<>> /\ ~document.parsing
    /\ shown.due = {} /\ shown.coming = {}

\* What a dependency finds in the cache: nothing, a package, or an entry that
\* does not parse.
LocalKey(d) == <<d.pkg, Newest(CachedVersions(cache, d))>>
InCache(d) == CachedVersions(cache, d) # {} /\ cache[LocalKey(d)].file
Readable(d) == InCache(d) /\ Parses(cache[LocalKey(d)])
Broken(d) == InCache(d) /\ ~Parses(cache[LocalKey(d)])

\* The dependencies of the workspace and those of the packages they find.
Closed(deps) ==
    /\ depends \subseteq deps
    /\ \A d \in deps : Readable(d) => Range(PackageDeps[LocalKey(d)]) \subseteq deps
NeededDeps == {d \in Dependencies : \A deps \in SUBSET Dependencies : Closed(deps) => d \in deps}

(* A server with nothing left to do has caught up: if all the workspace needs
   is in the cache and can be read, its snapshot has just these packages, as
   the cache has them now; however the commands' writes, the polls, the saves
   and the builds were interleaved.  Changes before the watcher's baseline
   apart; and a handler that meets an entry it cannot read keeps the snapshot
   it has.                                                                   *)
QuietServerIsCurrent ==
    Quiet /\ ~poll.missed /\ (\A d \in NeededDeps : Readable(d)) =>
        \A d \in NeededDeps : \E e \in NeededDeps :
            e.pkg = d.pkg /\ snapshot.packages[d.pkg] = CachedPackage(LocalKey(e))

(* A saved document is served as it was saved: nothing left to do, the text of
   the snapshot is the file's and its objects are those of that text, whatever
   edits a rebuild dropped, or built into the wrong text, before the save;
   unless an entry that cannot be read stopped the rebuild.                  *)
SavedIsServed ==
    Quiet /\ ~poll.missed /\ document.disk = 1 .. document.editor /\ (\A d \in NeededDeps : ~Broken(d)) =>
        snapshot.text = document.disk /\ snapshot.nodes = {document.disk}

(* What the editor shows has caught up too: the dependencies marked as not in
   the cache are those that are not, and the document is marked as validating
   the snapshot now would mark it, whatever was edited, rebuilt or fetched
   between a snapshot and its validation, or a validation and its publication;
   except after a rebuild that DidChangeWatchedFiles did not publish, and where
   the publication of an older validation came after that of a newer one, which
   the lock does not rule out.                                               *)
DiagnosticsCatchUp ==
    Quiet /\ ~poll.missed /\ ~server.unpublished =>
        \A file \in WorkspaceFiles \ shown.old : shown[file] = Diagnostics(file)

(* "Handle handles LSP requests. It panics if we cannot initialize the
   workspace." (internal/xpls/handler/handler.go:67): it does not panic later. *)
PanicsOnlyAtInitialize == server.state = "panicked" => server.by = "init"
=============================================================================
